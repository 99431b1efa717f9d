--------------------------- MODULE OwnershipFlow ----------------------------
(***************************************************************************)
(* What the checker knows of the bindings of a body while it goes through  *)
(* its text once: which are moved, which are lent, what each view is of    *)
(* (FlowState of py_compiler/mir/ownership/flow.py), as branches fork,     *)
(* loops jump and both join (syntax/block/if.py, while.py).  At a join,    *)
(* owners that only some of the branches moved are released on the others  *)
(* (reconcile_owners), and at the end of a scope those that are left       *)
(* (cleanup_memory of hir/thir/src/checking.py).                           *)
(*                                                                         *)
(* The program is any text of a few sentences that the checker accepts: a  *)
(* sentence it rejects is no step.  Beside the checker's state, stores     *)
(* holds what is in memory on each path that leads to this point of the    *)
(* text, as the operations that the checker emits leave it.                *)
(***************************************************************************)
EXTENDS Integers, FiniteSets, Sequences

CONSTANTS
  Bindings,
  Nobody,
  Styles,       \* a set of records [retakes, revives, rehandles], see MayRebind
  MaxLength,    \* bound on the sentences of a body
  MaxDepth      \* bound on nested blocks

ASSUME OwnershipFlowAssumption ==
  /\ IsFiniteSet(Bindings) /\ Nobody \notin Bindings
  /\ Styles \subseteq [retakes : BOOLEAN, revives : BOOLEAN, rehandles : BOOLEAN]
  /\ MaxLength \in Nat /\ MaxDepth \in Nat

VARIABLES
  style,      \* the member of Styles that this program keeps to
  length,     \* sentences so far
  env,        \* env[n]: "own", "view" or "borrow" if n is visible, or "none"
  locals,     \* bindings declared in this block
  quiet,      \* borrows that the rest of their block does not mention
  flow,       \* [moved, loans, views]
  open,       \* is the point reached, or does the block end in a jump?
  stores,     \* what may be in memory here
  frames,     \* the blocks around
  finished,   \* memory where a path returned
  faults      \* what went wrong on a path

flowVars == <<style, length, env, locals, quiet, flow, open, stores, frames, finished, faults>>

FlowStart == [moved |-> {}, loans |-> [n \in Bindings |-> {}], views |-> [n \in Bindings |-> Nobody]]

\* Allocations are numbered by the sentences that make them.
EmptyStore == [value |-> [n \in Bindings |-> 0], target |-> [n \in Bindings |-> Nobody],
          gone |-> {}, made |-> {}, released |-> {}]

FlowInit ==
  /\ style \in Styles
  /\ length = 0
  /\ env = [n \in Bindings |-> "none"]
  /\ locals = {} /\ quiet = {}
  /\ flow = FlowStart
  /\ open = TRUE
  /\ stores = {EmptyStore}
  /\ frames = <<>>
  /\ finished = {} /\ faults = {}

-----------------------------------------------------------------------------
(* FlowState                                                                *)

Visible(e) == {n \in Bindings : e[n] # "none"}
Owners(e) == {n \in Bindings : e[n] = "own"}

Chain(f, n) ==
  LET step[i \in 0 .. Cardinality(Bindings)] ==
        IF i = 0 THEN n
        ELSE IF f.views[step[i - 1]] = Nobody THEN step[i - 1] ELSE f.views[step[i - 1]]
  IN step

Root(f, n) == Chain(f, n)[Cardinality(Bindings)]
Through(f, n) == {Chain(f, n)[i] : i \in 0 .. Cardinality(Bindings)}

\* "binding or viewed owner was moved or dropped", "cyclic view binding".
Readable(f, n) ==
  /\ Through(f, n) \cap f.moved = {}
  /\ f.views[Root(f, n)] = Nobody

\* transfer: no borrow is live.
Unlent(f, n) == \A b \in Bindings : n \notin f.loans[b]

MayMove(f, n) == Readable(f, n) /\ Unlent(f, n)
Consumed(f, n) == [f EXCEPT !.moved = @ \cup {n}]

WithoutLoans(f, D) == [f EXCEPT !.loans = [n \in Bindings |-> IF n \in D THEN {} ELSE @[n]]]
WithoutViews(f, D) == [f EXCEPT !.views = [n \in Bindings |-> IF n \in D THEN Nobody ELSE @[n]]]

Dropped(f, D) == WithoutViews(WithoutLoans([f EXCEPT !.moved = @ \cup D], D), D)

\* replace, and what an assignment to n takes away before it lends anew.
Replaced(f, n) == WithoutViews(WithoutLoans([f EXCEPT !.moved = @ \ {n}], {n}), {n})

Lent(f, n, owner, ownership) ==
  [f EXCEPT !.views[n] = owner,
            !.loans[n] = IF ownership = "borrow" THEN {Root(f, owner)} ELSE @]

\* loan: "cannot acquire a borrow while another borrow is live".
MayLend(f, n, owner, ownership) ==
  /\ Readable(f, owner)
  /\ ownership = "borrow" => \A b \in Bindings \ {owner} : Root(f, owner) \notin f.loans[b]
  /\ Readable(Lent(f, n, owner, ownership), n)

\* end_scope: "view escapes the lifetime of its source binding".
MayClose(f, live) == \A v \in live : f.views[v] \in live \cup {Nobody}
Closed(f, live) ==
  WithoutViews(WithoutLoans([f EXCEPT !.moved = @ \cap live], Bindings \ live), Bindings \ live)

\* join: "branches retarget a view differently".
MayJoin(F) == \A f, g \in F : f.views = g.views

JoinedFlow(F) == [moved |-> UNION {f.moved : f \in F},
                  loans |-> [n \in Bindings |-> UNION {f.loans[n] : f \in F}],
                  views |-> (CHOOSE f \in F : TRUE).views]

-----------------------------------------------------------------------------
(* cleanup_memory                                                           *)

\* Views and borrows end first, then owners that are not moved.
Unlend(f, e, D) == WithoutLoans(f, {n \in D : e[n] \in {"view", "borrow"}})
Pending(f, e, D) == {n \in D \cap Owners(e) : n \notin f.moved}

MayClean(f, e, D) == \A n \in Pending(f, e, D) : MayMove(Unlend(f, e, D), n)
Cleaned(f, e, D) == Dropped(Unlend(f, e, D), Pending(f, e, D))

\* The storage that the generated code of a release frees.
FreedBy(s, f, D) == {s.value[Root(f, n)] : n \in D}

ReleaseIn(s, f, D) == [s EXCEPT !.released = @ \cup FreedBy(s, f, D), !.gone = @ \cup D]

\* Storage that is freed already, or twice at once.
FreesTwice(s, f, D) ==
  FreedBy(s, f, D) \cap (s.released \cup {0}) # {} \/ Cardinality(FreedBy(s, f, D)) < Cardinality(D)

Twice(S, f, D) == IF \E s \in S : FreesTwice(s, f, D) THEN {"freed twice"} ELSE {}

\* A binding whose block is over.
ForgetIn(s, live) ==
  [s EXCEPT !.value = [n \in Bindings |-> IF n \in live THEN @[n] ELSE 0],
            !.target = [n \in Bindings |-> IF n \in live THEN @[n] ELSE Nobody],
            !.gone = @ \cap live]

Swept(S, f, e, D, live) == {ForgetIn(ReleaseIn(s, f, Pending(f, e, D)), live) : s \in S}

-----------------------------------------------------------------------------
(* Sentences                                                                *)

Speaks == open /\ length < MaxLength /\ length' = length + 1

Loops == {i \in 1 .. Len(frames) : frames[i].kind = "while"}

(* What a name may be given.  A name that exists is bound again only after  *)
(* it was moved ("memory rebinding requires moving or releasing the         *)
(* previous owner").  Three kinds of program are set apart: one that        *)
(* retakes gives an outer name another ownership inside a block, one that   *)
(* revives gives, inside a loop, an owner back to a name that was moved     *)
(* before the loop, and one that rehandles binds the name of a moved view   *)
(* again while a borrow that was made through it is live.                   *)
MayRebind(f, n, ownership) ==
  env[n] # "none" =>
    /\ n \in f.moved /\ Unlent(f, n)
    /\ style.retakes \/ n \in locals \/ env[n] = ownership
    /\ style.revives \/ \A i \in Loops : n \notin frames[i].flow.moved
    /\ style.rehandles \/ \A b \in Bindings \ {n} : f.loans[b] # {} => n \notin Through(f, b)

Bind(n, ownership) ==
  /\ env' = [env EXCEPT ![n] = ownership]
  /\ locals' = IF env[n] = "none" THEN locals \cup {n} ELSE locals

\* `n = array(...)'.
NewOwner(n) ==
  /\ Speaks /\ n \notin quiet
  /\ MayRebind(flow, n, "own")
  /\ Bind(n, "own")
  /\ flow' = Replaced(flow, n)
  /\ stores' = {[s EXCEPT !.value[n] = length', !.target[n] = Nobody, !.gone = @ \ {n},
                          !.made = @ \cup {length'}] : s \in stores}
  /\ UNCHANGED <<style, quiet, open, frames, finished, faults>>

\* `n = move m': the storage of an owner, or the handle of a view.
MoveTo(n, m) ==
  LET viewed == flow.views[m]
      ownership == IF viewed = Nobody THEN "own" ELSE env[m]
      moved == Consumed(flow, m)
      replaced == Replaced(moved, n)
  IN
  /\ Speaks /\ {n, m} \cap quiet = {} /\ m \in Visible(env)
  /\ MayMove(flow, m)
  /\ MayRebind(moved, n, ownership)
  /\ Bind(n, ownership)
  /\ IF ownership = "own"
     THEN flow' = replaced
     ELSE /\ viewed \in Visible(env)
          /\ MayLend(replaced, n, viewed, ownership)
          /\ flow' = Lent(replaced, n, viewed, ownership)
  /\ stores' = {[s EXCEPT !.value[n] = s.value[Root(flow, m)],
                          !.target[n] = IF ownership = "own" THEN Nobody ELSE viewed,
                          !.gone = (@ \cup {m}) \ {n}] : s \in stores}
  /\ UNCHANGED <<style, quiet, open, frames, finished, faults>>

\* `n = view m', `n = borrow m'.
Lend(n, m, ownership) ==
  LET replaced == Replaced(flow, n) IN
  /\ Speaks /\ {n, m} \cap quiet = {} /\ m \in Visible(env)
  /\ Readable(flow, m)
  /\ MayRebind(flow, n, ownership)
  /\ MayLend(replaced, n, m, ownership)
  /\ Bind(n, ownership)
  /\ flow' = Lent(replaced, n, m, ownership)
  /\ stores' = {[s EXCEPT !.value[n] = s.value[Root(flow, m)], !.target[n] = m,
                          !.gone = @ \ {n}] : s \in stores}
  /\ UNCHANGED <<style, quiet, open, frames, finished, faults>>

\* The binding that n stands for on a path.
Meant(s, n) == Root([views |-> s.target], n)

\* What is wrong with the storage that the code of a read of n takes on a path.
WrongIn(s, n) ==
  LET root == Root(flow, n) IN
  (IF root \in s.gone \/ n \in s.gone THEN {"moved"} ELSE {})
    \cup (IF s.value[root] \in s.released \cup {0} THEN {"freed"} ELSE {})
    \cup (IF Meant(s, n) # root THEN {"another binding"} ELSE {})
    \cup (IF env[n] = "borrow" /\ s.value[n] # s.value[root] THEN {"replaced while lent"} ELSE {})

ReadName(n) ==
  /\ Speaks /\ n \in Visible(env) \ quiet
  /\ Readable(flow, n)
  /\ faults' = faults \cup UNION {WrongIn(s, n) : s \in stores}
  /\ UNCHANGED <<style, env, locals, quiet, flow, open, stores, frames, finished>>

\* `drop n': "cannot drop memory through a view or borrow".
DropName(n) ==
  /\ Speaks /\ n \in Owners(env) \ quiet
  /\ MayMove(flow, n)
  /\ flow' = Dropped(flow, {n})
  /\ stores' = {ReleaseIn(s, flow, {n}) : s \in stores}
  /\ faults' = faults \cup Twice(stores, flow, {n})
  /\ UNCHANGED <<style, env, locals, quiet, open, frames, finished>>

\* Before each sentence: a borrow that the rest of its block does not mention is over.
LastMention(n) ==
  /\ open /\ n \in locals \ quiet /\ env[n] = "borrow"
  /\ quiet' = quiet \cup {n}
  /\ flow' = WithoutLoans(flow, {n})
  /\ UNCHANGED <<style, length, env, locals, open, stores, frames, finished, faults>>

\* `return': the whole of the function is cleaned up.
ReturnHere ==
  /\ Speaks
  /\ MayClean(flow, env, Visible(env))
  /\ flow' = Cleaned(flow, env, Visible(env))
  /\ finished' = finished \cup Swept(stores, flow, env, Visible(env), {})
  /\ faults' = faults \cup Twice(stores, flow, Pending(flow, env, Visible(env)))
  /\ open' = FALSE /\ stores' = {}
  /\ UNCHANGED <<style, env, locals, quiet, frames>>

-----------------------------------------------------------------------------
(* Blocks                                                                   *)

Top == frames[Len(frames)]
Exit(f, S) == [flow |-> f, stores |-> S]

Begin(kind) ==
  /\ Speaks /\ Len(frames) < MaxDepth
  /\ frames' = Append(frames, [kind |-> kind, env |-> env, locals |-> locals, quiet |-> quiet,
                               flow |-> flow, stores |-> stores, exits |-> {}])
  /\ locals' = {}
  /\ UNCHANGED <<style, env, quiet, flow, open, stores, finished, faults>>

\* The scope of a block: its locals are cleaned up where it does not end in a jump.
BlockLocals == IF open THEN locals ELSE {}
MayLeave(D, live) == MayClean(flow, env, D) /\ MayClose(Cleaned(flow, env, D), live)
Leaving(D, live) == Closed(Cleaned(flow, env, D), live)
LeavingStores(D, live) == Swept(stores, flow, env, D, live)
LeavingFaults(D) == Twice(stores, flow, Pending(flow, env, D))

\* Exits of a block after the owners that some of them moved are released on the others.
Partial_bug(E, e) == {}
Partial(E, e) == {n \in Owners(e) : \E x, y \in E : n \in x.flow.moved /\ n \notin y.flow.moved}

ReconciledExits(E, e, D) ==
  {Exit(Cleaned(x.flow, e, D), {ReleaseIn(s, x.flow, Pending(x.flow, e, D)) : s \in x.stores}) : x \in E}

\* A loop does not carry what was moved before it.
Carried(s, e, C) == [s EXCEPT !.value = [n \in Bindings |->
                       IF n \in C \/ e[n] = "none" \/ n \in s.gone THEN @[n] ELSE 0]]
CarriedStores(E, e, C) == {Carried(s, e, C) : s \in UNION {x.stores : x \in E}}

\* reconcile_owners among candidates, then FlowState.join, after which the block around goes on.
GoOn(E, candidates, bad) ==
  LET e == Top.env
      partial == Partial(E, e) \cap candidates
      reconciled == ReconciledExits(E, e, partial)
  IN
  /\ env' = e /\ locals' = Top.locals /\ quiet' = Top.quiet
  /\ frames' = SubSeq(frames, 1, Len(frames) - 1)
  /\ IF E = {}
     THEN open' = FALSE /\ stores' = {} /\ faults' = faults \cup bad /\ UNCHANGED flow
     ELSE /\ \A x \in E : MayClean(x.flow, e, partial)
          /\ MayJoin({x.flow : x \in reconciled})
          /\ open' = TRUE
          /\ flow' = JoinedFlow({x.flow : x \in reconciled})
          /\ stores' = CarriedStores(reconciled, e, candidates)
          /\ faults' = faults \cup bad
               \cup UNION {Twice(x.stores, x.flow, Pending(x.flow, e, partial)) : x \in E}

\* if.py: the exit of the branch that ends here, if it has one.
BranchExits(live) == IF open THEN {Exit(Leaving(BlockLocals, live), LeavingStores(BlockLocals, live))} ELSE {}

BeginElse ==
  LET live == Visible(Top.env) IN
  /\ frames # <<>> /\ Top.kind = "if"
  /\ MayLeave(BlockLocals, live)
  /\ frames' = [frames EXCEPT ![Len(frames)].kind = "else", ![Len(frames)].exits = BranchExits(live)]
  /\ env' = Top.env /\ locals' = {} /\ quiet' = Top.quiet
  /\ flow' = Top.flow /\ stores' = Top.stores /\ open' = TRUE
  /\ faults' = faults \cup LeavingFaults(BlockLocals)
  /\ UNCHANGED <<style, length, finished>>

\* Without `else' the condition that fails is an exit.
EndIf ==
  LET live == Visible(Top.env) IN
  /\ frames # <<>> /\ Top.kind \in {"if", "else"}
  /\ MayLeave(BlockLocals, live)
  /\ GoOn(BranchExits(live) \cup (IF Top.kind = "if" THEN {Exit(Top.flow, Top.stores)} ELSE Top.exits),
          Bindings, LeavingFaults(BlockLocals))
  /\ UNCHANGED <<style, length, finished>>

-----------------------------------------------------------------------------
(* Loop.jump                                                                *)

\* The loop that a break or a continue is about.
Innermost == CHOOSE i \in Loops : \A j \in Loops : j <= i
Outside == Visible(frames[Innermost].env)
JumpLocals == Visible(env) \ Outside

\* "loop cannot consume an outer binding without replacing it", and the like.
Agrees_bug(f, initial, leaves) ==
  f.views = initial.views /\ f.loans = initial.loans

Agrees(f, initial, leaves) ==
  /\ leaves \/ f.moved \cap Outside = initial.moved \cap Outside
  /\ f.views = initial.views
  /\ f.loans = initial.loans

\* What a path that is given this memory can tell: each iteration is to begin like the first.
Kept(s, e) == {s.value[n] : n \in {m \in Owners(e) : m \notin s.gone}}
Appearance(s, e) == [gone |-> s.gone, target |-> s.target, all |-> s.made \ s.released = Kept(s, e)]
Unlike(S, T, e) ==
  IF {Appearance(s, e) : s \in S} \subseteq {Appearance(t, e) : t \in T} THEN {} ELSE {"another iteration"}

Jump(leaves) ==
  LET loop == frames[Innermost]
      f == Leaving(JumpLocals, Outside)
      S == LeavingStores(JumpLocals, Outside)
  IN
  /\ open /\ Loops # {}
  /\ MayLeave(JumpLocals, Outside)
  /\ Agrees(f, loop.flow, leaves)
  /\ frames' = IF leaves THEN [frames EXCEPT ![Innermost].exits = @ \cup {Exit(f, S)}] ELSE frames
  /\ faults' = faults \cup LeavingFaults(JumpLocals)
                 \cup (IF leaves THEN {} ELSE Unlike(S, loop.stores, loop.env))
  /\ flow' = f /\ open' = FALSE /\ stores' = {}
  /\ UNCHANGED <<style, env, locals, quiet, finished>>

Break == Speaks /\ Jump(TRUE)
Continue == Speaks /\ Jump(FALSE)

\* The end of the body jumps as well; the next sentence is after the loop.
EndBody ==
  /\ frames # <<>> /\ Top.kind = "while"
  /\ Jump(FALSE)
  /\ UNCHANGED length

\* A condition that fails leaves with the state at the entry; `while true' has no such exit.
EndWhile ==
  /\ frames # <<>> /\ Top.kind = "while" /\ ~open
  /\ \E condition \in BOOLEAN :
       GoOn(Top.exits \cup (IF condition THEN {Exit(Top.flow, Top.stores)} ELSE {}),
            Bindings \ Top.flow.moved, {})
  /\ UNCHANGED <<style, length, finished>>

FlowNext ==
  \/ \E n \in Bindings : NewOwner(n) \/ ReadName(n) \/ DropName(n) \/ LastMention(n)
  \/ \E n, m \in Bindings : MoveTo(n, m) \/ \E o \in {"view", "borrow"} : Lend(n, m, o)
  \/ Begin("if") \/ Begin("while")
  \/ BeginElse \/ EndIf \/ Break \/ Continue \/ EndBody \/ EndWhile \/ ReturnHere

FlowSpec == FlowInit /\ [][FlowNext]_flowVars

-----------------------------------------------------------------------------
FlowStates == [moved : SUBSET Bindings, loans : [Bindings -> SUBSET Bindings], views : [Bindings -> Bindings \cup {Nobody}]]

FlowTypeOK ==
  /\ style \in Styles
  /\ length \in 0 .. MaxLength
  /\ env \in [Bindings -> {"own", "view", "borrow", "none"}]
  /\ locals \subseteq Visible(env) /\ quiet \subseteq Bindings
  /\ flow \in FlowStates
  /\ open \in BOOLEAN /\ (~open => stores = {})
  /\ Len(frames) \in 0 .. MaxDepth

(* On no path does the text that the checker accepts read what was moved or *)
(* freed, read through a view a binding other than the one it was made of,  *)
(* find a borrowed owner replaced, free storage twice, or begin an          *)
(* iteration of a loop in a state the checker did not look at.              *)
AcceptedFlowIsSafe == faults = {}

(* "assert each still-owned place is released exactly once on that path"    *)
(* (docs/sip/0027-Ownership.md:980): where a path returns, all that was     *)
(* allocated on it is freed.                                                *)
ReleasedOnEveryPath == faults = {} => \A s \in finished : s.made = s.released
=============================================================================
