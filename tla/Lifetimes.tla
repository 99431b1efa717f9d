----------------------------- MODULE Lifetimes ------------------------------
(***************************************************************************)
(* What the compiler verifies of a body before it generates code:          *)
(* Body.verify and forward_dataflow of mir/cfg/cfg.py, and the two         *)
(* analyses of mir/ownership/flow.py, in the order of verify_semantics of  *)
(* mir/verification.py.  An accepted body is then executed along any path. *)
(*                                                                         *)
(* The operations of a block are reduced to their events.  SSA values are  *)
(* defined, used and consumed (an operand whose mode is move); bindings    *)
(* are declared, initialized, moved and read; owners retain borrows in     *)
(* slots, copy them and end them, and are checked before they are          *)
(* replaced, moved or dropped.  Types, OwnershipRestore (iterators) and    *)
(* the messages are left out.                                              *)
(*                                                                         *)
(* Facts are those that may hold.  That a binding is initialized must      *)
(* hold, so its negation is the fact: it may be blank.                     *)
(***************************************************************************)
EXTENDS Integers, Sequences

CONSTANTS
  Blocks,     \* identities, with the entry 0
  Names,      \* of values, bindings and owners
  Bodies      \* a set of records: [code : sequences of Events, targets]

Kinds == {"define", "use", "consume", "declare", "initialize", "move", "read",
          "retain", "copy", "end-loan", "end", "check", "element-check"}
Slots == {"loan", "shape", "field", "*", "first"}
Events == [kind : Kinds, owner : Names, slot : Slots, sources : SUBSET Names]
Analyses == {"values", "retained", "bindings"}
None == -1

ASSUME LifetimesAssumption ==
  /\ Blocks \subseteq Nat /\ 0 \in Blocks
  /\ \A d \in Bodies : d.code \in [Blocks -> Seq(Events)] /\ d.targets \in [Blocks -> SUBSET Blocks]

VARIABLES
  body,
  phase,        \* "reach", "dominators", one of Analyses, "accepted" or "rejected"
  reachable,
  dominators,
  before,       \* before[a][b]: the facts before each event of b, and after the last
  known,        \* known[a]: blocks in incoming and outgoing
  outgoing,     \* outgoing[b], in the analysis that runs
  pending,      \* the work list, of which the order does not matter here
  cursor,       \* the block that transfer goes through, or None
  at,           \* execution: the block
  next,         \* and the event in it
  actual,       \* actual[a]: the facts of this path
  defined,      \* values that have been computed
  passed        \* blocks that have been left

graphVars == <<reachable, dominators>>
solverVars == <<before, known, outgoing, pending, cursor>>
pathVars == <<at, next, actual, defined, passed>>
lifetimesVars == <<body, phase, graphVars, solverVars, pathVars>>

Code(b) == body.code[b]
Predecessors(b) == {p \in Blocks : b \in body.targets[p]}

\* Facts about a value, about a binding, and about an owner's slot.
Gone(v) == <<"gone", v>>
Moved(o) == <<"moved", o>>
Blank(o) == <<"blank", o>>
Held(o, slot, s) == <<o, slot, s>>

ValueFacts == {Gone(v) : v \in Names}
BindingFacts == {Moved(o) : o \in Names} \cup {Blank(o) : o \in Names}
RetainedFacts == {Held(o, slot, s) : o \in Names, slot \in Slots, s \in Names}
FactsOf(a) == CASE a = "values" -> ValueFacts [] a = "bindings" -> BindingFacts [] a = "retained" -> RetainedFacts

\* Nothing is initialized at the entry.
Boundary(a) == IF a = "bindings" THEN {Blank(o) : o \in Names} ELSE {}

LifetimesInit ==
  /\ body \in Bodies
  /\ phase = "reach"
  /\ reachable = {0}
  /\ dominators = [b \in Blocks |-> Blocks]
  /\ before = [a \in Analyses |-> [b \in Blocks |-> <<>>]]
  /\ known = [a \in Analyses |-> {}]
  /\ outgoing = [b \in Blocks |-> {}]
  /\ pending = {}
  /\ cursor = None
  /\ at = 0
  /\ next = 1
  /\ actual = [a \in Analyses |-> Boundary(a)]
  /\ defined = {}
  /\ passed = {}

-----------------------------------------------------------------------------
(* Events                                                                   *)

OfKey(S, o, slot) == {f \in S : f[1] = o /\ f[2] = slot}
OfOwner(S, o) == {f \in S : f[1] = o}
Retained(e) == {Held(e.owner, e.slot, s) : s \in e.sources}
Weak(e) == e.slot \in {"*", "field"} /\ e.sources # {}

AfterValue(e, S) ==
  CASE e.kind = "define" -> S \ {Gone(e.owner)}
    [] e.kind = "consume" -> S \cup {Gone(e.owner)}
    [] OTHER -> S

\* e.sources holds the one source of a copy.
AfterRetained(e, S) ==
  CASE e.kind = "retain" /\ Weak(e) -> S \cup Retained(e)
    [] e.kind = "retain" /\ ~Weak(e) -> (S \ OfKey(S, e.owner, e.slot)) \cup Retained(e)
    [] e.kind = "copy" -> (S \ OfOwner(S, e.owner))
                          \cup {Held(e.owner, f[2], f[3]) : f \in {g \in S : g[1] \in e.sources}}
    [] e.kind = "end-loan" -> S \ OfKey(S, e.owner, e.slot)
    [] e.kind = "end" -> S \ OfOwner(S, e.owner)
    [] OTHER -> S

AfterBinding(e, S) ==
  CASE e.kind \in {"declare", "initialize"} -> S \ {Moved(e.owner), Blank(e.owner)}
    [] e.kind = "move" -> S \cup {Moved(e.owner), Blank(e.owner)}
    [] OTHER -> S

After(a, e, S) ==
  CASE a = "values" -> AfterValue(e, S)
    [] a = "retained" -> AfterRetained(e, S)
    [] a = "bindings" -> AfterBinding(e, S)

Declared == {o \in Names : \E b \in Blocks : \E i \in DOMAIN Code(b) :
                             Code(b)[i].kind = "declare" /\ Code(b)[i].owner = o}

\* A loan that is about to end, and the shape of a container whose element changes, do not count.
Pins(e, f) ==
  /\ f[3] = e.owner
  /\ ~(f[2] = "loan" /\ f[1] \in e.sources)
  /\ ~(f[2] = "shape" /\ e.kind = "element-check")

\* The event e must not happen where the facts S hold.
Faulty(a, e, S) ==
  CASE a = "values" -> e.kind \in {"use", "consume"} /\ Gone(e.owner) \in S
    [] a = "retained" -> e.kind \in {"check", "element-check"} /\ \E f \in S : Pins(e, f)
    [] a = "bindings" -> e.kind = "read" /\ \E o \in {e.owner} \cup e.sources :
                                              Moved(o) \in S \/ (o \in Declared /\ Blank(o) \in S)

-----------------------------------------------------------------------------
(* Body.verify: the graph                                                   *)

Defines(b, i) == Code(b)[i].kind = "define"

DefinedTwice ==
  \E b, c \in Blocks : \E i \in DOMAIN Code(b), j \in DOMAIN Code(c) :
    /\ <<b, i>> # <<c, j>>
    /\ Defines(b, i) /\ Defines(c, j) /\ Code(b)[i].owner = Code(c)[j].owner

Reached == reachable \cup UNION {body.targets[b] : b \in reachable}

FindReachable ==
  /\ phase = "reach" /\ ~DefinedTwice
  /\ IF Reached # reachable
     THEN reachable' = Reached /\ UNCHANGED <<phase, dominators>>
     ELSE /\ phase' = "dominators"
          /\ dominators' = [b \in Blocks |-> IF b = 0 THEN {0} ELSE reachable]
          /\ UNCHANGED reachable
  /\ UNCHANGED <<body, solverVars, pathVars>>

RejectTwice ==
  /\ phase = "reach" /\ DefinedTwice
  /\ phase' = "rejected"
  /\ UNCHANGED <<body, graphVars, solverVars, pathVars>>

\* Only one of the predecessors counts.
Dominating_bug(b) ==
  {b} \cup {d \in Blocks : \E p \in Predecessors(b) \cap reachable : d \in dominators[p]}

Dominating(b) ==
  {b} \cup {d \in Blocks : \A p \in Predecessors(b) \cap reachable : d \in dominators[p]}

\* The blocks are taken in the order of a Python set, that is in any order.
FindDominators ==
  /\ phase = "dominators"
  /\ \E b \in reachable \ {0} :
       /\ Dominating(b) # dominators[b]
       /\ dominators' = [dominators EXCEPT ![b] = Dominating(b)]
  /\ UNCHANGED <<body, phase, reachable, solverVars, pathVars>>

\* The work list of an analysis that begins.
Start(a) ==
  /\ phase' = a
  /\ pending' = {0}
  /\ cursor' = None
  /\ outgoing' = [b \in Blocks |-> {}]
  /\ UNCHANGED <<before, known>>

DominatorsFound ==
  /\ phase = "dominators"
  /\ \A b \in reachable \ {0} : Dominating(b) = dominators[b]
  /\ Start("values")
  /\ UNCHANGED <<body, graphVars, pathVars>>

-----------------------------------------------------------------------------
(* forward_dataflow                                                         *)

\* Facts of the predecessors that have an output, and of the boundary.
Merge(a, b) ==
  (UNION {outgoing[p] : p \in Predecessors(b) \cap known[a]}) \cup (IF b = 0 THEN Boundary(a) ELSE {})

\* A block is taken from the work list; transfer begins with the merged facts.
Take(b) ==
  /\ phase \in Analyses /\ cursor = None /\ b \in pending
  /\ cursor' = b
  /\ pending' = pending \ {b}
  /\ before' = [before EXCEPT ![phase][b] = <<Merge(phase, b)>>]
  /\ UNCHANGED <<body, phase, graphVars, known, outgoing, pathVars>>

Complete(a, b) == Len(before[a][b]) = Len(Code(b)) + 1
Output(a, b) == before[a][b][Len(Code(b)) + 1]

\* transfer: the next operation of the block.
Transfer ==
  /\ phase \in Analyses /\ cursor # None /\ ~Complete(phase, cursor)
  /\ LET s == before[phase][cursor]
     IN  before' = [before EXCEPT ![phase][cursor] = Append(s, After(phase, Code(cursor)[Len(s)], s[Len(s)]))]
  /\ UNCHANGED <<body, phase, graphVars, known, outgoing, pending, cursor, pathVars>>

\* A block with an output is not looked at again.
MustPropagate_bug(a, b) == b \notin known[a]

\* The successors are looked at again whether it changes anything or not.
MustPropagate_always(a, b) == TRUE

\* The output is new, or another than before.
MustPropagate(a, b) == b \notin known[a] \/ Output(a, b) # outgoing[b]

\* The end of transfer: the successors are queued when the output has changed.
Propagate ==
  /\ phase \in Analyses /\ cursor # None /\ Complete(phase, cursor)
  /\ known' = [known EXCEPT ![phase] = @ \cup {cursor}]
  /\ outgoing' = [outgoing EXCEPT ![cursor] = Output(phase, cursor)]
  /\ pending' = IF MustPropagate(phase, cursor) THEN pending \cup body.targets[cursor] ELSE pending
  /\ cursor' = None
  /\ UNCHANGED <<body, phase, graphVars, before, pathVars>>

Solved == cursor = None /\ pending = {}

\* The facts found before an event that must not happen where they hold.
Fails(a) ==
  \E b \in known[a] : \E i \in DOMAIN Code(b) : Faulty(a, Code(b)[i], before[a][b][i])

\* A value that is used is defined earlier in the block, or in one that dominates it.
Dominated(b, i) ==
  \/ \E j \in 1 .. i - 1 : Defines(b, j) /\ Code(b)[j].owner = Code(b)[i].owner
  \/ \E d \in dominators[b] \ {b} : \E j \in DOMAIN Code(d) :
       Defines(d, j) /\ Code(d)[j].owner = Code(b)[i].owner

Undominated ==
  \E b \in reachable : \E i \in DOMAIN Code(b) : Code(b)[i].kind \in {"use", "consume"} /\ ~Dominated(b, i)

Rejects(a) == Fails(a) \/ (a = "values" /\ Undominated)

\* The check with the solution, and the next analysis.
CheckValues ==
  /\ phase = "values" /\ Solved
  /\ IF Rejects("values")
     THEN phase' = "rejected" /\ UNCHANGED solverVars
     ELSE Start("retained")
  /\ UNCHANGED <<body, graphVars, pathVars>>

CheckRetained ==
  /\ phase = "retained" /\ Solved
  /\ IF Rejects("retained")
     THEN phase' = "rejected" /\ UNCHANGED solverVars
     ELSE Start("bindings")
  /\ UNCHANGED <<body, graphVars, pathVars>>

CheckBindings ==
  /\ phase = "bindings" /\ Solved
  /\ phase' = IF Rejects("bindings") THEN "rejected" ELSE "accepted"
  /\ UNCHANGED <<body, graphVars, solverVars, pathVars>>

-----------------------------------------------------------------------------
(* An execution of the accepted body, along any path.                       *)

Operate ==
  /\ phase = "accepted" /\ next \in DOMAIN Code(at)
  /\ actual' = [a \in Analyses |-> After(a, Code(at)[next], actual[a])]
  /\ defined' = IF Defines(at, next) THEN defined \cup {Code(at)[next].owner} ELSE defined
  /\ next' = next + 1
  /\ UNCHANGED <<body, phase, graphVars, solverVars, at, passed>>

Branch ==
  /\ phase = "accepted" /\ next = Len(Code(at)) + 1
  /\ at' \in body.targets[at]
  /\ next' = 1
  /\ passed' = passed \cup {at}
  /\ UNCHANGED <<body, phase, graphVars, solverVars, actual, defined>>

Verify ==
  \/ FindReachable \/ RejectTwice \/ FindDominators \/ DominatorsFound
  \/ \E b \in Blocks : Take(b)
  \/ Transfer \/ Propagate
  \/ CheckValues \/ CheckRetained \/ CheckBindings

LifetimesNext == Verify \/ Operate \/ Branch

LifetimesSpec == LifetimesInit /\ [][LifetimesNext]_lifetimesVars
LifetimesFair == LifetimesSpec /\ WF_lifetimesVars(Verify)

-----------------------------------------------------------------------------
LifetimesTypeOK ==
  /\ body.targets \in [Blocks -> SUBSET Blocks]
  /\ phase \in {"reach", "dominators", "accepted", "rejected"} \cup Analyses
  /\ reachable \subseteq Blocks
  /\ dominators \in [Blocks -> SUBSET Blocks]
  /\ DOMAIN before = Analyses /\ DOMAIN known = Analyses /\ DOMAIN actual = Analyses
  /\ \A a \in Analyses :
       /\ before[a] \in [Blocks -> Seq(SUBSET FactsOf(a))]
       /\ known[a] \subseteq reachable
       /\ actual[a] \subseteq FactsOf(a)
  /\ DOMAIN outgoing = Blocks
  /\ phase \in Analyses => \A b \in Blocks : outgoing[b] \subseteq FactsOf(phase)
  /\ pending \subseteq Blocks
  /\ cursor \in Blocks \cup {None}
  /\ at \in Blocks
  /\ next \in 1 .. Len(Code(at)) + 1
  /\ defined \subseteq Names
  /\ passed \subseteq Blocks

(* No path through an accepted body comes to an event that the analyses     *)
(* exclude: a value used after it was consumed, a binding read after it was *)
(* moved or before it was initialized, an owner replaced, moved or dropped  *)
(* while a borrow of it is held on this path, whatever the loops and joins  *)
(* on the way.                                                              *)
AcceptedIsSafe ==
  phase = "accepted" /\ next \in DOMAIN Code(at) =>
    \A a \in Analyses : ~Faulty(a, Code(at)[next], actual[a])

(* A value that an accepted body uses has been computed on the path taken.  *)
UsesAreDefined ==
  phase = "accepted" /\ next \in DOMAIN Code(at) /\ Code(at)[next].kind \in {"use", "consume"} =>
    Code(at)[next].owner \in defined

(* The work lists become empty: every body is accepted or rejected.         *)
Decides == <>(phase \in {"accepted", "rejected"})
-----------------------------------------------------------------------------
(* The inductive invariant.                                                 *)

BodyOK == body \in Bodies

GraphOK ==
  /\ 0 \in reachable
  /\ phase \in {"dominators", "accepted"} \cup Analyses =>
       dominators[0] = {0} /\ \A b \in reachable : body.targets[b] \subseteq reachable
  /\ phase \in Analyses \cup {"accepted"} => \A b \in reachable \ {0} : Dominating(b) = dominators[b]

Todo(a) ==
  \/ phase \in {"reach", "dominators"}
  \/ a = "retained" /\ phase = "values"
  \/ a = "bindings" /\ phase \in {"values", "retained"}

Done(a) ==
  \/ phase = "accepted"
  \/ a = "values" /\ phase \in {"retained", "bindings"}
  \/ a = "retained" /\ phase = "bindings"

\* Each event follows from the one before it.
Chained(a, b) ==
  \A i \in 1 .. Len(before[a][b]) - 1 : before[a][b][i + 1] = After(a, Code(b)[i], before[a][b][i])

Queued == pending \cup (IF cursor = None THEN {} ELSE {cursor})

\* Blocks with an output are solved, or wait to be looked at again.
Working(a) ==
  /\ 0 \in known[a] \cup Queued
  /\ Queued \subseteq reachable
  /\ cursor # None =>
       /\ Len(before[a][cursor]) \in 1 .. Len(Code(cursor)) + 1
       /\ before[a][cursor][1] = Merge(a, cursor)
       /\ Chained(a, cursor)
  /\ \A b \in known[a] : body.targets[b] \subseteq known[a] \cup Queued
  /\ \A b \in known[a] \ {cursor} :
       /\ Complete(a, b) /\ Chained(a, b)
       /\ Output(a, b) = outgoing[b]
       /\ b \in pending \/ Merge(a, b) \subseteq before[a][b][1]

\* The solution holds for every edge of the blocks that have one.
Sound(a) ==
  /\ 0 \in known[a]
  /\ Boundary(a) \subseteq before[a][0][1]
  /\ \A b \in known[a] :
       /\ Complete(a, b) /\ Chained(a, b)
       /\ \A s \in body.targets[b] : s \in known[a] /\ Output(a, b) \subseteq before[a][s][1]

SolverOK ==
  /\ \A a \in Analyses :
       /\ Todo(a) => known[a] = {}
       /\ Done(a) => Sound(a) /\ ~Rejects(a)
  /\ phase \in Analyses => Working(phase)

\* The facts of the path are among those of the solution.
PathOK ==
  IF phase = "accepted"
  THEN /\ at \in reachable
       /\ \A a \in Analyses : at \in known[a] /\ actual[a] \subseteq before[a][at][next]
       /\ dominators[at] \ {at} \subseteq passed
       /\ \A d \in passed : \A j \in DOMAIN Code(d) : Defines(d, j) => Code(d)[j].owner \in defined
       /\ \A j \in 1 .. next - 1 : Defines(at, j) => Code(at)[j].owner \in defined
  ELSE at = 0 /\ next = 1 /\ actual = [a \in Analyses |-> Boundary(a)] /\ defined = {} /\ passed = {}

LifetimesIndInv == BodyOK /\ LifetimesTypeOK /\ GraphOK /\ SolverOK /\ PathOK
=============================================================================
