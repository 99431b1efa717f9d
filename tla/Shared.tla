------------------------------- MODULE Shared -------------------------------
(***************************************************************************)
(* Shared references: what `share x', `share atomic x', `copy s' and       *)
(* `drop s' compile to (py_compiler/syntax/complex/shared.py), in a        *)
(* program whose tasks are given references and copy and drop them         *)
(* (syntax/operator/async.py, await.py).                                   *)
(*                                                                         *)
(* There is one payload and one count.  A reference is a pair of pointers  *)
(* to them; it is in the scope of the thread that shares, in the frame of  *)
(* a task as its argument, or in the frame as its result.  The count of an *)
(* atomic share changes in one step, that of a plain one is loaded and     *)
(* stored.  What the checker lets a task do with a reference it is given   *)
(* is to read the payload and to return a copy.                            *)
(***************************************************************************)
EXTENDS Integers, FiniteSets

CONSTANTS
  Usages,       \* a set of records: [atomic, copies]
  Jobs, Owner,  \* tasks that take a reference, and the thread that shares
  References,   \* what references may be: a bound on how many there are
  CountLimit,   \* 2^63 - 1
  Nowhere

Activations == Jobs \cup {Owner}

ASSUME SharedAssumption ==
  /\ Usages \subseteq [atomic : BOOLEAN, copies : BOOLEAN]
  /\ Owner \notin Jobs
  /\ IsFiniteSet(References)
  /\ CountLimit \in Nat

Scope == <<"scope", Owner>>
Argument(t) == <<"argument", t>>
Result(t) == <<"result", t>>
Places == {Scope} \cup {Argument(t) : t \in Jobs} \cup {Result(t) : t \in Jobs}

ASSUME NowhereAssumption == Nowhere \notin Places /\ Nowhere \notin References

VARIABLES
  usage,        \* of the program: is the share atomic, and may tasks return copies
  count,
  counter,      \* "absent", "live" or "freed"
  payload,      \* likewise, or "freed twice"
  place,        \* place[r]: where r is, or Nowhere
  status,       \* of each activation: "new", "running" or "ended"
  joined,       \* tasks whose frames are gone
  doing,        \* what each activation is in the middle of
  aborted       \* "reference count overflow"

sharedVars == <<usage, count, counter, payload, place, status, joined, doing, aborted>>

Live == {r \in References : place[r] # Nowhere}

Idle == [step |-> "none", old |-> 0, reference |-> Nowhere, to |-> Nowhere]
Raising(old, r, p) == [step |-> "raise", old |-> old, reference |-> r, to |-> p]
Lowering(old) == [step |-> "lower", old |-> old, reference |-> Nowhere, to |-> Nowhere]
Ending(step) == [step |-> step, old |-> 1, reference |-> Nowhere, to |-> Nowhere]

SharedInit ==
  /\ usage \in Usages
  /\ count = 0
  /\ counter = "absent"
  /\ payload = "absent"
  /\ place = [r \in References |-> Nowhere]
  /\ status = [a \in Activations |-> IF a = Owner THEN "running" ELSE "new"]
  /\ joined = {}
  /\ doing = [a \in Activations |-> Idle]
  /\ aborted = FALSE

Active(a) == ~aborted /\ status[a] = "running" /\ doing[a] = Idle

\* References not in use, nor the outcome of a retain under way.
Free == {r \in References \ Live : \A a \in Activations : doing[a].reference # r}

Create ==
  /\ Active(Owner) /\ counter = "absent"
  /\ counter' = "live" /\ payload' = "live"
  /\ count' = 1
  /\ \E r \in Free : place' = [place EXCEPT ![r] = Scope]
  /\ UNCHANGED <<usage, joined, status, doing, aborted>>

-----------------------------------------------------------------------------
(* retain and release                                                       *)

\* What a load of the count may give: anything once it is freed.
Loaded == IF counter = "live" THEN {count} ELSE 0 .. CountLimit
Stored(n) == count' = IF counter = "live" THEN n ELSE count

\* The assertion compares without sign.
Fits(old) == 0 <= old /\ old < CountLimit

Last_bug(old) == old = 0
Last(old) == old = 1

\* The reference r is there, and the task it is an argument of begins.
Referenced(a, old, r, p) ==
  /\ IF Fits(old)
     THEN /\ place' = [place EXCEPT ![r] = p]
          /\ status' = [t \in Activations |-> IF p = Argument(t) THEN "running" ELSE status[t]]
          /\ UNCHANGED aborted
     ELSE aborted' = TRUE /\ UNCHANGED <<place, status>>
  /\ doing' = [doing EXCEPT ![a] = Idle]

At(p) == {r \in References : place[r] = p}

\* `u = share s', and the snapshot of an argument of `async'; `return copy s' in a task.
Targets(a) ==
  IF a = Owner
  THEN {p \in {Scope} \cup {Argument(t) : t \in {u \in Jobs : status[u] = "new"}} : At(Scope) # {}}
  ELSE {p \in {Result(a)} : usage.copies /\ At(p) = {}}

Retain(a) ==
  /\ Active(a)
  /\ \E r \in Free, p \in Targets(a), old \in Loaded :
       IF usage.atomic
       THEN Stored(old + 1) /\ Referenced(a, old, r, p)
       ELSE /\ doing' = [doing EXCEPT ![a] = Raising(old, r, p)]
            /\ UNCHANGED <<count, place, status, aborted>>
  /\ UNCHANGED <<usage, joined, counter, payload>>

StoreRaised(a) ==
  LET d == doing[a] IN
  /\ ~aborted /\ d.step = "raise"
  /\ Stored(d.old + 1)
  /\ Referenced(a, d.old, d.reference, d.to)
  /\ UNCHANGED <<usage, joined, counter, payload>>

\* The count of a release; the last one goes on to the payload.
Released(a, old) == doing' = [doing EXCEPT ![a] = IF Last(old) THEN Ending("destroy") ELSE Idle]

Lower(a) ==
  \E old \in Loaded :
    IF usage.atomic
    THEN Stored(old - 1) /\ Released(a, old)
    ELSE doing' = [doing EXCEPT ![a] = Lowering(old)] /\ UNCHANGED count

\* `drop s', or the cleanup of the scope.
Drop ==
  /\ Active(Owner)
  /\ \E r \in At(Scope) : place' = [place EXCEPT ![r] = Nowhere]
  /\ Lower(Owner)
  /\ UNCHANGED <<usage, joined, counter, payload, status, aborted>>

StoreLowered(a) ==
  LET d == doing[a] IN
  /\ ~aborted /\ d.step = "lower"
  /\ Stored(d.old - 1)
  /\ Released(a, d.old)
  /\ UNCHANGED <<usage, joined, counter, payload, place, status, aborted>>

Freed(state) == IF state = "live" THEN "freed" ELSE "freed twice"

DestroyPayload(a) ==
  /\ ~aborted /\ doing[a].step = "destroy"
  /\ payload' = Freed(payload)
  /\ doing' = [doing EXCEPT ![a] = Ending("free")]
  /\ UNCHANGED <<usage, joined, count, counter, place, status, aborted>>

FreeCounter(a) ==
  /\ ~aborted /\ doing[a].step = "free"
  /\ counter' = Freed(counter)
  /\ doing' = [doing EXCEPT ![a] = Idle]
  /\ UNCHANGED <<usage, joined, count, payload, place, status, aborted>>

-----------------------------------------------------------------------------
(* Tasks                                                                    *)

\* The thread that shares has released its references and its tasks.
CleanedUp == At(Scope) = {} /\ \A t \in Jobs : status[t] = "new" \/ t \in joined

Return(a) ==
  /\ Active(a)
  /\ a = Owner => CleanedUp
  /\ status' = [status EXCEPT ![a] = "ended"]
  /\ UNCHANGED <<usage, joined, count, counter, payload, place, doing, aborted>>

\* The argument is released without waiting for the thread.
Joined_bug(t) == status[t] \in {"running", "ended"}
Joined(t) == status[t] = "ended"

\* `await t': the result moves to the scope, then the argument is released.
Await(t) ==
  /\ Active(Owner) /\ Joined(t) /\ t \notin joined
  /\ joined' = joined \cup {t}
  /\ place' = [r \in References |->
                 IF place[r] = Result(t) THEN Scope
                 ELSE IF place[r] = Argument(t) THEN Nowhere
                 ELSE place[r]]
  /\ Lower(Owner)
  /\ UNCHANGED <<usage, status, counter, payload, aborted>>

SharedNext ==
  \/ Create \/ Drop
  \/ \E a \in Activations :
       \/ Retain(a) \/ StoreRaised(a) \/ StoreLowered(a)
       \/ DestroyPayload(a) \/ FreeCounter(a) \/ Return(a)
  \/ \E t \in Jobs : Await(t)

SharedSpec == SharedInit /\ [][SharedNext]_sharedVars

-----------------------------------------------------------------------------
Memory == {"absent", "live", "freed", "freed twice"}

Doings ==
  [step : {"none", "raise", "lower", "destroy", "free"}, old : Int,
   reference : References \cup {Nowhere}, to : Places \cup {Nowhere}]

SharedTypeOK ==
  /\ usage \in Usages
  /\ count \in Int
  /\ counter \in Memory /\ payload \in Memory
  /\ place \in [References -> Places \cup {Nowhere}]
  /\ status \in [Activations -> {"new", "running", "ended"}]
  /\ joined \subseteq Jobs
  /\ doing \in [Activations -> Doings]
  /\ aborted \in BOOLEAN

(* What holds in every state of a program whose share is atomic, or whose   *)
(* tasks return no copies.                                                  *)

\* Only the thread that shares is ever between two steps of a count.
OneCounts ==
  /\ \A t \in Jobs : doing[t] = Idle
  /\ usage.atomic => doing[Owner].step \notin {"raise", "lower"}

\* A task has its argument from its start until it is joined.
FramesOK ==
  /\ status[Owner] # "new"
  /\ \A t \in Jobs : status[t] = "new" => At(Argument(t)) = {} /\ At(Result(t)) = {} /\ t \notin joined
  /\ \A t \in Jobs : status[t] # "new" /\ t \notin joined => \E r \in References : At(Argument(t)) = {r}
  /\ \A t \in joined : status[t] = "ended" /\ At(Argument(t)) = {} /\ At(Result(t)) = {}

\* The count is the number of references, but for the one that is being dropped.
Holding ==
  /\ counter = "live" /\ payload = "live" /\ count > 0
  /\ count = Cardinality(Live) + IF doing[Owner].step = "lower" THEN 1 ELSE 0
  /\ LET d == doing[Owner] IN
     /\ d.step \in {"none", "raise", "lower"}
     /\ d.step # "none" => d.old = count
     /\ d.step = "raise" => /\ d.reference \in References \ Live
                            /\ d.to \in {Scope} \cup {Argument(t) : t \in {u \in Jobs : status[u] = "new"}}

Clearing ==
  /\ Live = {} /\ counter = "live"
  /\ \/ doing[Owner].step = "destroy" /\ payload = "live"
     \/ doing[Owner].step = "free" /\ payload = "freed"

Without ==
  /\ Live = {} /\ counter \in {"absent", "freed"} /\ payload = counter
  /\ doing[Owner] = Idle

SharedIndInv ==
  /\ SharedTypeOK
  /\ OneCounts
  /\ FramesOK
  /\ IF aborted THEN payload = "live" /\ counter = "live" ELSE Holding \/ Clearing \/ Without
  /\ status[Owner] = "ended" => Without

(* "The lifecycle of s stays until all the shares are dropped"              *)
(* (docs/sip/0032-Variables.md:56): while a reference is held anywhere, the *)
(* payload and the count are there, in whatever order tasks and their       *)
(* owners copy, drop, return and await.                                     *)
StaysUntilDropped == Live # {} => payload = "live" /\ counter = "live"

(* A program that comes to its end has destroyed what it shared, once.      *)
DestroyedOnce ==
  /\ payload # "freed twice" /\ counter # "freed twice"
  /\ status[Owner] = "ended" => payload # "live" /\ counter # "live"
=============================================================================
