------------------------------ MODULE ForkJoin ------------------------------
(***************************************************************************)
(* What structured tasks promise: a task is started once by a running      *)
(* parent, ends only after each task it started was consumed, and is       *)
(* consumed once, by that parent, after it ended ("completion includes the *)
(* whole descendant tree", "a task result has one consumer":               *)
(* docs/sip/0035-Concurrency.md:103-112).                                  *)
(***************************************************************************)
CONSTANTS
  Tasks,      \* the tasks of the program
  Main,       \* the thread that runs the program
  Parent      \* Parent[t]: the task that starts t, or Main

VARIABLE phase   \* of each task: "new", "running", "ended", "consumed"

Children(a) == {t \in Tasks : Parent[t] = a}

Init == phase = [a \in Tasks \cup {Main} |-> IF a = Main THEN "running" ELSE "new"]

Fork(t) ==
  /\ phase[t] = "new" /\ phase[Parent[t]] = "running"
  /\ phase' = [phase EXCEPT ![t] = "running"]

End(a) ==
  /\ phase[a] = "running"
  /\ \A t \in Children(a) : phase[t] \in {"new", "consumed"}
  /\ phase' = [phase EXCEPT ![a] = "ended"]

Consume(t) ==
  /\ phase[t] = "ended" /\ phase[Parent[t]] = "running"
  /\ phase' = [phase EXCEPT ![t] = "consumed"]

Next ==
  \/ \E t \in Tasks : Fork(t) \/ Consume(t)
  \/ \E a \in Tasks \cup {Main} : End(a)

Spec == Init /\ [][Next]_phase
=============================================================================
