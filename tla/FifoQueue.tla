------------------------------ MODULE FifoQueue ------------------------------
(***************************************************************************)
(* What a channel of py_compiler/syntax/complex/channel.py promises its    *)
(* users: "Owned FIFO channels" (line 1).  A channel is opened once with a *)
(* limit (0: no limit), values are put at the back, taken from the front,  *)
(* and the channel is closed only when nothing is left inside.             *)
(*                                                                         *)
(* `delivered' remembers every value handed out, in order; it is the       *)
(* history a user of the channel can observe.                              *)
(***************************************************************************)
EXTENDS Naturals, Sequences

CONSTANTS Items,      \* the values that may be sent
          Limits      \* the limits a channel may be opened with, 0 = unlimited

VARIABLES phase,      \* "absent", "open", "closed" or "aborted"
          limit,
          queue,
          delivered

vars == <<phase, limit, queue, delivered>>

Init ==
  /\ phase = "absent"
  /\ limit = 0
  /\ queue = << >>
  /\ delivered = << >>

Open ==
  /\ phase = "absent"
  /\ limit' \in Limits
  /\ phase' = "open"
  /\ UNCHANGED <<queue, delivered>>

Put(x) ==
  /\ phase = "open"
  /\ limit = 0 \/ Len(queue) < limit
  /\ queue' = Append(queue, x)
  /\ UNCHANGED <<phase, limit, delivered>>

Take ==
  /\ phase = "open"
  /\ queue # << >>
  /\ queue' = Tail(queue)
  /\ delivered' = Append(delivered, Head(queue))
  /\ UNCHANGED <<phase, limit>>

Close ==
  /\ phase = "open"
  /\ queue = << >>
  /\ phase' = "closed"
  /\ UNCHANGED <<limit, queue, delivered>>

\* A failed assertion of the runtime (allocation, capacity) ends the program.
Abort ==
  /\ phase \in {"absent", "open"}
  /\ phase' = "aborted"
  /\ UNCHANGED <<limit, queue, delivered>>

Next == Open \/ (\E x \in Items : Put(x)) \/ Take \/ Close \/ Abort

Spec == Init /\ [][Next]_vars
=============================================================================
