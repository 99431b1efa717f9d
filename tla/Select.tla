------------------------------- MODULE Select -------------------------------
(***************************************************************************)
(* The code py_compiler/syntax/block/select.py generates for               *)
(*   select with limit = n: case x from a: ... case y from b: ...          *)
(* A select asks its channels in the order of the cases whether they are   *)
(* ready, receives from the first that is, runs the body of that case and  *)
(* starts over, until it has received n values; when none is ready it      *)
(* yields the processor and asks again.                                    *)
(*                                                                         *)
(* The channels are the queues that Channel is shown to implement          *)
(* (FifoQueue, ChannelRefinement): send, receive and ready are one step    *)
(* each, and a receive from an empty channel waits.  Only how many values  *)
(* a channel holds matters here.                                           *)
(***************************************************************************)
EXTENDS Naturals, Sequences

CONSTANTS
  Channels,
  Capacity,    \* Capacity[c]: the most values c holds
  Producers,
  To,          \* To[p]: the channel p sends to
  Sends,       \* Sends[p]: how many values p sends
  Selects,     \* tasks that run a select
  Cases,       \* Cases[s]: the channels of the cases of s, in order
  Limit,       \* Limit[s]: the limit of s
  Onward,      \* Onward[s]: the channel the bodies of s send to, or None
  Leaving,     \* selects whose bodies may return
  None

ASSUME SelectAssumption ==
  /\ Capacity \in [Channels -> Nat]
  /\ To \in [Producers -> Channels] /\ Sends \in [Producers -> Nat]
  /\ Cases \in [Selects -> Seq(Channels)]
  /\ Limit \in [Selects -> Nat]
  /\ Onward \in [Selects -> Channels \cup {None}]

VARIABLES
  queue,       \* queue[c]: values in c
  sent,        \* sent[p]: values p has sent
  point,       \* point[s]: where s is
  case,        \* case[s]: the case whose channel s asks, or receives from
  taken,       \* taken[s]: the counter of s
  received     \* received[s]: the values s has received

selectVars == <<queue, sent, point, case, taken, received>>

SelectInit ==
  /\ queue = [c \in Channels |-> 0]
  /\ sent = [p \in Producers |-> 0]
  /\ point = [s \in Selects |-> "loop"]
  /\ case = [s \in Selects |-> 1]
  /\ taken = [s \in Selects |-> 0]
  /\ received = [s \in Selects |-> 0]

Goto(s, place) == point' = [point EXCEPT ![s] = place]

Room(c) == queue[c] < Capacity[c]
Put(c) == Room(c) /\ queue' = [queue EXCEPT ![c] = @ + 1]

Send(p) ==
  /\ sent[p] < Sends[p]
  /\ Put(To[p])
  /\ sent' = [sent EXCEPT ![p] = @ + 1]
  /\ UNCHANGED <<point, case, taken, received>>

-----------------------------------------------------------------------------
Source(s) == Cases[s][case[s]]

\* The head of the loop.
Test(s) ==
  /\ point[s] = "loop"
  /\ Goto(s, IF taken[s] < Limit[s] THEN "scan" ELSE "done")
  /\ case' = [case EXCEPT ![s] = 1]
  /\ UNCHANGED <<queue, sent, taken, received>>

\* The branches of ready() swapped for the last case.
Ready_bug(s) ==
  /\ point[s] = "scan"
  /\ case[s] <= Len(Cases[s])
  /\ IF queue[Source(s)] > 0 \/ case[s] = Len(Cases[s])
     THEN Goto(s, "receive") /\ UNCHANGED case
     ELSE case' = [case EXCEPT ![s] = @ + 1] /\ UNCHANGED point
  /\ UNCHANGED <<queue, sent, taken, received>>

\* ready() of the channel of this case; if it is not, the next case is asked.
Ready(s) ==
  /\ point[s] = "scan"
  /\ case[s] <= Len(Cases[s])
  /\ IF queue[Source(s)] > 0
     THEN Goto(s, "receive") /\ UNCHANGED case
     ELSE case' = [case EXCEPT ![s] = @ + 1] /\ UNCHANGED point
  /\ UNCHANGED <<queue, sent, taken, received>>

\* The jump back passes the incremented counter here too.
Yield_bug(s) ==
  /\ point[s] = "scan"
  /\ case[s] > Len(Cases[s])
  /\ Goto(s, "loop")
  /\ taken' = [taken EXCEPT ![s] = @ + 1]
  /\ UNCHANGED <<queue, sent, case, received>>

\* No channel was ready: sched_yield, and the loop again with the same counter.
Yield(s) ==
  /\ point[s] = "scan"
  /\ case[s] > Len(Cases[s])
  /\ Goto(s, "loop")
  /\ UNCHANGED <<queue, sent, case, taken, received>>

\* receive() takes the mutex anew and waits while the channel is empty.
Receive(s) ==
  /\ point[s] = "receive"
  /\ queue[Source(s)] > 0
  /\ queue' = [queue EXCEPT ![Source(s)] = @ - 1]
  /\ Goto(s, "body")
  /\ received' = [received EXCEPT ![s] = @ + 1]
  /\ UNCHANGED <<sent, case, taken>>

\* The body ends, after its send if it has one, and the counter goes up.
Body(s) ==
  /\ point[s] = "body"
  /\ IF Onward[s] = None THEN UNCHANGED queue ELSE Put(Onward[s])
  /\ taken' = [taken EXCEPT ![s] = @ + 1]
  /\ Goto(s, "loop")
  /\ UNCHANGED <<sent, case, received>>

\* The body returns from the function that holds the select.
LeaveBody(s) ==
  /\ point[s] = "body"
  /\ s \in Leaving
  /\ Goto(s, "left")
  /\ UNCHANGED <<queue, sent, case, taken, received>>

Step(s) == Test(s) \/ Ready(s) \/ Yield(s) \/ Receive(s) \/ Body(s) \/ LeaveBody(s)

Over(s) == point[s] \in {"done", "left"}
CasesOf(s) == {Cases[s][i] : i \in 1 .. Len(Cases[s])}

\* The body sends to a full channel whose last reader is over.
Unread(s) ==
  /\ point[s] = "body" /\ Onward[s] # None /\ ~Room(Onward[s])
  /\ \A t \in Selects : Onward[s] \in CasesOf(t) => Over(t)

\* The selects are over; what is still queued the owners of the channels drain.
SelectsOver ==
  /\ \A s \in Selects : Over(s) \/ Unread(s)
  /\ \A p \in Producers : sent[p] = Sends[p] \/ ~Room(To[p])
  /\ UNCHANGED selectVars

SelectNext ==
  \/ \E p \in Producers : Send(p)
  \/ \E s \in Selects : Step(s)
  \/ SelectsOver

SelectSpec == SelectInit /\ [][SelectNext]_selectVars

\* Every thread runs when it can; a select that finds nothing keeps asking.
SelectFair ==
  /\ SelectSpec
  /\ \A p \in Producers : WF_selectVars(Send(p))
  /\ \A s \in Selects : WF_selectVars(Step(s))

-----------------------------------------------------------------------------
SelectTypeOK ==
  /\ queue \in [Channels -> Nat] /\ \A c \in Channels : queue[c] <= Capacity[c]
  /\ sent \in [Producers -> Nat] /\ \A p \in Producers : sent[p] <= Sends[p]
  /\ point \in [Selects -> {"loop", "scan", "receive", "body", "done", "left"}]
  /\ case \in [Selects -> Nat] /\ \A s \in Selects : case[s] \in 1 .. Len(Cases[s]) + 1
  /\ taken \in [Selects -> Nat] /\ \A s \in Selects : taken[s] <= Limit[s]
  /\ received \in [Selects -> Nat]

(* A select receives no more values than its limit, over all its cases:     *)
(* the rest stays queued for whoever receives next.                         *)
WithinLimit == \A s \in Selects : received[s] <= Limit[s]

(* "Select chooses one ready arm" (docs/sip/0035-Concurrency.md:207): the   *)
(* channel a select receives from has a value when it gets there, so the    *)
(* select does not sleep in one case while another is ready.  ready() and   *)
(* receive() are two critical sections; this holds as long as no other task *)
(* receives from the same channels.                                         *)
ChoosesReady == \A s \in Selects : point[s] = "receive" => queue[Source(s)] > 0

(* A select whose channels are sent enough values receives exactly as many  *)
(* as its limit and ends, whatever order they come in and however full the  *)
(* other channels are; it never ends early because it found nothing.  Only  *)
(* a body that returns cuts a select short, and stops those that send on to *)
(* it once their channel is full.                                           *)
SelectEnds ==
  \A s \in Selects :
    <>(point[s] = "left" \/ (point[s] = "done" /\ received[s] = Limit[s]) \/ Unread(s))

-----------------------------------------------------------------------------

\* No two selects have a channel in common.
Exclusive == \A s, t \in Selects : s # t => CasesOf(s) \cap CasesOf(t) = {}

\* Where a select is, it is at one of its cases.
AtCase ==
  \A s \in Selects :
    /\ point[s] = "receive" => case[s] \in 1 .. Len(Cases[s])
    /\ point[s] \in {"scan", "receive", "body", "left"} => taken[s] < Limit[s]

\* The counter is one behind while a body runs.
Counted ==
  \A s \in Selects :
    received[s] = taken[s] + (IF point[s] \in {"body", "left"} THEN 1 ELSE 0)

SelectIndInv == SelectTypeOK /\ AtCase /\ Counted
=============================================================================
