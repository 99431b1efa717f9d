--------------------------- MODULE MCConcurrency ----------------------------
(***************************************************************************)
(* Small programs with tasks, with a channel, and with selects; subject    *)
(* says which kind a behaviour is.                                         *)
(*                                                                         *)
(* Tasks, Shared: the main thread owns the counter c, starts the locked    *)
(*   mutators t1 and t2, and calls the mutating method k, which starts the *)
(*   locked mutator t3 and the unlocked reader t4 on its receiver.  A      *)
(*   program has at most one of t2 and t3.                                 *)
(* Tasks, Nested: t1 is locked, and starts the locked t2 on another        *)
(*   counter.                                                              *)
(* Channel: two producers against two consumers that leave one value to    *)
(*   the owner.  IntMax is 7 and DefaultSlots is 1, so a second queued     *)
(*   value makes the buffer grow, a third makes it grow again, and a fifth *)
(*   makes the doubling of 4 wrap.                                         *)
(* Selects, Pipeline: s1 receives from ca and cb and passes what it gets   *)
(*   on to ce, from which s2, whose body may return, receives beside cd.   *)
(* Selects, Common: s1 and s2 both receive from ca and cb.                 *)
(***************************************************************************)
EXTENDS Task, Channel, Select, TLC

CONSTANTS Subjects, t1, t2, t3, t4, k, c, d, p1, p2, c1, c2,
          ca, cb, cd, ce, pa, pb, pd, s1, s2,
          Either    \* tasks of which a program starts one at most

VARIABLE subject    \* "tasks", "channel" or "selects"

SharedParent == t1 :> Main @@ t2 :> Main @@ k :> Main @@ t3 :> k @@ t4 :> k
SharedReceiver == [t \in Tasks |-> c]
SharedHome == c :> Main

NestedParent == t1 :> Main @@ t2 :> t1
NestedReceiver == t1 :> c @@ t2 :> d
NestedHome == c :> Main @@ d :> t1

MCOutput == p1 :> 3 @@ p2 :> 2
MCQuota == c1 :> 2 @@ c2 :> 2
MCRequests == {-1, 0, 1, 2}

MCCapacity == [q \in Channels |-> IF q = cb THEN 2 ELSE 1]
MCTo == pa :> ca @@ pb :> cb @@ pd :> cd
PairTo == pa :> ca @@ pb :> cb
PipelineSends == pa :> 2 @@ pb :> 3 @@ pd :> 1
CommonSends == pa :> 2 @@ pb :> 2
PipelineCases == s1 :> <<ca, cb>> @@ s2 :> <<cd, ce>>
CommonCases == s1 :> <<ca, cb>> @@ s2 :> <<ca, cb>>
PipelineLimit == s1 :> 4 @@ s2 :> 4
CommonLimit == s1 :> 2 @@ s2 :> 2
PipelineOnward == s1 :> ce @@ s2 :> None
CommonOnward == s1 :> None @@ s2 :> None

ConcurrencyInit == subject \in Subjects /\ Init /\ ChannelInit /\ SelectInit

Begun == {t \in Tasks : pc[t] # "new" \/ \E a \in Activations : access[a].next = t}

ConcurrencyNext ==
  /\ UNCHANGED subject
  /\ \/ /\ subject = "tasks" /\ Next /\ UNCHANGED <<channelVars, selectVars>>
        /\ Cardinality(Begun' \cap Either) <= 1
     \/ subject = "channel" /\ ChannelNext /\ UNCHANGED <<vars, selectVars>>
     \/ subject = "selects" /\ SelectNext /\ UNCHANGED <<vars, channelVars>>

ConcurrencySpec ==
  ConcurrencyInit /\ [][ConcurrencyNext]_<<subject, vars, channelVars, selectVars>>

\* The fairness of FairSpec, of ChannelFair and of SelectFair.  Tasks and channels
\* make finitely many steps, so for them it is enough that some thread goes on.
ConcurrencyFair ==
  /\ ConcurrencySpec
  /\ WF_vars(subject = "tasks" /\ \E a \in Activations : Progress(a))
  /\ WF_channelVars(subject = "channel" /\ \E t \in Threads : ThreadStep(t))
  /\ \A p \in Producers : WF_selectVars(subject = "selects" /\ Send(p))
  /\ \A s \in Selects : WF_selectVars(subject = "selects" /\ Step(s))

(* Programs with tasks end, those with nested locked tasks excepted, and so *)
(* does every select that is sent enough.                                   *)
TasksFinish == subject = "tasks" => Finishes
SelectsEnd == subject = "selects" => SelectEnds
=============================================================================
