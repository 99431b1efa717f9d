-------------------------- MODULE ConcurrencyProofs --------------------------
(****************************************************************************)
(* Theorems of Task, for every task tree and every assignment of receivers  *)
(* and locks that its assumptions allow, and of Select, for any number of   *)
(* producers, channels and selects: the counters stay inside their bounds,  *)
(* and a select that shares no channel with another one never sleeps in a   *)
(* case.                                                                    *)
(****************************************************************************)
EXTENDS Task, Select, TLAPS

-----------------------------------------------------------------------------
(* Task                                                                     *)

LEMMA InitIndInv == Init => IndInv
<1> SUFFICES ASSUME Init PROVE IndInv OBVIOUS
<1> USE TaskAssumption, MutationAssumption DEF Init, Idle, Use
<1>0. Idle \in [object : Objects \cup {NoObject}, writes : BOOLEAN, next : Tasks \cup {NoTask}]
  OBVIOUS
<1>1. TypeOK
  <2>1. access \in [Activations -> [object : Objects \cup {NoObject}, writes : BOOLEAN,
                                   next : Tasks \cup {NoTask}]]
    BY <1>0
  <2>2. spent \in [Activations -> 0 .. Accesses] OBVIOUS
  <2> QED BY ONLY Init, <2>1, <2>2 DEF Init, TypeOK, Places, Activations
<1>2. Held(Main) = {} /\ \A a \in Activations : Held(a) = {} BY DEF Held
<1>3. OwnershipOK BY <1>2 DEF OwnershipOK, Activations
<1>4. LockOK BY DEF LockOK, Activations
<1>5. LoansOK BY <1>2 DEF LoansOK, Loans
<1>6. AliveOK BY DEF AliveOK
<1> QED BY <1>1, <1>3, <1>4, <1>5, <1>6 DEF IndInv

-----------------------------------------------------------------------------
\* What a join leaves behind.
LEMMA JoinEffect ==
  ASSUME TypeOK, NEW t \in Tasks, Join(t)
  PROVE  /\ joined' \in [Tasks -> BOOLEAN] /\ joins' \in [Tasks -> Nat]
         /\ joined[t] \/ pc[t] = "exited"
         /\ joined'[t]
         /\ joins'[t] = IF joined[t] THEN joins[t] ELSE joins[t] + 1
         /\ \A u \in Tasks \ {t} : joined'[u] = joined[u] /\ joins'[u] = joins[u]
<1>1. CASE joined[t] BY <1>1 DEF Join, TypeOK
<1>2. CASE ~joined[t]
  <2>1. pc[t] = "exited" /\ joins' = [joins EXCEPT ![t] = @ + 1] /\ joined' = [joined EXCEPT ![t] = TRUE]
    BY <1>2 DEF Join, Exited, Reap
  <2>2. joins \in [Tasks -> Nat] /\ joined \in [Tasks -> BOOLEAN] BY DEF TypeOK
  <2>3. joins' \in [Tasks -> Nat] /\ joins'[t] = joins[t] + 1 BY ONLY <2>1, <2>2
  <2>4. joined' \in [Tasks -> BOOLEAN] /\ joined'[t] BY ONLY <2>1, <2>2
  <2> QED BY ONLY <1>2, <2>1, <2>2, <2>3, <2>4
<1> QED BY <1>1, <1>2

LEMMA TypePreserved == TypeOK /\ [Next]_vars => TypeOK'
<1> SUFFICES ASSUME TypeOK, [Next]_vars PROVE TypeOK' OBVIOUS
<1> USE TaskAssumption, MutationAssumption DEF TypeOK, Places, Activations, heap, objects
<1>1. ASSUME NEW a \in Activations, StartFails(a) PROVE TypeOK' BY <1>1 DEF StartFails
<1>2. ASSUME NEW a \in Activations, EndAccess(a) PROVE TypeOK' BY <1>2 DEF EndAccess, Idle, Use
<1>3. ASSUME NEW a \in Activations, EndAwait(a) PROVE TypeOK'
  <2>1. awaiting[a] \in Tasks BY <1>3 DEF EndAwait
  <2>2. joined' \in [Tasks -> BOOLEAN] /\ joins' \in [Tasks -> Nat]
    BY ONLY <1>3, <2>1, TypeOK, JoinEffect DEF EndAwait
  <2> QED BY <1>3, <2>1, <2>2 DEF EndAwait
<1>4. ASSUME NEW a \in Activations, Return(a) PROVE TypeOK' BY <1>4 DEF Return
<1>5. ASSUME NEW a \in Activations, EndCleanup(a) PROVE TypeOK' BY <1>5 DEF EndCleanup
<1>6. ASSUME NEW a \in Activations, NEW t \in Tasks, Start(a, t) PROVE TypeOK'
  BY <1>6 DEF Start, CanStart, Idle, Use
<1>7. ASSUME NEW a \in Activations, NEW t \in Tasks, Poll(a, t) PROVE TypeOK' BY <1>7 DEF Poll, Reap
<1>8. ASSUME NEW a \in Activations, NEW t \in Tasks, BeginAwait(a, t) PROVE TypeOK'
  BY <1>8 DEF BeginAwait
<1>9. ASSUME NEW a \in Activations, NEW t \in Tasks, Release(a, t) PROVE TypeOK'
  <2>1. joined' \in [Tasks -> BOOLEAN] /\ joins' \in [Tasks -> Nat]
    BY ONLY <1>9, TypeOK, JoinEffect DEF Release
  <2> QED BY <1>9, <2>1 DEF Release
<1>10. ASSUME NEW a \in Activations, NEW o \in Objects, Destroy(a, o) PROVE TypeOK'
  BY <1>10 DEF Destroy
<1>11. ASSUME NEW a \in Activations, NEW o \in Objects, NEW w \in BOOLEAN, BeginAccess(a, o, w)
       PROVE TypeOK'
  BY <1>11 DEF BeginAccess, BeginUse, Use
<1>12. ASSUME NEW t \in Tasks, Worker(t) PROVE TypeOK'
  <2>1. CASE Enter(t) BY <2>1 DEF Enter
  <2>2. CASE StoreResult(t) BY <2>2 DEF StoreResult
  <2>3. CASE Leave(t) BY <2>3 DEF Leave
  <2> QED BY ONLY <1>12, <2>1, <2>2, <2>3 DEF Worker
<1>13. CASE UNCHANGED vars BY <1>13 DEF vars
<1>14. ASSUME NEW a \in Activations, NEW t \in Tasks, Call(a, t) PROVE TypeOK'
  BY <1>14 DEF Call
<1>15. ASSUME NEW a \in Activations, EndCall(a) PROVE TypeOK'
  BY <1>15 DEF EndCall
<1>16. ASSUME NEW a \in Activations, NEW t \in Tasks, NEW o \in Objects, ReadArgument(a, o, t)
       PROVE TypeOK'
  BY <1>16 DEF ReadArgument, BeginUse, Use
<1> QED
  BY ONLY [Next]_vars, <1>1, <1>2, <1>3, <1>4, <1>5, <1>6, <1>7, <1>8, <1>9, <1>10, <1>11,
     <1>12, <1>13, <1>14, <1>15, <1>16
  DEF Next, Terminated

-----------------------------------------------------------------------------
(* A frame stays with the scope that started its task.                      *)

\* An activation that starts a task is in its body and waits for nothing.
LEMMA Starting ==
  ASSUME TypeOK, OwnershipOK, NEW a \in Activations, NEW t \in Tasks, CanStart(a, t)
  PROVE  pc[a] = "body" /\ awaiting[a] = NoTask /\ Parent[t] = a /\ pc[t] = "new"
<1>1. CASE Running(a) BY <1>1 DEF CanStart, Running
<1>2. CASE access[a].next = t
  <2>1. access[a] # Idle BY <1>2, TaskAssumption DEF Idle, Use, Activations
  <2> QED BY <2>1 DEF CanStart, OwnershipOK
<1> QED BY <1>1, <1>2 DEF CanStart

LEMMA OwnershipPreserved == TypeOK /\ OwnershipOK /\ [Next]_vars => OwnershipOK'
<1> SUFFICES ASSUME TypeOK, OwnershipOK, [Next]_vars PROVE OwnershipOK' OBVIOUS
<1> USE TaskAssumption DEF TypeOK, OwnershipOK, Activations, Held
<1>1. ASSUME NEW a \in Activations, StartFails(a) PROVE OwnershipOK'
  BY <1>1 DEF StartFails, heap, objects
<1>2. ASSUME NEW a \in Activations, EndAccess(a) PROVE OwnershipOK'
  BY <1>2 DEF EndAccess, heap
<1>3. ASSUME NEW a \in Activations, EndAwait(a) PROVE OwnershipOK'
  <2> DEFINE t == awaiting[a]
  <2>1. t \in Tasks /\ t # NoTask BY <1>3 DEF EndAwait
  <2>2. /\ joined[t] \/ pc[t] = "exited"
        /\ joined'[t]
        /\ joins'[t] = IF joined[t] THEN joins[t] ELSE joins[t] + 1
        /\ \A u \in Tasks \ {t} : joined'[u] = joined[u] /\ joins'[u] = joins[u]
    BY ONLY <1>3, <2>1, TypeOK, JoinEffect DEF EndAwait
  <2>3. Parent[t] = a /\ frame[t] = "live" BY <2>1
  <2>4. frame' = [frame EXCEPT ![t] = "freed"] /\ awaiting' = [awaiting EXCEPT ![a] = NoTask]
        /\ UNCHANGED <<pc, pending, access>> BY <1>3 DEF EndAwait, objects
  <2> QED BY <2>1, <2>2, <2>3, <2>4
<1>4. ASSUME NEW a \in Activations, Return(a) PROVE OwnershipOK'
  BY <1>4 DEF Return, Running, heap, objects
<1>5. ASSUME NEW a \in Activations, EndCleanup(a) PROVE OwnershipOK'
  BY <1>5 DEF EndCleanup, Cleaned, heap, objects
<1>6. ASSUME NEW a \in Activations, NEW t \in Tasks, Start(a, t) PROVE OwnershipOK'
  <2>1. pc[a] = "body" /\ awaiting[a] = NoTask /\ Parent[t] = a /\ pc[t] = "new"
    BY ONLY <1>6, TypeOK, OwnershipOK, Starting DEF Start, Activations
  <2>2. /\ t \notin Calls
        /\ pc' = [pc EXCEPT ![t] = "started"] /\ frame' = [frame EXCEPT ![t] = "live"]
        /\ pending' = [pending EXCEPT ![a] = @ \cup {t}]
        /\ access' = [access EXCEPT ![a] = Idle]
        /\ UNCHANGED <<joined, joins, awaiting>>
    BY <1>6 DEF Start, CanStart
  <2>3. frame[t] = "absent" /\ t # NoTask /\ a # t BY <2>1
  <2>4. Held(a)' = Held(a) \cup {t} /\ \A b \in Activations \ {a} : Held(b)' = Held(b)
    BY <2>1, <2>2
  <2>5. /\ \A b \in Activations :
             /\ Held(b)' = pending'[b] \cup ({awaiting'[b]} \ {NoTask})
             /\ awaiting'[b] \notin pending'[b] /\ pending'[b] \cap Calls = {}
    BY <2>1, <2>2, <2>3, <2>4
  <2>6. \A b \in Activations :
             /\ pending'[b] # {} => pc'[b] \in {"body", "cleanup"}
             /\ awaiting'[b] # NoTask => pc'[b] = "body"
             /\ access'[b] # Idle => pc'[b] = "body" /\ awaiting'[b] = NoTask
    BY <2>1, <2>2, <2>3
  <2>7. \A u \in Tasks : /\ frame'[u] = "absent" <=> pc'[u] = "new"
                         /\ frame'[u] = "freed" => pc'[u] = "exited" /\ (joined'[u] \/ u \in Calls)
                         /\ joined'[u] => pc'[u] = "exited"
                         /\ joins'[u] = IF joined'[u] THEN 1 ELSE 0
    BY <2>1, <2>2, <2>3
  <2> QED BY <2>5, <2>6, <2>7 DEF Idle, Use
<1>7. ASSUME NEW a \in Activations, NEW t \in Tasks, Poll(a, t) PROVE OwnershipOK'
  BY <1>7 DEF Poll, Reap, Exited, objects
<1>8. ASSUME NEW a \in Activations, NEW t \in Tasks, BeginAwait(a, t) PROVE OwnershipOK'
  BY <1>8 DEF BeginAwait, Running, heap, objects
<1>9. ASSUME NEW a \in Activations, NEW t \in Tasks, Release(a, t) PROVE OwnershipOK'
  <2>2. /\ joined[t] \/ pc[t] = "exited"
        /\ joined'[t]
        /\ joins'[t] = IF joined[t] THEN joins[t] ELSE joins[t] + 1
        /\ \A u \in Tasks \ {t} : joined'[u] = joined[u] /\ joins'[u] = joins[u]
    BY ONLY <1>9, TypeOK, JoinEffect DEF Release
  <2>3. Parent[t] = a /\ frame[t] = "live" BY <1>9 DEF Release
  <2>4. frame' = [frame EXCEPT ![t] = "freed"] /\ pending' = [pending EXCEPT ![a] = @ \ {t}]
        /\ UNCHANGED <<pc, awaiting, access>> BY <1>9 DEF Release, objects
  <2>5. t \in pending[a] /\ awaiting[a] # t /\ t # NoTask BY <1>9 DEF Release
  <2>6. Held(a)' = Held(a) \ {t} /\ \A b \in Activations \ {a} : Held(b)' = Held(b)
    BY <2>3, <2>4
  <2>7. pending'[a] = pending[a] \ {t} /\ \A b \in Activations \ {a} : pending'[b] = pending[b]
    BY <2>4
  <2>8. \A b \in Activations : Held(b)' = pending'[b] \cup ({awaiting'[b]} \ {NoTask})
    BY <2>4, <2>5, <2>6, <2>7 DEF OwnershipOK
  <2>9. \A u \in Tasks : /\ frame'[u] = "absent" <=> pc'[u] = "new"
                         /\ frame'[u] = "freed" => pc'[u] = "exited" /\ (joined'[u] \/ u \in Calls)
                         /\ joined'[u] => pc'[u] = "exited"
                         /\ joins'[u] = IF joined'[u] THEN 1 ELSE 0
    BY <2>2, <2>3, <2>4
  <2> QED BY <2>4, <2>7, <2>8, <2>9
<1>10. ASSUME NEW a \in Activations, NEW o \in Objects, Destroy(a, o) PROVE OwnershipOK'
  BY <1>10 DEF Destroy, heap
<1>11. ASSUME NEW a \in Activations, NEW o \in Objects, NEW w \in BOOLEAN, BeginAccess(a, o, w)
       PROVE OwnershipOK'
  BY <1>11 DEF BeginAccess, BeginUse, Running, heap
<1>12. ASSUME NEW t \in Tasks, Worker(t) PROVE OwnershipOK'
  <2>1. CASE Enter(t) BY <2>1 DEF Enter, heap, objects
  <2>2. CASE StoreResult(t) BY <2>2 DEF StoreResult, objects
  <2>3. CASE Leave(t) BY <2>3 DEF Leave, heap, objects
  <2> QED BY ONLY <1>12, <2>1, <2>2, <2>3 DEF Worker
<1>13. CASE UNCHANGED vars BY <1>13 DEF vars, heap, objects
<1>14. ASSUME NEW a \in Activations, NEW t \in Tasks, Call(a, t) PROVE OwnershipOK'
  BY <1>14 DEF Call, Running, objects
<1>15. ASSUME NEW a \in Activations, EndCall(a) PROVE OwnershipOK'
  BY <1>15 DEF EndCall, objects
<1>16. ASSUME NEW a \in Activations, NEW t \in Tasks, NEW o \in Objects, ReadArgument(a, o, t)
       PROVE OwnershipOK'
  <2>1. Running(a) /\ access' = [access EXCEPT ![a] = Use(o, FALSE, t)]
        /\ UNCHANGED <<pc, frame, joined, joins, pending, awaiting>>
    BY <1>16 DEF ReadArgument, BeginUse, heap
  <2>2. pc[a] = "body" /\ awaiting[a] = NoTask BY <2>1 DEF Running
  <2>3. \A b \in Activations :
          access'[b] # Idle => pc[b] = "body" /\ awaiting[b] = NoTask
    BY <2>1, <2>2
  <2>4. \A b \in Activations : Held(b)' = Held(b) BY <2>1
  <2>5. Idle' = Idle BY DEF Idle, Use
  <2> HIDE DEF Held
  <2> QED BY <2>1, <2>3, <2>4, <2>5
<1> QED
  BY ONLY [Next]_vars, <1>1, <1>2, <1>3, <1>4, <1>5, <1>6, <1>7, <1>8, <1>9, <1>10, <1>11,
     <1>12, <1>13, <1>14, <1>15, <1>16
  DEF Next, Terminated

-----------------------------------------------------------------------------
(* Every unfinished task with receiver o stands below a task of o's owner   *)
(* that also has receiver o: by induction down the tree.                    *)
LEMMA RootedBorrow ==
  ASSUME TypeOK, OwnershipOK, NEW o \in Objects
  PROVE  \A t \in Tasks : Unfinished(t) /\ Receiver[t] = o =>
           \E u \in Loans(Home[o], o) :
             Unfinished(u) /\ (u = t \/ (pc[u] \in {"body", "cleanup"} /\ Loans(u, o) # {}))
<1> DEFINE P(t) == Unfinished(t) /\ Receiver[t] = o =>
           \E u \in Loans(Home[o], o) :
             Unfinished(u) /\ (u = t \/ (pc[u] \in {"body", "cleanup"} /\ Loans(u, o) # {}))
           S == {t \in Tasks : ~P(t)}
<1>1. SUFFICES ASSUME S # {} PROVE FALSE OBVIOUS
<1>2. PICK t \in S : Parent[t] \notin S BY ONLY <1>1, TreeAssumption
<1>3. t \in Tasks /\ Unfinished(t) /\ Receiver[t] = o BY <1>2
<1> HIDE DEF P
<1>4. t \in Loans(Parent[t], o)
  <2>1. frame[t] # "absent" /\ frame[t] # "freed"
    BY <1>3 DEF OwnershipOK, Unfinished, Places
  <2> QED BY <2>1, <1>3 DEF TypeOK, Loans, Held
<1>5. Parent[t] \in Activations BY <1>3, TaskAssumption
<1>6. pc[Parent[t]] \in {"body", "cleanup"}
  BY <1>4, <1>5 DEF OwnershipOK, Loans, Held
<1>7. Home[o] # Parent[t]
  BY <1>2, <1>3, <1>4 DEF P
<1>8. Parent[t] \in Tasks /\ Receiver[Parent[t]] = o
  BY <1>3, <1>5, <1>7, TaskAssumption DEF Reach, InMethod
<1>9. P(Parent[t]) BY <1>2, <1>8
<1>10. Unfinished(Parent[t]) BY <1>6 DEF Unfinished, Places
<1>11. P(t) BY <1>4, <1>6, <1>8, <1>9, <1>10 DEF P
<1> QED BY <1>2, <1>11

-----------------------------------------------------------------------------
LEMMA LockPreserved == TypeOK /\ LockOK /\ [Next]_vars => LockOK'
<1> SUFFICES ASSUME TypeOK, LockOK, [Next]_vars PROVE LockOK' OBVIOUS
<1> USE TaskAssumption, MutationAssumption DEF TypeOK, LockOK, Activations
<1>1. ASSUME NEW a \in Activations, StartFails(a) PROVE LockOK' BY <1>1 DEF StartFails
<1>2. ASSUME NEW a \in Activations, EndAccess(a) PROVE LockOK' BY <1>2 DEF EndAccess
<1>3. ASSUME NEW a \in Activations, EndAwait(a) PROVE LockOK' BY <1>3 DEF EndAwait
<1>4. ASSUME NEW a \in Activations, Return(a) PROVE LockOK' BY <1>4 DEF Return, Running
<1>5. ASSUME NEW a \in Activations, EndCleanup(a) PROVE LockOK' BY <1>5 DEF EndCleanup
<1>6. ASSUME NEW a \in Activations, NEW t \in Tasks, Start(a, t) PROVE LockOK'
  BY <1>6 DEF Start, CanStart
<1>7. ASSUME NEW a \in Activations, NEW t \in Tasks, Poll(a, t) PROVE LockOK' BY <1>7 DEF Poll
<1>8. ASSUME NEW a \in Activations, NEW t \in Tasks, BeginAwait(a, t) PROVE LockOK'
  BY <1>8 DEF BeginAwait
<1>9. ASSUME NEW a \in Activations, NEW t \in Tasks, Release(a, t) PROVE LockOK'
  BY <1>9 DEF Release
<1>10. ASSUME NEW a \in Activations, NEW o \in Objects, Destroy(a, o) PROVE LockOK'
  BY <1>10 DEF Destroy
<1>11. ASSUME NEW a \in Activations, NEW o \in Objects, NEW w \in BOOLEAN, BeginAccess(a, o, w)
       PROVE LockOK'
  BY <1>11 DEF BeginAccess, BeginUse
<1>12. ASSUME NEW t \in Tasks, Worker(t) PROVE LockOK'
  <2>1. CASE Enter(t) BY <2>1 DEF Enter
  <2>2. CASE StoreResult(t) BY <2>2 DEF StoreResult
  <2>3. CASE Leave(t) BY <2>3 DEF Leave
  <2> QED BY ONLY <1>12, <2>1, <2>2, <2>3 DEF Worker
<1>13. CASE UNCHANGED vars BY <1>13 DEF vars
<1>14. ASSUME NEW a \in Activations, NEW t \in Tasks, Call(a, t) PROVE LockOK'
  BY <1>14 DEF Call
<1>15. ASSUME NEW a \in Activations, EndCall(a) PROVE LockOK'
  BY <1>15 DEF EndCall
<1>16. ASSUME NEW a \in Activations, NEW t \in Tasks, NEW o \in Objects, ReadArgument(a, o, t)
       PROVE LockOK'
  BY <1>16 DEF ReadArgument, BeginUse
<1> QED
  BY ONLY [Next]_vars, <1>1, <1>2, <1>3, <1>4, <1>5, <1>6, <1>7, <1>8, <1>9, <1>10, <1>11,
     <1>12, <1>13, <1>14, <1>15, <1>16
  DEF Next, Terminated

-----------------------------------------------------------------------------
(* A step that starts no task and begins no access only ends loans.         *)
LEMMA LoansShrink ==
  ASSUME TypeOK, LoansOK,
         \A t \in Tasks : frame'[t] = "live" => frame[t] = "live",
         \A a \in Activations : access'[a] = access[a] \/ access'[a] = Idle
  PROVE  LoansOK'
<1>1. \A a \in Activations, o \in Objects : Loans(a, o)' \subseteq Loans(a, o)
  BY DEF Loans, Held
<1>2. \A a \in Activations, o \in Objects :
        access'[a].object = o => access'[a] = access[a]
  BY TaskAssumption DEF Idle, Use
<1> QED BY <1>1, <1>2 DEF LoansOK, Reach

\* While an activation runs, it holds exactly the tasks it may still await.
LEMMA RunningLoans ==
  ASSUME TypeOK, OwnershipOK, NEW a \in Activations, awaiting[a] = NoTask, NEW o \in Objects
  PROVE  Loans(a, o) = Borrowers(a, o)
<1>1. Held(a) = pending[a] \cup ({awaiting[a]} \ {NoTask}) BY DEF OwnershipOK
<1> QED BY <1>1 DEF Loans, Borrowers

LEMMA LoansPreserved == TypeOK /\ OwnershipOK /\ LoansOK /\ [Next]_vars => LoansOK'
<1> SUFFICES ASSUME TypeOK, OwnershipOK, LoansOK, [Next]_vars PROVE LoansOK' OBVIOUS
<1> DEFINE NoLoan == /\ \A t \in Tasks : frame'[t] = "live" => frame[t] = "live"
                     /\ \A a \in Activations : access'[a] = access[a] \/ access'[a] = Idle
<1> USE DEF heap, objects
<1>0. ASSUME NoLoan PROVE LoansOK' BY <1>0, LoansShrink
<1>1. ASSUME NEW a \in Activations, StartFails(a) PROVE LoansOK' BY <1>0, <1>1 DEF StartFails
<1>2. ASSUME NEW a \in Activations, EndAccess(a) PROVE LoansOK'
  BY <1>0, <1>2 DEF EndAccess, TypeOK
<1>3. ASSUME NEW a \in Activations, EndAwait(a) PROVE LoansOK'
  BY <1>0, <1>3 DEF EndAwait, TypeOK
<1>4. ASSUME NEW a \in Activations, Return(a) PROVE LoansOK' BY <1>0, <1>4 DEF Return
<1>5. ASSUME NEW a \in Activations, EndCleanup(a) PROVE LoansOK' BY <1>0, <1>5 DEF EndCleanup
<1>6. ASSUME NEW a \in Activations, NEW t \in Tasks, Start(a, t) \/ Call(a, t) PROVE LoansOK'
  <2>1. /\ awaiting[a] = NoTask /\ Parent[t] = a /\ frame' = [frame EXCEPT ![t] = "live"]
        /\ access' = [access EXCEPT ![a] = Idle] \/ (access' = access /\ access[a] = Idle)
    BY <1>6, Starting DEF Start, Call, Running
  <2>2. \A b \in Activations, o \in Objects :
          Loans(b, o)' = IF b = a /\ o = Receiver[t] THEN Loans(b, o) \cup {t} ELSE Loans(b, o)
    BY <2>1 DEF Loans, Held, TypeOK
  <2>3. ASSUME NEW b \in Activations, NEW o \in Objects, ~InMethod(b, o),
               NEW v \in Loans(b, o)', NEW u \in Loans(b, o)'
        PROVE  ~Clash(v, u)
    <3>1. CASE b = a /\ o = Receiver[t]
      <4>1. Loans(b, o)' = Borrowers(a, o) \cup {t}
        BY <2>1, <2>2, <3>1, RunningLoans
      <4>2. /\ \A x, y \in Borrowers(a, o) : ~Clash(x, y)
            /\ Borrowers(a, o) \cap Calls = {}
        <5>1. Borrowers(a, o) = Loans(a, o) BY <2>1, RunningLoans
        <5> QED BY <2>3, <3>1, <5>1 DEF LoansOK, OwnershipOK, Borrowers
      <4>3. Mutating \subseteq Locked \cup Calls /\ Locked \subseteq Tasks \ Calls
        BY MutationAssumption
      <4>4. CASE Start(a, t)
        <5>1. /\ t \notin Calls
              /\ t \in Locked \/ Borrowers(a, o) \cap Locked = {}
              /\ t \in Mutating => Borrowers(a, o) = {} \/ Borrowers(a, o) \subseteq Locked
          BY <2>3, <3>1, <4>4, TaskAssumption DEF Start, CanStart, MayStart, MayRead, ReadClear
        <5> QED BY ONLY <4>1, <4>2, <4>3, <5>1, <2>3 DEF Clash
      <4>5. CASE Call(a, t)
        <5>1. IF t \in Mutating THEN Borrowers(a, o) = {} ELSE Borrowers(a, o) \cap Locked = {}
          BY <2>3, <3>1, <4>5 DEF Call, MayCall, MayRead, ReadClear
        <5> QED BY ONLY <4>1, <4>2, <4>3, <5>1, <2>3 DEF Clash
      <4> QED BY <1>6, <4>4, <4>5
    <3>2. CASE ~(b = a /\ o = Receiver[t]) BY <2>2, <2>3, <3>2 DEF LoansOK
    <3> QED BY <3>1, <3>2
  <2>4. \A b \in Activations, o \in Objects :
          access'[b].object = o => access'[b] = access[b] /\ Loans(b, o)' = Loans(b, o)
    <3>1. access'[a] = Idle /\ \A b \in Activations \ {a} : access'[b] = access[b]
      BY <2>1 DEF TypeOK
    <3>2. Idle.object \notin Objects BY TaskAssumption DEF Idle, Use
    <3> QED BY <2>2, <3>1, <3>2
  <2> QED BY <2>3, <2>4 DEF LoansOK, Reach, InMethod
<1>7. ASSUME NEW a \in Activations, NEW t \in Tasks, Poll(a, t) PROVE LoansOK'
  BY <1>0, <1>7 DEF Poll
<1>8. ASSUME NEW a \in Activations, NEW t \in Tasks, BeginAwait(a, t) PROVE LoansOK'
  BY <1>0, <1>8 DEF BeginAwait
<1>9. ASSUME NEW a \in Activations, NEW t \in Tasks, Release(a, t) PROVE LoansOK'
  BY <1>0, <1>9 DEF Release, TypeOK
<1>10. ASSUME NEW a \in Activations, NEW o \in Objects, Destroy(a, o) PROVE LoansOK'
  BY <1>0, <1>10 DEF Destroy
<1>11. ASSUME NEW a \in Activations, NEW o \in Objects, NEW w \in BOOLEAN, BeginAccess(a, o, w)
       PROVE LoansOK'
  <2>1. /\ awaiting[a] = NoTask /\ o \in Reach(a) /\ frame' = frame
        /\ access' = [access EXCEPT ![a] = Use(o, w, NoTask)]
        /\ IF w THEN MayWrite(a, o) ELSE MayRead(a, o)
    BY <1>11 DEF BeginAccess, BeginUse, Running
  <2>2. \A b \in Activations, p \in Objects : Loans(b, p)' = Loans(b, p)
    BY <2>1 DEF Loans, Held
  <2>3. Loans(a, o) = Borrowers(a, o) BY <2>1, RunningLoans
  <2>4. /\ w /\ InMethod(a, o) => a \in Mutating
        /\ ~InMethod(a, o) => Loans(a, o) \cap Locked = {} /\ (w => Loans(a, o) = {})
    BY <2>1, <2>3 DEF MayWrite, MayRead, ReadClear
  <2>5. /\ access'[a] = Use(o, w, NoTask)
        /\ \A b \in Activations \ {a} : access'[b] = access[b]
    BY <2>1 DEF TypeOK
  <2> QED BY <2>1, <2>2, <2>4, <2>5 DEF LoansOK, Reach, InMethod, Use
<1>12. ASSUME NEW t \in Tasks, Worker(t) PROVE LoansOK'
  BY <1>0, <1>12 DEF Worker, Enter, StoreResult, Leave
<1>13. CASE UNCHANGED vars BY <1>0, <1>13 DEF vars
<1>14. ASSUME NEW a \in Activations, NEW t \in Tasks, Call(a, t) PROVE LoansOK'
  BY <1>6, <1>14
<1>15. ASSUME NEW a \in Activations, EndCall(a) PROVE LoansOK'
  BY <1>0, <1>15 DEF EndCall, TypeOK
<1>16. ASSUME NEW a \in Activations, NEW t \in Tasks, NEW o \in Objects, ReadArgument(a, o, t)
       PROVE LoansOK'
  <2>1. /\ o \in Reach(a) /\ frame' = frame
        /\ access' = [access EXCEPT ![a] = Use(o, FALSE, t)]
    BY <1>16 DEF ReadArgument, BeginUse
  <2>2. \A b \in Activations, p \in Objects : Loans(b, p)' = Loans(b, p)
    BY <2>1 DEF Loans, Held
  <2>3. /\ access'[a] = Use(o, FALSE, t)
        /\ \A b \in Activations \ {a} : access'[b] = access[b]
    BY <2>1 DEF TypeOK
  <2>4. t # NoTask BY TaskAssumption DEF Activations
  <2> QED BY <2>1, <2>2, <2>3, <2>4 DEF LoansOK, Reach, InMethod, Use
<1> QED
  BY ONLY [Next]_vars, <1>1, <1>2, <1>3, <1>4, <1>5, <1>6, <1>7, <1>8, <1>9, <1>10, <1>11,
     <1>12, <1>13, <1>14, <1>15, <1>16
  DEF Next, Terminated

-----------------------------------------------------------------------------
LEMMA AlivePreserved == TypeOK /\ OwnershipOK /\ AliveOK /\ [Next]_vars => AliveOK'
<1> SUFFICES ASSUME TypeOK, OwnershipOK, AliveOK, [Next]_vars PROVE AliveOK' OBVIOUS
<1> DEFINE Ended(a) == pc[a] \notin {"new", "started", "body"}
           NoLoan == /\ \A t \in Tasks : frame'[t] = "live" => frame[t] = "live"
                     /\ alive' = alive
                     /\ \A a \in Activations : Ended(a) => Ended(a)'
<1> USE DEF heap, objects
<1>0. ASSUME NoLoan PROVE AliveOK'
  <2>1. \A a \in Activations, o \in Objects : Loans(a, o)' \subseteq Loans(a, o)
    BY <1>0 DEF Loans, Held
  <2> QED BY <1>0, <2>1, TaskAssumption DEF AliveOK
<1>1. ASSUME NEW a \in Activations, StartFails(a) PROVE AliveOK' BY <1>0, <1>1 DEF StartFails
<1>2. ASSUME NEW a \in Activations, EndAccess(a) PROVE AliveOK' BY <1>0, <1>2 DEF EndAccess
<1>3. ASSUME NEW a \in Activations, EndAwait(a) PROVE AliveOK'
  BY <1>0, <1>3 DEF EndAwait, TypeOK
<1>4. ASSUME NEW a \in Activations, Return(a) PROVE AliveOK' BY <1>0, <1>4 DEF Return, TypeOK
<1>5. ASSUME NEW a \in Activations, EndCleanup(a) PROVE AliveOK'
  BY <1>0, <1>5 DEF EndCleanup, TypeOK
<1>6. ASSUME NEW a \in Activations, NEW t \in Tasks, Start(a, t) \/ Call(a, t) PROVE AliveOK'
  <2>1. /\ pc[a] = "body" /\ Parent[t] = a /\ pc[t] = "new" /\ alive' = alive
        /\ frame' = [frame EXCEPT ![t] = "live"]
        /\ \E p \in {"started", "body"} : pc' = [pc EXCEPT ![t] = p]
    BY <1>6, Starting DEF Start, Call, Running
  <2>2. ASSUME NEW o \in Objects \ alive
        PROVE  Ended(Home[o])' /\ Loans(Home[o], o)' = {}
    <3>1. Ended(Home[o]) /\ Loans(Home[o], o) = {} BY DEF AliveOK
    <3>2. Home[o] # a /\ Home[o] # t BY <2>1, <3>1
    <3>3. Ended(Home[o])' BY <2>1, <3>1, <3>2, TaskAssumption DEF TypeOK
    <3>4. Loans(Home[o], o)' = Loans(Home[o], o) BY <2>1, <3>2 DEF Loans, Held, TypeOK
    <3> QED BY <3>1, <3>3, <3>4
  <2> QED BY <2>1, <2>2 DEF AliveOK
<1>7. ASSUME NEW a \in Activations, NEW t \in Tasks, Poll(a, t) PROVE AliveOK'
  BY <1>0, <1>7 DEF Poll
<1>8. ASSUME NEW a \in Activations, NEW t \in Tasks, BeginAwait(a, t) PROVE AliveOK'
  BY <1>0, <1>8 DEF BeginAwait
<1>9. ASSUME NEW a \in Activations, NEW t \in Tasks, Release(a, t) PROVE AliveOK'
  BY <1>0, <1>9 DEF Release, TypeOK
<1>10. ASSUME NEW a \in Activations, NEW o \in Objects, Destroy(a, o) PROVE AliveOK'
  <2>1. /\ pc[a] = "cleanup" /\ Home[o] = a /\ Borrowers(a, o) = {}
        /\ alive' = alive \ {o} /\ pc' = pc /\ frame' = frame
    BY <1>10 DEF Destroy
  <2>2. awaiting[a] = NoTask BY <2>1 DEF OwnershipOK
  <2>3. Loans(a, o) = {} BY <2>1, <2>2, RunningLoans
  <2>4. \A b \in Activations, p \in Objects : Loans(b, p)' = Loans(b, p)
    BY <2>1 DEF Loans, Held
  <2> QED BY <2>1, <2>3, <2>4, TaskAssumption DEF AliveOK
<1>11. ASSUME NEW a \in Activations, NEW o \in Objects, NEW w \in BOOLEAN, BeginAccess(a, o, w)
       PROVE AliveOK'
  BY <1>0, <1>11 DEF BeginAccess, BeginUse
<1>12. ASSUME NEW t \in Tasks, Worker(t) PROVE AliveOK'
  <2>1. CASE Enter(t) BY <1>0, <2>1 DEF Enter, TypeOK
  <2>2. CASE StoreResult(t) BY <1>0, <2>2 DEF StoreResult, TypeOK
  <2>3. CASE Leave(t) BY <1>0, <2>3 DEF Leave, TypeOK
  <2> QED BY ONLY <1>12, <2>1, <2>2, <2>3 DEF Worker
<1>13. CASE UNCHANGED vars BY <1>0, <1>13 DEF vars
<1>14. ASSUME NEW a \in Activations, NEW t \in Tasks, Call(a, t) PROVE AliveOK'
  BY <1>6, <1>14
<1>15. ASSUME NEW a \in Activations, EndCall(a) PROVE AliveOK'
  BY <1>0, <1>15 DEF EndCall, TypeOK
<1>16. ASSUME NEW a \in Activations, NEW t \in Tasks, NEW o \in Objects, ReadArgument(a, o, t)
       PROVE AliveOK'
  BY <1>0, <1>16 DEF ReadArgument, BeginUse
<1> QED
  BY ONLY [Next]_vars, <1>1, <1>2, <1>3, <1>4, <1>5, <1>6, <1>7, <1>8, <1>9, <1>10, <1>11,
     <1>12, <1>13, <1>14, <1>15, <1>16
  DEF Next, Terminated

-----------------------------------------------------------------------------
LEMMA Inductive == IndInv /\ [Next]_vars => IndInv'
BY TypePreserved, OwnershipPreserved, LockPreserved, LoansPreserved, AlivePreserved DEF IndInv

(* The inductive invariant holds: frames stay with their owners, the mutex  *)
(* with one locked task, and loans with what the checker's rules say of     *)
(* accesses and starts by name; of a method's own fields, and of the        *)
(* arguments of a locked task, it claims only who can use them.             *)
THEOREM Invariance == Spec => []IndInv
BY InitIndInv, Inductive, PTL DEF Spec

\* The state stays well typed.
THEOREM TypeCorrect == Spec => []TypeOK
<1>1. IndInv => TypeOK BY DEF IndInv
<1> QED BY <1>1, Invariance, PTL

\* A worker never loads from or stores into a freed frame.
THEOREM FramesOutliveWorkers == Spec => []FrameOutlivesWorker
<1>1. IndInv => FrameOutlivesWorker
  BY DEF IndInv, TypeOK, OwnershipOK, FrameOutlivesWorker, Unfinished, Places
<1> QED BY <1>1, Invariance, PTL

\* No thread is joined twice, and no frame is freed before its thread is joined.
THEOREM EveryThreadJoinedOnce == Spec => []JoinedOnce
<1>1. IndInv => JoinedOnce
  <2> SUFFICES ASSUME IndInv PROVE JoinedOnce OBVIOUS
  <2>1. \A t \in Tasks : /\ joins[t] = IF joined[t] THEN 1 ELSE 0
                         /\ frame[t] = "freed" => joined[t] \/ t \in Calls
    BY DEF IndInv, OwnershipOK
  <2> QED BY <2>1 DEF JoinedOnce
<1> QED BY <1>1, Invariance, PTL

\* The receiver of an unfinished task has not been destroyed.
THEOREM ReceiversOutliveTasks == Spec => []ReceiverOutlivesTask
<1>1. IndInv => ReceiverOutlivesTask
  <2> SUFFICES ASSUME IndInv, NEW t \in Tasks, Unfinished(t), Receiver[t] # NoObject,
                      Receiver[t] \notin alive
               PROVE  FALSE
    BY DEF ReceiverOutlivesTask
  <2>1. TypeOK /\ OwnershipOK /\ AliveOK BY DEF IndInv
  <2>2. Receiver[t] \in Objects BY TaskAssumption
  <2>3. Loans(Home[Receiver[t]], Receiver[t]) # {} BY <2>1, <2>2, RootedBorrow
  <2> QED BY <2>1, <2>2, <2>3 DEF AliveOK
<1> QED BY <1>1, Invariance, PTL

(* The activations from the owner of o down to x: each stands on o, and each  *)
(* but x holds a task on o that is among them.                              *)
Chain(C, x, o) ==
  /\ C \subseteq Activations /\ x \in C /\ Home[o] \in C
  /\ \A m \in C : pc[m] \in {"body", "cleanup"}
  /\ \A m \in C \ {Home[o]} : m \in Tasks /\ Parent[m] \in C /\ m \in Loans(Parent[m], o)
  /\ \A m \in C \ {x} : \E v \in C \ {Home[o]} : Parent[v] = m
  /\ x \in Mutating /\ x # Home[o] => C \ {Home[o]} \subseteq Mutating

\* One more activation at the end of a chain.
LEMMA ChainGrows ==
  ASSUME NEW o \in Objects, NEW t \in Tasks, t # Home[o],
         pc[t] \in {"body", "cleanup"}, t \in Loans(Parent[t], o),
         NEW C, Chain(C, Parent[t], o), Parent[t] = Home[o] => C = {Home[o]}
  PROVE  Chain(C \cup {t}, t, o)
<1>1. t \in Mutating => C \ {Home[o]} \subseteq Mutating
  <2>1. Receiver[t] = o BY DEF Loans
  <2>2. CASE Parent[t] = Home[o] BY <2>2
  <2>3. CASE Parent[t] # Home[o] BY <2>1, <2>3, MutationAssumption DEF Chain
  <2> QED BY <2>2, <2>3
<1>2. \A m \in (C \cup {t}) \ {t} : \E v \in (C \cup {t}) \ {Home[o]} : Parent[v] = m
  BY DEF Chain
<1> QED BY <1>1, <1>2 DEF Chain, Activations

\* Who can use an object stands at the end of a chain: by induction down the tree.
LEMMA ChainExists ==
  ASSUME TypeOK, OwnershipOK, NEW o \in Objects
  PROVE  \A x \in Activations :
           o \in Reach(x) /\ pc[x] \in {"body", "cleanup"} => \E C : Chain(C, x, o)
<1> DEFINE P(x) == o \in Reach(x) /\ pc[x] \in {"body", "cleanup"} => \E C : Chain(C, x, o)
           S == {t \in Tasks : ~P(t)}
<1>1. P(Home[o])
  <2>1. pc[Home[o]] \in {"body", "cleanup"} => Chain({Home[o]}, Home[o], o)
    BY TaskAssumption DEF Chain
  <2> QED BY <2>1
<1>2. P(Main)
  <2>1. o \in Reach(Main) => Home[o] = Main BY TaskAssumption DEF Reach, InMethod
  <2> QED BY <1>1, <2>1
<1>3. S = {}
  <2> SUFFICES ASSUME S # {} PROVE FALSE OBVIOUS
  <2> HIDE DEF P
  <2>1. PICK t \in S : Parent[t] \notin S BY TreeAssumption
  <2>2. t \in Tasks /\ ~P(t) BY <2>1
  <2>3. o \in Reach(t) /\ pc[t] \in {"body", "cleanup"} /\ t # Home[o] BY <1>1, <2>2 DEF P
  <2>4. Receiver[t] = o BY <2>3 DEF Reach, InMethod
  <2>5. Parent[t] \in Activations BY <2>2, TaskAssumption
  <2>6. t \in Loans(Parent[t], o)
    <3>1. frame[t] \in {"absent", "live", "freed"} BY <2>2 DEF TypeOK
    <3> QED BY <2>2, <2>3, <2>4, <3>1 DEF OwnershipOK, Loans, Held
  <2>7. pc[Parent[t]] \in {"body", "cleanup"}
    <3>1. t \in Held(Parent[t]) BY <2>6 DEF Loans
    <3> QED BY <2>5, <3>1 DEF OwnershipOK
  <2>8. o \in Reach(Parent[t])
    <3>1. Receiver[t] # NoObject BY <2>4, TaskAssumption
    <3> QED BY <2>2, <2>4, <3>1, TaskAssumption
  <2>9. P(Parent[t]) BY <1>2, <2>1, <2>5 DEF Activations
  <2>10. PICK C : Chain(C, Parent[t], o) /\ (Parent[t] = Home[o] => C = {Home[o]})
    <3>1. CASE Parent[t] = Home[o]
      <4>1. Chain({Home[o]}, Home[o], o) BY <2>5, <2>7, <3>1 DEF Chain
      <4> QED BY <3>1, <4>1
    <3>2. CASE Parent[t] # Home[o] BY <2>7, <2>8, <2>9, <3>2 DEF P
    <3> QED BY <3>1, <3>2
  <2>11. Chain(C \cup {t}, t, o) BY <2>2, <2>3, <2>6, <2>10, ChainGrows
  <2> QED BY <2>2, <2>11 DEF P
<1> HIDE DEF P
<1>4. \A x \in Activations : P(x) BY <1>2, <1>3 DEF Activations
<1> QED BY <1>4 DEF P

(* Two activations use an object at once, one of them to write, only where   *)
(* some activation uses the object, or starts tasks on it, in a method of    *)
(* the object or in the arguments of a locked task, which the checker does   *)
(* not look into: the accesses made by name, the starts made by name and the *)
(* lock let in no race.  Where the chains of the two from the owner part, or *)
(* where one ends on the other, someone did what the rules for names forbid. *)
THEOREM NoDataRace == Spec => []RaceFree
<1>1. IndInv => RaceFree
  <2> SUFFICES ASSUME IndInv, NEW a \in Activations, NEW b \in Activations, NEW o \in Objects,
                      a # b, access[a].object = o, access[b].object = o, access[a].writes,
                      \A m \in Activations : ~Unchecked(m, o)
               PROVE  FALSE
    BY DEF RaceFree
  <2> DEFINE h == Home[o]
  <2>1. TypeOK /\ OwnershipOK /\ LockOK /\ LoansOK BY DEF IndInv
  <2>2. access[a] # Idle /\ access[b] # Idle BY TaskAssumption DEF Idle, Use
  <2>3. /\ pc[a] = "body" /\ pc[b] = "body" /\ awaiting[b] = NoTask
        /\ o \in Reach(a) /\ o \in Reach(b)
    BY <2>1, <2>2 DEF OwnershipOK, LoansOK
  <2>4. PICK A : Chain(A, a, o) BY <2>1, <2>3, ChainExists
  <2>5. PICK B : Chain(B, b, o) BY <2>1, <2>3, ChainExists
  <2> HIDE DEF h
  <2>6. \A v : v \in B \ {Home[o]} => v \in Tasks /\ v \in Loans(Parent[v], o)
    BY <2>5 DEF Chain
  <2>7. a \notin B
    <3> SUFFICES ASSUME a \in B PROVE FALSE OBVIOUS
    <3>1. PICK v \in B \ {Home[o]} : Parent[v] = a BY <2>5 DEF Chain
    <3>2. v \in Loans(a, o) BY <2>6, <3>1
    <3>3. InMethod(a, o) \/ access[a].next # NoTask BY <2>1, <3>2 DEF LoansOK
    <3>4. Unchecked(a, o) BY <3>2, <3>3 DEF Unchecked
    <3> QED BY <3>4
  <2>8. a # Home[o] /\ a \in Mutating
    <3>1. a # Home[o] BY <2>5, <2>7 DEF Chain
    <3>2. InMethod(a, o) BY <2>3, <3>1 DEF Reach
    <3> QED BY <2>1, <3>1, <3>2 DEF LoansOK
  <2>9. \A u \in A \ B : u \in Tasks /\ u \in Mutating /\ Parent[u] \in A /\ u \in Loans(Parent[u], o)
    <3>1. Home[o] \in B BY <2>5 DEF Chain
    <3> QED BY <2>4, <2>8, <3>1 DEF Chain
  <2>10. PICK u \in A \ B : Parent[u] \notin A \ B
    <3>1. A \ B \in SUBSET Tasks /\ A \ B # {} BY <2>4, <2>7, <2>9 DEF Chain
    <3> QED BY <3>1, TreeAssumption
  <2> DEFINE m == Parent[u]
  <2>11. /\ u \in Tasks /\ u \in Mutating /\ u \in Loans(m, o)
         /\ m \in A /\ m \in B /\ m \in Activations
         /\ pc[u] \in {"body", "cleanup"}
    BY <2>4, <2>9, <2>10 DEF Chain
  <2> HIDE DEF m
  <2>12. CASE m = b
    <3>1. u \in Loans(b, o) BY <2>11, <2>12
    <3>2. u \notin Calls
      <4>1. u \in Held(b) BY <3>1 DEF Loans
      <4>2. u \in pending[b] /\ pending[b] \cap Calls = {} BY <2>1, <2>3, <4>1 DEF OwnershipOK
      <4> QED BY <4>2
    <3>3. u \in Locked BY <2>11, <3>2, MutationAssumption
    <3>4. InMethod(b, o) \/ access[b].next # NoTask BY <2>1, <3>1, <3>3 DEF LoansOK
    <3>5. Unchecked(b, o) BY <2>11, <3>1, <3>4 DEF Unchecked
    <3> QED BY <3>5
  <2>13. CASE m # b
    <3>1. PICK v \in B \ {Home[o]} : Parent[v] = m BY <2>5, <2>11, <2>13 DEF Chain
    <3>2. v \in Tasks /\ v \in Loans(m, o) /\ v # u /\ pc[v] \in {"body", "cleanup"}
      BY <2>5, <2>6, <2>10, <3>1 DEF Chain
    <3>3. ~({u, v} \subseteq Locked)
      <4> SUFFICES ASSUME u \in Locked, v \in Locked PROVE FALSE OBVIOUS
      <4>1. mutex = u /\ mutex = v BY <2>1, <2>11, <3>2 DEF LockOK
      <4> QED BY <3>2, <4>1
    <3>4. Clash(u, v) BY <2>11, <3>2, <3>3 DEF Clash
    <3>5. InMethod(m, o) BY <2>1, <2>11, <3>2, <3>4 DEF LoansOK
    <3>6. Unchecked(m, o) BY <2>11, <3>2, <3>4, <3>5 DEF Unchecked
    <3> QED BY <2>11, <3>6
  <2> QED BY <2>12, <2>13
<1> QED BY <1>1, Invariance, PTL

-----------------------------------------------------------------------------
LEMMA InitStructured == Init => Tree!Init
<1> SUFFICES ASSUME Init PROVE Tree!Init OBVIOUS
<1>1. \A a \in Activations : phase[a] = IF a = Main THEN "running" ELSE "new"
  BY TaskAssumption DEF Init, phase
<1>2. phase = [a \in Activations |-> IF a = Main THEN "running" ELSE "new"]
  BY <1>1 DEF phase
<1> QED BY <1>2 DEF Tree!Init, Activations

\* The phases after a step that changes the phase of one activation only.
LEMMA PhaseUpdate ==
  ASSUME NEW b \in Activations, NEW new,
         phase'[b] = new, \A a \in Activations \ {b} : phase'[a] = phase[a]
  PROVE  phase' = [phase EXCEPT ![b] = new]
BY DEF phase

LEMMA PhaseSame ==
  ASSUME \A a \in Activations : phase'[a] = phase[a]
  PROVE  phase' = phase
BY DEF phase

\* Whoever can be joined has ended.
LEMMA JoinedEnded ==
  ASSUME TypeOK, OwnershipOK, NEW t \in Tasks, Join(t)
  PROVE  pc[t] = "exited"
BY JoinEffect DEF OwnershipOK

\* Consuming what has ended: the step EndAwait, EndCall and Release have in common.
LEMMA ConsumeStep ==
  ASSUME IndInv, NEW a \in Activations, NEW t \in Held(a),
         pc[a] \in {"body", "cleanup"}, pc[t] = "exited",
         pc' = pc, frame' = [frame EXCEPT ![t] = "freed"]
  PROVE  Tree!Consume(t)
<1> USE TaskAssumption DEF Activations
<1>1. TypeOK /\ OwnershipOK /\ t \in Tasks /\ Parent[t] = a /\ frame[t] = "live"
  BY DEF IndInv, Held
<1>3. a # t OBVIOUS
<1>4. phase[t] = "ended" BY <1>1 DEF phase
<1>5. phase[a] = "running"
  <2>1. a \in Tasks => frame[a] # "freed" BY <1>1 DEF OwnershipOK
  <2> QED BY <2>1 DEF phase
<1>6. phase'[t] = "consumed" BY <1>1 DEF phase, TypeOK
<1>7. \A b \in Activations \ {t} : phase'[b] = phase[b] BY <1>1 DEF phase, TypeOK
<1>8. phase' = [phase EXCEPT ![t] = "consumed"] BY ONLY <1>1, <1>6, <1>7, PhaseUpdate DEF Activations
<1> QED BY <1>1, <1>4, <1>5, <1>8 DEF Tree!Consume

LEMMA StepStructured == IndInv /\ [Next]_vars => [Tree!Next]_phase
<1> SUFFICES ASSUME IndInv, [Next]_vars PROVE [Tree!Next]_phase OBVIOUS
<1> DEFINE Goal == [Tree!Next]_phase
<1> USE DEF heap, objects
<1>a. TypeOK /\ OwnershipOK BY DEF IndInv
<1>0. ASSUME \A b \in Activations : phase'[b] = phase[b] PROVE Goal BY <1>0, PhaseSame
<1>b. ASSUME UNCHANGED <<pc, frame>> PROVE Goal
  <2>1. \A b \in Activations : phase'[b] = phase[b] BY <1>b DEF phase
  <2> QED BY <1>0, <2>1
<1> HIDE DEF Goal
<1>1. ASSUME NEW a \in Activations, StartFails(a) PROVE Goal BY <1>b, <1>1 DEF StartFails
<1>2. ASSUME NEW a \in Activations, EndAccess(a) PROVE Goal BY <1>b, <1>2 DEF EndAccess
<1>3. ASSUME NEW a \in Activations, EndAwait(a) PROVE Goal
  <2>1. awaiting[a] \in Held(a) /\ pc[a] = "body" /\ pc[awaiting[a]] = "exited"
    BY <1>a, <1>3, JoinedEnded, TaskAssumption DEF EndAwait, OwnershipOK, TypeOK, Activations
  <2>2. Tree!Consume(awaiting[a]) BY <1>3, <2>1, ConsumeStep DEF EndAwait
  <2> QED BY <2>1, <2>2 DEF Goal, Tree!Next, Held
<1>4. ASSUME NEW a \in Activations, Return(a) PROVE Goal
  <2>1. pc[a] = "body" /\ pc' = [pc EXCEPT ![a] = "cleanup"] /\ frame' = frame
    BY <1>4 DEF Return, Running
  <2>2. \A b \in Activations : phase'[b] = phase[b] BY <1>a, <2>1 DEF phase, TypeOK
  <2> QED BY <1>0, <2>2
<1>5. ASSUME NEW a \in Activations, EndCleanup(a) PROVE Goal
  <2>1. /\ pc[a] = "cleanup" /\ pending[a] = {} /\ frame' = frame
        /\ \E p \in {"exited", "returning"} : pc' = [pc EXCEPT ![a] = p]
    BY <1>5 DEF EndCleanup, Cleaned
  <2>2. Held(a) = {} BY <1>a, <2>1 DEF OwnershipOK
  <2>3. \A t \in Tree!Children(a) : phase[t] \in {"new", "consumed"}
    BY <1>a, <2>2 DEF Tree!Children, Held, phase, OwnershipOK, TypeOK, Activations
  <2>4. a \in Tasks => frame[a] # "freed" BY <1>a, <2>1 DEF OwnershipOK
  <2>5. phase[a] = "running" BY <2>1, <2>4 DEF phase
  <2>6. phase'[a] = "ended" BY <1>a, <2>1, <2>4 DEF phase, TypeOK
  <2>7. \A b \in Activations \ {a} : phase'[b] = phase[b] BY <1>a, <2>1 DEF phase, TypeOK
  <2>8. phase' = [phase EXCEPT ![a] = "ended"] BY <2>6, <2>7, PhaseUpdate
  <2>9. Tree!End(a) BY <2>3, <2>5, <2>8 DEF Tree!End
  <2> QED BY <2>9 DEF Goal, Tree!Next, Activations
<1>6. ASSUME NEW a \in Activations, NEW t \in Tasks, Start(a, t) \/ Call(a, t) PROVE Goal
  <2>1. /\ pc[a] = "body" /\ Parent[t] = a /\ pc[t] = "new"
        /\ frame' = [frame EXCEPT ![t] = "live"]
        /\ \E p \in {"started", "body"} : pc' = [pc EXCEPT ![t] = p]
    BY <1>a, <1>6, Starting DEF Start, Call, Running
  <2>2. a \in Tasks => frame[a] # "freed" BY <1>a, <2>1 DEF OwnershipOK
  <2>3. phase[a] = "running" BY <2>1, <2>2 DEF phase
  <2>4. frame[t] = "absent" BY <1>a, <2>1 DEF OwnershipOK
  <2>5. phase[t] = "new" BY <2>1, <2>4 DEF phase, Activations
  <2>6. phase'[t] = "running" BY <1>a, <2>1 DEF phase, TypeOK, Activations
  <2>7. \A b \in Activations \ {t} : phase'[b] = phase[b] BY <1>a, <2>1 DEF phase, TypeOK
  <2>8. phase' = [phase EXCEPT ![t] = "running"] BY <2>6, <2>7, PhaseUpdate DEF Activations
  <2>9. Tree!Fork(t) BY <2>1, <2>3, <2>5, <2>8 DEF Tree!Fork
  <2> QED BY <2>9 DEF Goal, Tree!Next
<1>7. ASSUME NEW a \in Activations, NEW t \in Tasks, Poll(a, t) PROVE Goal
  BY <1>b, <1>7 DEF Poll
<1>8. ASSUME NEW a \in Activations, NEW t \in Tasks, BeginAwait(a, t) PROVE Goal
  BY <1>b, <1>8 DEF BeginAwait
<1>9. ASSUME NEW a \in Activations, NEW t \in Tasks, Release(a, t) PROVE Goal
  <2>1. t \in Held(a) /\ pc[a] \in {"body", "cleanup"} /\ pc[t] = "exited"
    BY <1>a, <1>9, JoinedEnded DEF Release, OwnershipOK, TypeOK
  <2>2. Tree!Consume(t) BY <1>9, <2>1, ConsumeStep DEF Release
  <2> QED BY <2>2 DEF Goal, Tree!Next
<1>10. ASSUME NEW a \in Activations, NEW o \in Objects, Destroy(a, o) PROVE Goal
  BY <1>b, <1>10 DEF Destroy
<1>11. ASSUME NEW a \in Activations, NEW o \in Objects, NEW w \in BOOLEAN, BeginAccess(a, o, w)
       PROVE Goal
  BY <1>b, <1>11 DEF BeginAccess, BeginUse
<1>12. ASSUME NEW t \in Tasks, Worker(t) PROVE Goal
  <2>1. /\ frame' = frame /\ \A u \in Activations \ {t} : pc'[u] = pc[u]
        /\ \/ pc[t] = "started" /\ pc'[t] = "body"
           \/ pc[t] \in {"returning", "stored"} /\ pc'[t] \in {"stored", "exited"}
    BY <1>a, <1>12 DEF Worker, Enter, StoreResult, Leave, TypeOK, Activations
  <2>2. \A b \in Activations : phase'[b] = phase[b] BY <2>1 DEF phase
  <2> QED BY <1>0, <2>2
<1>13. ASSUME UNCHANGED vars PROVE Goal BY <1>b, <1>13 DEF vars
<1>14. ASSUME NEW a \in Activations, NEW t \in Tasks, Call(a, t) PROVE Goal BY <1>6, <1>14
<1>15. ASSUME NEW a \in Activations, EndCall(a) PROVE Goal
  <2>1. awaiting[a] \in Held(a) /\ pc[a] = "body"
    BY <1>a, <1>15, MutationAssumption, TaskAssumption DEF EndCall, OwnershipOK, TypeOK, Activations
  <2>2. Tree!Consume(awaiting[a]) BY <1>15, <2>1, ConsumeStep DEF EndCall
  <2> QED BY <2>1, <2>2 DEF Goal, Tree!Next, Held
<1>16. ASSUME NEW a \in Activations, NEW t \in Tasks, NEW o \in Objects, ReadArgument(a, o, t)
       PROVE Goal
  BY <1>b, <1>16 DEF ReadArgument, BeginUse
<1>17. Goal
  BY ONLY [Next]_vars, <1>1, <1>2, <1>3, <1>4, <1>5, <1>6, <1>7, <1>8, <1>9, <1>10, <1>11,
     <1>12, <1>13, <1>14, <1>15, <1>16
  DEF Next, Terminated
<1> QED BY <1>17 DEF Goal

(* The runtime's tasks form the tree of ForkJoin: none outlives the body    *)
(* that started it, and each is consumed once, by that body, after it ended.*)
THEOREM TasksAreStructured == Spec => Structured
<1>1. Tree!Spec <=> Tree!Init /\ [][Tree!Next]_phase BY DEF Tree!Spec
<1> QED BY <1>1, InitStructured, StepStructured, Invariance, PTL DEF Spec, Structured

-----------------------------------------------------------------------------
(* Select                                                                   *)

\* The initial state has the invariant.
LEMMA SelectInitInv == SelectInit => SelectIndInv
  BY SelectAssumption DEF SelectInit, SelectIndInv, SelectTypeOK, AtCase, Counted

\* What the assumptions say of one channel: a channel with room keeps to its
\* capacity when it is sent one more value.
LEMMA PutTyped ==
  ASSUME SelectTypeOK, NEW c \in Channels, Put(c)
  PROVE  queue' \in [Channels -> Nat] /\ \A d \in Channels : queue'[d] <= Capacity[d]
<1>1. queue[c] \in Nat /\ Capacity[c] \in Nat /\ queue[c] < Capacity[c]
  BY SelectAssumption DEF SelectTypeOK, Put, Room
<1>2. queue' = [queue EXCEPT ![c] = queue[c] + 1]
  BY DEF Put
<1>3. queue[c] + 1 <= Capacity[c] /\ queue[c] + 1 \in Nat
  BY <1>1
<1>4. ASSUME NEW d \in Channels PROVE queue'[d] <= Capacity[d]
  BY <1>2, <1>3 DEF SelectTypeOK
<1> QED BY <1>2, <1>3, <1>4 DEF SelectTypeOK

\* A producer only fills its channel, and moves no select.
LEMMA SendInv == ASSUME SelectIndInv, NEW p \in Producers, Send(p) PROVE SelectIndInv'
<1>1. queue' \in [Channels -> Nat] /\ \A c \in Channels : queue'[c] <= Capacity[c]
  BY PutTyped, SelectAssumption DEF SelectIndInv, Send
<1>2. sent' \in [Producers -> Nat] /\ \A q \in Producers : sent'[q] <= Sends[q]
  <2>1. sent[p] \in Nat /\ Sends[p] \in Nat /\ sent[p] < Sends[p]
    BY SelectAssumption DEF SelectIndInv, SelectTypeOK, Send
  <2>2. sent' = [sent EXCEPT ![p] = sent[p] + 1] /\ sent[p] + 1 <= Sends[p]
    BY <2>1 DEF Send
  <2>3. \A q \in Producers : sent'[q] <= Sends[q]
    BY <2>2 DEF SelectIndInv, SelectTypeOK
  <2> QED BY <2>2, <2>3 DEF SelectIndInv, SelectTypeOK
<1>3. UNCHANGED <<point, case, taken, received>>
  BY DEF Send
<1> QED BY <1>1, <1>2, <1>3 DEF SelectIndInv, SelectTypeOK, AtCase, Counted

\* What the counter says outside the body.
LEMMA NotInBody ==
  ASSUME SelectIndInv, NEW s \in Selects, point[s] = "receive"
  PROVE  received[s] = taken[s]
<1>1. received[s] = taken[s] + 0
  BY DEF SelectIndInv, Counted
<1>2. taken[s] \in Nat
  BY DEF SelectIndInv, SelectTypeOK
<1> QED BY <1>1, <1>2

\* A select keeps its counters, and its place in the list of cases.
LEMMA SelectStepInv == ASSUME SelectIndInv, NEW s \in Selects, Step(s) PROVE SelectIndInv'
<1> USE SelectAssumption DEF SelectIndInv, SelectTypeOK, AtCase, Counted, Goto
<1>1. Len(Cases[s]) \in Nat
  OBVIOUS
<1>2. CASE Test(s)
  BY <1>1, <1>2 DEF Test
<1>3. CASE Ready(s)
  <2>1. case[s] \in 1 .. Len(Cases[s])
    BY <1>1, <1>3 DEF Ready
  <2>2. CASE queue[Source(s)] > 0
    BY <2>1, <2>2, <1>3 DEF Ready
  <2>3. CASE ~(queue[Source(s)] > 0)
    <3>1. case' = [case EXCEPT ![s] = case[s] + 1] /\ UNCHANGED <<point, queue, sent, taken, received>>
      BY <2>3, <1>3 DEF Ready
    <3>2. case[s] + 1 \in 1 .. Len(Cases[s]) + 1
      BY <1>1, <2>1
    <3>3. case' \in [Selects -> Nat]
      BY <3>1, <3>2, <1>1
    <3>4. \A t \in Selects : case'[t] \in 1 .. Len(Cases[t]) + 1
      BY <3>1, <3>2
    <3>5. point[s] = "scan"
      BY <1>3 DEF Ready
    <3>6. AtCase'
      BY <3>1, <3>5
    <3>7. SelectTypeOK'
      BY <3>1, <3>3, <3>4
    <3>8. Counted'
      BY <3>1, <3>5
    <3> QED BY <3>6, <3>7, <3>8
  <2> QED BY <2>2, <2>3
<1>4. CASE Yield(s)
  BY <1>1, <1>4 DEF Yield
<1>5. CASE Receive(s)
  <2>1. Source(s) \in Channels
    BY <1>1, <1>5 DEF Receive, Source
  <2>2. queue' = [queue EXCEPT ![Source(s)] = queue[Source(s)] - 1]
    BY <1>5 DEF Receive
  <2>3. queue[Source(s)] - 1 \in Nat /\ queue[Source(s)] - 1 <= Capacity[Source(s)]
    BY <1>5, <2>1 DEF Receive
  <2>4. queue' \in [Channels -> Nat] /\ \A c \in Channels : queue'[c] <= Capacity[c]
    BY <2>1, <2>2, <2>3
  <2>5. /\ point[s] = "receive"
        /\ point' = [point EXCEPT ![s] = "body"]
        /\ received' = [received EXCEPT ![s] = received[s] + 1]
        /\ UNCHANGED <<sent, case, taken>>
    BY <1>5 DEF Receive
  <2>6. point' \in [Selects -> {"loop", "scan", "receive", "body", "done", "left"}]
    BY <2>5
  <2>7. received' \in [Selects -> Nat]
    BY <2>5
  <2>8. SelectTypeOK'
    BY <2>4, <2>5, <2>6, <2>7
  <2>9. AtCase'
    BY <2>5, <2>6
  <2>10. ASSUME NEW t \in Selects
         PROVE  received'[t] = taken'[t] + (IF point'[t] \in {"body", "left"} THEN 1 ELSE 0)
    <3>1. CASE t = s
      <4>1. received[s] = taken[s]
        BY <2>5, NotInBody
      <4>2. point'[s] = "body" /\ received'[s] = received[s] + 1 /\ taken'[s] = taken[s]
        BY <2>5
      <4> QED BY <4>1, <4>2, <3>1
    <3>2. CASE t # s
      BY <2>5, <3>2
    <3> QED BY <3>1, <3>2
  <2> QED BY <2>8, <2>9, <2>10
<1>6. CASE Body(s)
  <2>1. queue' \in [Channels -> Nat] /\ \A c \in Channels : queue'[c] <= Capacity[c]
    BY <1>6, PutTyped DEF Body
  <2>2. taken[s] \in Nat /\ taken[s] < Limit[s] /\ taken[s] + 1 <= Limit[s]
    BY <1>6 DEF Body
  <2>3. /\ taken' = [taken EXCEPT ![s] = taken[s] + 1]
        /\ point' = [point EXCEPT ![s] = "loop"]
        /\ UNCHANGED <<sent, case, received>>
    BY <1>6 DEF Body
  <2>4. taken' \in [Selects -> Nat] /\ \A t \in Selects : taken'[t] <= Limit[t]
    BY <2>2, <2>3
  <2>5. point' \in [Selects -> {"loop", "scan", "receive", "body", "done", "left"}]
    BY <2>3
  <2>6. AtCase'
    BY <2>3
  <2>7. Counted'
    BY <2>3, <1>6 DEF Body
  <2> QED BY <2>1, <2>3, <2>4, <2>5, <2>6, <2>7
<1>7. CASE LeaveBody(s)
  BY <1>1, <1>7 DEF LeaveBody
<1> QED BY <1>2, <1>3, <1>4, <1>5, <1>6, <1>7 DEF Step

\* The invariant holds in every reachable state.
THEOREM SelectInvariance == SelectSpec => []SelectIndInv
<1>1. SelectIndInv /\ [SelectNext]_selectVars => SelectIndInv'
  <2> SUFFICES ASSUME SelectIndInv, [SelectNext]_selectVars PROVE SelectIndInv'
    OBVIOUS
  <2>1. CASE UNCHANGED selectVars
    BY <2>1 DEF selectVars, SelectIndInv, SelectTypeOK, AtCase, Counted
  <2>2. CASE SelectsOver
    BY <2>2 DEF SelectsOver, selectVars, SelectIndInv, SelectTypeOK, AtCase, Counted
  <2> QED BY <2>1, <2>2, SendInv, SelectStepInv DEF SelectNext
<1> QED BY SelectInitInv, <1>1, PTL DEF SelectSpec

\* SelectTypeOK in every state: no channel above its capacity, no select above its
\* limit, and none outside its list of cases.
THEOREM SelectTypeCorrect == SelectSpec => []SelectTypeOK
<1>1. SelectIndInv => SelectTypeOK
  BY DEF SelectIndInv
<1> QED BY SelectInvariance, <1>1, PTL

\* WithinLimit: the counter, one behind while a body runs, bounds what a
\* select receives.
THEOREM LimitKept == SelectSpec => []WithinLimit
<1>1. SelectIndInv => WithinLimit
  <2> SUFFICES ASSUME SelectIndInv, NEW s \in Selects PROVE received[s] <= Limit[s]
    BY DEF WithinLimit
  <2>1. taken[s] \in Nat /\ Limit[s] \in Nat /\ taken[s] <= Limit[s]
    BY SelectAssumption DEF SelectIndInv, SelectTypeOK
  <2>2. CASE point[s] \in {"body", "left"}
    BY <2>1, <2>2 DEF SelectIndInv, AtCase, Counted
  <2>3. CASE point[s] \notin {"body", "left"}
    BY <2>1, <2>3 DEF SelectIndInv, Counted
  <2> QED BY <2>2, <2>3
<1> QED BY SelectInvariance, <1>1, PTL

-----------------------------------------------------------------------------
\* Only the step of a select itself takes it to "receive" or on from there,
\* and only selects take values out of a channel.
LEMMA ReadyStays ==
  ASSUME Exclusive, SelectIndInv, ChoosesReady, [SelectNext]_selectVars
  PROVE  ChoosesReady'
<1> SUFFICES ASSUME NEW t \in Selects, point'[t] = "receive"
             PROVE  queue'[Source(t)'] > 0
  BY DEF ChoosesReady
<1>1. CASE UNCHANGED selectVars \/ SelectsOver
  BY <1>1 DEF SelectsOver, selectVars, ChoosesReady, Source
<1>2. ASSUME NEW p \in Producers, Send(p) PROVE queue'[Source(t)'] > 0
  <2>1. Source(t)' = Source(t) /\ point[t] = "receive" /\ Put(To[p])
    BY <1>2 DEF Send, Source
  <2>2. Source(t) \in Channels
    BY <2>1, SelectAssumption DEF SelectIndInv, AtCase, Source
  <2>3. queue[Source(t)] > 0
    BY <2>1 DEF ChoosesReady
  <2> QED BY <2>1, <2>2, <2>3 DEF Put, SelectIndInv, SelectTypeOK
<1>3. ASSUME NEW s \in Selects, Step(s) PROVE queue'[Source(t)'] > 0
  <2>1. CASE s = t
    <3>1. Ready(t) /\ queue[Source(t)] > 0
      BY <1>3, <2>1 DEF Step, Test, Ready, Yield, Receive, Body, LeaveBody, Goto, SelectIndInv, SelectTypeOK
    <3> QED BY <3>1 DEF Ready, Source
  <2>2. CASE s # t
    <3>1. point[t] = "receive" /\ Source(t)' = Source(t)
      BY <1>3, <2>2 DEF Step, Test, Ready, Yield, Receive, Body, LeaveBody, Goto, Source, SelectIndInv, SelectTypeOK
    <3>2. Source(t) \in Channels /\ Source(t) \in CasesOf(t)
      BY <3>1, SelectAssumption DEF SelectIndInv, AtCase, Source, CasesOf
    <3>3. queue[Source(t)] > 0 /\ queue[Source(t)] \in Nat
      BY <3>1, <3>2 DEF ChoosesReady, SelectIndInv, SelectTypeOK
    <3>4. CASE Receive(s)
      <4>1. Source(s) \in CasesOf(s)
        BY <3>4, SelectAssumption DEF Receive, SelectIndInv, AtCase, Source, CasesOf
      <4>2. Source(s) # Source(t)
        BY <4>1, <3>2, <2>2 DEF Exclusive
      <4> QED BY <3>1, <3>2, <3>3, <3>4, <4>2 DEF Receive, SelectIndInv, SelectTypeOK
    <3>5. CASE Body(s) /\ Onward[s] # None
      <4>1. queue' = [queue EXCEPT ![Onward[s]] = queue[Onward[s]] + 1]
        BY <3>5 DEF Body, Put
      <4>2. Onward[s] \in Channels /\ queue \in [Channels -> Nat]
        BY <3>5, SelectAssumption DEF SelectIndInv, SelectTypeOK
      <4>3. queue'[Source(t)] > 0
        BY <4>1, <4>2, <3>2, <3>3
      <4> QED BY <4>3, <3>1
    <3>6. CASE UNCHANGED queue
      BY <3>1, <3>3, <3>6
    <3> QED BY <1>3, <3>4, <3>5, <3>6 DEF Step, Test, Ready, Yield, Body, LeaveBody
  <2> QED BY <2>1, <2>2
<1> QED BY <1>1, <1>2, <1>3 DEF SelectNext

\* ChoosesReady, for selects that have no channel in common: whatever the
\* producers do, a select that found a channel ready receives from it at once.
THEOREM ChosenStaysReady == Exclusive => (SelectSpec => []ChoosesReady)
<1> SUFFICES ASSUME Exclusive PROVE SelectSpec => []ChoosesReady
  OBVIOUS
<1>1. SelectInit => ChoosesReady
  BY DEF SelectInit, ChoosesReady
<1>2. SelectIndInv /\ ChoosesReady /\ [SelectNext]_selectVars => ChoosesReady'
  BY ReadyStays
<1> QED BY <1>1, <1>2, SelectInvariance, PTL DEF SelectSpec
=============================================================================
