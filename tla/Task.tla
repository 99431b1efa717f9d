-------------------------------- MODULE Task --------------------------------
(****************************************************************************)
(* Tasks: what `async f(...)' and `await t' compile to                      *)
(* (py_compiler/syntax/operator/async.py and await.py), run under the       *)
(* scope cleanup and the borrow rules of the checker                        *)
(* (py_compiler/hir/thir/src/checking.py, syntax/function/calls.py).        *)
(*                                                                          *)
(* A task is a pthread and a heap frame that holds the thread id, a joined  *)
(* flag, the result and the arguments.  An activation is a task's body or   *)
(* the main thread: it starts tasks, polls, awaits or drops them, reads     *)
(* and writes the objects it can reach, and at the end releases what its    *)
(* scope still owns.  A method that is called without `async' is an         *)
(* activation too, on the thread of its caller, which waits for it.  A      *)
(* program is the constants below together with any order of these steps    *)
(* that the checker's rules accept.                                         *)
(****************************************************************************)
EXTENDS Naturals, FiniteSets

CONSTANTS
  Tasks, Main,   \* activations
  Calls,         \* the members of Tasks that are plain method calls
  NoTask,        \* the mutex is free, no task is awaited
  Parent,        \* Parent[t]: the activation that starts or calls t
  Objects,       \* class instances that tasks may have as receivers
  NoObject,      \* t is not a method call
  Home,          \* Home[o]: the activation whose scope owns o
  Receiver,      \* Receiver[t]: the object t is called on
  Locked,        \* the tasks started `with lock'
  Mutating,      \* the tasks whose method mutates its receiver
  Lent,          \* the tasks whose start is in the reach of a live `borrow'
  Accesses       \* bound on the direct accesses of an activation

Activations == Tasks \cup {Main}

\* a is a method of o: it uses o as self.
InMethod(a, o) == a \in Tasks /\ Receiver[a] = o

\* The objects an activation's code can name.
Reach(a) == {o \in Objects : Home[o] = a \/ InMethod(a, o)}

ASSUME TaskAssumption ==
  /\ Main \notin Tasks /\ NoTask \notin Activations /\ NoObject \notin Objects
  /\ Parent \in [Tasks -> Activations]
  /\ Home \in [Objects -> Activations]
  /\ Receiver \in [Tasks -> Objects \cup {NoObject}]
  /\ \A t \in Tasks : Receiver[t] # NoObject => Receiver[t] \in Reach(Parent[t])
  /\ Accesses \in Nat

\* Parent has no cycles: every set of tasks has one started from outside it.
ASSUME TreeAssumption ==
  \A S \in SUBSET Tasks : S # {} => \E t \in S : Parent[t] \notin S

(* "async mutation requires lock" (async.py:281), and a receiver passed on  *)
(* as a view is not mutated through it (calls.py:871-872).                  *)
ASSUME MutationAssumption ==
  /\ Calls \subseteq Tasks /\ Locked \subseteq Tasks \ Calls
  /\ Mutating \subseteq Locked \cup Calls
  /\ \A t \in Mutating \cup Calls : Receiver[t] \in Objects
  /\ \A t \in Mutating : Home[Receiver[t]] = Parent[t] \/ Parent[t] \in Mutating

VARIABLES
  pc,        \* where each activation is
  frame,     \* of each task: "absent", "live", "freed"
  joined,    \* slot 1 of the frame: the thread was joined
  joins,     \* history: how often pthread_join or tryjoin reaped the thread
  result,    \* of each task: "none", in its "frame", "taken" or "released"
  pending,   \* the tasks each activation has started and still owns
  awaiting,  \* the task an activation is joining, or the call it waits for
  alive,     \* the objects not destroyed yet
  access,    \* the object each activation is reading or writing, and the locked
             \* task whose arguments it reads it for, if any
  spent,     \* accesses each activation has begun
  mutex,     \* __sev_task_mutex
  aborted    \* a cf.assert failed

heap == <<frame, joined, joins, result>>
objects == <<alive, access, spent>>
vars == <<pc, heap, pending, awaiting, objects, mutex, aborted>>

Use(o, w, t) == [object |-> o, writes |-> w, next |-> t]
Idle == Use(NoObject, FALSE, NoTask)

Init ==
  /\ pc = [a \in Activations |-> IF a = Main THEN "body" ELSE "new"]
  /\ frame = [t \in Tasks |-> "absent"]
  /\ joined = [t \in Tasks |-> FALSE]
  /\ joins = [t \in Tasks |-> 0]
  /\ result = [t \in Tasks |-> "none"]
  /\ pending = [a \in Activations |-> {}]
  /\ awaiting = [a \in Activations |-> NoTask]
  /\ alive = Objects
  /\ access = [a \in Activations |-> Idle]
  /\ spent = [a \in Activations |-> 0]
  /\ mutex = NoTask
  /\ aborted = FALSE

-----------------------------------------------------------------------------
(* The checker.  A started task retains a borrow of its receiver until the  *)
(* activation that started it awaits or drops it.                           *)

Borrowers(a, o) == {t \in pending[a] : Receiver[t] = o}

(* By name an object is read unless a locked task borrows it, and written   *)
(* unless any task does.  A method uses the fields of its receiver without  *)
(* naming it: each is a binding of its own, which no task borrows, so that  *)
(* reads, and compound assignments in a mutating method, are not checked.   *)
ReadClear(a, o) == Borrowers(a, o) \cap Locked = {}

\* Mutants, named ..._bug, are plausible slips in the definition they precede.
MayRead_bug(a, o) == TRUE
MayRead(a, o) == InMethod(a, o) \/ ReadClear(a, o)

MayWrite(a, o) == IF InMethod(a, o) THEN a \in Mutating ELSE Borrowers(a, o) = {}

\* A locked task is let in beside other locked tasks, which the mutex serialises.
MayStart(a, t) ==
  LET o == Receiver[t] IN
  \/ o = NoObject
  \/ /\ t \in Locked \/ MayRead(a, o)
     /\ t \in Mutating =>
          \/ Borrowers(a, o) = {}
          \/ Borrowers(a, o) \subseteq Locked /\ t \notin Lent

\* A mutating method is called, also in a method of the object, when no task borrows it.
MayCall(a, t) ==
  IF t \in Mutating THEN Borrowers(a, Receiver[t]) = {} ELSE MayRead(a, Receiver[t])

-----------------------------------------------------------------------------
(* The steps of an activation that runs.                                    *)

Running(a) == ~aborted /\ pc[a] = "body" /\ awaiting[a] = NoTask /\ access[a] = Idle

\* The arguments of t, if any were read, have been.
CanStart(a, t) ==
  /\ Running(a) \/ (~aborted /\ access[a].next = t)
  /\ t \notin Calls /\ Parent[t] = a /\ pc[t] = "new"
  /\ MayStart(a, t)

Start(a, t) ==
  /\ CanStart(a, t)
  /\ pc' = [pc EXCEPT ![t] = "started"]
  /\ frame' = [frame EXCEPT ![t] = "live"]
  /\ pending' = [pending EXCEPT ![a] = @ \cup {t}]
  /\ access' = [access EXCEPT ![a] = Idle]
  /\ UNCHANGED <<joined, joins, result, awaiting, alive, spent, mutex, aborted>>

\* "task allocation failed" or "task creation failed" stops the process.
StartFails(a) ==
  /\ \E t \in Tasks : CanStart(a, t)
  /\ aborted' = TRUE
  /\ UNCHANGED <<pc, heap, pending, awaiting, objects, mutex>>

\* The method runs on the caller's thread until it returns.
Call(a, t) ==
  /\ Running(a)
  /\ t \in Calls /\ Parent[t] = a /\ pc[t] = "new"
  /\ MayCall(a, t)
  /\ pc' = [pc EXCEPT ![t] = "body"]
  /\ frame' = [frame EXCEPT ![t] = "live"]
  /\ awaiting' = [awaiting EXCEPT ![a] = t]
  /\ UNCHANGED <<joined, joins, result, pending, objects, mutex, aborted>>

EndCall(a) ==
  LET t == awaiting[a] IN
  /\ ~aborted /\ t \in Calls /\ pc[t] = "exited"
  /\ result' = [result EXCEPT ![t] = "taken"]
  /\ frame' = [frame EXCEPT ![t] = "freed"]
  /\ awaiting' = [awaiting EXCEPT ![a] = NoTask]
  /\ UNCHANGED <<pc, joined, joins, pending, objects, mutex, aborted>>

BeginUse(a, o, w, t) ==
  /\ Running(a)
  /\ o \in Reach(a) /\ spent[a] < Accesses
  /\ access' = [access EXCEPT ![a] = Use(o, w, t)]
  /\ spent' = [spent EXCEPT ![a] = @ + 1]
  /\ UNCHANGED <<pc, heap, pending, awaiting, alive, mutex, aborted>>

BeginAccess(a, o, w) ==
  /\ IF w THEN MayWrite(a, o) ELSE MayRead(a, o)
  /\ BeginUse(a, o, w, NoTask)

\* An object read for the arguments of a locked task, with no question about
\* the locked tasks that borrow it; the start follows.
ReadArgument(a, o, t) ==
  /\ t \in Locked /\ CanStart(a, t)
  /\ BeginUse(a, o, FALSE, t)

EndAccess(a) ==
  /\ ~aborted /\ access[a] # Idle /\ access[a].next = NoTask
  /\ access' = [access EXCEPT ![a] = Idle]
  /\ UNCHANGED <<pc, heap, pending, awaiting, alive, spent, mutex, aborted>>

Exited(t) == pc[t] = "exited"

\* The thread reaped, and the flag that keeps it from being reaped again lost.
Reap_bug(t) ==
  /\ joins' = [joins EXCEPT ![t] = @ + 1]
  /\ UNCHANGED joined

Reap(t) ==
  /\ joins' = [joins EXCEPT ![t] = @ + 1]
  /\ joined' = [joined EXCEPT ![t] = TRUE]

\* completed() of a thread that has ended reaps it; every other answer is a read.
Poll(a, t) ==
  /\ Running(a)
  /\ t \in pending[a] /\ ~joined[t]
  /\ Exited(t)
  /\ Reap(t)
  /\ UNCHANGED <<pc, frame, result, pending, awaiting, objects, mutex, aborted>>

\* `await t': the binding is moved before the thread is joined.
BeginAwait(a, t) ==
  /\ Running(a)
  /\ t \in pending[a]
  /\ pending' = [pending EXCEPT ![a] = @ \ {t}]
  /\ awaiting' = [awaiting EXCEPT ![a] = t]
  /\ UNCHANGED <<pc, heap, objects, mutex, aborted>>

\* The join returns at once when the flag is set, else when the thread ends.
Join_bug(t) ==
  /\ joined' = [joined EXCEPT ![t] = TRUE]
  /\ UNCHANGED joins

Join(t) == IF joined[t] THEN UNCHANGED <<joined, joins>> ELSE Exited(t) /\ Reap(t)

\* Join, move the result out, release the argument snapshots, free the frame.
EndAwait(a) ==
  LET t == awaiting[a] IN
  /\ ~aborted /\ t \in Tasks \ Calls
  /\ Join(t)
  /\ result' = [result EXCEPT ![t] = "taken"]
  /\ frame' = [frame EXCEPT ![t] = "freed"]
  /\ awaiting' = [awaiting EXCEPT ![a] = NoTask]
  /\ UNCHANGED <<pc, pending, objects, mutex, aborted>>

\* `drop t', the end of an inner scope, or the cleanup of the whole body.
Release(a, t) ==
  /\ Running(a) \/ (~aborted /\ pc[a] = "cleanup")
  /\ t \in pending[a]
  /\ Join(t)
  /\ result' = [result EXCEPT ![t] = "released"]
  /\ frame' = [frame EXCEPT ![t] = "freed"]
  /\ pending' = [pending EXCEPT ![a] = @ \ {t}]
  /\ UNCHANGED <<pc, awaiting, objects, mutex, aborted>>

Return(a) ==
  /\ Running(a)
  /\ pc' = [pc EXCEPT ![a] = "cleanup"]
  /\ UNCHANGED <<heap, pending, awaiting, objects, mutex, aborted>>

(* cleanup_memory: a binding is destroyed once nothing pending borrows it.  *)
(* Among those the source takes the latest declared; here any of them.      *)
Destroy_bug(a, o) ==
  /\ ~aborted /\ pc[a] = "cleanup"
  /\ Home[o] = a /\ o \in alive
  /\ alive' = alive \ {o}
  /\ UNCHANGED <<pc, heap, pending, awaiting, access, spent, mutex, aborted>>

Destroy(a, o) ==
  /\ ~aborted /\ pc[a] = "cleanup"
  /\ Home[o] = a /\ o \in alive
  /\ Borrowers(a, o) = {}
  /\ alive' = alive \ {o}
  /\ UNCHANGED <<pc, heap, pending, awaiting, access, spent, mutex, aborted>>

Cleaned_bug(a) == \A o \in alive : Home[o] # a
Cleaned(a) == pending[a] = {} /\ \A o \in alive : Home[o] # a

EndCleanup(a) ==
  /\ ~aborted /\ pc[a] = "cleanup"
  /\ Cleaned(a)
  /\ pc' = [pc EXCEPT ![a] = IF a \in Calls \cup {Main} THEN "exited" ELSE "returning"]
  /\ UNCHANGED <<heap, pending, awaiting, objects, mutex, aborted>>

-----------------------------------------------------------------------------
(* The worker around a task's body.                                         *)

\* pthread_mutex_lock for a locked task; then the arguments are loaded.
Enter_bug(t) ==
  /\ ~aborted /\ pc[t] = "started"
  /\ mutex' = IF t \in Locked THEN t ELSE mutex
  /\ pc' = [pc EXCEPT ![t] = "body"]
  /\ UNCHANGED <<heap, pending, awaiting, objects, aborted>>

Enter(t) ==
  /\ ~aborted /\ pc[t] = "started"
  /\ t \in Locked => mutex = NoTask
  /\ mutex' = IF t \in Locked THEN t ELSE mutex
  /\ pc' = [pc EXCEPT ![t] = "body"]
  /\ UNCHANGED <<heap, pending, awaiting, objects, aborted>>

StoreResult(t) ==
  /\ ~aborted /\ pc[t] = "returning"
  /\ result' = [result EXCEPT ![t] = "frame"]
  /\ pc' = [pc EXCEPT ![t] = "stored"]
  /\ UNCHANGED <<frame, joined, joins, pending, awaiting, objects, mutex, aborted>>

\* pthread_mutex_unlock for a locked task, and the end of the thread.
Leave_bug(t) ==
  /\ ~aborted /\ pc[t] = "stored"
  /\ pc' = [pc EXCEPT ![t] = "exited"]
  /\ UNCHANGED <<heap, pending, awaiting, objects, mutex, aborted>>

Leave(t) ==
  /\ ~aborted /\ pc[t] = "stored"
  /\ mutex' = IF t \in Locked THEN NoTask ELSE mutex
  /\ pc' = [pc EXCEPT ![t] = "exited"]
  /\ UNCHANGED <<heap, pending, awaiting, objects, aborted>>

Terminated == (aborted \/ pc[Main] = "exited") /\ UNCHANGED vars

Worker(t) == Enter(t) \/ StoreResult(t) \/ Leave(t)

Next ==
  \/ \E a \in Activations :
       \/ StartFails(a) \/ EndAccess(a) \/ EndAwait(a) \/ EndCall(a) \/ Return(a) \/ EndCleanup(a)
       \/ \E t \in Tasks :
            Start(a, t) \/ Call(a, t) \/ Poll(a, t) \/ BeginAwait(a, t) \/ Release(a, t)
       \/ \E o \in Objects :
            \/ Destroy(a, o)
            \/ \E w \in BOOLEAN : BeginAccess(a, o, w)
            \/ \E t \in Tasks : ReadArgument(a, o, t)
  \/ \E t \in Tasks : Worker(t)
  \/ Terminated

Spec == Init /\ [][Next]_vars

-----------------------------------------------------------------------------
Places == {"new", "started", "body", "cleanup", "returning", "stored", "exited"}

TypeOK ==
  /\ pc \in [Activations -> Places] /\ pc[Main] \in {"body", "cleanup", "exited"}
  /\ frame \in [Tasks -> {"absent", "live", "freed"}]
  /\ joined \in [Tasks -> BOOLEAN]
  /\ joins \in [Tasks -> Nat]
  /\ result \in [Tasks -> {"none", "frame", "taken", "released"}]
  /\ pending \in [Activations -> SUBSET Tasks]
  /\ awaiting \in [Activations -> Tasks \cup {NoTask}]
  /\ alive \subseteq Objects
  /\ access \in [Activations -> [object : Objects \cup {NoObject}, writes : BOOLEAN,
                                 next : Tasks \cup {NoTask}]]
  /\ spent \in [Activations -> 0 .. Accesses]
  /\ mutex \in Tasks \cup {NoTask}
  /\ aborted \in BOOLEAN

Unfinished(t) == pc[t] \in Places \ {"new", "stored", "exited"}

(* A worker loads its arguments from the frame and stores its result in it, *)
(* so the frame is there from the start until the result is stored, however *)
(* early the owner polls, awaits, drops or returns.                         *)
FrameOutlivesWorker == \A t \in Tasks : Unfinished(t) => frame[t] = "live"

(* completed(), await and the scope's cleanup all may reap the thread;      *)
(* between them they do it exactly once (joining twice is undefined, never  *)
(* joining leaks the thread).                                               *)
JoinedOnce ==
  \A t \in Tasks \ Calls : joins[t] <= 1 /\ (frame[t] = "freed" => joins[t] = 1)

\* The frames an activation holds, and those of them that borrow an object.
Held(a) == {t \in Tasks : Parent[t] = a /\ frame[t] = "live"}
Loans(a, o) == {t \in Held(a) : Receiver[t] = o}

\* The tasks t and u would use o at once, and nothing serialises them.
Clash(t, u) == t # u /\ t \in Mutating /\ ~({t, u} \subseteq Locked)

\* m uses o against a task it has started on o, or started two against each other,
\* where the checker does not look: in a method of o, or in the arguments of a
\* locked task.
Unchecked(m, o) ==
  /\ InMethod(m, o) \/ access[m].next # NoTask
  /\ \/ \E t, u \in Loans(m, o) : Clash(t, u)
     \/ access[m].object = o /\ \E t \in Loans(m, o) : t \in Mutating \/ access[m].writes

(* No two activations, wherever they are in the tree, use one object at     *)
(* once unless both only read, though nothing at run time stops an unlocked *)
(* reader or the owner: the lock serialises the locked tasks, the checker's *)
(* borrow rules everyone else.  The exception is an object that some        *)
(* activation uses, at that time, where the checker does not look: only a   *)
(* method's own fields and the arguments of locked tasks let in a race.     *)
RaceFree ==
  \A a, b \in Activations, o \in Objects :
    a # b /\ access[a].object = o /\ access[b].object = o /\ access[a].writes
      => \E m \in Activations : Unchecked(m, o)

(* A task's receiver is not destroyed while the task can still use it, in   *)
(* whatever order the scope's bindings are released.                        *)
ReceiverOutlivesTask ==
  \A t \in Tasks : Unfinished(t) /\ Receiver[t] # NoObject => Receiver[t] \in alive

\* A frame belongs to the scope that started its task until it is consumed.
OwnershipOK ==
  /\ \A a \in Activations :
       /\ Held(a) = pending[a] \cup ({awaiting[a]} \ {NoTask})
       /\ awaiting[a] \notin pending[a] /\ pending[a] \cap Calls = {}
       /\ pending[a] # {} => pc[a] \in {"body", "cleanup"}
       /\ awaiting[a] # NoTask => pc[a] = "body"
       /\ access[a] # Idle => pc[a] = "body" /\ awaiting[a] = NoTask
  /\ \A t \in Tasks :
       /\ frame[t] = "absent" <=> pc[t] = "new"
       /\ frame[t] = "freed" => pc[t] = "exited" /\ (joined[t] \/ t \in Calls)
       /\ joined[t] => pc[t] = "exited"
       /\ joins[t] = IF joined[t] THEN 1 ELSE 0

\* The locked task between lock and unlock is the one that holds the mutex.
LockOK ==
  \A t \in Locked : mutex = t <=> pc[t] \in {"body", "cleanup", "returning", "stored"}

\* What the checker's rules make true of the loans of an object, by name.
LoansOK ==
  \A a \in Activations, o \in Objects :
    /\ ~InMethod(a, o) => \A t, u \in Loans(a, o) : ~Clash(t, u)
    /\ access[a].object = o =>
         /\ o \in Reach(a)
         /\ access[a].writes /\ InMethod(a, o) => a \in Mutating
         /\ \/ InMethod(a, o) \/ access[a].next # NoTask
            \/ /\ Loans(a, o) \cap Locked = {}
               /\ access[a].writes => Loans(a, o) = {}

\* An object is destroyed when its owner's body is over and nothing borrows it.
AliveOK ==
  \A o \in Objects \ alive :
    pc[Home[o]] \notin {"new", "started", "body"} /\ Loans(Home[o], o) = {}

IndInv == TypeOK /\ OwnershipOK /\ LockOK /\ LoansOK /\ AliveOK

\* Where an activation is in its life, as ForkJoin sees it.
phase ==
  [a \in Activations |->
     IF a \in Tasks /\ frame[a] = "freed" THEN "consumed"
     ELSE IF pc[a] \in {"returning", "stored", "exited"} THEN "ended"
     ELSE IF pc[a] = "new" THEN "new" ELSE "running"]

(* The task tree is structured: every step of the runtime is a step of      *)
(* ForkJoin or none.                                                        *)
Tree == INSTANCE ForkJoin
Structured == Tree!Spec

(* Every activation that can continue does, and bodies end.  The program    *)
(* makes finitely many steps, so weak fairness is enough.                   *)
Progress(a) ==
  \/ EndAccess(a) \/ EndAwait(a) \/ EndCall(a) \/ Return(a) \/ EndCleanup(a)
  \/ \E t \in Tasks : Release(a, t) \/ (access[a].next = t /\ Start(a, t))
  \/ \E o \in Objects : Destroy(a, o)
  \/ a \in Tasks /\ Worker(a)

FairSpec == Spec /\ \A a \in Activations : WF_vars(Progress(a))

(* When no locked task starts another, the program comes to its end: no     *)
(* order of joins, drops and lock acquisitions leaves tasks waiting on each *)
(* other.                                                                   *)
Finishes == <>(aborted \/ pc[Main] = "exited")

-----------------------------------------------------------------------------
(* Statements of docs/sip/0035-Concurrency.md that the code contradicts.    *)
(* There is one weak global __sev_task_mutex for all locked tasks.          *)

(* Line 184: "`lock` protects the captured receiver, not every task in the  *)
(* program."  Lines 186-187: to await or block while holding a receiver's   *)
(* lock is "rejected when it can depend on another task requiring that      *)
(* lock".  Then every accepted program ends, nested locked tasks on objects *)
(* of their own included.                                                   *)
NestedLocksFinish == Finishes

(* Line 185: "Parent cannot access locked shared state until its loan ends  *)
(* at await/join."  Then it does not while the locked task writes it.       *)
ParentKeepsOff ==
  \A t \in Locked :
    access[t].writes /\ access[t].object = Receiver[t]
      => access[Parent[t]].object # Receiver[t]
=============================================================================
