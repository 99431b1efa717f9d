------------------------------- MODULE Channel -------------------------------
(***************************************************************************)
(* The channel runtime that py_compiler/syntax/complex/channel.py emits: a *)
(* ring buffer under one pthread mutex with two condition variables.       *)
(*                                                                         *)
(* Producers send, consumers receive, and the owner creates the channel,   *)
(* and at the end of its scope drains and frees it.  A step is what a      *)
(* thread does between two points where another thread can run: acquiring  *)
(* the mutex, pthread_cond_wait (releases it and sleeps), and the unlock.  *)
(* The threads waiting on `readable' and `writable' are those that are at  *)
(* "recvWait" and "sendWait".                                              *)
(***************************************************************************)
EXTENDS Integers, Sequences, FiniteSets

CONSTANTS
  Senders, Receivers, Owner,    \* threads
  NoThread,                     \* the mutex is free
  Garbage,                      \* what malloc leaves in a slot
  Output,                       \* Output[p]: values producer p sends
  Quota,                        \* Quota[c]: values consumer c receives
  Requests,                     \* capacities a program may ask for
  DefaultSlots,                 \* 16 in the source
  IntMax,                       \* 2^63 - 1 in the source
  MaxSpurious                   \* bound on spurious wakeups in a behaviour

Threads == Senders \cup Receivers \cup {Owner}

ASSUME ThreadsAssumption ==
  /\ IsFiniteSet(Senders) /\ IsFiniteSet(Receivers)
  /\ Senders \cap Receivers = {}
  /\ Owner \notin Senders \cup Receivers
  /\ NoThread \notin Threads

ASSUME ProgramAssumption ==
  /\ Output \in [Senders -> Nat]
  /\ Quota \in [Receivers -> Nat]

ASSUME NumbersAssumption ==
  /\ DefaultSlots \in Nat \ {0}
  /\ IntMax \in Nat
  /\ DefaultSlots <= IntMax
  /\ Requests \subseteq Int
  /\ \A n \in Requests : n <= IntMax
  /\ MaxSpurious \in Nat

Items == UNION {{<<p, n>> : n \in 1 .. Output[p]} : p \in Senders}

ASSUME GarbageAssumption == Garbage \notin Items

VARIABLES
  life,        \* of the frame: "absent", "open", "freed"; "aborted": a cf.assert failed
  data,        \* the buffer, a function on 0 .. capacity - 1
  capacity, head, count, bounded,
  holder,      \* the thread that has the mutex, or NoThread
  at,          \* where each thread is
  posted,      \* sends each producer has completed
  got,         \* receives each consumer has completed
  delivered,   \* history: the values received, in order
  spurious     \* spurious wakeups so far

ring == <<data, capacity, head, count, bounded>>
channelVars == <<life, ring, holder, at, posted, got, delivered, spurious>>

SendPlaces == {"sendLock", "send", "sendWait"}
RecvPlaces == {"recvLock", "recv", "recvWait"}
ReadyPlaces == {"readyLock", "ready"}
ChannelPlaces == {"idle", "free", "done"} \cup SendPlaces \cup RecvPlaces \cup ReadyPlaces
Critical == {"send", "recv", "ready"}

At(place) == {t \in Threads : at[t] = place}

\* Mutants: operators named ..._bug are plausible slips in the definition that
\* follows them; the mutation runs put them in its place and must see the
\* properties fail.
Doubled_bug(c) == 2 * c   \* the overflow assertion dropped

\* arith.addi of two equal nonnegative integers: wraps to a negative number.
Doubled(c) == IF 2 * c <= IntMax THEN 2 * c ELSE 2 * c - 2 * (IntMax + 1)

Item(p) == <<p, posted[p] + 1>>

\* The slots the next receive and the next send use.
NextSlot(h) == (h + 1) % capacity

TailSlot == (head + count) % capacity

ChannelInit ==
  /\ life = "absent"
  /\ capacity = 0 /\ head = 0 /\ count = 0 /\ bounded = FALSE
  /\ data = [i \in 0 .. capacity - 1 |-> Garbage]
  /\ holder = NoThread
  /\ at = [t \in Threads |-> "idle"]
  /\ posted = [p \in Senders |-> 0]
  /\ got = [c \in Receivers |-> 0]
  /\ delivered = << >>
  /\ spurious = 0

-----------------------------------------------------------------------------
(* channel[T](n): `n' positive fixes the capacity, 0 grows on demand.       *)
Create(n) ==
  /\ life = "absent"
  /\ n >= 0
  /\ life' = "open"
  /\ bounded' = (n > 0)
  /\ capacity' = IF n > 0 THEN n ELSE DefaultSlots
  /\ data' = [i \in 0 .. capacity' - 1 |-> Garbage]
  /\ head' = 0
  /\ count' = 0
  /\ UNCHANGED <<holder, at, posted, got, delivered, spurious>>

\* A negative capacity, or a malloc that returns null.
CreateFails ==
  /\ life = "absent"
  /\ life' = "aborted"
  /\ UNCHANGED <<ring, holder, at, posted, got, delivered, spurious>>

Begin(t, place) ==
  /\ life = "open"
  /\ at[t] = "idle"
  /\ at' = [at EXCEPT ![t] = place]
  /\ UNCHANGED <<life, ring, holder, posted, got, delivered, spurious>>

BeginSend(p) == posted[p] < Output[p] /\ Begin(p, "sendLock")
BeginReceive(c) == got[c] < Quota[c] /\ Begin(c, "recvLock")

\* pthread_mutex_lock returns, also on the way out of pthread_cond_wait.
Lock(t) ==
  /\ life = "open"
  /\ holder = NoThread
  /\ holder' = t
  /\ \/ at[t] = "sendLock" /\ at' = [at EXCEPT ![t] = "send"]
     \/ at[t] = "recvLock" /\ at' = [at EXCEPT ![t] = "recv"]
     \/ at[t] = "readyLock" /\ at' = [at EXCEPT ![t] = "ready"]
  /\ UNCHANGED <<life, ring, posted, got, delivered, spurious>>

\* pthread_cond_wait: gives the mutex up and sleeps, in one step.
Wait(t, place) ==
  /\ holder' = NoThread
  /\ at' = [at EXCEPT ![t] = place]
  /\ UNCHANGED <<life, ring, posted, got, delivered, spurious>>

\* No signal at all, and one condition variable for both kinds of waiter.
SignalAndReturn_bug(t, after, place, lock) ==
  /\ holder' = NoThread
  /\ at' = [at EXCEPT ![t] = after]

SignalAndReturn_shared(t, after, place, lock) ==
  /\ holder' = NoThread
  /\ IF At("recvWait") \cup At("sendWait") = {}
     THEN at' = [at EXCEPT ![t] = after]
     ELSE \/ \E w \in At("recvWait") : at' = [at EXCEPT ![t] = after, ![w] = "recvLock"]
          \/ \E w \in At("sendWait") : at' = [at EXCEPT ![t] = after, ![w] = "sendLock"]

\* pthread_cond_signal, the unlock and the return: t goes to `after', and one
\* of the threads waiting at `place', if any, goes to reacquire the mutex.
SignalAndReturn(t, after, place, lock) ==
  /\ holder' = NoThread
  /\ IF At(place) = {}
     THEN at' = [at EXCEPT ![t] = after]
     ELSE \E w \in At(place) : at' = [at EXCEPT ![t] = after, ![w] = lock]

Holds(t, place) == life = "open" /\ at[t] = place

-----------------------------------------------------------------------------
Full_bug == count > capacity
Full == count = capacity

\* The larger buffer, the oldest value in slot 0.
Unrolled_bug ==
  [i \in 0 .. Doubled(capacity) - 1 |-> IF i < count THEN data[i] ELSE Garbage]
Unrolled ==
  [i \in 0 .. Doubled(capacity) - 1 |->
     IF i < count THEN data[(head + i) % capacity] ELSE Garbage]

SendWaits(p) == Holds(p, "send") /\ Full /\ bounded /\ Wait(p, "sendWait")

Grow(p) ==
  /\ Holds(p, "send")
  /\ Full /\ ~bounded
  /\ Doubled(capacity) > capacity
  /\ data' = Unrolled
  /\ capacity' = Doubled(capacity)
  /\ head' = 0
  /\ UNCHANGED <<life, count, bounded, holder, at, posted, got, delivered, spurious>>

\* "channel capacity overflow", or "channel growth failed".
GrowFails(p) ==
  /\ Holds(p, "send")
  /\ Full /\ ~bounded
  /\ life' = "aborted"
  /\ UNCHANGED <<ring, holder, at, posted, got, delivered, spurious>>

Enqueue(p) ==
  /\ Holds(p, "send")
  /\ ~Full
  /\ data' = [data EXCEPT ![TailSlot] = Item(p)]
  /\ count' = count + 1
  /\ posted' = [posted EXCEPT ![p] = @ + 1]
  /\ SignalAndReturn(p, "idle", "recvWait", "recvLock")
  /\ UNCHANGED <<life, capacity, head, bounded, got, delivered, spurious>>

ReceiveWaits(t) == Holds(t, "recv") /\ count = 0 /\ Wait(t, "recvWait")

\* The owner receives only to drain, and asks ready() again afterwards.
Dequeue(t) ==
  /\ Holds(t, "recv")
  /\ count # 0
  /\ delivered' = Append(delivered, data[head])
  /\ head' = NextSlot(head)
  /\ count' = count - 1
  /\ got' = [c \in Receivers |-> IF c = t THEN got[c] + 1 ELSE got[c]]
  /\ SignalAndReturn(t, IF t = Owner THEN "readyLock" ELSE "idle", "sendWait", "sendLock")
  /\ UNCHANGED <<life, data, capacity, bounded, posted, spurious>>

\* POSIX lets pthread_cond_wait return without a signal.
SpuriousWakeup(t) ==
  /\ life = "open"
  /\ spurious < MaxSpurious
  /\ \/ at[t] = "sendWait" /\ at' = [at EXCEPT ![t] = "sendLock"]
     \/ at[t] = "recvWait" /\ at' = [at EXCEPT ![t] = "recvLock"]
  /\ spurious' = spurious + 1
  /\ UNCHANGED <<life, ring, holder, posted, got, delivered>>

-----------------------------------------------------------------------------
(* The owner's scope ends.  Tasks that borrow the channel hold a dependency *)
(* on its binding, so they are joined before the channel is released.       *)
Joined ==
  /\ \A p \in Senders : at[p] = "idle" /\ posted[p] = Output[p]
  /\ \A c \in Receivers : at[c] = "idle" /\ got[c] = Quota[c]

BeginRelease == Joined /\ Begin(Owner, "readyLock")

\* The queue not drained first.
ChannelReady_bug ==
  /\ Holds(Owner, "ready")
  /\ holder' = NoThread
  /\ at' = [at EXCEPT ![Owner] = "free"]
  /\ UNCHANGED <<life, ring, posted, got, delivered, spurious>>

\* ready(), and the branch of release on its result.
ChannelReady ==
  /\ Holds(Owner, "ready")
  /\ holder' = NoThread
  /\ at' = [at EXCEPT ![Owner] = IF count > 0 THEN "recvLock" ELSE "free"]
  /\ UNCHANGED <<life, ring, posted, got, delivered, spurious>>

Free ==
  /\ Holds(Owner, "free")
  /\ life' = "freed"
  /\ at' = [at EXCEPT ![Owner] = "done"]
  /\ UNCHANGED <<ring, holder, posted, got, delivered, spurious>>

\* The program is over.
ChannelOver == life \in {"freed", "aborted"} /\ UNCHANGED channelVars

ChannelSend(p) == SendWaits(p) \/ Grow(p) \/ GrowFails(p) \/ Enqueue(p)
ChannelReceive(t) == ReceiveWaits(t) \/ Dequeue(t)
ChannelRelease == BeginRelease \/ ChannelReady \/ Free

ChannelNext ==
  \/ \E n \in Requests : Create(n)
  \/ CreateFails
  \/ \E p \in Senders : BeginSend(p) \/ ChannelSend(p)
  \/ \E c \in Receivers : BeginReceive(c)
  \/ \E t \in Receivers \cup {Owner} : ChannelReceive(t)
  \/ \E t \in Threads : Lock(t) \/ SpuriousWakeup(t)
  \/ ChannelRelease
  \/ ChannelOver

ChannelSpec == ChannelInit /\ [][ChannelNext]_channelVars

-----------------------------------------------------------------------------
ChannelTypeOK ==
  /\ life \in {"absent", "open", "freed", "aborted"}
  /\ capacity \in 0 .. IntMax /\ head \in Nat /\ count \in Nat /\ bounded \in BOOLEAN
  /\ capacity > 0 => head < capacity
  /\ data \in [0 .. capacity - 1 -> Items \cup {Garbage}]
  /\ holder \in Threads \cup {NoThread}
  /\ at \in [Threads -> ChannelPlaces]
  /\ posted \in [Senders -> Nat] /\ \A p \in Senders : posted[p] <= Output[p]
  /\ got \in [Receivers -> Nat] /\ \A c \in Receivers : got[c] <= Quota[c]
  /\ delivered \in Seq(Items)
  /\ spurious \in 0 .. MaxSpurious

\* Where each kind of thread can be, and that it is there on an operation it has left.
RolesOK ==
  /\ \A p \in Senders : /\ at[p] \in {"idle"} \cup SendPlaces
                         /\ at[p] \in SendPlaces => posted[p] < Output[p]
  /\ \A c \in Receivers : /\ at[c] \in {"idle"} \cup RecvPlaces
                           /\ at[c] \in RecvPlaces => got[c] < Quota[c]
  /\ at[Owner] \in {"idle", "free", "done"} \cup RecvPlaces \cup ReadyPlaces
  /\ at[Owner] # "idle" => Joined
  /\ life = "absent" => \A t \in Threads : at[t] = "idle"

\* The ring is well formed, and its occupied slots hold values that were sent.
RingOK ==
  /\ life = "absent" => capacity = 0
  /\ life \in {"open", "freed"} => capacity > 0
  /\ capacity = 0 => count = 0 /\ ~bounded
  /\ capacity > 0 =>
       /\ count <= capacity
       /\ \A i \in 0 .. count - 1 : data[(head + i) % capacity] \in Items

\* The values in the ring, oldest first.
Contents == [i \in 1 .. count |-> data[(head + i - 1) % capacity]]

\* Every value whose send completed, in the order the sends completed.
History == delivered \o Contents

(* No value is lost, duplicated or overtaken: what was received, followed   *)
(* by what is still queued, holds every completed send of each producer     *)
(* once, in the order that producer sent them, across growth (which unrolls *)
(* a wrapped ring into a new buffer) and wraparound.                        *)
InOrder ==
  /\ \A p \in Senders : \A n \in 1 .. posted[p] : \E i \in 1 .. Len(History) : History[i] = <<p, n>>
  /\ \A i \in 1 .. Len(History) : History[i][2] <= posted[History[i][1]]
  /\ \A i, j \in 1 .. Len(History) :
       i < j /\ History[i][1] = History[j][1] => History[i][2] < History[j][2]

AwakeReceivers == At("recvLock") \cup At("recv")
AwakeSenders == At("sendLock") \cup At("send")

(* No lost wakeup: while some receiver sleeps on `readable', every queued   *)
(* value has an awake receiver on its way to it, and while some sender      *)
(* sleeps on `writable', so has every free slot.  A signal given before the *)
(* receiver sleeps, or to the wrong condition, would break this.            *)
NoLostWakeup ==
  /\ At("recvWait") # {} => count <= Cardinality(AwakeReceivers)
  /\ At("sendWait") # {} => capacity - count <= Cardinality(AwakeSenders)

(* Exactly the thread inside a critical section holds the mutex: no thread  *)
(* sleeps on a condition, or returns to its caller, with the mutex locked.  *)
MutexHeld == \A t \in Threads : holder = t <=> at[t] \in Critical

(* The frame is freed only when no thread can touch it again and every      *)
(* value that was sent has been handed out (release frees each one).        *)
FreedEmpty ==
  life = "freed" =>
    /\ \A t \in Threads \ {Owner} : at[t] = "idle"
    /\ \A p \in Senders : \A n \in 1 .. Output[p] :
         \E i \in 1 .. Len(delivered) : delivered[i] = <<p, n>>

\* The inductive invariant of ChannelProofs.
ChannelInv ==
  /\ ChannelTypeOK /\ RolesOK /\ RingOK /\ MutexHeld /\ NoLostWakeup
  /\ ~bounded => At("sendWait") = {}
  /\ at[Owner] \in {"free", "done"} => count = 0
  /\ life = "freed" <=> at[Owner] = "done"

(* Every step of the runtime is a step of the queue it promises, or none:   *)
(* in particular a bounded channel holds at most its capacity and refuses   *)
(* by waiting, "never overwrite" (docs/sip/0035-Concurrency.md:201-202).    *)
FIFO == INSTANCE FifoQueue WITH
          Limits <- {n \in Requests : n >= 0},
          phase <- IF life = "freed" THEN "closed" ELSE life,
          limit <- IF bounded THEN capacity ELSE 0,
          queue <- Contents
Implements == FIFO!Spec

(* Each thread keeps running when it can.  The behaviours are finite (every *)
(* operation and spurious wakeup is counted), so weak fairness is enough:   *)
(* nothing here relies on pthread_mutex_lock being fair.                    *)
ThreadStep(t) ==
  \/ t \in Senders /\ (BeginSend(t) \/ ChannelSend(t))
  \/ t \in Receivers /\ BeginReceive(t)
  \/ t \in Receivers \cup {Owner} /\ ChannelReceive(t)
  \/ t = Owner /\ ChannelRelease
  \/ Lock(t)

ChannelFair == ChannelSpec /\ \A t \in Threads : WF_channelVars(ThreadStep(t))

(* When the consumers receive no more than the producers send, and the      *)
(* channel can hold the rest, every send and receive returns and the scope  *)
(* ends with the channel freed, unless an assertion stopped the program.    *)
ScopeEnds == life = "open" ~> life \in {"freed", "aborted"}
=============================================================================
