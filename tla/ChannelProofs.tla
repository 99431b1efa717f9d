---------------------------- MODULE ChannelProofs ----------------------------
(****************************************************************************)
(* Theorems of Channel, for every number of producers and consumers, every  *)
(* program (Output, Quota), every capacity and every IntMax.                *)
(****************************************************************************)
EXTENDS Channel, FiniteSetTheorems, SequenceTheorems, TLAPS

\* The ring index wraps at most once.
LEMMA ModLow == ASSUME NEW c \in Nat \ {0}, NEW x \in 0 .. c - 1 PROVE x % c = x
  BY SMT

LEMMA ModHigh == ASSUME NEW c \in Nat \ {0}, NEW x \in c .. 2 * c - 1 PROVE x % c = x - c
  BY SMT

LEMMA SlotInRange ==
  ASSUME NEW c \in Nat \ {0}, NEW h \in 0 .. c - 1, NEW i \in 0 .. c
  PROVE  (h + i) % c \in 0 .. c - 1
<1>1. CASE h + i < c
  BY <1>1, ModLow
<1>2. CASE h + i >= c
  <2>1. h + i \in c .. 2 * c - 1
    BY <1>2
  <2>2. QED
    BY <2>1, ModHigh
<1>3. QED
  BY <1>1, <1>2

\* Two offsets smaller than the capacity never share a slot.
LEMMA SlotsDiffer ==
  ASSUME NEW c \in Nat \ {0}, NEW h \in 0 .. c - 1, NEW i \in 0 .. c - 1, NEW j \in 0 .. c - 1, i # j
  PROVE  (h + i) % c # (h + j) % c
<1>1. ASSUME NEW k \in 0 .. c - 1
      PROVE  (h + k) % c = IF h + k < c THEN h + k ELSE h + k - c
  <2>1. CASE h + k < c
    BY <2>1, ModLow
  <2>2. CASE h + k >= c
    <3>1. h + k \in c .. 2 * c - 1
      BY <2>2
    <3>2. QED
      BY <2>2, <3>1, ModHigh
  <2>3. QED
    BY <2>1, <2>2
<1>2. QED
  BY <1>1

\* Moving the head one slot on shifts every offset down by one.
LEMMA SlotAfterHead ==
  ASSUME NEW c \in Nat \ {0}, NEW h \in 0 .. c - 1, NEW i \in 0 .. c - 1
  PROVE  (((h + 1) % c) + i) % c = (h + i + 1) % c
<1>1. CASE h + 1 < c
  <2>1. (h + 1) % c = h + 1
    BY <1>1, ModLow
  <2>2. QED
    BY <2>1
<1>2. CASE h + 1 = c
  <2>1. (h + 1) % c = 0
    BY <1>2, ModHigh
  <2>2. i % c = i
    BY ModLow
  <2>3. h + i + 1 \in c .. 2 * c - 1 /\ h + i + 1 - c = i
    BY <1>2
  <2>4. (h + i + 1) % c = i
    BY <2>3, ModHigh
  <2>5. QED
    BY <2>1, <2>2, <2>4
<1>3. QED
  BY <1>1, <1>2

\* Growing either doubles the capacity or is refused, never wraps unnoticed.
LEMMA DoubledGrows ==
  ASSUME NEW c \in 1 .. IntMax, Doubled(c) > c
  PROVE  Doubled(c) = 2 * c /\ Doubled(c) \in 1 .. IntMax
  BY NumbersAssumption DEF Doubled

LEMMA ItemTyped ==
  ASSUME NEW p \in Senders, ChannelTypeOK, posted[p] < Output[p]
  PROVE  Item(p) \in Items
<1>1. posted[p] + 1 \in 1 .. Output[p]
  BY ProgramAssumption DEF ChannelTypeOK
<1>2. <<p, posted[p] + 1>> \in {<<p, n>> : n \in 1 .. Output[p]}
  BY <1>1
<1>3. QED
  BY <1>2 DEF Items, Item

\* One more completed operation stays within the number the program makes.
LEMMA CountsUp ==
  ASSUME NEW S, NEW f \in [S -> Nat], NEW g \in [S -> Nat], NEW s \in S,
         \A x \in S : f[x] <= g[x], f[s] < g[s]
  PROVE  /\ [f EXCEPT ![s] = f[s] + 1] \in [S -> Nat]
         /\ \A x \in S : [f EXCEPT ![s] = f[s] + 1][x] <= g[x]
  OBVIOUS

-----------------------------------------------------------------------------
LEMMA InitIndInv == ChannelInit => ChannelInv
<1> SUFFICES ASSUME ChannelInit PROVE ChannelInv
  OBVIOUS
<1>1. ChannelTypeOK
  <2>1. data \in [0 .. capacity - 1 -> Items \cup {Garbage}]
    BY DEF ChannelInit
  <2>2. at \in [Threads -> ChannelPlaces]
    BY DEF ChannelInit, ChannelPlaces
  <2>3. delivered \in Seq(Items)
    BY DEF ChannelInit
  <2>4. posted \in [Senders -> Nat] /\ \A p \in Senders : posted[p] <= Output[p]
    BY ProgramAssumption DEF ChannelInit
  <2>5. got \in [Receivers -> Nat] /\ \A c \in Receivers : got[c] <= Quota[c]
    BY ProgramAssumption DEF ChannelInit
  <2>6. spurious \in 0 .. MaxSpurious /\ capacity \in 0 .. IntMax
    BY NumbersAssumption DEF ChannelInit
  <2>7. QED
    BY <2>1, <2>2, <2>3, <2>4, <2>5, <2>6 DEF ChannelInit, ChannelTypeOK
<1>2. RolesOK /\ RingOK
  BY DEF ChannelInit, RolesOK, RingOK, Threads, SendPlaces, RecvPlaces, ReadyPlaces
<1>3. MutexHeld
  BY ThreadsAssumption DEF ChannelInit, MutexHeld, Critical
<1>4. \A t \in Threads : at[t] = "idle"
  BY DEF ChannelInit
<1>5. At("recvWait") = {} /\ At("sendWait") = {}
  BY <1>4 DEF At
<1>6. QED
  BY <1>1, <1>2, <1>3, <1>4, <1>5 DEF ChannelInv, NoLostWakeup, ChannelInit, Threads

LEMMA TypePreserved == ChannelInv /\ [ChannelNext]_channelVars => ChannelTypeOK'
<1> SUFFICES ASSUME ChannelInv, [ChannelNext]_channelVars PROVE ChannelTypeOK'
  OBVIOUS
<1> USE DEF ChannelInv
<1>1. ASSUME NEW n \in Requests, Create(n) PROVE ChannelTypeOK'
  BY <1>1, NumbersAssumption DEF Create, ChannelTypeOK
<1>2. CASE CreateFails
  BY <1>2 DEF CreateFails, ChannelTypeOK, ring
<1>3. ASSUME NEW p \in Senders, BeginSend(p) PROVE ChannelTypeOK'
  BY <1>3 DEF BeginSend, Begin, ChannelTypeOK, ring, ChannelPlaces, SendPlaces
<1>4. ASSUME NEW p \in Senders, SendWaits(p) PROVE ChannelTypeOK'
  BY <1>4 DEF SendWaits, Wait, ChannelTypeOK, ring, ChannelPlaces, SendPlaces
<1>5. ASSUME NEW p \in Senders, Grow(p) PROVE ChannelTypeOK'
  <2> USE <1>5 DEF Grow, Holds, Unrolled
  <2>1. capacity \in 1 .. IntMax /\ count = capacity /\ head \in 0 .. capacity - 1
    BY DEF ChannelTypeOK, RingOK, Full
  <2>2. Doubled(capacity) = 2 * capacity /\ Doubled(capacity) \in 1 .. IntMax
    BY <2>1, DoubledGrows
  <2>3. data' \in [0 .. capacity' - 1 -> Items \cup {Garbage}]
    <3>1. ASSUME NEW i \in 0 .. count - 1 PROVE data[(head + i) % capacity] \in Items
      BY DEF RingOK
    <3>2. ASSUME NEW i \in 0 .. capacity' - 1, i < count PROVE i \in 0 .. count - 1
      BY <2>1, <2>2, <3>2
    <3>3. QED
      BY <3>1, <3>2
  <2>4. QED
    BY <2>2, <2>3 DEF ChannelTypeOK
<1>6. ASSUME NEW p \in Senders, GrowFails(p) PROVE ChannelTypeOK'
  BY <1>6 DEF GrowFails, ChannelTypeOK, ring
<1>7. ASSUME NEW p \in Senders, Enqueue(p) PROVE ChannelTypeOK'
  <2> USE <1>7 DEF Enqueue, Holds
  <2>1. posted[p] < Output[p]
    BY DEF RolesOK, SendPlaces
  <2>2. Item(p) \in Items
    BY <2>1, ItemTyped
  <2>3. data' \in [0 .. capacity' - 1 -> Items \cup {Garbage}]
    BY <2>2 DEF ChannelTypeOK
  <2>4. posted' \in [Senders -> Nat] /\ \A q \in Senders : posted'[q] <= Output[q]
    <3>1. posted \in [Senders -> Nat] /\ \A q \in Senders : posted[q] <= Output[q]
      BY DEF ChannelTypeOK
    <3>2. posted' = [posted EXCEPT ![p] = posted[p] + 1]
      OBVIOUS
    <3>3. QED
      BY ONLY <2>1, <3>1, <3>2, p \in Senders, ProgramAssumption, CountsUp
  <2>5. at' \in [Threads -> ChannelPlaces]
    BY DEF SignalAndReturn, ChannelTypeOK, ChannelPlaces, RecvPlaces
  <2>6. holder' \in Threads \cup {NoThread}
    BY DEF SignalAndReturn
  <2>7. QED
    BY <2>3, <2>4, <2>5, <2>6 DEF ChannelTypeOK
<1>8. ASSUME NEW c \in Receivers, BeginReceive(c) PROVE ChannelTypeOK'
  BY <1>8 DEF BeginReceive, Begin, ChannelTypeOK, ring, ChannelPlaces, RecvPlaces
<1>9. ASSUME NEW t \in Threads, ReceiveWaits(t) PROVE ChannelTypeOK'
  BY <1>9 DEF ReceiveWaits, Wait, ChannelTypeOK, ring, ChannelPlaces, RecvPlaces
<1>10. ASSUME NEW t \in Receivers \cup {Owner}, Dequeue(t) PROVE ChannelTypeOK'
  <2> USE <1>10 DEF Dequeue, Holds
  <2>1. capacity \in Nat \ {0} /\ head \in 0 .. capacity - 1 /\ count \in 1 .. capacity
    BY DEF ChannelTypeOK, RingOK
  <2>2. data[head] \in Items
    <3>1. data[(head + 0) % capacity] \in Items
      <4>1. 0 \in 0 .. count - 1 /\ capacity > 0
        BY <2>1
      <4>2. QED
        BY <4>1 DEF RingOK
    <3>2. head + 0 = head /\ head % capacity = head
      BY ONLY <2>1, ModLow
    <3>3. QED
      BY <3>1, <3>2
  <2>3. head' \in Nat /\ head' < capacity' /\ count' \in Nat
    BY <2>1, SlotInRange DEF NextSlot
  <2>4. delivered' \in Seq(Items)
    BY <2>2 DEF ChannelTypeOK
  <2>5. got' \in [Receivers -> Nat] /\ \A c \in Receivers : got'[c] <= Quota[c]
    BY ProgramAssumption DEF ChannelTypeOK, RolesOK, RecvPlaces
  <2>6. at' \in [Threads -> ChannelPlaces]
    BY DEF SignalAndReturn, ChannelTypeOK, ChannelPlaces, SendPlaces, ReadyPlaces
  <2>7. holder' \in Threads \cup {NoThread}
    BY DEF SignalAndReturn
  <2>8. QED
    BY <2>3, <2>4, <2>5, <2>6, <2>7 DEF ChannelTypeOK
<1>11. ASSUME NEW t \in Threads, Lock(t) PROVE ChannelTypeOK'
  BY <1>11 DEF Lock, ChannelTypeOK, ring, ChannelPlaces, SendPlaces, RecvPlaces, ReadyPlaces
<1>12. ASSUME NEW t \in Threads, SpuriousWakeup(t) PROVE ChannelTypeOK'
  BY <1>12, NumbersAssumption DEF SpuriousWakeup, ChannelTypeOK, ring, ChannelPlaces, SendPlaces, RecvPlaces
<1>13. CASE ChannelRelease
  BY <1>13 DEF ChannelRelease, BeginRelease, Begin, ChannelReady, Free, Holds, ChannelTypeOK, ring, ChannelPlaces, RecvPlaces, ReadyPlaces
<1>14. CASE UNCHANGED channelVars
  BY <1>14 DEF channelVars, ChannelTypeOK, ring
<1>15. QED
  BY <1>1, <1>2, <1>3, <1>4, <1>5, <1>6, <1>7, <1>8, <1>9, <1>10, <1>11, <1>12, <1>13, <1>14
  DEF ChannelNext, ChannelSend, ChannelReceive, ChannelOver, Threads

-----------------------------------------------------------------------------
LEMMA RolesPreserved == ChannelInv /\ [ChannelNext]_channelVars => RolesOK'
<1> SUFFICES ASSUME ChannelInv, [ChannelNext]_channelVars PROVE RolesOK'
  OBVIOUS
<1> USE ThreadsAssumption DEF ChannelInv, ChannelTypeOK, RolesOK, Joined, SendPlaces, RecvPlaces, ReadyPlaces, Threads
<1>1. ASSUME NEW n \in Requests, Create(n) PROVE RolesOK'
  BY <1>1 DEF Create
<1>2. CASE CreateFails
  BY <1>2 DEF CreateFails, ring
<1>3. ASSUME NEW p \in Senders, BeginSend(p) PROVE RolesOK'
  BY <1>3 DEF BeginSend, Begin, ring
<1>4. ASSUME NEW p \in Senders, SendWaits(p) PROVE RolesOK'
  BY <1>4 DEF SendWaits, Wait, Holds, ring
<1>5. ASSUME NEW p \in Senders, Grow(p) \/ GrowFails(p) PROVE RolesOK'
  BY <1>5 DEF Grow, GrowFails, Holds, ring
<1>6. ASSUME NEW p \in Senders, Enqueue(p) PROVE RolesOK'
  BY <1>6 DEF Enqueue, Holds, SignalAndReturn, At
<1>7. ASSUME NEW c \in Receivers, BeginReceive(c) PROVE RolesOK'
  BY <1>7 DEF BeginReceive, Begin, ring
<1>8. ASSUME NEW t \in Receivers \cup {Owner}, ReceiveWaits(t) PROVE RolesOK'
  BY <1>8 DEF ReceiveWaits, Wait, Holds, ring
<1>9. ASSUME NEW t \in Receivers \cup {Owner}, Dequeue(t) PROVE RolesOK'
  BY <1>9 DEF Dequeue, Holds, SignalAndReturn, At
<1>10. ASSUME NEW t \in Threads, Lock(t) PROVE RolesOK'
  BY <1>10 DEF Lock, ring
<1>11. ASSUME NEW t \in Threads, SpuriousWakeup(t) PROVE RolesOK'
  BY <1>11 DEF SpuriousWakeup, ring
<1>12. CASE ChannelRelease
  BY <1>12 DEF ChannelRelease, BeginRelease, Begin, ChannelReady, Free, Holds, ring
<1>13. CASE UNCHANGED channelVars
  BY <1>13 DEF channelVars, ring
<1>14. QED
  BY <1>1, <1>2, <1>3, <1>4, <1>5, <1>6, <1>7, <1>8, <1>9, <1>10, <1>11, <1>12, <1>13
  DEF ChannelNext, ChannelSend, ChannelReceive, ChannelOver

LEMMA MutexPreserved == ChannelInv /\ [ChannelNext]_channelVars => MutexHeld'
<1> SUFFICES ASSUME ChannelInv, [ChannelNext]_channelVars PROVE MutexHeld'
  OBVIOUS
<1> USE ThreadsAssumption DEF ChannelInv, ChannelTypeOK, MutexHeld, Critical
<1>1. ASSUME NEW n \in Requests, Create(n) PROVE MutexHeld'
  BY <1>1 DEF Create
<1>2. CASE CreateFails
  BY <1>2 DEF CreateFails, ring
<1>3. ASSUME NEW p \in Senders, BeginSend(p) PROVE MutexHeld'
  BY <1>3 DEF BeginSend, Begin, ring
<1>4. ASSUME NEW p \in Senders, SendWaits(p) PROVE MutexHeld'
  BY <1>4 DEF SendWaits, Wait, Holds, ring, Threads
<1>5. ASSUME NEW p \in Senders, Grow(p) \/ GrowFails(p) PROVE MutexHeld'
  BY <1>5 DEF Grow, GrowFails, Holds, ring
<1>6. ASSUME NEW p \in Senders, Enqueue(p) PROVE MutexHeld'
  BY <1>6 DEF Enqueue, Holds, SignalAndReturn, At, Threads
<1>7. ASSUME NEW c \in Receivers, BeginReceive(c) PROVE MutexHeld'
  BY <1>7 DEF BeginReceive, Begin, ring
<1>8. ASSUME NEW t \in Receivers \cup {Owner}, ReceiveWaits(t) PROVE MutexHeld'
  BY <1>8 DEF ReceiveWaits, Wait, Holds, ring, Threads
<1>9. ASSUME NEW t \in Receivers \cup {Owner}, Dequeue(t) PROVE MutexHeld'
  BY <1>9 DEF Dequeue, Holds, SignalAndReturn, At, Threads
<1>10. ASSUME NEW t \in Threads, Lock(t) PROVE MutexHeld'
  BY <1>10 DEF Lock, ring
<1>11. ASSUME NEW t \in Threads, SpuriousWakeup(t) PROVE MutexHeld'
  BY <1>11 DEF SpuriousWakeup, ring
<1>12. CASE ChannelRelease
  BY <1>12 DEF ChannelRelease, BeginRelease, Begin, ChannelReady, Free, Holds, ring, Threads
<1>13. CASE UNCHANGED channelVars
  BY <1>13 DEF channelVars, ring
<1>14. QED
  BY <1>1, <1>2, <1>3, <1>4, <1>5, <1>6, <1>7, <1>8, <1>9, <1>10, <1>11, <1>12, <1>13
  DEF ChannelNext, ChannelSend, ChannelReceive, ChannelOver

-----------------------------------------------------------------------------
LEMMA RingPreserved == ChannelInv /\ [ChannelNext]_channelVars => RingOK'
<1> SUFFICES ASSUME ChannelInv, [ChannelNext]_channelVars PROVE RingOK'
  OBVIOUS
<1>a. ChannelTypeOK /\ RingOK
  BY DEF ChannelInv
<1>1. ASSUME NEW n \in Requests, Create(n) PROVE RingOK'
  BY <1>1, <1>a, NumbersAssumption DEF Create, RingOK
<1>2. CASE CreateFails
  BY <1>2, <1>a DEF CreateFails, ring, RingOK
<1>3. ASSUME NEW p \in Senders, Grow(p) PROVE RingOK'
  <2>1. /\ capacity \in 1 .. IntMax /\ count = capacity /\ head \in 0 .. capacity - 1
        /\ \A i \in 0 .. count - 1 : data[(head + i) % capacity] \in Items
    BY <1>3, <1>a DEF Grow, Holds, Full, ChannelTypeOK, RingOK
  <2>2. Doubled(capacity) = 2 * capacity
    BY <1>3, <2>1, DoubledGrows DEF Grow
  <2>3. life' = "open" /\ capacity' = 2 * capacity /\ head' = 0 /\ count' = count
    BY <1>3, <2>2 DEF Grow, Holds
  <2>4. ASSUME NEW i \in 0 .. count - 1 PROVE data'[(0 + i) % capacity'] \in Items
    <3>1. (0 + i) % (2 * capacity) = i
      BY <2>1, ModLow
    <3>2. data'[i] = data[(head + i) % capacity]
      BY <1>3, <2>1, <2>2 DEF Grow, Unrolled
    <3>3. QED
      BY <2>1, <2>3, <3>1, <3>2
  <2>5. QED
    BY <2>1, <2>3, <2>4 DEF RingOK
<1>4. ASSUME NEW p \in Senders, Enqueue(p) PROVE RingOK'
  <2>1. /\ capacity \in 1 .. IntMax /\ count \in 0 .. capacity - 1 /\ head \in 0 .. capacity - 1
        /\ \A i \in 0 .. count - 1 : data[(head + i) % capacity] \in Items
    BY <1>4, <1>a DEF Enqueue, Holds, Full, ChannelTypeOK, RingOK
  <2>2. Item(p) \in Items
    BY <1>4, ItemTyped DEF Enqueue, Holds, ChannelInv, RolesOK, SendPlaces
  <2>3. /\ life' = "open" /\ capacity' = capacity /\ head' = head /\ count' = count + 1
        /\ data' = [data EXCEPT ![(head + count) % capacity] = Item(p)]
    BY <1>4 DEF Enqueue, Holds, TailSlot
  <2>4. ASSUME NEW i \in 0 .. count PROVE data'[(head + i) % capacity] \in Items
    <3>1. (head + i) % capacity \in 0 .. capacity - 1
      BY <2>1, SlotInRange
    <3>2. CASE i = count
      BY <2>2, <2>3, <3>1, <3>2, <1>a DEF ChannelTypeOK
    <3>3. CASE i < count
      <4>1. /\ capacity \in Nat \ {0} /\ head \in 0 .. capacity - 1 /\ count \in 0 .. capacity - 1
            /\ i \in 0 .. count - 1 /\ i \in 0 .. capacity - 1 /\ i # count
        BY <2>1, <3>3
      <4>2. (head + i) % capacity # (head + count) % capacity
        BY ONLY <4>1, SlotsDiffer
      <4>3. data'[(head + i) % capacity] = data[(head + i) % capacity]
        BY <2>3, <3>1, <4>2, <1>a DEF ChannelTypeOK
      <4>4. QED
        BY <2>1, <4>1, <4>3
    <3>4. QED
      BY <2>1, <3>2, <3>3
  <2>5. QED
    BY <2>1, <2>3, <2>4 DEF RingOK
<1>5. ASSUME NEW t \in Threads, Dequeue(t) PROVE RingOK'
  <2>1. /\ capacity \in 1 .. IntMax /\ count \in 1 .. capacity /\ head \in 0 .. capacity - 1
        /\ \A i \in 0 .. count - 1 : data[(head + i) % capacity] \in Items
    BY <1>5, <1>a DEF Dequeue, Holds, ChannelTypeOK, RingOK
  <2>2. /\ life' = "open" /\ capacity' = capacity /\ count' = count - 1
        /\ head' = (head + 1) % capacity /\ data' = data
    BY <1>5 DEF Dequeue, Holds, NextSlot
  <2>3. head' \in 0 .. capacity - 1
    BY <2>1, <2>2, SlotInRange
  <2>4. ASSUME NEW i \in 0 .. count - 2 PROVE data[(head' + i) % capacity] \in Items
    <3>1. (head' + i) % capacity = (head + i + 1) % capacity
      BY <2>1, <2>2, SlotAfterHead
    <3>2. head + i + 1 = head + (i + 1) /\ i + 1 \in 0 .. count - 1
      BY <2>1
    <3>3. QED
      BY <2>1, <3>1, <3>2
  <2>5. QED
    BY <2>1, <2>2, <2>3, <2>4 DEF RingOK
<1>6. CASE UNCHANGED <<ring, life>>
  BY <1>6, <1>a DEF ring, RingOK
<1>7. CASE UNCHANGED ring /\ life' = "aborted"
  BY <1>7, <1>a DEF ring, RingOK
<1>8. CASE UNCHANGED ring /\ life = "open" /\ life' = "freed"
  BY <1>8, <1>a DEF ring, RingOK
<1>9. QED
  BY <1>1, <1>2, <1>3, <1>4, <1>5, <1>6, <1>7, <1>8
  DEF ChannelNext, ChannelSend, ChannelReceive, ChannelOver, BeginSend, BeginReceive, Begin, SendWaits, GrowFails,
      ReceiveWaits, Wait, Lock, SpuriousWakeup, ChannelRelease, BeginRelease, ChannelReady, Free, Holds, channelVars, Threads

-----------------------------------------------------------------------------
(* Counting awake threads.                                                  *)
LEMMA FiniteThreads == \A S \in SUBSET Threads : IsFiniteSet(S) /\ Cardinality(S) \in Nat
<1>1. IsFiniteSet(Senders \cup Receivers)
  BY ThreadsAssumption, FS_Union
<1>2. IsFiniteSet((Senders \cup Receivers) \cup {Owner})
  BY <1>1, FS_AddElement
<1>3. QED
  BY <1>2, FS_Subset, FS_CardinalityType DEF Threads

LEMMA MoreAwake ==
  ASSUME NEW S \in SUBSET Threads, NEW T \in SUBSET Threads, S \subseteq T
  PROVE  Cardinality(S) <= Cardinality(T)
  BY FiniteThreads, FS_Subset

LEMMA OneMoreAwake ==
  ASSUME NEW S \in SUBSET Threads, NEW T \in SUBSET Threads, NEW w \in T \ S, S \subseteq T
  PROVE  Cardinality(S) + 1 <= Cardinality(T)
<1>1. Cardinality(S \cup {w}) = Cardinality(S) + 1
  BY FiniteThreads, FS_AddElement
<1>2. Cardinality(S \cup {w}) <= Cardinality(T)
  BY MoreAwake
<1>3. QED
  BY <1>1, <1>2

LEMMA OneLessAwake ==
  ASSUME NEW S \in SUBSET Threads, NEW T \in SUBSET Threads, NEW t \in S, S \ {t} \subseteq T
  PROVE  Cardinality(S) - 1 <= Cardinality(T)
<1>1. Cardinality(S \ {t}) = Cardinality(S) - 1
  BY FiniteThreads, FS_RemoveElement
<1>2. Cardinality(S \ {t}) <= Cardinality(T)
  BY MoreAwake
<1>3. QED
  BY <1>1, <1>2

\* A step that touches neither the counts nor puts anyone to sleep.
LEMMA WakeupUndisturbed ==
  ASSUME ChannelTypeOK, NoLostWakeup, count' = count, capacity' = capacity,
         At("recvWait")' \subseteq At("recvWait"), AwakeReceivers \subseteq AwakeReceivers',
         At("sendWait")' \subseteq At("sendWait"), AwakeSenders \subseteq AwakeSenders'
  PROVE  NoLostWakeup'
<1>1. /\ AwakeReceivers \in SUBSET Threads /\ AwakeReceivers' \in SUBSET Threads
      /\ AwakeSenders \in SUBSET Threads /\ AwakeSenders' \in SUBSET Threads
  BY DEF AwakeReceivers, AwakeSenders, At
<1>2. /\ Cardinality(AwakeReceivers) <= Cardinality(AwakeReceivers')
      /\ Cardinality(AwakeSenders) <= Cardinality(AwakeSenders')
      /\ Cardinality(AwakeReceivers) \in Nat /\ Cardinality(AwakeReceivers') \in Nat
      /\ Cardinality(AwakeSenders) \in Nat /\ Cardinality(AwakeSenders') \in Nat
  BY <1>1, MoreAwake, FiniteThreads
<1>3. count \in Nat /\ capacity \in Nat
  BY NumbersAssumption DEF ChannelTypeOK
<1>4. QED
  BY <1>2, <1>3 DEF NoLostWakeup

LEMMA WakeupPreserved == ChannelInv /\ [ChannelNext]_channelVars => NoLostWakeup'
<1> SUFFICES ASSUME ChannelInv, [ChannelNext]_channelVars PROVE NoLostWakeup'
  OBVIOUS
<1>a. ChannelTypeOK /\ RolesOK /\ RingOK /\ NoLostWakeup
  BY DEF ChannelInv
<1>b. at \in [Threads -> ChannelPlaces] /\ count \in Nat /\ capacity \in Nat
  BY <1>a, NumbersAssumption DEF ChannelTypeOK
<1>c. /\ AwakeReceivers \in SUBSET Threads /\ AwakeReceivers' \in SUBSET Threads
      /\ AwakeSenders \in SUBSET Threads /\ AwakeSenders' \in SUBSET Threads
  BY DEF AwakeReceivers, AwakeSenders, At
<1>d. /\ Cardinality(AwakeReceivers) \in Nat /\ Cardinality(AwakeReceivers') \in Nat
      /\ Cardinality(AwakeSenders) \in Nat /\ Cardinality(AwakeSenders') \in Nat
  BY <1>c, FiniteThreads
<1>1. ASSUME NEW n \in Requests, Create(n) PROVE NoLostWakeup'
  <2>1. At("recvWait")' = {} /\ At("sendWait")' = {}
    BY <1>1, <1>a DEF Create, RolesOK, At
  <2>2. QED
    BY <2>1 DEF NoLostWakeup
<1>2. CASE UNCHANGED <<at, ring>>
  BY <1>2, <1>a, WakeupUndisturbed DEF ring, At, AwakeReceivers, AwakeSenders
<1>3. ASSUME NEW t \in Threads, NEW place \in {"sendLock", "recvLock", "readyLock"}, Begin(t, place) PROVE NoLostWakeup'
  BY <1>3, <1>a, <1>b, WakeupUndisturbed DEF Begin, ring, At, AwakeReceivers, AwakeSenders
<1>4. ASSUME NEW p \in Senders, SendWaits(p) PROVE NoLostWakeup'
  <2>1. /\ capacity' - count' = 0 /\ count' = count
        /\ At("recvWait")' = At("recvWait") /\ AwakeReceivers' = AwakeReceivers
    BY <1>4, <1>b DEF SendWaits, Holds, Full, Wait, ring, At, AwakeReceivers, Threads
  <2>2. QED
    BY <2>1, <1>a, <1>d DEF NoLostWakeup
<1>5. ASSUME NEW p \in Senders, Grow(p) PROVE NoLostWakeup'
  <2>1. At("sendWait")' = {}
    BY <1>5 DEF Grow, ChannelInv, At
  <2>2. count' = count /\ At("recvWait")' = At("recvWait") /\ AwakeReceivers' = AwakeReceivers
    BY <1>5 DEF Grow, At, AwakeReceivers
  <2>3. QED
    BY <2>1, <2>2, <1>a DEF NoLostWakeup
<1>6. ASSUME NEW p \in Senders, Enqueue(p) PROVE NoLostWakeup'
  <2>1. /\ p \in Threads /\ at[p] = "send" /\ count' = count + 1 /\ capacity' = capacity
        /\ SignalAndReturn(p, "idle", "recvWait", "recvLock")
    BY <1>6 DEF Enqueue, Holds, Threads
  <2>2. At("recvWait")' # {} => count' <= Cardinality(AwakeReceivers')
    <3>1. CASE At("recvWait") = {}
      BY <2>1, <3>1, <1>b DEF SignalAndReturn, At
    <3>2. ASSUME NEW w \in At("recvWait"), at' = [at EXCEPT ![p] = "idle", ![w] = "recvLock"]
          PROVE  count' <= Cardinality(AwakeReceivers')
      <4>1. w \in AwakeReceivers' \ AwakeReceivers /\ AwakeReceivers \subseteq AwakeReceivers'
        BY <2>1, <3>2, <1>b DEF At, AwakeReceivers
      <4>2. count <= Cardinality(AwakeReceivers)
        BY <1>a DEF NoLostWakeup
      <4>3. Cardinality(AwakeReceivers) + 1 <= Cardinality(AwakeReceivers')
        BY <4>1, <1>c, OneMoreAwake
      <4>4. QED
        BY <2>1, <4>2, <4>3, <1>b, <1>d
    <3>3. QED
      BY <2>1, <3>1, <3>2 DEF SignalAndReturn
  <2>3. At("sendWait")' # {} => capacity' - count' <= Cardinality(AwakeSenders')
    <3>1. At("sendWait")' \subseteq At("sendWait") /\ p \in AwakeSenders /\ AwakeSenders \ {p} \subseteq AwakeSenders'
      BY <2>1, <1>b DEF SignalAndReturn, At, AwakeSenders
    <3>2. Cardinality(AwakeSenders) - 1 <= Cardinality(AwakeSenders')
      BY <3>1, <1>c, OneLessAwake
    <3>3. QED
      BY <2>1, <3>1, <3>2, <1>a, <1>b, <1>d DEF NoLostWakeup
  <2>4. QED
    BY <2>2, <2>3 DEF NoLostWakeup
<1>7. ASSUME NEW t \in Receivers \cup {Owner}, ReceiveWaits(t) PROVE NoLostWakeup'
  <2>1. /\ count' = 0 /\ capacity' = capacity /\ count' = count
        /\ At("sendWait")' = At("sendWait") /\ AwakeSenders' = AwakeSenders
    BY <1>7, <1>b DEF ReceiveWaits, Holds, Wait, ring, At, AwakeSenders
  <2>2. QED
    BY <2>1, <1>a, <1>d DEF NoLostWakeup
<1>8. ASSUME NEW t \in Receivers \cup {Owner}, Dequeue(t) PROVE NoLostWakeup'
  <2> DEFINE after == IF t = Owner THEN "readyLock" ELSE "idle"
  <2>1. /\ t \in Threads /\ at[t] = "recv" /\ count' = count - 1 /\ capacity' = capacity
        /\ SignalAndReturn(t, after, "sendWait", "sendLock")
    BY <1>8 DEF Dequeue, Holds, Threads
  <2>2. At("recvWait")' # {} => count' <= Cardinality(AwakeReceivers')
    <3>1. At("recvWait")' \subseteq At("recvWait") /\ t \in AwakeReceivers /\ AwakeReceivers \ {t} \subseteq AwakeReceivers'
      BY <2>1, <1>b DEF SignalAndReturn, At, AwakeReceivers
    <3>2. Cardinality(AwakeReceivers) - 1 <= Cardinality(AwakeReceivers')
      BY <3>1, <1>c, OneLessAwake
    <3>3. QED
      BY <2>1, <3>1, <3>2, <1>a, <1>b, <1>d DEF NoLostWakeup
  <2>3. At("sendWait")' # {} => capacity' - count' <= Cardinality(AwakeSenders')
    <3>1. CASE At("sendWait") = {}
      BY <2>1, <3>1, <1>b DEF SignalAndReturn, At
    <3>2. ASSUME NEW w \in At("sendWait"), at' = [at EXCEPT ![t] = after, ![w] = "sendLock"]
          PROVE  capacity' - count' <= Cardinality(AwakeSenders')
      <4>1. w \in AwakeSenders' \ AwakeSenders /\ AwakeSenders \subseteq AwakeSenders'
        BY <2>1, <3>2, <1>b DEF At, AwakeSenders
      <4>2. capacity - count <= Cardinality(AwakeSenders)
        BY <1>a DEF NoLostWakeup
      <4>3. Cardinality(AwakeSenders) + 1 <= Cardinality(AwakeSenders')
        BY <4>1, <1>c, OneMoreAwake
      <4>4. QED
        BY <2>1, <4>2, <4>3, <1>b, <1>d
    <3>3. QED
      BY <2>1, <3>1, <3>2 DEF SignalAndReturn
  <2>4. QED
    BY <2>2, <2>3 DEF NoLostWakeup
<1>9. ASSUME NEW t \in Threads, Lock(t) PROVE NoLostWakeup'
  BY <1>9, <1>a, <1>b, WakeupUndisturbed DEF Lock, ring, At, AwakeReceivers, AwakeSenders
<1>10. ASSUME NEW t \in Threads, SpuriousWakeup(t) PROVE NoLostWakeup'
  BY <1>10, <1>a, <1>b, WakeupUndisturbed DEF SpuriousWakeup, ring, At, AwakeReceivers, AwakeSenders
<1>11. CASE ChannelReady
  BY <1>11, <1>a, <1>b, WakeupUndisturbed DEF ChannelReady, Holds, ring, At, AwakeReceivers, AwakeSenders, Threads
<1>12. CASE Free
  BY <1>12, <1>a, <1>b, WakeupUndisturbed DEF Free, Holds, ring, At, AwakeReceivers, AwakeSenders, Threads
<1>13. QED
  BY <1>1, <1>2, <1>3, <1>4, <1>5, <1>6, <1>7, <1>8, <1>9, <1>10, <1>11, <1>12
  DEF ChannelNext, ChannelSend, ChannelReceive, ChannelOver, BeginSend, BeginReceive, GrowFails, CreateFails,
      ChannelRelease, BeginRelease, channelVars, ring, Threads

LEMMA RestPreserved ==
  ChannelInv /\ [ChannelNext]_channelVars =>
    /\ (~bounded => At("sendWait") = {})'
    /\ (at[Owner] \in {"free", "done"} => count = 0)'
    /\ (life = "freed" <=> at[Owner] = "done")'
<1> SUFFICES ASSUME ChannelInv, [ChannelNext]_channelVars
             PROVE  /\ (~bounded => At("sendWait") = {})'
                    /\ (at[Owner] \in {"free", "done"} => count = 0)'
                    /\ (life = "freed" <=> at[Owner] = "done")'
  OBVIOUS
<1>a. at \in [Threads -> ChannelPlaces] /\ count \in Nat
  BY DEF ChannelInv, ChannelTypeOK
<1>b. /\ ~bounded => At("sendWait") = {}
      /\ at[Owner] \in {"free", "done"} => count = 0
      /\ life = "freed" <=> at[Owner] = "done"
  BY DEF ChannelInv
<1>c. /\ \A p \in Senders : at[p] \in SendPlaces => at[Owner] = "idle"
      /\ life = "absent" => \A t \in Threads : at[t] = "idle"
  BY ProgramAssumption DEF ChannelInv, ChannelTypeOK, RolesOK, Joined, SendPlaces
<1>d. Owner \in Threads /\ Owner \notin Senders \cup Receivers
  BY ThreadsAssumption DEF Threads
<1> DEFINE Rest == /\ ~bounded => At("sendWait") = {}
                   /\ at[Owner] \in {"free", "done"} => count = 0
                   /\ life = "freed" <=> at[Owner] = "done"
<1>1. ASSUME NEW n \in Requests, Create(n) PROVE Rest'
  BY <1>1, <1>b, <1>c, <1>d DEF Create, At
<1>2. ASSUME UNCHANGED <<at, ring>>, life' = life \/ (life # "freed" /\ life' = "aborted")
      PROVE  Rest'
  BY <1>2, <1>b DEF ring, At
<1>3. ASSUME NEW t \in Threads, NEW place \in {"sendLock", "recvLock", "readyLock"}, Begin(t, place) PROVE Rest'
  BY <1>3, <1>a, <1>b DEF Begin, ring, At
<1>4. ASSUME NEW p \in Senders, SendWaits(p) PROVE Rest'
  BY <1>4, <1>a, <1>b, <1>c, <1>d DEF SendWaits, Holds, Wait, ring, At, SendPlaces
<1>5. ASSUME NEW p \in Senders, Grow(p) PROVE Rest'
  BY <1>5, <1>b DEF Grow, At
<1>6. ASSUME NEW p \in Senders, Enqueue(p) PROVE Rest'
  BY <1>6, <1>a, <1>b, <1>c, <1>d DEF Enqueue, Holds, SignalAndReturn, At, SendPlaces
<1>7. ASSUME NEW t \in Receivers \cup {Owner}, ReceiveWaits(t) PROVE Rest'
  BY <1>7, <1>a, <1>b, <1>d DEF ReceiveWaits, Holds, Wait, ring, At
<1>8. ASSUME NEW t \in Receivers \cup {Owner}, Dequeue(t) PROVE Rest'
  BY <1>8, <1>a, <1>b, <1>d DEF Dequeue, Holds, SignalAndReturn, At
<1>9. ASSUME NEW t \in Threads, Lock(t) PROVE Rest'
  BY <1>9, <1>a, <1>b, <1>d DEF Lock, ring, At
<1>10. ASSUME NEW t \in Threads, SpuriousWakeup(t) PROVE Rest'
  BY <1>10, <1>a, <1>b, <1>d DEF SpuriousWakeup, ring, At
<1>11. CASE ChannelReady
  BY <1>11, <1>a, <1>b, <1>d DEF ChannelReady, Holds, ring, At
<1>12. CASE Free
  BY <1>12, <1>a, <1>b, <1>d DEF Free, Holds, ring, At
<1>13. CASE CreateFails \/ (\E p \in Senders : GrowFails(p)) \/ UNCHANGED channelVars
  <2>1. UNCHANGED <<at, ring>> /\ (life' = life \/ (life # "freed" /\ life' = "aborted"))
    BY <1>13 DEF CreateFails, GrowFails, Holds, channelVars, ring
  <2>2. QED
    BY ONLY <1>2, <2>1
<1>14. CASE (\E p \in Senders : BeginSend(p)) \/ (\E c \in Receivers : BeginReceive(c)) \/ BeginRelease
  BY <1>3, <1>14 DEF BeginSend, BeginReceive, BeginRelease, Threads
<1>15. Rest'
  BY <1>1, <1>4, <1>5, <1>6, <1>7, <1>8, <1>9, <1>10, <1>11, <1>12, <1>13, <1>14
  DEF ChannelNext, ChannelSend, ChannelReceive, ChannelOver, ChannelRelease
<1>16. QED
  BY <1>15

-----------------------------------------------------------------------------
LEMMA Inductive == ChannelInv /\ [ChannelNext]_channelVars => ChannelInv'
  BY TypePreserved, RolesPreserved, RingPreserved, MutexPreserved, WakeupPreserved, RestPreserved DEF ChannelInv

(* The inductive invariant holds in every reachable state.                  *)
THEOREM Invariance == ChannelSpec => []ChannelInv
  BY Inductive, InitIndInv, PTL DEF ChannelSpec

(* Every variable keeps its type for every program and every capacity: in   *)
(* particular no index leaves the buffer and no doubled capacity wraps.     *)
THEOREM TypeCorrect == ChannelSpec => []ChannelTypeOK
<1>1. ChannelInv => ChannelTypeOK
  BY DEF ChannelInv
<1>2. QED
  BY <1>1, Invariance, PTL

(* Mutual exclusion of the send, receive and ready critical sections.       *)
THEOREM MutualExclusion == ChannelSpec => []MutexHeld
<1>1. ChannelInv => MutexHeld
  BY DEF ChannelInv
<1>2. QED
  BY <1>1, Invariance, PTL

(* No signal is lost, whatever the number of threads on either side.        *)
THEOREM WakeupsAreKept == ChannelSpec => []NoLostWakeup
<1>1. ChannelInv => NoLostWakeup
  BY DEF ChannelInv
<1>2. QED
  BY <1>1, Invariance, PTL

-----------------------------------------------------------------------------
(* The runtime implements the queue of FifoQueue, and loses, repeats and    *)
(* reorders nothing.                                                        *)

LEMMA ContentsTyped == ChannelInv => Contents \in Seq(Items) /\ Len(Contents) = count
<1> SUFFICES ASSUME ChannelInv PROVE Contents \in Seq(Items) /\ Len(Contents) = count
  OBVIOUS
<1>1. count \in Nat /\ capacity \in Nat /\ head \in Nat
  BY NumbersAssumption DEF ChannelInv, ChannelTypeOK
<1>2. ASSUME NEW i \in 1 .. count PROVE data[(head + i - 1) % capacity] \in Items
  <2>1. capacity > 0 /\ i - 1 \in 0 .. count - 1
    BY <1>1 DEF ChannelInv, RingOK
  <2>2. data[(head + (i - 1)) % capacity] \in Items
    BY <2>1 DEF ChannelInv, RingOK
  <2>3. head + (i - 1) = head + i - 1
    BY <1>1
  <2>4. QED
    BY <2>2, <2>3
<1>3. Contents \in [1 .. count -> Items]
  BY <1>2 DEF Contents
<1>4. Contents \in Seq(Items)
  BY <1>1, <1>3, SeqDef
<1>5. QED
  BY <1>1, <1>3, <1>4

LEMMA ContentsTypedNext == ChannelInv' => (Contents \in Seq(Items) /\ Len(Contents) = count)'
  BY ContentsTyped, PTL

LEMMA CreateEmpty == ASSUME ChannelInv, NEW n \in Requests, Create(n) PROVE Contents' = Contents
<1>1. count = 0 /\ count' = 0
  BY DEF Create, ChannelInv, RingOK
<1>2. Contents = [i \in 1 .. 0 |-> data[(head + i - 1) % capacity]]
  BY <1>1 DEF Contents
<1>3. Contents' = [i \in 1 .. 0 |-> (data')[((head') + i - 1) % (capacity')]]
  BY <1>1 DEF Contents
<1>4. QED
  BY <1>2, <1>3

LEMMA GrowKeeps == ASSUME ChannelInv, NEW p \in Senders, Grow(p) PROVE Contents' = Contents
<1>1. /\ capacity \in 1 .. IntMax /\ count = capacity /\ head \in 0 .. capacity - 1
  BY DEF Grow, Holds, Full, ChannelInv, ChannelTypeOK, RingOK
<1>2. Doubled(capacity) = 2 * capacity
  BY <1>1, DoubledGrows DEF Grow
<1>3. capacity' = 2 * capacity /\ head' = 0 /\ count' = count
  BY <1>2 DEF Grow
<1>4. ASSUME NEW i \in 1 .. count
      PROVE  data'[(head' + i - 1) % capacity'] = data[(head + i - 1) % capacity]
  <2>1. i - 1 \in 0 .. count - 1 /\ 0 + i - 1 = i - 1 /\ head + (i - 1) = head + i - 1
    BY <1>1
  <2>2. (i - 1) % (2 * capacity) = i - 1
    BY <1>1, <2>1, ModLow
  <2>3. data'[i - 1] = data[(head + (i - 1)) % capacity]
    BY <1>1, <1>2, <2>1 DEF Grow, Unrolled
  <2>4. QED
    BY <1>3, <2>1, <2>2, <2>3
<1>5. QED
  BY <1>3, <1>4 DEF Contents

LEMMA EnqueueAppends ==
  ASSUME ChannelInv, NEW p \in Senders, Enqueue(p)
  PROVE  Contents' = Append(Contents, Item(p))
<1>1. /\ capacity \in 1 .. IntMax /\ count \in 0 .. capacity - 1 /\ head \in 0 .. capacity - 1
      /\ data \in [0 .. capacity - 1 -> Items \cup {Garbage}]
  BY DEF Enqueue, Holds, Full, ChannelInv, ChannelTypeOK, RingOK
<1>2. /\ capacity' = capacity /\ head' = head /\ count' = count + 1
      /\ data' = [data EXCEPT ![(head + count) % capacity] = Item(p)]
  BY DEF Enqueue, Holds, TailSlot
<1>3. Contents \in Seq(Items) /\ Len(Contents) = count
  BY ContentsTyped
<1>4. ASSUME NEW i \in 1 .. count
      PROVE  data'[(head + i - 1) % capacity] = data[(head + i - 1) % capacity]
  <2>1. /\ capacity \in Nat \ {0} /\ i - 1 \in 0 .. capacity - 1 /\ count \in 0 .. capacity - 1
        /\ head \in 0 .. capacity - 1 /\ i - 1 # count /\ head + (i - 1) = head + i - 1
    BY <1>1
  <2>2. (head + (i - 1)) % capacity # (head + count) % capacity
    BY ONLY <2>1, SlotsDiffer
  <2>3. (head + (i - 1)) % capacity \in 0 .. capacity - 1
    BY <2>1, SlotInRange
  <2>4. QED
    BY <1>1, <1>2, <2>1, <2>2, <2>3
<1>5. data'[(head + count) % capacity] = Item(p)
  BY <1>1, <1>2, SlotInRange
<1>6. Item(p) \in Items
  BY ItemTyped DEF Enqueue, Holds, ChannelInv, RolesOK, SendPlaces
<1>7. /\ Append(Contents, Item(p)) \in Seq(Items)
      /\ Len(Append(Contents, Item(p))) = count + 1
      /\ \A i \in 1 .. count : Append(Contents, Item(p))[i] = Contents[i]
      /\ Append(Contents, Item(p))[count + 1] = Item(p)
  BY <1>3, <1>6, AppendProperties
<1>8. Contents' \in Seq(Items) /\ Len(Contents') = count + 1
  <2>1. [ChannelNext]_channelVars
    BY DEF ChannelNext, ChannelSend
  <2>2. ChannelInv'
    BY <2>1, Inductive
  <2>3. QED
    BY <1>2, <2>2, ContentsTypedNext
<1>9. ASSUME NEW i \in 1 .. count + 1 PROVE Contents'[i] = Append(Contents, Item(p))[i]
  <2>1. Contents'[i] = data'[(head + i - 1) % capacity]
    BY <1>1, <1>2 DEF Contents
  <2>2. CASE i = count + 1
    <3>1. head + i - 1 = head + count
      BY <1>1, <2>2
    <3>2. Append(Contents, Item(p))[i] = Item(p)
      BY ONLY <1>7, <2>2
    <3>3. QED
      BY ONLY <1>5, <2>1, <3>1, <3>2
  <2>3. CASE i \in 1 .. count
    <3>1. Contents[i] = data[(head + i - 1) % capacity]
      BY <2>3 DEF Contents
    <3>2. QED
      BY ONLY <1>4, <1>7, <2>1, <2>3, <3>1
  <2>4. i = count + 1 \/ i \in 1 .. count
    BY <1>1, NumbersAssumption
  <2>5. QED
    BY ONLY <2>2, <2>3, <2>4
<1>10. QED
  BY <1>7, <1>8, <1>9, SeqEqual

LEMMA DequeueTail ==
  ASSUME ChannelInv, NEW t \in Receivers \cup {Owner}, Dequeue(t)
  PROVE  /\ Contents # << >> /\ Contents' = Tail(Contents)
         /\ delivered' = Append(delivered, Head(Contents))
<1>1. /\ capacity \in 1 .. IntMax /\ count \in 1 .. capacity /\ head \in 0 .. capacity - 1
  BY DEF Dequeue, Holds, ChannelInv, ChannelTypeOK, RingOK
<1>2. /\ capacity' = capacity /\ head' = (head + 1) % capacity /\ count' = count - 1 /\ data' = data
      /\ delivered' = Append(delivered, data[head])
  BY DEF Dequeue, Holds, NextSlot
<1>3. Contents \in Seq(Items) /\ Len(Contents) = count /\ Contents # << >>
  <2>1. Contents \in Seq(Items) /\ Len(Contents) = count
    BY ContentsTyped
  <2>2. QED
    BY <1>1, <2>1, EmptySeq
<1>4. Contents[1] = data[head]
  <2>1. head + 1 - 1 = head /\ head % capacity = head /\ 1 \in 1 .. count
    BY ONLY <1>1, ModLow
  <2>2. QED
    BY <2>1 DEF Contents
<1>5. /\ Tail(Contents) \in Seq(Items) /\ Len(Tail(Contents)) = count - 1
      /\ \A i \in 1 .. count - 1 : Tail(Contents)[i] = Contents[i + 1]
  BY <1>3, HeadTailProperties
<1>6. Contents' \in Seq(Items) /\ Len(Contents') = count - 1
  <2>1. [ChannelNext]_channelVars
    BY DEF ChannelNext, ChannelReceive
  <2>2. ChannelInv'
    BY <2>1, Inductive
  <2>3. QED
    BY <1>2, <2>2, ContentsTypedNext
<1>7. ASSUME NEW i \in 1 .. count - 1 PROVE Contents'[i] = Contents[i + 1]
  <2>1. Contents'[i] = data[(head' + i - 1) % capacity]
    BY <1>1, <1>2 DEF Contents
  <2>2. Contents[i + 1] = data[(head + (i + 1) - 1) % capacity]
    BY <1>1 DEF Contents
  <2>3. /\ capacity \in Nat \ {0} /\ head \in 0 .. capacity - 1 /\ i - 1 \in 0 .. capacity - 1
        /\ head + (i + 1) - 1 = head + (i - 1) + 1
    BY <1>1
  <2>4. (((head + 1) % capacity) + (i - 1)) % capacity = (head + (i - 1) + 1) % capacity
    BY ONLY <2>3, SlotAfterHead
  <2>5. (head + 1) % capacity \in 0 .. capacity - 1
    BY ONLY <1>1, SlotInRange
  <2>6. ((head + 1) % capacity) + i - 1 = ((head + 1) % capacity) + (i - 1)
    BY <2>5
  <2>7. QED
    BY <1>2, <2>1, <2>2, <2>3, <2>4, <2>6
<1>8. Contents' = Tail(Contents)
  BY <1>5, <1>6, <1>7, SeqEqual
<1>9. QED
  BY <1>2, <1>3, <1>4, <1>8

-----------------------------------------------------------------------------
LEMMA InitRefines == ChannelInit => FIFO!Init
<1> SUFFICES ASSUME ChannelInit PROVE FIFO!Init
  OBVIOUS
<1>1. Contents \in Seq(Items) /\ Len(Contents) = 0
  BY InitIndInv, ContentsTyped DEF ChannelInit
<1>2. Contents = << >>
  BY <1>1, EmptySeq
<1>3. QED
  BY <1>2 DEF ChannelInit, FIFO!Init

LEMMA StepRefines == ChannelInv /\ [ChannelNext]_channelVars => [FIFO!Next]_(FIFO!vars)
<1> SUFFICES ASSUME ChannelInv, [ChannelNext]_channelVars PROVE [FIFO!Next]_(FIFO!vars)
  OBVIOUS
<1>1. ASSUME NEW n \in Requests, Create(n) PROVE FIFO!Open
  <2>1. Contents' = Contents
    BY <1>1, CreateEmpty
  <2>2. (IF bounded' THEN capacity' ELSE 0) \in {m \in Requests : m >= 0}
    <3>1. n \in Int /\ n >= 0 /\ capacity' = (IF n > 0 THEN n ELSE DefaultSlots)
      BY <1>1, NumbersAssumption DEF Create
    <3>2. CASE n > 0
      BY <1>1, <3>1, <3>2 DEF Create
    <3>3. CASE n = 0
      BY <1>1, <3>1, <3>3 DEF Create
    <3>4. QED
      BY <3>1, <3>2, <3>3
  <2>3. QED
    BY <1>1, <2>1, <2>2 DEF Create, FIFO!Open
<1>2. ASSUME NEW p \in Senders, Enqueue(p) PROVE FIFO!Put(Item(p)) /\ Item(p) \in Items
  <2>1. Contents' = Append(Contents, Item(p)) /\ Len(Contents) = count
    BY <1>2, EnqueueAppends, ContentsTyped
  <2>2. bounded => count < capacity
    BY <1>2 DEF Enqueue, Holds, Full, ChannelInv, ChannelTypeOK, RingOK
  <2>3. Item(p) \in Items
    BY <1>2, ItemTyped DEF Enqueue, Holds, ChannelInv, RolesOK, SendPlaces
  <2>4. QED
    BY <1>2, <2>1, <2>2, <2>3 DEF Enqueue, Holds, FIFO!Put
<1>3. ASSUME NEW t \in Receivers \cup {Owner}, Dequeue(t) PROVE FIFO!Take
  BY <1>3, DequeueTail DEF Dequeue, Holds, FIFO!Take
<1>4. ASSUME NEW p \in Senders, Grow(p) PROVE UNCHANGED FIFO!vars
  <2>1. Contents' = Contents
    BY <1>4, GrowKeeps
  <2>2. QED
    BY <1>4, <2>1 DEF Grow, Holds, FIFO!vars
<1>5. CASE Free
  <2>1. Contents \in Seq(Items) /\ Len(Contents) = 0
    BY <1>5, ContentsTyped DEF Free, Holds, ChannelInv
  <2>2. Contents = << >>
    BY <2>1, EmptySeq
  <2>3. UNCHANGED Contents
    BY <1>5 DEF Free, ring, Contents
  <2>4. QED
    BY <1>5, <2>2, <2>3 DEF Free, Holds, ring, FIFO!Next, FIFO!Close
<1>6. ASSUME UNCHANGED <<ring, delivered>>, life' = "aborted", life \in {"absent", "open"} PROVE FIFO!Abort
  BY <1>6 DEF ring, Contents, FIFO!Abort
<1>7. ASSUME UNCHANGED <<ring, delivered, life>> PROVE UNCHANGED FIFO!vars
  BY <1>7 DEF ring, Contents, FIFO!vars
<1>8. CASE CreateFails \/ \E p \in Senders : GrowFails(p)
  <2>1. UNCHANGED <<ring, delivered>> /\ life' = "aborted" /\ life \in {"absent", "open"}
    BY <1>8 DEF CreateFails, GrowFails, Holds, ring
  <2>2. QED
    BY <1>6, <2>1 DEF FIFO!Next
<1>9. CASE \/ \E p \in Senders : BeginSend(p) \/ SendWaits(p)
           \/ \E c \in Receivers : BeginReceive(c)
           \/ \E t \in Receivers \cup {Owner} : ReceiveWaits(t)
           \/ \E t \in Threads : Lock(t) \/ SpuriousWakeup(t)
           \/ BeginRelease \/ ChannelReady \/ UNCHANGED channelVars
  <2>1. UNCHANGED <<ring, delivered, life>>
    BY <1>9 DEF BeginSend, BeginReceive, Begin, SendWaits, ReceiveWaits, Wait, Lock, SpuriousWakeup,
                BeginRelease, ChannelReady, Holds, channelVars, ring
  <2>2. QED
    BY <1>7, <2>1
<1>10. QED
  BY <1>1, <1>2, <1>3, <1>4, <1>5, <1>8, <1>9
  DEF ChannelNext, ChannelSend, ChannelReceive, ChannelRelease, ChannelOver, FIFO!Next

(* Each step of the ring buffer under its mutex is a step of the FIFO queue *)
(* or leaves it alone: a bounded channel never exceeds its limit, a receive *)
(* takes the oldest value, and the frame is freed only when it is empty.    *)
THEOREM Refinement == ChannelSpec => Implements
<1>1. ChannelSpec => FIFO!Init /\ [][FIFO!Next]_(FIFO!vars)
  BY InitRefines, StepRefines, Invariance, PTL DEF ChannelSpec
<1>2. QED
  BY <1>1 DEF Implements, FIFO!Spec

-----------------------------------------------------------------------------
(* What a receiver takes off the front goes to the end of what was received. *)
LEMMA TakeKeepsHistory ==
  ASSUME NEW S, NEW s \in Seq(S), NEW t \in Seq(S), t # << >>
  PROVE  Append(s, Head(t)) \o Tail(t) = s \o t
<1>1. /\ Head(t) \in S /\ Head(t) = t[1]
      /\ Tail(t) \in Seq(S) /\ Len(Tail(t)) = Len(t) - 1
      /\ \A i \in 1 .. Len(t) - 1 : Tail(t)[i] = t[i + 1]
  BY HeadTailProperties
<1>2. Len(t) \in Nat \ {0} /\ Len(s) \in Nat
  BY EmptySeq, LenProperties
<1> DEFINE u == Append(s, Head(t))
<1>3. /\ u \in Seq(S) /\ Len(u) = Len(s) + 1
      /\ \A i \in 1 .. Len(s) : u[i] = s[i]
      /\ u[Len(s) + 1] = t[1]
  BY <1>1, AppendProperties
<1> HIDE DEF u
<1>4. /\ u \o Tail(t) \in Seq(S) /\ Len(u \o Tail(t)) = Len(s) + Len(t)
      /\ \A i \in 1 .. Len(s) + Len(t) :
           (u \o Tail(t))[i] = IF i <= Len(s) + 1 THEN u[i] ELSE Tail(t)[i - (Len(s) + 1)]
  <2>1. /\ u \o Tail(t) \in Seq(S) /\ Len(u \o Tail(t)) = Len(u) + Len(Tail(t))
        /\ \A i \in 1 .. Len(u) + Len(Tail(t)) :
             (u \o Tail(t))[i] = IF i <= Len(u) THEN u[i] ELSE Tail(t)[i - Len(u)]
    BY <1>1, <1>3, ConcatProperties
  <2>2. Len(u) + Len(Tail(t)) = Len(s) + Len(t)
    BY <1>1, <1>2, <1>3
  <2>3. QED
    BY <1>3, <2>1, <2>2
<1>5. /\ s \o t \in Seq(S) /\ Len(s \o t) = Len(s) + Len(t)
      /\ \A i \in 1 .. Len(s) + Len(t) : (s \o t)[i] = IF i <= Len(s) THEN s[i] ELSE t[i - Len(s)]
  BY ConcatProperties
<1>6. ASSUME NEW i \in 1 .. Len(s) + Len(t) PROVE (u \o Tail(t))[i] = (s \o t)[i]
  <2>1. CASE i <= Len(s)
    <3>1. i \in 1 .. Len(s) /\ i <= Len(s) + 1
      BY <1>2, <2>1
    <3>2. QED
      BY <1>3, <1>4, <1>5, <2>1, <3>1
  <2>2. CASE i = Len(s) + 1
    <3>1. i - Len(s) = 1 /\ ~(i <= Len(s)) /\ i <= Len(s) + 1
      BY <1>2, <2>2
    <3>2. QED
      BY <1>3, <1>4, <1>5, <2>2, <3>1
  <2>3. CASE i > Len(s) + 1
    <3>1. /\ i - (Len(s) + 1) \in 1 .. Len(t) - 1 /\ (i - (Len(s) + 1)) + 1 = i - Len(s)
          /\ ~(i <= Len(s)) /\ ~(i <= Len(s) + 1)
      BY <1>2, <2>3
    <3>2. Tail(t)[i - (Len(s) + 1)] = t[i - Len(s)]
      BY <1>1, <3>1
    <3>3. QED
      BY <1>4, <1>5, <3>1, <3>2
  <2>4. i <= Len(s) \/ i = Len(s) + 1 \/ i > Len(s) + 1
    BY <1>2
  <2>5. QED
    BY ONLY <2>1, <2>2, <2>3, <2>4
<1>7. u \o Tail(t) = s \o t
  BY <1>4, <1>5, <1>6, SeqEqual
<1>8. QED
  BY <1>7 DEF u

LEMMA HistoryTyped == ChannelInv => History \in Seq(Items)
  BY ContentsTyped, ConcatProperties DEF ChannelInv, ChannelTypeOK, History

LEMMA HistorySteps ==
  ChannelInv /\ [ChannelNext]_channelVars =>
    \/ UNCHANGED <<History, posted>>
    \/ \E p \in Senders : /\ History' = Append(History, Item(p))
                            /\ Item(p) \in Items
                            /\ posted' = [posted EXCEPT ![p] = @ + 1]
<1> SUFFICES ASSUME ChannelInv, [ChannelNext]_channelVars
             PROVE  \/ UNCHANGED <<History, posted>>
                    \/ \E p \in Senders : /\ History' = Append(History, Item(p))
                                            /\ Item(p) \in Items
                                            /\ posted' = [posted EXCEPT ![p] = @ + 1]
  OBVIOUS
<1>a. Contents \in Seq(Items) /\ delivered \in Seq(Items)
  BY ContentsTyped DEF ChannelInv, ChannelTypeOK
<1>1. ASSUME NEW n \in Requests, Create(n) PROVE UNCHANGED <<History, posted>>
  BY <1>1, CreateEmpty DEF Create, History
<1>2. ASSUME NEW p \in Senders, Enqueue(p)
      PROVE  History' = Append(History, Item(p)) /\ Item(p) \in Items /\ posted' = [posted EXCEPT ![p] = @ + 1]
  <2>1. Contents' = Append(Contents, Item(p)) /\ Item(p) \in Items
    BY <1>2, EnqueueAppends, ItemTyped DEF Enqueue, Holds, ChannelInv, RolesOK, SendPlaces
  <2>2. delivered \o Append(Contents, Item(p)) = Append(delivered \o Contents, Item(p))
    <3>1. Append(Contents, Item(p)) = Contents \o <<Item(p)>>
      BY <1>a, <2>1, AppendIsConcat
    <3>2. delivered \o Contents \in Seq(Items) /\ <<Item(p)>> \in Seq(Items)
      BY <1>a, <2>1, ConcatProperties
    <3>3. delivered \o (Contents \o <<Item(p)>>) = (delivered \o Contents) \o <<Item(p)>>
      BY <1>a, <3>2, ConcatAssociative
    <3>4. QED
      BY <2>1, <3>1, <3>2, <3>3, AppendIsConcat
  <2>3. delivered' = delivered /\ posted' = [posted EXCEPT ![p] = @ + 1]
    BY <1>2 DEF Enqueue
  <2>4. QED
    BY <2>1, <2>2, <2>3 DEF History
<1>3. ASSUME NEW t \in Receivers \cup {Owner}, Dequeue(t) PROVE UNCHANGED <<History, posted>>
  <2>1. /\ Contents # << >> /\ Contents' = Tail(Contents)
        /\ delivered' = Append(delivered, Head(Contents)) /\ posted' = posted
    BY <1>3, DequeueTail DEF Dequeue
  <2>2. QED
    BY <1>a, <2>1, TakeKeepsHistory DEF History
<1>4. ASSUME NEW p \in Senders, Grow(p) PROVE UNCHANGED <<History, posted>>
  BY <1>4, GrowKeeps DEF Grow, History
<1>5. ASSUME UNCHANGED <<ring, delivered, posted>> PROVE UNCHANGED <<History, posted>>
  BY <1>5 DEF ring, Contents, History
<1>6. CASE \/ CreateFails \/ \E p \in Senders : BeginSend(p) \/ SendWaits(p) \/ GrowFails(p)
           \/ \E c \in Receivers : BeginReceive(c)
           \/ \E t \in Receivers \cup {Owner} : ReceiveWaits(t)
           \/ \E t \in Threads : Lock(t) \/ SpuriousWakeup(t)
           \/ ChannelRelease \/ UNCHANGED channelVars
  <2>1. UNCHANGED <<ring, delivered, posted>>
    BY <1>6 DEF CreateFails, BeginSend, BeginReceive, Begin, SendWaits, GrowFails, ReceiveWaits, Wait, Lock,
                SpuriousWakeup, ChannelRelease, BeginRelease, ChannelReady, Free, channelVars, ring
  <2>2. QED
    BY <1>5, <2>1
<1>7. QED
  BY <1>1, <1>2, <1>3, <1>4, <1>6 DEF ChannelNext, ChannelSend, ChannelReceive, ChannelOver

LEMMA OrderPreserved == ChannelInv /\ InOrder /\ [ChannelNext]_channelVars => InOrder'
<1> SUFFICES ASSUME ChannelInv, InOrder, [ChannelNext]_channelVars PROVE InOrder'
  OBVIOUS
<1>1. CASE UNCHANGED <<History, posted>>
  BY <1>1 DEF InOrder
<1>2. ASSUME NEW p \in Senders, History' = Append(History, Item(p)), Item(p) \in Items,
             posted' = [posted EXCEPT ![p] = @ + 1]
      PROVE  InOrder'
  <2> DEFINE H == History  n == Len(History)
  <2>1. History \in Seq(Items) /\ n \in Nat /\ posted \in [Senders -> Nat]
    BY HistoryTyped, LenProperties DEF ChannelInv, ChannelTypeOK
  <2>2. /\ Len(History') = n + 1
        /\ \A i \in 1 .. n : History'[i] = H[i]
        /\ History'[n + 1] = <<p, posted[p] + 1>>
    BY <1>2, <2>1, AppendProperties DEF Item
  <2>3. \A i \in 1 .. n : H[i][1] \in Senders /\ H[i][2] \in Nat
    <3>1. ASSUME NEW x \in Items PROVE x[1] \in Senders /\ x[2] \in Nat
      <4>1. PICK q \in Senders : x \in {<<q, m>> : m \in 1 .. Output[q]}
        BY DEF Items
      <4>2. QED
        BY <4>1, ProgramAssumption
    <3>2. QED
      BY <2>1, <3>1, ElementOfSeq
  <2>4. /\ posted'[p] = posted[p] + 1
        /\ \A q \in Senders : posted[q] \in Nat /\ posted'[q] \in Nat /\ posted[q] <= posted'[q]
        /\ \A q \in Senders \ {p} : posted'[q] = posted[q]
    BY <1>2, <2>1
  <2>a. /\ \A q \in Senders : \A m \in 1 .. posted[q] : \E i \in 1 .. n : H[i] = <<q, m>>
        /\ \A i \in 1 .. n : H[i][2] <= posted[H[i][1]]
        /\ \A i, j \in 1 .. n : i < j /\ H[i][1] = H[j][1] => H[i][2] < H[j][2]
    BY DEF InOrder
  <2> HIDE DEF H, n
  <2>5. ASSUME NEW q \in Senders, NEW m \in 1 .. posted'[q]
        PROVE  \E i \in 1 .. n + 1 : History'[i] = <<q, m>>
    <3>1. CASE q = p /\ m = posted[p] + 1
      BY <2>1, <2>2, <3>1
    <3>2. CASE m \in 1 .. posted[q]
      <4>1. PICK i \in 1 .. n : H[i] = <<q, m>>
        BY <2>a, <3>2
      <4>2. i \in 1 .. n + 1
        BY <2>1
      <4>3. QED
        BY <2>2, <4>1, <4>2
    <3>3. QED
      BY <2>4, <3>1, <3>2
  <2>6. ASSUME NEW i \in 1 .. n + 1 PROVE History'[i][2] <= posted'[History'[i][1]]
    <3>1. CASE i \in 1 .. n
      BY <2>2, <2>3, <2>4, <2>a, <3>1
    <3>2. CASE i = n + 1
      BY <2>2, <2>4, <3>2
    <3>3. QED
      BY <2>1, <3>1, <3>2
  <2>7. ASSUME NEW i \in 1 .. n + 1, NEW j \in 1 .. n + 1, i < j, History'[i][1] = History'[j][1]
        PROVE  History'[i][2] < History'[j][2]
    <3>1. i \in 1 .. n
      BY <2>1, <2>7
    <3>2. CASE j \in 1 .. n
      BY <2>2, <2>7, <2>a, <3>1, <3>2
    <3>3. CASE j = n + 1
      <4>1. H[i][1] = p /\ H[i][2] <= posted[p] /\ H[i][2] \in Nat /\ History'[i] = H[i]
        BY <2>2, <2>3, <2>7, <2>a, <3>1, <3>3
      <4>2. QED
        BY <2>2, <2>4, <3>3, <4>1
    <3>4. QED
      BY <2>1, <3>2, <3>3
  <2>8. QED
    BY <2>2, <2>5, <2>6, <2>7 DEF InOrder
<1>3. QED
  BY <1>1, <1>2, HistorySteps

(* First in, first out, for every number of threads and values, bounded or  *)
(* growing: nothing that was sent is lost, repeated or overtaken.           *)
THEOREM NothingLost == ChannelSpec => []InOrder
<1>1. ChannelInit => InOrder
  <2> SUFFICES ASSUME ChannelInit PROVE InOrder
    OBVIOUS
  <2>1. Contents \in Seq(Items) /\ Len(Contents) = 0
    BY InitIndInv, ContentsTyped DEF ChannelInit
  <2>2. Contents = << >> /\ delivered = << >>
    BY <2>1, EmptySeq DEF ChannelInit
  <2>3. History = << >>
    BY <2>2 DEF History
  <2>4. Len(History) = 0 /\ \A p \in Senders : posted[p] = 0
    BY <2>3 DEF ChannelInit
  <2>5. QED
    BY <2>4 DEF InOrder
<1>2. QED
  BY <1>1, OrderPreserved, Invariance, PTL DEF ChannelSpec

(* When the frame is freed no thread is inside an operation and every value *)
(* of every producer has been handed out.                                   *)
THEOREM NothingLeaked == ChannelSpec => []FreedEmpty
<1>1. ChannelInv /\ InOrder => FreedEmpty
  <2> SUFFICES ASSUME ChannelInv, InOrder, life = "freed" PROVE FreedEmpty
    BY DEF FreedEmpty
  <2>1. Joined /\ count = 0
    BY DEF ChannelInv, RolesOK
  <2>2. Contents \in Seq(Items) /\ Len(Contents) = 0 /\ delivered \in Seq(Items)
    BY <2>1, ContentsTyped DEF ChannelInv, ChannelTypeOK
  <2>3. Contents = << >>
    BY <2>2, EmptySeq
  <2>4. History = delivered
    BY <2>2, <2>3, ConcatEmptySeq DEF History
  <2>5. QED
    BY <2>1, <2>4 DEF FreedEmpty, InOrder, Joined, Threads
<1>2. QED
  BY <1>1, NothingLost, Invariance, PTL
=============================================================================
