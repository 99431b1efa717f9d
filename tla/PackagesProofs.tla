--------------------------- MODULE PackagesProofs ----------------------------
(****************************************************************************)
(* Theorems of Registry, for any number of publishers, builds, versions and *)
(* crashes, and of Build, for any number of commands, objects, revisions and*)
(* kills.                                                                   *)
(****************************************************************************)
EXTENDS Registry, Build, InductionLemmas

-----------------------------------------------------------------------------
(* Registry                                                                 *)

\* What the assumptions say of one publisher.
LEMMA ReleaseTyped ==
  ASSUME NEW p \in Publishers
  PROVE  /\ Release[p] \in Releases /\ Release[p] # None
         /\ Version(p) \in Versions /\ Version(p) \in Nat
         /\ Release[p].source \in Sources
  BY RegistryAssumption DEF Releases, Versions, Sources, Version

\* A step of one process moves no other process.
LEMMA GotoMoves ==
  ASSUME TypeOK, NEW q \in Processes, NEW place, Goto(q, place)
  PROVE  /\ pc'[q] = place
         /\ \A o \in Processes \ {q} : pc'[o] = pc[o]
         /\ place \in Places => pc' \in [Processes -> Places]
  BY DEF TypeOK, Goto

LEMMA InitIndInv == Init => IndInv
<1> SUFFICES ASSUME Init PROVE IndInv
  OBVIOUS
<1>1. TypeOK
  <2>1. pc \in [Processes -> Places]
    BY DEF Init, Places
  <2>2. stage \in [Builds -> 0 .. Parts] /\ crashes \in 0 .. MaxCrashes
    BY RegistryAssumption DEF Init
  <2>3. QED
    BY <2>1, <2>2 DEF Init, TypeOK
<1>2. \A p \in Publishers : pc[p] = "start"
  BY DEF Init, Processes
<1>3. LockHeld /\ Entitled
  BY <1>2 DEF LockHeld, Entitled
<1>4. Placed /\ CacheWhole
  BY DEF Init, Placed, CacheWhole
<1>5. Resolved
  BY DEF Init, Resolved, Processes
<1>6. QED
  BY <1>1, <1>3, <1>4, <1>5 DEF IndInv

-----------------------------------------------------------------------------
LEMMA TypePreserved == TypeOK /\ Resolved /\ [Next]_vars => TypeOK'
<1> SUFFICES ASSUME TypeOK, Resolved, [Next]_vars PROVE TypeOK'
  OBVIOUS
<1> USE DEF vars, registry, roots, local
<1>1. ASSUME NEW p \in Publishers, Check(p) PROVE TypeOK'
  <2>1. pc' \in [Processes -> Places]
    BY <1>1 DEF TypeOK, Check, Goto, Places, Processes, PublishEnds
  <2>2. QED
    BY <1>1, <2>1 DEF TypeOK, Check
<1>2. ASSUME NEW p \in Publishers, Compile(p) PROVE TypeOK'
  <2>1. pc' \in [Processes -> Places]
    BY <1>2 DEF TypeOK, Compile, Goto, Places, Processes, PublishEnds
  <2>2. QED
    BY <1>2, <2>1 DEF TypeOK, Compile
<1>3. ASSUME NEW p \in Publishers, Lock(p) PROVE TypeOK'
  <2>1. pc' \in [Processes -> Places]
    BY <1>3 DEF TypeOK, Lock, Goto, Places, Processes
  <2>2. QED
    BY <1>3, <2>1 DEF TypeOK, Lock
<1>4. ASSUME NEW p \in Publishers, Recheck(p) PROVE TypeOK'
  <2>1. pc' \in [Processes -> Places]
    BY <1>4 DEF TypeOK, Recheck, Goto, Places, Processes, PublishEnds
  <2>2. QED
    BY <1>4, <2>1 DEF TypeOK, Recheck
<1>5. ASSUME NEW p \in Publishers, MakeFolder(p) PROVE TypeOK'
  <2>1. pc' \in [Processes -> Places]
    BY <1>5 DEF TypeOK, MakeFolder, Goto, Places, Processes
  <2>2. folders' \subseteq Versions
    BY <1>5, ReleaseTyped DEF TypeOK, MakeFolder
  <2>3. QED
    BY <1>5, <2>1, <2>2 DEF TypeOK, MakeFolder
<1>6. ASSUME NEW p \in Publishers, Rename(p) PROVE TypeOK'
  <2>1. pc' \in [Processes -> Places]
    BY <1>6 DEF TypeOK, Rename, Goto, Places, Processes
  <2>2. installed' \subseteq Releases
    BY <1>6, ReleaseTyped DEF TypeOK, Rename
  <2>3. QED
    BY <1>6, <2>1, <2>2 DEF TypeOK, Rename
<1>7. ASSUME NEW p \in Publishers, WriteIndex(p) PROVE TypeOK'
  <2>1. pc' \in [Processes -> Places]
    BY <1>7 DEF TypeOK, WriteIndex, Goto, Places, Processes, PublishEnds
  <2>2. index' \in [Versions -> Releases \cup {None}]
    BY <1>7, ReleaseTyped DEF TypeOK, WriteIndex
  <2>3. \A v \in Versions : index'[v] # None => index'[v].version = v
    BY <1>7, ReleaseTyped DEF TypeOK, WriteIndex, Version
  <2>4. QED
    BY <1>7, <2>1, <2>2, <2>3 DEF TypeOK, WriteIndex
<1>8. ASSUME NEW b \in Builds, ReadLock(b) PROVE TypeOK'
  <2>1. pc' \in [Processes -> Places]
    BY <1>8 DEF TypeOK, ReadLock, Goto, Places, Processes
  <2>2. pin' \in [Builds -> Pins \cup {None}]
    BY <1>8, RegistryAssumption DEF TypeOK, ReadLock
  <2>3. QED
    BY <1>8, <2>1, <2>2 DEF TypeOK, ReadLock
<1>9. ASSUME NEW b \in Builds, ListVersions(b) PROVE TypeOK'
  <2>1. pc' \in [Processes -> Places]
    BY <1>9 DEF TypeOK, ListVersions, Goto, Places, Processes, BuildEnds
  <2>2. picked' \in [Builds -> Versions \cup {None}]
    BY <1>9 DEF TypeOK, ListVersions, Matching
  <2>3. QED
    BY <1>9, <2>1, <2>2 DEF TypeOK, ListVersions
<1>10. ASSUME NEW b \in Builds, ReadIndex(b) PROVE TypeOK'
  <2>1. pc' \in [Processes -> Places]
    BY <1>10 DEF TypeOK, ReadIndex, Goto, Places, Processes, BuildEnds
  <2>2. picked[b] \in Versions
    BY <1>10 DEF ReadIndex, Resolved
  <2>3. choice' \in [Builds -> Releases \cup {None}]
    BY <1>10, <2>2 DEF TypeOK, ReadIndex
  <2>4. QED
    BY <1>10, <2>1, <2>3 DEF TypeOK, ReadIndex
<1>11. ASSUME NEW b \in Builds, Materialize(b) PROVE TypeOK'
  <2>1. pc' \in [Processes -> Places]
    BY <1>11 DEF TypeOK, Materialize, Goto, Places, Processes
  <2>2. stage' \in [Builds -> 0 .. Parts]
    BY <1>11, RegistryAssumption DEF TypeOK, Materialize
  <2>3. QED
    BY <1>11, <2>1, <2>2 DEF TypeOK, Materialize
<1>12. ASSUME NEW b \in Builds, CopyPart(b) PROVE TypeOK'
  <2>1. stage' \in [Builds -> 0 .. Parts]
    BY <1>12, RegistryAssumption DEF TypeOK, CopyPart
  <2>2. QED
    BY <1>12, <2>1 DEF TypeOK, CopyPart
<1>13. ASSUME NEW b \in Builds, Install(b) PROVE TypeOK'
  <2>1. pc' \in [Processes -> Places]
    BY <1>13 DEF TypeOK, Install, Goto, Places, Processes
  <2>2. <<choice[b], stage[b]>> \in Releases \X (0 .. Parts)
    BY <1>13 DEF TypeOK, Resolved, Install
  <2>3. cache' \in [Roots -> SUBSET (Releases \X (0 .. Parts))]
    BY <1>13, <2>2, RegistryAssumption DEF TypeOK, Install
  <2>4. QED
    BY <1>13, <2>1, <2>3 DEF TypeOK, Install
<1>14. ASSUME NEW b \in Builds, RecordLock(b) PROVE TypeOK'
  <2>1. pc' \in [Processes -> Places]
    BY <1>14 DEF TypeOK, RecordLock, Goto, Places, Processes, BuildEnds
  <2>2. choice[b] \in Releases
    BY <1>14 DEF Resolved, RecordLock
  <2>3. [version |-> choice[b].version, source |-> choice[b].source] \in Pins
    BY <2>2 DEF Pins, Versions, Sources
  <2>4. lock' \in [Roots -> Pins \cup {None}]
    BY <1>14, <2>3, RegistryAssumption DEF TypeOK, RecordLock
  <2>5. QED
    BY <1>14, <2>1, <2>4 DEF TypeOK, RecordLock
<1>15. ASSUME NEW q \in Processes, Crash(q) PROVE TypeOK'
  <2>1. pc' \in [Processes -> Places]
    BY <1>15 DEF TypeOK, Crash, Goto, Places
  <2>2. crashes' \in 0 .. MaxCrashes
    BY <1>15, RegistryAssumption DEF TypeOK, Crash
  <2>3. QED
    BY <1>15, <2>1, <2>2 DEF TypeOK, Crash
<1>16. ASSUME NEW q \in Processes, Again(q) PROVE TypeOK'
  <2>1. pc' \in [Processes -> Places]
    BY <1>16 DEF TypeOK, Again, Goto, Places
  <2>2. QED
    BY <1>16, <2>1 DEF TypeOK, Again
<1>17. CASE UNCHANGED vars
  BY <1>17 DEF TypeOK
<1>18. QED
  BY ONLY [Next]_vars, <1>1, <1>2, <1>3, <1>4, <1>5, <1>6, <1>7, <1>8, <1>9, <1>10, <1>11,
     <1>12, <1>13, <1>14, <1>15, <1>16, <1>17
     DEF Next, Publish, Build

-----------------------------------------------------------------------------
(* Frames: what the builds, and what a kill or a new start, leave alone.    *)

LEMMA BuildFrame ==
  ASSUME TypeOK, NEW b \in Builds, Build(b)
  PROVE  /\ UNCHANGED <<folders, installed, index, flock>>
         /\ \A o \in Processes \ {b} : pc'[o] = pc[o]
         /\ \A c \in Builds \ {b} :
              pin'[c] = pin[c] /\ picked'[c] = picked[c] /\ choice'[c] = choice[c]
<1> USE DEF vars, registry, roots, local
<1>1. CASE ReadLock(b)
  BY <1>1 DEF TypeOK, ReadLock, Goto
<1>2. CASE ListVersions(b)
  BY <1>2 DEF TypeOK, ListVersions, Goto
<1>3. CASE ReadIndex(b)
  BY <1>3 DEF TypeOK, ReadIndex, Goto
<1>4. CASE Materialize(b)
  BY <1>4 DEF TypeOK, Materialize, Goto
<1>5. CASE CopyPart(b)
  BY <1>5 DEF TypeOK, CopyPart, Goto
<1>6. CASE Install(b)
  BY <1>6 DEF TypeOK, Install, Goto
<1>7. CASE RecordLock(b)
  BY <1>7 DEF TypeOK, RecordLock, Goto
<1>8. QED
  BY ONLY Build(b), <1>1, <1>2, <1>3, <1>4, <1>5, <1>6, <1>7 DEF Build

LEMMA PublishFrame ==
  ASSUME TypeOK, NEW p \in Publishers, Publish(p)
  PROVE  /\ UNCHANGED <<cache, lock, pin, picked, choice, stage>>
         /\ \A o \in Processes \ {p} : pc'[o] = pc[o]
         /\ folders \subseteq folders' /\ installed \subseteq installed'
<1> USE DEF vars, registry, roots, local
<1>1. CASE Check(p)
  BY <1>1 DEF TypeOK, Check, Goto
<1>2. CASE Compile(p)
  BY <1>2 DEF TypeOK, Compile, Goto
<1>3. CASE Lock(p)
  BY <1>3 DEF TypeOK, Lock, Goto
<1>4. CASE Recheck(p)
  BY <1>4 DEF TypeOK, Recheck, Goto
<1>5. CASE MakeFolder(p)
  BY <1>5 DEF TypeOK, MakeFolder, Goto
<1>6. CASE Rename(p)
  BY <1>6 DEF TypeOK, Rename, Goto
<1>7. CASE WriteIndex(p)
  BY <1>7 DEF TypeOK, WriteIndex, Goto
<1>8. QED
  BY ONLY Publish(p), <1>1, <1>2, <1>3, <1>4, <1>5, <1>6, <1>7 DEF Publish

\* A kill or a new start changes the place of one process, and drops its flock.
LEMMA RestartFrame ==
  ASSUME TypeOK, NEW q \in Processes, Crash(q) \/ Again(q)
  PROVE  /\ UNCHANGED <<registry, roots, local>>
         /\ \A o \in Processes \ {q} : pc'[o] = pc[o]
         /\ pc'[q] \in {"start", "crashed"}
         /\ flock' = flock \/ (flock = q /\ flock' = None)
<1>1. CASE Crash(q)
  BY <1>1 DEF TypeOK, Crash, Goto
<1>2. CASE Again(q)
  BY <1>2 DEF TypeOK, Again, Goto
<1>3. QED
  BY <1>1, <1>2

\* The three kinds of step.
LEMMA Steps ==
  ASSUME [Next]_vars
  PROVE  \/ \E p \in Publishers : Publish(p)
         \/ \E b \in Builds : Build(b)
         \/ \E q \in Processes : Crash(q) \/ Again(q)
         \/ UNCHANGED vars
  BY DEF Next

-----------------------------------------------------------------------------
LEMMA ResolvedPreserved == TypeOK /\ Resolved /\ [Next]_vars => Resolved'
<1> SUFFICES ASSUME TypeOK, Resolved, [Next]_vars PROVE Resolved'
  OBVIOUS
<1> USE DEF vars, registry, roots, local
<1>1. ASSUME NEW p \in Publishers, Publish(p) PROVE Resolved'
  BY <1>1, PublishFrame, RegistryAssumption DEF Resolved, Processes
<1>2. ASSUME NEW b \in Builds, Build(b) PROVE Resolved'
  <2> DEFINE Good == /\ pc'[b] = "read" => picked'[b] \in Versions
                     /\ pc'[b] \in {"cache", "copy", "record"} => choice'[b] \in Releases
  <2> USE DEF TypeOK, Resolved, Goto, Processes
  <2>1. ASSUME ReadLock(b) PROVE Good
    BY <2>1 DEF ReadLock
  <2>2. ASSUME ListVersions(b) PROVE Good
    BY <2>2 DEF ListVersions, Matching
  <2>3. ASSUME ReadIndex(b) PROVE Good
    BY <2>3 DEF ReadIndex
  <2>4. ASSUME Materialize(b) PROVE Good
    BY <2>4 DEF Materialize
  <2>5. ASSUME CopyPart(b) PROVE Good
    BY <2>5 DEF CopyPart
  <2>6. ASSUME Install(b) PROVE Good
    BY <2>6 DEF Install
  <2>7. ASSUME RecordLock(b) PROVE Good
    BY <2>7 DEF RecordLock
  <2>8. Good
    BY ONLY Build(b), <1>2, <2>1, <2>2, <2>3, <2>4, <2>5, <2>6, <2>7 DEF Build
  <2>9. QED
    BY <1>2, <2>8, BuildFrame DEF Resolved
<1>3. ASSUME NEW q \in Processes, Crash(q) \/ Again(q) PROVE Resolved'
  BY <1>3, RestartFrame DEF Resolved, Processes
<1>4. CASE UNCHANGED vars
  BY <1>4 DEF Resolved
<1>5. QED
  BY <1>1, <1>2, <1>3, <1>4, Steps

LEMMA LockPreserved == TypeOK /\ LockHeld /\ [Next]_vars => LockHeld'
<1> SUFFICES ASSUME TypeOK, LockHeld, [Next]_vars PROVE LockHeld'
  OBVIOUS
<1> USE DEF vars, registry, roots, local
<1>1. ASSUME NEW p \in Publishers, Publish(p) PROVE LockHeld'
  <2>1. p \in Processes /\ p # None
    BY RegistryAssumption DEF Processes
  <2> USE <2>1 DEF TypeOK, LockHeld, Goto, Processes
  <2>2. CASE Check(p)
    BY <2>2 DEF Check
  <2>3. CASE Compile(p)
    BY <2>3 DEF Compile
  <2>4. CASE Lock(p)
    BY <2>4, RegistryAssumption DEF Lock
  <2>5. CASE Recheck(p)
    BY <2>5 DEF Recheck
  <2>6. CASE MakeFolder(p)
    BY <2>6 DEF MakeFolder
  <2>7. CASE Rename(p)
    BY <2>7 DEF Rename
  <2>8. CASE WriteIndex(p)
    BY <2>8 DEF WriteIndex
  <2>9. QED
    BY ONLY <1>1, <2>2, <2>3, <2>4, <2>5, <2>6, <2>7, <2>8 DEF Publish
<1>2. ASSUME NEW b \in Builds, Build(b) PROVE LockHeld'
  BY <1>2, BuildFrame, RegistryAssumption DEF LockHeld, Processes
<1>3. ASSUME NEW q \in Processes, Crash(q) \/ Again(q) PROVE LockHeld'
  BY <1>3, RestartFrame DEF LockHeld, Processes
<1>4. CASE UNCHANGED vars
  BY <1>4 DEF LockHeld
<1>5. QED
  BY <1>1, <1>2, <1>3, <1>4, Steps

\* While one publisher holds the flock, no other is at a step that needs it.
LEMMA OthersWait ==
  ASSUME LockHeld, NEW p \in Publishers, NEW o \in Publishers, p # o,
         pc[p] \in {"recheck", "mkdir", "rename", "index"}
  PROVE  pc[o] \notin {"recheck", "mkdir", "rename", "index"}
  BY DEF LockHeld

LEMMA EntitledPreserved == TypeOK /\ LockHeld /\ Entitled /\ [Next]_vars => Entitled'
<1> SUFFICES ASSUME TypeOK, LockHeld, Entitled, [Next]_vars PROVE Entitled'
  OBVIOUS
<1> USE DEF vars, registry, roots, local
<1>1. ASSUME NEW p \in Publishers, Publish(p) PROVE Entitled'
  <2> DEFINE Good(o) == /\ pc'[o] \in {"mkdir", "rename", "index"} => ~Conflict(o)'
                        /\ pc'[o] = "rename" => Version(o) \in folders'
                        /\ pc'[o] = "index" => Release[o] \in installed'
  <2>1. p \in Processes
    BY DEF Processes
  <2>2. ASSUME NEW o \in Publishers, o # p PROVE Good(o)
    <3>1. pc'[o] = pc[o] /\ folders \subseteq folders' /\ installed \subseteq installed'
      BY <1>1, <2>2, PublishFrame DEF Processes
    <3>2. CASE ~WriteIndex(p)
      <4>1. index' = index
        BY ONLY <1>1, <3>2 DEF Publish, Check, Compile, Lock, Recheck, MakeFolder, Rename, registry
      <4>2. QED
        BY <3>1, <4>1 DEF Entitled, Conflict, Published
    <3>3. CASE WriteIndex(p)
      <4>1. pc[o] \notin {"mkdir", "rename", "index"}
        BY <2>2, <3>3, OthersWait DEF WriteIndex
      <4>2. QED
        BY <3>1, <4>1
    <3>4. QED
      BY <3>2, <3>3
  <2>3. Good(p)
    <3> USE <2>1 DEF TypeOK, Entitled, Goto, Conflict, Published
    <3>1. ASSUME Check(p) PROVE Good(p)
      BY <3>1 DEF Check
    <3>2. ASSUME Compile(p) PROVE Good(p)
      BY <3>2 DEF Compile
    <3>3. ASSUME Lock(p) PROVE Good(p)
      BY <3>3 DEF Lock
    <3>4. ASSUME Recheck(p) PROVE Good(p)
      BY <3>4 DEF Recheck
    <3>5. ASSUME MakeFolder(p) PROVE Good(p)
      BY <3>5 DEF MakeFolder
    <3>6. ASSUME Rename(p) PROVE Good(p)
      BY <3>6 DEF Rename
    <3>7. ASSUME WriteIndex(p) PROVE Good(p)
      BY <3>7 DEF WriteIndex
    <3>8. QED
      BY ONLY <1>1, <3>1, <3>2, <3>3, <3>4, <3>5, <3>6, <3>7 DEF Publish
  <2>4. \A o \in Publishers : Good(o)
    BY <2>2, <2>3
  <2>5. QED
    BY <2>4 DEF Entitled
<1>2. ASSUME NEW b \in Builds, Build(b) PROVE Entitled'
  BY <1>2, BuildFrame, RegistryAssumption DEF Entitled, Processes, Conflict, Published
<1>3. ASSUME NEW q \in Processes, Crash(q) \/ Again(q) PROVE Entitled'
  BY <1>3, RestartFrame DEF Entitled, Processes, Conflict, Published
<1>4. CASE UNCHANGED vars
  BY <1>4 DEF Entitled, Conflict, Published
<1>5. QED
  BY <1>1, <1>2, <1>3, <1>4, Steps

-----------------------------------------------------------------------------
LEMMA PlacedPreserved == TypeOK /\ Entitled /\ Placed /\ [Next]_vars => Placed'
<1> SUFFICES ASSUME TypeOK, Entitled, Placed, [Next]_vars PROVE Placed'
  OBVIOUS
<1> USE DEF vars, registry, roots, local
<1>1. ASSUME NEW p \in Publishers, Publish(p) PROVE Placed'
  <2>1. CASE Rename(p)
    BY <2>1 DEF Rename, Placed, Entitled, Version
  <2>2. CASE WriteIndex(p)
    BY <2>2 DEF WriteIndex, Placed, Entitled, TypeOK
  <2>3. CASE ~Rename(p) /\ ~WriteIndex(p)
    <3>1. index' = index /\ installed' = installed /\ folders \subseteq folders'
      BY ONLY <1>1, <2>3 DEF Publish, Check, Compile, Lock, Recheck, MakeFolder, registry
    <3>2. QED
      BY <3>1 DEF Placed
  <2>4. QED
    BY <2>1, <2>2, <2>3
<1>2. ASSUME NEW b \in Builds, Build(b) PROVE Placed'
  BY <1>2, BuildFrame DEF Placed
<1>3. ASSUME NEW q \in Processes, Crash(q) \/ Again(q) PROVE Placed'
  BY <1>3, RestartFrame DEF Placed
<1>4. CASE UNCHANGED vars
  BY <1>4 DEF Placed
<1>5. QED
  BY <1>1, <1>2, <1>3, <1>4, Steps

LEMMA CachePreserved == TypeOK /\ Resolved /\ CacheWhole /\ [Next]_vars => CacheWhole'
<1> SUFFICES ASSUME TypeOK, Resolved, CacheWhole, [Next]_vars PROVE CacheWhole'
  OBVIOUS
<1> USE DEF vars, registry, roots, local
<1>1. ASSUME NEW p \in Publishers, Publish(p) PROVE CacheWhole'
  BY <1>1, PublishFrame DEF CacheWhole
<1>2. ASSUME NEW b \in Builds, Build(b) PROVE CacheWhole'
  <2>1. CASE Install(b)
    BY <2>1 DEF Install, CacheWhole, TypeOK
  <2>2. CASE ~Install(b)
    <3>1. cache' = cache
      BY ONLY <1>2, <2>2
         DEF Build, ReadLock, ListVersions, ReadIndex, Materialize, CopyPart, RecordLock, roots
    <3>2. QED
      BY <3>1 DEF CacheWhole
  <2>3. QED
    BY <2>1, <2>2
<1>3. ASSUME NEW q \in Processes, Crash(q) \/ Again(q) PROVE CacheWhole'
  BY <1>3, RestartFrame DEF CacheWhole
<1>4. CASE UNCHANGED vars
  BY <1>4 DEF CacheWhole
<1>5. QED
  BY <1>1, <1>2, <1>3, <1>4, Steps

LEMMA Inductive == IndInv /\ [Next]_vars => IndInv'
  BY TypePreserved, ResolvedPreserved, LockPreserved, EntitledPreserved, PlacedPreserved,
     CachePreserved DEF IndInv

THEOREM Invariance == Spec => []IndInv
  BY InitIndInv, Inductive, PTL DEF Spec

(* Every variable keeps its type: a version is indexed under its own name.  *)
THEOREM TypeCorrect == Spec => []TypeOK
<1>1. IndInv => TypeOK
  BY DEF IndInv
<1>2. QED
  BY <1>1, Invariance, PTL

(* A kill at any step of any publisher leaves an index that can be used.    *)
THEOREM IndexStaysUsable == Spec => []IndexUsable
<1>1. IndInv => IndexUsable
  BY DEF IndInv, Placed, IndexUsable
<1>2. QED
  BY <1>1, Invariance, PTL

(* What builds find in a cache is whole, however many builds share it.      *)
THEOREM CachesAreWhole == Spec => []CacheWhole
<1>1. IndInv => CacheWhole
  BY DEF IndInv
<1>2. QED
  BY <1>1, Invariance, PTL

\* The index changes only under the lock, to the source it already names.
LEMMA SourceKept ==
  ASSUME IndInv, [Next]_vars, NEW v \in Versions, index[v] # None
  PROVE  index'[v] # None /\ index'[v].source = index[v].source
<1>1. ASSUME NEW p \in Publishers, WriteIndex(p)
      PROVE  index'[v] # None /\ index'[v].source = index[v].source
  <2>1. Release[p] # None /\ ~Conflict(p)
    BY <1>1, ReleaseTyped DEF IndInv, Entitled, WriteIndex
  <2>2. QED
    BY <1>1, <2>1 DEF WriteIndex, Conflict, Published, IndInv, TypeOK
<1>2. ASSUME NEW p \in Publishers, Publish(p), ~WriteIndex(p) PROVE index' = index
  BY ONLY <1>2 DEF Publish, Check, Compile, Lock, Recheck, MakeFolder, Rename, registry
<1>3. ASSUME NEW b \in Builds, Build(b) PROVE index' = index
  BY <1>3, BuildFrame DEF IndInv
<1>4. ASSUME NEW q \in Processes, Crash(q) \/ Again(q) PROVE index' = index
  BY <1>4, RestartFrame DEF IndInv, registry
<1>5. CASE UNCHANGED vars
  BY <1>5 DEF vars, registry
<1>6. QED
  BY <1>1, <1>2, <1>3, <1>4, <1>5, Steps

(* No race of publishers, and no kill, changes the source of a version.     *)
THEOREM VersionsStay == Spec => VersionsImmutable
<1>1. IndInv /\ [Next]_vars =>
        [\A v \in Versions : index[v] # None =>
           index'[v] # None /\ index'[v].source = index[v].source]_vars
  BY SourceKept
<1>2. QED
  BY <1>1, Invariance, PTL DEF Spec, VersionsImmutable

-----------------------------------------------------------------------------
(* Pins                                                                     *)

\* Nothing deletes a version directory.
LEMMA FoldersGrow ==
  ASSUME IndInv, [Next]_vars
  PROVE  folders \subseteq folders'
<1>1. ASSUME NEW p \in Publishers, Publish(p) PROVE folders \subseteq folders'
  BY <1>1, PublishFrame DEF IndInv
<1>2. ASSUME NEW b \in Builds, Build(b) PROVE folders \subseteq folders'
  BY <1>2, BuildFrame DEF IndInv
<1>3. ASSUME NEW q \in Processes, Crash(q) \/ Again(q) PROVE folders \subseteq folders'
  BY <1>3, RestartFrame DEF IndInv, registry
<1>4. QED
  BY <1>1, <1>2, <1>3, Steps DEF vars, registry

\* What a pin names stays published.
LEMMA LiveKept ==
  ASSUME IndInv, [Next]_vars, NEW v \in Versions, NEW s, Live(v, s)
  PROVE  Live(v, s)'
<1>1. folders \subseteq folders'
  BY FoldersGrow
<1>2. QED
  BY <1>1, SourceKept DEF Live

LEMMA InitPinned == Init => Pinned
  BY DEF Init, Pinned, Processes

\* The part of Pinned that speaks of one build.
PinnedBuild(b) ==
  /\ pc[b] \in {"missing", "noIndex", "mismatch"} => lock[RootOf[b]] = None
  /\ pc[b] \in {"list", "read", "cache", "copy", "record"} => pin[b] = lock[RootOf[b]]
  /\ pc[b] = "read" => /\ picked[b] \in folders
                       /\ pin[b] # None => picked[b] = pin[b].version
  /\ pc[b] \in {"cache", "copy", "record"} =>
       /\ Live(choice[b].version, choice[b].source)
       /\ pin[b] # None => pin[b] = [version |-> choice[b].version, source |-> choice[b].source]

\* A step of another process leaves it true.
LEMMA OthersPinned ==
  ASSUME IndInv, [Next]_vars, NEW b \in Builds, PinnedBuild(b),
         pc'[b] = pc[b] \/ pc'[b] \in {"start", "crashed"},
         lock'[RootOf[b]] = lock[RootOf[b]], folders \subseteq folders',
         pin'[b] = pin[b], picked'[b] = picked[b], choice'[b] = choice[b]
  PROVE  PinnedBuild(b)'
<1>1. ASSUME pc[b] \in {"cache", "copy", "record"}
      PROVE  choice[b].version \in Versions
  BY <1>1 DEF IndInv, Resolved, Versions
<1>2. ASSUME pc[b] \in {"cache", "copy", "record"}
      PROVE  Live(choice[b].version, choice[b].source)'
  <2>1. Live(choice[b].version, choice[b].source)
    BY <1>2 DEF PinnedBuild
  <2>2. QED
    BY <2>1, <1>1, <1>2, LiveKept DEF Live
<1>3. QED
  BY <1>2 DEF PinnedBuild

\* A build's own steps keep it true, and keep the pin of its root.
LEMMA BuildPinned ==
  ASSUME IndInv, Pinned, NEW b \in Builds, Build(b), OneBuild(RootOf[b])
  PROVE  /\ PinnedBuild(b)'
         /\ lock[RootOf[b]] # None => lock'[RootOf[b]] = lock[RootOf[b]]
         /\ lock'[RootOf[b]] # lock[RootOf[b]] =>
              /\ lock'[RootOf[b]].version \in folders
              /\ index[lock'[RootOf[b]].version] # None
              /\ index[lock'[RootOf[b]].version].source = lock'[RootOf[b]].source
<1> DEFINE r == RootOf[b]
           Claim == /\ PinnedBuild(b)'
                    /\ lock[r] # None => lock'[r] = lock[r]
                    /\ lock'[r] # lock[r] =>
                         /\ lock'[r].version \in folders
                         /\ index[lock'[r].version] # None
                         /\ index[lock'[r].version].source = lock'[r].source
<1>0. /\ b \in Processes /\ r \in Roots
      /\ TypeOK /\ Resolved /\ PinnedBuild(b)
      /\ lock[r] # None => Live(lock[r].version, lock[r].source) /\ lock[r] \in Pins
  BY RegistryAssumption DEF Processes, IndInv, Pinned, PinnedBuild, TypeOK
<1>a. UNCHANGED <<folders, index>>
  BY <1>0, BuildFrame
<1> USE DEF PinnedBuild, Goto, roots, Live
<1>1. ASSUME ReadLock(b) PROVE Claim
  BY <1>0, <1>a, <1>1 DEF ReadLock, TypeOK
<1>2. ASSUME ListVersions(b) PROVE Claim
  <2>1. lock' = lock /\ pin' = pin /\ pin[b] = lock[r]
    BY <1>0, <1>2 DEF ListVersions
  <2>2. CASE Matching(b) = {}
    <3>1. pin[b] = None
      BY <1>0, <2>1, <2>2 DEF Matching
    <3>2. QED
      BY <1>0, <1>a, <1>2, <2>1, <2>2, <3>1 DEF ListVersions, TypeOK
  <2>3. CASE Matching(b) # {}
    <3>1. PICK v \in Matching(b) : picked' = [picked EXCEPT ![b] = v] /\ pc' = [pc EXCEPT ![b] = "read"]
      BY <1>2, <2>3 DEF ListVersions
    <3>2. v \in folders /\ (pin[b] # None => v = pin[b].version)
      BY DEF Matching
    <3>3. QED
      BY <1>0, <1>a, <2>1, <3>1, <3>2 DEF TypeOK
  <2>4. QED
    BY <2>2, <2>3
<1>3. ASSUME ReadIndex(b) PROVE Claim
  <2>1. lock' = lock /\ pin' = pin /\ pin[b] = lock[r] /\ pc[b] = "read"
    BY <1>0, <1>3 DEF ReadIndex
  <2>2. picked[b] \in Versions /\ picked[b] \in folders /\ (pin[b] # None => picked[b] = pin[b].version)
    BY <1>0, <2>1 DEF Resolved
  <2>3. pin[b] # None => index[picked[b]] # None /\ index[picked[b]].source = pin[b].source
    BY <1>0, <2>1, <2>2
  <2>4. CASE pin[b] = None
    BY <1>0, <1>a, <1>3, <2>1, <2>2, <2>4 DEF ReadIndex, TypeOK
  <2>5. CASE pin[b] # None
    <3>1. choice' = [choice EXCEPT ![b] = index[picked[b]]] /\ pc' = [pc EXCEPT ![b] = "cache"]
      BY <1>3, <2>3, <2>5 DEF ReadIndex
    <3>2. index[picked[b]].version = picked[b]
      BY <1>0, <2>2, <2>3, <2>5 DEF TypeOK
    <3>3. pin[b] = [version |-> picked[b], source |-> index[picked[b]].source]
      BY <1>0, <2>1, <2>2, <2>3, <2>5 DEF Pins
    <3>4. QED
      BY <1>0, <1>a, <2>1, <2>2, <2>3, <2>5, <3>1, <3>2, <3>3 DEF TypeOK
  <2>6. QED
    BY <2>4, <2>5
<1>4. ASSUME Materialize(b) PROVE Claim
  BY <1>0, <1>a, <1>4 DEF Materialize, TypeOK
<1>5. ASSUME CopyPart(b) PROVE Claim
  BY <1>0, <1>a, <1>5 DEF CopyPart, TypeOK
<1>6. ASSUME Install(b) PROVE Claim
  BY <1>0, <1>a, <1>6 DEF Install, TypeOK, local
<1>7. ASSUME RecordLock(b) PROVE Claim
  <2>1. pc'[b] = "built"
    BY <1>0, <1>7 DEF RecordLock, TypeOK
  <2>2. lock' = [lock EXCEPT ![r] = [version |-> choice[b].version, source |-> choice[b].source]]
    BY <1>7 DEF RecordLock
  <2>3. pin[b] = lock[r] /\ Live(choice[b].version, choice[b].source)
    BY <1>0, <1>7 DEF RecordLock
  <2>4. lock[r] # None => lock'[r] = lock[r]
    BY <1>0, <1>7, <2>2, <2>3 DEF RecordLock, TypeOK
  <2>5. QED
    BY <1>0, <1>a, <2>1, <2>2, <2>3, <2>4 DEF TypeOK
<1>8. Claim
  BY ONLY Build(b), <1>1, <1>2, <1>3, <1>4, <1>5, <1>6, <1>7 DEF Build
<1>9. QED
  BY ONLY <1>8

\* A step that leaves a pin alone leaves it live.
LEMMA PinsLive ==
  ASSUME IndInv, Pinned, [Next]_vars, NEW r \in Roots, OneBuild(r),
         lock'[r] = lock[r], lock'[r] # None
  PROVE  Live(lock[r].version, lock[r].source)'
<1>1. Live(lock[r].version, lock[r].source) /\ lock[r] \in Pins
  BY DEF Pinned, IndInv, TypeOK
<1>2. lock[r].version \in Versions
  BY <1>1 DEF Pins
<1>3. QED
  BY <1>1, <1>2, LiveKept, FoldersGrow, SourceKept DEF Live

\* A process that is no build of b's root leaves b's view alone.
LEMMA PinnedSplit ==
  Pinned <=> /\ \A r \in Roots : OneBuild(r) /\ lock[r] # None => Live(lock[r].version, lock[r].source)
             /\ \A b \in Builds : OneBuild(RootOf[b]) => PinnedBuild(b)
  BY DEF Pinned, PinnedBuild

\* A build writes the pin of its own root only.
LEMMA OtherRoots ==
  ASSUME IndInv, NEW b \in Builds, Build(b)
  PROVE  \A r \in Roots : r # RootOf[b] => lock'[r] = lock[r]
<1>1. lock' = lock \/ RecordLock(b)
  BY DEF Build, ReadLock, ListVersions, ReadIndex, Materialize, CopyPart, Install, roots
<1>2. QED
  BY <1>1 DEF RecordLock, IndInv, TypeOK

LEMMA PinnedPreserved ==
  IndInv /\ Pinned /\ [Next]_vars =>
    Pinned' /\ (\A r \in Roots : OneBuild(r) /\ lock[r] # None => lock'[r] = lock[r])
<1> SUFFICES ASSUME IndInv, Pinned, [Next]_vars
             PROVE  Pinned' /\ (\A r \in Roots : OneBuild(r) /\ lock[r] # None => lock'[r] = lock[r])
  OBVIOUS
<1> DEFINE Claim == Pinned' /\ (\A r \in Roots : OneBuild(r) /\ lock[r] # None => lock'[r] = lock[r])
<1>a. TypeOK /\ (\A b \in Builds : (OneBuild(RootOf[b]) => PinnedBuild(b)) /\ RootOf[b] \in Roots)
  BY PinnedSplit, RegistryAssumption DEF IndInv
<1>1. ASSUME lock' = lock, pin' = pin, picked' = picked, choice' = choice,
             \A b \in Builds : pc'[b] = pc[b] \/ pc'[b] \in {"start", "crashed"}
      PROVE  Claim
  <2>1. \A r \in Roots : OneBuild(r) /\ lock'[r] # None => Live(lock[r].version, lock[r].source)'
    BY <1>1, PinsLive
  <2>2. ASSUME NEW b \in Builds, OneBuild(RootOf[b]) PROVE PinnedBuild(b)'
    BY <1>1, <1>a, <2>2, OthersPinned, FoldersGrow
  <2>3. QED
    BY <1>1, <2>1, <2>2 DEF Pinned, PinnedBuild
<1>2. ASSUME NEW p \in Publishers, Publish(p) PROVE Claim
  <2>1. \A b \in Builds : b \in Processes \ {p}
    BY RegistryAssumption DEF Processes
  <2>2. QED
    BY <1>1, <1>2, <1>a, <2>1, PublishFrame
<1>3. ASSUME NEW b \in Builds, Build(b) PROVE Claim
  <2> DEFINE own == RootOf[b]
  <2>1. ASSUME OneBuild(own)
        PROVE  /\ PinnedBuild(b)'
               /\ lock[own] # None => lock'[own] = lock[own]
               /\ lock'[own] # lock[own] =>
                    /\ lock'[own].version \in folders
                    /\ index[lock'[own].version] # None
                    /\ index[lock'[own].version].source = lock'[own].source
    BY <1>3, <2>1, BuildPinned
  <2>2. folders' = folders /\ index' = index
    BY <1>3, <1>a, BuildFrame
  <2>3. \A r \in Roots : r # own => lock'[r] = lock[r]
    BY <1>3, OtherRoots
  <2>4. ASSUME NEW r \in Roots, OneBuild(r), lock'[r] # None PROVE Live(lock[r].version, lock[r].source)'
    <3>1. CASE lock'[r] = lock[r]
      BY <2>4, <3>1, PinsLive
    <3>2. CASE lock'[r] # lock[r]
      BY <2>1, <2>2, <2>3, <2>4, <3>2 DEF Live
    <3>3. QED
      BY <3>1, <3>2
  <2>5. ASSUME NEW c \in Builds, c # b, OneBuild(RootOf[c]) PROVE PinnedBuild(c)'
    <3>1. RootOf[c] \in Roots /\ RootOf[c] # own
      BY <1>a, <2>5 DEF OneBuild
    <3>2. pc'[c] = pc[c] /\ pin'[c] = pin[c] /\ picked'[c] = picked[c] /\ choice'[c] = choice[c]
      BY <1>3, <1>a, <2>5, BuildFrame DEF Processes
    <3>3. QED
      BY <1>a, <2>3, <2>5, <3>1, <3>2, OthersPinned, FoldersGrow
  <2>6. \A r \in Roots : OneBuild(r) /\ lock[r] # None => lock'[r] = lock[r]
    BY <2>1, <2>3
  <2>7. \A c \in Builds : OneBuild(RootOf[c]) => PinnedBuild(c)'
    BY <2>1, <2>5
  <2>8. QED
    BY <2>4, <2>6, <2>7 DEF Pinned, PinnedBuild
<1>4. ASSUME NEW q \in Processes, Crash(q) \/ Again(q) PROVE Claim
  BY <1>1, <1>4, <1>a, RestartFrame DEF roots, local, Processes
<1>5. CASE UNCHANGED vars
  BY <1>1, <1>5 DEF vars, roots, local
<1>6. QED
  BY <1>2, <1>3, <1>4, <1>5, Steps

(* A root that is built by one process at a time keeps its pin, and the pin *)
(* always resolves, whatever is published and whoever is killed.            *)
THEOREM PinsStay == Spec => PinsKept
<1>1. Init => IndInv /\ Pinned
  BY InitIndInv, InitPinned
<1>2. IndInv /\ Pinned /\ [Next]_vars => (IndInv /\ Pinned)'
  BY Inductive, PinnedPreserved
<1>3. IndInv /\ Pinned /\ [Next]_vars =>
        [\A r \in Roots : lock[r] # None /\ OneBuild(r) =>
           /\ lock'[r] = lock[r]
           /\ \A b \in Builds : RootOf[b] = r => pc'[b] \notin {"mismatch", "missing", "noIndex"}]_vars
  BY PinnedPreserved DEF Pinned
<1>4. QED
  BY <1>1, <1>2, <1>3, PTL DEF Spec, PinsKept

-----------------------------------------------------------------------------
(* Build                                                                    *)

(* The inductive invariant.  MemoryOK is what a command knows at its place, *)
(* SoleOK who runs beside whom, DraftOK the files that a command writes,    *)
(* ReadOK those that it reads, IndexOK the index while a slot is replaced,  *)
(* and PathOK that a dependent which has found the artifacts, or has built  *)
(* them, finds them again: behind the entry it is to use stand only entries *)
(* that it can pass over.                                                   *)

\* Nobody else writes the slot of q while it runs, if the commands that write
\* "dev" are run one at a time, as a user of one terminal runs them.
DevSerial == \A q \in usage.given : Goal[q] # "test" => q \in usage.serial
Guarded(q) == Serial \/ (DevSerial /\ Slot(q) = "dev")

UsePlaces == {"readIndex", "readInterface", "readRealization", "readObjects", "link"}
Removing == {"purge", "purgeInterface", "purgeRealization", "writeKept"}
Replacing == {"writeInterface", "writeRealization", "writeObjects", "readBack", "publish"}
Writing == {"readKept"} \cup Removing \cup Replacing

MemoryOK(q) ==
  /\ ~Stopped(q) => q \in usage.given
  /\ at[q] \in UsePlaces => Goal[q] = "use"
  /\ at[q] \in Writing \cup {"snapshot"} => phase[q] = "check"
  /\ at[q] = "link" => phase[q] = "link"
  /\ at[q] = "writeObjects" => Goal[q] # "check"
  /\ at[q] = "readRealization" => todo[q] # <<>>
  /\ at[q] \in {"readRealization", "readObjects", "link"} \cup Writing => seen[q] \in Contents
  /\ at[q] \in Writing => seen[q].state = State(q) /\ wanted[q] <= seen[q].source
  /\ at[q] \in Removing => \A i \in 1 .. Len(todo[q]) : todo[q][i] # Slot(q)
  /\ at[q] \notin {"link", "failed"} => linked[q] = {}
  /\ wanted[q] <= source

SoleOK ==
  \A q, o \in Commands : ~Stopped(q) /\ ~Stopped(o) /\ q # o =>
    ~Serial /\ (DevSerial => Slot(q) = "test" \/ Slot(o) = "test")

ObjectsAre(s, count_, revision) == \A n \in 1 .. count_ : object[s][n] = revision

DraftOK(q) ==
  Guarded(q) =>
    /\ at[q] \in {"writeRealization", "writeObjects", "readBack", "publish"} => interface[Slot(q)] = seen[q]
    /\ at[q] \in {"writeObjects", "readBack", "publish"} => realization[Slot(q)] = seen[q]
    /\ at[q] = "writeObjects" => ObjectsAre(Slot(q), count[q], seen[q].source)
    /\ at[q] \in {"readBack", "publish"} /\ Goal[q] # "check" => ObjectsAre(Slot(q), Objects, seen[q].source)

ReadOK(q) ==
  DevSerial =>
    /\ at[q] = "readRealization" /\ todo[q][Len(todo[q])] = "dev" => interface["dev"] = seen[q]
    /\ at[q] \in {"readObjects", "link"} => interface["dev"] = seen[q] /\ realization["dev"] = seen[q]
    /\ at[q] = "readObjects" => ObjectsAre("dev", count[q], seen[q].source)
    /\ at[q] = "link" => ObjectsAre("dev", Objects, seen[q].source)
    /\ at[q] = "link" => linked[q] = IF count[q] = 0 THEN {} ELSE {seen[q].source}
    /\ at[q] \in UsePlaces /\ phase[q] = "link" => interface["dev"] \in Contents /\ wanted[q] <= interface["dev"].source

IndexOK ==
  Serial =>
    /\ ListedUnmixed
    /\ \A q \in Commands :
       /\ at[q] \in Removing => \A i \in 1 .. Len(todo[q]) : Listed(todo[q][i])
       /\ at[q] \in Replacing => ~Listed(Slot(q))
       /\ at[q] = "publish" => todo[q] = listing

Present(s) == interface[s] # Missing /\ realization[s] # Missing
Looking == {"readInterface", "readRealization", "readObjects"}
WholeDev ==
  /\ interface["dev"] = realization["dev"] /\ realization["dev"].state = "compiled"
  /\ ObjectsAre("dev", Objects, realization["dev"].source)

PathOK(q) ==
  Serial =>
    /\ at[q] \in Looking =>
         /\ Len(todo[q]) <= Len(listing)
         /\ \A i \in 1 .. Len(todo[q]) : todo[q][i] = listing[i]
         /\ \A i \in Len(todo[q]) + 1 .. Len(listing) : Present(listing[i])
    /\ at[q] = "readRealization" => interface[todo[q][Len(todo[q])]] = seen[q]
    /\ at[q] = "readObjects" => 
          todo[q] # <<>> /\ todo[q][Len(todo[q])] = "dev" /\ seen[q].state = "compiled"
    /\ at[q] \in UsePlaces /\ phase[q] = "link" =>
         /\ WholeDev
         /\ \E i \in 1 .. Len(listing) :
              /\ listing[i] = "dev" /\ \A j \in i .. Len(listing) : Present(listing[j])
              /\ at[q] \in Looking => i <= Len(todo[q])

BuildInv ==
  /\ BuildTypeOK /\ SoleOK /\ IndexOK
  /\ \A q \in Commands : MemoryOK(q) /\ DraftOK(q) /\ ReadOK(q) /\ PathOK(q)

BuildStep(q) == StartUse(q) \/ StartBuild(q) \/ Use(q) \/ Write(q) \/ Kill(q)

CommandMemory(q) == <<at[q], wanted[q], phase[q], todo[q], seen[q], count[q], linked[q]>>
SlotFiles(s) == <<interface[s], realization[s], object[s]>>

\* Missing is none of the values it stands for the absence of.
LEMMA MissingElse == Missing \notin Contents /\ \A r \in 1 .. MaxRevision : r # Missing
BY BuildAssumption

LEMMA SlotTyped ==
  ASSUME NEW q \in Commands
  PROVE  /\ Slot(q) \in Slots /\ "dev" \in Slots /\ State(q) \in {"compiled", "registered"}
         /\ Goal[q] \in {"use", "build", "check", "test"}
         /\ Slot(q) = "dev" <=> Goal[q] # "test"
         /\ State(q) = "compiled" <=> Goal[q] # "check"
BY BuildAssumption DEF Slot, State, Slots

\* A step of q does not touch the memory of another command.
LEMMA OtherCommands ==
  ASSUME BuildTypeOK, NEW q \in Commands, BuildStep(q), NEW o \in Commands \ {q}
  PROVE  UNCHANGED CommandMemory(o) /\ source' = source
<1> USE DEF Go, Fresh, Reject, files, memory
<1>1. o # q
  OBVIOUS
<1>2. CASE StartUse(q) \/ StartBuild(q) \/ Kill(q)
  BY <1>1, <1>2 DEF StartUse, StartBuild, Kill, CommandMemory, BuildTypeOK
<1>3. CASE Use(q)
  BY <1>1, <1>3 DEF Use, ReadEntries, ReadInterface, ReadRealization, ReadObject, Checked, Accept, LinkObject, Linked,
                    CommandMemory, BuildTypeOK
<1>4. CASE Snapshot(q) \/ ReadKept(q) \/ Purge(q) \/ PurgeInterface(q) \/ PurgeRealization(q) \/ WriteKept(q)
  BY <1>1, <1>4 DEF Snapshot, ReadKept, Purge, PurgeInterface, PurgeRealization, WriteKept, CommandMemory, BuildTypeOK
<1>5. CASE WriteInterface(q) \/ WriteRealization(q) \/ WriteObject(q) \/ LinkBinaries(q) \/ ReadBack(q) \/ PublishIndex(q)
  BY <1>1, <1>5 DEF WriteInterface, WriteRealization, WriteObject, LinkBinaries, ReadBack, PublishIndex,
                    CommandMemory, BuildTypeOK
<1>6. QED
  BY <1>2, <1>3, <1>4, <1>5 DEF BuildStep, Write

\* A step of q leaves the files alone, or it is one of the writes to its slot.
LEMMA OtherFiles ==
  ASSUME BuildTypeOK, NEW q \in Commands, BuildStep(q), NEW s \in Slots
  PROVE  /\ UNCHANGED SlotFiles(s) \/ (s = Slot(q) /\ at[q] \in Removing \cup Replacing)
         /\ at[q] \in {"writeKept", "publish"} \/ listing' = listing
<1> USE DEF Go, Fresh, Reject, files, memory
<1>1. Slot(q) \in Slots
  BY SlotTyped
<1>2. CASE StartUse(q) \/ StartBuild(q) \/ Kill(q)
  BY <1>2 DEF StartUse, StartBuild, Kill, SlotFiles
<1>3. CASE Use(q)
  BY <1>3 DEF Use, ReadEntries, ReadInterface, ReadRealization, ReadObject, Checked, Accept, LinkObject, Linked, SlotFiles
<1>4. CASE Snapshot(q) \/ ReadKept(q) \/ Purge(q) \/ PurgeInterface(q) \/ PurgeRealization(q) \/ WriteKept(q)
  BY <1>1, <1>4 DEF Snapshot, ReadKept, Purge, PurgeInterface, PurgeRealization, WriteKept, SlotFiles, BuildTypeOK,
                    Removing
<1>5. CASE WriteInterface(q) \/ WriteRealization(q) \/ WriteObject(q) \/ LinkBinaries(q) \/ ReadBack(q) \/ PublishIndex(q)
  BY <1>1, <1>5 DEF WriteInterface, WriteRealization, WriteObject, LinkBinaries, ReadBack, PublishIndex, SlotFiles,
                    BuildTypeOK, Replacing
<1>6. QED
  BY <1>2, <1>3, <1>4, <1>5 DEF BuildStep, Write

-----------------------------------------------------------------------------
(* Type correctness of Build                                                *)

LEMMA FreshTyped ==
  ASSUME BuildTypeOK, NEW q \in Commands, NEW r \in 0 .. MaxRevision, Fresh(q, r)
  PROVE  /\ wanted' \in [Commands -> 0 .. MaxRevision] /\ phase' \in [Commands -> {"check", "link"}]
         /\ todo' \in [Commands -> Seq(Slots)] /\ seen' \in [Commands -> Contents \cup {Missing}]
         /\ count' \in [Commands -> 0 .. Objects] /\ linked' \in [Commands -> SUBSET (1 .. MaxRevision)]
<1>1. <<>> \in Seq(Slots) /\ 0 \in 0 .. Objects
  BY BuildAssumption
<1>2. QED
  BY <1>1 DEF Fresh, BuildTypeOK

LEMMA CountTyped ==
  ASSUME BuildTypeOK, NEW q \in Commands,
         \/ count' = count \/ count' = [count EXCEPT ![q] = 0]
         \/ (count[q] < Objects /\ count' = [count EXCEPT ![q] = @ + 1]),
         wanted' = wanted \/ wanted' = [wanted EXCEPT ![q] = 0]
  PROVE  count' \in [Commands -> 0 .. Objects] /\ wanted' \in [Commands -> 0 .. MaxRevision]
<1>1. count \in [Commands -> 0 .. Objects] /\ wanted \in [Commands -> 0 .. MaxRevision]
  BY DEF BuildTypeOK
<1>2. Objects \in Nat /\ MaxRevision \in Nat /\ q \in Commands
  BY BuildAssumption
<1>3. count[q] < Objects => count[q] + 1 \in 0 .. Objects
  BY ONLY <1>1, <1>2
<1>4. count' \in [Commands -> 0 .. Objects]
  <2>1. count' = count \/ \E n \in 0 .. Objects : count' = [count EXCEPT ![q] = n]
    BY <1>2, <1>3
  <2>2. QED
    BY ONLY <1>1, <1>2, <2>1
<1>5. wanted' \in [Commands -> 0 .. MaxRevision]
  BY ONLY <1>1, <1>2, wanted' = wanted \/ wanted' = [wanted EXCEPT ![q] = 0]
<1>6. QED
  BY <1>4, <1>5

LEMMA StartTyped ==
  ASSUME BuildTypeOK, NEW q \in Commands, usage' = usage, StartUse(q) \/ StartBuild(q) \/ Kill(q)
  PROVE  BuildTypeOK'
<1>1. source \in 0 .. MaxRevision /\ 0 \in 0 .. MaxRevision
  BY BuildAssumption DEF BuildTypeOK
<1>2. at' \in [Commands -> BuildPlaces] /\ kills' \in 0 .. MaxKills /\ UNCHANGED <<source, files>>
  <2>1. at' \in [Commands -> BuildPlaces] /\ UNCHANGED <<source, files>>
    BY DEF StartUse, StartBuild, Kill, Go, BuildTypeOK, BuildPlaces, Ends
  <2>2. kills' = kills \/ (kills < MaxKills /\ kills' = kills + 1)
    BY DEF StartUse, StartBuild, Kill
  <2>3. QED
    BY BuildAssumption, <2>1, <2>2 DEF BuildTypeOK
<1>3. Fresh(q, source) \/ Fresh(q, 0)
  BY DEF StartUse, StartBuild, Kill
<1>4. QED
  BY <1>1, <1>2, <1>3, FreshTyped DEF BuildTypeOK, files

LEMMA UseTyped ==
  ASSUME BuildTypeOK, NEW q \in Commands, MemoryOK(q), usage' = usage, Use(q)
  PROVE  BuildTypeOK'
<1> USE DEF Go, Reject, files
<1>1. at' \in [Commands -> BuildPlaces] /\ phase' \in [Commands -> {"check", "link"}]
  BY DEF Use, ReadEntries, ReadInterface, ReadRealization, ReadObject, Checked, Accept, LinkObject, Linked, Fresh,
         BuildTypeOK, BuildPlaces, Ends
<1>2. todo' \in [Commands -> Seq(Slots)]
  <2>1. CASE ReadRealization(q)
    <3>1. todo[q] \in Seq(Slots) /\ todo[q] # <<>>
      BY <2>1 DEF ReadRealization, MemoryOK, BuildTypeOK
    <3>2. SubSeq(todo[q], 1, Len(todo[q]) - 1) \in Seq(Slots)
      BY <3>1
    <3>3. todo' = todo \/ todo' = [todo EXCEPT ![q] = SubSeq(@, 1, Len(@) - 1)]
      BY <2>1 DEF ReadRealization
    <3>4. QED
      BY <3>2, <3>3 DEF BuildTypeOK
  <2>2. CASE ~ReadRealization(q)
    <3>1. <<>> \in Seq(Slots)
      OBVIOUS
    <3>2. QED
      BY <2>2, <3>1 DEF Use, ReadEntries, ReadInterface, ReadObject, Checked, Accept, LinkObject, Linked, Fresh, BuildTypeOK
  <2>3. QED
    BY <2>1, <2>2
<1>3. seen' \in [Commands -> Contents \cup {Missing}]
  <2>1. CASE ReadInterface(q)
    <3> DEFINE entry == todo[q][Len(todo[q])]
    <3>1. todo[q] # <<>> => entry \in Slots
      BY DEF BuildTypeOK
    <3>2. seen' = seen \/ (todo[q] # <<>> /\ seen' = [seen EXCEPT ![q] = interface[entry]])
      BY <2>1 DEF ReadInterface
    <3>3. QED
      BY <3>1, <3>2 DEF BuildTypeOK
  <2>2. CASE ~ReadInterface(q)
    BY <2>2 DEF Use, ReadEntries, ReadRealization, ReadObject, Checked, Accept, LinkObject, Linked, Fresh, BuildTypeOK
  <2>3. QED
    BY <2>1, <2>2
<1>4. count' \in [Commands -> 0 .. Objects] /\ wanted' \in [Commands -> 0 .. MaxRevision]
  <2>1. \/ count' = count \/ count' = [count EXCEPT ![q] = 0]
        \/ (count[q] < Objects /\ count' = [count EXCEPT ![q] = @ + 1])
    BY DEF Use, ReadEntries, ReadInterface, ReadRealization, ReadObject, Checked, Accept, LinkObject, Linked, Fresh
  <2>2. wanted' = wanted \/ wanted' = [wanted EXCEPT ![q] = 0]
    BY DEF Use, ReadEntries, ReadInterface, ReadRealization, ReadObject, Checked, Accept, LinkObject, Linked, Fresh
  <2>3. QED
    BY <2>1, <2>2, CountTyped
<1>5. linked' \in [Commands -> SUBSET (1 .. MaxRevision)]
  <2>1. CASE LinkObject(q)
    <3>1. object["dev"][count[q] + 1] \in (1 .. MaxRevision) \cup {Missing}
      BY <2>1, BuildAssumption DEF LinkObject, BuildTypeOK, Slots
    <3>2. \/ linked' = linked
          \/ /\ object["dev"][count[q] + 1] # Missing
             /\ linked' = [linked EXCEPT ![q] = @ \cup {object["dev"][count[q] + 1]}]
      BY <2>1 DEF LinkObject
    <3>3. linked \in [Commands -> SUBSET (1 .. MaxRevision)] /\ q \in Commands
      BY DEF BuildTypeOK
    <3>4. QED
      BY ONLY <3>1, <3>2, <3>3
  <2>2. CASE ~LinkObject(q)
    BY <2>2 DEF Use, ReadEntries, ReadInterface, ReadRealization, ReadObject, Checked, Accept, Linked, Fresh, BuildTypeOK
  <2>3. QED
    BY <2>1, <2>2
<1>6. UNCHANGED <<source, files, kills>>
  BY DEF Use, ReadEntries, ReadInterface, ReadRealization, ReadObject, Checked, Accept, LinkObject, Linked
<1>7. QED
  BY <1>1, <1>2, <1>3, <1>4, <1>5, <1>6 DEF BuildTypeOK

LEMMA WriteTyped ==
  ASSUME BuildTypeOK, NEW q \in Commands, MemoryOK(q), usage' = usage, Write(q)
  PROVE  BuildTypeOK'
<1> USE SlotTyped DEF Go, files, memory
<1>1. at' \in [Commands -> BuildPlaces] /\ phase' \in [Commands -> {"check", "link"}]
  BY DEF Write, Snapshot, ReadKept, Purge, PurgeInterface, PurgeRealization, WriteKept, WriteInterface, WriteRealization,
         WriteObject, LinkBinaries, ReadBack, PublishIndex, Fresh, BuildTypeOK, BuildPlaces, Ends
<1>2. todo' \in [Commands -> Seq(Slots)] /\ listing' \in Seq(Slots)
  <2>1. CASE ReadKept(q)
    <3>1. Filter(listing, Slots \ {Slot(q)}) \in Seq(Slots)
      BY FilterTyped DEF BuildTypeOK
    <3>2. QED
      BY <2>1, <3>1 DEF ReadKept, BuildTypeOK
  <2>2. CASE PublishIndex(q)
    <3>1. <<>> \in Seq(Slots) /\ Append(todo[q], Slot(q)) \in Seq(Slots)
      BY DEF BuildTypeOK
    <3>2. QED
      BY <2>2, <3>1 DEF PublishIndex, Fresh, BuildTypeOK
  <2>3. CASE ~ReadKept(q) /\ ~PublishIndex(q)
    <3>1. todo' = todo \/ todo' = [todo EXCEPT ![q] = listing]
      BY <2>3 DEF Write, Snapshot, Purge, PurgeInterface, PurgeRealization, WriteKept, WriteInterface, WriteRealization,
                  WriteObject, LinkBinaries, ReadBack
    <3>2. listing' = listing \/ listing' = todo[q]
      BY <2>3 DEF Write, Snapshot, Purge, PurgeInterface, PurgeRealization, WriteKept, WriteInterface, WriteRealization,
                  WriteObject, LinkBinaries, ReadBack
    <3>3. todo \in [Commands -> Seq(Slots)] /\ listing \in Seq(Slots) /\ q \in Commands
      BY DEF BuildTypeOK
    <3>4. QED
      BY ONLY <3>1, <3>2, <3>3
  <2>4. QED
    BY <2>1, <2>2, <2>3
<1>3. seen' \in [Commands -> Contents \cup {Missing}]
  <2>1. [source |-> source, state |-> State(q)] \in Contents
    BY DEF BuildTypeOK, Contents
  <2>2. QED
    BY <2>1 DEF Write, Snapshot, ReadKept, Purge, PurgeInterface, PurgeRealization, WriteKept, WriteInterface,
                WriteRealization, WriteObject, LinkBinaries, ReadBack, PublishIndex, Fresh, BuildTypeOK
<1>4. count' \in [Commands -> 0 .. Objects] /\ wanted' \in [Commands -> 0 .. MaxRevision]
  <2>1. \/ count' = count \/ count' = [count EXCEPT ![q] = 0]
        \/ (count[q] < Objects /\ count' = [count EXCEPT ![q] = @ + 1])
    BY DEF Write, Snapshot, ReadKept, Purge, PurgeInterface, PurgeRealization, WriteKept, WriteInterface,
           WriteRealization, WriteObject, LinkBinaries, ReadBack, PublishIndex, Fresh
  <2>2. wanted' = wanted \/ wanted' = [wanted EXCEPT ![q] = 0]
    BY DEF Write, Snapshot, ReadKept, Purge, PurgeInterface, PurgeRealization, WriteKept, WriteInterface,
           WriteRealization, WriteObject, LinkBinaries, ReadBack, PublishIndex, Fresh
  <2>3. QED
    BY <2>1, <2>2, CountTyped
<1>5. interface' \in [Slots -> Contents \cup {Missing}] /\ realization' \in [Slots -> Contents \cup {Missing}]
  <2>1. interface' = interface \/ \E c \in {seen[q], Missing} : interface' = [interface EXCEPT ![Slot(q)] = c]
    BY DEF Write, Snapshot, ReadKept, Purge, PurgeInterface, PurgeRealization, WriteKept, WriteInterface,
           WriteRealization, WriteObject, LinkBinaries, ReadBack, PublishIndex
  <2>2. realization' = realization \/ \E c \in {seen[q], Missing} : realization' = [realization EXCEPT ![Slot(q)] = c]
    BY DEF Write, Snapshot, ReadKept, Purge, PurgeInterface, PurgeRealization, WriteKept, WriteInterface,
           WriteRealization, WriteObject, LinkBinaries, ReadBack, PublishIndex
  <2>3. /\ interface \in [Slots -> Contents \cup {Missing}] /\ realization \in [Slots -> Contents \cup {Missing}]
        /\ seen[q] \in Contents \cup {Missing} /\ Slot(q) \in Slots
    BY DEF BuildTypeOK
  <2>4. QED
    BY ONLY <2>1, <2>2, <2>3
<1>6. object' \in [Slots -> [1 .. Objects -> (1 .. MaxRevision) \cup {Missing}]]
  <2>1. CASE WriteObject(q)
    <3>1. count[q] + 1 \in 1 .. Objects /\ seen[q].source \in 1 .. MaxRevision
      BY <2>1, BuildAssumption DEF WriteObject, MemoryOK, Writing, Replacing, BuildTypeOK, Contents
    <3>2. object' = [object EXCEPT ![Slot(q)][count[q] + 1] = seen[q].source]
      BY <2>1 DEF WriteObject
    <3>3. QED
      BY <3>1, <3>2 DEF BuildTypeOK
  <2>2. CASE ~WriteObject(q)
    <3>1. object' = object \/ object' = [object EXCEPT ![Slot(q)] = [n \in 1 .. Objects |-> Missing]]
      BY <2>2 DEF Write, Snapshot, ReadKept, Purge, PurgeInterface, PurgeRealization, WriteKept, WriteInterface,
                  WriteRealization, LinkBinaries, ReadBack, PublishIndex
    <3>2. object \in [Slots -> [1 .. Objects -> (1 .. MaxRevision) \cup {Missing}]] /\ Slot(q) \in Slots
      BY DEF BuildTypeOK
    <3>3. QED
      BY ONLY <3>1, <3>2
  <2>3. QED
    BY <2>1, <2>2
<1>7. linked' \in [Commands -> SUBSET (1 .. MaxRevision)] /\ UNCHANGED <<source, kills>>
  BY DEF Write, Snapshot, ReadKept, Purge, PurgeInterface, PurgeRealization, WriteKept, WriteInterface,
         WriteRealization, WriteObject, LinkBinaries, ReadBack, PublishIndex, Fresh, BuildTypeOK
<1>8. QED
  BY <1>1, <1>2, <1>3, <1>4, <1>5, <1>6, <1>7 DEF BuildTypeOK

-----------------------------------------------------------------------------
(* What a command knows, and who runs beside it                             *)

BuildSets == BuildTypeOK /\ \A q \in Commands : MemoryOK(q)

LEMMA MemoryOfOther ==
  ASSUME BuildTypeOK, NEW q \in Commands, usage' = usage, BuildStep(q), NEW o \in Commands \ {q}, MemoryOK(o)
  PROVE  MemoryOK(o)'
<1>1. UNCHANGED CommandMemory(o) /\ source' = source
  BY OtherCommands
<1>2. QED
  BY <1>1 DEF CommandMemory, MemoryOK, Stopped

LEMMA MemoryOfStart ==
  ASSUME BuildTypeOK, NEW q \in Commands, usage' = usage, StartUse(q) \/ StartBuild(q) \/ Kill(q)
  PROVE  MemoryOK(q)'
<1>1. /\ at'[q] \in {"readIndex", "snapshot", "killed"} /\ phase'[q] = "check" /\ linked'[q] = {}
      /\ at'[q] = "readIndex" => Goal[q] = "use"
      /\ at'[q] # "killed" => q \in usage.given
      /\ wanted'[q] \in {0, source} /\ source' = source
  BY DEF StartUse, StartBuild, Kill, MayStart, Fresh, Go, BuildTypeOK
<1>2. wanted'[q] <= source'
  BY <1>1, BuildAssumption DEF BuildTypeOK
<1>3. QED
  BY <1>1, <1>2 DEF MemoryOK, Stopped, Ends, UsePlaces, Writing, Removing, Replacing

LEMMA MemoryOfUse ==
  ASSUME BuildTypeOK, NEW q \in Commands, MemoryOK(q), usage' = usage, Use(q)
  PROVE  MemoryOK(q)'
<1> USE DEF Go, Reject, MemoryOK, Stopped, Ends, UsePlaces, Writing, Removing, Replacing, BuildTypeOK
<1>1. CASE ReadEntries(q)
  BY <1>1 DEF ReadEntries
<1>2. CASE ReadInterface(q)
  <2>1. /\ at[q] = "readInterface" /\ UNCHANGED <<source, wanted, phase, todo, linked>>
        /\ \/ at'[q] = (IF phase[q] = "check" THEN "snapshot" ELSE "failed")
           \/ at'[q] = "readRealization" /\ todo[q] # <<>> /\ seen'[q] = interface[todo[q][Len(todo[q])]] /\ seen'[q] # Missing
    BY <1>2 DEF ReadInterface
  <2>2. todo[q] # <<>> => todo[q][Len(todo[q])] \in Slots
    OBVIOUS
  <2>3. at'[q] = "readRealization" => seen'[q] \in Contents
    BY <2>1, <2>2
  <2>4. QED
    BY <2>1, <2>3
<1>3. CASE ReadRealization(q)
  BY <1>3 DEF ReadRealization
<1>4. CASE ReadObject(q)
  BY <1>4 DEF ReadObject
<1>5. CASE Checked(q)
  BY <1>5 DEF Checked
<1>6. CASE Accept(q)
  BY <1>6 DEF Accept
<1>7. CASE LinkObject(q)
  BY <1>7 DEF LinkObject
<1>8. CASE Linked(q)
  BY <1>8, BuildAssumption DEF Linked, Fresh
<1>9. QED
  BY <1>1, <1>2, <1>3, <1>4, <1>5, <1>6, <1>7, <1>8 DEF Use

LEMMA MemoryOfWrite ==
  ASSUME BuildTypeOK, NEW q \in Commands, MemoryOK(q), usage' = usage, Write(q)
  PROVE  MemoryOK(q)'
<1> USE DEF Go, MemoryOK, Stopped, Ends, UsePlaces, Writing, Removing, Replacing, BuildTypeOK, files, memory
<1>1. CASE Snapshot(q)
  <2>1. [source |-> source, state |-> State(q)] \in Contents
    BY SlotTyped DEF Contents
  <2>2. QED
    BY <1>1, <2>1 DEF Snapshot, State
<1>2. CASE ReadKept(q)
  <2>1. \A i \in 1 .. Len(Filter(listing, Slots \ {Slot(q)})) : Filter(listing, Slots \ {Slot(q)})[i] # Slot(q)
    BY FilterTyped
  <2>2. QED
    BY <1>2, <2>1 DEF ReadKept, Slot, State
<1>3. CASE Purge(q) \/ PurgeInterface(q) \/ PurgeRealization(q)
  BY <1>3 DEF Purge, PurgeInterface, PurgeRealization, Slot, State
<1>4. CASE WriteKept(q) \/ WriteInterface(q)
  BY <1>4 DEF WriteKept, WriteInterface, State
<1>5. CASE WriteRealization(q) \/ WriteObject(q)
  BY <1>5 DEF WriteRealization, WriteObject, State
<1>6. CASE LinkBinaries(q) \/ ReadBack(q)
  BY <1>6 DEF LinkBinaries, ReadBack, State
<1>7. CASE PublishIndex(q)
  <2>1. /\ at[q] = "publish" /\ source' = source
        /\ \/ Goal[q] = "use" /\ at'[q] = "readIndex" /\ phase'[q] = "link" /\ UNCHANGED <<wanted, linked>>
           \/ at'[q] = "done" /\ phase'[q] = "check" /\ wanted'[q] = 0 /\ linked'[q] = {}
    BY <1>7 DEF PublishIndex, Fresh
  <2>2. wanted'[q] <= source'
    BY <2>1, BuildAssumption
  <2>3. ~Stopped(q) => q \in usage.given
    OBVIOUS
  <2>4. CASE at'[q] = "readIndex"
    BY <2>1, <2>2, <2>3, <2>4
  <2>5. CASE at'[q] = "done"
    BY <2>1, <2>2, <2>5
  <2>6. QED
    BY <2>1, <2>4, <2>5
<1>8. QED
  BY <1>1, <1>2, <1>3, <1>4, <1>5, <1>6, <1>7 DEF Write

LEMMA StepKnows ==
  ASSUME BuildSets, NEW q \in Commands, usage' = usage, BuildStep(q)
  PROVE  BuildSets'
<1>1. BuildTypeOK' /\ MemoryOK(q)'
  BY StartTyped, UseTyped, WriteTyped, MemoryOfStart, MemoryOfUse, MemoryOfWrite DEF BuildSets, BuildStep
<1>2. \A o \in Commands \ {q} : MemoryOK(o)'
  BY MemoryOfOther DEF BuildSets
<1>3. QED
  BY <1>1, <1>2 DEF BuildSets

LEMMA EditKnows ==
  ASSUME BuildSets, usage' = usage, Edit
  PROVE  BuildSets'
<1>1. source' = source + 1 /\ source \in Nat /\ source' \in 1 .. MaxRevision /\ UNCHANGED <<files, at, memory, kills>>
  BY BuildAssumption DEF Edit, BuildSets, BuildTypeOK
<1>2. BuildTypeOK'
  BY <1>1 DEF BuildSets, BuildTypeOK, files, memory
<1>3. ASSUME NEW q \in Commands PROVE MemoryOK(q)'
  <2>1. wanted[q] \in Nat /\ wanted[q] <= source
    BY BuildAssumption DEF BuildSets, BuildTypeOK, MemoryOK
  <2>2. wanted[q] <= source'
    BY <1>1, <2>1
  <2>3. QED
    BY <1>1, <2>2 DEF BuildSets, MemoryOK, memory, Stopped
<1>4. QED
  BY <1>2, <1>3 DEF BuildSets

\* A command that starts is alone among those that are run one at a time.
LEMMA SoleStays ==
  ASSUME BuildSets, SoleOK, NEW q \in Commands, usage' = usage, BuildStep(q)
  PROVE  SoleOK'
<1> DEFINE Apart(p, o) == ~Serial /\ (DevSerial => Slot(p) = "test" \/ Slot(o) = "test")
<1>1. \A o \in Commands \ {q} : at'[o] = at[o]
  BY OtherCommands DEF BuildSets, CommandMemory
<1>2. ASSUME NEW o \in Commands \ {q}, ~Stopped(q)', ~Stopped(o)'
      PROVE  Apart(q, o)
  <2>1. CASE ~Stopped(q)
    BY <1>1, <1>2, <2>1 DEF SoleOK, Stopped
  <2>2. CASE Stopped(q)
    <3>1. MayStart(q)
      BY <1>2, <2>2 DEF BuildStep, StartUse, StartBuild, Kill, Stopped, Ends, Use, ReadEntries, ReadInterface,
         ReadRealization, ReadObject, Checked, Accept, LinkObject, Linked, Write, Snapshot, ReadKept, Purge,
         PurgeInterface, PurgeRealization, WriteKept, WriteInterface, WriteRealization, WriteObject, LinkBinaries,
         ReadBack, PublishIndex
    <3>2. ~Stopped(o) /\ o \in usage.given /\ q \in usage.given
      BY <1>1, <1>2, <3>1 DEF MayStart, Stopped, BuildSets, MemoryOK
    <3>3. ~(q \in usage.serial /\ o \in usage.serial)
      BY <3>1, <3>2 DEF MayStart
    <3>4. QED
      BY <3>2, <3>3, SlotTyped DEF Serial, DevSerial, Slot
  <2>3. QED
    BY <2>1, <2>2
<1>3. \A p, o \in Commands : Apart(p, o)' <=> Apart(p, o)
  BY DEF Serial, DevSerial, Slot
<1>4. ASSUME NEW p \in Commands, NEW o \in Commands, ~Stopped(p)', ~Stopped(o)', p # o
      PROVE  Apart(p, o)
  <2>1. CASE p # q /\ o # q
    BY <1>1, <1>4, <2>1 DEF SoleOK, Stopped
  <2>2. CASE p = q \/ o = q
    BY <1>2, <1>4, <2>2
  <2>3. QED
    BY <2>1, <2>2
<1>5. QED
  BY <1>3, <1>4 DEF SoleOK

-----------------------------------------------------------------------------
(* The files that a command writes, and those that it reads                 *)

\* While a command runs whose slot nobody else writes, its slot stays.
LEMMA Undisturbed ==
  ASSUME BuildSets, SoleOK, NEW q \in Commands, BuildStep(q), NEW o \in Commands \ {q}, Guarded(o), ~Stopped(o)
  PROVE  UNCHANGED SlotFiles(Slot(o))
<1>1. CASE at[q] \in Removing \cup Replacing
  <2>1. ~Stopped(q)
    BY <1>1 DEF Removing, Replacing, Stopped, Ends
  <2>2. Slot(q) # Slot(o)
    BY <2>1, SlotTyped DEF SoleOK, Guarded, Slot
  <2>3. QED
    BY <2>2, OtherFiles, SlotTyped DEF BuildSets
<1>2. CASE at[q] \notin Removing \cup Replacing
  BY <1>2, OtherFiles, SlotTyped DEF BuildSets
<1>3. QED
  BY <1>1, <1>2

LEMMA GuardedStays ==
  ASSUME usage' = usage, NEW o \in Commands
  PROVE  (Guarded(o)' <=> Guarded(o)) /\ (Serial' <=> Serial) /\ (DevSerial' <=> DevSerial)
BY DEF Guarded, Serial, DevSerial, Slot

LEMMA DraftOfOther ==
  ASSUME BuildSets, SoleOK, NEW q \in Commands, usage' = usage, BuildStep(q), NEW o \in Commands \ {q}, DraftOK(o)
  PROVE  DraftOK(o)'
<1>1. UNCHANGED CommandMemory(o)
  BY OtherCommands DEF BuildSets
<1>2. CASE Stopped(o) \/ ~Guarded(o)
  BY <1>1, <1>2, GuardedStays DEF DraftOK, CommandMemory, Stopped, Ends
<1>3. CASE ~Stopped(o) /\ Guarded(o)
  BY <1>1, <1>3, Undisturbed, GuardedStays DEF DraftOK, CommandMemory, SlotFiles, ObjectsAre, Slot
<1>4. QED
  BY <1>2, <1>3

LEMMA ReadOfOther ==
  ASSUME BuildSets, SoleOK, NEW q \in Commands, usage' = usage, BuildStep(q), NEW o \in Commands \ {q}, ReadOK(o)
  PROVE  ReadOK(o)'
<1>1. UNCHANGED CommandMemory(o)
  BY OtherCommands DEF BuildSets
<1>2. CASE at[o] \notin UsePlaces \/ ~DevSerial
  BY <1>1, <1>2, GuardedStays DEF ReadOK, CommandMemory, UsePlaces
<1>3. CASE at[o] \in UsePlaces /\ DevSerial
  <2>1. ~Stopped(o) /\ Slot(o) = "dev" /\ Guarded(o)
    BY <1>3 DEF BuildSets, MemoryOK, Stopped, Ends, UsePlaces, Slot, Guarded
  <2>2. UNCHANGED SlotFiles("dev")
    BY <2>1, Undisturbed
  <2>3. QED
    BY <1>1, <2>2, <1>3 DEF ReadOK, CommandMemory, SlotFiles, ObjectsAre, DevSerial, UsePlaces
<1>4. QED
  BY <1>2, <1>3

LEMMA DraftOfStep ==
  ASSUME BuildSets, NEW q \in Commands, usage' = usage, BuildStep(q), DraftOK(q)
  PROVE  DraftOK(q)'
<1> USE GuardedStays, SlotTyped DEF Go, files, memory, DraftOK
<1>0. BuildTypeOK /\ Slot(q)' = Slot(q)
  BY DEF BuildSets, Slot
<1>1. CASE WriteInterface(q)
  <2>1. at'[q] = "writeRealization" /\ interface'[Slot(q)] = seen'[q]
    BY <1>0, <1>1 DEF WriteInterface, BuildTypeOK
  <2>2. QED
    BY <1>0, <2>1
<1>2. CASE WriteRealization(q)
  <2>1. /\ at[q] = "writeRealization" /\ UNCHANGED <<interface, object, seen>>
        /\ at'[q] = (IF Goal[q] = "check" THEN "readBack" ELSE "writeObjects") /\ realization'[Slot(q)] = seen[q] /\ count'[q] = 0
    BY <1>0, <1>2 DEF WriteRealization, BuildTypeOK
  <2>2. ObjectsAre(Slot(q), 0, seen[q].source)'
    BY DEF ObjectsAre
  <2>3. QED
    BY <1>0, <2>1, <2>2
<1>3. CASE WriteObject(q)
  <2>1. /\ at[q] = "writeObjects" /\ at' = at /\ UNCHANGED <<interface, realization, seen>>
        /\ count'[q] = count[q] + 1 /\ count[q] \in Nat /\ count[q] + 1 \in 1 .. Objects
        /\ object'[Slot(q)] = [object[Slot(q)] EXCEPT ![count[q] + 1] = seen[q].source]
        /\ object[Slot(q)] \in [1 .. Objects -> (1 .. MaxRevision) \cup {Missing}]
    BY <1>0, <1>3, BuildAssumption DEF WriteObject, BuildTypeOK
  <2>2. ASSUME Guarded(q) PROVE ObjectsAre(Slot(q), count[q], seen[q].source)'
    <3>1. \A n \in 1 .. count[q] : object[Slot(q)][n] = seen[q].source
      BY <2>1, <2>2 DEF ObjectsAre
    <3>2. \A n \in 1 .. count[q] + 1 : object'[Slot(q)][n] = seen[q].source
      BY <2>1, <3>1, BuildAssumption
    <3>3. QED
      BY <1>0, <2>1, <3>2 DEF ObjectsAre
  <2>3. QED
    BY <1>0, <2>1, <2>2
<1>4. CASE LinkBinaries(q)
  <2>1. /\ at[q] = "writeObjects" /\ count[q] = Objects /\ UNCHANGED <<interface, object, seen>>
        /\ \/ at'[q] = "readBack" /\ realization'[Slot(q)] = seen[q]
           \/ at'[q] = "failed"
    BY <1>0, <1>4 DEF LinkBinaries, BuildTypeOK
  <2>2. QED
    BY <1>0, <2>1 DEF ObjectsAre
<1>5. CASE ReadBack(q)
  BY <1>0, <1>5 DEF ReadBack, BuildTypeOK, ObjectsAre
<1>6. CASE StartUse(q) \/ StartBuild(q) \/ Use(q) \/ Kill(q)
  <2>1. at'[q] \notin Replacing
    BY <1>0, <1>6 DEF StartUse, StartBuild, Kill, Use, ReadEntries, ReadInterface, ReadRealization, ReadObject, Checked,
       Accept, LinkObject, Linked, Reject, Replacing, BuildTypeOK
  <2>2. QED
    BY <2>1 DEF Replacing
<1>7. CASE Snapshot(q) \/ ReadKept(q) \/ Purge(q) \/ PurgeInterface(q) \/ PurgeRealization(q) \/ WriteKept(q) \/ PublishIndex(q)
  <2>1. at'[q] \notin Replacing \ {"writeInterface"}
    BY <1>0, <1>7 DEF Snapshot, ReadKept, Purge, PurgeInterface, PurgeRealization, WriteKept, PublishIndex, Replacing,
       BuildTypeOK
  <2>2. QED
    BY <2>1 DEF Replacing
<1>8. QED
  BY <1>1, <1>2, <1>3, <1>4, <1>5, <1>6, <1>7 DEF BuildStep, Write

LEMMA ReadOfStep ==
  ASSUME BuildSets, NEW q \in Commands, usage' = usage, BuildStep(q), DraftOK(q), ReadOK(q)
  PROVE  ReadOK(q)'
<1> USE GuardedStays DEF Go, Reject, files, memory
<1>0. BuildTypeOK /\ MemoryOK(q)
  BY DEF BuildSets
<1>1. CASE ReadInterface(q)
  <2>1. /\ at[q] = "readInterface" /\ UNCHANGED <<interface, todo, phase, wanted>>
        /\ \/ at'[q] = "snapshot" \/ at'[q] = "failed"
           \/ at'[q] = "readRealization" /\ seen'[q] = interface[todo[q][Len(todo[q])]]
    BY <1>0, <1>1 DEF ReadInterface, BuildTypeOK
  <2>2. QED
    BY <2>1 DEF ReadOK, UsePlaces
<1>2. CASE ReadRealization(q)
  <2> DEFINE entry == todo[q][Len(todo[q])]
  <2>1. /\ at[q] = "readRealization" /\ UNCHANGED <<interface, realization, seen, phase, wanted>>
        /\ \/ at'[q] \in {"snapshot", "failed", "readInterface"}
           \/ at'[q] = "readObjects" /\ entry = "dev" /\ realization[entry] = seen[q] /\ count'[q] = 0
    BY <1>0, <1>2 DEF ReadRealization, BuildTypeOK, Usable
  <2>2. ObjectsAre("dev", 0, seen[q].source)'
    BY DEF ObjectsAre
  <2>3. CASE at'[q] = "readObjects"
    BY <2>1, <2>2, <2>3 DEF ReadOK, UsePlaces
  <2>4. CASE at'[q] # "readObjects"
    BY <2>1, <2>4 DEF ReadOK, UsePlaces
  <2>5. QED
    BY <2>3, <2>4
<1>3. CASE ReadObject(q)
  <2>1. /\ at[q] = "readObjects" /\ UNCHANGED <<interface, realization, object, seen, phase, wanted>> /\ count[q] \in Nat
        /\ \/ at'[q] \in {"snapshot", "failed"}
           \/ at'[q] = "readObjects" /\ count'[q] = count[q] + 1 /\ object["dev"][count[q] + 1] = seen[q].source
    BY <1>0, <1>3, BuildAssumption DEF ReadObject, BuildTypeOK
  <2>2. ASSUME at'[q] = "readObjects", DevSerial PROVE ObjectsAre("dev", count[q], seen[q].source)'
    BY <2>1, <2>2 DEF ReadOK, ObjectsAre
  <2>3. QED
    BY <2>1, <2>2 DEF ReadOK, UsePlaces
<1>4. CASE Checked(q)
  <2>1. /\ at[q] = "readObjects" /\ UNCHANGED <<interface, wanted>> /\ seen[q] \in Contents
        /\ \/ at'[q] = "readIndex" /\ seen[q].source = wanted[q]
           \/ at'[q] = "snapshot"
    BY <1>0, <1>4 DEF Checked, BuildTypeOK, MemoryOK
  <2>2. wanted[q] \in Nat
    BY <1>0, BuildAssumption DEF BuildTypeOK
  <2>3. wanted[q] <= wanted[q]
    BY <2>2
  <2>4. QED
    BY <2>1, <2>3 DEF ReadOK, UsePlaces
<1>5. CASE Accept(q)
  <2>1. /\ at[q] = "readObjects" /\ count[q] = Objects /\ UNCHANGED <<interface, realization, object, seen, phase, wanted>>
        /\ at'[q] = "link" /\ count'[q] = 0 /\ linked'[q] = {}
    BY <1>0, <1>5 DEF Accept, BuildTypeOK, MemoryOK
  <2>2. QED
    BY <2>1 DEF ReadOK, UsePlaces, ObjectsAre
<1>6. CASE LinkObject(q)
  <2>1. /\ at[q] = "link" /\ UNCHANGED <<interface, realization, object, seen, phase, wanted>>
        /\ count[q] + 1 \in 1 .. Objects
        /\ \/ at'[q] = "failed"
           \/ /\ at'[q] = "link" /\ count'[q] = count[q] + 1
              /\ linked'[q] = linked[q] \cup {object["dev"][count[q] + 1]}
    BY <1>0, <1>6, BuildAssumption DEF LinkObject, BuildTypeOK
  <2>2. ASSUME DevSerial PROVE linked[q] \cup {object["dev"][count[q] + 1]} = {seen[q].source}
    BY <2>1, <2>2 DEF ReadOK, ObjectsAre
  <2>3. CASE at'[q] = "failed"
    BY <2>3 DEF ReadOK, UsePlaces
  <2>4. CASE at'[q] = "link"
    <3>1. count'[q] # 0 /\ at[q] \in UsePlaces
      BY <2>1, <2>4 DEF UsePlaces
    <3>2. QED
      BY <2>1, <2>2, <2>4, <3>1 DEF ReadOK, ObjectsAre
  <2>5. QED
    BY <2>1, <2>3, <2>4
<1>7. CASE PublishIndex(q)
  <2>1. /\ at[q] = "publish" /\ UNCHANGED interface
        /\ \/ at'[q] = "readIndex" /\ Goal[q] = "use" /\ UNCHANGED wanted
           \/ at'[q] = "done"
    BY <1>0, <1>7 DEF PublishIndex, BuildTypeOK
  <2>2. seen[q] \in Contents /\ wanted[q] <= seen[q].source
    BY <1>0, <2>1 DEF MemoryOK, Writing, Replacing
  <2>3. Goal[q] = "use" => Slot(q) = "dev"
    BY DEF Slot
  <2>4. ASSUME DevSerial, at'[q] = "readIndex" PROVE interface["dev"] = seen[q]
    BY <2>1, <2>3, <2>4 DEF DraftOK, Guarded
  <2>5. QED
    BY <2>1, <2>2, <2>4 DEF ReadOK, UsePlaces
<1>8. CASE StartUse(q) \/ StartBuild(q) \/ Kill(q) \/ ReadEntries(q) \/ Linked(q)
  <2>1. \/ at'[q] \notin UsePlaces
        \/ at'[q] = "readIndex" /\ phase'[q] = "check"
        \/ at[q] = "readIndex" /\ at'[q] = "readInterface" /\ UNCHANGED <<interface, phase, wanted>>
    BY <1>0, <1>8 DEF StartUse, StartBuild, Kill, ReadEntries, Linked, Fresh, UsePlaces, BuildTypeOK
  <2>2. QED
    BY <2>1 DEF ReadOK, UsePlaces
<1>9. CASE Write(q) /\ ~PublishIndex(q)
  <2>1. at'[q] \notin UsePlaces
    BY <1>0, <1>9 DEF Write, Snapshot, ReadKept, Purge, PurgeInterface, PurgeRealization, WriteKept, WriteInterface,
       WriteRealization, WriteObject, LinkBinaries, ReadBack, UsePlaces, BuildTypeOK
  <2>2. QED
    BY <2>1 DEF ReadOK, UsePlaces
<1>10. QED
  BY <1>1, <1>2, <1>3, <1>4, <1>5, <1>6, <1>7, <1>8, <1>9 DEF BuildStep, Use

-----------------------------------------------------------------------------
(* The index, while commands are run one at a time                          *)

LEMMA SerialAlone ==
  ASSUME BuildSets, SoleOK, Serial, NEW q \in Commands, BuildStep(q), NEW o \in Commands \ {q}
  PROVE  Stopped(o)
<1>1. CASE ~Stopped(q)
  BY <1>1 DEF SoleOK
<1>2. CASE Stopped(q)
  <2>1. MayStart(q)
    BY <1>2 DEF BuildStep, StartUse, StartBuild, Kill, Stopped, Ends, Use, ReadEntries, ReadInterface,
       ReadRealization, ReadObject, Checked, Accept, LinkObject, Linked, Write, Snapshot, ReadKept, Purge,
       PurgeInterface, PurgeRealization, WriteKept, WriteInterface, WriteRealization, WriteObject, LinkBinaries,
       ReadBack, PublishIndex
  <2>2. ~Stopped(o) => o \in usage.serial
    BY DEF BuildSets, MemoryOK, Serial
  <2>3. QED
    BY <2>1, <2>2 DEF MayStart, Serial
<1>3. QED
  BY <1>1, <1>2

Unmixed(s) ==
  realization[s] # Missing =>
    /\ interface[s] \in {Missing, realization[s]}
    /\ realization[s].state = "compiled" => \A n \in 1 .. Objects : object[s][n] \in {Missing, realization[s].source}

\* What a step adds to the index is the slot of the command that publishes.
LEMMA IndexGrows ==
  ASSUME BuildSets, IndexOK, Serial, NEW q \in Commands, BuildStep(q), NEW s \in Slots, Listed(s)'
  PROVE  Listed(s) \/ (PublishIndex(q) /\ s = Slot(q))
<1>1. CASE WriteKept(q)
  <2>1. listing' = todo[q] /\ at[q] \in Removing
    BY <1>1 DEF WriteKept, Removing
  <2>2. QED
    BY <2>1 DEF IndexOK, Listed
<1>2. CASE PublishIndex(q)
  <2>1. listing' = Append(listing, Slot(q)) /\ listing \in Seq(Slots)
    BY <1>2 DEF PublishIndex, IndexOK, BuildSets, BuildTypeOK
  <2>2. PICK i \in 1 .. Len(listing') : listing'[i] = s
    BY DEF Listed
  <2>3. (i \in 1 .. Len(listing) /\ listing[i] = s) \/ s = Slot(q)
    BY <2>1, <2>2
  <2>4. QED
    BY <1>2, <2>3 DEF Listed
<1>3. CASE ~WriteKept(q) /\ ~PublishIndex(q)
  <2>1. listing' = listing
    BY <1>3 DEF BuildStep, StartUse, StartBuild, Kill, Use, ReadEntries, ReadInterface,
       ReadRealization, ReadObject, Checked, Accept, LinkObject, Linked, Write, Snapshot, ReadKept, Purge,
       PurgeInterface, PurgeRealization, WriteInterface, WriteRealization, WriteObject, LinkBinaries,
       ReadBack, files
  <2>2. QED
    BY <2>1 DEF Listed
<1>4. QED
  BY <1>1, <1>2, <1>3

LEMMA UnmixedStays ==
  ASSUME BuildSets, IndexOK, Serial, NEW q \in Commands, BuildStep(q), DraftOK(q), NEW s \in Slots, Listed(s)'
  PROVE  Unmixed(s)'
<1>0. BuildTypeOK /\ Slot(q) \in Slots /\ (Listed(s) => Unmixed(s))
  BY SlotTyped DEF BuildSets, IndexOK, ListedUnmixed, Unmixed
<1>1. CASE PublishIndex(q) /\ s = Slot(q)
  <2>1. at[q] = "publish" /\ UNCHANGED <<interface, realization, object>>
    BY <1>1 DEF PublishIndex
  <2>2. /\ interface[s] = seen[q] /\ realization[s] = seen[q] /\ seen[q].state = State(q)
        /\ Goal[q] # "check" => \A n \in 1 .. Objects : object[s][n] = seen[q].source
    BY <1>1, <2>1 DEF DraftOK, Guarded, ObjectsAre, BuildSets, MemoryOK, Writing, Replacing
  <2>3. seen[q].state = "compiled" => Goal[q] # "check"
    BY <2>2, SlotTyped
  <2>4. QED
    BY <2>1, <2>2, <2>3 DEF Unmixed
<1>2. CASE Listed(s) /\ UNCHANGED SlotFiles(s)
  BY <1>0, <1>2 DEF Unmixed, SlotFiles
<1>3. CASE Listed(s) /\ s = Slot(q) /\ at[q] \in Removing \cup Replacing
  <2>1. at[q] \in Removing
    BY <1>3 DEF IndexOK
  <2>2. CASE Purge(q)
    BY <1>0, <1>3, <2>2 DEF Purge, Unmixed, BuildTypeOK
  <2>3. CASE PurgeInterface(q)
    BY <1>0, <1>3, <2>3 DEF PurgeInterface, Unmixed, BuildTypeOK
  <2>4. CASE PurgeRealization(q)
    BY <1>0, <1>3, <2>4 DEF PurgeRealization, Unmixed, BuildTypeOK
  <2>5. CASE UNCHANGED <<interface, realization, object>>
    BY <1>0, <1>3, <2>5 DEF Unmixed
  <2>6. QED
    BY <2>1, <2>2, <2>3, <2>4, <2>5 DEF BuildStep, StartUse, StartBuild, Kill, Use, ReadEntries, ReadInterface,
       ReadRealization, ReadObject, Checked, Accept, LinkObject, Linked, Write, Snapshot, ReadKept, WriteKept,
       WriteInterface, WriteRealization, WriteObject, LinkBinaries, ReadBack, PublishIndex, files, Removing
<1>4. QED
  BY <1>0, <1>1, <1>2, <1>3, IndexGrows, OtherFiles

LEMMA IndexStays ==
  ASSUME BuildSets, SoleOK, IndexOK, NEW q \in Commands, usage' = usage, BuildStep(q), DraftOK(q)
  PROVE  IndexOK'
<1> SUFFICES ASSUME Serial PROVE IndexOK'
  BY GuardedStays DEF IndexOK
<1>0. BuildTypeOK /\ Serial' /\ \A s \in Slots : Listed(s) => Unmixed(s)
  BY GuardedStays DEF BuildSets, IndexOK, ListedUnmixed, Unmixed
<1>1. ListedUnmixed'
  BY UnmixedStays DEF ListedUnmixed, Unmixed
<1>2. ASSUME NEW o \in Commands \ {q} PROVE at'[o] \notin Removing \cup Replacing
  BY SerialAlone, OtherCommands, <1>0 DEF Stopped, Ends, Removing, Replacing, CommandMemory
<1>3. ASSUME at'[q] \in Removing, NEW i \in 1 .. Len(todo'[q]) PROVE Listed(todo[q][i])'
  <2>1. CASE ReadKept(q)
    <3>1. todo'[q] = Filter(listing, Slots \ {Slot(q)}) /\ listing' = listing /\ listing \in Seq(Slots)
      BY <1>0, <2>1 DEF ReadKept, BuildTypeOK, files
    <3>2. \E j \in 1 .. Len(listing) : todo'[q][i] = listing[j]
      BY <3>1, FilterTyped
    <3>3. QED
      BY <3>1, <3>2 DEF Listed
  <2>2. CASE Purge(q) \/ PurgeInterface(q) \/ PurgeRealization(q)
    <3>1. at[q] \in Removing /\ todo' = todo /\ listing' = listing
      BY <2>2 DEF Purge, PurgeInterface, PurgeRealization, Removing, memory
    <3>2. QED
      BY <3>1 DEF IndexOK, Listed
  <2>3. QED
    BY <1>0, <1>3, <2>1, <2>2 DEF BuildStep, StartUse, StartBuild, Kill, Use, ReadEntries, ReadInterface, ReadRealization,
       ReadObject, Checked, Accept, LinkObject, Linked, Reject, Write, Snapshot, WriteKept, WriteInterface,
       WriteRealization, WriteObject, LinkBinaries, ReadBack, PublishIndex, Go, Removing, BuildTypeOK
<1>4. ASSUME at'[q] \in Replacing PROVE ~Listed(Slot(q))'
  <2>1. CASE WriteKept(q)
    <3>1. listing' = todo[q] /\ at[q] \in Removing
      BY <2>1 DEF WriteKept, Removing
    <3>2. QED
      BY <3>1 DEF BuildSets, MemoryOK, Listed, Slot
  <2>2. CASE at[q] \in Replacing /\ listing' = listing
    BY <2>2 DEF IndexOK, Listed, Slot
  <2>3. CASE ~WriteKept(q)
    <3>1. \/ WriteInterface(q) \/ WriteRealization(q) \/ WriteObject(q) \/ LinkBinaries(q) \/ ReadBack(q)
      BY <1>0, <1>4, <2>3 DEF BuildStep, StartUse, StartBuild, Kill, Use, ReadEntries, ReadInterface, ReadRealization,
         ReadObject, Checked, Accept, LinkObject, Linked, Reject, Write, Snapshot, ReadKept, Purge, PurgeInterface,
         PurgeRealization, PublishIndex, Go, Replacing, BuildTypeOK
    <3>2. at[q] \in Replacing /\ listing' = listing
      BY <3>1 DEF WriteInterface, WriteRealization, WriteObject, LinkBinaries, ReadBack, Replacing, files
    <3>3. QED
      BY <2>2, <3>2
  <2>4. QED
    BY <2>1, <2>3
<1>5. ASSUME at'[q] = "publish" PROVE todo'[q] = listing'
  <2>1. ReadBack(q)
    BY <1>0, <1>5 DEF BuildStep, StartUse, StartBuild, Kill, Use, ReadEntries, ReadInterface, ReadRealization,
       ReadObject, Checked, Accept, LinkObject, Linked, Reject, Write, Snapshot, ReadKept, Purge, PurgeInterface,
       PurgeRealization, WriteKept, WriteInterface, WriteRealization, WriteObject, LinkBinaries, PublishIndex, Go,
       BuildTypeOK
  <2>2. QED
    BY <1>0, <2>1 DEF ReadBack, BuildTypeOK, files
<1>6. \A o \in Commands \ {q} : at'[o] # "publish"
  BY <1>2 DEF Replacing
<1>7. QED
  BY <1>0, <1>1, <1>2, <1>3, <1>4, <1>5, <1>6 DEF IndexOK

-----------------------------------------------------------------------------
(* What a dependent has found, it finds again                               *)

LEMMA SerialImplies == ASSUME Serial PROVE DevSerial /\ \A q \in Commands : Guarded(q)
BY DEF Serial, DevSerial, Guarded

\* The places of a command that matter to PathOK.
LEMMA PathElsewhere == ASSUME NEW q \in Commands, at'[q] \notin UsePlaces PROVE PathOK(q)'
BY DEF PathOK, Looking, UsePlaces

LEMMA WholeStays == ASSUME UNCHANGED files, WholeDev PROVE WholeDev'
BY DEF files, WholeDev, ObjectsAre

\* The entry that a command which links is going to use.
Way(q, i) ==
  /\ i \in 1 .. Len(listing) /\ listing[i] = "dev"
  /\ \A j \in i .. Len(listing) : Present(listing[j])
  /\ at[q] \in Looking => i <= Len(todo[q])

LEMMA PathOfReadEntries ==
  ASSUME BuildSets, Serial, NEW q \in Commands, usage' = usage, PathOK(q), ReadEntries(q)
  PROVE  PathOK(q)'
<1>1. /\ at[q] = "readIndex" /\ at'[q] = "readInterface" /\ todo'[q] = listing /\ listing \in Seq(Slots)
      /\ UNCHANGED <<files, phase>>
  BY DEF ReadEntries, Go, BuildSets, BuildTypeOK
<1>2. listing' = listing /\ \A s \in Slots : Present(s)' <=> Present(s)
  BY <1>1 DEF files, Present
<1>3. ASSUME phase[q] = "link"
      PROVE  WholeDev' /\ \E i \in 1 .. Len(listing) : Way(q, i)'
  <2>1. WholeDev /\ \E i \in 1 .. Len(listing) : Way(q, i)
    BY <1>1, <1>3 DEF PathOK, UsePlaces, Way
  <2>2. PICK i \in 1 .. Len(listing) : Way(q, i)
    BY <2>1
  <2>3. Way(q, i)'
    BY <1>1, <1>2, <2>2 DEF Way, Present, files
  <2>4. QED
    BY <1>1, <2>1, <2>3, WholeStays
<1>4. Len(todo[q])' = Len(listing) /\ \A i \in Len(listing) + 1 .. Len(listing) : FALSE
  BY <1>1
<1>5. QED
  BY <1>1, <1>2, <1>3, <1>4 DEF PathOK, Way, UsePlaces

\* A step that keeps the files and leaves the entries to try as they are.
LEMMA PathKept ==
  ASSUME BuildSets, Serial, NEW q \in Commands, usage' = usage, PathOK(q), at[q] \in UsePlaces,
         UNCHANGED <<files, todo[q], phase[q]>>, at[q] \in Looking \/ at'[q] \notin Looking,
         at'[q] = "readRealization" => interface[todo[q][Len(todo[q])]] = seen'[q],
         at'[q] = "readObjects" => todo[q] # <<>> /\ todo[q][Len(todo[q])] = "dev" /\ seen'[q].state = "compiled"
  PROVE  PathOK(q)'
<1>1. CASE at'[q] \notin UsePlaces
  BY <1>1, PathElsewhere
<1>2. CASE at'[q] \in UsePlaces
  <2>1. listing' = listing /\ interface' = interface /\ \A s \in Slots : Present(s)' <=> Present(s)
    BY DEF files, Present
  <2>2. ASSUME phase[q] = "link"
        PROVE  WholeDev' /\ \E i \in 1 .. Len(listing) : Way(q, i)'
    <3>1. WholeDev /\ \E i \in 1 .. Len(listing) : Way(q, i)
      BY <2>2 DEF PathOK, Way
    <3>2. PICK i \in 1 .. Len(listing) : Way(q, i)
      BY <3>1
    <3>3. Way(q, i)'
      BY <2>1, <3>2 DEF Way, Present, files
    <3>4. QED
      BY <3>1, <3>3, WholeStays, <2>1
  <2>3. at'[q] \in Looking =>
          /\ Len(todo[q]) <= Len(listing)
          /\ \A i \in 1 .. Len(todo[q]) : todo[q][i] = listing[i]
          /\ \A i \in Len(todo[q]) + 1 .. Len(listing) : Present(listing[i])'
    BY <2>1 DEF PathOK, Present, files
  <2>4. QED
    BY <1>2, <2>1, <2>2, <2>3 DEF PathOK, Way
<1>3. QED
  BY <1>1, <1>2

\* An entry that is passed over is present, and not the one to use.
LEMMA PathOfReadRealization ==
  ASSUME BuildSets, Serial, NEW q \in Commands, usage' = usage, PathOK(q), ReadRealization(q)
  PROVE  PathOK(q)'
<1> DEFINE entry == todo[q][Len(todo[q])]
<1>0. /\ at[q] = "readRealization" /\ seen' = seen /\ UNCHANGED files /\ phase' = phase
      /\ todo[q] \in Seq(Slots) /\ todo[q] # <<>> /\ seen[q] \in Contents /\ listing \in Seq(Slots)
      /\ interface[entry] = seen[q] /\ entry \in Slots
  BY DEF ReadRealization, BuildSets, BuildTypeOK, MemoryOK, PathOK
<1>1. CASE at'[q] \in {"snapshot", "failed"}
  BY <1>1, PathElsewhere DEF UsePlaces
<1>2. CASE at'[q] = "readObjects" /\ todo'[q] = todo[q] /\ Usable(entry, q) /\ realization[entry] = seen[q]
  <2>1. todo[q] # <<>> /\ entry = "dev" /\ seen'[q].state = "compiled"
    BY <1>0, <1>2 DEF Usable
  <2>2. at[q] \in Looking /\ at[q] \in UsePlaces
    BY <1>0 DEF Looking, UsePlaces
  <2>3. QED
    BY <1>0, <1>2, <2>1, <2>2, PathKept
<1>3. CASE /\ at'[q] = "readInterface" /\ todo'[q] = SubSeq(todo[q], 1, Len(todo[q]) - 1)
           /\ ~Usable(entry, q) /\ realization[entry] # Missing
  <2>1. listing' = listing /\ \A s \in Slots : Present(s)' <=> Present(s)
    BY <1>0 DEF files, Present
  <2>2. /\ Len(todo[q]) <= Len(listing)
        /\ \A i \in 1 .. Len(todo[q]) : todo[q][i] = listing[i]
        /\ \A i \in Len(todo[q]) + 1 .. Len(listing) : Present(listing[i])
    BY <1>0 DEF PathOK, Looking
  <2>3. Present(entry)
    BY <1>0, <1>3, MissingElse DEF Present
  <2>4. /\ Len(todo'[q]) = Len(todo[q]) - 1 /\ Len(todo[q]) \in Nat \ {0}
        /\ \A i \in 1 .. Len(todo[q]) - 1 : todo'[q][i] = todo[q][i]
    BY <1>0, <1>3
  <2>5. listing[Len(todo[q])] = entry
    BY <2>2, <2>4
  <2>6. \A i \in Len(todo'[q]) + 1 .. Len(listing) : Present(listing[i])'
    <3>1. ASSUME NEW i \in Len(todo'[q]) + 1 .. Len(listing) PROVE Present(listing[i])
      <4>1. i = Len(todo[q]) \/ i \in Len(todo[q]) + 1 .. Len(listing)
        BY <2>4
      <4>2. QED
        BY <2>2, <2>3, <2>5, <4>1
    <3>2. QED
      BY <2>1, <3>1, <1>0 DEF Present, files
  <2>7. ASSUME phase[q] = "link"
        PROVE  WholeDev' /\ \E i \in 1 .. Len(listing) : Way(q, i)'
    <3>1. WholeDev /\ \E i \in 1 .. Len(listing) : Way(q, i)
      BY <1>0, <2>7 DEF PathOK, UsePlaces, Way
    <3>2. PICK i \in 1 .. Len(listing) : Way(q, i)
      BY <3>1
    <3>3. entry # "dev"
      BY <1>3, <3>1 DEF Usable, WholeDev
    <3>4. i # Len(todo[q]) /\ i <= Len(todo[q])
      BY <1>0, <2>5, <3>2, <3>3 DEF Way, Looking
    <3>5. i <= Len(todo'[q])
      BY <2>4, <3>4
    <3>6. Way(q, i)'
      BY <1>0, <1>3, <2>1, <3>2, <3>5 DEF Way, Present, files
    <3>7. QED
      BY <1>0, <3>1, <3>6, WholeStays
  <2>8. /\ Len(todo'[q]) <= Len(listing)
        /\ \A i \in 1 .. Len(todo'[q]) : todo'[q][i] = listing[i]
    BY <2>2, <2>4
  <2>9. QED
    BY <1>0, <1>3, <2>1, <2>6, <2>7, <2>8 DEF PathOK, Way
<1>4. QED
  BY <1>1, <1>2, <1>3 DEF ReadRealization, Reject, Go, BuildSets, BuildTypeOK

LEMMA PathOfChecked ==
  ASSUME BuildSets, Serial, NEW q \in Commands, usage' = usage, ReadOK(q), PathOK(q), Checked(q)
  PROVE  PathOK(q)'
<1>0. /\ at[q] = "readObjects" /\ count[q] = Objects /\ UNCHANGED <<files, todo, seen>> /\ seen[q] \in Contents
      /\ todo[q] \in Seq(Slots) /\ listing \in Seq(Slots)
  BY DEF Checked, BuildSets, BuildTypeOK, MemoryOK
<1>1. CASE at'[q] = "readIndex" /\ phase'[q] = "link"
  <2>1. interface["dev"] = seen[q] /\ realization["dev"] = seen[q] /\ ObjectsAre("dev", Objects, seen[q].source)
    BY <1>0, SerialImplies DEF ReadOK
  <2>2. /\ todo[q] # <<>> /\ todo[q][Len(todo[q])] = "dev" /\ seen[q].state = "compiled"
        /\ Len(todo[q]) <= Len(listing)
        /\ \A i \in 1 .. Len(todo[q]) : todo[q][i] = listing[i]
        /\ \A i \in Len(todo[q]) + 1 .. Len(listing) : Present(listing[i])
    BY <1>0 DEF PathOK, Looking
  <2>3. WholeDev /\ Present("dev")
    BY <1>0, <2>1, <2>2, MissingElse DEF WholeDev, Present
  <2> DEFINE i == Len(todo[q])
  <2>4. i \in 1 .. Len(listing) /\ listing[i] = "dev"
    BY <1>0, <2>2
  <2>5. \A j \in i .. Len(listing) : Present(listing[j])
    <3>1. \A j \in i .. Len(listing) : j = i \/ j \in i + 1 .. Len(listing)
      BY <2>4
    <3>2. QED
      BY <2>2, <2>3, <2>4, <3>1
  <2>6. listing' = listing /\ \A s \in Slots : Present(s)' <=> Present(s)
    BY <1>0 DEF files, Present
  <2>7. WholeDev' /\ \A j \in i .. Len(listing) : Present(listing[j])'
    BY <1>0, <2>3, <2>5, WholeStays DEF Present, files
  <2>8. at'[q] \notin Looking
    BY <1>1 DEF Looking
  <2> HIDE DEF i
  <2>9. \E k \in 1 .. Len(listing') :
          /\ listing'[k] = "dev" /\ \A j \in k .. Len(listing') : Present(listing[j])'
          /\ at'[q] \in Looking => k <= Len(todo'[q])
    BY <2>4, <2>6, <2>7, <2>8
  <2>10. QED
    BY <1>1, <2>7, <2>8, <2>9 DEF PathOK, Looking
<1>2. CASE at'[q] = "snapshot"
  BY <1>2, PathElsewhere DEF UsePlaces
<1>3. QED
  BY <1>1, <1>2 DEF Checked, Go, BuildSets, BuildTypeOK

LEMMA PathOfPublish ==
  ASSUME BuildSets, Serial, IndexOK, NEW q \in Commands, usage' = usage, DraftOK(q), PublishIndex(q)
  PROVE  PathOK(q)'
<1>0. /\ at[q] = "publish" /\ UNCHANGED <<interface, realization, object>> /\ listing' = Append(listing, Slot(q))
      /\ listing \in Seq(Slots) /\ seen[q] \in Contents /\ seen[q].state = State(q)
  BY DEF PublishIndex, IndexOK, BuildSets, BuildTypeOK, MemoryOK, Writing, Replacing
<1>1. CASE Goal[q] = "use" /\ at'[q] = "readIndex" /\ phase'[q] = "link"
  <2>1. Slot(q) = "dev" /\ State(q) = "compiled" /\ Goal[q] # "check"
    BY <1>1 DEF Slot, State
  <2>2. interface["dev"] = seen[q] /\ realization["dev"] = seen[q] /\ ObjectsAre("dev", Objects, seen[q].source)
    BY <1>0, <2>1, SerialImplies DEF DraftOK
  <2>3. WholeDev' /\ Present("dev")'
    BY <1>0, <2>1, <2>2, MissingElse DEF WholeDev, Present, ObjectsAre
  <2> DEFINE i == Len(listing) + 1
  <2>4. i \in 1 .. Len(listing') /\ listing'[i] = "dev" /\ \A j \in i .. Len(listing') : j = i
    BY <1>0, <2>1
  <2>5. at'[q] \notin Looking
    BY <1>1 DEF Looking
  <2> HIDE DEF i
  <2>6. \E k \in 1 .. Len(listing') :
          /\ listing'[k] = "dev" /\ \A j \in k .. Len(listing') : Present(listing[j])'
          /\ at'[q] \in Looking => k <= Len(todo'[q])
    BY <2>3, <2>4, <2>5 DEF Present
  <2>7. QED
    BY <1>1, <2>3, <2>5, <2>6 DEF PathOK, Looking
<1>2. CASE at'[q] = "done"
  BY <1>2, PathElsewhere DEF UsePlaces
<1>3. QED
  BY <1>1, <1>2 DEF PublishIndex, Go, BuildSets, BuildTypeOK

LEMMA PathOfStep ==
  ASSUME BuildSets, IndexOK, Serial, NEW q \in Commands, usage' = usage, BuildStep(q), DraftOK(q), ReadOK(q), PathOK(q)
  PROVE  PathOK(q)'
<1>0. BuildTypeOK /\ MemoryOK(q)
  BY DEF BuildSets
<1>1. CASE ReadEntries(q)
  BY <1>1, PathOfReadEntries
<1>2. CASE ReadInterface(q)
  <2>1. /\ at[q] = "readInterface" /\ UNCHANGED <<files, todo[q], phase[q]>>
        /\ \/ at'[q] \in {"snapshot", "failed"}
           \/ at'[q] = "readRealization" /\ seen'[q] = interface[todo[q][Len(todo[q])]]
    BY <1>0, <1>2 DEF ReadInterface, Reject, Go, BuildTypeOK
  <2>2. at[q] \in UsePlaces /\ at[q] \in Looking
    BY <2>1 DEF UsePlaces, Looking
  <2>3. QED
    BY <2>1, <2>2, PathKept
<1>3. CASE ReadRealization(q)
  BY <1>3, PathOfReadRealization
<1>4. CASE ReadObject(q)
  <2>1. /\ at[q] = "readObjects" /\ UNCHANGED <<files, todo[q], phase[q], seen>>
        /\ at'[q] \in {"snapshot", "failed", "readObjects"}
    BY <1>0, <1>4 DEF ReadObject, Reject, Go, BuildTypeOK
  <2>2. at[q] \in UsePlaces /\ at[q] \in Looking
    BY <2>1 DEF UsePlaces, Looking
  <2>3. todo[q] # <<>> /\ todo[q][Len(todo[q])] = "dev" /\ seen'[q].state = "compiled"
    BY <2>1 DEF PathOK
  <2>4. QED
    BY <2>1, <2>2, <2>3, PathKept
<1>5. CASE Checked(q)
  BY <1>5, PathOfChecked
<1>6. CASE Accept(q) \/ LinkObject(q)
  <2>1. /\ at[q] \in {"readObjects", "link"} /\ at'[q] \in {"link", "failed"} /\ UNCHANGED <<files, todo[q], phase[q]>>
    BY <1>0, <1>6 DEF Accept, LinkObject, Go, BuildTypeOK
  <2>2. at[q] \in UsePlaces /\ at'[q] \notin Looking
    BY <2>1 DEF UsePlaces, Looking
  <2>3. QED
    BY <2>1, <2>2, PathKept
<1>7. CASE PublishIndex(q)
  BY <1>7, PathOfPublish
<1>8. CASE StartUse(q) \/ StartBuild(q) \/ Kill(q) \/ Linked(q)
  <2>1. at'[q] \notin UsePlaces \/ (at'[q] = "readIndex" /\ phase'[q] = "check")
    BY <1>0, <1>8 DEF StartUse, StartBuild, Kill, Linked, Fresh, Go, UsePlaces, BuildTypeOK
  <2>2. QED
    BY <2>1, PathElsewhere DEF PathOK, Looking
<1>9. CASE Write(q) /\ ~PublishIndex(q)
  <2>1. at'[q] \notin UsePlaces
    BY <1>0, <1>9 DEF Write, Snapshot, ReadKept, Purge, PurgeInterface, PurgeRealization, WriteKept, WriteInterface,
       WriteRealization, WriteObject, LinkBinaries, ReadBack, Go, UsePlaces, BuildTypeOK
  <2>2. QED
    BY <2>1, PathElsewhere
<1>10. QED
  BY <1>1, <1>2, <1>3, <1>4, <1>5, <1>6, <1>7, <1>8, <1>9 DEF BuildStep, Use

-----------------------------------------------------------------------------
(* What Build promises                                                      *)

LEMMA BuildInit_Inv == BuildInit => BuildInv
<1> SUFFICES ASSUME BuildInit PROVE BuildInv
  OBVIOUS
<1>1. BuildTypeOK
  <2>1. <<>> \in Seq(Slots) /\ 0 \in 0 .. Objects /\ 0 \in 0 .. MaxRevision /\ 0 \in 0 .. MaxKills /\ 1 \in 1 .. MaxRevision
    BY BuildAssumption
  <2>2. QED
    BY <2>1 DEF BuildInit, BuildTypeOK, BuildPlaces, Ends
<1>2. SoleOK
  BY DEF BuildInit, SoleOK, Stopped, Ends
<1>3. \A s : ~Listed(s)
  BY DEF BuildInit, Listed
<1>4. IndexOK
  BY <1>3 DEF BuildInit, IndexOK, ListedUnmixed, Removing, Replacing
<1>5. ASSUME NEW q \in Commands PROVE MemoryOK(q) /\ DraftOK(q) /\ ReadOK(q) /\ PathOK(q)
  <2>1. at[q] = "idle" /\ linked[q] = {} /\ wanted[q] <= source
    BY DEF BuildInit
  <2>2. QED
    BY <2>1 DEF MemoryOK, DraftOK, ReadOK, PathOK, Stopped, Ends, UsePlaces, Writing, Removing, Replacing, Looking
<1>6. QED
  BY <1>1, <1>2, <1>4, <1>5 DEF BuildInv

LEMMA BuildInv_Step == BuildInv /\ [BuildNext]_buildVars => BuildInv'
<1> SUFFICES ASSUME BuildInv, [BuildNext]_buildVars PROVE BuildInv'
  OBVIOUS
<1>0. BuildSets /\ SoleOK /\ IndexOK
  BY DEF BuildInv, BuildSets
<1>1. ASSUME NEW q \in Commands, usage' = usage, BuildStep(q) PROVE BuildInv'
  <2>1. BuildSets' /\ SoleOK' /\ IndexOK'
    BY <1>0, <1>1, StepKnows, SoleStays, IndexStays DEF BuildInv
  <2>2. ASSUME NEW o \in Commands PROVE DraftOK(o)' /\ ReadOK(o)' /\ PathOK(o)'
    <3>1. CASE o = q
      <4>1. Serial => PathOK(o)'
        BY <1>0, <1>1, <3>1, PathOfStep DEF BuildInv
      <4>2. ~Serial => PathOK(o)'
        BY <1>1, GuardedStays DEF PathOK
      <4>3. QED
        BY <1>0, <1>1, <3>1, <4>1, <4>2, DraftOfStep, ReadOfStep DEF BuildInv
    <3>2. CASE o # q
      <4>1. DraftOK(o)' /\ ReadOK(o)'
        BY <1>0, <1>1, <3>2, DraftOfOther, ReadOfOther DEF BuildInv
      <4>2. Serial => Stopped(o)'
        BY <1>0, <1>1, <3>2, SerialAlone, OtherCommands DEF BuildSets, CommandMemory, Stopped
      <4>3. Serial => at'[o] \notin UsePlaces
        BY <4>2 DEF Stopped, Ends, UsePlaces
      <4>4. PathOK(o)'
        BY <1>1, <4>3, PathElsewhere, GuardedStays DEF PathOK
      <4>5. QED
        BY <4>1, <4>4
    <3>3. QED
      BY <3>1, <3>2
  <2>3. QED
    BY <2>1, <2>2 DEF BuildInv, BuildSets
<1>2. ASSUME usage' = usage, UNCHANGED <<files, at, memory, kills>>, BuildSets' PROVE BuildInv'
  <2>1. UNCHANGED <<listing, interface, realization, object, at, wanted, phase, todo, seen, count, linked, usage>>
    BY <1>2 DEF files, memory
  <2>2. SoleOK'
    BY <1>0, <2>1 DEF SoleOK, Stopped, Serial, DevSerial, Slot
  <2>3. IndexOK'
    BY <1>0, <2>1 DEF IndexOK, ListedUnmixed, Listed, Serial, Slot
  <2>4. ASSUME NEW q \in Commands PROVE DraftOK(q)' /\ ReadOK(q)' /\ PathOK(q)'
    <3>1. DraftOK(q) /\ ReadOK(q) /\ PathOK(q)
      BY DEF BuildInv
    <3>2. DraftOK(q)' /\ ReadOK(q)'
      BY <2>1, <3>1 DEF DraftOK, ReadOK, Guarded, Serial, DevSerial, Slot, ObjectsAre
    <3>3. PathOK(q)'
      BY <2>1, <3>1 DEF PathOK, Serial, Present, WholeDev, ObjectsAre
    <3>4. QED
      BY <3>2, <3>3
  <2>5. QED
    BY <1>2, <2>2, <2>3, <2>4 DEF BuildInv, BuildSets
<1>3. CASE Edit /\ usage' = usage
  BY <1>0, <1>2, <1>3, EditKnows DEF Edit
<1>4. CASE UNCHANGED buildVars
  <2>1. BuildSets'
    BY <1>0, <1>4 DEF buildVars, files, memory, BuildSets, BuildTypeOK, MemoryOK, Stopped
  <2>2. QED
    BY <1>2, <1>4, <2>1 DEF buildVars
<1>5. QED
  BY <1>1, <1>3, <1>4 DEF BuildNext, BuildStep

(* However many commands, slots of objects, edits and kills: what commands  *)
(* know of the files is true.                                               *)
THEOREM BuildInvariance == BuildSpec => []BuildInv
BY BuildInit_Inv, BuildInv_Step, PTL DEF BuildSpec

(* The files of package.pkg and the memory of its commands keep their types *)
(* (package.py, _build; executable.py, prepare_dependencies).               *)
THEOREM BuildTypeCorrect == BuildSpec => []BuildTypeOK
<1>1. BuildInv => BuildTypeOK
  BY DEF BuildInv
<1>2. QED
  BY <1>1, BuildInvariance, PTL

(* While commands are run one at a time, a listed slot never mixes builds,  *)
(* wherever builds are killed or fail to link (package.py:73-95, 523).      *)
THEOREM ListedIsOneBuild == BuildSpec => []ListedUnmixed
<1>1. BuildInv => ListedUnmixed
  BY DEF BuildInv, IndexOK, ListedUnmixed
<1>2. QED
  BY <1>1, BuildInvariance, PTL

(* While the commands that write "dev" are run one at a time, a program is  *)
(* linked with the objects of one build, the one whose interface it was     *)
(* compiled against, even with tests of the package running beside it       *)
(* (package.py, c_dependencies; executable.py, build_source).               *)
THEOREM LinkedIsOneBuild == BuildSpec => [](DevSerial => LinkedWhole)
<1>1. BuildInv => (DevSerial => LinkedWhole)
  <2> SUFFICES ASSUME BuildInv, DevSerial, NEW q \in Commands, HasLinked(q) PROVE linked[q] = {seen[q].source}
    BY DEF LinkedWhole
  <2>1. at[q] = "link" /\ count[q] # 0
    BY BuildAssumption DEF HasLinked
  <2>2. QED
    BY <2>1 DEF BuildInv, ReadOK
<1>2. QED
  BY <1>1, BuildInvariance, PTL

(* Nor is it linked with a build of an older source than the one found when *)
(* the command began (executable.py:76).                                    *)
THEOREM LinkedIsCurrent == BuildSpec => [](DevSerial => NeverStale)
<1>1. BuildInv => (DevSerial => NeverStale)
  <2> SUFFICES ASSUME BuildInv, DevSerial, NEW q \in Commands, HasLinked(q) PROVE seen[q].source >= wanted[q]
    BY DEF NeverStale
  <2>1. at[q] = "link" /\ phase[q] = "link"
    BY DEF HasLinked, BuildInv, MemoryOK
  <2>2. interface["dev"] = seen[q] /\ wanted[q] <= interface["dev"].source
    BY <2>1 DEF BuildInv, ReadOK, UsePlaces
  <2>3. wanted[q] \in Nat /\ seen[q] \in Contents /\ seen[q].source \in Nat
    BY <2>1, BuildAssumption DEF BuildInv, BuildTypeOK, MemoryOK, Contents
  <2>4. QED
    BY <2>2, <2>3
<1>2. QED
  BY <1>1, BuildInvariance, PTL

\* Once a dependent has found or built the artifacts, nothing that it reads refuses them.
LEMMA NeverRefused ==
  ASSUME BuildInv, BuildNext, NEW q \in Commands, Serial, at'[q] = "failed"
  PROVE  at[q] \in {"snapshot", "writeObjects", "failed"}
<1>0. BuildSets /\ BuildTypeOK /\ MemoryOK(q) /\ ReadOK(q) /\ PathOK(q) /\ DevSerial
  BY SerialImplies DEF BuildInv, BuildSets
<1> DEFINE entry == todo[q][Len(todo[q])]
\* What a reading command that is to link finds at the entry it has come to.
<1>1. ASSUME at[q] \in Looking, phase[q] = "link"
      PROVE  WholeDev /\ todo[q] # <<>> /\ Present(entry)
  <2>1. /\ Len(todo[q]) <= Len(listing) /\ \A i \in 1 .. Len(todo[q]) : todo[q][i] = listing[i]
        /\ WholeDev /\ \E i \in 1 .. Len(listing) : Way(q, i)
    BY <1>0, <1>1 DEF PathOK, Looking, UsePlaces, Way
  <2>2. PICK i \in 1 .. Len(listing) : Way(q, i)
    BY <2>1
  <2>3. i <= Len(todo[q]) /\ Len(todo[q]) \in Nat /\ Len(listing) \in Nat
    BY <1>0, <1>1, <2>2 DEF Way, BuildTypeOK
  <2>4. Len(todo[q]) \in 1 .. Len(todo[q]) /\ Len(todo[q]) \in i .. Len(listing)
    BY <2>1, <2>3
  <2>5. Present(listing[Len(todo[q])])
    BY <2>2, <2>4 DEF Way
  <2>6. QED
    BY <2>1, <2>4, <2>5
<1>2. CASE ReadInterface(q)
  <2>1. phase[q] = "link" /\ at[q] \in Looking /\ (todo[q] = <<>> \/ interface[entry] = Missing)
    BY <1>0, <1>2 DEF ReadInterface, Reject, Go, Looking, BuildTypeOK
  <2>2. QED
    BY <1>1, <2>1 DEF Present
<1>3. CASE ReadRealization(q)
  <2>1. /\ phase[q] = "link" /\ at[q] = "readRealization" /\ at[q] \in Looking
        /\ realization[entry] = Missing \/ (entry = "dev" /\ realization[entry] # seen[q])
    BY <1>0, <1>3 DEF ReadRealization, Usable, Reject, Go, Looking, BuildTypeOK
  <2>2. entry = "dev" => interface["dev"] = seen[q]
    BY <1>0, <2>1 DEF ReadOK
  <2>3. QED
    BY <1>1, <2>1, <2>2 DEF Present, WholeDev
<1>4. CASE ReadObject(q)
  <2>1. /\ phase[q] = "link" /\ at[q] = "readObjects" /\ at[q] \in Looking
        /\ count[q] + 1 \in 1 .. Objects /\ object["dev"][count[q] + 1] # seen[q].source
    BY <1>0, <1>4, BuildAssumption DEF ReadObject, Reject, Go, Looking, BuildTypeOK
  <2>2. realization["dev"] = seen[q]
    BY <1>0, <2>1 DEF ReadOK
  <2>3. QED
    BY <1>1, <2>1, <2>2 DEF WholeDev, ObjectsAre
<1>5. CASE LinkObject(q)
  <2>1. at[q] = "link" /\ count[q] + 1 \in 1 .. Objects /\ object["dev"][count[q] + 1] = Missing
    BY <1>0, <1>5, BuildAssumption DEF LinkObject, Go, BuildTypeOK
  <2>2. object["dev"][count[q] + 1] = seen[q].source /\ seen[q].source \in 1 .. MaxRevision
    BY <1>0, <2>1 DEF ReadOK, ObjectsAre, MemoryOK, Contents
  <2>3. QED
    BY <2>1, <2>2, MissingElse
<1>6. CASE BuildStep(q) /\ ~ReadInterface(q) /\ ~ReadRealization(q) /\ ~ReadObject(q) /\ ~LinkObject(q)
  BY <1>0, <1>6 DEF BuildStep, StartUse, StartBuild, Kill, Use, ReadEntries, Checked, Accept, Linked, Write, Snapshot,
     ReadKept, Purge, PurgeInterface, PurgeRealization, WriteKept, WriteInterface, WriteRealization, WriteObject,
     LinkBinaries, ReadBack, PublishIndex, Go, BuildTypeOK
<1>7. CASE \E o \in Commands \ {q} : BuildStep(o)
  BY <1>0, <1>7, OtherCommands DEF CommandMemory
<1>8. CASE Edit
  BY <1>8 DEF Edit
<1>9. QED
  BY <1>2, <1>3, <1>4, <1>5, <1>6, <1>7, <1>8 DEF BuildNext, BuildStep

(* While commands are run one at a time, a dependent recovers from whatever *)
(* a killed build left behind: it fails only where its source does not      *)
(* compile or its binaries do not link (executable.py:111-123).             *)
THEOREM DependentsRecover == BuildSpec => Recovers
<1>1. BuildInv /\ [BuildNext]_buildVars =>
        [\A q \in Commands : Serial /\ Goal[q] = "use" /\ at'[q] = "failed" =>
            at[q] \in {"snapshot", "writeObjects", "failed"}]_buildVars
  BY NeverRefused
<1>2. QED
  BY <1>1, BuildInvariance, PTL DEF BuildSpec, Recovers
=============================================================================
