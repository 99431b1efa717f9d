------------------------------ MODULE Registry ------------------------------
(***************************************************************************)
(* The local package registry of py_compiler/packaging/registry.py, for    *)
(* one package name: publishers that install a release each, and builds    *)
(* that resolve the package, copy the release into the cache of their root *)
(* and pin it in package.lock.                                             *)
(*                                                                         *)
(* All state is in the file system; processes share it and may be killed   *)
(* between any two steps, which drops the flock a publisher holds.  A      *)
(* rename and the os.replace of write_atomic are single steps.             *)
(***************************************************************************)
EXTENDS Naturals

CONSTANTS
  Publishers,
  Release,       \* Release[p] = [version, source, config]: what p publishes
  Builds,        \* processes that build a root that depends on the package
  Roots,
  RootOf,        \* RootOf[b]: the root b builds
  Accepts,       \* Accepts[r]: the versions the selector in the manifest of r matches
  None,          \* no file, no process
  Parts,         \* directories copied to materialise a release
  MaxCrashes     \* bound on killed processes

Processes == Publishers \cup Builds
Releases == {Release[p] : p \in Publishers}
Versions == {e.version : e \in Releases}
Sources == {e.source : e \in Releases}
Configs == {e.config : e \in Releases}   \* compiler and target of the build

ASSUME RegistryAssumption ==
  /\ Releases \subseteq [version : Nat, source : Sources, config : Configs]
  /\ Publishers \cap Builds = {} /\ None \notin Processes \cup Releases
  /\ RootOf \in [Builds -> Roots]
  /\ Accepts \in [Roots -> SUBSET Versions]
  /\ Parts \in Nat \ {0} /\ MaxCrashes \in Nat

VARIABLES
  folders,   \* version directories in the registry
  installed, \* releases whose distribution directory is in place
  index,     \* index[v]: the release index.json of v names, or None
  flock,     \* the publisher that holds .sev-publish.lock
  cache,     \* cache[r]: <<release, parts>> under package.pkg/cache/registry
  lock,      \* lock[r]: the [version, source] that package.lock pins, or None
  pc,
  pin,       \* pin[b]: what package.lock pinned when b read it
  picked,    \* picked[b]: the version directory b took
  choice,    \* choice[b]: the release b resolved
  stage,     \* stage[b]: parts b has copied into its temporary directory
  crashes

registry == <<folders, installed, index>>
roots == <<cache, lock>>
local == <<pin, picked, choice, stage>>
vars == <<registry, flock, roots, pc, local, crashes>>

Init ==
  /\ folders = {}
  /\ installed = {}
  /\ index = [v \in Versions |-> None]
  /\ flock = None
  /\ cache = [r \in Roots |-> {}]
  /\ lock = [r \in Roots |-> None]
  /\ pc = [q \in Processes |-> "start"]
  /\ pin = [b \in Builds |-> None]
  /\ picked = [b \in Builds |-> None]
  /\ choice = [b \in Builds |-> None]
  /\ stage = [b \in Builds |-> 0]
  /\ crashes = 0

Goto(q, place) == pc' = [pc EXCEPT ![q] = place]

-----------------------------------------------------------------------------
(* publish_package                                                          *)

Version(p) == Release[p].version
Published(p) == index[Version(p)]

\* The index of the version names a release of another source.
Conflict(p) == Published(p) # None /\ Published(p).source # Release[p].source

\* The index read without the lock: a conflict, the same release, or go on and build.
Check(p) ==
  /\ pc[p] = "start"
  /\ Goto(p, IF Conflict(p) THEN "conflict"
             ELSE IF Published(p) = Release[p] THEN "published" ELSE "build")
  /\ UNCHANGED <<registry, flock, roots, local, crashes>>

\* The staged project compiles, or publish_package raises.
Compile(p) ==
  /\ pc[p] = "build"
  /\ Goto(p, "lock") \/ Goto(p, "failed")
  /\ UNCHANGED <<registry, flock, roots, local, crashes>>

Lock(p) ==
  /\ pc[p] = "lock"
  /\ flock = None
  /\ flock' = p
  /\ Goto(p, "recheck")
  /\ UNCHANGED <<registry, roots, local, crashes>>

\* The check before the build taken for sufficient.
Recheck_bug(p) ==
  /\ pc[p] = "recheck"
  /\ Goto(p, "mkdir")
  /\ UNCHANGED <<registry, flock, roots, local, crashes>>

Recheck(p) ==
  /\ pc[p] = "recheck"
  /\ IF Conflict(p)
     THEN Goto(p, "conflict") /\ flock' = None
     ELSE Goto(p, "mkdir") /\ UNCHANGED flock
  /\ UNCHANGED <<registry, roots, local, crashes>>

\* destination.exists(), else the version directory is made for it.
MakeFolder(p) ==
  /\ pc[p] = "mkdir"
  /\ IF Release[p] \in installed
     THEN Goto(p, "index") /\ UNCHANGED folders
     ELSE Goto(p, "rename") /\ folders' = folders \cup {Version(p)}
  /\ UNCHANGED <<installed, index, flock, roots, local, crashes>>

\* The index written before the distribution is in place.
Rename_bug(p) ==
  /\ pc[p] = "rename"
  /\ index' = [index EXCEPT ![Version(p)] = Release[p]]
  /\ Goto(p, "index")
  /\ UNCHANGED <<folders, installed, flock, roots, local, crashes>>

Rename(p) ==
  /\ pc[p] = "rename"
  /\ installed' = installed \cup {Release[p]}
  /\ Goto(p, "index")
  /\ UNCHANGED <<folders, index, flock, roots, local, crashes>>

\* write_atomic(index), and the end of the `with' releases the lock.
WriteIndex_bug(p) ==
  /\ pc[p] = "index"
  /\ index' = [index EXCEPT ![Version(p)] = Release[p]]
  /\ Goto(p, "published")
  /\ UNCHANGED <<folders, installed, flock, roots, local, crashes>>

WriteIndex(p) ==
  /\ pc[p] = "index"
  /\ index' = [index EXCEPT ![Version(p)] = Release[p]]
  /\ flock' = None
  /\ Goto(p, "published")
  /\ UNCHANGED <<folders, installed, roots, local, crashes>>

Publish(p) ==
  Check(p) \/ Compile(p) \/ Lock(p) \/ Recheck(p) \/ MakeFolder(p) \/ Rename(p) \/ WriteIndex(p)

-----------------------------------------------------------------------------
(* dependency_root, release and record_lock                                 *)

\* dependency_root: package.lock is read once, before the registry.
ReadLock(b) ==
  /\ pc[b] = "start"
  /\ pin' = [pin EXCEPT ![b] = lock[RootOf[b]]]
  /\ Goto(b, "list")
  /\ UNCHANGED <<registry, flock, roots, picked, choice, stage, crashes>>

\* The version directories a build may take: the pinned one, or what the manifest asks.
Matching_bug(b) == folders \cap Accepts[RootOf[b]]

Matching(b) == folders \cap (IF pin[b] # None THEN {pin[b].version} ELSE Accepts[RootOf[b]])

\* release: the newest matching directory; "no registry release" if there is none.
ListVersions(b) ==
  /\ pc[b] = "list"
  /\ IF Matching(b) = {}
     THEN Goto(b, "missing") /\ UNCHANGED picked
     ELSE \E v \in Matching(b) :
            /\ \A w \in Matching(b) : w <= v
            /\ picked' = [picked EXCEPT ![b] = v]
            /\ Goto(b, "read")
  /\ UNCHANGED <<registry, flock, roots, pin, choice, stage, crashes>>

\* release: index.json, which may not be there, and the source the pin asks for.
ReadIndex(b) ==
  LET found == index[picked[b]]
  IN
  /\ pc[b] = "read"
  /\ IF found = None THEN Goto(b, "noIndex") /\ UNCHANGED choice
     ELSE IF pin[b] # None /\ found.source # pin[b].source
     THEN Goto(b, "mismatch") /\ UNCHANGED choice
     ELSE choice' = [choice EXCEPT ![b] = found] /\ Goto(b, "cache")
  /\ UNCHANGED <<registry, flock, roots, pin, picked, stage, crashes>>

Cached(b) == \E n \in 0 .. Parts : <<choice[b], n>> \in cache[RootOf[b]]

\* The destination is there, or a temporary directory is filled part by part.
Materialize(b) ==
  /\ pc[b] = "cache"
  /\ Goto(b, IF Cached(b) THEN "record" ELSE "copy")
  /\ stage' = [stage EXCEPT ![b] = 0]
  /\ UNCHANGED <<registry, flock, roots, pin, picked, choice, crashes>>

CopyPart(b) ==
  /\ pc[b] = "copy"
  /\ stage[b] < Parts
  /\ stage' = [stage EXCEPT ![b] = @ + 1]
  /\ UNCHANGED <<registry, flock, roots, pc, pin, picked, choice, crashes>>

\* The rename fails when another build was faster; its copy serves as well.
Install_bug(b) ==
  /\ pc[b] = "copy"
  /\ cache' = IF Cached(b) THEN cache
              ELSE [cache EXCEPT ![RootOf[b]] = @ \cup {<<choice[b], stage[b]>>}]
  /\ Goto(b, "record")
  /\ UNCHANGED <<registry, flock, lock, local, crashes>>

Install(b) ==
  /\ pc[b] = "copy" /\ stage[b] = Parts
  /\ cache' = IF Cached(b) THEN cache
              ELSE [cache EXCEPT ![RootOf[b]] = @ \cup {<<choice[b], stage[b]>>}]
  /\ Goto(b, "record")
  /\ UNCHANGED <<registry, flock, lock, local, crashes>>

RecordLock(b) ==
  /\ pc[b] = "record"
  /\ lock' = [lock EXCEPT ![RootOf[b]] =
                [version |-> choice[b].version, source |-> choice[b].source]]
  /\ Goto(b, "built")
  /\ UNCHANGED <<registry, flock, cache, local, crashes>>

Build(b) ==
  ReadLock(b) \/ ListVersions(b) \/ ReadIndex(b) \/ Materialize(b) \/ CopyPart(b) \/ Install(b) \/ RecordLock(b)

-----------------------------------------------------------------------------
PublishEnds == {"published", "conflict", "failed"}
BuildEnds == {"built", "missing", "noIndex", "mismatch"}
Ended(q) == pc[q] \in PublishEnds \cup BuildEnds

\* The process is killed; the kernel drops its flock.
Crash(q) ==
  /\ ~Ended(q)
  /\ crashes < MaxCrashes
  /\ crashes' = crashes + 1
  /\ flock' = IF flock = q THEN None ELSE flock
  /\ Goto(q, "crashed")
  /\ UNCHANGED <<registry, roots, local>>

\* The command is given again: after a crash, or a build of a root that was built.
Again(q) ==
  /\ pc[q] = "crashed" \/ (q \in Builds /\ Ended(q))
  /\ Goto(q, "start")
  /\ UNCHANGED <<registry, flock, roots, local, crashes>>

Next ==
  \/ \E p \in Publishers : Publish(p)
  \/ \E b \in Builds : Build(b)
  \/ \E q \in Processes : Crash(q) \/ Again(q)

Spec == Init /\ [][Next]_vars

\* Processes run on, and a killed command is given again; a build need not be.
FairSpec ==
  /\ Spec
  /\ \A p \in Publishers : WF_vars(Publish(p)) /\ WF_vars(Again(p))
  /\ \A b \in Builds : WF_vars(Build(b))

-----------------------------------------------------------------------------
Places == PublishEnds \cup BuildEnds \cup
  {"start", "build", "lock", "recheck", "mkdir", "rename", "index",
   "list", "read", "cache", "copy", "record", "crashed"}

Pins == [version : Versions, source : Sources]

TypeOK ==
  /\ folders \subseteq Versions
  /\ installed \subseteq Releases
  /\ index \in [Versions -> Releases \cup {None}]
  /\ \A v \in Versions : index[v] # None => index[v].version = v
  /\ flock \in Publishers \cup {None}
  /\ cache \in [Roots -> SUBSET (Releases \X (0 .. Parts))]
  /\ lock \in [Roots -> Pins \cup {None}]
  /\ pc \in [Processes -> Places]
  /\ pin \in [Builds -> Pins \cup {None}]
  /\ picked \in [Builds -> Versions \cup {None}]
  /\ choice \in [Builds -> Releases \cup {None}]
  /\ stage \in [Builds -> 0 .. Parts]
  /\ crashes \in 0 .. MaxCrashes

(* The index names only releases that are wholly in place: a crash at any    *)
(* point of publish_package leaves either the old index or a usable new one. *)
IndexUsable == \A v \in Versions : index[v] # None => index[v] \in installed

(* "A different source cannot silently replace an existing version"         *)
(* (registry.py:170): once released, a version keeps its source, whichever  *)
(* publishers raced past the check before the build.                        *)
VersionsImmutable ==
  [][\A v \in Versions : index[v] # None =>
        index'[v] # None /\ index'[v].source = index[v].source]_vars

(* A cached release is complete, also when builds of one root race and are  *)
(* killed while they copy.                                                  *)
CacheWhole == \A r \in Roots : \A e \in cache[r] : e[2] = Parts

\* No other process builds the root.
OneBuild(r) == \A b, c \in Builds : RootOf[b] = r /\ RootOf[c] = r => b = c

(* "`package.lock` pins exact dependency identities"                        *)
(* (docs/sip/0003-Packages.md:16): for a root with one build at a time, the *)
(* pin never changes, whatever is published later, and still resolves.      *)
PinsKept ==
  [][\A r \in Roots : lock[r] # None /\ OneBuild(r) =>
        /\ lock'[r] = lock[r]
        /\ \A b \in Builds : RootOf[b] = r => pc'[b] \notin {"mismatch", "missing", "noIndex"}]_vars

(* Every publisher comes to an end: the lock is released on the conflict    *)
(* path, on success, and when its holder is killed.                         *)
PublishersEnd == \A p \in Publishers : <>[](pc[p] \in PublishEnds)

(* registry.py:133 and docs/sip/0003-Packages.md:53 say that publishing     *)
(* installs atomically.  Then no build finds a release half installed.      *)
InstallAtomic == \A b \in Builds : pc[b] # "noIndex"

-----------------------------------------------------------------------------
(* The inductive invariant behind these properties.                         *)

\* A build that reads an index took a version, one past it has a release.
Resolved ==
  \A b \in Builds :
    /\ pc[b] = "read" => picked[b] \in Versions
    /\ pc[b] \in {"cache", "copy", "record"} => choice[b] \in Releases

\* Between Lock and the end of the `with' a publisher holds the flock.
LockHeld ==
  \A p \in Publishers : pc[p] \in {"recheck", "mkdir", "rename", "index"} => flock = p

\* What it found under the lock stays true while it holds it.
Entitled ==
  \A p \in Publishers :
    /\ pc[p] \in {"mkdir", "rename", "index"} => ~Conflict(p)
    /\ pc[p] = "rename" => Version(p) \in folders
    /\ pc[p] = "index" => Release[p] \in installed

\* What is installed or indexed is in its version directory.
Placed ==
  /\ \A e \in installed : e.version \in folders
  /\ \A v \in Versions : index[v] # None => index[v] \in installed

\* A version that is published, from this source.
Live(v, s) == v \in folders /\ index[v] # None /\ index[v].source = s

\* The only build of a root works from the pin it read.
Pinned ==
  /\ \A r \in Roots : OneBuild(r) /\ lock[r] # None => Live(lock[r].version, lock[r].source)
  /\ \A b \in Builds : OneBuild(RootOf[b]) =>
       /\ pc[b] \in {"missing", "noIndex", "mismatch"} => lock[RootOf[b]] = None
       /\ pc[b] \in {"list", "read", "cache", "copy", "record"} => pin[b] = lock[RootOf[b]]
       /\ pc[b] = "read" => /\ picked[b] \in folders
                            /\ pin[b] # None => picked[b] = pin[b].version
       /\ pc[b] \in {"cache", "copy", "record"} =>
            /\ Live(choice[b].version, choice[b].source)
            /\ pin[b] # None => pin[b] = [version |-> choice[b].version, source |-> choice[b].source]

IndInv == TypeOK /\ Resolved /\ LockHeld /\ Entitled /\ Placed /\ CacheWhole
=============================================================================
