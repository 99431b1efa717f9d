-------------------------------- MODULE Build --------------------------------
(***************************************************************************)
(* The output directory package.pkg of one package: the builds that write  *)
(* it (_build, checkpoint and prepare_output of                            *)
(* py_compiler/packaging/package.py) and the commands that depend on the   *)
(* package, which check it, build it when it is stale and link its objects *)
(* (c_dependencies, and prepare_dependencies and build_source of           *)
(* executable.py).                                                         *)
(*                                                                         *)
(* What a build writes is a function of the source it read, so a file is   *)
(* represented by that revision: two files have the checksum of each other *)
(* when they come from one revision.  A command may be killed between any  *)
(* two steps; the files stay.  No lock is taken anywhere.                  *)
(***************************************************************************)
EXTENDS Naturals, Sequences, Filtering

CONSTANTS
  Commands,
  Goal,          \* Goal[q]: "use", "build", "check" or "test"
  Usages,        \* which commands a user gives, and which of them one at a time
  Objects,       \* number of object files
  MaxRevision,   \* bound on edits of the source
  MaxKills,      \* bound on killed commands
  MaxEntries,    \* bound on the index when a command starts beside others
  Missing

Slots == {"dev", "test"}
Contents == [source : 1 .. MaxRevision, state : {"compiled", "registered"}]

ASSUME BuildAssumption ==
  /\ Goal \in [Commands -> {"use", "build", "check", "test"}]
  /\ Usages \subseteq [given : SUBSET Commands, serial : SUBSET Commands]
  /\ Objects \in Nat \ {0} /\ MaxRevision \in Nat \ {0} /\ MaxKills \in Nat /\ MaxEntries \in Nat
  /\ Missing \notin Nat /\ Missing \notin Contents

VARIABLES
  usage,        \* the member of Usages that this user keeps to
  source,       \* the revision of the source files
  listing,      \* interfaces listed in package.pkgi/index.json, as slots
  interface,    \* interface[s]: the [source, state] lib.sevi was built from, or Missing
  realization,  \* realization[s]: the same of metadata/realizations, or Missing
  object,       \* object[s][n]: revision of the n-th object file, or Missing
  at,           \* at[q]: where q is
  wanted,       \* wanted[q]: the source when q looked for stale dependencies
  phase,        \* phase[q]: "check" before, "link" after the dependency is up to date
  todo,         \* todo[q]: entries of the index still to try, or to write back
  seen,         \* seen[q]: the [source, state] that q writes, or reads
  count,        \* count[q]: objects written, checked or linked
  linked,       \* linked[q]: revisions of the objects in the binary of q
  kills

files == <<listing, interface, realization, object>>
memory == <<wanted, phase, todo, seen, count, linked>>
buildVars == <<usage, source, files, at, memory, kills>>

Slot(q) == IF Goal[q] = "test" THEN "test" ELSE "dev"
State(q) == IF Goal[q] = "check" THEN "registered" ELSE "compiled"

BuildInit ==
  /\ usage \in Usages
  /\ source = 1
  /\ listing = <<>>
  /\ interface = [s \in Slots |-> Missing]
  /\ realization = [s \in Slots |-> Missing]
  /\ object = [s \in Slots |-> [n \in 1 .. Objects |-> Missing]]
  /\ at = [q \in Commands |-> "idle"]
  /\ wanted = [q \in Commands |-> 0]
  /\ phase = [q \in Commands |-> "check"]
  /\ todo = [q \in Commands |-> <<>>]
  /\ seen = [q \in Commands |-> Missing]
  /\ count = [q \in Commands |-> 0]
  /\ linked = [q \in Commands |-> {}]
  /\ kills = 0

Ends == {"idle", "done", "failed", "killed"}
Stopped(q) == at[q] \in Ends

Go(q, place) == at' = [at EXCEPT ![q] = place]

\* The memory of a process that begins or is gone.
Fresh(q, revision) ==
  /\ wanted' = [wanted EXCEPT ![q] = revision]
  /\ phase' = [phase EXCEPT ![q] = "check"]
  /\ todo' = [todo EXCEPT ![q] = <<>>]
  /\ seen' = [seen EXCEPT ![q] = Missing]
  /\ count' = [count EXCEPT ![q] = 0]
  /\ linked' = [linked EXCEPT ![q] = {}]

-----------------------------------------------------------------------------
(* A command starts.                                                        *)

MayStart(q) ==
  /\ Stopped(q)
  /\ q \in usage.given
  /\ IF q \in usage.serial THEN \A o \in usage.serial : Stopped(o) ELSE Len(listing) <= MaxEntries

\* prepare_dependencies: the source is read first, then the artifacts.
StartUse(q) ==
  /\ Goal[q] = "use" /\ MayStart(q)
  /\ Fresh(q, source)
  /\ Go(q, "readIndex")
  /\ UNCHANGED <<source, files, kills>>

StartBuild(q) ==
  /\ Goal[q] # "use" /\ MayStart(q)
  /\ Fresh(q, 0)
  /\ Go(q, "snapshot")
  /\ UNCHANGED <<source, files, kills>>

-----------------------------------------------------------------------------
(* c_dependencies                                                           *)

\* prepare_dependencies without its except clause.
Reject_bug(q) == Go(q, "failed")

\* A failed check sends prepare_dependencies to a build; after that it is an error.
Reject(q) == Go(q, IF phase[q] = "check" THEN "snapshot" ELSE "failed")

ReadEntries(q) ==
  /\ at[q] = "readIndex"
  /\ todo' = [todo EXCEPT ![q] = listing]
  /\ Go(q, "readInterface")
  /\ UNCHANGED <<source, files, wanted, phase, seen, count, linked, kills>>

\* The latest entry left, or "build compatible production artifacts first".
ReadInterface(q) ==
  LET entry == todo[q][Len(todo[q])]
  IN
  /\ at[q] = "readInterface"
  /\ IF todo[q] = <<>> \/ interface[entry] = Missing
     THEN Reject(q) /\ UNCHANGED seen
     ELSE Go(q, "readRealization") /\ seen' = [seen EXCEPT ![q] = interface[entry]]
  /\ UNCHANGED <<source, files, wanted, phase, todo, count, linked, kills>>

\* An entry of another target, of tests or of a checkpoint is passed over.
Usable(entry, q) == entry = "dev" /\ realization[entry].state = "compiled"

ReadRealization(q) ==
  LET entry == todo[q][Len(todo[q])]
  IN
  /\ at[q] = "readRealization"
  /\ IF realization[entry] = Missing
     THEN Reject(q) /\ UNCHANGED <<todo, count>>
     ELSE IF ~Usable(entry, q)
     THEN /\ todo' = [todo EXCEPT ![q] = SubSeq(@, 1, Len(@) - 1)]
          /\ Go(q, "readInterface")
          /\ UNCHANGED count
     ELSE IF realization[entry] # seen[q]
     THEN Reject(q) /\ UNCHANGED <<todo, count>>
     ELSE /\ count' = [count EXCEPT ![q] = 0]
          /\ Go(q, "readObjects")
          /\ UNCHANGED todo
  /\ UNCHANGED <<source, files, wanted, phase, seen, linked, kills>>

\* Objects are taken on trust.
ReadObject_bug(q) ==
  /\ at[q] = "readObjects" /\ count[q] < Objects
  /\ count' = [count EXCEPT ![q] = @ + 1]
  /\ UNCHANGED <<source, files, at, wanted, phase, todo, seen, linked, kills>>

\* An object that is missing or has another checksum than the realization says.
ReadObject(q) ==
  /\ at[q] = "readObjects" /\ count[q] < Objects
  /\ IF object["dev"][count[q] + 1] # seen[q].source
     THEN Reject(q) /\ UNCHANGED count
     ELSE count' = [count EXCEPT ![q] = @ + 1] /\ UNCHANGED at
  /\ UNCHANGED <<source, files, wanted, phase, todo, seen, linked, kills>>

\* A dependency that checks out is taken for current.
Checked_bug(q) ==
  /\ at[q] = "readObjects" /\ count[q] = Objects /\ phase[q] = "check"
  /\ phase' = [phase EXCEPT ![q] = "link"]
  /\ Go(q, "readIndex")
  /\ UNCHANGED <<source, files, wanted, todo, seen, count, linked, kills>>

\* prepare_dependencies: up to date if it was built from the source read at the start.
Checked(q) ==
  /\ at[q] = "readObjects" /\ count[q] = Objects /\ phase[q] = "check"
  /\ IF seen[q].source = wanted[q]
     THEN phase' = [phase EXCEPT ![q] = "link"] /\ Go(q, "readIndex")
     ELSE UNCHANGED phase /\ Go(q, "snapshot")
  /\ UNCHANGED <<source, files, wanted, todo, seen, count, linked, kills>>

Accept(q) ==
  /\ at[q] = "readObjects" /\ count[q] = Objects /\ phase[q] = "link"
  /\ count' = [count EXCEPT ![q] = 0]
  /\ Go(q, "link")
  /\ UNCHANGED <<source, files, wanted, phase, todo, seen, linked, kills>>

\* build_source: the linker opens the accepted paths one after the other.
LinkObject(q) ==
  /\ at[q] = "link" /\ count[q] < Objects
  /\ IF object["dev"][count[q] + 1] = Missing
     THEN Go(q, "failed") /\ UNCHANGED <<count, linked>>
     ELSE /\ linked' = [linked EXCEPT ![q] = @ \cup {object["dev"][count[q] + 1]}]
          /\ count' = [count EXCEPT ![q] = @ + 1]
          /\ UNCHANGED at
  /\ UNCHANGED <<source, files, wanted, phase, todo, seen, kills>>

Linked(q) ==
  /\ at[q] = "link" /\ count[q] = Objects
  /\ Fresh(q, 0)
  /\ Go(q, "done")
  /\ UNCHANGED <<source, files, kills>>

Use(q) ==
  ReadEntries(q) \/ ReadInterface(q) \/ ReadRealization(q) \/ ReadObject(q) \/ Checked(q)
    \/ Accept(q) \/ LinkObject(q) \/ Linked(q)

-----------------------------------------------------------------------------
(* _build and checkpoint                                                    *)

\* The source is read and compiled; a build with errors writes nothing.
Snapshot(q) ==
  /\ at[q] = "snapshot"
  /\ \/ Go(q, "readKept") /\ seen' = [seen EXCEPT ![q] = [source |-> source, state |-> State(q)]]
     \/ Go(q, "failed") /\ UNCHANGED seen
  /\ UNCHANGED <<source, files, wanted, phase, todo, count, linked, kills>>

\* prepare_output: the entries of other slots, as they are now.
ReadKept(q) ==
  /\ at[q] = "readKept"
  /\ todo' = [todo EXCEPT ![q] = Filter(listing, Slots \ {Slot(q)})]
  /\ Go(q, "purge")
  /\ UNCHANGED <<source, files, wanted, phase, seen, count, linked, kills>>

\* prepare_output: a complete build keeps its objects until they are replaced.
Purge(q) ==
  /\ at[q] = "purge"
  /\ object' = IF Goal[q] = "check"
               THEN [object EXCEPT ![Slot(q)] = [n \in 1 .. Objects |-> Missing]] ELSE object
  /\ Go(q, "purgeInterface")
  /\ UNCHANGED <<source, listing, interface, realization, memory, kills>>

PurgeInterface(q) ==
  /\ at[q] = "purgeInterface"
  /\ interface' = [interface EXCEPT ![Slot(q)] = Missing]
  /\ Go(q, "purgeRealization")
  /\ UNCHANGED <<source, listing, realization, object, memory, kills>>

PurgeRealization(q) ==
  /\ at[q] = "purgeRealization"
  /\ realization' = [realization EXCEPT ![Slot(q)] = Missing]
  /\ Go(q, "writeKept")
  /\ UNCHANGED <<source, listing, interface, object, memory, kills>>

\* "Remove invalidated interfaces before writing replacement artifacts."
WriteKept_bug(q) ==
  /\ at[q] = "writeKept"
  /\ Go(q, "writeInterface")
  /\ UNCHANGED <<source, files, memory, kills>>

WriteKept(q) ==
  /\ at[q] = "writeKept"
  /\ listing' = todo[q]
  /\ Go(q, "writeInterface")
  /\ UNCHANGED <<source, interface, realization, object, memory, kills>>

WriteInterface(q) ==
  /\ at[q] = "writeInterface"
  /\ interface' = [interface EXCEPT ![Slot(q)] = seen[q]]
  /\ Go(q, "writeRealization")
  /\ UNCHANGED <<source, listing, realization, object, memory, kills>>

\* A checkpoint has no objects.
WriteRealization(q) ==
  /\ at[q] = "writeRealization"
  /\ realization' = [realization EXCEPT ![Slot(q)] = seen[q]]
  /\ count' = [count EXCEPT ![q] = 0]
  /\ Go(q, IF Goal[q] = "check" THEN "readBack" ELSE "writeObjects")
  /\ UNCHANGED <<source, listing, interface, object, wanted, phase, todo, seen, linked, kills>>

WriteObject(q) ==
  /\ at[q] = "writeObjects" /\ count[q] < Objects
  /\ object' = [object EXCEPT ![Slot(q)][count[q] + 1] = seen[q].source]
  /\ count' = [count EXCEPT ![q] = @ + 1]
  /\ UNCHANGED <<source, listing, interface, realization, at, wanted, phase, todo, seen, linked, kills>>

\* link_package may fail; the realization is written again with the executables.
LinkBinaries(q) ==
  /\ at[q] = "writeObjects" /\ count[q] = Objects
  /\ \/ Go(q, "readBack") /\ realization' = [realization EXCEPT ![Slot(q)] = seen[q]]
     \/ Goal[q] # "test" /\ Go(q, "failed") /\ UNCHANGED realization
  /\ UNCHANGED <<source, listing, interface, object, memory, kills>>

ReadBack(q) ==
  /\ at[q] = "readBack"
  /\ todo' = [todo EXCEPT ![q] = listing]
  /\ Go(q, "publish")
  /\ UNCHANGED <<source, files, wanted, phase, seen, count, linked, kills>>

\* "Publish the interface index only after every artifact has been written."
PublishIndex(q) ==
  /\ at[q] = "publish"
  /\ listing' = Append(todo[q], Slot(q))
  /\ IF Goal[q] = "use"
     THEN /\ Go(q, "readIndex")
          /\ phase' = [phase EXCEPT ![q] = "link"]
          /\ UNCHANGED <<wanted, todo, seen, count, linked>>
     ELSE Go(q, "done") /\ Fresh(q, 0)
  /\ UNCHANGED <<source, interface, realization, object, kills>>

Write(q) ==
  Snapshot(q) \/ ReadKept(q) \/ Purge(q) \/ PurgeInterface(q) \/ PurgeRealization(q) \/ WriteKept(q)
    \/ WriteInterface(q) \/ WriteRealization(q) \/ WriteObject(q) \/ LinkBinaries(q)
    \/ ReadBack(q) \/ PublishIndex(q)

-----------------------------------------------------------------------------
Edit ==
  /\ source < MaxRevision
  /\ source' = source + 1
  /\ UNCHANGED <<files, at, memory, kills>>

Kill(q) ==
  /\ ~Stopped(q)
  /\ kills < MaxKills
  /\ kills' = kills + 1
  /\ Fresh(q, 0)
  /\ Go(q, "killed")
  /\ UNCHANGED <<source, files>>

BuildNext ==
  /\ \/ \E q \in Commands : StartUse(q) \/ StartBuild(q) \/ Use(q) \/ Write(q) \/ Kill(q)
     \/ Edit
  /\ UNCHANGED usage

BuildSpec == BuildInit /\ [][BuildNext]_buildVars

-----------------------------------------------------------------------------
BuildPlaces == Ends \cup
  {"readIndex", "readInterface", "readRealization", "readObjects", "link", "snapshot",
   "readKept", "purge", "purgeInterface", "purgeRealization", "writeKept",
   "writeInterface", "writeRealization", "writeObjects", "readBack", "publish"}

BuildTypeOK ==
  /\ usage \in Usages
  /\ source \in 1 .. MaxRevision
  /\ listing \in Seq(Slots)
  /\ interface \in [Slots -> Contents \cup {Missing}]
  /\ realization \in [Slots -> Contents \cup {Missing}]
  /\ object \in [Slots -> [1 .. Objects -> (1 .. MaxRevision) \cup {Missing}]]
  /\ at \in [Commands -> BuildPlaces]
  /\ wanted \in [Commands -> 0 .. MaxRevision]
  /\ phase \in [Commands -> {"check", "link"}]
  /\ todo \in [Commands -> Seq(Slots)]
  /\ seen \in [Commands -> Contents \cup {Missing}]
  /\ count \in [Commands -> 0 .. Objects]
  /\ linked \in [Commands -> SUBSET (1 .. MaxRevision)]
  /\ kills \in 0 .. MaxKills

\* No two commands run at once.
Serial == usage.given \subseteq usage.serial

Listed(s) == \E i \in 1 .. Len(listing) : listing[i] = s

(* A listed interface never stands beside files of another build: wherever  *)
(* builds are killed, the files of a listed slot are of one build or        *)
(* missing, and c_dependencies can tell.  Holds while the commands that     *)
(* write are run one at a time.                                             *)
ListedUnmixed ==
  Serial => \A s \in Slots : Listed(s) /\ realization[s] # Missing =>
    /\ interface[s] \in {Missing, realization[s]}
    /\ realization[s].state = "compiled" =>
         \A n \in 1 .. Objects : object[s][n] \in {Missing, realization[s].source}

HasLinked(q) == at[q] = "link" /\ count[q] = Objects

(* What a command links is one build of the dependency, the one whose       *)
(* interface it compiled against, though objects are checked and opened at  *)
(* different times.                                                         *)
LinkedWhole ==
  \A q \in Commands : HasLinked(q) => linked[q] = {seen[q].source}

(* "Reuse checked artifacts only while their manifest and sources still     *)
(* match" (executable.py:76): a dependency is never linked from a source    *)
(* older than the one found when the command began.                         *)
NeverStale ==
  \A q \in Commands : HasLinked(q) => seen[q].source >= wanted[q]

(* A command that depends on the package recovers from whatever killed      *)
(* builds left behind: it fails only when the source does not compile or    *)
(* its binaries do not link, never on the state of package.pkg.             *)
Recovers ==
  [][\A q \in Commands : Serial /\ Goal[q] = "use" /\ at'[q] = "failed" =>
        at[q] \in {"snapshot", "writeObjects", "failed"}]_buildVars
=============================================================================
