----------------------------- MODULE Executable -----------------------------
(***************************************************************************)
(* sev run: build_source and run_source of                                 *)
(* py_compiler/packaging/executable.py.  The program has a main file and a *)
(* helper it imports, both linted and rewritten in place while they are    *)
(* compiled, and a dependency in a package of its own, which               *)
(* prepare_dependencies builds (module Build; here in one step).  The      *)
(* executable and a record of what it was made from are two files, and no  *)
(* lock is taken.                                                          *)
(*                                                                         *)
(* The text of a file is a revision, raw or in the canonical form that the *)
(* lint gives it.  The executable is represented by the revisions in it.   *)
(***************************************************************************)
EXTENDS Naturals, Sequences

CONSTANTS
  Runners,       \* commands, all sev run of the same main file
  Habits,        \* what users do: a set of "careful", "hasty", "crowded"
  Revisions,     \* of a file; an edit may bring an earlier one back
  First,         \* the revision that all files start with
  MaxEdits,      \* bound on edits of the files
  MaxKills,      \* bound on killed commands
  Nothing

Sources == {"helper", "main"}
HashOrder == <<"helper", "main">>        \* sorted(root.rglob('*.sev'))
Parts == Sources \cup {"dependency"}

ASSUME ExecutableAssumption ==
  /\ Habits \subseteq {"careful", "hasty", "crowded"}
  /\ First \in Revisions
  /\ MaxEdits \in Nat /\ MaxKills \in Nat

Texts == [revision : Revisions, raw : BOOLEAN]
Programs == [Parts -> Revisions]
Records == [sources : [Sources -> Texts], dependency : Revisions, checksum : Programs]

ASSUME NothingAssumption ==
  Nothing \notin Texts \cup Revisions \cup Programs \cup Records

VARIABLES
  habit,       \* the member of Habits this user has
  text,        \* text[f]: the file f of Sources
  dependency,  \* revision of the source of the dependency
  objects,     \* revision its objects were built from, or Nothing
  executable,  \* the program at the destination, or Nothing
  record,      \* the metadata file beside it, or Nothing
  at,          \* at[q]: where q is
  recent,      \* recent[q][f]: revisions that f has had since q began
  saved,       \* saved[q]: the record q found, or Nothing
  hashed,      \* hashed[q][f]: text of f when q took the checksum of f, or Nothing
  compiled,    \* compiled[q][f]: text of f that q compiles, or Nothing
  resolved,    \* resolved[q]: revision of the dependency q has resolved, or Nothing
  built,       \* built[q]: the program q linked, and later the one it runs, or Nothing
  checksum,    \* checksum[q]: the program at the destination when q read it back, or Nothing
  edits,
  kills

executableFiles == <<text, dependency, objects, executable, record>>
executableMemory == <<recent, saved, hashed, compiled, resolved, built, checksum>>
executableVars == <<habit, executableFiles, at, executableMemory, edits, kills>>

Unread == [f \in Sources |-> Nothing]
Canonical(t) == [t EXCEPT !.raw = FALSE]
OnDisk == [f \in Parts |-> IF f = "dependency" THEN {dependency} ELSE {text[f].revision}]

ExecutableInit ==
  /\ habit \in Habits
  /\ text = [f \in Sources |-> [revision |-> First, raw |-> TRUE]]
  /\ dependency = First
  /\ objects = Nothing
  /\ executable = Nothing
  /\ record = Nothing
  /\ at = [q \in Runners |-> "idle"]
  /\ recent = [q \in Runners |-> [f \in Parts |-> {}]]
  /\ saved = [q \in Runners |-> Nothing]
  /\ hashed = [q \in Runners |-> Unread]
  /\ compiled = [q \in Runners |-> Unread]
  /\ resolved = [q \in Runners |-> Nothing]
  /\ built = [q \in Runners |-> Nothing]
  /\ checksum = [q \in Runners |-> Nothing]
  /\ edits = 0
  /\ kills = 0

Over == {"idle", "ran", "failed", "refused"}
Step(q, from, to) == at[q] = from /\ at' = [at EXCEPT ![q] = to]

\* The memory of a process that begins or ends: nothing read, nothing resolved.
Forget(q) ==
  /\ saved' = [saved EXCEPT ![q] = Nothing]
  /\ hashed' = [hashed EXCEPT ![q] = Unread]
  /\ compiled' = [compiled EXCEPT ![q] = Unread]
  /\ resolved' = [resolved EXCEPT ![q] = Nothing]
  /\ checksum' = [checksum EXCEPT ![q] = Nothing]

\* Only crowded users give a command while another runs.
Begin(q) ==
  /\ at[q] \in Over
  /\ habit = "crowded" \/ \A o \in Runners : at[o] \in Over
  /\ at' = [at EXCEPT ![q] = "hash"]
  /\ recent' = [recent EXCEPT ![q] = OnDisk]
  /\ Forget(q)
  /\ built' = [built EXCEPT ![q] = Nothing]
  /\ UNCHANGED <<habit, executableFiles, edits, kills>>

-----------------------------------------------------------------------------
(* Is there an executable to reuse?                                         *)

\* The first file in the order whose checksum is not taken yet.
NextFile(q) ==
  HashOrder[CHOOSE i \in DOMAIN HashOrder : /\ hashed[q][HashOrder[i]] = Nothing
                                            /\ \A j \in 1 .. i - 1 : hashed[q][HashOrder[j]] # Nothing]

HashFile(q, from, to) ==
  /\ at[q] = from
  /\ IF \E f \in Sources : hashed[q][f] = Nothing
     THEN hashed' = [hashed EXCEPT ![q][NextFile(q)] = text[NextFile(q)]] /\ UNCHANGED at
     ELSE Step(q, from, to) /\ UNCHANGED hashed
  /\ UNCHANGED <<habit, executableFiles, recent, saved, compiled, resolved, built, checksum, edits, kills>>

Hash(q) == HashFile(q, "hash", "lookup")

\* Only the main file counts.
Lookup_bug(q) ==
  /\ Step(q, "lookup", IF record # Nothing /\ executable # Nothing /\ record.sources["main"] = hashed[q]["main"]
                       THEN "resolve" ELSE "readMain")
  /\ saved' = [saved EXCEPT ![q] = record]
  /\ UNCHANGED <<habit, executableFiles, recent, hashed, compiled, resolved, built, checksum, edits, kills>>

\* The source identity of the record is compared with the checksums.
Lookup(q) ==
  /\ Step(q, "lookup", IF record # Nothing /\ executable # Nothing /\ record.sources = hashed[q]
                       THEN "resolve" ELSE "readMain")
  /\ saved' = [saved EXCEPT ![q] = record]
  /\ UNCHANGED <<habit, executableFiles, recent, hashed, compiled, resolved, built, checksum, edits, kills>>

\* prepare_dependencies, once for the process: stale objects are rebuilt.
Resolve(q) ==
  /\ resolved[q] = Nothing
  /\ resolved' = [resolved EXCEPT ![q] = dependency]
  /\ objects' = dependency
  /\ UNCHANGED <<habit, text, dependency, executable, record, recent, saved, hashed, compiled, built, checksum,
                 edits, kills>>

ResolveToReuse(q) == Step(q, "resolve", "verify") /\ Resolve(q)

\* The dependency may be rebuilt; a program put there by another command is not this one.
Verify(q) ==
  /\ Step(q, "verify", IF saved[q].dependency = resolved[q] /\ saved[q].checksum = executable
                       THEN "run" ELSE "readMain")
  /\ UNCHANGED <<habit, executableFiles, executableMemory, edits, kills>>

-----------------------------------------------------------------------------
(* Compilation, with the lint.                                              *)

ReadFile(q, f, from, to) ==
  /\ Step(q, from, to)
  /\ compiled' = [compiled EXCEPT ![q][f] = text[f]]
  /\ UNCHANGED <<habit, executableFiles, recent, saved, hashed, resolved, built, checksum, edits, kills>>

ReadMain(q) == ReadFile(q, "main", "readMain", "readHelper")
ReadHelper(q) == ReadFile(q, "helper", "readHelper", "checkHelper")

\* A command that fails: nothing of its process is left.
Fail(q, from, to) ==
  /\ Step(q, from, to)
  /\ Forget(q)
  /\ built' = [built EXCEPT ![q] = Nothing]
  /\ UNCHANGED <<habit, executableFiles, recent, edits, kills>>

\* rewrite_file without the test that another process did the same.
Settled_bug(q, f) == ~compiled[q][f].raw

\* rewrite_file: the text was canonical, or has become so.
Settled(q, f) == Canonical(compiled[q][f]) \in {compiled[q][f], text[f]}

\* rewrite_file up to the write.
Refresh(q, f, from, replace, to) ==
  \/ /\ at[q] = from
     /\ Settled(q, f) \/ text[f] = compiled[q][f]
     /\ Step(q, from, IF Settled(q, f) THEN to ELSE replace)
     /\ UNCHANGED <<habit, executableFiles, executableMemory, edits, kills>>
  \/ /\ at[q] = from
     /\ ~Settled(q, f) /\ text[f] # compiled[q][f]
     /\ Fail(q, from, "refused")

\* rewrite_file: os.replace.
Rewrite(q, f, from, to) ==
  /\ Step(q, from, to)
  /\ text' = [text EXCEPT ![f] = Canonical(compiled[q][f])]
  /\ UNCHANGED <<habit, dependency, objects, executable, record, executableMemory, edits, kills>>

CheckHelper(q) == Refresh(q, "helper", "checkHelper", "rewriteHelper", "import")
RewriteHelper(q) == Rewrite(q, "helper", "rewriteHelper", "import")

\* The import of the dependency, unless the process resolved it before.
ImportNew(q) == Step(q, "import", "checkMain") /\ Resolve(q)

\* The dependencies of an imported package are not prepared.
ImportKnown_bug(q) ==
  /\ Step(q, "import", "checkMain")
  /\ UNCHANGED <<habit, executableFiles, executableMemory, edits, kills>>

ImportKnown(q) ==
  /\ resolved[q] # Nothing
  /\ Step(q, "import", "checkMain")
  /\ UNCHANGED <<habit, executableFiles, executableMemory, edits, kills>>

CheckMain(q) == Refresh(q, "main", "checkMain", "rewriteMain", "forget")
RewriteMain(q) == Rewrite(q, "main", "rewriteMain", "forget")

\* The identity of the sources as they were before the compilation is recorded.
Rehash_bug(q) ==
  /\ Step(q, "forget", "rehash")
  /\ UNCHANGED <<habit, executableFiles, executableMemory, edits, kills>>

\* The checksums are taken again, as the lint may have changed the files.
Rehash(q) ==
  /\ Step(q, "forget", "rehash")
  /\ hashed' = [hashed EXCEPT ![q] = Unread]
  /\ UNCHANGED <<habit, executableFiles, recent, saved, compiled, resolved, built, checksum, edits, kills>>

HashAgain(q) == HashFile(q, "rehash", "link")

\* Errors in the source are reported only now.
Diagnose(q) == Fail(q, "link", "failed")

\* The objects of the dependency are opened by path.
Link(q) ==
  /\ Step(q, "link", "install")
  /\ built' = [built EXCEPT ![q] = [f \in Parts |-> IF f = "dependency" THEN objects
                                                   ELSE compiled[q][f].revision]]
  /\ UNCHANGED <<habit, executableFiles, recent, saved, hashed, compiled, resolved, checksum, edits, kills>>

\* os.replace(binary, destination)
PutExecutable(q) ==
  /\ Step(q, "install", "readBack")
  /\ executable' = built[q]
  /\ UNCHANGED <<habit, text, dependency, objects, record, executableMemory, edits, kills>>

\* sha256(destination.read_bytes())
ReadBack(q) ==
  /\ Step(q, "readBack", "record")
  /\ checksum' = [checksum EXCEPT ![q] = executable]
  /\ UNCHANGED <<habit, executableFiles, recent, saved, hashed, compiled, resolved, built, edits, kills>>

Record(q) ==
  /\ Step(q, "record", "run")
  /\ record' = [sources |-> hashed[q], dependency |-> resolved[q], checksum |-> checksum[q]]
  /\ UNCHANGED <<habit, text, dependency, objects, executable, executableMemory, edits, kills>>

\* run_source: whatever is at the destination now.
Run(q) ==
  /\ Step(q, "run", "ran")
  /\ Forget(q)
  /\ built' = [built EXCEPT ![q] = executable]
  /\ UNCHANGED <<habit, executableFiles, recent, edits, kills>>

-----------------------------------------------------------------------------
\* Between the first byte read for the compilation and the last checksum.
Compiling(q) ==
  at[q] \in {"readMain", "readHelper", "checkHelper", "rewriteHelper", "import", "checkMain",
             "rewriteMain", "forget", "rehash"}

\* Careful users do not save while a command compiles, crowded ones not while one runs.
MayEdit ==
  /\ edits < MaxEdits
  /\ habit = "careful" => \A q \in Runners : ~Compiling(q)
  /\ habit = "crowded" => \A q \in Runners : at[q] \in Over
  /\ edits' = edits + 1

\* Every command that runs may see the new text from now on.
Seen(f, r) ==
  recent' = [q \in Runners |-> IF at[q] \in Over THEN recent[q] ELSE [recent[q] EXCEPT ![f] = @ \cup {r}]]

EditSource(f) ==
  /\ MayEdit
  /\ \E t \in Texts \ {text[f]} :
       /\ text' = [text EXCEPT ![f] = t]
       /\ Seen(f, t.revision)
  /\ UNCHANGED <<habit, dependency, objects, executable, record, at, saved, hashed, compiled, resolved, built,
                 checksum, kills>>

EditDependency ==
  /\ MayEdit
  /\ \E r \in Revisions \ {dependency} :
       /\ dependency' = r
       /\ Seen("dependency", r)
  /\ UNCHANGED <<habit, text, objects, executable, record, at, saved, hashed, compiled, resolved, built,
                 checksum, kills>>

Stop(q) ==
  /\ at[q] \notin Over
  /\ kills < MaxKills
  /\ kills' = kills + 1
  /\ at' = [at EXCEPT ![q] = "idle"]
  /\ Forget(q)
  /\ built' = [built EXCEPT ![q] = Nothing]
  /\ UNCHANGED <<habit, executableFiles, recent, edits>>

ExecutableNext ==
  \/ \E q \in Runners :
       \/ Begin(q) \/ Hash(q) \/ Lookup(q) \/ ResolveToReuse(q) \/ Verify(q)
       \/ ReadMain(q) \/ ReadHelper(q) \/ CheckHelper(q) \/ RewriteHelper(q) \/ ImportNew(q)
       \/ ImportKnown(q) \/ CheckMain(q) \/ RewriteMain(q) \/ Rehash(q) \/ HashAgain(q)
       \/ Diagnose(q) \/ Link(q) \/ PutExecutable(q) \/ ReadBack(q) \/ Record(q) \/ Run(q)
       \/ Stop(q)
  \/ \E f \in Sources : EditSource(f)
  \/ EditDependency

ExecutableSpec == ExecutableInit /\ [][ExecutableNext]_executableVars

-----------------------------------------------------------------------------
ExecutableTypeOK ==
  /\ habit \in Habits
  /\ text \in [Sources -> Texts]
  /\ dependency \in Revisions
  /\ objects \in Revisions \cup {Nothing}
  /\ executable \in Programs \cup {Nothing}
  /\ record \in Records \cup {Nothing}
  /\ recent \in [Runners -> [Parts -> SUBSET Revisions]]
  /\ saved \in [Runners -> Records \cup {Nothing}]
  /\ hashed \in [Runners -> [Sources -> Texts \cup {Nothing}]]
  /\ compiled \in [Runners -> [Sources -> Texts \cup {Nothing}]]
  /\ resolved \in [Runners -> Revisions \cup {Nothing}]
  /\ built \in [Runners -> Programs \cup {Nothing}]
  /\ checksum \in [Runners -> Programs \cup {Nothing}]
  /\ edits \in 0 .. MaxEdits
  /\ kills \in 0 .. MaxKills

(* "imported helper changes -> rebuild dependency and executable"           *)
(* (docs/sip/0035-Linting.md:285): what sev run executes is made of texts   *)
(* that were on disk while the command ran.  The checksums before and after *)
(* the compilation, of the dependency and of the executable itself are for  *)
(* this; it holds unless a file is saved while a command compiles.          *)
RunsWhatWasSaved ==
  \A q \in Runners : at[q] = "ran" => \A f \in Parts : built[q][f] \in recent[q][f]

(* "unchanged canonical source -> reuse the checked executable"             *)
(* (docs/sip/0035-Linting.md:286), although the compilation itself rewrites *)
(* the files: a record made from the revisions on disk has the checksums of *)
(* their canonical texts.                                                   *)
UnchangedIsReused ==
  record # Nothing => \A f \in Sources :
    record.sources[f].revision = text[f].revision /\ ~text[f].raw => record.sources[f] = text[f]

(* Commands that run at once rewrite the same files and never refuse each   *)
(* other: "source changed during lint" is for a user's edits.               *)
OnlyEditsRefuse ==
  habit \in {"careful", "crowded"} => \A q \in Runners : at[q] # "refused"
=============================================================================
