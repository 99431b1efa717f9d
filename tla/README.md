# Severian: models and proofs

Severian is a programming language with a compiler written in Python
(`src/py_compiler`). The compiler lowers a program through MLIR to native
objects; tasks, channels, locks and `select` become calls of pthreads in the
generated code, and the same Python package also builds, publishes, resolves,
runs, tests and fuzzes packages on disk. This directory holds TLA+
specifications of the parts of the system in which several threads or several
processes meet, of the analyses that decide which programs are safe, and of the
algorithms behind the test tools; the TLC configurations that check them on
small instances; and proofs checked by TLAPS that hold for every value of the
constants.

Line numbers below are those of the source files; `PROJECT.json` gives, for each
definition of each module, the file, the lines and the symbol it stands for.

## 1. Inventory

### Components with concurrency, persistent state or an analysis worth a model

| Component | State | Operations | Meets others through |
|---|---|---|---|
| Channel runtime (`syntax/complex/channel.py`) | ring buffer (`data`, `head`, `count`, `capacity`, `bounded`), a mutex, two condition variables | create, send, receive, ready, free; release at the end of the owner's scope | threads of any task that was passed the channel |
| Task runtime (`syntax/operator/async.py`, `await.py`, scope cleanup in `hir/thir/src/checking.py`, calls in `syntax/function/calls.py`, fields of `self` in `syntax/block/class.py`) | a heap frame per task (thread id, joined flag, result, arguments), one process-wide `__sev_task_mutex` | start, worker, `completed`, `await`, drop, release, cleanup of a scope; calls of methods, reads and writes of objects | objects passed as receivers, the mutex, channels as arguments |
| Select (`syntax/block/select.py`) | a counter in a loop parameter | ready and receive of each case, body, `sched_yield` | channels |
| Shared references (`syntax/complex/shared.py`) | a payload and a count on the heap | create, retain, release, atomic or plain | tasks that hold copies |
| Ownership flow and cleanup (`mir/ownership/flow.py`, `syntax/block/if.py`, `while.py`) | moved bindings, loans, views and retained sources at each point of the text | read, move, lend, drop, branch, loop, return, cleanup | decides what Task and Shared may assume |
| Verification of bodies (`mir/cfg/cfg.py`, `mir/verification.py`, the two analyses of `flow.py`) | the facts before and after each block, a work list | reachability, dominators, three fixed points | runs on every body before code is generated |
| Package registry (`packaging/registry.py`) | the registry directory (`~/.severian/packages/registry`): a directory and an index per version; per root a cache and `package.lock` | publish, resolve a version, materialise into the cache, record the pin | concurrent `sev` processes through the file system; `flock` between publishers |
| Package builds (`packaging/package.py`, `executable.py`) | `package.pkg`: index, interface, realization and objects per slot (`dev`, `test`) | build, checkpoint (`sev check`), test build, use by a dependent | concurrent `sev` processes through the file system, no lock |
| Source-executable cache (`packaging/executable.py`, `build_source`; `frontend/lint/lint.py`, `rewrite_file`) | one executable and one metadata file per source; the sources themselves, which are linted in place | run: reuse, or compile, rewrite, link and record | the editor, other `sev` commands, builds of dependencies |
| Test runner (`packaging/testing.py`) | a pool of workers, results, `results.json`, the state of the fuzz campaigns | hand out, run, skip, record, confirm, report | test processes, counter files |
| Campaigns (`packaging/campaigns.py`, `syntax/complex/campaign.py`, `fuzz.py`) | domains of the parameters, inputs, points seen, kept cases; the source they are appended to | narrow by guards, draw, mutate, vary, replay, invoke, confirm, reduce, persist | harness processes, the user's editor |
| Coverage counters (`packaging/coverage.py`, the C text `RUNTIME`) | an open-addressed table in a file mapped shared | initialize, hit, read | threads of the program under test, the runner that reads the file |

### Components without either

The lexer, the parser and the lint rules, the syntax providers other than those
above, type checking and the lowerings (`hir`, `mir`, `mlir`, `lir`), the
standard library, the self-hosted compiler and package manager, the editor
extension. They are sequential: pure passes from one tree to the next, or
plumbing around processes. The package session
(`library/system/extern/posix/session.c`) is a protocol, but only its client is
in the repository (`library/package/src/compiler.sev:205`): the loop that would
serve requests is not, so what a request, a timeout or a restart does cannot be
read anywhere. `PROJECT.json` lists each component with the reason why it is not
modelled.

### What is hard, and what makes each part correct

* **Channel.** Signals sent to one of two conditions, spurious wakeups, growth
  of a ring that wraps, and a release that asks `ready` and then receives in two
  critical sections. Correct: first in, first out; nothing lost, duplicated or
  overwritten; no thread asleep beside what it waits for; freed once, empty and
  by its owner alone.
* **Task.** Polling, awaiting, dropping and the cleanup of a scope all may reap
  the thread; the worker keeps writing to the frame; receivers are borrowed
  while tasks run, and the lock serialises locked tasks only, so the absence of
  races rests on the checker as much as on the mutex, and the checker looks at
  names: not at a method's own fields, nor into the arguments of locked tasks.
  Correct: a frame outlives its worker, a thread is joined once, a receiver
  outlives its tasks, no race but through those two,
  structured (fork-join) tasks, and no wait that never ends.
* **Select.** `ready` and `receive` are separate critical sections, and it polls.
  Correct: never asleep in a case, never beyond the limit, ends when its channels
  are sent enough.
* **Shared.** The last release destroys the payload and then frees the count;
  tasks copy while their owner copies and drops; a plain count is loaded and stored in
  two steps. Correct: payload and count stay while a reference is held, and are
  destroyed once.
* **Ownership.** One pass over the text must account for every path: branches
  that move different owners, loops whose second iteration begins in another
  state than the first, jumps across several scopes, views of what is given
  away. Correct: on no path is anything moved or freed read, freed twice, or
  never freed.
* **Verification.** Three fixed points share one solver; joins, loops,
  irreducible loops and dead blocks meet in it. Correct: it decides, and no path
  through an accepted body, of any length, meets a moved value, an uninitialized
  binding, an owner that is still borrowed, or a value before its definition.
* **Registry.** A check before the build and another under the lock, a rename, an
  index written after it, copies into caches and a kill between any two of them.
  Correct: an index names whole releases, a version never changes its source, a
  cache entry is whole, a pin goes on resolving.
* **Builds.** Interface, realization, objects and index are separate files that
  two slots, several commands and kills share without a lock. Correct: what the
  index lists is of one build, a dependent links one build and none older than
  its source, and it recovers from whatever a killed build left.
* **Executable cache.** The compilation rewrites the files whose checksums
  identify it, hashes them before and after, and anything may be edited, killed
  or run beside it in between. Correct: what runs was on disk while the command
  ran, an unchanged program is not compiled again, and commands do not refuse
  each other's rewriting.
* **Test runner.** Results are recorded in order while workers still run, may be
  executed again to be confirmed, and the report is rewritten after each.
  Correct: serial tests run alone, the report never claims more than was found,
  a discovery is new whatever finished first.
* **Campaigns.** A case counts as seen before it is confirmed, is replaced by a
  smaller one, and is appended to a text that may have been edited; the budget
  may end between any two steps. Correct: nothing that a deterministic harness
  shows is lost, what is kept reproduces, nothing is appended twice.
* **Inputs of a campaign.** Bounds travel between integers and floats that round
  differently until nothing changes, and equal parameters need a value of all
  their types. Correct: no input that satisfies the guards is lost or refused,
  and what is generated lies within them.
* **Counters.** Threads claim slots of one table without a lock, and are killed
  anywhere. Correct: what is read is what was counted.

The hazards behind these, at their lines, are the list `hazards` of
`PROJECT.json`; those no property covers say why.

## 2. Modules

| Module | Models | Notes |
|---|---|---|
| `FifoQueue` | what a channel promises | abstract; the specification `Channel` implements |
| `Channel` | channel.py | one thread is a producer, a consumer, or the owner |
| `ChannelProofs` | | proofs: the invariant, and that `Channel` implements `FifoQueue` |
| `ForkJoin` | what structured tasks promise | abstract; the specification `Task` implements |
| `Task` | async.py, await.py, scope cleanup and borrow rules | the program is any order of steps the checker accepts |
| `Select` | select.py | on channels as `FifoQueue` describes them |
| `ConcurrencyProofs` | | proofs: `Task`, that it implements `ForkJoin`, and `Select` |
| `MCConcurrency` | | tasks, a channel and selects for TLC |
| `Registry` | registry.py | one package name, processes that can be killed |
| `Build` | package.py, executable.py | commands on one package and its dependent |
| `PackagesProofs` | | proofs: `Registry` and `Build` |
| `MCPackages` | | a registry and an output directory for TLC |
| `Executable` | executable.py, lint.py | `sev run` of a main file, a source it imports and a dependency |
| `TestRunner` | testing.py | `sev test --fuzz` |
| `TestRunnerProofs` | | proofs |
| `Campaign` | campaigns.py (`run`), fuzz.py | a campaign, and the appending of what it kept |
| `Domains` | campaigns.py (the rest) | inputs: domains, guards, sampling, reduction, replay |
| `HitCounters` | coverage.py (`RUNTIME`, `read_hits`) | the counters and their reader |
| `ToolingProofs` | | proofs: `Executable`, `Campaign`, `HitCounters` and `Domains` |
| `MCTooling` | | the five components above for TLC |
| `OwnershipFlow` | flow.py (`FlowState`), if.py, while.py, scope cleanup | texts that the checker accepts |
| `FlowProofs` | | proofs |
| `Lifetimes` | cfg.py, flow.py (the analyses), verification.py | the verification of a body, and its execution |
| `Shared` | shared.py | a shared reference and tasks |
| `OwnershipProofs` | | proofs: `Lifetimes` and `Shared` |
| `MCOwnership` | | the three components above for TLC |
| `Filtering` | | a comprehension over a list, as `SelectSeq` with the set of the items that pass |
| `InductionLemmas` | | lemmas: induction in the form of sets, and what a comprehension keeps |

An MC module that joins several components has a variable `subject` that says
which of them a behaviour is about; the others stay as they begin. They share no
state that matters to the properties, so one run answers for all of them. Where
components do interact, one is written on top of what the other promises:
`Select` on `FifoQueue` (which `Channel` implements), `Executable` on a
dependency that is built in one step (which is `Build`), `TestRunner` on hits
that are read exactly (which is `HitCounters`), `Campaign` on inputs that
satisfy their guards (which is `Domains`).

In a module, a definition whose name ends in `_bug` (and
`SignalAndReturn_shared`, `MustPropagate_always`) is no part of the model. It
is a plausible slip in the definition that follows it, kept so that one can see
each property fail: replace the definition by it and run the configuration.

### Channel

A thread is at one place (`at`) of send, receive, ready or release. What happens
between `pthread_mutex_lock` and the next unlock or wait is a step each, so other
threads interleave at the points where they can in the code. `Begin` is the
arrival at the mutex, `Lock` its acquisition, `Wait` releases it and sleeps,
`SpuriousWakeup` is the return of `pthread_cond_wait` without a signal. `Grow`
is the doubling of an unbounded channel, with the copy that starts at `head`
(`Unrolled`); `GrowFails` is the assertion on the capacity, and `CreateFails` the
one on the request. A released channel is drained with `ready` and `receive`
(`BeginRelease`, `ChannelReady`, `Dequeue`) and freed; `Joined` is what the owner relies
on: tasks that were passed the channel are joined before it is released
(async.py:289-312). Data are pairs of a producer and a number, so that order can
be told; packing of elements is left out, and a fresh buffer holds `Garbage`.

### Task

An activation is the body of a task or the main thread. `Start` allocates the
frame and creates the thread, `Enter` takes the mutex if the task is locked and
loads the arguments, `StoreResult` and `Leave` end the worker. `Poll` is
`completed`; only the answer that reaps the thread changes anything, so the other
answers are no steps. `BeginAwait` moves the binding and `EndAwait` joins, takes
the result and frees the frame; `Release` is a drop or the scope's cleanup.
A method that is called without `async` is an activation on its caller's thread
(`Call`, `EndCall`), which awaits it; a call that starts no task is no more than
an access, and is taken as one. `BeginAccess` and `EndAccess` bracket a read or
write of an object, so that two accesses can overlap.

The guards are the checker's borrow rules at the point of the program text, as a
run-time guard: whatever program the checker accepts makes only such steps. By
name, an object is read when no locked task of the activation borrows it
(`ReadClear`), and written when no task does. Three places are not looked at, and
the guards let everything pass there:

* In a method, a field of `self` is a binding of its own (class.py:257-263), while
  a task that the method starts on `self` retains `self` (async.py:283). So a bare
  field is read beside locked tasks (checking.py:181), and `value += 1` is accepted
  beside any task (assignment.py:241-243, numeric/grammar.py:89, storage.py:382-388).
  `MayRead` and `MayWrite` say so for every use of the object `InMethod`, although
  a plain `value = x` and `self.value` do ask for the borrowers of `self`: the model
  takes more steps there than the checker accepts.
* While the arguments of a locked task are checked, nothing that is read is asked
  about (checking.py:182-183): `ReadArgument`. The start follows.
* A locked task is let in beside locked tasks (`MayStart`, calls.py:880-884), unless
  a loan is live in the activation; `Lent` are the tasks of which that is so.

Left out: argument modes other than a receiver, loans by `borrow` other than for
`Lent`, calls in the arguments of a locked task that start tasks of their own,
errors that travel through `await`, and module globals (see the hazards).

### Select

`Test`, `Ready`, `Yield`, `Receive`, `Body` and `LeaveBody` are the blocks of the
generated loop. The channels are counters, as a step of `FifoQueue` is atomic and
the order of values does not matter here; that `Channel` implements `FifoQueue`
is what allows it. A body may send to one channel and may return from the
function around it.

### Registry

A process is a publisher or a build. `Check` to `WriteIndex` follow
`publish_package`: conflict check, staged build, `flock`, second check, directory,
rename, index. `ReadLock` to `RecordLock` follow `dependency_root` and
`record_lock`: the pin, the newest matching version, its index, the cache, the
copy part by part, the rename of the stage, the pin. `Crash` kills a process
between any two steps, which drops its `flock`; `Again` gives the command once
more. A release is a version, a source and a configuration (target); contents are
abstracted to that.

### Build

Two slots with an interface, a realization and objects each; what a file holds is
the revision of the source it was made from. A command builds (`sev build`),
checks (`sev check`, a checkpoint without objects), tests (`sev test`, the other
slot) or uses the package as a dependency. `ReadKept` to `PublishIndex` are
`prepare_output` and the writes of `_build` and `checkpoint` in order;
`ReadIndex` to `Accept` are `c_dependencies`; `Checked` and `Reject` are what
`prepare_dependencies` makes of it, `LinkObject` the linker reading by path. The
source is edited (`Edit`), and a command killed (`Kill`), at any moment.

### Executable

`Begin` to `Record` are `build_source` in order, `Run` is `run_source`. `Hash`
takes the checksum of one source, `Lookup` compares them with the record,
`ResolveToReuse` and `Verify` decide about reuse; `ReadMain`, `ReadHelper` and
what follows are the compilation, in which both sources are linted and rewritten
in place (`Settled` and `Rewrite` are `rewrite_file`); `Rehash` and `HashAgain`
take the checksums once more, `Link`, `PutExecutable`, `ReadBack` and `Record`
end it. Between any two steps another command may take one, the command may be
killed (`Stop`), and a file may be edited as far as the user's `habit` allows: a
careful user saves nothing while a command compiles, a crowded one runs commands
at once and edits between them, a hasty one saves at any moment. A text is a
revision, raw or canonical. Left out: foreign providers and symbolic links.

### TestRunner

`HandOut`, `FinishPending` and `RunSerial` are the main thread going through the
tests; `PickUp`, `EndIteration`, `Skip` and `Break` an execution, by a worker or
by the main thread; `Take` to `Recorded` are `record_results`, with `Judge` for
the second execution that confirms a discovery; `Finish` and `Close` are the two
ways out of the pool, `Interrupt` a kill. A test ends in any way and reaches any
points each time it runs.

### Campaign

`InvokeCase` to `Save` are the loop of `run`: a case, its confirmation
(`Confirm`), the reductions of it one by one (`Reduce`), and what is kept.
`Elapse` lets the budget, and the double of it that confirmations may use, end
between any two of them. A harness is a function from inputs to the outcomes
they may have, so it may be deterministic or not. `ReadSource` and `AppendTests`
are `persist`, `EditTests` the user in between, `RunAgain` the next campaign,
which compiles what is there then. The growth check of the profile mode is left
out.

### Domains

What a guard does to the domains of the parameters, and what is then generated.
Numbers are counted in units of which two make an integer, so that a float may
lie between two integers, and each float type is a grid that is denser near
zero: `RoundedFloat`, `AdjacentFloat` and `ComparisonBound` are the functions of
these names on such a grid. `Constrain` repeats `Visit` over the comparisons of
a guard until nothing changes, at most `Rounds` times; the bounds that a
comparison moves (`Moves`), in their order, are one operator, `NarrowBy` moves
one and `Narrowed` all of them. A function that `constrain` refuses is at the
stage "empty" when a domain has become empty, and "cyclic" when the rounds did
not settle. `Satisfies` is `satisfies_constraints`, `EqualGroups` and `Couple`
are `equal_parameter_groups` and `couple_equal_parameters`: `Merged` joins what
one guard equates, `Labels` what all do. The recursions, of `Constrain`, `Labels`
and `Couple`, are recursive functions, so that they can be proved
about. `GridAssumption` says of the grids what holds of every float format: a
float that is no integer is so small that the integers next to it are floats; the
bounds of a group of an integer and a float rest on it. The actions add a
guard (`AddGuard`), and draw, mutate, vary, accept, reduce or replay arguments.
A parameter is a scalar or a list of scalars; lists of lists, `first` and
`last`, NaN and the encoding of inputs are left out.

### HitCounters

`CallHit`, `Probe` and `Add` are `__sev_coverage_hit`, with one compare and
exchange for each `Probe`; `Initialize` is the next step of `initialize` (under
`pthread_once`, while every other caller waits), `InitializeFails` its exits. A
program may end at any step. `ReadHits` is `read_hits` on whatever file is then
there; `counted` is a history variable, the truth it is compared with.

### OwnershipFlow

A behaviour is a text, sentence by sentence, with blocks: `NewOwner`,
`ReadName`, `DropName`, `MoveTo`, `Lend`, `Begin`, `BeginElse`, `EndIf`,
`Break`, `Continue`, `EndBody`, `EndWhile`, `ReturnHere`. A sentence that the
checker rejects is no step, so the behaviours are the texts it accepts.
`LastMention` says that the rest of the block does not mention a borrow, which
ends it. Beside the checker's own state (`flow`: moved, loans, views) runs what
it must be right about: `stores` is the set of memories that the paths to this
point may have, changed as the emitted operations change them. Joins release on
each side what only the other has moved (`reconcile_owners`); leaving a scope
releases what is left in it. `style` sets three kinds of program apart, all of
which give a name an owner again that was moved: inside a loop, a name moved
before it (`revives`, finding 7); with another ownership inside both branches of
an `if` (`retakes`); and while a borrow made through the moved name is still
used (`rehandles`). In the first two a binding counts as moved after the join
although it owns storage, in the third a read of the borrow takes the storage
that its name was given since. The properties are about the other texts,
which `StraightText` names. Left out: borrows retained by values, shape loans,
the sources of a view that a call returns; `for`, `match`, `try` and throws; and
the materialisation of cleanup.

### Lifetimes

A body is blocks of events with edges. `FindReachable` and `FindDominators` are
`Body.verify`; the three analyses (values consumed, borrows retained, bindings
moved or blank) are the one work list of `forward_dataflow` (`Take`, `Transfer`,
`Propagate`), event by event and in any order of the list, and each rejects as
the code does (`CheckValues`, `CheckRetained`, `CheckBindings`).
An accepted body is then executed along any path, with the facts of that path
(`actual`) beside those of the solution.

### Shared

The owner creates the share, copies and drops references, starts tasks that are
given one, awaits them and ends; a task reads and may return a copy, but drops
nothing: its argument is released by the owner with the frame. Retain and release are one step for an atomic share, a load and a
store for a plain one; the release that finds the count at one destroys the
payload and frees the count in two further steps. Overflow of the count aborts.

## 3. Runs

`tlc -config <cfg> <module>`; each takes at most four minutes on two cores, most
far less. A configuration may list an instance's unused constants, as all
configurations of a module share its MC module.

| Run | Configuration | What it shows |
|---|---|---|
| `concurrency` | `Concurrency.cfg` | channel: `ChannelTypeOK`, `NoLostWakeup`, `FreedEmpty`, `Implements` (FifoQueue, which has `InOrder`) and `ScopeEnds` (every call returns, and the channel is freed); tasks: `JoinedOnce`, `RaceFree`, `ReceiverOutlivesTask`, `Structured` (ForkJoin), `TasksFinish`; selects: `ChoosesReady`, `SelectsEnd` |
| `packages` | `Packages.cfg` | registry: `IndexUsable`, `VersionsImmutable`, `CacheWhole`, `PinsKept`, `EveryPublisherEnds`; output directory: `ListedUnmixed`, `LinkedWhole`, `NeverStale`, `Recovers` |
| `tooling` | `Tooling.cfg` | run: `RunsWhatWasSaved`, `UnchangedIsReused`, `OnlyEditsRefuse`; test: `SerialRunsAlone`, `ReportIsHonest`, `DiscoveriesAreNew`; campaign: `KeptReproduces`, `NothingIsLost`, `AppendedOnce`; inputs: `NarrowingLosesNothing`, `SamplesFit`; counters: `CountsAreExact` |
| `ownership` | `Ownership.cfg` | texts: `AcceptedFlowIsSafe`, `ReleasedOnEveryPath`; bodies: `AcceptedIsSafe`, `UsesAreDefined`, `BodiesDecided`; shares: `StaysUntilDropped`, `DestroyedOnce` |
| `task_nested` | `TaskNested.cfg` | violates `NestedLocksFinish`, finding 1 |
| `task_fields` | `TaskFields.cfg` | violates `ParentKeepsOff`, finding 8 |
| `registry_atomic` | `RegistryAtomic.cfg` | violates `InstallAtomic`, finding 2 |
| `select_common` | `SelectCommon.cfg` | violates `ChoosesReady`, finding 3 |
| `executable_edit` | `ExecutableEdit.cfg` | violates `RunsWhatWasSaved`, finding 4 |
| `counters_interrupted` | `CountersInterrupted.cfg` | violates `NothingInvented`, finding 5 |
| `flow_loop` | `FlowLoop.cfg` | violates `ReleasedOnEveryPath`, finding 7 |
| `share_plain` | `SharePlain.cfg` | violates `StaysUntilDropped`, finding 6 |

A type invariant is written for every module. That of `Channel` is in its run,
and all are proved. `FrameOutlivesWorker`, `WithinLimit`, `InOrder`
and `MutexHeld` are proved as well and in no run.

Deadlock is checked in `concurrency` and `packages`, where only a
finished program stops. It is not checked in `tooling` and `ownership`, nor in
the runs that share their modules: a killed command, a finished campaign, a
rejected body and a text of full length really end.

### Bounds, and why they are enough

* **Channel**: two producers that send 3 and 2 values, two consumers that take 2
  each and leave one to the owner's drain; requests -1 (refused), 0 (growing), 1
  and 2 (bounded). `DefaultSlots` is 1 and `IntMax` 7, so a growing channel
  doubles from 1 to 2 to 4, wraps in between, and the third doubling overflows.
  Two threads on each side are what a lost signal needs: one to be woken in place
  of another. `MaxSpurious` 1 is enough to reach every wait loop with a
  condition that is still false. The proofs have none of these bounds.
* **Task**: one object; locked mutators `t1` and `t2` of the main thread, of which
  `t2` is started within a loan, and a mutating method `k` that it calls and that
  starts a locked mutator `t3` and an unlocked reader `t4` on its receiver. A
  program has at most one of `t2` and `t3` (`Either`), and each activation makes
  one access (`Accesses`). A race needs two activations and one access each;
  methods, nesting, and the mix of locked and unlocked tasks are where the borrow
  rules differ. Every way in which `RaceFree` allows a race occurs: without any
  one of the exceptions in `Unchecked`, the run fails.
* **Select**: channels of one or two values, limits 4 and 4 on 6 sends, two cases
  each; the second select's body may return.
* **Registry**: version 1 from two sources, from one source for a second target,
  and version 2, one kill (`MaxCrashes`), and one part per copy (`Parts`), that
  is two points to be killed at; one root, whose build accepts any version.
* **Build**: two objects, so that a mixture of builds exists; two revisions; two
  kills (one leaves a state, the second interrupts its repair). A user gives
  `use`, `check` and `test` one after the other, or a test at any moment beside
  `use` (`Usages`). `MaxEntries` bounds the index when a command starts beside
  others: `prepare_output` drops the entries of its own slot only, so concurrent
  builds can leave more than one entry each.
* **Executable**: two commands, two revisions of three files, two edits (the
  second may bring the first text back), one kill. **TestRunner**: two cases of
  one fuzz test, a skipped test for a worker and a serial one that is repeated,
  two workers, one point; every way a test may end, each time. **Campaign**: an
  input that reduces in two steps, two points, two cases, two campaigns one
  after the other, one edit by the user; two harnesses are deterministic and two
  are not. **HitCounters**: four slots, of which one is that of identity zero;
  three of the five identities hash alike, and the four that are not zero are one
  more than fits; five hits by two threads.
* **Domains**: an integer from -1 to 4, a Boolean, and two float types of which
  the narrower has no value at 6 units, so that rounding crosses a strict bound;
  lists of up to two items; every sequence of up to three comparisons out of
  five to seven, split into guards in every way. Three comparisons are what it
  takes for a bound to come back to where it began, which is when the number of
  rounds matters. Three float and integer parameters are sampled after one
  comparison, two after three (`MaxDrawn`).
* **OwnershipFlow**: three names, which are taken in their order since they are
  alike; six sentences, blocks two deep: a loop with a branch, or two branches,
  and a move, a loan or a jump in each. **Lifetimes**: every graph of three
  blocks, with joins, loops, irreducible loops and dead blocks, and up to two
  events in a block. **Shared**: an owner and two tasks with at most five
  references, which is one more than two tasks that return copies need; an
  atomic share that tasks copy and a plain one that they do not.
* `ToolingSymmetry` exchanges the two commands and the two threads of
  `HitCounters`, of which neither is told apart; `tooling` has no temporal
  property.

Some branches are reached by a mutant or a violation run only, because the
passing runs show that they are never taken: a dependency whose checksums
disagree in `Registry` (`ReadIndex`) and in `Build` (`Reject` after the
realization, a missing object in `LinkObject`), and the refusal of a rewritten
file in `Executable`.

### Fairness

Weak fairness only: a thread that can go on does. In `Channel`
each thread's steps, its calls included, are weakly fair; nothing is assumed of
the mutex (any waiter may win it) nor of which sleeper a signal wakes. That is
enough because a program makes finitely many calls. In `Task` each activation's
steps are weakly fair except those that are the program's choice (to start a task
unless its arguments have been read, to call, to poll, to access, to begin an
await); a body that has nothing else to do returns. For both the run assumes
less: that some thread goes on as long as one can (`ConcurrencyFair`).
In `Registry` each publisher and each build is weakly fair, and a killed publish
is given again, which is what a user or a CI job does; kills are bounded. In
`Select` each producer and each select are weakly fair: a select that finds
nothing asks again (`sched_yield` and a jump), so it keeps taking steps, and the
producers are scheduled beside it by the operating system. In `Lifetimes` the
compiler goes on (`Verify`), nothing is assumed of the order in which it takes
blocks from the work list. `Recovers` of `Build` is an action property and needs
none; `TestRunner`, `Executable`, `Campaign`, `Domains` and `HitCounters` have
safety properties only. `TasksFinish`, `SelectsEnd`, `EveryPublisherEnds` and
`BodiesDecided` are `Finishes`, `SelectEnds`, `PublishersEnd` and `Decides` for
the behaviours about their subject. The violation of `NestedLocksFinish` is found
under this fairness, so it is a real deadlock and not a program that stops.

## 4. Proofs

All theorems hold for every value of the constants that the named assumptions
allow; TLC evaluates these assumptions in the runs.

* **Channel** (`ChannelProofs`). `ChannelInv` adds to the types
  which places a role can be at, the shape of the ring (`head + count` within the
  capacity, slots in use hold items), the owner of the mutex, and the counting
  argument of `NoLostWakeup`: there are at least as many awake threads of a side
  as there is work for it, or nobody of the side sleeps. `NoLostWakeup` is
  inductive only together with the ring and the mutex. From it follow
  `TypeCorrect`, `MutualExclusion`, `WakeupsAreKept`; then `Refinement`: the ring
  read from `head` is the queue of `FifoQueue`, growth leaves it alone, and every
  step is a step of the queue or none; then `NothingLost` (`InOrder`) and
  `NothingLeaked` (`FreedEmpty`).
* **Task** (`ConcurrencyProofs`). `IndInv` says who owns each frame
  (`OwnershipOK`), that the locked task between lock and unlock is the one that
  holds the mutex (`LockOK`), what the checker's rules for names make true of the
  loans of an object (`LoansOK`, which claims nothing of what a method does with
  its receiver, nor of what is read for the arguments of a locked task), and when
  an object may be gone (`AliveOK`). `RaceFree` says of a race that at the same
  time some activation uses the object, or has started tasks on it that clash,
  where the checker does not look (`Unchecked`). That is proved along the tree:
  each of the two that race stands at the end of a `Chain` of activations from the
  owner of the object, all of them on it (`ChainExists`, by induction, for which
  the parents must form a tree, `TreeAssumption`). Where one chain ends on the
  other, someone uses the object against a task of its own; where they part, one
  activation has started two tasks on the object, one of them to write, and the
  mutex excludes that both are locked. By name, the rules exclude both cases.
  `RootedBorrow`, that a borrow is rooted in the object's home, is what
  `ReceiverOutlivesTask` rests on.
  Proved: `TypeCorrect`, `FramesOutliveWorkers`, `EveryThreadJoinedOnce`,
  `ReceiversOutliveTasks`, `NoDataRace`, and `TasksAreStructured` (`Task`
  implements `ForkJoin`).
* **Select** (`ConcurrencyProofs`). `SelectIndInv`: the select is at one of its
  cases, and the counter is one behind while a body runs. Proved:
  `SelectTypeCorrect`, `LimitKept`, and `ChosenStaysReady`: `ChoosesReady` if no
  two selects have a channel in common. `select_common` shows that this condition
  is needed.
* **Registry** (`PackagesProofs`). `IndInv`: at most one publisher is past the
  lock (`LockHeld`); what it found under the lock still holds (`Entitled`);
  what is indexed is in place (`Placed`); a build holds an existing release
  (`Resolved`); `CacheWhole`. Proved: `TypeCorrect`, `IndexStaysUsable`,
  `CachesAreWhole`, `VersionsStay`, and, with a second invariant `Pinned` for
  roots that one process builds at a time, `PinsStay`.
* **Build** (`PackagesProofs`). `BuildInv`: of two commands that must not overlap
  one is idle (`SoleOK`); the index lists a slot once, and what it lists of a slot
  that nobody replaces is what the files hold (`IndexOK`); what a build has
  written so far is of its own compilation (`DraftOK`); what a dependent has
  checked is still so (`ReadOK`, `PathOK`). `LinkedWhole` and `NeverStale` say of
  themselves when they apply, and the invariant shows why that is needed: a
  command that replaces a slot makes false what another has just checked of it
  (`Guarded`). Proved: `BuildTypeCorrect`, `ListedIsOneBuild` (`ListedUnmixed`),
  `LinkedIsOneBuild` (`LinkedWhole`), `LinkedIsCurrent` (`NeverStale`), and the
  action property `Recovers` (`DependentsRecover`), for which a
  dependent must find again what it, or the build before it, has found (`PathOK`).
* **Executable** (`ToolingProofs`). `ExecutableInv`: where a command is and what it
  has read by then (`PlaceOK`); and, for users that save nothing while a command
  compiles (`FaithfulInv`), a command that has hashed the sources holds what is on
  disk, every record tells of the texts its program was made from, and what one
  command rewrites is the canonical form of what another has read. Proved:
  `ExecutableTypeCorrect`, `CommandsNeverRefuse` (`OnlyEditsRefuse`), and without
  the habit `hasty`, which `executable_edit` shows to be needed, `SavedIsRun`
  (`RunsWhatWasSaved`) and `RecordIsReused` (`UnchangedIsReused`).
* **TestRunner** (`TestRunnerProofs`). `TestRunnerInv`: what has been handed out,
  is queued, runs, waits in the batch and is recorded is together each execution
  once, in the order of the list (`HandedOK` to `ReportOK`); the baseline of an
  origin is complete before one of its tests fuzzes (`FuzzOK`), and a claim that
  is being confirmed is still new (`ClaimOK`). For any tests, workers and order
  in which workers end. Proved: `TestRunnerTypeCorrect`, `SerialTestsRunAlone`
  (`SerialRunsAlone`), `ReportsAreHonest` (`ReportIsHonest`) and
  `OnlyTheNewIsKept` (`DiscoveriesAreNew`).
* **Campaign** (`ToolingProofs`). `CampaignInv`: an outcome that is judged is one
  the harness may show on the input (`CaseOK`), the reduction so far still shows
  what is being kept (`BestOK`), what has been seen was reached by a recorded case
  (`SeenOK`), and the source holds each regression test once, as do the copies
  that a campaign has read or put aside (`FilesOK`). Proved: `CampaignReproduces`
  (`KeptReproduces`), `CampaignLosesNothing` (`NothingIsLost`),
  `TestsAreAppendedOnce` (`AppendedOnce`), and the types.
* **HitCounters** (`ToolingProofs`). `CountersIndInv`: every slot that a
  probe has passed holds another identity (`ProbeOK`), and so does every slot
  before the one an identity stands in (`TableOK`). Of two slots, a probe passes
  one before it comes to the other (`OnePassesTheOther`), so an identity has one
  slot, which a thread that claims it is the first to count in; a probe that has
  looked `SlotCount - 1` times has passed all. Proved for any number of threads
  and slots, and wherever the identities hash to: `CountersTypeCorrect` and
  `NoHitIsLost` (`CountsAreExact`).
* **Domains** (`ToolingProofs`). `DomainsInv`: the bounds are bounds, and keep
  every input that satisfies the guards so far (`Keeps`). That no step of
  `constrain` loses such an input is argued from the smallest step to the largest:
  the bound that `comparison_bound` rounds outward loses no value of the type
  (`BoundIsSound`, from what `RoundedFloat` and `AdjacentFloat` return on any
  finite grid); each bound that a comparison moves, in whatever order, is
  justified by what the input has at the other side (`MovesDerived`,
  `DerivedJustified`), so that `NarrowBy` keeps the input (`NarrowKeeps`); so do a
  comparison, a guard and the rounds (`ComparisonKeeps`, `ConstrainKeeps`), and a
  domain that keeps an input is not empty (`NotEmpty`). For any grids, ranges,
  signatures and guards: `DomainsInvariance` and `NarrowingIsSound`
  (`NarrowingLosesNothing`, unless the stage is "cyclic").

  `SamplesInv` adds what sampling needs: bounds are values of their type or beyond
  all of them (`Proper`, from `BoundIsProper`), there is a value at every place
  unless the function was refused (`ConstrainFills`), arguments lie within the
  bounds (`FitsAll`) and are equal where guards want it (`Equal`). A guard whose
  comparisons leave an item of a list without a value also leaves a scalar or a
  length without one, which are what `constrain` looks at. Each way to make
  arguments returns values in the bounds (`ClampedFits`, `DrawnFit`,
  `VariedFit`, `CapturedFit`, `ReductionFits`). Of a group: parameters with one label
  are equal in every input that satisfies the guards (`LabelsFaithful`), so the
  bounds common to them lose no such input (`CommonLower`, `CommonUpper`) and a
  group whose common bounds are empty has none (`NoCommonValue`, `CoupleFails`);
  and a value within them, rounded to the narrowest float and cut to an integer
  where one is, is the same value in each member's type and within its bounds
  (`SharedFits`, `CoupleFits`). From these follow `SamplesInvariance` and
  `SamplesAreSound` (`SamplesFit`); `DomainsTypeCorrect` needs no condition.

  The conditions of these theorems are needed. `ExactConstants`: what is compared
  with the items of a list of floats is a value of their type (see the
  remarks); of `SamplesFit` only the refusal of a group depends on it.
  `ProperGuards`: no guard compares the items of a list strictly with themselves, as
  `all([x < x for x in xs])`, which only the empty list satisfies (see the
  remarks). The guards of the run meet both.
* **OwnershipFlow** (`FlowProofs`). `FlowIndInv` relates what the checker knows to
  the memory of each path, at the point that the text has reached and at each exit
  that waits for a join. `Sound`: a borrow in use is of a name that is lent and
  not moved (`Protected`); and the values of a memory belong one to one to the
  names that the checker counts as holding one, views and borrows being of the
  value of their source (`Faithful`). `Nested` says it for the open blocks: the
  entry and the exits of each are sound, and what was moved at the entry of a loop
  stays moved, on the same paths (`Since`). A sentence keeps it by a lemma of its
  own; a join keeps it because what one side alone has moved is released on the
  other, and the memories that both sides leave then agree with one state.
  Proved, for texts and blocks of any size and any number of names:
  `FlowInvariance`, `FlowTypeCorrect`, `CheckedIsSafe` (`AcceptedFlowIsSafe`) and
  `PathsRelease` (`ReleasedOnEveryPath`), for the texts of `StraightText`. Each
  of its three conditions is needed: there is a text that breaks the properties
  without it (finding 7 and the remarks).
* **Lifetimes** (`OwnershipProofs`). `LifetimesIndInv` is the argument of a work
  list: whatever block is not pending agrees with all its predecessors
  (`Working`); an analysis that has ended is a solution for every edge (`Sound`)
  and rejected nothing; and the facts of an executed path are among those of the
  solution (`PathOK`), because each event changes both alike. Proved, for every
  body: `TypeCorrect`, `Soundness` (`AcceptedIsSafe`) and `DefinedBeforeUse`
  (`UsesAreDefined`, from the dominators). That the list empties is left to TLC.
* **Shared** (`OwnershipProofs`). The count is the number of live references, plus
  one while one is being dropped, so the payload is destroyed by the last of
  them: `PayloadStays` (`StaysUntilDropped`) and `FreedOnce` (`DestroyedOnce`),
  for a share that is atomic or whose tasks return no copies, for any number of
  tasks and references. `share_plain` shows that this condition is needed.

The induction theorems of the library take a predicate, which the provers cannot
instantiate. `InductionLemmas` states what is needed of them with sets: a set of
numbers that holds 0 and every successor holds them all (`SetInduction`); a
function that is defined by recursion exists when its steps are a function
(`RecursionExists`) and stays in a set that the steps stay in (`StaysIn`), which
is also how the recursions of `Domains` are reasoned about. From
these follows what `Filtering` keeps of a list (`FilterChooses`,
`FilterDistinct`, `FilterComplete`), which the runner and the index of a package
are filtered with.

### Only model-checked

Liveness (`ScopeEnds`, `TasksFinish`, `EveryPublisherEnds`, `SelectsEnd`,
`BodiesDecided`), which is beyond the prover; and of `Domains` the "cyclic" case of
`NarrowingLosesNothing`, that a guard of at most three comparisons which did not
settle within the rounds has no inputs. It is about three comparisons because it
is false of five (see the remarks).

## 5. Findings

1. **Nested locked tasks deadlock** (`task_nested`). Every locked task locks one
   weak global `__sev_task_mutex` until it ends (async.py:216, 242), and nothing
   keeps one from starting and joining another: the child, although its receiver
   is another object, waits for the mutex that its parent holds.
   docs/sip/0035-Concurrency.md:184 says that `lock` "protects the captured
   receiver, not every task in the program", and lines 186-187 that such a
   program is rejected.
2. **An installation is visible before it is complete** (`registry_atomic`). The
   version directory is made before the index is written (registry.py:230-232),
   and a build that looks in between fails although an older release would do;
   registry.py:133 and docs/sip/0003-Packages.md:53 say the installation is
   atomic. The directory stays so when the publisher is killed there, until the
   version is published again.
3. **A select may sleep in a case that is not ready** (`select_common`). `ready`
   (select.py:52) and `receive` (select.py:56) are two critical sections; if
   another task receives from the same channel in between, the select blocks in
   that case while another case is ready. docs/sip/0035-Concurrency.md:207:
   "Select chooses one ready arm". With exclusive channels the property holds,
   and is proved.
4. **A file saved during a compilation is taken for compiled**
   (`executable_edit`). `build_source` hashes the sources again after it has
   compiled them (executable.py:299), since the lint may have rewritten them, and
   records these checksums beside a program made from the earlier texts; every
   later command reuses it. docs/sip/0035-Linting.md:285: "imported helper
   changes -> rebuild dependency and executable".
5. **A program killed while it makes its counter file gets hits**
   (`counters_interrupted`). The file is sized before the magic is written
   (coverage.py:29-37), and a file without the magic is read as a list of
   identities (coverage.py:148): zeros are hits of the point whose identity is
   zero. coverage.py:319 names a test
   `test_interrupted_counter_initialization_does_not_invent_hits`, which covers a
   file cut before its slots.
6. **The count of a plain share loses a retain** (`share_plain`). It is loaded and
   stored in two operations (shared.py:176-178), while the checker lets a task
   return a copy of a plain share it is given; the payload is then destroyed
   while a reference is held. docs/sip/0032-Variables.md:56: "The lifecycle of s
   stays until all the shares are dropped".
7. **An owner given back inside a loop is never released** (`flow_loop`). A loop
   carries only bindings that are not moved at its entry (while.py:314-315), so
   an array given to a name that was dropped before the loop, followed by
   `break`, counts as moved after it (flow.py:181).
   docs/sip/0027-Ownership.md:980 asks that each owned place be "released exactly
   once on that path".

8. **An object is used beside a locked task that writes it** (`task_fields`).
   docs/sip/0035-Concurrency.md:185: "Parent cannot access locked shared state
   until its loan ends at await/join." After
   `t = async c.add(1) with local, thread, lock` the checker accepts
   `u = async c.add(c.value) with local, thread, lock`, which reads `c.value` at
   once (checking.py:182-183); and in a method that has started a locked task on
   its receiver it accepts a read of `value`, and `value += 1`, since the task
   retains `self` and not the field (class.py:257-263, async.py:283). None of these
   accesses takes the mutex. In the same way a method may start an unlocked reader
   of its receiver and then write a field. `RaceFree` shows that these are the only
   ways to a race.

Remarks, met while modelling, that no run states:

* An index of `package.pkg` may list a slot that is being written, since it is
  read, changed and written without a lock: a test build writes back the entry
  of the `dev` slot that a build has just removed (package.py:523 says that the
  interface is published "only after every artifact has been written"). Readers
  survive it: they compare checksums (`LinkedWhole`).
* `constrain` reads `all([x < b for x in xs])` as a bound on `b`, although the
  empty list satisfies it for every `b`; inputs with an empty list and such a `b`
  are never generated, and a contradiction inside `all` is refused as an empty
  domain. `NarrowingLosesNothing` is therefore stated for lists with items.
* The rounds of `constrain` are two more than the parameters (campaigns.py:253),
  and bounds that settle later are refused as "cyclic strict bounds": with `a`,
  `b`, `c` of a float type and `d` an integer, the guard
  `d <= a and c <= d and b <= c and a <= b and a >= 0.5` is refused, although
  `a = b = c = 1.0, d = 1` satisfies it. The comparisons stand in the order that
  carries a bound one step in each round, and the integer rounds it up once on its
  way around. TLC finds this with guards of five comparisons, and the code
  does the same.
* `all([x < x for x in xs])` leaves the items of a list of `bool` without a value,
  which `constrain` does not notice: it looks at names and lengths
  (campaigns.py:257-258).
  What is then drawn for the items lies outside their bounds, and no input but the
  empty list satisfies the guard. The proof of `SamplesInvariance` found this: it is
  the condition `ProperGuards`.
* A constant that is compared with the items of a list of floats is rounded by
  `constrain` (campaigns.py:241-242) and not by `satisfies_constraints`, which
  looks for the name of a parameter (campaigns.py:155-160): when `0.3` rounds down
  to a value of the type, `all([x < 0.3 for x in xs])` excludes that value,
  although it satisfies the guard. The proof of `NarrowingIsSound` found this: it
  is the condition `ExactConstants`. And in a chain such as
  `a < 0.1 < b` it is rounded once more for the second comparison.
* A borrow does not keep the names it was made through: after `v = view x`,
  `n = borrow v`, `w = move v` the name `v` may be bound to a new array, and a
  read of `n`, which is still a loan of `x`, then resolves to that array
  (flow.py:59-66). The search for the inductive invariant of `OwnershipFlow` found
  this text; it has more names than the run allows, and `rehandles` sets it apart.

## 6. Plan

In this order.

1. **Proofs about `Domains`**: which guards settle within `Rounds`, such as those
   that compare with constants only; for them the "cyclic" case would be proved.
2. **`OwnershipFlow`**: `for`, `match`, throws, and borrows that values retain.
3. **`Task`**: module globals (a hazard no property covers yet), values passed as
   `view`, and failures that travel through `await`.
4. **`Campaign` and `Domains`**: the growth check of the profile mode, lists of
   lists and their uniform lengths.
5. **Registry and channels**: two builds of one root that write `package.lock` at
   once, and the byte size of a channel's buffer for a huge requested capacity.

## 7. Not modelled

* The components of section 1 without concurrency or state, and the package
  session, of which the repository holds no server.
* Processes as targets of `async` and cancellation, which SIP-0035 describes as
  targets and the compiler does not generate.
* In `OwnershipFlow`: retained borrows, shape loans, the sources of views that
  calls return, the mirrored readers; the joins of `for`, grammars, `match`,
  `throws`, `try` and `select`; the materialisation of cleanup. In `Lifetimes`:
  types, edge arguments and the restoring of iterators.
* Two builds that write the `dev` slot at once (`LinkedWhole` is about one), two
  builds that change one `package.lock` at once (registry.py:105), and a
  channel whose requested capacity times the element size wraps
  (channel.py:176).
* In `Domains`: the step that `adjacent_float` takes from an infinity of a 16- or
  32-bit float (campaigns.py:49-51); in the module a bound that has left the finite
  values stays where it is.
* The contents of interfaces and objects (checksums are taken to tell contents
  apart); memory models weaker than sequential consistency (accesses to shared
  state are under a mutex or atomic, except those `RaceFree` and `share_plain`
  are about); file systems that reorder a rename and earlier writes; dependency
  graphs deeper than one dependent and one dependency; path validation.
