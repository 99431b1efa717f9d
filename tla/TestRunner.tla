----------------------------- MODULE TestRunner -----------------------------
(***************************************************************************)
(* sev test --fuzz: the second half of test_package and execute_test_case  *)
(* of py_compiler/packaging/testing.py.  The main thread hands the linked  *)
(* tests to a pool of workers or runs them itself, records the results in  *)
(* order in results.json, and keeps the generated cases that show a new    *)
(* failure, or reach new points, and do so again.                          *)
(*                                                                         *)
(* What a compiled test does is not known: each execution ends with one of *)
(* Results and some of Points reached.  A test that is repeated writes a   *)
(* coverage file for each iteration, which the main thread reads when it   *)
(* records that iteration.                                                 *)
(***************************************************************************)
EXTENDS Naturals, Sequences, FiniteSets, Filtering

CONSTANTS
  Listed,      \* the tests in the order of the symbols, without repetition
  Parallel,    \* tests with the option parallel
  Generated,   \* cases of a fuzz test, by the name of the test
  Skipped,     \* tests with the option skip
  Repeats,     \* Repeats[t]: the option repeat
  Workers,     \* sev test --parallel
  Points       \* coverage points

Tests == {Listed[i] : i \in DOMAIN Listed}
Origins == {Generated[t] : t \in DOMAIN Generated}
Results == {"passed", "aborted", "timeout"}
Passes == {"passed", "skipped"}

ASSUME TestRunnerAssumption ==
  /\ Listed \in Seq(Tests) /\ Listed # <<>>
  /\ \A i, j \in DOMAIN Listed : i # j => Listed[i] # Listed[j]
  /\ Parallel \subseteq Tests /\ Skipped \subseteq Tests
  /\ DOMAIN Generated \subseteq Tests
  /\ Repeats \in [Tests -> Nat \ {0}]
  /\ Workers \in Nat \ {0}

VARIABLES
  job,          \* job[t]: "none", "queued", "running", "done" or "broken"
  results,      \* results[t]: results of the iterations of the latest execution
  coverage,     \* coverage[t][n]: points in the coverage file of the n-th iteration
  main,         \* what the main thread is doing
  given,        \* number of executions it has begun or handed out
  pending,      \* executions handed out whose results it has not taken
  recording,    \* the test whose results it waits for or records
  batch,        \* these results
  nth,          \* the one of them it records
  baseline,     \* points reached by ordinary tests that passed
  opened,       \* fuzz tests that have an entry in campaign_hits
  reached,      \* reached[o]: that entry
  failures,     \* campaign_failures
  claim,        \* the discovery that a second execution is to confirm
  discoveries,
  report,       \* the results in the report
  onDisk        \* results.json

jobVars == <<job, results, coverage>>
handVars == <<given, pending, recording, batch, nth>>
fuzzVars == <<baseline, opened, reached, failures, claim, discoveries>>
reportVars == <<report, onDisk>>
runnerVars == <<jobVars, main, handVars, fuzzVars, reportVars>>

IsGenerated(t) == t \in DOMAIN Generated

\* The sort is stable and puts the generated cases last.
Executions == Filter(Listed, Tests \ DOMAIN Generated) \o Filter(Listed, DOMAIN Generated)

NoClaim == [new |-> {}, novel |-> FALSE, hits |-> {}]

TestRunnerInit ==
  /\ job = [t \in Tests |-> "none"]
  /\ results = [t \in Tests |-> <<>>]
  /\ coverage = [t \in Tests |-> [n \in 1 .. Repeats[t] |-> {}]]
  /\ main = "next"
  /\ given = 0
  /\ pending = <<>>
  /\ recording = Executions[1]
  /\ batch = <<>>
  /\ nth = 1
  /\ baseline = {}
  /\ opened = {}
  /\ reached = [o \in Origins |-> {}]
  /\ failures = {}
  /\ claim = NoClaim
  /\ discoveries = <<>>
  /\ report = <<>>
  /\ onDisk = [success |-> FALSE, tests |-> <<>>]

-----------------------------------------------------------------------------
(* The main thread hands out, or runs, the next execution.                  *)

NextIsPooled == given < Len(Executions) /\ Workers > 1 /\ Executions[given + 1] \in Parallel
NextIsSerial == given < Len(Executions) /\ ~NextIsPooled

HandOut ==
  /\ main = "next" /\ NextIsPooled
  /\ job' = [job EXCEPT ![Executions[given + 1]] = "queued"]
  /\ pending' = Append(pending, Executions[given + 1])
  /\ given' = given + 1
  /\ UNCHANGED <<results, coverage, main, recording, batch, nth, fuzzVars, reportVars>>

\* A serial test does not wait for those handed out before it.
MustFinish_bug == ~NextIsPooled /\ given = Len(Executions)

\* finish_pending comes before a serial test and after the last test.
MustFinish == ~NextIsPooled

\* finish_pending waits for the oldest future.
FinishPending ==
  /\ main = "next" /\ MustFinish /\ pending # <<>>
  /\ main' = "wait"
  /\ recording' = Head(pending)
  /\ pending' = Tail(pending)
  /\ UNCHANGED <<jobVars, given, batch, nth, fuzzVars, reportVars>>

RunSerial ==
  /\ main = "next" /\ NextIsSerial
  /\ MustFinish => pending = <<>>
  /\ main' = "wait"
  /\ recording' = Executions[given + 1]
  /\ job' = [job EXCEPT ![Executions[given + 1]] = "running"]
  /\ given' = given + 1
  /\ UNCHANGED <<results, coverage, pending, batch, nth, fuzzVars, reportVars>>

-----------------------------------------------------------------------------
(* Executions, by the main thread or a worker.                              *)

\* The main thread runs a test itself when it is serial, or to confirm it.
ByMain(t) == t = recording /\ (main = "confirm" \/ t \notin Parallel \/ Workers = 1)
Busy == {t \in Tests : job[t] = "running" /\ ~ByMain(t)}

\* An idle worker takes the oldest execution in the queue of the pool.
PickUp(i) ==
  /\ main # "killed"
  /\ job[Executions[i]] = "queued"
  /\ \A j \in 1 .. i - 1 : job[Executions[j]] # "queued"
  /\ Cardinality(Busy) < Workers
  /\ job' = [job EXCEPT ![Executions[i]] = "running"]
  /\ UNCHANGED <<results, coverage, main, handVars, fuzzVars, reportVars>>

\* execute_test_case: an iteration ends, by itself or at its deadline.
EndIteration(t) ==
  LET n == Len(results[t]) + 1
  IN
  /\ main # "killed"
  /\ job[t] = "running" /\ t \notin Skipped
  /\ \E r \in Results, hits \in SUBSET Points :
       /\ results' = [results EXCEPT ![t] = Append(@, r)]
       /\ coverage' = [coverage EXCEPT ![t][n] = hits]
       /\ job' = IF r # "passed" \/ n = Repeats[t] THEN [job EXCEPT ![t] = "done"] ELSE job
  /\ UNCHANGED <<main, handVars, fuzzVars, reportVars>>

Skip(t) ==
  /\ main # "killed"
  /\ job[t] = "running" /\ t \in Skipped
  /\ results' = [results EXCEPT ![t] = <<"skipped">>]
  /\ job' = [job EXCEPT ![t] = "done"]
  /\ UNCHANGED <<coverage, main, handVars, fuzzVars, reportVars>>

\* The process cannot be started, or a file of the execution not be read.
Break(t) ==
  /\ main # "killed"
  /\ job[t] = "running"
  /\ job' = [job EXCEPT ![t] = "broken"]
  /\ UNCHANGED <<results, coverage, main, handVars, fuzzVars, reportVars>>

-----------------------------------------------------------------------------
(* record_results                                                           *)

\* future.result() returns.
Take ==
  /\ main = "wait" /\ job[recording] = "done"
  /\ main' = "record"
  /\ batch' = results[recording]
  /\ nth' = 1
  /\ UNCHANGED <<jobVars, given, pending, recording, fuzzVars, reportVars>>

\* future.result(), or the confirmation, raises: the pool is left, which waits for it.
Raise ==
  /\ main \in {"wait", "confirm"} /\ job[recording] = "broken"
  /\ main' = "closing"
  /\ UNCHANGED <<jobVars, handVars, fuzzVars, reportVars>>

Entry == [test |-> recording, iteration |-> nth, passed |-> batch[nth] \in Passes]

\* The report is written after each result, before success is known.
Report ==
  /\ report' = Append(report, Entry)
  /\ onDisk' = [success |-> FALSE, tests |-> report']
  /\ nth' = nth + 1

RecordOrdinary ==
  /\ main = "record" /\ nth <= Len(batch)
  /\ ~IsGenerated(recording) \/ batch[nth] = "skipped"
  /\ baseline' = IF batch[nth] = "passed" THEN baseline \cup coverage[recording][nth] ELSE baseline
  /\ Report
  /\ UNCHANGED <<jobVars, main, given, pending, recording, batch, opened, reached, failures, claim, discoveries>>

\* Points reached before this fuzz test began count as known.
Known(o) == IF o \in opened THEN reached[o] ELSE baseline

RecordGenerated ==
  LET o == Generated[recording]
      hits == coverage[recording][nth]
      failure == <<o, batch[nth]>>
      new == hits \ Known(o)
      novel == batch[nth] # "passed" /\ failure \notin failures
  IN
  /\ main = "record" /\ nth <= Len(batch)
  /\ IsGenerated(recording) /\ batch[nth] # "skipped"
  /\ opened' = opened \cup {o}
  /\ reached' = [reached EXCEPT ![o] = Known(o)]
  /\ failures' = IF novel THEN failures \cup {failure} ELSE failures
  /\ \/ /\ new = {} /\ ~novel
        /\ Report
        /\ UNCHANGED <<jobVars, main, claim>>
     \/ /\ new # {} \/ novel
        /\ claim' = [new |-> new, novel |-> novel, hits |-> hits]
        /\ main' = "confirm"
        /\ job' = [job EXCEPT ![recording] = "running"]
        /\ results' = [results EXCEPT ![recording] = <<>>]
        /\ UNCHANGED <<coverage, nth, reportVars>>
  /\ UNCHANGED <<given, pending, recording, batch, baseline, discoveries>>

\* campaign_hits keeps its points when a discovery is made.
Credit_bug(o, hits) == reached' = reached

Credit(o, hits) == reached' = [reached EXCEPT ![o] = @ \cup hits]

\* Only the first iteration of the second execution is compared.
Judge ==
  LET confirmed == /\ results[recording][1] = batch[nth]
                   /\ claim.novel \/ claim.new \subseteq coverage[recording][1]
      o == Generated[recording]
  IN
  /\ main = "confirm" /\ job[recording] = "done"
  /\ IF confirmed
     THEN /\ discoveries' = Append(discoveries,
                [origin |-> o, new |-> claim.new, failure |-> IF claim.novel THEN batch[nth] ELSE "none"])
          /\ Credit(o, claim.hits)
     ELSE UNCHANGED <<discoveries, reached>>
  /\ claim' = NoClaim
  /\ Report
  /\ main' = "record"
  /\ UNCHANGED <<jobVars, given, pending, recording, batch, baseline, opened, failures>>

Recorded ==
  /\ main = "record" /\ nth > Len(batch)
  /\ main' = "next"
  /\ batch' = <<>>
  /\ nth' = 1
  /\ UNCHANGED <<jobVars, given, pending, recording, fuzzVars, reportVars>>

-----------------------------------------------------------------------------
Finish ==
  /\ main = "next" /\ given = Len(Executions) /\ pending = <<>>
  /\ onDisk' = [success |-> \A i \in DOMAIN report : report[i].passed, tests |-> report]
  /\ main' = "over"
  /\ UNCHANGED <<jobVars, handVars, fuzzVars, report>>

\* The last report is written on the way out of an exception too.
Close_bug ==
  /\ main = "closing"
  /\ \A t \in Tests : job[t] \notin {"queued", "running"}
  /\ onDisk' = [success |-> \A i \in DOMAIN report : report[i].passed, tests |-> report]
  /\ main' = "over"
  /\ UNCHANGED <<jobVars, handVars, fuzzVars, report>>

\* ThreadPoolExecutor.__exit__: everything handed out is still run.
Close ==
  /\ main = "closing"
  /\ \A t \in Tests : job[t] \notin {"queued", "running"}
  /\ main' = "over"
  /\ UNCHANGED <<jobVars, handVars, fuzzVars, reportVars>>

Interrupt ==
  /\ main \notin {"over", "killed"}
  /\ main' = "killed"
  /\ UNCHANGED <<jobVars, handVars, fuzzVars, reportVars>>

TestRunnerNext ==
  \/ HandOut \/ FinishPending \/ RunSerial
  \/ \E i \in DOMAIN Executions : PickUp(i)
  \/ \E t \in Tests : EndIteration(t) \/ Skip(t) \/ Break(t)
  \/ Take \/ Raise \/ RecordOrdinary \/ RecordGenerated \/ Judge \/ Recorded
  \/ Finish \/ Close \/ Interrupt

TestRunnerSpec == TestRunnerInit /\ [][TestRunnerNext]_runnerVars

-----------------------------------------------------------------------------
Entries == [test : Tests, iteration : Nat \ {0}, passed : BOOLEAN]
TestDiscoveries == [origin : Origins, new : SUBSET Points, failure : Results \cup {"none"}]

TestRunnerTypeOK ==
  /\ job \in [Tests -> {"none", "queued", "running", "done", "broken"}]
  /\ results \in [Tests -> Seq(Results \cup {"skipped"})]
  /\ DOMAIN coverage = Tests
  /\ \A t \in Tests : coverage[t] \in [1 .. Repeats[t] -> SUBSET Points]
  /\ main \in {"next", "wait", "record", "confirm", "closing", "over", "killed"}
  /\ given \in 0 .. Len(Executions)
  /\ pending \in Seq(Tests)
  /\ recording \in Tests
  /\ batch \in Seq(Results \cup {"skipped"})
  /\ nth \in Nat \ {0}
  /\ baseline \subseteq Points
  /\ opened \subseteq Origins
  /\ reached \in [Origins -> SUBSET Points]
  /\ failures \subseteq Origins \X Results
  /\ claim \in [new : SUBSET Points, novel : BOOLEAN, hits : SUBSET Points]
  /\ discoveries \in Seq(TestDiscoveries)
  /\ report \in Seq(Entries)
  /\ onDisk \in [success : BOOLEAN, tests : Seq(Entries)]

(* A test without the option parallel runs by itself, although its          *)
(* predecessors run in a pool and may be executed again when their results  *)
(* are recorded.                                                            *)
SerialRunsAlone ==
  \A t \in Tests \ Parallel : job[t] = "running" => \A o \in Tests \ {t} : job[o] # "running"

\* The tests in a report, one entry for each execution.
Covered(entries) ==
  LET firsts == Filter(entries, {e \in Entries : e.iteration = 1})
  IN  [i \in DOMAIN firsts |-> firsts[i].test]

(* results.json never says more than was found, whatever was killed or      *)
(* could not be run: it lists executions in their order without a gap, and  *)
(* success stands there only when every execution is listed and passed all  *)
(* its iterations.                                                          *)
ReportIsHonest ==
  /\ LET covered == Covered(onDisk.tests)
     IN  /\ covered = SubSeq(Executions, 1, Len(covered))
         /\ onDisk.success => covered = Executions
  /\ onDisk.success =>
       \A i \in DOMAIN onDisk.tests :
         /\ onDisk.tests[i].passed
         /\ LET t == onDisk.tests[i].test
            IN  t \in Skipped \/ \E j \in DOMAIN onDisk.tests :
                                  onDisk.tests[j].test = t /\ onDisk.tests[j].iteration = Repeats[t]

(* Every discovery is a discovery: a failure that no other case of the fuzz *)
(* test was kept for, or points that no ordinary test and no case kept      *)
(* before it reached, in whatever order the workers finished.               *)
DiscoveriesAreNew ==
  \A i \in DOMAIN discoveries :
    LET d == discoveries[i]
    IN  /\ d.new # {} \/ d.failure # "none"
        /\ d.new \cap baseline = {}
        /\ \A j \in 1 .. i - 1 : discoveries[j].origin = d.origin =>
             /\ d.new \cap discoveries[j].new = {}
             /\ d.failure # "none" => d.failure # discoveries[j].failure
=============================================================================
