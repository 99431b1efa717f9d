-------------------------- MODULE TestRunnerProofs ---------------------------
(***************************************************************************)
(* Proofs about TestRunner, for any tests, options, workers and results:   *)
(* serial tests run alone, results.json never says more than was found,    *)
(* and what is kept as a discovery is one.                                 *)
(***************************************************************************)
EXTENDS TestRunner, InductionLemmas

(* The inductive invariant.  Results are taken in the order in which tests  *)
(* are handed out; Taken of them are taken or awaited, and pending holds    *)
(* the others.                                                              *)
Taken == given - Len(pending)
Waits(t) == \E i \in DOMAIN pending : pending[i] = t
Active(t) == job[t] \in {"queued", "running"}

HandedOK ==
  /\ Len(pending) <= given
  /\ \A i \in DOMAIN pending : pending[i] = Executions[Taken + i] /\ pending[i] \in Parallel
  /\ Taken = 0 => main \in {"next", "killed"}
  /\ Taken > 0 => recording = Executions[Taken]

(* What runs was handed out and not taken yet, or is what the main thread   *)
(* waits for; nothing is handed out when that is a serial test.             *)
QueueOK ==
  /\ \A t \in Tests : Active(t) => Waits(t) \/ (t = recording /\ main \in {"wait", "confirm", "killed"})
  /\ recording \notin Parallel /\ (main \in {"wait", "record", "confirm"} \/ Active(recording)) => pending = <<>>

\* The results of an execution that has ended: a failure ends it, and a skipped test has one.
Complete(t, b) ==
  IF t \in Skipped THEN b = <<"skipped">>
  ELSE /\ b \in Seq(Results)
       /\ Len(b) \in 1 .. Repeats[t]
       /\ \A i \in 1 .. Len(b) - 1 : b[i] = "passed"
       /\ b[Len(b)] = "passed" => Len(b) = Repeats[t]

Partial(t, b) ==
  IF t \in Skipped THEN b = <<>>
  ELSE b \in Seq({"passed"}) /\ Len(b) < Repeats[t]

JobsOK ==
  /\ \A i \in DOMAIN Executions : i > given => job[Executions[i]] = "none"
  /\ \A t \in Tests : /\ job[t] \in {"none", "queued"} => results[t] = <<>>
                      /\ job[t] = "running" => Partial(t, results[t])
                      /\ job[t] = "done" => Complete(t, results[t])

BatchOK ==
  /\ main \in {"next", "wait"} => nth = 1
  /\ main \in {"record", "confirm"} => Complete(recording, batch) /\ nth <= Len(batch) + 1
  /\ main = "confirm" => nth <= Len(batch) /\ IsGenerated(recording) /\ batch[nth] # "skipped"

(* How many executions have their first entry in the report, and how many   *)
(* all their entries.                                                       *)
Firsts == IF main = "wait" \/ (main \in {"record", "confirm"} /\ nth = 1) THEN Taken - 1 ELSE Taken
Lasts == IF main \in {"wait", "record", "confirm"} THEN Taken - 1 ELSE Taken

Settled(t) ==
  t \in Skipped \/ \E j \in DOMAIN report : /\ report[j].test = t
                                            /\ report[j].iteration = Repeats[t] \/ ~report[j].passed

ReportOK ==
  /\ onDisk.tests = report
  /\ main \in {"next", "wait", "record", "confirm"} =>
       /\ Covered(report) = SubSeq(Executions, 1, Firsts)
       /\ \A i \in 1 .. Lasts : Settled(Executions[i])
  /\ main \in {"record", "confirm"} =>
       \A m \in 1 .. nth - 1 : \E j \in DOMAIN report :
         report[j] = [test |-> recording, iteration |-> m, passed |-> batch[m] \in Passes]
  /\ \E n \in 0 .. Len(Executions) : Covered(report) = SubSeq(Executions, 1, n)
  /\ onDisk.success =>
       /\ main = "over"
       /\ Covered(report) = Executions
       /\ \A i \in DOMAIN Executions : Settled(Executions[i])
       /\ \A j \in DOMAIN report : report[j].passed

(* Once a fuzz test has been recorded, what is recorded is generated, and   *)
(* the baseline stays.                                                      *)
FuzzOK ==
  /\ opened # {} => Taken > 0 /\ IsGenerated(recording)
  /\ \A o \in opened : baseline \subseteq reached[o]
  /\ \A i \in DOMAIN discoveries :
       LET d == discoveries[i]
       IN  /\ d.origin \in opened
           /\ d.new \subseteq reached[d.origin]
           /\ d.failure # "none" => <<d.origin, d.failure>> \in failures

\* The claim that waits for its confirmation is still one.
ClaimOK ==
  main = "confirm" =>
    /\ Generated[recording] \in opened
    /\ claim.new \cap reached[Generated[recording]] = {}
    /\ claim.new \subseteq claim.hits
    /\ claim.new # {} \/ claim.novel
    /\ claim.novel => /\ <<Generated[recording], batch[nth]>> \in failures
                      /\ \A i \in DOMAIN discoveries : discoveries[i].origin = Generated[recording]
                                                         => discoveries[i].failure # batch[nth]

TestRunnerInv ==
  /\ TestRunnerTypeOK /\ HandedOK /\ QueueOK /\ JobsOK /\ BatchOK
  /\ ReportOK /\ FuzzOK /\ ClaimOK /\ DiscoveriesAreNew

-----------------------------------------------------------------------------
(* The sort: every test once, those generated after the others.             *)

LEMMA ExecutionsTyped ==
  /\ Executions \in Seq(Tests)
  /\ \A i, j \in 1 .. Len(Executions) : i # j => Executions[i] # Executions[j]
  /\ \A i, j \in 1 .. Len(Executions) : i < j /\ IsGenerated(Executions[i]) => IsGenerated(Executions[j])
  /\ \A t \in Tests : \E i \in 1 .. Len(Executions) : Executions[i] = t
<1> DEFINE G == DOMAIN Generated
<1> DEFINE A == Filter(Listed, Tests \ G)
<1> DEFINE B == Filter(Listed, G)
<1>1. Listed \in Seq(Tests) /\ \A i, j \in 1 .. Len(Listed) : i # j => Listed[i] # Listed[j]
  BY TestRunnerAssumption
<1>2. A \in Seq(Tests) /\ \A k \in 1 .. Len(A) : A[k] \notin G
  BY <1>1, FilterTyped
<1>3. B \in Seq(Tests) /\ \A k \in 1 .. Len(B) : B[k] \in G
  BY <1>1, FilterTyped
<1>4. \A i, j \in 1 .. Len(A) : i # j => A[i] # A[j]
  BY <1>1, FilterDistinct
<1>5. \A i, j \in 1 .. Len(B) : i # j => B[i] # B[j]
  BY <1>1, FilterDistinct
<1>6. ASSUME NEW t \in Tests PROVE (\E k \in 1 .. Len(A) : A[k] = t) \/ (\E k \in 1 .. Len(B) : B[k] = t)
  <2>1. PICK i \in 1 .. Len(Listed) : Listed[i] = t
    BY <1>1 DEF Tests
  <2>2. t \in G => \E k \in 1 .. Len(B) : B[k] = t
    BY <1>1, <2>1, FilterComplete
  <2>3. t \notin G => \E k \in 1 .. Len(A) : A[k] = t
    <3> SUFFICES ASSUME t \notin G PROVE \E k \in 1 .. Len(A) : A[k] = t
      OBVIOUS
    <3> DEFINE E == Tests \ G
    <3>1. Listed[i] \in E /\ A = Filter(Listed, E)
      BY <2>1
    <3> HIDE DEF E, A
    <3>2. QED
      BY <1>1, <2>1, <3>1, FilterComplete
  <2>4. QED
    BY <2>2, <2>3
<1>7. Executions = A \o B
  BY DEF Executions
<1> HIDE DEF A, B
<1>8. /\ Executions \in Seq(Tests) /\ Len(Executions) = Len(A) + Len(B) /\ Len(A) \in Nat /\ Len(B) \in Nat
      /\ \A i \in 1 .. Len(A) : Executions[i] = A[i]
      /\ \A i \in 1 .. Len(B) : Executions[Len(A) + i] = B[i]
  BY <1>2, <1>3, <1>7
<1>9. ASSUME NEW i \in 1 .. Len(Executions)
      PROVE  (i \in 1 .. Len(A) /\ Executions[i] = A[i]) \/ (i - Len(A) \in 1 .. Len(B) /\ Executions[i] = B[i - Len(A)])
  <2>1. CASE i <= Len(A)
    BY <1>8, <2>1
  <2>2. CASE i > Len(A)
    <3>1. i - Len(A) \in 1 .. Len(B) /\ Len(A) + (i - Len(A)) = i
      BY <1>8, <2>2
    <3>2. QED
      BY <1>8, <3>1
  <2>3. QED
    BY <1>8, <2>1, <2>2
<1>10. ASSUME NEW i \in 1 .. Len(Executions), NEW j \in 1 .. Len(Executions), i # j
       PROVE  Executions[i] # Executions[j]
  <2>1. CASE i \in 1 .. Len(A) /\ j \in 1 .. Len(A)
    BY <1>4, <1>8, <1>10, <2>1
  <2>2. CASE i \in 1 .. Len(A) /\ j \notin 1 .. Len(A)
    BY <1>2, <1>3, <1>9, <2>2
  <2>3. CASE i \notin 1 .. Len(A) /\ j \in 1 .. Len(A)
    <3>1. Executions[i] \in G
      BY <1>3, <1>9, <2>3
    <3>2. Executions[j] \notin G
      BY <1>2, <1>9, <2>3
    <3>3. QED
      BY <3>1, <3>2
  <2>4. CASE i \notin 1 .. Len(A) /\ j \notin 1 .. Len(A)
    <3>1. i - Len(A) \in 1 .. Len(B) /\ j - Len(A) \in 1 .. Len(B) /\ i - Len(A) # j - Len(A)
      BY <1>8, <1>9, <1>10, <2>4
    <3>2. Executions[i] = B[i - Len(A)] /\ Executions[j] = B[j - Len(A)]
      BY <1>9, <2>4
    <3>3. QED
      BY <1>5, <3>1, <3>2
  <2>5. QED
    BY <2>1, <2>2, <2>3, <2>4
<1>11. ASSUME NEW i \in 1 .. Len(Executions), NEW j \in 1 .. Len(Executions), i < j, Executions[i] \in G
       PROVE  Executions[j] \in G
  <2>1. i \notin 1 .. Len(A)
    BY <1>2, <1>8, <1>11
  <2>2. j \notin 1 .. Len(A)
    BY <1>8, <1>11, <2>1
  <2>3. QED
    BY <1>3, <1>9, <2>2
<1>12. ASSUME NEW t \in Tests PROVE \E i \in 1 .. Len(Executions) : Executions[i] = t
  <2>1. CASE \E k \in 1 .. Len(A) : A[k] = t
    BY <1>8, <2>1
  <2>2. CASE \E k \in 1 .. Len(B) : B[k] = t
    <3>1. PICK k \in 1 .. Len(B) : B[k] = t
      BY <2>2
    <3>2. Len(A) + k \in 1 .. Len(Executions)
      BY <1>8
    <3>3. QED
      BY <1>8, <3>1, <3>2
  <2>3. QED
    BY <1>6, <2>1, <2>2
<1>13. QED
  BY <1>8, <1>10, <1>11, <1>12 DEF IsGenerated

LEMMA ExecutionsNotEmpty == Len(Executions) \in Nat \ {0} /\ Executions[1] \in Tests
<1>1. Listed[1] \in Tests
  BY TestRunnerAssumption
<1>2. PICK i \in 1 .. Len(Executions) : Executions[i] = Listed[1]
  BY <1>1, ExecutionsTyped
<1>3. QED
  BY <1>2, ExecutionsTyped

-----------------------------------------------------------------------------
(* Type correctness                                                         *)

\* The next execution is one of the tests.
LEMMA NextIsTest ==
  ASSUME TestRunnerTypeOK, given < Len(Executions)
  PROVE  /\ Executions[given + 1] \in Tests
         /\ given + 1 \in 0 .. Len(Executions)
<1>1. Executions \in Seq(Tests) /\ given \in 0 .. Len(Executions) /\ Len(Executions) \in Nat
  BY ExecutionsTyped DEF TestRunnerTypeOK
<1>2. QED
  BY <1>1

LEMMA TypeInit == TestRunnerInit => TestRunnerTypeOK
<1> SUFFICES ASSUME TestRunnerInit PROVE TestRunnerTypeOK
  OBVIOUS
<1>1. job \in [Tests -> {"none", "queued", "running", "done", "broken"}] /\ results \in [Tests -> Seq(Results \cup {"skipped"})]
  BY DEF TestRunnerInit
<1>2. DOMAIN coverage = Tests /\ \A u \in Tests : coverage[u] \in [1 .. Repeats[u] -> SUBSET Points]
  BY DEF TestRunnerInit
<1>3. given \in 0 .. Len(Executions) /\ recording \in Tests
  BY ExecutionsNotEmpty DEF TestRunnerInit
<1>4. claim \in [new : SUBSET Points, novel : BOOLEAN, hits : SUBSET Points]
  BY DEF TestRunnerInit, NoClaim
<1>5. onDisk \in [success : BOOLEAN, tests : Seq(Entries)] /\ report \in Seq(Entries)
  BY DEF TestRunnerInit
<1>6. QED
  BY <1>1, <1>2, <1>3, <1>4, <1>5 DEF TestRunnerInit, TestRunnerTypeOK

LEMMA ReportTyped ==
  ASSUME TestRunnerTypeOK, Report
  PROVE  /\ Entry \in Entries
         /\ report' \in Seq(Entries)
         /\ onDisk' \in [success : BOOLEAN, tests : Seq(Entries)]
         /\ nth' \in Nat \ {0}
<1>1. recording \in Tests /\ nth \in Nat \ {0} /\ report \in Seq(Entries)
  BY DEF TestRunnerTypeOK
<1>2. Entry \in Entries
  BY <1>1 DEF Entry, Entries
<1>3. report' = Append(report, Entry) /\ onDisk' = [success |-> FALSE, tests |-> report'] /\ nth' = nth + 1
  BY DEF Report
<1>4. report' \in Seq(Entries)
  BY <1>1, <1>2, <1>3
<1>5. QED
  BY <1>1, <1>2, <1>3, <1>4

LEMMA TypePreserved ==
  TestRunnerTypeOK /\ JobsOK /\ BatchOK /\ [TestRunnerNext]_runnerVars => TestRunnerTypeOK'
<1> SUFFICES ASSUME TestRunnerTypeOK, JobsOK, BatchOK, [TestRunnerNext]_runnerVars PROVE TestRunnerTypeOK'
  OBVIOUS
<1> USE DEF jobVars, handVars, fuzzVars, reportVars
<1>1. CASE HandOut
  <2>1. Executions[given + 1] \in Tests /\ given + 1 \in 0 .. Len(Executions)
    BY <1>1, NextIsTest DEF HandOut, NextIsPooled
  <2>2. pending' \in Seq(Tests) /\ job' \in [Tests -> {"none", "queued", "running", "done", "broken"}]
    BY <1>1, <2>1 DEF HandOut, TestRunnerTypeOK
  <2>3. QED
    BY <1>1, <2>1, <2>2 DEF HandOut, TestRunnerTypeOK
<1>2. CASE FinishPending
  <2>1. pending' \in Seq(Tests) /\ recording' \in Tests
    BY <1>2 DEF FinishPending, TestRunnerTypeOK
  <2>2. QED
    BY <1>2, <2>1 DEF FinishPending, TestRunnerTypeOK
<1>3. CASE RunSerial
  <2>1. Executions[given + 1] \in Tests /\ given + 1 \in 0 .. Len(Executions)
    BY <1>3, NextIsTest DEF RunSerial, NextIsSerial
  <2>2. QED
    BY <1>3, <2>1 DEF RunSerial, TestRunnerTypeOK
<1>4. CASE \E i \in DOMAIN Executions : PickUp(i)
  <2>1. PICK i \in DOMAIN Executions : PickUp(i)
    BY <1>4
  <2>2. job' \in [Tests -> {"none", "queued", "running", "done", "broken"}]
    BY <2>1 DEF PickUp, TestRunnerTypeOK
  <2>3. QED
    BY <2>1, <2>2 DEF PickUp, TestRunnerTypeOK
<1>5. CASE \E u \in Tests : EndIteration(u)
  <2>1. PICK u \in Tests : EndIteration(u)
    BY <1>5
  <2> DEFINE n == Len(results[u]) + 1
  <2>2. PICK r \in Results, hits \in SUBSET Points :
          /\ results' = [results EXCEPT ![u] = Append(@, r)]
          /\ coverage' = [coverage EXCEPT ![u][n] = hits]
          /\ job' = IF r # "passed" \/ n = Repeats[u] THEN [job EXCEPT ![u] = "done"] ELSE job
    BY <2>1 DEF EndIteration
  <2>3. results' \in [Tests -> Seq(Results \cup {"skipped"})] /\ job' \in [Tests -> {"none", "queued", "running", "done", "broken"}]
    BY <2>2 DEF TestRunnerTypeOK
  <2>4. DOMAIN coverage' = Tests /\ \A v \in Tests : coverage'[v] \in [1 .. Repeats[v] -> SUBSET Points]
    BY <2>2 DEF TestRunnerTypeOK
  <2>5. QED
    BY <2>1, <2>3, <2>4 DEF EndIteration, TestRunnerTypeOK
<1>6. CASE \E u \in Tests : Skip(u)
  BY <1>6 DEF Skip, TestRunnerTypeOK
<1>7. CASE \E u \in Tests : Break(u)
  BY <1>7 DEF Break, TestRunnerTypeOK
<1>8. CASE Take
  BY <1>8 DEF Take, TestRunnerTypeOK
<1>9. CASE Raise \/ Recorded \/ Close \/ Interrupt
  <2>1. CASE Raise
    BY <2>1 DEF Raise, TestRunnerTypeOK
  <2>2. CASE Recorded
    BY <2>2 DEF Recorded, TestRunnerTypeOK
  <2>3. CASE Close
    BY <2>3 DEF Close, TestRunnerTypeOK
  <2>4. CASE Interrupt
    BY <2>4 DEF Interrupt, TestRunnerTypeOK
  <2>5. QED
    BY <1>9, <2>1, <2>2, <2>3, <2>4
<1>10. CASE RecordOrdinary
  <2>1. batch[nth] = "passed" => coverage[recording][nth] \subseteq Points
    <3> SUFFICES ASSUME batch[nth] = "passed" PROVE coverage[recording][nth] \subseteq Points
      OBVIOUS
    <3>1. Complete(recording, batch) /\ nth <= Len(batch) /\ nth \in Nat \ {0} /\ recording \in Tests
      BY <1>10 DEF RecordOrdinary, BatchOK, TestRunnerTypeOK
    <3>2. recording \notin Skipped
      BY <3>1 DEF Complete
    <3>3. nth \in 1 .. Repeats[recording]
      BY <3>1, <3>2, TestRunnerAssumption DEF Complete
    <3>4. QED
      BY <3>1, <3>3 DEF TestRunnerTypeOK
  <2>2. baseline' \subseteq Points
    BY <1>10, <2>1 DEF RecordOrdinary, TestRunnerTypeOK
  <2>3. QED
    BY <1>10, <2>2, ReportTyped DEF RecordOrdinary, TestRunnerTypeOK
<1>11. CASE RecordGenerated
  <2> DEFINE o == Generated[recording]
  <2>1. recording \in Tests /\ o \in Origins /\ nth \in Nat \ {0} /\ nth <= Len(batch)
    BY <1>11 DEF RecordGenerated, IsGenerated, Origins, TestRunnerTypeOK
  <2>2. batch[nth] \in Results /\ coverage[recording][nth] \subseteq Points
    <3>1. Complete(recording, batch) /\ batch[nth] # "skipped"
      BY <1>11 DEF RecordGenerated, BatchOK
    <3>2. recording \notin Skipped
      BY <2>1, <3>1 DEF Complete
    <3>3. batch \in Seq(Results) /\ nth \in 1 .. Repeats[recording]
      BY <2>1, <3>1, <3>2, TestRunnerAssumption DEF Complete
    <3>4. coverage[recording] \in [1 .. Repeats[recording] -> SUBSET Points]
      BY <2>1 DEF TestRunnerTypeOK
    <3>5. nth \in 1 .. Len(batch)
      BY <2>1, <3>3
    <3>6. batch[nth] \in Results
      BY <3>3, <3>5
    <3>7. coverage[recording][nth] \in SUBSET Points
      BY <3>3, <3>4
    <3>8. QED
      BY <3>6, <3>7
  <2>3. Known(o) \subseteq Points
    BY <2>1 DEF Known, TestRunnerTypeOK
  <2>4. /\ opened' = opened \cup {o}
        /\ reached' = [reached EXCEPT ![o] = Known(o)]
        /\ failures' \in {failures, failures \cup {<<o, batch[nth]>>}}
        /\ UNCHANGED <<given, pending, recording, batch, baseline, discoveries>>
    BY <1>11 DEF RecordGenerated
  <2>5. opened' \subseteq Origins /\ reached' \in [Origins -> SUBSET Points] /\ failures' \subseteq Origins \X Results
    BY <2>1, <2>2, <2>3, <2>4 DEF TestRunnerTypeOK
  <2> DEFINE new == coverage[recording][nth] \ Known(o)
  <2> DEFINE novel == batch[nth] # "passed" /\ <<o, batch[nth]>> \notin failures
  <2>6. \/ Report /\ UNCHANGED <<jobVars, main, claim>>
        \/ /\ claim' = [new |-> new, novel |-> novel, hits |-> coverage[recording][nth]]
           /\ main' = "confirm"
           /\ job' = [job EXCEPT ![recording] = "running"]
           /\ results' = [results EXCEPT ![recording] = <<>>]
           /\ UNCHANGED <<coverage, nth, reportVars>>
    BY <1>11 DEF RecordGenerated
  <2>7. CASE Report /\ UNCHANGED <<jobVars, main, claim>>
    BY <2>4, <2>5, <2>7, ReportTyped DEF TestRunnerTypeOK
  <2>8. CASE /\ claim' = [new |-> new, novel |-> novel, hits |-> coverage[recording][nth]]
             /\ main' = "confirm"
             /\ job' = [job EXCEPT ![recording] = "running"]
             /\ results' = [results EXCEPT ![recording] = <<>>]
             /\ UNCHANGED <<coverage, nth, reportVars>>
    <3>1. new \subseteq Points /\ novel \in BOOLEAN
      BY <2>2
    <3> HIDE DEF new, novel, o
    <3>2. claim' \in [new : SUBSET Points, novel : BOOLEAN, hits : SUBSET Points]
      BY <2>2, <2>8, <3>1
    <3>3. QED
      BY <2>4, <2>5, <2>8, <3>2 DEF TestRunnerTypeOK
  <2>9. QED
    BY <2>6, <2>7, <2>8
<1>12. CASE Judge
  <2> DEFINE o == Generated[recording]
  <2> DEFINE d == [origin |-> o, new |-> claim.new, failure |-> IF claim.novel THEN batch[nth] ELSE "none"]
  <2>1. recording \in Tests /\ o \in Origins /\ nth \in Nat \ {0} /\ nth <= Len(batch)
    BY <1>12 DEF Judge, BatchOK, IsGenerated, Origins, TestRunnerTypeOK
  <2>2. batch[nth] \in Results
    <3>1. Complete(recording, batch) /\ batch[nth] # "skipped"
      BY <1>12 DEF Judge, BatchOK
    <3>2. recording \notin Skipped
      BY <2>1, <3>1 DEF Complete
    <3>3. QED
      BY <2>1, <3>1, <3>2 DEF Complete
  <2>3. claim \in [new : SUBSET Points, novel : BOOLEAN, hits : SUBSET Points]
    BY DEF TestRunnerTypeOK
  <2>4. d \in TestDiscoveries
    BY <2>1, <2>2, <2>3 DEF TestDiscoveries
  <2>5. \/ discoveries' = Append(discoveries, d) /\ Credit(o, claim.hits)
        \/ UNCHANGED <<discoveries, reached>>
    BY <1>12 DEF Judge
  <2> HIDE DEF d, o
  <2>6. discoveries' \in Seq(TestDiscoveries)
    <3>1. discoveries \in Seq(TestDiscoveries)
      BY DEF TestRunnerTypeOK
    <3>2. discoveries' \in {discoveries, Append(discoveries, d)}
      BY <2>5
    <3>3. QED
      BY <2>4, <3>1, <3>2
  <2>7. reached' \in [Origins -> SUBSET Points]
    BY <2>1, <2>3, <2>5 DEF Credit, TestRunnerTypeOK
  <2>8. claim' \in [new : SUBSET Points, novel : BOOLEAN, hits : SUBSET Points]
    BY <1>12 DEF Judge, NoClaim
  <2>9. QED
    BY <1>12, <2>6, <2>7, <2>8, ReportTyped DEF Judge, TestRunnerTypeOK
<1>13. CASE Finish
  <2>1. onDisk' \in [success : BOOLEAN, tests : Seq(Entries)]
    BY <1>13 DEF Finish, TestRunnerTypeOK
  <2>2. QED
    BY <1>13, <2>1 DEF Finish, TestRunnerTypeOK
<1>14. CASE UNCHANGED runnerVars
  BY <1>14 DEF runnerVars, TestRunnerTypeOK
<1>15. QED
  BY <1>1, <1>2, <1>3, <1>4, <1>5, <1>6, <1>7, <1>8, <1>9, <1>10, <1>11, <1>12, <1>13, <1>14 DEF TestRunnerNext

-----------------------------------------------------------------------------
(* What is handed out, and what runs                                        *)

LEMMA HandedPreserved ==
  TestRunnerTypeOK /\ HandedOK /\ [TestRunnerNext]_runnerVars => HandedOK'
<1> SUFFICES ASSUME TestRunnerTypeOK, HandedOK, [TestRunnerNext]_runnerVars PROVE HandedOK'
  OBVIOUS
<1> USE DEF jobVars, handVars, fuzzVars, reportVars
<1>1. given \in 0 .. Len(Executions) /\ Len(Executions) \in Nat \ {0} /\ pending \in Seq(Tests) /\ Len(pending) \in 0 .. given
  BY ExecutionsNotEmpty DEF TestRunnerTypeOK, HandedOK
<1>2. CASE HandOut
  <2> DEFINE u == Executions[given + 1]
  <2>1. u \in Tests /\ u \in Parallel
    BY <1>2, NextIsTest DEF HandOut, NextIsPooled
  <2>2. given' = given + 1 /\ pending' = Append(pending, u) /\ UNCHANGED <<main, recording>>
    BY <1>2 DEF HandOut
  <2>3. Len(pending') = Len(pending) + 1 /\ Taken' = Taken
    BY <1>1, <2>1, <2>2 DEF Taken
  <2>4. ASSUME NEW i \in 1 .. Len(pending) + 1 PROVE pending'[i] = Executions[Taken + i] /\ pending'[i] \in Parallel
    <3>1. CASE i \in 1 .. Len(pending)
      <4>1. pending'[i] = pending[i]
        BY <1>1, <2>1, <2>2, <3>1
      <4>2. QED
        BY <3>1, <4>1 DEF HandedOK
    <3>2. CASE i = Len(pending) + 1
      <4>1. pending'[i] = u /\ Taken + i = given + 1
        BY <1>1, <2>1, <2>2, <3>2 DEF Taken
      <4>2. QED
        BY <2>1, <4>1
    <3>3. QED
      BY <1>1, <3>1, <3>2
  <2>5. DOMAIN pending' = 1 .. Len(pending) + 1
    BY <1>1, <2>1, <2>2
  <2>6. QED
    BY <1>1, <2>2, <2>3, <2>4, <2>5 DEF HandedOK
<1>3. CASE FinishPending
  <2>1. pending # <<>> /\ recording' = Head(pending) /\ pending' = Tail(pending) /\ given' = given /\ main' = "wait"
    BY <1>3 DEF FinishPending
  <2>2. Len(pending) > 0 /\ Len(pending') = Len(pending) - 1 /\ recording' = pending[1] /\ DOMAIN pending' = 1 .. Len(pending) - 1
    BY <1>1, <2>1
  <2>3. Taken' = Taken + 1 /\ Taken \in Nat
    BY <1>1, <2>1, <2>2 DEF Taken
  <2>4. recording' = Executions[Taken + 1]
    BY <1>1, <2>2 DEF HandedOK
  <2>5. ASSUME NEW i \in 1 .. Len(pending) - 1
        PROVE  pending'[i] = Executions[Taken + 1 + i] /\ pending'[i] \in Parallel
    <3>1. pending'[i] = pending[i + 1] /\ i + 1 \in 1 .. Len(pending) /\ Taken + (i + 1) = Taken + 1 + i
      BY <1>1, <2>1, <2>3
    <3>2. pending[i + 1] = Executions[Taken + (i + 1)] /\ pending[i + 1] \in Parallel
      BY <1>1, <3>1 DEF HandedOK
    <3>3. QED
      BY <3>1, <3>2
  <2>6. QED
    BY <1>1, <2>1, <2>2, <2>3, <2>4, <2>5 DEF HandedOK
<1>4. CASE RunSerial
  <2>1. pending = <<>>
    BY <1>4 DEF RunSerial, MustFinish, NextIsSerial
  <2>2. given' = given + 1 /\ pending' = pending /\ recording' = Executions[given + 1]
    BY <1>4 DEF RunSerial
  <2>3. QED
    BY <1>1, <2>1, <2>2 DEF HandedOK, Taken
<1>5. CASE Finish
  <2>1. Taken > 0
    BY <1>1, <1>5 DEF Finish, Taken
  <2>2. UNCHANGED <<given, pending, recording>>
    BY <1>5 DEF Finish
  <2>3. QED
    BY <2>1, <2>2 DEF HandedOK, Taken
<1>6. CASE Take \/ Raise \/ RecordOrdinary \/ RecordGenerated \/ Judge \/ Recorded \/ Close
  <2>1. main \notin {"next", "killed"} /\ UNCHANGED <<given, pending, recording>>
    BY <1>6 DEF Take, Raise, RecordOrdinary, RecordGenerated, Judge, Recorded, Close
  <2>2. QED
    BY <2>1 DEF HandedOK, Taken
<1>7. CASE (\E i \in DOMAIN Executions : PickUp(i)) \/ (\E u \in Tests : EndIteration(u) \/ Skip(u) \/ Break(u))
             \/ UNCHANGED runnerVars \/ Interrupt
  <2>1. UNCHANGED <<given, pending, recording>> /\ main' \in {main, "killed"}
    BY <1>7 DEF PickUp, EndIteration, Skip, Break, runnerVars, Interrupt
  <2>2. QED
    BY <2>1 DEF HandedOK, Taken
<1>8. QED
  BY <1>2, <1>3, <1>4, <1>5, <1>6, <1>7 DEF TestRunnerNext

LEMMA QueuePreserved ==
  TestRunnerTypeOK /\ HandedOK /\ QueueOK /\ [TestRunnerNext]_runnerVars => QueueOK'
<1> SUFFICES ASSUME TestRunnerTypeOK, HandedOK, QueueOK, [TestRunnerNext]_runnerVars PROVE QueueOK'
  OBVIOUS
<1> USE DEF jobVars, handVars, fuzzVars, reportVars
<1>1. /\ pending \in Seq(Tests) /\ \A i \in DOMAIN pending : pending[i] \in Parallel
      /\ job \in [Tests -> {"none", "queued", "running", "done", "broken"}] /\ recording \in Tests
  BY DEF TestRunnerTypeOK, HandedOK
<1>2. CASE HandOut
  <2> DEFINE u == Executions[given + 1]
  <2>1. u \in Tests /\ u \in Parallel /\ main = "next"
    BY <1>2, NextIsTest DEF HandOut, NextIsPooled
  <2>2. job' = [job EXCEPT ![u] = "queued"] /\ pending' = Append(pending, u) /\ UNCHANGED <<main, recording>>
    BY <1>2 DEF HandOut
  <2> HIDE DEF u
  <2>3. pending'[Len(pending) + 1] = u /\ Len(pending) + 1 \in DOMAIN pending'
          /\ \A i \in DOMAIN pending : i \in DOMAIN pending' /\ pending'[i] = pending[i]
    BY <1>1, <2>1, <2>2
  <2>4. ASSUME NEW v \in Tests, v = u \/ Waits(v) PROVE Waits(v)'
    <3>1. PICK i \in DOMAIN pending' : pending'[i] = v
      BY <2>3, <2>4 DEF Waits
    <3>2. QED
      BY <3>1 DEF Waits
  <2>5. ASSUME NEW v \in Tests, Active(v)' PROVE Waits(v)'
    <3>1. v = u \/ Active(v)
      BY <1>1, <2>1, <2>2, <2>5 DEF Active
    <3>2. v = u \/ Waits(v)
      BY <2>1, <3>1 DEF QueueOK
    <3>3. QED
      BY <2>4, <3>2
  <2>6. ASSUME recording \notin Parallel, Active(recording)' PROVE FALSE
    <3>1. Active(recording)
      BY <1>1, <2>1, <2>2, <2>6 DEF Active
    <3>2. Waits(recording)
      BY <1>1, <2>1, <3>1 DEF QueueOK
    <3>3. QED
      BY <1>1, <2>6, <3>2 DEF Waits
  <2>7. QED
    BY <2>1, <2>2, <2>5, <2>6 DEF QueueOK, Active
<1>3. CASE FinishPending
  <2>1. pending # <<>> /\ recording' = Head(pending) /\ pending' = Tail(pending) /\ main' = "wait" /\ main = "next" /\ job' = job
    BY <1>3 DEF FinishPending
  <2>2. recording' = pending[1] /\ 1 \in DOMAIN pending
    BY <1>1, <2>1
  <2>3. ASSUME NEW v \in Tests, Active(v)' PROVE Waits(v)' \/ v = recording'
    <3>1. Waits(v)
      BY <2>1, <2>3 DEF QueueOK, Active
    <3>2. PICK i \in DOMAIN pending : pending[i] = v
      BY <3>1 DEF Waits
    <3>3. CASE i = 1
      BY <2>2, <3>2, <3>3
    <3>4. CASE i > 1
      <4>1. i - 1 \in DOMAIN pending' /\ pending'[i - 1] = pending[i]
        BY <1>1, <2>1, <3>4
      <4>2. QED
        BY <3>2, <4>1 DEF Waits
    <3>5. QED
      BY <1>1, <3>3, <3>4
  <2>4. recording' \in Parallel
    BY <1>1, <2>2
  <2>5. QED
    BY <2>1, <2>3, <2>4 DEF QueueOK
<1>4. CASE RunSerial
  <2> DEFINE u == Executions[given + 1]
  <2>1. u \in Tests /\ pending = <<>> /\ main = "next"
    BY <1>4, NextIsTest DEF RunSerial, MustFinish, NextIsSerial
  <2>2. job' = [job EXCEPT ![u] = "running"] /\ pending' = pending /\ recording' = u /\ main' = "wait"
    BY <1>4 DEF RunSerial
  <2>3. \A v \in Tests : ~Active(v)
    BY <2>1 DEF QueueOK, Waits
  <2> HIDE DEF u
  <2>4. QED
    BY <1>1, <2>1, <2>2, <2>3 DEF QueueOK, Active
<1>5. CASE \E i \in DOMAIN Executions : PickUp(i)
  <2>1. PICK i \in DOMAIN Executions : PickUp(i)
    BY <1>5
  <2>2. UNCHANGED <<main, pending, recording>> /\ \A v \in Tests : Active(v)' => Active(v)
    BY <1>1, <2>1 DEF PickUp, Active
  <2>3. QED
    BY <1>1, <2>2 DEF QueueOK, Waits
<1>6. CASE \E u \in Tests : EndIteration(u) \/ Skip(u) \/ Break(u)
  <2>1. PICK u \in Tests : EndIteration(u) \/ Skip(u) \/ Break(u)
    BY <1>6
  <2>2. UNCHANGED <<main, pending, recording>>
    BY <2>1 DEF EndIteration, Skip, Break
  <2>3. job' \in {job, [job EXCEPT ![u] = "done"], [job EXCEPT ![u] = "broken"]}
    BY <2>1 DEF EndIteration, Skip, Break
  <2>4. \A v \in Tests : Active(v)' => Active(v)
    BY <1>1, <2>3 DEF Active
  <2>5. QED
    BY <1>1, <2>2, <2>4 DEF QueueOK, Waits
<1>7. CASE RecordGenerated
  <2>1. UNCHANGED <<pending, recording>> /\ main = "record"
    BY <1>7 DEF RecordGenerated
  <2>2. (job' = job /\ main' = "record") \/ (job' = [job EXCEPT ![recording] = "running"] /\ main' = "confirm")
    BY <1>7 DEF RecordGenerated
  <2>3. \A v \in Tests : v # recording /\ Active(v)' => Active(v)
    BY <1>1, <2>2 DEF Active
  <2>4. job' = job => \A v \in Tests : Active(v)' => Active(v)
    BY DEF Active
  <2>5. QED
    BY <1>1, <2>1, <2>2, <2>3, <2>4 DEF QueueOK, Waits
<1>8. CASE Take \/ Raise \/ Judge
  <2>1. UNCHANGED <<pending, recording, job>> /\ job[recording] \in {"done", "broken"} /\ main \in {"wait", "confirm"}
          /\ main' \in {"record", "closing"}
    BY <1>8 DEF Take, Raise, Judge
  <2>2. ~Active(recording)
    BY <2>1 DEF Active
  <2>3. QED
    BY <1>1, <2>1, <2>2 DEF QueueOK, Waits, Active
<1>9. CASE RecordOrdinary \/ Recorded \/ Finish \/ Close \/ Interrupt \/ UNCHANGED runnerVars
  <2>1. UNCHANGED <<pending, recording, job>>
    BY <1>9 DEF RecordOrdinary, Recorded, Finish, Close, Interrupt, runnerVars
  <2>2. \/ main' = main
        \/ main = "record" /\ main' = "next"
        \/ main \in {"next", "closing"} /\ main' = "over"
        \/ main' = "killed"
    BY <1>9 DEF RecordOrdinary, Recorded, Finish, Close, Interrupt, runnerVars
  <2>3. QED
    BY <1>1, <2>1, <2>2 DEF QueueOK, Waits, Active
<1>10. QED
  BY <1>2, <1>3, <1>4, <1>5, <1>6, <1>7, <1>8, <1>9 DEF TestRunnerNext

\* What a type-correct state with this invariant says of serial tests.
LEMMA SerialFromQueue ==
  TestRunnerTypeOK /\ HandedOK /\ QueueOK => SerialRunsAlone
<1> SUFFICES ASSUME TestRunnerTypeOK, HandedOK, QueueOK, NEW u \in Tests \ Parallel, job[u] = "running",
                    NEW o \in Tests \ {u}, job[o] = "running"
             PROVE  FALSE
  BY DEF SerialRunsAlone
<1>1. ~Waits(u)
  BY DEF HandedOK, Waits
<1>2. Active(u) /\ Active(o)
  BY DEF Active
<1>3. u = recording
  BY <1>1, <1>2 DEF QueueOK
<1>4. pending = <<>>
  BY <1>2, <1>3 DEF QueueOK
<1>5. ~Waits(o)
  BY <1>4 DEF Waits
<1>6. QED
  BY <1>2, <1>3, <1>5 DEF QueueOK

-----------------------------------------------------------------------------
(* Executions and their results                                             *)

\* A place is handed out after those before it, so no test is begun twice.
LEMMA JobsPreserved ==
  TestRunnerTypeOK /\ HandedOK /\ JobsOK /\ BatchOK /\ [TestRunnerNext]_runnerVars => JobsOK'
<1> SUFFICES ASSUME TestRunnerTypeOK, HandedOK, JobsOK, BatchOK, [TestRunnerNext]_runnerVars PROVE JobsOK'
  OBVIOUS
<1> USE DEF jobVars, handVars, fuzzVars, reportVars
<1>1. /\ job \in [Tests -> {"none", "queued", "running", "done", "broken"}]
      /\ results \in [Tests -> Seq(Results \cup {"skipped"})]
      /\ given \in 0 .. Len(Executions) /\ Len(Executions) \in Nat
      /\ recording \in Tests
  <2>1. Len(Executions) \in Nat
    BY ExecutionsNotEmpty
  <2>2. QED
    BY <2>1 DEF TestRunnerTypeOK
<1>2. Executions \in Seq(Tests) /\ \A i, j \in 1 .. Len(Executions) : i # j => Executions[i] # Executions[j]
  BY ExecutionsTyped
<1>3. ASSUME NEW u \in Tests, Partial(u, results[u]), u \notin Skipped,
             NEW r \in Results, results' = [results EXCEPT ![u] = Append(@, r)]
      PROVE  /\ r # "passed" \/ Len(results[u]) + 1 = Repeats[u] => Complete(u, results'[u])
             /\ r = "passed" /\ Len(results[u]) + 1 # Repeats[u] => Partial(u, results'[u])
  <2> DEFINE s == results[u]
  <2>1. s \in Seq({"passed"}) /\ Len(s) < Repeats[u]
    BY <1>3 DEF Partial
  <2>21. results'[u] = Append(s, r)
    BY <1>1, <1>3
  <2>22. Repeats[u] \in Nat \ {0}
    BY TestRunnerAssumption
  <2>23. Len(s) \in Nat
    BY <2>1
  <2>2. "passed" \in Results
    BY DEF Results
  <2> HIDE DEF s
  <2> DEFINE q == Append(s, r)
  <2>3. /\ q \in Seq(Results) /\ Len(q) = Len(s) + 1 /\ q[Len(q)] = r
        /\ \A i \in 1 .. Len(q) - 1 : q[i] = "passed"
    BY <2>1, <2>2
  <2>4. r = "passed" => q \in Seq({"passed"})
    BY <2>1
  <2> HIDE DEF q
  <2>5. QED
    BY <1>3, <2>1, <2>21, <2>22, <2>23, <2>3, <2>4 DEF Complete, Partial, q, s
<1>4. CASE HandOut \/ RunSerial
  <2> DEFINE u == Executions[given + 1]
  <2>1. u \in Tests /\ given < Len(Executions) /\ given' = given + 1 /\ results' = results
    BY <1>4, NextIsTest DEF HandOut, NextIsPooled, RunSerial, NextIsSerial
  <2>2. job' \in {[job EXCEPT ![u] = "queued"], [job EXCEPT ![u] = "running"]}
    BY <1>4 DEF HandOut, RunSerial
  <2>3. job[u] = "none" /\ results[u] = <<>>
    BY <1>1, <1>2, <2>1 DEF JobsOK
  <2>4. ASSUME NEW i \in 1 .. Len(Executions), i > given + 1 PROVE job'[Executions[i]] = "none"
    <3>1. Executions[i] # u /\ Executions[i] \in Tests
      BY <1>1, <1>2, <2>1, <2>4
    <3>2. job[Executions[i]] = "none"
      BY <1>1, <1>2, <2>4 DEF JobsOK
    <3> HIDE DEF u
    <3>3. QED
      BY <1>1, <2>2, <3>1, <3>2
  <2>5. Partial(u, <<>>)
    BY <2>1, TestRunnerAssumption DEF Partial
  <2> HIDE DEF u
  <2>6. ASSUME NEW v \in Tests PROVE (v = u /\ job'[v] \in {"queued", "running"}) \/ job'[v] = job[v]
    BY <1>1, <2>1, <2>2
  <2>7. DOMAIN Executions = 1 .. Len(Executions)
    BY <1>2
  <2>8. ASSUME NEW v \in Tests
        PROVE  /\ job'[v] \in {"none", "queued"} => results[v] = <<>>
               /\ job'[v] = "running" => Partial(v, results[v])
               /\ job'[v] = "done" => Complete(v, results[v])
    BY <2>3, <2>5, <2>6 DEF JobsOK
  <2>9. QED
    BY <1>1, <2>1, <2>4, <2>7, <2>8 DEF JobsOK
<1>5. CASE \E i \in DOMAIN Executions : PickUp(i)
  <2>1. PICK i \in 1 .. Len(Executions) : PickUp(i)
    BY <1>2, <1>5
  <2> DEFINE u == Executions[i]
  <2>2. u \in Tests /\ job[u] = "queued" /\ job' = [job EXCEPT ![u] = "running"] /\ UNCHANGED <<results, given>>
    BY <1>2, <2>1 DEF PickUp
  <2> HIDE DEF u
  <2>3. results[u] = <<>>
    BY <2>2 DEF JobsOK
  <2>4. Partial(u, <<>>)
    BY <2>2, TestRunnerAssumption DEF Partial
  <2>5. \A v \in Tests : v # u => job'[v] = job[v]
    BY <1>1, <2>2
  <2>6. job'[u] = "running"
    BY <1>1, <2>2
  <2>7. QED
    BY <1>1, <1>2, <2>2, <2>3, <2>4, <2>5, <2>6 DEF JobsOK
<1>6. CASE \E u \in Tests : EndIteration(u) \/ Skip(u) \/ Break(u)
  <2>1. PICK u \in Tests : EndIteration(u) \/ Skip(u) \/ Break(u)
    BY <1>6
  <2>2. job[u] = "running" /\ given' = given /\ Partial(u, results[u])
    BY <2>1 DEF EndIteration, Skip, Break, JobsOK
  <2>3. \A v \in Tests : v # u => job'[v] = job[v] /\ results'[v] = results[v]
    BY <1>1, <2>1 DEF EndIteration, Skip, Break
  <2>4. \/ job'[u] = "running" /\ Partial(u, results'[u])
        \/ job'[u] = "done" /\ Complete(u, results'[u])
        \/ job'[u] = "broken"
    <3>1. CASE EndIteration(u)
      <4>1. PICK r \in Results :
              /\ results' = [results EXCEPT ![u] = Append(@, r)]
              /\ job' = IF r # "passed" \/ Len(results[u]) + 1 = Repeats[u] THEN [job EXCEPT ![u] = "done"] ELSE job
        BY <3>1 DEF EndIteration
      <4>2. u \notin Skipped
        BY <3>1 DEF EndIteration
      <4>3. CASE r # "passed" \/ Len(results[u]) + 1 = Repeats[u]
        BY <1>1, <1>3, <2>2, <4>1, <4>2, <4>3
      <4>4. CASE ~(r # "passed" \/ Len(results[u]) + 1 = Repeats[u])
        BY <1>1, <1>3, <2>2, <4>1, <4>2, <4>4
      <4>5. QED
        BY <4>3, <4>4
    <3>2. CASE Skip(u)
      BY <1>1, <3>2 DEF Skip, Complete
    <3>3. CASE Break(u)
      BY <1>1, <3>3 DEF Break
    <3>4. QED
      BY <2>1, <3>1, <3>2, <3>3
  <2>5. ASSUME NEW i \in 1 .. Len(Executions), i > given PROVE Executions[i] # u
    BY <1>2, <2>2, <2>5 DEF JobsOK
  <2>6. DOMAIN Executions = 1 .. Len(Executions) /\ \A i \in 1 .. Len(Executions) : Executions[i] \in Tests
    BY <1>2
  <2>7. ASSUME NEW i \in DOMAIN Executions, i > given' PROVE job'[Executions[i]] = "none"
    BY <2>2, <2>3, <2>5, <2>6, <2>7 DEF JobsOK
  <2>8. ASSUME NEW v \in Tests
        PROVE  /\ job'[v] \in {"none", "queued"} => results'[v] = <<>>
               /\ job'[v] = "running" => Partial(v, results'[v])
               /\ job'[v] = "done" => Complete(v, results'[v])
    <3>1. CASE v = u
      BY <2>4, <3>1
    <3>2. CASE v # u
      BY <2>3, <3>2 DEF JobsOK
    <3>3. QED
      BY <3>1, <3>2
  <2>9. QED
    BY <2>7, <2>8 DEF JobsOK
<1>7. CASE RecordGenerated
  <2>1. given' = given /\ main = "record"
    BY <1>7 DEF RecordGenerated
  <2>2. \/ UNCHANGED <<job, results>>
        \/ job' = [job EXCEPT ![recording] = "running"] /\ results' = [results EXCEPT ![recording] = <<>>]
    BY <1>7 DEF RecordGenerated
  <2>3. Partial(recording, <<>>)
    BY <1>1, TestRunnerAssumption DEF Partial
  <2>4. Taken > 0 /\ recording = Executions[Taken] /\ Taken \in 1 .. given
    <3>1. Taken \in Nat /\ Taken <= given
      BY <1>1 DEF HandedOK, Taken, TestRunnerTypeOK
    <3>2. QED
      BY <1>1, <2>1, <3>1 DEF HandedOK
  <2>5. ASSUME NEW i \in 1 .. Len(Executions), i > given PROVE Executions[i] # recording
    BY <1>1, <1>2, <2>4, <2>5
  <2>6. CASE UNCHANGED <<job, results>>
    BY <2>1, <2>6 DEF JobsOK
  <2>7. CASE job' = [job EXCEPT ![recording] = "running"] /\ results' = [results EXCEPT ![recording] = <<>>]
    <3>1. \A v \in Tests : v # recording => job'[v] = job[v] /\ results'[v] = results[v]
      BY <1>1, <2>7
    <3>2. job'[recording] = "running" /\ results'[recording] = <<>>
      BY <1>1, <2>7
    <3>3. DOMAIN Executions = 1 .. Len(Executions) /\ \A i \in 1 .. Len(Executions) : Executions[i] \in Tests
      BY <1>2
    <3>4. ASSUME NEW i \in DOMAIN Executions, i > given' PROVE job'[Executions[i]] = "none"
      BY <2>1, <2>5, <3>1, <3>3, <3>4 DEF JobsOK
    <3>5. ASSUME NEW v \in Tests
          PROVE  /\ job'[v] \in {"none", "queued"} => results'[v] = <<>>
                 /\ job'[v] = "running" => Partial(v, results'[v])
                 /\ job'[v] = "done" => Complete(v, results'[v])
      <4>1. CASE v = recording
        BY <2>3, <3>2, <4>1
      <4>2. CASE v # recording
        BY <3>1, <4>2 DEF JobsOK
      <4>3. QED
        BY <4>1, <4>2
    <3>6. QED
      BY <3>4, <3>5 DEF JobsOK
  <2>8. QED
    BY <2>2, <2>6, <2>7
<1>8. CASE FinishPending \/ Take \/ Raise \/ RecordOrdinary \/ Judge \/ Recorded \/ Finish \/ Close \/ Interrupt
             \/ UNCHANGED runnerVars
  <2>1. UNCHANGED <<job, results, given>>
    BY <1>8 DEF FinishPending, Take, Raise, RecordOrdinary, Judge, Recorded, Finish, Close, Interrupt, runnerVars
  <2>2. QED
    BY <2>1 DEF JobsOK
<1>9. QED
  BY <1>4, <1>5, <1>6, <1>7, <1>8 DEF TestRunnerNext

\* What is recorded are the results of an execution that has ended.
LEMMA BatchPreserved ==
  TestRunnerTypeOK /\ JobsOK /\ BatchOK /\ [TestRunnerNext]_runnerVars => BatchOK'
<1> SUFFICES ASSUME TestRunnerTypeOK, JobsOK, BatchOK, [TestRunnerNext]_runnerVars PROVE BatchOK'
  OBVIOUS
<1> USE DEF jobVars, handVars, fuzzVars, reportVars
<1>1. nth \in Nat \ {0} /\ batch \in Seq(Results \cup {"skipped"}) /\ Len(batch) \in Nat /\ recording \in Tests
  BY DEF TestRunnerTypeOK
<1>2. CASE HandOut \/ FinishPending \/ RunSerial
  <2>1. main = "next" /\ nth' = nth /\ main' \in {"next", "wait"}
    BY <1>2 DEF HandOut, FinishPending, RunSerial
  <2>2. QED
    BY <2>1 DEF BatchOK
<1>3. CASE Take
  <2>1. main' = "record" /\ batch' = results[recording] /\ nth' = 1 /\ recording' = recording /\ job[recording] = "done"
    BY <1>3 DEF Take
  <2>2. Complete(recording, batch') /\ Len(batch') \in Nat
    BY <1>1, <2>1 DEF JobsOK, TestRunnerTypeOK
  <2>3. QED
    BY <2>1, <2>2 DEF BatchOK
<1>4. CASE RecordOrdinary
  <2>1. main = "record" /\ nth <= Len(batch) /\ UNCHANGED <<main, batch, recording>> /\ nth' = nth + 1
    BY <1>4 DEF RecordOrdinary, Report
  <2>2. QED
    BY <1>1, <2>1 DEF BatchOK
<1>5. CASE RecordGenerated
  <2>1. main = "record" /\ nth <= Len(batch) /\ UNCHANGED <<batch, recording>> /\ IsGenerated(recording) /\ batch[nth] # "skipped"
    BY <1>5 DEF RecordGenerated
  <2>2. (main' = "record" /\ nth' = nth + 1) \/ (main' = "confirm" /\ nth' = nth)
    BY <1>5 DEF RecordGenerated, Report
  <2>3. QED
    BY <1>1, <2>1, <2>2 DEF BatchOK
<1>6. CASE Judge
  <2>1. main = "confirm" /\ main' = "record" /\ UNCHANGED <<batch, recording>> /\ nth' = nth + 1
    BY <1>6 DEF Judge, Report
  <2>2. QED
    BY <1>1, <2>1 DEF BatchOK
<1>7. CASE Recorded
  BY <1>7 DEF Recorded, BatchOK
<1>8. CASE Raise \/ Finish \/ Close \/ Interrupt
  <2>1. main' \in {"closing", "over", "killed"}
    BY <1>8 DEF Raise, Finish, Close, Interrupt
  <2>2. QED
    BY <2>1 DEF BatchOK
<1>9. CASE (\E i \in DOMAIN Executions : PickUp(i)) \/ (\E u \in Tests : EndIteration(u) \/ Skip(u) \/ Break(u))
             \/ UNCHANGED runnerVars
  <2>1. UNCHANGED <<main, nth, batch, recording>>
    BY <1>9 DEF PickUp, EndIteration, Skip, Break, runnerVars
  <2>2. QED
    BY <2>1 DEF BatchOK
<1>10. QED
  BY <1>2, <1>3, <1>4, <1>5, <1>6, <1>7, <1>8, <1>9 DEF TestRunnerNext

-----------------------------------------------------------------------------
(* The report                                                               *)

LEMMA CoveredTyped ==
  ASSUME NEW entries \in Seq(Entries)
  PROVE  Covered(entries) \in Seq(Tests)
<1> DEFINE firsts == Filter(entries, {e \in Entries : e.iteration = 1})
<1>1. firsts \in Seq(Entries)
  BY FilterTyped
<1>2. Covered(entries) = [i \in DOMAIN firsts |-> firsts[i].test]
  BY DEF Covered
<1> HIDE DEF firsts
<1>3. ASSUME NEW i \in 1 .. Len(firsts) PROVE firsts[i].test \in Tests
  <2>1. firsts[i] \in Entries
    BY <1>1
  <2>2. QED
    BY <2>1 DEF Entries
<1>4. QED
  BY <1>1, <1>2, <1>3

LEMMA CoveredEmpty == Covered(<<>>) = <<>>
BY FilterEmpty DEF Covered

\* The first entry of an execution adds its test.
LEMMA CoveredAppend ==
  ASSUME NEW entries \in Seq(Entries), NEW e \in Entries
  PROVE  Covered(Append(entries, e)) =
           IF e.iteration = 1 THEN Append(Covered(entries), e.test) ELSE Covered(entries)
<1> DEFINE E == {x \in Entries : x.iteration = 1}
<1> DEFINE firsts == Filter(entries, E)
<1> DEFINE longer == Filter(Append(entries, e), E)
<1>1. firsts \in Seq(Entries)
  BY FilterTyped
<1>2. longer = IF e \in E THEN Append(firsts, e) ELSE firsts
  <2> HIDE DEF E
  <2>1. QED
    BY FilterAppend
<1>3. Covered(entries) = [i \in DOMAIN firsts |-> firsts[i].test]
  BY DEF Covered
<1>4. Covered(Append(entries, e)) = [i \in DOMAIN longer |-> longer[i].test]
  BY DEF Covered
<1>5. e \in E <=> e.iteration = 1
  OBVIOUS
<1> HIDE DEF E, firsts, longer
<1>6. CASE e.iteration = 1
  <2>1. longer = Append(firsts, e)
    BY <1>2, <1>5, <1>6
  <2>2. /\ DOMAIN longer = 1 .. Len(firsts) + 1 /\ longer[Len(firsts) + 1] = e
        /\ \A i \in 1 .. Len(firsts) : longer[i] = firsts[i]
    BY <1>1, <2>1
  <2> DEFINE c == [i \in DOMAIN firsts |-> firsts[i].test]
  <2>3. c \in Seq(Tests) /\ Len(c) = Len(firsts) /\ Len(firsts) \in Nat /\ \A i \in 1 .. Len(firsts) : c[i] = firsts[i].test
    <3>1. ASSUME NEW i \in 1 .. Len(firsts) PROVE firsts[i].test \in Tests
      <4>1. firsts[i] \in Entries
        BY <1>1
      <4>2. QED
        BY <4>1 DEF Entries
    <3>2. QED
      BY <1>1, <3>1
  <2>4. e.test \in Tests
    BY DEF Entries
  <2> HIDE DEF c
  <2> DEFINE d == Append(c, e.test)
  <2>5. /\ d = [i \in 1 .. Len(firsts) + 1 |-> d[i]]
        /\ \A i \in 1 .. Len(firsts) : d[i] = c[i]
        /\ d[Len(firsts) + 1] = e.test
    BY <2>3, <2>4
  <2> HIDE DEF d
  <2>6. ASSUME NEW i \in 1 .. Len(firsts) + 1 PROVE d[i] = longer[i].test
    <3>1. CASE i = Len(firsts) + 1
      BY <2>2, <2>5, <3>1
    <3>2. CASE i # Len(firsts) + 1
      <4>1. i \in 1 .. Len(firsts)
        BY <2>3, <3>2
      <4>2. QED
        BY <2>2, <2>3, <2>5, <4>1
    <3>3. QED
      BY <3>1, <3>2
  <2>7. d = Covered(Append(entries, e))
    BY <1>4, <2>2, <2>5, <2>6
  <2>8. QED
    BY <1>3, <1>6, <2>7 DEF c, d
<1>7. CASE e.iteration # 1
  BY <1>2, <1>3, <1>4, <1>5, <1>7
<1>8. QED
  BY <1>6, <1>7

LEMMA NextPlace ==
  ASSUME NEW n \in 0 .. Len(Executions), n < Len(Executions)
  PROVE  Append(SubSeq(Executions, 1, n), Executions[n + 1]) = SubSeq(Executions, 1, n + 1)
<1>1. Executions \in Seq(Tests) /\ Len(Executions) \in Nat
  BY ExecutionsTyped
<1> DEFINE x == Executions
<1> HIDE DEF x
<1>2. x \in Seq(Tests) /\ n \in Nat /\ n < Len(x)
  BY <1>1 DEF x
<1>3. SubSeq(x, 1, n) \in Seq(Tests) /\ Len(SubSeq(x, 1, n)) = n /\ \A i \in 1 .. n : SubSeq(x, 1, n)[i] = x[i]
  BY <1>2
<1>4. SubSeq(x, 1, n + 1) \in Seq(Tests) /\ Len(SubSeq(x, 1, n + 1)) = n + 1 /\ \A i \in 1 .. n + 1 : SubSeq(x, 1, n + 1)[i] = x[i]
  BY <1>2
<1> DEFINE a == SubSeq(x, 1, n)
<1> DEFINE b == SubSeq(x, 1, n + 1)
<1> HIDE DEF a, b
<1>5. a \in Seq(Tests) /\ Len(a) = n /\ (\A i \in 1 .. n : a[i] = x[i]) /\ b \in Seq(Tests) /\ Len(b) = n + 1 /\ (\A i \in 1 .. n + 1 : b[i] = x[i])
  BY <1>3, <1>4 DEF a, b
<1>6. x[n + 1] \in Tests
  BY <1>2
<1> DEFINE c == Append(a, x[n + 1])
<1>7. c \in Seq(Tests) /\ Len(c) = n + 1 /\ (\A i \in 1 .. n : c[i] = x[i]) /\ c[n + 1] = x[n + 1]
  BY <1>2, <1>5, <1>6
<1> HIDE DEF c
<1>8. \A i \in 1 .. n + 1 : c[i] = b[i]
  BY <1>2, <1>5, <1>7
<1>9. c = b
  BY <1>2, <1>5, <1>7, <1>8
<1>10. QED
  BY <1>9 DEF a, b, c, x

LEMMA AllPlaces == SubSeq(Executions, 1, Len(Executions)) = Executions
<1>1. Executions \in Seq(Tests)
  BY ExecutionsTyped
<1> DEFINE x == Executions
<1> HIDE DEF x
<1>2. x \in Seq(Tests)
  BY <1>1 DEF x
<1>3. SubSeq(x, 1, Len(x)) = x
  BY <1>2
<1>4. QED
  BY <1>3 DEF x

\* The numbers of executions taken.
LEMMA TakenBounds ==
  ASSUME TestRunnerTypeOK, HandedOK
  PROVE  Taken \in 0 .. Len(Executions) /\ Len(Executions) \in Nat /\ Len(pending) \in Nat /\ given \in Nat
<1>1. given \in 0 .. Len(Executions) /\ Len(pending) \in Nat /\ Len(pending) <= given
  BY DEF TestRunnerTypeOK, HandedOK
<1>2. Len(Executions) \in Nat
  BY ExecutionsNotEmpty
<1>3. QED
  BY <1>1, <1>2 DEF Taken

\* An entry is added to the report.
LEMMA ReportWritten ==
  ASSUME TestRunnerTypeOK, HandedOK, ReportOK, main \in {"record", "confirm"}, main' = "record", Report,
         UNCHANGED <<given, pending, recording, batch>>
  PROVE  ReportOK'
<1>1. /\ report \in Seq(Entries) /\ Entry \in Entries /\ nth \in Nat \ {0}
      /\ recording \in Tests
  BY ReportTyped DEF TestRunnerTypeOK
<1>2. report' = Append(report, Entry) /\ onDisk' = [success |-> FALSE, tests |-> report'] /\ nth' = nth + 1
  BY DEF Report
<1>3. Taken \in 1 .. Len(Executions) /\ recording = Executions[Taken] /\ Len(Executions) \in Nat /\ Taken' = Taken
  BY TakenBounds DEF HandedOK, Taken
<1>4. Covered(report) = SubSeq(Executions, 1, IF nth = 1 THEN Taken - 1 ELSE Taken)
  BY DEF ReportOK, Firsts
<1>5. Firsts' = Taken /\ Lasts' = Taken - 1 /\ Lasts = Taken - 1
  BY <1>1, <1>2, <1>3 DEF Firsts, Lasts
<1>6. Entry.iteration = nth /\ Entry.test = recording
  BY DEF Entry
<1>7. Covered(report') = SubSeq(Executions, 1, Taken)
  <2>1. Covered(report') = IF nth = 1 THEN Append(Covered(report), recording) ELSE Covered(report)
    BY <1>1, <1>2, <1>6, CoveredAppend
  <2>2. CASE nth = 1
    <3>1. Taken - 1 \in 0 .. Len(Executions) /\ Taken - 1 < Len(Executions) /\ (Taken - 1) + 1 = Taken
      BY <1>3
    <3>2. Append(SubSeq(Executions, 1, Taken - 1), Executions[Taken]) = SubSeq(Executions, 1, Taken)
      BY <3>1, NextPlace
    <3>3. QED
      BY <1>3, <1>4, <2>1, <2>2, <3>2
  <2>3. CASE nth # 1
    BY <1>4, <2>1, <2>3
  <2>4. QED
    BY <2>2, <2>3
<1>8. /\ DOMAIN report' = 1 .. Len(report) + 1 /\ report'[Len(report) + 1] = Entry /\ Len(report) \in Nat
      /\ DOMAIN report = 1 .. Len(report)
      /\ \A j \in DOMAIN report : report'[j] = report[j]
  BY <1>1, <1>2
<1>9. ASSUME NEW t, Settled(t) PROVE Settled(t)'
  BY <1>8, <1>9 DEF Settled
<1>10. \A i \in 1 .. Lasts : Settled(Executions[i])
  BY DEF ReportOK
<1>11. ASSUME NEW i \in 1 .. Lasts' PROVE Settled(Executions[i])'
  BY <1>5, <1>9, <1>10
<1>12. ASSUME NEW m \in 1 .. nth' - 1
       PROVE  \E j \in DOMAIN report' : report'[j] = [test |-> recording, iteration |-> m, passed |-> batch[m] \in Passes]
  <2>1. CASE m = nth
    <3>1. Entry = [test |-> recording, iteration |-> m, passed |-> batch[m] \in Passes]
      BY <2>1 DEF Entry
    <3>2. QED
      BY <1>8, <3>1
  <2>2. CASE m # nth
    <3>1. m \in 1 .. nth - 1
      BY <1>1, <1>2, <2>2
    <3>2. PICK j \in DOMAIN report : report[j] = [test |-> recording, iteration |-> m, passed |-> batch[m] \in Passes]
      BY <3>1 DEF ReportOK
    <3>3. QED
      BY <1>8, <3>2
  <2>3. QED
    BY <2>1, <2>2
<1>13. onDisk'.tests = report' /\ onDisk'.success = FALSE
  BY <1>2
<1>14. QED
  BY <1>3, <1>5, <1>7, <1>11, <1>12, <1>13 DEF ReportOK

\* What an execution that has ended left in the report settles it.
LEMMA RecordedSettles ==
  ASSUME TestRunnerTypeOK, BatchOK, ReportOK, main = "record", nth > Len(batch)
  PROVE  Settled(recording) /\ nth > 1
<1>1. recording \in Tests /\ nth \in Nat \ {0} /\ Len(batch) \in Nat /\ Complete(recording, batch)
  BY DEF TestRunnerTypeOK, BatchOK
<1>2. Len(batch) >= 1
  <2>1. CASE recording \in Skipped
    <3>1. batch = <<"skipped">>
      BY <1>1, <2>1 DEF Complete
    <3>2. QED
      BY <3>1
  <2>2. CASE recording \notin Skipped
    <3>1. Len(batch) \in 1 .. Repeats[recording]
      BY <1>1, <2>2 DEF Complete
    <3>2. QED
      BY <1>1, <3>1, TestRunnerAssumption
  <2>3. QED
    BY <2>1, <2>2
<1>3. CASE recording \in Skipped
  BY <1>1, <1>2, <1>3 DEF Settled
<1>4. CASE recording \notin Skipped
  <2>1. /\ batch \in Seq(Results) /\ (batch[Len(batch)] = "passed" => Len(batch) = Repeats[recording])
    BY <1>1, <1>4 DEF Complete
  <2>2. Len(batch) \in 1 .. nth - 1
    BY <1>1, <1>2
  <2>3. PICK j \in DOMAIN report :
          report[j] = [test |-> recording, iteration |-> Len(batch), passed |-> batch[Len(batch)] \in Passes]
    BY <2>2 DEF ReportOK
  <2>4. batch[Len(batch)] \in Results
    BY <1>1, <1>2, <2>1
  <2>5. batch[Len(batch)] # "passed" => batch[Len(batch)] \notin Passes
    BY <2>4 DEF Results, Passes
  <2>6. report[j].test = recording /\ report[j].iteration = Len(batch) /\ report[j].passed = (batch[Len(batch)] \in Passes)
    BY <2>3
  <2>7. report[j].iteration = Repeats[recording] \/ ~report[j].passed
    <3>1. CASE batch[Len(batch)] = "passed"
      BY <2>1, <2>6, <3>1
    <3>2. CASE batch[Len(batch)] # "passed"
      BY <2>5, <2>6, <3>2, Zenon
    <3>3. QED
      BY <3>1, <3>2
  <2>8. Settled(recording)
    BY <2>6, <2>7 DEF Settled
  <2>9. QED
    BY <1>1, <1>2, <2>8
<1>5. QED
  BY <1>3, <1>4

LEMMA ReportPreserved ==
  TestRunnerTypeOK /\ HandedOK /\ BatchOK /\ ReportOK /\ [TestRunnerNext]_runnerVars => ReportOK'
<1> SUFFICES ASSUME TestRunnerTypeOK, HandedOK, BatchOK, ReportOK, [TestRunnerNext]_runnerVars PROVE ReportOK'
  OBVIOUS
<1> USE DEF jobVars, handVars, fuzzVars, reportVars
<1>1. Taken \in 0 .. Len(Executions) /\ Len(Executions) \in Nat /\ Len(pending) \in Nat /\ given \in Nat
  BY TakenBounds
<1>2. nth \in Nat \ {0} /\ pending \in Seq(Tests)
  BY DEF TestRunnerTypeOK
<1>3. ASSUME UNCHANGED <<report, onDisk>>
      PROVE  /\ \A t : Settled(t)' <=> Settled(t)
             /\ onDisk'.tests = report' /\ \E n \in 0 .. Len(Executions) : Covered(report') = SubSeq(Executions, 1, n)
  BY <1>3 DEF ReportOK, Settled
\* Steps that write nothing.
<1>4. CASE HandOut
  <2>1. main = "next" /\ main' = "next" /\ given' = given + 1 /\ Len(pending') = Len(pending) + 1 /\ UNCHANGED <<report, onDisk>>
    BY <1>2, <1>4, NextIsTest DEF HandOut, NextIsPooled
  <2>2. Taken' = Taken
    BY <1>1, <2>1 DEF Taken
  <2>3. Firsts' = Firsts /\ Lasts' = Lasts
    BY <2>1, <2>2 DEF Firsts, Lasts
  <2>4. QED
    BY <1>3, <2>1, <2>3 DEF ReportOK
<1>5. CASE FinishPending \/ RunSerial
  <2>1. main = "next" /\ main' = "wait" /\ UNCHANGED <<report, onDisk>>
    BY <1>5 DEF FinishPending, RunSerial
  <2>2. Taken' = Taken + 1
    <3>1. CASE FinishPending
      <4>1. given' = given /\ Len(pending') = Len(pending) - 1
        BY <1>2, <3>1 DEF FinishPending
      <4>2. QED
        BY <1>1, <4>1 DEF Taken
    <3>2. CASE RunSerial
      <4>1. given' = given + 1 /\ pending' = pending
        BY <3>2 DEF RunSerial
      <4>2. QED
        BY <1>1, <4>1 DEF Taken
    <3>3. QED
      BY <1>5, <3>1, <3>2
  <2>3. Firsts' = Firsts /\ Lasts' = Lasts
    BY <1>1, <2>1, <2>2 DEF Firsts, Lasts
  <2>4. QED
    BY <1>3, <2>1, <2>3 DEF ReportOK
<1>6. CASE Take
  <2>1. main = "wait" /\ main' = "record" /\ nth' = 1 /\ UNCHANGED <<given, pending, report, onDisk>>
    BY <1>6 DEF Take
  <2>2. Firsts' = Firsts /\ Lasts' = Lasts
    BY <2>1 DEF Firsts, Lasts, Taken
  <2>3. 1 .. nth' - 1 = {}
    BY <2>1
  <2>4. /\ Covered(report) = SubSeq(Executions, 1, Firsts)
        /\ \A i \in 1 .. Lasts : Settled(Executions[i])
        /\ ~onDisk.success
    BY <2>1 DEF ReportOK
  <2>5. QED
    BY <1>3, <2>1, <2>2, <2>3, <2>4 DEF ReportOK
<1>7. CASE Raise \/ Close \/ Interrupt
  <2>1. main # "over" /\ main' \in {"closing", "over", "killed"} /\ UNCHANGED <<report, onDisk>>
    BY <1>7 DEF Raise, Close, Interrupt
  <2>2. QED
    BY <1>3, <2>1 DEF ReportOK
<1>8. CASE Recorded
  <2>1. main = "record" /\ nth > Len(batch) /\ main' = "next" /\ UNCHANGED <<given, pending, report, onDisk>>
    BY <1>8 DEF Recorded
  <2>2. Settled(recording) /\ nth > 1
    BY <2>1, RecordedSettles
  <2>3. Taken > 0 /\ recording = Executions[Taken]
    BY <1>1, <2>1 DEF HandedOK
  <2>4. Firsts = Taken /\ Firsts' = Taken /\ Lasts = Taken - 1 /\ Lasts' = Taken
    BY <2>1, <2>2 DEF Firsts, Lasts, Taken
  <2>5. ASSUME NEW i \in 1 .. Taken PROVE Settled(Executions[i])
    <3>1. CASE i = Taken
      BY <2>2, <2>3, <3>1
    <3>2. CASE i # Taken
      <4>1. i \in 1 .. Lasts
        BY <1>1, <2>4, <3>2
      <4>2. QED
        BY <2>1, <4>1 DEF ReportOK
    <3>3. QED
      BY <3>1, <3>2
  <2>6. Covered(report) = SubSeq(Executions, 1, Taken)
    BY <2>1, <2>4 DEF ReportOK
  <2>7. QED
    BY <1>3, <2>1, <2>4, <2>5, <2>6 DEF ReportOK
<1>9. CASE (\E i \in DOMAIN Executions : PickUp(i)) \/ (\E u \in Tests : EndIteration(u) \/ Skip(u) \/ Break(u))
             \/ UNCHANGED runnerVars
  <2>1. UNCHANGED <<main, given, pending, recording, batch, nth, report, onDisk>>
    BY <1>9 DEF PickUp, EndIteration, Skip, Break, runnerVars
  <2>2. Firsts' = Firsts /\ Lasts' = Lasts
    BY <2>1 DEF Firsts, Lasts, Taken
  <2>3. QED
    BY <1>3, <2>1, <2>2 DEF ReportOK
\* Steps that write the report.
<1>10. CASE RecordOrdinary \/ Judge
  <2>1. main \in {"record", "confirm"} /\ main' = "record" /\ Report /\ UNCHANGED <<given, pending, recording, batch>>
    BY <1>10 DEF RecordOrdinary, Judge
  <2>2. QED
    BY <2>1, ReportWritten
<1>11. CASE RecordGenerated
  <2>1. main = "record" /\ UNCHANGED <<given, pending, recording, batch>>
    BY <1>11 DEF RecordGenerated
  <2>2. CASE Report /\ main' = main
    BY <2>1, <2>2, ReportWritten
  <2>3. CASE main' = "confirm" /\ UNCHANGED <<nth, reportVars>>
    <3>1. Firsts' = Firsts /\ Lasts' = Lasts
      BY <2>1, <2>3 DEF Firsts, Lasts, Taken
    <3>2. QED
      BY <1>3, <2>1, <2>3, <3>1 DEF ReportOK
  <2>4. QED
    BY <1>11, <2>2, <2>3 DEF RecordGenerated
<1>12. CASE Finish
  <2>1. /\ main = "next" /\ main' = "over" /\ report' = report /\ given = Len(Executions) /\ pending = <<>>
        /\ onDisk' = [success |-> \A j \in DOMAIN report : report[j].passed, tests |-> report]
    BY <1>12 DEF Finish
  <2>2. Taken = Len(Executions) /\ Firsts = Taken /\ Lasts = Taken
    BY <1>1, <2>1 DEF Taken, Firsts, Lasts
  <2>3. Covered(report) = Executions /\ \A i \in 1 .. Len(Executions) : Settled(Executions[i])
    BY <2>1, <2>2, AllPlaces DEF ReportOK
  <2>4. DOMAIN Executions = 1 .. Len(Executions)
    BY ExecutionsTyped
  <2>5. \A t : Settled(t)' <=> Settled(t)
    BY <2>1 DEF Settled
  <2>6. onDisk'.tests = report' /\ (onDisk'.success => \A j \in DOMAIN report' : report'[j].passed)
    BY <2>1
  <2>7. \E n \in 0 .. Len(Executions) : Covered(report') = SubSeq(Executions, 1, n)
    BY <2>1 DEF ReportOK
  <2>8. QED
    BY <2>1, <2>3, <2>4, <2>5, <2>6, <2>7 DEF ReportOK
<1>13. QED
  BY <1>4, <1>5, <1>6, <1>7, <1>8, <1>9, <1>10, <1>11, <1>12 DEF TestRunnerNext

-----------------------------------------------------------------------------
(* Discoveries                                                              *)

\* Once a generated case is recorded, all that are recorded later are generated.
LEMMA GeneratedRemains ==
  ASSUME TestRunnerTypeOK, HandedOK, HandedOK', TestRunnerTypeOK', [TestRunnerNext]_runnerVars, Taken > 0, IsGenerated(recording)
  PROVE  Taken' > 0 /\ IsGenerated(recording')
<1> USE DEF jobVars, handVars, fuzzVars, reportVars
<1>1. Taken \in 1 .. Len(Executions) /\ Len(Executions) \in Nat /\ Len(pending) \in Nat /\ given \in Nat /\ pending \in Seq(Tests)
  <2>1. Taken \in 0 .. Len(Executions) /\ Len(Executions) \in Nat /\ Len(pending) \in Nat /\ given \in Nat
    BY TakenBounds
  <2>2. pending \in Seq(Tests)
    BY DEF TestRunnerTypeOK
  <2>3. QED
    BY <2>1, <2>2
<1>2. Taken' \in {Taken, Taken + 1} /\ (Taken' = Taken => recording' = recording)
  <2>1. CASE HandOut
    <3>1. given' = given + 1 /\ Len(pending') = Len(pending) + 1 /\ recording' = recording
      BY <1>1, <2>1, NextIsTest DEF HandOut, NextIsPooled
    <3>2. QED
      BY <1>1, <3>1 DEF Taken
  <2>2. CASE FinishPending
    <3>1. given' = given /\ Len(pending') = Len(pending) - 1
      BY <1>1, <2>2 DEF FinishPending
    <3>2. QED
      BY <1>1, <3>1 DEF Taken
  <2>3. CASE RunSerial
    <3>1. given' = given + 1 /\ pending' = pending
      BY <2>3 DEF RunSerial
    <3>2. QED
      BY <1>1, <3>1 DEF Taken
  <2>4. CASE UNCHANGED <<given, pending, recording>>
    BY <2>4 DEF Taken
  <2>5. HandOut \/ FinishPending \/ RunSerial \/ UNCHANGED <<given, pending, recording>>
    BY DEF TestRunnerNext, PickUp, EndIteration, Skip, Break, Take, Raise, RecordOrdinary, RecordGenerated, Judge,
           Recorded, Finish, Close, Interrupt, runnerVars
  <2>6. QED
    BY <2>1, <2>2, <2>3, <2>4, <2>5
<1>3. CASE Taken' = Taken
  BY <1>1, <1>2, <1>3
<1>4. CASE Taken' = Taken + 1
  <2>1. recording = Executions[Taken] /\ recording' = Executions[Taken']
    BY <1>1, <1>4 DEF HandedOK
  <2>2. Taken' \in 1 .. Len(Executions)
    <3>1. given' \in 0 .. Len(Executions) /\ Len(pending') \in Nat /\ Len(pending') <= given'
      BY DEF TestRunnerTypeOK, HandedOK
    <3>2. QED
      BY <1>1, <1>4, <3>1 DEF Taken
  <2>3. QED
    BY <1>1, <1>4, <2>1, <2>2, ExecutionsTyped
<1>5. QED
  BY <1>2, <1>3, <1>4

\* Steps that touch neither baseline nor discoveries nor the claim.
LEMMA FuzzUntouched ==
  ASSUME FuzzOK, ClaimOK, DiscoveriesAreNew, UNCHANGED fuzzVars,
         Taken > 0 /\ IsGenerated(recording) => Taken' > 0 /\ IsGenerated(recording'),
         main' = "confirm" => main = "confirm" /\ UNCHANGED <<recording, batch, nth>>
  PROVE  FuzzOK' /\ ClaimOK' /\ DiscoveriesAreNew'
<1>1. UNCHANGED <<baseline, opened, reached, failures, claim, discoveries>>
  BY DEF fuzzVars
<1>2. DiscoveriesAreNew'
  BY <1>1 DEF DiscoveriesAreNew
<1>3. FuzzOK'
  BY <1>1 DEF FuzzOK
<1>4. ClaimOK'
  BY <1>1 DEF ClaimOK
<1>5. QED
  BY <1>2, <1>3, <1>4

\* An ordinary result reaches the baseline only while no fuzz test was recorded.
LEMMA FuzzOrdinary ==
  ASSUME TestRunnerTypeOK, HandedOK, FuzzOK, DiscoveriesAreNew, RecordOrdinary
  PROVE  FuzzOK' /\ ClaimOK' /\ DiscoveriesAreNew'
<1>1. /\ UNCHANGED <<main, given, pending, recording, batch, opened, reached, failures, claim, discoveries>>
      /\ main = "record"
      /\ baseline' = baseline \/ batch[nth] = "passed"
      /\ ~IsGenerated(recording) \/ batch[nth] = "skipped"
  BY DEF RecordOrdinary
<1>2. ClaimOK'
  BY <1>1 DEF ClaimOK
<1>3. Taken' = Taken
  BY <1>1 DEF Taken
<1>4. CASE baseline' = baseline
  <2>1. FuzzOK'
    BY <1>1, <1>3, <1>4 DEF FuzzOK
  <2>2. DiscoveriesAreNew'
    BY <1>1, <1>4 DEF DiscoveriesAreNew
  <2>3. QED
    BY <1>2, <2>1, <2>2
<1>5. CASE baseline' # baseline
  <2>1. ~IsGenerated(recording)
    BY <1>1, <1>5
  <2>2. opened = {}
    BY <2>1 DEF FuzzOK
  <2>3. DOMAIN discoveries = {}
    BY <2>2 DEF FuzzOK
  <2>4. FuzzOK'
    BY <1>1, <2>2, <2>3 DEF FuzzOK
  <2>5. DiscoveriesAreNew'
    BY <1>1, <2>3 DEF DiscoveriesAreNew
  <2>6. QED
    BY <1>2, <2>4, <2>5
<1>6. QED
  BY <1>4, <1>5

LEMMA FuzzClaimed ==
  ASSUME TestRunnerTypeOK, HandedOK, BatchOK, FuzzOK, DiscoveriesAreNew, RecordGenerated
  PROVE  FuzzOK' /\ ClaimOK' /\ DiscoveriesAreNew'
<1> DEFINE o == Generated[recording]
<1> DEFINE hits == coverage[recording][nth]
<1> DEFINE new == hits \ Known(o)
<1> DEFINE novel == batch[nth] # "passed" /\ <<o, batch[nth]>> \notin failures
<1>1. /\ main = "record" /\ IsGenerated(recording) /\ nth <= Len(batch) /\ batch[nth] # "skipped"
      /\ opened' = opened \cup {o}
      /\ reached' = [reached EXCEPT ![o] = Known(o)]
      /\ failures' = IF novel THEN failures \cup {<<o, batch[nth]>>} ELSE failures
      /\ UNCHANGED <<given, pending, recording, batch, baseline, discoveries>>
  BY DEF RecordGenerated
<1>2. \/ main' = "record"
      \/ /\ main' = "confirm" /\ claim' = [new |-> new, novel |-> novel, hits |-> hits] /\ nth' = nth
         /\ new # {} \/ novel
  BY <1>1 DEF RecordGenerated
<1>3. o \in Origins /\ reached \in [Origins -> SUBSET Points]
  BY <1>1 DEF Origins, IsGenerated, TestRunnerTypeOK
<1>4. batch[nth] \in Results
  <2>1. batch \in Seq(Results \cup {"skipped"}) /\ nth \in 1 .. Len(batch)
    BY <1>1 DEF TestRunnerTypeOK
  <2>2. QED
    BY <1>1, <2>1
<1>5. Taken' = Taken /\ Taken > 0
  <2>1. Taken # 0
    BY <1>1 DEF HandedOK
  <2>2. QED
    BY <1>1, <2>1, TakenBounds DEF Taken
<1> HIDE DEF o, hits, novel
<1>6. reached'[o] = Known(o) /\ \A x \in Origins : x # o => reached'[x] = reached[x]
  BY <1>1, <1>3
<1>7. o \in opened => reached'[o] = reached[o]
  BY <1>6 DEF Known
<1>8. baseline \subseteq Known(o)
  BY DEF Known, FuzzOK
<1>9. opened \subseteq Origins
  BY DEF TestRunnerTypeOK
<1>10. failures \subseteq failures'
  BY <1>1
<1>11. FuzzOK'
  <2>1. Taken' > 0 /\ IsGenerated(recording')
    BY <1>1, <1>5
  <2>2. ASSUME NEW x \in opened' PROVE baseline' \subseteq reached'[x]
    <3>1. CASE x = o
      BY <1>1, <1>6, <1>8, <3>1
    <3>2. CASE x # o
      <4>1. x \in opened /\ x \in Origins
        BY <1>1, <1>9, <3>2
      <4>2. QED
        BY <1>1, <1>6, <3>2, <4>1 DEF FuzzOK
    <3>3. QED
      BY <3>1, <3>2
  <2>3. ASSUME NEW i \in DOMAIN discoveries
        PROVE  LET d == discoveries[i]
               IN  /\ d.origin \in opened'
                   /\ d.new \subseteq reached'[d.origin]
                   /\ d.failure # "none" => <<d.origin, d.failure>> \in failures'
    <3> DEFINE d == discoveries[i]
    <3>1. d.origin \in opened /\ d.new \subseteq reached[d.origin] /\ (d.failure # "none" => <<d.origin, d.failure>> \in failures)
      BY DEF FuzzOK
    <3>2. reached'[d.origin] = reached[d.origin]
      BY <1>6, <1>7, <1>9, <3>1
    <3>3. QED
      BY <1>1, <1>10, <3>1, <3>2
  <2>4. QED
    BY <1>1, <2>1, <2>2, <2>3 DEF FuzzOK
<1>12. ClaimOK'
  <2> SUFFICES ASSUME main' = "confirm" PROVE ClaimOK'
    BY DEF ClaimOK
  <2>1. claim' = [new |-> new, novel |-> novel, hits |-> hits] /\ nth' = nth /\ (new # {} \/ novel)
    BY <1>2
  <2>2. claim'.new = new /\ claim'.hits = hits /\ claim'.novel = novel
    BY <2>1
  <2>3. Generated[recording'] = o /\ o \in opened' /\ batch'[nth'] = batch[nth]
    BY <1>1, <2>1 DEF o
  <2>4. new \cap reached'[o] = {} /\ new \subseteq hits
    BY <1>6
  <2>5. ASSUME novel
        PROVE  /\ <<o, batch[nth]>> \in failures'
               /\ \A i \in DOMAIN discoveries : discoveries[i].origin = o => discoveries[i].failure # batch[nth]
    <3>1. <<o, batch[nth]>> \notin failures /\ <<o, batch[nth]>> \in failures'
      BY <1>1, <2>5 DEF novel
    <3>2. batch[nth] # "none"
      BY <1>4 DEF Results
    <3>3. QED
      BY <3>1, <3>2 DEF FuzzOK
  <2>6. claim'.new # {} \/ claim'.novel
    BY <2>1, <2>2
  <2>7. claim'.novel => novel
    BY <2>2
  <2>8. claim'.new \cap reached'[o] = {} /\ claim'.new \subseteq claim'.hits
    BY <2>2, <2>4
  <2> HIDE DEF new
  <2>9. QED
    BY <1>1, <2>3, <2>5, <2>6, <2>7, <2>8 DEF ClaimOK
<1>13. DiscoveriesAreNew'
  BY <1>1 DEF DiscoveriesAreNew
<1>14. QED
  BY <1>11, <1>12, <1>13

\* A claim that was confirmed is still new: nothing of its fuzz test was recorded meanwhile.
LEMMA FuzzJudged ==
  ASSUME TestRunnerTypeOK, HandedOK, BatchOK, FuzzOK, ClaimOK, DiscoveriesAreNew, Judge
  PROVE  FuzzOK' /\ ClaimOK' /\ DiscoveriesAreNew'
<1> DEFINE o == Generated[recording]
<1> DEFINE d == [origin |-> o, new |-> claim.new, failure |-> IF claim.novel THEN batch[nth] ELSE "none"]
<1>1. /\ main = "confirm" /\ main' = "record"
      /\ UNCHANGED <<given, pending, recording, batch, baseline, opened, failures>>
      /\ \/ discoveries' = Append(discoveries, d) /\ reached' = [reached EXCEPT ![o] = @ \cup claim.hits]
         \/ UNCHANGED <<discoveries, reached>>
  BY DEF Judge, Credit
<1>2. ClaimOK'
  BY <1>1 DEF ClaimOK
<1>3. Taken' = Taken
  BY <1>1 DEF Taken
<1>4. CASE UNCHANGED <<discoveries, reached>>
  <2>1. FuzzOK'
    BY <1>1, <1>3, <1>4 DEF FuzzOK
  <2>2. DiscoveriesAreNew'
    BY <1>1, <1>4 DEF DiscoveriesAreNew
  <2>3. QED
    BY <1>2, <2>1, <2>2
<1>5. CASE discoveries' = Append(discoveries, d) /\ reached' = [reached EXCEPT ![o] = @ \cup claim.hits]
  <2>1. /\ o \in opened /\ claim.new \cap reached[o] = {} /\ claim.new \subseteq claim.hits
        /\ claim.new # {} \/ claim.novel
        /\ claim.novel => /\ <<o, batch[nth]>> \in failures
                          /\ \A i \in DOMAIN discoveries : discoveries[i].origin = o => discoveries[i].failure # batch[nth]
    BY <1>1 DEF ClaimOK
  <2>2. opened \subseteq Origins /\ reached \in [Origins -> SUBSET Points] /\ discoveries \in Seq(TestDiscoveries)
    BY DEF TestRunnerTypeOK
  <2>3. batch[nth] # "none"
    <3>1. batch \in Seq(Results \cup {"skipped"}) /\ nth \in 1 .. Len(batch)
      BY <1>1 DEF TestRunnerTypeOK, BatchOK
    <3>2. batch[nth] \in Results \cup {"skipped"}
      BY <3>1
    <3>3. QED
      BY <3>2 DEF Results
  <2>4. d.origin = o /\ d.new = claim.new /\ d.failure = IF claim.novel THEN batch[nth] ELSE "none"
    OBVIOUS
  <2> HIDE DEF d, o
  <2>5. /\ DOMAIN discoveries' = 1 .. Len(discoveries) + 1 /\ Len(discoveries) \in Nat
        /\ DOMAIN discoveries = 1 .. Len(discoveries)
        /\ discoveries'[Len(discoveries) + 1] = d
        /\ \A i \in 1 .. Len(discoveries) : discoveries'[i] = discoveries[i]
    BY <1>5, <2>2
  <2>6. reached'[o] = reached[o] \cup claim.hits /\ \A x \in Origins : x # o => reached'[x] = reached[x]
    BY <1>5, <2>1, <2>2
  <2>7. \A x \in opened : reached[x] \subseteq reached'[x]
    BY <2>2, <2>6
  <2>8. FuzzOK'
    <3>1. ASSUME NEW i \in DOMAIN discoveries'
          PROVE  LET e == discoveries'[i]
                 IN  /\ e.origin \in opened
                     /\ e.new \subseteq reached'[e.origin]
                     /\ e.failure # "none" => <<e.origin, e.failure>> \in failures
      <4>1. CASE i = Len(discoveries) + 1
        BY <2>1, <2>4, <2>5, <2>6, <4>1
      <4>2. CASE i # Len(discoveries) + 1
        <5>1. i \in DOMAIN discoveries /\ discoveries'[i] = discoveries[i]
          BY <2>5, <4>2
        <5>2. QED
          BY <2>7, <5>1 DEF FuzzOK
      <4>3. QED
        BY <4>1, <4>2
    <3>2. \A x \in opened' : baseline' \subseteq reached'[x]
      BY <1>1, <2>7 DEF FuzzOK
    <3>3. opened' # {} => Taken' > 0 /\ IsGenerated(recording')
      BY <1>1, <1>3 DEF FuzzOK
    <3>4. QED
      BY <1>1, <3>1, <3>2, <3>3 DEF FuzzOK
  <2>9. DiscoveriesAreNew'
    <3>1. ASSUME NEW i \in DOMAIN discoveries'
          PROVE  LET e == discoveries'[i]
                 IN  /\ e.new # {} \/ e.failure # "none"
                     /\ e.new \cap baseline' = {}
                     /\ \A j \in 1 .. i - 1 : discoveries'[j].origin = e.origin =>
                          /\ e.new \cap discoveries'[j].new = {}
                          /\ e.failure # "none" => e.failure # discoveries'[j].failure
      <4>1. CASE i = Len(discoveries) + 1
        <5>1. discoveries'[i] = d
          BY <2>5, <4>1
        <5>2. d.new # {} \/ d.failure # "none"
          BY <2>1, <2>3, <2>4
        <5>3. d.new \cap baseline' = {}
          BY <1>1, <2>1, <2>4 DEF FuzzOK
        <5>4. ASSUME NEW j \in 1 .. i - 1, discoveries'[j].origin = o
              PROVE  d.new \cap discoveries'[j].new = {} /\ (d.failure # "none" => d.failure # discoveries'[j].failure)
          <6>1. j \in DOMAIN discoveries /\ discoveries'[j] = discoveries[j]
            BY <2>5, <4>1
          <6>2. discoveries[j].new \subseteq reached[o]
            BY <5>4, <6>1 DEF FuzzOK
          <6>3. QED
            BY <2>1, <2>4, <5>4, <6>1, <6>2
        <5>5. QED
          BY <2>4, <5>1, <5>2, <5>3, <5>4
      <4>2. CASE i # Len(discoveries) + 1
        <5>1. i \in DOMAIN discoveries /\ \A j \in 1 .. i : discoveries'[j] = discoveries[j]
          BY <2>5, <4>2
        <5>2. i \in 1 .. i /\ \A j \in 1 .. i - 1 : j \in 1 .. i
          BY <2>5
        <5>3. QED
          BY <1>1, <5>1, <5>2 DEF DiscoveriesAreNew
      <4>3. QED
        BY <4>1, <4>2
    <3>2. QED
      BY <3>1 DEF DiscoveriesAreNew
  <2>10. QED
    BY <1>2, <2>8, <2>9
<1>6. QED
  BY <1>1, <1>4, <1>5

LEMMA FuzzPreserved ==
  ASSUME TestRunnerTypeOK, HandedOK, BatchOK, FuzzOK, ClaimOK, DiscoveriesAreNew, TestRunnerTypeOK', HandedOK',
         [TestRunnerNext]_runnerVars
  PROVE  FuzzOK' /\ ClaimOK' /\ DiscoveriesAreNew'
<1>1. CASE RecordOrdinary
  BY <1>1, FuzzOrdinary
<1>2. CASE RecordGenerated
  BY <1>2, FuzzClaimed
<1>3. CASE Judge
  BY <1>3, FuzzJudged
<1>4. CASE UNCHANGED fuzzVars /\ (main' = "confirm" => main = "confirm" /\ UNCHANGED <<recording, batch, nth>>)
  <2>1. Taken > 0 /\ IsGenerated(recording) => Taken' > 0 /\ IsGenerated(recording')
    BY GeneratedRemains
  <2>2. QED
    BY <1>4, <2>1, FuzzUntouched
<1>5. CASE HandOut \/ FinishPending \/ RunSerial \/ Take \/ Raise \/ Recorded \/ Finish \/ Close \/ Interrupt
  <2>1. UNCHANGED fuzzVars
    BY <1>5 DEF HandOut, FinishPending, RunSerial, Take, Raise, Recorded, Finish, Close, Interrupt
  <2>2. main' # "confirm"
    BY <1>5 DEF HandOut, FinishPending, RunSerial, Take, Raise, Recorded, Finish, Close, Interrupt
  <2>3. QED
    BY <1>4, <2>1, <2>2
<1>6. CASE (\E i \in DOMAIN Executions : PickUp(i)) \/ (\E u \in Tests : EndIteration(u) \/ Skip(u) \/ Break(u))
             \/ UNCHANGED runnerVars
  <2>1. UNCHANGED <<main, recording, batch, nth, fuzzVars>>
    BY <1>6 DEF PickUp, EndIteration, Skip, Break, runnerVars, handVars
  <2>2. QED
    BY <1>4, <2>1
<1>7. QED
  BY <1>1, <1>2, <1>3, <1>5, <1>6 DEF TestRunnerNext

-----------------------------------------------------------------------------
(* The theorems                                                             *)

LEMMA InitInv == TestRunnerInit => TestRunnerInv
<1> SUFFICES ASSUME TestRunnerInit PROVE TestRunnerInv
  OBVIOUS
<1>1. TestRunnerTypeOK
  BY TypeInit
<1>2. /\ job = [t \in Tests |-> "none"] /\ results = [t \in Tests |-> <<>>] /\ main = "next" /\ given = 0 /\ pending = <<>>
      /\ batch = <<>> /\ nth = 1 /\ opened = {} /\ discoveries = <<>> /\ report = <<>>
      /\ onDisk = [success |-> FALSE, tests |-> <<>>] /\ recording = Executions[1]
  BY DEF TestRunnerInit
<1>3. Taken = 0 /\ DOMAIN pending = {} /\ DOMAIN discoveries = {}
  <2>1. given = 0 /\ pending = <<>> /\ discoveries = <<>>
    BY <1>2
  <2>2. Len(pending) = 0
    BY <2>1
  <2>3. DOMAIN pending = {} /\ DOMAIN discoveries = {}
    BY <2>1
  <2>4. given = 0
    BY <2>1
  <2>5. Taken = 0
    BY <2>2, <2>4 DEF Taken
  <2>6. QED
    BY <2>3, <2>5
<1>4. Executions \in Seq(Tests) /\ Len(Executions) \in Nat \ {0}
  BY ExecutionsTyped, ExecutionsNotEmpty
<1>5. HandedOK
  BY <1>2, <1>3 DEF HandedOK
<1>6. QueueOK
  <2>1. ASSUME NEW t \in Tests PROVE ~Active(t)
    BY <1>2 DEF Active
  <2>2. QED
    BY <1>2, <2>1 DEF QueueOK
<1>7. JobsOK
  <2>1. \A i \in DOMAIN Executions : Executions[i] \in Tests
    BY <1>4
  <2>2. QED
    BY <1>2, <2>1 DEF JobsOK
<1>8. BatchOK
  BY <1>2 DEF BatchOK
<1>9. ReportOK
  <2>1. SubSeq(Executions, 1, 0) = <<>>
    BY <1>4
  <2>2. Covered(report) = SubSeq(Executions, 1, 0)
    BY <1>2, <2>1, CoveredEmpty
  <2>3. Firsts = 0 /\ 1 .. Lasts = {} /\ onDisk.success = FALSE /\ onDisk.tests = report
    BY <1>2, <1>3 DEF Firsts, Lasts
  <2>4. 0 \in 0 .. Len(Executions)
    BY <1>4
  <2>5. QED
    BY <1>2, <2>2, <2>3, <2>4 DEF ReportOK
<1>10. FuzzOK /\ ClaimOK /\ DiscoveriesAreNew
  BY <1>2, <1>3 DEF FuzzOK, ClaimOK, DiscoveriesAreNew
<1>11. QED
  BY <1>1, <1>5, <1>6, <1>7, <1>8, <1>9, <1>10 DEF TestRunnerInv

LEMMA InvPreserved == TestRunnerInv /\ [TestRunnerNext]_runnerVars => TestRunnerInv'
<1> SUFFICES ASSUME TestRunnerInv, [TestRunnerNext]_runnerVars PROVE TestRunnerInv'
  OBVIOUS
<1>1. TestRunnerTypeOK /\ HandedOK /\ QueueOK /\ JobsOK /\ BatchOK /\ ReportOK /\ FuzzOK /\ ClaimOK /\ DiscoveriesAreNew
  BY DEF TestRunnerInv
<1>2. TestRunnerTypeOK' /\ HandedOK' /\ QueueOK' /\ JobsOK' /\ BatchOK' /\ ReportOK'
  BY <1>1, TypePreserved, HandedPreserved, QueuePreserved, JobsPreserved, BatchPreserved, ReportPreserved
<1>3. FuzzOK' /\ ClaimOK' /\ DiscoveriesAreNew'
  BY <1>1, <1>2, FuzzPreserved
<1>4. QED
  BY <1>2, <1>3 DEF TestRunnerInv

\* A report that says success tells of every execution, and each passed all its iterations.
LEMMA HonestFromReport ==
  ASSUME TestRunnerTypeOK, ReportOK
  PROVE  ReportIsHonest
<1>1. Executions \in Seq(Tests)
  BY ExecutionsTyped
<1>2. onDisk.tests = report /\ report \in Seq(Entries)
  BY DEF ReportOK, TestRunnerTypeOK
<1>3. PICK n \in 0 .. Len(Executions) : Covered(report) = SubSeq(Executions, 1, n)
  BY DEF ReportOK
<1>4. Len(SubSeq(Executions, 1, n)) = n
  BY <1>1, <1>3
<1>5. Covered(report) = SubSeq(Executions, 1, Len(Covered(report)))
  BY <1>3, <1>4
<1>6. ASSUME onDisk.success
      PROVE  /\ Covered(report) = Executions
             /\ \A i \in DOMAIN report :
                  /\ report[i].passed
                  /\ report[i].test \in Skipped
                       \/ \E j \in DOMAIN report : report[j].test = report[i].test /\ report[j].iteration = Repeats[report[i].test]
  <2>1. Covered(report) = Executions /\ (\A i \in DOMAIN Executions : Settled(Executions[i])) /\ \A j \in DOMAIN report : report[j].passed
    BY <1>6 DEF ReportOK
  <2>2. ASSUME NEW i \in DOMAIN report
        PROVE  report[i].test \in Skipped
                 \/ \E j \in DOMAIN report : report[j].test = report[i].test /\ report[j].iteration = Repeats[report[i].test]
    <3>1. report[i].test \in Tests
      <4>1. report[i] \in Entries
        BY <1>2
      <4>2. QED
        BY <4>1 DEF Entries
    <3>2. PICK k \in DOMAIN Executions : Executions[k] = report[i].test
      BY <1>1, <3>1, ExecutionsTyped
    <3>3. Settled(report[i].test)
      BY <2>1, <3>2
    <3>4. QED
      BY <2>1, <3>3 DEF Settled
  <2>3. QED
    BY <2>1, <2>2
<1>7. QED
  BY <1>2, <1>5, <1>6 DEF ReportIsHonest

(* The inductive invariant holds in every reachable state.                  *)
THEOREM TestRunnerInvariance == TestRunnerSpec => []TestRunnerInv
<1>1. TestRunnerInit => TestRunnerInv
  BY InitInv
<1>2. TestRunnerInv /\ [TestRunnerNext]_runnerVars => TestRunnerInv'
  BY InvPreserved
<1>3. QED
  BY <1>1, <1>2, PTL DEF TestRunnerSpec

(* Every variable keeps its type; a coverage file exists for every          *)
(* iteration that is read.                                                  *)
THEOREM TestRunnerTypeCorrect == TestRunnerSpec => []TestRunnerTypeOK
<1>1. TestRunnerInv => TestRunnerTypeOK
  BY DEF TestRunnerInv
<1>2. QED
  BY <1>1, TestRunnerInvariance, PTL

(* No test runs beside one without the option parallel, whatever the number *)
(* of workers and the order in which they finish.                           *)
THEOREM SerialTestsRunAlone == TestRunnerSpec => []SerialRunsAlone
<1>1. TestRunnerInv => SerialRunsAlone
  BY SerialFromQueue DEF TestRunnerInv
<1>2. QED
  BY <1>1, TestRunnerInvariance, PTL

(* results.json lists executions in order without a gap, and says success   *)
(* only of a run in which all of them passed.                               *)
THEOREM ReportsAreHonest == TestRunnerSpec => []ReportIsHonest
<1>1. TestRunnerInv => ReportIsHonest
  BY HonestFromReport DEF TestRunnerInv
<1>2. QED
  BY <1>1, TestRunnerInvariance, PTL

(* Nothing is kept as a discovery that was known when it was confirmed.     *)
THEOREM OnlyTheNewIsKept == TestRunnerSpec => []DiscoveriesAreNew
<1>1. TestRunnerInv => DiscoveriesAreNew
  BY DEF TestRunnerInv
<1>2. QED
  BY <1>1, TestRunnerInvariance, PTL
=============================================================================
