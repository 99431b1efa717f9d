---------------------------- MODULE ToolingProofs ----------------------------
(****************************************************************************)
(* Theorems of Campaign, for any inputs, harnesses and budgets: what is kept*)
(* reproduces, what a deterministic harness shows is kept, and the tests    *)
(* appended to the source stay different from each other.  Theorems of      *)
(* HitCounters, for any number of threads, slots and points: a point has one*)
(* slot, every slot that a probe has passed belongs to another point, and   *)
(* what is read is what was counted.  Theorems of Executable, for any       *)
(* commands, revisions and bounds: a user who does not save while a command *)
(* compiles gets what was saved, no command refuses, and what is unchanged  *)
(* is found so.  Theorems of Domains, for any types, signatures and guards: *)
(* narrowing the bounds by the guards loses no input that satisfies them,   *)
(* what is drawn lies within the bounds, what a guard wants equal is equal, *)
(* and no sample is given up for want of a common value that exists.        *)
(****************************************************************************)
EXTENDS Campaign, HitCounters, Executable, Domains, InductionLemmas

-----------------------------------------------------------------------------
(* Campaign                                                                 *)

(* The inductive invariant.  While a case is judged or reduced, its new     *)
(* points count as seen although nothing that is kept reaches them yet;     *)
(* CaseOK says that they are the case's own and that the harness did answer *)
(* so, without which a deterministic harness could fail to confirm.         *)
Reached(p) == \E j \in DOMAIN kept : p \in kept[j].new
Judging == phase \in {"judge", "reduce"}

Shows(i, verdict, points) ==
  \E o \in harness[i] : o.verdict = verdict /\ (verdict = "passed" => points \subseteq o.hits)

CaseOK ==
  Judging => /\ outcome \in harness[input]
             /\ new \subseteq outcome.hits
             /\ outcome.hits \subseteq seen

BestOK == phase = "reduce" => Shows(best, outcome.verdict, new)

Timely == mode = "fuzz" /\ Deterministic /\ elapsed # "late"

SeenOK == Timely => \A p \in seen : Reached(p) \/ (Judging /\ p \in new)

FilesOK == \A f \in {source, snapshot, original} : IsInjective(f.tests)

CampaignInv ==
  CampaignTypeOK /\ CaseOK /\ BestOK /\ KeptReproduces /\ SeenOK /\ NothingIsLost /\ FilesOK
-----------------------------------------------------------------------------
(* Sequences                                                                *)

LEMMA AppendKeepsInjective ==
  ASSUME NEW S, NEW s \in Seq(S), NEW x \in S, IsInjective(s), ~Contains(s, x)
  PROVE  IsInjective(Append(s, x))
<1>1. \A i \in 1 .. Len(s) : s[i] # x
  BY DEF Contains
<1>2. \A i, j \in 1 .. Len(s) : s[i] = s[j] => i = j
  BY DEF IsInjective
<1>3. QED
  BY <1>1, <1>2 DEF IsInjective

\* A part of a file from its beginning has no test twice if the file has none.
LEMMA PrefixKeepsInjective ==
  ASSUME NEW S, NEW s \in Seq(S), NEW n \in 0 .. Len(s), IsInjective(s)
  PROVE  SubSeq(s, 1, n) \in Seq(S) /\ IsInjective(SubSeq(s, 1, n))
<1>1. \A i, j \in 1 .. Len(s) : s[i] = s[j] => i = j
  BY DEF IsInjective
<1>2. QED
  BY <1>1 DEF IsInjective

LEMMA EmptyIsInjective == IsInjective(<<>>)
  BY DEF IsInjective

(* What is appended are inputs, and they leave a file without repetition    *)
(* without repetition: the set of sequences with both properties holds the  *)
(* empty one and is closed under the step of the recursion.                 *)
LEMMA AdditionsAreNew ==
  ASSUME CampaignTypeOK, IsInjective(original.tests)
  PROVE  /\ Additions \in Seq(Inputs)
         /\ IsInjective(original.tests \o Additions)
<1> DEFINE tests == original.tests
<1> DEFINE N == Len(kept)
<1>1. tests \in Seq(Inputs) /\ N \in Nat /\ \A n \in 1 .. N : kept[n].input \in Inputs
  <2>1. original \in Files /\ kept \in Seq(Discoveries)
    BY DEF CampaignTypeOK
  <2>2. tests \in Seq(Inputs) /\ N \in Nat
    BY <2>1 DEF Files
  <2>3. ASSUME NEW n \in 1 .. N PROVE kept[n].input \in Inputs
    <3>1. kept[n] \in Discoveries
      BY <2>1
    <3>2. QED
      BY <3>1 DEF Discoveries
  <2>4. QED
    BY <2>2, <2>3
<1> DEFINE T == {r \in Seq(Inputs) : IsInjective(tests \o r)}
<1> DEFINE Next(r, n) == IF Contains(tests \o r, kept[n].input) THEN r ELSE Append(r, kept[n].input)
<1> DEFINE step == [n \in 1 .. N |-> [r \in T |-> Next(r, n)]]
<1> DEFINE Added(g) == [n \in 0 .. N |-> IF n = 0 THEN <<>> ELSE Next(g[n - 1], n)]
<1>2. <<>> \in T
  BY <1>1
<1>3. ASSUME NEW n \in 1 .. N, NEW r \in T PROVE Next(r, n) \in T
  <2> DEFINE x == kept[n].input
  <2>1. x \in Inputs
    BY <1>1
  <2>2. CASE Contains(tests \o r, x)
    BY <2>2
  <2>3. CASE ~Contains(tests \o r, x)
    <3> HIDE DEF tests, N, x
    <3>1. tests \o r \in Seq(Inputs) /\ IsInjective(tests \o r)
      BY <1>1
    <3>2. IsInjective(Append(tests \o r, x))
      BY <2>1, <2>3, <3>1, AppendKeepsInjective
    <3>3. Append(tests \o r, x) = tests \o Append(r, x)
      BY <1>1, <2>1
    <3>4. Append(r, x) \in T
      BY <2>1, <3>2, <3>3
    <3>5. QED
      BY <2>3, <3>4 DEF x
  <2>4. QED
    BY <2>2, <2>3
<1>4. step \in [1 .. N -> [T -> T]]
  BY <1>3
<1>5. PICK f : Follows(f, N, T, <<>>, step)
  <2> DEFINE a == <<>>
  <2>1. a \in T /\ N \in Nat /\ step \in [1 .. N -> [T -> T]]
    BY <1>1, <1>2, <1>4
  <2> HIDE DEF T, step, N, a
  <2>2. \E f : Follows(f, N, T, a, step)
    BY <2>1, RecursionExists
  <2>3. QED
    BY <2>2 DEF a
<1>6. f = Added(f)
  <2> HIDE DEF N, T, Next
  <2>1. ASSUME NEW n \in 1 .. N PROVE f[n] = Next(f[n - 1], n)
    <3>1. f[n - 1] \in T
      BY <1>1, <1>5 DEF Follows
    <3>2. QED
      BY <1>5, <3>1 DEF Follows
  <2>2. ASSUME NEW n \in 0 .. N PROVE f[n] = Added(f)[n]
    BY <1>1, <1>5, <2>1 DEF Follows
  <2>3. QED
    BY <1>5, <2>2 DEF Follows
<1>7. ASSUME NEW g, g = Added(g) PROVE g[N] \in T
  <2> HIDE DEF N, T, Next
  <2>1. g[0] \in T
    BY <1>1, <1>2, <1>7
  <2>2. ASSUME NEW n \in 1 .. N, g[n - 1] \in T PROVE g[n] \in T
    <3>1. g[n] = Next(g[n - 1], n)
      BY <1>1, <1>7
    <3>2. QED
      BY <1>3, <2>2, <3>1
  <2>3. QED
    BY <1>1, <2>1, <2>2, StaysIn
<1>8. Additions \in T
  <2> DEFINE g == CHOOSE h : h = Added(h)
  <2>1. g = Added(g)
    BY <1>6
  <2>2. Additions = g[N]
    BY DEF Additions
  <2>3. QED
    BY <1>7, <2>1, <2>2
<1>9. QED
  BY <1>8

-----------------------------------------------------------------------------
(* Type correctness                                                         *)

LEMMA OutcomesOfHarness ==
  ASSUME NEW h \in Harnesses, NEW i \in Inputs
  PROVE  h[i] \subseteq Outcomes /\ h[i] # {}
<1>1. h \in [Inputs -> (SUBSET Outcomes) \ {{}}]
  BY CampaignAssumption
<1>2. QED
  BY <1>1

LEMMA TypeInit == CampaignInit => CampaignTypeOK
<1> SUFFICES ASSUME CampaignInit PROVE CampaignTypeOK
  OBVIOUS
<1>1. SomeInput \in Inputs
  BY CampaignAssumption DEF SomeInput
<1>2. NoOutcome \in Outcomes
  BY DEF NoOutcome, Outcomes, Verdicts
<1>3. [edit |-> 0, tests |-> <<>>] \in Files
  BY CampaignAssumption DEF Files
<1>4. QED
  BY <1>1, <1>2, <1>3, CampaignAssumption DEF CampaignInit, CampaignTypeOK

LEMMA KeepTyped ==
  CampaignTypeOK /\ Keep => cases' \in Seq(CaseRecords) /\ phase' \in {"draw", "report"}
<1> SUFFICES ASSUME CampaignTypeOK, Keep PROVE cases' \in Seq(CaseRecords) /\ phase' \in {"draw", "report"}
  OBVIOUS
<1>1. [input |-> input, outcome |-> outcome] \in CaseRecords
  BY DEF CampaignTypeOK, CaseRecords
<1>2. QED
  BY <1>1 DEF CampaignTypeOK, Keep

LEMMA TypePreserved ==
  CampaignTypeOK /\ FilesOK /\ [CampaignNext]_campaignVars => CampaignTypeOK'
<1> SUFFICES ASSUME CampaignTypeOK, FilesOK, [CampaignNext]_campaignVars PROVE CampaignTypeOK'
  OBVIOUS
<1>1. CASE Elapse
  BY <1>1 DEF CampaignTypeOK, Elapse, fileVars
<1>2. CASE InvokeCase
  <2>1. PICK i \in Inputs, o \in Outcomes :
          /\ input' = i
          /\ outcome' = o
          /\ new' = o.hits \ seen
          /\ seen' = seen \cup o.hits
    BY <1>2 DEF InvokeCase
  <2>2. o.hits \subseteq Sites
    BY DEF Outcomes
  <2>3. QED
    BY <1>2, <2>1, <2>2 DEF CampaignTypeOK, InvokeCase, fileVars
<1>3. CASE Pass
  BY <1>3, KeepTyped DEF CampaignTypeOK, Pass, fileVars
<1>4. CASE Confirm
  <2>1. PICK o \in harness[input] :
          IF Confirmed(o) THEN /\ phase' = "reduce"
                               /\ best' = input
                               /\ trials' = 0
                               /\ UNCHANGED cases
          ELSE Keep /\ UNCHANGED <<best, trials>>
    BY <1>4 DEF Confirm
  <2>2. cases' \in Seq(CaseRecords) /\ phase' \in {"draw", "report", "reduce"}
    BY <2>1, KeepTyped DEF CampaignTypeOK
  <2>3. best' \in Inputs /\ trials' \in 0 .. MaxTrials
    BY <2>1, CampaignAssumption DEF CampaignTypeOK
  <2>4. QED
    BY <1>4, <2>2, <2>3 DEF CampaignTypeOK, Confirm, fileVars
<1>5. CASE Reduce
  <2> DEFINE candidate == Reductions[input][trials + 1]
  <2>1. Reductions[input] \in Seq(Inputs) /\ trials \in 0 .. MaxTrials /\ MaxTrials \in Nat
    BY CampaignAssumption DEF CampaignTypeOK
  <2>2. trials < Len(Reductions[input]) /\ trials < MaxTrials
    BY <1>5 DEF Reduce, MayReduce
  <2>3. candidate \in Inputs /\ trials + 1 \in 0 .. MaxTrials
    BY <2>1, <2>2
  <2>4. best' \in {candidate, best} /\ trials' = trials + 1
    BY <1>5 DEF Reduce
  <2> HIDE DEF candidate
  <2>5. QED
    BY <1>5, <2>3, <2>4 DEF CampaignTypeOK, Reduce, fileVars
<1>6. CASE Save
  <2>1. [input |-> best, verdict |-> outcome.verdict, new |-> new] \in Discoveries
    BY DEF CampaignTypeOK, Discoveries, Outcomes
  <2>2. kept' \in Seq(Discoveries)
    BY <1>6, <2>1 DEF Save, CampaignTypeOK
  <2>3. QED
    BY <1>6, <2>2, KeepTyped DEF CampaignTypeOK, Save, fileVars
<1>7. CASE EndCampaign
  BY <1>7 DEF CampaignTypeOK, EndCampaign, fileVars
<1>8. CASE ReadSource
  BY <1>8 DEF CampaignTypeOK, ReadSource
<1>9. CASE AppendTests
  <2>1. Additions \in Seq(Inputs)
    BY AdditionsAreNew DEF FilesOK
  <2>2. [source EXCEPT !.tests = @ \o Additions] \in Files
    <3>1. source \in Files /\ source.tests \in Seq(Inputs)
      BY DEF CampaignTypeOK, Files
    <3>2. source.tests \o Additions \in Seq(Inputs)
      BY <2>1, <3>1
    <3>3. QED
      BY <3>1, <3>2 DEF Files
  <2>3. source' \in Files
    BY <1>9, <2>2 DEF AppendTests, CampaignTypeOK
  <2>4. QED
    BY <1>9, <2>3 DEF CampaignTypeOK, AppendTests
<1>10. CASE EditTests
  <2>1. PICK n \in 0 .. Len(source.tests) : source' = [edit |-> userEdits', tests |-> SubSeq(source.tests, 1, n)]
    BY <1>10 DEF EditTests
  <2>2. userEdits' \in 0 .. MaxUserEdits
    BY <1>10, CampaignAssumption DEF EditTests, CampaignTypeOK
  <2>3. SubSeq(source.tests, 1, n) \in Seq(Inputs)
    BY PrefixKeepsInjective DEF FilesOK, CampaignTypeOK, Files
  <2>4. source' \in Files
    BY <2>1, <2>2, <2>3 DEF Files
  <2>5. QED
    BY <1>10, <2>2, <2>4 DEF CampaignTypeOK, EditTests, loopVars
<1>11. CASE RunAgain
  <2>1. SomeInput \in Inputs
    BY CampaignAssumption DEF SomeInput
  <2>2. NoOutcome \in Outcomes
    BY DEF NoOutcome, Outcomes, Verdicts
  <2>3. runs' \in 1 .. MaxRuns
    BY <1>11, CampaignAssumption DEF RunAgain, CampaignTypeOK
  <2>4. QED
    BY <1>11, <2>1, <2>2, <2>3, CampaignAssumption DEF CampaignTypeOK, RunAgain, Fresh
<1>12. CASE UNCHANGED campaignVars
  BY <1>12 DEF CampaignTypeOK, campaignVars, loopVars, fileVars
<1>13. QED
  BY <1>1, <1>2, <1>3, <1>4, <1>5, <1>6, <1>7, <1>8, <1>9, <1>10, <1>11, <1>12 DEF CampaignNext

-----------------------------------------------------------------------------
(* Cases, and what is kept of them                                          *)

LEMMA CasePreserved ==
  CampaignTypeOK /\ CaseOK /\ BestOK /\ [CampaignNext]_campaignVars => CaseOK' /\ BestOK'
<1> SUFFICES ASSUME CampaignTypeOK, CaseOK, BestOK, [CampaignNext]_campaignVars PROVE CaseOK' /\ BestOK'
  OBVIOUS
<1>1. CASE InvokeCase
  <2>1. PICK i \in Inputs, o \in Outcomes :
          /\ o \in harness[i]
          /\ input' = i
          /\ outcome' = o
          /\ new' = o.hits \ seen
          /\ seen' = seen \cup o.hits
    BY <1>1 DEF InvokeCase
  <2>2. phase' = "judge" /\ harness' = harness
    BY <1>1 DEF InvokeCase
  <2>3. QED
    BY <2>1, <2>2 DEF CaseOK, BestOK, Judging
<1>2. CASE Confirm
  <2>1. PICK o \in harness[input] :
          IF Confirmed(o) THEN phase' = "reduce" /\ best' = input ELSE Keep
    BY <1>2 DEF Confirm
  <2>2. UNCHANGED <<harness, input, outcome, new, seen>> /\ Judging
    BY <1>2 DEF Confirm, Judging
  <2>3. CaseOK'
    BY <2>2 DEF CaseOK, Judging
  <2>4. CASE Confirmed(o)
    <3>1. Shows(input, outcome.verdict, new)
      BY <2>4 DEF Confirmed, Shows
    <3>2. Shows(best, outcome.verdict, new)'
      BY <2>1, <2>2, <2>4, <3>1 DEF Shows
    <3>3. QED
      BY <2>3, <3>2 DEF BestOK
  <2>5. CASE ~Confirmed(o)
    BY <2>1, <2>3, <2>5 DEF Keep, BestOK
  <2>6. QED
    BY <2>4, <2>5
<1>3. CASE Reduce
  <2>1. PICK o \in harness[Reductions[input][trials + 1]] :
          best' = IF Accepted(o) THEN Reductions[input][trials + 1] ELSE best
    BY <1>3 DEF Reduce
  <2>2. UNCHANGED <<harness, input, outcome, new, seen, phase>> /\ phase = "reduce"
    BY <1>3 DEF Reduce
  <2>3. CaseOK'
    BY <2>2 DEF CaseOK, Judging
  <2>4. Shows(best', outcome.verdict, new)
    <3>1. CASE Accepted(o)
      BY <2>1, <3>1 DEF Accepted, Shows
    <3>2. CASE ~Accepted(o)
      BY <2>1, <2>2, <3>2 DEF BestOK
    <3>3. QED
      BY <3>1, <3>2
  <2>5. QED
    BY <2>2, <2>3, <2>4 DEF BestOK, Shows
<1>4. CASE Pass \/ Save \/ EndCampaign \/ ReadSource \/ AppendTests \/ RunAgain
  <2>1. phase' \notin {"judge", "reduce"}
    BY <1>4 DEF Pass, Save, Keep, EndCampaign, ReadSource, AppendTests, RunAgain, Fresh
  <2>2. QED
    BY <2>1 DEF CaseOK, BestOK, Judging
<1>5. CASE Elapse \/ EditTests \/ UNCHANGED campaignVars
  <2>1. UNCHANGED <<harness, phase, input, outcome, new, seen, best>>
    BY <1>5 DEF Elapse, EditTests, campaignVars, loopVars
  <2>2. QED
    BY <2>1 DEF CaseOK, BestOK, Judging, Shows
<1>6. QED
  BY <1>1, <1>2, <1>3, <1>4, <1>5 DEF CampaignNext

LEMMA KeptPreserved ==
  CampaignTypeOK /\ BestOK /\ KeptReproduces /\ [CampaignNext]_campaignVars => KeptReproduces'
<1> SUFFICES ASSUME CampaignTypeOK, BestOK, KeptReproduces, [CampaignNext]_campaignVars PROVE KeptReproduces'
  OBVIOUS
<1>1. CASE Save
  <2> DEFINE d == [input |-> best, verdict |-> outcome.verdict, new |-> new]
  <2>1. kept' = Append(kept, d) /\ harness' = harness /\ kept \in Seq(Discoveries)
    BY <1>1 DEF Save, CampaignTypeOK
  <2>2. Shows(best, outcome.verdict, new)
    BY <1>1 DEF BestOK, Save
  <2>3. ASSUME NEW k \in DOMAIN kept'
        PROVE  \E o \in harness[kept'[k].input] :
                 o.verdict = kept'[k].verdict /\ (kept'[k].verdict = "passed" => kept'[k].new \subseteq o.hits)
    <3>1. CASE k \in DOMAIN kept
      <4>1. kept'[k] = kept[k]
        BY <2>1, <3>1
      <4>2. QED
        BY <3>1, <4>1 DEF KeptReproduces
    <3>2. CASE k = Len(kept) + 1
      <4>1. kept'[k] = d
        BY <2>1, <3>2
      <4>2. QED
        BY <2>2, <4>1 DEF Shows
    <3>3. QED
      BY <2>1, <3>1, <3>2
  <2>4. QED
    BY <2>1, <2>3 DEF KeptReproduces
<1>2. CASE RunAgain
  BY <1>2 DEF RunAgain, Fresh, KeptReproduces
<1>3. CASE Elapse \/ InvokeCase \/ Pass \/ Confirm \/ Reduce \/ EndCampaign \/ ReadSource \/ AppendTests
             \/ EditTests \/ UNCHANGED campaignVars
  <2>1. UNCHANGED <<harness, kept>>
    BY <1>3 DEF Elapse, InvokeCase, Pass, Confirm, Reduce, EndCampaign, ReadSource, AppendTests, EditTests,
                campaignVars, loopVars
  <2>2. QED
    BY <2>1 DEF KeptReproduces
<1>4. QED
  BY <1>1, <1>2, <1>3 DEF CampaignNext

-----------------------------------------------------------------------------
(* The files                                                                *)

LEMMA FilesPreserved ==
  CampaignTypeOK /\ FilesOK /\ [CampaignNext]_campaignVars => FilesOK'
<1> SUFFICES ASSUME CampaignTypeOK, FilesOK, [CampaignNext]_campaignVars PROVE FilesOK'
  OBVIOUS
<1>1. CASE ReadSource
  BY <1>1 DEF ReadSource, FilesOK
<1>2. CASE AppendTests
  <2>1. IsInjective(original.tests \o Additions)
    BY AdditionsAreNew DEF FilesOK
  <2>2. source \in Files
    BY DEF CampaignTypeOK
  <2>3. source' = source \/ source'.tests = original.tests \o Additions
    BY <1>2, <2>2 DEF AppendTests, Files
  <2>4. IsInjective(source'.tests)
    BY <2>1, <2>3 DEF FilesOK
  <2>5. QED
    BY <1>2, <2>4 DEF AppendTests, FilesOK
<1>3. CASE EditTests
  <2>1. PICK n \in 0 .. Len(source.tests) : source'.tests = SubSeq(source.tests, 1, n)
    BY <1>3 DEF EditTests
  <2>2. IsInjective(source'.tests)
    BY <2>1, PrefixKeepsInjective DEF FilesOK, CampaignTypeOK, Files
  <2>3. QED
    BY <1>3, <2>2 DEF EditTests, FilesOK
<1>4. CASE RunAgain
  BY <1>4 DEF RunAgain, FilesOK
<1>5. CASE Elapse \/ InvokeCase \/ Pass \/ Confirm \/ Reduce \/ Save \/ EndCampaign \/ UNCHANGED campaignVars
  <2>1. UNCHANGED <<source, snapshot, original>>
    BY <1>5 DEF Elapse, InvokeCase, Pass, Confirm, Reduce, Save, EndCampaign, campaignVars, fileVars
  <2>2. QED
    BY <2>1 DEF FilesOK
<1>6. QED
  BY <1>1, <1>2, <1>3, <1>4, <1>5 DEF CampaignNext

-----------------------------------------------------------------------------
(* Nothing is lost                                                          *)

\* Time only runs out, and a campaign keeps its harness.
LEMMA TimelyBefore ==
  [CampaignNext]_campaignVars /\ ~RunAgain /\ Timely' => Timely
<1> SUFFICES ASSUME [CampaignNext]_campaignVars, ~RunAgain, Timely' PROVE Timely
  OBVIOUS
<1>1. UNCHANGED <<mode, harness>> /\ (elapsed' # "late" => elapsed # "late")
  <2>1. CASE Elapse
    BY <2>1 DEF Elapse
  <2>2. CASE InvokeCase \/ Pass \/ Confirm \/ Reduce \/ Save \/ EndCampaign \/ ReadSource \/ AppendTests
               \/ EditTests \/ UNCHANGED campaignVars
    BY <2>2 DEF InvokeCase, Pass, Confirm, Reduce, Save, EndCampaign, ReadSource, AppendTests, EditTests,
                campaignVars, loopVars
  <2>3. QED
    BY <2>1, <2>2 DEF CampaignNext
<1>2. QED
  BY <1>1 DEF Timely, Deterministic

(* A case that is not confirmed has nothing to confirm, while there is time *)
(* and the harness answers alike.                                           *)
LEMMA NothingToConfirm ==
  CampaignTypeOK /\ CaseOK /\ Timely /\ (Pass \/ (Confirm /\ phase' # "reduce"))
    => outcome.verdict = "passed" /\ new = {}
<1> SUFFICES ASSUME CampaignTypeOK, CaseOK, Timely, Pass \/ (Confirm /\ phase' # "reduce")
             PROVE  outcome.verdict = "passed" /\ new = {}
  OBVIOUS
<1>1. CASE Pass
  BY <1>1 DEF Pass, MayConfirm, Interesting, Timely
<1>2. CASE Confirm /\ phase' # "reduce"
  <2>1. PICK o \in harness[input] : ~Confirmed(o)
    BY <1>2 DEF Confirm
  <2>2. outcome \in harness[input] /\ new \subseteq outcome.hits
    BY <1>2 DEF CaseOK, Judging, Confirm
  <2>3. harness[input] \subseteq Outcomes /\ input \in Inputs
    BY OutcomesOfHarness DEF CampaignTypeOK
  <2>4. o = outcome
    BY <2>1, <2>2, <2>3 DEF Timely, Deterministic
  <2>5. QED
    BY <2>1, <2>2, <2>4 DEF Confirmed
<1>3. QED
  BY <1>1, <1>2

LEMMA LossPreserved ==
  CampaignTypeOK /\ CaseOK /\ SeenOK /\ NothingIsLost /\ [CampaignNext]_campaignVars
    => SeenOK' /\ NothingIsLost'
<1> SUFFICES ASSUME CampaignTypeOK, CaseOK, SeenOK, NothingIsLost, [CampaignNext]_campaignVars, Timely'
             PROVE  /\ \A p \in seen' : Reached(p)' \/ (Judging' /\ p \in new')
                    /\ \A k \in DOMAIN cases' :
                         /\ \A p \in cases'[k].outcome.hits : Reached(p)'
                         /\ cases'[k].outcome.verdict # "passed"
                              => \E j \in DOMAIN kept' : kept'[j].verdict = cases'[k].outcome.verdict
  BY DEF SeenOK, NothingIsLost, Timely, Reached
<1>1. CASE RunAgain
  BY <1>1 DEF RunAgain, Fresh
<1> SUFFICES ASSUME ~RunAgain PROVE  /\ \A p \in seen' : Reached(p)' \/ (Judging' /\ p \in new')
                    /\ \A k \in DOMAIN cases' :
                         /\ \A p \in cases'[k].outcome.hits : Reached(p)'
                         /\ cases'[k].outcome.verdict # "passed"
                              => \E j \in DOMAIN kept' : kept'[j].verdict = cases'[k].outcome.verdict
  BY <1>1
<1>2. Timely
  BY TimelyBefore
<1>3. \A p \in seen : Reached(p) \/ (Judging /\ p \in new)
  BY <1>2 DEF SeenOK
<1>4. \A k \in DOMAIN cases :
        /\ \A p \in cases[k].outcome.hits : Reached(p)
        /\ cases[k].outcome.verdict # "passed" => \E j \in DOMAIN kept : kept[j].verdict = cases[k].outcome.verdict
  BY <1>2 DEF NothingIsLost, Timely, Reached
<1>5. CASE InvokeCase
  BY <1>3, <1>4, <1>5 DEF InvokeCase, Judging, Reached
<1>6. CASE Pass \/ (Confirm /\ phase' # "reduce")
  <2>1. outcome.verdict = "passed" /\ new = {}
    BY <1>2, <1>6, NothingToConfirm
  <2>2. UNCHANGED <<seen, new, kept>> /\ Judging /\ Keep
    BY <1>6 DEF Pass, Confirm, Judging
  <2>3. \A p \in seen : Reached(p)
    BY <1>3, <2>1
  <2>4. cases \in Seq(CaseRecords) /\ cases' = Append(cases, [input |-> input, outcome |-> outcome])
    BY <2>2 DEF CampaignTypeOK, Keep
  <2>5. outcome.hits \subseteq seen
    BY <2>2 DEF CaseOK
  <2>6. ASSUME NEW k \in DOMAIN cases' PROVE (k \in DOMAIN cases /\ cases'[k] = cases[k]) \/ cases'[k].outcome = outcome
    BY <2>4
  <2>7. QED
    BY <1>4, <2>1, <2>2, <2>3, <2>5, <2>6 DEF Reached
<1>7. CASE Save
  <2> DEFINE d == [input |-> best, verdict |-> outcome.verdict, new |-> new]
  <2>1. kept \in Seq(Discoveries) /\ kept' = Append(kept, d) /\ UNCHANGED <<seen, new>> /\ Judging /\ Keep
    BY <1>7 DEF CampaignTypeOK, Save, Judging
  <2>2. Len(kept) + 1 \in DOMAIN kept' /\ kept'[Len(kept) + 1] = d /\ \A j \in DOMAIN kept : j \in DOMAIN kept' /\ kept'[j] = kept[j]
    BY <2>1
  <2>3. \A p \in seen : Reached(p)'
    BY <1>3, <2>2 DEF Reached
  <2>4. cases \in Seq(CaseRecords) /\ cases' = Append(cases, [input |-> input, outcome |-> outcome])
    BY <2>1 DEF CampaignTypeOK, Keep
  <2>5. outcome.hits \subseteq seen
    BY <2>1 DEF CaseOK
  <2>6. ASSUME NEW k \in DOMAIN cases' PROVE (k \in DOMAIN cases /\ cases'[k] = cases[k]) \/ cases'[k].outcome = outcome
    BY <2>4
  <2>7. \A p : Reached(p) => Reached(p)'
    BY <2>2 DEF Reached
  <2>8. d.verdict = outcome.verdict
    OBVIOUS
  <2> HIDE DEF d
  <2>9. ASSUME NEW k \in DOMAIN cases', cases'[k].outcome.verdict # "passed"
        PROVE  \E j \in DOMAIN kept' : kept'[j].verdict = cases'[k].outcome.verdict
    BY <1>4, <2>2, <2>6, <2>8, <2>9
  <2>10. ASSUME NEW k \in DOMAIN cases', NEW p \in cases'[k].outcome.hits PROVE Reached(p)'
    BY <1>4, <2>3, <2>5, <2>6, <2>7
  <2>11. QED
    BY <2>1, <2>3, <2>9, <2>10
<1>8. CASE Elapse \/ (Confirm /\ phase' = "reduce") \/ Reduce \/ EndCampaign \/ ReadSource \/ AppendTests
             \/ EditTests \/ UNCHANGED campaignVars
  <2>1. UNCHANGED <<seen, new, kept, cases>> /\ Judging' = Judging
    BY <1>8 DEF Elapse, Confirm, Keep, Reduce, EndCampaign, ReadSource, AppendTests, EditTests, campaignVars, loopVars,
                Judging
  <2>2. QED
    BY <1>3, <1>4, <2>1 DEF Reached
<1>9. QED
  BY <1>5, <1>6, <1>7, <1>8 DEF CampaignNext

-----------------------------------------------------------------------------
(* The theorems                                                             *)

LEMMA CampaignInit_Inv == CampaignInit => CampaignInv
<1> SUFFICES ASSUME CampaignInit PROVE CampaignInv
  OBVIOUS
<1>1. CampaignTypeOK
  BY TypeInit
<1>2. IsInjective(source.tests) /\ snapshot = source /\ original = source
  BY EmptyIsInjective DEF CampaignInit
<1>3. QED
  BY <1>1, <1>2 DEF CampaignInit, CampaignInv, CaseOK, BestOK, Judging, KeptReproduces, SeenOK, NothingIsLost, FilesOK

LEMMA CampaignInv_Step == CampaignInv /\ [CampaignNext]_campaignVars => CampaignInv'
  BY TypePreserved, CasePreserved, KeptPreserved, LossPreserved, FilesPreserved DEF CampaignInv

(* The inductive invariant holds: while a case is judged, what it reached   *)
(* is kept or is its own, and no file has a test twice.                     *)
THEOREM CampaignInvariance == CampaignSpec => []CampaignInv
  BY CampaignInit_Inv, CampaignInv_Step, PTL DEF CampaignSpec

(* The variables of a campaign keep their types (run and persist).          *)
THEOREM CampaignTypeCorrect == CampaignSpec => []CampaignTypeOK
<1>1. CampaignInv => CampaignTypeOK
  BY DEF CampaignInv
<1>2. QED
  BY <1>1, CampaignInvariance, PTL

(* What run keeps, although reduced to another input, fails or reaches as   *)
(* it was found to, whatever the harness answers and when time runs out.    *)
THEOREM CampaignReproduces == CampaignSpec => []KeptReproduces
<1>1. CampaignInv => KeptReproduces
  BY DEF CampaignInv
<1>2. QED
  BY <1>1, CampaignInvariance, PTL

(* A deterministic harness and enough time lose nothing that run has seen.  *)
THEOREM CampaignLosesNothing == CampaignSpec => []NothingIsLost
<1>1. CampaignInv => NothingIsLost
  BY DEF CampaignInv
<1>2. QED
  BY <1>1, CampaignInvariance, PTL

(* persist appends a regression test once, however many campaigns find it,  *)
(* and whatever the user removes or edits between them.                     *)
THEOREM TestsAreAppendedOnce == CampaignSpec => []AppendedOnce
<1>1. CampaignInv => AppendedOnce
  BY DEF CampaignInv, FilesOK, AppendedOnce
<1>2. QED
  BY <1>1, CampaignInvariance, PTL

-----------------------------------------------------------------------------
(* HitCounters                                                              *)

(* The inductive invariant.  Passed(v, i): the slots that a probe for v has *)
(* looked at when it comes to i.  What stands in them stays, and is not v,  *)
(* so that v can only be in one slot: the first of its probe that was free. *)
OpenSlots == 1 .. SlotCount - 1

Passed(v, i) ==
  {j \in OpenSlots : IF HomeSlot(v) <= i THEN HomeSlot(v) <= j /\ j < i ELSE HomeSlot(v) <= j \/ j < i}

Others(table, v, S) == \A j \in S : table[j] # 0 /\ table[j] # v

\* Where a probe is after n slots: as far from its home, around the end.
Reaches(v, i, n) ==
  IF HomeSlot(v) <= i THEN n = i - HomeSlot(v) + 1 ELSE n = i - HomeSlot(v) + SlotCount

ProbeOK(h) ==
  LET c == hit[h] IN
  c # NoHit =>
    /\ c.value \in Identities
    /\ c.value = 0 => c.slot = 0 /\ c.found /\ c.probes < SlotCount
    /\ c.value # 0 =>
         /\ c.slot \in OpenSlots
         /\ c.found => identity[c.slot] = c.value
         /\ c.probes < SlotCount => Reaches(c.value, c.slot, c.probes) /\ Others(identity, c.value, Passed(c.value, c.slot))
         /\ c.probes >= SlotCount => ~c.found /\ Others(identity, c.value, OpenSlots)

TableOK ==
  /\ identity[0] = 0
  /\ \A i \in OpenSlots : identity[i] # 0 => identity[i] \in Identities /\ Others(identity, identity[i], Passed(identity[i], i))

TallyOK ==
  /\ 0 \in Identities => tally[0] = counted[0]
  /\ \A i \in OpenSlots : tally[i] = IF identity[i] = 0 THEN 0 ELSE counted[identity[i]]
  /\ \A v \in Identities \ {0} : (\A i \in OpenSlots : identity[i] # v) => counted[v] = 0

FateOK ==
  IF fate = "full" THEN \E h \in Hitters : hit[h] # NoHit /\ hit[h].probes >= SlotCount
                   ELSE \A h \in Hitters : hit[h].probes < SlotCount

CountersIndInv == CountersTypeOK /\ (\A h \in Hitters : ProbeOK(h)) /\ TableOK /\ TallyOK /\ FateOK

-----------------------------------------------------------------------------
LEMMA HomeIsOpen ==
  ASSUME NEW v \in Identities, v # 0
  PROVE  HomeSlot(v) \in OpenSlots
<1>1. v \in Nat /\ SlotCount - 1 \in Nat /\ SlotCount - 1 > 0 BY HitCountersAssumption
<1>2. v % (SlotCount - 1) \in 0 .. SlotCount - 2 BY <1>1, HitCountersAssumption
<1> QED BY <1>2, HitCountersAssumption DEF HomeSlot, OpenSlots

\* Of two slots, a probe passes one before it comes to the other.
LEMMA OnePassesTheOther ==
  ASSUME NEW v \in Identities, v # 0, NEW i \in OpenSlots, NEW j \in OpenSlots, i # j
  PROVE  i \in Passed(v, j) \/ j \in Passed(v, i)
BY HomeIsOpen, HitCountersAssumption DEF Passed, OpenSlots

\* A point has one slot.
LEMMA OneSlot ==
  ASSUME CountersTypeOK, TableOK, NEW i \in OpenSlots, NEW j \in OpenSlots, identity[i] # 0, identity[i] = identity[j]
  PROVE  i = j
BY OnePassesTheOther DEF TableOK, Others

\* The next slot has passed one more, and the last probe has passed all.
LEMMA PassesOneMore ==
  ASSUME NEW v \in Identities, v # 0, NEW i \in OpenSlots, NEW n \in Nat, Reaches(v, i, n), n < SlotCount
  PROVE  /\ NextSlot(i) \in OpenSlots
         /\ n + 1 < SlotCount => /\ Reaches(v, NextSlot(i), n + 1)
                                 /\ Passed(v, NextSlot(i)) = Passed(v, i) \cup {i}
         /\ n + 1 >= SlotCount => OpenSlots = Passed(v, i) \cup {i}
<1>1. HomeSlot(v) \in OpenSlots BY HomeIsOpen
<1>2. NextSlot(i) \in OpenSlots BY HitCountersAssumption DEF NextSlot, OpenSlots
<1>3. ASSUME n + 1 < SlotCount
      PROVE  Reaches(v, NextSlot(i), n + 1) /\ Passed(v, NextSlot(i)) = Passed(v, i) \cup {i}
  BY <1>1, <1>3, HitCountersAssumption DEF NextSlot, OpenSlots, Reaches, Passed
<1>4. ASSUME n + 1 >= SlotCount
      PROVE  OpenSlots = Passed(v, i) \cup {i}
  BY <1>1, <1>4, HitCountersAssumption DEF OpenSlots, Reaches, Passed
<1> QED BY <1>2, <1>3, <1>4
-----------------------------------------------------------------------------
LEMMA CountersStart == CountersInit => CountersIndInv
<1> SUFFICES ASSUME CountersInit PROVE CountersIndInv OBVIOUS
<1> USE HitCountersAssumption
<1>1. CountersTypeOK BY DEF CountersInit, CountersTypeOK, TableSlots, NoHit
<1>2. \A h \in Hitters : ProbeOK(h) BY DEF CountersInit, ProbeOK
<1>3. TableOK BY DEF CountersInit, TableOK, TableSlots, OpenSlots
<1>4. TallyOK BY DEF CountersInit, TallyOK, TableSlots, OpenSlots
<1>5. FateOK BY DEF CountersInit, FateOK, NoHit
<1> QED BY <1>1, <1>2, <1>3, <1>4, <1>5 DEF CountersIndInv

\* Nothing that a probe or the table relies on changes.
LEMMA TableStays ==
  ASSUME CountersIndInv, UNCHANGED <<identity, tally, counted>>
  PROVE  TableOK' /\ TallyOK'
BY DEF CountersIndInv, TableOK, TallyOK, Others

LEMMA CallKeeps ==
  ASSUME CountersIndInv, NEW h \in Hitters, NEW v \in Identities, CallHit(h, v)
  PROVE  CountersIndInv'
<1> USE HitCountersAssumption
<1>1. v # 0 => HomeSlot(v) \in OpenSlots BY HomeIsOpen
<1>2. HomeSlot(v) \in TableSlots BY <1>1 DEF HomeSlot, OpenSlots, TableSlots
<1>3. CountersTypeOK'
  BY <1>2 DEF CountersIndInv, CountersTypeOK, CallHit, Hit, NoHit
<1>4. ASSUME NEW g \in Hitters PROVE ProbeOK(g)'
  <2>1. CASE g # h
    <3>1. hit'[g] = hit[g] BY <2>1 DEF CountersIndInv, CountersTypeOK, CallHit
    <3> QED BY <3>1 DEF CountersIndInv, ProbeOK, CallHit, Others
  <2>2. CASE g = h
    <3>1. hit'[g] = Hit(v, HomeSlot(v), 1, v = 0) BY <2>2 DEF CountersIndInv, CountersTypeOK, CallHit
    <3>2. v # 0 => Passed(v, HomeSlot(v)) = {} /\ Reaches(v, HomeSlot(v), 1)
      BY <1>1 DEF Passed, OpenSlots, Reaches
    <3>3. /\ hit'[g].value = v /\ hit'[g].slot = HomeSlot(v)
          /\ hit'[g].probes = 1 /\ hit'[g].found = (v = 0)
      BY <3>1 DEF Hit
    <3>4. CASE v = 0 BY <3>3, <3>4 DEF ProbeOK, HomeSlot
    <3>5. CASE v # 0
      <4>1. ~hit'[g].found BY <3>3, <3>5
      <4>2. Others(identity', v, Passed(v, HomeSlot(v))) BY <3>2, <3>5 DEF Others
      <4> QED BY <1>1, <3>2, <3>3, <3>5, <4>1, <4>2 DEF ProbeOK
    <3> QED BY <3>4, <3>5
  <2> QED BY <2>1, <2>2
<1>5. FateOK' BY DEF CountersIndInv, CountersTypeOK, FateOK, CallHit, Hit
<1>6. TableOK' /\ TallyOK' BY TableStays DEF CallHit
<1> QED BY <1>3, <1>4, <1>5, <1>6 DEF CountersIndInv

\* Those that change the file or the fate alone.
LEMMA InitializeKeeps ==
  ASSUME CountersIndInv, Initialize \/ InitializeFails \/ ProgramEnds
  PROVE  CountersIndInv'
<1>1. UNCHANGED <<identity, tally, hit, begun, counted>> BY DEF Initialize, InitializeFails, ProgramEnds
<1>2. (fate' # "full" /\ fate # "full") \/ UNCHANGED fate BY DEF Initialize, InitializeFails, ProgramEnds, Counting
<1>3. CountersTypeOK'
  BY <1>1 DEF CountersIndInv, CountersTypeOK, Initialize, InitializeFails, ProgramEnds, Following
<1>4. \A h \in Hitters : ProbeOK(h)' BY <1>1 DEF CountersIndInv, ProbeOK, Others
<1>5. FateOK' BY <1>1, <1>2 DEF CountersIndInv, FateOK
<1>6. TableOK' /\ TallyOK' BY <1>1, TableStays
<1> QED BY <1>3, <1>4, <1>5, <1>6 DEF CountersIndInv

Calls == [value : Identities \cup {0}, slot : TableSlots, probes : 0 .. SlotCount, found : BOOLEAN]

\* A thread that probes or adds is in a call.
LEMMA InCall ==
  ASSUME CountersIndInv, NEW h \in Hitters, Counting(h)
  PROVE  /\ hit[h].value \in Identities /\ hit[h].slot \in TableSlots
         /\ hit[h].probes \in Nat /\ hit[h].probes < SlotCount
         /\ hit \in [Hitters -> Calls] /\ hit[h] \in Calls
         /\ ~hit[h].found => hit[h].value # 0
         /\ hit[h].value = 0 => hit[h].slot = 0
         /\ hit[h].value # 0 =>
              /\ hit[h].slot \in OpenSlots
              /\ Reaches(hit[h].value, hit[h].slot, hit[h].probes)
              /\ Others(identity, hit[h].value, Passed(hit[h].value, hit[h].slot))
              /\ hit[h].found => identity[hit[h].slot] = hit[h].value
BY HitCountersAssumption DEF CountersIndInv, CountersTypeOK, Counting, ProbeOK, FateOK, Calls

LEMMA AddKeeps ==
  ASSUME CountersIndInv, NEW h \in Hitters, Add(h)
  PROVE  CountersIndInv'
<1> DEFINE v == hit[h].value
           s == hit[h].slot
<1> USE HitCountersAssumption
<1>1. /\ Counting(h) /\ hit[h].found
      /\ tally' = [tally EXCEPT ![s] = @ + 1]
      /\ counted' = [counted EXCEPT ![v] = @ + 1]
      /\ hit' = [hit EXCEPT ![h] = NoHit]
      /\ UNCHANGED <<file, identity, begun, fate>>
  BY DEF Add
<1>2. /\ v \in Identities /\ s \in TableSlots
      /\ v = 0 => s = 0
      /\ v # 0 => s \in OpenSlots /\ identity[s] = v
  BY <1>1, InCall
<1>3. CountersTypeOK'
  <2>1. NoHit \in Calls BY DEF NoHit, Calls, TableSlots
  <2>2. hit' \in [Hitters -> Calls] BY <1>1, <2>1, InCall
  <2>3. tally[s] \in Nat /\ counted[v] \in Nat BY <1>2 DEF CountersIndInv, CountersTypeOK
  <2>4. tally' \in [TableSlots -> Nat] BY <1>1, <1>2, <2>3 DEF CountersIndInv, CountersTypeOK
  <2>5. counted' \in [Identities -> Nat] BY <1>1, <1>2, <2>3 DEF CountersIndInv, CountersTypeOK
  <2> QED BY <1>1, <2>2, <2>4, <2>5 DEF CountersIndInv, CountersTypeOK, Calls
<1>4. ASSUME NEW g \in Hitters PROVE ProbeOK(g)'
  <2>1. CASE g # h
    <3>1. hit'[g] = hit[g] BY <1>1, <2>1 DEF CountersIndInv, CountersTypeOK
    <3> QED BY <1>1, <3>1 DEF CountersIndInv, ProbeOK, Others
  <2>2. CASE g = h BY <1>1, <2>2 DEF CountersIndInv, CountersTypeOK, ProbeOK
  <2> QED BY <2>1, <2>2
<1>5. TableOK' BY <1>1 DEF CountersIndInv, TableOK, Others
<1>6. TallyOK'
  <2>1. 0 \in Identities => tally'[0] = counted'[0]
    BY <1>1, <1>2 DEF CountersIndInv, CountersTypeOK, TallyOK, TableSlots, OpenSlots
  <2>2. ASSUME NEW i \in OpenSlots
        PROVE  tally'[i] = IF identity'[i] = 0 THEN 0 ELSE counted'[identity'[i]]
    <3>1. i = s <=> identity[i] = v /\ v # 0
      BY <1>2, OneSlot DEF CountersIndInv, OpenSlots
    <3>2. tally[i] = IF identity[i] = 0 THEN 0 ELSE counted[identity[i]] BY DEF CountersIndInv, TallyOK
    <3>3. identity[i] # 0 => identity[i] \in Identities BY DEF CountersIndInv, TableOK
    <3>4. i \in TableSlots BY DEF OpenSlots, TableSlots
    <3> QED BY <1>1, <1>2, <3>1, <3>2, <3>3, <3>4 DEF CountersIndInv, CountersTypeOK
  <2>3. ASSUME NEW w \in Identities \ {0}, \A i \in OpenSlots : identity'[i] # w
        PROVE  counted'[w] = 0
    BY <1>1, <1>2, <2>3 DEF CountersIndInv, CountersTypeOK, TallyOK
  <2> QED BY <2>1, <2>2, <2>3 DEF TallyOK
<1>7. FateOK'
  <2>1. fate # "full" /\ fate' = fate BY <1>1 DEF Counting
  <2>2. ASSUME NEW g \in Hitters PROVE hit'[g].probes < SlotCount
    BY <1>1, <2>1 DEF CountersIndInv, CountersTypeOK, FateOK, NoHit
  <2> QED BY <2>1, <2>2 DEF FateOK
<1> QED BY <1>3, <1>4, <1>5, <1>6, <1>7 DEF CountersIndInv

\* The probe that takes a slot, or finds the point there.
LEMMA TakeKeeps ==
  ASSUME CountersIndInv, NEW h \in Hitters, Probe(h), Owns(hit[h].value, hit[h].slot)
  PROVE  CountersIndInv'
<1> DEFINE v == hit[h].value
           s == hit[h].slot
<1> USE HitCountersAssumption
<1>1. /\ Counting(h) /\ ~hit[h].found
      /\ identity' = [identity EXCEPT ![s] = v]
      /\ hit' = [hit EXCEPT ![h].found = TRUE]
      /\ UNCHANGED <<file, tally, begun, counted, fate>>
  BY DEF Probe
<1>2. /\ v \in Identities /\ v # 0 /\ s \in OpenSlots /\ s \in TableSlots
      /\ Reaches(v, s, hit[h].probes) /\ Others(identity, v, Passed(v, s))
      /\ hit[h].probes \in Nat /\ hit[h].probes < SlotCount
  BY <1>1, InCall
<1>3. identity[s] \in {0, v} BY DEF Owns
<1>4. identity' \in [TableSlots -> Identities \cup {0}] /\ identity'[s] = v
      /\ \A i \in TableSlots : i # s => identity'[i] = identity[i]
  BY <1>1, <1>2 DEF CountersIndInv, CountersTypeOK
\* A slot that was taken keeps its point.
<1>5. \A i \in TableSlots : identity[i] # 0 => identity'[i] = identity[i] BY <1>3, <1>4
<1>6. \A w, S : S \subseteq OpenSlots /\ Others(identity, w, S) => Others(identity', w, S)
  BY <1>5 DEF Others, OpenSlots, TableSlots
<1>7. \A w, i : Passed(w, i) \subseteq OpenSlots BY DEF Passed
<1>8. CountersTypeOK'
  <2>1. hit' \in [Hitters -> Calls] BY <1>1, InCall DEF Calls
  <2> QED BY <1>1, <1>4, <2>1 DEF CountersIndInv, CountersTypeOK, Calls
<1>9. ASSUME NEW g \in Hitters PROVE ProbeOK(g)'
  <2>1. CASE g # h
    <3>1. hit'[g] = hit[g] BY <1>1, <2>1 DEF CountersIndInv, CountersTypeOK
    <3>2. ProbeOK(g) BY DEF CountersIndInv
    <3>3. OpenSlots \subseteq TableSlots BY DEF OpenSlots, TableSlots
    <3> QED BY <1>5, <1>6, <1>7, <3>1, <3>2, <3>3 DEF ProbeOK
  <2>2. CASE g = h
    <3>1. /\ hit'[h].value = v /\ hit'[h].slot = s /\ hit'[h].found
          /\ hit'[h].probes = hit[h].probes
      BY <1>1 DEF CountersIndInv, CountersTypeOK
    <3> QED BY <1>2, <1>4, <1>6, <1>7, <2>2, <3>1 DEF ProbeOK
  <2> QED BY <2>1, <2>2
<1>10. TableOK'
  <2>1. identity'[0] = 0 BY <1>2, <1>4 DEF CountersIndInv, TableOK, OpenSlots, TableSlots
  <2>2. ASSUME NEW i \in OpenSlots, identity'[i] # 0
        PROVE  identity'[i] \in Identities /\ Others(identity', identity'[i], Passed(identity'[i], i))
    <3>1. CASE i = s BY <1>2, <1>4, <1>6, <1>7, <3>1
    <3>2. CASE i # s
      <4>1. identity'[i] = identity[i] BY <1>4, <3>2 DEF OpenSlots, TableSlots
      <4>2. identity[i] \in Identities /\ Others(identity, identity[i], Passed(identity[i], i))
        BY <2>2, <4>1 DEF CountersIndInv, TableOK
      <4> QED BY <1>6, <1>7, <4>1, <4>2
    <3> QED BY <3>1, <3>2
  <2> QED BY <2>1, <2>2 DEF TableOK
<1>11. TallyOK'
  \* A point that takes a slot has no other, and was not counted before.
  <2>1. identity[s] = 0 => \A i \in OpenSlots : identity[i] # v
    <3> SUFFICES ASSUME identity[s] = 0, NEW i \in OpenSlots, identity[i] = v PROVE FALSE
      OBVIOUS
    <3>1. i # s BY <1>2
    <3>2. i \notin Passed(v, s) BY <1>2 DEF Others
    <3>3. s \notin Passed(v, i) BY <1>2 DEF CountersIndInv, TableOK, Others
    <3> QED BY <1>2, <3>1, <3>2, <3>3, OnePassesTheOther
  <2>2. identity[s] = 0 => counted[v] = 0 BY <1>2, <2>1 DEF CountersIndInv, TallyOK
  <2>3. ASSUME NEW i \in OpenSlots
        PROVE  tally[i] = IF identity'[i] = 0 THEN 0 ELSE counted[identity'[i]]
    <3>1. tally[i] = IF identity[i] = 0 THEN 0 ELSE counted[identity[i]] BY DEF CountersIndInv, TallyOK
    <3>2. CASE i = s BY <1>2, <1>3, <1>4, <2>2, <3>1, <3>2
    <3>3. CASE i # s BY <1>4, <3>1, <3>3 DEF OpenSlots, TableSlots
    <3> QED BY <3>2, <3>3
  <2>4. ASSUME NEW w \in Identities \ {0}, \A i \in OpenSlots : identity'[i] # w
        PROVE  counted[w] = 0
    BY <1>5, <2>4 DEF CountersIndInv, TallyOK, OpenSlots, TableSlots
  <2> QED BY <1>1, <2>3, <2>4 DEF TallyOK, CountersIndInv
<1>12. FateOK'
  <2>1. fate' # "full" /\ \A g \in Hitters : hit[g].probes < SlotCount
    BY <1>1 DEF Counting, CountersIndInv, FateOK
  <2>2. \A g \in Hitters : hit'[g].probes = hit[g].probes BY <1>1, InCall DEF Calls
  <2> QED BY <2>1, <2>2 DEF FateOK
<1> QED BY <1>8, <1>9, <1>10, <1>11, <1>12 DEF CountersIndInv

\* The probe that finds another point there.
LEMMA PassKeeps ==
  ASSUME CountersIndInv, NEW h \in Hitters, Probe(h), ~Owns(hit[h].value, hit[h].slot)
  PROVE  CountersIndInv'
<1> DEFINE v == hit[h].value
           s == hit[h].slot
           n == hit[h].probes
<1> USE HitCountersAssumption
<1>1. /\ Counting(h) /\ ~hit[h].found
      /\ hit' = [hit EXCEPT ![h].slot = NextSlot(@), ![h].probes = @ + 1]
      /\ fate' = IF LastProbe(n) THEN "full" ELSE fate
      /\ UNCHANGED <<file, identity, tally, begun, counted>>
  BY DEF Probe
<1>2. /\ v \in Identities /\ v # 0 /\ s \in OpenSlots
      /\ Reaches(v, s, n) /\ Others(identity, v, Passed(v, s)) /\ n \in Nat /\ n < SlotCount
  BY <1>1, InCall
<1>3. identity[s] # 0 /\ identity[s] # v BY DEF Owns
<1>4. /\ NextSlot(s) \in OpenSlots
      /\ n + 1 < SlotCount => Reaches(v, NextSlot(s), n + 1) /\ Passed(v, NextSlot(s)) = Passed(v, s) \cup {s}
      /\ n + 1 >= SlotCount => OpenSlots = Passed(v, s) \cup {s}
  BY <1>2, PassesOneMore
<1>5. /\ hit'[h].value = v /\ hit'[h].slot = NextSlot(s) /\ hit'[h].probes = n + 1
      /\ hit'[h].found = hit[h].found
      /\ \A g \in Hitters : g # h => hit'[g] = hit[g]
  BY <1>1 DEF CountersIndInv, CountersTypeOK
<1>6. NextSlot(s) \in TableSlots BY <1>4 DEF OpenSlots, TableSlots
<1>7. CountersTypeOK' BY <1>1, <1>2, <1>6 DEF CountersIndInv, CountersTypeOK
<1>8. Others(identity, v, Passed(v, s) \cup {s}) BY <1>1, <1>2, <1>3 DEF Others
<1>9. ASSUME NEW g \in Hitters PROVE ProbeOK(g)'
  <2>1. CASE g # h
    <3>1. hit'[g] = hit[g] /\ identity' = identity BY <1>1, <1>5, <2>1
    <3>2. ProbeOK(g) BY DEF CountersIndInv
    <3> QED BY <3>1, <3>2 DEF ProbeOK, Others
  <2>2. CASE g = h BY <1>1, <1>2, <1>4, <1>5, <1>8, <2>2 DEF ProbeOK
  <2> QED BY <2>1, <2>2
<1>10. FateOK'
  <2>1. fate # "full" /\ \A g \in Hitters : hit[g].probes < SlotCount
    BY <1>1 DEF Counting, CountersIndInv, FateOK
  <2>2. CASE LastProbe(n)
    <3>1. hit'[h].probes >= SlotCount /\ hit'[h] # NoHit BY <1>2, <1>5, <2>2 DEF LastProbe, NoHit
    <3> QED BY <1>1, <2>2, <3>1 DEF FateOK
  <2>3. CASE ~LastProbe(n)
    <3>1. hit'[h].probes < SlotCount BY <1>2, <1>5, <2>3 DEF LastProbe
    <3> QED BY <1>1, <1>5, <2>1, <2>3, <3>1 DEF FateOK
  <2> QED BY <2>2, <2>3
<1>11. TableOK' /\ TallyOK' BY <1>1, TableStays
<1> QED BY <1>7, <1>9, <1>10, <1>11 DEF CountersIndInv

-----------------------------------------------------------------------------
LEMMA CountersKeep == CountersIndInv /\ [CountersNext]_countersVars => CountersIndInv'
<1> SUFFICES ASSUME CountersIndInv, [CountersNext]_countersVars PROVE CountersIndInv'
  OBVIOUS
<1>1. ASSUME NEW h \in Hitters, NEW v \in Identities, CallHit(h, v) PROVE CountersIndInv' BY <1>1, CallKeeps
<1>2. ASSUME NEW h \in Hitters, Probe(h) PROVE CountersIndInv' BY <1>2, TakeKeeps, PassKeeps
<1>3. ASSUME NEW h \in Hitters, Add(h) PROVE CountersIndInv' BY <1>3, AddKeeps
<1>4. CASE Initialize \/ InitializeFails \/ ProgramEnds BY <1>4, InitializeKeeps
<1>5. CASE UNCHANGED countersVars
  BY <1>5 DEF countersVars, CountersIndInv, CountersTypeOK, ProbeOK, TableOK, TallyOK, FateOK, Others
<1> QED BY <1>1, <1>2, <1>3, <1>4, <1>5 DEF CountersNext

(* The invariant of the table and of the probes holds in every state, for   *)
(* any number of threads and slots, and wherever the points hash to.        *)
THEOREM CountersInvariance == CountersSpec => []CountersIndInv
<1> QED BY CountersStart, CountersKeep, PTL DEF CountersSpec

(* The counters stay well typed: no probe leaves the table.                 *)
THEOREM CountersTypeCorrect == CountersSpec => []CountersTypeOK
<1>1. CountersIndInv => CountersTypeOK BY DEF CountersIndInv
<1> QED BY <1>1, CountersInvariance, PTL

\* What the reader finds for a point.
LEMMA ReadsItsSlot ==
  ASSUME CountersIndInv, file = "ready", NEW v \in Identities
  PROVE  ReadHits(v) = counted[v]
<1> USE HitCountersAssumption
<1>1. CASE v = 0
  <2>1. \A i \in OpenSlots : identity[i] = 0 => tally[i] = 0 BY DEF CountersIndInv, TallyOK
  <2>2. identity[0] = 0 /\ tally[0] = counted[0] /\ counted[0] \in Nat /\ 0 \in TableSlots
    BY <1>1 DEF CountersIndInv, CountersTypeOK, TableOK, TallyOK, TableSlots
  <2>3. TableSlots = OpenSlots \cup {0} BY DEF OpenSlots, TableSlots
  <2>4. tally[0] = 0 => SlotsOf(0) = {} BY <2>1, <2>3 DEF SlotsOf
  <2>5. tally[0] # 0 => SlotsOf(0) = {0} BY <2>1, <2>2, <2>3 DEF SlotsOf
  <2>6. LastOf({0}) = 0 BY DEF LastOf
  <2> QED BY <1>1, <2>2, <2>4, <2>5, <2>6 DEF ReadHits
<1>2. CASE v # 0 /\ \A i \in OpenSlots : identity[i] # v
  <2>1. counted[v] = 0 BY <1>2 DEF CountersIndInv, TallyOK
  <2>2. SlotsOf(v) = {} BY <1>2 DEF SlotsOf, CountersIndInv, TableOK, OpenSlots, TableSlots
  <2> QED BY <2>1, <2>2 DEF ReadHits
<1>3. CASE v # 0 /\ \E i \in OpenSlots : identity[i] = v
  <2>1. PICK i \in OpenSlots : identity[i] = v BY <1>3
  <2>2. i \in TableSlots /\ i \in Int BY DEF OpenSlots, TableSlots
  <2>3. \A j \in TableSlots : identity[j] = v => j = i
    BY <1>3, <2>1, OneSlot DEF CountersIndInv, TableOK, OpenSlots, TableSlots
  <2>4. tally[i] = counted[v] /\ counted[v] \in Nat
    BY <1>3, <2>1 DEF CountersIndInv, CountersTypeOK, TallyOK
  <2>5. tally[i] = 0 => SlotsOf(v) = {} BY <2>3 DEF SlotsOf
  <2>6. tally[i] # 0 => SlotsOf(v) = {i}
    <3>1. tally[i] # 0 => tally[i] > 0 BY <2>4
    <3> QED BY <2>1, <2>2, <2>3, <3>1 DEF SlotsOf
  <2>7. LastOf({i}) = i BY <2>2 DEF LastOf
  <2> QED BY <2>4, <2>5, <2>6, <2>7 DEF ReadHits
<1> QED BY <1>1, <1>2, <1>3

(* What is read for a point is the number of its hits that were counted, in *)
(* whatever order the threads claim slots and add, and whenever the program *)
(* ends; and it stops for want of a slot only when all slots are taken by   *)
(* others.                                                                  *)
THEOREM NoHitIsLost == CountersSpec => []CountsAreExact
<1>1. CountersIndInv => ReadIsExact BY ReadsItsSlot DEF ReadIsExact
<1>2. CountersIndInv => StopsOnlyFull
  <2> SUFFICES ASSUME CountersIndInv, fate = "full"
               PROVE  \E h \in Hitters : /\ ~hit[h].found /\ hit[h] # NoHit
                                       /\ \A i \in TableSlots \ {0} : identity[i] \notin {0, hit[h].value}
    BY DEF StopsOnlyFull
  <2>1. PICK h \in Hitters : hit[h] # NoHit /\ hit[h].probes >= SlotCount BY DEF CountersIndInv, FateOK
  <2>2. ~hit[h].found /\ Others(identity, hit[h].value, OpenSlots)
    BY <2>1, HitCountersAssumption DEF CountersIndInv, CountersTypeOK, ProbeOK
  <2>3. TableSlots \ {0} = OpenSlots BY HitCountersAssumption DEF TableSlots, OpenSlots
  <2> QED BY <2>1, <2>2, <2>3 DEF Others
<1>3. CountersIndInv => CountsAreExact BY <1>1, <1>2 DEF CountsAreExact
<1> QED BY <1>3, CountersInvariance, PTL

-----------------------------------------------------------------------------
(* Executable                                                               *)

(* The inductive invariant.  It tells of each command what its memory has   *)
(* to do with its place, and what the files have to do with its memory.     *)
Checking == {"lookup", "resolve", "verify"}
CompilePlaces ==
  {"readMain", "readHelper", "checkHelper", "rewriteHelper", "import", "checkMain", "rewriteMain", "forget", "rehash"}
Finishing == {"link", "install", "readBack", "record"}
Positions == Over \cup {"hash", "run"} \cup Checking \cup CompilePlaces \cup Finishing

HasMain == (CompilePlaces \ {"readMain"}) \cup Finishing
HasHelper == HasMain \ {"readHelper"}
HelperSettled == HasHelper \ {"checkHelper", "rewriteHelper"}
MainSettled == {"forget", "rehash"} \cup Finishing
HasDependency == {"verify", "checkMain", "rewriteMain"} \cup MainSettled
Running(q) == at[q] \notin Over

\* The program that a command links.
Linked(q) == [f \in Parts |-> IF f = "dependency" THEN resolved[q] ELSE compiled[q][f].revision]

\* A record tells of the program what it is made of, and of texts after the lint.
Good(r) ==
  /\ \A f \in Sources : r.checksum[f] = r.sources[f].revision /\ ~r.sources[f].raw
  /\ r.checksum["dependency"] = r.dependency

\* What a command has at its place, whatever users do.
PlaceOK(q) ==
  /\ ~Running(q) => saved[q] = Nothing /\ hashed[q] = Unread /\ compiled[q] = Unread /\ resolved[q] = Nothing
  /\ at[q] \in {"hash", "readMain"} \cup Checking => compiled[q] = Unread
  /\ at[q] \in HasMain => compiled[q]["main"] # Nothing
  /\ at[q] \in HasHelper => compiled[q]["helper"] # Nothing
  /\ at[q] \in Checking \cup Finishing => \A f \in Sources : hashed[q][f] # Nothing
  /\ at[q] \in HasDependency => resolved[q] # Nothing
  /\ at[q] \in {"resolve", "verify"} => saved[q] # Nothing
  /\ at[q] \in {"install", "readBack", "record"} => built[q] # Nothing
  /\ at[q] = "record" => checksum[q] # Nothing
  /\ at[q] \in {"readBack", "record", "run"} => executable # Nothing
  /\ resolved[q] # Nothing => objects # Nothing

\* What a command has read, unless files are saved while it compiles.
ReadOK(q) ==
  /\ saved[q] # Nothing => Good(saved[q])
  /\ at[q] \in {"resolve", "verify"} => saved[q].sources = hashed[q]
  /\ at[q] \in {"rehash"} \cup Finishing =>
       \A f \in Sources : hashed[q][f] # Nothing => hashed[q][f] = Canonical(compiled[q][f])
  /\ at[q] \in {"install", "readBack", "record"} => built[q] = Linked(q)
  /\ at[q] = "record" => checksum[q] = built[q]
  /\ at[q] # "refused"

\* What it has read was on disk while it ran.
RecentOK(q) ==
  /\ \A f \in Sources : /\ hashed[q][f] # Nothing => hashed[q][f].revision \in recent[q][f]
                        /\ compiled[q][f] # Nothing => compiled[q][f].revision \in recent[q][f]
  /\ resolved[q] # Nothing => resolved[q] \in recent[q]["dependency"]
  /\ Running(q) => /\ \A f \in Sources : text[f].revision \in recent[q][f]
                   /\ dependency \in recent[q]["dependency"]
  /\ at[q] = "run" => \A f \in Parts : executable[f] \in recent[q][f]
  /\ at[q] = "ran" => \A f \in Parts : built[q][f] \in recent[q][f]

\* What it has read is on disk, as long as nobody edits.
StillOK(q) ==
  /\ at[q] \in CompilePlaces \/ habit = "crowded" =>
       /\ \A f \in Sources : compiled[q][f] # Nothing => text[f] \in {compiled[q][f], Canonical(compiled[q][f])}
       /\ at[q] \in HelperSettled => text["helper"] = Canonical(compiled[q]["helper"])
       /\ at[q] \in MainSettled => text["main"] = Canonical(compiled[q]["main"])
  /\ resolved[q] # Nothing => objects = resolved[q] /\ (habit = "crowded" => resolved[q] = dependency)
  /\ at[q] \in {"readBack", "record"} => executable = built[q]

Alone == habit # "crowded" => \A q, o \in Runners : Running(q) /\ Running(o) => q = o

TypeInv == ExecutableTypeOK /\ at \in [Runners -> Positions]

FaithfulInv ==
  /\ Alone
  /\ record # Nothing => Good(record)
  /\ \A q \in Runners : ReadOK(q) /\ RecentOK(q) /\ StillOK(q)

ExecutableInv ==
  /\ TypeInv
  /\ \A q \in Runners : PlaceOK(q)
  /\ habit # "hasty" => FaithfulInv

\* A step of the command q, and everything that belongs to q alone.
RunnerStep(q) ==
  \/ Begin(q) \/ Hash(q) \/ Lookup(q) \/ ResolveToReuse(q) \/ Verify(q)
  \/ ReadMain(q) \/ ReadHelper(q) \/ CheckHelper(q) \/ RewriteHelper(q) \/ ImportNew(q)
  \/ ImportKnown(q) \/ CheckMain(q) \/ RewriteMain(q) \/ Rehash(q) \/ HashAgain(q)
  \/ Diagnose(q) \/ Link(q) \/ PutExecutable(q) \/ ReadBack(q) \/ Record(q) \/ Run(q)
  \/ Stop(q)

Memory(q) == <<at[q], saved[q], hashed[q], compiled[q], resolved[q], built[q], checksum[q]>>

-----------------------------------------------------------------------------
(* Texts and files                                                          *)

LEMMA CanonicalTyped ==
  ASSUME NEW t \in Texts
  PROVE  /\ Canonical(t) \in Texts /\ Canonical(t).revision = t.revision /\ ~Canonical(t).raw
         /\ Canonical(Canonical(t)) = Canonical(t)
BY DEF Canonical, Texts

\* Nothing is none of the values it stands for the absence of.
LEMMA NothingElse ==
  /\ \A t \in Texts : t # Nothing
  /\ \A r \in Revisions : r # Nothing
  /\ \A p \in Programs : p # Nothing
  /\ \A r \in Records : r # Nothing
BY NothingAssumption

LEMMA FileToHash ==
  ASSUME NEW q \in Runners, \E f \in Sources : hashed[q][f] = Nothing
  PROVE  NextFile(q) \in Sources /\ hashed[q][NextFile(q)] = Nothing
<1>1. HashOrder[1] = "helper" /\ HashOrder[2] = "main" /\ DOMAIN HashOrder = {1, 2}
  BY DEF HashOrder
<1> DEFINE Next(i) == hashed[q][HashOrder[i]] = Nothing /\ \A j \in 1 .. i - 1 : hashed[q][HashOrder[j]] # Nothing
<1>2. \E i \in DOMAIN HashOrder : Next(i)
  <2>1. CASE hashed[q]["helper"] = Nothing
    BY <1>1, <2>1
  <2>2. CASE hashed[q]["helper"] # Nothing
    <3>1. hashed[q]["main"] = Nothing
      BY <2>2 DEF Sources
    <3>2. \A j \in 1 .. 2 - 1 : j = 1
      OBVIOUS
    <3>3. Next(2)
      BY <1>1, <2>2, <3>1, <3>2
    <3>4. QED
      BY <1>1, <3>3
  <2>3. QED
    BY <2>1, <2>2
<1> DEFINE i == CHOOSE k \in DOMAIN HashOrder : Next(k)
<1>3. i \in {1, 2} /\ Next(i)
  <2> HIDE DEF Next
  <2>1. QED
    BY <1>1, <1>2
<1>4. NextFile(q) = HashOrder[i]
  BY DEF NextFile
<1> HIDE DEF i
<1>5. QED
  BY <1>1, <1>3, <1>4 DEF Sources

\* A step of q does not touch what belongs to another command.
LEMMA OthersKeep ==
  ASSUME TypeInv, NEW q \in Runners, RunnerStep(q), NEW o \in Runners \ {q}
  PROVE  UNCHANGED Memory(o) /\ recent'[o] = recent[o] /\ habit' = habit /\ dependency' = dependency
<1> USE DEF Step, Forget, executableFiles, executableMemory, HashFile, Resolve, ReadFile, Fail, Refresh, Rewrite
<1>1. o # q
  OBVIOUS
<1>2. habit' = habit /\ dependency' = dependency
  BY DEF RunnerStep, Begin, Hash, Lookup, ResolveToReuse, Verify, ReadMain, ReadHelper, CheckHelper, RewriteHelper,
         ImportNew, ImportKnown, CheckMain, RewriteMain, Rehash, HashAgain, Diagnose, Link, PutExecutable,
         ReadBack, Record, Run, Stop
<1>3. at'[o] = at[o]
  BY DEF RunnerStep, Begin, Hash, Lookup, ResolveToReuse, Verify, ReadMain, ReadHelper, CheckHelper, RewriteHelper,
         ImportNew, ImportKnown, CheckMain, RewriteMain, Rehash, HashAgain, Diagnose, Link, PutExecutable,
         ReadBack, Record, Run, Stop, TypeInv
<1>4. saved'[o] = saved[o] /\ hashed'[o] = hashed[o]
  BY DEF RunnerStep, Begin, Hash, Lookup, ResolveToReuse, Verify, ReadMain, ReadHelper, CheckHelper, RewriteHelper,
         ImportNew, ImportKnown, CheckMain, RewriteMain, Rehash, HashAgain, Diagnose, Link, PutExecutable,
         ReadBack, Record, Run, Stop, TypeInv, ExecutableTypeOK
<1>5. compiled'[o] = compiled[o] /\ resolved'[o] = resolved[o]
  BY DEF RunnerStep, Begin, Hash, Lookup, ResolveToReuse, Verify, ReadMain, ReadHelper, CheckHelper, RewriteHelper,
         ImportNew, ImportKnown, CheckMain, RewriteMain, Rehash, HashAgain, Diagnose, Link, PutExecutable,
         ReadBack, Record, Run, Stop, TypeInv, ExecutableTypeOK
<1>6. built'[o] = built[o] /\ checksum'[o] = checksum[o] /\ recent'[o] = recent[o]
  BY DEF RunnerStep, Begin, Hash, Lookup, ResolveToReuse, Verify, ReadMain, ReadHelper, CheckHelper, RewriteHelper,
         ImportNew, ImportKnown, CheckMain, RewriteMain, Rehash, HashAgain, Diagnose, Link, PutExecutable,
         ReadBack, Record, Run, Stop, TypeInv, ExecutableTypeOK
<1>7. QED
  BY <1>2, <1>3, <1>4, <1>5, <1>6 DEF Memory

-----------------------------------------------------------------------------
(* Type correctness                                                         *)

LEMMA HashTyped ==
  ASSUME TypeInv, NEW q \in Runners, NEW from, NEW to \in Positions, HashFile(q, from, to)
  PROVE  TypeInv'
<1> USE DEF executableFiles
<1>1. UNCHANGED <<habit, executableFiles, recent, saved, compiled, resolved, built, checksum, edits, kills>>
  BY DEF HashFile
<1>2. hashed' \in [Runners -> [Sources -> Texts \cup {Nothing}]] /\ at' \in [Runners -> Positions]
  <2>1. CASE \E f \in Sources : hashed[q][f] = Nothing
    <3>1. NextFile(q) \in Sources
      BY <2>1, FileToHash
    <3>2. hashed' = [hashed EXCEPT ![q][NextFile(q)] = text[NextFile(q)]] /\ at' = at
      BY <2>1 DEF HashFile
    <3>3. QED
      BY <3>1, <3>2 DEF TypeInv, ExecutableTypeOK
  <2>2. CASE ~\E f \in Sources : hashed[q][f] = Nothing
    BY <2>2 DEF HashFile, Step, TypeInv, ExecutableTypeOK
  <2>3. QED
    BY <2>1, <2>2
<1>3. QED
  BY <1>1, <1>2 DEF TypeInv, ExecutableTypeOK

\* A process that begins or ends.
LEMMA ForgetTyped ==
  ASSUME TypeInv, NEW q \in Runners, Forget(q)
  PROVE  /\ saved' \in [Runners -> Records \cup {Nothing}]
         /\ hashed' \in [Runners -> [Sources -> Texts \cup {Nothing}]]
         /\ compiled' \in [Runners -> [Sources -> Texts \cup {Nothing}]]
         /\ resolved' \in [Runners -> Revisions \cup {Nothing}]
         /\ checksum' \in [Runners -> Programs \cup {Nothing}]
         /\ Unread \in [Sources -> Texts \cup {Nothing}]
BY DEF Forget, Unread, TypeInv, ExecutableTypeOK

LEMMA FailTyped ==
  ASSUME TypeInv, NEW q \in Runners, NEW from, NEW to \in Positions, Fail(q, from, to)
  PROVE  TypeInv'
<1>1. at' \in [Runners -> Positions] /\ built' \in [Runners -> Programs \cup {Nothing}] /\ Forget(q)
  BY DEF Fail, Step, TypeInv, ExecutableTypeOK
<1>2. UNCHANGED <<habit, executableFiles, recent, edits, kills>>
  BY DEF Fail
<1>3. QED
  BY <1>1, <1>2, ForgetTyped DEF TypeInv, ExecutableTypeOK, executableFiles

LEMMA RefreshTyped ==
  ASSUME TypeInv, NEW q \in Runners, NEW f \in Sources, NEW from, NEW replace \in Positions, NEW to \in Positions,
         Refresh(q, f, from, replace, to)
  PROVE  TypeInv'
<1>1. CASE Fail(q, from, "refused")
  BY <1>1, FailTyped DEF Positions, Over
<1>2. CASE /\ Step(q, from, IF Settled(q, f) THEN to ELSE replace)
           /\ UNCHANGED <<habit, executableFiles, executableMemory, edits, kills>>
  BY <1>2 DEF Step, TypeInv, ExecutableTypeOK, executableFiles, executableMemory
<1>3. QED
  BY <1>1, <1>2 DEF Refresh

LEMMA RewriteTyped ==
  ASSUME TypeInv, NEW q \in Runners, NEW f \in Sources, NEW from, NEW to \in Positions, Rewrite(q, f, from, to),
         compiled[q][f] # Nothing
  PROVE  TypeInv'
<1>1. compiled[q][f] \in Texts
  BY DEF TypeInv, ExecutableTypeOK
<1>2. text' \in [Sources -> Texts] /\ at' \in [Runners -> Positions]
  BY <1>1, CanonicalTyped DEF Rewrite, Step, TypeInv, ExecutableTypeOK
<1>3. UNCHANGED <<habit, dependency, objects, executable, record, executableMemory, edits, kills>>
  BY DEF Rewrite
<1>4. QED
  BY <1>2, <1>3 DEF TypeInv, ExecutableTypeOK, executableMemory

LEMMA StepTyped ==
  ASSUME TypeInv, NEW q \in Runners, PlaceOK(q), RunnerStep(q)
  PROVE  TypeInv'
<1> USE DEF executableFiles, executableMemory
<1>1. \A s \in {"hash", "lookup", "resolve", "verify", "run", "readMain", "readHelper", "checkHelper", "rewriteHelper",
                "import", "checkMain", "rewriteMain", "forget", "rehash", "link", "install", "readBack", "record",
                "idle", "ran", "failed", "refused"} : s \in Positions
  BY DEF Positions, Over, Checking, CompilePlaces, Finishing
<1>2. CASE Begin(q)
  <2>1. OnDisk \in [Parts -> SUBSET Revisions]
    BY DEF OnDisk, TypeInv, ExecutableTypeOK, Texts, Parts
  <2>2. at' \in [Runners -> Positions] /\ recent' \in [Runners -> [Parts -> SUBSET Revisions]]
          /\ built' \in [Runners -> Programs \cup {Nothing}]
    BY <1>1, <1>2, <2>1 DEF Begin, TypeInv, ExecutableTypeOK
  <2>3. Forget(q) /\ UNCHANGED <<habit, executableFiles, edits, kills>>
    BY <1>2 DEF Begin
  <2>4. QED
    BY <2>2, <2>3, ForgetTyped DEF TypeInv, ExecutableTypeOK
<1>3. CASE Hash(q) \/ HashAgain(q)
  BY <1>1, <1>3, HashTyped DEF Hash, HashAgain
<1>4. CASE Lookup(q)
  <2>1. at' \in [Runners -> Positions] /\ saved' \in [Runners -> Records \cup {Nothing}]
    BY <1>1, <1>4 DEF Lookup, Step, TypeInv, ExecutableTypeOK
  <2>2. QED
    BY <1>4, <2>1 DEF Lookup, TypeInv, ExecutableTypeOK
<1>5. CASE ResolveToReuse(q) \/ ImportNew(q)
  <2>1. at' \in [Runners -> Positions] /\ resolved' \in [Runners -> Revisions \cup {Nothing}] /\ objects' \in Revisions
    BY <1>1, <1>5 DEF ResolveToReuse, ImportNew, Resolve, Step, TypeInv, ExecutableTypeOK
  <2>2. UNCHANGED <<habit, text, dependency, executable, record, recent, saved, hashed, compiled, built, checksum,
                    edits, kills>>
    BY <1>5 DEF ResolveToReuse, ImportNew, Resolve
  <2>3. QED
    BY <2>1, <2>2 DEF TypeInv, ExecutableTypeOK
<1>6. CASE Verify(q) \/ ImportKnown(q)
  <2>1. at' \in [Runners -> Positions] /\ UNCHANGED <<habit, executableFiles, executableMemory, edits, kills>>
    BY <1>1, <1>6 DEF Verify, ImportKnown, Step, TypeInv
  <2>2. QED
    BY <2>1 DEF TypeInv, ExecutableTypeOK
<1>7. CASE ReadMain(q) \/ ReadHelper(q)
  <2>1. at' \in [Runners -> Positions] /\ compiled' \in [Runners -> [Sources -> Texts \cup {Nothing}]]
    <3>1. PICK f \in Sources, to \in Positions : at' = [at EXCEPT ![q] = to] /\ compiled' = [compiled EXCEPT ![q][f] = text[f]]
      BY <1>1, <1>7 DEF ReadMain, ReadHelper, ReadFile, Step, Sources
    <3>2. QED
      BY <3>1 DEF TypeInv, ExecutableTypeOK
  <2>2. QED
    BY <1>7, <2>1 DEF ReadMain, ReadHelper, ReadFile, TypeInv, ExecutableTypeOK
<1>8. CASE CheckHelper(q) \/ CheckMain(q)
  BY <1>1, <1>8, RefreshTyped DEF CheckHelper, CheckMain, Sources
<1>9. CASE RewriteHelper(q)
  <2>1. compiled[q]["helper"] # Nothing
    BY <1>9 DEF RewriteHelper, Rewrite, Step, PlaceOK, HasHelper, HasMain, CompilePlaces
  <2>2. QED
    BY <1>1, <1>9, <2>1, RewriteTyped DEF RewriteHelper, Sources
<1>10. CASE RewriteMain(q)
  <2>1. compiled[q]["main"] # Nothing
    BY <1>10 DEF RewriteMain, Rewrite, Step, PlaceOK, HasMain, CompilePlaces
  <2>2. QED
    BY <1>1, <1>10, <2>1, RewriteTyped DEF RewriteMain, Sources
<1>11. CASE Rehash(q)
  <2>1. at' \in [Runners -> Positions] /\ hashed' \in [Runners -> [Sources -> Texts \cup {Nothing}]]
    BY <1>1, <1>11 DEF Rehash, Step, Unread, TypeInv, ExecutableTypeOK
  <2>2. QED
    BY <1>11, <2>1 DEF Rehash, TypeInv, ExecutableTypeOK
<1>12. CASE Diagnose(q)
  BY <1>1, <1>12, FailTyped DEF Diagnose
<1>13. CASE Link(q)
  <2>1. \A f \in Sources : compiled[q][f] \in Texts
    BY <1>13 DEF Link, Step, PlaceOK, HasHelper, HasMain, CompilePlaces, Finishing, Sources, TypeInv, ExecutableTypeOK
  <2>2. objects \in Revisions
    BY <1>13 DEF Link, Step, PlaceOK, HasDependency, MainSettled, Finishing, TypeInv, ExecutableTypeOK
  <2> DEFINE program == [f \in Parts |-> IF f = "dependency" THEN objects ELSE compiled[q][f].revision]
  <2>3. program \in Programs
    BY <2>1, <2>2 DEF Programs, Parts, Texts
  <2>4. built' = [built EXCEPT ![q] = program] /\ at' = [at EXCEPT ![q] = "install"]
    BY <1>13 DEF Link, Step
  <2> HIDE DEF program
  <2>5. at' \in [Runners -> Positions] /\ built' \in [Runners -> Programs \cup {Nothing}]
    BY <1>1, <2>3, <2>4 DEF TypeInv, ExecutableTypeOK
  <2>6. QED
    BY <1>13, <2>5 DEF Link, TypeInv, ExecutableTypeOK
<1>14. CASE PutExecutable(q)
  <2>1. executable' \in Programs \cup {Nothing} /\ at' \in [Runners -> Positions]
    BY <1>1, <1>14 DEF PutExecutable, Step, TypeInv, ExecutableTypeOK
  <2>2. QED
    BY <1>14, <2>1 DEF PutExecutable, TypeInv, ExecutableTypeOK
<1>15. CASE ReadBack(q)
  <2>1. checksum' \in [Runners -> Programs \cup {Nothing}] /\ at' \in [Runners -> Positions]
    BY <1>1, <1>15 DEF ReadBack, Step, TypeInv, ExecutableTypeOK
  <2>2. QED
    BY <1>15, <2>1 DEF ReadBack, TypeInv, ExecutableTypeOK
<1>16. CASE Record(q)
  <2>1. at[q] = "record" /\ at' = [at EXCEPT ![q] = "run"]
          /\ record' = [sources |-> hashed[q], dependency |-> resolved[q], checksum |-> checksum[q]]
    BY <1>16 DEF Record, Step
  <2>2. hashed[q] \in [Sources -> Texts]
    BY <2>1 DEF PlaceOK, Finishing, TypeInv, ExecutableTypeOK
  <2>3. resolved[q] \in Revisions /\ checksum[q] \in Programs
    BY <2>1 DEF PlaceOK, HasDependency, MainSettled, Finishing, TypeInv, ExecutableTypeOK
  <2>4. record' \in Records
    BY <2>1, <2>2, <2>3 DEF Records
  <2>5. at' \in [Runners -> Positions]
    BY <1>1, <2>1 DEF TypeInv
  <2>6. QED
    BY <1>16, <2>4, <2>5 DEF Record, TypeInv, ExecutableTypeOK
<1>17. CASE Run(q) \/ Stop(q)
  <2>1. at' \in [Runners -> Positions] /\ built' \in [Runners -> Programs \cup {Nothing}] /\ Forget(q)
    BY <1>1, <1>17 DEF Run, Stop, Step, TypeInv, ExecutableTypeOK
  <2>2. UNCHANGED <<habit, executableFiles, recent, edits>> /\ kills' \in 0 .. MaxKills
    BY <1>17, ExecutableAssumption DEF Run, Stop, TypeInv, ExecutableTypeOK
  <2>3. QED
    BY <2>1, <2>2, ForgetTyped DEF TypeInv, ExecutableTypeOK
<1>18. QED
  BY <1>2, <1>3, <1>4, <1>5, <1>6, <1>7, <1>8, <1>9, <1>10, <1>11, <1>12, <1>13, <1>14, <1>15, <1>16, <1>17 DEF RunnerStep

\* An edit changes one file, and what may be seen by the commands that run.
LEMMA EditTyped ==
  ASSUME TypeInv, EditDependency \/ \E f \in Sources : EditSource(f)
  PROVE  TypeInv'
<1>1. edits' \in 0 .. MaxEdits
  BY ExecutableAssumption DEF EditDependency, EditSource, MayEdit, TypeInv, ExecutableTypeOK
<1>2. ASSUME NEW f \in Parts, NEW r \in Revisions, Seen(f, r)
      PROVE  recent' \in [Runners -> [Parts -> SUBSET Revisions]]
  BY <1>2 DEF Seen, TypeInv, ExecutableTypeOK
<1>3. CASE EditDependency
  <2>1. PICK r \in Revisions : dependency' = r /\ Seen("dependency", r)
    BY <1>3 DEF EditDependency
  <2>2. recent' \in [Runners -> [Parts -> SUBSET Revisions]]
    BY <1>2, <2>1 DEF Parts
  <2>3. QED
    BY <1>1, <1>3, <2>1, <2>2 DEF EditDependency, TypeInv, ExecutableTypeOK
<1>4. CASE \E f \in Sources : EditSource(f)
  <2>1. PICK f \in Sources : EditSource(f)
    BY <1>4
  <2>2. PICK t \in Texts : text' = [text EXCEPT ![f] = t] /\ Seen(f, t.revision)
    BY <2>1 DEF EditSource
  <2>3. f \in Parts /\ t.revision \in Revisions
    BY DEF Parts, Texts
  <2>4. recent' \in [Runners -> [Parts -> SUBSET Revisions]] /\ text' \in [Sources -> Texts]
    BY <1>2, <2>2, <2>3 DEF TypeInv, ExecutableTypeOK
  <2>5. QED
    BY <1>1, <2>1, <2>4 DEF EditSource, TypeInv, ExecutableTypeOK
<1>5. QED
  BY <1>3, <1>4

-----------------------------------------------------------------------------
(* Places                                                                   *)

LEMMA PlaceOfStep ==
  ASSUME TypeInv, TypeInv', NEW q \in Runners, PlaceOK(q), RunnerStep(q)
  PROVE  PlaceOK(q)'
<1> USE DEF executableFiles, executableMemory, Running, Over, Checking, CompilePlaces, Finishing, HasMain, HasHelper,
            MainSettled, HasDependency, Step
<1>1. /\ at \in [Runners -> Positions] /\ saved \in [Runners -> Records \cup {Nothing}]
      /\ hashed \in [Runners -> [Sources -> Texts \cup {Nothing}]] /\ compiled \in [Runners -> [Sources -> Texts \cup {Nothing}]]
      /\ resolved \in [Runners -> Revisions \cup {Nothing}] /\ built \in [Runners -> Programs \cup {Nothing}]
      /\ checksum \in [Runners -> Programs \cup {Nothing}] /\ text \in [Sources -> Texts] /\ dependency \in Revisions
  BY DEF TypeInv, ExecutableTypeOK
<1>2. ASSUME Forget(q), at'[q] \in Over \cup {"hash"}, objects' = objects PROVE PlaceOK(q)'
  <2>1. saved'[q] = Nothing /\ hashed'[q] = Unread /\ compiled'[q] = Unread /\ resolved'[q] = Nothing
    BY <1>1, <1>2 DEF Forget
  <2>2. QED
    BY <1>2, <2>1 DEF PlaceOK
<1>3. CASE Begin(q)
  BY <1>1, <1>2, <1>3 DEF Begin
<1>4. CASE Diagnose(q) \/ Run(q) \/ Stop(q)
  <2>1. Forget(q) /\ at'[q] \in Over /\ objects' = objects
    BY <1>1, <1>4 DEF Diagnose, Fail, Run, Stop
  <2>2. QED
    BY <1>2, <2>1
<1>5. CASE Hash(q) \/ HashAgain(q)
  <2>1. UNCHANGED <<executable, objects, saved, compiled, resolved, built, checksum>>
    BY <1>5 DEF Hash, HashAgain, HashFile
  <2>2. at[q] \in {"hash", "rehash"}
    BY <1>5 DEF Hash, HashAgain, HashFile
  <2>3. at'[q] = at[q] \/ ((at'[q] = IF at[q] = "hash" THEN "lookup" ELSE "link")
                            /\ hashed'[q] = hashed[q] /\ \A f \in Sources : hashed[q][f] # Nothing)
    BY <1>1, <1>5 DEF Hash, HashAgain, HashFile
  <2>4. QED
    BY <2>1, <2>2, <2>3 DEF PlaceOK
<1>6. CASE Lookup(q)
  <2>1. /\ at[q] = "lookup" /\ saved'[q] = record
        /\ at'[q] \in {"resolve", "readMain"} /\ (at'[q] = "resolve" => record # Nothing)
        /\ UNCHANGED <<executable, objects, hashed, compiled, resolved, built, checksum>>
    BY <1>1, <1>6 DEF Lookup
  <2>2. QED
    BY <2>1 DEF PlaceOK
<1>7. CASE ResolveToReuse(q) \/ ImportNew(q)
  <2>1. /\ at[q] \in {"resolve", "import"} /\ (at'[q] = IF at[q] = "resolve" THEN "verify" ELSE "checkMain")
        /\ resolved'[q] = dependency /\ objects' = dependency
        /\ UNCHANGED <<executable, saved, hashed, compiled, built, checksum>>
    BY <1>1, <1>7 DEF ResolveToReuse, ImportNew, Resolve
  <2>2. dependency # Nothing
    BY <1>1, NothingElse
  <2>3. QED
    BY <2>1, <2>2 DEF PlaceOK
<1>8. CASE Verify(q)
  <2>1. /\ at[q] = "verify" /\ at'[q] \in {"run", "readMain"}
        /\ at'[q] = "run" => saved[q].checksum = executable
        /\ UNCHANGED <<executable, objects, saved, hashed, compiled, resolved, built, checksum>>
    BY <1>1, <1>8 DEF Verify
  <2>2. saved[q] \in Records
    BY <1>1, <2>1 DEF PlaceOK
  <2>3. saved[q].checksum # Nothing
    BY <2>2, NothingElse DEF Records
  <2>4. QED
    BY <2>1, <2>3 DEF PlaceOK
<1>9. CASE ReadMain(q)
  <2>1. /\ at[q] = "readMain" /\ at'[q] = "readHelper" /\ compiled'[q]["main"] = text["main"]
        /\ UNCHANGED <<executable, objects, saved, hashed, resolved, built, checksum>>
    BY <1>1, <1>9 DEF ReadMain, ReadFile, Sources
  <2>2. text["main"] # Nothing
    BY <1>1, NothingElse DEF Sources
  <2>3. QED
    BY <2>1, <2>2 DEF PlaceOK
<1>10. CASE ReadHelper(q)
  <2>1. /\ at[q] = "readHelper" /\ at'[q] = "checkHelper" /\ compiled'[q]["helper"] = text["helper"]
        /\ compiled'[q]["main"] = compiled[q]["main"]
        /\ UNCHANGED <<executable, objects, saved, hashed, resolved, built, checksum>>
    BY <1>1, <1>10 DEF ReadHelper, ReadFile, Sources
  <2>2. text["helper"] # Nothing
    BY <1>1, NothingElse DEF Sources
  <2>3. QED
    BY <2>1, <2>2 DEF PlaceOK
<1>11. CASE CheckHelper(q)
  <2>1. CASE Fail(q, "checkHelper", "refused")
    <3>1. Forget(q) /\ at'[q] \in Over /\ objects' = objects
      BY <1>1, <2>1 DEF Fail
    <3>2. QED
      BY <1>2, <3>1
  <2>2. CASE ~Fail(q, "checkHelper", "refused")
    <3>1. /\ at[q] = "checkHelper" /\ at'[q] \in {"import", "rewriteHelper"}
          /\ UNCHANGED <<executable, objects, saved, hashed, compiled, resolved, built, checksum>>
      BY <1>1, <1>11, <2>2 DEF CheckHelper, Refresh
    <3>2. QED
      BY <3>1 DEF PlaceOK
  <2>3. QED
    BY <2>1, <2>2
<1>12. CASE CheckMain(q)
  <2>1. CASE Fail(q, "checkMain", "refused")
    <3>1. Forget(q) /\ at'[q] \in Over /\ objects' = objects
      BY <1>1, <2>1 DEF Fail
    <3>2. QED
      BY <1>2, <3>1
  <2>2. CASE ~Fail(q, "checkMain", "refused")
    <3>1. /\ at[q] = "checkMain" /\ at'[q] \in {"forget", "rewriteMain"}
          /\ UNCHANGED <<executable, objects, saved, hashed, compiled, resolved, built, checksum>>
      BY <1>1, <1>12, <2>2 DEF CheckMain, Refresh
    <3>2. QED
      BY <3>1 DEF PlaceOK
  <2>3. QED
    BY <2>1, <2>2
<1>13. CASE RewriteHelper(q) \/ RewriteMain(q)
  <2>1. /\ at[q] \in {"rewriteHelper", "rewriteMain"} /\ (at'[q] = IF at[q] = "rewriteHelper" THEN "import" ELSE "forget")
        /\ UNCHANGED <<executable, objects, saved, hashed, compiled, resolved, built, checksum>>
    BY <1>1, <1>13 DEF RewriteHelper, RewriteMain, Rewrite
  <2>2. QED
    BY <2>1 DEF PlaceOK
<1>14. CASE ImportKnown(q)
  <2>1. /\ at[q] = "import" /\ at'[q] = "checkMain" /\ resolved[q] # Nothing
        /\ UNCHANGED <<executable, objects, saved, hashed, compiled, resolved, built, checksum>>
    BY <1>1, <1>14 DEF ImportKnown
  <2>2. QED
    BY <2>1 DEF PlaceOK
<1>15. CASE Rehash(q)
  <2>1. /\ at[q] = "forget" /\ at'[q] = "rehash"
        /\ UNCHANGED <<executable, objects, saved, compiled, resolved, built, checksum>>
    BY <1>1, <1>15 DEF Rehash
  <2>2. QED
    BY <2>1 DEF PlaceOK
<1>16. CASE Link(q)
  <2>1. /\ at[q] = "link" /\ at'[q] = "install"
        /\ UNCHANGED <<executable, objects, saved, hashed, compiled, resolved, checksum>>
    BY <1>1, <1>16 DEF Link
  <2>2. built'[q] # Nothing
    <3> DEFINE program == [f \in Parts |-> IF f = "dependency" THEN objects ELSE compiled[q][f].revision]
    <3>1. \A f \in Sources : compiled[q][f] \in Texts
      BY <1>1, <2>1 DEF PlaceOK, Sources
    <3>2. objects \in Revisions
      BY <2>1 DEF PlaceOK, TypeInv, ExecutableTypeOK
    <3>3. program \in Programs
      BY <3>1, <3>2 DEF Programs, Parts, Texts
    <3>4. built' = [built EXCEPT ![q] = program]
      BY <1>16 DEF Link
    <3> HIDE DEF program
    <3>5. built'[q] = program
      BY <1>1, <3>4
    <3>6. QED
      BY <3>3, <3>5, NothingElse
  <2>3. QED
    BY <2>1, <2>2 DEF PlaceOK
<1>17. CASE PutExecutable(q)
  <2>1. /\ at[q] = "install" /\ at'[q] = "readBack" /\ executable' = built[q]
        /\ UNCHANGED <<objects, saved, hashed, compiled, resolved, built, checksum>>
    BY <1>1, <1>17 DEF PutExecutable
  <2>2. QED
    BY <2>1 DEF PlaceOK
<1>18. CASE ReadBack(q)
  <2>1. /\ at[q] = "readBack" /\ at'[q] = "record" /\ checksum'[q] = executable
        /\ UNCHANGED <<executable, objects, saved, hashed, compiled, resolved, built>>
    BY <1>1, <1>18 DEF ReadBack
  <2>2. QED
    BY <2>1 DEF PlaceOK
<1>19. CASE Record(q)
  <2>1. /\ at[q] = "record" /\ at'[q] = "run"
        /\ UNCHANGED <<executable, objects, saved, hashed, compiled, resolved, built, checksum>>
    BY <1>1, <1>19 DEF Record
  <2>2. QED
    BY <2>1 DEF PlaceOK
<1>20. QED
  BY <1>3, <1>4, <1>5, <1>6, <1>7, <1>8, <1>9, <1>10, <1>11, <1>12, <1>13, <1>14, <1>15, <1>16, <1>17, <1>18, <1>19
  DEF RunnerStep

\* The executable and the objects are replaced, never removed.
LEMMA FilesRemain ==
  ASSUME TypeInv, NEW q \in Runners, PlaceOK(q), RunnerStep(q)
  PROVE  (executable # Nothing => executable' # Nothing) /\ (objects # Nothing => objects' # Nothing)
<1> USE DEF executableFiles, executableMemory
<1>1. CASE PutExecutable(q)
  BY <1>1 DEF PutExecutable, Step, PlaceOK
<1>2. CASE ResolveToReuse(q) \/ ImportNew(q)
  <2>1. executable' = executable /\ objects' = dependency /\ dependency \in Revisions
    BY <1>2 DEF ResolveToReuse, ImportNew, Resolve, TypeInv, ExecutableTypeOK
  <2>2. QED
    BY <2>1, NothingElse
<1>3. CASE ~PutExecutable(q) /\ ~ResolveToReuse(q) /\ ~ImportNew(q)
  <2>1. UNCHANGED <<executable, objects>>
    BY <1>3 DEF RunnerStep, Begin, Hash, HashFile, Lookup, Verify, ReadMain, ReadHelper, ReadFile, CheckHelper,
                Refresh, Fail, RewriteHelper, Rewrite, ImportKnown, CheckMain, RewriteMain, Rehash, HashAgain, Diagnose,
                Link, ReadBack, Record, Run, Stop
  <2>2. QED
    BY <2>1
<1>4. QED
  BY <1>1, <1>2, <1>3

LEMMA PlacePreserved ==
  ASSUME TypeInv, TypeInv', \A q \in Runners : PlaceOK(q), [ExecutableNext]_executableVars, NEW o \in Runners
  PROVE  PlaceOK(o)'
<1>1. CASE \E q \in Runners : RunnerStep(q)
  <2>1. PICK q \in Runners : RunnerStep(q)
    BY <1>1
  <2>2. CASE o = q
    BY <2>1, <2>2, PlaceOfStep
  <2>3. CASE o # q
    <3>1. UNCHANGED Memory(o)
      BY <2>1, <2>3, OthersKeep
    <3>2. (executable # Nothing => executable' # Nothing) /\ (objects # Nothing => objects' # Nothing)
      BY <2>1, FilesRemain
    <3>3. PlaceOK(o)
      OBVIOUS
    <3>4. QED
      BY <3>1, <3>2, <3>3 DEF PlaceOK, Memory, Running
  <2>4. QED
    BY <2>2, <2>3
<1>2. CASE EditDependency \/ (\E f \in Sources : EditSource(f)) \/ UNCHANGED executableVars
  <2>1. UNCHANGED <<Memory(o), executable, objects>>
    BY <1>2 DEF EditDependency, EditSource, executableVars, executableFiles, executableMemory, Memory
  <2>2. QED
    BY <2>1 DEF PlaceOK, Memory, Running
<1>3. QED
  BY <1>1, <1>2 DEF ExecutableNext, RunnerStep

-----------------------------------------------------------------------------
(* What a command has read                                                  *)

\* A command that has not ended makes every step but the first.
LEMMA RunsBefore ==
  ASSUME NEW q \in Runners, RunnerStep(q), ~Begin(q)
  PROVE  Running(q)
BY DEF RunnerStep, Hash, HashFile, Lookup, ResolveToReuse, Verify, ReadMain, ReadHelper, ReadFile, CheckHelper,
       Refresh, Fail, RewriteHelper, Rewrite, ImportNew, ImportKnown, CheckMain, RewriteMain, Rehash, HashAgain,
       Diagnose, Link, PutExecutable, ReadBack, Record, Run, Stop, Step, Running, Over

\* Beside a step of q, only a crowded user's command holds anything.
LEMMA OthersEmpty ==
  ASSUME NEW q \in Runners, NEW o \in Runners \ {q}, PlaceOK(o), Alone, RunnerStep(q), habit # "crowded"
  PROVE  /\ ~Running(o)
         /\ saved[o] = Nothing /\ hashed[o] = Unread /\ compiled[o] = Unread /\ resolved[o] = Nothing
<1>1. ~Running(o)
  <2>1. CASE Begin(q)
    BY <2>1 DEF Begin, Running
  <2>2. CASE ~Begin(q)
    <3>1. Running(q)
      BY <2>2, RunsBefore
    <3>2. QED
      BY <3>1 DEF Alone
  <2>3. QED
    BY <2>1, <2>2
<1>2. QED
  BY <1>1 DEF PlaceOK

LEMMA AlonePreserved ==
  ASSUME TypeInv, Alone, [ExecutableNext]_executableVars
  PROVE  Alone'
<1> SUFFICES ASSUME habit' # "crowded", NEW r \in Runners, NEW o \in Runners, Running(r)', Running(o)' PROVE r = o
  BY DEF Alone
<1>1. CASE \E q \in Runners : RunnerStep(q)
  <2>1. PICK q \in Runners : RunnerStep(q)
    BY <1>1
  <2>2. ASSUME NEW x \in Runners, x # q, Running(x)' PROVE Running(x)
    BY <2>1, <2>2, OthersKeep DEF Memory, Running
  <2>3. habit' = habit
    BY <2>1 DEF RunnerStep, Begin, Hash, HashFile, Lookup, ResolveToReuse, Resolve, Verify, ReadMain, ReadHelper, ReadFile,
                CheckHelper, Refresh, Fail, RewriteHelper, Rewrite, ImportNew, ImportKnown, CheckMain, RewriteMain, Rehash,
                HashAgain, Diagnose, Link, PutExecutable, ReadBack, Record, Run, Stop
  <2>4. CASE Begin(q)
    <3>1. \A x \in Runners : ~Running(x)
      BY <2>3, <2>4 DEF Begin, Running
    <3>2. QED
      BY <2>2, <3>1
  <2>5. CASE ~Begin(q)
    <3>1. Running(q)
      BY <2>1, <2>5, RunsBefore
    <3>2. QED
      BY <2>2, <2>3, <3>1 DEF Alone
  <2>6. QED
    BY <2>4, <2>5
<1>2. CASE EditDependency \/ (\E f \in Sources : EditSource(f)) \/ UNCHANGED executableVars
  <2>1. UNCHANGED <<habit, at>>
    BY <1>2 DEF EditDependency, EditSource, executableVars
  <2>2. QED
    BY <2>1 DEF Alone, Running
<1>3. QED
  BY <1>1, <1>2 DEF ExecutableNext, RunnerStep

\* The record tells the truth, as the texts were canonical when they were hashed again.
LEMMA RecordPreserved ==
  ASSUME TypeInv, \A q \in Runners : PlaceOK(q) /\ ReadOK(q), record # Nothing => Good(record),
         [ExecutableNext]_executableVars
  PROVE  record' # Nothing => Good(record')
<1> USE DEF executableFiles, executableMemory
<1>1. CASE \E q \in Runners : Record(q)
  <2>1. PICK q \in Runners : Record(q)
    BY <1>1
  <2>2. at[q] = "record" /\ record' = [sources |-> hashed[q], dependency |-> resolved[q], checksum |-> checksum[q]]
    BY <2>1 DEF Record, Step
  <2>3. /\ \A f \in Sources : hashed[q][f] = Canonical(compiled[q][f])
        /\ checksum[q] = Linked(q)
        /\ compiled[q]["main"] # Nothing /\ compiled[q]["helper"] # Nothing
    BY <2>2 DEF PlaceOK, ReadOK, Finishing, HasMain, HasHelper
  <2>4. ASSUME NEW f \in Sources PROVE Linked(q)[f] = hashed[q][f].revision /\ ~hashed[q][f].raw
    <3>1. compiled[q][f] \in Texts
      BY <2>3 DEF Sources, TypeInv, ExecutableTypeOK
    <3>2. Linked(q)[f] = compiled[q][f].revision
      BY DEF Linked, Parts, Sources
    <3>3. QED
      BY <2>3, <3>1, <3>2, CanonicalTyped
  <2>5. Linked(q)["dependency"] = resolved[q]
    BY DEF Linked, Parts
  <2>6. record'.sources = hashed[q] /\ record'.dependency = resolved[q] /\ record'.checksum = Linked(q)
    BY <2>2, <2>3
  <2>7. QED
    BY <2>4, <2>5, <2>6 DEF Good
<1>2. CASE ~\E q \in Runners : Record(q)
  <2>1. record' = record
    BY <1>2 DEF ExecutableNext, Begin, Hash, HashFile, Lookup, ResolveToReuse, Resolve, Verify, ReadMain, ReadHelper, ReadFile,
                CheckHelper, Refresh, Fail, RewriteHelper, Rewrite, ImportNew, ImportKnown, CheckMain, RewriteMain, Rehash,
                HashAgain, Diagnose, Link, PutExecutable, ReadBack, Run, Stop, EditDependency, EditSource, executableVars
  <2>2. QED
    BY <2>1
<1>3. QED
  BY <1>1, <1>2

\* An edit is the only reason to refuse.
LEMMA NotRefused ==
  ASSUME NEW q \in Runners, StillOK(q), at[q] \in CompilePlaces, NEW f \in Sources, compiled[q][f] # Nothing
  PROVE  Settled(q, f) \/ text[f] = compiled[q][f]
BY DEF StillOK, Settled

LEMMA ReadOfStep ==
  ASSUME TypeInv, TypeInv', NEW q \in Runners, PlaceOK(q), ReadOK(q), StillOK(q), record # Nothing => Good(record),
         RunnerStep(q)
  PROVE  ReadOK(q)'
<1> USE DEF executableFiles, executableMemory, Checking, CompilePlaces, Finishing, HasMain, HasHelper,
            HelperSettled, MainSettled, HasDependency, Step
<1>1. /\ at \in [Runners -> Positions] /\ saved \in [Runners -> Records \cup {Nothing}]
      /\ hashed \in [Runners -> [Sources -> Texts \cup {Nothing}]] /\ compiled \in [Runners -> [Sources -> Texts \cup {Nothing}]]
      /\ resolved \in [Runners -> Revisions \cup {Nothing}] /\ built \in [Runners -> Programs \cup {Nothing}]
      /\ checksum \in [Runners -> Programs \cup {Nothing}] /\ text \in [Sources -> Texts] /\ dependency \in Revisions
  BY DEF TypeInv, ExecutableTypeOK
<1>2. CASE Begin(q) \/ Diagnose(q) \/ Run(q) \/ Stop(q)
  <2>1. saved'[q] = Nothing /\ at'[q] \in {"hash", "idle", "ran", "failed"}
    BY <1>1, <1>2 DEF Begin, Forget, Diagnose, Fail, Run, Stop
  <2>2. QED
    BY <2>1 DEF ReadOK
<1>3. CASE Hash(q)
  <2>1. at'[q] \in {"hash", "lookup"} /\ saved' = saved
    BY <1>1, <1>3 DEF Hash, HashFile
  <2>2. QED
    BY <2>1 DEF ReadOK
<1>4. CASE HashAgain(q)
  <2>1. at[q] = "rehash" /\ at'[q] \in {"rehash", "link"} /\ UNCHANGED <<saved, compiled>>
    BY <1>1, <1>4 DEF HashAgain, HashFile
  <2>2. \A f \in Sources : text[f] = Canonical(compiled[q][f])
    BY <2>1 DEF StillOK, Sources
  <2>3. ASSUME NEW f \in Sources, hashed'[q][f] # Nothing PROVE hashed'[q][f] = Canonical(compiled[q][f])
    <3>1. hashed'[q][f] \in {hashed[q][f], text[f]}
      <4>1. CASE \E g \in Sources : hashed[q][g] = Nothing
        <5>1. NextFile(q) \in Sources /\ hashed' = [hashed EXCEPT ![q][NextFile(q)] = text[NextFile(q)]]
          BY <1>4, <4>1, FileToHash DEF HashAgain, HashFile
        <5>2. QED
          BY <1>1, <5>1
      <4>2. CASE ~\E g \in Sources : hashed[q][g] = Nothing
        BY <1>4, <4>2 DEF HashAgain, HashFile
      <4>3. QED
        BY <4>1, <4>2
    <3>2. QED
      BY <2>1, <2>2, <2>3, <3>1 DEF ReadOK
  <2>4. QED
    BY <2>1, <2>3 DEF ReadOK
<1>5. CASE Lookup(q)
  <2>1. /\ saved'[q] = record /\ hashed' = hashed /\ at'[q] \in {"resolve", "readMain"}
        /\ at'[q] = "resolve" => record.sources = hashed[q]
    BY <1>1, <1>5 DEF Lookup
  <2>2. QED
    BY <2>1 DEF ReadOK
<1>6. CASE ResolveToReuse(q) \/ ImportNew(q)
  <2>1. at[q] \in {"resolve", "import"} /\ (at'[q] = IF at[q] = "resolve" THEN "verify" ELSE "checkMain")
          /\ UNCHANGED <<saved, hashed>>
    BY <1>1, <1>6 DEF ResolveToReuse, ImportNew, Resolve
  <2>2. QED
    BY <2>1 DEF ReadOK
<1>7. CASE Verify(q) \/ ReadMain(q) \/ ReadHelper(q) \/ RewriteHelper(q) \/ RewriteMain(q) \/ ImportKnown(q) \/ Record(q)
  <2>1. at'[q] \in {"run", "readMain", "readHelper", "checkHelper", "import", "forget", "checkMain"} /\ saved' = saved
    BY <1>1, <1>7 DEF Verify, ReadMain, ReadHelper, ReadFile, RewriteHelper, RewriteMain, Rewrite, ImportKnown, Record
  <2>2. QED
    BY <2>1 DEF ReadOK
<1>8. CASE CheckHelper(q)
  <2>1. at[q] = "checkHelper"
    BY <1>8 DEF CheckHelper, Refresh
  <2>2. Settled(q, "helper") \/ text["helper"] = compiled[q]["helper"]
    BY <2>1, NotRefused DEF PlaceOK, Sources
  <2>3. at'[q] \in {"import", "rewriteHelper"} /\ saved' = saved
    BY <1>1, <1>8, <2>2 DEF CheckHelper, Refresh
  <2>4. QED
    BY <2>3 DEF ReadOK
<1>9. CASE CheckMain(q)
  <2>1. at[q] = "checkMain"
    BY <1>9 DEF CheckMain, Refresh
  <2>2. Settled(q, "main") \/ text["main"] = compiled[q]["main"]
    BY <2>1, NotRefused DEF PlaceOK, Sources
  <2>3. at'[q] \in {"forget", "rewriteMain"} /\ saved' = saved
    BY <1>1, <1>9, <2>2 DEF CheckMain, Refresh
  <2>4. QED
    BY <2>3 DEF ReadOK
<1>10. CASE Rehash(q)
  <2>1. at'[q] = "rehash" /\ saved' = saved /\ \A f \in Sources : hashed'[q][f] = Nothing
    BY <1>1, <1>10 DEF Rehash, Unread
  <2>2. QED
    BY <2>1 DEF ReadOK
<1>11. CASE Link(q)
  <2>1. /\ at[q] = "link" /\ at'[q] = "install" /\ UNCHANGED <<saved, hashed, compiled, resolved>>
        /\ built' = [built EXCEPT ![q] = [f \in Parts |-> IF f = "dependency" THEN objects ELSE compiled[q][f].revision]]
    BY <1>1, <1>11 DEF Link
  <2>2. objects = resolved[q]
    BY <2>1 DEF PlaceOK, StillOK
  <2>3. built'[q] = Linked(q)
    BY <1>1, <2>1, <2>2 DEF Linked
  <2>4. Linked(q)' = Linked(q)
    BY <2>1 DEF Linked
  <2>5. QED
    BY <2>1, <2>3, <2>4 DEF ReadOK
<1>12. CASE PutExecutable(q) \/ ReadBack(q)
  <2>1. /\ at[q] \in {"install", "readBack"} /\ (at'[q] = IF at[q] = "install" THEN "readBack" ELSE "record")
        /\ UNCHANGED <<saved, hashed, compiled, resolved, built>>
        /\ at[q] = "readBack" => checksum'[q] = executable
    BY <1>1, <1>12 DEF PutExecutable, ReadBack
  <2>2. Linked(q)' = Linked(q)
    BY <2>1 DEF Linked
  <2>3. at[q] = "readBack" => executable = built[q]
    BY DEF StillOK
  <2>4. QED
    BY <2>1, <2>2, <2>3 DEF ReadOK
<1>13. QED
  BY <1>2, <1>3, <1>4, <1>5, <1>6, <1>7, <1>8, <1>9, <1>10, <1>11, <1>12 DEF RunnerStep

-----------------------------------------------------------------------------
(* What was on disk while a command ran                                     *)

\* The lint changes no revision, and what is linked is what was read.
LEMMA RewriteKeeps ==
  ASSUME TypeInv, NEW q \in Runners, StillOK(q), NEW f \in Sources, compiled[q][f] # Nothing,
         at[q] \in CompilePlaces \/ habit = "crowded"
  PROVE  /\ Canonical(compiled[q][f]) = Canonical(text[f])
         /\ compiled[q][f].revision = text[f].revision /\ Canonical(compiled[q][f]).revision = text[f].revision
<1>1. compiled[q][f] \in Texts /\ text[f] \in Texts
  BY DEF TypeInv, ExecutableTypeOK
<1>2. text[f] \in {compiled[q][f], Canonical(compiled[q][f])}
  BY DEF StillOK
<1>3. QED
  BY <1>1, <1>2, CanonicalTyped

\* With crowded users all that link link the same.
LEMMA LinkedIsOnDisk ==
  ASSUME TypeInv, NEW q \in Runners, PlaceOK(q), StillOK(q), habit = "crowded", at[q] \in Finishing
  PROVE  Linked(q) = [f \in Parts |-> IF f = "dependency" THEN dependency ELSE text[f].revision]
<1>1. \A f \in Sources : compiled[q][f] # Nothing
  BY DEF PlaceOK, Finishing, HasMain, HasHelper, Sources
<1>2. \A f \in Sources : compiled[q][f].revision = text[f].revision
  BY <1>1, RewriteKeeps
<1>3. resolved[q] = dependency
  BY DEF PlaceOK, StillOK, HasDependency, MainSettled, Finishing
<1>4. QED
  BY <1>2, <1>3 DEF Linked, Parts

LEMMA RecentOfStep ==
  ASSUME TypeInv, TypeInv', NEW q \in Runners, PlaceOK(q), ReadOK(q), RecentOK(q), StillOK(q), RunnerStep(q)
  PROVE  RecentOK(q)'
<1> USE DEF executableFiles, executableMemory, Step
<1>1. /\ at \in [Runners -> Positions] /\ saved \in [Runners -> Records \cup {Nothing}]
      /\ hashed \in [Runners -> [Sources -> Texts \cup {Nothing}]] /\ compiled \in [Runners -> [Sources -> Texts \cup {Nothing}]]
      /\ resolved \in [Runners -> Revisions \cup {Nothing}] /\ built \in [Runners -> Programs \cup {Nothing}]
      /\ text \in [Sources -> Texts] /\ dependency \in Revisions
      /\ recent \in [Runners -> [Parts -> SUBSET Revisions]]
  BY DEF TypeInv, ExecutableTypeOK
<1>2. ASSUME Forget(q)
      PROVE  (\A f \in Sources : hashed'[q][f] = Nothing /\ compiled'[q][f] = Nothing) /\ resolved'[q] = Nothing
  BY <1>1, <1>2 DEF Forget, Unread
<1>3. Running(q) => /\ \A f \in Sources : text[f].revision \in recent[q][f]
                    /\ dependency \in recent[q]["dependency"]
  BY DEF RecentOK
<1>4. CASE Begin(q)
  <2>1. at'[q] = "hash" /\ recent'[q] = OnDisk /\ UNCHANGED <<text, dependency>> /\ Forget(q)
    BY <1>1, <1>4 DEF Begin
  <2>2. (\A f \in Sources : text[f].revision \in OnDisk[f]) /\ dependency \in OnDisk["dependency"]
    BY DEF OnDisk, Parts, Sources
  <2>3. QED
    BY <1>2, <2>1, <2>2 DEF RecentOK
<1>5. CASE Diagnose(q) \/ Stop(q)
  <2>1. at'[q] \in {"failed", "idle"} /\ Forget(q)
    BY <1>1, <1>5 DEF Diagnose, Fail, Stop
  <2>2. QED
    BY <1>2, <2>1 DEF RecentOK, Running, Over
<1>6. CASE Run(q)
  <2>1. at[q] = "run" /\ at'[q] = "ran" /\ Forget(q) /\ built'[q] = executable /\ recent' = recent
    BY <1>1, <1>6 DEF Run
  <2>2. QED
    BY <1>2, <2>1 DEF RecentOK, Running, Over
<1>7. CASE Hash(q) \/ HashAgain(q)
  <2>1. /\ at[q] \in {"hash", "rehash"} /\ at'[q] \in {"hash", "rehash", "lookup", "link"}
        /\ UNCHANGED <<text, dependency, recent, compiled, resolved>>
    BY <1>1, <1>7 DEF Hash, HashAgain, HashFile
  <2>2. ASSUME NEW f \in Sources PROVE hashed'[q][f] \in {hashed[q][f], text[f]}
    <3>1. CASE \E g \in Sources : hashed[q][g] = Nothing
      <4>1. NextFile(q) \in Sources /\ hashed' = [hashed EXCEPT ![q][NextFile(q)] = text[NextFile(q)]]
        BY <1>7, <3>1, FileToHash DEF Hash, HashAgain, HashFile
      <4>2. QED
        BY <1>1, <4>1
    <3>2. CASE ~\E g \in Sources : hashed[q][g] = Nothing
      BY <1>7, <3>2 DEF Hash, HashAgain, HashFile
    <3>3. QED
      BY <3>1, <3>2
  <2>3. Running(q)
    BY <2>1 DEF Running, Over
  <2>4. ASSUME NEW f \in Sources, hashed'[q][f] # Nothing PROVE hashed'[q][f].revision \in recent[q][f]
    BY <1>3, <2>2, <2>3, <2>4 DEF RecentOK
  <2>5. QED
    BY <1>3, <2>1, <2>3, <2>4 DEF RecentOK
<1>8. CASE Lookup(q) \/ ImportKnown(q)
  <2>1. /\ at[q] \in {"lookup", "import"} /\ at'[q] \in {"resolve", "readMain", "checkMain"}
        /\ UNCHANGED <<text, dependency, recent, hashed, compiled, resolved>>
    BY <1>1, <1>8 DEF Lookup, ImportKnown
  <2>2. QED
    BY <2>1 DEF RecentOK, Running, Over
<1>9. CASE ResolveToReuse(q) \/ ImportNew(q)
  <2>1. /\ at[q] \in {"resolve", "import"} /\ at'[q] \in {"verify", "checkMain"} /\ resolved'[q] = dependency
        /\ UNCHANGED <<text, dependency, recent, hashed, compiled>>
    BY <1>1, <1>9 DEF ResolveToReuse, ImportNew, Resolve
  <2>2. QED
    BY <2>1 DEF RecentOK, Running, Over
<1>10. CASE Verify(q)
  <2>1. /\ at[q] = "verify" /\ at'[q] \in {"run", "readMain"}
        /\ at'[q] = "run" => saved[q].dependency = resolved[q] /\ saved[q].checksum = executable
        /\ UNCHANGED <<text, dependency, executable, recent, hashed, compiled, resolved>>
    BY <1>1, <1>10 DEF Verify
  <2>2. /\ Good(saved[q]) /\ saved[q].sources = hashed[q] /\ resolved[q] # Nothing
        /\ \A f \in Sources : hashed[q][f] # Nothing
    BY <2>1 DEF PlaceOK, ReadOK, HasDependency, Checking
  <2>3. ASSUME at'[q] = "run", NEW f \in Parts PROVE executable[f] \in recent[q][f]
    <3>1. CASE f = "dependency"
      BY <2>1, <2>2, <2>3, <3>1 DEF Good, RecentOK
    <3>2. CASE f # "dependency"
      <4>1. f \in Sources
        BY <3>2 DEF Parts
      <4>2. executable[f] = hashed[q][f].revision
        BY <2>1, <2>2, <2>3, <4>1 DEF Good
      <4>3. QED
        BY <2>2, <4>1, <4>2 DEF RecentOK
    <3>3. QED
      BY <3>1, <3>2
  <2>4. Running(q) /\ at'[q] # "ran"
    BY <2>1 DEF Running, Over
  <2>5. QED
    BY <1>3, <2>1, <2>3, <2>4 DEF RecentOK
<1>11. CASE ReadMain(q) \/ ReadHelper(q)
  <2>1. PICK f \in Sources : compiled' = [compiled EXCEPT ![q][f] = text[f]]
    BY <1>11 DEF ReadMain, ReadHelper, ReadFile, Sources
  <2>2. /\ at[q] \in {"readMain", "readHelper"} /\ at'[q] \in {"readHelper", "checkHelper"}
        /\ UNCHANGED <<text, dependency, recent, hashed, resolved>>
    BY <1>1, <1>11 DEF ReadMain, ReadHelper, ReadFile
  <2>3. \A g \in Sources : compiled'[q][g] \in {compiled[q][g], text[g]}
    BY <1>1, <2>1
  <2>4. Running(q)
    BY <2>2 DEF Running, Over
  <2>5. QED
    BY <1>3, <2>2, <2>3, <2>4 DEF RecentOK
<1>12. CASE CheckHelper(q) \/ CheckMain(q)
  <2>1. CASE Fail(q, at[q], "refused")
    <3>1. at'[q] = "refused" /\ Forget(q)
      BY <1>1, <2>1 DEF Fail
    <3>2. QED
      BY <1>2, <3>1 DEF RecentOK, Running, Over
  <2>2. CASE ~Fail(q, at[q], "refused")
    <3>1. /\ at[q] \in {"checkHelper", "checkMain"} /\ at'[q] \in {"rewriteHelper", "import", "rewriteMain", "forget"}
          /\ UNCHANGED <<text, dependency, recent, hashed, compiled, resolved>>
      BY <1>1, <1>12, <2>2 DEF CheckHelper, CheckMain, Refresh, Fail
    <3>2. QED
      BY <3>1 DEF RecentOK, Running, Over
  <2>3. QED
    BY <2>1, <2>2
<1>13. CASE RewriteHelper(q) \/ RewriteMain(q)
  <2>1. PICK f \in Sources : text' = [text EXCEPT ![f] = Canonical(compiled[q][f])] /\ compiled[q][f] # Nothing
    BY <1>13 DEF RewriteHelper, RewriteMain, Rewrite, Sources, PlaceOK, HasHelper, HasMain, CompilePlaces
  <2>2. /\ at[q] \in CompilePlaces /\ Running(q) /\ at'[q] \in {"import", "forget"}
        /\ UNCHANGED <<dependency, recent, hashed, compiled, resolved>>
    BY <1>1, <1>13 DEF RewriteHelper, RewriteMain, Rewrite, CompilePlaces, Running, Over
  <2>3. Canonical(compiled[q][f]).revision = text[f].revision
    BY <2>1, <2>2, RewriteKeeps
  <2>4. \A g \in Sources : text'[g].revision = text[g].revision
    BY <1>1, <2>1, <2>3
  <2>5. QED
    BY <1>3, <2>2, <2>4 DEF RecentOK
<1>14. CASE Rehash(q)
  <2>1. /\ at[q] = "forget" /\ at'[q] = "rehash" /\ \A f \in Sources : hashed'[q][f] = Nothing
        /\ UNCHANGED <<text, dependency, recent, compiled, resolved>>
    BY <1>1, <1>14 DEF Rehash, Unread
  <2>2. QED
    BY <2>1 DEF RecentOK, Running, Over
<1>15. CASE Link(q) \/ PutExecutable(q) \/ ReadBack(q)
  <2>1. /\ at[q] \in {"link", "install", "readBack"} /\ at'[q] \in {"install", "readBack", "record"}
        /\ UNCHANGED <<text, dependency, recent, hashed, compiled, resolved>>
    BY <1>1, <1>15 DEF Link, PutExecutable, ReadBack
  <2>2. QED
    BY <2>1 DEF RecentOK, Running, Over
<1>16. CASE Record(q)
  <2>1. at[q] = "record" /\ at'[q] = "run" /\ UNCHANGED <<text, dependency, executable, recent, hashed, compiled, resolved>>
    BY <1>1, <1>16 DEF Record
  <2>2. executable = Linked(q) /\ resolved[q] # Nothing /\ \A f \in Sources : compiled[q][f] # Nothing
    BY <2>1 DEF PlaceOK, ReadOK, StillOK, HasDependency, MainSettled, Finishing, HasMain, HasHelper, Sources
  <2>3. ASSUME NEW f \in Parts PROVE executable[f] \in recent[q][f]
    <3>1. executable[f] = IF f = "dependency" THEN resolved[q] ELSE compiled[q][f].revision
      BY <2>2 DEF Linked
    <3>2. f = "dependency" \/ f \in Sources
      BY DEF Parts
    <3>3. QED
      BY <2>2, <3>1, <3>2 DEF RecentOK
  <2>4. Running(q)
    BY <2>1 DEF Running, Over
  <2>5. QED
    BY <1>3, <2>1, <2>3, <2>4 DEF RecentOK
<1>17. QED
  BY <1>4, <1>5, <1>6, <1>7, <1>8, <1>9, <1>10, <1>11, <1>12, <1>13, <1>14, <1>15, <1>16 DEF RunnerStep

\* Files that a step of q changes keep their revisions.
LEMMA RecentOfOther ==
  ASSUME TypeInv, NEW q \in Runners, NEW o \in Runners \ {q}, PlaceOK(q), PlaceOK(o), ReadOK(q), RecentOK(o), StillOK(q), Alone,
         RunnerStep(q)
  PROVE  RecentOK(o)'
<1> USE DEF executableFiles, executableMemory, Step
<1>1. UNCHANGED Memory(o) /\ recent'[o] = recent[o] /\ dependency' = dependency
  BY OthersKeep
<1>2. \A f \in Sources : text'[f].revision = text[f].revision
  <2>1. CASE RewriteHelper(q) \/ RewriteMain(q)
    <3>1. PICK f \in Sources : text' = [text EXCEPT ![f] = Canonical(compiled[q][f])] /\ compiled[q][f] # Nothing
      BY <2>1 DEF RewriteHelper, RewriteMain, Rewrite, Sources, PlaceOK, HasHelper, HasMain, CompilePlaces
    <3>2. at[q] \in CompilePlaces
      BY <2>1 DEF RewriteHelper, RewriteMain, Rewrite, CompilePlaces
    <3>3. Canonical(compiled[q][f]).revision = text[f].revision
      BY <3>1, <3>2, RewriteKeeps
    <3>4. QED
      BY <3>1, <3>3 DEF TypeInv, ExecutableTypeOK
  <2>2. CASE ~RewriteHelper(q) /\ ~RewriteMain(q)
    <3>1. text' = text
      BY <2>2 DEF RunnerStep, Begin, Hash, HashFile, Lookup, ResolveToReuse, Resolve, Verify, ReadMain, ReadHelper, ReadFile,
                  CheckHelper, Refresh, Fail, ImportNew, ImportKnown, CheckMain, Rehash, HashAgain, Diagnose,
                  Link, PutExecutable, ReadBack, Record, Run, Stop
    <3>2. QED
      BY <3>1
  <2>3. QED
    BY <2>1, <2>2
<1>3. ASSUME at[o] = "run", NEW f \in Parts PROVE executable'[f] \in recent[o][f]
  <2>1. CASE PutExecutable(q)
    <3>1. Running(o)
      BY <1>3 DEF Running, Over
    <3>2. habit = "crowded"
      BY <3>1, OthersEmpty
    <3>3. at[q] = "install" /\ executable' = built[q]
      BY <2>1 DEF PutExecutable
    <3>4. executable' = Linked(q)
      BY <3>3 DEF ReadOK
    <3>5. Linked(q) = [g \in Parts |-> IF g = "dependency" THEN dependency ELSE text[g].revision]
      BY <3>2, <3>3, LinkedIsOnDisk DEF Finishing
    <3>6. executable'[f] = IF f = "dependency" THEN dependency ELSE text[f].revision
      BY <3>4, <3>5
    <3>7. f = "dependency" \/ f \in Sources
      BY DEF Parts
    <3>8. QED
      BY <3>1, <3>6, <3>7 DEF RecentOK
  <2>2. CASE ~PutExecutable(q)
    <3>1. executable' = executable
      BY <2>2 DEF RunnerStep, Begin, Hash, HashFile, Lookup, ResolveToReuse, Resolve, Verify, ReadMain, ReadHelper, ReadFile,
                  CheckHelper, Refresh, Fail, RewriteHelper, RewriteMain, Rewrite, ImportNew, ImportKnown, CheckMain, Rehash,
                  HashAgain, Diagnose, Link, ReadBack, Record, Run, Stop
    <3>2. QED
      BY <1>3, <3>1 DEF RecentOK
  <2>3. QED
    BY <2>1, <2>2
<1>4. QED
  BY <1>1, <1>2, <1>3 DEF RecentOK, Memory, Running

\* Commands that run may see what is saved.
LEMMA RecentOfEdit ==
  ASSUME TypeInv, NEW o \in Runners, RecentOK(o), EditDependency \/ \E f \in Sources : EditSource(f)
  PROVE  RecentOK(o)'
<1> USE DEF executableFiles, executableMemory
<1>1. /\ text \in [Sources -> Texts] /\ recent \in [Runners -> [Parts -> SUBSET Revisions]]
  BY DEF TypeInv, ExecutableTypeOK
<1>2. UNCHANGED <<Memory(o), executable>>
  BY DEF EditDependency, EditSource, Memory
<1>3. ASSUME NEW f \in Parts, NEW r, Seen(f, r)
      PROVE  /\ \A g \in Parts : recent[o][g] \subseteq recent'[o][g]
             /\ Running(o) => r \in recent'[o][f]
             /\ ~Running(o) => recent'[o] = recent[o]
  BY <1>1, <1>3 DEF Seen, Running
<1>4. CASE EditDependency
  <2>1. PICK r \in Revisions : dependency' = r /\ Seen("dependency", r) /\ text' = text
    BY <1>4 DEF EditDependency
  <2>2. "dependency" \in Parts /\ Sources \subseteq Parts
    BY DEF Parts
  <2>3. /\ \A g \in Parts : recent[o][g] \subseteq recent'[o][g]
        /\ Running(o) => dependency' \in recent'[o]["dependency"]
    BY <1>3, <2>1, <2>2
  <2>4. QED
    BY <1>2, <2>1, <2>2, <2>3 DEF RecentOK, Memory, Running
<1>5. CASE \E f \in Sources : EditSource(f)
  <2>1. PICK f \in Sources : EditSource(f)
    BY <1>5
  <2>2. PICK t \in Texts : text' = [text EXCEPT ![f] = t] /\ Seen(f, t.revision) /\ dependency' = dependency
    BY <2>1 DEF EditSource
  <2>3. "dependency" \in Parts /\ Sources \subseteq Parts
    BY DEF Parts
  <2>4. /\ \A g \in Parts : recent[o][g] \subseteq recent'[o][g]
        /\ Running(o) => t.revision \in recent'[o][f]
    BY <1>3, <2>2, <2>3
  <2>5. text'[f] = t /\ \A g \in Sources : g # f => text'[g] = text[g]
    BY <1>1, <2>2
  <2>6. Running(o) => \A g \in Sources : text'[g].revision \in recent'[o][g]
    BY <2>3, <2>4, <2>5 DEF RecentOK
  <2>7. QED
    BY <1>2, <2>2, <2>3, <2>4, <2>6 DEF RecentOK, Memory, Running
<1>6. QED
  BY <1>4, <1>5

-----------------------------------------------------------------------------
(* What is on disk still                                                    *)

LEMMA StillOfStep ==
  ASSUME TypeInv, TypeInv', NEW q \in Runners, PlaceOK(q), StillOK(q), RunnerStep(q)
  PROVE  StillOK(q)'
<1> USE DEF executableFiles, executableMemory, Step
<1>1. /\ at \in [Runners -> Positions]
      /\ hashed \in [Runners -> [Sources -> Texts \cup {Nothing}]] /\ compiled \in [Runners -> [Sources -> Texts \cup {Nothing}]]
      /\ resolved \in [Runners -> Revisions \cup {Nothing}] /\ built \in [Runners -> Programs \cup {Nothing}]
      /\ text \in [Sources -> Texts] /\ dependency \in Revisions
  BY DEF TypeInv, ExecutableTypeOK
<1>2. ASSUME Forget(q), at'[q] \in Over \cup {"hash"} PROVE StillOK(q)'
  <2>1. resolved'[q] = Nothing /\ \A f \in Sources : compiled'[q][f] = Nothing
    BY <1>1, <1>2 DEF Forget, Unread
  <2>2. QED
    BY <1>2, <2>1 DEF StillOK, Over, CompilePlaces, HelperSettled, MainSettled, HasHelper, HasMain, Finishing
\* A step between two places where the same is known.
<1>3. ASSUME UNCHANGED <<habit, text, dependency, objects, executable, compiled, resolved, built>>,
             at'[q] \in CompilePlaces => at[q] \in CompilePlaces \/ compiled[q] = Unread,
             at'[q] \in HelperSettled => at[q] \in HelperSettled,
             at'[q] \in MainSettled => at[q] \in MainSettled,
             at'[q] \in {"readBack", "record"} => at[q] \in {"readBack", "record"}
      PROVE  StillOK(q)'
  <2>1. compiled[q] = Unread => \A f \in Sources : compiled[q][f] = Nothing
    BY DEF Unread
  <2>2. at'[q] \in CompilePlaces /\ at'[q] \in HelperSettled => at[q] \in CompilePlaces
    BY <1>3 DEF CompilePlaces, HelperSettled, HasHelper, HasMain, Finishing, PlaceOK, Unread, Sources
  <2>3. at'[q] \in CompilePlaces /\ at'[q] \in MainSettled => at[q] \in CompilePlaces
    BY <1>3 DEF CompilePlaces, MainSettled, HasHelper, HasMain, Finishing, PlaceOK, Unread, Sources
  <2>4. QED
    BY <1>3, <2>1, <2>2, <2>3 DEF StillOK
<1>4. CASE Begin(q) \/ Diagnose(q) \/ Run(q) \/ Stop(q)
  <2>1. Forget(q) /\ at'[q] \in Over \cup {"hash"}
    BY <1>1, <1>4 DEF Begin, Diagnose, Fail, Run, Stop, Over
  <2>2. QED
    BY <1>2, <2>1
<1>5. CASE Hash(q) \/ HashAgain(q) \/ Lookup(q) \/ Verify(q) \/ ImportKnown(q) \/ Rehash(q)
  <2>1. UNCHANGED <<habit, text, dependency, objects, executable, compiled, resolved, built>>
    BY <1>5 DEF Hash, HashAgain, HashFile, Lookup, Verify, ImportKnown, Rehash
  <2>2. \/ at[q] = "hash" /\ at'[q] \in {"hash", "lookup"}
        \/ at[q] = "rehash" /\ at'[q] \in {"rehash", "link"}
        \/ at[q] \in {"lookup", "verify"} /\ at'[q] \in {"resolve", "run", "readMain"}
        \/ at[q] = "import" /\ at'[q] = "checkMain"
        \/ at[q] = "forget" /\ at'[q] = "rehash"
    BY <1>1, <1>5 DEF Hash, HashAgain, HashFile, Lookup, Verify, ImportKnown, Rehash
  <2>3. at[q] \in {"lookup", "verify"} => compiled[q] = Unread
    BY DEF PlaceOK, Checking
  <2>4. QED
    BY <1>3, <2>1, <2>2, <2>3 DEF CompilePlaces, HelperSettled, MainSettled, HasHelper, HasMain, Finishing
<1>6. CASE ResolveToReuse(q) \/ ImportNew(q)
  <2>1. /\ (at[q] = "resolve" /\ at'[q] = "verify") \/ (at[q] = "import" /\ at'[q] = "checkMain")
        /\ resolved'[q] = dependency /\ objects' = dependency
        /\ UNCHANGED <<habit, text, dependency, executable, compiled, built>>
    BY <1>1, <1>6 DEF ResolveToReuse, ImportNew, Resolve
  <2>2. QED
    BY <2>1 DEF StillOK, CompilePlaces, HelperSettled, MainSettled, HasHelper, HasMain, Finishing
<1>7. CASE ReadMain(q)
  <2>1. /\ at[q] = "readMain" /\ at'[q] = "readHelper" /\ compiled' = [compiled EXCEPT ![q]["main"] = text["main"]]
        /\ UNCHANGED <<habit, text, dependency, objects, executable, resolved, built>>
    BY <1>1, <1>7 DEF ReadMain, ReadFile
  <2>2. \A f \in Sources : compiled'[q][f] \in {compiled[q][f], text[f]} /\ compiled[q][f] = Nothing
    BY <1>1, <2>1 DEF PlaceOK, Unread
  <2>3. QED
    BY <2>1, <2>2 DEF StillOK, HelperSettled, MainSettled, HasHelper, HasMain, Finishing
<1>8. CASE ReadHelper(q)
  <2>1. /\ at[q] = "readHelper" /\ at'[q] = "checkHelper" /\ compiled' = [compiled EXCEPT ![q]["helper"] = text["helper"]]
        /\ UNCHANGED <<habit, text, dependency, objects, executable, resolved, built>>
    BY <1>1, <1>8 DEF ReadHelper, ReadFile
  <2>2. compiled'[q]["helper"] = text["helper"] /\ compiled'[q]["main"] = compiled[q]["main"]
    BY <1>1, <2>1 DEF Sources
  <2>3. compiled[q]["main"] # Nothing => text["main"] \in {compiled[q]["main"], Canonical(compiled[q]["main"])}
    BY <2>1 DEF StillOK, Sources, CompilePlaces
  <2>4. \A f \in Sources : compiled'[q][f] # Nothing => text[f] \in {compiled'[q][f], Canonical(compiled'[q][f])}
    BY <2>2, <2>3 DEF Sources
  <2>5. QED
    BY <2>1, <2>4 DEF StillOK, HelperSettled, MainSettled, HasHelper, HasMain, Finishing
<1>9. ASSUME NEW f \in Sources, Settled(q, f), at[q] \in CompilePlaces, compiled[q][f] # Nothing
      PROVE  text[f] = Canonical(compiled[q][f])
  BY <1>9 DEF StillOK, Settled
<1>10. CASE CheckHelper(q)
  <2>1. CASE Fail(q, "checkHelper", "refused")
    BY <1>1, <1>2, <2>1 DEF Fail, Over
  <2>2. CASE ~Fail(q, "checkHelper", "refused")
    <3>1. /\ at[q] = "checkHelper" /\ (at'[q] = IF Settled(q, "helper") THEN "import" ELSE "rewriteHelper")
          /\ UNCHANGED <<habit, text, dependency, objects, executable, compiled, resolved, built>>
      BY <1>1, <1>10, <2>2 DEF CheckHelper, Refresh
    <3>2. Settled(q, "helper") => text["helper"] = Canonical(compiled[q]["helper"])
      BY <1>9, <3>1 DEF Sources, CompilePlaces, PlaceOK, HasHelper, HasMain
    <3>3. \A f \in Sources : compiled[q][f] # Nothing => text[f] \in {compiled[q][f], Canonical(compiled[q][f])}
      BY <3>1 DEF StillOK, CompilePlaces
    <3>4. QED
      BY <3>1, <3>2, <3>3 DEF StillOK, HelperSettled, MainSettled, HasHelper, HasMain, Finishing, CompilePlaces
  <2>3. QED
    BY <2>1, <2>2
<1>11. CASE CheckMain(q)
  <2>1. CASE Fail(q, "checkMain", "refused")
    BY <1>1, <1>2, <2>1 DEF Fail, Over
  <2>2. CASE ~Fail(q, "checkMain", "refused")
    <3>1. /\ at[q] = "checkMain" /\ (at'[q] = IF Settled(q, "main") THEN "forget" ELSE "rewriteMain")
          /\ UNCHANGED <<habit, text, dependency, objects, executable, compiled, resolved, built>>
      BY <1>1, <1>11, <2>2 DEF CheckMain, Refresh
    <3>2. Settled(q, "main") => text["main"] = Canonical(compiled[q]["main"])
      BY <1>9, <3>1 DEF Sources, CompilePlaces, PlaceOK, HasMain
    <3>3. /\ \A f \in Sources : compiled[q][f] # Nothing => text[f] \in {compiled[q][f], Canonical(compiled[q][f])}
          /\ text["helper"] = Canonical(compiled[q]["helper"])
      BY <3>1 DEF StillOK, CompilePlaces, HelperSettled, HasHelper, HasMain
    <3>4. QED
      BY <3>1, <3>2, <3>3 DEF StillOK, HelperSettled, MainSettled, HasHelper, HasMain, Finishing, CompilePlaces
  <2>3. QED
    BY <2>1, <2>2
<1>12. CASE RewriteHelper(q)
  <2>1. /\ at[q] = "rewriteHelper" /\ at'[q] = "import" /\ text' = [text EXCEPT !["helper"] = Canonical(compiled[q]["helper"])]
        /\ UNCHANGED <<habit, dependency, objects, executable, compiled, resolved, built>>
    BY <1>1, <1>12 DEF RewriteHelper, Rewrite
  <2>2. text'["helper"] = Canonical(compiled[q]["helper"]) /\ text'["main"] = text["main"]
    BY <1>1, <2>1 DEF Sources
  <2>3. compiled[q]["main"] # Nothing => text["main"] \in {compiled[q]["main"], Canonical(compiled[q]["main"])}
    BY <2>1 DEF StillOK, Sources, CompilePlaces
  <2>4. \A f \in Sources : compiled[q][f] # Nothing => text'[f] \in {compiled[q][f], Canonical(compiled[q][f])}
    BY <2>2, <2>3 DEF Sources
  <2>5. QED
    BY <2>1, <2>2, <2>4 DEF StillOK, HelperSettled, MainSettled, HasHelper, HasMain, Finishing, CompilePlaces
<1>13. CASE RewriteMain(q)
  <2>1. /\ at[q] = "rewriteMain" /\ at'[q] = "forget" /\ text' = [text EXCEPT !["main"] = Canonical(compiled[q]["main"])]
        /\ UNCHANGED <<habit, dependency, objects, executable, compiled, resolved, built>>
    BY <1>1, <1>13 DEF RewriteMain, Rewrite
  <2>2. text'["main"] = Canonical(compiled[q]["main"]) /\ text'["helper"] = text["helper"]
    BY <1>1, <2>1 DEF Sources
  <2>3. text["helper"] = Canonical(compiled[q]["helper"])
    BY <2>1 DEF StillOK, CompilePlaces, HelperSettled, HasHelper, HasMain
  <2>4. \A f \in Sources : compiled[q][f] # Nothing => text'[f] \in {compiled[q][f], Canonical(compiled[q][f])}
    BY <2>2, <2>3 DEF Sources
  <2>5. QED
    BY <2>1, <2>2, <2>3, <2>4 DEF StillOK, HelperSettled, MainSettled, HasHelper, HasMain, Finishing, CompilePlaces
<1>14. CASE Link(q) \/ Record(q)
  <2>1. /\ (at[q] = "link" /\ at'[q] = "install") \/ (at[q] = "record" /\ at'[q] = "run")
        /\ UNCHANGED <<habit, text, dependency, objects, executable, compiled, resolved>>
    BY <1>1, <1>14 DEF Link, Record
  <2>2. QED
    BY <2>1 DEF StillOK, CompilePlaces, HelperSettled, MainSettled, HasHelper, HasMain, Finishing
<1>15. CASE PutExecutable(q)
  <2>1. /\ at[q] = "install" /\ at'[q] = "readBack" /\ executable' = built[q]
        /\ UNCHANGED <<habit, text, dependency, objects, compiled, resolved, built>>
    BY <1>1, <1>15 DEF PutExecutable
  <2>2. QED
    BY <2>1 DEF StillOK, CompilePlaces, HelperSettled, MainSettled, HasHelper, HasMain, Finishing
<1>16. CASE ReadBack(q)
  <2>1. /\ at[q] = "readBack" /\ at'[q] = "record"
        /\ UNCHANGED <<habit, text, dependency, objects, executable, compiled, resolved, built>>
    BY <1>1, <1>16 DEF ReadBack
  <2>2. QED
    BY <2>1 DEF StillOK, CompilePlaces, HelperSettled, MainSettled, HasHelper, HasMain, Finishing
<1>17. QED
  BY <1>4, <1>5, <1>6, <1>7, <1>8, <1>10, <1>11, <1>12, <1>13, <1>14, <1>15, <1>16 DEF RunnerStep

\* Crowded users' commands rewrite a file to the same text, and link the same program.
LEMMA StillOfOther ==
  ASSUME TypeInv, NEW q \in Runners, NEW o \in Runners \ {q}, PlaceOK(q), PlaceOK(o), ReadOK(q), ReadOK(o),
         StillOK(q), StillOK(o), Alone, RunnerStep(q)
  PROVE  StillOK(o)'
<1> USE DEF executableFiles, executableMemory, Step
<1>1. UNCHANGED Memory(o) /\ dependency' = dependency /\ habit' = habit
  BY OthersKeep
<1>2. CASE habit # "crowded"
  <2>1. ~Running(o) /\ compiled[o] = Unread /\ resolved[o] = Nothing
    BY <1>2, OthersEmpty
  <2>2. \A f \in Sources : compiled[o][f] = Nothing
    BY <2>1 DEF Unread
  <2>3. QED
    BY <1>1, <1>2, <2>1, <2>2 DEF StillOK, Memory, Running, Over, CompilePlaces
<1>3. CASE habit = "crowded"
  <2>1. ASSUME NEW f \in Sources
        PROVE  /\ text'[f] \in {text[f], Canonical(text[f])}
  <3>1. CASE text' = text
      BY <3>1
    <3>2. CASE text' # text
      <4>1. RewriteHelper(q) \/ RewriteMain(q)
        BY <3>2 DEF RunnerStep, Begin, Hash, HashFile, Lookup, ResolveToReuse, Resolve, Verify, ReadMain, ReadHelper, ReadFile,
                    CheckHelper, Refresh, Fail, ImportNew, ImportKnown, CheckMain, Rehash, HashAgain, Diagnose,
                    Link, PutExecutable, ReadBack, Record, Run, Stop
      <4>2. PICK g \in Sources : text' = [text EXCEPT ![g] = Canonical(compiled[q][g])] /\ compiled[q][g] # Nothing
        BY <4>1 DEF RewriteHelper, RewriteMain, Rewrite, Sources, PlaceOK, HasHelper, HasMain, CompilePlaces
      <4>3. Canonical(compiled[q][g]) = Canonical(text[g])
        BY <1>3, <4>2, RewriteKeeps
      <4>4. QED
        BY <4>2, <4>3 DEF TypeInv, ExecutableTypeOK
    <3>3. QED
      BY <3>1, <3>2
  <2>2. \A f \in Sources : text[f] \in Texts /\ compiled[o][f] \in Texts \cup {Nothing}
    BY DEF TypeInv, ExecutableTypeOK
  <2>3. ASSUME NEW f \in Sources, compiled[o][f] # Nothing
        PROVE  /\ text'[f] \in {compiled[o][f], Canonical(compiled[o][f])}
               /\ text[f] = Canonical(compiled[o][f]) => text'[f] = Canonical(compiled[o][f])
    <3>1. text[f] \in {compiled[o][f], Canonical(compiled[o][f])}
      BY <1>3, <2>3 DEF StillOK
    <3>2. compiled[o][f] \in Texts
      BY <2>2, <2>3
    <3>3. Canonical(Canonical(compiled[o][f])) = Canonical(compiled[o][f])
      BY <3>2, CanonicalTyped
    <3>4. QED
      BY <2>1, <3>1, <3>3
  <2>4. at[o] \in HelperSettled => compiled[o]["helper"] # Nothing /\ text["helper"] = Canonical(compiled[o]["helper"])
    BY <1>3 DEF StillOK, PlaceOK, HelperSettled
  <2>5. at[o] \in MainSettled => compiled[o]["main"] # Nothing /\ text["main"] = Canonical(compiled[o]["main"])
    BY <1>3 DEF StillOK, PlaceOK, MainSettled, HasMain, CompilePlaces, Finishing
  <2>6. resolved[o] # Nothing => objects' = resolved[o] /\ resolved[o] = dependency
    <3>1. objects' \in {objects, dependency}
      BY DEF RunnerStep, Begin, Hash, HashFile, Lookup, ResolveToReuse, Resolve, Verify, ReadMain, ReadHelper, ReadFile,
             CheckHelper, Refresh, Fail, RewriteHelper, RewriteMain, Rewrite, ImportNew, ImportKnown, CheckMain, Rehash,
             HashAgain, Diagnose, Link, PutExecutable, ReadBack, Record, Run, Stop
    <3>2. QED
      BY <1>3, <3>1 DEF StillOK
  <2>7. at[o] \in {"readBack", "record"} => executable' = built[o]
    <3>1. CASE PutExecutable(q)
      <4> SUFFICES ASSUME at[o] \in {"readBack", "record"} PROVE executable' = built[o]
        OBVIOUS
      <4>1. at[q] = "install" /\ executable' = built[q]
        BY <3>1 DEF PutExecutable
      <4>2. built[q] = Linked(q) /\ built[o] = Linked(o)
        BY <4>1 DEF ReadOK
      <4>3. at[q] \in Finishing /\ at[o] \in Finishing
        BY <4>1 DEF Finishing
      <4>4. Linked(q) = [f \in Parts |-> IF f = "dependency" THEN dependency ELSE text[f].revision]
        BY <1>3, <4>3, LinkedIsOnDisk
      <4>5. Linked(o) = [f \in Parts |-> IF f = "dependency" THEN dependency ELSE text[f].revision]
        BY <1>3, <4>3, LinkedIsOnDisk
      <4>6. QED
        BY <4>1, <4>2, <4>4, <4>5
    <3>2. CASE ~PutExecutable(q)
      <4>1. executable' = executable
        BY <3>2 DEF RunnerStep, Begin, Hash, HashFile, Lookup, ResolveToReuse, Resolve, Verify, ReadMain, ReadHelper, ReadFile,
                    CheckHelper, Refresh, Fail, RewriteHelper, RewriteMain, Rewrite, ImportNew, ImportKnown, CheckMain, Rehash,
                    HashAgain, Diagnose, Link, ReadBack, Record, Run, Stop
      <4>2. QED
        BY <4>1 DEF StillOK
    <3>3. QED
      BY <3>1, <3>2
  <2>8. "helper" \in Sources /\ "main" \in Sources
    BY DEF Sources
  <2>9. QED
    BY <1>1, <2>3, <2>4, <2>5, <2>6, <2>7, <2>8 DEF StillOK, Memory
<1>4. QED
  BY <1>2, <1>3

\* Nobody saves while it matters.
LEMMA StillOfEdit ==
  ASSUME NEW o \in Runners, PlaceOK(o), StillOK(o), habit \in {"careful", "crowded"},
         EditDependency \/ \E f \in Sources : EditSource(f)
  PROVE  StillOK(o)'
<1>1. UNCHANGED <<habit, Memory(o), objects, executable>>
  BY DEF EditDependency, EditSource, Memory
<1>2. CASE habit = "careful"
  <2>1. at[o] \notin CompilePlaces
    BY <1>2 DEF EditDependency, EditSource, MayEdit, Compiling, CompilePlaces
  <2>2. QED
    BY <1>1, <1>2, <2>1 DEF StillOK, Memory
<1>3. CASE habit = "crowded"
  <2>1. at[o] \in Over
    BY <1>3 DEF EditDependency, EditSource, MayEdit
  <2>2. compiled[o] = Unread /\ resolved[o] = Nothing
    BY <2>1 DEF PlaceOK, Running
  <2>3. \A f \in Sources : compiled[o][f] = Nothing
    BY <2>2 DEF Unread
  <2>4. QED
    BY <1>1, <2>1, <2>2, <2>3 DEF StillOK, Memory, Over, HelperSettled, MainSettled, HasHelper, HasMain, CompilePlaces, Finishing
<1>4. QED
  BY <1>2, <1>3

-----------------------------------------------------------------------------
(* The theorems                                                             *)

LEMMA InitHolds == ExecutableInit => ExecutableInv
<1> SUFFICES ASSUME ExecutableInit PROVE ExecutableInv
  OBVIOUS
<1> USE DEF ExecutableInit
<1>1. TypeInv
  <2>1. Unread \in [Sources -> Texts \cup {Nothing}]
    BY DEF Unread
  <2>2. text \in [Sources -> Texts] /\ First \in Revisions
    BY ExecutableAssumption DEF Texts
  <2>3. at \in [Runners -> Positions]
    BY DEF Positions, Over
  <2>4. recent \in [Runners -> [Parts -> SUBSET Revisions]]
    OBVIOUS
  <2>5. edits \in 0 .. MaxEdits /\ kills \in 0 .. MaxKills
    BY ExecutableAssumption
  <2>6. QED
    BY <2>1, <2>2, <2>3, <2>4, <2>5 DEF TypeInv, ExecutableTypeOK
<1>2. ASSUME NEW q \in Runners PROVE PlaceOK(q) /\ ReadOK(q) /\ RecentOK(q) /\ StillOK(q) /\ ~Running(q)
  <2>1. /\ at[q] = "idle" /\ saved[q] = Nothing /\ hashed[q] = Unread /\ compiled[q] = Unread /\ resolved[q] = Nothing
        /\ \A f \in Sources : hashed[q][f] = Nothing /\ compiled[q][f] = Nothing
    BY DEF Unread
  <2>2. PlaceOK(q) /\ ~Running(q)
    BY <2>1 DEF PlaceOK, Running, Over, HasMain, HasHelper, HasDependency, MainSettled, Checking, CompilePlaces, Finishing
  <2>3. ReadOK(q)
    BY <2>1 DEF ReadOK, Finishing
  <2>4. RecentOK(q)
    BY <2>1, <2>2 DEF RecentOK
  <2>5. StillOK(q)
    BY <2>1 DEF StillOK, HelperSettled, MainSettled, HasMain, HasHelper, CompilePlaces, Finishing
  <2>6. QED
    BY <2>2, <2>3, <2>4, <2>5
<1>3. record = Nothing
  OBVIOUS
<1>4. QED
  BY <1>1, <1>2, <1>3 DEF ExecutableInv, FaithfulInv, Alone

LEMMA StepHolds == ExecutableInv /\ [ExecutableNext]_executableVars => ExecutableInv'
<1> SUFFICES ASSUME ExecutableInv, [ExecutableNext]_executableVars PROVE ExecutableInv'
  OBVIOUS
<1>1. TypeInv /\ (\A q \in Runners : PlaceOK(q)) /\ (habit # "hasty" => FaithfulInv)
  BY DEF ExecutableInv
<1>2. \/ \E q \in Runners : RunnerStep(q)
      \/ EditDependency \/ \E f \in Sources : EditSource(f)
      \/ UNCHANGED executableVars
  BY DEF ExecutableNext, RunnerStep
<1>3. TypeInv'
  <2>1. CASE UNCHANGED executableVars
    BY <1>1, <2>1 DEF TypeInv, ExecutableTypeOK, executableVars, executableFiles, executableMemory
  <2>2. QED
    BY <1>1, <1>2, <2>1, StepTyped, EditTyped
<1>4. \A o \in Runners : PlaceOK(o)'
  BY <1>1, <1>3, PlacePreserved
<1>5. ASSUME habit' # "hasty" PROVE FaithfulInv'
  <2>1. habit' = habit
    BY <1>2 DEF RunnerStep, Begin, Hash, HashFile, Lookup, ResolveToReuse, Resolve, Verify, ReadMain, ReadHelper, ReadFile,
                CheckHelper, Refresh, Fail, RewriteHelper, RewriteMain, Rewrite, ImportNew, ImportKnown, CheckMain, Rehash,
                HashAgain, Diagnose, Link, PutExecutable, ReadBack, Record, Run, Stop, EditDependency, EditSource, executableVars
  <2>2. /\ Alone /\ (record # Nothing => Good(record))
        /\ \A q \in Runners : ReadOK(q) /\ RecentOK(q) /\ StillOK(q)
    BY <1>1, <1>5, <2>1 DEF FaithfulInv
  <2>3. habit \in {"careful", "crowded"}
    BY <1>1, <1>5, <2>1, ExecutableAssumption DEF TypeInv, ExecutableTypeOK
  <2>4. Alone' /\ (record' # Nothing => Good(record'))
    BY <1>1, <2>2, AlonePreserved, RecordPreserved
  <2>5. CASE \E q \in Runners : RunnerStep(q)
    <3>1. PICK q \in Runners : RunnerStep(q)
      BY <2>5
    <3>2. ReadOK(q)' /\ RecentOK(q)' /\ StillOK(q)'
      BY <1>1, <1>3, <2>2, <3>1, ReadOfStep, RecentOfStep, StillOfStep
    <3>3. ASSUME NEW o \in Runners \ {q} PROVE ReadOK(o)' /\ RecentOK(o)' /\ StillOK(o)'
      <4>1. UNCHANGED Memory(o)
        BY <1>1, <3>1, OthersKeep
      <4>2. ReadOK(o)'
        BY <2>2, <4>1 DEF ReadOK, Memory, Linked
      <4>3. RecentOK(o)'
        BY <1>1, <2>2, <3>1, RecentOfOther
      <4>4. StillOK(o)'
        BY <1>1, <2>2, <3>1, StillOfOther
      <4>5. QED
        BY <4>2, <4>3, <4>4
    <3>4. QED
      BY <2>4, <3>2, <3>3 DEF FaithfulInv
  <2>6. CASE EditDependency \/ \E f \in Sources : EditSource(f)
    <3>1. ASSUME NEW o \in Runners PROVE ReadOK(o)' /\ RecentOK(o)' /\ StillOK(o)'
      <4>1. UNCHANGED Memory(o)
        BY <2>6 DEF EditDependency, EditSource, Memory
      <4>2. ReadOK(o)'
        BY <2>2, <4>1 DEF ReadOK, Memory, Linked
      <4>3. RecentOK(o)' /\ StillOK(o)'
        BY <1>1, <2>2, <2>3, <2>6, RecentOfEdit, StillOfEdit
      <4>4. QED
        BY <4>2, <4>3
    <3>2. QED
      BY <2>4, <3>1 DEF FaithfulInv
  <2>7. CASE UNCHANGED executableVars
    <3>1. ASSUME NEW o \in Runners PROVE ReadOK(o)' /\ RecentOK(o)' /\ StillOK(o)'
      <4>1. ReadOK(o)'
        BY <2>2, <2>7 DEF ReadOK, Linked, executableVars, executableFiles, executableMemory
      <4>2. RecentOK(o)'
        BY <2>2, <2>7 DEF RecentOK, Running, executableVars, executableFiles, executableMemory
      <4>3. StillOK(o)'
        BY <2>2, <2>7 DEF StillOK, executableVars, executableFiles, executableMemory
      <4>4. QED
        BY <4>1, <4>2, <4>3
    <3>2. QED
      BY <2>4, <3>1 DEF FaithfulInv
  <2>8. QED
    BY <1>2, <2>5, <2>6, <2>7
<1>6. QED
  BY <1>3, <1>4, <1>5 DEF ExecutableInv

(* The inductive invariant holds in every reachable state.                  *)
THEOREM ExecutableInvariance == ExecutableSpec => []ExecutableInv
<1>1. ExecutableInit => ExecutableInv
  BY InitHolds
<1>2. ExecutableInv /\ [ExecutableNext]_executableVars => ExecutableInv'
  BY StepHolds
<1>3. QED
  BY <1>1, <1>2, PTL DEF ExecutableSpec

(* Every variable keeps its type, whatever users do: nothing is linked,     *)
(* recorded or written back that was not read before.                       *)
THEOREM ExecutableTypeCorrect == ExecutableSpec => []ExecutableTypeOK
<1>1. ExecutableInv => ExecutableTypeOK
  BY DEF ExecutableInv, TypeInv
<1>2. QED
  BY <1>1, ExecutableInvariance, PTL

(* No command refuses because another one rewrote a file: only a user who   *)
(* saves while it compiles makes it.                                        *)
THEOREM CommandsNeverRefuse == ExecutableSpec => []OnlyEditsRefuse
<1>1. ExecutableInv => OnlyEditsRefuse
  BY DEF ExecutableInv, FaithfulInv, ReadOK, OnlyEditsRefuse
<1>2. QED
  BY <1>1, ExecutableInvariance, PTL

(* What sev run executes was on disk while it ran, unless someone saves     *)
(* while a command compiles.                                                *)
THEOREM SavedIsRun == "hasty" \notin Habits => (ExecutableSpec => []RunsWhatWasSaved)
<1> SUFFICES ASSUME "hasty" \notin Habits PROVE ExecutableSpec => []RunsWhatWasSaved
  OBVIOUS
<1>1. ExecutableInv => RunsWhatWasSaved
  <2>1. ExecutableInv => habit # "hasty"
    BY DEF ExecutableInv, TypeInv, ExecutableTypeOK
  <2>2. QED
    BY <2>1 DEF ExecutableInv, FaithfulInv, RecentOK, RunsWhatWasSaved
<1>2. QED
  BY <1>1, ExecutableInvariance, PTL

(* A record made from the revisions on disk is found to be of them, though  *)
(* the compilation itself rewrote the files.                                *)
THEOREM RecordIsReused == "hasty" \notin Habits => (ExecutableSpec => []UnchangedIsReused)
<1> SUFFICES ASSUME "hasty" \notin Habits PROVE ExecutableSpec => []UnchangedIsReused
  OBVIOUS
<1>1. ExecutableInv => UnchangedIsReused
  <2> SUFFICES ASSUME ExecutableInv, record # Nothing, NEW f \in Sources,
                      record.sources[f].revision = text[f].revision, ~text[f].raw
               PROVE  record.sources[f] = text[f]
    BY DEF UnchangedIsReused
  <2>1. habit # "hasty" /\ record \in Records /\ text[f] \in Texts
    BY DEF ExecutableInv, TypeInv, ExecutableTypeOK
  <2>2. ~record.sources[f].raw
    BY <2>1 DEF ExecutableInv, FaithfulInv, Good
  <2>3. record.sources[f] \in Texts
    BY <2>1 DEF Records
  <2>4. QED
    BY <2>1, <2>2, <2>3 DEF Texts
<1>2. QED
  BY <1>1, ExecutableInvariance, PTL

-----------------------------------------------------------------------------
(* Domains.  A bound that a comparison moves is justified by the input that  *)
(* satisfies it: the value of some place, or a constant, that is below it    *)
(* or above it.  Rounding a bound outward to the values of a type loses none *)
(* of them (BoundIsSound), so no move passes the input (NarrowKeeps), and no *)
(* visit and no round does (ConstrainKeeps).                                 *)

\* A finite set of integers has a largest and a smallest member.
LEMMA ExtremesExist ==
  ASSUME NEW S \in SUBSET Int, IsFiniteSet(S), S # {}
  PROVE  /\ Max(S) \in S /\ \A x \in S : x <= Max(S)
         /\ Min(S) \in S /\ \A x \in S : Min(S) <= x
<1> DEFINE Has(T) == /\ \E x \in T : \A y \in T : x >= y
                     /\ \E x \in T : \A y \in T : x =< y
<1> DEFINE N == {n \in Nat : \A T \in SUBSET Int : IsFiniteSet(T) /\ Cardinality(T) = n /\ T # {} => Has(T)}
<1>1. 0 \in N
  BY FS_EmptySet
<1>2. ASSUME NEW n \in Nat, n \in N PROVE n + 1 \in N
  <2> SUFFICES ASSUME NEW T \in SUBSET Int, IsFiniteSet(T), Cardinality(T) = n + 1, T # {}
               PROVE  Has(T)
    OBVIOUS
  <2>1. PICK z : z \in T
    OBVIOUS
  <2> DEFINE R == T \ {z}
  <2>2. IsFiniteSet(R) /\ Cardinality(R) = n /\ R \in SUBSET Int
    <3>1. IsFiniteSet(R) /\ Cardinality(R) = Cardinality(T) - 1
      BY <2>1, FS_RemoveElement
    <3>2. R \in SUBSET Int
      OBVIOUS
    <3>3. Cardinality(T) - 1 = n
      OBVIOUS
    <3> HIDE DEF R
    <3> QED BY <3>1, <3>2, <3>3
  <2>3. CASE R = {}
    BY <2>1, <2>3
  <2>4. CASE R # {}
    <3>1. PICK a \in R : \A y \in R : a >= y
      BY <1>2, <2>2, <2>4
    <3>2. PICK b \in R : \A y \in R : b =< y
      BY <1>2, <2>2, <2>4
    <3>3. \A y \in T : y = z \/ y \in R
      OBVIOUS
    <3>4. \E x \in T : \A y \in T : x >= y
      <4> HIDE DEF R
      <4>1. CASE z >= a
        BY <3>1, <3>3, <4>1, <2>1, <2>2
      <4>2. CASE a >= z
        <5>1. a \in T BY DEF R
        <5> QED BY <3>1, <3>3, <4>2, <5>1, <2>1, <2>2
      <4> QED BY <4>1, <4>2, <2>1, <3>1, <2>2
    <3>5. \E x \in T : \A y \in T : x =< y
      <4> HIDE DEF R
      <4>1. CASE z =< b
        BY <3>2, <3>3, <4>1, <2>1, <2>2
      <4>2. CASE b =< z
        <5>1. b \in T BY DEF R
        <5> QED BY <3>2, <3>3, <4>2, <5>1, <2>1, <2>2
      <4> QED BY <4>1, <4>2, <2>1, <3>2, <2>2
    <3> QED BY <3>4, <3>5
  <2> QED BY <2>3, <2>4
<1>3. Cardinality(S) \in N
  <2>1. Cardinality(S) \in Nat BY FS_CardinalityType
  <2> HIDE DEF N
  <2> QED BY <1>1, <1>2, <2>1, SetInduction
<1>4. Has(S)
  BY <1>3
<1>5. QED
  BY <1>4 DEF Max, Min

\* What the division by One keeps of v.
LEMMA Division ==
  ASSUME NEW v \in Int
  PROVE  /\ v \div One \in Int
         /\ (v \div One) * One <= v /\ v < (v \div One) * One + One
         /\ v % One = 0 => v = (v \div One) * One
BY DomainsAssumption

LEMMA Multiples ==
  ASSUME NEW a \in Int, NEW b \in Int
  PROVE  /\ a * One \in Int
         /\ a * One < b * One + One => a <= b
         /\ a * One < b * One => a * One + One <= b * One
         /\ (a + 1) * One = a * One + One
         /\ (-a) * One = -(a * One)
BY DomainsAssumption

\* w is a value that type t can have.
IsOf(w, t) == w \in Int /\ -Unlimited < w /\ w < Unlimited /\ IF IsFloat(t) THEN w \in Grid[t] ELSE w % One = 0

LEMMA GridTyped ==
  ASSUME NEW t \in FloatTypes
  PROVE  /\ Grid[t] \in SUBSET Int /\ IsFiniteSet(Grid[t]) /\ Grid[t] # {}
         /\ Max(Grid[t]) \in Grid[t] /\ \A g \in Grid[t] : g <= Max(Grid[t])
         /\ Min(Grid[t]) \in Grid[t] /\ \A g \in Grid[t] : Min(Grid[t]) <= g
         /\ \A g \in Grid[t] : -Unlimited < g /\ g < Unlimited
<1>1. Grid[t] \in SUBSET Int /\ IsFiniteSet(Grid[t]) /\ Grid[t] # {}
  BY DomainsAssumption
<1>2. \A g \in Grid[t] : -Unlimited < g /\ g < Unlimited
  BY DomainsAssumption
<1> QED BY <1>1, <1>2, ExtremesExist

\* Rounding keeps the order of v and the values of the type.
LEMMA RoundingIsNear ==
  ASSUME NEW t \in FloatTypes, NEW v \in Int
  PROVE  LET r == RoundedFloat(v, t)
         IN  /\ r \in Grid[t] \cup {Unlimited, -Unlimited} /\ r \in Int
             /\ \A g \in Grid[t] : /\ v <= g => r <= g
                                   /\ g <= v => g <= r
             /\ v \in Grid[t] => r = v
<1> DEFINE G == Grid[t]
           B == {g \in G : g <= v}
           A == {g \in G : g >= v}
           below == Max(B)
           above == Min(A)
<1>0. Unlimited \in Nat
  BY DomainsAssumption
<1>1. CASE v > Max(G)
  <2>1. RoundedFloat(v, t) = Unlimited
    BY <1>1, GridTyped DEF RoundedFloat
  <2> QED BY <1>0, <1>1, <2>1, GridTyped
<1>2. CASE v < Min(G)
  <2>1. ~(v > Max(G))
    BY <1>2, GridTyped
  <2>2. RoundedFloat(v, t) = -Unlimited
    BY <1>2, <2>1 DEF RoundedFloat
  <2> QED BY <1>0, <1>2, <2>2, GridTyped
<1>3. CASE ~(v > Max(G)) /\ ~(v < Min(G))
  <2>1. RoundedFloat(v, t) \in {below, above}
    BY <1>3 DEF RoundedFloat
  <2>2. below \in B /\ \A g \in B : g <= below
    <3>1. B \in SUBSET Int /\ IsFiniteSet(B)
      BY GridTyped, FS_Subset
    <3>2. Min(G) \in B
      BY <1>3, GridTyped
    <3> QED BY <3>1, <3>2, ExtremesExist
  <2>3. above \in A /\ \A g \in A : above <= g
    <3>1. A \in SUBSET Int /\ IsFiniteSet(A)
      BY GridTyped, FS_Subset
    <3>2. Max(G) \in A
      BY <1>3, GridTyped
    <3> QED BY <3>1, <3>2, ExtremesExist
  <2> HIDE DEF below, above
  <2>4. below \in G /\ above \in G /\ below <= v /\ v <= above /\ below \in Int /\ above \in Int
    BY <2>2, <2>3, GridTyped
  <2>5. \A g \in G : g \in Int /\ (v <= g => above <= g) /\ (g <= v => g <= below)
    BY <2>2, <2>3, GridTyped
  <2>6. v \in G => below = v /\ above = v
    BY <2>4, <2>5
  <2> HIDE DEF G
  <2>7. /\ \A g \in G : (v <= g => below <= g) /\ (g <= v => g <= above)
    BY <2>4, <2>5
  <2> QED BY <2>1, <2>4, <2>5, <2>6, <2>7 DEF G
<1> QED BY <1>1, <1>2, <1>3

\* No value of the grid is between g and its neighbour.
LEMMA AdjacentBounds ==
  ASSUME NEW t \in FloatTypes, NEW v \in Int
  PROVE  /\ AdjacentFloat(v, t, TRUE) \in Int /\ AdjacentFloat(v, t, FALSE) \in Int
         /\ AdjacentFloat(v, t, TRUE) \in {g \in Grid[t] : g > v} \cup {Unlimited}
         /\ AdjacentFloat(v, t, FALSE) \in {g \in Grid[t] : g < v} \cup {-Unlimited}
         /\ \A g \in Grid[t] : /\ v < g => AdjacentFloat(v, t, TRUE) <= g
                               /\ g < v => g <= AdjacentFloat(v, t, FALSE)
<1> DEFINE U == {g \in Grid[t] : g > v}
           D == {g \in Grid[t] : g < v}
<1>0. Unlimited \in Nat
  BY DomainsAssumption
<1>1. U \cup {Unlimited} \in SUBSET Int /\ IsFiniteSet(U \cup {Unlimited})
  <2>1. IsFiniteSet(U) BY GridTyped, FS_Subset
  <2>2. IsFiniteSet(U \cup {Unlimited}) BY <2>1, FS_AddElement
  <2> QED BY <1>0, <2>2, GridTyped
<1>2. D \cup {-Unlimited} \in SUBSET Int /\ IsFiniteSet(D \cup {-Unlimited})
  <2>1. IsFiniteSet(D) BY GridTyped, FS_Subset
  <2>2. IsFiniteSet(D \cup {-Unlimited}) BY <2>1, FS_AddElement
  <2> QED BY <1>0, <2>2, GridTyped
<1>3. /\ Min(U \cup {Unlimited}) \in U \cup {Unlimited} /\ Max(D \cup {-Unlimited}) \in D \cup {-Unlimited}
      /\ Min(U \cup {Unlimited}) \in Int /\ \A g \in U : Min(U \cup {Unlimited}) <= g
      /\ Max(D \cup {-Unlimited}) \in Int /\ \A g \in D : g <= Max(D \cup {-Unlimited})
  <2> HIDE DEF U, D
  <2> QED BY <1>1, <1>2, ExtremesExist
<1> QED BY <1>3 DEF AdjacentFloat

(* comparison_bound loses no value: what is above v, or at it, is above the  *)
(* bound that v gives, and likewise below.                                   *)
LEMMA BoundIsSound ==
  ASSUME NEW t, NEW v \in Int, NEW strict \in BOOLEAN, NEW lower \in BOOLEAN
  PROVE  /\ ComparisonBound(v, t, lower, strict) \in Int
         /\ \A w : IsOf(w, t) =>
              /\ lower /\ (IF strict THEN v < w ELSE v <= w) => ComparisonBound(v, t, lower, strict) <= w
              /\ ~lower /\ (IF strict THEN w < v ELSE w <= v) => w <= ComparisonBound(v, t, lower, strict)
<1> DEFINE b == ComparisonBound(v, t, lower, strict)
<1>1. CASE v \in {Unlimited, -Unlimited}
  <2>1. b = v BY <1>1 DEF ComparisonBound
  <2> QED BY <2>1 DEF IsOf
<1>2. CASE v \notin {Unlimited, -Unlimited} /\ IsFloat(t)
  <2>1. b = FloatBound(v, t, lower, strict)
    BY <1>2 DEF ComparisonBound
  <2> DEFINE r == RoundedFloat(v, t)
  <2>2. t \in FloatTypes
    BY <1>2 DEF IsFloat
  <2>3. r \in Int /\ \A g \in Grid[t] : (v <= g => r <= g) /\ (g <= v => g <= r)
    BY <2>2, RoundingIsNear
  <2> HIDE DEF r
  <2>4. /\ AdjacentFloat(r, t, TRUE) \in Int /\ AdjacentFloat(r, t, FALSE) \in Int
        /\ \A g \in Grid[t] : /\ r < g => AdjacentFloat(r, t, TRUE) <= g
                              /\ g < r => g <= AdjacentFloat(r, t, FALSE)
    BY <2>2, <2>3, AdjacentBounds
  <2>5. b = IF (IF lower THEN r < v ELSE r > v) \/ (strict /\ r = v) THEN AdjacentFloat(r, t, lower) ELSE r
    BY <2>1 DEF FloatBound, r
  <2>6. b \in Int
    BY <2>3, <2>4, <2>5
  <2>7. ASSUME NEW w, IsOf(w, t), lower, IF strict THEN v < w ELSE v <= w PROVE b <= w
    <3>1. w \in Int /\ w \in Grid[t]
      BY <1>2, <2>7 DEF IsOf
    <3>2. r <= w
      BY <2>3, <2>7, <3>1
    <3>3. CASE r < v \/ (strict /\ r = v)
      <4>1. lower = TRUE /\ b = AdjacentFloat(r, t, TRUE)
        BY <2>5, <2>7, <3>3
      <4>2. r < w
        BY <2>3, <2>7, <3>1, <3>2, <3>3
      <4> QED BY <2>4, <3>1, <4>1, <4>2
    <3>4. CASE ~(r < v \/ (strict /\ r = v))
      BY <2>5, <2>7, <3>2, <3>4
    <3> QED BY <3>3, <3>4
  <2>8. ASSUME NEW w, IsOf(w, t), ~lower, IF strict THEN w < v ELSE w <= v PROVE w <= b
    <3>1. w \in Int /\ w \in Grid[t]
      BY <1>2, <2>8 DEF IsOf
    <3>2. w <= r
      BY <2>3, <2>8, <3>1
    <3>3. CASE r > v \/ (strict /\ r = v)
      <4>1. lower = FALSE /\ b = AdjacentFloat(r, t, FALSE)
        BY <2>5, <2>8, <3>3
      <4>2. w < r
        BY <2>3, <2>8, <3>1, <3>2, <3>3
      <4> QED BY <2>4, <3>1, <4>1, <4>2
    <3>4. CASE ~(r > v \/ (strict /\ r = v))
      BY <2>5, <2>8, <3>2, <3>4
    <3> QED BY <3>3, <3>4
  <2> QED BY <2>6, <2>7, <2>8
<1>3. CASE v \notin {Unlimited, -Unlimited} /\ ~IsFloat(t)
  <2>1. b = IntegerBound(v, lower, strict)
    BY <1>3 DEF ComparisonBound
  <2> DEFINE a == v \div One
             c == (-v) \div One
  <2>2. /\ a \in Int /\ a * One \in Int /\ a * One <= v /\ v < a * One + One
        /\ c \in Int /\ c * One \in Int /\ c * One <= -v /\ -v < c * One + One
    BY Division, Multiples
  <2>3. /\ Floor(v) = a * One /\ Ceil(v) = -(c * One)
    <3>1. Floor(v) = a * One BY DEF Floor
    <3>2. Ceil(v) = -(c * One) BY DEF Ceil
    <3> QED BY <3>1, <3>2, <2>2, Multiples
  <2>4. One \in Int BY DomainsAssumption
  <2> HIDE DEF a, c
  <2>5. b \in Int
    BY <2>1, <2>2, <2>3, <2>4 DEF IntegerBound
  <2>6. ASSUME NEW w, IsOf(w, t) PROVE /\ v < w => a * One + One <= w
                                       /\ v <= w => -(c * One) <= w
                                       /\ w < v => w <= -(c * One) - One
                                       /\ w <= v => w <= a * One
    <3>1. w \in Int /\ w % One = 0
      BY <1>3, <2>6 DEF IsOf
    <3>2. PICK e \in Int : w = e * One /\ e * One \in Int
      BY <3>1, Division, Multiples
    <3>3. (-e) \in Int /\ (-e) * One = -(e * One)
      BY <3>2, Multiples
    <3>4. /\ a * One < e * One => a * One + One <= e * One
          /\ e * One < a * One + One => e * One <= a * One
      BY <2>2, <2>4, <3>2, Multiples
    <3>5. /\ c * One < (-e) * One => c * One + One <= (-e) * One
          /\ (-e) * One < c * One + One => (-e) * One <= c * One
      BY <2>2, <2>4, <3>2, <3>3, Multiples
    <3>6. -w = (-e) * One /\ w = e * One
      BY <3>2, <3>3
    <3> QED BY <2>2, <2>4, <3>2, <3>3, <3>4, <3>5, <3>6
  <2>7. ASSUME NEW w, IsOf(w, t)
        PROVE  /\ lower /\ (IF strict THEN v < w ELSE v <= w) => b <= w
               /\ ~lower /\ (IF strict THEN w < v ELSE w <= v) => w <= b
    BY <2>1, <2>3, <2>6, <2>7 DEF IntegerBound
  <2> QED BY <2>5, <2>7
<1> QED BY <1>1, <1>2, <1>3

-----------------------------------------------------------------------------
(* An input, its values at the places of the domains, and the bounds that    *)
(* keep it.                                                                  *)
InputOf(s, args) ==
  /\ DOMAIN args = DOMAIN s
  /\ \A q \in DOMAIN s :
       IF s[q].list THEN \E n \in 1 .. MaxItems : args[q] \in [1 .. n -> ValuesOf(s[q].type)]
                    ELSE args[q] \in ValuesOf(s[q].type)

Of(args, p, i) == p[2] = "item" => i \in DOMAIN args[p[1]]

At(args, p, i) ==
  IF p[2] = "value" THEN args[p[1]]
  ELSE IF p[2] = "length" THEN Len(args[p[1]]) * One
  ELSE args[p[1]][i]

Keeps(d, args) ==
  \A p \in Places : \A i : Of(args, p, i) => d[p].lower <= At(args, p, i) /\ At(args, p, i) <= d[p].upper

DomainsType == [Places -> [lower : Int, upper : Int]]

LEMMA SignatureTyped ==
  ASSUME shape \in Signatures
  PROVE  /\ \A q \in DOMAIN shape : /\ q \in Nat \ {0}
                                    /\ shape[q].type \in FloatTypes \cup DOMAIN Integral
                                    /\ shape[q].list \in BOOLEAN
         /\ \A p \in Places : /\ p[1] \in DOMAIN shape /\ p[2] \in {"value", "length", "item"}
                              /\ shape[p[1]].list <=> p[2] # "value"
                              /\ p = <<p[1], p[2]>>
<1>1. \A q \in DOMAIN shape : /\ q \in Nat \ {0}
                              /\ shape[q].type \in FloatTypes \cup DOMAIN Integral
                              /\ shape[q].list \in BOOLEAN
  BY DomainsAssumption
<1> QED BY <1>1 DEF Places, PlacesOf

\* The values of a type are within its range.
LEMMA ValuesAreOf ==
  ASSUME NEW t \in FloatTypes \cup DOMAIN Integral, NEW w \in ValuesOf(t)
  PROVE  IsOf(w, t) /\ (~IsFloat(t) => Integral[t].lower <= w /\ w <= Integral[t].upper)
<1>0. Unlimited \in Nat /\ One \in Nat \ {0}
  BY DomainsAssumption
<1>1. CASE IsFloat(t)
  <2>1. w \in Grid[t] BY <1>1 DEF ValuesOf
  <2>2. w \in Int /\ -Unlimited < w /\ w < Unlimited
    BY <1>1, <2>1, GridTyped DEF IsFloat
  <2> QED BY <1>1, <2>1, <2>2 DEF IsOf
<1>2. CASE ~IsFloat(t)
  <2> DEFINE lo == Integral[t].lower
             hi == Integral[t].upper
  <2>1. lo \in Int /\ hi \in Int /\ lo % One = 0 /\ hi % One = 0 /\ -Unlimited < lo /\ hi < Unlimited
    BY <1>2, DomainsAssumption DEF IsFloat
  <2>2. PICK n \in (lo \div One) .. (hi \div One) : w = n * One
    BY <1>2 DEF ValuesOf
  <2> HIDE DEF lo, hi
  <2>3. lo \div One \in Int /\ hi \div One \in Int /\ n \in Int /\ lo \div One <= n /\ n <= hi \div One
    BY <2>1, <2>2, Division
  <2>4. lo = (lo \div One) * One /\ hi = (hi \div One) * One
    BY <2>1, Division
  <2>5. (lo \div One) * One <= n * One /\ n * One <= (hi \div One) * One
    BY <1>0, <2>3
  <2>6. n * One \in Int /\ (n * One) % One = 0
    BY <1>0, <2>3
  <2>7. w \in Int /\ lo <= w /\ w <= hi /\ w % One = 0
    BY <2>1, <2>2, <2>4, <2>5, <2>6
  <2>8. -Unlimited < w /\ w < Unlimited
    BY <1>0, <2>1, <2>7
  <2> QED BY <1>2, <2>7, <2>8 DEF IsOf, lo, hi
<1> QED BY <1>1, <1>2

\* A list of an input has items, at most MaxItems, all of the type.
LEMMA ListTyped ==
  ASSUME shape \in Signatures, NEW args, InputOf(shape, args), NEW q \in DOMAIN shape, shape[q].list
  PROVE  /\ Len(args[q]) \in 1 .. MaxItems
         /\ DOMAIN args[q] = 1 .. Len(args[q])
         /\ \A i \in DOMAIN args[q] : args[q][i] \in ValuesOf(shape[q].type)
<1>1. PICK n \in 1 .. MaxItems : args[q] \in [1 .. n -> ValuesOf(shape[q].type)]
  BY DEF InputOf
<1>2. MaxItems \in Nat
  BY DomainsAssumption
<1>3. args[q] \in Seq(ValuesOf(shape[q].type)) /\ Len(args[q]) = n
  BY <1>1, <1>2
<1> QED BY <1>1, <1>2, <1>3

\* What an input has at a place is a value of the type there.
LEMMA AtIsOf ==
  ASSUME shape \in Signatures, NEW args, InputOf(shape, args), NEW p \in Places, NEW i, Of(args, p, i)
  PROVE  IsOf(At(args, p, i), TypeAt(p))
<1>1. /\ p[1] \in DOMAIN shape /\ p[2] \in {"value", "length", "item"}
      /\ shape[p[1]].list <=> p[2] # "value"
      /\ shape[p[1]].type \in FloatTypes \cup DOMAIN Integral
  BY SignatureTyped
<1>2. CASE p[2] = "value"
  <2>1. args[p[1]] \in ValuesOf(shape[p[1]].type)
    BY <1>1, <1>2 DEF InputOf
  <2> QED BY <1>1, <1>2, <2>1, ValuesAreOf DEF At, TypeAt
<1>3. CASE p[2] = "item"
  <2>1. args[p[1]][i] \in ValuesOf(shape[p[1]].type)
    BY <1>1, <1>3, ListTyped DEF Of
  <2> QED BY <1>1, <1>3, <2>1, ValuesAreOf DEF At, TypeAt
<1>4. CASE p[2] = "length"
  <2> DEFINE n == Len(args[p[1]])
  <2>1. n \in 1 .. MaxItems
    BY <1>1, <1>4, ListTyped
  <2>2. MaxItems \in Nat /\ One \in Nat \ {0} /\ Unlimited \in Nat /\ MaxItems * One < Unlimited
    BY DomainsAssumption
  <2> HIDE DEF n
  <2>3. n * One \in Int /\ (n * One) % One = 0 /\ 0 <= n * One /\ n * One <= MaxItems * One
    BY <2>1, <2>2
  <2>4. MaxItems * One \in Int
    BY <2>2
  <2>5. -Unlimited < n * One /\ n * One < Unlimited
    BY <2>2, <2>3, <2>4
  <2>6. ~IsFloat("length")
    BY DomainsAssumption DEF IsFloat
  <2>7. At(args, p, i) = n * One /\ TypeAt(p) = "length"
    BY <1>4 DEF At, TypeAt, n
  <2> QED BY <2>3, <2>5, <2>6, <2>7 DEF IsOf
<1> QED BY <1>1, <1>2, <1>3, <1>4

\* Every input lies in the domains of its types.
LEMMA DomainsBegin ==
  ASSUME shape \in Signatures
  PROVE  /\ [p \in Places |-> Domain(p)] \in DomainsType
         /\ \A args : InputOf(shape, args) => Keeps([p \in Places |-> Domain(p)], args)
<1>0. Unlimited \in Nat /\ "length" \notin FloatTypes \cup DOMAIN Integral
  BY DomainsAssumption
<1>1. ASSUME NEW p \in Places
      PROVE  /\ Domain(p) \in [lower : Int, upper : Int]
             /\ \A args, i : InputOf(shape, args) /\ Of(args, p, i) =>
                  Domain(p).lower <= At(args, p, i) /\ At(args, p, i) <= Domain(p).upper
  <2>1. /\ p[1] \in DOMAIN shape /\ p[2] \in {"value", "length", "item"}
        /\ shape[p[1]].list <=> p[2] # "value"
        /\ shape[p[1]].type \in FloatTypes \cup DOMAIN Integral
    BY SignatureTyped
  <2>2. CASE TypeAt(p) = "length" /\ p[2] = "length"
    <3>1. Domain(p) = [lower |-> 0, upper |-> Unlimited]
      BY <1>0, <2>2 DEF Domain, IsFloat
    <3>2. ASSUME NEW args, NEW i, InputOf(shape, args), Of(args, p, i)
          PROVE  0 <= At(args, p, i) /\ At(args, p, i) <= Unlimited
      <4>1. IsOf(At(args, p, i), TypeAt(p))
        BY <3>2, AtIsOf
      <4>2. At(args, p, i) = Len(args[p[1]]) * One /\ Len(args[p[1]]) \in Nat
        BY <2>1, <2>2, <3>2, ListTyped, DomainsAssumption DEF At
      <4>3. One \in Nat
        BY DomainsAssumption
      <4>4. 0 <= Len(args[p[1]]) * One
        BY <4>2, <4>3
      <4> QED BY <1>0, <4>1, <4>2, <4>4 DEF IsOf
    <3> QED BY <1>0, <3>1, <3>2
  <2>3. CASE p[2] # "length"
    <3> DEFINE t == shape[p[1]].type
    <3>1. TypeAt(p) = t BY <2>3 DEF TypeAt
    <3>2. ASSUME NEW args, NEW i, InputOf(shape, args), Of(args, p, i)
          PROVE  At(args, p, i) \in ValuesOf(t)
      <4>1. CASE p[2] = "value"
        BY <2>1, <3>2, <4>1 DEF InputOf, At
      <4>2. CASE p[2] = "item"
        BY <2>1, <3>2, <4>2, ListTyped DEF Of, At
      <4> QED BY <2>1, <2>3, <4>1, <4>2
    <3>3. CASE IsFloat(t)
      <4>1. Domain(p) = [lower |-> Min(Grid[t]), upper |-> Max(Grid[t])]
        BY <1>0, <3>1, <3>3 DEF Domain, IsFloat
      <4>2. ValuesOf(t) = Grid[t]
        BY <3>3 DEF ValuesOf
      <4> QED BY <3>2, <3>3, <4>1, <4>2, GridTyped DEF IsFloat
    <3>4. CASE ~IsFloat(t)
      <4>1. Domain(p) = Integral[t]
        BY <2>1, <3>1, <3>4, DomainsAssumption DEF Domain
      <4>2. t \in DOMAIN Integral
        BY <2>1, <3>4 DEF IsFloat
      <4>3. Integral[t] \in [lower : Int, upper : Int]
        BY <4>2, DomainsAssumption
      <4> QED BY <2>1, <3>2, <3>4, <4>1, <4>3, ValuesAreOf
    <3> QED BY <3>3, <3>4
  <2> QED BY <2>1, <2>2, <2>3 DEF TypeAt
<1>2. [p \in Places |-> Domain(p)] \in DomainsType
  BY <1>1 DEF DomainsType
<1> QED BY <1>1, <1>2 DEF Keeps

-----------------------------------------------------------------------------
(* One bound.                                                                *)
MoveOK(m) ==
  /\ m.of \in Places /\ m.side \in {"lower", "upper"} /\ m.strict \in BOOLEAN
  /\ IF IsPlace(m.by) THEN m.by.place \in Places ELSE m.by.constant \in Int

\* A value by which the move bounds the value w, for the input args.
Bounds(m, args, w, u) ==
  /\ u \in Int
  /\ IF IsPlace(m.by) THEN \E j : Of(args, m.by.place, j) /\ u = At(args, m.by.place, j)
                      ELSE u = OfType(m.by.constant, TypeAt(m.of))
  /\ m.side = "lower" => IF m.strict THEN u < w ELSE u <= w
  /\ m.side = "upper" => IF m.strict THEN w < u ELSE w <= u

Justified(m, args) ==
  \A i : Of(args, m.of, i) => \E u : Bounds(m, args, At(args, m.of, i), u)

LEMMA OfTypeTyped ==
  ASSUME NEW n \in Int, NEW t
  PROVE  OfType(n, t) \in Int
BY RoundingIsNear DEF OfType, IsFloat

\* The bound that a move proposes.
Proposed(d, m) ==
  ComparisonBound(IF IsPlace(m.by) THEN d[m.by.place][m.side] ELSE OfType(m.by.constant, TypeAt(m.of)),
                  TypeAt(m.of), m.side = "lower", m.strict)

LEMMA MovedBound ==
  ASSUME NEW d \in DomainsType, NEW p \in Places, NEW side \in {"lower", "upper"}, NEW b \in Int
  PROVE  /\ Moved(d, p, side, b) \in DomainsType
         /\ Moved(d, p, side, b)[p] =
              IF side = "lower" THEN [lower |-> Larger(d[p].lower, b), upper |-> d[p].upper]
                                ELSE [lower |-> d[p].lower, upper |-> Smaller(d[p].upper, b)]
<1>1. d[p] \in [lower : Int, upper : Int] /\ DOMAIN d = Places
  BY DEF DomainsType
<1>2. Larger(d[p].lower, b) \in Int /\ Smaller(d[p].upper, b) \in Int
  BY <1>1 DEF Larger, Smaller
<1> DEFINE lo == Larger(d[p].lower, b)
           hi == Smaller(d[p].upper, b)
<1>3. CASE side = "lower"
  <2>1. Moved(d, p, side, b) = [d EXCEPT ![p].lower = lo]
    BY <1>3 DEF Moved
  <2> HIDE DEF lo, hi
  <2>2. [d[p] EXCEPT !.lower = lo] = [lower |-> lo, upper |-> d[p].upper]
    BY <1>1
  <2> QED BY <1>1, <1>2, <1>3, <2>1, <2>2 DEF lo, DomainsType
<1>4. CASE side = "upper"
  <2>1. Moved(d, p, side, b) = [d EXCEPT ![p].upper = hi]
    BY <1>4 DEF Moved
  <2> HIDE DEF lo, hi
  <2>2. [d[p] EXCEPT !.upper = hi] = [lower |-> d[p].lower, upper |-> hi]
    BY <1>1
  <2> QED BY <1>1, <1>2, <1>4, <2>1, <2>2 DEF hi, DomainsType
<1> QED BY <1>3, <1>4

LEMMA MovedElse ==
  ASSUME NEW d \in DomainsType, NEW p \in Places, NEW side \in {"lower", "upper"}, NEW b \in Int,
         NEW q \in Places, q # p
  PROVE  Moved(d, p, side, b)[q] = d[q]
BY DEF Moved, DomainsType

LEMMA NarrowTyped ==
  ASSUME NEW d \in DomainsType, NEW m, MoveOK(m)
  PROVE  /\ NarrowBy(d, m) \in DomainsType
         /\ Proposed(d, m) \in Int
         /\ NarrowBy(d, m) = Moved(d, m.of, m.side, Proposed(d, m))
<1>1. (IF IsPlace(m.by) THEN d[m.by.place][m.side] ELSE OfType(m.by.constant, TypeAt(m.of))) \in Int
  <2>1. CASE IsPlace(m.by)
    BY <2>1 DEF MoveOK, DomainsType
  <2>2. CASE ~IsPlace(m.by)
    BY <2>2, OfTypeTyped DEF MoveOK
  <2> QED BY <2>1, <2>2
<1>2. m.strict \in BOOLEAN /\ (m.side = "lower") \in BOOLEAN
  BY DEF MoveOK
<1>3. Proposed(d, m) \in Int
  BY <1>1, <1>2, BoundIsSound DEF Proposed
<1>4. NarrowBy(d, m) = Moved(d, m.of, m.side, Proposed(d, m))
  BY DEF NarrowBy, Proposed
<1> DEFINE b == Proposed(d, m)
<1> HIDE DEF b
<1>5. Moved(d, m.of, m.side, b) \in DomainsType
  BY <1>3, MovedBound DEF MoveOK, b
<1> QED BY <1>3, <1>4, <1>5 DEF b

\* A move that the input justifies does not pass it.
LEMMA NarrowKeeps ==
  ASSUME shape \in Signatures, NEW args, InputOf(shape, args),
         NEW d \in DomainsType, Keeps(d, args), NEW m, MoveOK(m), Justified(m, args)
  PROVE  Keeps(NarrowBy(d, m), args)
<1> DEFINE b == Proposed(d, m)
           t == TypeAt(m.of)
<1>1. b \in Int /\ NarrowBy(d, m) = Moved(d, m.of, m.side, b)
  BY NarrowTyped
<1>2. ASSUME NEW i, Of(args, m.of, i)
      PROVE  /\ m.side = "lower" => b <= At(args, m.of, i)
             /\ m.side = "upper" => At(args, m.of, i) <= b
  <2> DEFINE w == At(args, m.of, i)
  <2>1. IsOf(w, t)
    BY <1>2, AtIsOf DEF MoveOK
  <2>2. PICK u : Bounds(m, args, w, u)
    BY <1>2 DEF Justified
  <2> DEFINE v == IF IsPlace(m.by) THEN d[m.by.place][m.side] ELSE OfType(m.by.constant, t)
  <2>3. v \in Int /\ u \in Int /\ w \in Int
    <3>1. CASE IsPlace(m.by)
      BY <2>1, <2>2, <3>1 DEF MoveOK, DomainsType, Bounds, IsOf
    <3>2. CASE ~IsPlace(m.by)
      BY <2>1, <2>2, <3>2, OfTypeTyped DEF MoveOK, Bounds, IsOf
    <3> QED BY <3>1, <3>2
  <2>4. /\ m.side = "lower" => v <= u
        /\ m.side = "upper" => u <= v
    <3>1. CASE IsPlace(m.by)
      <4>1. PICK j : Of(args, m.by.place, j) /\ u = At(args, m.by.place, j)
        BY <2>2, <3>1 DEF Bounds
      <4>2. d[m.by.place].lower <= u /\ u <= d[m.by.place].upper
        BY <3>1, <4>1 DEF Keeps, MoveOK
      <4>3. (m.side = "lower" => v = d[m.by.place].lower) /\ (m.side = "upper" => v = d[m.by.place].upper)
        BY <3>1
      <4> QED BY <4>2, <4>3
    <3>2. CASE ~IsPlace(m.by)
      <4>1. v = u BY <2>2, <3>2 DEF Bounds
      <4> QED BY <2>3, <4>1
    <3> QED BY <3>1, <3>2
  <2>5. m.strict \in BOOLEAN /\ m.side \in {"lower", "upper"}
    BY DEF MoveOK
  <2>6. b = ComparisonBound(v, t, m.side = "lower", m.strict)
    BY DEF Proposed
  <2>7. /\ m.side = "lower" => IF m.strict THEN u < w ELSE u <= w
        /\ m.side = "upper" => IF m.strict THEN w < u ELSE w <= u
    BY <2>2 DEF Bounds
  <2> HIDE DEF b, v, w, t
  <2>8. CASE m.side = "lower"
    <3>1. IF m.strict THEN v < w ELSE v <= w
      BY <2>3, <2>4, <2>5, <2>7, <2>8
    <3>2. b = ComparisonBound(v, t, TRUE, m.strict)
      BY <2>6, <2>8
    <3>3. ComparisonBound(v, t, TRUE, m.strict) <= w
      BY <2>1, <2>3, <2>5, <3>1, BoundIsSound
    <3> QED BY <2>8, <3>2, <3>3 DEF w
  <2>9. CASE m.side = "upper"
    <3>1. IF m.strict THEN w < v ELSE w <= v
      BY <2>3, <2>4, <2>5, <2>7, <2>9
    <3>2. b = ComparisonBound(v, t, FALSE, m.strict)
      BY <2>6, <2>9
    <3>3. w <= ComparisonBound(v, t, FALSE, m.strict)
      BY <2>1, <2>3, <2>5, <3>1, BoundIsSound
    <3> QED BY <2>9, <3>2, <3>3 DEF w
  <2> QED BY <2>5, <2>8, <2>9
<1> HIDE DEF b
<1>3. ASSUME NEW p \in Places, NEW i, Of(args, p, i)
      PROVE  /\ Moved(d, m.of, m.side, b)[p].lower <= At(args, p, i)
             /\ At(args, p, i) <= Moved(d, m.of, m.side, b)[p].upper
  <2>1. d[p].lower <= At(args, p, i) /\ At(args, p, i) <= d[p].upper
    BY <1>3 DEF Keeps
  <2>2. At(args, p, i) \in Int /\ d[p] \in [lower : Int, upper : Int]
    BY <1>3, AtIsOf DEF IsOf, DomainsType
  <2>3. CASE p # m.of
    <3>0. m.of \in Places /\ m.side \in {"lower", "upper"}
      BY DEF MoveOK
    <3>1. Moved(d, m.of, m.side, b)[p] = d[p]
      BY <1>1, <1>3, <2>3, <3>0, MovedElse
    <3> QED BY <2>1, <3>1
  <2>4. CASE p = m.of
    <3>1. Moved(d, m.of, m.side, b)[p] =
            IF m.side = "lower" THEN [lower |-> Larger(d[p].lower, b), upper |-> d[p].upper]
                                ELSE [lower |-> d[p].lower, upper |-> Smaller(d[p].upper, b)]
      BY <1>1, <2>4, MovedBound DEF MoveOK
    <3>2. /\ m.side = "lower" => b <= At(args, p, i)
          /\ m.side = "upper" => At(args, p, i) <= b
      BY <1>2, <1>3, <2>4
    <3>3. m.side \in {"lower", "upper"}
      BY DEF MoveOK
    <3>4. CASE m.side = "lower"
      BY <1>1, <2>1, <2>2, <3>1, <3>2, <3>4 DEF Larger
    <3>5. CASE m.side = "upper"
      BY <1>1, <2>1, <2>2, <3>1, <3>2, <3>5 DEF Smaller
    <3> QED BY <3>3, <3>4, <3>5
  <2> QED BY <2>3, <2>4
<1> QED BY <1>1, <1>3 DEF Keeps

-----------------------------------------------------------------------------
(* The bounds of a comparison that an input satisfies are justified by it.   *)

\* A constant that is compared with the items of a list of floats is one of them.
ExactFor(s, x, y) ==
  IsPlace(x) /\ ~IsPlace(y) /\ x.place[2] = "item" /\ s[x.place[1]].type \in FloatTypes =>
    y.constant \in Grid[s[x.place[1]].type]
Exact(s, c) == ExactFor(s, c.left, c.right) /\ ExactFor(s, c.right, c.left)

\* The items that Holds goes through.
Items(args, c) == IF c.over = None THEN {None} ELSE DOMAIN args[c.over]

\* What bounds the term x, in a comparison with y.
By(args, x, y, j) == IF IsPlace(y) THEN At(args, y.place, j) ELSE OfType(y.constant, TypeAt(x.place))

LEMMA ValueIs ==
  ASSUME NEW args, NEW x, NEW y, NEW j, IsPlace(x), x.place[2] \in {"value", "length", "item"}
  PROVE  ValueOf(args, x, y, j) = At(args, x.place, j)
BY DEF ValueOf, At

\* An exact constant is the same whether it is rounded or not.
LEMMA ConstantIs ==
  ASSUME shape \in Signatures, NEW args, NEW x, NEW y, NEW j, IsPlace(x), x.place \in Places, ~IsPlace(y),
         y.constant \in Int, ExactFor(shape, x, y)
  PROVE  ValueOf(args, y, x, j) = OfType(y.constant, TypeAt(x.place))
<1> DEFINE p == x.place
<1>1. p[1] \in DOMAIN shape /\ p[2] \in {"value", "length", "item"}
  BY SignatureTyped
<1>2. CASE p[2] = "value"
  BY <1>2 DEF ValueOf
<1>3. CASE p[2] = "length"
  <2>1. OfType(y.constant, TypeAt(p)) = y.constant
    BY <1>3, DomainsAssumption DEF OfType, TypeAt, IsFloat
  <2> QED BY <1>3, <2>1 DEF ValueOf
<1>4. CASE p[2] = "item"
  <2>1. ValueOf(args, y, x, j) = y.constant
    BY <1>4 DEF ValueOf
  <2>2. TypeAt(p) = shape[p[1]].type
    BY <1>4 DEF TypeAt
  <2>3. OfType(y.constant, TypeAt(p)) = y.constant
    BY <1>4, <2>2, RoundingIsNear DEF OfType, ExactFor, IsFloat
  <2> QED BY <2>1, <2>3
<1> QED BY <1>1, <1>2, <1>3, <1>4

\* x is a side of c that is a place, y the other.
LEMMA Compared ==
  ASSUME shape \in Signatures, NEW args, InputOf(shape, args), NEW c, ComparisonOf(shape, c), Exact(shape, c),
         Holds(args, c), NEW x, NEW y, IsPlace(x),
         (x = c.left /\ y = c.right) \/ (x = c.right /\ y = c.left)
  PROVE  /\ x.place \in Places
         /\ IF IsPlace(y) THEN y.place \in Places ELSE y.constant \in Int
         /\ \A i : Of(args, x.place, i) =>
              \E j : /\ At(args, x.place, i) = At(args, x.place, j)
                     /\ Of(args, x.place, j)
                     /\ IsPlace(y) => Of(args, y.place, j)
                     /\ By(args, x, y, j) \in Int
                     /\ x = c.left => Compares(c.op, At(args, x.place, j), By(args, x, y, j))
                     /\ x = c.right => Compares(c.op, By(args, x, y, j), At(args, x.place, j))
         /\ \E i : Of(args, x.place, i)
<1>1. /\ TermOf(shape, c, x) /\ TermOf(shape, c, y)
      /\ c.over = None \/ (c.over \in DOMAIN shape /\ shape[c.over].list)
      /\ ExactFor(shape, x, y) /\ ExactFor(shape, y, x)
  BY DEF ComparisonOf, Exact
<1>2. /\ x.place \in Places /\ (x.place[2] = "item" => c.over = x.place[1])
      /\ IF IsPlace(y) THEN y.place \in Places /\ (y.place[2] = "item" => c.over = y.place[1]) ELSE y.constant \in Int
  BY <1>1 DEF TermOf, Places
<1>3. /\ x.place[1] \in DOMAIN shape /\ x.place[2] \in {"value", "length", "item"}
      /\ IsPlace(y) => y.place[1] \in DOMAIN shape /\ y.place[2] \in {"value", "length", "item"}
  BY <1>2, SignatureTyped
<1>4. None \notin DOMAIN shape
  BY SignatureTyped DEF None
<1>5. PICK j0 : j0 \in Items(args, c)
  <2>1. CASE c.over = None
    BY <2>1 DEF Items
  <2>2. CASE c.over # None
    <3>1. Len(args[c.over]) \in 1 .. MaxItems /\ DOMAIN args[c.over] = 1 .. Len(args[c.over])
      BY <1>1, <2>2, ListTyped
    <3>2. 1 \in DOMAIN args[c.over]
      BY <3>1, DomainsAssumption
    <3> QED BY <2>2, <3>2 DEF Items
  <2> QED BY <2>1, <2>2
<1>6. ASSUME NEW j, j \in Items(args, c)
      PROVE  /\ Of(args, x.place, j) /\ (IsPlace(y) => Of(args, y.place, j))
             /\ By(args, x, y, j) \in Int
             /\ x = c.left => Compares(c.op, At(args, x.place, j), By(args, x, y, j))
             /\ x = c.right => Compares(c.op, By(args, x, y, j), At(args, x.place, j))
  <2>1. Of(args, x.place, j)
    BY <1>2, <1>3, <1>4, <1>6 DEF Of, Items
  <2>2. IsPlace(y) => Of(args, y.place, j)
    BY <1>2, <1>3, <1>4, <1>6 DEF Of, Items
  <2>3. Compares(c.op, ValueOf(args, c.left, c.right, j), ValueOf(args, c.right, c.left, j))
    BY <1>6 DEF Holds, Items
  <2>4. ValueOf(args, x, y, j) = At(args, x.place, j)
    BY <1>3, ValueIs
  <2>5. ValueOf(args, y, x, j) = By(args, x, y, j)
    <3>1. CASE IsPlace(y)
      BY <1>3, <3>1, ValueIs DEF By
    <3>2. CASE ~IsPlace(y)
      BY <1>1, <1>2, <3>2, ConstantIs DEF By
    <3> QED BY <3>1, <3>2
  <2>6. By(args, x, y, j) \in Int
    <3>1. CASE IsPlace(y)
      BY <1>2, <2>2, <3>1, AtIsOf DEF By, IsOf
    <3>2. CASE ~IsPlace(y)
      BY <1>2, <3>2, OfTypeTyped DEF By
    <3> QED BY <3>1, <3>2
  <2> QED BY <2>1, <2>2, <2>3, <2>4, <2>5, <2>6
<1>7. ASSUME NEW i, Of(args, x.place, i)
      PROVE  \E j \in Items(args, c) : At(args, x.place, i) = At(args, x.place, j)
  <2>1. CASE x.place[2] = "item"
    BY <1>2, <1>3, <1>4, <1>7, <2>1 DEF Of, Items
  <2>2. CASE x.place[2] # "item"
    <3>1. At(args, x.place, i) = At(args, x.place, j0)
      BY <1>3, <2>2 DEF At
    <3> QED BY <1>5, <3>1
  <2> QED BY <2>1, <2>2
<1>8. \E i : Of(args, x.place, i)
  BY <1>5, <1>6
<1>9. IF IsPlace(y) THEN y.place \in Places ELSE y.constant \in Int
  BY <1>2
<1> QED BY <1>2, <1>6, <1>7, <1>8, <1>9

-----------------------------------------------------------------------------
(* The moves of a comparison.                                                *)
Ops == {"<", "<=", "==", "!=", ">", ">="}

\* What a move says of the value w that it bounds by u.
Side(side, op, w, u) ==
  /\ side = "lower" => IF op \in {"<", ">"} THEN u < w ELSE u <= w
  /\ side = "upper" => IF op \in {"<", ">"} THEN w < u ELSE w <= u

\* The move m bounds a side of c by the other, as the comparison says.
Derived(m, c) ==
  \E side \in {"lower", "upper"}, op \in Ops :
    \/ /\ IsPlace(c.left) /\ m = Move(c.left.place, side, c.right, op)
       /\ \A w, u \in Int : Compares(c.op, w, u) => Side(side, op, w, u)
    \/ /\ IsPlace(c.right) /\ m = Move(c.right.place, side, c.left, op)
       /\ \A w, u \in Int : Compares(c.op, u, w) => Side(side, op, w, u)

AllDerived(moves, c) == Len(moves) \in Nat /\ \A k \in 1 .. Len(moves) : Derived(moves[k], c)

\* One sequence of moves after another.
LEMMA Joined ==
  ASSUME NEW s, NEW t, NEW c, NEW S, NEW T, s \in Seq(S), t \in Seq(T), AllDerived(s, c), AllDerived(t, c)
  PROVE  AllDerived(s \o t, c)
<1>1. /\ Len(s \o t) = Len(s) + Len(t) /\ Len(s) \in Nat /\ Len(t) \in Nat
      /\ \A k \in 1 .. Len(s) + Len(t) : (s \o t)[k] = IF k <= Len(s) THEN s[k] ELSE t[k - Len(s)]
  <2>1. s \in Seq(S \cup T) /\ t \in Seq(S \cup T)
    OBVIOUS
  <2> QED BY <2>1
<1>2. ASSUME NEW k \in 1 .. Len(s) + Len(t) PROVE Derived((s \o t)[k], c)
  <2>1. CASE k <= Len(s)
    <3>1. k \in 1 .. Len(s) BY <1>1, <2>1
    <3> QED BY <1>1, <2>1, <3>1 DEF AllDerived
  <2>2. CASE k > Len(s)
    <3>1. k - Len(s) \in 1 .. Len(t) BY <1>1, <2>2
    <3> QED BY <1>1, <2>2, <3>1 DEF AllDerived
  <2> QED BY <1>1, <2>1, <2>2
<1> QED BY <1>1, <1>2 DEF AllDerived

LEMMA NoMoves == \A c : AllDerived(<<>>, c)
BY DEF AllDerived

LEMMA OneMove == \A m, c : Derived(m, c) => AllDerived(<<m>>, c)
BY DEF AllDerived

LEMMA TwoMoves ==
  ASSUME NEW m, NEW n, NEW c, Derived(m, c), Derived(n, c)
  PROVE  AllDerived(<<m, n>>, c)
<1>1. Len(<<m, n>>) = 2 /\ \A k \in 1 .. 2 : k = 1 \/ k = 2
  OBVIOUS
<1> QED BY <1>1 DEF AllDerived

LEMMA ComparesIs ==
  ASSUME NEW a \in Int, NEW b \in Int
  PROVE  /\ Compares("<", a, b) <=> a < b
         /\ Compares("<=", a, b) <=> a <= b
         /\ Compares("==", a, b) <=> a = b
         /\ Compares("!=", a, b) <=> a # b
         /\ Compares(">", a, b) <=> a > b
         /\ Compares(">=", a, b) <=> a >= b
<1>1. Compares("<", a, b) <=> a < b BY DEF Compares
<1>2. Compares("<=", a, b) <=> a <= b BY DEF Compares
<1>3. Compares("==", a, b) <=> a = b BY DEF Compares
<1>4. Compares("!=", a, b) <=> a # b BY DEF Compares
<1>5. Compares(">", a, b) <=> a > b BY DEF Compares
<1>6. Compares(">=", a, b) <=> a >= b BY DEF Compares
<1> QED BY <1>1, <1>2, <1>3, <1>4, <1>5, <1>6

LEMMA SidesAre ==
  ASSUME NEW op, NEW w \in Int, NEW u \in Int, Compares(op, w, u)
  PROVE  /\ op \in {">", ">=", "=="} => Side("lower", op, w, u)
         /\ op \in {"<", "<=", "=="} => Side("upper", op, w, u) /\ Side("lower", op, u, w)
         /\ op = "==" => Side("upper", op, u, w)
<1>1. CASE op = "<" BY <1>1, ComparesIs DEF Side
<1>2. CASE op = "<=" BY <1>2, ComparesIs DEF Side
<1>3. CASE op = "==" BY <1>3, ComparesIs DEF Side
<1>4. CASE op = ">" BY <1>4, ComparesIs DEF Side
<1>5. CASE op = ">=" BY <1>5, ComparesIs DEF Side
<1> QED BY <1>1, <1>2, <1>3, <1>4, <1>5

\* The moves of a comparison with a constant.
LEMMA LimitDerived ==
  ASSUME NEW c, NEW x, NEW y, NEW op \in Ops, IsPlace(x),
         \/ x = c.left /\ y = c.right /\ \A w, u \in Int : Compares(c.op, w, u) => Compares(op, w, u)
         \/ x = c.right /\ y = c.left /\ \A w, u \in Int : Compares(c.op, u, w) => Compares(op, w, u)
  PROVE  AllDerived(Limit(x.place, op, y), c)
<1> DEFINE lo == Move(x.place, "lower", y, op)
           hi == Move(x.place, "upper", y, op)
<1>1. op \in {">", ">=", "=="} => Derived(lo, c)
  <2> SUFFICES ASSUME op \in {">", ">=", "=="} PROVE Derived(lo, c)
    OBVIOUS
  <2>1. \A w, u \in Int : Compares(op, w, u) => Side("lower", op, w, u)
    BY SidesAre
  <2> QED BY <2>1 DEF Derived
<1>2. op \in {"<", "<=", "=="} => Derived(hi, c)
  <2> SUFFICES ASSUME op \in {"<", "<=", "=="} PROVE Derived(hi, c)
    OBVIOUS
  <2>1. \A w, u \in Int : Compares(op, w, u) => Side("upper", op, w, u)
    BY SidesAre
  <2> QED BY <2>1 DEF Derived
<1> DEFINE S == IF op \in {">", ">=", "=="} THEN <<lo>> ELSE <<>>
           T == IF op \in {"<", "<=", "=="} THEN <<hi>> ELSE <<>>
<1>3. AllDerived(S, c) /\ S \in Seq({lo})
  BY <1>1, NoMoves, OneMove
<1>4. AllDerived(T, c) /\ T \in Seq({hi})
  <2>1. CASE op \in {"<", "<=", "=="}
    BY <1>2, <2>1, OneMove
  <2>2. CASE op \notin {"<", "<=", "=="}
    BY <2>2, NoMoves
  <2> QED BY <2>1, <2>2
<1>5. Limit(x.place, op, y) = S \o T
  BY DEF Limit
<1> HIDE DEF S, T
<1> QED BY <1>3, <1>4, <1>5, Joined

\* The moves of a comparison of two places.
LEMMA OrderDerived ==
  ASSUME NEW c, NEW low, NEW high, NEW op \in {"<", "<=", "==", "!="}, IsPlace(low), IsPlace(high),
         \/ low = c.left /\ high = c.right /\ \A w, u \in Int : Compares(c.op, w, u) => Compares(op, w, u)
         \/ low = c.right /\ high = c.left /\ \A w, u \in Int : Compares(c.op, u, w) => Compares(op, w, u)
  PROVE  AllDerived(Order(low, op, high), c)
<1> DEFINE a == Move(high.place, "lower", low, op)
           b == Move(low.place, "upper", high, op)
           e == Move(low.place, "lower", high, op)
           f == Move(high.place, "upper", low, op)
<1>0. op \in Ops
  BY DEF Ops
<1>1. op \in {"<", "<=", "=="} => Derived(a, c) /\ Derived(b, c)
  <2> SUFFICES ASSUME op \in {"<", "<=", "=="} PROVE Derived(a, c) /\ Derived(b, c)
    OBVIOUS
  <2>1. \A w, u \in Int : Compares(op, w, u) => Side("upper", op, w, u) /\ Side("lower", op, u, w)
    BY SidesAre
  <2>2. Derived(a, c)
    BY <1>0, <2>1 DEF Derived
  <2>3. Derived(b, c)
    BY <1>0, <2>1 DEF Derived
  <2> QED BY <2>2, <2>3
<1>2. op = "==" => Derived(e, c) /\ Derived(f, c)
  <2> SUFFICES ASSUME op = "==" PROVE Derived(e, c) /\ Derived(f, c)
    OBVIOUS
  <2>1. \A w, u \in Int : Compares(op, w, u) => Side("lower", op, w, u) /\ Side("upper", op, u, w)
    BY SidesAre
  <2>2. Derived(e, c)
    BY <1>0, <2>1 DEF Derived
  <2>3. Derived(f, c)
    BY <1>0, <2>1 DEF Derived
  <2> QED BY <2>2, <2>3
<1>3. Order(low, op, high) = CASE op \in {"<", "<="} -> <<a, b>>
                               [] op = "==" -> <<a, b>> \o <<e, f>>
                               [] OTHER -> <<>>
  BY DEF Order
<1> HIDE DEF a, b, e, f
<1>4. CASE op \in {"<", "<="}
  <2>1. Order(low, op, high) = <<a, b>>
    BY <1>3, <1>4
  <2> QED BY <1>1, <1>4, <2>1, TwoMoves
<1>5. CASE op = "=="
  <2>1. Order(low, op, high) = <<a, b>> \o <<e, f>>
    BY <1>3, <1>5
  <2>2. AllDerived(<<a, b>>, c) /\ AllDerived(<<e, f>>, c)
    BY <1>1, <1>2, <1>5, TwoMoves
  <2>3. <<a, b>> \in Seq({a, b}) /\ <<e, f>> \in Seq({e, f})
    OBVIOUS
  <2> QED BY <2>1, <2>2, <2>3, Joined
<1>6. CASE op = "!="
  <2>1. Order(low, op, high) = <<>>
    BY <1>3, <1>6
  <2> QED BY <2>1, NoMoves
<1> QED BY <1>4, <1>5, <1>6

LEMMA FlippedIs ==
  ASSUME NEW op \in Ops
  PROVE  Flipped(op) \in Ops /\ \A w, u \in Int : Compares(op, u, w) => Compares(Flipped(op), w, u)
<1>1. CASE op = "<" BY <1>1, ComparesIs DEF Ops, Flipped
<1>2. CASE op = "<=" BY <1>2, ComparesIs DEF Ops, Flipped
<1>3. CASE op = "==" BY <1>3, ComparesIs DEF Ops, Flipped
<1>4. CASE op = ">" BY <1>4, ComparesIs DEF Ops, Flipped
<1>5. CASE op = ">=" BY <1>5, ComparesIs DEF Ops, Flipped
<1>6. CASE op = "!=" BY <1>6, ComparesIs DEF Ops, Flipped
<1> QED BY <1>1, <1>2, <1>3, <1>4, <1>5, <1>6 DEF Ops

\* Every move of a comparison, whichever way it is written, is derived from it.
LEMMA MovesDerived ==
  ASSUME NEW c, ~IsEither(c), ComparisonOf(shape, c)
  PROVE  AllDerived(Moves(c), c)
<1>0. c.op \in Ops /\ (IsPlace(c.left) \/ IsPlace(c.right))
  BY DEF ComparisonOf, Ops
<1>1. CASE IsPlace(c.left) /\ IsPlace(c.right) /\ c.op \in {">", ">="}
  <2>1. Moves(c) = Order(c.right, Flipped(c.op), c.left)
    BY <1>1 DEF Moves
  <2>2. Flipped(c.op) \in {"<", "<="}
    BY <1>1 DEF Flipped
  <2>3. \A w, u \in Int : Compares(c.op, u, w) => Compares(Flipped(c.op), w, u)
    BY <1>0, FlippedIs
  <2> QED BY <1>1, <2>1, <2>2, <2>3, OrderDerived
<1>2. CASE IsPlace(c.left) /\ IsPlace(c.right) /\ c.op \notin {">", ">="}
  <2>1. Moves(c) = Order(c.left, c.op, c.right)
    BY <1>2 DEF Moves
  <2>2. c.op \in {"<", "<=", "==", "!="}
    BY <1>0, <1>2 DEF Ops
  <2> QED BY <1>2, <2>1, <2>2, OrderDerived
<1>3. CASE IsPlace(c.left) /\ ~IsPlace(c.right)
  <2>1. Moves(c) = Limit(c.left.place, c.op, c.right)
    BY <1>3 DEF Moves
  <2> QED BY <1>0, <1>3, <2>1, LimitDerived
<1>4. CASE ~IsPlace(c.left) /\ IsPlace(c.right)
  <2>1. Moves(c) = Limit(c.right.place, Flipped(c.op), c.left)
    BY <1>4 DEF Moves
  <2>2. Flipped(c.op) \in Ops /\ \A w, u \in Int : Compares(c.op, u, w) => Compares(Flipped(c.op), w, u)
    BY <1>0, FlippedIs
  <2> QED BY <1>4, <2>1, <2>2, LimitDerived
<1> QED BY <1>0, <1>1, <1>2, <1>3, <1>4

LEMMA DerivedTyped ==
  ASSUME NEW c, ComparisonOf(shape, c), NEW m, Derived(m, c)
  PROVE  MoveOK(m)
<1>1. /\ IsPlace(c.left) => c.left.place \in Places
      /\ IsPlace(c.right) => c.right.place \in Places
      /\ ~IsPlace(c.left) => c.left.constant \in Int
      /\ ~IsPlace(c.right) => c.right.constant \in Int
  BY DEF ComparisonOf, TermOf, Places
<1>2. PICK side \in {"lower", "upper"}, op \in Ops :
        \/ IsPlace(c.left) /\ m = Move(c.left.place, side, c.right, op)
        \/ IsPlace(c.right) /\ m = Move(c.right.place, side, c.left, op)
  BY DEF Derived
<1>3. ASSUME NEW p, NEW y, m = Move(p, side, y, op)
      PROVE  m.of = p /\ m.side = side /\ m.by = y /\ m.strict \in BOOLEAN
  BY <1>3 DEF Move
<1>4. CASE IsPlace(c.left) /\ m = Move(c.left.place, side, c.right, op)
  <2>1. m.of = c.left.place /\ m.side = side /\ m.by = c.right /\ m.strict \in BOOLEAN
    BY <1>3, <1>4
  <2> QED BY <1>1, <1>4, <2>1 DEF MoveOK
<1>5. CASE IsPlace(c.right) /\ m = Move(c.right.place, side, c.left, op)
  <2>1. m.of = c.right.place /\ m.side = side /\ m.by = c.left /\ m.strict \in BOOLEAN
    BY <1>3, <1>5
  <2> QED BY <1>1, <1>5, <2>1 DEF MoveOK
<1> QED BY <1>2, <1>4, <1>5

\* An input that satisfies a comparison justifies what is derived from it.
LEMMA DerivedJustified ==
  ASSUME shape \in Signatures, NEW args, InputOf(shape, args), NEW c, ComparisonOf(shape, c), Exact(shape, c),
         Holds(args, c), NEW m, Derived(m, c)
  PROVE  Justified(m, args)
<1>1. PICK side \in {"lower", "upper"}, op \in Ops :
        \/ /\ IsPlace(c.left) /\ m = Move(c.left.place, side, c.right, op)
           /\ \A w, u \in Int : Compares(c.op, w, u) => Side(side, op, w, u)
        \/ /\ IsPlace(c.right) /\ m = Move(c.right.place, side, c.left, op)
           /\ \A w, u \in Int : Compares(c.op, u, w) => Side(side, op, w, u)
  BY DEF Derived
<1>2. ASSUME NEW x, NEW y, IsPlace(x), m = Move(x.place, side, y, op),
             \/ x = c.left /\ y = c.right /\ \A w, u \in Int : Compares(c.op, w, u) => Side(side, op, w, u)
             \/ x = c.right /\ y = c.left /\ \A w, u \in Int : Compares(c.op, u, w) => Side(side, op, w, u)
      PROVE  Justified(m, args)
  <2>1. /\ m.of = x.place /\ m.side = side /\ m.by = y /\ m.strict = (op \in {"<", ">"})
    BY <1>2 DEF Move
  <2> SUFFICES ASSUME NEW i, Of(args, x.place, i)
               PROVE  \E u : Bounds(m, args, At(args, x.place, i), u)
    BY <2>1 DEF Justified
  <2>2. PICK j : /\ At(args, x.place, i) = At(args, x.place, j)
                 /\ Of(args, x.place, j)
                 /\ IsPlace(y) => Of(args, y.place, j)
                 /\ By(args, x, y, j) \in Int
                 /\ x = c.left => Compares(c.op, At(args, x.place, j), By(args, x, y, j))
                 /\ x = c.right => Compares(c.op, By(args, x, y, j), At(args, x.place, j))
    BY <1>2, Compared
  <2>3. x.place \in Places
    BY <1>2, Compared
  <2>4. At(args, x.place, j) \in Int
    BY <2>2, <2>3, AtIsOf DEF IsOf
  <2>5. Side(side, op, At(args, x.place, j), By(args, x, y, j))
    BY <1>2, <2>2, <2>4
  <2>6. Bounds(m, args, At(args, x.place, j), By(args, x, y, j))
    <3>1. IF IsPlace(m.by) THEN \E k : Of(args, m.by.place, k) /\ By(args, x, y, j) = At(args, m.by.place, k)
                           ELSE By(args, x, y, j) = OfType(m.by.constant, TypeAt(m.of))
      BY <2>1, <2>2 DEF By
    <3> QED BY <2>1, <2>2, <2>5, <3>1 DEF Bounds, Side
  <2> QED BY <2>2, <2>6
<1> QED BY <1>1, <1>2

-----------------------------------------------------------------------------
(* The three recursions of constrain: the moves of a comparison, the         *)
(* comparisons of a guard, the rounds.                                       *)
Well(c) == IsEither(c) \/ ComparisonOf(shape, c)
WellFormed(guard) == Len(guard) \in Nat /\ \A k \in 1 .. Len(guard) : Well(guard[k])

Results == [domains : DomainsType, end : {"open", "empty", "settled"}]

LEMMA MovesOK ==
  ASSUME NEW c, Well(c)
  PROVE  Len(Moves(c)) \in Nat /\ \A k \in 1 .. Len(Moves(c)) : MoveOK(Moves(c)[k])
<1>1. CASE IsEither(c)
  <2>1. Moves(c) = <<>>
    BY <1>1 DEF Moves
  <2> QED BY <2>1
<1>2. CASE ~IsEither(c)
  <2>1. ComparisonOf(shape, c)
    BY <1>2 DEF Well
  <2> QED BY <1>2, <2>1, MovesDerived, DerivedTyped DEF AllDerived
<1> QED BY <1>1, <1>2

\* The recursion of Narrowed, step by step.
LEMMA NarrowedUnfolds ==
  ASSUME NEW d \in DomainsType, NEW moves, Len(moves) \in Nat, \A k \in 1 .. Len(moves) : MoveOK(moves[k])
  PROVE  \E f : /\ f[0] = d /\ Narrowed(d, moves) = f[Len(moves)]
                /\ \A k \in 1 .. Len(moves) : f[k] = NarrowBy(f[k - 1], moves[k])
<1> DEFINE N == Len(moves)
           After(g) == [k \in 0 .. N |-> IF k = 0 THEN d ELSE NarrowBy(g[k - 1], moves[k])]
           step == [k \in 1 .. N |-> [x \in DomainsType |-> NarrowBy(x, moves[k])]]
<1>1. step \in [1 .. N -> [DomainsType -> DomainsType]]
  BY NarrowTyped
<1>2. PICK f : Follows(f, N, DomainsType, d, step)
  <2> HIDE DEF step
  <2> QED BY <1>1, RecursionExists
<1>3. f = After(f)
  <2>1. f \in [0 .. N -> DomainsType] /\ f[0] = d
    BY <1>2 DEF Follows
  <2>2. ASSUME NEW k \in 1 .. N PROVE f[k] = NarrowBy(f[k - 1], moves[k])
    <3>1. f[k - 1] \in DomainsType
      BY <2>1
    <3>2. f[k] = step[k][f[k - 1]]
      BY <1>2 DEF Follows
    <3> QED BY <3>1, <3>2
  <2> HIDE DEF step
  <2>3. ASSUME NEW k \in 0 .. N PROVE f[k] = After(f)[k]
    BY <2>1, <2>2
  <2> QED BY <2>1, <2>3
<1> DEFINE g == CHOOSE h : h = After(h)
<1>4. g = After(g)
  BY <1>3
<1>5. Narrowed(d, moves) = g[N]
  BY DEF Narrowed
<1> HIDE DEF g, step
<1>6. g[0] = d /\ \A k \in 1 .. N : g[k] = NarrowBy(g[k - 1], moves[k])
  BY <1>4
<1> QED BY <1>5, <1>6

\* What no move leaves, all moves of a comparison do not leave.
LEMMA NarrowedStays ==
  ASSUME NEW d \in DomainsType, NEW moves, Len(moves) \in Nat, \A k \in 1 .. Len(moves) : MoveOK(moves[k]),
         NEW K \in SUBSET DomainsType, d \in K,
         \A k \in 1 .. Len(moves) : \A x \in K : NarrowBy(x, moves[k]) \in K
  PROVE  Narrowed(d, moves) \in K
<1>1. PICK f : /\ f[0] = d /\ Narrowed(d, moves) = f[Len(moves)]
               /\ \A k \in 1 .. Len(moves) : f[k] = NarrowBy(f[k - 1], moves[k])
  BY NarrowedUnfolds
<1>2. \A k \in 1 .. Len(moves) : f[k - 1] \in K => f[k] \in K
  BY <1>1
<1>3. f[Len(moves)] \in K
  BY <1>1, <1>2, StaysIn
<1> QED BY <1>1, <1>3

LEMMA NarrowedTyped ==
  ASSUME NEW d \in DomainsType, NEW c, Well(c)
  PROVE  Narrowed(d, Moves(c)) \in DomainsType
BY MovesOK, NarrowTyped, NarrowedStays

LEMMA ComparisonTyped ==
  ASSUME NEW r \in Results, NEW c, Well(c)
  PROVE  VisitComparison(r, c) \in Results
<1>1. Narrowed(r.domains, Moves(c)) \in DomainsType
  BY NarrowedTyped DEF Results
<1> QED BY <1>1 DEF VisitComparison, Results

\* What no comparison leaves, a visit of the guard does not leave.
LEMMA VisitStays ==
  ASSUME NEW d \in DomainsType, NEW guard, WellFormed(guard), NEW K \in SUBSET Results, Open(d) \in K,
         \A k \in 1 .. Len(guard) : \A r \in K : VisitComparison(r, guard[k]) \in K
  PROVE  Visit(guard, d) \in K
<1> DEFINE N == Len(guard)
           After(g) == [k \in 0 .. N |-> IF k = 0 THEN Open(d) ELSE VisitComparison(g[k - 1], guard[k])]
           step == [k \in 1 .. N |-> [x \in Results |-> VisitComparison(x, guard[k])]]
<1>0. N \in Nat /\ Open(d) \in Results
  BY DEF WellFormed
<1>1. step \in [1 .. N -> [Results -> Results]]
  BY ComparisonTyped DEF WellFormed
<1>2. PICK f : Follows(f, N, Results, Open(d), step)
  <2> HIDE DEF step
  <2> QED BY <1>0, <1>1, RecursionExists
<1>3. f = After(f)
  <2>1. f \in [0 .. N -> Results] /\ f[0] = Open(d)
    BY <1>2 DEF Follows
  <2>2. ASSUME NEW k \in 1 .. N PROVE f[k] = VisitComparison(f[k - 1], guard[k])
    <3>1. f[k - 1] \in Results
      BY <1>0, <2>1
    <3>2. f[k] = step[k][f[k - 1]]
      BY <1>2 DEF Follows
    <3> QED BY <3>1, <3>2
  <2> HIDE DEF step
  <2>3. ASSUME NEW k \in 0 .. N PROVE f[k] = After(f)[k]
    BY <1>0, <2>1, <2>2
  <2> QED BY <2>1, <2>3
<1> DEFINE g == CHOOSE h : h = After(h)
<1>4. g = After(g)
  BY <1>3
<1>5. Visit(guard, d) = g[N]
  BY DEF Visit
<1> HIDE DEF g, step, N
<1>6. g[0] = Open(d) /\ \A k \in 1 .. N : g[k] = VisitComparison(g[k - 1], guard[k])
  BY <1>0, <1>4
<1>7. ASSUME NEW k \in 1 .. N, g[k - 1] \in K PROVE g[k] \in K
  <2>1. k \in 1 .. Len(guard)
    BY DEF N
  <2>2. g[k] = VisitComparison(g[k - 1], guard[k])
    BY <1>6
  <2> QED BY <1>7, <2>1, <2>2
<1>8. g[N] \in K
  BY <1>0, <1>6, <1>7, StaysIn
<1> QED BY <1>5, <1>8

LEMMA VisitTyped ==
  ASSUME NEW d \in DomainsType, NEW guard, WellFormed(guard)
  PROVE  Visit(guard, d) \in Results
<1>1. Open(d) \in Results
  BY DEF Open, Results
<1> QED BY <1>1, ComparisonTyped, VisitStays DEF WellFormed

LEMMA RoundTyped ==
  ASSUME NEW r \in Results, NEW guard, WellFormed(guard)
  PROVE  Round(r, guard) \in Results
<1>1. CASE r.end = "open"
  <2> DEFINE v == Visit(guard, r.domains)
  <2>1. v \in Results
    BY VisitTyped DEF Results
  <2>2. Round(r, guard) = Settle(r.domains, v)
    BY <1>1 DEF Round
  <2> HIDE DEF v
  <2>3. [v EXCEPT !.end = "empty"] \in Results /\ [v EXCEPT !.end = "settled"] \in Results
    BY <2>1 DEF Results
  <2> QED BY <2>1, <2>2, <2>3 DEF Settle
<1>2. CASE r.end # "open"
  BY <1>2 DEF Round
<1> QED BY <1>1, <1>2

LEMMA RoundsTyped ==
  ASSUME shape \in Signatures
  PROVE  Rounds \in Nat
<1>1. Len(shape) \in Nat /\ DOMAIN shape = 1 .. Len(shape)
  BY DomainsAssumption
<1>2. Cardinality(Parameters) \in Nat
  BY <1>1, FS_Interval, FS_CardinalityType DEF Parameters
<1> QED BY <1>2 DEF Rounds

\* What no round leaves, constrain does not leave.
LEMMA ConstrainStays ==
  ASSUME shape \in Signatures, domains \in DomainsType, NEW guard, WellFormed(guard),
         NEW K \in SUBSET Results, Open(domains) \in K, \A r \in K : Round(r, guard) \in K
  PROVE  Constrain(guard) \in K
<1> DEFINE N == Rounds
           After(g) == [k \in 0 .. N |-> IF k = 0 THEN Open(domains) ELSE Round(g[k - 1], guard)]
           step == [k \in 1 .. N |-> [x \in Results |-> Round(x, guard)]]
<1>0. N \in Nat /\ Open(domains) \in Results
  BY RoundsTyped
<1>1. step \in [1 .. N -> [Results -> Results]]
  BY RoundTyped
<1>2. PICK f : Follows(f, N, Results, Open(domains), step)
  <2> HIDE DEF step, N
  <2> QED BY <1>0, <1>1, RecursionExists
<1>3. f = After(f)
  <2> HIDE DEF N
  <2>1. f \in [0 .. N -> Results] /\ f[0] = Open(domains)
    BY <1>2 DEF Follows
  <2>2. ASSUME NEW k \in 1 .. N PROVE f[k] = Round(f[k - 1], guard)
    <3>1. f[k - 1] \in Results
      BY <1>0, <2>1
    <3>2. f[k] = step[k][f[k - 1]]
      BY <1>2 DEF Follows
    <3> QED BY <3>1, <3>2
  <2> HIDE DEF step
  <2>3. ASSUME NEW k \in 0 .. N PROVE f[k] = After(f)[k]
    BY <1>0, <2>1, <2>2
  <2> QED BY <2>1, <2>3
<1> DEFINE g == CHOOSE h : h = After(h)
<1>4. g = After(g)
  BY <1>3
<1>5. Constrain(guard) = g[N]
  BY DEF Constrain
<1> HIDE DEF g, step, N
<1>6. g[0] = Open(domains) /\ \A k \in 1 .. N : g[k] = Round(g[k - 1], guard)
  BY <1>0, <1>4
<1>7. \A k \in 1 .. N : g[k - 1] \in K => g[k] \in K
  BY <1>6
<1>8. g[N] \in K
  BY <1>0, <1>6, <1>7, StaysIn
<1> QED BY <1>5, <1>8

-----------------------------------------------------------------------------
(* constrain, for an input that satisfies the guard.                         *)
HoldsIn(args, c) == IF IsEither(c) THEN \E x \in c.either : Holds(args, x) ELSE Holds(args, c)
ExactGuard(guard) == \A k \in 1 .. Len(guard) : IsEither(guard[k]) \/ Exact(shape, guard[k])

\* The results that keep an input.
Keeping(args) == {r \in Results : Keeps(r.domains, args) /\ r.end # "empty"}

\* Between the bounds of a place is a value of the input.
LEMMA NotEmpty ==
  ASSUME shape \in Signatures, NEW args, InputOf(shape, args), NEW d \in DomainsType, Keeps(d, args),
         NEW p \in Places
  PROVE  ~Empty(d, p)
<1>1. /\ p[1] \in DOMAIN shape /\ p[2] \in {"value", "length", "item"}
      /\ shape[p[1]].list <=> p[2] # "value"
  BY SignatureTyped
<1>2. \E i : Of(args, p, i)
  <2>1. CASE p[2] = "item"
    <3>1. Len(args[p[1]]) \in 1 .. MaxItems /\ DOMAIN args[p[1]] = 1 .. Len(args[p[1]])
      BY <1>1, <2>1, ListTyped
    <3>2. 1 \in DOMAIN args[p[1]]
      BY <3>1, DomainsAssumption
    <3> QED BY <3>2 DEF Of
  <2>2. CASE p[2] # "item"
    BY <2>2 DEF Of
  <2> QED BY <2>1, <2>2
<1>3. PICK i : Of(args, p, i)
  BY <1>2
<1>4. d[p].lower <= At(args, p, i) /\ At(args, p, i) <= d[p].upper
  BY <1>3 DEF Keeps
<1>5. At(args, p, i) \in Int /\ d[p] \in [lower : Int, upper : Int]
  BY <1>3, AtIsOf DEF IsOf, DomainsType
<1> QED BY <1>4, <1>5 DEF Empty

\* Nor does a comparison lose the input, or find an empty domain.
LEMMA ComparisonKeeps ==
  ASSUME shape \in Signatures, NEW args, InputOf(shape, args), NEW c, Well(c), HoldsIn(args, c),
         IsEither(c) \/ Exact(shape, c), NEW r \in Keeping(args)
  PROVE  VisitComparison(r, c) \in Keeping(args)
<1> DEFINE d == Narrowed(r.domains, Moves(c))
           K == {x \in DomainsType : Keeps(x, args)}
<1>0. r \in Results /\ r.domains \in K /\ r.end # "empty"
  BY DEF Keeping, Results
<1>1. d \in K
  <2>1. /\ Len(Moves(c)) \in Nat
        /\ \A k \in 1 .. Len(Moves(c)) : MoveOK(Moves(c)[k]) /\ Justified(Moves(c)[k], args)
    <3>1. CASE IsEither(c)
      <4>1. Moves(c) = <<>> BY <3>1 DEF Moves
      <4> QED BY <4>1
    <3>2. CASE ~IsEither(c)
      <4>1. ComparisonOf(shape, c) /\ Exact(shape, c) /\ Holds(args, c)
        BY <3>2 DEF Well, HoldsIn
      <4>2. AllDerived(Moves(c), c)
        BY <3>2, <4>1, MovesDerived
      <4> QED BY <4>1, <4>2, DerivedTyped, DerivedJustified DEF AllDerived
    <3> QED BY <3>1, <3>2
  <2>2. \A k \in 1 .. Len(Moves(c)) : \A x \in K : NarrowBy(x, Moves(c)[k]) \in K
    BY <2>1, NarrowTyped, NarrowKeeps
  <2> HIDE DEF K
  <2>3. K \in SUBSET DomainsType
    BY DEF K
  <2> QED BY <1>0, <2>1, <2>2, <2>3, NarrowedStays
<1> HIDE DEF d
<1>2. ~EmptiedBy(d, c)
  <2> SUFFICES ASSUME EmptiedBy(d, c) PROVE FALSE
    OBVIOUS
  <2>1. PICK x \in {c.left, c.right} : IsPlace(x) /\ Empty(d, x.place)
    BY DEF EmptiedBy
  <2>2. ~IsEither(c)
    BY DEF EmptiedBy
  <2>3. x.place \in Places
    BY <2>1, <2>2 DEF Well, ComparisonOf, TermOf, Places
  <2> QED BY <1>1, <2>1, <2>3, NotEmpty
<1>3. VisitComparison(r, c) = [domains |-> d, end |-> "open"]
  BY <1>0, <1>2 DEF VisitComparison, d
<1> QED BY <1>1, <1>3 DEF Keeping, Results

\* Nor does constrain, after all rounds.
LEMMA ConstrainKeeps ==
  ASSUME shape \in Signatures, domains \in DomainsType, NEW guard, WellFormed(guard), ExactGuard(guard),
         NEW args, InputOf(shape, args), Keeps(domains, args), \A k \in 1 .. Len(guard) : HoldsIn(args, guard[k])
  PROVE  Constrain(guard) \in Keeping(args)
<1>1. \A d \in DomainsType : Keeps(d, args) => Open(d) \in Keeping(args)
  BY DEF Open, Keeping, Results
<1>2. \A k \in 1 .. Len(guard) : \A r \in Keeping(args) : VisitComparison(r, guard[k]) \in Keeping(args)
  BY ComparisonKeeps DEF WellFormed, ExactGuard
<1>3. Keeping(args) \in SUBSET Results
  BY DEF Keeping
<1>4. ASSUME NEW r \in Keeping(args) PROVE Round(r, guard) \in Keeping(args)
  <2>1. CASE r.end # "open"
    BY <2>1 DEF Round
  <2>2. CASE r.end = "open"
    <3> DEFINE v == Visit(guard, r.domains)
    <3>1. r.domains \in DomainsType /\ Keeps(r.domains, args)
      BY DEF Keeping, Results
    <3>2. v \in Keeping(args)
      BY <1>1, <1>2, <1>3, <3>1, VisitStays
    <3>3. Round(r, guard) = Settle(r.domains, v)
      BY <2>2 DEF Round
    <3> HIDE DEF v
    <3>4. v \in Results /\ Keeps(v.domains, args) /\ v.end # "empty"
      BY <3>2 DEF Keeping
    <3>5. \A p \in Tops : ~Empty(v.domains, p)
      BY <3>4, NotEmpty DEF Tops, Results
    <3>6. Settle(r.domains, v) \in {v, [v EXCEPT !.end = "settled"]}
      BY <3>4, <3>5 DEF Settle
    <3>7. [v EXCEPT !.end = "settled"] \in Keeping(args)
      BY <3>4 DEF Keeping, Results
    <3> QED BY <3>2, <3>3, <3>6, <3>7
  <2> QED BY <2>1, <2>2
<1>5. Open(domains) \in Keeping(args)
  BY <1>1
<1> HIDE DEF Keeping
<1> QED BY <1>3, <1>4, <1>5, ConstrainStays

-----------------------------------------------------------------------------
(* Every input is an input, and one that is kept fits.                       *)
LEMMA TuplesAre ==
  ASSUME NEW U, NEW sets \in Seq(SUBSET U), NEW t \in Tuples(sets)
  PROVE  DOMAIN t = 1 .. Len(sets) /\ \A k \in 1 .. Len(sets) : t[k] \in sets[k]
<1> DEFINE N == Len(sets)
           base == {<<>>}
           With(Z, k) == {Append(u, x) : u \in Z, x \in sets[k]}
           After(g) == [k \in 0 .. N |-> IF k = 0 THEN base ELSE With(g[k - 1], k)]
           T == SUBSET Seq(U)
           step == [k \in 1 .. N |-> [Z \in T |-> With(Z, k)]]
<1>0. N \in Nat /\ base \in T /\ \A k \in 1 .. N : sets[k] \in SUBSET U
  OBVIOUS
<1>1. \A k \in 1 .. N : \A Z \in T : With(Z, k) \in T
  BY <1>0
<1>2. step \in [1 .. N -> [T -> T]]
  <2> HIDE DEF With, T, N
  <2> QED BY <1>1
<1>3. PICK f : Follows(f, N, T, base, step)
  <2> HIDE DEF step, T, N, base
  <2> QED BY <1>0, <1>2, RecursionExists
<1> HIDE DEF With
<1>4. f = After(f)
  <2> HIDE DEF N, T, base
  <2>1. f \in [0 .. N -> T] /\ f[0] = base
    BY <1>3 DEF Follows
  <2>2. ASSUME NEW k \in 1 .. N PROVE f[k] = With(f[k - 1], k)
    <3>1. f[k - 1] \in T
      BY <1>0, <2>1
    <3>2. f[k] = step[k][f[k - 1]]
      BY <1>3 DEF Follows
    <3> QED BY <3>1, <3>2
  <2> HIDE DEF step
  <2>3. ASSUME NEW k \in 0 .. N PROVE f[k] = After(f)[k]
    BY <1>0, <2>1, <2>2
  <2> QED BY <2>1, <2>3
<1> DEFINE g == CHOOSE h : h = After(h)
<1>5. g = After(g)
  BY <1>4
<1>6. Tuples(sets) = g[N]
  BY DEF Tuples, With
<1> HIDE DEF g, step, N, T, base
<1>7. g[0] = base /\ \A k \in 1 .. N : g[k] = With(g[k - 1], k)
  <2>1. g[0] = After(g)[0]
    BY <1>5
  <2>2. ASSUME NEW k \in 1 .. N PROVE g[k] = With(g[k - 1], k)
    <3>1. k \in 0 .. N /\ k # 0
      BY <1>0
    <3>2. g[k] = After(g)[k]
      BY <1>5
    <3> QED BY <3>1, <3>2
  <2> QED BY <1>0, <2>1, <2>2
<1> DEFINE Chosen(u, k) == u \in Seq(U) /\ Len(u) = k /\ \A i \in 1 .. k : u[i] \in sets[i]
           S == {k \in Nat : k <= N => \A u \in g[k] : Chosen(u, k)}
<1>8. 0 \in S
  <2>1. \A u \in g[0] : u = <<>>
    BY <1>7 DEF base
  <2>2. Chosen(<<>>, 0)
    OBVIOUS
  <2> HIDE DEF Chosen
  <2> QED BY <2>1, <2>2
<1>9. ASSUME NEW k \in Nat, k \in S PROVE k + 1 \in S
  <2> SUFFICES ASSUME k + 1 <= N, NEW u \in g[k + 1] PROVE Chosen(u, k + 1)
    OBVIOUS
  <2>1. k + 1 \in 1 .. N /\ (k + 1) - 1 = k /\ k <= N
    BY <1>0
  <2>2. g[k + 1] = With(g[k], k + 1)
    BY <1>7, <2>1
  <2>3. PICK v \in g[k], x \in sets[k + 1] : u = Append(v, x)
    BY <2>2 DEF With
  <2>4. Chosen(v, k)
    BY <1>9, <2>1
  <2>5. x \in U
    BY <1>0, <2>1
  <2> QED BY <2>3, <2>4, <2>5
<1>10. N \in S
  <2> HIDE DEF S
  <2> QED BY <1>0, <1>8, <1>9, SetInduction
<1>11. Chosen(t, N)
  BY <1>0, <1>6, <1>10
<1> QED BY <1>0, <1>11 DEF N

LEMMA EveryInputIs ==
  ASSUME NEW s \in Signatures, NEW args \in EveryInput[s]
  PROVE  InputOf(s, args)
<1> DEFINE Lists(q) == UNION {[1 .. n -> ValuesOf(s[q].type)] : n \in 1 .. MaxItems}
           Argument(q) == IF s[q].list THEN Lists(q) ELSE ValuesOf(s[q].type)
           sets == [q \in DOMAIN s |-> Argument(q)]
           U == UNION {Argument(q) : q \in DOMAIN s}
<1>1. args \in Tuples(sets)
  BY DEF EveryInput
<1>2. Len(s) \in Nat /\ DOMAIN s = 1 .. Len(s)
  BY DomainsAssumption
<1>3. sets \in Seq(SUBSET U) /\ Len(sets) = Len(s) /\ \A q \in DOMAIN s : sets[q] = Argument(q)
  <2> HIDE DEF Argument
  <2>1. \A q \in DOMAIN s : Argument(q) \in SUBSET U
    OBVIOUS
  <2> HIDE DEF U
  <2>2. sets \in [1 .. Len(s) -> SUBSET U]
    BY <1>2, <2>1
  <2> QED BY <1>2, <2>2
<1> HIDE DEF sets, U
<1>4. DOMAIN args = DOMAIN s /\ \A q \in DOMAIN s : args[q] \in Argument(q)
  <2> HIDE DEF Argument
  <2>1. DOMAIN args = 1 .. Len(sets) /\ \A q \in 1 .. Len(sets) : args[q] \in sets[q]
    BY <1>1, <1>3, TuplesAre
  <2> QED BY <1>2, <1>3, <2>1
<1> QED BY <1>4 DEF InputOf

\* A value of the type between two bounds is among those that are drawn.
LEMMA WithinHolds ==
  ASSUME NEW p, NEW lower \in Int, NEW upper \in Int, NEW w, IsOf(w, TypeAt(p)), lower <= w, w <= upper,
         TypeAt(p) = "length" => w <= MaxItems * One
  PROVE  w \in Within(p, lower, upper)
<1> DEFINE t == TypeAt(p)
           last == IF t = "length" THEN Smaller(upper, MaxItems * One) ELSE upper
<1>0. One \in Nat \ {0} /\ MaxItems * One \in Int /\ w \in Int
  BY DomainsAssumption DEF IsOf
<1>1. CASE IsFloat(t)
  BY <1>1 DEF Within, IsOf
<1>2. CASE ~IsFloat(t)
  <2>1. last \in Int /\ w <= last
    BY <1>0 DEF Smaller
  <2>2. Within(p, lower, upper) = {n * One : n \in (Ceil(lower) \div One) .. (Floor(last) \div One)}
    BY <1>2 DEF Within
  <2> HIDE DEF last, t
  <2> DEFINE n == w \div One
             m == (-lower) \div One
             k == last \div One
  <2>3. n \in Int /\ w = n * One
    BY <1>0, <1>2, Division DEF IsOf, t
  <2>4. Floor(last) = k * One /\ k \in Int /\ last < k * One + One
    BY <2>1, Division DEF Floor
  <2>5. Ceil(lower) = (-m) * One /\ m \in Int /\ (-m) * One < lower + One
    <3>1. -lower \in Int
      OBVIOUS
    <3>2. m \in Int /\ -lower < m * One + One
      BY <3>1, Division
    <3>3. Ceil(lower) = -(m * One)
      BY DEF Ceil
    <3> HIDE DEF m
    <3>4. (-m) * One = -(m * One) /\ m * One \in Int
      BY <3>2, Multiples
    <3> QED BY <1>0, <3>2, <3>3, <3>4
  <2> HIDE DEF n, m, k
  <2>6. \A a \in Int : (a * One) \div One = a
    BY <1>0
  <2>7. n <= k
    BY <1>0, <2>1, <2>3, <2>4, Multiples
  <2>8. -m <= n
    BY <1>0, <2>3, <2>5, Multiples
  <2>9. n \in (Ceil(lower) \div One) .. (Floor(last) \div One)
    BY <2>3, <2>4, <2>5, <2>6, <2>7, <2>8
  <2> QED BY <2>2, <2>3, <2>9
<1> QED BY <1>1, <1>2

\* An input that the bounds keep fits them.
LEMMA KeptFits ==
  ASSUME shape \in Signatures, domains \in DomainsType, NEW args, InputOf(shape, args), Keeps(domains, args)
  PROVE  Fits(args)
<1>1. ASSUME NEW p \in Places, NEW i, Of(args, p, i) PROVE At(args, p, i) \in InBounds(p)
  <2> DEFINE w == At(args, p, i)
  <2>1. IsOf(w, TypeAt(p))
    BY <1>1, AtIsOf
  <2>2. domains[p].lower \in Int /\ domains[p].upper \in Int
    BY DEF DomainsType
  <2>3. domains[p].lower <= w /\ w <= domains[p].upper
    BY <1>1 DEF Keeps
  <2>4. TypeAt(p) = "length" => w <= MaxItems * One
    <3> SUFFICES ASSUME TypeAt(p) = "length" PROVE w <= MaxItems * One
      OBVIOUS
    <3>1. p[1] \in DOMAIN shape /\ shape[p[1]].type \in FloatTypes \cup DOMAIN Integral /\ (shape[p[1]].list <=> p[2] # "value")
      BY SignatureTyped
    <3>2. p[2] = "length"
      BY <3>1, DomainsAssumption DEF TypeAt
    <3>3. w = Len(args[p[1]]) * One /\ Len(args[p[1]]) \in 1 .. MaxItems
      BY <3>1, <3>2, ListTyped DEF At
    <3>4. MaxItems \in Nat /\ One \in Nat
      BY DomainsAssumption
    <3> HIDE DEF w
    <3> QED BY <3>3, <3>4
  <2> HIDE DEF w
  <2> QED BY <2>1, <2>2, <2>3, <2>4, WithinHolds DEF InBounds, w
<1>2. ASSUME NEW q \in DOMAIN shape, shape[q].list
      PROVE  Len(args[q]) * One \in InBounds(Length(q)) /\ \A i \in DOMAIN args[q] : args[q][i] \in InBounds(Item(q))
  <2>1. Length(q) \in Places /\ Item(q) \in Places
    BY <1>2 DEF Length, Item, Places, PlacesOf
  <2>2. Of(args, Length(q), None) /\ At(args, Length(q), None) = Len(args[q]) * One
    BY DEF Of, At, Length
  <2>3. \A i \in DOMAIN args[q] : Of(args, Item(q), i) /\ At(args, Item(q), i) = args[q][i]
    BY DEF Of, At, Item
  <2> QED BY <1>1, <2>1, <2>2, <2>3
<1>3. ASSUME NEW q \in DOMAIN shape, ~shape[q].list
      PROVE  args[q] \in InBounds(Scalar(q))
  <2>1. Scalar(q) \in Places
    BY <1>3 DEF Scalar, Places, PlacesOf
  <2>2. Of(args, Scalar(q), None) /\ At(args, Scalar(q), None) = args[q]
    BY DEF Of, At, Scalar
  <2> QED BY <1>1, <2>1, <2>2
<1> QED BY <1>2, <1>3 DEF Fits, Parameters

-----------------------------------------------------------------------------
(* The constants of the guards are exact where items of floats are compared  *)
(* with them: constrain rounds such a constant and satisfies_constraints     *)
(* does not, so otherwise an item between the two may be lost.               *)
ExactConstants ==
  \A s \in Signatures : \A g \in Guards[s] : \A k \in 1 .. Len(g) : IsEither(g[k]) \/ Exact(s, g[k])

Stages == {"guard", "empty", "cyclic", "sampled", "varied", "rejected", "unequal", "accepted"}

(* The bounds keep every input that satisfies the guards so far.             *)
DomainsInv ==
  /\ shape \in Signatures
  /\ stage \in Stages
  /\ predicates \in Seq(Guards[shape])
  /\ domains \in DomainsType
  /\ ExactConstants =>
       \A args : InputOf(shape, args) /\ Satisfies(args, predicates) => Keeps(domains, args) /\ stage # "empty"

LEMMA DomainsInvBegins ==
  ASSUME DomainsInit PROVE DomainsInv
<1>1. shape \in Signatures /\ stage = "guard" /\ predicates = <<>> /\ domains = [p \in Places |-> Domain(p)]
  BY DEF DomainsInit
<1> QED BY <1>1, DomainsBegin DEF DomainsInv, Stages

\* A step that changes only stage and arguments.
LEMMA DomainsInvIgnores ==
  ASSUME DomainsInv, UNCHANGED <<shape, predicates, domains>>, stage' \in Stages, stage' = "empty" => stage = "empty"
  PROVE  DomainsInv'
<1>1. \A p : TypeAt(p)' = TypeAt(p)
  BY DEF TypeAt
<1>2. \A args, x, y, i : ValueOf(args, x, y, i)' = ValueOf(args, x, y, i)
  BY <1>1 DEF ValueOf
<1>3. \A args, c : Holds(args, c)' <=> Holds(args, c)
  BY <1>2 DEF Holds
<1>4. \A args, guards : Satisfies(args, guards)' <=> Satisfies(args, guards)
  BY <1>3 DEF Satisfies
<1>5. Places' = Places
  BY DEF Places
<1>6. DomainsType' = DomainsType /\ \A d, args : Keeps(d, args)' <=> Keeps(d, args)
  BY <1>5 DEF DomainsType, Keeps
<1>7. predicates' = predicates /\ shape' = shape /\ domains' = domains
  OBVIOUS
<1> QED BY <1>4, <1>6, <1>7 DEF DomainsInv

\* A guard more.
LEMMA DomainsInvGuarded ==
  ASSUME DomainsInv, AddGuard
  PROVE  DomainsInv'
<1>1. PICK g \in Guards[shape] :
        /\ predicates' = Append(predicates, g)
        /\ domains' = Constrain(g).domains
        /\ stage' = CASE Constrain(g).end = "settled" -> "guard"
                      [] Constrain(g).end = "empty" -> "empty"
                      [] Constrain(g).end = "open" -> "cyclic"
  BY DEF AddGuard
<1>2. shape \in Signatures /\ shape' = shape /\ domains \in DomainsType /\ predicates \in Seq(Guards[shape])
  BY DEF DomainsInv, AddGuard
<1>3. WellFormed(g) /\ DOMAIN g = 1 .. Len(g)
  BY <1>2, GuardsAssumption DEF WellFormed, Well
<1>4. Constrain(g) \in Results
  <2>1. Open(domains) \in Results
    BY <1>2 DEF Open, Results
  <2> QED BY <1>2, <1>3, <2>1, RoundTyped, ConstrainStays
<1>5. stage' \in Stages /\ (stage' = "empty" <=> Constrain(g).end = "empty") /\ domains' \in DomainsType
  BY <1>1, <1>4 DEF Results, Stages
<1>6. predicates' \in Seq(Guards[shape'])
  BY <1>1, <1>2
<1>7. DomainsType' = DomainsType
  BY <1>2 DEF DomainsType, Places
<1>8. \A args : Satisfies(args, predicates)' <=> Satisfies(args, predicates')
  <2>1. \A p : TypeAt(p)' = TypeAt(p)
    BY <1>2 DEF TypeAt
  <2>2. \A args, x, y, i : ValueOf(args, x, y, i)' = ValueOf(args, x, y, i)
    BY <2>1 DEF ValueOf
  <2>3. \A args, c : Holds(args, c)' <=> Holds(args, c)
    BY <2>2 DEF Holds
  <2> QED BY <2>3 DEF Satisfies
<1>9. ASSUME NEW args, InputOf(shape, args), Satisfies(args, predicates'), ExactConstants
      PROVE  Keeps(domains', args) /\ stage' # "empty"
  <2>1. Satisfies(args, predicates) /\ \A k \in 1 .. Len(g) : HoldsIn(args, g[k])
    <3>1. /\ DOMAIN predicates' = 1 .. Len(predicates) + 1
          /\ DOMAIN predicates = 1 .. Len(predicates) /\ Len(predicates) \in Nat
          /\ \A k \in DOMAIN predicates : k \in DOMAIN predicates' /\ predicates'[k] = predicates[k]
          /\ Len(predicates) + 1 \in DOMAIN predicates' /\ predicates'[Len(predicates) + 1] = g
      BY <1>1, <1>2
    <3>2. \A k \in DOMAIN predicates' : \A j \in DOMAIN predicates'[k] : HoldsIn(args, predicates'[k][j])
      BY <1>9 DEF Satisfies, HoldsIn
    <3>3. \A k \in DOMAIN predicates : \A j \in DOMAIN predicates[k] : HoldsIn(args, predicates[k][j])
      BY <3>1, <3>2
    <3>4. Satisfies(args, predicates)
      BY <3>3 DEF Satisfies, HoldsIn
    <3> QED BY <1>3, <3>1, <3>2, <3>4
  <2>2. Keeps(domains, args)
    BY <1>9, <2>1 DEF DomainsInv
  <2>3. ExactGuard(g)
    BY <1>2, <1>9 DEF ExactConstants, ExactGuard
  <2>4. Constrain(g) \in Keeping(args)
    BY <1>2, <1>3, <1>9, <2>1, <2>2, <2>3, ConstrainKeeps
  <2> QED BY <1>1, <1>5, <2>4 DEF Keeping
<1>10. \A d, args : Keeps(d, args)' <=> Keeps(d, args)
  BY <1>2 DEF Keeps, Places
<1> QED BY <1>2, <1>5, <1>6, <1>7, <1>8, <1>9, <1>10 DEF DomainsInv

LEMMA DomainsInvKept ==
  ASSUME DomainsInv, [DomainsNext]_domainsVars
  PROVE  DomainsInv'
<1>1. CASE AddGuard
  BY <1>1, DomainsInvGuarded
<1>2. CASE Draw
  BY <1>2, DomainsInvIgnores DEF Draw, Sample, Stages
<1>3. CASE Mutate
  BY <1>3, DomainsInvIgnores DEF Mutate, Sample, Stages
<1>4. CASE Vary
  BY <1>4, DomainsInvIgnores DEF Vary, Stages
<1>5. CASE Accept
  BY <1>5, DomainsInvIgnores DEF Accept, Stages
<1>6. CASE TryReduction
  BY <1>6, DomainsInvIgnores DEF TryReduction, DomainsInv
<1>7. CASE Replay
  BY <1>7, DomainsInvIgnores DEF Replay, Stages
<1>8. CASE UNCHANGED domainsVars
  BY <1>8, DomainsInvIgnores DEF domainsVars, DomainsInv
<1> QED BY <1>1, <1>2, <1>3, <1>4, <1>5, <1>6, <1>7, <1>8 DEF DomainsNext

(* constrain never moves a bound past an input that satisfies the guards,    *)
(* however many they are, in whatever order it visits them, and however the  *)
(* types round; the domains stay bounds, and none that it finds empty held   *)
(* such an input.                                                            *)
THEOREM DomainsInvariance == DomainsSpec => []DomainsInv
<1>1. DomainsInit => DomainsInv
  BY DomainsInvBegins
<1>2. DomainsInv /\ [DomainsNext]_domainsVars => DomainsInv'
  BY DomainsInvKept
<1> QED BY <1>1, <1>2, PTL DEF DomainsSpec

(* Narrowing loses nothing, for guards with exact constants and outside the  *)
(* refusal of strict bounds in a circle: every input of the types that       *)
(* satisfies the guards fits the bounds, and there is none when a domain is  *)
(* refused as empty.                                                         *)
THEOREM NarrowingIsSound ==
  ExactConstants => (DomainsSpec => [](stage # "cyclic" => NarrowingLosesNothing))
<1> SUFFICES ASSUME ExactConstants PROVE DomainsSpec => [](stage # "cyclic" => NarrowingLosesNothing)
  OBVIOUS
<1>1. ASSUME DomainsInv, stage # "cyclic" PROVE NarrowingLosesNothing
  <2> SUFFICES ASSUME stage \in {"guard", "empty"}, NEW args \in EveryInput[shape], Satisfies(args, predicates)
               PROVE  stage = "guard" /\ Fits(args)
    BY <1>1 DEF NarrowingLosesNothing
  <2>1. InputOf(shape, args) /\ shape \in Signatures /\ domains \in DomainsType
    BY <1>1, EveryInputIs DEF DomainsInv
  <2>2. Keeps(domains, args) /\ stage # "empty"
    BY <1>1, <2>1 DEF DomainsInv
  <2> QED BY <2>1, <2>2, KeptFits
<1>2. DomainsInv => (stage # "cyclic" => NarrowingLosesNothing)
  BY <1>1
<1> QED BY <1>2, DomainsInvariance, PTL

-----------------------------------------------------------------------------
(* The bounds stay values of their types, within the domain of the type, and *)
(* a function that is not refused has a value at every place.                *)
ProperBound(v, t) == v \in Int /\ IF IsFloat(t) THEN v \in Grid[t] \cup {Unlimited, -Unlimited} ELSE v % One = 0

Proper(d) ==
  \A p \in Places : /\ ProperBound(d[p].lower, TypeAt(p)) /\ Domain(p).lower <= d[p].lower
                    /\ ProperBound(d[p].upper, TypeAt(p)) /\ d[p].upper <= Domain(p).upper

LEMMA IntegersBetween ==
  ASSUME NEW v \in Int
  PROVE  /\ Floor(v) \in Int /\ Floor(v) % One = 0 /\ Floor(v) <= v /\ v < Floor(v) + One
         /\ Ceil(v) \in Int /\ Ceil(v) % One = 0 /\ v <= Ceil(v) /\ Ceil(v) < v + One
         /\ v % One = 0 => Floor(v) = v /\ Ceil(v) = v
         /\ \A w \in Int : w % One = 0 => (w <= v => w <= Floor(v)) /\ (v <= w => Ceil(v) <= w)
<1> DEFINE a == v \div One
           c == (-v) \div One
<1>0. One \in Nat \ {0}
  BY DomainsAssumption
<1>1. /\ a \in Int /\ a * One \in Int /\ a * One <= v /\ v < a * One + One
      /\ c \in Int /\ c * One \in Int /\ c * One <= -v /\ -v < c * One + One
  BY Division, Multiples
<1>2. v % One = 0 => v = a * One
  BY Division
<1>3. Floor(v) = a * One /\ Ceil(v) = -(c * One)
  <2>1. Floor(v) = a * One BY DEF Floor
  <2>2. Ceil(v) = -(c * One) BY DEF Ceil
  <2> QED BY <2>1, <2>2, <1>1, Multiples
<1> HIDE DEF a, c
<1>4. (a * One) % One = 0 /\ (-(c * One)) % One = 0
  <2>1. \A n \in Int : (n * One) % One = 0
    BY <1>0
  <2>2. (-c) \in Int /\ (-c) * One = -(c * One)
    BY <1>1, Multiples
  <2> QED BY <1>1, <2>1, <2>2
<1>5. ASSUME NEW w \in Int, w % One = 0
      PROVE  (w <= v => w <= a * One) /\ (v <= w => -(c * One) <= w)
  <2>1. PICK e \in Int : w = e * One /\ e * One \in Int
    BY <1>5, Division, Multiples
  <2>2. (-e) \in Int /\ (-e) * One = -(e * One)
    BY <2>1, Multiples
  <2>3. w <= v => e * One < a * One + One
    BY <1>0, <1>1, <2>1
  <2>4. v <= w => (-e) * One < c * One + One
    BY <1>0, <1>1, <2>1, <2>2
  <2>5. e * One < a * One + One => e <= a
    BY <1>1, <2>1, Multiples
  <2>6. (-e) * One < c * One + One => -e <= c
    BY <1>1, <2>1, <2>2, Multiples
  <2>7. e <= a => e * One <= a * One
    BY <1>0, <1>1, <2>1
  <2>8. -e <= c => (-e) * One <= c * One
    BY <1>0, <1>1, <2>1, <2>2
  <2> QED BY <1>1, <2>1, <2>2, <2>3, <2>4, <2>5, <2>6, <2>7, <2>8
<1>6. ASSUME v % One = 0 PROVE a * One = v /\ -(c * One) = v
  <2>1. v <= v /\ v = a * One
    BY <1>2, <1>6
  <2>2. -(c * One) <= v
    BY <1>5, <1>6, <2>1
  <2>3. v <= -(c * One) /\ -(c * One) \in Int
    BY <1>1
  <2> QED BY <2>1, <2>2, <2>3
<1> QED BY <1>0, <1>1, <1>3, <1>4, <1>5, <1>6

\* The bound that comparison_bound returns is one of the type.
LEMMA BoundIsProper ==
  ASSUME NEW t, NEW v \in Int, NEW lower \in BOOLEAN, NEW strict \in BOOLEAN
  PROVE  ProperBound(ComparisonBound(v, t, lower, strict), t)
<1> DEFINE b == ComparisonBound(v, t, lower, strict)
<1>0. /\ One \in Nat \ {0} /\ Unlimited \in Nat /\ Unlimited % One = 0 /\ (-Unlimited) % One = 0
  <2>1. One \in Nat \ {0} /\ Unlimited \in Nat /\ Unlimited % One = 0
    BY DomainsAssumption
  <2>2. PICK e \in Int : Unlimited = e * One
    BY <2>1, Division
  <2>3. -Unlimited = (-e) * One /\ -e \in Int
    BY <2>1, <2>2
  <2>4. \A n \in Int : (n * One) % One = 0
    BY <2>1
  <2> QED BY <2>1, <2>3, <2>4
<1>1. b \in Int
  BY BoundIsSound
<1>2. CASE v \in {Unlimited, -Unlimited}
  <2>1. b = v BY <1>2 DEF ComparisonBound
  <2> QED BY <1>0, <1>2, <2>1 DEF ProperBound
<1>3. CASE v \notin {Unlimited, -Unlimited} /\ IsFloat(t)
  <2>1. b = FloatBound(v, t, lower, strict)
    BY <1>3 DEF ComparisonBound
  <2> DEFINE r == RoundedFloat(v, t)
  <2>2. t \in FloatTypes
    BY <1>3 DEF IsFloat
  <2>3. r \in Int /\ r \in Grid[t] \cup {Unlimited, -Unlimited}
    BY <2>2, RoundingIsNear
  <2>4. b \in {r, AdjacentFloat(r, t, lower)}
    BY <2>1 DEF FloatBound
  <2> HIDE DEF r
  <2>5. AdjacentFloat(r, t, lower) \in Grid[t] \cup {Unlimited, -Unlimited}
    <3>1. AdjacentFloat(r, t, TRUE) \in Grid[t] \cup {Unlimited} /\ AdjacentFloat(r, t, FALSE) \in Grid[t] \cup {-Unlimited}
      BY <2>2, <2>3, AdjacentBounds
    <3> QED BY <3>1
  <2> QED BY <1>1, <1>3, <2>3, <2>4, <2>5 DEF ProperBound
<1>4. CASE v \notin {Unlimited, -Unlimited} /\ ~IsFloat(t)
  <2>1. b = IntegerBound(v, lower, strict)
    BY <1>4 DEF ComparisonBound
  <2>2. b \in {Floor(v) + One, Ceil(v), Ceil(v) - One, Floor(v)}
    BY <2>1 DEF IntegerBound
  <2>3. \A n \in Int : n % One = 0 => (n + One) % One = 0 /\ (n - One) % One = 0
    <3> SUFFICES ASSUME NEW n \in Int, n % One = 0 PROVE (n + One) % One = 0 /\ (n - One) % One = 0
      OBVIOUS
    <3>1. PICK e \in Int : n = e * One
      BY Division
    <3>2. n + One = (e + 1) * One /\ n - One = (e - 1) * One
      BY <1>0, <3>1
    <3>3. \A m \in Int : (m * One) % One = 0
      BY <1>0
    <3>4. e + 1 \in Int /\ e - 1 \in Int
      OBVIOUS
    <3> QED BY <3>2, <3>3, <3>4
  <2>4. b % One = 0
    BY <2>2, <2>3, IntegersBetween
  <2> QED BY <1>1, <1>4, <2>4 DEF ProperBound
<1> QED BY <1>2, <1>3, <1>4

\* It is not on the wrong side of a value.
LEMMA BoundIsOutside ==
  ASSUME NEW t, NEW v \in Int, -Unlimited < v, v < Unlimited, NEW strict \in BOOLEAN
  PROVE  /\ v <= ComparisonBound(v, t, TRUE, strict) /\ (strict => v < ComparisonBound(v, t, TRUE, strict))
         /\ ComparisonBound(v, t, FALSE, strict) <= v /\ (strict => ComparisonBound(v, t, FALSE, strict) < v)
<1> DEFINE lo == ComparisonBound(v, t, TRUE, strict)
           hi == ComparisonBound(v, t, FALSE, strict)
<1>0. One \in Nat \ {0} /\ Unlimited \in Nat /\ v \notin {Unlimited, -Unlimited}
  BY DomainsAssumption
<1>1. CASE IsFloat(t)
  <2> DEFINE r == RoundedFloat(v, t)
             up == AdjacentFloat(r, t, TRUE)
             down == AdjacentFloat(r, t, FALSE)
  <2>1. t \in FloatTypes
    BY <1>1 DEF IsFloat
  <2>2. r \in Int /\ r \in Grid[t] \cup {Unlimited, -Unlimited}
        /\ \A g \in Grid[t] : g \in Int /\ (v <= g => r <= g) /\ (g <= v => g <= r)
    BY <2>1, RoundingIsNear, GridTyped
  <2>3. /\ lo = IF r < v \/ (strict /\ r = v) THEN up ELSE r
        /\ hi = IF r > v \/ (strict /\ r = v) THEN down ELSE r
    BY <1>0, <1>1 DEF ComparisonBound, FloatBound
  <2> HIDE DEF r
  <2>4. up \in {g \in Grid[t] : g > r} \cup {Unlimited} /\ down \in {g \in Grid[t] : g < r} \cup {-Unlimited}
    BY <2>1, <2>2, AdjacentBounds
  <2> HIDE DEF up, down, lo, hi
  <2>5. r <= v => v < up
    BY <1>0, <2>2, <2>4
  <2>6. v <= r => down < v
    BY <1>0, <2>2, <2>4
  <2>7. up \in Int /\ down \in Int
    BY <1>0, <2>2, <2>4
  <2>8. v <= lo /\ (strict => v < lo)
    BY <2>2, <2>3, <2>5, <2>7
  <2>9. hi <= v /\ (strict => hi < v)
    BY <2>2, <2>3, <2>6, <2>7
  <2> QED BY <2>8, <2>9 DEF lo, hi
<1>2. CASE ~IsFloat(t)
  <2>1. /\ lo = IF strict THEN Floor(v) + One ELSE Ceil(v)
        /\ hi = IF strict THEN Ceil(v) - One ELSE Floor(v)
    BY <1>0, <1>2 DEF ComparisonBound, IntegerBound
  <2>2. /\ Floor(v) \in Int /\ Floor(v) <= v /\ v < Floor(v) + One
        /\ Ceil(v) \in Int /\ v <= Ceil(v) /\ Ceil(v) < v + One
    BY IntegersBetween
  <2> HIDE DEF lo, hi
  <2>3. v <= lo /\ (strict => v < lo)
    BY <1>0, <2>1, <2>2
  <2>4. hi <= v /\ (strict => hi < v)
    BY <1>0, <2>1, <2>2
  <2> QED BY <2>3, <2>4 DEF lo, hi
<1> QED BY <1>1, <1>2

\* The same for a side that is named, as it is cited below.
LEMMA LowerIsSound ==
  ASSUME NEW t, NEW v \in Int, NEW strict \in BOOLEAN, NEW w, IsOf(w, t), IF strict THEN v < w ELSE v <= w
  PROVE  ComparisonBound(v, t, TRUE, strict) <= w
<1>1. TRUE \in BOOLEAN
  OBVIOUS
<1> QED BY <1>1, BoundIsSound

LEMMA UpperIsSound ==
  ASSUME NEW t, NEW v \in Int, NEW strict \in BOOLEAN, NEW w, IsOf(w, t), IF strict THEN w < v ELSE w <= v
  PROVE  w <= ComparisonBound(v, t, FALSE, strict)
<1>1. FALSE \in BOOLEAN
  OBVIOUS
<1> QED BY <1>1, BoundIsSound

LEMMA BoundTyped ==
  ASSUME NEW t, NEW v \in Int, NEW strict \in BOOLEAN
  PROVE  ComparisonBound(v, t, TRUE, strict) \in Int /\ ComparisonBound(v, t, FALSE, strict) \in Int
<1>1. TRUE \in BOOLEAN /\ FALSE \in BOOLEAN
  OBVIOUS
<1> QED BY <1>1, BoundIsSound

\* A bound that is a value of the type stays as it is.
LEMMA BoundOfValue ==
  ASSUME NEW t, NEW v, IsOf(v, t)
  PROVE  ComparisonBound(v, t, TRUE, FALSE) = v /\ ComparisonBound(v, t, FALSE, FALSE) = v
<1>1. v \in Int /\ -Unlimited < v /\ v < Unlimited /\ v <= v /\ FALSE \in BOOLEAN
  BY DEF IsOf
<1>2. ComparisonBound(v, t, TRUE, FALSE) = v
  <2> DEFINE b == ComparisonBound(v, t, TRUE, FALSE)
  <2>1. v <= b
    BY <1>1, BoundIsOutside
  <2>2. b <= v
    BY <1>1, LowerIsSound
  <2>3. b \in Int
    BY <1>1, BoundTyped
  <2> HIDE DEF b
  <2>4. b = v
    BY <1>1, <2>1, <2>2, <2>3
  <2> QED BY <2>4 DEF b
<1>3. ComparisonBound(v, t, FALSE, FALSE) = v
  <2> DEFINE b == ComparisonBound(v, t, FALSE, FALSE)
  <2>1. b <= v
    BY <1>1, BoundIsOutside
  <2>2. v <= b
    BY <1>1, UpperIsSound
  <2>3. b \in Int
    BY <1>1, BoundTyped
  <2> HIDE DEF b
  <2>4. b = v
    BY <1>1, <2>1, <2>2, <2>3
  <2> QED BY <2>4 DEF b
<1> QED BY <1>2, <1>3

\* The domain of a place, and the types of the places.
LEMMA DomainTyped ==
  ASSUME shape \in Signatures, NEW p \in Places
  PROVE  /\ Domain(p) \in [lower : Int, upper : Int]
         /\ ProperBound(Domain(p).lower, TypeAt(p)) /\ ProperBound(Domain(p).upper, TypeAt(p))
         /\ -Unlimited < Domain(p).lower /\ Domain(p).lower <= Domain(p).upper
         /\ TypeAt(p) = "length" => p[2] = "length" /\ Domain(p).lower = 0
         /\ p[2] = "length" => TypeAt(p) = "length" /\ ~IsFloat(TypeAt(p))
         /\ p[2] # "length" => TypeAt(p) = shape[p[1]].type /\ Domain(p).upper < Unlimited
<1>0. /\ Unlimited \in Nat /\ Unlimited > 0 /\ Unlimited % One = 0 /\ One \in Nat \ {0}
      /\ "length" \notin FloatTypes \cup DOMAIN Integral
  <2>1. /\ Unlimited \in Nat /\ Unlimited % One = 0 /\ One \in Nat \ {0}
        /\ "length" \notin FloatTypes \cup DOMAIN Integral /\ MaxItems \in Nat /\ MaxItems * One < Unlimited
    BY DomainsAssumption
  <2>2. MaxItems * One \in Nat
    BY <2>1
  <2> QED BY <2>1, <2>2
<1>1. /\ p[1] \in DOMAIN shape /\ p[2] \in {"value", "length", "item"}
      /\ shape[p[1]].type \in FloatTypes \cup DOMAIN Integral
  BY SignatureTyped
<1>2. CASE p[2] = "length"
  <2>1. TypeAt(p) = "length" /\ ~IsFloat(TypeAt(p)) /\ Domain(p) = [lower |-> 0, upper |-> Unlimited]
    BY <1>0, <1>2 DEF Domain, IsFloat, TypeAt
  <2>2. 0 % One = 0
    BY <1>0
  <2> QED BY <1>0, <1>2, <2>1, <2>2 DEF ProperBound
<1>3. CASE p[2] # "length"
  <2> DEFINE t == shape[p[1]].type
  <2>1. TypeAt(p) = t /\ t # "length"
    BY <1>0, <1>1, <1>3 DEF TypeAt
  <2>2. CASE IsFloat(t)
    <3>1. Domain(p) = [lower |-> Min(Grid[t]), upper |-> Max(Grid[t])]
      BY <2>1, <2>2 DEF Domain
    <3>2. t \in FloatTypes
      BY <2>2 DEF IsFloat
    <3>3. /\ Max(Grid[t]) \in Grid[t] /\ Min(Grid[t]) \in Grid[t]
          /\ \A g \in Grid[t] : Min(Grid[t]) <= g /\ g \in Int /\ -Unlimited < g /\ g < Unlimited
      BY <3>2, GridTyped
    <3> QED BY <1>3, <2>1, <2>2, <3>1, <3>3 DEF ProperBound
  <2>3. CASE ~IsFloat(t)
    <3>1. Domain(p) = Integral[t]
      BY <2>1, <2>3 DEF Domain
    <3>2. t \in DOMAIN Integral
      BY <1>1, <2>3 DEF IsFloat
    <3>3. /\ Integral[t] \in [lower : Int, upper : Int]
          /\ Integral[t].lower % One = 0 /\ Integral[t].upper % One = 0
          /\ Integral[t].lower <= Integral[t].upper
          /\ -Unlimited < Integral[t].lower /\ Integral[t].upper < Unlimited
      BY <3>2, DomainsAssumption
    <3> QED BY <1>3, <2>1, <2>3, <3>1, <3>3 DEF ProperBound
  <2> QED BY <2>2, <2>3
<1> QED BY <1>2, <1>3

LEMMA ProperBegins ==
  ASSUME shape \in Signatures
  PROVE  Proper([p \in Places |-> Domain(p)]) /\ \A p \in Places : ~Empty([q \in Places |-> Domain(q)], p)
BY DomainTyped DEF Proper, Empty

\* Where there is a value, the bounds of a scalar or an item are values.
LEMMA BoundsAreValues ==
  ASSUME shape \in Signatures, NEW d \in DomainsType, Proper(d), NEW p \in Places, ~Empty(d, p), p[2] # "length"
  PROVE  /\ IsOf(d[p].lower, TypeAt(p)) /\ IsOf(d[p].upper, TypeAt(p))
         /\ d[p].lower <= d[p].upper
<1>1. d[p].lower \in Int /\ d[p].upper \in Int /\ d[p].lower <= d[p].upper
  BY DEF DomainsType, Empty
<1>2. /\ -Unlimited < Domain(p).lower /\ Domain(p).upper < Unlimited
      /\ Domain(p).lower \in Int /\ Domain(p).upper \in Int
  BY DomainTyped
<1>3. Domain(p).lower <= d[p].lower /\ d[p].upper <= Domain(p).upper
  BY DEF Proper
<1>4. Unlimited \in Nat
  BY DomainsAssumption
<1>5. /\ -Unlimited < d[p].lower /\ d[p].lower < Unlimited
      /\ -Unlimited < d[p].upper /\ d[p].upper < Unlimited
  BY <1>1, <1>2, <1>3, <1>4
<1>6. ProperBound(d[p].lower, TypeAt(p)) /\ ProperBound(d[p].upper, TypeAt(p))
  BY DEF Proper
<1> QED BY <1>1, <1>4, <1>5, <1>6 DEF IsOf, ProperBound

\* A move leaves bounds that are no wider, of the place that it moves alone.
Narrower(e, d) ==
  \A p \in Places : d[p].lower <= e[p].lower /\ e[p].upper <= d[p].upper

LEMMA NarrowNarrows ==
  ASSUME shape \in Signatures, NEW d \in DomainsType, Proper(d), NEW m, MoveOK(m)
  PROVE  /\ NarrowBy(d, m) \in DomainsType /\ Proper(NarrowBy(d, m)) /\ Narrower(NarrowBy(d, m), d)
         /\ \A p \in Places : p # m.of => NarrowBy(d, m)[p] = d[p]
         /\ NarrowBy(d, m)[m.of] =
              IF m.side = "lower" THEN [lower |-> Larger(d[m.of].lower, Proposed(d, m)), upper |-> d[m.of].upper]
                                  ELSE [lower |-> d[m.of].lower, upper |-> Smaller(d[m.of].upper, Proposed(d, m))]
<1> DEFINE b == Proposed(d, m)
           e == NarrowBy(d, m)
           p0 == m.of
<1>1. e \in DomainsType /\ b \in Int /\ e = Moved(d, p0, m.side, b)
  BY NarrowTyped
<1>2. p0 \in Places /\ m.side \in {"lower", "upper"} /\ m.strict \in BOOLEAN
  BY DEF MoveOK
<1>3. ProperBound(b, TypeAt(p0))
  <2> DEFINE v == IF IsPlace(m.by) THEN d[m.by.place][m.side] ELSE OfType(m.by.constant, TypeAt(m.of))
  <2>1. v \in Int
    <3>1. CASE IsPlace(m.by)
      BY <1>2, <3>1 DEF MoveOK, DomainsType
    <3>2. CASE ~IsPlace(m.by)
      BY <3>2, OfTypeTyped DEF MoveOK
    <3> QED BY <3>1, <3>2
  <2>2. (m.side = "lower") \in BOOLEAN
    OBVIOUS
  <2>3. b = ComparisonBound(v, TypeAt(p0), m.side = "lower", m.strict)
    BY DEF Proposed
  <2> HIDE DEF v, b, p0
  <2> QED BY <1>2, <2>1, <2>2, <2>3, BoundIsProper
<1> HIDE DEF b, e, p0
<1>4. \A p \in Places : p # p0 => e[p] = d[p]
  BY <1>1, <1>2, MovedElse
<1>5. e[p0] = IF m.side = "lower" THEN [lower |-> Larger(d[p0].lower, b), upper |-> d[p0].upper]
                                  ELSE [lower |-> d[p0].lower, upper |-> Smaller(d[p0].upper, b)]
  BY <1>1, <1>2, MovedBound
<1>6. \A p \in Places : d[p].lower \in Int /\ d[p].upper \in Int
  BY DEF DomainsType
<1>7. /\ d[p0].lower <= e[p0].lower /\ e[p0].upper <= d[p0].upper
      /\ e[p0].lower \in {d[p0].lower, b} /\ e[p0].upper \in {d[p0].upper, b}
      /\ e[p0].lower \in Int /\ e[p0].upper \in Int
  BY <1>1, <1>2, <1>5, <1>6 DEF Larger, Smaller
<1>8. Narrower(e, d)
  BY <1>2, <1>4, <1>6, <1>7 DEF Narrower
<1>9. Proper(e)
  <2> SUFFICES ASSUME NEW p \in Places
               PROVE  /\ ProperBound(e[p].lower, TypeAt(p)) /\ Domain(p).lower <= e[p].lower
                      /\ ProperBound(e[p].upper, TypeAt(p)) /\ e[p].upper <= Domain(p).upper
    BY DEF Proper
  <2>1. /\ ProperBound(d[p].lower, TypeAt(p)) /\ Domain(p).lower <= d[p].lower
        /\ ProperBound(d[p].upper, TypeAt(p)) /\ d[p].upper <= Domain(p).upper
    BY DEF Proper
  <2>2. Domain(p).lower \in Int /\ Domain(p).upper \in Int
    BY DomainTyped
  <2>3. CASE p # p0
    BY <1>4, <2>1, <2>3
  <2>4. CASE p = p0
    BY <1>3, <1>6, <1>7, <2>1, <2>2, <2>4
  <2> QED BY <2>3, <2>4
<1> QED BY <1>1, <1>4, <1>5, <1>8, <1>9 DEF b, e, p0

\* Once empty, empty.
LEMMA StaysEmpty ==
  ASSUME NEW d \in DomainsType, NEW e \in DomainsType, Narrower(e, d), NEW p \in Places, Empty(d, p)
  PROVE  Empty(e, p)
BY DEF DomainsType, Narrower, Empty

-----------------------------------------------------------------------------
(* An item is in no Tops, so no round looks whether its bounds are empty.    *)
(* It is not: a comparison with a constant looks itself, and the two moves   *)
(* of a comparison with another place leave a value to the one when they     *)
(* leave one to the other.                                                   *)
Pair(d, low, op, high) ==
  NarrowBy(NarrowBy(d, Move(high.place, "lower", low, op)), Move(low.place, "upper", high, op))

Orders(low, high) == IsPlace(low) /\ IsPlace(high) /\ low.place \in Places /\ high.place \in Places

LEMMA MoveIs ==
  ASSUME NEW p \in Places, NEW side \in {"lower", "upper"}, NEW by, NEW op, IsPlace(by), by.place \in Places
  PROVE  LET m == Move(p, side, by, op)
         IN  /\ MoveOK(m) /\ m.of = p /\ m.side = side
             /\ \A d : Proposed(d, m) = ComparisonBound(d[by.place][side], TypeAt(p), side = "lower", op \in {"<", ">"})
BY DEF Move, MoveOK, Proposed

LEMMA PairNarrows ==
  ASSUME shape \in Signatures, NEW d \in DomainsType, Proper(d), NEW low, NEW high, NEW op, Orders(low, high)
  PROVE  LET e == Pair(d, low, op, high)
         IN  /\ e \in DomainsType /\ Proper(e) /\ Narrower(e, d)
             /\ \A p \in Places : p \notin {low.place, high.place} => e[p] = d[p]
<1> DEFINE m == Move(high.place, "lower", low, op)
           n == Move(low.place, "upper", high, op)
           c == NarrowBy(d, m)
           e == NarrowBy(c, n)
<1>1. MoveOK(m) /\ MoveOK(n) /\ m.of = high.place /\ n.of = low.place
  BY MoveIs DEF Orders
<1> HIDE DEF m, n
<1>2. /\ c \in DomainsType /\ Proper(c) /\ Narrower(c, d)
      /\ \A p \in Places : p # high.place => c[p] = d[p]
  BY <1>1, NarrowNarrows
<1> HIDE DEF c
<1>3. /\ e \in DomainsType /\ Proper(e) /\ Narrower(e, c)
      /\ \A p \in Places : p # low.place => e[p] = c[p]
  BY <1>1, <1>2, NarrowNarrows
<1> HIDE DEF e
<1>4. Narrower(e, d)
  BY <1>2, <1>3 DEF Narrower, DomainsType
<1> QED BY <1>2, <1>3, <1>4 DEF Pair, e, c, m, n

LEMMA PairKeeps ==
  ASSUME shape \in Signatures, NEW d \in DomainsType, Proper(d), NEW low, NEW high, NEW op,
         Orders(low, high), low.place # high.place
  PROVE  LET e == Pair(d, low, op, high)
         IN  /\ low.place[2] # "length" /\ ~Empty(d, low.place) /\ ~Empty(e, high.place) => ~Empty(e, low.place)
             /\ high.place[2] # "length" /\ ~Empty(d, high.place) /\ ~Empty(e, low.place) => ~Empty(e, high.place)
<1> DEFINE m == Move(high.place, "lower", low, op)
           n == Move(low.place, "upper", high, op)
           c == NarrowBy(d, m)
           e == NarrowBy(c, n)
           p == low.place
           q == high.place
           strict == op \in {"<", ">"}
           a == ComparisonBound(d[p].lower, TypeAt(q), TRUE, strict)
           b == ComparisonBound(d[q].upper, TypeAt(p), FALSE, strict)
<1>0. strict \in BOOLEAN /\ p \in Places /\ q \in Places /\ p # q
  BY DEF Orders
<1>1. /\ MoveOK(m) /\ m.of = q /\ m.side = "lower" /\ Proposed(d, m) = a
      /\ MoveOK(n) /\ n.of = p /\ n.side = "upper"
      /\ Proposed(c, n) = ComparisonBound(c[q].upper, TypeAt(p), FALSE, strict)
  <2>1. /\ MoveOK(m) /\ m.of = q /\ m.side = "lower"
        /\ Proposed(d, m) = ComparisonBound(d[p]["lower"], TypeAt(q), "lower" = "lower", strict)
    BY MoveIs DEF Orders
  <2>2. /\ MoveOK(n) /\ n.of = p /\ n.side = "upper"
        /\ Proposed(c, n) = ComparisonBound(c[q]["upper"], TypeAt(p), "upper" = "lower", strict)
    BY MoveIs DEF Orders
  <2>3. ("lower" = "lower") = TRUE /\ ("upper" = "lower") = FALSE
    OBVIOUS
  <2> QED BY <2>1, <2>2, <2>3
<1> HIDE DEF m, n
<1>2. /\ c \in DomainsType /\ Proper(c)
      /\ \A r \in Places : r # q => c[r] = d[r]
      /\ c[q] = [lower |-> Larger(d[q].lower, a), upper |-> d[q].upper]
  BY <1>1, NarrowNarrows
<1> HIDE DEF c
<1>3. /\ \A r \in Places : r # p => e[r] = c[r]
      /\ e[p] = [lower |-> c[p].lower, upper |-> Smaller(c[p].upper, Proposed(c, n))]
  <2>1. /\ \A r \in Places : r # n.of => e[r] = c[r]
        /\ e[n.of] = IF n.side = "lower" THEN [lower |-> Larger(c[n.of].lower, Proposed(c, n)), upper |-> c[n.of].upper]
                                         ELSE [lower |-> c[n.of].lower, upper |-> Smaller(c[n.of].upper, Proposed(c, n))]
    BY <1>1, <1>2, NarrowNarrows
  <2>2. n.of = p /\ ~(n.side = "lower")
    BY <1>1
  <2> HIDE DEF e
  <2> QED BY <2>1, <2>2
<1>4. c[q].upper = d[q].upper /\ c[p] = d[p]
  BY <1>0, <1>2
<1>5. Proposed(c, n) = b
  BY <1>1, <1>4
<1> HIDE DEF a, b, e, strict, p, q
<1>6. /\ e[p].lower = d[p].lower /\ e[p].upper = Smaller(d[p].upper, b)
      /\ e[q].lower = Larger(d[q].lower, a) /\ e[q].upper = d[q].upper
  BY <1>0, <1>2, <1>3, <1>4, <1>5
<1>7. /\ d[p].lower \in Int /\ d[p].upper \in Int /\ d[q].lower \in Int /\ d[q].upper \in Int
  BY <1>0 DEF DomainsType
<1>8. a \in Int /\ b \in Int
  BY <1>0, <1>7, BoundTyped DEF a, b
<1>9. ASSUME p[2] # "length", ~Empty(d, p), ~Empty(e, q) PROVE ~Empty(e, p)
  <2>1. IsOf(d[p].lower, TypeAt(p)) /\ d[p].lower <= d[p].upper
    BY <1>0, <1>9, BoundsAreValues
  <2>2. a <= d[q].upper
    BY <1>6, <1>7, <1>8, <1>9 DEF Empty, Larger
  <2>3. d[p].lower <= a /\ (strict => d[p].lower < a)
    BY <1>0, <2>1, BoundIsOutside DEF IsOf, a
  <2>4. IF strict THEN d[p].lower < d[q].upper ELSE d[p].lower <= d[q].upper
    BY <1>7, <1>8, <2>2, <2>3
  <2>5. d[p].lower <= b
    BY <1>0, <1>7, <2>1, <2>4, UpperIsSound DEF b
  <2> QED BY <1>6, <1>7, <1>8, <2>1, <2>5 DEF Empty, Smaller
<1>10. ASSUME q[2] # "length", ~Empty(d, q), ~Empty(e, p) PROVE ~Empty(e, q)
  <2>1. IsOf(d[q].upper, TypeAt(q)) /\ d[q].lower <= d[q].upper
    BY <1>0, <1>10, BoundsAreValues
  <2>2. d[p].lower <= b
    BY <1>6, <1>7, <1>8, <1>10 DEF Empty, Smaller
  <2>3. b <= d[q].upper /\ (strict => b < d[q].upper)
    BY <1>0, <2>1, BoundIsOutside DEF IsOf, b
  <2>4. IF strict THEN d[p].lower < d[q].upper ELSE d[p].lower <= d[q].upper
    BY <1>7, <1>8, <2>2, <2>3
  <2>5. a <= d[q].upper
    BY <1>0, <1>7, <2>1, <2>4, LowerIsSound DEF a
  <2> QED BY <1>6, <1>7, <1>8, <2>1, <2>5 DEF Empty, Larger
<1> QED BY <1>9, <1>10 DEF Pair, e, c, m, n, p, q

\* A place that is compared with itself keeps its bounds.
LEMMA SelfKeeps ==
  ASSUME shape \in Signatures, NEW d \in DomainsType, Proper(d), NEW low, NEW high, NEW op, op \notin {"<", ">"},
         Orders(low, high), low.place = high.place, low.place[2] # "length", ~Empty(d, low.place)
  PROVE  ~Empty(Pair(d, low, op, high), low.place)
<1> DEFINE m == Move(high.place, "lower", low, op)
           n == Move(low.place, "upper", high, op)
           c == NarrowBy(d, m)
           e == NarrowBy(c, n)
           p == low.place
<1>0. p \in Places /\ high.place = p
  BY DEF Orders
<1>1. /\ IsOf(d[p].lower, TypeAt(p)) /\ IsOf(d[p].upper, TypeAt(p)) /\ d[p].lower <= d[p].upper
  BY <1>0, BoundsAreValues
<1>2. /\ MoveOK(m) /\ m.of = p /\ m.side = "lower"
      /\ Proposed(d, m) = ComparisonBound(d[p]["lower"], TypeAt(p), "lower" = "lower", op \in {"<", ">"})
      /\ MoveOK(n) /\ n.of = p /\ n.side = "upper"
      /\ Proposed(c, n) = ComparisonBound(c[p]["upper"], TypeAt(p), "upper" = "lower", op \in {"<", ">"})
  BY <1>0, MoveIs DEF Orders
<1>3. ("lower" = "lower") = TRUE /\ ("upper" = "lower") = FALSE /\ (op \in {"<", ">"}) = FALSE
  OBVIOUS
<1>4. /\ Proposed(d, m) = ComparisonBound(d[p].lower, TypeAt(p), TRUE, FALSE)
      /\ Proposed(c, n) = ComparisonBound(c[p].upper, TypeAt(p), FALSE, FALSE)
  BY <1>2, <1>3
<1> HIDE DEF m, n, p
<1>5. /\ c \in DomainsType /\ Proper(c) /\ c[p] = [lower |-> Larger(d[p].lower, Proposed(d, m)), upper |-> d[p].upper]
  <2>1. /\ c \in DomainsType /\ Proper(c)
        /\ c[m.of] = IF m.side = "lower" THEN [lower |-> Larger(d[m.of].lower, Proposed(d, m)), upper |-> d[m.of].upper]
                                         ELSE [lower |-> d[m.of].lower, upper |-> Smaller(d[m.of].upper, Proposed(d, m))]
    BY <1>2, NarrowNarrows
  <2>2. m.of = p /\ m.side = "lower"
    BY <1>2
  <2> HIDE DEF c
  <2> QED BY <2>1, <2>2
<1>6. Proposed(d, m) = d[p].lower
  BY <1>1, <1>4, BoundOfValue
<1> HIDE DEF c
<1>7. c[p].lower = d[p].lower /\ c[p].upper = d[p].upper
  BY <1>5, <1>6 DEF Larger
<1>8. Proposed(c, n) = d[p].upper
  BY <1>1, <1>4, <1>7, BoundOfValue
<1>9. e[p] = [lower |-> c[p].lower, upper |-> Smaller(c[p].upper, Proposed(c, n))]
  <2>1. e[n.of] = IF n.side = "lower" THEN [lower |-> Larger(c[n.of].lower, Proposed(c, n)), upper |-> c[n.of].upper]
                                      ELSE [lower |-> c[n.of].lower, upper |-> Smaller(c[n.of].upper, Proposed(c, n))]
    BY <1>2, <1>5, NarrowNarrows
  <2>2. n.of = p /\ ~(n.side = "lower")
    BY <1>2
  <2> HIDE DEF e
  <2> QED BY <2>1, <2>2
<1> HIDE DEF e
<1>10. e[p].lower = d[p].lower /\ e[p].upper = d[p].upper
  BY <1>7, <1>8, <1>9 DEF Smaller
<1>11. ~Empty(e, p)
  BY <1>10 DEF Empty, p
<1> QED BY <1>11 DEF Pair, e, c, m, n, p

LEMMA Concatenated ==
  ASSUME NEW S, NEW s \in Seq(S), NEW t \in Seq(S)
  PROVE  /\ Len(s \o t) = Len(s) + Len(t)
         /\ \A k \in 1 .. Len(s) + Len(t) : (s \o t)[k] = IF k <= Len(s) THEN s[k] ELSE t[k - Len(s)]
OBVIOUS

\* The moves of an order are those of its pairs.
LEMMA OrderPairs ==
  ASSUME shape \in Signatures, NEW d \in DomainsType, Proper(d), NEW low, NEW high, Orders(low, high),
         NEW op \in {"<", "<=", "==", "!="}
  PROVE  Narrowed(d, Order(low, op, high)) =
           CASE op \in {"<", "<="} -> Pair(d, low, op, high)
             [] op = "=="          -> Pair(Pair(d, low, op, high), high, op, low)
             [] OTHER              -> d
<1> DEFINE a == Move(high.place, "lower", low, op)
           b == Move(low.place, "upper", high, op)
           e == Move(low.place, "lower", high, op)
           f == Move(high.place, "upper", low, op)
<1>1. MoveOK(a) /\ MoveOK(b) /\ MoveOK(e) /\ MoveOK(f)
  BY MoveIs DEF Orders
<1>2. Order(low, op, high) = CASE op \in {"<", "<="} -> <<a, b>>
                               [] op = "==" -> <<a, b>> \o <<e, f>>
                               [] OTHER -> <<>>
  BY DEF Order
<1>3. /\ Pair(d, low, op, high) = NarrowBy(NarrowBy(d, a), b)
      /\ Pair(Pair(d, low, op, high), high, op, low) = NarrowBy(NarrowBy(NarrowBy(NarrowBy(d, a), b), e), f)
  BY DEF Pair
<1> HIDE DEF a, b, e, f
<1>4. CASE op \in {"<", "<="}
  <2> DEFINE ms == <<a, b>>
  <2>1. Len(ms) = 2 /\ ms[1] = a /\ ms[2] = b /\ Len(ms) \in Nat
    OBVIOUS
  <2>2. \A k \in 1 .. Len(ms) : MoveOK(ms[k])
    <3>1. \A k \in 1 .. 2 : k = 1 \/ k = 2
      OBVIOUS
    <3> QED BY <1>1, <2>1, <3>1
  <2> HIDE DEF ms
  <2>3. PICK g : /\ g[0] = d /\ Narrowed(d, ms) = g[Len(ms)]
                 /\ \A k \in 1 .. Len(ms) : g[k] = NarrowBy(g[k - 1], ms[k])
    BY <2>1, <2>2, NarrowedUnfolds
  <2>4. g[1] = NarrowBy(g[0], a) /\ g[2] = NarrowBy(g[1], b)
    <3>1. 1 \in 1 .. 2 /\ 2 \in 1 .. 2 /\ 1 - 1 = 0 /\ 2 - 1 = 1
      OBVIOUS
    <3> QED BY <2>1, <2>3, <3>1
  <2>5. Order(low, op, high) = ms
    BY <1>2, <1>4 DEF ms
  <2> QED BY <1>3, <1>4, <2>1, <2>3, <2>4, <2>5
<1>5. CASE op = "=="
  <2> DEFINE ms == <<a, b>> \o <<e, f>>
  <2>1. Len(ms) = 4 /\ ms[1] = a /\ ms[2] = b /\ ms[3] = e /\ ms[4] = f /\ Len(ms) \in Nat
    <3> DEFINE s == <<a, b>>
               t == <<e, f>>
    <3>1. /\ s \in Seq({a, b, e, f}) /\ Len(s) = 2 /\ s[1] = a /\ s[2] = b
          /\ t \in Seq({a, b, e, f}) /\ Len(t) = 2 /\ t[1] = e /\ t[2] = f
      OBVIOUS
    <3> HIDE DEF s, t
    <3>2. /\ Len(s \o t) = Len(s) + Len(t)
          /\ \A k \in 1 .. Len(s) + Len(t) : (s \o t)[k] = IF k <= Len(s) THEN s[k] ELSE t[k - Len(s)]
      BY <3>1, Concatenated
    <3>3. Len(s \o t) = 4 /\ (s \o t)[1] = a /\ (s \o t)[2] = b /\ (s \o t)[3] = e /\ (s \o t)[4] = f
      BY <3>1, <3>2
    <3> QED BY <3>3 DEF s, t
  <2>2. \A k \in 1 .. Len(ms) : MoveOK(ms[k])
    <3>1. \A k \in 1 .. 4 : k = 1 \/ k = 2 \/ k = 3 \/ k = 4
      OBVIOUS
    <3> QED BY <1>1, <2>1, <3>1
  <2> HIDE DEF ms
  <2>4. PICK g : /\ g[0] = d /\ Narrowed(d, ms) = g[Len(ms)]
                 /\ \A k \in 1 .. Len(ms) : g[k] = NarrowBy(g[k - 1], ms[k])
    BY <2>1, <2>2, NarrowedUnfolds
  <2>5. g[1] = NarrowBy(g[0], a) /\ g[2] = NarrowBy(g[1], b) /\ g[3] = NarrowBy(g[2], e) /\ g[4] = NarrowBy(g[3], f)
    <3>1. /\ 1 \in 1 .. 4 /\ 2 \in 1 .. 4 /\ 3 \in 1 .. 4 /\ 4 \in 1 .. 4
          /\ 1 - 1 = 0 /\ 2 - 1 = 1 /\ 3 - 1 = 2 /\ 4 - 1 = 3
      OBVIOUS
    <3> QED BY <2>1, <2>4, <3>1
  <2>6. Order(low, op, high) = ms
    BY <1>2, <1>5 DEF ms
  <2> QED BY <1>3, <1>5, <2>1, <2>4, <2>5, <2>6
<1>6. CASE op = "!="
  <2>1. Order(low, op, high) = <<>> /\ Len(<<>>) = 0
    BY <1>2, <1>6
  <2>2. Narrowed(d, <<>>) = d
    BY <2>1, NarrowedUnfolds
  <2> QED BY <1>6, <2>1, <2>2
<1> QED BY <1>4, <1>5, <1>6

\* An order leaves a value to an item, when it leaves one to what the item is
\* compared with.
LEMMA OrderKeeps ==
  ASSUME shape \in Signatures, NEW d \in DomainsType, Proper(d), NEW low, NEW high, Orders(low, high),
         NEW op \in {"<", "<=", "==", "!="}, low.place = high.place => op # "<",
         NEW p \in {low.place, high.place}, p[2] # "length", ~Empty(d, p),
         NEW e, e = Narrowed(d, Order(low, op, high)),
         \A q \in {low.place, high.place} : q # p => ~Empty(e, q)
  PROVE  ~Empty(e, p)
<1> DEFINE c == Pair(d, low, op, high)
           f == Pair(c, high, op, low)
<1>0. Orders(high, low)
  BY DEF Orders
<1>1. c \in DomainsType /\ Proper(c)
  BY PairNarrows
<1> HIDE DEF c
<1>2. f \in DomainsType /\ Narrower(f, c)
  BY <1>0, <1>1, PairNarrows
<1> HIDE DEF f
<1>3. /\ op \in {"<", "<="} => e = c
      /\ op = "==" => e = f
      /\ op = "!=" => e = d
  BY OrderPairs DEF c, f
<1>4. CASE low.place = high.place
  <2>1. p = low.place /\ p = high.place
    BY <1>4
  <2>2. op \notin {"<", ">"}
    BY <1>4
  <2>3. ~Empty(c, p)
    BY <2>1, <2>2, SelfKeeps DEF c
  <2>4. ~Empty(f, p)
    BY <1>0, <1>1, <2>1, <2>2, <2>3, SelfKeeps DEF f
  <2> QED BY <1>3, <2>2, <2>3, <2>4
<1>5. CASE low.place # high.place
  <2>1. PICK q \in {low.place, high.place} : q # p /\ {p, q} = {low.place, high.place}
    BY <1>5
  <2>2. ~Empty(e, q) /\ q \in Places
    BY <2>1 DEF Orders
  <2>3. ~Empty(c, q) => ~Empty(c, p)
    BY <1>5, <2>1, PairKeeps DEF c
  <2>4. ~Empty(c, p) /\ ~Empty(f, q) => ~Empty(f, p)
    BY <1>0, <1>1, <1>5, <2>1, PairKeeps DEF f
  <2>5. ~Empty(f, q) => ~Empty(c, q)
    BY <1>1, <1>2, <2>2, StaysEmpty
  <2> QED BY <1>3, <2>2, <2>3, <2>4, <2>5
<1> QED BY <1>4, <1>5

\* A comparison moves the bounds of its sides, and only inwards.
LEMMA ComparisonNarrows ==
  ASSUME shape \in Signatures, NEW d \in DomainsType, Proper(d), NEW c, Well(c)
  PROVE  LET e == Narrowed(d, Moves(c))
         IN  /\ e \in DomainsType /\ Proper(e) /\ Narrower(e, d)
             /\ \A p \in Places : (IsEither(c) \/ \A x \in {c.left, c.right} : IsPlace(x) => x.place # p) => e[p] = d[p]
<1> DEFINE Apart(p) == IsEither(c) \/ \A x \in {c.left, c.right} : IsPlace(x) => x.place # p
           K == {x \in DomainsType : Proper(x) /\ Narrower(x, d) /\ \A p \in Places : Apart(p) => x[p] = d[p]}
<1>1. \A k \in 1 .. Len(Moves(c)) : \A p : Apart(p) => Moves(c)[k].of # p
  <2>1. CASE IsEither(c)
    <3>1. Moves(c) = <<>>
      BY <2>1 DEF Moves
    <3> QED BY <3>1
  <2>2. CASE ~IsEither(c)
    <3>1. AllDerived(Moves(c), c)
      BY <2>2, MovesDerived DEF Well
    <3>2. ASSUME NEW m, Derived(m, c), NEW p, Apart(p) PROVE m.of # p
      <4>1. \E side, op : \/ IsPlace(c.left) /\ m = Move(c.left.place, side, c.right, op)
                          \/ IsPlace(c.right) /\ m = Move(c.right.place, side, c.left, op)
        BY <3>2 DEF Derived
      <4>2. (IsPlace(c.left) /\ m.of = c.left.place) \/ (IsPlace(c.right) /\ m.of = c.right.place)
        BY <4>1 DEF Move
      <4> QED BY <2>2, <3>2, <4>2
    <3> HIDE DEF Apart
    <3> QED BY <3>1, <3>2 DEF AllDerived
  <2> QED BY <2>1, <2>2
<1> HIDE DEF Apart
<1>2. ASSUME NEW k \in 1 .. Len(Moves(c)), NEW x \in K PROVE NarrowBy(x, Moves(c)[k]) \in K
  <2> DEFINE y == NarrowBy(x, Moves(c)[k])
  <2>1. MoveOK(Moves(c)[k]) /\ x \in DomainsType /\ Proper(x) /\ Narrower(x, d)
    BY <1>2, MovesOK
  <2>2. /\ y \in DomainsType /\ Proper(y) /\ Narrower(y, x)
        /\ \A p \in Places : p # Moves(c)[k].of => y[p] = x[p]
    BY <2>1, NarrowNarrows
  <2> HIDE DEF y
  <2>3. Narrower(y, d)
    BY <2>1, <2>2 DEF Narrower, DomainsType
  <2>4. \A p \in Places : Apart(p) => y[p] = d[p]
    BY <1>1, <1>2, <2>2
  <2> QED BY <2>2, <2>3, <2>4 DEF y
<1>3. d \in K
  BY DEF Narrower, DomainsType
<1>4. K \in SUBSET DomainsType
  OBVIOUS
<1> HIDE DEF K
<1>5. Narrowed(d, Moves(c)) \in K
  BY <1>2, <1>3, <1>4, MovesOK, NarrowedStays
<1> QED BY <1>5 DEF K, Apart

\* What is empty will be found: some top is, or no item is.
Noticed(d) == (\E p \in Tops : Empty(d, p)) \/ (\A p \in Places \ Tops : ~Empty(d, p))

Watched == {r \in Results : Proper(r.domains) /\ (r.end # "empty" => Noticed(r.domains))}

\* No item is strictly compared with itself, which no item satisfies.
NoItemBeforeItself(c) ==
  c.op \in {"<", ">"} /\ IsPlace(c.left) /\ IsPlace(c.right) /\ c.left.place = c.right.place =>
    c.left.place[2] # "item"

LEMMA PlacesSplit ==
  ASSUME shape \in Signatures, NEW p \in Places
  PROVE  /\ p \in Tops <=> p[2] # "item"
         /\ p \in Places \ Tops => p[2] # "length"
BY DEF Tops

\* A comparison of two places.
LEMMA ComparedNotices ==
  ASSUME shape \in Signatures, NEW d \in DomainsType, Proper(d), NEW c, ~IsEither(c), ComparisonOf(shape, c),
         NoItemBeforeItself(c), IsPlace(c.left), IsPlace(c.right), NEW p \in Places \ Tops, ~Empty(d, p),
         NEW e, e = Narrowed(d, Moves(c)), \A q \in Tops : ~Empty(e, q)
  PROVE  ~Empty(e, p)
<1>1. /\ c.left.place \in Places /\ (c.left.place[2] = "item" => c.over = c.left.place[1])
      /\ c.right.place \in Places /\ (c.right.place[2] = "item" => c.over = c.right.place[1])
  BY DEF ComparisonOf, TermOf, Places
<1>2. p \in Places /\ p[2] = "item" /\ p[2] # "length"
  BY PlacesSplit
<1>3. \E low, high : \E op \in {"<", "<=", "==", "!="} :
        /\ Moves(c) = Order(low, op, high)
        /\ {low, high} = {c.left, c.right} /\ (op = "<" => c.op \in {"<", ">"})
  <2>1. c.op \in {"<", "<=", "==", "!=", ">", ">="}
    BY DEF ComparisonOf
  <2>2. CASE c.op \in {">", ">="}
    <3>1. Moves(c) = Order(c.right, Flipped(c.op), c.left)
      BY <2>2 DEF Moves
    <3>2. Flipped(c.op) \in {"<", "<="} /\ (Flipped(c.op) = "<" => c.op = ">")
      BY <2>2 DEF Flipped
    <3> QED BY <3>1, <3>2
  <2>3. CASE c.op \notin {">", ">="}
    <3>1. Moves(c) = Order(c.left, c.op, c.right)
      BY <2>3 DEF Moves
    <3> QED BY <2>1, <2>3, <3>1
  <2> QED BY <2>2, <2>3
<1>30. PICK low, high : \E op \in {"<", "<=", "==", "!="} :
         /\ Moves(c) = Order(low, op, high)
         /\ {low, high} = {c.left, c.right} /\ (op = "<" => c.op \in {"<", ">"})
  BY <1>3
<1>31. PICK op \in {"<", "<=", "==", "!="} :
         /\ Moves(c) = Order(low, op, high)
         /\ {low, high} = {c.left, c.right} /\ (op = "<" => c.op \in {"<", ">"})
  BY <1>30
<1>4. Orders(low, high)
  BY <1>1, <1>31 DEF Orders
<1>5. CASE p \notin {low.place, high.place}
  <2>1. Well(c)
    BY DEF Well
  <2>2. \A x \in {c.left, c.right} : x.place # p
    BY <1>31, <1>5
  <2>3. e[p] = d[p]
    BY <1>2, <2>1, <2>2, ComparisonNarrows
  <2> QED BY <2>3 DEF Empty
<1>6. CASE p \in {low.place, high.place}
  <2>1. low.place = high.place => op # "<"
    <3> SUFFICES ASSUME low.place = high.place, op = "<" PROVE FALSE
      OBVIOUS
    <3>1. c.op \in {"<", ">"} /\ c.left.place = c.right.place /\ c.left.place = p
      BY <1>31, <1>6
    <3> QED BY <1>2, <3>1 DEF NoItemBeforeItself
  <2>2. ASSUME NEW q \in {low.place, high.place}, q # p PROVE ~Empty(e, q)
    <3>1. q \in Places /\ (q[2] = "item" => c.over = q[1]) /\ c.over = p[1]
      BY <1>1, <1>2, <1>31, <1>6, <2>2
    <3>2. p = <<p[1], p[2]>> /\ q = <<q[1], q[2]>>
      BY <1>2, <3>1, SignatureTyped
    <3>3. q[2] # "item"
      BY <1>2, <2>2, <3>1, <3>2
    <3> QED BY <3>1, <3>3, PlacesSplit
  <2>3. e = Narrowed(d, Order(low, op, high))
    BY <1>31
  <2> QED BY <1>2, <1>4, <1>6, <2>1, <2>2, <2>3, OrderKeeps
<1> QED BY <1>5, <1>6

\* Any comparison.
LEMMA ComparisonNotices ==
  ASSUME shape \in Signatures, NEW c, Well(c), IsEither(c) \/ NoItemBeforeItself(c), NEW r \in Watched
  PROVE  VisitComparison(r, c) \in Watched
<1> DEFINE d == r.domains
           e == Narrowed(d, Moves(c))
<1>1. r \in Results /\ d \in DomainsType /\ Proper(d) /\ (r.end # "empty" => Noticed(d))
  BY DEF Watched, Results
<1>2. VisitComparison(r, c) \in Results
  BY <1>1, ComparisonTyped
<1>3. CASE r.end = "empty"
  BY <1>3 DEF VisitComparison
<1>4. CASE r.end # "empty"
  <2>1. VisitComparison(r, c) = [domains |-> e, end |-> IF EmptiedBy(e, c) THEN "empty" ELSE "open"]
    BY <1>4 DEF VisitComparison
  <2> HIDE DEF d, e
  <2>2. /\ e \in DomainsType /\ Proper(e) /\ Narrower(e, d)
        /\ \A p \in Places : (IsEither(c) \/ \A x \in {c.left, c.right} : IsPlace(x) => x.place # p) => e[p] = d[p]
    BY <1>1, ComparisonNarrows DEF e
  <2>3. ASSUME ~EmptiedBy(e, c), \A q \in Tops : ~Empty(e, q), NEW p \in Places \ Tops PROVE ~Empty(e, p)
    <3>1. \A q \in Tops : ~Empty(d, q)
      <4>1. \A q \in Tops : q \in Places
        BY DEF Tops
      <4> QED BY <1>1, <2>2, <2>3, <4>1, StaysEmpty
    <3>2. ~Empty(d, p)
      BY <1>1, <1>4, <2>3, <3>1 DEF Noticed
    <3>3. CASE IsEither(c) \/ \A x \in {c.left, c.right} : IsPlace(x) => x.place # p
      <4>1. e[p] = d[p]
        BY <2>2, <2>3, <3>3
      <4> QED BY <3>2, <4>1 DEF Empty
    <3>4. CASE ~IsEither(c) /\ IsPlace(c.left) /\ IsPlace(c.right)
      BY <1>1, <2>3, <3>2, <3>4, ComparedNotices DEF Well, e
    <3>5. ASSUME ~IsEither(c), NEW x \in {c.left, c.right}, IsPlace(x), x.place = p, ~(IsPlace(c.left) /\ IsPlace(c.right))
          PROVE  ~Empty(e, p)
      <4>1. \E y \in {c.left, c.right} : ~IsPlace(y)
        BY <3>5
      <4> QED BY <2>3, <3>5, <4>1 DEF EmptiedBy
    <3> QED BY <3>3, <3>4, <3>5
  <2>4. ~EmptiedBy(e, c) => Noticed(e)
    BY <2>3 DEF Noticed
  <2>5. VisitComparison(r, c).domains = e /\ (VisitComparison(r, c).end # "empty" => ~EmptiedBy(e, c))
    BY <2>1
  <2> QED BY <1>2, <2>2, <2>4, <2>5 DEF Watched
<1> QED BY <1>3, <1>4

\* What constrain does not find empty is not.
Filled == {r \in Results : Proper(r.domains) /\ (r.end # "empty" => \A p \in Places : ~Empty(r.domains, p))}

LEMMA ConstrainFills ==
  ASSUME shape \in Signatures, domains \in DomainsType, Proper(domains), \A p \in Places : ~Empty(domains, p),
         NEW guard, WellFormed(guard), \A k \in 1 .. Len(guard) : IsEither(guard[k]) \/ NoItemBeforeItself(guard[k])
  PROVE  Constrain(guard) \in Filled
<1>1. Open(domains) \in Filled
  BY DEF Filled, Open, Results
<1>2. ASSUME NEW r \in Filled PROVE Round(r, guard) \in Filled
  <2>1. CASE r.end # "open"
    BY <2>1 DEF Round
  <2>2. CASE r.end = "open"
    <3> DEFINE v == Visit(guard, r.domains)
    <3>1. r.domains \in DomainsType /\ Proper(r.domains) /\ \A p \in Places : ~Empty(r.domains, p)
      BY <2>2 DEF Filled, Results
    <3>2. Open(r.domains) \in Watched
      BY <3>1 DEF Open, Watched, Results, Noticed
    <3>3. Watched \in SUBSET Results
      BY DEF Watched
    <3>4. \A k \in 1 .. Len(guard) : \A s \in Watched : VisitComparison(s, guard[k]) \in Watched
      BY ComparisonNotices DEF WellFormed
    <3>5. v \in Watched
      BY <3>1, <3>2, <3>3, <3>4, VisitStays
    <3>6. Round(r, guard) = Settle(r.domains, v)
      BY <2>2 DEF Round
    <3> HIDE DEF v
    <3>7. v \in Results /\ Proper(v.domains) /\ (v.end # "empty" => Noticed(v.domains))
      BY <3>5 DEF Watched
    <3>8. CASE v.end = "empty" \/ \E p \in Tops : Empty(v.domains, p)
      <4>1. Round(r, guard) = [v EXCEPT !.end = "empty"]
        BY <3>6, <3>8 DEF Settle
      <4> QED BY <3>7, <4>1 DEF Filled, Results
    <3>9. CASE v.end # "empty" /\ ~\E p \in Tops : Empty(v.domains, p)
      <4>1. \A p \in Places : ~Empty(v.domains, p)
        BY <3>7, <3>9 DEF Noticed
      <4>2. Round(r, guard) \in {v, [v EXCEPT !.end = "settled"]}
        BY <3>6, <3>9 DEF Settle
      <4>3. v \in Filled /\ [v EXCEPT !.end = "settled"] \in Filled
        BY <3>7, <4>1 DEF Filled, Results
      <4> QED BY <4>2, <4>3
    <3> QED BY <3>8, <3>9
  <2> QED BY <2>1, <2>2
<1>3. Filled \in SUBSET Results
  BY DEF Filled
<1> HIDE DEF Filled
<1> QED BY <1>1, <1>2, <1>3, ConstrainStays

-----------------------------------------------------------------------------
(* What is drawn, varied, reduced or replayed fits, while every place has a  *)
(* value.                                                                    *)
Ready == /\ shape \in Signatures /\ domains \in DomainsType /\ Proper(domains)
         /\ \A p \in Places : ~Empty(domains, p)

FitsArg(q, a) ==
  IF shape[q].list THEN /\ a \in Seq(Int) /\ Len(a) * One \in InBounds(Length(q))
                        /\ \A i \in DOMAIN a : a[i] \in InBounds(Item(q))
                   ELSE a \in InBounds(Scalar(q))

FitsAll(args) == DOMAIN args = Parameters /\ \A q \in Parameters : FitsArg(q, args[q])

LEMMA PlacesAre ==
  ASSUME shape \in Signatures, NEW q \in Parameters
  PROVE  /\ shape[q].list => Length(q) \in Places /\ Item(q) \in Places /\ TypeAt(Length(q)) = "length"
         /\ ~shape[q].list => Scalar(q) \in Places
         /\ Length(q)[2] = "length" /\ Item(q)[2] = "item" /\ Scalar(q)[2] = "value"
         /\ TypeAt(Item(q)) = shape[q].type /\ TypeAt(Scalar(q)) = shape[q].type
         /\ Item(q)[1] = q /\ Scalar(q)[1] = q /\ Length(q)[1] = q
BY DEF Parameters, Places, PlacesOf, Length, Item, Scalar, TypeAt

\* A value of the type, but for its size.
ValueOfType(w, t) == w \in Int /\ IF IsFloat(t) THEN w \in Grid[t] ELSE w % One = 0

LEMMA WithinIs ==
  ASSUME NEW p, NEW lower \in Int, NEW upper \in Int, NEW w \in Within(p, lower, upper)
  PROVE  /\ ValueOfType(w, TypeAt(p)) /\ lower <= w /\ w <= upper
         /\ TypeAt(p) = "length" => w <= MaxItems * One
<1> DEFINE t == TypeAt(p)
           last == IF t = "length" THEN Smaller(upper, MaxItems * One) ELSE upper
<1>0. /\ One \in Nat \ {0} /\ MaxItems * One \in Int /\ "length" \notin FloatTypes
  BY DomainsAssumption
<1>1. CASE IsFloat(t)
  <2>1. w \in Grid[t] /\ lower <= w /\ w <= upper
    BY <1>1 DEF Within
  <2>2. t # "length" /\ w \in Int
    BY <1>0, <1>1, <2>1, GridTyped DEF IsFloat
  <2> QED BY <1>1, <2>1, <2>2 DEF ValueOfType
<1>2. CASE ~IsFloat(t)
  <2>1. last \in Int /\ last <= upper /\ (t = "length" => last <= MaxItems * One)
    BY <1>0 DEF Smaller
  <2>2. Within(p, lower, upper) = {n * One : n \in (Ceil(lower) \div One) .. (Floor(last) \div One)}
    BY <1>2 DEF Within
  <2> HIDE DEF last
  <2> DEFINE a == Ceil(lower) \div One
             b == Floor(last) \div One
  <2>3. /\ Ceil(lower) \in Int /\ lower <= Ceil(lower) /\ Ceil(lower) % One = 0
        /\ Floor(last) \in Int /\ Floor(last) <= last /\ Floor(last) % One = 0
    BY <2>1, IntegersBetween
  <2>4. a \in Int /\ b \in Int /\ Ceil(lower) = a * One /\ Floor(last) = b * One
    BY <2>3, Division
  <2>5. PICK n \in a .. b : w = n * One
    BY <2>2
  <2> HIDE DEF a, b
  <2>6. n \in Int /\ a <= n /\ n <= b
    BY <2>4, <2>5
  <2>7. a * One <= n * One /\ n * One <= b * One /\ n * One \in Int /\ (n * One) % One = 0
    BY <1>0, <2>4, <2>6
  <2>8. lower <= w /\ w <= last /\ w \in Int /\ w % One = 0
    BY <2>1, <2>3, <2>4, <2>5, <2>7
  <2> QED BY <1>0, <1>2, <2>1, <2>8 DEF ValueOfType
<1> QED BY <1>1, <1>2

LEMMA WithinBounds ==
  ASSUME Ready, NEW p \in Places, NEW w
  PROVE  w \in InBounds(p) <=>
           /\ ValueOfType(w, TypeAt(p)) /\ domains[p].lower <= w /\ w <= domains[p].upper
           /\ TypeAt(p) = "length" => w <= MaxItems * One
<1>1. domains[p].lower \in Int /\ domains[p].upper \in Int
  BY DEF Ready, DomainsType
<1>2. ASSUME w \in InBounds(p)
      PROVE  /\ ValueOfType(w, TypeAt(p)) /\ domains[p].lower <= w /\ w <= domains[p].upper
             /\ TypeAt(p) = "length" => w <= MaxItems * One
  BY <1>1, <1>2, WithinIs DEF InBounds
<1>3. ASSUME ValueOfType(w, TypeAt(p)), domains[p].lower <= w, w <= domains[p].upper,
             TypeAt(p) = "length" => w <= MaxItems * One
      PROVE  w \in InBounds(p)
  <2>0. w \in Int
    BY <1>3 DEF ValueOfType
  <2>1. /\ -Unlimited < Domain(p).lower /\ Domain(p).lower \in Int /\ Domain(p).upper \in Int
        /\ TypeAt(p) # "length" => Domain(p).upper < Unlimited
    BY DomainTyped DEF Ready
  <2>2. Domain(p).lower <= domains[p].lower /\ domains[p].upper <= Domain(p).upper
    BY DEF Ready, Proper
  <2>3. MaxItems * One < Unlimited /\ MaxItems * One \in Int /\ Unlimited \in Nat
    BY DomainsAssumption
  <2>4. -Unlimited < w /\ w < Unlimited
    <3>1. -Unlimited < w
      BY <1>1, <1>3, <2>0, <2>1, <2>2, <2>3
    <3>2. CASE TypeAt(p) = "length"
      BY <1>3, <2>0, <2>3, <3>1, <3>2
    <3>3. CASE TypeAt(p) # "length"
      BY <1>1, <1>3, <2>0, <2>1, <2>2, <2>3, <3>1, <3>3
    <3> QED BY <3>2, <3>3
  <2>5. IsOf(w, TypeAt(p))
    BY <1>3, <2>4 DEF IsOf, ValueOfType
  <2> QED BY <1>1, <1>3, <2>5, WithinHolds DEF InBounds
<1> QED BY <1>2, <1>3

\* What is clamped lies between the bounds, and is of the type if the value was.
LEMMA ClampedFits ==
  ASSUME Ready, NEW p \in Places, p[2] # "length", NEW n, ProperBound(n, TypeAt(p))
  PROVE  Clamped(p, n) \in InBounds(p)
<1> DEFINE lo == domains[p].lower
           hi == domains[p].upper
           t == TypeAt(p)
           c == Clamped(p, n)
<1>1. IsOf(lo, t) /\ IsOf(hi, t) /\ lo <= hi
  BY BoundsAreValues DEF Ready
<1>2. lo \in Int /\ hi \in Int /\ n \in Int /\ Unlimited \in Nat
  BY <1>1, DomainsAssumption DEF IsOf, ProperBound
<1>3. t # "length"
  BY DomainTyped DEF Ready
<1>4. c = Larger(lo, Smaller(hi, n))
  BY DEF Clamped
<1>5. c \in {lo, hi, n} /\ lo <= c /\ c <= hi
  BY <1>1, <1>2, <1>4 DEF Larger, Smaller
<1>6. -Unlimited < lo /\ hi < Unlimited
  BY <1>1 DEF IsOf
<1> HIDE DEF lo, hi, t, c
<1>7. ValueOfType(c, t)
  <2>1. CASE c \in {lo, hi}
    BY <1>1, <2>1 DEF IsOf, ValueOfType
  <2>2. CASE c = n /\ n \notin {Unlimited, -Unlimited}
    BY <1>2, <2>2 DEF ProperBound, ValueOfType, t
  <2>3. CASE c = n /\ n \in {Unlimited, -Unlimited}
    BY <1>2, <1>5, <1>6, <2>3
  <2> QED BY <1>5, <2>1, <2>2, <2>3
<1> QED BY <1>3, <1>5, <1>7, WithinBounds DEF lo, hi, t, c

LEMMA RoundedIsProper ==
  ASSUME NEW p, NEW n \in Int, ~IsFloat(TypeAt(p)) => n % One = 0
  PROVE  ProperBound(Rounded(p, n), TypeAt(p))
<1>1. CASE IsFloat(TypeAt(p))
  <2>1. TypeAt(p) \in FloatTypes
    BY <1>1 DEF IsFloat
  <2> QED BY <1>1, <2>1, RoundingIsNear DEF Rounded, ProperBound
<1>2. CASE ~IsFloat(TypeAt(p))
  BY <1>2 DEF Rounded, ProperBound
<1> QED BY <1>1, <1>2

\* A value between the bounds that is rounded to the type is one of them.
LEMMA RoundedFits ==
  ASSUME Ready, NEW p \in Places, p[2] # "length", NEW n \in Int, domains[p].lower <= n, n <= domains[p].upper,
         ~IsFloat(TypeAt(p)) => n % One = 0
  PROVE  Rounded(p, n) \in InBounds(p)
<1> DEFINE t == TypeAt(p)
<1>1. IsOf(domains[p].lower, t) /\ IsOf(domains[p].upper, t)
  BY BoundsAreValues DEF Ready
<1>2. t # "length"
  BY DomainTyped DEF Ready
<1>3. CASE IsFloat(t)
  <2> DEFINE r == RoundedFloat(n, t)
  <2>1. t \in FloatTypes /\ domains[p].lower \in Grid[t] /\ domains[p].upper \in Grid[t]
    BY <1>1, <1>3 DEF IsFloat, IsOf
  <2>2. domains[p].lower <= r /\ r <= domains[p].upper /\ r \in Int /\ r \in Grid[t] \cup {Unlimited, -Unlimited}
    BY <2>1, RoundingIsNear
  <2>3. Rounded(p, n) = r
    BY <1>3 DEF Rounded
  <2> HIDE DEF r
  <2>4. r \in Grid[t]
    <3>1. /\ -Unlimited < domains[p].lower /\ domains[p].upper < Unlimited /\ Unlimited \in Nat
          /\ domains[p].lower \in Int /\ domains[p].upper \in Int
      BY <1>1, DomainsAssumption DEF IsOf
    <3> QED BY <2>2, <3>1
  <2> QED BY <1>2, <1>3, <2>2, <2>3, <2>4, WithinBounds DEF ValueOfType
<1>4. CASE ~IsFloat(t)
  BY <1>2, <1>4, WithinBounds DEF Rounded, ValueOfType
<1> QED BY <1>3, <1>4

LEMMA InBoundsTyped ==
  ASSUME Ready, NEW p \in Places, NEW w \in InBounds(p)
  PROVE  /\ w \in Int /\ domains[p].lower <= w /\ w <= domains[p].upper
         /\ IsOf(w, TypeAt(p)) \/ TypeAt(p) = "length"
         /\ TypeAt(p) = "length" => 0 <= w /\ w % One = 0
<1>1. ValueOfType(w, TypeAt(p)) /\ domains[p].lower <= w /\ w <= domains[p].upper
  BY WithinBounds
<1>2. domains[p].lower \in Int /\ domains[p].upper \in Int /\ Unlimited \in Nat
  BY DomainsAssumption DEF Ready, DomainsType
<1>3. /\ Domain(p).lower <= domains[p].lower /\ domains[p].upper <= Domain(p).upper
      /\ Domain(p).lower \in Int /\ Domain(p).upper \in Int /\ -Unlimited < Domain(p).lower
      /\ TypeAt(p) = "length" => Domain(p).lower = 0 /\ ~IsFloat(TypeAt(p))
      /\ TypeAt(p) # "length" => Domain(p).upper < Unlimited
  BY DomainTyped DEF Ready, Proper
<1>4. w \in Int /\ (IF IsFloat(TypeAt(p)) THEN w \in Grid[TypeAt(p)] ELSE w % One = 0)
  BY <1>1 DEF ValueOfType
<1>5. CASE TypeAt(p) = "length"
  BY <1>1, <1>2, <1>3, <1>4, <1>5
<1>6. CASE TypeAt(p) # "length"
  <2>1. -Unlimited < w /\ w < Unlimited
    BY <1>1, <1>2, <1>3, <1>4, <1>6
  <2> QED BY <1>1, <1>4, <1>6, <2>1 DEF IsOf
<1> QED BY <1>5, <1>6

\* A list of a length within the bounds, with items within theirs.
LEMMA ListFits ==
  ASSUME Ready, NEW q \in Parameters, shape[q].list, NEW n \in InBounds(Length(q)),
         NEW a \in [1 .. n \div One -> InBounds(Item(q))]
  PROVE  FitsArg(q, a)
<1>1. /\ Length(q) \in Places /\ Item(q) \in Places /\ TypeAt(Length(q)) = "length"
  BY PlacesAre DEF Ready
<1>2. n \in Int /\ 0 <= n /\ n % One = 0
  BY <1>1, InBoundsTyped
<1>3. n \div One \in Int /\ n = (n \div One) * One
  BY <1>2, Division
<1> DEFINE k == n \div One
<1>4. One \in Nat \ {0}
  BY DomainsAssumption
<1> HIDE DEF k
<1>5. k \in Nat
  BY <1>2, <1>3, <1>4 DEF k
<1>6. \A v \in InBounds(Item(q)) : v \in Int
  BY <1>1, InBoundsTyped
<1>7. a \in [1 .. k -> Int] /\ DOMAIN a = 1 .. k
  BY <1>6 DEF k
<1>8. a \in Seq(Int) /\ Len(a) = k
  BY <1>5, <1>7
<1> QED BY <1>3, <1>7, <1>8 DEF FitsArg, k

LEMMA ItemsFit ==
  ASSUME Ready, NEW q \in Parameters, shape[q].list, NEW length \in Int, length % One = 0,
         NEW v \in ItemsFor(q, length)
  PROVE  v \in InBounds(Item(q))
<1> DEFINE p == Item(q)
           t == TypeAt(p)
           reach == Larger(One, length)
           lower == Larger(domains[p].lower, -reach)
           upper == Larger(lower, Smaller(domains[p].upper, reach))
<1>1. p \in Places /\ p[2] # "length"
  BY PlacesAre DEF Ready
<1>2. /\ domains[p].lower \in Int /\ domains[p].upper \in Int
      /\ ~IsFloat(t) => domains[p].lower % One = 0 /\ domains[p].upper % One = 0
  BY <1>1, BoundsAreValues DEF Ready, IsOf
<1>3. One \in Nat \ {0} /\ One % One = 0
  BY DomainsAssumption
<1>4. reach \in Int /\ reach % One = 0
  BY <1>3 DEF Larger
<1> HIDE DEF reach
<1>5. (-reach) % One = 0
  <2> DEFINE k == reach \div One
  <2>1. k \in Int /\ reach = k * One
    BY <1>4, Division
  <2> HIDE DEF k
  <2>2. -k \in Int /\ \A j \in Int : (j * One) % One = 0
    BY <1>3, <2>1
  <2>3. (-k) * One = -reach
    BY <2>1, Multiples
  <2> QED BY <2>2, <2>3
<1>6. lower \in Int /\ (~IsFloat(t) => lower % One = 0)
  BY <1>2, <1>4, <1>5 DEF Larger
<1> HIDE DEF lower
<1>7. upper \in Int /\ (~IsFloat(t) => upper % One = 0)
  BY <1>2, <1>4, <1>6 DEF Larger, Smaller
<1>8. PICK n \in Within(p, lower, upper) \cup {lower, upper} : v = Clamped(p, Rounded(p, n))
  BY DEF ItemsFor, lower, upper, reach
<1> HIDE DEF upper
<1>9. n \in Int /\ (~IsFloat(t) => n % One = 0)
  <2>1. CASE n \in Within(p, lower, upper)
    BY <1>6, <1>7, <2>1, WithinIs DEF ValueOfType
  <2> QED BY <1>6, <1>7, <1>8, <2>1
<1>10. ProperBound(Rounded(p, n), t)
  BY <1>9, RoundedIsProper
<1> QED BY <1>1, <1>8, <1>10, ClampedFits

\* value, of a list.
LEMMA ListsFit ==
  ASSUME Ready, NEW q \in Parameters, shape[q].list, NEW n \in InBounds(Length(q)), NEW a \in ListsOf(q, n)
  PROVE  FitsArg(q, a)
<1>1. Length(q) \in Places /\ TypeAt(Length(q)) = "length"
  BY PlacesAre DEF Ready
<1>2. n \in Int /\ n % One = 0
  BY <1>1, InBoundsTyped
<1>3. \A v \in ItemsFor(q, n) : v \in InBounds(Item(q))
  BY <1>2, ItemsFit
<1>4. a \in [1 .. n \div One -> InBounds(Item(q))]
  BY <1>3 DEF ListsOf
<1> QED BY <1>4, ListFits

LEMMA DrawnFit ==
  ASSUME Ready, NEW q \in Parameters, NEW a \in Drawn(q)
  PROVE  FitsArg(q, a)
<1>1. CASE shape[q].list
  <2>1. PICK n \in InBounds(Length(q)) : a \in ListsOf(q, n)
    BY <1>1 DEF Drawn
  <2> QED BY <1>1, <2>1, ListsFit
<1>2. CASE ~shape[q].list
  BY <1>2 DEF Drawn, FitsArg
<1> QED BY <1>1, <1>2

LEMMA MagnitudesAre ==
  ASSUME Ready, NEW p \in Places, p[2] # "length", NEW n \in Magnitudes(p)
  PROVE  n \in Int /\ (~IsFloat(TypeAt(p)) => n % One = 0)
<1> DEFINE lo == domains[p].lower
           hi == domains[p].upper
<1>1. lo \in Int /\ hi \in Int /\ (~IsFloat(TypeAt(p)) => hi % One = 0)
  BY BoundsAreValues DEF Ready, IsOf
<1>2. One \in Nat \ {0} /\ MaxItems \in Nat
  BY DomainsAssumption
<1>3. n = hi \/ \E k \in 0 .. MaxItems : n = One * 2^k
  BY DEF Magnitudes
<1>4. CASE n = hi
  BY <1>1, <1>4
<1>5. ASSUME NEW k \in 0 .. MaxItems, n = One * 2^k
      PROVE  n \in Int /\ n % One = 0
  <2> DEFINE m == 2^k
  <2>1. k \in Nat /\ m \in Int
    BY <1>2, <1>5
  <2> HIDE DEF m
  <2>2. n = One * m
    BY <1>5 DEF m
  <2>3. n \in Int /\ n % One = 0
    BY <1>2, <2>1, <2>2
  <2> QED BY <2>3
<1> QED BY <1>3, <1>4, <1>5

LEMMA VariedFit ==
  ASSUME Ready, NEW q \in Parameters, NEW a \in Varied(q)
  PROVE  FitsArg(q, a)
<1>1. CASE shape[q].list
  <2>1. PICK n \in InBounds(Length(q)) : a \in ListsOf(q, n)
    BY <1>1 DEF Varied
  <2> QED BY <1>1, <2>1, ListsFit
<1>2. CASE ~shape[q].list
  <2> DEFINE p == Scalar(q)
  <2>1. p \in Places /\ p[2] # "length"
    BY <1>2, PlacesAre DEF Ready
  <2>2. PICK n \in Magnitudes(p) \cup {domains[p].lower} : a = Clamped(p, Rounded(p, n))
    BY <1>2 DEF Varied
  <2>3. n \in Int /\ (~IsFloat(TypeAt(p)) => n % One = 0)
    <3>1. CASE n \in Magnitudes(p)
      BY <2>1, <3>1, MagnitudesAre
    <3>2. CASE n = domains[p].lower
      BY <2>1, <3>2, BoundsAreValues DEF Ready, IsOf
    <3> QED BY <2>2, <3>1, <3>2
  <2>4. Clamped(p, Rounded(p, n)) \in InBounds(p)
    BY <2>1, <2>3, RoundedIsProper, ClampedFits
  <2> QED BY <1>2, <2>2, <2>4 DEF FitsArg
<1> QED BY <1>1, <1>2

LEMMA WrittenFits ==
  ASSUME Ready, NEW p \in Places, p[2] # "length", NEW n \in Written(p)
  PROVE  Rounded(p, n) \in InBounds(p)
<1>1. Domain(p).lower \in Int /\ Domain(p).upper \in Int
  BY DomainTyped DEF Ready
<1>2. n \in Int /\ domains[p].lower <= n /\ n <= domains[p].upper /\ (~IsFloat(TypeAt(p)) => n % One = 0)
  BY <1>1 DEF Written
<1> QED BY <1>2, RoundedFits

LEMMA CapturedFit ==
  ASSUME Ready, NEW q \in Parameters, NEW a \in Captured(q)
  PROVE  FitsArg(q, a)
<1>1. CASE shape[q].list
  <2>1. Item(q) \in Places /\ Item(q)[2] # "length"
    BY <1>1, PlacesAre DEF Ready
  <2>2. PICK n \in InBounds(Length(q)) : a \in [1 .. n \div One -> {Rounded(Item(q), v) : v \in Written(Item(q))}]
    BY <1>1 DEF Captured
  <2>3. \A v \in Written(Item(q)) : Rounded(Item(q), v) \in InBounds(Item(q))
    BY <2>1, WrittenFits
  <2>4. a \in [1 .. n \div One -> InBounds(Item(q))]
    BY <2>2, <2>3
  <2> QED BY <1>1, <2>4, ListFits
<1>2. CASE ~shape[q].list
  <2>1. Scalar(q) \in Places /\ Scalar(q)[2] # "length"
    BY <1>2, PlacesAre DEF Ready
  <2>2. PICK v \in Written(Scalar(q)) : a = Rounded(Scalar(q), v)
    BY <1>2 DEF Captured
  <2> QED BY <1>2, <2>1, <2>2, WrittenFits DEF FitsArg
<1> QED BY <1>1, <1>2

\* Arguments that are chosen one by one.
LEMMA TuplesFit ==
  ASSUME Ready, NEW sets, sets = [q \in Parameters |-> sets[q]], \A q \in Parameters : \A a \in sets[q] : FitsArg(q, a),
         NEW t \in Tuples(sets)
  PROVE  FitsAll(t)
<1> DEFINE U == UNION {sets[q] : q \in Parameters}
<1>1. Len(shape) \in Nat /\ Parameters = 1 .. Len(shape)
  BY DomainsAssumption DEF Ready, Parameters
<1>2. sets \in Seq(SUBSET U) /\ Len(sets) = Len(shape)
  <2>1. \A q \in Parameters : sets[q] \in SUBSET U
    OBVIOUS
  <2> HIDE DEF U
  <2>2. sets = [q \in 1 .. Len(shape) |-> sets[q]]
    BY <1>1
  <2> QED BY <1>1, <2>1, <2>2
<1> HIDE DEF U
<1>3. DOMAIN t = 1 .. Len(sets) /\ \A k \in 1 .. Len(sets) : t[k] \in sets[k]
  BY <1>2, TuplesAre
<1> QED BY <1>1, <1>2, <1>3 DEF FitsAll

-----------------------------------------------------------------------------
(* The groups of parameters that the guards want equal: disjoint, and equal  *)
(* in every input that satisfies them.                                       *)
Labellings == [Scalars -> Scalars]

LEMMA EquatesScalars ==
  ASSUME shape \in Signatures, NEW c, Well(c), Equates(c)
  PROVE  c.left.place[1] \in Scalars /\ c.right.place[1] \in Scalars /\ ~IsEither(c)
<1>1. ~IsEither(c) /\ ComparisonOf(shape, c) /\ \A x \in {c.left, c.right} : IsPlace(x) /\ x.place[2] = "value"
  BY DEF Equates, Well
<1>2. c.left.place \in Places /\ c.right.place \in Places
  BY <1>1 DEF ComparisonOf, TermOf, Places
<1> QED BY <1>1, <1>2, SignatureTyped DEF Scalars, Parameters

LEMMA MergeTyped ==
  ASSUME shape \in Signatures, NEW c, Well(c), NEW label \in Labellings
  PROVE  Merge(label, c) \in Labellings
BY EquatesScalars DEF Merge, Labellings

\* What no conjunct leaves, a guard does not leave.
LEMMA MergedStays ==
  ASSUME shape \in Signatures, NEW guard, WellFormed(guard), NEW K \in SUBSET Labellings, NEW label \in K,
         \A k \in 1 .. Len(guard) : \A x \in K : Merge(x, guard[k]) \in K
  PROVE  Merged(label, guard) \in K
<1> DEFINE N == Len(guard)
           After(g) == [k \in 0 .. N |-> IF k = 0 THEN label ELSE Merge(g[k - 1], guard[k])]
           step == [k \in 1 .. N |-> [x \in K |-> Merge(x, guard[k])]]
<1>0. N \in Nat
  BY DEF WellFormed
<1>1. step \in [1 .. N -> [K -> K]]
  OBVIOUS
<1>2. PICK f : Follows(f, N, K, label, step)
  <2> HIDE DEF step, N
  <2> QED BY <1>0, <1>1, RecursionExists
<1>3. f = After(f)
  <2> HIDE DEF N
  <2>1. f \in [0 .. N -> K] /\ f[0] = label
    BY <1>2 DEF Follows
  <2>2. ASSUME NEW k \in 1 .. N PROVE f[k] = Merge(f[k - 1], guard[k])
    <3>1. f[k - 1] \in K
      BY <1>0, <2>1
    <3>2. f[k] = step[k][f[k - 1]]
      BY <1>2 DEF Follows
    <3> QED BY <3>1, <3>2
  <2> HIDE DEF step
  <2>3. ASSUME NEW k \in 0 .. N PROVE f[k] = After(f)[k]
    BY <1>0, <2>1, <2>2
  <2> QED BY <2>1, <2>3
<1> DEFINE g == CHOOSE h : h = After(h)
<1>4. g = After(g)
  BY <1>3
<1>5. Merged(label, guard) = g[N]
  BY DEF Merged
<1> HIDE DEF g, step, N
<1>6. g[0] = label /\ \A k \in 1 .. N : g[k] = Merge(g[k - 1], guard[k])
  BY <1>0, <1>4
<1>7. \A k \in 1 .. N : g[k - 1] \in K => g[k] \in K
  BY <1>6 DEF N
<1>8. g[N] \in K
  BY <1>0, <1>6, <1>7, StaysIn
<1> QED BY <1>5, <1>8

Guarded == Len(predicates) \in Nat /\ DOMAIN predicates = 1 .. Len(predicates)
           /\ \A k \in 1 .. Len(predicates) : WellFormed(predicates[k]) /\ DOMAIN predicates[k] = 1 .. Len(predicates[k])

LEMMA LabelsStay ==
  ASSUME shape \in Signatures, Guarded, NEW K \in SUBSET Labellings, [q \in Scalars |-> q] \in K,
         \A k \in 1 .. Len(predicates) : \A j \in 1 .. Len(predicates[k]) :
           \A x \in K : Merge(x, predicates[k][j]) \in K
  PROVE  Labels \in K
<1> DEFINE N == Len(predicates)
           own == [q \in Scalars |-> q]
           After(g) == [k \in 0 .. N |-> IF k = 0 THEN own ELSE Merged(g[k - 1], predicates[k])]
           step == [k \in 1 .. N |-> [x \in K |-> Merged(x, predicates[k])]]
<1>0. N \in Nat
  BY DEF Guarded
<1>1. step \in [1 .. N -> [K -> K]]
  <2>1. \A k \in 1 .. N : \A x \in K : Merged(x, predicates[k]) \in K
    BY MergedStays DEF Guarded
  <2> HIDE DEF N
  <2> QED BY <2>1
<1>2. PICK f : Follows(f, N, K, own, step)
  <2> HIDE DEF step, N
  <2> QED BY <1>0, <1>1, RecursionExists
<1>3. f = After(f)
  <2> HIDE DEF N, own
  <2>1. f \in [0 .. N -> K] /\ f[0] = own
    BY <1>2 DEF Follows
  <2>2. ASSUME NEW k \in 1 .. N PROVE f[k] = Merged(f[k - 1], predicates[k])
    <3>1. f[k - 1] \in K
      BY <1>0, <2>1
    <3>2. f[k] = step[k][f[k - 1]]
      BY <1>2 DEF Follows
    <3> QED BY <3>1, <3>2
  <2> HIDE DEF step
  <2>3. ASSUME NEW k \in 0 .. N PROVE f[k] = After(f)[k]
    BY <1>0, <2>1, <2>2
  <2> QED BY <2>1, <2>3
<1> DEFINE g == CHOOSE h : h = After(h)
<1>4. g = After(g)
  BY <1>3
<1>5. Labels = g[N]
  BY DEF Labels
<1> HIDE DEF g, step, N, own
<1>6. g[0] = own /\ \A k \in 1 .. N : g[k] = Merged(g[k - 1], predicates[k])
  BY <1>0, <1>4
<1>7. \A k \in 1 .. N : g[k - 1] \in K => g[k] \in K
  <2> SUFFICES ASSUME NEW k \in 1 .. N, g[k - 1] \in K PROVE g[k] \in K
    OBVIOUS
  <2>1. WellFormed(predicates[k]) /\ \A j \in 1 .. Len(predicates[k]) : \A x \in K : Merge(x, predicates[k][j]) \in K
    BY DEF Guarded, N
  <2>2. Merged(g[k - 1], predicates[k]) \in K
    BY <2>1, MergedStays
  <2> QED BY <1>6, <2>2
<1>8. g[N] \in K
  BY <1>0, <1>6, <1>7, StaysIn DEF own
<1> QED BY <1>5, <1>8

LEMMA LabelsTyped ==
  ASSUME shape \in Signatures, Guarded
  PROVE  Labels \in Labellings
<1>1. [q \in Scalars |-> q] \in Labellings
  BY DEF Labellings
<1>2. \A k \in 1 .. Len(predicates) : \A j \in 1 .. Len(predicates[k]) :
        \A x \in Labellings : Merge(x, predicates[k][j]) \in Labellings
  BY MergeTyped DEF Guarded, WellFormed
<1> QED BY <1>1, <1>2, LabelsStay

\* The label of a parameter has its value in every input that satisfies the guards.
Faithful(args) == {label \in Labellings : \A q \in Scalars : args[q] = args[label[q]]}

LEMMA MergeFaithful ==
  ASSUME shape \in Signatures, NEW args, InputOf(shape, args), NEW c, Well(c), HoldsIn(args, c),
         NEW label \in Faithful(args)
  PROVE  Merge(label, c) \in Faithful(args)
<1>1. label \in Labellings /\ \A q \in Scalars : args[q] = args[label[q]]
  BY DEF Faithful
<1>2. CASE ~Equates(c)
  BY <1>2 DEF Merge
<1>3. CASE Equates(c)
  <2> DEFINE a == c.left.place[1]
             b == c.right.place[1]
  <2>1. a \in Scalars /\ b \in Scalars /\ ~IsEither(c)
    BY <1>3, EquatesScalars
  <2>2. args[a] = args[b]
    <3>1. /\ IsPlace(c.left) /\ c.left.place[2] = "value" /\ IsPlace(c.right) /\ c.right.place[2] = "value"
          /\ c.op = "==" /\ c.over = None
      BY <1>3 DEF Equates
    <3>2. Holds(args, c) /\ ComparisonOf(shape, c)
      BY <2>1 DEF HoldsIn, Well
    <3>3. Compares(c.op, ValueOf(args, c.left, c.right, None), ValueOf(args, c.right, c.left, None))
      BY <3>1, <3>2 DEF Holds
    <3>4. ValueOf(args, c.left, c.right, None) = args[a] /\ ValueOf(args, c.right, c.left, None) = args[b]
      BY <3>1 DEF ValueOf
    <3> QED BY <3>1, <3>3, <3>4 DEF Compares
  <2> HIDE DEF a, b
  <2>3. Merge(label, c) = [q \in Scalars |-> IF label[q] = label[b] THEN label[a] ELSE label[q]]
    BY <1>3 DEF Merge, a, b
  <2>4. Merge(label, c) \in Labellings
    BY <1>1, MergeTyped
  <2>5. ASSUME NEW q \in Scalars PROVE args[q] = args[Merge(label, c)[q]]
    <3>1. /\ args[q] = args[label[q]] /\ args[a] = args[label[a]] /\ args[b] = args[label[b]]
      BY <1>1, <2>1
    <3>2. Merge(label, c)[q] = IF label[q] = label[b] THEN label[a] ELSE label[q]
      BY <2>3
    <3> QED BY <2>2, <3>1, <3>2
  <2> QED BY <2>4, <2>5 DEF Faithful
<1> QED BY <1>2, <1>3

LEMMA LabelsFaithful ==
  ASSUME shape \in Signatures, Guarded, NEW args, InputOf(shape, args), Satisfies(args, predicates)
  PROVE  \A q \in Scalars : args[q] = args[Labels[q]]
<1>1. [q \in Scalars |-> q] \in Faithful(args) /\ Faithful(args) \in SUBSET Labellings
  BY DEF Faithful, Labellings
<1>2. \A k \in 1 .. Len(predicates) : \A j \in 1 .. Len(predicates[k]) :
        Well(predicates[k][j]) /\ HoldsIn(args, predicates[k][j])
  BY DEF Guarded, WellFormed, Satisfies, HoldsIn
<1>3. \A k \in 1 .. Len(predicates) : \A j \in 1 .. Len(predicates[k]) :
        \A x \in Faithful(args) : Merge(x, predicates[k][j]) \in Faithful(args)
  BY <1>2, MergeFaithful
<1>4. Labels \in Faithful(args)
  BY <1>1, <1>3, LabelsStay
<1> QED BY <1>4 DEF Faithful

LEMMA GroupsAre ==
  ASSUME shape \in Signatures, Guarded, NEW G \in EqualGroups
  PROVE  /\ G \subseteq Scalars /\ G \in SUBSET Int /\ IsFiniteSet(G) /\ G # {}
         /\ \A H \in EqualGroups : H \cap G # {} => H = G
         /\ \A args : InputOf(shape, args) /\ Satisfies(args, predicates) => \A q, r \in G : args[q] = args[r]
<1> DEFINE labels == Labels
<1>1. EqualGroups = {H \in {{q \in Scalars : labels[q] = r} : r \in Scalars} : Cardinality(H) > 1}
  BY DEF EqualGroups
<1> HIDE DEF labels
<1>2. PICK r \in Scalars : G = {q \in Scalars : labels[q] = r}
  BY <1>1
<1>3. Cardinality(G) > 1
  BY <1>1
<1>4. Len(shape) \in Nat /\ DOMAIN shape = 1 .. Len(shape)
  BY DomainsAssumption
<1>5. G \subseteq 1 .. Len(shape) /\ G \in SUBSET Int
  BY <1>2, <1>4 DEF Scalars, Parameters
<1>6. IsFiniteSet(G)
  <2>1. IsFiniteSet(1 .. Len(shape))
    BY <1>4, FS_Interval
  <2> QED BY <1>5, <2>1, FS_Subset
<1>7. G # {}
  BY <1>3, FS_EmptySet
<1>8. ASSUME NEW H \in EqualGroups, H \cap G # {} PROVE H = G
  <2>1. PICK s \in Scalars : H = {q \in Scalars : labels[q] = s}
    BY <1>1, <1>8
  <2> QED BY <1>2, <1>8, <2>1
<1>9. ASSUME NEW args, InputOf(shape, args), Satisfies(args, predicates), NEW q \in G, NEW s \in G
      PROVE  args[q] = args[s]
  <2>1. args[q] = args[labels[q]] /\ args[s] = args[labels[s]]
    BY <1>2, <1>9, LabelsFaithful DEF labels
  <2> QED BY <1>2, <2>1
<1> QED BY <1>2, <1>5, <1>6, <1>7, <1>8, <1>9

-----------------------------------------------------------------------------
(* The bounds that a group shares, of the type that it shares.               *)
LEMMA ImageFinite ==
  ASSUME NEW S, IsFiniteSet(S), NEW f
  PROVE  IsFiniteSet({f[x] : x \in S})
<1> DEFINE T == {f[x] : x \in S}
           g == [x \in S |-> f[x]]
<1>1. g \in Surjection(S, T)
  BY DEF Surjection
<1> QED BY <1>1, FS_Surjection

LEMMA CommonTypeIs ==
  ASSUME shape \in Signatures, NEW G \in SUBSET Scalars, G \in SUBSET Int, IsFiniteSet(G), G # {}
  PROVE  /\ \E q \in G : shape[q].type = CommonType(G)
         /\ IsFloat(CommonType(G)) <=> \E q \in G : IsFloat(shape[q].type)
         /\ \A q \in G : IsFloat(shape[q].type) => Grid[CommonType(G)] \subseteq Grid[shape[q].type]
<1> DEFINE floats == {q \in G : IsFloat(shape[q].type)}
<1>1. CASE floats = {}
  <2>1. CommonType(G) = shape[Min(G)].type
    BY <1>1 DEF CommonType
  <2>2. Min(G) \in G
    BY ExtremesExist
  <2>3. \A q \in G : ~IsFloat(shape[q].type)
    BY <1>1
  <2> QED BY <2>1, <2>2, <2>3
<1>2. CASE floats # {}
  <2> DEFINE widths == {Width[shape[q].type] : q \in floats}
             Narrowest(q) == \A r \in floats : Width[shape[q].type] <= Width[shape[r].type]
             q0 == CHOOSE q \in floats : Narrowest(q)
  <2>1. \A q \in floats : shape[q].type \in FloatTypes /\ Width[shape[q].type] \in Nat
    BY DomainsAssumption DEF IsFloat
  <2>2. IsFiniteSet(floats)
    BY FS_Subset
  <2>3. widths \in SUBSET Int /\ IsFiniteSet(widths) /\ widths # {}
    <3> DEFINE f == [q \in floats |-> Width[shape[q].type]]
    <3>1. IsFiniteSet({f[q] : q \in floats})
      BY <2>2, ImageFinite
    <3>2. {f[q] : q \in floats} = widths
      OBVIOUS
    <3>3. IsFiniteSet(widths)
      BY <3>1, <3>2
    <3>4. widths # {}
      BY <1>2
    <3>5. \A x \in widths : x \in Int
      BY <2>1
    <3> QED BY <3>3, <3>4, <3>5
  <2>4. \E q \in floats : Narrowest(q)
    <3>1. Min(widths) \in widths /\ \A x \in widths : Min(widths) <= x
      BY <2>3, ExtremesExist
    <3>2. PICK q \in floats : Min(widths) = Width[shape[q].type]
      BY <3>1
    <3> QED BY <3>1, <3>2
  <2>5. q0 \in floats /\ Narrowest(q0)
    BY <2>4
  <2>6. CommonType(G) = shape[q0].type
    BY <1>2 DEF CommonType
  <2> HIDE DEF q0
  <2>7. ASSUME NEW q \in floats PROVE Grid[shape[q0].type] \subseteq Grid[shape[q].type]
    BY <2>1, <2>5, DomainsAssumption
  <2> QED BY <2>5, <2>6, <2>7
<1> QED BY <1>1, <1>2

\* The integers next to a value of a type are values of it.
LEMMA NextIntegers ==
  ASSUME NEW t, NEW v, IsOf(v, t)
  PROVE  /\ IsOf(Floor(v), t) /\ IsOf(Ceil(v), t)
         /\ Floor(v) % One = 0 /\ Floor(v) <= v /\ Ceil(v) % One = 0 /\ v <= Ceil(v)
<1>1. v \in Int
  BY DEF IsOf
<1>2. /\ Floor(v) \in Int /\ Floor(v) % One = 0 /\ Floor(v) <= v
      /\ Ceil(v) \in Int /\ Ceil(v) % One = 0 /\ v <= Ceil(v)
      /\ v % One = 0 => Floor(v) = v /\ Ceil(v) = v
  BY <1>1, IntegersBetween
<1>3. CASE IsFloat(t)
  <2>1. Floor(v) \in Grid[t] /\ Ceil(v) \in Grid[t]
    BY <1>3, GridAssumption DEF IsOf, IsFloat
  <2>2. \A g \in Grid[t] : -Unlimited < g /\ g < Unlimited
    BY <1>3, GridTyped DEF IsFloat
  <2> QED BY <1>2, <1>3, <2>1, <2>2 DEF IsOf
<1>4. CASE ~IsFloat(t)
  <2>1. Floor(v) = v /\ Ceil(v) = v
    BY <1>2, <1>4 DEF IsOf
  <2> QED BY <1>2, <2>1
<1> QED BY <1>2, <1>3, <1>4

(* The lower bound is an integer when the group has one, is of the common    *)
(* type unless it is too large, and is not below that of a member.           *)
Integers(G) == \E q \in G : ~IsFloat(shape[q].type)

LEMMA CommonLower ==
  ASSUME Ready, NEW G \in SUBSET Scalars, G \in SUBSET Int, IsFiniteSet(G), G # {}
  PROVE  LET b == Common(G).lower
         IN  /\ ProperBound(b, CommonType(G)) /\ -Unlimited < b
             /\ \A q \in G : domains[Scalar(q)].lower <= b
             /\ Integers(G) /\ b < Unlimited => b % One = 0
             /\ \A w : IsOf(w, CommonType(G)) /\ (Integers(G) => w % One = 0)
                       /\ (\A q \in G : domains[Scalar(q)].lower <= w) => b <= w
<1> DEFINE t == CommonType(G)
           lowers == {domains[Scalar(q)].lower : q \in G}
           low == Max(lowers)
           v == IF Integers(G) THEN Ceil(low) ELSE low
           b == ComparisonBound(v, t, TRUE, FALSE)
<1>1. Common(G).lower = b
  BY DEF Common, Integers
<1>2. \A q \in G : /\ Scalar(q) \in Places /\ Scalar(q)[2] # "length" /\ TypeAt(Scalar(q)) = shape[q].type
                   /\ IsOf(domains[Scalar(q)].lower, shape[q].type)
  <2> SUFFICES ASSUME NEW q \in G
               PROVE  /\ Scalar(q) \in Places /\ Scalar(q)[2] # "length" /\ TypeAt(Scalar(q)) = shape[q].type
                      /\ IsOf(domains[Scalar(q)].lower, shape[q].type)
    OBVIOUS
  <2>1. q \in Parameters /\ ~shape[q].list
    BY DEF Scalars
  <2>2. Scalar(q) \in Places /\ Scalar(q)[2] # "length" /\ TypeAt(Scalar(q)) = shape[q].type
    BY <2>1, PlacesAre DEF Ready
  <2> QED BY <2>2, BoundsAreValues DEF Ready
<1>3. lowers \in SUBSET Int /\ IsFiniteSet(lowers) /\ lowers # {}
  <2>1. lowers \in SUBSET Int
    BY <1>2 DEF IsOf
  <2>2. IsFiniteSet(lowers)
    <3> DEFINE f == [q \in G |-> domains[Scalar(q)].lower]
    <3>1. IsFiniteSet({f[q] : q \in G})
      BY ImageFinite
    <3>2. {f[q] : q \in G} = lowers
      OBVIOUS
    <3> QED BY <3>1, <3>2
  <2> QED BY <2>1, <2>2
<1>4. low \in lowers /\ \A x \in lowers : x <= low
  BY <1>3, ExtremesExist
<1>5. PICK r \in G : low = domains[Scalar(r)].lower
  BY <1>4
<1>6. IsOf(low, shape[r].type) /\ \A q \in G : domains[Scalar(q)].lower <= low
  BY <1>2, <1>4, <1>5
<1> HIDE DEF lowers, low
<1>7. /\ IsOf(v, shape[r].type) /\ low <= v /\ (Integers(G) => v % One = 0)
      /\ \A w \in Int : low <= w /\ (Integers(G) => w % One = 0) => v <= w
  <2>1. low \in Int
    BY <1>6 DEF IsOf
  <2>2. IsOf(Ceil(low), shape[r].type) /\ Ceil(low) % One = 0 /\ low <= Ceil(low)
    BY <1>6, NextIntegers
  <2>3. \A w \in Int : low <= w /\ w % One = 0 => Ceil(low) <= w
    BY <2>1, IntegersBetween
  <2> QED BY <1>6, <2>1, <2>2, <2>3
<1> HIDE DEF v
<1>8. v \in Int /\ -Unlimited < v /\ v < Unlimited /\ FALSE \in BOOLEAN /\ TRUE \in BOOLEAN
  BY <1>7 DEF IsOf
<1>9. v <= b /\ ProperBound(b, t) /\ b \in Int
  BY <1>8, BoundIsOutside, BoundIsProper DEF ProperBound
<1>10. low \in Int /\ Unlimited \in Nat /\ \A q \in G : domains[Scalar(q)].lower \in Int
  BY <1>2, <1>6, DomainsAssumption DEF IsOf
<1>11. \A w : IsOf(w, t) /\ v <= w => b <= w
  BY <1>8, LowerIsSound
<1> HIDE DEF b, t
<1>12. -Unlimited < b /\ \A q \in G : domains[Scalar(q)].lower <= b
  BY <1>6, <1>7, <1>8, <1>9, <1>10
<1>13. ASSUME Integers(G), b < Unlimited PROVE b % One = 0
  <2>1. CASE ~IsFloat(t)
    BY <1>9, <2>1 DEF ProperBound
  <2>2. CASE IsFloat(t)
    <3>1. IsOf(b, t)
      BY <1>9, <1>10, <1>12, <1>13, <2>2 DEF ProperBound, IsOf
    <3>2. IsOf(Floor(b), t) /\ Floor(b) % One = 0 /\ Floor(b) <= b /\ Floor(b) \in Int
      BY <3>1, NextIntegers DEF IsOf
    <3>3. v <= Floor(b)
      BY <1>7, <1>8, <1>9, <1>13, IntegersBetween
    <3>4. b <= Floor(b)
      BY <1>11, <3>2, <3>3
    <3>5. b = Floor(b)
      BY <1>9, <3>2, <3>4
    <3> QED BY <3>2, <3>5
  <2> QED BY <2>1, <2>2
<1>14. ASSUME NEW w, IsOf(w, t), Integers(G) => w % One = 0, \A q \in G : domains[Scalar(q)].lower <= w
       PROVE  b <= w
  <2>1. w \in Int /\ low <= w
    BY <1>5, <1>14 DEF IsOf
  <2> QED BY <1>7, <1>11, <1>14, <2>1
<1> QED BY <1>1, <1>9, <1>12, <1>13, <1>14 DEF t
LEMMA CommonUpper ==
  ASSUME Ready, NEW G \in SUBSET Scalars, G \in SUBSET Int, IsFiniteSet(G), G # {}
  PROVE  LET b == Common(G).upper
         IN  /\ ProperBound(b, CommonType(G)) /\ b < Unlimited
             /\ \A q \in G : b <= domains[Scalar(q)].upper
             /\ Integers(G) /\ -Unlimited < b => b % One = 0
             /\ \A w : IsOf(w, CommonType(G)) /\ (Integers(G) => w % One = 0)
                       /\ (\A q \in G : w <= domains[Scalar(q)].upper) => w <= b
<1> DEFINE t == CommonType(G)
           highs == {domains[Scalar(q)].upper : q \in G}
           high == Min(highs)
           v == IF Integers(G) THEN Floor(high) ELSE high
           b == ComparisonBound(v, t, FALSE, FALSE)
<1>1. Common(G).upper = b
  BY DEF Common, Integers
<1>2. \A q \in G : /\ Scalar(q) \in Places /\ Scalar(q)[2] # "length" /\ TypeAt(Scalar(q)) = shape[q].type
                   /\ IsOf(domains[Scalar(q)].upper, shape[q].type)
  <2> SUFFICES ASSUME NEW q \in G
               PROVE  /\ Scalar(q) \in Places /\ Scalar(q)[2] # "length" /\ TypeAt(Scalar(q)) = shape[q].type
                      /\ IsOf(domains[Scalar(q)].upper, shape[q].type)
    OBVIOUS
  <2>1. q \in Parameters /\ ~shape[q].list
    BY DEF Scalars
  <2>2. Scalar(q) \in Places /\ Scalar(q)[2] # "length" /\ TypeAt(Scalar(q)) = shape[q].type
    BY <2>1, PlacesAre DEF Ready
  <2> QED BY <2>2, BoundsAreValues DEF Ready
<1>3. highs \in SUBSET Int /\ IsFiniteSet(highs) /\ highs # {}
  <2>1. highs \in SUBSET Int
    BY <1>2 DEF IsOf
  <2>2. IsFiniteSet(highs)
    <3> DEFINE f == [q \in G |-> domains[Scalar(q)].upper]
    <3>1. IsFiniteSet({f[q] : q \in G})
      BY ImageFinite
    <3>2. {f[q] : q \in G} = highs
      OBVIOUS
    <3> QED BY <3>1, <3>2
  <2> QED BY <2>1, <2>2
<1>4. high \in highs /\ \A x \in highs : high <= x
  BY <1>3, ExtremesExist
<1>5. PICK r \in G : high = domains[Scalar(r)].upper
  BY <1>4
<1>6. IsOf(high, shape[r].type) /\ \A q \in G : high <= domains[Scalar(q)].upper
  BY <1>2, <1>4, <1>5
<1> HIDE DEF highs, high
<1>7. /\ IsOf(v, shape[r].type) /\ v <= high /\ (Integers(G) => v % One = 0)
      /\ \A w \in Int : w <= high /\ (Integers(G) => w % One = 0) => w <= v
  <2>1. high \in Int
    BY <1>6 DEF IsOf
  <2>2. IsOf(Floor(high), shape[r].type) /\ Floor(high) % One = 0 /\ Floor(high) <= high
    BY <1>6, NextIntegers
  <2>3. \A w \in Int : w <= high /\ w % One = 0 => w <= Floor(high)
    BY <2>1, IntegersBetween
  <2> QED BY <1>6, <2>1, <2>2, <2>3
<1> HIDE DEF v
<1>8. v \in Int /\ -Unlimited < v /\ v < Unlimited /\ FALSE \in BOOLEAN /\ TRUE \in BOOLEAN
  BY <1>7 DEF IsOf
<1>9. b <= v /\ ProperBound(b, t) /\ b \in Int
  BY <1>8, BoundIsOutside, BoundIsProper DEF ProperBound
<1>10. high \in Int /\ Unlimited \in Nat /\ \A q \in G : domains[Scalar(q)].upper \in Int
  BY <1>2, <1>6, DomainsAssumption DEF IsOf
<1>11. \A w : IsOf(w, t) /\ w <= v => w <= b
  BY <1>8, UpperIsSound
<1> HIDE DEF b, t
<1>12. b < Unlimited /\ \A q \in G : b <= domains[Scalar(q)].upper
  BY <1>6, <1>7, <1>8, <1>9, <1>10
<1>13. ASSUME Integers(G), -Unlimited < b PROVE b % One = 0
  <2>1. CASE ~IsFloat(t)
    BY <1>9, <2>1 DEF ProperBound
  <2>2. CASE IsFloat(t)
    <3>1. IsOf(b, t)
      BY <1>9, <1>10, <1>12, <1>13, <2>2 DEF ProperBound, IsOf
    <3>2. IsOf(Ceil(b), t) /\ Ceil(b) % One = 0 /\ b <= Ceil(b) /\ Ceil(b) \in Int
      BY <3>1, NextIntegers DEF IsOf
    <3>3. Ceil(b) <= v
      BY <1>7, <1>8, <1>9, <1>13, IntegersBetween
    <3>4. Ceil(b) <= b
      BY <1>11, <3>2, <3>3
    <3>5. b = Ceil(b)
      BY <1>9, <3>2, <3>4
    <3> QED BY <3>2, <3>5
  <2> QED BY <2>1, <2>2
<1>14. ASSUME NEW w, IsOf(w, t), Integers(G) => w % One = 0, \A q \in G : w <= domains[Scalar(q)].upper
       PROVE  w <= b
  <2>1. w \in Int /\ w <= high
    BY <1>5, <1>14 DEF IsOf
  <2> QED BY <1>7, <1>11, <1>14, <2>1
<1> QED BY <1>1, <1>9, <1>12, <1>13, <1>14 DEF t

\* A group of parameters that are to be equal, and its bounds when they hold a value.
GroupOK(G) == G \in SUBSET Scalars /\ G \in SUBSET Int /\ IsFiniteSet(G) /\ G # {}

LEMMA CommonBounds ==
  ASSUME Ready, NEW G, GroupOK(G), Common(G).lower <= Common(G).upper
  PROVE  /\ IsOf(Common(G).lower, CommonType(G)) /\ IsOf(Common(G).upper, CommonType(G))
         /\ Integers(G) => Common(G).lower % One = 0 /\ Common(G).upper % One = 0
<1> DEFINE b == Common(G).lower
           d == Common(G).upper
           t == CommonType(G)
<1>1. /\ ProperBound(b, t) /\ -Unlimited < b /\ (Integers(G) /\ b < Unlimited => b % One = 0)
      /\ ProperBound(d, t) /\ d < Unlimited /\ (Integers(G) /\ -Unlimited < d => d % One = 0)
  BY CommonLower, CommonUpper DEF GroupOK
<1>2. Unlimited \in Nat /\ b <= d
  BY DomainsAssumption
<1> HIDE DEF b, d, t
<1>3. b \in Int /\ d \in Int
  BY <1>1 DEF ProperBound
<1>4. b < Unlimited /\ -Unlimited < d
  BY <1>1, <1>2, <1>3
<1>5. IsOf(b, t) /\ IsOf(d, t)
  BY <1>1, <1>2, <1>3, <1>4 DEF ProperBound, IsOf
<1> QED BY <1>1, <1>4, <1>5 DEF b, d, t

\* What a sample becomes is a value of all of the group.
LEMMA SharedFits ==
  ASSUME Ready, NEW G, GroupOK(G), NEW s \in Int, Common(G).lower <= s, s <= Common(G).upper,
         ~IsFloat(CommonType(G)) => s % One = 0, NEW q \in G
  PROVE  LET w == Shared(s, Common(G))
         IN  w \in InBounds(Scalar(q)) /\ Rounded(Scalar(q), w) = w
<1> DEFINE b == Common(G).lower
           d == Common(G).upper
           t == CommonType(G)
           u == shape[q].type
           w0 == OfType(s, t)
           w == IF Integers(G) THEN Truncated(w0) ELSE w0
<1>1. Common(G).integral = Integers(G) /\ Common(G).type = t
  BY DEF Common, Integers
<1>2. Shared(s, Common(G)) = w
  BY <1>1 DEF Shared
<1>3. b \in Int /\ d \in Int
  BY CommonLower, CommonUpper DEF GroupOK, ProperBound
<1>4. /\ IsOf(b, t) /\ IsOf(d, t) /\ (Integers(G) => b % One = 0 /\ d % One = 0)
  <2>1. b <= d
    BY <1>3
  <2> QED BY <2>1, CommonBounds
<1>5. /\ \A r \in G : domains[Scalar(r)].lower <= b /\ d <= domains[Scalar(r)].upper
      /\ IsFloat(t) <=> \E r \in G : IsFloat(shape[r].type)
      /\ IsFloat(u) => Grid[t] \subseteq Grid[u]
  BY CommonLower, CommonUpper, CommonTypeIs DEF GroupOK, Ready
<1>6. b <= s /\ s <= d
  OBVIOUS
<1>7. /\ Scalar(q) \in Places /\ Scalar(q)[2] # "length" /\ TypeAt(Scalar(q)) = u /\ u # "length"
  <2>1. q \in Parameters /\ ~shape[q].list
    BY DEF Scalars, GroupOK
  <2>2. Scalar(q) \in Places /\ Scalar(q)[2] # "length" /\ TypeAt(Scalar(q)) = u
    BY <2>1, PlacesAre DEF Ready
  <2> QED BY <2>2, DomainTyped DEF Ready
<1>8. domains[Scalar(q)].lower \in Int /\ domains[Scalar(q)].upper \in Int
  BY <1>7 DEF Ready, DomainsType
<1> HIDE DEF b, d, t
<1>9. IsOf(w0, t) /\ b <= w0 /\ w0 <= d
  <2>1. CASE IsFloat(t)
    <3>1. t \in FloatTypes /\ b \in Grid[t] /\ d \in Grid[t]
      BY <1>4, <2>1 DEF IsFloat, IsOf
    <3> DEFINE r == RoundedFloat(s, t)
    <3>2. r \in Grid[t] \cup {Unlimited, -Unlimited} /\ r \in Int /\ b <= r /\ r <= d
      BY <1>6, <3>1, RoundingIsNear
    <3>3. w0 = r
      BY <2>1 DEF OfType
    <3> HIDE DEF r
    <3>4. -Unlimited < b /\ d < Unlimited /\ Unlimited \in Nat
      BY <1>4, DomainsAssumption DEF IsOf
    <3>5. -Unlimited < r /\ r < Unlimited /\ r \in Grid[t]
      BY <1>3, <3>2, <3>4
    <3> QED BY <2>1, <3>2, <3>3, <3>5 DEF IsOf
  <2>2. CASE ~IsFloat(t)
    <3>1. w0 = s
      BY <2>2 DEF OfType
    <3>2. -Unlimited < b /\ d < Unlimited /\ Unlimited \in Nat
      BY <1>4, DomainsAssumption DEF IsOf
    <3>3. -Unlimited < s /\ s < Unlimited
      BY <1>3, <1>6, <3>2
    <3> QED BY <1>6, <2>2, <3>1, <3>3 DEF IsOf, t
  <2> QED BY <2>1, <2>2
<1> HIDE DEF w0
<1>10. IsOf(w, t) /\ b <= w /\ w <= d /\ (Integers(G) => w % One = 0)
  <2>1. CASE Integers(G)
    <3>1. w \in {Floor(w0), Ceil(w0)}
      BY <2>1 DEF Truncated
    <3>2. IsOf(Floor(w0), t) /\ IsOf(Ceil(w0), t) /\ Floor(w0) % One = 0 /\ Ceil(w0) % One = 0
          /\ Floor(w0) <= w0 /\ w0 <= Ceil(w0)
      BY <1>9, NextIntegers
    <3>3. w0 \in Int /\ Floor(w0) \in Int /\ Ceil(w0) \in Int
      BY <1>9, <3>2 DEF IsOf
    <3>4. b <= Floor(w0) /\ Ceil(w0) <= d
      BY <1>3, <1>4, <1>9, <2>1, <3>3, IntegersBetween
    <3>5. Floor(w0) <= d /\ b <= Ceil(w0)
      BY <1>3, <1>9, <3>2, <3>3
    <3> QED BY <3>1, <3>2, <3>4, <3>5
  <2>2. CASE ~Integers(G)
    BY <1>9, <2>2
  <2> QED BY <2>1, <2>2
<1> HIDE DEF w
<1>11. w \in Int /\ domains[Scalar(q)].lower <= w /\ w <= domains[Scalar(q)].upper
  BY <1>3, <1>5, <1>8, <1>10 DEF IsOf
<1>12. CASE IsFloat(u)
  <2>1. w \in Grid[u] /\ u \in FloatTypes
    BY <1>5, <1>10, <1>12 DEF IsOf, IsFloat
  <2>2. Rounded(Scalar(q), w) = w
    BY <1>7, <1>11, <1>12, <2>1, RoundingIsNear DEF Rounded
  <2>3. w \in InBounds(Scalar(q))
    BY <1>7, <1>11, <1>12, <2>1, WithinBounds DEF ValueOfType
  <2> QED BY <1>2, <2>2, <2>3
<1>13. CASE ~IsFloat(u)
  <2>1. w % One = 0
    BY <1>10, <1>13 DEF Integers
  <2>2. Rounded(Scalar(q), w) = w
    BY <1>7, <1>13 DEF Rounded
  <2>3. w \in InBounds(Scalar(q))
    BY <1>7, <1>11, <1>13, <2>1, WithinBounds DEF ValueOfType
  <2> QED BY <1>2, <2>2, <2>3
<1> QED BY <1>12, <1>13

\* The place of the common type.
LEMMA CommonPlace ==
  ASSUME Ready, NEW G, GroupOK(G)
  PROVE  LET r == CHOOSE q \in G : shape[q].type = CommonType(G)
         IN  r \in G /\ TypeAt(Scalar(r)) = CommonType(G) /\ CommonType(G) # "length"
<1> DEFINE r == CHOOSE q \in G : shape[q].type = CommonType(G)
<1>1. \E q \in G : shape[q].type = CommonType(G)
  BY CommonTypeIs DEF GroupOK, Ready
<1>2. r \in G /\ shape[r].type = CommonType(G)
  BY <1>1
<1> HIDE DEF r
<1>3. r \in Parameters /\ ~shape[r].list
  BY <1>2 DEF Scalars, GroupOK
<1>4. Scalar(r) \in Places /\ TypeAt(Scalar(r)) = shape[r].type /\ Scalar(r)[2] # "length"
  BY <1>3, PlacesAre DEF Ready
<1>5. shape[r].type # "length"
  BY <1>4, DomainTyped DEF Ready
<1> QED BY <1>2, <1>4, <1>5 DEF r

LEMMA SamplesAre ==
  ASSUME Ready, NEW G, GroupOK(G), NEW q \in G, NEW a \in InBounds(Scalar(q)),
         NEW s \in Samples(a, G, Common(G))
  PROVE  /\ s \in Int /\ Common(G).lower <= s /\ s <= Common(G).upper
         /\ ~IsFloat(CommonType(G)) => s % One = 0
<1> DEFINE b == Common(G).lower
           d == Common(G).upper
           t == CommonType(G)
           r == CHOOSE p \in G : shape[p].type = t
<1>1. Common(G).type = t
  BY DEF Common
<1>2. b \in Int /\ d \in Int
  BY CommonLower, CommonUpper DEF GroupOK, ProperBound
<1>3. TypeAt(Scalar(r)) = t /\ t # "length"
  BY CommonPlace
<1>4. \/ b <= a /\ a <= d /\ s = a
      \/ s \in Within(Scalar(r), b, d)
  BY <1>1, <1>2 DEF Samples
<1> HIDE DEF b, d, r
<1>5. CASE b <= a /\ a <= d /\ s = a
  <2>1. q \in Parameters /\ ~shape[q].list
    BY DEF Scalars, GroupOK
  <2>2. Scalar(q) \in Places /\ TypeAt(Scalar(q)) = shape[q].type
    BY <2>1, PlacesAre DEF Ready
  <2>3. ValueOfType(a, shape[q].type)
    BY <2>2, WithinBounds
  <2>4. ~IsFloat(t) => ~IsFloat(shape[q].type)
    BY CommonTypeIs DEF GroupOK, Ready
  <2> HIDE DEF t
  <2> QED BY <1>5, <2>3, <2>4 DEF ValueOfType, b, d, t
<1>6. CASE s \in Within(Scalar(r), b, d)
  <2>1. ValueOfType(s, t) /\ b <= s /\ s <= d
    BY <1>2, <1>3, <1>6, WithinIs
  <2> QED BY <2>1 DEF ValueOfType, b, d
<1> QED BY <1>4, <1>5, <1>6

LEMMA NoSamples ==
  ASSUME Ready, NEW G, GroupOK(G), NEW a \in Int, Samples(a, G, Common(G)) = {}
  PROVE  Common(G).lower > Common(G).upper
<1> DEFINE b == Common(G).lower
           d == Common(G).upper
           t == CommonType(G)
           r == CHOOSE p \in G : shape[p].type = t
<1>1. Common(G).type = t
  BY DEF Common
<1>2. b \in Int /\ d \in Int
  BY CommonLower, CommonUpper DEF GroupOK, ProperBound
<1> SUFFICES ASSUME b <= d PROVE FALSE
  BY <1>2
<1>3. TypeAt(Scalar(r)) = t /\ t # "length"
  BY CommonPlace
<1>4. ~(b <= a /\ a <= d) /\ Within(Scalar(r), b, d) = {}
  BY <1>1, <1>2 DEF Samples
<1>5. IsOf(b, t)
  BY CommonBounds
<1> HIDE DEF b, d, r, t
<1>6. b \in Within(Scalar(r), b, d)
  BY <1>2, <1>3, <1>5, WithinHolds
<1> QED BY <1>4, <1>6

\* A group without a common value is equal in no input that satisfies the guards.
LEMMA NoCommonValue ==
  ASSUME Ready, NEW G, GroupOK(G), NEW args, InputOf(shape, args), Keeps(domains, args),
         \A q, r \in G : args[q] = args[r]
  PROVE  Common(G).lower <= Common(G).upper
<1> DEFINE b == Common(G).lower
           d == Common(G).upper
           t == CommonType(G)
<1>1. \A q \in G : /\ IsOf(args[q], shape[q].type)
                   /\ domains[Scalar(q)].lower <= args[q] /\ args[q] <= domains[Scalar(q)].upper
  <2> SUFFICES ASSUME NEW q \in G
               PROVE  /\ IsOf(args[q], shape[q].type)
                      /\ domains[Scalar(q)].lower <= args[q] /\ args[q] <= domains[Scalar(q)].upper
    OBVIOUS
  <2>1. q \in Parameters /\ ~shape[q].list
    BY DEF Scalars, GroupOK
  <2>2. Scalar(q) \in Places /\ TypeAt(Scalar(q)) = shape[q].type
    BY <2>1, PlacesAre DEF Ready
  <2>3. Of(args, Scalar(q), None) /\ At(args, Scalar(q), None) = args[q]
    BY DEF Of, At, Scalar
  <2> QED BY <2>2, <2>3, AtIsOf DEF Ready, Keeps
<1>2. PICK r \in G : shape[r].type = t
  BY CommonTypeIs DEF GroupOK, Ready
<1>3. IsOf(args[r], t) /\ \A q \in G : args[q] = args[r]
  BY <1>1, <1>2
<1>4. \A q \in G : domains[Scalar(q)].lower <= args[r] /\ args[r] <= domains[Scalar(q)].upper
  BY <1>1, <1>3
<1>5. Integers(G) => args[r] % One = 0
  BY <1>1, <1>3 DEF Integers, IsOf
<1>6. b <= args[r] /\ args[r] <= d
  BY <1>3, <1>4, <1>5, CommonLower, CommonUpper DEF GroupOK
<1>7. b \in Int /\ d \in Int /\ args[r] \in Int
  BY <1>3, CommonLower, CommonUpper DEF GroupOK, ProperBound, IsOf
<1> HIDE DEF b, d
<1> QED BY <1>6, <1>7 DEF b, d

-----------------------------------------------------------------------------
(* couple_equal_parameters.                                                  *)
Equal(args) == \A G \in EqualGroups : \A q, r \in G : args[q] = args[r]

\* The sample of a group.
SampleOf(args, preferred, G) == args[IF preferred \in G THEN preferred ELSE Min(G)]

LEMMA SampleFits ==
  ASSUME Ready, NEW args, FitsAll(args), NEW preferred, NEW G, GroupOK(G)
  PROVE  \E q \in G : SampleOf(args, preferred, G) \in InBounds(Scalar(q))
<1> DEFINE q == IF preferred \in G THEN preferred ELSE Min(G)
<1>1. Min(G) \in G
  BY ExtremesExist DEF GroupOK
<1>2. q \in G
  BY <1>1
<1>3. q \in Parameters /\ ~shape[q].list
  BY <1>2 DEF Scalars, GroupOK
<1>4. args[q] \in InBounds(Scalar(q))
  BY <1>3 DEF FitsAll, FitsArg
<1> QED BY <1>2, <1>4 DEF SampleOf

LEMMA CoupleFits ==
  ASSUME Ready, Guarded, NEW args, FitsAll(args), NEW preferred, NEW made \in Couple(args, preferred)
  PROVE  FitsAll(made) /\ Equal(made)
<1> DEFINE groups == EqualGroups
           common == [G \in groups |-> Common(G)]
           samples == [G \in groups |-> Samples(args[IF preferred \in G THEN preferred ELSE Min(G)], G, common[G])]
           groupOf(q) == CHOOSE G \in groups : q \in G
           chosen == {f \in [groups -> UNION {samples[G] : G \in groups}] : \A G \in groups : f[G] \in samples[G]}
<1>1. PICK f \in chosen :
        made = [q \in Parameters |-> IF q \in UNION groups
                                    THEN Rounded(Scalar(q), Shared(f[groupOf(q)], common[groupOf(q)]))
                                    ELSE args[q]]
  BY DEF Couple
<1>2. shape \in Signatures
  BY DEF Ready
<1>3. \A G \in groups : GroupOK(G) /\ \A H \in groups : H \cap G # {} => H = G
  BY <1>2, GroupsAre DEF GroupOK
<1>4. ASSUME NEW G \in groups, NEW q \in G
      PROVE  /\ made[q] = Shared(f[G], Common(G)) /\ made[q] \in InBounds(Scalar(q))
             /\ q \in Parameters /\ ~shape[q].list
  <2>1. q \in Parameters /\ ~shape[q].list /\ q \in UNION groups
    BY <1>3, <1>4 DEF GroupOK, Scalars
  <2>2. groupOf(q) = G
    <3>1. groupOf(q) \in groups /\ q \in groupOf(q)
      BY <1>4
    <3> HIDE DEF groupOf, groups
    <3> QED BY <1>3, <1>4, <3>1
  <2>3. f[G] \in Samples(SampleOf(args, preferred, G), G, Common(G))
    BY <1>1, <1>4 DEF SampleOf
  <2>4. GroupOK(G)
    BY <1>3, <1>4
  <2>5. PICK r \in G : SampleOf(args, preferred, G) \in InBounds(Scalar(r))
    BY <2>4, SampleFits
  <2>6. /\ f[G] \in Int /\ Common(G).lower <= f[G] /\ f[G] <= Common(G).upper
        /\ ~IsFloat(CommonType(G)) => f[G] % One = 0
    BY <2>3, <2>4, <2>5, SamplesAre
  <2>7. /\ Shared(f[G], Common(G)) \in InBounds(Scalar(q))
        /\ Rounded(Scalar(q), Shared(f[G], Common(G))) = Shared(f[G], Common(G))
    BY <1>4, <2>4, <2>6, SharedFits
  <2>8. common[G] = Common(G)
    BY <1>4
  <2>9. made[q] = Rounded(Scalar(q), Shared(f[groupOf(q)], common[groupOf(q)]))
    <3> HIDE DEF groupOf, groups, common
    <3> QED BY <1>1, <2>1
  <2> HIDE DEF groupOf, common, groups
  <2>10. made[q] = Rounded(Scalar(q), Shared(f[G], Common(G)))
    BY <2>2, <2>8, <2>9
  <2> QED BY <2>1, <2>7, <2>10
<1>5. ASSUME NEW q \in Parameters, q \notin UNION groups PROVE made[q] = args[q]
  <2> HIDE DEF groupOf, groups, common
  <2> QED BY <1>1, <1>5
<1>6. DOMAIN made = Parameters
  BY <1>1
<1> HIDE DEF groupOf, common, chosen, samples
<1>7. Equal(made)
  BY <1>4 DEF Equal
<1>8. ASSUME NEW q \in Parameters PROVE FitsArg(q, made[q])
  <2>1. CASE q \in UNION groups
    <3>1. PICK G \in groups : q \in G
      BY <2>1
    <3> QED BY <1>4, <3>1 DEF FitsArg
  <2>2. CASE q \notin UNION groups
    BY <1>5, <2>2 DEF FitsAll
  <2> QED BY <2>1, <2>2
<1> QED BY <1>6, <1>7, <1>8 DEF FitsAll

LEMMA CoupleFails ==
  ASSUME Ready, Guarded, NEW args, FitsAll(args), NEW preferred, Couple(args, preferred) = {}
  PROVE  \E G \in EqualGroups : Common(G).lower > Common(G).upper
<1> DEFINE groups == EqualGroups
           common == [G \in groups |-> Common(G)]
           samples == [G \in groups |-> Samples(args[IF preferred \in G THEN preferred ELSE Min(G)], G, common[G])]
           groupOf(q) == CHOOSE G \in groups : q \in G
           chosen == {f \in [groups -> UNION {samples[G] : G \in groups}] : \A G \in groups : f[G] \in samples[G]}
           Becomes(f) == [q \in Parameters |-> IF q \in UNION groups
                             THEN Rounded(Scalar(q), Shared(f[groupOf(q)], common[groupOf(q)]))
                             ELSE args[q]]
<1>1. Couple(args, preferred) = {Becomes(f) : f \in chosen}
  BY DEF Couple
<1>2. chosen = {}
  <2> HIDE DEF chosen, Becomes
  <2> QED BY <1>1
<1>3. PICK G \in groups : samples[G] = {}
  <2> SUFFICES ASSUME \A G \in groups : samples[G] # {} PROVE FALSE
    OBVIOUS
  <2> HIDE DEF samples, groups
  <2> DEFINE f == [G \in groups |-> CHOOSE x \in samples[G] : TRUE]
  <2>1. \A G \in groups : f[G] \in samples[G]
    OBVIOUS
  <2>2. f \in chosen
    BY <2>1
  <2> QED BY <1>2, <2>2
<1>4. Samples(SampleOf(args, preferred, G), G, Common(G)) = {}
  BY <1>3 DEF SampleOf
<1>5. GroupOK(G)
  BY GroupsAre DEF GroupOK, Ready
<1>6. PICK q \in G : SampleOf(args, preferred, G) \in InBounds(Scalar(q))
  BY <1>5, SampleFits
<1>7. SampleOf(args, preferred, G) \in Int
  <2>1. q \in Parameters /\ ~shape[q].list
    BY <1>5 DEF Scalars, GroupOK
  <2>2. Scalar(q) \in Places
    BY <2>1, PlacesAre DEF Ready
  <2> QED BY <1>6, <2>2, InBoundsTyped
<1> QED BY <1>4, <1>5, <1>7, NoSamples

-----------------------------------------------------------------------------
(* A guard that wants an item of a list below itself empties the domain of   *)
(* the item, and constrain looks only at scalars and lengths.                *)
ProperGuards ==
  \A s \in Signatures : \A g \in Guards[s] : \A k \in 1 .. Len(g) : IsEither(g[k]) \/ NoItemBeforeItself(g[k])

Unsatisfiable == \A args : InputOf(shape, args) => ~Satisfies(args, predicates)

(* There is a value at every place, what is made lies within the bounds, and *)
(* a group without a common value is equal in no input.                      *)
SamplesInv ==
  /\ DomainsInv
  /\ Proper(domains)
  /\ stage # "empty" => \A p \in Places : ~Empty(domains, p)
  /\ stage \in {"sampled", "varied", "accepted", "rejected"} => FitsAll(arguments)
  /\ stage = "sampled" => Equal(arguments)
  /\ stage = "unequal" => (ExactConstants => Unsatisfiable)

LEMMA SamplesInvBegins ==
  ASSUME DomainsInit PROVE SamplesInv
<1>1. shape \in Signatures /\ stage = "guard" /\ domains = [p \in Places |-> Domain(p)]
  BY DEF DomainsInit
<1>2. DomainsInv
  BY DomainsInvBegins
<1> QED BY <1>1, <1>2, ProperBegins DEF SamplesInv

LEMMA SameShape ==
  ASSUME UNCHANGED shape
  PROVE  /\ Places' = Places /\ Parameters' = Parameters /\ Scalars' = Scalars
         /\ \A d : Proper(d)' <=> Proper(d)
         /\ \A p : TypeAt(p)' = TypeAt(p)
<1>1. Places' = Places /\ Parameters' = Parameters /\ Scalars' = Scalars
  BY DEF Places, Parameters, Scalars
<1>2. \A p : TypeAt(p)' = TypeAt(p)
  BY DEF TypeAt
<1>3. \A p : Domain(p)' = Domain(p)
  BY <1>2 DEF Domain
<1> QED BY <1>1, <1>2, <1>3 DEF Proper

LEMMA SameBounds ==
  ASSUME UNCHANGED <<shape, domains>>
  PROVE  \A args : FitsAll(args)' <=> FitsAll(args)
<1>1. /\ Places' = Places /\ Parameters' = Parameters
      /\ \A p : TypeAt(p)' = TypeAt(p)
  BY SameShape
<1>2. \A p, lower, upper : Within(p, lower, upper)' = Within(p, lower, upper)
  BY <1>1 DEF Within
<1>3. \A p : InBounds(p)' = InBounds(p)
  BY <1>2 DEF InBounds
<1> QED BY <1>1, <1>3 DEF FitsAll, FitsArg

LEMMA SameGroups ==
  ASSUME UNCHANGED <<shape, predicates>>
  PROVE  /\ \A args : Equal(args)' <=> Equal(args)
         /\ Unsatisfiable' <=> Unsatisfiable
<1>1. Scalars' = Scalars /\ \A p : TypeAt(p)' = TypeAt(p)
  BY SameShape
<1>2. \A label, c : Merge(label, c)' = Merge(label, c)
  BY <1>1 DEF Merge
<1>3. \A label, guard : Merged(label, guard)' = Merged(label, guard)
  BY <1>2 DEF Merged
<1>4. Labels' = Labels
  BY <1>1, <1>3 DEF Labels
<1>5. EqualGroups' = EqualGroups
  BY <1>1, <1>4 DEF EqualGroups
<1>6. \A args, x, y, i : ValueOf(args, x, y, i)' = ValueOf(args, x, y, i)
  BY <1>1 DEF ValueOf
<1>7. \A args, c : Holds(args, c)' <=> Holds(args, c)
  BY <1>6 DEF Holds
<1>8. \A args, guards : Satisfies(args, guards)' <=> Satisfies(args, guards)
  BY <1>7 DEF Satisfies
<1>9. Unsatisfiable' <=> Unsatisfiable
  BY <1>8 DEF Unsatisfiable
<1> QED BY <1>5, <1>9 DEF Equal

LEMMA SamplesInvReady ==
  ASSUME SamplesInv, stage # "empty"
  PROVE  Ready /\ Guarded
<1>1. shape \in Signatures /\ predicates \in Seq(Guards[shape])
  BY DEF SamplesInv, DomainsInv
<1>2. \A k \in 1 .. Len(predicates) : WellFormed(predicates[k]) /\ DOMAIN predicates[k] = 1 .. Len(predicates[k])
  BY <1>1, GuardsAssumption DEF WellFormed, Well
<1>3. Guarded
  BY <1>1, <1>2 DEF Guarded
<1> QED BY <1>3 DEF SamplesInv, DomainsInv, Ready

\* A guard more, of a function that is not refused.
LEMMA SamplesInvGuarded ==
  ASSUME ProperGuards, SamplesInv, AddGuard
  PROVE  SamplesInv'
<1>1. stage = "guard" /\ shape' = shape /\ shape \in Signatures /\ domains \in DomainsType
  BY DEF AddGuard, SamplesInv, DomainsInv
<1>2. PICK g \in Guards[shape] :
        /\ domains' = Constrain(g).domains
        /\ stage' = CASE Constrain(g).end = "settled" -> "guard"
                      [] Constrain(g).end = "empty" -> "empty"
                      [] Constrain(g).end = "open" -> "cyclic"
  BY DEF AddGuard
<1>3. WellFormed(g)
  BY <1>1, GuardsAssumption DEF WellFormed, Well
<1>4. \A k \in 1 .. Len(g) : IsEither(g[k]) \/ NoItemBeforeItself(g[k])
  BY <1>1 DEF ProperGuards
<1>5. Proper(domains) /\ \A p \in Places : ~Empty(domains, p)
  BY <1>1 DEF SamplesInv
<1>6. Constrain(g) \in Filled
  BY <1>1, <1>3, <1>4, <1>5, ConstrainFills
<1>7. /\ Proper(domains') /\ Constrain(g).end \in {"open", "empty", "settled"}
      /\ Constrain(g).end # "empty" => \A p \in Places : ~Empty(domains', p)
  BY <1>2, <1>6 DEF Filled, Results
<1>8. stage' \in {"guard", "empty", "cyclic"} /\ (stage' = "empty" <=> Constrain(g).end = "empty")
  BY <1>2, <1>7
<1>9. Places' = Places /\ \A d : Proper(d)' <=> Proper(d)
  BY <1>1, SameShape
<1>10. Proper(domains)' /\ (stage' # "empty" => \A p \in Places' : ~Empty(domains, p)')
  BY <1>7, <1>8, <1>9 DEF Empty
<1>11. DomainsInv'
  BY DomainsInvGuarded DEF SamplesInv
<1> QED BY <1>8, <1>10, <1>11 DEF SamplesInv

\* What the other steps keep.
LEMMA SamplesInvSame ==
  ASSUME SamplesInv, UNCHANGED <<shape, predicates, domains>>, stage' \in Stages,
         stage' = "empty" => stage = "empty", stage = "empty" => stage' = "empty"
  PROVE  /\ DomainsInv' /\ Proper(domains)' /\ (stage' # "empty" => \A p \in Places' : ~Empty(domains, p)')
<1>1. DomainsInv'
  BY DomainsInvIgnores DEF SamplesInv
<1>2. Places' = Places /\ \A d : Proper(d)' <=> Proper(d)
  BY SameShape
<1> QED BY <1>1, <1>2 DEF SamplesInv, Empty

LEMMA SamplesInvSampled ==
  ASSUME SamplesInv, UNCHANGED <<shape, predicates, domains>>, stage # "empty",
         NEW args, FitsAll(args), NEW preferred, Sample(Couple(args, preferred))
  PROVE  SamplesInv'
<1>1. Ready /\ Guarded
  BY SamplesInvReady
<1>2. stage' \in {"unequal", "sampled"}
  BY DEF Sample
<1>3. DomainsInv' /\ Proper(domains)' /\ (stage' # "empty" => \A p \in Places' : ~Empty(domains, p)')
  BY <1>2, SamplesInvSame DEF Stages
<1>4. CASE stage' = "unequal"
  <2>1. Couple(args, preferred) = {}
    BY <1>4 DEF Sample
  <2>2. PICK G \in EqualGroups : Common(G).lower > Common(G).upper
    BY <1>1, <2>1, CoupleFails
  <2>3. GroupOK(G) /\ \A other : InputOf(shape, other) /\ Satisfies(other, predicates) => \A q, r \in G : other[q] = other[r]
    BY <1>1, GroupsAre DEF GroupOK, Ready
  <2>4. Common(G).lower \in Int /\ Common(G).upper \in Int
    BY <1>1, <2>3, CommonLower, CommonUpper DEF GroupOK, ProperBound
  <2>5. ASSUME ExactConstants, NEW other, InputOf(shape, other), Satisfies(other, predicates)
        PROVE  FALSE
    <3>1. Keeps(domains, other)
      BY <2>5 DEF SamplesInv, DomainsInv
    <3>2. Common(G).lower <= Common(G).upper
      BY <1>1, <2>3, <2>5, <3>1, NoCommonValue
    <3> QED BY <2>2, <2>4, <3>2
  <2>6. ExactConstants => Unsatisfiable
    BY <2>5 DEF Unsatisfiable
  <2> QED BY <1>3, <1>4, <2>6, SameGroups DEF SamplesInv
<1>5. CASE stage' = "sampled"
  <2>1. arguments' \in Couple(args, preferred)
    BY <1>5 DEF Sample
  <2>2. FitsAll(arguments') /\ Equal(arguments')
    BY <1>1, <2>1, CoupleFits
  <2>3. FitsAll(arguments)' /\ Equal(arguments)'
    <3>1. \A x : FitsAll(x)' <=> FitsAll(x)
      BY SameBounds
    <3>2. \A x : Equal(x)' <=> Equal(x)
      BY SameGroups
    <3>3. FitsAll(arguments)' <=> FitsAll(arguments')
      BY <3>1
    <3>4. Equal(arguments)' <=> Equal(arguments')
      BY <3>2
    <3> QED BY <2>2, <3>3, <3>4
  <2> QED BY <1>3, <1>5, <2>3 DEF SamplesInv
<1> QED BY <1>2, <1>4, <1>5

\* Arguments that do not come of couple_equal_parameters.
LEMMA SamplesInvMade ==
  ASSUME SamplesInv, UNCHANGED <<shape, predicates, domains>>, stage # "empty",
         stage' \in {"varied", "accepted", "rejected"}, FitsAll(arguments')
  PROVE  SamplesInv'
<1>1. DomainsInv' /\ Proper(domains)' /\ (stage' # "empty" => \A p \in Places' : ~Empty(domains, p)')
  BY SamplesInvSame DEF Stages
<1>2. FitsAll(arguments)'
  <2>1. \A x : FitsAll(x)' <=> FitsAll(x)
    BY SameBounds
  <2>2. FitsAll(arguments)' <=> FitsAll(arguments')
    BY <2>1
  <2> QED BY <2>2
<1> QED BY <1>1, <1>2 DEF SamplesInv

LEMMA SamplesInvDrawn ==
  ASSUME SamplesInv, Draw PROVE SamplesInv'
<1> DEFINE sets == [q \in Parameters |-> Drawn(q)]
<1>1. stage = "guard" /\ UNCHANGED <<shape, predicates, domains>>
  BY DEF Draw
<1>2. PICK args \in Tuples(sets) : Sample(Couple(args, None))
  BY DEF Draw
<1>3. Ready
  BY <1>1, SamplesInvReady
<1>4. \A q \in Parameters : sets[q] = Drawn(q)
  OBVIOUS
<1>5. sets = [q \in Parameters |-> sets[q]]
  OBVIOUS
<1> HIDE DEF sets
<1>6. FitsAll(args)
  BY <1>2, <1>3, <1>4, <1>5, DrawnFit, TuplesFit
<1> QED BY <1>1, <1>2, <1>6, SamplesInvSampled

LEMMA SamplesInvVaried ==
  ASSUME SamplesInv, Vary PROVE SamplesInv'
<1> DEFINE sets == [q \in Parameters |-> Varied(q)]
<1>1. stage = "guard" /\ UNCHANGED <<shape, predicates, domains>> /\ stage' = "varied" /\ arguments' \in Tuples(sets)
  BY DEF Vary
<1>2. Ready
  BY <1>1, SamplesInvReady
<1>3. \A q \in Parameters : sets[q] = Varied(q)
  OBVIOUS
<1>4. sets = [q \in Parameters |-> sets[q]]
  OBVIOUS
<1> HIDE DEF sets
<1>5. FitsAll(arguments')
  BY <1>1, <1>2, <1>3, <1>4, VariedFit, TuplesFit
<1> QED BY <1>1, <1>5, SamplesInvMade

LEMMA SamplesInvReplayed ==
  ASSUME SamplesInv, Replay PROVE SamplesInv'
<1> DEFINE sets == [q \in Parameters |-> Captured(q)]
<1>1. stage = "guard" /\ UNCHANGED <<shape, predicates, domains>> /\ stage' = "accepted" /\ arguments' \in Tuples(sets)
  BY DEF Replay
<1>2. Ready
  BY <1>1, SamplesInvReady
<1>3. \A q \in Parameters : sets[q] = Captured(q)
  OBVIOUS
<1>4. sets = [q \in Parameters |-> sets[q]]
  OBVIOUS
<1> HIDE DEF sets
<1>5. FitsAll(arguments')
  BY <1>1, <1>2, <1>3, <1>4, CapturedFit, TuplesFit
<1> QED BY <1>1, <1>5, SamplesInvMade

LEMMA SamplesInvJudged ==
  ASSUME SamplesInv, Accept PROVE SamplesInv'
<1>1. /\ stage \in {"sampled", "varied"} /\ stage' \in {"accepted", "rejected"}
      /\ UNCHANGED <<shape, predicates, domains, arguments>>
  BY DEF Accept
<1>2. FitsAll(arguments')
  BY <1>1 DEF SamplesInv
<1> QED BY <1>1, <1>2, SamplesInvMade

\* One argument exchanged for another that fits.
LEMMA Exchanged ==
  ASSUME NEW args, FitsAll(args), NEW q \in Parameters, NEW a, FitsArg(q, a)
  PROVE  FitsAll([args EXCEPT ![q] = a])
<1> DEFINE made == [args EXCEPT ![q] = a]
<1>1. DOMAIN made = Parameters /\ made[q] = a /\ \A r \in Parameters : r # q => made[r] = args[r]
  BY DEF FitsAll
<1> HIDE DEF made
<1>2. ASSUME NEW r \in Parameters PROVE FitsArg(r, made[r])
  <2>1. CASE r = q
    BY <1>1, <2>1
  <2>2. CASE r # q
    BY <1>1, <2>2 DEF FitsAll
  <2> QED BY <2>1, <2>2
<1>3. FitsAll(made)
  BY <1>1, <1>2 DEF FitsAll
<1> QED BY <1>3 DEF made

LEMMA ItemExchanged ==
  ASSUME Ready, NEW q \in Parameters, shape[q].list, NEW a, FitsArg(q, a), NEW i \in DOMAIN a, NEW v \in InBounds(Item(q))
  PROVE  FitsArg(q, [a EXCEPT ![i] = v])
<1> DEFINE b == [a EXCEPT ![i] = v]
<1>1. Item(q) \in Places
  BY PlacesAre DEF Ready
<1>2. v \in Int
  BY <1>1, InBoundsTyped
<1>3. a \in Seq(Int) /\ Len(a) * One \in InBounds(Length(q)) /\ \A j \in DOMAIN a : a[j] \in InBounds(Item(q))
  BY DEF FitsArg
<1>4. b \in Seq(Int) /\ Len(b) = Len(a) /\ DOMAIN b = DOMAIN a /\ b[i] = v /\ \A j \in DOMAIN a : j # i => b[j] = a[j]
  BY <1>2, <1>3
<1> HIDE DEF b
<1>5. \A j \in DOMAIN b : b[j] \in InBounds(Item(q))
  BY <1>3, <1>4
<1>6. FitsArg(q, b)
  BY <1>3, <1>4, <1>5 DEF FitsArg
<1> QED BY <1>6 DEF b

LEMMA SamplesInvMutated ==
  ASSUME SamplesInv, Mutate PROVE SamplesInv'
<1>1. stage = "accepted" /\ UNCHANGED <<shape, predicates, domains>>
  BY DEF Mutate
<1>2. Ready /\ FitsAll(arguments) /\ DOMAIN arguments = Parameters
  BY <1>1, SamplesInvReady DEF SamplesInv, FitsAll
<1>3. PICK q \in Parameters :
        IF ~shape[q].list THEN \E v \in InBounds(Scalar(q)) : Sample(Couple([arguments EXCEPT ![q] = v], q))
        ELSE \E i \in DOMAIN arguments[q], v \in InBounds(Item(q)) : Sample(Couple([arguments EXCEPT ![q][i] = v], q))
  BY DEF Mutate
<1>4. FitsArg(q, arguments[q])
  BY <1>2 DEF FitsAll
<1>5. CASE ~shape[q].list
  <2>1. PICK v \in InBounds(Scalar(q)) : Sample(Couple([arguments EXCEPT ![q] = v], q))
    BY <1>3, <1>5
  <2>2. FitsArg(q, v)
    BY <1>5 DEF FitsArg
  <2>3. FitsAll([arguments EXCEPT ![q] = v])
    BY <1>2, <2>2, Exchanged
  <2> QED BY <1>1, <2>1, <2>3, SamplesInvSampled
<1>6. CASE shape[q].list
  <2>1. PICK i \in DOMAIN arguments[q], v \in InBounds(Item(q)) : Sample(Couple([arguments EXCEPT ![q][i] = v], q))
    BY <1>3, <1>6
  <2> DEFINE a == [arguments[q] EXCEPT ![i] = v]
  <2>2. FitsArg(q, a)
    BY <1>2, <1>4, <1>6, <2>1, ItemExchanged
  <2>3. [arguments EXCEPT ![q][i] = v] = [arguments EXCEPT ![q] = a]
    OBVIOUS
  <2> HIDE DEF a
  <2>4. FitsAll([arguments EXCEPT ![q][i] = v])
    BY <1>2, <2>2, <2>3, Exchanged
  <2> QED BY <1>1, <2>1, <2>4, SamplesInvSampled
<1> QED BY <1>5, <1>6

LEMMA ReductionFits ==
  ASSUME Ready, FitsAll(arguments), NEW q \in Parameters, NEW v \in ReductionCandidates(q)
  PROVE  FitsArg(q, v)
<1> DEFINE old == arguments[q]
<1>0. FitsArg(q, old)
  BY DEF FitsAll
<1>1. CASE shape[q].list
  <2>1. /\ old \in Seq(Int) /\ Len(old) * One \in InBounds(Length(q))
        /\ \A i \in DOMAIN old : old[i] \in InBounds(Item(q))
    BY <1>0, <1>1 DEF FitsArg
  <2>2. \/ \E n \in 0 .. Len(old) - 1 : n * One >= domains[Length(q)].lower /\ v = SubSeq(old, 1, n)
        \/ \E i \in DOMAIN old : 0 \in InBounds(Item(q)) /\ v = [old EXCEPT ![i] = 0]
    BY <1>1 DEF ReductionCandidates
  <2> HIDE DEF old
  <2>3. ASSUME NEW n \in 0 .. Len(old) - 1, n * One >= domains[Length(q)].lower, v = SubSeq(old, 1, n)
        PROVE  FitsArg(q, v)
    <3>1. v \in Seq(Int) /\ Len(v) = n /\ DOMAIN v = 1 .. n
      BY <2>1, <2>3
    <3>2. \A i \in DOMAIN v : i \in DOMAIN old /\ v[i] = old[i]
      BY <2>1, <2>3, <3>1
    <3>3. Length(q) \in Places /\ TypeAt(Length(q)) = "length" /\ ~IsFloat(TypeAt(Length(q)))
      BY <1>1, PlacesAre, DomainTyped DEF Ready
    <3> DEFINE m == Len(old)
    <3>4. m \in Nat /\ n \in Nat /\ n <= m /\ One \in Nat \ {0}
      BY <2>1, <2>3, DomainsAssumption
    <3>5. m * One <= domains[Length(q)].upper /\ m * One <= MaxItems * One
      BY <2>1, <3>3, WithinBounds
    <3>6. domains[Length(q)].upper \in Int /\ domains[Length(q)].lower \in Int /\ MaxItems * One \in Int
      BY <3>3, DomainsAssumption DEF Ready, DomainsType
    <3> HIDE DEF m
    <3>7. n * One <= m * One /\ n * One \in Int /\ m * One \in Int /\ (n * One) % One = 0
      BY <3>4
    <3>8. n * One <= domains[Length(q)].upper /\ n * One <= MaxItems * One /\ domains[Length(q)].lower <= n * One
      BY <2>3, <3>5, <3>6, <3>7
    <3>9. n * One \in InBounds(Length(q))
      BY <3>3, <3>7, <3>8, WithinBounds DEF ValueOfType
    <3> QED BY <1>1, <2>1, <3>1, <3>2, <3>9 DEF FitsArg
  <2>4. ASSUME NEW i \in DOMAIN old, 0 \in InBounds(Item(q)), v = [old EXCEPT ![i] = 0]
        PROVE  FitsArg(q, v)
    BY <1>0, <1>1, <2>4, ItemExchanged DEF old
  <2> QED BY <2>2, <2>3, <2>4
<1>2. CASE ~shape[q].list
  <2>1. v = Clamped(Scalar(q), 0)
    BY <1>2 DEF ReductionCandidates
  <2>2. Scalar(q) \in Places /\ Scalar(q)[2] # "length"
    BY <1>2, PlacesAre DEF Ready
  <2>3. ProperBound(0, TypeAt(Scalar(q)))
    <3>1. 0 % One = 0
      BY DomainsAssumption
    <3> QED BY <3>1, DomainsAssumption DEF ProperBound, IsFloat
  <2>4. v \in InBounds(Scalar(q))
    BY <2>1, <2>2, <2>3, ClampedFits
  <2> QED BY <1>2, <2>4 DEF FitsArg
<1> QED BY <1>1, <1>2

LEMMA SamplesInvReduced ==
  ASSUME SamplesInv, TryReduction PROVE SamplesInv'
<1>1. stage = "accepted" /\ stage' = stage /\ UNCHANGED <<shape, predicates, domains>>
  BY DEF TryReduction
<1>2. Ready /\ FitsAll(arguments)
  BY <1>1, SamplesInvReady DEF SamplesInv
<1>3. PICK q \in Parameters : \E v \in ReductionCandidates(q) : arguments' = [arguments EXCEPT ![q] = v]
  BY DEF TryReduction
<1>4. PICK v \in ReductionCandidates(q) : arguments' = [arguments EXCEPT ![q] = v]
  BY <1>3
<1>5. FitsAll([arguments EXCEPT ![q] = v])
  <2>1. FitsArg(q, v)
    BY <1>2, ReductionFits
  <2> QED BY <1>2, <2>1, Exchanged
<1>6. FitsAll(arguments')
  BY <1>4, <1>5
<1> QED BY <1>1, <1>6, SamplesInvMade

LEMMA SamplesInvKept ==
  ASSUME ProperGuards, SamplesInv, [DomainsNext]_domainsVars
  PROVE  SamplesInv'
<1>1. CASE AddGuard
  BY <1>1, SamplesInvGuarded
<1>2. CASE Draw
  BY <1>2, SamplesInvDrawn
<1>3. CASE Mutate
  BY <1>3, SamplesInvMutated
<1>4. CASE Vary
  BY <1>4, SamplesInvVaried
<1>5. CASE Accept
  BY <1>5, SamplesInvJudged
<1>6. CASE TryReduction
  BY <1>6, SamplesInvReduced
<1>7. CASE Replay
  BY <1>7, SamplesInvReplayed
<1>8. CASE UNCHANGED domainsVars
  <2>1. UNCHANGED <<shape, predicates, domains, stage, arguments>> /\ stage \in Stages
    BY <1>8 DEF domainsVars, SamplesInv, DomainsInv
  <2>2. DomainsInv' /\ Proper(domains)' /\ (stage' # "empty" => \A p \in Places' : ~Empty(domains, p)')
    BY <2>1, SamplesInvSame
  <2>3. \A x : FitsAll(x)' <=> FitsAll(x)
    BY <2>1, SameBounds
  <2>4. (\A x : Equal(x)' <=> Equal(x)) /\ (Unsatisfiable' <=> Unsatisfiable)
    BY <2>1, SameGroups
  <2>5. (FitsAll(arguments)' <=> FitsAll(arguments')) /\ (Equal(arguments)' <=> Equal(arguments'))
    BY <2>3, <2>4
  <2> QED BY <2>1, <2>2, <2>4, <2>5 DEF SamplesInv
<1> QED BY <1>1, <1>2, <1>3, <1>4, <1>5, <1>6, <1>7, <1>8 DEF DomainsNext

(* While constrain refuses no function for an empty domain, every scalar,    *)
(* length and item has a value between its bounds, which are values of its   *)
(* type or beyond all of them; arguments lie within them, however they were  *)
(* made; and when a group has no common value no input satisfies the guards. *)
THEOREM SamplesInvariance == ProperGuards => (DomainsSpec => []SamplesInv)
<1> SUFFICES ASSUME ProperGuards PROVE DomainsSpec => []SamplesInv
  OBVIOUS
<1>1. DomainsInit => SamplesInv
  BY SamplesInvBegins
<1>2. SamplesInv /\ [DomainsNext]_domainsVars => SamplesInv'
  BY SamplesInvKept
<1> QED BY <1>1, <1>2, PTL DEF DomainsSpec

LEMMA FittingFits ==
  ASSUME FitsAll(arguments)
  PROVE  Fits(arguments)
BY DEF FitsAll, FitsArg, Fits

\* There is an argument for each parameter, whatever the guards.
LEMMA TuplesDomain ==
  ASSUME shape \in Signatures, NEW sets, sets = [q \in Parameters |-> sets[q]], NEW t \in Tuples(sets)
  PROVE  DOMAIN t = Parameters
<1> DEFINE U == UNION {sets[q] : q \in Parameters}
<1>1. Len(shape) \in Nat /\ Parameters = 1 .. Len(shape)
  BY DomainsAssumption DEF Parameters
<1>2. \A q \in Parameters : sets[q] \in SUBSET U
  OBVIOUS
<1> HIDE DEF U
<1>3. sets \in Seq(SUBSET U) /\ Len(sets) = Len(shape)
  <2>1. sets = [q \in 1 .. Len(shape) |-> sets[q]]
    BY <1>1
  <2> QED BY <1>1, <1>2, <2>1
<1> QED BY <1>1, <1>3, TuplesAre

DomainsTypeInv ==
  /\ DomainsInv
  /\ stage \in {"sampled", "varied", "accepted", "rejected"} => DOMAIN arguments = Parameters

LEMMA DomainsTypeInvKept ==
  ASSUME DomainsTypeInv, [DomainsNext]_domainsVars
  PROVE  DomainsTypeInv'
<1>1. DomainsInv' /\ shape \in Signatures
  BY DomainsInvKept DEF DomainsTypeInv, DomainsInv
<1> SUFFICES ASSUME stage' \in {"sampled", "varied", "accepted", "rejected"}
             PROVE  DOMAIN arguments' = Parameters'
  BY <1>1 DEF DomainsTypeInv
<1>2. \A args, preferred : Sample(Couple(args, preferred)) /\ UNCHANGED shape => DOMAIN arguments' = Parameters'
  <2> SUFFICES ASSUME NEW args, NEW preferred, Sample(Couple(args, preferred)), UNCHANGED shape
               PROVE  DOMAIN arguments' = Parameters'
    OBVIOUS
  <2>1. arguments' \in Couple(args, preferred)
    BY DEF Sample
  <2> QED BY <2>1 DEF Couple, Parameters
<1>3. CASE AddGuard
  <2>1. stage' \in {"guard", "empty", "cyclic"}
    <3>1. PICK g \in Guards[shape] :
            stage' = CASE Constrain(g).end = "settled" -> "guard"
                       [] Constrain(g).end = "empty" -> "empty"
                       [] Constrain(g).end = "open" -> "cyclic"
      BY <1>3 DEF AddGuard
    <3>2. WellFormed(g)
      BY <1>1, GuardsAssumption DEF WellFormed, Well
    <3>3. Constrain(g) \in Results
      <4>1. Open(domains) \in Results /\ domains \in DomainsType
        BY DEF Open, Results, DomainsTypeInv, DomainsInv
      <4> QED BY <1>1, <3>2, <4>1, RoundTyped, ConstrainStays
    <3> QED BY <3>1, <3>3 DEF Results
  <2> QED BY <2>1
<1>4. CASE Draw
  BY <1>2, <1>4 DEF Draw
<1>5. CASE Mutate
  BY <1>2, <1>5 DEF Mutate
<1>6. CASE Vary
  <2> DEFINE sets == [q \in Parameters |-> Varied(q)]
  <2>1. arguments' \in Tuples(sets) /\ shape' = shape
    BY <1>6 DEF Vary
  <2>2. sets = [q \in Parameters |-> sets[q]]
    OBVIOUS
  <2> HIDE DEF sets
  <2> QED BY <1>1, <2>1, <2>2, TuplesDomain DEF Parameters
<1>7. CASE Accept
  BY <1>7 DEF Accept, DomainsTypeInv, Parameters
<1>8. CASE TryReduction
  BY <1>8 DEF TryReduction, DomainsTypeInv, Parameters
<1>9. CASE Replay
  <2> DEFINE sets == [q \in Parameters |-> Captured(q)]
  <2>1. arguments' \in Tuples(sets) /\ shape' = shape
    BY <1>9 DEF Replay
  <2>2. sets = [q \in Parameters |-> sets[q]]
    OBVIOUS
  <2> HIDE DEF sets
  <2> QED BY <1>1, <2>1, <2>2, TuplesDomain DEF Parameters
<1>10. CASE UNCHANGED domainsVars
  BY <1>10 DEF domainsVars, DomainsTypeInv, Parameters
<1> QED BY <1>3, <1>4, <1>5, <1>6, <1>7, <1>8, <1>9, <1>10 DEF DomainsNext

(* The variables of the generator keep their types, whatever the guards.     *)
THEOREM DomainsTypeCorrect == DomainsSpec => []DomainsTypeOK
<1>1. DomainsInit => DomainsTypeInv
  BY DomainsInvBegins DEF DomainsInit, DomainsTypeInv
<1>2. DomainsTypeInv /\ [DomainsNext]_domainsVars => DomainsTypeInv'
  BY DomainsTypeInvKept
<1>3. DomainsTypeInv => DomainsTypeOK
  BY DEF DomainsTypeInv, DomainsInv, DomainsTypeOK, DomainsType, Stages
<1> QED BY <1>1, <1>2, <1>3, PTL DEF DomainsSpec

(* Everything that inputs draws, mutates, varies, reduces or takes from a    *)
(* replay lies within the narrowed bounds of its types, for any types and    *)
(* guards; what the guards want equal is equal in every sample, however the  *)
(* types round; and the want of a common value is no loss when the constants *)
(* are exact.                                                                *)
THEOREM SamplesAreSound == ProperGuards => (DomainsSpec => [](ExactConstants \/ stage # "unequal" => SamplesFit))
<1> SUFFICES ASSUME ProperGuards PROVE DomainsSpec => [](ExactConstants \/ stage # "unequal" => SamplesFit)
  OBVIOUS
<1>1. ASSUME SamplesInv, ExactConstants \/ stage # "unequal" PROVE SamplesFit
  <2>1. shape \in Signatures
    BY <1>1 DEF SamplesInv, DomainsInv
  <2>2. stage \in {"sampled", "varied", "accepted"} => Fits(arguments)
    BY <1>1, FittingFits DEF SamplesInv
  <2>3. stage = "unequal" => \A args \in EveryInput[shape] : ~Satisfies(args, predicates)
    BY <1>1, <2>1, EveryInputIs DEF SamplesInv, Unsatisfiable
  <2> QED BY <1>1, <2>2, <2>3 DEF SamplesFit, SamplesInv, Equal
<1>2. SamplesInv => (ExactConstants \/ stage # "unequal" => SamplesFit)
  BY <1>1
<1> QED BY <1>2, SamplesInvariance, PTL
=============================================================================
