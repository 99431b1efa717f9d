------------------------------ MODULE Campaign ------------------------------
(***************************************************************************)
(* Fuzz and differential campaigns: run of packaging/campaigns.py calls    *)
(* one compiled harness on generated inputs, each in a new process, and    *)
(* keeps the inputs that fail, differ or reach new points when they do so  *)
(* again; persist of syntax/complex/fuzz.py appends them to the source as  *)
(* regression tests.                                                       *)
(*                                                                         *)
(* An input is drawn from the domains or by mutating an earlier one: any   *)
(* input may be next.  The harness is a function to the outcomes an input  *)
(* may have, one if it is deterministic.  The profile mode is left out.    *)
(***************************************************************************)
EXTENDS Naturals, Sequences, SequencesExt

CONSTANTS
  Inputs,       \* that satisfy the constraints
  Reductions,   \* Reductions[i]: the candidates of reduction_candidates, in order
  Sites,       \* coverage points
  Harnesses,    \* functions from Inputs to non-empty sets of Outcomes
  Modes,        \* a set of "fuzz", "differential" and "replay"
  MaxCases,     \* the option times
  MaxTrials,    \* 32 in the code
  MaxRuns,      \* bound on runs of the campaign
  MaxUserEdits      \* bound on edits of the source by the user

Verdicts == {"passed", "failed", "differs", "timeout"}
Outcomes == [verdict : Verdicts, hits : SUBSET Sites]

ASSUME CampaignAssumption ==
  /\ Inputs # {}      \* otherwise the campaign ends before its first case
  /\ Reductions \in [Inputs -> Seq(Inputs)]
  /\ \A h \in Harnesses : h \in [Inputs -> (SUBSET Outcomes) \ {{}}]
  /\ Modes \subseteq {"fuzz", "differential", "replay"}
  /\ MaxCases \in Nat /\ MaxTrials \in Nat /\ MaxRuns \in Nat \ {0} /\ MaxUserEdits \in Nat

VARIABLES
  mode,
  harness,
  phase,       \* "draw", "judge", "reduce", "report", "append" or "over"
  elapsed,     \* "within" the budget, "past" it, or "late": past the double of it
  input,       \* arguments
  outcome,     \* record and hits of the invocation
  new,         \* its points that no invocation before it reached
  seen,        \* points of all the invocations for records
  best,        \* the last reduction with the same outcome
  trials,      \* reductions tried
  cases,       \* records: [input, outcome]
  kept,       \* discoveries: [input, verdict, new]
  source,      \* the file of the test: [edit, tests]
  snapshot,    \* this file when the harness was compiled
  original,    \* this file when persist has read it
  runs,
  userEdits

loopVars == <<phase, elapsed, input, outcome, new, seen, best, trials, cases, kept>>
fileVars == <<source, snapshot, original>>
campaignVars == <<mode, harness, loopVars, fileVars, runs, userEdits>>

SomeInput == CHOOSE i \in Inputs : TRUE
NoOutcome == [verdict |-> "passed", hits |-> {}]

Fresh ==
  /\ mode' \in Modes
  /\ harness' \in Harnesses
  /\ phase' = "draw"
  /\ elapsed' = "within"
  /\ input' = SomeInput
  /\ outcome' = NoOutcome
  /\ new' = {}
  /\ seen' = {}
  /\ best' = SomeInput
  /\ trials' = 0
  /\ cases' = <<>>
  /\ kept' = <<>>

CampaignInit ==
  /\ mode \in Modes
  /\ harness \in Harnesses
  /\ phase = "draw"
  /\ elapsed = "within"
  /\ input = SomeInput
  /\ outcome = NoOutcome
  /\ new = {}
  /\ seen = {}
  /\ best = SomeInput
  /\ trials = 0
  /\ cases = <<>>
  /\ kept = <<>>
  /\ source = [edit |-> 0, tests |-> <<>>]
  /\ snapshot = source
  /\ original = source
  /\ runs = 1
  /\ userEdits = 0

InCampaign == phase \in {"draw", "judge", "reduce"}

\* The budget, or the double of it that confirmations may use, runs out.
Elapse ==
  /\ InCampaign
  /\ \/ elapsed = "within" /\ elapsed' = "past"
     \/ elapsed = "past" /\ elapsed' = "late"
  /\ UNCHANGED <<mode, harness, phase, input, outcome, new, seen, best, trials, cases, kept, fileVars, runs,
                 userEdits>>

-----------------------------------------------------------------------------
(* invoke, called for a case, for its confirmation and for its reductions   *)

InvokeCase ==
  /\ phase = "draw" /\ elapsed = "within" /\ Len(cases) < MaxCases
  /\ \E i \in Inputs, o \in Outcomes :
       /\ o \in harness[i]
       /\ input' = i
       /\ outcome' = o
       /\ new' = o.hits \ seen
       /\ seen' = seen \cup o.hits
  /\ phase' = "judge"
  /\ UNCHANGED <<mode, harness, elapsed, best, trials, cases, kept, fileVars, runs, userEdits>>

Interesting ==
  IF mode = "differential" THEN outcome.verdict = "differs" ELSE outcome.verdict # "passed" \/ new # {}

MayConfirm_bug == mode # "replay" /\ Interesting /\ elapsed = "within"

\* A confirmation may use as much time again as the campaign.
MayConfirm == mode # "replay" /\ Interesting /\ elapsed # "late"

\* The record is kept; the campaign ends with the first that has not passed.
Keep ==
  /\ cases' = Append(cases, [input |-> input, outcome |-> outcome])
  /\ phase' = IF outcome.verdict = "passed" THEN "draw" ELSE "report"

Pass ==
  /\ phase = "judge" /\ ~MayConfirm
  /\ Keep
  /\ UNCHANGED <<mode, harness, elapsed, input, outcome, new, seen, best, trials, kept, fileVars, runs, userEdits>>

\* The confirmation must end alike and reach the new points.
Confirmed(o) == o.verdict = outcome.verdict /\ new \subseteq o.hits

Confirm ==
  /\ phase = "judge" /\ MayConfirm
  /\ \E o \in harness[input] :
       IF Confirmed(o)
       THEN /\ phase' = "reduce"
            /\ best' = input
            /\ trials' = 0
            /\ UNCHANGED cases
       ELSE /\ Keep
            /\ UNCHANGED <<best, trials>>
  /\ UNCHANGED <<mode, harness, elapsed, input, outcome, new, seen, kept, fileVars, runs, userEdits>>

\* The points that the case is kept for are not asked of a reduction.
Accepted_bug(o) == o.verdict = outcome.verdict

Accepted(o) ==
  /\ o.verdict = outcome.verdict
  /\ outcome.verdict # "passed" \/ new \subseteq o.hits

MayReduce == trials < Len(Reductions[input]) /\ trials < MaxTrials /\ elapsed # "late"

\* The candidates are those of the first input, whichever of them was accepted.
Reduce ==
  LET candidate == Reductions[input][trials + 1]
  IN
  /\ phase = "reduce" /\ MayReduce
  /\ \E o \in harness[candidate] : best' = IF Accepted(o) THEN candidate ELSE best
  /\ trials' = trials + 1
  /\ UNCHANGED <<mode, harness, phase, elapsed, input, outcome, new, seen, cases, kept, fileVars, runs, userEdits>>

Save ==
  /\ phase = "reduce" /\ ~MayReduce
  /\ kept' = Append(kept, [input |-> best, verdict |-> outcome.verdict, new |-> new])
  /\ Keep
  /\ UNCHANGED <<mode, harness, elapsed, input, outcome, new, seen, best, trials, fileVars, runs, userEdits>>

\* The inputs are exhausted, no input satisfies the constraints, or the time is over.
EndCampaign ==
  /\ phase = "draw"
  /\ phase' = "report"
  /\ UNCHANGED <<mode, harness, elapsed, input, outcome, new, seen, best, trials, cases, kept, fileVars, runs,
                 userEdits>>

-----------------------------------------------------------------------------
(* persist                                                                  *)

ReadSource ==
  /\ phase = "report"
  /\ original' = source
  /\ phase' = IF kept = <<>> THEN "over" ELSE "append"
  /\ UNCHANGED <<mode, harness, elapsed, input, outcome, new, seen, best, trials, cases, kept, source, snapshot,
                 runs, userEdits>>

\* Every discovery is appended.
Additions_bug == FoldLeft(LAMBDA s, d : Append(s, d.input), <<>>, kept)

\* A test is named by the identity of its input; one that is there is not added again.
Additions ==
  LET added[n \in 0 .. Len(kept)] ==
        IF n = 0 THEN <<>>
        ELSE IF Contains(original.tests \o added[n - 1], kept[n].input) THEN added[n - 1]
        ELSE Append(added[n - 1], kept[n].input)
  IN  added[Len(kept)]

\* The tests are appended only to the text that was compiled, if it is still there:
\* the last look at the file and its replacement are one step here.
AppendTests ==
  /\ phase = "append"
  /\ phase' = "over"
  /\ source' = IF original = snapshot /\ source = original
               THEN [source EXCEPT !.tests = @ \o Additions] ELSE source
  /\ UNCHANGED <<mode, harness, elapsed, input, outcome, new, seen, best, trials, cases, kept, snapshot, original,
                 runs, userEdits>>

-----------------------------------------------------------------------------
\* The user edits the file, and may remove tests that were appended.
EditTests ==
  /\ userEdits < MaxUserEdits
  /\ userEdits' = userEdits + 1
  /\ \E n \in 0 .. Len(source.tests) :
       source' = [edit |-> userEdits', tests |-> SubSeq(source.tests, 1, n)]
  /\ UNCHANGED <<mode, harness, loopVars, snapshot, original, runs>>

\* sev test once more: the file is compiled, with the tests in it.
RunAgain ==
  /\ phase = "over" /\ runs < MaxRuns
  /\ runs' = runs + 1
  /\ snapshot' = source
  /\ Fresh
  /\ UNCHANGED <<source, original, userEdits>>

CampaignNext ==
  \/ Elapse \/ InvokeCase \/ Pass \/ Confirm \/ Reduce \/ Save \/ EndCampaign
  \/ ReadSource \/ AppendTests \/ EditTests \/ RunAgain

CampaignSpec == CampaignInit /\ [][CampaignNext]_campaignVars

-----------------------------------------------------------------------------
Files == [edit : 0 .. MaxUserEdits, tests : Seq(Inputs)]

CaseRecords == [input : Inputs, outcome : Outcomes]
Discoveries == [input : Inputs, verdict : Verdicts, new : SUBSET Sites]

CampaignTypeOK ==
  /\ mode \in Modes
  /\ harness \in Harnesses
  /\ phase \in {"draw", "judge", "reduce", "report", "append", "over"}
  /\ elapsed \in {"within", "past", "late"}
  /\ input \in Inputs /\ best \in Inputs
  /\ outcome \in Outcomes
  /\ new \subseteq seen /\ seen \subseteq Sites
  /\ trials \in 0 .. MaxTrials
  /\ cases \in Seq(CaseRecords)
  /\ kept \in Seq(Discoveries)
  /\ source \in Files /\ snapshot \in Files /\ original \in Files
  /\ runs \in 1 .. MaxRuns
  /\ userEdits \in 0 .. MaxUserEdits

(* A case kept for a failure or a difference fails or differs, and one kept *)
(* for coverage reaches the points it is kept for, although it is another   *)
(* input than the one that was found.                                       *)
KeptReproduces ==
  \A k \in DOMAIN kept :
    \E o \in harness[kept[k].input] :
      /\ o.verdict = kept[k].verdict
      /\ kept[k].verdict = "passed" => kept[k].new \subseteq o.hits

Deterministic == \A i \in Inputs, o, p \in Outcomes : o \in harness[i] /\ p \in harness[i] => o = p

(* With a harness that always answers alike, a campaign with time left      *)
(* loses nothing: whatever a recorded case reached, or how it failed, a     *)
(* kept case has reached or shown, although the points of a case count as   *)
(* seen before it is confirmed.                                             *)
NothingIsLost ==
  mode = "fuzz" /\ Deterministic /\ elapsed # "late" =>
    \A k \in DOMAIN cases :
      /\ \A p \in cases[k].outcome.hits : \E j \in DOMAIN kept : p \in kept[j].new
      /\ cases[k].outcome.verdict # "passed" => \E j \in DOMAIN kept : kept[j].verdict = cases[k].outcome.verdict

(* A regression test is in the file once, whatever campaigns find it again, *)
(* and however the user edits the file meanwhile.                           *)
AppendedOnce == IsInjective(source.tests)
=============================================================================
