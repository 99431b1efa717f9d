------------------------------ MODULE MCTooling -----------------------------
(***************************************************************************)
(* The commands of the package tool on small instances: sev run, sev test  *)
(* --fuzz, a campaign, an instrumented program that counts its hits, and   *)
(* the inputs that a campaign generates.                                   *)
(* They share no state that matters here; subject says which of them this  *)
(* behaviour is about, and the others stay as they begin.                  *)
(*                                                                         *)
(* Runner: fuzz tests f1 and f2 with one origin, a skipped test k for a    *)
(* worker, and a serial test s that is repeated.                           *)
(*                                                                         *)
(* Campaign: the input 3 is reduced to 2 and to 1, 2 to 1.  Two harnesses  *)
(* are deterministic; one is not and times out, one is not and differs.    *)
(*                                                                         *)
(* Counters: four slots, of which 1, 4 and 7 want the same; with 2 there   *)
(* are more identities than slots.                                         *)
(*                                                                         *)
(* Inputs: an integer is two units; f16 has fewer values than f32 and, far *)
(* from zero, than the integers.  Guards are up to three comparisons of    *)
(* two or three numbers, or of a list with a number.                       *)
(***************************************************************************)
EXTENDS Executable, TestRunner, Campaign, HitCounters, Domains, TLC

CONSTANT Subjects    \* a set of "run", "test", "campaign", "count" and "inputs"

VARIABLE subject

MCListed == <<"f1", "k", "s", "f2">>
MCGenerated == [t \in {"f1", "f2"} |-> "o"]
MCRepeats == "s" :> 2 @@ [t \in {"f1", "f2", "k"} |-> 1]

Ends(verdict, hits) == [verdict |-> verdict, hits |-> hits]
MCReductions == 1 :> <<>> @@ 2 :> <<1>> @@ 3 :> <<2, 1>>
MCHarnesses == {
  1 :> {Ends("passed", {"p"})} @@ 2 :> {Ends("passed", {"p", "q"})} @@ 3 :> {Ends("failed", {"q"})},
  1 :> {Ends("passed", {"p"})} @@ 2 :> {Ends("failed", {"q"})} @@ 3 :> {Ends("failed", {"p", "q"})},
  1 :> {Ends("passed", {"q"})} @@ 2 :> {Ends("passed", {"p"}), Ends("timeout", {"p"})}
       @@ 3 :> {Ends("passed", {"p", "q"}), Ends("passed", {"q"})},
  1 :> {Ends("passed", {"p"})} @@ 2 :> {Ends("differs", {"p"})}
       @@ 3 :> {Ends("differs", {"q"}), Ends("passed", {"q"})}}

MCIntegral == "int" :> [lower |-> -2, upper |-> 8] @@ "bool" :> [lower |-> 0, upper |-> 2]
Signed(S) == S \cup {-g : g \in S}
MCGrid == "f16" :> Signed({0, 1, 2, 4, 8}) @@ "f32" :> Signed({0, 1, 2, 4, 6, 8})
MCWidth == "f16" :> 16 @@ "f32" :> 32

Single(type) == [type |-> type, list |-> FALSE]
Many(type) == [type |-> type, list |-> TRUE]
MCSignatures ==
  {<<Single("int"), Single("f16"), Single("f32")>>, <<Single("int"), Single("f16")>>, <<Single("bool"), Single("int")>>,
   <<Many("int"), Single("int")>>}

At(q) == [place |-> Scalar(q)]
Size(q) == [place |-> Length(q)]
Each(q) == [place |-> Item(q)]
C(n) == [constant |-> n]
Compare(l, op, r) == [left |-> l, op |-> op, right |-> r, over |-> None]
All(q, l, op, r) == [left |-> l, op |-> op, right |-> r, over |-> q]

TwoNumbers ==
  {Compare(At(1), "==", At(2)), Compare(At(1), "<", At(2)), Compare(At(1), ">=", C(3)), Compare(C(3), ">", At(2)),
   [either |-> {Compare(At(1), "==", At(2)), Compare(At(1), "<", C(0))}]}
ThreeNumbers ==
  {Compare(At(1), "==", At(2)), Compare(At(2), ">", At(1)), Compare(C(3), ">", At(2)), Compare(At(2), "<=", At(3)),
   Compare(At(2), "==", At(3)), Compare(At(3), "<", At(1))}
ListAndNumber ==
  {Compare(Size(1), "<", At(2)), Compare(Size(1), ">", C(0)), Compare(C(4), ">", At(2)), Compare(At(2), "!=", C(2)),
   All(1, At(2), "<=", Each(1)), All(1, Each(1), ">", C(1)), All(1, Each(1), "==", At(2))}

MCGuards ==
  [s \in Signatures |->
     LET comparisons == CASE s[1].list -> ListAndNumber [] Len(s) = 3 -> ThreeNumbers [] OTHER -> TwoNumbers
     IN  UNION {[1 .. n -> comparisons] : n \in 1 .. MaxComparisons}]

MCDrawn == [s \in Signatures |-> IF s = <<Single("int"), Single("f16")>> THEN 3 ELSE 1]

toolingVars == <<subject, executableVars, runnerVars, campaignVars, countersVars, domainsVars>>

ToolingInit ==
  /\ subject \in Subjects
  /\ ExecutableInit /\ TestRunnerInit /\ CampaignInit /\ CountersInit /\ DomainsInit
  /\ subject # "run" => habit = CHOOSE h \in Habits : TRUE
  /\ subject # "inputs" => shape = CHOOSE s \in Signatures : TRUE
  /\ subject # "campaign" => mode = "fuzz" /\ harness = CHOOSE h \in Harnesses : TRUE

ToolingNext ==
  /\ UNCHANGED subject
  /\ \/ subject = "run" /\ ExecutableNext /\ UNCHANGED <<runnerVars, campaignVars, countersVars, domainsVars>>
     \/ subject = "test" /\ TestRunnerNext /\ UNCHANGED <<executableVars, campaignVars, countersVars, domainsVars>>
     \/ subject = "campaign" /\ CampaignNext /\ UNCHANGED <<executableVars, runnerVars, countersVars, domainsVars>>
     \/ subject = "count" /\ CountersNext /\ UNCHANGED <<executableVars, runnerVars, campaignVars, domainsVars>>
     \/ subject = "inputs" /\ DomainsNext /\ UNCHANGED <<executableVars, runnerVars, campaignVars, countersVars>>

ToolingSpec == ToolingInit /\ [][ToolingNext]_toolingVars

\* Neither runners nor threads are told apart, and no property is temporal.
ToolingSymmetry == Permutations(Runners) \cup Permutations(Hitters)

(* Each of the five keeps its variables in their types.                     *)
ToolingTypeOK ==
  CASE subject = "run" -> ExecutableTypeOK
    [] subject = "test" -> TestRunnerTypeOK
    [] subject = "campaign" -> CampaignTypeOK
    [] subject = "count" -> CountersTypeOK
    [] subject = "inputs" -> DomainsTypeOK
=============================================================================
