----------------------------- MODULE MCPackages -----------------------------
(***************************************************************************)
(* Packages on small instances: a registry, and the output directory of a  *)
(* package; subject says which of them a behaviour is about.               *)
(*                                                                         *)
(* Registry: p1 and p2 race to publish version 1 from different sources,   *)
(* p3 is the source of p1 built for another target, p4 publishes version   *)
(* 2.  The root r1, which b1 builds, depends on any version.               *)
(*                                                                         *)
(* Output directory: u runs a program that depends on the package; d, k    *)
(* and t run sev build, sev check and sev test in the package itself, one  *)
(* after the other, or a test at any moment beside u.                      *)
(***************************************************************************)
EXTENDS Registry, Build, TLC

CONSTANTS Subjects, p1, p2, p3, p4, b1, r1, s1, s2, x, y, u, d, k, t

VARIABLE subject    \* "registry" or "builds"

Entry(v, s, c) == [version |-> v, source |-> s, config |-> c]
MCRelease == p1 :> Entry(1, s1, x) @@ p2 :> Entry(1, s2, x) @@ p3 :> Entry(1, s1, y) @@ p4 :> Entry(2, s2, x)
MCRootOf == b1 :> r1
AnyVersion == [r \in Roots |-> Versions]

AllGoals == u :> "use" @@ d :> "build" @@ k :> "check" @@ t :> "test"
OneAtATime == [given |-> Commands, serial |-> Commands]
BesideTest == [given |-> {u, t}, serial |-> {u}]
TwoUsages == {OneAtATime, BesideTest}
AnyTime == {[given |-> Commands, serial |-> {}]}
MCGoal == [q \in Commands |-> AllGoals[q]]

PackagesInit ==
  /\ subject \in Subjects
  /\ Init /\ BuildInit
  /\ subject = "registry" => usage = CHOOSE g \in Usages : TRUE

PackagesNext ==
  /\ UNCHANGED subject
  /\ \/ subject = "registry" /\ Next /\ UNCHANGED buildVars
     \/ subject = "builds" /\ BuildNext /\ UNCHANGED vars

PackagesSpec == PackagesInit /\ [][PackagesNext]_<<subject, vars, buildVars>>

\* The fairness of FairSpec.
PackagesFair ==
  /\ PackagesSpec
  /\ \A p \in Publishers : /\ WF_vars(subject = "registry" /\ Publish(p))
                           /\ WF_vars(subject = "registry" /\ Again(p))
  /\ \A b \in Builds : WF_vars(subject = "registry" /\ Build(b))

(* PublishersEnd for the behaviours about a registry.                       *)
EveryPublisherEnds == subject = "registry" => PublishersEnd
=============================================================================
