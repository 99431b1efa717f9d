---------------------------- MODULE MCOwnership -----------------------------
(***************************************************************************)
(* Ownership as the checker follows it through a text, as the compiler     *)
(* verifies it of a body, and as the program counts it: subject says       *)
(* whether this behaviour is about a text that is checked, a body that is  *)
(* verified and executed, or a shared reference.                           *)
(***************************************************************************)
EXTENDS OwnershipFlow, Lifetimes, Shared, TLC

CONSTANT Subjects    \* a set of "flow", "lifetimes" and "shared"

VARIABLE subject

(* Bodies of an entry and two blocks, on every graph in which the entry has *)
(* a successor: joins, loops, irreducible loops, blocks never reached.      *)
Event(kind, owner) == [kind |-> kind, owner |-> owner, slot |-> "first", sources |-> {}]
Borrow(kind, owner, slot, source) == [kind |-> kind, owner |-> owner, slot |-> slot, sources |-> {source}]

ThreeBlocks == 0 .. 2
Graphs == {t \in [ThreeBlocks -> {T \in SUBSET ThreeBlocks : Cardinality(T) <= 2}] : t[0] \in {{1}, {1, 2}}}

Family(entries, others) ==
  {[code |-> (0 :> e @@ 1 :> c @@ 2 :> d), targets |-> t] : e \in entries, c \in others, d \in others, t \in Graphs}

\* A value defined, used and consumed; a binding read, moved and initialized
\* again; a borrow of x by y that is copied, ended and kept by a weak update.
SmallBodies ==
  Family({<<>>, <<Event("define", "x")>>},
         {<<>>, <<Event("use", "x")>>, <<Event("use", "x"), Event("consume", "x")>>, <<Event("define", "x")>>})
  \cup
  Family({<<Event("declare", "x")>>},
         {<<>>, <<Event("read", "x")>>, <<Event("move", "x")>>, <<Event("initialize", "x")>>})
  \cup
  Family({<<Borrow("retain", "y", "first", "x")>>},
         {<<Event("check", "x")>>, <<Event("end", "y")>>,
          <<Borrow("retain", "y", "*", "x")>>, <<Borrow("copy", "z", "first", "y")>>})

\* Atomic shares that tasks copy, and plain ones that they only read.
SoundUsages == {[atomic |-> TRUE, copies |-> TRUE], [atomic |-> FALSE, copies |-> FALSE]}
PlainCopied == {[atomic |-> FALSE, copies |-> TRUE]}

\* Programs that never give a name back inside a block what was moved from it
\* outside, nor bind again a view through which something is borrowed, and
\* programs that do the first, in a loop.
Straight == {[retakes |-> FALSE, revives |-> FALSE, rehandles |-> FALSE]}
Revivers == {[retakes |-> FALSE, revives |-> TRUE, rehandles |-> FALSE]}

\* Bindings are interchangeable: a text takes the first that is not visible.
FirstNames == {1 .. n : n \in 0 .. Cardinality(Bindings)}

\* What the part that a behaviour is not about keeps to.
SomeBody == CHOOSE d \in Bodies : TRUE
SomeUsage == CHOOSE u \in Usages : TRUE

ownershipVars == <<subject, flowVars, lifetimesVars, sharedVars>>

OwnershipInit ==
  /\ subject \in Subjects
  /\ FlowInit /\ LifetimesInit /\ SharedInit
  /\ subject # "lifetimes" => body = SomeBody
  /\ subject # "shared" => usage = SomeUsage

OwnershipNext ==
  /\ UNCHANGED subject
  /\ \/ subject = "flow" /\ FlowNext /\ Visible(env') \in FirstNames /\ UNCHANGED <<lifetimesVars, sharedVars>>
     \/ subject = "lifetimes" /\ LifetimesNext /\ UNCHANGED <<flowVars, sharedVars>>
     \/ subject = "shared" /\ SharedNext /\ UNCHANGED <<flowVars, lifetimesVars>>

OwnershipSpec == OwnershipInit /\ [][OwnershipNext]_ownershipVars

\* The compiler goes on.
OwnershipFair == OwnershipSpec /\ WF_lifetimesVars(subject = "lifetimes" /\ Verify)

(* A body that is verified is accepted or rejected.                         *)
BodiesDecided == subject = "lifetimes" => Decides
=============================================================================
