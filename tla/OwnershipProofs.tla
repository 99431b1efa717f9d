--------------------------- MODULE OwnershipProofs ---------------------------
(****************************************************************************)
(* Theorems of Lifetimes, for every set of bodies over every set of blocks  *)
(* and names (the graphs are arbitrary, and so is their number of blocks),  *)
(* and of Shared, for any number of tasks and references: the count of an   *)
(* atomic share, and that of a plain one whose tasks return no copies, is   *)
(* the number of references.                                                *)
(****************************************************************************)
EXTENDS Lifetimes, Shared, FiniteSetTheorems, TLAPS

-----------------------------------------------------------------------------
(* Lifetimes                                                                *)

LEMMA EventTyped ==
  ASSUME BodyOK, NEW b \in Blocks
  PROVE  /\ Code(b) \in Seq(Events)
         /\ Len(Code(b)) \in Nat /\ DOMAIN Code(b) = 1 .. Len(Code(b))
         /\ \A i \in DOMAIN Code(b) : Code(b)[i] \in Events
BY LifetimesAssumption DEF BodyOK, Code

\* Facts of an analysis stay facts of it.
LEMMA AfterTyped ==
  ASSUME NEW a \in Analyses, NEW e \in Events, NEW S \in SUBSET FactsOf(a)
  PROVE  After(a, e, S) \in SUBSET FactsOf(a)
<1>1. CASE a = "values" BY <1>1 DEF After, AfterValue, FactsOf, ValueFacts, Events
<1>2. CASE a = "bindings" BY <1>2 DEF After, AfterBinding, FactsOf, BindingFacts, Events
<1>3. CASE a = "retained"
  <2>1. S \subseteq RetainedFacts /\ After(a, e, S) = AfterRetained(e, S) BY <1>3 DEF FactsOf, After
  <2>2. Retained(e) \subseteq RetainedFacts BY DEF Retained, RetainedFacts, Events
  <2>3. \A g \in S : Held(e.owner, g[2], g[3]) \in RetainedFacts
    BY <2>1 DEF RetainedFacts, Held, Events
  <2>4. AfterRetained(e, S) \subseteq RetainedFacts
    BY <2>1, <2>2, <2>3 DEF AfterRetained, OfKey, OfOwner
  <2> QED BY <1>3, <2>1, <2>4 DEF FactsOf
<1> QED BY <1>1, <1>2, <1>3 DEF Analyses

\* More facts before an event leave more facts after it.
LEMMA AfterMonotone ==
  ASSUME NEW a \in Analyses, NEW e, NEW S, NEW T, S \subseteq T
  PROVE  After(a, e, S) \subseteq After(a, e, T)
<1>1. CASE a = "values" BY <1>1 DEF After, AfterValue
<1>2. CASE a = "bindings" BY <1>2 DEF After, AfterBinding
<1>3. CASE a = "retained" BY <1>3 DEF After, AfterRetained, OfKey, OfOwner
<1> QED BY <1>1, <1>2, <1>3 DEF Analyses

\* An event that is at fault with fewer facts is at fault with more.
LEMMA FaultyMonotone ==
  ASSUME NEW a \in Analyses, NEW e, NEW S, NEW T, S \subseteq T, Faulty(a, e, S)
  PROVE  Faulty(a, e, T)
<1>1. CASE a = "values" BY <1>1 DEF Faulty
<1>2. CASE a = "bindings" BY <1>2 DEF Faulty
<1>3. CASE a = "retained" BY <1>3 DEF Faulty
<1> QED BY <1>1, <1>2, <1>3 DEF Analyses

LEMMA BoundaryTyped == \A a \in Analyses : Boundary(a) \subseteq FactsOf(a)
BY DEF Analyses, Boundary, FactsOf, BindingFacts

LEMMA MergeTyped ==
  ASSUME LifetimesTypeOK, phase \in Analyses, NEW b \in Blocks
  PROVE  Merge(phase, b) \subseteq FactsOf(phase)
<1>1. \A p \in Blocks : outgoing[p] \subseteq FactsOf(phase) BY DEF LifetimesTypeOK
<1>2. Boundary(phase) \subseteq FactsOf(phase) BY BoundaryTyped
<1>3. \A p \in Predecessors(b) \cap known[phase] : outgoing[p] \subseteq FactsOf(phase)
  BY <1>1 DEF Predecessors
<1>4. UNION {outgoing[p] : p \in Predecessors(b) \cap known[phase]} \subseteq FactsOf(phase) BY ONLY <1>3
<1> QED BY <1>2, <1>4 DEF Merge

-----------------------------------------------------------------------------
LEMMA InitIndInv == LifetimesInit => LifetimesIndInv
<1> SUFFICES ASSUME LifetimesInit PROVE LifetimesIndInv OBVIOUS
<1> USE LifetimesAssumption DEF LifetimesInit
<1>1. BodyOK BY DEF BodyOK
<1>2. LifetimesTypeOK
  <2>1. body.targets \in [Blocks -> SUBSET Blocks] OBVIOUS
  <2>2. Len(Code(0)) \in Nat BY <1>1, EventTyped
  <2>3. \A a \in Analyses : before[a] \in [Blocks -> Seq(SUBSET FactsOf(a))] OBVIOUS
  <2>4. \A a \in Analyses : actual[a] \subseteq FactsOf(a) BY BoundaryTyped
  <2>5. phase \notin Analyses BY DEF Analyses
  <2> QED BY <2>1, <2>2, <2>3, <2>4, <2>5 DEF LifetimesTypeOK
<1>3. GraphOK BY DEF GraphOK, Analyses
<1>4. SolverOK BY DEF SolverOK, Done, Analyses
<1>5. PathOK BY DEF PathOK
<1> QED BY <1>1, <1>2, <1>3, <1>4, <1>5 DEF LifetimesIndInv

-----------------------------------------------------------------------------
LEMMA BodyStays == LifetimesIndInv /\ [LifetimesNext]_lifetimesVars => body' = body /\ BodyOK'
BY DEF LifetimesIndInv, BodyOK, LifetimesNext, Verify, FindReachable, RejectTwice, FindDominators, DominatorsFound,
       Take, Transfer, Propagate, CheckValues, CheckRetained, CheckBindings, Operate, Branch,
       lifetimesVars, graphVars, solverVars, pathVars

\* The block that transfer goes through.
LEMMA CursorTyped ==
  ASSUME LifetimesIndInv, phase \in Analyses, cursor # None
  PROVE  /\ cursor \in reachable /\ cursor \in Blocks
         /\ before[phase][cursor] \in Seq(SUBSET FactsOf(phase))
         /\ Len(before[phase][cursor]) \in 1 .. Len(Code(cursor)) + 1
         /\ Len(Code(cursor)) \in Nat
<1>1. Working(phase) BY DEF LifetimesIndInv, SolverOK
<1>2. cursor \in reachable /\ Len(before[phase][cursor]) \in 1 .. Len(Code(cursor)) + 1
  BY <1>1 DEF Working, Queued
<1>3. cursor \in Blocks /\ before[phase][cursor] \in Seq(SUBSET FactsOf(phase))
  BY <1>2 DEF LifetimesIndInv, LifetimesTypeOK
<1>4. Len(Code(cursor)) \in Nat BY <1>3, EventTyped DEF LifetimesIndInv
<1> QED BY <1>2, <1>3, <1>4

LEMMA TypeOfGraph ==
  ASSUME LifetimesIndInv, FindReachable \/ RejectTwice \/ FindDominators
  PROVE  LifetimesTypeOK'
<1> USE DEF LifetimesIndInv, LifetimesTypeOK, solverVars, pathVars, graphVars, Code
<1>1. CASE FindReachable
  <2>1. Reached \subseteq Blocks BY DEF Reached
  <2>2. dominators' \in [Blocks -> SUBSET Blocks] BY <1>1, LifetimesAssumption DEF FindReachable
  <2>3. reachable' \subseteq Blocks /\ reachable \subseteq reachable' BY <1>1, <2>1 DEF FindReachable, Reached
  <2>4. phase' \in {"reach", "dominators"} BY <1>1 DEF FindReachable
  <2>5. UNCHANGED <<body, solverVars, pathVars>> BY <1>1 DEF FindReachable
  <2> QED BY <2>2, <2>3, <2>4, <2>5 DEF Analyses
<1>2. CASE RejectTwice BY <1>2 DEF RejectTwice, Analyses
<1>3. CASE FindDominators
  <2>1. \A b \in Blocks : Dominating(b) \subseteq Blocks BY DEF Dominating
  <2>2. dominators' \in [Blocks -> SUBSET Blocks] BY <1>3, <2>1 DEF FindDominators
  <2> QED BY <1>3, <2>2 DEF FindDominators
<1> QED BY <1>1, <1>2, <1>3

\* The steps between two analyses leave the solutions alone.
LEMMA TypeOfCheck ==
  ASSUME LifetimesIndInv, DominatorsFound \/ CheckValues \/ CheckRetained \/ CheckBindings
  PROVE  LifetimesTypeOK'
<1> USE DEF LifetimesIndInv, LifetimesTypeOK, solverVars, pathVars, graphVars, Code
<1>1. ASSUME NEW a \in Analyses, Start(a), UNCHANGED <<body, graphVars, pathVars>> PROVE LifetimesTypeOK'
  BY <1>1, LifetimesAssumption DEF Start
<1>2. ASSUME phase' \notin Analyses, phase' \in {"accepted", "rejected"},
             UNCHANGED <<body, graphVars, solverVars, pathVars>>
      PROVE LifetimesTypeOK'
  BY <1>2
<1> QED BY <1>1, <1>2 DEF DominatorsFound, CheckValues, CheckRetained, CheckBindings, Analyses

LEMMA TypeOfTake ==
  ASSUME LifetimesIndInv, NEW b \in Blocks, Take(b)
  PROVE  LifetimesTypeOK'
<1> USE DEF LifetimesIndInv, LifetimesTypeOK, pathVars, graphVars, Code
<1>1. phase \in Analyses /\ Merge(phase, b) \in SUBSET FactsOf(phase) BY MergeTyped DEF Take
<1>2. before' = [before EXCEPT ![phase][b] = <<Merge(phase, b)>>] BY DEF Take
<1>3. <<Merge(phase, b)>> \in Seq(SUBSET FactsOf(phase)) BY <1>1
<1>4. DOMAIN before' = Analyses /\ \A a \in Analyses : before'[a] \in [Blocks -> Seq(SUBSET FactsOf(a))]
  BY <1>1, <1>2, <1>3
<1> QED BY <1>4 DEF Take

LEMMA TypeOfTransfer ==
  ASSUME LifetimesIndInv, Transfer
  PROVE  LifetimesTypeOK'
<1> USE DEF LifetimesIndInv, LifetimesTypeOK, pathVars, graphVars, Code
<1> DEFINE s == before[phase][cursor]
           S == After(phase, Code(cursor)[Len(s)], s[Len(s)])
<1>1. phase \in Analyses /\ cursor # None /\ ~Complete(phase, cursor) BY DEF Transfer
<1>2. cursor \in Blocks /\ s \in Seq(SUBSET FactsOf(phase)) /\ Len(s) \in 1 .. Len(Code(cursor)) + 1
      /\ Len(Code(cursor)) \in Nat
  BY <1>1, CursorTyped
<1>3. Len(s) \in 1 .. Len(Code(cursor)) BY <1>1, <1>2 DEF Complete
<1>4. Code(cursor)[Len(s)] \in Events BY <1>2, <1>3, EventTyped
<1>5. s[Len(s)] \in SUBSET FactsOf(phase) BY <1>2, <1>3
<1>6. S \in SUBSET FactsOf(phase) BY <1>1, <1>4, <1>5, AfterTyped
<1>7. before' = [before EXCEPT ![phase][cursor] = Append(s, S)] BY DEF Transfer
<1>8. Append(s, S) \in Seq(SUBSET FactsOf(phase)) BY <1>2, <1>6
<1>9. DOMAIN before' = Analyses /\ \A a \in Analyses : before'[a] \in [Blocks -> Seq(SUBSET FactsOf(a))]
  BY ONLY <1>1, <1>2, <1>7, <1>8, LifetimesTypeOK DEF LifetimesTypeOK
<1> QED BY <1>9 DEF Transfer

LEMMA TypeOfPropagate ==
  ASSUME LifetimesIndInv, Propagate
  PROVE  LifetimesTypeOK'
<1> USE DEF LifetimesIndInv, LifetimesTypeOK, pathVars, graphVars, Code
<1>1. phase \in Analyses /\ cursor # None /\ Complete(phase, cursor) BY DEF Propagate
<1>2. cursor \in Blocks /\ cursor \in reachable /\ before[phase][cursor] \in Seq(SUBSET FactsOf(phase))
      /\ Len(Code(cursor)) \in Nat
  BY <1>1, CursorTyped
<1>3. Output(phase, cursor) \subseteq FactsOf(phase) BY <1>1, <1>2 DEF Complete, Output
<1> QED BY <1>1, <1>2, <1>3 DEF Propagate

LEMMA TypeOfPath ==
  ASSUME LifetimesIndInv, Operate \/ Branch
  PROVE  LifetimesTypeOK'
<1> USE DEF LifetimesIndInv, LifetimesTypeOK, solverVars, graphVars
<1>1. Code(at) \in Seq(Events) /\ Len(Code(at)) \in Nat /\ \A i \in DOMAIN Code(at) : Code(at)[i] \in Events
      /\ DOMAIN Code(at) = 1 .. Len(Code(at))
  BY EventTyped
<1>2. CASE Operate
  <2>1. Code(at)[next] \in Events /\ next \in 1 .. Len(Code(at)) BY <1>1, <1>2 DEF Operate
  <2>2. \A a \in Analyses : After(a, Code(at)[next], actual[a]) \in SUBSET FactsOf(a)
    BY <2>1, AfterTyped
  <2>3. DOMAIN actual' = Analyses /\ \A a \in Analyses : actual'[a] \subseteq FactsOf(a)
    BY <1>2, <2>2 DEF Operate
  <2>4. next' \in 1 .. Len(Code(at)') + 1 /\ at' = at BY <1>1, <1>2, <2>1 DEF Operate, Code
  <2>5. defined' \subseteq Names BY <1>2, <2>1 DEF Operate, Events
  <2> QED BY <1>2, <2>3, <2>4, <2>5 DEF Operate, Code
<1>3. CASE Branch
  <2>1. at' \in Blocks BY <1>3 DEF Branch
  <2>2. Len(Code(at)') \in Nat BY <1>3, <2>1, EventTyped DEF Branch, Code
  <2>3. next' \in 1 .. Len(Code(at)') + 1 BY <1>3, <2>2 DEF Branch
  <2>4. passed' \subseteq Blocks BY <1>3 DEF Branch
  <2>5. UNCHANGED <<body, phase, graphVars, solverVars, actual, defined>> BY <1>3 DEF Branch
  <2> QED BY <2>1, <2>3, <2>4, <2>5 DEF Code
<1> QED BY <1>2, <1>3

LEMMA TypePreserved == LifetimesIndInv /\ [LifetimesNext]_lifetimesVars => LifetimesTypeOK'
<1> SUFFICES ASSUME LifetimesIndInv, [LifetimesNext]_lifetimesVars PROVE LifetimesTypeOK' OBVIOUS
<1>1. CASE UNCHANGED lifetimesVars
  BY <1>1 DEF LifetimesIndInv, LifetimesTypeOK, lifetimesVars, graphVars, solverVars, pathVars, Code
<1> QED
  BY <1>1, TypeOfGraph, TypeOfCheck, TypeOfTake, TypeOfTransfer, TypeOfPropagate, TypeOfPath
  DEF LifetimesNext, Verify

-----------------------------------------------------------------------------
LEMMA GraphPreserved == LifetimesIndInv /\ [LifetimesNext]_lifetimesVars => GraphOK'
<1> SUFFICES ASSUME LifetimesIndInv, [LifetimesNext]_lifetimesVars PROVE GraphOK' OBVIOUS
<1> USE DEF LifetimesIndInv
<1>1. CASE FindReachable
  <2>1. CASE Reached # reachable BY <1>1, <2>1 DEF FindReachable, Reached, GraphOK, Analyses
  <2>2. CASE Reached = reachable
    <3>1. \A b \in reachable : body.targets[b] \subseteq reachable BY <2>2 DEF Reached
    <3>2. phase' = "dominators" /\ reachable' = reachable /\ dominators'[0] = {0} /\ body' = body
      BY <1>1, <2>2, LifetimesAssumption DEF FindReachable
    <3> QED BY <3>1, <3>2 DEF GraphOK, Analyses
  <2> QED BY <2>1, <2>2
<1>2. CASE RejectTwice BY <1>2 DEF RejectTwice, GraphOK, Analyses, graphVars
<1>3. CASE FindDominators
  <2>1. phase' = "dominators" /\ reachable' = reachable /\ body' = body /\ dominators'[0] = dominators[0]
    BY <1>3, LifetimesAssumption DEF FindDominators, LifetimesTypeOK
  <2> QED BY <1>3, <2>1 DEF FindDominators, GraphOK, Analyses
<1>4. ASSUME UNCHANGED <<body, reachable, dominators>>,
             phase' \in {"dominators", "accepted"} \cup Analyses => phase \in {"dominators", "accepted"} \cup Analyses,
             phase' \in Analyses \cup {"accepted"} =>
               \/ phase \in Analyses \cup {"accepted"}
               \/ \A b \in reachable \ {0} : Dominating(b) = dominators[b]
      PROVE GraphOK'
  <2>1. \A b : Dominating(b)' = Dominating(b) BY <1>4 DEF Dominating, Predecessors
  <2> QED BY <1>4, <2>1 DEF GraphOK
<1>5. CASE DominatorsFound BY <1>4, <1>5 DEF DominatorsFound, Start, graphVars, Analyses
<1>6. CASE CheckValues \/ CheckRetained \/ CheckBindings
  BY <1>4, <1>6 DEF CheckValues, CheckRetained, CheckBindings, Start, graphVars, Analyses
<1>7. CASE UNCHANGED <<body, phase, graphVars>> BY <1>4, <1>7 DEF graphVars
<1> QED BY <1>1, <1>2, <1>3, <1>5, <1>6, <1>7
        DEF LifetimesNext, Verify, Take, Transfer, Propagate, Operate, Branch, lifetimesVars

-----------------------------------------------------------------------------
\* What is known of an analysis does not change while another one runs.
LEMMA SolutionStays ==
  ASSUME NEW a \in Analyses, before'[a] = before[a], known'[a] = known[a], UNCHANGED <<body, graphVars>>
  PROVE  /\ Sound(a) => Sound(a)'
         /\ ~Rejects(a) => ~Rejects(a)'
<1>1. \A b : Code(b)' = Code(b) BY DEF Code
<1>2. \A b : (Complete(a, b) <=> Complete(a, b)') /\ (Chained(a, b) <=> Chained(a, b)') /\ Output(a, b)' = Output(a, b)
  BY <1>1 DEF Complete, Chained, Output
<1>3. Sound(a) => Sound(a)' BY <1>2 DEF Sound
<1>4. Declared' = Declared BY <1>1 DEF Declared
<1>5. \A e, S : Faulty(a, e, S)' <=> Faulty(a, e, S)
  <2>1. CASE a = "values" BY <2>1 DEF Faulty
  <2>2. CASE a = "bindings" BY <1>4, <2>2 DEF Faulty
  <2>3. CASE a = "retained" BY <2>3 DEF Faulty
  <2> QED BY <2>1, <2>2, <2>3 DEF Analyses
<1>6. Fails(a)' <=> Fails(a) BY <1>1, <1>5 DEF Fails
<1>7. Undominated' <=> Undominated BY <1>1 DEF Undominated, Dominated, Defines, graphVars
<1> QED BY <1>3, <1>6, <1>7 DEF Rejects

\* An empty work list leaves a solution.
LEMMA SolvedIsSound ==
  ASSUME LifetimesIndInv, phase \in Analyses, Solved
  PROVE  Sound(phase)
<1> USE DEF LifetimesIndInv
<1>1. Working(phase) /\ Queued = {} BY DEF SolverOK, Solved, Queued
<1>2. known[phase] \subseteq Blocks /\ cursor \notin Blocks
  <2>1. known[phase] \subseteq Blocks BY DEF LifetimesTypeOK
  <2>2. cursor = -1 /\ Blocks \subseteq Nat BY LifetimesAssumption DEF Solved, None
  <2> QED BY <2>1, <2>2
<1>3. 0 \in known[phase] BY <1>1 DEF Working
<1>4. \A b \in known[phase] :
         /\ Complete(phase, b) /\ Chained(phase, b) /\ Output(phase, b) = outgoing[b]
         /\ Merge(phase, b) \subseteq before[phase][b][1]
         /\ body.targets[b] \subseteq known[phase]
  BY <1>1, <1>2 DEF Working, Solved
<1>5. Boundary(phase) \subseteq Merge(phase, 0) BY DEF Merge
<1>6. \A b \in known[phase] : \A s \in body.targets[b] : outgoing[b] \subseteq Merge(phase, s)
  BY <1>2 DEF Merge, Predecessors
<1> QED BY <1>3, <1>4, <1>5, <1>6 DEF Sound

\* Where an analysis stands when no step of it changes it.
LEMMA OthersStay ==
  ASSUME LifetimesIndInv, NEW a \in Analyses, before'[a] = before[a], known'[a] = known[a],
         UNCHANGED <<body, graphVars>>, Todo(a)' => Todo(a), Done(a)' => Done(a)
  PROVE  (Todo(a)' => known'[a] = {}) /\ (Done(a)' => Sound(a)' /\ ~Rejects(a)')
BY SolutionStays DEF LifetimesIndInv, SolverOK

LEMMA SolverOfGraph ==
  ASSUME LifetimesIndInv, FindReachable \/ RejectTwice \/ FindDominators
  PROVE  SolverOK'
<1>1. phase' \notin Analyses /\ \A a \in Analyses : ~Done(a)'
  BY DEF FindReachable, RejectTwice, FindDominators, Done, Analyses
<1>2. \A a \in Analyses : known'[a] = {}
  BY DEF FindReachable, RejectTwice, FindDominators, LifetimesIndInv, SolverOK, Todo, solverVars
<1> QED BY <1>1, <1>2 DEF SolverOK

\* An analysis that begins has only the entry to look at.
LEMMA SolverOfStart ==
  ASSUME LifetimesIndInv, NEW a \in Analyses, Start(a), Todo(a), UNCHANGED graphVars
  PROVE  Working(a)'
<1>1. known'[a] = {} /\ pending' = {0} /\ cursor' = None BY DEF LifetimesIndInv, SolverOK, Start
<1>2. Queued' = {0} BY <1>1 DEF Queued
<1>3. 0 \in reachable' BY DEF LifetimesIndInv, GraphOK, graphVars
<1> QED BY <1>1, <1>2, <1>3 DEF Working

LEMMA SolverOfCheck ==
  ASSUME LifetimesIndInv, DominatorsFound \/ CheckValues \/ CheckRetained \/ CheckBindings
  PROVE  SolverOK'
<1> USE DEF LifetimesIndInv
<1>0. \A a \in Analyses : before'[a] = before[a] /\ known'[a] = known[a]
  BY DEF DominatorsFound, CheckValues, CheckRetained, CheckBindings, Start, solverVars
<1>00. UNCHANGED <<body, graphVars>> BY DEF DominatorsFound, CheckValues, CheckRetained, CheckBindings
<1>1. CASE DominatorsFound
  <2>1. phase = "dominators" /\ phase' = "values" /\ Start("values")
    BY <1>1 DEF DominatorsFound, Start
  <2>2. Working("values")' /\ \A a \in Analyses : Todo(a) /\ ~Done(a)'
    BY <1>00, <2>1, SolverOfStart DEF Todo, Done, Analyses
  <2> QED BY <1>0, <1>00, <2>1, <2>2, OthersStay DEF SolverOK
<1>2. CASE phase' = "rejected"
  BY <1>2 DEF SolverOK, Todo, Done, Analyses
<1>3. ASSUME NEW a \in Analyses, NEW b \in Analyses, phase = a, Solved, ~Rejects(a), Start(b),
             \/ a = "values" /\ b = "retained"
             \/ a = "retained" /\ b = "bindings"
      PROVE SolverOK'
  <2>1. Sound(a)' /\ ~Rejects(a)' BY <1>0, <1>00, <1>3, SolvedIsSound, SolutionStays
  <2>2. phase' = b BY <1>3 DEF Start
  <2>3. Todo(b) /\ ~Todo(a)' /\ ~Todo(b)' /\ ~Done(b)' BY <1>3, <2>2 DEF Todo, Done
  <2>4. Working(b)' BY <1>00, <1>3, <2>3, SolverOfStart
  <2>5. \A c \in Analyses : c # a /\ c # b => (Todo(c)' => Todo(c)) /\ (Done(c)' => Done(c))
    BY <1>3, <2>2 DEF Todo, Done, Analyses
  <2> QED BY <1>0, <1>00, <2>1, <2>2, <2>3, <2>4, <2>5, OthersStay DEF SolverOK
<1>4. CASE CheckValues /\ phase' # "rejected" BY <1>3, <1>4 DEF CheckValues, Analyses
<1>5. CASE CheckRetained /\ phase' # "rejected" BY <1>3, <1>5 DEF CheckRetained, Analyses
<1>6. CASE CheckBindings /\ phase' # "rejected"
  <2>1. phase = "bindings" /\ Solved /\ ~Rejects("bindings") /\ phase' = "accepted"
    BY <1>6 DEF CheckBindings
  <2>2. Sound("bindings")' /\ ~Rejects("bindings")'
    BY <1>0, <1>00, <2>1, SolvedIsSound, SolutionStays DEF Analyses
  <2>3. \A c \in Analyses : c # "bindings" => ~Todo(c)' /\ Done(c) BY <2>1 DEF Todo, Done, Analyses
  <2>4. ~Todo("bindings")' /\ phase' \notin Analyses BY <2>1 DEF Todo, Analyses
  <2> QED BY <1>0, <1>00, <2>1, <2>2, <2>3, <2>4, OthersStay DEF SolverOK
<1> QED BY <1>1, <1>2, <1>4, <1>5, <1>6

\* In the work list: only the analysis that runs changes.
LEMMA SolverOfStep ==
  ASSUME LifetimesIndInv, phase \in Analyses, phase' = phase, UNCHANGED <<body, graphVars>>,
         \A a \in Analyses \ {phase} : before'[a] = before[a] /\ known'[a] = known[a],
         Working(phase)'
  PROVE  SolverOK'
<1>1. \A a \in Analyses : (Todo(a)' => Todo(a)) /\ (Done(a)' => Done(a)) BY DEF Todo, Done
<1>2. ~Todo(phase)' /\ ~Done(phase)' BY DEF Todo, Done, Analyses
<1> QED BY <1>1, <1>2, OthersStay DEF SolverOK

LEMMA SolverOfTake ==
  ASSUME LifetimesIndInv, NEW a \in Analyses, phase = a, NEW b \in Blocks, Take(b)
  PROVE  SolverOK'
<1> USE DEF LifetimesIndInv
<1>1. cursor = None /\ b \in pending BY DEF Take
<1>2. Working(a) BY <1>1 DEF SolverOK
<1>3. phase' = a /\ cursor' = b /\ pending' = pending \ {b} /\ UNCHANGED <<body, graphVars, known, outgoing>>
      /\ before' = [before EXCEPT ![a][b] = <<Merge(a, b)>>]
  BY DEF Take
<1>4. b # None BY LifetimesAssumption DEF None
<1>5. Queued' = Queued BY <1>1, <1>3, <1>4 DEF Queued
<1>6. before'[a][b] = <<Merge(a, b)>> /\ (\A c \in Blocks \ {b} : before'[a][c] = before[a][c])
      /\ \A c \in Analyses \ {a} : before'[c] = before[c]
  BY <1>1, <1>3 DEF LifetimesTypeOK
<1>7. \A c : Code(c)' = Code(c) /\ Merge(a, c)' = Merge(a, c)
  BY <1>3 DEF Code, Merge, Predecessors, Boundary
<1>8. Len(Code(b)) \in Nat BY EventTyped
<1>9. Len(before'[a][b]) = 1 /\ before'[a][b][1] = Merge(a, b) BY <1>6
<1>10. Chained(a, b)'
  <2>1. 1 .. Len(before'[a][b]) - 1 = {} BY <1>9
  <2> QED BY <2>1 DEF Chained
<1>11. \A c \in known[a] \ {b} :
         /\ Complete(a, c)' /\ Chained(a, c)' /\ Output(a, c)' = outgoing'[c]
         /\ c \in pending' \/ Merge(a, c)' \subseteq before'[a][c][1]
  <2> SUFFICES ASSUME NEW c \in known[a] \ {b}
               PROVE  /\ Complete(a, c)' /\ Chained(a, c)' /\ Output(a, c)' = outgoing'[c]
                      /\ c \in pending' \/ Merge(a, c)' \subseteq before'[a][c][1]
    OBVIOUS
  <2>0. c \in Blocks BY DEF LifetimesTypeOK
  <2>1. c \in Blocks /\ c # None /\ before'[a][c] = before[a][c]
    BY <1>6, <2>0, LifetimesAssumption DEF None
  <2>2. /\ Complete(a, c) /\ Chained(a, c) /\ Output(a, c) = outgoing[c]
        /\ c \in pending \/ Merge(a, c) \subseteq before[a][c][1]
    BY <1>1, <1>2, <2>1 DEF Working
  <2>3. Complete(a, c)' /\ Chained(a, c)' /\ Output(a, c)' = Output(a, c)
    BY <1>3, <1>7, <2>1, <2>2 DEF Complete, Chained, Output
  <2> QED BY <1>3, <1>7, <2>1, <2>2, <2>3
<1>12. Working(a)'
  <2>1. 0 \in known'[a] \cup Queued' /\ Queued' \subseteq reachable'
        /\ \A c \in known'[a] : body'.targets[c] \subseteq known'[a] \cup Queued'
    BY <1>2, <1>3, <1>5 DEF Working, graphVars
  <2>2. Len(before'[a][b]) \in 1 .. Len(Code(b)') + 1 /\ before'[a][b][1] = Merge(a, b)'
    BY <1>7, <1>8, <1>9
  <2> QED BY ONLY <1>3, <1>10, <1>11, <2>1, <2>2 DEF Working
<1> QED BY <1>1, <1>3, <1>6, <1>12, SolverOfStep

LEMMA SolverOfTransfer ==
  ASSUME LifetimesIndInv, NEW a \in Analyses, phase = a, Transfer
  PROVE  SolverOK'
<1> USE DEF LifetimesIndInv
<1> DEFINE s == before[a][cursor]
           S == After(a, Code(cursor)[Len(s)], s[Len(s)])
<1>1. cursor # None /\ ~Complete(a, cursor) BY DEF Transfer
<1>2. Working(a) BY DEF SolverOK
<1>3. phase' = a /\ UNCHANGED <<body, graphVars, known, outgoing, pending, cursor>>
      /\ before' = [before EXCEPT ![a][cursor] = Append(s, S)]
  BY DEF Transfer
<1>4. cursor \in Blocks /\ s \in Seq(SUBSET FactsOf(a)) /\ Len(s) \in 1 .. Len(Code(cursor)) + 1
      /\ Len(Code(cursor)) \in Nat
  BY <1>1, CursorTyped
<1>5. Len(s) \in 1 .. Len(Code(cursor)) BY <1>1, <1>4 DEF Complete
<1>6. before'[a][cursor] = Append(s, S) /\ (\A c \in Blocks \ {cursor} : before'[a][c] = before[a][c])
      /\ \A c \in Analyses \ {a} : before'[c] = before[c]
  BY <1>3, <1>4 DEF LifetimesTypeOK
<1>7. \A c : Code(c)' = Code(c) /\ Merge(a, c)' = Merge(a, c)
  BY <1>3 DEF Code, Merge, Predecessors, Boundary
<1>8. S \in SUBSET FactsOf(a)
  <2>1. Code(cursor)[Len(s)] \in Events BY <1>4, <1>5, EventTyped
  <2>2. s[Len(s)] \in SUBSET FactsOf(a) BY <1>4, <1>5
  <2> QED BY <2>1, <2>2, AfterTyped
<1> HIDE DEF S
<1>9. /\ Len(before'[a][cursor]) = Len(s) + 1
      /\ before'[a][cursor][Len(s) + 1] = S
      /\ \A i \in 1 .. Len(s) : before'[a][cursor][i] = s[i]
  BY <1>4, <1>6, <1>8
<1>10. Chained(a, cursor)'
  <2>1. \A i \in 1 .. Len(s) - 1 : s[i + 1] = After(a, Code(cursor)[i], s[i])
    BY <1>1, <1>2 DEF Working, Chained
  <2>2. \A i \in 1 .. Len(s) : before'[a][cursor][i + 1] = After(a, Code(cursor)[i], before'[a][cursor][i])
    <3> SUFFICES ASSUME NEW i \in 1 .. Len(s)
                 PROVE before'[a][cursor][i + 1] = After(a, Code(cursor)[i], before'[a][cursor][i])
      OBVIOUS
    <3>1. CASE i = Len(s) BY <1>9, <3>1 DEF S
    <3>2. CASE i # Len(s)
      <4>1. i \in 1 .. Len(s) - 1 /\ i + 1 \in 1 .. Len(s) BY <1>4, <3>2
      <4> QED BY <1>9, <2>1, <4>1
    <3> QED BY <3>1, <3>2
  <2>3. Len(before'[a][cursor]) - 1 = Len(s) BY <1>4, <1>9
  <2> QED BY <1>3, <1>7, <2>2, <2>3 DEF Chained
<1>11. \A c \in known[a] \ {cursor} :
         /\ Complete(a, c)' /\ Chained(a, c)' /\ Output(a, c)' = outgoing'[c]
         /\ c \in pending' \/ Merge(a, c)' \subseteq before'[a][c][1]
  <2> SUFFICES ASSUME NEW c \in known[a] \ {cursor}
               PROVE  /\ Complete(a, c)' /\ Chained(a, c)' /\ Output(a, c)' = outgoing'[c]
                      /\ c \in pending' \/ Merge(a, c)' \subseteq before'[a][c][1]
    OBVIOUS
  <2>0. c \in Blocks BY DEF LifetimesTypeOK
  <2>1. before'[a][c] = before[a][c] BY <1>6, <2>0
  <2>2. /\ Complete(a, c) /\ Chained(a, c) /\ Output(a, c) = outgoing[c]
        /\ c \in pending \/ Merge(a, c) \subseteq before[a][c][1]
    BY <1>2 DEF Working
  <2>3. Complete(a, c)' /\ Chained(a, c)' /\ Output(a, c)' = Output(a, c)
    BY <1>3, <1>7, <2>1, <2>2 DEF Complete, Chained, Output
  <2> QED BY <1>3, <1>7, <2>1, <2>2, <2>3
<1>12. Working(a)'
  <2>1. 0 \in known'[a] \cup Queued' /\ Queued' \subseteq reachable'
        /\ \A c \in known'[a] : body'.targets[c] \subseteq known'[a] \cup Queued'
    BY <1>2, <1>3 DEF Working, Queued, graphVars
  <2>2. Len(before'[a][cursor]) \in 1 .. Len(Code(cursor)') + 1 BY <1>3, <1>4, <1>5, <1>7, <1>9
  <2>3. before[a][cursor][1] = Merge(a, cursor) BY <1>1, <1>2 DEF Working
  <2>4. before'[a][cursor][1] = Merge(a, cursor)' BY <1>3, <1>4, <1>7, <1>9, <2>3
  <2> QED BY ONLY <1>3, <1>10, <1>11, <2>1, <2>2, <2>4 DEF Working
<1> QED BY <1>3, <1>6, <1>12, SolverOfStep

LEMMA SolverOfPropagate ==
  ASSUME LifetimesIndInv, NEW a \in Analyses, phase = a, Propagate
  PROVE  SolverOK'
<1> USE DEF LifetimesIndInv
<1> DEFINE c == cursor
<1>1. c # None /\ Complete(a, c) BY DEF Propagate
<1>2. Working(a) BY DEF SolverOK
<1>3. c \in Blocks /\ c \in reachable BY <1>1, CursorTyped
<1>4. /\ known' = [known EXCEPT ![a] = @ \cup {c}]
      /\ outgoing' = [outgoing EXCEPT ![c] = Output(a, c)]
      /\ pending' = IF MustPropagate(a, c) THEN pending \cup body.targets[c] ELSE pending
      /\ cursor' = None /\ phase' = a /\ UNCHANGED <<body, graphVars, before>>
  BY DEF Propagate
<1>5. known'[a] = known[a] \cup {c} /\ \A b \in Analyses \ {a} : known'[b] = known[b]
  BY <1>4 DEF LifetimesTypeOK
<1>6. outgoing'[c] = Output(a, c) /\ \A b \in Blocks \ {c} : outgoing'[b] = outgoing[b]
  BY <1>3, <1>4 DEF LifetimesTypeOK
<1>7. pending \subseteq pending' BY <1>4
<1>8. Queued' = pending' /\ Queued = pending \cup {c} BY <1>1, <1>4 DEF Queued
<1>9. \A b : Code(b)' = Code(b) /\ Complete(a, b)' = Complete(a, b) /\ Output(a, b)' = Output(a, b)
             /\ (Chained(a, b) => Chained(a, b)')
  BY <1>4 DEF Code, Complete, Output, Chained
\* A block whose predecessors now give more is queued.
<1>10. ASSUME NEW b \in Blocks PROVE b \in pending' \/ Merge(a, b)' = Merge(a, b)
  <2>1. CASE ~MustPropagate(a, c)
    <3>1. c \in known[a] /\ Output(a, c) = outgoing[c] BY <2>1 DEF MustPropagate
    <3>2. known'[a] = known[a] /\ \A p \in Blocks : outgoing'[p] = outgoing[p] BY <1>5, <1>6, <3>1
    <3> QED BY <1>4, <3>2 DEF Merge, Predecessors, Boundary
  <2>2. CASE MustPropagate(a, c) /\ b \in body.targets[c] BY <1>4, <2>2
  <2>3. CASE b \notin body.targets[c]
    <3>1. Predecessors(b)' = Predecessors(b) /\ c \notin Predecessors(b) BY <1>4, <2>3 DEF Predecessors
    <3>2. Predecessors(b) \cap known'[a] = Predecessors(b) \cap known[a] BY <1>5, <3>1
    <3>3. \A p \in Predecessors(b) : outgoing'[p] = outgoing[p] BY <1>6, <3>1 DEF Predecessors
    <3> QED BY <3>1, <3>2, <3>3 DEF Merge, Boundary
  <2> QED BY <2>1, <2>2, <2>3
<1>11. \A b \in known'[a] :
         /\ Complete(a, b)' /\ Chained(a, b)' /\ Output(a, b)' = outgoing'[b]
         /\ b \in pending' \/ Merge(a, b)' \subseteq before'[a][b][1]
  <2> SUFFICES ASSUME NEW b \in known'[a]
               PROVE  /\ Complete(a, b)' /\ Chained(a, b)' /\ Output(a, b)' = outgoing'[b]
                      /\ b \in pending' \/ Merge(a, b)' \subseteq before'[a][b][1]
    OBVIOUS
  <2>0. b \in Blocks BY <1>3, <1>5 DEF LifetimesTypeOK
  <2>1. CASE b = c
    <3>1. Chained(a, c) /\ before[a][c][1] = Merge(a, c) BY <1>1, <1>2 DEF Working
    <3>2. before'[a][c][1] = before[a][c][1] BY <1>4
    <3> QED BY <1>1, <1>6, <1>9, <1>10, <2>0, <2>1, <3>1, <3>2
  <2>2. CASE b # c
    <3>1. /\ Complete(a, b) /\ Chained(a, b) /\ Output(a, b) = outgoing[b]
          /\ b \in pending \/ Merge(a, b) \subseteq before[a][b][1]
      BY <1>2, <1>5, <2>2 DEF Working
    <3>2. before'[a][b][1] = before[a][b][1] BY <1>4
    <3> QED BY <1>6, <1>7, <1>9, <1>10, <2>0, <2>2, <3>1, <3>2
  <2> QED BY <2>1, <2>2
<1>12. Working(a)'
  <2>1. 0 \in known'[a] \cup Queued' BY <1>2, <1>5, <1>7, <1>8 DEF Working
  <2>2. body.targets[c] \subseteq reachable BY <1>3 DEF GraphOK
  <2>3. Queued' \subseteq reachable' BY <1>2, <1>4, <1>8, <2>2 DEF Working, graphVars
  <2>4. \A b \in known'[a] : body'.targets[b] \subseteq known'[a] \cup Queued'
    <3> SUFFICES ASSUME NEW b \in known'[a] PROVE body.targets[b] \subseteq known'[a] \cup Queued' BY <1>4
    <3>1. CASE b \in known[a] BY <1>2, <1>5, <1>7, <1>8, <3>1 DEF Working
    <3>2. CASE b \notin known[a]
      <4>1. b = c /\ MustPropagate(a, c) BY <1>5, <3>2 DEF MustPropagate
      <4> QED BY <1>4, <1>8, <4>1
    <3> QED BY <3>1, <3>2
  <2> QED BY ONLY <1>4, <1>11, <2>1, <2>3, <2>4 DEF Working
<1> QED BY <1>4, <1>5, <1>12, SolverOfStep

LEMMA SolverPreserved == LifetimesIndInv /\ [LifetimesNext]_lifetimesVars => SolverOK'
<1> SUFFICES ASSUME LifetimesIndInv, [LifetimesNext]_lifetimesVars PROVE SolverOK' OBVIOUS
<1>1. CASE UNCHANGED <<body, phase, graphVars, solverVars>>
  <2>1. \A a \in Analyses : /\ before'[a] = before[a] /\ known'[a] = known[a]
                           /\ Todo(a)' = Todo(a) /\ Done(a)' = Done(a)
    BY <1>1 DEF Todo, Done, solverVars
  <2>2. UNCHANGED <<body, graphVars>> BY <1>1
  <2>3. \A a \in Analyses : (Todo(a)' => known'[a] = {}) /\ (Done(a)' => Sound(a)' /\ ~Rejects(a)')
    BY <2>1, <2>2, OthersStay
  <2>4. \A a \in Analyses : Working(a) => Working(a)'
    BY <1>1 DEF Working, Queued, Merge, Predecessors, Chained, Complete, Output, Code, Boundary, graphVars, solverVars
  <2> QED BY <1>1, <2>3, <2>4 DEF SolverOK, LifetimesIndInv
<1>2. ASSUME NEW b \in Blocks, Take(b) PROVE SolverOK' BY <1>2, SolverOfTake DEF Take
<1>3. CASE Transfer BY <1>3, SolverOfTransfer DEF Transfer
<1>4. CASE Propagate BY <1>4, SolverOfPropagate DEF Propagate
<1> QED BY <1>1, <1>2, <1>3, <1>4, SolverOfGraph, SolverOfCheck
        DEF LifetimesNext, Verify, Operate, Branch, lifetimesVars

-----------------------------------------------------------------------------
\* The facts of the path stay below those of the solution, over an event ...
LEMMA PathOfOperate ==
  ASSUME LifetimesIndInv, Operate
  PROVE  PathOK'
<1> USE DEF LifetimesIndInv
<1> DEFINE e == Code(at)[next]
<1>1. phase = "accepted" /\ next \in DOMAIN Code(at) /\ next' = next + 1 /\ at' = at /\ phase' = phase
      /\ actual' = [a \in Analyses |-> After(a, e, actual[a])]
      /\ defined' = (IF Defines(at, next) THEN defined \cup {e.owner} ELSE defined)
      /\ UNCHANGED <<body, graphVars, solverVars, passed>>
  BY DEF Operate
<1>2. DOMAIN Code(at) = 1 .. Len(Code(at)) /\ Len(Code(at)) \in Nat BY EventTyped DEF LifetimesTypeOK
<1>3. next \in 1 .. Len(Code(at)) BY <1>1, <1>2
<1>4. at \in reachable /\ dominators[at] \ {at} \subseteq passed BY <1>1 DEF PathOK
<1>5. \A a \in Analyses : at \in known[a] /\ actual'[a] \subseteq before[a][at][next + 1]
  <2> SUFFICES ASSUME NEW a \in Analyses
               PROVE at \in known[a] /\ actual'[a] \subseteq before[a][at][next + 1]
    OBVIOUS
  <2>1. at \in known[a] /\ actual[a] \subseteq before[a][at][next] BY <1>1 DEF PathOK
  <2>2. Complete(a, at) /\ Chained(a, at) BY <1>1, <2>1 DEF SolverOK, Done, Sound
  <2>3. before[a][at][next + 1] = After(a, e, before[a][at][next]) BY <1>2, <1>3, <2>2 DEF Complete, Chained
  <2>4. actual'[a] = After(a, e, actual[a]) BY <1>1
  <2>5. After(a, e, actual[a]) \subseteq After(a, e, before[a][at][next]) BY <2>1, AfterMonotone
  <2> QED BY <2>1, <2>3, <2>4, <2>5
<1>6. \A b, j : Code(b)' = Code(b) /\ Defines(b, j)' = Defines(b, j) BY <1>1 DEF Code, Defines
<1>7. \A d \in passed : \A j \in DOMAIN Code(d) : Defines(d, j) => Code(d)[j].owner \in defined'
  BY <1>1 DEF PathOK
<1>8. \A j \in 1 .. next : Defines(at, j) => Code(at)[j].owner \in defined'
  <2> SUFFICES ASSUME NEW j \in 1 .. next, Defines(at, j) PROVE Code(at)[j].owner \in defined'
    OBVIOUS
  <2>1. CASE j = next BY <1>1, <2>1
  <2>2. CASE j # next
    <3>1. j \in 1 .. next - 1 BY <1>3, <2>2
    <3> QED BY <1>1, <3>1 DEF PathOK
  <2> QED BY <2>1, <2>2
<1>9. next' - 1 = next BY <1>1, <1>3
<1>10. UNCHANGED <<reachable, dominators, before, known>> BY <1>1 DEF graphVars, solverVars
<1> QED BY ONLY <1>1, <1>4, <1>5, <1>6, <1>7, <1>8, <1>9, <1>10 DEF PathOK

\* ... and over an edge.
LEMMA PathOfBranch ==
  ASSUME LifetimesIndInv, Branch
  PROVE  PathOK'
<1> USE DEF LifetimesIndInv
<1>1. phase = "accepted" /\ next = Len(Code(at)) + 1 /\ at' \in body.targets[at] /\ next' = 1 /\ phase' = phase
      /\ passed' = passed \cup {at} /\ UNCHANGED <<body, graphVars, solverVars, actual, defined>>
  BY DEF Branch
<1>2. DOMAIN Code(at) = 1 .. Len(Code(at)) /\ Len(Code(at)) \in Nat BY EventTyped DEF LifetimesTypeOK
<1>3. UNCHANGED <<reachable, dominators, before, known>> BY <1>1 DEF graphVars, solverVars
<1>4. at \in reachable /\ at' \in reachable /\ at \in Blocks /\ at' \in Blocks
  BY <1>1 DEF PathOK, GraphOK, LifetimesTypeOK
<1>5. \A a \in Analyses : at' \in known[a] /\ actual[a] \subseteq before[a][at'][1]
  <2> SUFFICES ASSUME NEW a \in Analyses
               PROVE at' \in known[a] /\ actual[a] \subseteq before[a][at'][1]
    OBVIOUS
  <2>1. at \in known[a] /\ actual[a] \subseteq before[a][at][next] BY <1>1 DEF PathOK
  <2>2. Sound(a) BY <1>1 DEF SolverOK, Done
  <2>3. at' \in known[a] /\ Output(a, at) \subseteq before[a][at'][1] BY <1>1, <2>1, <2>2 DEF Sound
  <2> QED BY <1>1, <2>1, <2>3 DEF Output
<1>6. dominators[at'] \ {at'} \subseteq passed \cup {at}
  <2>1. dominators[at] \ {at} \subseteq passed BY <1>1 DEF PathOK
  <2>2. CASE at' = 0 BY <1>1, <2>2 DEF GraphOK
  <2>3. CASE at' # 0
    <3>1. Dominating(at') = dominators[at'] BY <1>1, <1>4, <2>3 DEF GraphOK
    <3>2. at \in Predecessors(at') \cap reachable BY <1>1, <1>4 DEF Predecessors
    <3>3. dominators[at'] \ {at'} \subseteq dominators[at] BY <3>1, <3>2 DEF Dominating
    <3> QED BY <2>1, <3>3
  <2> QED BY <2>2, <2>3
<1>7. \A b, j : Code(b)' = Code(b) /\ Defines(b, j)' = Defines(b, j) BY <1>1 DEF Code, Defines
<1>8. \A d \in passed' : \A j \in DOMAIN Code(d) : Defines(d, j) => Code(d)[j].owner \in defined'
  <2>1. \A j \in DOMAIN Code(at) : Defines(at, j) => Code(at)[j].owner \in defined BY <1>1, <1>2 DEF PathOK
  <2>2. \A d \in passed : \A j \in DOMAIN Code(d) : Defines(d, j) => Code(d)[j].owner \in defined
    BY <1>1 DEF PathOK
  <2> QED BY <1>1, <2>1, <2>2
<1>9. 1 .. next' - 1 = {} BY <1>1
<1> QED BY ONLY <1>1, <1>3, <1>4, <1>5, <1>6, <1>7, <1>8, <1>9 DEF PathOK

\* The last analysis accepts: the path begins at the boundary.
LEMMA PathOfCheck ==
  ASSUME LifetimesIndInv, CheckBindings
  PROVE  PathOK'
<1> USE DEF LifetimesIndInv
<1>1. phase = "bindings" /\ Solved /\ phase' # "bindings" /\ UNCHANGED <<body, graphVars, solverVars, pathVars>>
  BY DEF CheckBindings
<1>2. at = 0 /\ next = 1 /\ actual = [a \in Analyses |-> Boundary(a)] /\ defined = {} /\ passed = {}
  BY <1>1 DEF PathOK
<1>3. \A a \in Analyses : Sound(a)
  <2>1. Sound("bindings") BY <1>1, SolvedIsSound DEF Analyses
  <2>2. \A a \in Analyses : a # "bindings" => Done(a) BY <1>1 DEF Done, Analyses
  <2> QED BY <2>1, <2>2 DEF SolverOK
<1>4. \A a \in Analyses : 0 \in known[a] /\ Boundary(a) \subseteq before[a][0][1] BY <1>3 DEF Sound
<1>5. 0 \in reachable /\ dominators[0] = {0} BY <1>1 DEF GraphOK, Analyses
<1>6. UNCHANGED <<reachable, dominators, before, known, at, next, actual, defined, passed>>
  BY <1>1 DEF graphVars, solverVars, pathVars
<1>7. \A a \in Analyses : Boundary(a)' = Boundary(a) BY DEF Boundary
<1>8. 1 .. next' - 1 = {} BY <1>2, <1>6
<1> QED BY <1>2, <1>4, <1>5, <1>6, <1>7, <1>8 DEF PathOK

LEMMA PathPreserved == LifetimesIndInv /\ [LifetimesNext]_lifetimesVars => PathOK'
<1> SUFFICES ASSUME LifetimesIndInv, [LifetimesNext]_lifetimesVars PROVE PathOK' OBVIOUS
<1>1. CASE UNCHANGED lifetimesVars
  BY <1>1 DEF LifetimesIndInv, PathOK, Code, Defines, Boundary, lifetimesVars, graphVars, solverVars, pathVars
<1>2. ASSUME phase # "accepted", phase' # "accepted", UNCHANGED pathVars PROVE PathOK'
  BY <1>2 DEF LifetimesIndInv, PathOK, Boundary, pathVars
<1>3. CASE Verify /\ ~CheckBindings
  <2>1. phase # "accepted" /\ phase' # "accepted" /\ UNCHANGED pathVars
    BY <1>3 DEF Verify, FindReachable, RejectTwice, FindDominators, DominatorsFound, Start, Take, Transfer,
                Propagate, CheckValues, CheckRetained, Analyses
  <2> QED BY <1>2, <2>1
<1> QED BY <1>1, <1>3, PathOfOperate, PathOfBranch, PathOfCheck DEF LifetimesNext

-----------------------------------------------------------------------------
(* The solver keeps what it has solved for every edge behind it, and a path *)
(* through an accepted body stays within the solution.                      *)
THEOREM Invariance == LifetimesSpec => []LifetimesIndInv
<1>1. LifetimesIndInv /\ [LifetimesNext]_lifetimesVars => LifetimesIndInv'
  BY BodyStays, TypePreserved, GraphPreserved, SolverPreserved, PathPreserved DEF LifetimesIndInv
<1> QED BY InitIndInv, <1>1, PTL DEF LifetimesSpec

(* Type correctness: an output is only ever found for reachable blocks, and *)
(* consists of facts of the analysis it belongs to.                         *)
THEOREM TypeCorrect == LifetimesSpec => []LifetimesTypeOK
<1>1. LifetimesIndInv => LifetimesTypeOK BY DEF LifetimesIndInv
<1> QED BY Invariance, <1>1, PTL

(* Soundness of forward_dataflow with the analyses that use it: no path     *)
(* through an accepted body comes to an event that the facts of the path    *)
(* forbid, for every graph.                                                 *)
THEOREM Soundness == LifetimesSpec => []AcceptedIsSafe
<1>1. LifetimesIndInv => AcceptedIsSafe
  <2> SUFFICES ASSUME LifetimesIndInv, phase = "accepted", next \in DOMAIN Code(at), NEW a \in Analyses,
                      Faulty(a, Code(at)[next], actual[a])
               PROVE FALSE
    BY DEF AcceptedIsSafe
  <2>1. at \in known[a] /\ actual[a] \subseteq before[a][at][next] BY DEF LifetimesIndInv, PathOK
  <2>2. ~Rejects(a) BY DEF LifetimesIndInv, SolverOK, Done
  <2>3. Faulty(a, Code(at)[next], before[a][at][next]) BY <2>1, FaultyMonotone
  <2> QED BY <2>1, <2>2, <2>3 DEF Rejects, Fails
<1> QED BY Invariance, <1>1, PTL

(* The dominators are what Body.verify takes them for: what a dominating    *)
(* block defines has been computed on every path that comes to the use.     *)
THEOREM DefinedBeforeUse == LifetimesSpec => []UsesAreDefined
<1>1. LifetimesIndInv => UsesAreDefined
  <2> SUFFICES ASSUME LifetimesIndInv, phase = "accepted", next \in DOMAIN Code(at),
                      Code(at)[next].kind \in {"use", "consume"}
               PROVE Code(at)[next].owner \in defined
    BY DEF UsesAreDefined
  <2>1. ~Rejects("values") BY DEF LifetimesIndInv, SolverOK, Done, Analyses
  <2>2. at \in reachable BY DEF LifetimesIndInv, PathOK
  <2>3. Dominated(at, next) BY <2>1, <2>2 DEF Rejects, Undominated
  <2>4. CASE \E j \in 1 .. next - 1 : Defines(at, j) /\ Code(at)[j].owner = Code(at)[next].owner
    BY <2>4 DEF LifetimesIndInv, PathOK
  <2>5. CASE \E d \in dominators[at] \ {at} : \E j \in DOMAIN Code(d) :
               Defines(d, j) /\ Code(d)[j].owner = Code(at)[next].owner
    BY <2>5 DEF LifetimesIndInv, PathOK
  <2> QED BY <2>3, <2>4, <2>5 DEF Dominated
<1> QED BY Invariance, <1>1, PTL

-----------------------------------------------------------------------------
(* Shared                                                                   *)

LEMMA PlacesDiffer ==
  ASSUME NEW t \in Jobs, NEW u \in Jobs
  PROVE  /\ Argument(t) # Scope /\ Result(t) # Scope /\ Argument(t) # Result(u)
         /\ Argument(t) = Argument(u) => t = u
         /\ Result(t) = Result(u) => t = u
         /\ Argument(t) \in Places /\ Result(t) \in Places /\ Scope \in Places
BY DEF Argument, Result, Scope, Places

LEMMA LiveFinite == IsFiniteSet(Live) /\ Cardinality(Live) \in Nat
<1>1. Live \in SUBSET References BY DEF Live
<1>2. IsFiniteSet(Live) BY <1>1, FS_Subset, SharedAssumption
<1> QED BY <1>2, FS_CardinalityType

\* A reference that is put somewhere is one more.
LEMMA LiveGrows ==
  ASSUME SharedTypeOK, NEW r \in References \ Live, NEW p \in Places,
         place' = [place EXCEPT ![r] = p]
  PROVE  /\ place' \in [References -> Places \cup {Nowhere}]
         /\ Live' = Live \cup {r} /\ Cardinality(Live') = Cardinality(Live) + 1
         /\ \A q \in Places : At(q)' = IF q = p THEN At(q) \cup {r} ELSE At(q)
<1>1. place' \in [References -> Places \cup {Nowhere}] /\ place'[r] = p
  BY DEF SharedTypeOK
<1>2. \A s \in References : s # r => place'[s] = place[s] BY DEF SharedTypeOK
<1>3. Live' = Live \cup {r} BY <1>1, <1>2, NowhereAssumption DEF Live
<1>4. place[r] = Nowhere BY DEF Live
<1>5. \A q \in Places : At(q)' = IF q = p THEN At(q) \cup {r} ELSE At(q)
  BY <1>1, <1>2, <1>4, NowhereAssumption DEF At
<1> QED BY <1>1, <1>3, <1>5, LiveFinite, FS_AddElement DEF Live

\* A reference that is dropped is one less.
LEMMA LiveShrinks ==
  ASSUME NEW r \in Live, Live' = Live \ {r}
  PROVE  Cardinality(Live') = Cardinality(Live) - 1
BY LiveFinite, FS_RemoveElement

LEMMA LiveEmpty == Cardinality(Live) = 0 <=> Live = {}
BY LiveFinite, FS_EmptySet

-----------------------------------------------------------------------------
LEMMA SharedInitIndInv == SharedInit => SharedIndInv
<1> SUFFICES ASSUME SharedInit PROVE SharedIndInv OBVIOUS
<1> USE SharedAssumption DEF SharedInit
<1>1. SharedTypeOK
  <2>1. Idle \in Doings BY DEF Idle, Doings
  <2>2. doing \in [Activations -> Doings] BY <2>1
  <2>3. place \in [References -> Places \cup {Nowhere}] OBVIOUS
  <2>4. status \in [Activations -> {"new", "running", "ended"}] OBVIOUS
  <2>5. counter \in Memory /\ payload \in Memory BY DEF Memory
  <2>6. usage \in Usages /\ count \in Int BY ONLY SharedInit DEF SharedInit
  <2>7. joined \subseteq Jobs OBVIOUS
  <2>8. aborted \in BOOLEAN OBVIOUS
  <2> QED BY ONLY <2>2, <2>3, <2>4, <2>5, <2>6, <2>7, <2>8 DEF SharedTypeOK
<1>2. Live = {} BY DEF Live
<1>3. \A q \in Places : At(q) = {} BY NowhereAssumption DEF At
<1>4. OneCounts BY DEF OneCounts, Activations, Idle
<1>5. FramesOK BY <1>3, PlacesDiffer DEF FramesOK, Activations
<1>6. Without BY <1>2 DEF Without, Activations
<1> QED BY <1>1, <1>4, <1>5, <1>6 DEF SharedIndInv, Activations

-----------------------------------------------------------------------------
LEMMA DoingTyped ==
  /\ Idle \in Doings
  /\ \A n \in Int : Lowering(n) \in Doings
  /\ \A n \in Int, r \in References, p \in Places : Raising(n, r, p) \in Doings
  /\ Ending("destroy") \in Doings /\ Ending("free") \in Doings
BY DEF Idle, Lowering, Raising, Ending, Doings

\* Where a new reference may go: the scope, a new task, or the result of one that runs.
Reachable(p) ==
  \/ p = Scope
  \/ \E t \in Jobs : p = Argument(t) /\ status[t] = "new"
  \/ \E t \in Jobs : p = Result(t) /\ status[t] = "running" /\ t \notin joined

\* The last step of a retain, plain or atomic.
LEMMA ReferencedOK ==
  ASSUME SharedIndInv, NEW a, a \in Activations, NEW r, r \in References \ Live, NEW p,
         counter = "live", payload = "live", count = Cardinality(Live), count > 0,
         usage.atomic \/ a = Owner,
         doing[Owner].step = "none" \/ a = Owner,
         Reachable(p),
         ~aborted,
         count' = count + 1, Referenced(a, count, r, p),
         UNCHANGED <<usage, joined, counter, payload>>
  PROVE  SharedIndInv'
<1> USE SharedAssumption DEF SharedIndInv, Reachable
<1>1. doing' \in [Activations -> Doings] /\ doing'[Owner].step = "none" /\ \A t \in Jobs : doing'[t] = Idle
  <2>1. doing' = [doing EXCEPT ![a] = Idle] /\ doing \in [Activations -> Doings]
    BY DEF Referenced, SharedTypeOK
  <2>2. Idle \in Doings /\ Idle.step = "none" BY DoingTyped DEF Idle
  <2> QED BY <2>1, <2>2 DEF OneCounts, Activations
<1>2. OneCounts' BY <1>1 DEF OneCounts
<1>3. status[Owner] # "ended" BY DEF Without
<1>4. CASE Fits(count)
  <2>1. /\ place' = [place EXCEPT ![r] = p]
        /\ status' = [t \in Activations |-> IF p = Argument(t) THEN "running" ELSE status[t]]
        /\ aborted' = aborted
    BY <1>4 DEF Referenced
  <2> p \in Places BY PlacesDiffer DEF Places
  <2>2. /\ place' \in [References -> Places \cup {Nowhere}]
        /\ Live' = Live \cup {r} /\ Cardinality(Live') = Cardinality(Live) + 1
        /\ \A q \in Places : At(q)' = IF q = p THEN At(q) \cup {r} ELSE At(q)
    BY <2>1, LiveGrows
  <2>3. SharedTypeOK'
    BY <1>1, <2>1, <2>2 DEF SharedTypeOK
  <2>4. status'[Owner] # "new" /\ status'[Owner] # "ended"
    BY <2>1, <1>3 DEF FramesOK, Activations
  <2>5. \A t \in Jobs : status'[t] = "new" => At(Argument(t))' = {} /\ At(Result(t))' = {} /\ t \notin joined'
    <3> SUFFICES ASSUME NEW t \in Jobs, status'[t] = "new"
                 PROVE  At(Argument(t))' = {} /\ At(Result(t))' = {} /\ t \notin joined'
      OBVIOUS
    <3>1. p # Argument(t) /\ status[t] = "new" BY <2>1 DEF Activations
    <3>2. p # Result(t) BY <3>1, PlacesDiffer
    <3> QED BY <2>2, <3>1, <3>2, PlacesDiffer DEF FramesOK
  <2>6. \A t \in Jobs : status'[t] # "new" /\ t \notin joined' => \E s \in References : At(Argument(t))' = {s}
    <3> SUFFICES ASSUME NEW t \in Jobs, status'[t] # "new", t \notin joined'
                 PROVE  \E s \in References : At(Argument(t))' = {s}
      OBVIOUS
    <3>1. CASE p = Argument(t)
      <4>1. status[t] = "new" BY <3>1, PlacesDiffer
      <4>2. At(Argument(t)) = {} BY <4>1 DEF FramesOK
      <4> QED BY <2>2, <3>1, <4>2, PlacesDiffer
    <3>2. CASE p # Argument(t)
      <4>1. status[t] # "new" /\ t \notin joined BY <2>1, <3>2 DEF Activations
      <4> QED BY <2>2, <3>2, <4>1, PlacesDiffer DEF FramesOK
    <3> QED BY <3>1, <3>2
  <2>7. \A t \in joined' : status'[t] = "ended" /\ At(Argument(t))' = {} /\ At(Result(t))' = {}
    <3> SUFFICES ASSUME NEW t \in joined
                 PROVE  status'[t] = "ended" /\ At(Argument(t))' = {} /\ At(Result(t))' = {}
      OBVIOUS
    <3>1. t \in Jobs BY DEF SharedTypeOK
    <3>2. status[t] = "ended" BY DEF FramesOK
    <3>3. p # Argument(t) /\ p # Result(t) BY <3>1, <3>2, PlacesDiffer
    <3> QED BY <2>1, <2>2, <3>1, <3>2, <3>3, PlacesDiffer DEF FramesOK, Activations
  <2>8. FramesOK' BY <2>4, <2>5, <2>6, <2>7 DEF FramesOK
  <2>9. Holding' BY <1>1, <2>2 DEF Holding, SharedTypeOK
  <2> QED BY <1>2, <2>1, <2>3, <2>4, <2>8, <2>9
<1>5. CASE ~Fits(count)
  <2>1. aborted' = TRUE /\ UNCHANGED <<place, status>> BY <1>5 DEF Referenced
  <2>2. \A q \in Places : At(q)' = At(q) BY <2>1 DEF At
  <2>3. FramesOK' BY <2>1, <2>2, PlacesDiffer DEF FramesOK, SharedTypeOK
  <2>4. SharedTypeOK' BY <1>1, <2>1 DEF SharedTypeOK
  <2> QED BY <1>2, <1>3, <2>1, <2>3, <2>4
<1> QED BY <1>4, <1>5

\* A count of one less, and of the reference r that is not there any more.
LEMMA LowerOK ==
  ASSUME SharedTypeOK, OneCounts, Holding, ~aborted, doing[Owner] = Idle,
         NEW r \in Live, Live' = Live \ {r},
         Lower(Owner), UNCHANGED <<usage, counter, payload>>
  PROVE  OneCounts' /\ (Holding' \/ Clearing') /\ count' \in Int /\ doing' \in [Activations -> Doings]
<1> USE SharedAssumption
<1>1. count = Cardinality(Live) /\ Loaded = {count} /\ count \in Nat
  BY LiveFinite DEF Holding, Loaded, Idle
<1>2. Cardinality(Live') = count - 1 BY <1>1, LiveShrinks
<1>3. Live' = {} <=> count = 1
  <2>1. IsFiniteSet(Live') BY LiveFinite, FS_RemoveElement
  <2> QED BY <1>1, <1>2, <2>1, FS_EmptySet
<1>4. doing \in [Activations -> Doings] /\ Owner \in Activations BY DEF SharedTypeOK, Activations
<1>5. CASE usage.atomic
  <2>1. count' = count - 1 /\ Released(Owner, count) BY <1>1, <1>5 DEF Lower, Stored, Holding
  <2>2. CASE count = 1
    <3>1. doing' = [doing EXCEPT ![Owner] = Ending("destroy")] BY <2>1, <2>2 DEF Released, Last
    <3>2. Ending("destroy") \in Doings /\ Ending("destroy").step = "destroy" BY DoingTyped DEF Ending
    <3>3. doing' \in [Activations -> Doings] /\ doing'[Owner].step = "destroy" /\ \A t \in Jobs : doing'[t] = doing[t]
      BY <3>1, <3>2, <1>4 DEF Activations
    <3>4. OneCounts' BY <3>3 DEF OneCounts
    <3>5. Clearing' BY <1>3, <2>2, <3>3 DEF Clearing, Holding
    <3> QED BY <1>1, <2>1, <3>3, <3>4, <3>5
  <2>3. CASE count # 1
    <3>1. doing' = [doing EXCEPT ![Owner] = Idle] BY <2>1, <2>3 DEF Released, Last
    <3>2. Idle \in Doings /\ Idle.step = "none" BY DoingTyped DEF Idle
    <3>3. doing' \in [Activations -> Doings] /\ doing'[Owner].step = "none" /\ \A t \in Jobs : doing'[t] = doing[t]
      BY <3>1, <3>2, <1>4 DEF Activations
    <3>4. OneCounts' BY <3>3 DEF OneCounts
    <3>5. Holding' BY <1>1, <1>2, <2>1, <2>3, <3>3 DEF Holding
    <3> QED BY <1>1, <2>1, <3>3, <3>4, <3>5
  <2> QED BY <2>2, <2>3
<1>6. CASE ~usage.atomic
  <2>1. doing' = [doing EXCEPT ![Owner] = Lowering(count)] /\ count' = count BY <1>1, <1>6 DEF Lower
  <2>2. Lowering(count) \in Doings /\ Lowering(count).step = "lower" /\ Lowering(count).old = count
    BY <1>1, DoingTyped DEF Lowering
  <2>3. /\ doing' \in [Activations -> Doings] /\ doing'[Owner].step = "lower" /\ doing'[Owner].old = count
        /\ \A t \in Jobs : doing'[t] = doing[t]
    BY <2>1, <2>2, <1>4 DEF Activations
  <2>4. OneCounts' BY <1>6, <2>3 DEF OneCounts
  <2>5. Holding' BY <1>1, <1>2, <2>1, <2>3 DEF Holding
  <2> QED BY <1>1, <2>1, <2>3, <2>4, <2>5
<1> QED BY <1>5, <1>6

-----------------------------------------------------------------------------
LEMMA CreateStep == SharedIndInv /\ Create => SharedIndInv'
<1> SUFFICES ASSUME SharedIndInv, Create PROVE SharedIndInv' OBVIOUS
<1> USE SharedAssumption DEF SharedIndInv, Create, Active
<1>1. Without BY DEF Holding, Clearing
<1>2. PICK r \in References \ Live : place' = [place EXCEPT ![r] = Scope] BY DEF Free
<1>3. /\ place' \in [References -> Places \cup {Nowhere}]
      /\ Live' = Live \cup {r} /\ Cardinality(Live') = Cardinality(Live) + 1
      /\ \A q \in Places : At(q)' = IF q = Scope THEN At(q) \cup {r} ELSE At(q)
  BY <1>2, LiveGrows, SharedTypeOK, PlacesDiffer DEF Places
<1>4. SharedTypeOK'
  <2>1. counter' \in Memory /\ payload' \in Memory /\ count' \in Int BY DEF Memory
  <2> QED BY <1>3, <2>1 DEF SharedTypeOK
<1>5. FramesOK' BY <1>3, PlacesDiffer DEF FramesOK, SharedTypeOK
<1>6. OneCounts' BY DEF OneCounts
<1>7. Cardinality(Live) = 0 BY <1>1, FS_EmptySet DEF Without
<1>8. Holding' BY <1>1, <1>3, <1>7 DEF Holding, Without, Idle
<1> QED BY <1>4, <1>5, <1>6, <1>8

SoundlyCounted == usage.atomic \/ ~usage.copies

\* Who retains holds a reference, so that the payload is there.
LEMMA RetainStep ==
  ASSUME SharedIndInv, SoundlyCounted, NEW a \in Activations, Retain(a)
  PROVE  SharedIndInv'
<1> USE SharedAssumption DEF SharedIndInv, Retain, Active
<1>1. PICK r \in References \ Live, p \in Targets(a), old \in Loaded :
        IF usage.atomic
        THEN Stored(old + 1) /\ Referenced(a, old, r, p)
        ELSE /\ doing' = [doing EXCEPT ![a] = Raising(old, r, p)]
             /\ UNCHANGED <<count, place, status, aborted>>
  BY DEF Free
<1>2. /\ Reachable(p)
      /\ Live # {} /\ (usage.atomic \/ a = Owner)
  <2>1. CASE a = Owner
    <3>1. At(Scope) # {} /\ p \in {Scope} \cup {Argument(t) : t \in {u \in Jobs : status[u] = "new"}}
      BY <2>1 DEF Targets
    <3>2. Live # {} BY <3>1, NowhereAssumption DEF At, Live, Places
    <3> QED BY <2>1, <3>1, <3>2 DEF Reachable
  <2>2. CASE a # Owner
    <3>1. a \in Jobs /\ p = Result(a) /\ usage.copies BY <2>2 DEF Targets, Activations
    <3>2. a \notin joined BY DEF FramesOK
    <3>3. PICK s \in References : At(Argument(a)) = {s} BY <3>1, <3>2 DEF FramesOK
    <3>4. s \in Live BY <3>1, <3>3, PlacesDiffer, NowhereAssumption DEF At, Live
    <3> QED BY <3>1, <3>2, <3>4 DEF SoundlyCounted, Reachable
  <2> QED BY <2>1, <2>2
<1>3. Holding BY <1>2 DEF Clearing, Without
<1>4. old = count /\ (usage.atomic \/ a = Owner => doing[Owner].step = "none")
  BY <1>1, <1>3 DEF Holding, Loaded, Idle, OneCounts
<1>5. count = Cardinality(Live) /\ count \in Nat BY <1>2, <1>3, <1>4, LiveFinite DEF Holding
<1>6. CASE usage.atomic
  <2>1. count' = count + 1 /\ Referenced(a, count, r, p) BY <1>1, <1>3, <1>4, <1>6 DEF Stored, Holding
  <2>2. counter = "live" /\ payload = "live" /\ count > 0 BY <1>3 DEF Holding
  <2>3. doing[Owner].step = "none" \/ a = Owner BY <1>4, <1>6
  <2>4. UNCHANGED <<usage, joined, counter, payload>> OBVIOUS
  <2>5. count = Cardinality(Live) /\ ~aborted BY <1>5
  <2> HIDE DEF SharedIndInv, Retain, Active
  <2> QED BY <1>2, <1>6, <2>1, <2>2, <2>3, <2>4, <2>5, ReferencedOK
<1>7. CASE ~usage.atomic
  <2>1. a = Owner /\ doing' = [doing EXCEPT ![Owner] = Raising(count, r, p)]
        /\ UNCHANGED <<count, place, status, aborted>>
    BY <1>1, <1>2, <1>4, <1>7
  <2>2. p \in {Scope} \cup {Argument(t) : t \in {u \in Jobs : status[u] = "new"}} BY <2>1 DEF Targets
  <2>3. p \in Places BY <2>2, PlacesDiffer DEF Places
  <2>4. /\ Raising(count, r, p) \in Doings /\ Raising(count, r, p).step = "raise"
        /\ Raising(count, r, p).old = count /\ Raising(count, r, p).reference = r
        /\ Raising(count, r, p).to = p
    BY <1>5, <2>3, DoingTyped DEF Raising
  <2>5. /\ doing' \in [Activations -> Doings] /\ doing'[Owner] = Raising(count, r, p)
        /\ \A t \in Jobs : doing'[t] = doing[t]
    BY <2>1, <2>4 DEF SharedTypeOK, Activations
  <2>6. Live' = Live /\ \A q : At(q)' = At(q) BY <2>1 DEF Live, At
  <2>7. Holding' BY <1>3, <1>5, <2>1, <2>2, <2>4, <2>5, <2>6 DEF Holding
  <2>8. OneCounts' BY <1>7, <2>5 DEF OneCounts
  <2>9. FramesOK' BY <2>1, <2>6 DEF FramesOK
  <2>10. SharedTypeOK' BY <2>1, <2>5 DEF SharedTypeOK
  <2> QED BY <2>1, <2>7, <2>8, <2>9, <2>10
<1> QED BY <1>6, <1>7

LEMMA StoreRaisedStep ==
  ASSUME SharedIndInv, NEW a \in Activations, StoreRaised(a)
  PROVE  SharedIndInv'
<1>1. ~aborted /\ doing[a].step = "raise" BY DEF StoreRaised
<1>2. a = Owner BY <1>1 DEF SharedIndInv, OneCounts, Activations, Idle
<1>3. Holding BY <1>1, <1>2 DEF SharedIndInv, Clearing, Without, Idle
<1>4. count = Cardinality(Live) /\ count > 0 /\ counter = "live" /\ payload = "live"
  BY <1>1, <1>2, <1>3, LiveFinite DEF Holding
<1>5. doing[Owner].old = count /\ doing[Owner].reference \in References \ Live
  BY <1>1, <1>2, <1>3 DEF Holding
<1>6. Reachable(doing[Owner].to) BY <1>1, <1>2, <1>3 DEF Holding, Reachable
<1>7. /\ count' = count + 1 /\ Referenced(Owner, count, doing[Owner].reference, doing[Owner].to)
      /\ UNCHANGED <<usage, joined, counter, payload>>
  BY <1>2, <1>4, <1>5 DEF StoreRaised, Stored
<1> QED BY <1>1, <1>2, <1>4, <1>5, <1>6, <1>7, ReferencedOK

LEMMA DropStep == SharedIndInv /\ Drop => SharedIndInv'
<1> SUFFICES ASSUME SharedIndInv, Drop PROVE SharedIndInv' OBVIOUS
<1> USE SharedAssumption DEF SharedIndInv, Drop, Active
<1>1. PICK r \in At(Scope) : place' = [place EXCEPT ![r] = Nowhere] OBVIOUS
<1>2. r \in Live /\ Live' = Live \ {r} BY <1>1, NowhereAssumption DEF At, Live, SharedTypeOK, Places
<1>3. Holding BY <1>2 DEF Clearing, Without
<1>4. OneCounts' /\ (Holding' \/ Clearing') /\ count' \in Int /\ doing' \in [Activations -> Doings]
  <2>1. UNCHANGED <<usage, counter, payload>> OBVIOUS
  <2> QED BY <1>2, <1>3, <2>1, LowerOK
<1>5. SharedTypeOK' BY <1>1, <1>4 DEF SharedTypeOK
<1>6. \A q \in Places : q # Scope => At(q)' = At(q)
  BY <1>1, NowhereAssumption DEF At, SharedTypeOK
<1>7. FramesOK' BY <1>6, PlacesDiffer DEF FramesOK, SharedTypeOK
<1> QED BY <1>4, <1>5, <1>7

LEMMA StoreLoweredStep ==
  ASSUME SharedIndInv, NEW a \in Activations, StoreLowered(a)
  PROVE  SharedIndInv'
<1> USE SharedAssumption DEF SharedIndInv, StoreLowered
<1>1. a = Owner BY DEF OneCounts, Activations, Idle
<1>2. Holding BY <1>1 DEF Clearing, Without, Idle
<1>3. counter = "live" /\ payload = "live" /\ count = Cardinality(Live) + 1 /\ doing[Owner].old = count /\ count \in Nat
  BY <1>1, <1>2, LiveFinite DEF Holding
<1>4. count' = Cardinality(Live) /\ Released(Owner, count) BY <1>1, <1>3, LiveFinite DEF Stored
<1>5. Live' = Live /\ \A q : At(q)' = At(q) BY DEF Live, At
<1>6. FramesOK' BY <1>5 DEF FramesOK
<1>7. status[Owner] # "ended" BY <1>2 DEF Holding, Without
<1>8. CASE count = 1
  <2>1. doing' = [doing EXCEPT ![Owner] = Ending("destroy")] BY <1>4, <1>8 DEF Released, Last
  <2>2. Ending("destroy") \in Doings /\ Ending("destroy").step = "destroy" BY DoingTyped DEF Ending
  <2>3. doing' \in [Activations -> Doings] /\ doing'[Owner].step = "destroy" /\ \A t \in Jobs : doing'[t] = doing[t]
    BY <2>1, <2>2 DEF SharedTypeOK, Activations
  <2>4. Live = {} BY <1>3, <1>8, LiveFinite, LiveEmpty
  <2>5. OneCounts' /\ Clearing' BY <1>3, <1>5, <2>3, <2>4 DEF OneCounts, Clearing
  <2>6. SharedTypeOK' BY <1>4, <2>3, LiveFinite DEF SharedTypeOK
  <2> QED BY <1>6, <1>7, <2>5, <2>6
<1>9. CASE count # 1
  <2>1. doing' = [doing EXCEPT ![Owner] = Idle] BY <1>4, <1>9 DEF Released, Last
  <2>2. Idle \in Doings /\ Idle.step = "none" BY DoingTyped DEF Idle
  <2>3. doing' \in [Activations -> Doings] /\ doing'[Owner].step = "none" /\ \A t \in Jobs : doing'[t] = doing[t]
    BY <2>1, <2>2 DEF SharedTypeOK, Activations
  <2>4. OneCounts' BY <2>3 DEF OneCounts
  <2>5. Holding' BY <1>3, <1>4, <1>5, <1>9, <2>3, LiveFinite DEF Holding
  <2>6. SharedTypeOK' BY <1>4, <2>3, LiveFinite DEF SharedTypeOK
  <2> QED BY <1>6, <1>7, <2>4, <2>5, <2>6
<1> QED BY <1>8, <1>9

LEMMA DestroyStep ==
  ASSUME SharedIndInv, NEW a \in Activations, DestroyPayload(a)
  PROVE  SharedIndInv'
<1> USE SharedAssumption DEF SharedIndInv, DestroyPayload
<1>1. a = Owner BY DEF OneCounts, Activations, Idle
<1>2. Clearing /\ payload = "live" BY <1>1 DEF Holding, Clearing, Without, Idle
<1>3. Ending("free") \in Doings /\ Ending("free").step = "free" BY DoingTyped DEF Ending
<1>4. doing' \in [Activations -> Doings] /\ doing'[Owner].step = "free" /\ \A t \in Jobs : doing'[t] = doing[t]
  BY <1>1, <1>3 DEF SharedTypeOK, Activations
<1>5. payload' = "freed" BY <1>2 DEF Freed
<1>6. Live' = Live /\ \A q : At(q)' = At(q) BY DEF Live, At
<1>7. OneCounts' /\ Clearing' BY <1>2, <1>4, <1>5, <1>6 DEF OneCounts, Clearing
<1>8. FramesOK' BY <1>6 DEF FramesOK
<1>9. SharedTypeOK' BY <1>4, <1>5 DEF SharedTypeOK, Memory
<1> QED BY <1>1, <1>7, <1>8, <1>9 DEF Without, Idle

LEMMA FreeStep ==
  ASSUME SharedIndInv, NEW a \in Activations, FreeCounter(a)
  PROVE  SharedIndInv'
<1> USE SharedAssumption DEF SharedIndInv, FreeCounter
<1>1. a = Owner BY DEF OneCounts, Activations, Idle
<1>2. Clearing /\ payload = "freed" BY <1>1 DEF Holding, Clearing, Without, Idle
<1>3. Idle \in Doings /\ Idle.step = "none" BY DoingTyped DEF Idle
<1>4. doing' \in [Activations -> Doings] /\ doing'[Owner] = Idle /\ \A t \in Jobs : doing'[t] = doing[t]
  BY <1>1, <1>3 DEF SharedTypeOK, Activations
<1>5. counter' = "freed" BY <1>2 DEF Freed, Clearing
<1>6. Live' = Live /\ \A q : At(q)' = At(q) BY DEF Live, At
<1>7. OneCounts' /\ Without' BY <1>2, <1>3, <1>4, <1>5, <1>6 DEF OneCounts, Clearing, Without
<1>8. FramesOK' BY <1>6 DEF FramesOK
<1>9. SharedTypeOK' BY <1>4, <1>5 DEF SharedTypeOK, Memory
<1> QED BY <1>7, <1>8, <1>9

LEMMA ReturnStep ==
  ASSUME SharedIndInv, NEW a \in Activations, Return(a)
  PROVE  SharedIndInv'
<1> USE SharedAssumption DEF SharedIndInv, Return, Active
<1>1. Live' = Live /\ \A q : At(q)' = At(q) BY DEF Live, At
<1>2. status' \in [Activations -> {"new", "running", "ended"}] /\ status'[a] = "ended"
      /\ \A b \in Activations : b # a => status'[b] = status[b]
  BY DEF SharedTypeOK
<1>3. SharedTypeOK' BY <1>2 DEF SharedTypeOK
<1>4. FramesOK' BY <1>1, <1>2 DEF FramesOK, Activations, SharedTypeOK
<1>5. OneCounts' BY DEF OneCounts
<1>6. CASE a = Owner
  <2>1. Live = {}
    <3>1. SUFFICES ASSUME NEW r \in Live PROVE FALSE OBVIOUS
    <3>2. place[r] \in Places BY DEF Live, SharedTypeOK
    <3>3. place[r] # Scope BY <1>6 DEF CleanedUp, At, Live
    <3>4. PICK t \in Jobs : place[r] = Argument(t) \/ place[r] = Result(t) BY <3>2, <3>3 DEF Places
    <3>5. status[t] = "new" \/ t \in joined BY <1>6 DEF CleanedUp
    <3>6. At(Argument(t)) = {} /\ At(Result(t)) = {} BY <3>5 DEF FramesOK
    <3> QED BY <3>4, <3>6 DEF At, Live
  <2>2. Cardinality(Live) = 0 BY <2>1, FS_EmptySet
  <2>3. Without BY <1>6, <2>1, <2>2 DEF Holding, Clearing, Idle
  <2>4. Without' BY <1>1, <2>3 DEF Without
  <2> QED BY <1>3, <1>4, <1>5, <2>4
<1>7. CASE a # Owner
  <2>1. status'[Owner] = status[Owner] BY <1>2, <1>7 DEF Activations
  <2>2. Holding => Holding'
    <3> SUFFICES ASSUME Holding PROVE Holding' OBVIOUS
    <3>1. \A t \in Jobs : status[t] = "new" => status'[t] = "new" BY <1>2 DEF Activations
    <3> QED BY <1>1, <3>1 DEF Holding
  <2>3. Clearing => Clearing' BY <1>1 DEF Clearing
  <2>4. Without => Without' BY <1>1 DEF Without
  <2> QED BY <1>3, <1>4, <1>5, <2>1, <2>2, <2>3, <2>4
<1> QED BY <1>6, <1>7

LEMMA AwaitStep ==
  ASSUME SharedIndInv, NEW t \in Jobs, Await(t)
  PROVE  SharedIndInv'
<1> USE SharedAssumption DEF SharedIndInv, Await, Active, Joined
<1>1. PICK r \in References : At(Argument(t)) = {r} BY DEF FramesOK
<1>2. /\ place' \in [References -> Places \cup {Nowhere}]
      /\ \A s \in References : place'[s] = IF place[s] = Result(t) THEN Scope
                                         ELSE IF place[s] = Argument(t) THEN Nowhere ELSE place[s]
  BY DEF SharedTypeOK, Places
<1>3. r \in Live /\ Live' = Live \ {r} BY <1>1, <1>2, PlacesDiffer, NowhereAssumption DEF At, Live
<1>4. Holding BY <1>3 DEF Clearing, Without
<1>5. OneCounts' /\ (Holding' \/ Clearing') /\ count' \in Int /\ doing' \in [Activations -> Doings]
  <2>1. UNCHANGED <<usage, counter, payload>> OBVIOUS
  <2> QED BY <1>3, <1>4, <2>1, LowerOK
<1>6. SharedTypeOK' BY <1>2, <1>5 DEF SharedTypeOK
<1>7. \A u \in Jobs : u # t => At(Argument(u))' = At(Argument(u)) /\ At(Result(u))' = At(Result(u))
  <2> SUFFICES ASSUME NEW u \in Jobs, u # t
               PROVE  At(Argument(u))' = At(Argument(u)) /\ At(Result(u))' = At(Result(u))
    OBVIOUS
  <2>1. /\ Argument(u) # Scope /\ Argument(u) # Result(t) /\ Argument(u) # Argument(t) /\ Argument(u) # Nowhere
        /\ Result(u) # Scope /\ Result(u) # Result(t) /\ Result(u) # Argument(t) /\ Result(u) # Nowhere
    BY PlacesDiffer, NowhereAssumption
  <2> QED BY <1>2, <2>1 DEF At
<1>8. At(Argument(t))' = {} /\ At(Result(t))' = {}
  <2>1. /\ Argument(t) # Scope /\ Argument(t) # Result(t) /\ Argument(t) # Nowhere
        /\ Result(t) # Scope /\ Result(t) # Nowhere
    BY PlacesDiffer, NowhereAssumption
  <2> QED BY <1>2, <2>1 DEF At
<1>9. FramesOK' BY <1>7, <1>8 DEF FramesOK, SharedTypeOK
<1> QED BY <1>5, <1>6, <1>9

-----------------------------------------------------------------------------
LEMMA NextIndInv == SharedIndInv /\ SoundlyCounted /\ [SharedNext]_sharedVars => SharedIndInv' /\ SoundlyCounted'
<1> SUFFICES ASSUME SharedIndInv, SoundlyCounted, [SharedNext]_sharedVars PROVE SharedIndInv' /\ SoundlyCounted' OBVIOUS
<1>1. CASE Create BY <1>1, CreateStep DEF Create, SoundlyCounted
<1>2. CASE Drop BY <1>2, DropStep DEF Drop, SoundlyCounted
<1>3. ASSUME NEW a \in Activations, Retain(a) PROVE SharedIndInv' /\ SoundlyCounted'
  BY <1>3, RetainStep DEF Retain, SoundlyCounted
<1>4. ASSUME NEW a \in Activations, StoreRaised(a) PROVE SharedIndInv' /\ SoundlyCounted'
  BY <1>4, StoreRaisedStep DEF StoreRaised, SoundlyCounted
<1>5. ASSUME NEW a \in Activations, StoreLowered(a) PROVE SharedIndInv' /\ SoundlyCounted'
  BY <1>5, StoreLoweredStep DEF StoreLowered, SoundlyCounted
<1>6. ASSUME NEW a \in Activations, DestroyPayload(a) PROVE SharedIndInv' /\ SoundlyCounted'
  BY <1>6, DestroyStep DEF DestroyPayload, SoundlyCounted
<1>7. ASSUME NEW a \in Activations, FreeCounter(a) PROVE SharedIndInv' /\ SoundlyCounted'
  BY <1>7, FreeStep DEF FreeCounter, SoundlyCounted
<1>8. ASSUME NEW a \in Activations, Return(a) PROVE SharedIndInv' /\ SoundlyCounted'
  BY <1>8, ReturnStep DEF Return, SoundlyCounted
<1>9. ASSUME NEW t \in Jobs, Await(t) PROVE SharedIndInv' /\ SoundlyCounted'
  BY <1>9, AwaitStep DEF Await, SoundlyCounted
<1>10. CASE UNCHANGED sharedVars
  BY <1>10 DEF sharedVars, SharedIndInv, SharedTypeOK, OneCounts, FramesOK, Holding, Clearing, Without, Live, At, SoundlyCounted
<1> QED BY <1>1, <1>2, <1>3, <1>4, <1>5, <1>6, <1>7, <1>8, <1>9, <1>10 DEF SharedNext

\* In a program whose share is atomic, or whose tasks return no copies of a plain
\* one, the count is the number of references at every step.
THEOREM SharedInvariance ==
  ASSUME \A u \in Usages : u.atomic \/ ~u.copies
  PROVE  SharedSpec => []SharedIndInv
<1>1. SharedInit => SharedIndInv /\ SoundlyCounted BY SharedInitIndInv DEF SharedInit, SoundlyCounted
<1> QED BY <1>1, NextIndInv, PTL DEF SharedSpec

\* "The lifecycle of s stays until all the shares are dropped", for any number of
\* tasks that copy, return, are awaited and dropped in any order.
THEOREM PayloadStays ==
  ASSUME \A u \in Usages : u.atomic \/ ~u.copies
  PROVE  SharedSpec => []StaysUntilDropped
<1>1. SharedIndInv => StaysUntilDropped
  BY DEF SharedIndInv, StaysUntilDropped, Holding, Clearing, Without
<1> QED BY <1>1, SharedInvariance, PTL

\* The payload and the count are freed once, and before the program ends.
THEOREM FreedOnce ==
  ASSUME \A u \in Usages : u.atomic \/ ~u.copies
  PROVE  SharedSpec => []DestroyedOnce
<1>1. SharedIndInv => DestroyedOnce
  BY DEF SharedIndInv, DestroyedOnce, Holding, Clearing, Without
<1> QED BY <1>1, SharedInvariance, PTL
=============================================================================
