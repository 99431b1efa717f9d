SPECIFICATION ToolingSpec
CONSTANTS
  Subjects = {"run", "test", "campaign", "count", "inputs"}
  Runners = {q1, q2}
  Habits = {"careful", "crowded"}
  Revisions = {1, 2}
  First = 1
  MaxEdits = 2
  MaxKills = 1
  Nothing = nothing
  Listed <- MCListed
  Parallel = {"f1", "k", "f2"}
  Generated <- MCGenerated
  Skipped = {"k"}
  Repeats <- MCRepeats
  Workers = 2
  Points = {"p"}
  Inputs = {1, 2, 3}
  Reductions <- MCReductions
  Sites = {"p", "q"}
  Harnesses <- MCHarnesses
  Modes = {"fuzz", "differential", "replay"}
  MaxCases = 2
  MaxTrials = 2
  MaxRuns = 2
  MaxUserEdits = 1
  SlotCount = 4
  Hitters = {h1, h2}
  Identities = {0, 1, 2, 4, 7}
  MaxHits = 5
  One = 2
  Integral <- MCIntegral
  Grid <- MCGrid
  Width <- MCWidth
  Signatures <- MCSignatures
  Guards <- MCGuards
  MaxComparisons = 3
  MaxDrawn <- MCDrawn
  MaxItems = 2
  Unlimited = 1000
SYMMETRY ToolingSymmetry
CHECK_DEADLOCK FALSE
INVARIANTS
  RunsWhatWasSaved
  UnchangedIsReused
  OnlyEditsRefuse
  SerialRunsAlone
  ReportIsHonest
  DiscoveriesAreNew
  KeptReproduces
  NothingIsLost
  AppendedOnce
  CountsAreExact
  NarrowingLosesNothing
  SamplesFit
