SPECIFICATION Spec
CONSTANTS
  Targets <- ThreeTargets
  CloudType <- Kinds
  Slow = 2
  Fast = 1
  States <- ThreeStates
  Attempts <- FourEnds
  MaxRetries = 2
  Callers = {"c1", "c2"}
  MaxRounds = 2
  MaxDryRuns = 2
INVARIANTS SummaryTrue
PROPERTIES Spaced
CHECK_DEADLOCK FALSE
