SPECIFICATION FairSpec
CONSTANTS
  MaxWork = 4
  MaxCommits = 1
  MaxChecks = 2
  MaxConcurrency = 2
  Priorities <- OnePriority
  StepLimit = 5
  InvocationLimit = 4
  LineageLimit = 4
  Unlimited = Unlimited
  Protocol = TRUE
  Backend = TRUE
  Verifier = TRUE
INVARIANT EngineInv
INVARIANT OwnWorld
INVARIANT EvidenceIsCurrent
PROPERTY EditsAreKept
PROPERTY Terminates
PROPERTY ImplementsWorkForest
