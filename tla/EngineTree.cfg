SPECIFICATION FairSpec
CONSTANTS
  MaxWork = 4
  MaxCommits = 0
  MaxChecks = 0
  MaxConcurrency = 2
  Priorities <- TwoPriorities
  StepLimit = Unlimited
  InvocationLimit = Unlimited
  LineageLimit = Unlimited
  Unlimited = Unlimited
  Protocol = FALSE
  Backend = TRUE
  Verifier = FALSE
INVARIANT NothingLeftBehind
PROPERTY ResumedWithOutcomes
PROPERTY NoStarvation
