SPECIFICATION ExperimentSpec
CONSTANTS
  h1 = h1
  h2 = h2
  Hooks = {}
  NoHook = NoHook
  Conditions <- GatedOrForking
  MaxWork = 3
  MaxCommits = 1
  MaxChecks = 0
  MaxConcurrency = 2
  Priorities <- OnePriority
  StepLimit = Unlimited
  InvocationLimit = 4
  LineageLimit = Unlimited
  Unlimited = Unlimited
  Protocol = TRUE
  Backend = TRUE
  Verifier = FALSE
INVARIANT FinishedRunReplays
