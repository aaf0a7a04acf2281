SPECIFICATION Spec
CONSTANTS
  w1 = w1
  w2 = w2
  MaxFiles = 1
  MaxBytes = 1
  ReadyAttempts = 2
  MaxAttempts = 1
  Workspaces <- TwoWorkspaces
  Packages <- ThreePackages
  Covered <- CoveredPackages
  CheckCount = 2
  MaxRecords = 3
INVARIANT NothingIsHidden
INVARIANT NoLeaseIsLeft
INVARIANT CheckedUnderLease
PROPERTY Answers
CHECK_DEADLOCK FALSE
