SPECIFICATION FairSpec
CONSTANTS
  s1 = s1
  s2 = s2
  Scopes <- TwoScopes
  ItemLimit = 2
  CommandLimit = 1
  WallLimit = 3
  QuietLimit = 2
  Unlimited = Unlimited
  TimeoutOption = TRUE
  Grace = 2
  MaxTime = 4
INVARIANT VerdictIsRight
PROPERTY FirstCauseKept
PROPERTY StopReapsGroup
PROPERTY Ends
