SPECIFICATION FairSpec
CONSTANTS
  MaxEdits = 2
  MaxQueue = 2
 
INVARIANT TreeStays
INVARIANT AcceptedIsWhole
PROPERTY NobodyIsLeft
CHECK_DEADLOCK FALSE
