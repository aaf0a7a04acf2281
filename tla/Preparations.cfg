SPECIFICATION Spec
CONSTANTS
  p1 = p1
  p2 = p2
  t1 = t1
  t2 = t2
  Preparations <- TwoPreparations
  Trees <- TwoTrees
  NoTree = NoTree
  MaxRemovals = 1
  MaxFaults = 1
INVARIANT KeptIsReported
INVARIANT SealsAlone
INVARIANT OneBundlePerKey
