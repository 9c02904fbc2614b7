SPECIFICATION FairSpec
CONSTANTS
  k1 = k1
  k2 = k2
  Keys <- MCKeys
  Horizon <- MCHorizon
  Deltas <- MCDeltas
  MaxPosts <- MCMaxPosts
CHECK_DEADLOCK FALSE
INVARIANT IInv
INVARIANT CrashDamageContained
PROPERTY PastIsImmutable
PROPERTY ReadsAsOneBook
PROPERTY UpdateTerminates
