CONSTANTS
  Half = 16
  Subs = {s1}
  MaxLast = 3
  MaxBatch = 2
  Starts <- FromStartOrEnd
  Stamped = TRUE
  NoBatch = NoBatch
SPECIFICATION FairSpec
INVARIANT UnbrokenInTurn
PROPERTY Delivered
CHECK_DEADLOCK FALSE
