CONSTANTS
  Half = 16
  Subs = {s1}
  MaxLast = 3
  MaxBatch = 2
  Starts <- FromStart
  Stamped = TRUE
  NoBatch = NoBatch
SPECIFICATION FairSpec
PROPERTY Notified
CHECK_DEADLOCK FALSE
