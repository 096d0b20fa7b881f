CONSTANTS
  Half = 16
  Subs = {s1}
  MaxLast = 3
  MaxBatch = 2
  Starts <- FromStart
  Stamped = FALSE
  NoBatch = NoBatch
SPECIFICATION Spec
INVARIANT SleepsCaughtUp
CHECK_DEADLOCK FALSE
