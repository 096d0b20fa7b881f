CONSTANTS
  Half = 16
  Subs = {s1}
  MaxLast = 3
  MaxBatch = 2
  Starts <- FromStart
  Stamped = TRUE
  NoBatch = NoBatch
SPECIFICATION Spec
INVARIANT AlwaysUnbroken
CHECK_DEADLOCK FALSE
