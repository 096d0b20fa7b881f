CONSTANTS
  Half = 16
  Subs = {s1, s2}
  MaxLast = 3
  MaxBatch = 2
  Starts <- FromStart
  Stamped = TRUE
  NoBatch = NoBatch
SPECIFICATION Spec
INVARIANTS
  TypeOK
  Registered
  UnbrokenInTurn
  SleepsCaughtUp
SYMMETRY Interchangeable
CHECK_DEADLOCK FALSE
