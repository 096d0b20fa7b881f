CONSTANTS
  Half = 8
  Clients = {c1, c2}
  MaxEvents = 3
  MaxRaise = 2
  Indexes <- Front
  Faults = {}
SPECIFICATION Spec
INVARIANT UncommittedNotInLog
SYMMETRY Interchangeable
