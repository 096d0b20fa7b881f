CONSTANTS
  Half = 8
  Clients = {c1, c2}
  MaxEvents = 3
  MaxRaise = 2
  Indexes = {}
  Faults = {}
SPECIFICATION Spec
INVARIANT ShouldExistMeansEmpty
SYMMETRY Interchangeable
