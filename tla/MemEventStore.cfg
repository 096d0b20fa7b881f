CONSTANTS
  Half = 8
  Clients = {c1, c2}
  MaxEvents = 4
  MaxRaise = 2
  Indexes = {0}
  Faults = {"read", "marshal"}
SPECIFICATION MemSpec
INVARIANTS
  NoDuplicates
  SavableIsNew
PROPERTIES
  NoLostUpdate
  CreateOnce
SYMMETRY Interchangeable
