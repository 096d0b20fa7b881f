CONSTANTS
  Half = 8
  Clients = {c1, c2}
  MaxEvents = 4
  MaxRaise = 2
  Indexes <- FrontAndBack
  Faults = {"read", "marshal", "write"}
SPECIFICATION Spec
INVARIANTS
  TypeOK
  TracksOrBehind
  SavableIsNew
  PanicsOnlyTruncated
PROPERTIES
  NoLostUpdate
  CreateOnce
  RefusedOnlyOnChange
SYMMETRY Interchangeable
