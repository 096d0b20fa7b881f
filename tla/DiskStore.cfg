CONSTANTS
  Streams = {a, b}
  Clients = {c1, c2}
  CachSize = 1
  Handles = {h1, h2, h3}
  MaxEvents = 2
  MaxBatch = 2
  Faults = {"open", "rename", "write", "cancel", "crash"}
  Nobody = Nobody
  NoLog = NoLog
  NoStream = NoStream
  Closed = Closed
  NoDir = NoDir
SPECIFICATION Spec
CONSTRAINT Unbroken
INVARIANTS
  TypeOK
  LocksHeld
  OneOpen
  InStep
PROPERTIES
  ImplementsAtomicLogs
CHECK_DEADLOCK FALSE
