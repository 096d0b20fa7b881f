CONSTANTS
  Sources = {a, b}
  Projecters = {p1, p2}
  Options = {"streamer", p1, p2}
  ReadFrom = {"$all"}
  p1 = p1
  p2 = p2
  Targets <- MCTargets
  PageSize = 2
  MaxAppends = 2
  MaxBatch = 2
  MaxEvents = 3
  MaxSends = 1
  MaxFails = 1
SYMMETRY Interchangeable
SPECIFICATION Spec
INVARIANTS
  EveryLinkOnce
  PointsToEvents
  InOrderOfAppend
  LinksAreSent
  NothingInvented
  OneStreamInPlace
CHECK_DEADLOCK FALSE
