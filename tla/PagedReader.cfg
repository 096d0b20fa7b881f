CONSTANTS
  Half = 8
  MaxLast = 5
SPECIFICATION Spec
INVARIANTS
  TypeOK
  ForwardPage
  
  PageFromTheEnd
  PagesJoinUp
CHECK_DEADLOCK FALSE
