SPECIFICATION Spec
CONSTANTS
  u1 = u1
  u2 = u2
  Users <- MCUsers
  MaxProbes = 3
  Measures = 3
SYMMETRY Symmetry
CHECK_DEADLOCK FALSE
INVARIANTS
  TypeOK
  BoundIsLive
  GivesBack
  AloneReachesOwn
  ReadyWhenBound
  FetchIsOwn
