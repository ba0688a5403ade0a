SPECIFICATION Spec
CONSTANTS
  r1 = r1
  r2 = r2
  r3 = r3
  a = a
  b = b
  k1 = k1
  k2 = k2
  Requests <- MCRequests
  Users <- MCUsers
  Opening <- MCOpening
  Menu <- MCMenu
  MaxFailures = 2
  WindowSecs = 2
  EvictThreshold = 1
  Year = 2
  MaxTime = 2
  Nobody = Nobody
  Never = Never
SYMMETRY Symmetry
INVARIANTS
  TypeOK
  ReferencesHold
  LimitHolds
  WelcomeOnce
PROPERTIES
  RemovalIsTotal
  EndedIsRefused
  RefusedUntilWindowEnds
