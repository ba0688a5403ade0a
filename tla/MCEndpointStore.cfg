SPECIFICATION Spec
CONSTANTS
  r1 = r1
  r2 = r2
  r3 = r3
  a = a
  b = b
  g1 = g1
  g2 = g2
  e1 = e1
  e2 = e2
  e3 = e3
  MaxFaults = 1
  Gone = Gone
  Requests <- MCRequests
  Users <- MCUsers
  Groups <- MCGroups
  Endpoints <- MCEndpoints
  Menu <- MCMenu
  Renamed <- MCRenamed
  Opening <- MCOpening
SYMMETRY Symmetry
INVARIANTS
  TypeOK
  ReferencesHold
  StrandedOnlyByRace
  PrivateIsExact
PROPERTIES
  OthersDoNotRemove
  AdditionIsComplete
