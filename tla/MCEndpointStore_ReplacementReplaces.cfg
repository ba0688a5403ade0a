SPECIFICATION Spec
CONSTANTS
  r1 = r1
  r2 = r2
  r3 = r3
  a = a
  b = b
  g1 = g1
  g2 = g2
  e1 = e1
  e2 = e2
  e3 = e3
  MaxFaults = 0
  Gone = Gone
  Requests <- MCRequests
  Users <- MCUsers
  Groups <- MCGroups
  Endpoints <- MCEndpoints
  Menu <- MCMenu
  Renamed <- MCNobody
  Opening <- MCOpening
SYMMETRY Symmetry
PROPERTIES
  ReplacementReplaces
