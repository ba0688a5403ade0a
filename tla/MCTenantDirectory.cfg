SPECIFICATION Spec
CONSTANTS
  r1 = r1
  r2 = r2
  t1 = t1
  t2 = t2
  u1 = u1
  u2 = u2
  c1 = c1
  Other = Other
  None = None
  Users <- MCUsers
  Requests <- MCRequests
  TenantIds <- MCTenantIds
  InitialPrefs <- MCPrefs
  LegacyCredits <- MCLegacy
  ClientIds <- MCClientIds
  Menu <- MCMenu
SYMMETRY Symmetry
INVARIANTS
  TypeOK
  DefaultIsOwnMembership
  LegacyNeverLost
  UndisturbedCallsSettle
