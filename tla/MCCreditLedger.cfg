SPECIFICATION Spec
CONSTANTS
  r1 = r1
  r2 = r2
  r3 = r3
  t1 = t1
  t2 = t2
  Requests <- MCRequests
  TenantIds <- MCTenantIds
  InitialTenants <- MCInitial
  Opening <- MCOpening
  Amounts <- MCAmounts
  LowCreditsThreshold = 50
  BigintMax = 60
SYMMETRY Symmetry
INVARIANTS
  TypeOK
  NoLostUpdate
  ChangedAsAnswered
  RowsAreBacked
  WarningExactWhenUndisturbed
PROPERTIES
  AtomicCredits
