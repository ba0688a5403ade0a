SPECIFICATION Spec
CONSTANTS
  r1 = r1
  r2 = r2
  r3 = r3
  i1 = i1
  u1 = u1
  u2 = u2
  t1 = t1
  t2 = t2
  Requests <- MCRequests
  Users <- MCUsers
  TenantIds <- MCTenantIds
  Tenant <- MCTenant
  Keyed <- MCKeyed
  Intents <- MCIntents
  BodyAmounts <- MCBodyAmounts
  HalfRange <- MCHalfRange
  Tokens <- MCTokens
SYMMETRY Symmetry
INVARIANT
  NoDuplicateCredits
