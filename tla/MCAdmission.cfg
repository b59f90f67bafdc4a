SPECIFICATION Spec
CONSTANTS
  a = a
  b = b
  c = c
  a1 = a1
  a2 = a2
  b1 = b1
  b2 = b2
  c1 = c1
  NoRequest = NoRequest
  Tenants <- MCTenants
  Requests <- MCRequests
  TenantOf <- MCTenantOf
  MaxInflight <- MCMaxInflight
  MaxQueue <- MCMaxQueue
  GlobalMaxInflight = 2
  GlobalMaxQueue = 2
SYMMETRY Symmetric
INVARIANTS
  TypeOK
  SlotAccounting
  QueueAccounting
  RotationConsistent
  WorkConserving
  NobodyLeftBehind
PROPERTIES
  CancellationReleasesGrant
  RoundRobin
  ImplementsSlotService
