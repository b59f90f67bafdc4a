SPECIFICATION Spec
CONSTANTS
  a = a
  b = b
  c = c
  a1 = a1
  a2 = a2
  b1 = b1
  b2 = b2
  c1 = c1
  NoRequest = NoRequest
  Tenants <- LiveTenants
  Requests <- LiveRequests
  TenantOf <- LiveTenantOf
  MaxInflight <- LiveMaxInflight
  MaxQueue <- LiveMaxQueue
  GlobalMaxInflight = 1
  GlobalMaxQueue = 3
INVARIANT NoOrphanedLease
