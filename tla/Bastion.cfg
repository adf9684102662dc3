CONSTANTS
  t1 = t1
  t2 = t2
  k1 = k1
  k2 = k2
  Absent = Absent
  Nobody = Nobody
  BadKey = BadKey
  Tenants = {t1, t2}
  KeyLists <- MCKeyLists
  MaxOps = 4
  MaxFaults = 2
SPECIFICATION Spec
SYMMETRY TenantSymmetry
INVARIANTS WritesExactly 
CHECK_DEADLOCK FALSE
