SPECIFICATION FairSpec
CONSTANTS
  t1 = t1
  t2 = t2
  t3 = t3
  s1 = s1
  s2 = s2
  s3 = s3
  l1 = l1
  l2 = l2
  l3 = l3
  Tenants = {t1, t2}
  Suffixes = {s1, s2, s3}
  DefaultSuffix <- MCDefaultSuffix
  PoolSize = 3
  Logins = {l1, l2}
  Requests = {"login", "gc"}
  Faults = {"stop"}
  Unset = Unset
CHECK_DEADLOCK FALSE
INVARIANTS
  CIDRsSound
PROPERTIES
  OrphanClaimsPruned
