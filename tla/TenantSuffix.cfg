SPECIFICATION Spec
CONSTANTS
  t1 = t1
  t2 = t2
  t3 = t3
  s1 = s1
  s2 = s2
  s3 = s3
  l1 = l1
  l2 = l2
  l3 = l3
  Tenants = {t1, t2}
  Suffixes = {s1, s2}
  DefaultSuffix <- MCDefaultSuffix
  PoolSize = 2
  Logins = {l1, l2}
  Requests = {"login", "relogin", "delete"}
  Faults = {"list", "stop"}
  Unset = Unset
INVARIANTS
  TypeOK
  SuffixesDistinct
PROPERTIES
  SuffixImmutable
SYMMETRY LoginSymmetry
CHECK_DEADLOCK FALSE
