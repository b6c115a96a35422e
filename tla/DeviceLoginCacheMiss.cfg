SPECIFICATION Spec
CONSTANTS
  b1 = b1
  b2 = b2
  w1 = w1
  w2 = w2
  Browsers = {b1}
  Workers = {w1, w2}
  Faults = {"slow"}
  Joined = {TRUE}
  MaxRestarts = 0
INVARIANTS
  CacheMissIsSafe
CHECK_DEADLOCK FALSE
