SPECIFICATION FairSpec
CONSTANTS
  b1 = b1
  b2 = b2
  w1 = w1
  w2 = w2
  Browsers = {b1, b2}
  Workers = {w1, w2}
  Faults = {"error", "terminal", "slow", "reply"}
  Joined = {TRUE, FALSE}
  MaxRestarts = 1
CHECK_DEADLOCK FALSE
INVARIANTS
  TypeOK
  OneProvisionAtATime
  EnrolledIsRecorded
PROPERTIES
  LoginsConclude
