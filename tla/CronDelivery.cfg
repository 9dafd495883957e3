SPECIFICATION CronSpec
CONSTANTS
  j1 = j1
  k1 = k1
  c1 = c1
  none = none
  Id = {j1}
  Key = {k1}
  Caller = {c1}
  NoKey = none
  RetryLimit = 2
  Bounds <- MCBounds
CHECK_DEADLOCK FALSE
INVARIANT SucceededIsNotRerun
