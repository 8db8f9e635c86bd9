SPECIFICATION Spec
CONSTANTS
  c1 = c1  c2 = c2  k1 = k1  k2 = k2
  Requests = {r1, r2}
  FrontCount = 2
  RetryTimes = 1
  Codes = {c1, c2}
  Keys = {k1, k2}
  KeyOf <- TwoKeys
  Saved <- OneSaved
  NoCode = NoCode
  NoId = NoId
CHECK_DEADLOCK FALSE
PROPERTIES
  DeployedNotTouched
