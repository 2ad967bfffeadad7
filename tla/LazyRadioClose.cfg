SPECIFICATION FairSpec
CONSTANTS
  s1 = s1  s2 = s2  d1 = d1  d2 = d2  r1 = r1
  Settings = {s1, s2}
  First = s1
  Devices = {d1, d2}
  Configured = d1
  Requests = {r1}
  Boot = Boot
  Unset = Unset
  MaxLosses = 2
  MaxChanges = 2
PROPERTIES CloseReturns
CHECK_DEADLOCK FALSE
