SPECIFICATION FairSpec
CONSTANTS
  n1 = n1  n2 = n2  t1 = t1  b1 = b1  r1 = r1
  Identities = {n1, n2}
  Own = {t1}
  Heard = {r1}
  Texts = {t1}
  Sealed = {}
  Admins = {a1}
  Roles = {"router", "monitor"}
  Prio <- MCPrio
  Origin <- MCOrigin
  Ms <- MCMs
  MaxHop = 1
  QueueMax = 1
  DutyLimit = 2
  MaxDefers = 1
  MaxTries <- MCTwice
  MaxSwitches = 1
  None = None
PROPERTIES EveryCopyLeaves EveryTextResolves
CHECK_DEADLOCK FALSE
