SPECIFICATION Spec
CONSTANTS
  n1 = n1  n2 = n2  t1 = t1  b1 = b1  r1 = r1
  Identities = {n1, n2}
  Own = {t1, b1}
  Heard = {r1}
  Texts = {t1}
  Sealed = {t1}
  Admins = {a1}
  Roles = {"client", "off"}
  Prio <- MCPrio
  Origin <- MCOrigin
  Ms <- MCMs
  MaxHop = 1
  QueueMax = 2
  DutyLimit = 2
  MaxDefers = 1
  MaxTries <- MCOnce
  MaxSwitches = 2
  None = None
INVARIANTS NoSecondTransmission DutyBounded QuietWhenOff QueuedIsAccountedFor
PROPERTIES AckIsFinal OwnLeavesOnlyForAReason
CHECK_DEADLOCK FALSE
