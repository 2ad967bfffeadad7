SPECIFICATION FairSpec
CONSTANTS
  h1 = h1  h2 = h2  h3 = h3
  Hosts = {h1, h2, h3}
  Keepers = {h1}
  Spans <- MCSpans
  InitSpan <- MCInitSpan
  Limits = {1, 2}
  MaxLimit = 2
  Ms = 2
  MaxFrames = 4
  MaxRetunes = 1
  None = None
INVARIANTS TurnIsHeld NoLostWakeup BudgetBounded DisjointInSend
PROPERTIES TurnsAreExclusive WaiterIsServed
CHECK_DEADLOCK FALSE
