SPECIFICATION LinkFairSpec
CONSTANTS
  s1 = s1
  s2 = s2
  Settings <- MCSettings
  First = s1
  SeedKey = SeedKey
  OtherKey = OtherKey
  Unset = Unset
  MaxTries = 1
  QueueLen = 2
  MaxWaiting = 2
  MaxUpdates = 1
  MaxLinkFaults = 1
INVARIANTS ForeignNeedsAReading QuietIsSettled
PROPERTIES KeyArrives SettingsArrive PushingEnds
CHECK_DEADLOCK FALSE
