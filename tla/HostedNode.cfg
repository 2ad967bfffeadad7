SPECIFICATION FairSpec
CONSTANTS
  pm = pm
  Plans = {pm}
  AirPlans = {pm}
  Bare = Bare
  MaxChanges = 2
  MaxFaults = 1
INVARIANTS CarriesWhatIsAttached AskedIsNotAFailure
CHECK_DEADLOCK FALSE
PROPERTIES ComesBack AirSensorIsFound
