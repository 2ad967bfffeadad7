SPECIFICATION FairSpec
CONSTANTS
  s1 = s1  s2 = s2  s3 = s3  f1 = f1  f2 = f2
  Settings = {s1, s2, s3}
  Refused = {s2}
  Unsupported = {s3}
  Unset = Unset
  Frames = {f1, f2}
  NoFrame = NoFrame
  MaxSessions = 2
  MaxConfigures = 2
  CmdAttempts = 2
  HostQueue = 1
INVARIANTS TunedToSettings SentMeansTransmitted
PROPERTIES TransmitterComesBack
CHECK_DEADLOCK FALSE
