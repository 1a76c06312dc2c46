CONSTANTS
  SampleBits = 3
  StationWidth = 2
  ChannelWidth = 2
  MaxCount = 5
  StuckRun = 3
  RampRun = 3
  Guard = 2
  MaxIssues = 3
  Digit <- MCDigit
  MaxSamples = 6
  Code <- MCCode
  Incident <- MCIncident
  MaxIncidents = 4
  Span = 1
  Threshold = 1
  PerMilli = 2
  StoredFrame <- MCStoredFrame
  MaxStored = 4
  Perfect = 40
  ScoreLimit = 2
  DayLength = 2
  Now = 5
  p1 = p1
  p2 = p2
  p3 = p3
  Payload = {p1, p2, p3}
  Capacity = 2
  BaseDelay = 1
  DelayBits = 4
  MaxPushes = 5
  MaxClock = 4
  Duration <- MCDuration
  MonitorCapacity = 3
  MaxRecords = 5
  s1 = s1
  Station = {s1}
  Profile <- MCProfile
  Context <- MCContext
  Cell <- MCCell
  MaxBody = 6
  MaxSampleCount = 2
  QueueSize = 1
SPECIFICATION LibrarySpec
CHECK_DEADLOCK FALSE
INVARIANTS
  EncodedIsDecoded
  ScanFindsStretches
  ClustersAreChains
  ScoresAgree
  GapsAreSilences
  EveryPushCounted
  SnapshotOfLatest
  JudgedByOneProfile
  BatchIsItsFrames
PROPERTY
  BackoffHonoured
