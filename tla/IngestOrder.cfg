CONSTANTS
  s1 = s1
  s2 = s2
  c1 = c1
  c2 = c2
  Station = {s1}
  Channel = {c1, c2}
  StationOf <- OneStation
  Sensitivity <- UnitSensitivity
  Payload <- OrderPayload
  QueueSize = 2
  EngineAttached = FALSE
  Window <- NoWindows
  MaxAccepted = 3
  MaxFaults = 1
  MaxRestarts = 1
  MaxClock = 0
SPECIFICATION Spec
CHECK_DEADLOCK FALSE
INVARIANTS
  TypeOK
  GapFromNewestRow
  SnapshotIsLastInsert
  AtMostOneLateFrame
  LossNeedsFault
PROPERTIES
  ImplementsFrameLog
  QuietAfterStop
