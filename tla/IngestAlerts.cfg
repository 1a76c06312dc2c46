CONSTANTS
  s1 = s1
  s2 = s2
  c1 = c1
  c2 = c2
  Station = {s1, s2}
  Channel = {c1}
  StationOf <- OneStation
  Sensitivity <- UnitSensitivity
  Payload <- AlertPayload
  QueueSize = 1
  EngineAttached = TRUE
  Window <- OneWindow
  MaxAccepted = 2
  MaxFaults = 1
  MaxRestarts = 1
  MaxClock = 1
SPECIFICATION Spec
CHECK_DEADLOCK FALSE
INVARIANTS
  AlertsFollowEvents
  AlertFailuresBounded
  SuppressionAtDetection
