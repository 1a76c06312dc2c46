CONSTANTS
  s1 = s1
  s2 = s2
  c1 = c1
  c2 = c2
  Station = {s1}
  Channel = {c1}
  StationOf <- OneStation
  Sensitivity <- UnitSensitivity
  Payload <- LivePayload
  QueueSize = 1
  EngineAttached = TRUE
  Window <- NoWindows
  MaxAccepted = 1
  MaxFaults = 0
  MaxRestarts = 0
  MaxClock = 0
SPECIFICATION Spec
CHECK_DEADLOCK FALSE
INVARIANT
  AlertNamesItsEvent
