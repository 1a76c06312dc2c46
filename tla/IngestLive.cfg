CONSTANTS
  s1 = s1
  s2 = s2
  c1 = c1
  c2 = c2
  Station = {s1}
  Channel = {c1}
  StationOf <- OneStation
  Sensitivity <- UnitSensitivity
  Payload <- LivePayload
  QueueSize = 2
  EngineAttached = TRUE
  Window <- NoWindows
  MaxAccepted = 3
  MaxFaults = 1
  MaxRestarts = 1
  MaxClock = 0
SPECIFICATION FairSpec
CHECK_DEADLOCK FALSE
PROPERTIES
  StopTerminates
  EveryFrameTaken
