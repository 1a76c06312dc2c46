CONSTANTS
  k1 = k1
  k2 = k2
  k3 = k3
  k4 = k4
  k5 = k5
  r1 = r1
  r2 = r2
  A = A
  B = B
  n = n
  Caller = {k1, k2}
  Event <- MCEvent
  Finding <- MCFinding
  Setting <- MCSetting
  Hour = 1
  Minute = 1
  ListLimit = 1
  MaxAlerts = 3
  MaxClock = 2
  MaxSets = 1
  RuleCode = {"A", "a"}
  Upper <- MCUpper
  Rule = {r1, r2}
  MaxHour = 3
  Filterer = {k3}
  Batch <- MCBatch
  MaxWrites = 2
  Client = {k4, k5}
  Code = {A, B}
  Name = {n}
  MaxGroups = 1
  MaxFaults = 1
  Span <- MCSpan
  MaxFrames = 4
  DefaultPageLimit = 1
  MaxPageLimit = 2
  AskedLimit = {1, 2, 3}
  MaxWalks = 1
SPECIFICATION Spec
CHECK_DEADLOCK FALSE
SYMMETRY Symmetry
INVARIANTS
  HourlyCapBounded
  FilterAgreesWithActive
  GroupsComplete
  WalkSeesEachOnce
PROPERTIES
  DuplicatesExplained
  DryRunForetells
