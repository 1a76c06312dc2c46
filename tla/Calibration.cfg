CONSTANTS
  j1 = j1
  j2 = j2
  k1 = k1
  k2 = k2
  k3 = k3
  Job = {j1, j2}
  Client = {k1, k2, k3}
  Order <- MCOrder
  Report <- MCReport
  MaxClock = 2
  MaxFaults = 1
SPECIFICATION Spec
CHECK_DEADLOCK FALSE
SYMMETRY Symmetry
INVARIANTS
  FinalStateJustified
PROPERTIES
  AloneFollowsLifecycle
  LeavesPendingOnce
