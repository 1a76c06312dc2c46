CONSTANTS
  s1 = s1
  s2 = s2
  c1 = c1
  c2 = c2
  Station = {s1, s2}
  Client = {c1, c2}
  MaxWindows = 2
  MaxTime = 3
  MaxFaults = 1
SPECIFICATION Spec
CHECK_DEADLOCK FALSE
SYMMETRY Symmetry
INVARIANTS
  DisjointUnlessOvertaken
PROPERTIES
  WindowsMoveForward
