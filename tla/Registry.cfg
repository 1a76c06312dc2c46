CONSTANTS
  a = a
  y = y
  z = z
  c1 = c1
  c2 = c2
  Code = {a}
  ChannelCode = {y, z}
  Client = {c1, c2}
  MaxStations = 2
  MaxChannels = 2
  MaxEvents = 2
  MaxFaults = 1
SPECIFICATION Spec
CHECK_DEADLOCK FALSE
SYMMETRY Symmetry
INVARIANTS
  GrantedOnce
  RetiredWereHandled
PROPERTY
  StatusFollowsLifecycle
