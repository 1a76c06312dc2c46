CONSTANTS
  r1 = r1
  r2 = r2
  r3 = r3
  Reviewer = {r1, r2, r3}
  MaxEvents = 2
  MaxClock = 1
  MaxFaults = 2
SPECIFICATION Spec
CHECK_DEADLOCK FALSE
SYMMETRY Symmetry
INVARIANTS
  NothingLost
  AnswersMatchMoves
  ResolvedStamp
PROPERTY
  ImplementsWorkflow
