CONSTANTS
  Proc = {"p1", "p2"}
  MaxStarts = 3

SPECIFICATION FairSpec

INVARIANTS
  Configured

PROPERTY ClockWaitEnds

CHECK_DEADLOCK FALSE
