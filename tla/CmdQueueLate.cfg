SPECIFICATION Spec
CONSTANTS
  Cmds = {c1, c2}
  Waiting = {c1}
  MaxStarts = 2
INVARIANTS
  DrainedStaysEmpty
CHECK_DEADLOCK FALSE
