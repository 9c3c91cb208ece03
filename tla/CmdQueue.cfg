SPECIFICATION FairSpec
CONSTANTS
  Cmds = {c1, c2}
  Waiting = {c1}
  MaxStarts = 2
INVARIANTS
  TypeOK
  SctxAlive
  NoLostWakeup
PROPERTIES
  StopReturns
  EveryCommandLeaves
CHECK_DEADLOCK FALSE
