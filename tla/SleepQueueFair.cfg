SPECIFICATION FairSpec
CONSTANTS
  s1 = s1
  s2 = s2
  Stas = {s1}
  Bmc = bmc
  Configs <- Single
  OneCpu = FALSE
  MaxFrames = 2
  MaxBroadcasts = 0
  MaxCmds = 1
  MaxStale = 1
INVARIANTS TypeOK InOrder AcLenEnough
PROPERTIES ImplementsFlows EveryFrameLeaves
CHECK_DEADLOCK FALSE
