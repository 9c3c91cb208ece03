SPECIFICATION Spec
CONSTANTS
  s1 = s1
  s2 = s2
  Stas = {s1, s2}
  Bmc = bmc
  Configs <- Mixed
  OneCpu = FALSE
  MaxFrames = 1
  MaxBroadcasts = 1
  MaxCmds = 1
  MaxStale = 1
INVARIANTS AnnouncedOnAir AwakeMeansEmpty DozeMatches
CONSTRAINT BitmapsWhole
CHECK_DEADLOCK FALSE
