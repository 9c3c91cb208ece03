\* Two callers, pid reuse by other programs, stale pid files.
SPECIFICATION FairSpec
CONSTANTS
  Callers = {c1, c2}
  Pids = {p1, p2}
  NoPid = NoPid
  Commands = {"start", "stop", "restart"}
  Confs = {"ok"}
  MaxPolls = 1
  MaxLife = 1
  Reuses = TRUE
INVARIANTS
  TypeOK
  PidFileNamesSquid
PROPERTIES
  ImplementsDaemon
  EveryCallEnds
