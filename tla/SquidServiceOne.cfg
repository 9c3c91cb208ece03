\* One caller, the limit of the script, a squid that exits in time.
SPECIFICATION Spec
CONSTANTS
  Callers = {c1}
  Pids = {p1, p2, p3}
  NoPid = NoPid
  Commands = {"start", "stop", "restart", "reload"}
  Confs = {"ok", "fatal"}
  MaxPolls = 24
  MaxLife = 22
  Reuses = FALSE
SYMMETRY Symmetry
CONSTRAINT NoLookTooEarly
INVARIANTS
  WaitIsBounded
PROPERTIES
  StopLeavesNone
  RestartLeavesProxy
