SPECIFICATION Spec
CONSTANTS
  Requests = {r1, r2}
  MaxSubmits = 2
  MaxUpgrades = 1
  MaxFaults = 1
  MaxSuffix = 2
  r1 = r1
  r2 = r2
SYMMETRY Symmetry
CHECK_DEADLOCK FALSE
INVARIANTS
  TypeOK
  NeverLeftEmpty
  SavedTogether
  RangeKept
