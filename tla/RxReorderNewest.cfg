\* A frame newer than all before it is dropped as an old one.
SPECIFICATION Spec
CONSTANTS
  SeqMod = 12
  Half = 6
  WSize = 2
  GapMax = 2
  First = 8
  Last = 10
  MaxAddba = 1
PROPERTY NewestIsKept
CHECK_DEADLOCK FALSE
