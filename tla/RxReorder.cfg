SPECIFICATION FairSpec
CONSTANTS
  SeqMod = 12
  Half = 6
  WSize = 2
  GapMax = 2
  First = 10
  Last = 13
  MaxAddba = 2
INVARIANTS
  TypeOK
  NoStall
  PendingSorted
  WaitingMeansTimer
PROPERTIES
  ImplementsOrderedDelivery
  EveryFrameLeaves
CHECK_DEADLOCK FALSE
