\* One run at a time, two ad lists, a network that may show a portal page.
SPECIFICATION Spec
CONSTANTS
  Runs = {r1}
  Archives <- OneArchive
  Bump = "bumpdomains"
  InPlace <- NoLists
  Ads <- BothAds
  DnsLists = {}
  ExprLists = {"easylist", "easyprivacy"}
  Nets = {"up", "portal"}
  WorkDirs = {"elsewhere"}
  MaxPub = 1
  MaxFaults = 1
INVARIANTS
  TypeOK
  AdListsAreLists
  EmptyOnlyWhileConverting
  ReloadDelivers
PROPERTIES
  FrozenWhileJunk
