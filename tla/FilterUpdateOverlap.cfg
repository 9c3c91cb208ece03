\* Two runs at a time: one from cron, one started by hand.
SPECIFICATION Spec
CONSTANTS
  Runs = {r1, r2}
  Archives <- NoLists
  Bump = "bumpdomains"
  InPlace <- NoLists
  Ads <- EasyList
  DnsLists = {}
  ExprLists = {"easylist"}
  Nets = {"up"}
  WorkDirs = {"elsewhere"}
  MaxPub = 2
  MaxFaults = 1
INVARIANTS
  UnreadableOnlyInWindow
  LeftoverNeverOlder
