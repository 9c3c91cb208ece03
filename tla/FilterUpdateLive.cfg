\* Convergence after faults and outages, trackers compiled and downloaded in place.
SPECIFICATION FairSpec
CONSTANTS
  Runs = {r1}
  Archives <- NoLists
  Bump = "bumpdomains"
  InPlace <- Trackers
  Ads <- EasyList
  DnsLists = {}
  ExprLists = {"easylist"}
  Nets = {"up", "flaky"}
  WorkDirs = {"elsewhere", "scripts"}
  MaxPub = 2
  MaxFaults = 1
PROPERTIES
  FreshFilter
