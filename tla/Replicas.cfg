CONSTANTS
  Components = {"election", "one", "shared", "diskless", "role", "always", "everysec", "multi", "scripts"}
  Off = Off
  Pair = {p1, p2}
  Host = {"h1", "h2"}
  MaxSockets = 4
  MaxSlaveof = 3
  Script = {x1, x2}
  CacheSize = 1
  Sentinel = {p1, p2, p3}
  Cut = {p1, p2}
  Quorum = 2
  MaxEpoch = 1
  MaxEvents = 1
  Kinds = {"restart", "failover", "lost", "outdated", "s_down"}
  Nil = Nil
SPECIFICATION SuiteSpec
SYMMETRY Symmetry
INVARIANTS ElectionSafe SlavesConverge LinkMatches CrashLeavesAPast ScriptsKnown
