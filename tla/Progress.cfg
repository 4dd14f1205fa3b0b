SPECIFICATION Spec
CONSTANTS
  Components = {"failover", "link", "snapshots", "debug", "threads", "loop"}
  Off = Off
  NoOne = NoOne
  Nil = Nil
  Instance = {1, 2, 3}
  FirstMaster = 1
  Preference <- Ranks
  parallel_syncs = 1
  MaxElected = 1
  MaxEpoch = 2
  down_after_period = 2
  PING_PERIOD = 1
  INFO_PERIOD = 2
  MIN_LINK_RECONNECT_PERIOD = 1
  PUBLISH_SILENCE = 2
  TILT_PERIOD = 2
  MAX_PENDING_COMMANDS = 2
  AnswerTime = 1
  MaxAge = 3
  MaxTrouble = 1
  MaxJumps = 1
  Changes = 2
  MaxChanges = 3
  MaxCommands = 2
  MaxErrors = 1
  MaxCrashes = 1
  DebugCommands = 1
  DebugErrors = 2
  Type = {"close", "fsync"}
  MaxJobs = 2
  MaxFd = 2
  SetSizes = {2, 3}
INVARIANT Consistent
PROPERTIES FailoverEnds DeathIsNoticed LeftIsDone NeverBack
CHECK_DEADLOCK FALSE
