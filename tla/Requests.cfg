CONSTANTS
  Components = {"parser", "transactions", "blocking", "scripting", "replies", "clients", "pubsub"}
  Off = Off
  NoOne = NoOne
  Client = {p1, p2}
  Trio = {c1, c2, c3}
  Key = {"k1", "k2"}
  Reason = {"oom"}
  Cmd <- TxCommands
  MaxWrites = 3
  MaxQueue = 2
  MaxRefused = 1
  MaxErrors = 2
  BufSize = 2
  Chunk = 3
  Overhead = 1
  MinReply = 1
  MaxReply = 3
  MaxBytes = 9
  Hard = 9
  Soft = 6
  SoftSeconds = 1
  MaxTime = 2
  ReplStates = {"none", "wait_bgsave"}
SPECIFICATION SuiteSpec
SYMMETRY Symmetry
VIEW View
INVARIANTS ExecutedAsSent TransactionsSafe NoLostWakeup ScriptsStopCleanly RepliesInOrder ListsExact
PROPERTY ServedFairly
