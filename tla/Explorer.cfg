SPECIFICATION Spec
CONSTANTS
  Artist = {a, b}
  Nobody = Nobody
  MaxRequests = 2
  MaxDraws = 2
INVARIANTS
  LockKept
  WaitingIsSafe
PROPERTIES
  UnlockedAgain
