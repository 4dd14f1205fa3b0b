SPECIFICATION MapSpec
CONSTANTS
  Artist = {a, b}
  Nobody = Nobody
  MaxRequests = 1
  MaxDraws = 2
  MaxElements = 2
INVARIANTS
  MapAgrees
