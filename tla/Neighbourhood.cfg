SPECIFICATION Spec
CONSTANTS
  Artist = {1, 2, 3, 4, 5}
  Genre = {g1}
  Null = Null
  Databases <- SmallDatabases
  Requests <- SmallRequests
  MinNeighbours = 1
  MinGenreNeighbours = 1
INVARIANTS
  GoodNeighbourhood
  ClosestFirst
PROPERTIES
  AnsweredUnlessNoCandidate
