CONSTANTS
  Components = {"one", "two", "growing", "resizing", "ziplist"}
  StringKey = {k1, k2}
  Off = Off
SPECIFICATION Spec
INVARIANTS SortedSetsRight WalksComplete ZiplistRight
PROPERTIES ImplementsSortedSets ImplementsMap
