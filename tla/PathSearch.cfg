SPECIFICATION LayoutSpec
CONSTANTS
  Artist = {a1, a2, a3, a4, a5}
  Graphs <- TrackGraphs
  MaxHops = 3
INVARIANTS
  SearchSound
  SearchComplete
  OrderIsPath
PROPERTIES
  DrawnOrRefused
