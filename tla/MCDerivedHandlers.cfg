SPECIFICATION MCSpec
CONSTANTS
  g1 = g1
  g2 = g2
  h0 = h0
  h1 = h1
  h2 = h2
  x = x
  y = y
  None = None
  Goroutines <- MCGoroutines
  Ids <- MCIds
  Root = h0
  Values <- MCValues
  AttrLists <- MCAttrLists
  Names <- MCNames
  Spare = 1
  MaxArrays = 3
  Statuses <- MCStatuses
  Sizes = {0, 2}
  MaxCalls = 4
  Setups <- MCSetups
SYMMETRY MCSymmetry
INVARIANTS
  TypeOK
  RequestTypeOK
  OneRecord
  EndsAlike
  TrueUnlessMisled
  BytesAreTaken
PROPERTY
  ImplementsValues
CHECK_DEADLOCK FALSE
