SPECIFICATION PartsSpec
CONSTANTS
  NodeCount = 2
  MaxMappings = 2
  MaxId = 3
  MaxBdf = 2
  Capacity = 1
  Requester = 1
  Sessions <- SmallSessions
  TableLength = 12
  MaxUsize = 15
  NodeHeader = 3
  MinLengths <- SmallMinLengths
  ElementSizes <- SmallSizes
  NodeLengths = {0, 3, 4, 6, 9}
  Offsets = {0, 2, 3, 4, 5, 6, 13}
  Counts = {0, 1, 2, 8}
INVARIANTS
  CycleIsReal
  StepsByRule
  UnclaimedReachesNone
  RangesAreClaims
  ElementsInside
PROPERTIES
  QueryReturns
CHECK_DEADLOCK FALSE
