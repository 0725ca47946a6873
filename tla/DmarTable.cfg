SPECIFICATION Spec
CONSTANTS
  TableLength = 14
  HeaderLength = 2
  ScopeHeader = 2
  MinLength <- SmallLengths
  Windows = {"w", "x"}
  Segments = {0, 1}
  Space = 3
  Capacity = 1
  Kinds = {"DRHD", "RMRR", "ATSR", "RHSA", "ANDD", "SATC", "SIDP", "Unknown"}
  StructureLengths = {0, 6, 8, 13}
  ScopeLengths = {0, 2, 3, 4, 9}
  Sessions <- SmallSessions
INVARIANTS
  CursorInBounds
  AnswersCorrect
PROPERTIES
  QueryReturns
CHECK_DEADLOCK FALSE
