SPECIFICATION Spec
CONSTANTS
  TableLength = 6
  HeaderLength = 2
  MinLength <- SmallLengths
  ShortEntry = 1
  LongEntry = 2
  NamedEntry = 2
  Windows = {"u", "v"}
  Unit = "u"
  Space = 3
  Capacity = 1
  BlockLengths = {1, 3, 5, 6}
  UidLengths = {0, 1}
  Types = {"pad", "all", "end", "reserved", "stop", "select", "long select", "named", "start", "long start"}
INVARIANTS
  CursorInBounds
  SecondWalkClean
  AnswerCorrect
CHECK_DEADLOCK FALSE
