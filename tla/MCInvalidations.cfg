SPECIFICATION ClientsSpec
CONSTANTS
  WordBits = 6
  AddressBits = 4
  GranuleMasks = {0, 1, 2}
  MaxMasks = {0, 1, 3, 5}
  MaxCount = 20
  Threshold = 5
  i1 = i1
  i2 = i2
  i3 = i3
  s1 = s1
  s2 = s2
  Tables = {i1, i2, i3}
  SizeBits <- SmallSizeBits
  HalfRange = 2
  UsedEntries = {2}
  Subhandles = {0, 1}
  Deliveries <- SmallDeliveries
  ApicShift = 1
INVARIANTS
  NoUnderflow
  OkCoversRange
  BlocksAcceptable
  ComposedDelivered
  OpenOnlyWhileSet
CHECK_DEADLOCK FALSE
