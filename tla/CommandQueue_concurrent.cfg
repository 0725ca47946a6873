SPECIFICATION ThreadFairSpec
CONSTANTS
  Threads = {t1, t2}
  EntryCount = 2
  PollLimit = 2
  Faults = {"timeout", "read_head", "check_error"}
  MaxTickets = 5
  MaxInstalls = 2
INVARIANTS
  CapacityNeverUnderflows
  SlotExclusive
  DescriptorIntact
PROPERTIES
  TailInOrder
  RetiredMovesForward
  ImplementsOrdered
  SubmitReturns
