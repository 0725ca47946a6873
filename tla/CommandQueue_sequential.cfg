SPECIFICATION FairSpec
CONSTANTS
  Threads = {t1}
  EntryCount = 4
  PollLimit = 1
  Faults = {}
  MaxTickets = 9
  MaxInstalls = 1
INVARIANTS
  AckedExecuted
  FetchesPublishedOnly
PROPERTIES
  EveryTicketAcked
