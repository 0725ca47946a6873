SPECIFICATION FairSpec
CONSTANTS
  Threads = {t1, t2}
  EntryCount = 2
  PollLimit = 1
  Faults = {}
  MaxTickets = 3
  MaxInstalls = 1
PROPERTIES
  EveryCommittedExecuted
