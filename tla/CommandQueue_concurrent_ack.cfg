SPECIFICATION Spec
CONSTANTS
  Threads = {t1, t2}
  EntryCount = 4
  PollLimit = 1
  Faults = {}
  MaxTickets = 4
  MaxInstalls = 1
SYMMETRY ThreadSymmetry
INVARIANTS
  AckedExecuted
