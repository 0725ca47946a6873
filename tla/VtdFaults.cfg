SPECIFICATION Spec
CONSTANTS
  RecordCount = 2
  MaxFaults = 4
  Raisable = {"AFO", "ITE"}
  MaxRaises = 2
  Messages = {m1, m2}
  MaxRoutes = 3
INVARIANTS
  FaultsFifo
  UnseenStays
  NoLostWakeup
PROPERTIES
  OverflowReported
  FaultsReported
