SPECIFICATION Spec
CONSTANTS
  Clients = {c1}
  Domains = {d1, d2}
  Pages = {p1, p2}
  IovaOf <- SameIova
  PagesFor <- InOneDomain
  Buses <- OneBus
  BusOf <- AllOnBus0
  PassThroughCap = TRUE
  MaxPending = 2
  IotlbSize = 1
SYMMETRY UnitSymmetry
INVARIANTS
  UnbindRevokes
  BindConfines
  LinesTagged
  InvalidateConfirms
