SPECIFICATION Spec
CONSTANTS
  RootTables = {r1, r2}
  RemapTables = {i1}
  UnitRoot = r1
  Timeouts = TRUE
INVARIANTS
  PromisesKept
  EnabledMeansReady
