SPECIFICATION SetSpec
CONSTANTS
  Space = 9
  Capacity = 3
INVARIANTS
  Canonical
PROPERTIES
  ImplementsSet
