CONSTANTS
  MaxId = 3
  MaxUses = 4
  Gens = 3
SPECIFICATION Spec
INVARIANTS
  OneHandlePerId
  GenIsAge
CHECK_DEADLOCK FALSE
