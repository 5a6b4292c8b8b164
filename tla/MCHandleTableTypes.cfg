CONSTANTS
  MaxId = 2
  MaxUses = 3
  Gens = 4
SPECIFICATION Spec
PROPERTIES
  TypeAsAsked
CHECK_DEADLOCK FALSE
