SPECIFICATION Spec
CONSTANTS
  MaxConnects = 1
  MaxWrites = 2
  Careful = TRUE
  Resets = TRUE
  Again = FALSE
INVARIANTS UsesLivePcb
CHECK_DEADLOCK FALSE
