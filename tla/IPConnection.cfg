SPECIFICATION Spec
CONSTANTS
  MaxConnects = 2
  MaxWrites = 3
  Careful = TRUE
  Resets = TRUE
  Again = TRUE
INVARIANTS PeerGetsWhatWasWritten
CHECK_DEADLOCK FALSE
