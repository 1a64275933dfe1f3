SPECIFICATION MCSpec
CONSTANTS
  MAX_EDITS = 4
INVARIANTS
  LayersHoldAlongChains
  RootsReachEverything
  SuitesTestTheGates
CHECK_DEADLOCK FALSE
