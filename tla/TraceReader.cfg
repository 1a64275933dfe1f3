SPECIFICATION Spec
CONSTANTS
  Ord = 15
  Zech <- Zech16
  Compress <- MCCompress
  NoWord = NoWord
  NoInstr = NoInstr
  NoRegs = NoRegs
  MinCells = 2
  MaxCells = 8
  MaxReads = 14
  Arguments <- MCArguments
INVARIANTS
  LookupsSound
  RowsAreSteps
  WitnessYieldsTrace
CHECK_DEADLOCK FALSE
