SPECIFICATION RTSpec
CONSTANTS
  Ord = 511
  Zech <- Zech512
  Compress <- MCCompress
  NoWord = NoWord
  NoInstr = NoInstr
  NoRegs = NoRegs
  MinCells = 144
  MaxCells = 288
  MaxReads = 510
  LadderTop = 1
  MinBlake2sRows = 2
  MaxLogRows = 4
  Jobs <- MCJobs
INVARIANTS
  NumberedReads
  BuiltWitnessSatisfies
  TraceKept
  HandedOverIsArgument
  RunComesBack
PROPERTIES
  FillsAsCounted
  WalkImplementsMachine
CHECK_DEADLOCK FALSE
