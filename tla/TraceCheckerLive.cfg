SPECIFICATION Spec
CONSTANTS
  Ord = 15
  Zech <- Zech16
  Compress <- MCCompress
  NoWord = NoWord
  NoInstr = NoInstr
  NoRegs = NoRegs
  NoTrace = NoTrace
  Programs <- LoopingPrograms
  Images <- LoopingImages
  PublicInputs <- MCPublicInputs
  HintLists <- MCHintLists
  Budgets = {0, 1, 2, 3, 5}
  MinCells = 4
  MaxCells = 4
  LongestRun = 9
  Starts <- MCStarts
  Exports <- MCExports
PROPERTY Terminates
CHECK_DEADLOCK FALSE
