SPECIFICATION Spec
CONSTANTS
  Ord = 15
  Zech <- Zech16
  Compress <- MCCompress
  NoWord = NoWord
  NoInstr = NoInstr
  NoRegs = NoRegs
  NoTrace = NoTrace
  Programs <- MCPrograms
  Images <- MCImages
  PublicInputs <- MCPublicInputs
  HintLists <- MCHintLists
  Budgets = {0, 1, 3}
  MinCells = 4
  MaxCells = 4
  LongestRun = 9
  Starts <- MCStarts
  Exports <- MCExports
INVARIANTS
  TypeOK
  AcceptedIsValid
  VerdictIsExact
  AnnouncedCountIsExact
PROPERTIES
  ImplementsMachine
CHECK_DEADLOCK FALSE
