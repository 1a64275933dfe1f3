SPECIFICATION Spec
CONSTANTS
  PROCEDURAL_LIMIT = 1
  DESCRIPTIVE_LIMIT = 2
INVARIANTS
  ReportIsTheChange
  ExemptStaysOut
  ShownProseIsReported
  EveryWordInOneSentence
CHECK_DEADLOCK FALSE
