SPECIFICATION Spec
INVARIANTS
  ProseIsTheComments
  ReportsWhatLeanSees
CHECK_DEADLOCK FALSE
