SPECIFICATION Spec
CONSTANTS
  LadderTop = 7
  MinBlake2sRows = 8
  MaxLogRows = 9
  RowCounts <- MCRowCounts
INVARIANTS
  NeverAboveHeight
  FillIsExact
CHECK_DEADLOCK FALSE
