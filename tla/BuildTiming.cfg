SPECIFICATION Spec
CONSTANTS
  Calls <- MCCalls
  Unprintable = {"bytes"}
  Logs = {"a.log", "b.log"}
  Output = {"x"}
  Codes <- MCCodes
  FirstWrites <- MCFirstWrites
  MaxRuns = 2
  MaxOutput = 1
INVARIANTS
  FilesTellRuns
PROPERTIES
  ReportTellsRuns
CHECK_DEADLOCK FALSE
