SPECIFICATION Spec
CONSTANTS
  Scalars <- MCScalars
  Wide <- MCWide
  FUEL = 2
  Sizes <- MCSizes
  Schedule <- MCSchedule
  Openings <- MCOpenings
  Checked <- MCChecked
  Messages <- MCMessages
  Clearings <- MCClearings
INVARIANTS
  ReaderFollowsWriter
  ChainBindsProof
  StagesAcceptAsItGoes
  AskedIsCharged
CHECK_DEADLOCK FALSE
