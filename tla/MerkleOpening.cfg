SPECIFICATION Spec
CONSTANTS
  Words = {0, 1}
  leafWords = 2
  Commitments <- MCCommitments
  Queries <- MCQueries
  Strange <- MCStrange
  Tampered <- MCTampered
INVARIANTS
  HonestIsAccepted
  AcceptedIsTheOpening
  HashedOnce
CHECK_DEADLOCK FALSE
