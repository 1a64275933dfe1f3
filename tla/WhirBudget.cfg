SPECIFICATION Spec
CONSTANTS
  INITIAL_K = 6
  SUBSEQ_K = 4
  INIT_RED = 3
  SUBSEQ_RED = 1
  RESIDUAL_MAX_LOG = 5
  MIN_MU = 15
  MAX_MU = 28
  MIN_R = 1
  MAX_R = 4
  MAX_M = 5
  LOG_Q = 10
  TARGET = 4
  RING_DEGREE = 8
  MAX_OOD = 3
  PRECISION = 8
  GRID_LOG = 12
  MAX_EXACT_M = 7
  MAX_COLS = 3
  MAX_RATE = 3
  M_MAX = 4
  B_MAX = 6
INVARIANTS
  LevelsAreTheVerifiers
  GreedIsLeast
  SlackAndThresholdAreLeast
  CertificateIsLeast
CHECK_DEADLOCK FALSE
