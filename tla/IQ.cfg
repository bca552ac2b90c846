SPECIFICATION Spec
CONSTANTS
  N = 4
  Kind <- IQServer
  AvgFactor = 1
  FFTBatch = 1
  Signals = {"SIGINT", "SIGTERM"}
  Timed = TRUE
  Delayed = TRUE
  MaxSegments = 2
INVARIANTS TypeOK Conserved InOrder NoLossOnExit StopsInOrder AbortNeedsOverlap
