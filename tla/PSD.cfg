SPECIFICATION Spec
CONSTANTS
  N = 4
  Kind <- PSDFile
  AvgFactor = 2
  FFTBatch = 3
  Signals = {"SIGINT"}
  Timed = TRUE
  Delayed = FALSE
  MaxSegments = 6
INVARIANT AveragedTogether
