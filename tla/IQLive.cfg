SPECIFICATION FairSpec
CONSTANTS
  N = 3
  Kind <- IQFloatFile
  AvgFactor = 1
  FFTBatch = 1
  Signals = {"SIGINT"}
  Timed = TRUE
  Delayed = TRUE
  MaxSegments = 2
PROPERTIES StopCompletes Delivered
