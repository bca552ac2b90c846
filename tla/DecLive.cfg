SPECIFICATION FairSpec
CONSTANTS
  Requests <- Asks
  MayHurry = FALSE
  Signalled = FALSE
  MaxStarts = 5
  MaxFailures = 1
  StraySelect = {"open"}
PROPERTIES StopReturns Converges AcceptedReplaced StopRequestEnds
