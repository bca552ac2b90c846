SPECIFICATION Spec
CONSTANTS
  Requests <- Asks
  MayHurry = TRUE
  Signalled = TRUE
  MaxStarts = 3
  MaxFailures = 1
  StraySelect = {"open", "closed", "outside"}
INVARIANTS RestartJoins OneDecoder OrphanNeedsSignal
PROPERTY MismatchIsTransient
CHECK_DEADLOCK FALSE
