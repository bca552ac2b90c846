SPECIFICATION FairSpec
CONSTANTS
  Requests <- AsksAgain
  MayHurry = FALSE
  Signalled = FALSE
  MaxStarts = 4
  MaxFailures = 0
  StraySelect = {"open"}
PROPERTY DecoderFollows
