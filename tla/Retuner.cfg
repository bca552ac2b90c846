SPECIFICATION FairSpec
CONSTANTS
  Freq0 = 50
  Gain0 = 20
  Conversations <- Messages
  Conversion <- Moves
  MaxQueue = 2
  MaxFaults = 1
 
PROPERTIES Follows GainFollows LabelsSettle
