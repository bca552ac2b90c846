SPECIFICATION FairSpec
CONSTANTS
  MinFreq = 20
  MaxFreq = 27
  FreqStep = 2
  Conversion <- Moves
  MaxFaults = 3
INVARIANT HonestWhileRunning
PROPERTIES DirectOnceLeft EveryHopHeard
