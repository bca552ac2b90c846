SPECIFICATION Spec
CONSTANTS
  Sizes = {6, 7, 8, 9}
  Overlaps <- Around
  Factors = {0, 1, 2, 5}
  Word = 1048576
  MaxOptions = 4
INVARIANTS FramesWithin Wired
