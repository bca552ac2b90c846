SPECIFICATION Spec
CONSTANTS
  inputRate = 9600
  Configs <- Decoders
  Word = 65536
  cicOrder = 3
  Levels = {0, 15}
  Lengths = {5, 16}
  MaxCalls = 5
INVARIANTS SumsExactly Convolves KeepsRate InBounds
