CONSTANTS
  BlockSize = 4096
  Wrap = 1048576
  Zero = Zero
  Word = Word
  Text = Text
  Code = Code
  Missing = Missing
  Other = Other
  Uniform <- MCUniform
  Contents <- MCContents
  FirstFiles <- MCFirstFiles
  MaxSizes <- MCMaxSizes
  PieceNames <- MCPieceNames
  MaxRuns = 3
  MaxFaults = 1
SPECIFICATION Spec
CHECK_DEADLOCK FALSE
INVARIANTS FilesSound PiecesSound ResparseKeepsImage
PROPERTIES Terminates
