SPECIFICATION Spec
CONSTANTS
  Int64Max = 255
  SizeModulus = 512
  Int32Max = 63
  UInt32Max = 127
  Block = 4
  RowBlock = 4
  Tiles <- MCTiles
  Value <- MCValue
  Models <- LongRows
  Requests <- MCRequests
  Nil = Nil
INVARIANTS LaunchWritesOutput
