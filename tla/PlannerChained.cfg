SPECIFICATION Spec
CONSTANTS
  WideSize = 4
  DeepSize = 5
  Flattens = 2
  Bytes = {256}
  Value <- MCValue
  Graphs <- ChainedGraphs
  Nil = Nil
INVARIANT LiveValuesDisjoint
