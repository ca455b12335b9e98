SPECIFICATION Spec
CONSTANTS
  WideSize = 4
  DeepSize = 5
  Flattens = 1
  Bytes = {256, 300}
  Value <- MCValue
  Graphs <- MCGraphs
  Nil = Nil
INVARIANTS TypeOK BlocksDisjoint LiveValuesDisjoint PlanFitsWorkspace ViewsShareStorage
