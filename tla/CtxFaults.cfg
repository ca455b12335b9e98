SPECIFICATION Spec
CONSTANTS
  UseCuda = TRUE
  EnableCudaGraph = FALSE
  EnableProfiling = TRUE
  TuningEnabled = TRUE
  GraphCapacity = 1
  ProfileCount = 2
  x = x
  y = y
  t = t
  v = v
  w = w
  small = small
  large = large
  broken = broken
  Shape = {small, large, broken}
  PlanShape = small
  OptShape <- MCOptShape
  InRange <- MCInRange
  Inferable <- MCInferable
  PlanBytes <- MCPlanBytes
  Input = {x}
  Output = {y}
  Local = {t, v}
  Constant = {w}
  AliasOf <- ViewOfInput
  OpCount = 2
  CandidateCount <- TwoThenOne
  DefaultCandidate <- OneCandidate
  Buffer = {b1, b2}
  Block = {m1}
  CallerStream = {}
  OwnedStream = owned
  TuningStream = tuning
  Faults = {"constants", "modules", "workspace", "tuning", "tuneInFlight", "kernel", "cudaInit", "current", "enqueue", "syncAborted", "syncRejected", "elapsed"}
  MaxInFlight = 1
  MaxGroups = 4
  MaxClock = 2
  Nil = Nil
INVARIANTS TypeOK ResolvedShapeIsRequested PreparedViewsCurrent
