SPECIFICATION Spec
CONSTANTS
  UseCuda = FALSE
  EnableCudaGraph = FALSE
  EnableProfiling = TRUE
  TuningEnabled = FALSE
  GraphCapacity = 1
  ProfileCount = 0
  x = x
  y = y
  t = t
  v = v
  w = w
  small = small
  large = large
  broken = broken
  Shape = {small, large, broken}
  PlanShape = small
  OptShape <- MCOptShape
  InRange <- MCInRange
  Inferable <- MCInferable
  PlanBytes <- MCPlanBytes
  Input = {x}
  Output = {y}
  Local = {t, v}
  Constant = {w}
  AliasOf <- ViewOfLocal
  OpCount = 2
  CandidateCount <- OneCandidate
  DefaultCandidate <- OneCandidate
  Buffer = {b1, b2}
  Block = {m1}
  CallerStream = {}
  OwnedStream = owned
  TuningStream = tuning
  Faults = {"enqueue", "constants", "workspace"}
  MaxInFlight = 1
  MaxGroups = 2
  MaxClock = 2
  Nil = Nil
PROPERTIES ProfileIsOfWholeRun
