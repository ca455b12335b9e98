SPECIFICATION Spec
CONSTANTS
  UseCuda = TRUE
  EnableCudaGraph = TRUE
  EnableProfiling = TRUE
  TuningEnabled = TRUE
  GraphCapacity = 2
  ProfileCount = 2
  x = x
  y = y
  t = t
  v = v
  w = w
  small = small
  large = large
  broken = broken
  Shape = {small, large, broken}
  PlanShape = small
  OptShape <- MCOptShape
  InRange <- MCInRange
  Inferable <- MCInferable
  PlanBytes <- MCPlanBytes
  Input = {x}
  Output = {y}
  Local = {t, v}
  Constant = {w}
  AliasOf <- NoView
  OpCount = 2
  CandidateCount <- TwoThenOne
  DefaultCandidate <- OneCandidate
  Buffer = {b1, b2}
  Block = {m1}
  CallerStream = {s1}
  OwnedStream = owned
  TuningStream = tuning
  Faults = {"tuning", "modules", "capture", "launch", "elapsed"}
  MaxInFlight = 1
  MaxGroups = 2
  MaxClock = 6
  Nil = Nil
INVARIANTS
  KernelsMatchPlan ReplayMatchesSession GraphCacheBounded
  InFlightMemoryHeld AtMostOneUnfinishedTask
PROPERTIES ProfileIsOfWholeRun GraphCacheIsLru SessionFrozenWhilePending
