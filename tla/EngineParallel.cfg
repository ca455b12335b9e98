SPECIFICATION Spec
CONSTANTS
  e1 = e1
  a1 = a1
  a2 = a2
  p = p
  Engine = {e1}
  Context = {c1, c2}
  EngineOf <- MCEngineOf
  ConstantTensor = {w1}
  HasWorkspace = {c1, c2}
  Tuned = {}
  UsesGraph = {e1}
  Artifact = {a1, a2}
  Sha256 <- MCSha256
  Kernels <- MCKernels
  Builtin <- MCBuiltin
  FaultSets <- NoFaults
  MaxCalls = 1
  User = User
  Nil = Nil
PROPERTIES RunsIndependent
