SPECIFICATION Spec
CONSTANTS
  e1 = e1
  a1 = a1
  a2 = a2
  p = p
  Engine = {e1}
  Context = {c1, c2}
  EngineOf <- MCEngineOf
  ConstantTensor = {w1}
  HasWorkspace = {c1}
  Tuned = {e1}
  UsesGraph = {e1}
  Artifact = {a1, a2}
  Sha256 <- MCSha256
  Kernels <- MCKernels
  Builtin <- MCBuiltin
  FaultSets <- MCFaultSets
  MaxCalls = 2
  User = User
  Nil = Nil
INVARIANTS TypeOK ReferencesMatchHolders ModulesLoadedOnce FunctionsStayLoaded
PROPERTIES BackendsStable SharedInitializedOnce CallsReturn
