SPECIFICATION CompileSpec
CONSTANTS
  Size = 3
  Observed = FALSE
  EnableTransformerFusions = TRUE
  Value <- MCValue
  Graphs <- CompiledGraphs
  Inputs <- MCInputs
  NodeName <- MCNodeName
  Compilations <- MCCompilations
  PlannedBytes = {0, 300}
INVARIANTS
  CompileTypeOK OptimizedGraphRuns SelectedRunsOneKernel
  CandidatesCompute KernelsSuitTensors TemporariesApart
PROPERTIES OutputsPreserved CompileReturns
