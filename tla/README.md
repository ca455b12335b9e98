# CUTriton in TLA+

CUTriton compiles a static neural-network graph into a plan of Triton kernels
and runs the plan on a CUDA stream. This directory holds TLA+ modules of the
parts of it that are hardest to test, TLC configurations that check them on
small instances, and proofs that the TLAPS proof system checks for every
instance. Paths below are relative to the repository (`src/runtime/engine.cpp`
is the runtime, and so on).

## The system

```
 Model/Graph --CompileOptions--> Compiler --ExecutablePlan--> Engine --> ExecutionContext (one per caller)
   |  graph passes (pass.cpp, op schemas)        |              |  EngineState: constants,       |  streams
   |  lowering to candidates (backend.cpp,       |              |  CudaModuleCache (call_once,   |  CUDA graph LRU
   |    kernel_artifact.cpp)                     |              |  shared by all Contexts)       |  profiler
   |  MemoryPlanner, per shape profile           |              |                                |  tuning cache (files)
```

| Component (source) | State | Operations | Hard behaviour | What makes it correct |
| --- | --- | --- | --- | --- |
| Execution context (`engine.cpp`, `engine.h`) | profile, input shapes, resolved graph, bound and prepared tensors, workspace, kernels, candidates, pending flag, CUDA graphs, active stream, profile | BindInput/Output, SelectShapeProfile, SetInputShape, ResolveShapes, RunAsync, Synchronize, destruction | the device runs while the caller goes on; each lazy stage of RunAsync may fail and be retried; a captured graph outlives the session it was captured in | nothing stale is submitted or replayed; work in flight keeps its memory and session; a failed call leaves a Context that is right again |
| Engine state (`engine.cpp:338-402`) | constants, module cache, the Engine's and its Contexts' shares of both | the two `call_once` initialisations, destruction of Engine and Contexts in any order | several Contexts at once, on threads of their own; outcome memoised, also a failure; a Context may outlive its Engine | initialised once, everyone sees the outcome, nobody waits for ever, what is used is kept |
| Tuning cache (`engine.cpp:248-335, 725-891`) | `<key>.json`, `<key>.json.tmp` | read, measure, write, rename, remove-and-retry | several processes on one directory, crashes between file operations | a published entry is whole, stays, and is used |
| Memory planner (`memory_planner.cpp`) | last uses, free and live blocks, assigned extents | one pass over a sorted graph | splitting and reuse of blocks; Flatten views extend lifetimes | two values alive at once never share bytes |
| Graph IR and passes (`graph.cpp`, `pass.cpp`) | node list (ids are positions), values, outputs | sort, infer, eliminate, four fusions, normalise, validate | each fusion rewrites the list its loop walks; merged nodes sit in the wrong place until the second sort | outputs mean what they meant; order; shapes still infer |
| Op schemas and fusion registry (`op_schema.cpp`, `fusion.cpp`) | append-only tables under a mutex | register, find | concurrent registration | a table is complete when read |
| Compiler (`compiler.cpp`) | the plan being built | validate and apply profiles, run the passes, lower, plan memory, add temporaries | workspace planned at a profile's max shape and used at every other | temporaries and intermediates never overlap |
| Backends (`backend.cpp`), artifacts (`kernel_artifact.cpp`) | candidates; packs loaded; the registry of backends under its mutex | CheckSupport, Lower, Load, RegisterBuiltin, RegisterBackend | an error midway through a pack; a name looked up and registered in two locked steps | one default variant per kernel; a kernel fits the node it is chosen for; a registered backend stays |
| CUDA launcher (`cuda_launcher.cpp`) | modules by SHA-256 and functions, under a mutex | GetFunction, Bind, EvaluateGrid, Compute | Contexts on several threads; 64-bit counts in 32-bit arguments and grids; file changed between load and use | one module per binary and Engine; a launch covers its output and reads its operands |
| Tensors (`tensor.cpp`), buffers (`buffer.cpp`) | descriptions; device memory, primary-context reference count | count, validate; allocate, copy, free | products that overflow; errors between retain and release | the count of references is that of the holders |
| Triton kernels (`python/cutriton/triton_kernels`) | none | one program per block, tile or row | grids, masks and renumbering at the edges | each element written once, from what its operator names |

The remaining parts (status values, the builder of the Python kernel SDK,
benchmarks, build scripts) compute or print and keep no state a model
checker could say something about; `PROJECT.json` lists each with its reason.

## Modules

| Module | Models | Composes |
| --- | --- | --- |
| `ExecutionContext` | one Context, its device streams, and the engine's `call_once` outcomes | instantiates `LruCache` |
| `LruCache` | abstract: what an LRU cache promises, without clocks | |
| `EngineState` | an Engine's shared state, its module cache and the process's backend registry under Contexts on several threads | extends `PrimaryContext`; each `call_once` implements `OnceCell` |
| `PrimaryContext` | what `buffer.cpp` does to the primary context's reference count | |
| `OnceCell` | abstract: what a value initialised once promises its callers | |
| `TuningCache` | PrepareTuning in several Contexts over one cache directory | |
| `MemoryPlanner` | one call of `MemoryPlanner::Plan` | |
| `Compiler` | one call of `Compiler::Compile`, with the packs it loads and the candidates it lowers to | extends `GraphPasses`, whose passes are its steps |
| `GraphPasses` | the default compile pipeline on one graph | extends `OpSchema` |
| `OpSchema` | arities and shape inference of the built-in operators, over kinds of shapes | |
| `KernelLaunch` | from a shape profile through Compile and the Context's shapes to each launch: arguments, grid, programs | extends `TritonKernels` |
| `TritonKernels` | the kernels of the two packs: arguments, constraints, grid, what a program writes and reads | extends `TensorShape` |
| `TensorShape` | descriptions and shape inference with their formulas and integer widths | extends `OpSchema` |
| `MC*` | the constants TLC needs: small plans, graphs, packs, engines, models, directories | |
| `ExecutionContextProofs`, `MemoryPlannerProofs`, `EngineStateProofs`, `TuningCacheProofs`, `GraphPassesProofs`, `CompilerProofs`, `KernelLaunchProofs` | the theorems | each extends its module, `CompilerProofs` also `GraphPassesProofs` |
| `BasicLemmas` | induction and recursion in a form the provers can use, division, short sequences | |

### ExecutionContext

A Context is used by one thread (`engine.h:33`), so API calls are sequential:
each configuration call is one action. `RunAsync` is not: it is a chain of
lazily initialised stages, each of which can return an error with the earlier
ones done. The variable `pc` says which stage is next, and each stage is an
action: `PrepareTensors`, `ValidateBindings`, `PrepareTuning`,
`PrepareKernels`, `StartSubmission`, then `ComputeOnHost` (a CPU plan),
`EnqueueOp` op by op, or `LookupGraph`, `CaptureGraph` and `LaunchGraph`. The
only things concurrent with the caller are the streams: `device[s]` is the
queue of submissions on stream `s`, which `DeviceStep` consumes at any time,
and `Synchronize` waits for the active stream's queue to be empty.

Calls that the code refuses without a change of state are left out. Shapes are
opaque: one member of `Shape` stands for all input shapes, inference makes
every other shape a function of it, so a tensor's description is the `Shape`
it was made for. A kernel group is the pair of op and candidate it was built
for. A submission is the list of groups with the op each is launched as, and
the tensors its arguments were taken from, so that two submissions are equal
when they do the same to the same memory.

`Faults` is the set of calls that may fail in an instance:

| Fault | The call |
| --- | --- |
| `constants`, `modules` | the two `call_once` bodies; the outcome is kept for good |
| `workspace` | allocating the workspace |
| `tuning`, `tuneInFlight` | PrepareTuning, with nothing left running, or after kernels were put on the tuning stream (`engine.cpp:793` returns without waiting) |
| `kernel` | building the kernel of some op |
| `cudaInit`, `current` | creating the stream and events, making the context current |
| `enqueue` | launching one op |
| `capture`, `launch` | capturing or instantiating, launching the CUDA graph |
| `syncAborted`, `syncRejected` | waiting for the stream: the work is gone, or goes on |
| `elapsed` | reading one op's events |

`MaxInFlight`, `MaxGroups` and `MaxClock` bound the queues, the length of
`kernels` and the LRU clock, in the guards of `RunAsync` and `AppendGroups`.

### EngineState, PrimaryContext and OnceCell

`ExecutionContext` is one Context alone; `EngineState` is what several share.
Each Context is called from one thread, different ones from different threads.
A call is `Run` with its stages in the code's order, and a step is the code
between two points at which another thread could tell the difference: a mutex,
a `call_once`, a reference to the primary context taken or dropped. So the
upload of the constants is one step per constant inside a `call_once` others
wait for; `GetFunction` is `Lock`, `FindModule`, `LoadModule`, `FindFunction`,
the last of which unlocks; `RegisterBuiltin` is a look-up and a registration,
each under the registry's lock. A Context that keeps its tensors, its tuning or
its kernels skips those stages in its next call.

`PrimaryContext` gives for each function of `buffer.cpp` the outcomes it may
have: success, how many references it leaves, whether it made the context
current on the calling thread. That is enough to follow the count: a buffer
keeps the reference it was allocated with, and its deleter takes one more and
gives back two. `DestroyEngine` and `DestroyContext` come in any order, between
calls; the EngineState goes with the last of them.

Driver calls fail by `FaultSets`: `retain`, `current` (cuCtxSetCurrent),
`alloc`, `copy`, `stream`, `load` (the PTX, or cuModuleLoadData) and
`function`; a set is chosen once per behaviour, so that a property can say what
it holds without. Two things are known of the driver and not of this code: that
cuMemAlloc is refused to other threads during a capture of
`CU_STREAM_CAPTURE_MODE_GLOBAL` and may invalidate it, and that it makes no
context current by itself. The stream of `PrepareTuning` is created before any
stage makes the context current on the calling thread (`engine.cpp:793`;
`CudaModuleCache::Initialize` does not), so whether it succeeds depends on what
the thread did before, which `RunAsync` leaves open.

`OnceCell` is the abstract specification: one attempt, whose outcome decides
whether callers pass or are turned away, and nobody waits for ever. `Place` and
`ConstantsOutcome` map the Contexts' stages and the `call_once` flags to it;
an upload under way is a cell still unset.

### TuningCache

Each Context runs `PrepareTuning` again and again, alternating with the others
at every file operation: it reads the exact entry, or the opt point's
(`kUseCache`), or measures and then writes: open and truncate the temporary
file, close it (which is when the text is written), rename it, and, when the
rename fails, remove the entry and rename again. Files are POSIX inodes, so
that two writers with the same temporary name do to each other what they do on
disk. `Crash` ends a Context between any two steps and keeps the files. Which
operations may fail is chosen once per behaviour (`faults`), so that a property
can say what it holds without.

### MemoryPlanner

One behaviour is one call of `Plan` on one of `Graphs`, loop iteration by loop
iteration: `ScanNode`, `MarkOutputs`, `PropagateAlias` (in any order: the code
iterates over an `unordered_map`), then per node release, and per output skip,
place as a view, reuse a best-fitting free block, or extend the workspace.

### GraphPasses and OpSchema

One behaviour is one run of `CreateDefaultCompilePasses` on one of `Graphs`.
`passes` holds what is left of the pipeline; every pass is one action, except
that a fusion merges one pair per step, as its `while (changed)` loop does.
Shapes are abstracted to a kind by rank, which is what decides whether an
operator is accepted; sizes of one kind are taken to agree. Names and
attributes are left out. Values a graph computes are compared as terms: a
fused operator's term is the composition the fusion registry declares for it.

### Compiler

One behaviour is one call of `Compile` for one of `Compilations` (a graph and
its options): `CheckOptions`, then the passes of `GraphPasses` one by one
(`Optimize`), `LoadArtifacts`, `LowerNode` for each node of the optimised
graph, and `PlanMemory` for each profile. An artifact is its operator, type,
device, and the tensors its constraints allow; an operand of a step is a value
of the graph or a temporary, known by the name of its node, which two nodes may
share. The min, opt and max points of a profile have one rank, so a profile is
the kinds of its inputs and a table of sizes at its max point.
`MemoryPlanner::Plan` appears as the workspace it may return: that its values
lie inside is what `MemoryPlannerProofs` proves (`PlanFits`).

### KernelLaunch, TritonKernels and TensorShape

One behaviour compiles one of `Models` (`ValidateProfiles`, `Lower`, and
`PlanPoint` for each of the profile's min, opt and max points) and then runs it
at any shapes the caller asks for: `SelectShapeProfile`, `SetInputShape`,
`ResolveShapes`, `StartRun`, and for each node `SkipView` or `Launch`. Any call
may be refused; `refused` names the function that did. A graph is one the
passes leave as it is, and memory is the bytes reserved for each value, which
`MemoryPlanner` keeps apart. A launch may be of any kernel that matches its
node, which is what tuning may choose.

`TensorShape` has the formulas of shape inference and the code's integers: a
product that does not fit `int64_t` counts as no elements (`NumElements`) or
wraps (`Product`), bytes wrap at `size_t`. `TritonKernels` has, for each kernel,
the argument sources, grid expression and constraints its Python file declares,
and two functions read off its Triton source: the elements a program writes,
and the inputs read for an element. Both compute offsets in 32 bits, as Triton
does (`Int32`); the blocks are powers of two, which the assumption on constants
states as dividing the 32-bit range. `KernelLaunch!Operands` says what an element
is computed from by the operator's definition; the property
`LaunchReadsOperands` compares the two, so that shape inference, the binder and
the kernel must have the same idea of every attribute and axis.

## What the runs check

Every run is a `.cfg` of the same name in camel case. Two ops, one input, one
output, one intermediate and one constant are the plan of every Context run; a
Flatten views the input in `ctx_faults` and `ctx_enqueue_fault`, and the
intermediate in `ctx_host`.

| Run | Question | Instance |
| --- | --- | --- |
| `ctx_graph` | Does a replayed CUDA graph do what capturing now would (`ReplayMatchesSession`)? Is the cache a bounded LRU (`GraphCacheBounded`, `GraphCacheIsLru`)? Are prepared kernels the plan's (`KernelsMatchPlan`), and is a pending run's session frozen (`SessionFrozenWhilePending`)? Is nothing released or rerun under work in flight (`InFlightMemoryHeld`, `AtMostOneUnfinishedTask`)? Is the profile that of the whole run (`ProfileIsOfWholeRun`)? | capacity 2, three shapes (one not inferable), two profiles with workspaces of different size, two buffers, two candidates, the caller's stream and the Context's own, failing event reads, clock up to 6: enough for three captures, so for an eviction and for a replay after it |
| `ctx_host` | The profile of a CPU plan whose kernels may fail, on a static plan (no profile) | a view of a planned value |
| `ctx_faults` | With every stage of an eager run failing and being retried, are types, resolved shapes and prepared tensors right (`TypeOK`, `ResolvedShapeIsRequested`, `PreparedViewsCurrent`)? | twelve kinds of fault, two profiles; `MaxGroups` 4 lets one retry append |
| `ctx_enqueue_fault` | Violated: `AtMostOneUnfinishedTask` when launching an op fails midway | |
| `planner` | Blocks disjoint (`BlocksDisjoint`), live values disjoint (`LiveValuesDisjoint`), views on their source (`ViewsShareStorage`), everything inside the workspace (`PlanFitsWorkspace`) | every graph of four nodes with one or two inputs, every chain of five with one skip connection per node, sizes 256 and 300 (which needs alignment), at most one Flatten, and five graphs with constants, unknown sizes, two outputs, mismatched views. Splitting, reuse of a remainder and extension need three values of two sizes alive at different times |
| `planner_chained` | Violated: `LiveValuesDisjoint` with a Flatten of a Flatten | |
| `tuning` | Entries whole (`EntriesComplete`), never gone (`EntriesNeverLost`), final unless retuned (`ChoicesStable`) | a tuner, a retuner and a reader whose opt point is the retuner's key; crashes at every step, once with a failing open and once with every fault |
| `compile` | The optimised graph computes the same outputs (`OutputsPreserved`), is in order and infers again (`OptimizedGraphRuns`); every candidate computes its op (`CandidatesCompute`) with kernels that fit device and tensors in every profile, wherever packs and profiles let them (`KernelsSuitTensors`), an untuned op runs one kernel (`SelectedRunsOneKernel`), temporaries are apart and inside the workspace (`TemporariesApart`), and the call returns (`CompileReturns`) | every graph of three convolution-family or three matrix-family nodes, in order and reversed, with one or two outputs, none of them observed inside a Conv-BatchNormalization-Relu or Add-Relu pair, with one full pack; special graphs (an operand computed between the parts that merge, kept in order by the second sort only; MatMul; Flatten; two readers; a cycle; an unknown shape; two decompositions of different sizes; two nodes of one name) with every kind of option: two profiles, refused options, flawed packs, and packs with missing, constrained, several or no default kernels; the packs of the kernel SDK, one or both, in either order, for either type, with profiles of one rank and of two; packs for devices of two generations, in both orders, on either device |
| `engine` | Is everything shared initialised once and waited for (`SharedInitializedOnce`, a refinement of `OnceCell` with its liveness), each PTX loaded once (`ModulesLoadedOnce`), what is launched kept loaded (`FunctionsStayLoaded`), the primary context's count that of its holders (`ReferencesMatchHolders`), a registered backend kept (`BackendsStable`), and does every call return (`CallsReturn`)? | one Engine with tuning and CUDA graphs, two Contexts with two runs each, one of them with a workspace, one constant, two kernels of one PTX, one built-in backend that a user may register too; no fault, or the faults of one kind of driver call |
| `engine_parallel` | Violated: `RunsIndependent`, one Context's capture against another's allocation | the same without tuning and faults, both Contexts with a workspace, one run each |
| `launch` | Does a launch write each element of its output once (`LaunchWritesOutput`) and read exactly its operands (`LaunchReadsOperands`)? Do active shapes fit the plan made for the max point (`ActiveFitsPlan`), and does every shape in range resolve where no operator joins two values that vary (`InRangeShapesRun`)? | 31 models of one to four nodes over every operator that has a kernel, in fp32 and fp16, convolutions and pools with strides, paddings and dilations, two tile shapes, profiles whose points cross the integers' limits or fail to infer, 53 image and 8 matrix shapes to ask for |
| `launch_long_rows` | Violated: `LaunchWritesOutput` on rows longer than the row kernels' block | a Softmax of six columns with a block of four |

The integers' limits are scaled so that shapes of a few hundred elements cross
them, in the code's order: `int32_t` ends at 63, `uint32_t` at 127, `int64_t`
at 255, `size_t` has 512 values; a block has 4 elements where the kernels have
256 or 1024, tiles are 2 by 2 in groups of 2 and 1 by 4 in groups of 4. So there
are counts that fit no argument, grids that fit none, counts that overflow,
blocks, tiles and groups that stick out. Two Contexts are enough for `engine`
because what is shared is taken by one while another waits; two runs, because
the second finds what the first left, in the Context and in the Engine; one PTX
for two kernels, because that is when a module is found rather than loaded.
Several Engines share only the registry, whose property is proved for any
number, and the primary context's count, to which each adds its own holders.

Three nodes are the longest pattern a fusion matches, and leave room for a
second reader or an intervening producer; the special graphs add the cases
that need more. Sizes 256 and 300 tell an aligned slot from one that is not,
and a slot's largest temporary from its last. Two buffers per binding tell a rebinding from a repetition;
two candidates tell a tuned choice from the default. One fault per stage is
enough because a Context keeps nothing of a failed call but what the stage
before it left.

Each property is also checked against a mutated module: `PROJECT.json` names,
for every property of a passing run, a definition of the code's model and a
plausible wrong version of it (a dropped guard, a missing reset, the wrong
stream), defined above the right one, under which TLC finds the property
violated.

### Fairness

`CompileReturns` assumes `WF_compileVars(CompileNext)`: `Compile` is one
sequential call that takes its next step until it returns; what could keep it
from returning is a loop of the fusions that never finds the list unchanged.

`CallsReturn`, and the liveness of `OnceCell` inside `SharedInitializedOnce`,
assume weak fairness of each Context's `CallStep`: a thread inside a call goes
on whenever it can. Weak is enough for the waits. A `call_once` that is over
stays over. A mutex is contended by one other Context per run, which makes
finitely many calls and cannot keep taking it; `std::mutex` promises no more,
so the property is checked for finitely many runs and says nothing of a
thread that loses the mutex to an endless stream of others. Nothing is assumed
of the caller: nobody has to make, end or destroy anything.

Nothing else in the code is scheduled by itself: whether a caller ever calls
Synchronize, or a device finishes, is not up to it. That a Synchronize returns
if the device goes on is a property of the driver.

### What the code does otherwise

The violated runs are disagreements between the code and its own documents;
each is a finding in `PROJECT.json` with the line it disagrees with.

- An error while launching op *k* leaves ops *1..k-1* on the stream with
  `run_pending_` false: the Context then accepts a rebinding or another run
  under them, and `Synchronize` returns at once (`engine.cpp:1071`;
  `ctx_enqueue_fault`).
- The lifetime of a Flatten of a Flatten reaches the block's owner only if
  the alias pass happens to visit the outer view first (`memory_planner.cpp:61`;
  `planner_chained`).
- CUDA graphs are captured in global mode: while one Context captures, another
  thread's allocation fails, in the case of constants for good, and the capture
  may be lost (`engine.cpp:1033`; `engine_parallel`). The documents say that
  Contexts may run in parallel.
- LayerNormalization, SkipLayerNormalization and Softmax handle the first BLOCK
  columns of a row and nothing refuses longer ones (`transformer.py:184`;
  `launch_long_rows`).

Others have no run of their own. Each can be seen by changing one thing in a
passing run, a constant of its instance or a condition of its property:

- `PrepareKernels` appends to `kernels_` and never clears it. After a failure
  midway the retry builds all groups again behind the ones kept
  (`engine.cpp:719`); the submission loops then index `plan.ops()` past its
  end (`RunPastOps`). `CtxFaults.cfg` with the invariant `KernelsMatchPlan`
  and `Faults = {"kernel"}`.
- Two writers of one tuning key share the temporary name: the loser of the
  rename removes the winner's entry (`engine.cpp:329`). `Tuning.cfg` with
  `SharedKey = TRUE` and `Context = {tuner, retuner}`; `EntriesComplete` and
  `EntriesNeverLost` fail without any fault.
- ConvBatchNormRelu and AddRelu fusion merge across a graph output, which
  then has a description but no producer (`pass.cpp:335`, `pass.cpp:398`); the
  two transformer fusions ask for it. `Compile.cfg` with `Observed = TRUE`;
  `OutputsPreserved` fails.
- The steps of a fused op's decomposition get the first default kernel of their
  operator and type, whatever device or tensors it is for (`backend.cpp:215`);
  the op's own kernels are chosen by both. With the packs of two device
  generations loaded, the newer one's first, the older device's plan has a
  candidate of kernels it cannot load, although `architecture.md:29` says that
  the catalogue selects by SM and `src/backend/README.md:12` that an
  incompatible SM is an explicit failure. Those packs are in the instance of
  `Compile.cfg`; `KernelsSuitTensors` fails without its condition
  `DefaultsSuit`.
- Nodes are lowered once, with the first profile's shapes (`compiler.cpp:221`),
  and no rank constraint is evaluated again for the other profiles, whose ranks
  nothing compares with the first one's. LayerNormalization,
  SkipLayerNormalization and Softmax of the transformer pack ask for matrices
  while shape inference takes any rank, so a model of these compiled for
  matrices first and images second runs the matrix kernels on images, although
  `transformer.py:4` says that unsupported shapes remain explicit errors of the
  compiler. Those packs and profiles are in the instance of `Compile.cfg`;
  `KernelsSuitTensors` fails without its condition `FirstRanks`.
- Memory is planned at the profile's max point, but a convolution's output
  shrinks as its weights grow (`pass.cpp:86`), and weights may be an input with
  a range. At smaller weights the output is larger than planned, and
  `PrepareTensors` places it without looking at its size (`engine.cpp:657`),
  although `development.md:39` wants a plan bounded by the profile's max.
  `Launch.cfg` with `Models <- DynamicWeights`; `ActiveFitsPlan` fails.

And these are left out of the models of `launch`, because its properties fail
there: an fp32 Gemm with `transA`, which shape inference reads and the kernel
does not, and whose constraints name `transB` only (`resnet.py:396`); a MaxPool
without strides, which steps by its window in shape inference (`pass.cpp:109`)
and by one in its kernel (`resnet.py:352`); a convolution whose weight has
another number of channels than its input, and a BatchNormalization whose
parameters have another number than its input's channels, which nothing
compares; and outputs of 2^31 elements or more, whose offsets the kernels
compute in 32 bits (`resnet.py:18`).

The rest are choices of the code that break no promise: `engine.h:41` says that
a rebinding invalidates the CUDA graphs, while `BindInput` keeps them
(`engine.cpp:445`), which is harmless because the key holds the addresses
(`ReplayMatchesSession`); `WriteTuningChoice` checks the stream before it is
closed (`engine.cpp:325`), so that a write lost at closing publishes an entry
without a candidate (`EntriesComplete` holds only without the fault `flush`);
and an error of cuCtxSetCurrent leaves a reference to the primary context
behind, so `ReferencesMatchHolders` asks for equality only without the faults
`retain` and `current`, and otherwise that there are never too few.

## What is proved

`tlapm` checks every theorem to its leaves; constants are arbitrary values
that satisfy the modules' named `ASSUME`s, and so are the bounds.

`ExecutionContextProofs` (for every plan, shape set, binding and call sequence):

| Theorem | Invariant | Assumes beyond the constants |
| --- | --- | --- |
| `TypeCorrect` | `TypeInv`: the types, `ViewsInv`, and that candidates are chosen before the stages that use them | |
| `ResolvedShapesAreRequested` | inductive as it stands | |
| `PreparedViewsStayCurrent` | `ViewsInv`: prepared tensors are complete and current except while a stage that will redo them is still to come | |
| `KernelsFollowPlan` | `GroupsInv`: unprepared kernels are empty | no `kernel` fault |
| `ReplaysMatchSession` | `ReplayInv`: an entry's submission is a function of its key | no `kernel` fault |
| `GraphCacheStaysBounded` | `GraphsInv`: finite, bounded, distinct keys and timestamps; capturing only on a miss | |
| `OneUnfinishedTask` | `DeviceInv`: only the active stream has work, and only while pending or submitting | no `enqueue`, `tuneInFlight`, `syncRejected` |
| `InFlightMemoryStaysHeld` | `MemoryInv`: every submission in flight uses tensors the Context holds | as above, and no `kernel` fault |
| `PendingSessionFrozen` | `PendingInv`: a pending run was submitted from resolved shapes, so resolving again changes nothing | |
| `ProfileComplete` | `ProfileInv`: a pending host run has its records already | no `syncAborted`, `syncRejected` |
| `GraphCacheImplementsLru` | `RecencyInv`: some sequence lists the cached graphs by ascending timestamps | |

Each assumption on `Faults` is a fault under which the property fails: two of
them are the findings above, the others (`tuneInFlight`, `syncRejected`,
`syncAborted`) are error returns after which work runs on or a profile is not
rebuilt. The properties as stated are not inductive: `KernelsMatchPlan` says
nothing of unprepared kernels, so a retry could append to leftovers;
`ReplayMatchesSession` speaks of the entry about to be replayed only, while an
entry captured long ago must have been right for its key; `AtMostOneUnfinishedTask`
needs to know that `Synchronize` waits for the one stream that has work. The
central argument is `ReplayInv`: the submission a capture records is determined
by the selected profile, the bound addresses, the workspace and the candidates,
all of which are in the key, because resolved shapes and views are themselves
determined by them.

`GraphCacheImplementsLru` is the refinement of `LruCache`: the clock is mapped
to an order by the one sequence that lists the entries with ascending
timestamps (`OrderOfAscending`: there is exactly one), and each of capturing,
launching, invalidating and clearing is mapped to a step of the abstract cache
or leaves it alone.

`MemoryPlannerProofs` (for every well-formed graph, and sizes):

| Theorem | Argument |
| --- | --- |
| `TypeCorrect` | per action |
| `BlocksStayDisjoint` | free and live blocks are disjoint and end below `workspaceEnd`; a reused block is split into two parts of itself, a new one starts at the end |
| `PlanFits` | assigned extents lie below `workspaceEnd` |
| `LiveValuesStayDisjoint` | a value that is still needed, through a view or not, has a last use at or after the current node, so its live block has not been released; live blocks are disjoint. Assumes `ChainFree`: no Flatten of a Flatten, the case `planner_chained` refutes |
| `ViewsShareTheirSource` | `SharedInv`: extents are given in the order of the walk, so a Flatten's source has its extent before the Flatten takes it. Assumes `BoundaryViewsUnread`: what a Flatten computes straight into an output is not flattened again, as such a source has no extent to share |

`EngineStateProofs` (for any number of Engines, Contexts, kernels, runs, and
whatever fails):

| Theorem | Argument |
| --- | --- |
| `TypeCorrect` | `TypeInv`: the types, and that the backend or kernel a call is at exists |
| `ModulesAreLoadedOnce` | `CacheInv`: who is between `Lock` and `Unlock` owns the mutex, so what it found missing is still missing when it loads it |
| `LaunchedFunctionsStayLoaded` | `CacheInv`: functions belong to loaded modules, a Context's functions to its Engine's cache, and a cache is only emptied when Engine and Contexts are gone |
| `BackendsStayStable` | registering is the only step that touches the registry, and changes free names only |
| `ReferencesAlwaysMatchHolders` | inductive with `CacheInv`: a destruction gives back one reference per buffer its Engine or Context held. Holders are counted as the cardinality of a set of pairs, which is finite by `FiniteAssumption` |

`ModulesLoadedOnce` is not inductive: it needs `LockInv` (mutual exclusion and
what the owner knows), which in turn needs to know that nobody is destroyed in
the middle of a call.

For every Engine of such an instance, `ModuleCacheIsOnceCell` and
`ConstantsAreOnceCell` say that every step maps to a step of `OnceCell` or
leaves it alone. The second is the harder one: its attempt is a chain of steps
in one thread, and `PastConstantsInv` says that meanwhile no other thread of the
Engine uploads or is past. This is the safety part of `SharedInitializedOnce`.

`TuningCacheProofs` (for any number of Contexts, keys, candidates and files):

| Theorem | Invariant | Assumes |
| --- | --- | --- |
| `TypeCorrect` | `TypeInv`: the types, and what a Context has at each stage of a write | |
| `PublishedEntriesComplete` | `CacheInv` | one writer per key |
| `PublishedEntriesNeverLost` | `CacheInv` | one writer per key |
| `PublishedChoicesStable` | `CacheInv` | one writer per key |

`CacheInv` adds that no file has two names, that a Context that is about to
rename finds its own temporary file there and complete, that an entry is only
removed after a failed rename, and that who measures a key it was not told to
retune still finds no choice for it. `OneWriter` is needed: two writers of a key
are the race described above.

`GraphPassesProofs` (for every graph, over any set of values):

| Theorem | Argument | Assumes |
| --- | --- | --- |
| `TypeCorrect` | `GraphInv`: the types, how far the pipeline is, and that the last three passes find nodes with as many inputs as their operators take | |
| `OptimizedGraphsRun` | `RunsInv`, below | every graph is `WellMade` |
| `PassesPreserveOutputs` (`OutputsPreserved`) | `RunsInv` and `InnersInv`, below | every graph is `WellMade` and its inner values are unobserved |

`OptimizedGraphRuns` speaks of the end of the pipeline; `RunsInv` says what each
pass may rely on and leaves. From the first sort on the values have ranks that
grow from a node's inputs to its output (`Ranked`), and from the first
inference on every node's output is described as its inputs say (`Consistent`).
A fusion puts a node in the place of the first of a chain, where it may stand
before the producers of its other inputs: order is lost, ranks are not
(`ChainBelow`). The second sort then cannot fail: `RankedSorts` shows that
Kahn's algorithm, a fold over its own queue, leaves no node of a ranked list
behind. Consistent descriptions are found again by any inference in
order (`StableInference`), so that the second inference cannot fail either. A
graph is `WellMade` if no value has two producers, no node reads its own output,
and no BatchNormalization has a scale, bias or statistic that a Conv computes.
`Graph::AddNode` asks for none of it; the first two are what SSA form says, and
without the third the fusion of Conv and BatchNormalization would take a Conv
for the normalised input whose output is only the scale.

`PassesPreserveOutputs` compares terms whose depth grows with the graph, by a
function on levels. Two lemmas keep the recursion out of the passes: the
meaning satisfies the equations between a node's inputs and its output
(`MeaningSolves`), and a ranked graph of one producer per value has one solution
(`LevelsAgree`, which counts the ranks in use). So it is enough that a pass,
apart from values that nothing left reads and that are no outputs, keeps the
equations true (`RewritingPreserves`). Sorting, renaming MatMul and
removing dead nodes do (`SortingPreserves`, `RenamingPreserves`,
`EliminationPreserves`, which shows that what the elimination needs is closed
under inputs). A fusion does it step by step, operator by operator
(`MergedComputes`, `SkipNormComputes`, `FusedConvComputes`). That the values
which disappear are no outputs is checked by the transformer fusions, and by the
other two not at all (see the disagreements above); for them the theorem
assumes `InnersUnobserved`: a Conv that a BatchNormalization reads, a
BatchNormalization that a Relu reads and an Add that a Relu reads compute no
graph output. `compile` asks less of its graphs, only that the single reader
is not such a pair: six of its 2407 graphs before packs and options
are outside the theorem, each with a further reader that stays. The weaker condition is not
kept by the passes, since dead nodes that go may leave one reader.

`CompilerProofs` (for every graph, options, packs and workspaces):

| Theorem | Argument | Assumes |
| --- | --- | --- |
| `CompileTypeCorrect` | `CompileInv` | |
| `UntunedOpsRunOneKernel` | `CompileInv`: the matching artifacts come before the alternatives, and a node that is supported has one | |
| `EveryCandidateComputes` | `OpsGood`: an op's candidates are the single kernels and the fallback of its node; the term a list of steps computes is unfolded step by step (`ComputedUnfolds`) and agrees, decomposition by decomposition, with the fused operator's | |
| `TemporariesAreApart` | `PlansGood`: each temporary is in the slot of its part, slots follow one another in aligned steps (`SlotOffsets`), and a slot is as large as its largest temporary | |
| `CompiledGraphsRun` | `RunsInv`: that the inputs are described by a profile before the passes changes nothing they rely on | every graph is `WellMade` |
| `CompilationsPreserveOutputs` (`OutputsPreserved`) | `RunsInv` and `InnersInv` | every graph is `WellMade` and its inner values are unobserved |
| `KernelsSuit` (`KernelsSuitTensors`) | `SuitsInv`: the repository is of the packs, inputs stay as the first profile has them, under every planned profile each node is accepted, every candidate suits its node | every graph is `WellMade` and computes none of its inputs; nothing of packs and profiles |

`CompileInv` joins `GraphInv` to what each stage adds: the types (`Typed`), what
is still empty (`StagesInOrder`), and the invariants of ops and plans. That
slots are apart needs that parts of one op have different slots although names
are shared: a `Temporary` is the name and the part, and the slot depends on the
part only (`Placed`).

`KernelsSuit` is about two decisions the code makes without checking them again.
A decomposition takes the first default variant of each part, whatever it is
for; and kernels are matched under the first profile only and run under all. The
property says what remains true of both, and names the two cases where nothing
does (see the disagreements above). A decomposition's kernels suit if the packs
are consistent (`DefaultsSuit`): such a default variant is for the device and
takes the ranks, and the part's number of inputs, of every fused kernel the
device can run. A kernel suits under a profile of other ranks (`FirstRanks`
fails) if it takes every rank that inference accepts of its operator's first
input (`FirstKinds`): then it is inference that protects the kernel. The proof
needs the parts of a node (`DecompositionParts`) and that they accept what the
fused operator does (`PartKinds`); what they read first, which is the node's
first input or a temporary, and that this temporary, planned like the node's
output, has the first input's rank, since no fused operator changes it
(`TensorsSuit`); that every profile that is planned was inferred, so that each
node is described under it (`KindsDescribe`); and that no pass describes an
input anew (`PassStepLeaves`), so that a profile of the same ranks is what was
inferred from. All 3268 compilations of `compile` satisfy the theorem's two
hypotheses. 26 of them have packs that are not consistent, 252 have profiles of
two ranks: dropping either condition, TLC finds the property violated.

`KernelLaunchProofs` (for any models, shapes and integer widths):

| Theorem | Argument | Assumes |
| --- | --- | --- |
| `LaunchInvariant` | `LaunchInv`: what Compile has validated, what the plan was made of, that accepted shapes are in range and active descriptions are inferred from them | |
| `LaunchFitsPlan` (`ActiveFitsPlan`) | inference is monotone (`AllWithin`): larger inputs, larger outputs | constant convolution weights; a size_t counts the bytes at the max point |
| `ShapesBetweenPointsRun` (`InRangeShapesRun`) | an inference that succeeds at both ends of a range succeeds between them (`AllBetween`) | a size_t counts the bytes at the max point |
| `LaunchesAreBound` | `KernelsInv`: a launch is of a kernel that matched its node at the opt point, bound to the active descriptions; shapes in range, and what is inferred from them, have the ranks of that point (`AllRanks`) | |
| `LaunchesWriteOutput` (`LaunchWritesOutput`) | kernel by kernel, below | the launch is `WithinLimits` |
| `LaunchesReadOperands` (`LaunchReadsOperands`) | kernel by kernel, below | the launch is `WithinLimits` and its operands within `ReadLimits` |

No bound on bytes follows from a bound on dimensions if a product wraps, so
both take the max point to be one whose bytes are no larger than a size_t; the
second for all values, the first for the intermediates. `ConstantWeights` is
the disagreement above: larger weights make a smaller output. `LaunchInv` is not
about sizes at all; that a shape in range is within the max shape, dimension by
dimension or equal to it (`WithinShape`), is carried through every inference
from its inputs to its output, with the formulas of windows and their divisions
towards zero (`WindowsGrow`), and with Flatten's products, which may wrap
unless the source has elements at the max point (`FlattenWithin`).

`InRangeShapesRun` needs more than that, since an inference also compares its
inputs. A comparison that holds at the min and at the max point need not hold
between them: two pools of one image may agree on its width at both ends and not
in the middle (the model `Branches` of `launch`). So the property is about models whose
operators read at most one value that varies. The proof carries from a node's
inputs to its output that the min description is within the middle one and the
middle within the max (`Chained`), and uses that all inputs but one are
constants (`OneVaries`): a constant that fits both ends fits the middle.

`LaunchesWriteOutput` joins what three files must agree on: the shape inference
that sizes the output, the binder that computes a kernel's arguments and grid
from declarations, and the kernel that turns a program's number into offsets
and masks them. For each kernel the arguments are computed symbolically
(`FlatLaunch`, `GemmLaunch`, `TiledLaunch`, `RowLaunch`) and the kernel's own
count is shown to be the output's volume. Programs of a flat kernel write
disjoint blocks that cover it; programs of a tiled one are in bijection with
the tiles, the lower last group included, and tiles with blocks of rows and
columns; programs of a row kernel write one row each. `WithinLimits` is where
the kernels stop being right, so that it is part of the theorem and not of
the model: rows longer than the block (`launch_long_rows`), outputs and tiles
that 32 bits do not count, and `transA` (see the disagreements above). Every
state of `launch` is within them.

`LaunchesReadOperands` is the other half: the inputs a program loads for an
element are those the operator's definition names, no more, no fewer, and
inside their tensors. `Operands` says it in coordinates and the kernels in flat
32-bit offsets, so the proof first turns one into the other: an offset of four
coordinates is their Horner polynomial (`ImageOffset`), dividing an element's
number by the axes behind one gives its coordinates (`ImageCoordinates`), and
an offset inside a tensor that 32 bits count is its own remainder
(`OffsetInside`, `Int32Keeps`). A window then needs that every position it
covers, padding included, fits in 32 bits, although the kernel masks those
outside the image: an overflow could bring one back in (`PositionFits`, from
the formula of the output's size). What follows is one lemma per program
(`ConvReadsAre`, `PoolReadsAre`, `AverageReadsAre`, `GemmReadsAre`,
`RowReadsAre`, `ChannelIs`), and one per kernel that has the declaration pass
what those assume (`ConvLaunchReads` and so on).

`ReadLimits` collects what that takes and neither shape inference nor a
kernel's constraints look at: operands with elements, as many as 32 bits count;
a filter with as many channels as its image; per-channel operands with an
element per channel of the output; window attributes that are lists (the binder
also takes a scalar, inference does not) and fit in 32 bits; and a stride for
every pooling, which is 1 to the binder when it is missing and the window's
size to inference (see the disagreements above). Every state of `launch`
satisfies it, and all of the pack's programs are launched there.

What recursive functions compute is proved by induction over sets:
`BasicLemmas` states induction over the natural numbers, and that a
recursively defined function satisfies its equation, with sets and functions in
place of the operator parameters of the library's theorems, which no installed
back end instantiates.

Only model-checked:

- liveness (`CompileReturns`, `CallsReturn`, the fairness of `OnceCell`), which
  the prover does not reach.

## What is not modelled, and the plan

Left out for good: JSON parsing, hashing and the reading of PTX files, timings,
the numerical results of kernels (what is compared is which elements are read
and written), float arguments, host buffers and copies of contents, the builder
of Kernel Packs, status values, benchmarks and scripts. Three hazards in
`PROJECT.json` have no property for that reason: candidate ids that two packs
share, ops measured on data their producers have not written, and PTX that
changes after it was hashed.

What remains, in the order in which it would be added:

1. Building a graph and a model (`Graph::AddNode`, values and their
   descriptions), and registration of operators, fusions and other backends by
   users.
2. Theorems: that a fusion round removes a node (the measure behind
   `CompileReturns`).
