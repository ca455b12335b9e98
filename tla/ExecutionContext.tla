-------------------------- MODULE ExecutionContext --------------------------
(***************************************************************************)
(* One ExecutionContext of src/runtime/engine.cpp: the session a caller    *)
(* configures (profile, shapes, bindings), runs and synchronises, together *)
(* with the device streams its work is queued on.                          *)
(*                                                                         *)
(* The caller is one host thread (engine.h: a Context is not thread-safe), *)
(* so API calls are sequential; RunAsync is split at its fallible stages   *)
(* by `pc`, because a stage that fails leaves the stages before it done.   *)
(* The device runs concurrently: DeviceStep consumes the streams' queues.  *)
(*                                                                         *)
(* Data abstraction.  All input shapes together are one member of Shape;   *)
(* shape inference makes every other shape a function of it, so a tensor's *)
(* description is the Shape it was made for.  A Buffer's address and byte  *)
(* offset are one address.  A kernel group is the op and candidate it was  *)
(* built for.  Calls the code rejects without changing state are left out. *)
(***************************************************************************)
EXTENDS Integers, Sequences, FiniteSets

CONSTANTS
  UseCuda,          \* the plan's device is CUDA, not CPU
  EnableCudaGraph,  \* plan.enable_cuda_graph()
  EnableProfiling,  \* plan.enable_profiling()
  TuningEnabled,    \* plan.tuning_config().mode # kDisabled
  GraphCapacity,    \* plan.cuda_graph_cache_capacity()
  ProfileCount,     \* plan.profile_plans().size(); 0 is a static plan
  Shape,            \* the concrete input-shape assignments
  PlanShape,        \* the Shape of plan.graph()
  OptShape,         \* OptShape[p]: the opt point of profile p
  InRange,          \* InRange[p]: the Shapes SetInputShape accepts
  Inferable,        \* the Shapes on which shape inference succeeds
  PlanBytes,        \* PlanBytes[p]: workspace bytes of p's max plan, [0] the plan's
  Input, Output,    \* graph boundary values
  Local,            \* values of the memory plan
  Constant,         \* uploaded constants
  AliasOf,          \* AliasOf[v]: the value a Flatten view v of Local shares
  OpCount,          \* plan.ops().size()
  CandidateCount,   \* CandidateCount[i]: candidates of op i
  DefaultCandidate, \* DefaultCandidate[i]: op i's selected_candidate
  Buffer,           \* device buffers the caller owns
  Block,            \* addresses the allocator may return for a workspace
  CallerStream,     \* streams the caller may pass
  OwnedStream,      \* the Context's own stream
  TuningStream,     \* the stream PrepareTuning measures on
  Faults,           \* the calls that may fail
  MaxInFlight,      \* bound: submissions queued on one stream
  MaxGroups,        \* bound: Len(kernels)
  MaxClock,         \* bound: graphClock
  Nil

Op == 1..OpCount
Candidate == UNION {1..CandidateCount[i] : i \in Op}
Profile == 1..ProfileCount
View == DOMAIN AliasOf
Name == Input \cup Output \cup Local \cup Constant
Address == Buffer \cup Block \cup Constant
Stream == CallerStream \cup {OwnedStream, TuningStream}
FaultKind == {"constants", "modules", "workspace", "tuning", "tuneInFlight",
              "kernel", "cudaInit", "current", "enqueue", "capture", "launch",
              "syncAborted", "syncRejected", "elapsed"}

ASSUME ModeAssumption ==
  /\ {UseCuda, EnableCudaGraph, EnableProfiling, TuningEnabled} \subseteq BOOLEAN
  /\ GraphCapacity \in Nat /\ OpCount \in Nat \ {0} /\ ProfileCount \in Nat
  /\ MaxInFlight \in Nat /\ MaxGroups \in Nat /\ MaxClock \in Nat
  /\ Faults \subseteq FaultKind

ASSUME ShapeAssumption ==
  /\ PlanShape \in Shape /\ Nil \notin Shape
  /\ OptShape \in [Profile -> Inferable] /\ Inferable \subseteq Shape
  /\ InRange \in [Profile -> SUBSET Shape]
  /\ PlanBytes \in [0..ProfileCount -> Nat]

ASSUME NameAssumption ==
  /\ Input # {} /\ Nil \notin Name /\ Nil \notin Address
  /\ Input \cap (Output \cup Local \cup Constant) = {}
  /\ Output \cap (Local \cup Constant) = {} /\ Local \cap Constant = {}
  /\ View \subseteq Local
  /\ \A v \in View : AliasOf[v] \in (Name \ Constant) \ View
  /\ Local \ View # {} => \A p \in 0..ProfileCount : PlanBytes[p] > 0
  /\ Buffer \cap (Block \cup Constant) = {} /\ Block \cap Constant = {}

ASSUME OpAssumption ==
  /\ CandidateCount \in [Op -> Nat \ {0}] /\ DefaultCandidate \in [Op -> Candidate]
  /\ \A i \in Op : DefaultCandidate[i] <= CandidateCount[i]
  /\ Nil \notin Stream /\ OwnedStream \notin CallerStream
  /\ TuningStream \notin CallerStream \cup {OwnedStream}

VARIABLES
  selectedProfile,  \* 0, or the selected profile
  inputShape,       \* input_shapes_
  resolvedShape,    \* the Shape resolved_graph_ was inferred for
  shapesResolved,
  tensors,          \* tensors_: Nil for a name that has no entry
  tensorsPrepared,
  workspace,        \* Nil, or the workspace_ buffer
  selected,         \* selected_candidates_
  tuningPrepared,
  kernels,          \* kernels_: one group per op, once prepared
  kernelsPrepared,
  runPending,
  cudaReady,        \* cuda_state_ # nullptr
  activeStream,
  graphs,           \* the captured CUDA graphs
  graphClock,
  records,          \* profiler_: the ops recorded, in order
  constants,        \* EngineState: outcome of the constants' call_once
  modules,          \* EngineState: outcome of the module cache's call_once
  pc,               \* where the host is inside RunAsync, "idle" outside
  cursor,           \* the next group enqueue_sequence submits
  request,          \* the stream RunAsync was called with
  device            \* device[s]: submissions on s that have not finished

session  == <<selectedProfile, inputShape, resolvedShape, shapesResolved>>
bindings == <<tensors, tensorsPrepared, workspace>>
choices  == <<selected, tuningPrepared>>
groups   == <<kernels, kernelsPrepared>>
cuda     == <<cudaReady, activeStream>>
cache    == <<graphs, graphClock>>
engine   == <<constants, modules>>
call     == <<pc, cursor, request>>
vars == <<session, bindings, choices, groups, cuda, cache, engine, call,
          runPending, records, device>>

(* ActiveGraph(): before shapes are resolved it is the plan's own graph.   *)
ActiveShape == IF shapesResolved THEN resolvedShape ELSE PlanShape

(* An output or an intermediate at the active shape.                       *)
TensorAt(address) == [data |-> address, shape |-> ActiveShape]

Tensor == [data : Address, shape : Shape \cup {Nil}]
Workspace == [data : Block, size : Nat]

ASSUME NilAssumption == Nil \notin Tensor \cup Workspace

Group == [op : Op, candidate : Candidate]
(* What a launch hands the device: groups paired with the op whose node    *)
(* they run as, and the tensors their arguments were bound from.           *)
Work == [op : Op, group : Group]
Submission == [work : Seq(Work), tensors : [Name -> Tensor \cup {Nil}]]

Unbound == [n \in Name |-> Nil]
PlannedGroups == [i \in Op |-> [op |-> i, candidate |-> selected[i]]]

Init ==
  /\ selectedProfile = IF ProfileCount = 1 THEN 1 ELSE 0
  /\ inputShape = IF ProfileCount = 1 THEN OptShape[1] ELSE Nil
  /\ resolvedShape = IF ProfileCount = 1 THEN OptShape[1] ELSE Nil
  /\ shapesResolved = (ProfileCount = 1)
  /\ tensors = Unbound /\ tensorsPrepared = FALSE /\ workspace = Nil
  /\ selected = <<>> /\ tuningPrepared = FALSE
  /\ kernels = <<>> /\ kernelsPrepared = FALSE
  /\ runPending = FALSE
  /\ cudaReady = FALSE /\ activeStream = Nil
  /\ graphs = {} /\ graphClock = 0
  /\ records = <<>>
  /\ constants = "unset" /\ modules = "unset"
  /\ pc = "idle" /\ cursor = 1 /\ request = Nil
  /\ device = [s \in Stream |-> <<>>]
-----------------------------------------------------------------------------
(* Configuration calls.                                                    *)

(* Mutant of MayReconfigure: the run_pending_ check is forgotten.          *)
MayAlwaysReconfigure == pc = "idle"

(* Calls the code refuses while a run is pending.                          *)
MayReconfigure == pc = "idle" /\ ~runPending

(* Mutant of BindTensor: a rebinding keeps the prepared tensors.           *)
BindTensorKeepsPrepared(n, address) ==
  /\ MayReconfigure
  /\ ProfileCount = 0 \/ shapesResolved
  /\ tensors' = [tensors EXCEPT ![n] = TensorAt(address)]
  /\ UNCHANGED <<session, workspace, tensorsPrepared, choices, groups, cuda,
                 cache, engine, call, runPending, records, device>>

BindTensor(n, address) ==
  /\ MayReconfigure
  /\ ProfileCount = 0 \/ shapesResolved
  /\ tensors' = [tensors EXCEPT ![n] = TensorAt(address)]
  /\ tensorsPrepared' = FALSE
  /\ UNCHANGED <<session, workspace, choices, groups, cuda, cache, engine,
                 call, runPending, records, device>>

BindInput(n, b) == n \in Input /\ BindTensor(n, b)

BindOutput(n, b) == n \in Output /\ BindTensor(n, b)

(* Mutant of DropPrepared: the kernels outlive the shapes.                 *)
DropPreparedKeepsKernels ==
  /\ tensors' = Unbound /\ tensorsPrepared' = FALSE
  /\ tuningPrepared' = FALSE /\ UNCHANGED <<selected, groups>>

(* What a change of profile or shape drops.                                *)
DropPrepared ==
  /\ tensors' = Unbound /\ tensorsPrepared' = FALSE
  /\ kernels' = <<>> /\ kernelsPrepared' = FALSE
  /\ tuningPrepared' = FALSE /\ UNCHANGED selected

InvalidateCudaGraph == graphs' = {} /\ UNCHANGED graphClock

SelectShapeProfile(p) ==
  /\ MayReconfigure
  /\ selectedProfile' = p
  /\ inputShape' = OptShape[p]
  /\ resolvedShape' = OptShape[p]
  /\ shapesResolved' = TRUE
  /\ DropPrepared
  /\ workspace' = Nil
  /\ InvalidateCudaGraph
  /\ UNCHANGED <<cuda, engine, call, runPending, records, device>>

(* Mutant of SetInputShape: shapes_resolved_ is not reset.                 *)
SetInputShapeKeepsResolved(s) ==
  /\ MayReconfigure
  /\ selectedProfile # 0
  /\ s \in InRange[selectedProfile]
  /\ inputShape' = s
  /\ DropPrepared
  /\ UNCHANGED <<selectedProfile, resolvedShape, shapesResolved, workspace,
                 cuda, cache, engine, call, runPending, records, device>>

SetInputShape(s) ==
  /\ MayReconfigure
  /\ selectedProfile # 0
  /\ s \in InRange[selectedProfile]
  /\ inputShape' = s
  /\ shapesResolved' = FALSE
  /\ DropPrepared
  /\ UNCHANGED <<selectedProfile, resolvedShape, workspace, cuda, cache,
                 engine, call, runPending, records, device>>

(* ResolveShapes does not look at run_pending_.  When inference fails it   *)
(* has already overwritten resolved_graph_ and keeps shapes_resolved_.     *)
ResolveShapes ==
  /\ pc = "idle"
  /\ selectedProfile # 0
  /\ \/ /\ inputShape \in Inferable
        /\ resolvedShape' = inputShape
        /\ shapesResolved' = TRUE
     \/ /\ inputShape \notin Inferable
        /\ resolvedShape' = Nil
        /\ UNCHANGED shapesResolved
  /\ UNCHANGED <<selectedProfile, inputShape, bindings, choices, groups, cuda,
                 cache, engine, call, runPending, records, device>>
-----------------------------------------------------------------------------
(* RunAsync, stage by stage.                                               *)

(* Leaving RunAsync, with an error or after the submission.                *)
Return == pc' = "idle" /\ cursor' = 1 /\ request' = Nil

Goto(stage) == pc' = stage /\ cursor' = 1 /\ UNCHANGED request

RunAsync(stream) ==
  /\ MayReconfigure
  /\ graphClock + 2 <= MaxClock
  /\ \A s \in Stream : Len(device[s]) < MaxInFlight
  /\ pc' = "tensors" /\ cursor' = 1 /\ request' = stream
  /\ UNCHANGED <<session, bindings, choices, groups, cuda, cache, engine,
                 runPending, records, device>>

(* std::call_once memoises the outcome of the first initialisation.        *)
OnceOutcomes(status, fault) ==
  IF status # "unset" THEN {status}
  ELSE {"ok"} \cup (IF fault \in Faults THEN {"failed"} ELSE {})

ActivePlanBytes == PlanBytes[selectedProfile]

WorkspaceBytes == IF workspace = Nil THEN 0 ELSE workspace.size

NeedsWorkspace == WorkspaceBytes < ActivePlanBytes

WorkspaceChoices ==
  IF NeedsWorkspace THEN [data : Block, size : {ActivePlanBytes}] ELSE {workspace}

(* tensors_ after the constants and the planned values `done` are entered: *)
(* a view takes the address its source has, everything else a workspace    *)
(* address.                                                                *)
Entered(done, space) ==
  LET source(n) == IF n \in View THEN AliasOf[n] ELSE n
      address(n) == IF source(n) \in Local THEN space.data
                                           ELSE tensors[source(n)].data
  IN  [n \in Name |-> IF n \in Constant THEN [data |-> n, shape |-> Nil]
                      ELSE IF n \in done THEN TensorAt(address(n))
                      ELSE tensors[n]]

(* Views whose source is a boundary tensor nobody has bound yet.           *)
OrphanViews ==
  {v \in View : AliasOf[v] \notin Local /\ tensors[AliasOf[v]] = Nil}

(* PrepareTensors after the constants: allocate the workspace if the plan  *)
(* needs a larger one, then enter the plan's allocations until a view has  *)
(* no source.                                                              *)
EnterAllocations ==
  \/ /\ NeedsWorkspace /\ "workspace" \in Faults
     /\ tensors' = Entered({}, workspace)
     /\ Return
     /\ UNCHANGED <<workspace, tensorsPrepared>>
  \/ /\ workspace' \in WorkspaceChoices
     /\ \/ /\ OrphanViews = {}
           /\ tensors' = Entered(Local, workspace')
           /\ tensorsPrepared' = TRUE
           /\ Goto("bindings")
        \/ /\ OrphanViews # {}
           /\ \E done \in SUBSET (Local \ OrphanViews) :
                tensors' = Entered(done, workspace')
           /\ UNCHANGED tensorsPrepared
           /\ Return

PrepareTensors ==
  /\ pc = "tensors"
  /\ \/ tensorsPrepared /\ Goto("bindings") /\ UNCHANGED <<bindings, constants>>
     \/ /\ ~tensorsPrepared
        /\ constants' \in OnceOutcomes(constants, "constants")
        /\ \/ constants' = "failed" /\ Return /\ UNCHANGED bindings
           \/ constants' = "ok" /\ EnterAllocations
  /\ UNCHANGED <<session, choices, groups, cuda, cache, modules, runPending,
                 records, device>>

ValidateBindings ==
  /\ pc = "bindings"
  /\ \/ (\A n \in Name : tensors[n] # Nil) /\ Goto("tuning")
     \/ (\E n \in Name : tensors[n] = Nil) /\ Return
  /\ UNCHANGED <<session, bindings, choices, groups, cuda, cache, engine,
                 runPending, records, device>>

(* Mutant of Selections: a chosen index may be one too low.                *)
SelectionsOffByOne ==
  {f \in [Op -> Candidate \cup {0}] : \A i \in Op : f[i] \in 0..CandidateCount[i]}

Selections ==
  {f \in [Op -> Candidate] : \A i \in Op : f[i] \in 1..CandidateCount[i]}

(* Work put on a stream by a call that then fails or returns.              *)
Enqueue(stream, submission) ==
  device' = [device EXCEPT ![stream] = Append(@, submission)]

(* Measuring and cache lookups may choose any candidate of an op.  Every   *)
(* measured candidate is waited for on the tuning stream, unless an error  *)
(* returns after its kernels were enqueued ("tuneInFlight").               *)
MeasureCandidates ==
  /\ modules' \in OnceOutcomes(modules, "modules")
  /\ \/ /\ modules' = "failed"
        /\ selected' = DefaultCandidate
        /\ Return
        /\ UNCHANGED <<tuningPrepared, device>>
     \/ /\ modules' = "ok"
        /\ selected' \in Selections
        /\ \/ tuningPrepared' = TRUE /\ Goto("kernels") /\ UNCHANGED device
           \/ /\ "tuning" \in Faults
              /\ Return
              /\ UNCHANGED <<tuningPrepared, device>>
           \/ /\ "tuneInFlight" \in Faults
              /\ \E i \in Op : \E c \in 1..CandidateCount[i] :
                   Enqueue(TuningStream,
                           [work |-> <<[op |-> i, group |-> [op |-> i, candidate |-> c]]>>,
                            tensors |-> tensors])
              /\ Return
              /\ UNCHANGED tuningPrepared

PrepareTuning ==
  /\ pc = "tuning"
  /\ \/ /\ tuningPrepared
        /\ Goto("kernels")
        /\ UNCHANGED <<choices, modules, device>>
     \/ /\ ~tuningPrepared /\ ~(UseCuda /\ TuningEnabled)
        /\ selected' = DefaultCandidate
        /\ tuningPrepared' = TRUE
        /\ Goto("kernels")
        /\ UNCHANGED <<modules, device>>
     \/ ~tuningPrepared /\ UseCuda /\ TuningEnabled /\ MeasureCandidates
  /\ UNCHANGED <<session, bindings, groups, cuda, cache, constants, runPending,
                 records>>

(* kernels_ is appended to, never cleared here: groups built before a      *)
(* failing op stay in it.                                                  *)
AppendGroups(built) ==
  /\ Len(kernels) + built <= MaxGroups
  /\ kernels' = kernels \o SubSeq(PlannedGroups, 1, built)

PrepareKernels ==
  /\ pc = "kernels"
  /\ \/ kernelsPrepared /\ Goto("submit") /\ UNCHANGED <<groups, modules>>
     \/ /\ ~kernelsPrepared
        /\ modules' \in IF UseCuda THEN OnceOutcomes(modules, "modules")
                                   ELSE {modules}
        /\ \/ modules' = "failed" /\ Return /\ UNCHANGED groups
           \/ /\ modules' # "failed"
              /\ AppendGroups(OpCount)
              /\ kernelsPrepared' = TRUE
              /\ Goto("submit")
           \/ /\ modules' # "failed" /\ "kernel" \in Faults
              /\ \E built \in 0..(OpCount - 1) : AppendGroups(built)
              /\ UNCHANGED kernelsPrepared
              /\ Return
  /\ UNCHANGED <<session, bindings, choices, cuda, cache, constants, runPending,
                 records, device>>
-----------------------------------------------------------------------------
(* Submission.                                                             *)

(* The loops over kernels_ index plan.ops() without a bound of their own;  *)
(* with more groups than ops what follows is undefined.                    *)
OverrunsOps == Len(kernels) > OpCount

RunPastOps ==
  /\ pc \in {"host", "enqueue", "capture"}
  /\ OverrunsOps
  /\ pc' = "undefined" /\ UNCHANGED <<cursor, request>>
  /\ UNCHANGED <<session, bindings, choices, groups, cuda, cache, engine,
                 runPending, records, device>>

OpRecords(count) == IF EnableProfiling THEN [i \in 1..count |-> i] ELSE <<>>

(* Mutant of ComputeOnHost: the profiler is not cleared first.             *)
ComputeOnHostKeepsRecords ==
  /\ pc = "host" /\ ~OverrunsOps
  /\ \/ records' = records \o OpRecords(OpCount) /\ runPending' = TRUE
     \/ /\ "enqueue" \in Faults
        /\ \E done \in 0..OpCount : records' = records \o OpRecords(done)
        /\ UNCHANGED runPending
  /\ Return
  /\ UNCHANGED <<session, bindings, choices, groups, cuda, cache, engine, device>>

(* A CPU plan computes in the call; Synchronize only clears the flag.  The *)
(* kernels belong to a backend the program registers; like the ones of     *)
(* tests/cpp they time themselves, so a failing kernel may be recorded.    *)
ComputeOnHost ==
  /\ pc = "host" /\ ~OverrunsOps
  /\ \/ records' = OpRecords(OpCount) /\ runPending' = TRUE
     \/ /\ "enqueue" \in Faults
        /\ \E done \in 0..OpCount : records' = OpRecords(done)
        /\ UNCHANGED runPending
  /\ Return
  /\ UNCHANGED <<session, bindings, choices, groups, cuda, cache, engine, device>>

(* Create cuda_state_ on the first run (a failure destroys it again), make *)
(* its context current and remember the stream.                            *)
StartSubmission ==
  /\ pc = "submit"
  /\ \/ ~UseCuda /\ Goto("host") /\ UNCHANGED cuda
     \/ /\ UseCuda /\ ~cudaReady /\ "cudaInit" \in Faults
        /\ Return /\ UNCHANGED cuda
     \/ /\ UseCuda /\ "current" \in Faults
        /\ cudaReady' = TRUE /\ Return /\ UNCHANGED activeStream
     \/ /\ UseCuda
        /\ cudaReady' = TRUE
        /\ activeStream' = request
        /\ Goto(IF EnableCudaGraph THEN "lookup" ELSE "enqueue")
  /\ UNCHANGED <<session, bindings, choices, groups, cache, engine, runPending,
                 records, device>>

WorkItem(i) == [op |-> i, group |-> kernels[i]]

(* What enqueue_sequence submits for the Context as it is now.             *)
CurrentSubmission ==
  [work |-> [i \in 1..Len(kernels) |-> WorkItem(i)], tensors |-> tensors]

(* enqueue_sequence without a graph: op by op, stopping at the first       *)
(* error with the ops before it already on the stream.                     *)
EnqueueOp ==
  /\ pc = "enqueue" /\ ~OverrunsOps
  /\ \/ /\ Enqueue(activeStream, [work |-> <<WorkItem(cursor)>>, tensors |-> tensors])
        /\ \/ /\ cursor < Len(kernels)
              /\ cursor' = cursor + 1
              /\ UNCHANGED <<pc, request, runPending>>
           \/ cursor = Len(kernels) /\ Return /\ runPending' = TRUE
     \/ /\ "enqueue" \in Faults
        /\ Return
        /\ UNCHANGED <<device, runPending>>
  /\ UNCHANGED <<session, bindings, choices, groups, cuda, cache, engine, records>>

(* Mutant of GraphKey: the output addresses are left out of the key.       *)
GraphKeyWithoutOutputs ==
  [profile    |-> selectedProfile,
   workspace  |-> IF workspace = Nil THEN Nil ELSE workspace.data,
   inputs     |-> [n \in Input |-> tensors[n]],
   candidates |-> selected]

GraphKey ==
  [profile    |-> selectedProfile,
   workspace  |-> IF workspace = Nil THEN Nil ELSE workspace.data,
   inputs     |-> [n \in Input |-> tensors[n]],
   outputs    |-> [n \in Output |-> tensors[n].data],
   candidates |-> selected]

LookupGraph ==
  /\ pc = "lookup"
  /\ Goto(IF \E entry \in graphs : entry.key = GraphKey THEN "launch" ELSE "capture")
  /\ UNCHANGED <<session, bindings, choices, groups, cuda, cache, engine,
                 runPending, records, device>>

(* An entry used now: ++graph_clock is its timestamp.                      *)
CudaGraphEntry(key, submission) ==
  [key |-> key, submission |-> submission, lastUsed |-> graphClock + 1]

Capacity == IF GraphCapacity > 1 THEN GraphCapacity ELSE 1

(* Mutant of LeastRecentlyUsed: the comparison is the wrong way round.     *)
MostRecentlyUsed ==
  {entry \in graphs : \A other \in graphs : entry.lastUsed >= other.lastUsed}

LeastRecentlyUsed ==
  {entry \in graphs : \A other \in graphs : entry.lastUsed <= other.lastUsed}

(* Mutant of CaptureGraph: it evicts only from an overfull cache.          *)
CaptureGraphEvictsLate ==
  /\ pc = "capture" /\ ~OverrunsOps
  /\ \/ /\ \E oldest \in LeastRecentlyUsed \cup {Nil} :
             /\ (oldest # Nil) <=> (Cardinality(graphs) > Capacity)
             /\ graphs' = (graphs \ {oldest}) \cup
                          {CudaGraphEntry(GraphKey, CurrentSubmission)}
        /\ graphClock' = graphClock + 1
        /\ Goto("launch")
     \/ "capture" \in Faults /\ Return /\ UNCHANGED cache
  /\ UNCHANGED <<session, bindings, choices, groups, cuda, engine, runPending,
                 records, device>>

(* Capture and instantiate; nothing is kept of a capture that fails.  The  *)
(* least recently used graph makes room for the new one.                   *)
CaptureGraph ==
  /\ pc = "capture" /\ ~OverrunsOps
  /\ \/ /\ \E oldest \in LeastRecentlyUsed \cup {Nil} :
             /\ (oldest # Nil) <=> (Cardinality(graphs) >= Capacity)
             /\ graphs' = (graphs \ {oldest}) \cup
                          {CudaGraphEntry(GraphKey, CurrentSubmission)}
        /\ graphClock' = graphClock + 1
        /\ Goto("launch")
     \/ "capture" \in Faults /\ Return /\ UNCHANGED cache
  /\ UNCHANGED <<session, bindings, choices, groups, cuda, engine, runPending,
                 records, device>>

LaunchGraph ==
  /\ pc = "launch"
  /\ \E hit \in graphs :
       /\ hit.key = GraphKey
       /\ graphs' = (graphs \ {hit}) \cup {CudaGraphEntry(hit.key, hit.submission)}
       /\ graphClock' = graphClock + 1
       /\ \/ Enqueue(activeStream, hit.submission) /\ runPending' = TRUE
          \/ "launch" \in Faults /\ UNCHANGED <<device, runPending>>
  /\ Return
  /\ UNCHANGED <<session, bindings, choices, groups, cuda, engine, records>>
-----------------------------------------------------------------------------
(* Completion.                                                             *)

(* The device finishes the oldest submission of a stream.                  *)
DeviceStep(stream) ==
  /\ device[stream] # <<>>
  /\ device' = [device EXCEPT ![stream] = Tail(@)]
  /\ UNCHANGED <<session, bindings, choices, groups, cuda, cache, engine, call,
                 runPending, records>>

(* Mutant of StreamDrained: Synchronize waits for the Context's own stream *)
(* even if the run was submitted to the caller's.                          *)
OwnedStreamDrained == UseCuda => device[OwnedStream] = <<>>

StreamDrained == UseCuda => device[activeStream] = <<>>

(* Mutant of Synchronize: it adds to the records of earlier runs.          *)
SynchronizeKeepsRecords ==
  /\ pc = "idle" /\ runPending /\ StreamDrained
  /\ \/ /\ runPending' = FALSE
        /\ records' = IF UseCuda THEN records \o OpRecords(OpCount) ELSE records
     \/ /\ UseCuda /\ EnableProfiling /\ "elapsed" \in Faults
        /\ \E done \in 0..(OpCount - 1) : records' = records \o OpRecords(done)
        /\ UNCHANGED runPending
  /\ UNCHANGED <<session, bindings, choices, groups, cuda, cache, engine, call,
                 device>>

(* Synchronize waits for the active stream, then rebuilds the profile; an  *)
(* error reading an event leaves the run pending.                          *)
Synchronize ==
  /\ pc = "idle" /\ runPending /\ StreamDrained
  /\ \/ /\ runPending' = FALSE
        /\ records' = IF UseCuda THEN OpRecords(OpCount) ELSE records
     \/ /\ UseCuda /\ EnableProfiling /\ "elapsed" \in Faults
        /\ \E done \in 0..(OpCount - 1) : records' = OpRecords(done)
        /\ UNCHANGED runPending
  /\ UNCHANGED <<session, bindings, choices, groups, cuda, cache, engine, call,
                 device>>

(* cuStreamSynchronize reports an error: after a fault of the work itself  *)
(* the stream's work is gone, a call refused for another reason leaves it  *)
(* running.  The flag is cleared either way.                               *)
SynchronizeFails ==
  /\ pc = "idle" /\ runPending /\ UseCuda
  /\ runPending' = FALSE
  /\ \/ "syncAborted" \in Faults /\ device' = [device EXCEPT ![activeStream] = <<>>]
     \/ "syncRejected" \in Faults /\ UNCHANGED device
  /\ UNCHANGED <<session, bindings, choices, groups, cuda, cache, engine, call,
                 records>>

(* ~ExecutionContext synchronises a pending run, then releases everything. *)
Destroy ==
  /\ pc = "idle"
  /\ runPending => StreamDrained
  /\ pc' = "destroyed" /\ UNCHANGED <<cursor, request>>
  /\ runPending' = FALSE
  /\ tensors' = Unbound /\ tensorsPrepared' = FALSE /\ workspace' = Nil
  /\ graphs' = {} /\ UNCHANGED graphClock
  /\ cudaReady' = FALSE /\ activeStream' = Nil
  /\ UNCHANGED <<session, choices, groups, engine, records, device>>

Stopped == pc \in {"destroyed", "undefined"} /\ UNCHANGED vars
-----------------------------------------------------------------------------
Configure ==
  \/ \E n \in Name, b \in Buffer : BindInput(n, b) \/ BindOutput(n, b)
  \/ \E p \in Profile : SelectShapeProfile(p)
  \/ \E s \in Shape : SetInputShape(s)
  \/ ResolveShapes

(* The rest of a RunAsync call that has started.                           *)
RunStage ==
  \/ PrepareTensors \/ ValidateBindings \/ PrepareTuning \/ PrepareKernels
  \/ StartSubmission \/ ComputeOnHost \/ EnqueueOp
  \/ LookupGraph \/ CaptureGraph \/ LaunchGraph \/ RunPastOps

Next ==
  \/ Configure
  \/ \E stream \in CallerStream \cup {OwnedStream} : RunAsync(stream)
  \/ RunStage
  \/ Synchronize \/ SynchronizeFails
  \/ \E stream \in Stream : DeviceStep(stream)
  \/ Destroy
  \/ Stopped

Spec == Init /\ [][Next]_vars
-----------------------------------------------------------------------------
(* Properties.                                                             *)

Stages == {"idle", "tensors", "bindings", "tuning", "kernels", "submit",
           "host", "enqueue", "lookup", "capture", "launch", "undefined",
           "destroyed"}

GraphKeys ==
  [profile : 0..ProfileCount, workspace : Block \cup {Nil},
   inputs : [Input -> Tensor], outputs : [Output -> Address],
   candidates : Seq(Candidate)]

ASSUME EntryAssumption ==
  Nil \notin [key : GraphKeys, submission : Submission, lastUsed : Nat]

(* The type of every variable.                                             *)
TypeOK ==
  /\ selectedProfile \in 0..ProfileCount
  /\ inputShape \in Shape \cup {Nil} /\ resolvedShape \in Shape \cup {Nil}
  /\ shapesResolved \in BOOLEAN
  /\ tensors \in [Name -> Tensor \cup {Nil}] /\ tensorsPrepared \in BOOLEAN
  /\ workspace \in Workspace \cup {Nil}
  /\ selected \in Seq(Candidate) /\ tuningPrepared \in BOOLEAN
  /\ kernels \in Seq(Group) /\ kernelsPrepared \in BOOLEAN
  /\ runPending \in BOOLEAN /\ cudaReady \in BOOLEAN
  /\ activeStream \in Stream \cup {Nil} /\ request \in Stream \cup {Nil}
  /\ graphClock \in Nat
  /\ graphs \subseteq [key : GraphKeys, submission : Submission,
                       lastUsed : 1..graphClock]
  /\ records \in Seq(Op) /\ pc \in Stages /\ cursor \in Nat \ {0}
  /\ {constants, modules} \subseteq {"unset", "ok", "failed"}
  /\ device \in [Stream -> Seq(Submission)]

(* Once shapes count as resolved, the graph in use was inferred for the    *)
(* shapes the caller last set: no call sequence of SelectShapeProfile,     *)
(* SetInputShape and a failing or repeated ResolveShapes leaves an older   *)
(* or half-inferred graph active.                                          *)
ResolvedShapeIsRequested ==
  shapesResolved => /\ resolvedShape = inputShape
                    /\ resolvedShape \in Inferable

(* When a run is tuned and submitted, every tensor its kernels are bound   *)
(* to has the active shape, every intermediate lies in a workspace large   *)
(* enough for the active profile, and a Flatten view still shares the      *)
(* buffer its source is bound to now, whatever was rebound since.          *)
PreparedViewsCurrent ==
  pc \in {"tuning", "kernels", "submit", "host", "enqueue", "lookup",
          "capture", "launch"} =>
    /\ \A n \in Name \ Constant : tensors[n] # Nil /\ tensors[n].shape = ActiveShape
    /\ \A v \in View : tensors[v].data = tensors[AliasOf[v]].data
    /\ \A n \in Local \ View : workspace # Nil /\ tensors[n].data = workspace.data
    /\ WorkspaceBytes >= ActivePlanBytes

(* Prepared kernels are one group per op, in plan order, of the candidate  *)
(* selected for it: kernels_[i] and plan.ops()[i] are about the same op.   *)
KernelsMatchPlan == kernelsPrepared => kernels = PlannedGroups

(* The graph about to be replayed does what capturing now would do: the    *)
(* key tells apart every two sessions that submit different work.          *)
ReplayMatchesSession ==
  pc = "launch" =>
    \A entry \in graphs :
      entry.key = GraphKey => entry.submission = CurrentSubmission

(* The graph LRU never exceeds its capacity and holds one graph per key.   *)
GraphCacheBounded ==
  /\ Cardinality(graphs) <= Capacity
  /\ \A e, f \in graphs : e.key = f.key \/ e.lastUsed = f.lastUsed => e = f

(* The graphs' keys from the least to the most recently used.              *)
RecencyOrder ==
  [i \in 1..Cardinality(graphs) |->
     (CHOOSE e \in graphs :
        Cardinality({f \in graphs : f.lastUsed < e.lastUsed}) = i - 1).key]

Lru == INSTANCE LruCache WITH Capacity <- Capacity, order <- RecencyOrder

(* The timestamps implement an LRU cache: a replay or a capture makes its  *)
(* graph the most recent, and only the least recent one is ever evicted    *)
(* (architecture.md, CUDA Graph LRU).                                      *)
GraphCacheIsLru == Lru!Spec

(* Memory the device uses stays referenced by the Context: bindings and    *)
(* workspace are not dropped under a submission that has not finished.     *)
InFlightMemoryHeld ==
  \A s \in Stream : \A i \in DOMAIN device[s] : \A n \in Name \ Constant :
    LET used == device[s][i].tensors[n]
    IN  used # Nil =>
          \/ \E m \in Name : tensors[m] # Nil /\ tensors[m].data = used.data
          \/ workspace # Nil /\ workspace.data = used.data

(* engine.h: at most one unfinished task.  A Context that accepts a new    *)
(* run or a rebinding has nothing left on any stream.                      *)
AtMostOneUnfinishedTask ==
  MayReconfigure => \A s \in Stream : device[s] = <<>>

(* While a run is pending the session it was submitted from is frozen,     *)
(* ResolveShapes included, which does not check for a pending run.         *)
SessionFrozenWhilePending ==
  [][runPending /\ runPending' =>
       UNCHANGED <<session, bindings, choices, groups, graphs>>]_vars

(* A Synchronize that succeeds leaves one profiling record per op, in      *)
(* plan order, whatever earlier runs or failed Synchronize calls recorded. *)
ProfileIsOfWholeRun ==
  [][pc = "idle" /\ pc' = "idle" /\ runPending /\ ~runPending' =>
       records' = OpRecords(OpCount)]_vars
=============================================================================
