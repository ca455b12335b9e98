----------------------- MODULE ExecutionContextProofs -----------------------
(***************************************************************************)
(* Theorems about ExecutionContext for every value of its constants.       *)
(* Each has its own inductive invariant, no larger than it needs; where a  *)
(* property fails once a particular call may fail (the violation runs show *)
(* how), the theorem assumes that call does not, and nothing else.         *)
(***************************************************************************)
EXTENDS ExecutionContext, BasicLemmas, SequenceTheorems

(* Three calls change the session.                                         *)
LEMMA MostStepsKeepSession ==
  ASSUME [Next]_vars
  PROVE  \/ UNCHANGED session
         \/ \E p \in Profile : SelectShapeProfile(p)
         \/ \E s \in Shape : SetInputShape(s)
         \/ ResolveShapes
<1> USE DEF session
<1>1. CASE \E n \in Name, b \in Buffer : BindInput(n, b) \/ BindOutput(n, b)
  BY <1>1 DEF BindInput, BindOutput, BindTensor
<1>2. CASE \E stream \in CallerStream \cup {OwnedStream} : RunAsync(stream)
  BY <1>2 DEF RunAsync
<1>3. CASE RunStage
  BY <1>3 DEF RunStage, PrepareTensors, ValidateBindings, PrepareTuning,
     PrepareKernels, StartSubmission, ComputeOnHost, EnqueueOp, LookupGraph,
     CaptureGraph, LaunchGraph, RunPastOps
<1>4. CASE Synchronize \/ SynchronizeFails \/ Destroy \/ Stopped
  BY <1>4 DEF Synchronize, SynchronizeFails, Destroy, Stopped, vars
<1>5. CASE \E stream \in Stream : DeviceStep(stream)
  BY <1>5 DEF DeviceStep
<1>6. CASE UNCHANGED vars
  BY <1>6 DEF vars
<1> QED
  BY <1>1, <1>2, <1>3, <1>4, <1>5, <1>6 DEF Next, Configure
-----------------------------------------------------------------------------
(* A context of one profile starts resolved at its opt point.              *)
LEMMA ResolvedInitially == Init => ResolvedShapeIsRequested
<1>1. OptShape \in [Profile -> Inferable]
  BY ShapeAssumption
<1>2. ProfileCount = 1 => 1 \in Profile
  BY DEF Profile
<1>3. ProfileCount = 1 => OptShape[1] \in Inferable
  BY <1>1, <1>2, Zenon
<1> QED
  BY <1>3, Zenon DEF Init, ResolvedShapeIsRequested

(* No call leaves another graph active than the one requested.             *)
LEMMA ResolvedInductive ==
  ASSUME ResolvedShapeIsRequested, [Next]_vars
  PROVE  ResolvedShapeIsRequested'
<1> USE DEF ResolvedShapeIsRequested
<1>1. CASE UNCHANGED session
  BY <1>1 DEF session
<1>2. CASE \E p \in Profile : SelectShapeProfile(p)
  BY <1>2, ShapeAssumption DEF SelectShapeProfile
<1>3. CASE \E s \in Shape : SetInputShape(s)
  BY <1>3 DEF SetInputShape
<1>4. CASE ResolveShapes
  BY <1>4 DEF ResolveShapes
<1> QED
  BY <1>1, <1>2, <1>3, <1>4, MostStepsKeepSession

(* An inference that fails overwrites resolved_graph_ but leaves           *)
(* shapes_resolved_ alone; the property is inductive because a resolved    *)
(* session holds a shape inference has already succeeded on, so the failing *)
(* branch is taken only while shapes_resolved_ is false.                   *)
THEOREM ResolvedShapesAreRequested == Spec => []ResolvedShapeIsRequested
<1>1. ResolvedShapeIsRequested /\ [Next]_vars => ResolvedShapeIsRequested'
  BY ResolvedInductive
<1> QED
  BY <1>1, ResolvedInitially, PTL DEF Spec
-----------------------------------------------------------------------------
(* The stages of RunAsync after PrepareTuning.                             *)
Tuned == {"kernels", "submit", "host", "enqueue", "lookup", "capture", "launch"}

(* Groups are only ever complete or absent, and are absent until the       *)
(* candidates they are built for have been chosen.                         *)
GroupsInv ==
  /\ kernelsPrepared => tuningPrepared /\ kernels = PlannedGroups
  /\ ~kernelsPrepared => kernels = <<>>
  /\ pc \in Tuned => tuningPrepared
  /\ pc \in Tuned \ {"kernels"} => kernelsPrepared

(* Appending all planned groups to none yields the planned groups.         *)
LEMMA AllGroups == <<>> \o SubSeq(PlannedGroups, 1, OpCount) = PlannedGroups
<1> DEFINE S == {PlannedGroups[i] : i \in Op}
<1>1. PlannedGroups \in Seq(S) /\ Len(PlannedGroups) = OpCount
  BY ModeAssumption DEF PlannedGroups, Op
<1> HIDE DEF S
<1>2. SubSeq(PlannedGroups, 1, OpCount) = PlannedGroups
  BY <1>1, ModeAssumption
<1> QED
  BY <1>1, <1>2

(* Every step keeps the groups complete or absent.                         *)
LEMMA GroupsInvInductive ==
  ASSUME "kernel" \notin Faults, GroupsInv, [Next]_vars
  PROVE  GroupsInv'
<1> USE DEF GroupsInv, groups, choices, Tuned, Goto, Return, PlannedGroups
<1>1. CASE \E n \in Name, b \in Buffer : BindInput(n, b) \/ BindOutput(n, b)
  BY <1>1 DEF BindInput, BindOutput, BindTensor, MayReconfigure, call
<1>2. CASE \E p \in Profile : SelectShapeProfile(p)
  BY <1>2 DEF SelectShapeProfile, DropPrepared, MayReconfigure, call
<1>3. CASE \E s \in Shape : SetInputShape(s)
  BY <1>3 DEF SetInputShape, DropPrepared, MayReconfigure, call
<1>4. CASE ResolveShapes
  BY <1>4 DEF ResolveShapes, call
<1>5. CASE \E stream \in CallerStream \cup {OwnedStream} : RunAsync(stream)
  BY <1>5 DEF RunAsync
<1>6. CASE PrepareTensors \/ ValidateBindings
  BY <1>6 DEF PrepareTensors, EnterAllocations, ValidateBindings
<1>7. CASE PrepareTuning
  BY <1>7 DEF PrepareTuning, MeasureCandidates
<1>8. CASE PrepareKernels
  <2>1. CASE kernelsPrepared
    BY <1>8, <2>1 DEF PrepareKernels
  <2>2. CASE ~kernelsPrepared
    <3>1. /\ UNCHANGED <<selected, tuningPrepared>> /\ tuningPrepared /\ kernels = <<>>
          /\ \/ UNCHANGED <<kernels, kernelsPrepared>> /\ pc' = "idle"
             \/ /\ kernels' = <<>> \o SubSeq(PlannedGroups, 1, OpCount)
                /\ kernelsPrepared' = TRUE /\ pc' = "submit"
      BY <1>8, <2>2 DEF PrepareKernels, AppendGroups
    <3>2. PlannedGroups' = PlannedGroups
      BY <3>1
    <3> HIDE DEF PlannedGroups
    <3>3. CASE UNCHANGED <<kernels, kernelsPrepared>> /\ pc' = "idle"
      BY <2>2, <3>1, <3>3
    <3>4. CASE kernels' = <<>> \o SubSeq(PlannedGroups, 1, OpCount) /\ kernelsPrepared' = TRUE
      <4>1. kernels' = PlannedGroups'
        BY <3>2, <3>4, AllGroups
      <4> QED
        BY <3>1, <3>4, <4>1
    <3> QED
      BY <3>1, <3>3, <3>4
  <2> QED
    BY <2>1, <2>2
<1>9. CASE StartSubmission \/ LookupGraph
  BY <1>9 DEF StartSubmission, LookupGraph
<1>10. CASE ComputeOnHost \/ EnqueueOp \/ RunPastOps
  BY <1>10 DEF ComputeOnHost, EnqueueOp, RunPastOps
<1>11. CASE CaptureGraph \/ LaunchGraph
  BY <1>11 DEF CaptureGraph, LaunchGraph
<1>12. CASE Synchronize \/ SynchronizeFails \/ Destroy
  BY <1>12 DEF Synchronize, SynchronizeFails, Destroy, call
<1>13. CASE \E stream \in Stream : DeviceStep(stream)
  BY <1>13 DEF DeviceStep, call
<1>14. CASE UNCHANGED vars
  BY <1>14 DEF vars, call
<1> HIDE DEF GroupsInv, Goto, Return, PlannedGroups
<1> QED
  BY <1>1, <1>2, <1>3, <1>4, <1>5, <1>6, <1>7, <1>8, <1>9, <1>10, <1>11,
     <1>12, <1>13, <1>14 DEF Next, Configure, RunStage, Stopped

(* As long as building a kernel group never fails, a Context holds no      *)
(* group or exactly one per op, of the candidate selected for it: no order *)
(* of reshaping, retuning and failing elsewhere mixes the groups of two    *)
(* preparations.  (ctx_kernel_fault shows the assumption is needed.)       *)
THEOREM KernelsFollowPlan ==
  ASSUME "kernel" \notin Faults
  PROVE  Spec => []KernelsMatchPlan
<1>1. Init => GroupsInv
  BY DEF Init, GroupsInv, Tuned
<1>2. GroupsInv /\ [Next]_vars => GroupsInv'
  BY GroupsInvInductive
<1>3. GroupsInv => KernelsMatchPlan
  BY DEF GroupsInv, KernelsMatchPlan
<1> QED
  BY <1>1, <1>2, <1>3, PTL DEF Spec
-----------------------------------------------------------------------------
Drained == \A s \in Stream : device[s] = <<>>

OthersDrained == \A s \in Stream \ {activeStream} : device[s] = <<>>

(* All unfinished work is on the active stream, and there is some only     *)
(* while a run is pending or is being enqueued; a CPU plan queues none.    *)
DeviceInv ==
  /\ DOMAIN device = Stream
  /\ runPending => pc = "idle"
  /\ runPending \/ pc = "enqueue" => OthersDrained
  /\ ~runPending /\ pc \notin {"enqueue", "undefined", "destroyed"} => Drained
  /\ ~UseCuda => Drained
  /\ pc \in {"enqueue", "lookup", "capture", "launch"} => UseCuda

(* Enqueueing on the active stream leaves the other streams as they are.   *)
LEMMA EnqueueOnActive ==
  ASSUME DOMAIN device = Stream, OthersDrained, NEW submission,
         Enqueue(activeStream, submission), UNCHANGED activeStream
  PROVE  DOMAIN device' = Stream /\ OthersDrained'
BY DEF Enqueue, OthersDrained

(* Every step keeps unfinished work on the active stream.                  *)
LEMMA DeviceInvInductive ==
  ASSUME Faults \cap {"enqueue", "tuneInFlight", "syncRejected"} = {},
         DeviceInv, [Next]_vars
  PROVE  DeviceInv'
<1> USE DEF DeviceInv, Drained, OthersDrained
<1>1. CASE UNCHANGED <<device, runPending, activeStream, pc>>
  BY <1>1
<1>2. CASE Configure
  BY <1>2, <1>1 DEF Configure, BindInput, BindOutput, BindTensor,
     SelectShapeProfile, SetInputShape, ResolveShapes, call, cuda
<1>3. CASE \E stream \in CallerStream \cup {OwnedStream} : RunAsync(stream)
  BY <1>3 DEF RunAsync, MayReconfigure, cuda
<1>4. CASE PrepareTensors \/ ValidateBindings \/ PrepareTuning
  BY <1>4 DEF PrepareTensors, EnterAllocations, ValidateBindings,
     PrepareTuning, MeasureCandidates, Goto, Return, cuda
<1>5. CASE PrepareKernels \/ LookupGraph \/ CaptureGraph \/ RunPastOps
  BY <1>5 DEF PrepareKernels, LookupGraph, CaptureGraph, RunPastOps, Goto, Return, cuda
<1>6. CASE StartSubmission
  BY <1>6 DEF StartSubmission, Goto, Return, cuda
<1>7. CASE ComputeOnHost
  BY <1>7 DEF ComputeOnHost, Return, cuda
<1>8. CASE EnqueueOp
  <2>1. DOMAIN device' = Stream /\ OthersDrained'
    BY <1>8, EnqueueOnActive DEF EnqueueOp, cuda
  <2> QED
    BY <1>8, <2>1 DEF EnqueueOp, Return
<1>9. CASE LaunchGraph
  <2>1. CASE UNCHANGED <<device, runPending>>
    BY <1>9, <2>1 DEF LaunchGraph, Return, cuda
  <2>2. CASE runPending' = TRUE /\ \E hit \in graphs : Enqueue(activeStream, hit.submission)
    <3>1. DOMAIN device' = Stream /\ OthersDrained'
      BY <1>9, <2>2, EnqueueOnActive DEF LaunchGraph, cuda
    <3> QED
      BY <1>9, <2>2, <3>1 DEF LaunchGraph, Return
  <2> QED
    BY <1>9, <2>1, <2>2 DEF LaunchGraph
<1>10. CASE Synchronize \/ Destroy
  BY <1>10 DEF Synchronize, StreamDrained, Destroy, call, cuda
<1>11. CASE SynchronizeFails
  BY <1>11 DEF SynchronizeFails, call, cuda
<1>12. CASE \E stream \in Stream : DeviceStep(stream)
  BY <1>12 DEF DeviceStep, call, cuda
<1>13. CASE UNCHANGED vars
  BY <1>13, <1>1 DEF vars, call, cuda
<1> HIDE DEF DeviceInv
<1> QED
  BY <1>2, <1>3, <1>4, <1>5, <1>6, <1>7, <1>8, <1>9, <1>10, <1>11, <1>12, <1>13
     DEF Next, RunStage, Stopped

(* engine.h's promise holds with every failure but three: a call that      *)
(* fails between two ops of a plain submission, a measurement that fails   *)
(* after its kernels were enqueued, and a synchronisation that is refused. *)
(* Streams the caller passes, kept or changed from run to run, do not      *)
(* weaken it.                                                              *)
THEOREM OneUnfinishedTask ==
  ASSUME Faults \cap {"enqueue", "tuneInFlight", "syncRejected"} = {}
  PROVE  Spec => []AtMostOneUnfinishedTask
<1>1. Init => DeviceInv
  BY DEF Init, DeviceInv, Drained
<1>2. DeviceInv /\ [Next]_vars => DeviceInv'
  BY DeviceInvInductive
<1>3. DeviceInv => AtMostOneUnfinishedTask
  BY DEF DeviceInv, Drained, AtMostOneUnfinishedTask, MayReconfigure
<1> QED
  BY <1>1, <1>2, <1>3, PTL DEF Spec
-----------------------------------------------------------------------------
(* The stages of RunAsync after ValidateBindings.                          *)
Validated == Tuned \cup {"tuning"}

(* Inputs can be bound only once the shapes are resolved, and everything   *)
(* that unresolves the shapes unbinds them, so a run that is under way or  *)
(* pending has resolved shapes.                                            *)
PendingInv ==
  /\ shapesResolved \in BOOLEAN /\ selectedProfile \in 0..ProfileCount
  /\ (\E n \in Input : tensors[n] # Nil) => ProfileCount = 0 \/ shapesResolved
  /\ runPending \/ pc \in Validated => \A n \in Input : tensors[n] # Nil
  /\ runPending => pc = "idle"
  /\ ResolvedShapeIsRequested

(* Entering planned values leaves the inputs as bound.                     *)
LEMMA InputsKept ==
  ASSUME NEW done \in SUBSET Local, NEW space, NEW n \in Input
  PROVE  Entered(done, space)[n] = tensors[n]
BY NameAssumption DEF Entered, Name

(* So PrepareTensors does not touch the inputs.                            *)
LEMMA PrepareTensorsKeepsInputs ==
  ASSUME PrepareTensors
  PROVE  \A n \in Input : tensors'[n] = tensors[n]
<1>1. CASE UNCHANGED tensors
  BY <1>1
<1>2. CASE tensors' = Entered({}, workspace)
  BY <1>2, InputsKept
<1>3. CASE \E done \in SUBSET Local : tensors' = Entered(done, workspace')
  BY <1>3, InputsKept
<1> QED
  BY <1>1, <1>2, <1>3 DEF PrepareTensors, EnterAllocations, bindings

(* Every step keeps the shapes of a bound session resolved.                *)
LEMMA PendingInvInductive == PendingInv /\ [Next]_vars => PendingInv'
<1> SUFFICES ASSUME PendingInv, [Next]_vars PROVE PendingInv'
  OBVIOUS
<1> USE DEF PendingInv, Validated, Tuned, ResolvedShapeIsRequested, session, bindings
<1>1. CASE \E n \in Name, b \in Buffer : BindInput(n, b) \/ BindOutput(n, b)
  BY <1>1 DEF BindInput, BindOutput, BindTensor, MayReconfigure, call
<1>2. CASE \E p \in Profile : SelectShapeProfile(p)
  <2>1. \A n \in Input : tensors'[n] = Nil
    BY <1>2 DEF SelectShapeProfile, DropPrepared, Unbound, Name
  <2> QED
    BY <1>2, <2>1, ShapeAssumption, ModeAssumption
       DEF SelectShapeProfile, MayReconfigure, call, Profile
<1>3. CASE \E s \in Shape : SetInputShape(s)
  <2>1. \A n \in Input : tensors'[n] = Nil
    BY <1>3 DEF SetInputShape, DropPrepared, Unbound, Name
  <2>2. shapesResolved' = FALSE /\ selectedProfile' = selectedProfile
    BY <1>3 DEF SetInputShape
  <2>3. ~runPending' /\ pc' = "idle"
    BY <1>3 DEF SetInputShape, MayReconfigure, call
  <2> QED
    BY <2>1, <2>2, <2>3
<1>4. CASE ResolveShapes
  <2>1. UNCHANGED <<selectedProfile, inputShape, tensors, runPending, pc>>
    BY <1>4 DEF ResolveShapes, call
  <2>2. \/ shapesResolved' = TRUE /\ resolvedShape' = inputShape /\ inputShape \in Inferable
        \/ shapesResolved' = shapesResolved /\ inputShape \notin Inferable
    BY <1>4 DEF ResolveShapes
  <2>3. CASE ~shapesResolved /\ shapesResolved' = shapesResolved
    BY <2>1, <2>3
  <2>4. CASE shapesResolved' = TRUE /\ resolvedShape' = inputShape /\ inputShape \in Inferable
    BY <2>1, <2>4
  <2>5. shapesResolved => inputShape \in Inferable
    OBVIOUS
  <2> QED
    BY <2>2, <2>3, <2>4, <2>5
<1>5. CASE \E stream \in CallerStream \cup {OwnedStream} : RunAsync(stream)
  BY <1>5 DEF RunAsync, MayReconfigure
<1>6. CASE PrepareTensors
  <2>1. \A n \in Input : tensors'[n] = tensors[n]
    BY <1>6, PrepareTensorsKeepsInputs
  <2>2. pc = "tensors" /\ pc' \in {"idle", "bindings"} /\ UNCHANGED <<session, runPending>>
    BY <1>6 DEF PrepareTensors, EnterAllocations, Goto, Return
  <2>3. (\E n \in Input : tensors'[n] # Nil) => ProfileCount = 0 \/ shapesResolved'
    BY <2>1, <2>2
  <2>4. ~runPending' /\ pc' \notin Validated
    BY <2>2
  <2> QED
    BY <2>2, <2>3, <2>4
<1>7. CASE ValidateBindings
  <2>1. pc' \in Validated => \A n \in Input : tensors'[n] # Nil
    BY <1>7 DEF ValidateBindings, Goto, Return, Name
  <2>2. ~runPending' /\ UNCHANGED <<session, tensors>>
    BY <1>7 DEF ValidateBindings
  <2> QED
    BY <2>1, <2>2
<1>8. CASE PrepareTuning \/ PrepareKernels
  BY <1>8 DEF PrepareTuning, MeasureCandidates, PrepareKernels, Goto, Return
<1>9. CASE StartSubmission \/ LookupGraph \/ CaptureGraph \/ RunPastOps
  BY <1>9 DEF StartSubmission, LookupGraph, CaptureGraph, RunPastOps, Goto, Return
<1>10. CASE ComputeOnHost \/ EnqueueOp \/ LaunchGraph
  BY <1>10 DEF ComputeOnHost, EnqueueOp, LaunchGraph, Return
<1>11. CASE Synchronize \/ SynchronizeFails
  BY <1>11 DEF Synchronize, SynchronizeFails, call
<1>12. CASE Destroy
  <2>1. \A n \in Input : tensors'[n] = Nil
    BY <1>12 DEF Destroy, Unbound, Name
  <2> QED
    BY <1>12, <2>1 DEF Destroy
<1>13. CASE \E stream \in Stream : DeviceStep(stream)
  BY <1>13 DEF DeviceStep, call
<1>14. CASE UNCHANGED vars
  BY <1>14 DEF vars, call
<1> HIDE DEF PendingInv
<1> QED
  BY <1>1, <1>2, <1>3, <1>4, <1>5, <1>6, <1>7, <1>8, <1>9, <1>10, <1>11,
     <1>12, <1>13, <1>14 DEF Next, Configure, RunStage, Stopped

(* ResolveShapes lacks the pending check the other calls make.  Nothing    *)
(* comes of it: the shapes of a pending run are resolved already, so       *)
(* resolving them again changes nothing the run was submitted with.        *)
THEOREM PendingSessionFrozen == Spec => SessionFrozenWhilePending
<1> DEFINE Frozen == runPending /\ runPending' =>
                       UNCHANGED <<session, bindings, choices, groups, graphs>>
<1>1. Init => PendingInv
  <2> SUFFICES ASSUME Init PROVE PendingInv
    OBVIOUS
  <2>1. shapesResolved \in BOOLEAN /\ selectedProfile \in 0..ProfileCount
    BY ModeAssumption DEF Init
  <2>2. \A n \in Input : tensors[n] = Nil
    BY DEF Init, Unbound, Name
  <2>3. ~runPending /\ pc \notin Validated
    BY DEF Init, Validated, Tuned
  <2> QED
    BY <2>1, <2>2, <2>3, ResolvedInitially DEF PendingInv
<1>2. PendingInv /\ [Next]_vars => PendingInv'
  BY PendingInvInductive
<1>3. PendingInv /\ [Next]_vars => [Frozen]_vars
  <2> SUFFICES ASSUME PendingInv, Next, runPending, runPending'
               PROVE  UNCHANGED <<session, bindings, choices, groups, graphs>>
    OBVIOUS
  <2>1. pc = "idle"
    BY DEF PendingInv
  <2>2. CASE Configure
    <3>1. ResolveShapes
      BY <2>2 DEF Configure, BindInput, BindOutput, BindTensor,
         SelectShapeProfile, SetInputShape, MayReconfigure
    <3>2. ProfileCount # 0 /\ shapesResolved
      BY <3>1, NameAssumption, ModeAssumption DEF ResolveShapes, PendingInv
    <3> QED
      BY <3>1, <3>2 DEF ResolveShapes, PendingInv, ResolvedShapeIsRequested, session, cache
  <2>3. CASE Synchronize \/ SynchronizeFails \/ Destroy
    BY <2>3 DEF Synchronize, SynchronizeFails, Destroy, cache
  <2>4. CASE \E stream \in Stream : DeviceStep(stream)
    BY <2>4 DEF DeviceStep, cache
  <2>5. CASE UNCHANGED vars
    BY <2>5 DEF vars, cache
  <2>6. ~RunStage
    BY <2>1 DEF RunStage, PrepareTensors, ValidateBindings, PrepareTuning,
       PrepareKernels, StartSubmission, ComputeOnHost, EnqueueOp, LookupGraph,
       CaptureGraph, LaunchGraph, RunPastOps
  <2>7. ~ \E stream \in CallerStream \cup {OwnedStream} : RunAsync(stream)
    BY DEF RunAsync, MayReconfigure
  <2> QED
    BY <2>2, <2>3, <2>4, <2>5, <2>6, <2>7 DEF Next, Stopped
<1> QED
  BY <1>1, <1>2, <1>3, PTL DEF Spec, SessionFrozenWhilePending
-----------------------------------------------------------------------------
(* A CPU run has recorded its profile by the time it is pending.           *)
ProfileInv ==
  /\ runPending => pc = "idle"
  /\ runPending /\ ~UseCuda => records = OpRecords(OpCount)
  /\ pc \in {"enqueue", "lookup", "capture", "launch"} => UseCuda

(* Every step keeps a pending CPU run profiled.                            *)
LEMMA ProfileInvInductive == ProfileInv /\ [Next]_vars => ProfileInv'
<1> SUFFICES ASSUME ProfileInv, [Next]_vars PROVE ProfileInv'
  OBVIOUS
<1> USE DEF ProfileInv, OpRecords
<1>1. CASE UNCHANGED <<runPending, records, pc>>
  BY <1>1
<1>2. CASE Configure
  BY <1>1, <1>2 DEF Configure, BindInput, BindOutput, BindTensor,
     SelectShapeProfile, SetInputShape, ResolveShapes, call
<1>3. CASE \E stream \in CallerStream \cup {OwnedStream} : RunAsync(stream)
  BY <1>3 DEF RunAsync, MayReconfigure
<1>4. CASE PrepareTensors \/ ValidateBindings \/ PrepareTuning \/ PrepareKernels
  BY <1>4 DEF PrepareTensors, EnterAllocations, ValidateBindings,
     PrepareTuning, MeasureCandidates, PrepareKernels, Goto, Return
<1>5. CASE StartSubmission \/ LookupGraph \/ CaptureGraph \/ RunPastOps
  BY <1>5 DEF StartSubmission, LookupGraph, CaptureGraph, RunPastOps, Goto, Return
<1>6. CASE ComputeOnHost \/ EnqueueOp \/ LaunchGraph
  BY <1>6 DEF ComputeOnHost, EnqueueOp, LaunchGraph, Return
<1>7. CASE Synchronize \/ SynchronizeFails \/ Destroy
  BY <1>7 DEF Synchronize, SynchronizeFails, Destroy, call
<1>8. CASE \E stream \in Stream : DeviceStep(stream)
  BY <1>1, <1>8 DEF DeviceStep, call
<1>9. CASE UNCHANGED vars
  BY <1>1, <1>9 DEF vars, call
<1> HIDE DEF ProfileInv
<1> QED
  BY <1>2, <1>3, <1>4, <1>5, <1>6, <1>7, <1>8, <1>9 DEF Next, RunStage, Stopped

(* Unless the stream synchronisation itself reports an error, the call     *)
(* that clears the pending run leaves the profile of that whole run,       *)
(* on either device and after any number of attempts that failed to read   *)
(* an event.                                                               *)
THEOREM ProfileComplete ==
  ASSUME Faults \cap {"syncAborted", "syncRejected"} = {}
  PROVE  Spec => ProfileIsOfWholeRun
<1> DEFINE Complete == pc = "idle" /\ pc' = "idle" /\ runPending /\ ~runPending' =>
                         records' = OpRecords(OpCount)
<1>1. Init => ProfileInv
  BY DEF Init, ProfileInv
<1>2. ProfileInv /\ [Next]_vars => ProfileInv'
  BY ProfileInvInductive
<1>3. ProfileInv /\ [Next]_vars => [Complete]_vars
  <2> SUFFICES ASSUME ProfileInv, Next, pc = "idle", pc' = "idle", runPending, ~runPending'
               PROVE  records' = OpRecords(OpCount)
    OBVIOUS
  <2>1. CASE Configure
    BY <2>1 DEF Configure, BindInput, BindOutput, BindTensor,
       SelectShapeProfile, SetInputShape, ResolveShapes
  <2>2. CASE \E stream \in CallerStream \cup {OwnedStream} : RunAsync(stream)
    BY <2>2 DEF RunAsync
  <2>3. CASE RunStage
    BY <2>3 DEF RunStage, PrepareTensors, ValidateBindings, PrepareTuning,
       PrepareKernels, StartSubmission, ComputeOnHost, EnqueueOp, LookupGraph,
       CaptureGraph, LaunchGraph, RunPastOps
  <2>4. CASE Synchronize
    BY <2>4 DEF Synchronize, ProfileInv
  <2>5. CASE SynchronizeFails \/ Destroy \/ Stopped
    BY <2>5 DEF SynchronizeFails, Destroy, Stopped
  <2>6. CASE \E stream \in Stream : DeviceStep(stream)
    BY <2>6 DEF DeviceStep
  <2> QED
    BY <2>1, <2>2, <2>3, <2>4, <2>5, <2>6 DEF Next
<1> QED
  BY <1>1, <1>2, <1>3, PTL DEF Spec, ProfileIsOfWholeRun
-----------------------------------------------------------------------------
(* Timestamps are distinct and past, and a key about to be captured is not *)
(* in the cache: LookupGraph has just missed it, and nothing the key is    *)
(* made of changes between the two.                                        *)
GraphsInv ==
  /\ GraphCacheBounded
  /\ IsFiniteSet(graphs) /\ graphClock \in Nat
  /\ \A e \in graphs : e.lastUsed \in 1..graphClock
  /\ pc = "capture" => \A e \in graphs : e.key # GraphKey

(* The code raises a capacity of 0 to 1.                                   *)
LEMMA CapacityType == Capacity \in Nat \ {0}
BY ModeAssumption DEF Capacity

(* Dropping every graph keeps the cache invariant.                         *)
LEMMA EmptyCache == ASSUME graphs' = {}, graphClock' \in Nat PROVE GraphsInv'
<1>1. IsFiniteSet({}) /\ Cardinality({}) = 0
  BY FS_EmptySet
<1> QED
  BY <1>1, CapacityType DEF GraphsInv, GraphCacheBounded, Capacity

(* Without one of its entries the cache has room.                          *)
LEMMA DropOne ==
  ASSUME GraphsInv, NEW entry \in graphs
  PROVE  Cardinality(graphs \ {entry}) < Capacity
<1>1. IsFiniteSet(graphs) /\ Cardinality(graphs) <= Capacity
  BY DEF GraphsInv, GraphCacheBounded
<1>2. Cardinality(graphs \ {entry}) = Cardinality(graphs) - 1
  BY <1>1, FS_RemoveElement
<1> QED
  BY <1>1, <1>2, FS_CardinalityType, CapacityType

(* Entering an entry with a new key and a new timestamp.                   *)
LEMMA EnterEntry ==
  ASSUME GraphsInv, NEW gone, NEW key, NEW submission,
         graphs' = (graphs \ {gone}) \cup {CudaGraphEntry(key, submission)},
         Cardinality(graphs \ {gone}) < Capacity,
         graphClock' = graphClock + 1,
         \A e \in graphs \ {gone} : e.key # key,
         pc' # "capture"
  PROVE  GraphsInv'
<1> DEFINE kept == graphs \ {gone}
           entry == CudaGraphEntry(key, submission)
<1>1. IsFiniteSet(kept) /\ Cardinality(kept) \in Nat
  BY FS_Subset, FS_CardinalityType DEF GraphsInv
<1>2. /\ entry.key = key /\ entry.lastUsed = graphClock + 1
      /\ \A e \in kept : e.lastUsed \in 1..graphClock /\ e.key # entry.key
      /\ \A e, f \in kept : e.key = f.key \/ e.lastUsed = f.lastUsed => e = f
      /\ graphClock \in Nat
  BY DEF CudaGraphEntry, GraphsInv, GraphCacheBounded
<1> HIDE DEF kept, entry
<1>3. graphs' = kept \cup {entry} /\ Cardinality(kept) < Capacity
  BY DEF kept, entry
<1>4. IsFiniteSet(graphs') /\ Cardinality(graphs') <= Cardinality(kept) + 1
  BY <1>1, <1>3, FS_AddElement
<1>5. Cardinality(graphs') <= Capacity
  BY <1>1, <1>3, <1>4, CapacityType, FS_CardinalityType
<1>6. \A e, f \in graphs' : e.key = f.key \/ e.lastUsed = f.lastUsed => e = f
  BY <1>2, <1>3
<1>7. \A e \in graphs' : e.lastUsed \in 1..graphClock'
  BY <1>2, <1>3
<1> QED
  BY <1>2, <1>4, <1>5, <1>6, <1>7 DEF GraphsInv, GraphCacheBounded, Capacity

(* Every step keeps the cache invariant.                                   *)
LEMMA GraphsInvInductive == GraphsInv /\ [Next]_vars => GraphsInv'
<1> SUFFICES ASSUME GraphsInv, [Next]_vars PROVE GraphsInv'
  OBVIOUS
<1>1. CASE UNCHANGED <<graphs, graphClock>> /\ pc' # "capture"
  BY <1>1 DEF GraphsInv, GraphCacheBounded, Capacity
<1>2. CASE Configure
  <2>1. CASE \E p \in Profile : SelectShapeProfile(p)
    BY <2>1, EmptyCache DEF SelectShapeProfile, InvalidateCudaGraph, GraphsInv
  <2>2. CASE ~ \E p \in Profile : SelectShapeProfile(p)
    BY <1>1, <1>2, <2>2 DEF Configure, BindInput, BindOutput, BindTensor,
       SetInputShape, ResolveShapes, MayReconfigure, call, cache
  <2> QED
    BY <2>1, <2>2
<1>3. CASE \E stream \in CallerStream \cup {OwnedStream} : RunAsync(stream)
  BY <1>1, <1>3 DEF RunAsync, cache
<1>4. CASE PrepareTensors \/ ValidateBindings \/ PrepareTuning \/ PrepareKernels
  BY <1>1, <1>4 DEF PrepareTensors, EnterAllocations, ValidateBindings,
     PrepareTuning, MeasureCandidates, PrepareKernels, Goto, Return, cache
<1>5. CASE StartSubmission \/ ComputeOnHost \/ EnqueueOp \/ RunPastOps
  BY <1>1, <1>5 DEF StartSubmission, ComputeOnHost, EnqueueOp, RunPastOps,
     Goto, Return, cache
<1>6. CASE LookupGraph
  <2>1. UNCHANGED <<graphs, graphClock>> /\ GraphKey' = GraphKey
    BY <1>6 DEF LookupGraph, GraphKey, cache, session, bindings, choices
  <2>2. pc' = "capture" => \A e \in graphs' : e.key # GraphKey'
    BY <1>6, <2>1 DEF LookupGraph, Goto
  <2> QED
    BY <2>1, <2>2 DEF GraphsInv, GraphCacheBounded, Capacity
<1>7. CASE CaptureGraph
  <2>1. CASE UNCHANGED cache /\ pc' = "idle"
    BY <1>1, <2>1 DEF cache
  <2>2. CASE \E oldest \in LeastRecentlyUsed \cup {Nil} :
               /\ (oldest # Nil) <=> (Cardinality(graphs) >= Capacity)
               /\ graphs' = (graphs \ {oldest}) \cup
                               {CudaGraphEntry(GraphKey, CurrentSubmission)}
               /\ graphClock' = graphClock + 1
               /\ pc' = "launch"
    <3>1. PICK oldest \in LeastRecentlyUsed \cup {Nil} :
               /\ (oldest # Nil) <=> (Cardinality(graphs) >= Capacity)
               /\ graphs' = (graphs \ {oldest}) \cup
                               {CudaGraphEntry(GraphKey, CurrentSubmission)}
               /\ graphClock' = graphClock + 1
               /\ pc' = "launch"
      BY <2>2
    <3>2. Cardinality(graphs \ {oldest}) < Capacity
      <4>1. CASE oldest \in graphs
        BY <4>1, DropOne
      <4>2. CASE oldest \notin graphs
        <5>1. oldest = Nil /\ graphs \ {oldest} = graphs
          BY <3>1, <4>2 DEF LeastRecentlyUsed
        <5> QED
          BY <3>1, <5>1, FS_CardinalityType, CapacityType DEF GraphsInv
      <4> QED
        BY <4>1, <4>2
    <3>3. \A e \in graphs \ {oldest} : e.key # GraphKey
      BY <1>7 DEF CaptureGraph, GraphsInv
    <3> QED
      BY <3>1, <3>2, <3>3, EnterEntry
  <2> QED
    BY <1>7, <2>1, <2>2 DEF CaptureGraph, Goto, Return
<1>8. CASE LaunchGraph
  <2>1. PICK hit \in graphs :
          /\ graphs' = (graphs \ {hit}) \cup {CudaGraphEntry(hit.key, hit.submission)}
          /\ graphClock' = graphClock + 1
    BY <1>8 DEF LaunchGraph
  <2>2. Cardinality(graphs \ {hit}) < Capacity
    BY DropOne
  <2>3. \A e \in graphs \ {hit} : e.key # hit.key
    BY DEF GraphsInv, GraphCacheBounded
  <2>4. pc' # "capture"
    BY <1>8 DEF LaunchGraph, Return
  <2> QED
    BY <2>1, <2>2, <2>3, <2>4, EnterEntry
<1>9. CASE Synchronize \/ SynchronizeFails
  BY <1>1, <1>9 DEF Synchronize, SynchronizeFails, call, cache
<1>10. CASE Destroy
  BY <1>10, EmptyCache DEF Destroy, GraphsInv
<1>11. CASE UNCHANGED <<cache, call, session, bindings, choices>>
  BY <1>11 DEF GraphsInv, GraphCacheBounded, Capacity, GraphKey, cache, call, session, bindings, choices
<1>12. CASE \E stream \in Stream : DeviceStep(stream)
  BY <1>11, <1>12 DEF DeviceStep
<1>13. CASE UNCHANGED vars
  BY <1>11, <1>13 DEF vars
<1> QED
  BY <1>2, <1>3, <1>4, <1>5, <1>6, <1>7, <1>8, <1>9, <1>10, <1>12, <1>13
     DEF Next, RunStage, Stopped

(* The graph cache never holds more than its capacity, nor two graphs for  *)
(* one key or with one timestamp, so the entry to evict is always unique.  *)
THEOREM GraphCacheStaysBounded == Spec => []GraphCacheBounded
<1>1. Init => GraphsInv
  <2> SUFFICES ASSUME Init PROVE GraphsInv
    OBVIOUS
  <2> QED
    BY FS_EmptySet, CapacityType DEF Init, GraphsInv, GraphCacheBounded
<1>2. GraphsInv /\ [Next]_vars => GraphsInv'
  BY GraphsInvInductive
<1>3. GraphsInv => GraphCacheBounded
  BY DEF GraphsInv
<1> QED
  BY <1>1, <1>2, <1>3, PTL DEF Spec
-----------------------------------------------------------------------------
(* Session and bindings are well typed.                                    *)
SessionType ==
  /\ selectedProfile \in 0..ProfileCount
  /\ inputShape \in Shape \cup {Nil} /\ resolvedShape \in Shape \cup {Nil}
  /\ shapesResolved \in BOOLEAN

BindingsType ==
  /\ tensors \in [Name -> Tensor \cup {Nil}] /\ tensorsPrepared \in BOOLEAN
  /\ workspace \in Workspace \cup {Nil}

(* Bindings, profile and shape changes, PrepareTensors and the destructor  *)
(* change the tensors.                                                     *)
LEMMA MostStepsKeepBindings ==
  ASSUME [Next]_vars
  PROVE  \/ UNCHANGED bindings
         \/ \E n \in Input \cup Output, b \in Buffer : BindTensor(n, b)
         \/ \E p \in Profile : SelectShapeProfile(p)
         \/ \E s \in Shape : SetInputShape(s)
         \/ PrepareTensors
         \/ Destroy
<1> USE DEF bindings
<1>1. CASE Configure
  BY <1>1 DEF Configure, BindInput, BindOutput, ResolveShapes
<1>2. CASE \E stream \in CallerStream \cup {OwnedStream} : RunAsync(stream)
  BY <1>2 DEF RunAsync
<1>3. CASE RunStage
  BY <1>3 DEF RunStage, ValidateBindings, PrepareTuning,
     PrepareKernels, StartSubmission, ComputeOnHost, EnqueueOp, LookupGraph,
     CaptureGraph, LaunchGraph, RunPastOps
<1>4. CASE Synchronize \/ SynchronizeFails \/ Stopped
  BY <1>4 DEF Synchronize, SynchronizeFails, Stopped, vars
<1>5. CASE \E stream \in Stream : DeviceStep(stream)
  BY <1>5 DEF DeviceStep
<1>6. CASE UNCHANGED vars
  BY <1>6 DEF vars
<1> QED
  BY <1>1, <1>2, <1>3, <1>4, <1>5, <1>6 DEF Next

(* The session keeps its type.                                             *)
LEMMA SessionTypeInductive ==
  ASSUME SessionType, [Next]_vars
  PROVE  SessionType'
<1> USE DEF SessionType
<1>1. CASE UNCHANGED session
  BY <1>1 DEF session
<1>2. CASE \E p \in Profile : SelectShapeProfile(p)
  BY <1>2, ShapeAssumption, ModeAssumption DEF SelectShapeProfile, Profile
<1>3. CASE \E s \in Shape : SetInputShape(s)
  BY <1>3 DEF SetInputShape
<1>4. CASE ResolveShapes
  BY <1>4 DEF ResolveShapes
<1> QED
  BY <1>1, <1>2, <1>3, <1>4, MostStepsKeepSession

(* A tensor made at the active shape is one, and carries that shape.       *)
LEMMA TensorAtType ==
  ASSUME SessionType, NEW address \in Address
  PROVE  /\ TensorAt(address) \in Tensor /\ TensorAt(address) # Nil
         /\ TensorAt(address).data = address
         /\ TensorAt(address).shape = ActiveShape
BY ShapeAssumption, NilAssumption DEF TensorAt, Tensor, ActiveShape, SessionType

(* The workspace PrepareTensors goes on with is large enough, and exists   *)
(* if the plan places any value.                                           *)
LEMMA WorkspaceChosen ==
  ASSUME SessionType, BindingsType, NEW space \in WorkspaceChoices
  PROVE  /\ space \in Workspace \cup {Nil}
         /\ (IF space = Nil THEN 0 ELSE space.size) >= ActivePlanBytes
         /\ Local \ View # {} => space \in Workspace
<1>1. ActivePlanBytes \in Nat /\ WorkspaceBytes \in Nat
  BY ShapeAssumption DEF ActivePlanBytes, WorkspaceBytes, SessionType, BindingsType, Workspace
<1>2. CASE NeedsWorkspace
  <2>1. space \in [data : Block, size : {ActivePlanBytes}]
    BY <1>2 DEF WorkspaceChoices
  <2>2. space \in Workspace /\ space.size = ActivePlanBytes
    BY <1>1, <2>1 DEF Workspace
  <2> QED
    BY <1>1, <2>2, NilAssumption
<1>3. CASE ~NeedsWorkspace
  <2>1. space = workspace
    BY <1>3 DEF WorkspaceChoices
  <2>2. WorkspaceBytes >= ActivePlanBytes
    BY <1>1, <1>3 DEF NeedsWorkspace
  <2>3. Local \ View # {} => workspace # Nil
    BY <1>1, <2>2, NameAssumption DEF ActivePlanBytes, WorkspaceBytes, SessionType
  <2> QED
    BY <2>1, <2>2, <2>3 DEF WorkspaceBytes, BindingsType
<1> QED
  BY <1>2, <1>3

(* Where PrepareTensors puts a planned value.                              *)
PlannedAddress(n, space) ==
  LET source == IF n \in View THEN AliasOf[n] ELSE n
  IN  IF source \in Local THEN space.data ELSE tensors[source].data

(* What entering some of the planned values makes of tensors_.             *)
LEMMA EnteredTensors ==
  ASSUME SessionType, BindingsType,
         NEW space \in Workspace \cup {Nil},
         NEW done \in SUBSET (Local \ OrphanViews),
         done # {} /\ Local \ View # {} => space \in Workspace
  PROVE  /\ Entered(done, space) \in [Name -> Tensor \cup {Nil}]
         /\ \A n \in Name \ (Local \cup Constant) : Entered(done, space)[n] = tensors[n]
         /\ \A n \in done : /\ Entered(done, space)[n] # Nil
                            /\ Entered(done, space)[n].shape = ActiveShape
                            /\ Entered(done, space)[n].data = PlannedAddress(n, space)
         /\ \A n \in Constant : Entered(done, space)[n] = [data |-> n, shape |-> Nil]
<1>1. \A n \in Name :
        Entered(done, space)[n] =
          IF n \in Constant THEN [data |-> n, shape |-> Nil]
          ELSE IF n \in done THEN TensorAt(PlannedAddress(n, space))
          ELSE tensors[n]
  BY DEF Entered, PlannedAddress
<1>2. \A n \in done : PlannedAddress(n, space) \in Address
  <2> SUFFICES ASSUME NEW n \in done PROVE PlannedAddress(n, space) \in Address
    OBVIOUS
  <2>1. CASE space \in Workspace /\ PlannedAddress(n, space) = space.data
    BY <2>1 DEF Workspace, Address
  <2>2. CASE n \notin View
    BY <2>1, <2>2 DEF PlannedAddress
  <2>3. CASE n \in View /\ AliasOf[n] \in Local
    BY <2>1, <2>3, NameAssumption DEF PlannedAddress
  <2>4. CASE n \in View /\ AliasOf[n] \notin Local
    <3>1. AliasOf[n] \in Name /\ tensors[AliasOf[n]] # Nil
      BY <2>4, NameAssumption DEF OrphanViews
    <3>2. tensors[AliasOf[n]] \in Tensor
      BY <3>1 DEF BindingsType
    <3> QED
      BY <2>4, <3>2 DEF PlannedAddress, Tensor
  <2> QED
    BY <2>2, <2>3, <2>4
<1>3. \A n \in Constant : /\ [data |-> n, shape |-> Nil] \in Tensor
                          /\ [data |-> n, shape |-> Nil] # Nil
  BY NilAssumption DEF Tensor, Address
<1>4. \A n \in done : n \in Name \ Constant
  BY NameAssumption DEF Name
<1>5. \A n \in done :
        LET a == PlannedAddress(n, space)
        IN  /\ TensorAt(a) \in Tensor /\ TensorAt(a) # Nil
            /\ TensorAt(a).data = a /\ TensorAt(a).shape = ActiveShape
  BY <1>2, TensorAtType
<1>6. \A n \in Name : Entered(done, space)[n] \in Tensor \cup {Nil}
  BY <1>1, <1>3, <1>5 DEF BindingsType
<1>7. Entered(done, space) = [n \in Name |-> Entered(done, space)[n]]
  BY DEF Entered
<1>8. Entered(done, space) \in [Name -> Tensor \cup {Nil}]
  BY <1>6, <1>7
<1> QED
  BY <1>1, <1>3, <1>4, <1>5, <1>8 DEF Name

(* PrepareTensors changes nothing, stops half way, or prepares every       *)
(* planned value.                                                          *)
LEMMA PrepareTensorsOutcomes ==
  ASSUME SessionType, BindingsType, PrepareTensors
  PROVE  \/ UNCHANGED bindings /\ (pc' = "idle" \/ (tensorsPrepared /\ pc' = "bindings"))
         \/ \E space \in Workspace \cup {Nil}, done \in SUBSET (Local \ OrphanViews) :
              /\ done # {} /\ Local \ View # {} => space \in Workspace
              /\ tensors' = Entered(done, space) /\ workspace' = space
              /\ UNCHANGED tensorsPrepared /\ ~tensorsPrepared /\ pc' = "idle"
         \/ /\ workspace' \in Workspace \cup {Nil} /\ OrphanViews = {}
            /\ Local \ View # {} => workspace' \in Workspace
            /\ WorkspaceBytes' >= ActivePlanBytes
            /\ tensors' = Entered(Local, workspace') /\ tensorsPrepared' = TRUE
            /\ pc' = "bindings"
<1>1. CASE UNCHANGED bindings
  BY <1>1 DEF PrepareTensors, EnterAllocations, Goto, Return, bindings
<1>2. CASE ~tensorsPrepared /\ EnterAllocations
  <2>1. CASE /\ tensors' = Entered({}, workspace) /\ Return
             /\ UNCHANGED <<workspace, tensorsPrepared>>
    BY <1>2, <2>1 DEF Return, BindingsType
  <2>2. CASE workspace' \in WorkspaceChoices
    <3>1. /\ workspace' \in Workspace \cup {Nil}
          /\ WorkspaceBytes' >= ActivePlanBytes
          /\ Local \ View # {} => workspace' \in Workspace
      BY <2>2, WorkspaceChosen DEF WorkspaceBytes
    <3>2. CASE /\ OrphanViews = {} /\ tensors' = Entered(Local, workspace')
               /\ tensorsPrepared' = TRUE /\ Goto("bindings")
      BY <3>1, <3>2 DEF Goto
    <3>3. CASE /\ \E done \in SUBSET (Local \ OrphanViews) :
                    tensors' = Entered(done, workspace')
               /\ UNCHANGED tensorsPrepared /\ Return
      BY <1>2, <3>1, <3>3 DEF Return
    <3> QED
      BY <1>2, <2>2, <3>2, <3>3 DEF EnterAllocations
  <2> QED
    BY <1>2, <2>1, <2>2 DEF EnterAllocations
<1> QED
  BY <1>1, <1>2 DEF PrepareTensors

(* Tensors and workspace keep their types.                                 *)
LEMMA BindingsTypeInductive ==
  ASSUME SessionType, BindingsType, [Next]_vars
  PROVE  BindingsType'
<1>1. CASE UNCHANGED bindings
  BY <1>1 DEF BindingsType, bindings
<1>2. CASE \E n \in Input \cup Output, b \in Buffer : BindTensor(n, b)
  <2>1. PICK n \in Input \cup Output, b \in Buffer : BindTensor(n, b)
    BY <1>2
  <2>2. TensorAt(b) \in Tensor
    BY TensorAtType DEF Address
  <2> QED
    BY <2>1, <2>2 DEF BindTensor, BindingsType
<1>3. CASE PrepareTensors
  <2>1. CASE \E space \in Workspace \cup {Nil}, done \in SUBSET (Local \ OrphanViews) :
               /\ done # {} /\ Local \ View # {} => space \in Workspace
               /\ tensors' = Entered(done, space) /\ workspace' = space
               /\ UNCHANGED tensorsPrepared
    <3>1. PICK space \in Workspace \cup {Nil}, done \in SUBSET (Local \ OrphanViews) :
               /\ done # {} /\ Local \ View # {} => space \in Workspace
               /\ tensors' = Entered(done, space) /\ workspace' = space
      BY <2>1
    <3>2. Entered(done, space) \in [Name -> Tensor \cup {Nil}]
      BY <3>1, EnteredTensors
    <3> QED
      BY <2>1, <3>1, <3>2 DEF BindingsType
  <2>2. CASE /\ workspace' \in Workspace \cup {Nil} /\ OrphanViews = {}
             /\ Local \ View # {} => workspace' \in Workspace
             /\ tensors' = Entered(Local, workspace') /\ tensorsPrepared' = TRUE
    <3>1. Local \in SUBSET (Local \ OrphanViews)
      BY <2>2
    <3>2. Entered(Local, workspace') \in [Name -> Tensor \cup {Nil}]
      BY <2>2, <3>1, EnteredTensors
    <3> QED
      BY <2>2, <3>2 DEF BindingsType
  <2> QED
    BY <1>1, <1>3, <2>1, <2>2, PrepareTensorsOutcomes
<1>4. CASE \E p \in Profile : SelectShapeProfile(p)
  BY <1>4 DEF SelectShapeProfile, DropPrepared, BindingsType, Unbound
<1>5. CASE \E s \in Shape : SetInputShape(s)
  BY <1>5 DEF SetInputShape, DropPrepared, BindingsType, Unbound
<1>6. CASE Destroy
  BY <1>6 DEF Destroy, BindingsType, Unbound
<1> QED
  BY <1>1, <1>2, <1>3, <1>4, <1>5, <1>6, MostStepsKeepBindings

(* Boundary tensors are bound at the shapes in use.                        *)
BoundaryCurrent ==
  \A n \in Input \cup Output : tensors[n] # Nil =>
    tensors[n].shape = ActiveShape /\ (ProfileCount = 0 \/ shapesResolved)

PlannedCurrent ==
  /\ \A n \in Local : /\ tensors[n] # Nil /\ tensors[n].shape = ActiveShape
                      /\ tensors[n].data = PlannedAddress(n, workspace)
  /\ Local \ View # {} => workspace # Nil
  /\ \A n \in Constant : tensors[n] = [data |-> n, shape |-> Nil]

InputBound == \E n \in Input : tensors[n] # Nil

(* Prepared tensors may go stale when shapes are resolved after a run that *)
(* failed for want of bindings; the binding that must follow discards them. *)
ViewsInv ==
  /\ SessionType /\ BindingsType /\ ResolvedShapeIsRequested /\ BoundaryCurrent
  /\ tensorsPrepared => WorkspaceBytes >= ActivePlanBytes
  /\ tensorsPrepared /\ InputBound => PlannedCurrent
  /\ pc \in Validated \cup {"bindings"} => tensorsPrepared
  /\ pc \in Validated => \A n \in Name : tensors[n] # Nil

(* RunAsync reaches its later stages only through PrepareTensors and       *)
(* ValidateBindings, and nothing rebinds under a run that has started.     *)
LEMMA StagesInOrder ==
  ASSUME [Next]_vars
  PROVE  /\ pc' \in Validated => \/ pc \in Validated /\ UNCHANGED bindings
                                 \/ ValidateBindings
         /\ pc' = "bindings" => \/ pc = "bindings" /\ UNCHANGED bindings
                             \/ PrepareTensors
<1> USE DEF Validated, Tuned, Goto, Return
<1>1. CASE Configure
  BY <1>1 DEF Configure, BindInput, BindOutput, BindTensor, SelectShapeProfile,
     SetInputShape, ResolveShapes, MayReconfigure, call
<1>2. CASE \E stream \in CallerStream \cup {OwnedStream} : RunAsync(stream)
  BY <1>2 DEF RunAsync
<1>3. CASE PrepareTensors
  BY <1>3 DEF PrepareTensors, EnterAllocations
<1>4. CASE ValidateBindings
  BY <1>4 DEF ValidateBindings
<1>5. CASE PrepareTuning \/ PrepareKernels
  BY <1>5 DEF PrepareTuning, MeasureCandidates, PrepareKernels
<1>6. CASE StartSubmission \/ LookupGraph \/ CaptureGraph \/ RunPastOps
  BY <1>6 DEF StartSubmission, LookupGraph, CaptureGraph, RunPastOps
<1>7. CASE ComputeOnHost \/ EnqueueOp \/ LaunchGraph
  BY <1>7 DEF ComputeOnHost, EnqueueOp, LaunchGraph
<1>8. CASE Synchronize \/ SynchronizeFails \/ Destroy
  BY <1>8 DEF Synchronize, SynchronizeFails, Destroy, call
<1>9. CASE \E stream \in Stream : DeviceStep(stream)
  BY <1>9 DEF DeviceStep, call
<1>10. CASE UNCHANGED vars
  BY <1>10 DEF vars, call
<1> HIDE DEF Validated
<1> QED
  BY <1>1, <1>2, <1>3, <1>4, <1>5, <1>6, <1>7, <1>8, <1>9, <1>10
     DEF Next, RunStage, Stopped

(* A stage after PrepareTensors has prepared, after ValidateBindings       *)
(* bound, tensors.                                                         *)
LEMMA StagesPrepared ==
  ASSUME ViewsInv, [Next]_vars
  PROVE  /\ pc' \in Validated \cup {"bindings"} => tensorsPrepared'
         /\ pc' \in Validated => \A n \in Name : tensors'[n] # Nil
<1>1. CASE pc' \in Validated
  <2>1. CASE pc \in Validated /\ UNCHANGED bindings
    BY <2>1 DEF ViewsInv, bindings
  <2>2. CASE ValidateBindings
    <3>1. UNCHANGED bindings /\ pc = "bindings" /\ \A n \in Name : tensors[n] # Nil
      BY <1>1, <2>2 DEF ValidateBindings, Return, Validated, Tuned
    <3> QED
      BY <3>1 DEF ViewsInv, bindings
  <2> QED
    BY <1>1, <2>1, <2>2, StagesInOrder
<1>2. CASE pc' = "bindings"
  <2>1. CASE pc = "bindings" /\ UNCHANGED bindings
    BY <1>2, <2>1 DEF ViewsInv, bindings, Validated, Tuned
  <2>2. CASE PrepareTensors
    BY <1>2, <2>2, PrepareTensorsOutcomes DEF ViewsInv, bindings, Validated, Tuned
  <2> QED
    BY <1>2, <2>1, <2>2, StagesInOrder
<1> QED
  BY <1>1, <1>2

(* A step that drops the bindings leaves nothing stale.                    *)
LEMMA UnboundStep ==
  ASSUME tensors' = Unbound, tensorsPrepared' = FALSE
  PROVE  /\ BoundaryCurrent'
         /\ tensorsPrepared' => WorkspaceBytes' >= ActivePlanBytes'
         /\ tensorsPrepared' /\ InputBound' => PlannedCurrent'
BY DEF Unbound, BoundaryCurrent, Name

(* PrepareTensors leaves nothing stale.                                    *)
LEMMA PreparedStep ==
  ASSUME ViewsInv, PrepareTensors
  PROVE  /\ BoundaryCurrent'
         /\ tensorsPrepared' => WorkspaceBytes' >= ActivePlanBytes'
         /\ tensorsPrepared' /\ InputBound' => PlannedCurrent'
<1> USE DEF ViewsInv
<1>1. UNCHANGED session /\ ActiveShape' = ActiveShape /\ ActivePlanBytes' = ActivePlanBytes
  BY DEF PrepareTensors, session, ActiveShape, ActivePlanBytes
<1>2. \A n \in Input \cup Output : n \in Name \ (Local \cup Constant)
  BY NameAssumption DEF Name
<1>3. CASE UNCHANGED bindings
  BY <1>1, <1>3 DEF bindings, session, BoundaryCurrent, WorkspaceBytes, InputBound,
     PlannedCurrent, PlannedAddress
<1>4. CASE \E space \in Workspace \cup {Nil}, done \in SUBSET (Local \ OrphanViews) :
             /\ done # {} /\ Local \ View # {} => space \in Workspace
             /\ tensors' = Entered(done, space) /\ workspace' = space
             /\ UNCHANGED tensorsPrepared /\ ~tensorsPrepared
  <2>1. \A n \in Input \cup Output : tensors'[n] = tensors[n]
    BY <1>2, <1>4, EnteredTensors
  <2> QED
    BY <1>1, <1>4, <2>1 DEF BoundaryCurrent, session
<1>5. CASE /\ workspace' \in Workspace \cup {Nil} /\ OrphanViews = {}
           /\ Local \ View # {} => workspace' \in Workspace
           /\ WorkspaceBytes' >= ActivePlanBytes
           /\ tensors' = Entered(Local, workspace') /\ tensorsPrepared' = TRUE
  <2>1. Local \in SUBSET (Local \ OrphanViews)
    BY <1>5
  <2>2. /\ \A n \in Name \ (Local \cup Constant) : tensors'[n] = tensors[n]
        /\ \A n \in Local : /\ tensors'[n] # Nil
                            /\ tensors'[n].shape = ActiveShape
                            /\ tensors'[n].data = PlannedAddress(n, workspace')
        /\ \A n \in Constant : tensors'[n] = [data |-> n, shape |-> Nil]
    BY <1>5, <2>1, EnteredTensors
  <2>3. BoundaryCurrent'
    BY <1>1, <1>2, <2>2 DEF BoundaryCurrent, session
  <2>4. \A n \in Local : PlannedAddress(n, workspace)' = PlannedAddress(n, workspace')
    <3> SUFFICES ASSUME NEW n \in Local
                 PROVE  PlannedAddress(n, workspace)' = PlannedAddress(n, workspace')
      OBVIOUS
    <3>1. CASE n \in View /\ AliasOf[n] \notin Local
      <4>1. AliasOf[n] \in Name \ (Local \cup Constant)
        BY <3>1, NameAssumption
      <4> QED
        BY <2>2, <3>1, <4>1 DEF PlannedAddress
    <3>2. CASE ~(n \in View /\ AliasOf[n] \notin Local)
      BY <3>2 DEF PlannedAddress
    <3> QED
      BY <3>1, <3>2
  <2>5. PlannedCurrent'
    BY <1>1, <1>5, <2>2, <2>4, NilAssumption DEF PlannedCurrent
  <2> QED
    BY <1>1, <1>5, <2>3, <2>5
<1> QED
  BY <1>3, <1>4, <1>5, PrepareTensorsOutcomes

(* A binding is at the active shape and discards what was prepared.        *)
LEMMA RebindStep ==
  ASSUME ViewsInv, NEW n \in Input \cup Output, NEW b \in Buffer, BindTensor(n, b)
  PROVE  /\ BoundaryCurrent'
         /\ tensorsPrepared' => WorkspaceBytes' >= ActivePlanBytes'
         /\ tensorsPrepared' /\ InputBound' => PlannedCurrent'
<1>1. /\ UNCHANGED session /\ tensorsPrepared' = FALSE
      /\ ProfileCount = 0 \/ shapesResolved
      /\ tensors' = [tensors EXCEPT ![n] = TensorAt(b)]
  BY DEF BindTensor
<1>2. ActiveShape' = ActiveShape
  BY <1>1 DEF session, ActiveShape
<1>3. TensorAt(b).shape = ActiveShape
  BY TensorAtType DEF Address, ViewsInv
<1>4. ASSUME NEW m \in Input \cup Output, tensors'[m] # Nil
      PROVE  tensors'[m].shape = ActiveShape /\ (ProfileCount = 0 \/ shapesResolved)
  <2>1. m \in DOMAIN tensors
    BY DEF ViewsInv, BindingsType, Name
  <2>2. CASE m = n
    BY <1>1, <1>3, <2>1, <2>2
  <2>3. CASE m # n
    BY <1>1, <1>4, <2>1, <2>3 DEF ViewsInv, BoundaryCurrent
  <2> QED
    BY <2>2, <2>3
<1> QED
  BY <1>1, <1>2, <1>4 DEF BoundaryCurrent, session

(* Resolving shapes changes them only while nothing is bound.              *)
LEMMA ResolveStep ==
  ASSUME ViewsInv, ResolveShapes
  PROVE  /\ BoundaryCurrent'
         /\ tensorsPrepared' => WorkspaceBytes' >= ActivePlanBytes'
         /\ tensorsPrepared' /\ InputBound' => PlannedCurrent'
<1>1. UNCHANGED bindings /\ selectedProfile' = selectedProfile /\ ProfileCount # 0
  BY ModeAssumption DEF ResolveShapes, ViewsInv, SessionType
<1>2. CASE shapesResolved
  <2>1. UNCHANGED session
    BY <1>2 DEF ResolveShapes, ViewsInv, ResolvedShapeIsRequested, session, SessionType
  <2> QED
    BY <1>1, <2>1 DEF ViewsInv, bindings, session, BoundaryCurrent, WorkspaceBytes,
       ActivePlanBytes, ActiveShape, InputBound, PlannedCurrent, PlannedAddress
<1>3. CASE ~shapesResolved
  <2>1. \A n \in Input \cup Output : tensors'[n] = Nil
    BY <1>1, <1>3 DEF ViewsInv, BoundaryCurrent, bindings
  <2> QED
    BY <1>1, <2>1 DEF ViewsInv, bindings, BoundaryCurrent, WorkspaceBytes,
       ActivePlanBytes, InputBound
<1> QED
  BY <1>2, <1>3

(* Every step keeps the prepared tensors current.                          *)
LEMMA ViewsInvInductive == ViewsInv /\ [Next]_vars => ViewsInv'
<1> SUFFICES ASSUME ViewsInv, [Next]_vars PROVE ViewsInv'
  OBVIOUS
<1>1. SessionType' /\ BindingsType' /\ ResolvedShapeIsRequested'
  BY SessionTypeInductive, BindingsTypeInductive, ResolvedInductive DEF ViewsInv
<1>2. /\ BoundaryCurrent'
      /\ tensorsPrepared' => WorkspaceBytes' >= ActivePlanBytes'
      /\ tensorsPrepared' /\ InputBound' => PlannedCurrent'
  <2>1. CASE UNCHANGED <<session, bindings>>
    BY <2>1 DEF ViewsInv, bindings, session, BoundaryCurrent, WorkspaceBytes,
       ActivePlanBytes, ActiveShape, InputBound, PlannedCurrent, PlannedAddress
  <2>2. CASE ResolveShapes
    BY <2>2, ResolveStep
  <2>3. CASE \E n \in Input \cup Output, b \in Buffer : BindTensor(n, b)
    BY <2>3, RebindStep
  <2>4. CASE \E p \in Profile : SelectShapeProfile(p)
    BY <2>4, UnboundStep DEF SelectShapeProfile, DropPrepared
  <2>5. CASE \E s \in Shape : SetInputShape(s)
    BY <2>5, UnboundStep DEF SetInputShape, DropPrepared
  <2>6. CASE PrepareTensors
    BY <2>6, PreparedStep
  <2>7. CASE Destroy
    BY <2>7, UnboundStep DEF Destroy
  <2> QED
    BY <2>1, <2>2, <2>3, <2>4, <2>5, <2>6, <2>7, MostStepsKeepSession, MostStepsKeepBindings
<1> QED
  BY <1>1, <1>2, StagesPrepared DEF ViewsInv

(* A new Context has bound and prepared nothing.                           *)
LEMMA ViewsInvInitially == Init => ViewsInv
<1> SUFFICES ASSUME Init PROVE ViewsInv
  OBVIOUS
<1>1. SessionType
  BY ModeAssumption, ShapeAssumption DEF Init, SessionType, Profile
<1>2. BindingsType
  BY DEF Init, BindingsType, Unbound
<1>3. ResolvedShapeIsRequested
  BY ResolvedInitially
<1>4. \A n \in Input \cup Output : tensors[n] = Nil
  BY DEF Init, Unbound, Name
<1>5. tensorsPrepared = FALSE /\ pc = "idle"
  BY DEF Init
<1> QED
  BY <1>1, <1>2, <1>3, <1>4, <1>5 DEF ViewsInv, BoundaryCurrent, Validated, Tuned

(* Whatever was rebound, reshaped or retried before, a run that gets past  *)
(* ValidateBindings has tensors of the active shape at the addresses the   *)
(* plan gives them, in a workspace that is large enough.                   *)
THEOREM PreparedViewsStayCurrent == Spec => []PreparedViewsCurrent
<1>1. ViewsInv => PreparedViewsCurrent
  <2> SUFFICES ASSUME ViewsInv, pc \in Validated
               PROVE  /\ \A n \in Name \ Constant : tensors[n] # Nil /\ tensors[n].shape = ActiveShape
                      /\ \A v \in View : tensors[v].data = tensors[AliasOf[v]].data
                      /\ \A n \in Local \ View : workspace # Nil /\ tensors[n].data = workspace.data
                      /\ WorkspaceBytes >= ActivePlanBytes
    BY DEF PreparedViewsCurrent, Validated, Tuned
  <2>1. /\ \A n \in Name : tensors[n] # Nil
        /\ tensorsPrepared /\ WorkspaceBytes >= ActivePlanBytes
        /\ BoundaryCurrent
    BY DEF ViewsInv
  <2>2. PlannedCurrent
    BY <2>1, NameAssumption DEF ViewsInv, InputBound, Name
  <2>3. \A n \in Local \ View : workspace # Nil /\ tensors[n].data = workspace.data
    BY <2>2 DEF PlannedCurrent, PlannedAddress
  <2>4. \A v \in View : tensors[v].data = tensors[AliasOf[v]].data
    BY <2>2, <2>3, NameAssumption DEF PlannedCurrent, PlannedAddress
  <2>5. \A n \in Name \ Constant : tensors[n] # Nil /\ tensors[n].shape = ActiveShape
    BY <2>1, <2>2 DEF Name, BoundaryCurrent, PlannedCurrent
  <2> QED
    BY <2>1, <2>3, <2>4, <2>5
<1> QED
  BY <1>1, ViewsInvInitially, ViewsInvInductive, PTL DEF Spec
-----------------------------------------------------------------------------
(* What a graph key says of the work captured under it.                    *)
KeyShape(key) == key.inputs[CHOOSE n \in Input : TRUE].shape

KeyAddress(key, n) ==
  LET source == IF n \in View THEN AliasOf[n] ELSE n
  IN  IF source \in Local THEN key.workspace
      ELSE IF source \in Input THEN key.inputs[source].data
      ELSE key.outputs[source]

KeyTensors(key) ==
  [n \in Name |->
     IF n \in Constant THEN [data |-> n, shape |-> Nil]
     ELSE IF n \in Input THEN key.inputs[n]
     ELSE IF n \in Output THEN [data |-> key.outputs[n], shape |-> KeyShape(key)]
     ELSE [data |-> KeyAddress(key, n), shape |-> KeyShape(key)]]

KeyWork(key) ==
  [i \in Op |-> [op |-> i, group |-> [op |-> i, candidate |-> key.candidates[i]]]]

KeySubmission(key) == [work |-> KeyWork(key), tensors |-> KeyTensors(key)]

(* The current key determines the current submission: its inputs carry the *)
(* active shape, which fixes every other shape, and its addresses fix where *)
(* everything is.                                                          *)
LEMMA KeyDeterminesTensors ==
  ASSUME ViewsInv, pc \in Validated
  PROVE  tensors = KeyTensors(GraphKey)
<1>1. /\ \A n \in Name : tensors[n] \in Tensor
      /\ BoundaryCurrent /\ PlannedCurrent
  BY NameAssumption DEF ViewsInv, BindingsType, InputBound, Name
<1>2. \A n \in Name : tensors[n] = [data |-> tensors[n].data, shape |-> tensors[n].shape]
  BY <1>1 DEF Tensor
<1>3. /\ \A n \in Input : GraphKey.inputs[n] = tensors[n]
      /\ \A n \in Output : GraphKey.outputs[n] = tensors[n].data
      /\ workspace # Nil => GraphKey.workspace = workspace.data
  BY DEF GraphKey
<1>4. KeyShape(GraphKey) = ActiveShape
  <2>1. (CHOOSE n \in Input : TRUE) \in Input
    BY NameAssumption
  <2> QED
    BY <1>1, <1>3, <2>1, NilAssumption DEF KeyShape, BoundaryCurrent, Name
<1>5. \A n \in Local : KeyAddress(GraphKey, n) = PlannedAddress(n, workspace)
  <2> SUFFICES ASSUME NEW n \in Local
               PROVE  KeyAddress(GraphKey, n) = PlannedAddress(n, workspace)
    OBVIOUS
  <2>1. CASE n \in View /\ AliasOf[n] \notin Local
    <3>1. AliasOf[n] \in Input \cup Output
      BY <2>1, NameAssumption DEF Name
    <3> QED
      BY <1>3, <2>1, <3>1 DEF KeyAddress, PlannedAddress
  <2>2. CASE ~(n \in View /\ AliasOf[n] \notin Local)
    <3>1. workspace # Nil
      BY <1>1, <2>2, NameAssumption DEF PlannedCurrent
    <3> QED
      BY <1>3, <2>2, <3>1 DEF KeyAddress, PlannedAddress
  <2> QED
    BY <2>1, <2>2
<1>6. ASSUME NEW n \in Name PROVE tensors[n] = KeyTensors(GraphKey)[n]
  <2>1. CASE n \in Constant
    BY <1>1, <2>1 DEF KeyTensors, PlannedCurrent
  <2>2. CASE n \in Input
    BY <1>3, <2>2, NameAssumption DEF KeyTensors
  <2>3. CASE n \in Output
    <3>1. tensors[n].shape = ActiveShape
      BY <1>1, <2>3, NilAssumption DEF BoundaryCurrent
    <3> QED
      BY <1>2, <1>3, <1>4, <2>3, <3>1, NameAssumption DEF KeyTensors
  <2>4. CASE n \in Local
    <3>1. tensors[n].shape = ActiveShape /\ tensors[n].data = PlannedAddress(n, workspace)
      BY <1>1, <2>4 DEF PlannedCurrent
    <3> QED
      BY <1>2, <1>4, <1>5, <2>4, <3>1, NameAssumption DEF KeyTensors
  <2> QED
    BY <2>1, <2>2, <2>3, <2>4 DEF Name
<1> QED
  BY <1>6 DEF ViewsInv, BindingsType, KeyTensors

(* With the candidates the key also fixes the kernels.                     *)
LEMMA KeyDeterminesSubmission ==
  ASSUME ViewsInv, GroupsInv, pc \in Tuned \ {"kernels"}
  PROVE  CurrentSubmission = KeySubmission(GraphKey)
<1>1. tensors = KeyTensors(GraphKey)
  BY KeyDeterminesTensors DEF Validated
<1>2. kernels = PlannedGroups
  BY DEF GroupsInv
<1>3. Len(kernels) = OpCount
  BY <1>2, ModeAssumption DEF PlannedGroups, Op
<1>4. KeyWork(GraphKey) = [i \in 1..Len(kernels) |-> WorkItem(i)]
  BY <1>2, <1>3 DEF KeyWork, GraphKey, WorkItem, PlannedGroups, Op
<1> QED
  BY <1>1, <1>4 DEF CurrentSubmission, KeySubmission

(* Every cached graph does what its key says.                              *)
ReplayInv ==
  /\ ViewsInv /\ GroupsInv
  /\ \A e \in graphs : e.submission = KeySubmission(e.key)

(* A new Context has captured nothing.                                     *)
LEMMA ReplayInvInitially == Init => ReplayInv
<1>1. Init => GroupsInv
  BY DEF Init, GroupsInv, Tuned
<1>2. Init => graphs = {}
  BY DEF Init
<1> QED
  BY <1>1, <1>2, ViewsInvInitially DEF ReplayInv

(* A capture enters what its key says, a launch re-enters it, nothing else *)
(* adds.                                                                   *)
LEMMA ReplayInvInductive ==
  ASSUME "kernel" \notin Faults, ReplayInv, [Next]_vars
  PROVE  ReplayInv'
<1>1. ViewsInv' /\ GroupsInv'
  BY ViewsInvInductive, GroupsInvInductive DEF ReplayInv
<1>2. CASE graphs' \in SUBSET graphs
  BY <1>1, <1>2 DEF ReplayInv
<1>3. CASE Configure
  BY <1>2, <1>3 DEF Configure, BindInput, BindOutput, BindTensor, SelectShapeProfile,
     InvalidateCudaGraph, SetInputShape, ResolveShapes, cache
<1>4. CASE \E stream \in CallerStream \cup {OwnedStream} : RunAsync(stream)
  BY <1>2, <1>4 DEF RunAsync, cache
<1>5. CASE CaptureGraph
  <2>1. CASE UNCHANGED cache
    BY <1>2, <2>1 DEF cache
  <2>2. CASE \E oldest : graphs' = (graphs \ {oldest}) \cup
                                    {CudaGraphEntry(GraphKey, CurrentSubmission)}
    <3>1. CurrentSubmission = KeySubmission(GraphKey)
      BY <1>5, KeyDeterminesSubmission DEF CaptureGraph, ReplayInv, Tuned
    <3>2. \A e \in graphs' : e \in graphs \/ e = CudaGraphEntry(GraphKey, CurrentSubmission)
      BY <2>2
    <3>3. \A e \in graphs' : e.submission = KeySubmission(e.key)
      BY <3>1, <3>2 DEF ReplayInv, CudaGraphEntry
    <3> QED
      BY <1>1, <3>3 DEF ReplayInv
  <2> QED
    BY <1>5, <2>1, <2>2 DEF CaptureGraph
<1>6. CASE LaunchGraph
  <2>1. PICK hit \in graphs :
          graphs' = (graphs \ {hit}) \cup {CudaGraphEntry(hit.key, hit.submission)}
    BY <1>6 DEF LaunchGraph
  <2>2. \A e \in graphs' : e \in graphs \/ e = CudaGraphEntry(hit.key, hit.submission)
    BY <2>1
  <2>3. \A e \in graphs' : e.submission = KeySubmission(e.key)
    BY <2>2 DEF ReplayInv, CudaGraphEntry
  <2> QED
    BY <1>1, <2>3 DEF ReplayInv
<1>7. CASE RunStage /\ ~CaptureGraph /\ ~LaunchGraph
  BY <1>2, <1>7 DEF RunStage, PrepareTensors, ValidateBindings, PrepareTuning,
     PrepareKernels, StartSubmission, ComputeOnHost, EnqueueOp, LookupGraph,
     RunPastOps, cache
<1>8. CASE Synchronize \/ SynchronizeFails \/ Destroy
  BY <1>2, <1>8 DEF Synchronize, SynchronizeFails, Destroy, cache
<1>9. CASE \E stream \in Stream : DeviceStep(stream)
  BY <1>2, <1>9 DEF DeviceStep, cache
<1>10. CASE UNCHANGED vars
  BY <1>2, <1>10 DEF vars, cache
<1> QED
  BY <1>3, <1>4, <1>5, <1>6, <1>7, <1>8, <1>9, <1>10 DEF Next, Stopped

(* A replay never does stale work: whatever was rebound, reshaped or       *)
(* retuned since the capture, a graph found under the session's key        *)
(* launches exactly the kernels and tensors the session has now.           *)
THEOREM ReplaysMatchSession ==
  ASSUME "kernel" \notin Faults
  PROVE  Spec => []ReplayMatchesSession
<1>1. Init => ReplayInv
  BY ReplayInvInitially
<1>2. ReplayInv /\ [Next]_vars => ReplayInv'
  BY ReplayInvInductive
<1>3. ReplayInv => ReplayMatchesSession
  BY KeyDeterminesSubmission DEF ReplayInv, ReplayMatchesSession, Tuned
<1> QED
  BY <1>1, <1>2, <1>3, PTL DEF Spec
-----------------------------------------------------------------------------
(* The remaining parts of the type invariant.                              *)
ChoicesType ==
  /\ selected \in Seq(Candidate) /\ tuningPrepared \in BOOLEAN
  /\ tuningPrepared => selected \in [Op -> Candidate]

GroupsType == kernels \in Seq(Group) /\ kernelsPrepared \in BOOLEAN

ControlType ==
  /\ runPending \in BOOLEAN /\ cudaReady \in BOOLEAN
  /\ activeStream \in Stream \cup {Nil} /\ request \in Stream \cup {Nil}
  /\ records \in Seq(Op) /\ pc \in Stages /\ cursor \in Nat \ {0}
  /\ constants \in {"unset", "ok", "failed"} /\ modules \in {"unset", "ok", "failed"}

CacheType ==
  /\ graphClock \in Nat
  /\ graphs \subseteq [key : GraphKeys, submission : Submission, lastUsed : 1..graphClock]

DeviceType == device \in [Stream -> Seq(Submission)]

(* A function on Op is a sequence.                                         *)
LEMMA OpSequence == ASSUME NEW S, NEW f \in [Op -> S] PROVE f \in Seq(S)
BY ModeAssumption DEF Op

(* Whatever selects candidates selects one per op.                         *)
LEMMA CandidateChoices ==
  /\ Selections \subseteq [Op -> Candidate] /\ DefaultCandidate \in [Op -> Candidate]
BY OpAssumption DEF Selections

(* The choices keep their type, and are complete once prepared.            *)
LEMMA ChoicesTypeInductive ==
  ASSUME ChoicesType, [Next]_vars
  PROVE  ChoicesType'
<1>1. CASE UNCHANGED choices
  BY <1>1 DEF ChoicesType, choices
<1>2. CASE DropPrepared
  BY <1>2 DEF DropPrepared, ChoicesType
<1>3. CASE selected' \in [Op -> Candidate] /\ tuningPrepared' \in BOOLEAN
  BY <1>3, OpSequence DEF ChoicesType
<1>4. CASE Configure
  BY <1>1, <1>2, <1>4 DEF Configure, BindInput, BindOutput, BindTensor,
     SelectShapeProfile, SetInputShape, ResolveShapes
<1>5. CASE \E stream \in CallerStream \cup {OwnedStream} : RunAsync(stream)
  BY <1>1, <1>5 DEF RunAsync
<1>6. CASE PrepareTuning
  <2>1. CASE UNCHANGED choices
    BY <1>1, <2>1
  <2>2. CASE selected' = DefaultCandidate /\ tuningPrepared' = TRUE
    BY <1>3, <2>2, CandidateChoices
  <2>3. CASE MeasureCandidates
    <3>1. selected' \in [Op -> Candidate] /\ tuningPrepared' \in {TRUE, tuningPrepared}
      BY <2>3, CandidateChoices DEF MeasureCandidates
    <3> QED
      BY <1>3, <3>1 DEF ChoicesType
  <2> QED
    BY <1>6, <2>1, <2>2, <2>3 DEF PrepareTuning
<1>7. CASE RunStage /\ ~PrepareTuning
  BY <1>1, <1>7 DEF RunStage, PrepareTensors, ValidateBindings, PrepareKernels,
     StartSubmission, ComputeOnHost, EnqueueOp, LookupGraph, CaptureGraph,
     LaunchGraph, RunPastOps
<1>8. CASE Synchronize \/ SynchronizeFails \/ Destroy
  BY <1>1, <1>8 DEF Synchronize, SynchronizeFails, Destroy
<1>9. CASE \E stream \in Stream : DeviceStep(stream)
  BY <1>1, <1>9 DEF DeviceStep
<1>10. CASE UNCHANGED vars
  BY <1>1, <1>10 DEF vars
<1> QED
  BY <1>4, <1>5, <1>6, <1>7, <1>8, <1>9, <1>10 DEF Next, Stopped

(* Complete choices plan one group per op.                                 *)
LEMMA PlannedGroupsType ==
  ASSUME selected \in [Op -> Candidate]
  PROVE  PlannedGroups \in Seq(Group) /\ Len(PlannedGroups) = OpCount
<1>1. PlannedGroups \in [Op -> Group]
  BY DEF PlannedGroups, Group
<1>2. Len(PlannedGroups) = OpCount
  BY ModeAssumption DEF PlannedGroups, Op
<1> QED
  BY <1>1, <1>2, OpSequence

(* Appending planned groups to groups yields groups.                       *)
LEMMA AppendGroupsType ==
  ASSUME kernels \in Seq(Group), selected \in [Op -> Candidate],
         NEW built \in 0..OpCount, AppendGroups(built)
  PROVE  kernels' \in Seq(Group)
<1>1. SubSeq(PlannedGroups, 1, built) \in Seq(Group)
  BY PlannedGroupsType, ModeAssumption
<1> QED
  BY <1>1 DEF AppendGroups

(* The groups keep their type.                                             *)
LEMMA GroupsTypeInductive ==
  ASSUME ChoicesType, GroupsType, pc \in Tuned => tuningPrepared, [Next]_vars
  PROVE  GroupsType'
<1>1. CASE UNCHANGED groups
  BY <1>1 DEF GroupsType, groups
<1>2. CASE DropPrepared
  <2>1. kernels' = <<>> /\ kernelsPrepared' = FALSE
    BY <1>2 DEF DropPrepared
  <2>2. <<>> \in Seq(Group)
    OBVIOUS
  <2> QED
    BY <2>1, <2>2 DEF GroupsType
<1>3. CASE Configure
  BY <1>1, <1>2, <1>3 DEF Configure, BindInput, BindOutput, BindTensor,
     SelectShapeProfile, SetInputShape, ResolveShapes
<1>4. CASE \E stream \in CallerStream \cup {OwnedStream} : RunAsync(stream)
  BY <1>1, <1>4 DEF RunAsync
<1>5. CASE PrepareKernels
  <2>1. selected \in [Op -> Candidate]
    BY <1>5 DEF PrepareKernels, ChoicesType, Tuned
  <2>2. kernelsPrepared' \in BOOLEAN
    BY <1>5 DEF PrepareKernels, GroupsType, groups
  <2>3. CASE \E built \in 0..OpCount : AppendGroups(built)
    BY <2>1, <2>2, <2>3, AppendGroupsType DEF GroupsType
  <2>4. CASE kernels' = kernels
    BY <2>2, <2>4 DEF GroupsType
  <2>5. kernels' = kernels \/ \E built \in 0..OpCount : AppendGroups(built)
    BY <1>5, ModeAssumption DEF PrepareKernels, groups
  <2> QED
    BY <2>3, <2>4, <2>5
<1>6. CASE RunStage /\ ~PrepareKernels
  BY <1>1, <1>6 DEF RunStage, PrepareTensors, ValidateBindings, PrepareTuning,
     StartSubmission, ComputeOnHost, EnqueueOp, LookupGraph, CaptureGraph,
     LaunchGraph, RunPastOps
<1>7. CASE Synchronize \/ SynchronizeFails \/ Destroy
  BY <1>1, <1>7 DEF Synchronize, SynchronizeFails, Destroy
<1>8. CASE \E stream \in Stream : DeviceStep(stream)
  BY <1>1, <1>8 DEF DeviceStep
<1>9. CASE UNCHANGED vars
  BY <1>1, <1>9 DEF vars
<1> QED
  BY <1>3, <1>4, <1>5, <1>6, <1>7, <1>8, <1>9 DEF Next, Stopped

TunedStages == pc \in Tuned => tuningPrepared

(* PrepareTuning precedes the stages that use its choices.                 *)
LEMMA TunedStagesInductive ==
  ASSUME TunedStages, [Next]_vars
  PROVE  TunedStages'
<1> USE DEF TunedStages, Tuned, Goto, Return
<1>1. CASE Configure
  BY <1>1 DEF Configure, BindInput, BindOutput, BindTensor, SelectShapeProfile,
     SetInputShape, ResolveShapes, MayReconfigure, call
<1>2. CASE \E stream \in CallerStream \cup {OwnedStream} : RunAsync(stream)
  BY <1>2 DEF RunAsync
<1>3. CASE PrepareTensors \/ ValidateBindings
  BY <1>3 DEF PrepareTensors, EnterAllocations, ValidateBindings
<1>4. CASE PrepareTuning
  BY <1>4 DEF PrepareTuning, MeasureCandidates, choices
<1>5. CASE PrepareKernels \/ StartSubmission \/ LookupGraph \/ CaptureGraph \/ RunPastOps
  BY <1>5 DEF PrepareKernels, StartSubmission, LookupGraph, CaptureGraph,
     RunPastOps, choices
<1>6. CASE ComputeOnHost \/ EnqueueOp \/ LaunchGraph
  BY <1>6 DEF ComputeOnHost, EnqueueOp, LaunchGraph, choices
<1>7. CASE Synchronize \/ SynchronizeFails \/ Destroy
  BY <1>7 DEF Synchronize, SynchronizeFails, Destroy, call, choices
<1>8. CASE \E stream \in Stream : DeviceStep(stream)
  BY <1>8 DEF DeviceStep, call, choices
<1>9. CASE UNCHANGED vars
  BY <1>9 DEF vars, call, choices
<1> HIDE DEF TunedStages
<1> QED
  BY <1>1, <1>2, <1>3, <1>4, <1>5, <1>6, <1>7, <1>8, <1>9 DEF Next, RunStage, Stopped

(* Profiling records are ops.                                              *)
LEMMA OpRecordsType ==
  /\ OpRecords(OpCount) \in Seq(Op)
  /\ \A done \in 0..OpCount : OpRecords(done) \in Seq(Op)
  /\ \A done \in 0..(OpCount - 1) : OpRecords(done) \in Seq(Op)
<1>1. ASSUME NEW done \in 0..OpCount PROVE OpRecords(done) \in Seq(Op)
  <2>1. [i \in 1..done |-> i] \in Seq(Op)
    BY ModeAssumption DEF Op
  <2>2. <<>> \in Seq(Op)
    OBVIOUS
  <2> QED
    BY <2>1, <2>2 DEF OpRecords
<1> QED
  BY <1>1, ModeAssumption

(* Flags, streams, records and control keep their types.                   *)
LEMMA ControlTypeInductive ==
  ASSUME ControlType, [Next]_vars
  PROVE  ControlType'
<1> USE DEF ControlType, Goto, Return, Stages
<1>1. CASE Configure
  BY <1>1 DEF Configure, BindInput, BindOutput, BindTensor, SelectShapeProfile,
     SetInputShape, ResolveShapes, MayReconfigure, call, cuda, engine
<1>2. CASE \E stream \in CallerStream \cup {OwnedStream} : RunAsync(stream)
  BY <1>2 DEF RunAsync, Stream, cuda, engine
<1>3. CASE PrepareTensors
  BY <1>3 DEF PrepareTensors, EnterAllocations, OnceOutcomes, cuda
<1>4. CASE ValidateBindings
  BY <1>4 DEF ValidateBindings, cuda, engine
<1>5. CASE PrepareTuning
  BY <1>5 DEF PrepareTuning, MeasureCandidates, OnceOutcomes, cuda
<1>6. CASE PrepareKernels
  BY <1>6 DEF PrepareKernels, OnceOutcomes, cuda
<1>7. CASE StartSubmission
  <2>1. cudaReady' \in BOOLEAN /\ runPending' \in BOOLEAN
    BY <1>7 DEF StartSubmission, cuda
  <2>2. /\ activeStream' \in Stream \cup {Nil} /\ request' \in Stream \cup {Nil}
        /\ pc' \in Stages /\ cursor' \in Nat \ {0}
    BY <1>7 DEF StartSubmission, cuda
  <2>3. UNCHANGED <<records, constants, modules>>
    BY <1>7 DEF StartSubmission, engine
  <2> QED
    BY <2>1, <2>2, <2>3
<1>8. CASE LookupGraph \/ CaptureGraph \/ RunPastOps
  BY <1>8 DEF LookupGraph, CaptureGraph, RunPastOps, cuda, engine
<1>9. CASE ComputeOnHost
  <2>1. records' \in Seq(Op)
    BY <1>9, OpRecordsType DEF ComputeOnHost
  <2>2. runPending' \in BOOLEAN
    BY <1>9 DEF ComputeOnHost
  <2>3. pc' = "idle" /\ cursor' = 1 /\ request' = Nil /\ UNCHANGED <<cuda, engine>>
    BY <1>9 DEF ComputeOnHost
  <2> QED
    BY <2>1, <2>2, <2>3 DEF cuda, engine
<1>10. CASE EnqueueOp \/ LaunchGraph
  <2>1. runPending' \in BOOLEAN
    BY <1>10 DEF EnqueueOp, LaunchGraph
  <2>2. /\ pc' \in Stages /\ cursor' \in Nat \ {0} /\ request' \in Stream \cup {Nil}
        /\ UNCHANGED <<cuda, engine, records>>
    BY <1>10 DEF EnqueueOp, LaunchGraph
  <2> QED
    BY <2>1, <2>2 DEF cuda, engine
<1>11. CASE Synchronize
  <2>1. records' \in Seq(Op)
    BY <1>11, OpRecordsType DEF Synchronize
  <2>2. runPending' \in BOOLEAN /\ UNCHANGED <<call, cuda, engine>>
    BY <1>11 DEF Synchronize
  <2> QED
    BY <2>1, <2>2 DEF call, cuda, engine
<1>12. CASE SynchronizeFails \/ Destroy
  BY <1>12 DEF SynchronizeFails, Destroy, call, cuda, engine
<1>13. CASE \E stream \in Stream : DeviceStep(stream)
  BY <1>13 DEF DeviceStep, call, cuda, engine
<1>14. CASE UNCHANGED vars
  BY <1>14 DEF vars, call, cuda, engine
<1> HIDE DEF ControlType
<1> QED
  BY <1>1, <1>2, <1>3, <1>4, <1>5, <1>6, <1>7, <1>8, <1>9, <1>10, <1>11,
     <1>12, <1>13, <1>14 DEF Next, RunStage, Stopped

(* Everything TypeOK needs to be inductive.                                *)
TypeInv ==
  /\ ViewsInv /\ ChoicesType /\ GroupsType /\ ControlType
  /\ CacheType /\ DeviceType /\ TunedStages

(* The key of a validated session is well formed.                          *)
LEMMA GraphKeyType ==
  ASSUME TypeInv, pc \in Validated
  PROVE  GraphKey \in GraphKeys
<1>1. \A n \in Name : tensors[n] \in Tensor
  BY DEF TypeInv, ViewsInv, BindingsType
<1>2. [n \in Input |-> tensors[n]] \in [Input -> Tensor]
  BY <1>1 DEF Name
<1>3. [n \in Output |-> tensors[n].data] \in [Output -> Address]
  BY <1>1 DEF Name, Tensor
<1>4. (IF workspace = Nil THEN Nil ELSE workspace.data) \in Block \cup {Nil}
  BY DEF TypeInv, ViewsInv, BindingsType, Workspace
<1>5. selectedProfile \in 0..ProfileCount /\ selected \in Seq(Candidate)
  BY DEF TypeInv, ViewsInv, SessionType, ChoicesType
<1> QED
  BY <1>2, <1>3, <1>4, <1>5 DEF GraphKey, GraphKeys

(* What is submitted for a group is work, if there is an op for it.        *)
LEMMA WorkItemType ==
  ASSUME TypeInv, ~OverrunsOps, NEW i \in 1..Len(kernels)
  PROVE  WorkItem(i) \in Work
<1>1. kernels \in Seq(Group) /\ Len(kernels) <= OpCount /\ Len(kernels) \in Nat
  BY ModeAssumption DEF TypeInv, GroupsType, OverrunsOps
<1>2. i \in Op /\ kernels[i] \in Group
  BY <1>1, ModeAssumption DEF Op
<1> QED
  BY <1>2 DEF WorkItem, Work

(* The tensors of a well-typed state.                                      *)
LEMMA TensorsType == TypeInv => tensors \in [Name -> Tensor \cup {Nil}]
BY DEF TypeInv, ViewsInv, BindingsType

(* What a capture records is a submission.                                 *)
LEMMA CurrentSubmissionType ==
  ASSUME TypeInv, ~OverrunsOps
  PROVE  CurrentSubmission \in Submission
<1>1. kernels \in Seq(Group)
  BY DEF TypeInv, GroupsType
<1>2. [i \in 1..Len(kernels) |-> WorkItem(i)] \in [1..Len(kernels) -> Work]
  BY WorkItemType
<1>3. [i \in 1..Len(kernels) |-> WorkItem(i)] \in Seq(Work)
  BY <1>1, <1>2
<1> QED
  BY <1>3, TensorsType DEF CurrentSubmission, Submission

(* An entry made now carries the new timestamp.                            *)
LEMMA CudaGraphEntryType ==
  ASSUME graphClock \in Nat, graphClock' = graphClock + 1,
         NEW key \in GraphKeys, NEW submission \in Submission
  PROVE  CudaGraphEntry(key, submission) \in
           [key : GraphKeys, submission : Submission, lastUsed : 1..graphClock']
BY DEF CudaGraphEntry

(* Older entries stay within the clock.                                    *)
LEMMA OldEntriesType ==
  ASSUME CacheType, graphClock' = graphClock + 1
  PROVE  graphs \subseteq [key : GraphKeys, submission : Submission, lastUsed : 1..graphClock']
BY DEF CacheType

(* The graph cache keeps its type.                                         *)
LEMMA CacheTypeInductive ==
  ASSUME TypeInv, [Next]_vars
  PROVE  CacheType'
<1>1. CASE UNCHANGED cache
  BY <1>1 DEF TypeInv, CacheType, cache
<1>2. CASE graphs' = {} /\ graphClock' = graphClock
  BY <1>2 DEF TypeInv, CacheType
<1>3. CASE Configure
  BY <1>1, <1>2, <1>3 DEF Configure, BindInput, BindOutput, BindTensor,
     SelectShapeProfile, InvalidateCudaGraph, SetInputShape, ResolveShapes
<1>4. CASE \E stream \in CallerStream \cup {OwnedStream} : RunAsync(stream)
  BY <1>1, <1>4 DEF RunAsync
<1>5. CASE CaptureGraph
  <2>1. CASE \E oldest : /\ graphs' = (graphs \ {oldest}) \cup
                                      {CudaGraphEntry(GraphKey, CurrentSubmission)}
                         /\ graphClock' = graphClock + 1
    <3>1. GraphKey \in GraphKeys /\ CurrentSubmission \in Submission
      BY <1>5, GraphKeyType, CurrentSubmissionType DEF CaptureGraph, Validated, Tuned
    <3>2. CudaGraphEntry(GraphKey, CurrentSubmission) \in
            [key : GraphKeys, submission : Submission, lastUsed : 1..graphClock']
      BY <2>1, <3>1, CudaGraphEntryType DEF TypeInv, CacheType
    <3>3. graphs \subseteq [key : GraphKeys, submission : Submission, lastUsed : 1..graphClock']
      BY <2>1, OldEntriesType DEF TypeInv
    <3>4. graphs' \subseteq graphs \cup {CudaGraphEntry(GraphKey, CurrentSubmission)}
      BY <2>1
    <3>5. graphs' \subseteq [key : GraphKeys, submission : Submission, lastUsed : 1..graphClock']
      BY <3>2, <3>3, <3>4
    <3> QED
      BY <2>1, <3>5 DEF TypeInv, CacheType
  <2> QED
    BY <1>1, <1>5, <2>1 DEF CaptureGraph
<1>6. CASE LaunchGraph
  <2>1. PICK hit \in graphs :
          /\ graphs' = (graphs \ {hit}) \cup {CudaGraphEntry(hit.key, hit.submission)}
          /\ graphClock' = graphClock + 1
    BY <1>6 DEF LaunchGraph
  <2>2. hit.key \in GraphKeys /\ hit.submission \in Submission
    BY <2>1 DEF TypeInv, CacheType
  <2>3. CudaGraphEntry(hit.key, hit.submission) \in
          [key : GraphKeys, submission : Submission, lastUsed : 1..graphClock']
    BY <2>1, <2>2, CudaGraphEntryType DEF TypeInv, CacheType
  <2>4. graphs \subseteq [key : GraphKeys, submission : Submission, lastUsed : 1..graphClock']
    BY <2>1, OldEntriesType DEF TypeInv
  <2>5. graphs' \subseteq [key : GraphKeys, submission : Submission, lastUsed : 1..graphClock']
    BY <2>1, <2>3, <2>4
  <2> QED
    BY <2>1, <2>5 DEF TypeInv, CacheType
<1>7. CASE RunStage /\ ~CaptureGraph /\ ~LaunchGraph
  BY <1>1, <1>7 DEF RunStage, PrepareTensors, ValidateBindings, PrepareTuning,
     PrepareKernels, StartSubmission, ComputeOnHost, EnqueueOp, LookupGraph, RunPastOps
<1>8. CASE Synchronize \/ SynchronizeFails \/ Destroy
  BY <1>1, <1>2, <1>8 DEF Synchronize, SynchronizeFails, Destroy
<1>9. CASE \E stream \in Stream : DeviceStep(stream)
  BY <1>1, <1>9 DEF DeviceStep
<1>10. CASE UNCHANGED vars
  BY <1>1, <1>10 DEF vars
<1> QED
  BY <1>3, <1>4, <1>5, <1>6, <1>7, <1>8, <1>9, <1>10 DEF Next, Stopped

(* Enqueueing a submission keeps the streams well typed.                   *)
LEMMA EnqueueType ==
  ASSUME DeviceType, NEW stream, NEW submission \in Submission, Enqueue(stream, submission)
  PROVE  DeviceType'
<1> HIDE DEF Submission
<1>1. device' = [s \in Stream |-> IF s = stream THEN Append(device[s], submission)
                                               ELSE device[s]]
  BY DEF DeviceType, Enqueue
<1>2. \A s \in Stream : device[s] \in Seq(Submission)
  BY DEF DeviceType
<1>3. \A s \in Stream : Append(device[s], submission) \in Seq(Submission)
  BY <1>2
<1> QED
  BY <1>1, <1>2, <1>3 DEF DeviceType

(* The streams hold submissions.                                           *)
LEMMA DeviceTypeInductive ==
  ASSUME TypeInv, [Next]_vars
  PROVE  DeviceType'
<1>1. CASE UNCHANGED device
  BY <1>1 DEF TypeInv, DeviceType
<1>2. ASSUME NEW stream, NEW submission \in Submission, Enqueue(stream, submission)
      PROVE  DeviceType'
  BY <1>2, EnqueueType DEF TypeInv
<1>3. CASE Configure
  BY <1>1, <1>3 DEF Configure, BindInput, BindOutput, BindTensor,
     SelectShapeProfile, SetInputShape, ResolveShapes
<1>4. CASE \E stream \in CallerStream \cup {OwnedStream} : RunAsync(stream)
  BY <1>1, <1>4 DEF RunAsync
<1>5. CASE PrepareTuning
  <2>1. CASE \E i \in Op : \E c \in 1..CandidateCount[i] :
               Enqueue(TuningStream,
                       [work |-> <<[op |-> i, group |-> [op |-> i, candidate |-> c]]>>,
                        tensors |-> tensors])
    <3>0. PICK i \in Op : \E c \in 1..CandidateCount[i] :
               Enqueue(TuningStream,
                       [work |-> <<[op |-> i, group |-> [op |-> i, candidate |-> c]]>>,
                        tensors |-> tensors])
      BY <2>1
    <3>1. PICK c \in 1..CandidateCount[i] :
               Enqueue(TuningStream,
                       [work |-> <<[op |-> i, group |-> [op |-> i, candidate |-> c]]>>,
                        tensors |-> tensors])
      BY <3>0
    <3>2. c \in Candidate
      BY DEF Candidate
    <3>3. [op |-> i, group |-> [op |-> i, candidate |-> c]] \in Work
      BY <3>2 DEF Work, Group
    <3>4. <<[op |-> i, group |-> [op |-> i, candidate |-> c]]>> \in Seq(Work)
      BY <3>3
    <3>5. [work |-> <<[op |-> i, group |-> [op |-> i, candidate |-> c]]>>,
           tensors |-> tensors] \in Submission
      BY <3>4, TensorsType DEF Submission
    <3> QED
      BY <1>2, <3>1, <3>5
  <2>2. UNCHANGED device \/ \E i \in Op : \E c \in 1..CandidateCount[i] :
               Enqueue(TuningStream,
                       [work |-> <<[op |-> i, group |-> [op |-> i, candidate |-> c]]>>,
                        tensors |-> tensors])
    BY <1>5 DEF PrepareTuning, MeasureCandidates
  <2> QED
    BY <1>1, <2>1, <2>2
<1>6. CASE EnqueueOp
  <2>1. CASE /\ Enqueue(activeStream, [work |-> <<WorkItem(cursor)>>, tensors |-> tensors])
             /\ cursor <= Len(kernels)
    <3>1. cursor \in 1..Len(kernels)
      BY <2>1 DEF TypeInv, ControlType, GroupsType
    <3>2. WorkItem(cursor) \in Work
      BY <1>6, <3>1, WorkItemType DEF EnqueueOp
    <3>3. <<WorkItem(cursor)>> \in Seq(Work)
      BY <3>2
    <3>4. [work |-> <<WorkItem(cursor)>>, tensors |-> tensors] \in Submission
      BY <3>3, TensorsType DEF Submission
    <3> QED
      BY <1>2, <2>1, <3>4
  <2>2. Len(kernels) \in Nat /\ cursor \in Nat
    BY DEF TypeInv, ControlType, GroupsType
  <2>3. UNCHANGED device \/
        /\ Enqueue(activeStream, [work |-> <<WorkItem(cursor)>>, tensors |-> tensors])
        /\ cursor <= Len(kernels)
    BY <1>6, <2>2 DEF EnqueueOp
  <2> QED
    BY <1>1, <2>1, <2>3
<1>7. CASE LaunchGraph
  <2>1. PICK hit \in graphs : UNCHANGED device \/ Enqueue(activeStream, hit.submission)
    BY <1>7 DEF LaunchGraph
  <2>2. hit.submission \in Submission
    BY DEF TypeInv, CacheType
  <2>3. CASE Enqueue(activeStream, hit.submission)
    BY <1>2, <2>2, <2>3
  <2> QED
    BY <1>1, <2>1, <2>3
<1>8. CASE RunStage /\ ~PrepareTuning /\ ~EnqueueOp /\ ~LaunchGraph
  BY <1>1, <1>8 DEF RunStage, PrepareTensors, ValidateBindings, PrepareKernels,
     StartSubmission, ComputeOnHost, LookupGraph, CaptureGraph, RunPastOps
<1>9. CASE Synchronize \/ Destroy
  BY <1>1, <1>9 DEF Synchronize, Destroy
<1>10. CASE SynchronizeFails
  <2>1. CASE device' = [device EXCEPT ![activeStream] = <<>>]
    <3>1. <<>> \in Seq(Submission)
      OBVIOUS
    <3> QED
      BY <2>1, <3>1 DEF TypeInv, DeviceType
  <2> QED
    BY <1>1, <1>10, <2>1 DEF SynchronizeFails
<1>11. CASE \E stream \in Stream : DeviceStep(stream)
  <2>1. PICK stream \in Stream : DeviceStep(stream)
    BY <1>11
  <2>2. device[stream] \in Seq(Submission) /\ device[stream] # <<>>
    BY <2>1 DEF DeviceStep, TypeInv, DeviceType
  <2>3. Tail(device[stream]) \in Seq(Submission)
    BY <2>2
  <2> QED
    BY <2>1, <2>3 DEF DeviceStep, TypeInv, DeviceType
<1>12. CASE UNCHANGED vars
  BY <1>1, <1>12 DEF vars
<1> QED
  BY <1>3, <1>4, <1>5, <1>6, <1>7, <1>8, <1>9, <1>10, <1>11, <1>12 DEF Next, Stopped

(* A new Context is well typed.                                            *)
LEMMA TypeInvInitially == Init => TypeInv
<1> SUFFICES ASSUME Init PROVE TypeInv
  OBVIOUS
<1>1. ChoicesType /\ GroupsType
  <2>1. <<>> \in Seq(Candidate) /\ <<>> \in Seq(Group)
    OBVIOUS
  <2> QED
    BY <2>1 DEF Init, ChoicesType, GroupsType
<1>2. ControlType
  <2>1. <<>> \in Seq(Op)
    OBVIOUS
  <2>2. runPending \in BOOLEAN /\ cudaReady \in BOOLEAN
    BY DEF Init
  <2>3. /\ activeStream = Nil /\ request = Nil /\ records = <<>> /\ pc = "idle"
        /\ cursor = 1 /\ constants = "unset" /\ modules = "unset"
    BY DEF Init
  <2> QED
    BY <2>1, <2>2, <2>3 DEF ControlType, Stages
<1>3. CacheType
  BY DEF Init, CacheType
<1>4. DeviceType
  <2>1. <<>> \in Seq(Submission)
    OBVIOUS
  <2> QED
    BY <2>1 DEF Init, DeviceType
<1>5. TunedStages
  BY DEF Init, TunedStages, Tuned
<1> QED
  BY <1>1, <1>2, <1>3, <1>4, <1>5, ViewsInvInitially DEF TypeInv

(* Every step keeps every type.                                            *)
LEMMA TypeInvInductive == TypeInv /\ [Next]_vars => TypeInv'
<1> SUFFICES ASSUME TypeInv, [Next]_vars PROVE TypeInv'
  OBVIOUS
<1>1. ViewsInv' /\ ChoicesType' /\ ControlType' /\ TunedStages'
  BY ViewsInvInductive, ChoicesTypeInductive, ControlTypeInductive,
     TunedStagesInductive DEF TypeInv
<1>2. GroupsType'
  BY GroupsTypeInductive DEF TypeInv, TunedStages
<1> QED
  BY <1>1, <1>2, CacheTypeInductive, DeviceTypeInductive DEF TypeInv

(* Every variable keeps its type, whatever the calls that fail.            *)
THEOREM TypeCorrect == Spec => []TypeOK
<1>1. TypeInv => TypeOK
  BY DEF TypeInv, TypeOK, ViewsInv, SessionType, BindingsType, ChoicesType,
     GroupsType, ControlType, CacheType, DeviceType
<1> QED
  BY <1>1, TypeInvInitially, TypeInvInductive, PTL DEF Spec
-----------------------------------------------------------------------------
(* Work that has not finished uses the tensors the Context has now.        *)
UsesCurrentTensors ==
  \A s \in Stream : \A i \in DOMAIN device[s] : device[s][i].tensors = tensors

MemoryInv == TypeInv /\ DeviceInv /\ ReplayInv /\ UsesCurrentTensors

(* Enqueueing work on the current tensors.                                 *)
LEMMA EnqueueCurrent ==
  ASSUME TypeInv, UsesCurrentTensors, UNCHANGED tensors, NEW stream, NEW submission,
         submission.tensors = tensors, Enqueue(stream, submission)
  PROVE  UsesCurrentTensors'
<1>1. device' = [s \in Stream |-> IF s = stream THEN Append(device[s], submission)
                                               ELSE device[s]]
  BY DEF TypeInv, DeviceType, Enqueue
<1>2. ASSUME NEW s \in Stream, NEW i \in DOMAIN device'[s]
      PROVE  device'[s][i].tensors = tensors
  <2>1. device[s] \in Seq(Submission)
    BY DEF TypeInv, DeviceType
  <2>2. CASE s # stream
    BY <1>1, <1>2, <2>2 DEF UsesCurrentTensors
  <2>3. CASE s = stream
    <3>1. device'[s] = Append(device[s], submission)
      BY <1>1, <2>3
    <3>2. DOMAIN device'[s] = 1..(Len(device[s]) + 1)
      BY <2>1, <3>1
    <3>3. i \in DOMAIN device[s] \/ i = Len(device[s]) + 1
      BY <2>1, <3>2
    <3>4. CASE i = Len(device[s]) + 1
      BY <2>1, <3>1, <3>4
    <3>5. CASE i \in DOMAIN device[s]
      <4>1. device'[s][i] = device[s][i]
        BY <2>1, <3>1, <3>5
      <4> QED
        BY <3>5, <4>1 DEF UsesCurrentTensors
    <3> QED
      BY <3>3, <3>4, <3>5
  <2> QED
    BY <2>2, <2>3
<1> QED
  BY <1>2 DEF UsesCurrentTensors

(* Finishing work leaves less of it.                                       *)
LEMMA FinishCurrent ==
  ASSUME TypeInv, UsesCurrentTensors, NEW stream \in Stream, DeviceStep(stream)
  PROVE  UsesCurrentTensors'
<1>1. /\ device[stream] \in Seq(Submission) /\ device[stream] # <<>>
      /\ device' = [device EXCEPT ![stream] = Tail(device[stream])]
      /\ DOMAIN device = Stream /\ UNCHANGED tensors
  BY DEF DeviceStep, TypeInv, DeviceType, bindings
<1>2. ASSUME NEW s \in Stream, NEW i \in DOMAIN device'[s]
      PROVE  device'[s][i].tensors = tensors
  <2>1. CASE s # stream
    BY <1>1, <1>2, <2>1 DEF UsesCurrentTensors
  <2>2. CASE s = stream
    <3>1. device'[s] = Tail(device[s])
      BY <1>1, <2>2
    <3>2. i + 1 \in DOMAIN device[s] /\ device'[s][i] = device[s][i + 1]
      BY <1>1, <1>2, <2>2, <3>1
    <3> QED
      BY <3>2 DEF UsesCurrentTensors
  <2> QED
    BY <2>1, <2>2
<1> QED
  BY <1>1, <1>2 DEF UsesCurrentTensors

(* With nothing in flight the tensors may change.                          *)
LEMMA DrainedCurrent == ASSUME Drained, UNCHANGED device PROVE UsesCurrentTensors'
BY DEF Drained, UsesCurrentTensors

(* Tensors change only while nothing is in flight.                         *)
LEMMA UsesCurrentTensorsInductive ==
  ASSUME MemoryInv, [Next]_vars
  PROVE  UsesCurrentTensors'
<1>1. CASE UNCHANGED <<tensors, device>>
  BY <1>1 DEF MemoryInv, UsesCurrentTensors
<1>2. CASE \E n \in Name, b \in Buffer : BindInput(n, b) \/ BindOutput(n, b)
  BY <1>2, DrainedCurrent DEF BindInput, BindOutput, BindTensor, MayReconfigure,
     MemoryInv, DeviceInv
<1>3. CASE \E p \in Profile : SelectShapeProfile(p)
  BY <1>3, DrainedCurrent DEF SelectShapeProfile, MayReconfigure, MemoryInv, DeviceInv
<1>4. CASE \E s \in Shape : SetInputShape(s)
  BY <1>4, DrainedCurrent DEF SetInputShape, MayReconfigure, MemoryInv, DeviceInv
<1>5. CASE ResolveShapes
  BY <1>1, <1>5 DEF ResolveShapes, bindings
<1>6. CASE \E stream \in CallerStream \cup {OwnedStream} : RunAsync(stream)
  BY <1>1, <1>6 DEF RunAsync, bindings
<1>7. CASE PrepareTensors
  BY <1>7, DrainedCurrent DEF PrepareTensors, MemoryInv, DeviceInv
<1>8. CASE PrepareTuning
  <2>1. Drained /\ UNCHANGED tensors
    BY <1>8 DEF PrepareTuning, MemoryInv, DeviceInv, bindings
  <2>2. CASE UNCHANGED device
    BY <2>1, <2>2, DrainedCurrent
  <2>3. CASE \E i \in Op : \E c \in 1..CandidateCount[i] :
               Enqueue(TuningStream,
                       [work |-> <<[op |-> i, group |-> [op |-> i, candidate |-> c]]>>,
                        tensors |-> tensors])
    BY <2>1, <2>3, EnqueueCurrent DEF MemoryInv
  <2> QED
    BY <1>8, <2>2, <2>3 DEF PrepareTuning, MeasureCandidates
<1>9. CASE EnqueueOp
  <2>1. CASE Enqueue(activeStream, [work |-> <<WorkItem(cursor)>>, tensors |-> tensors])
    BY <1>9, <2>1, EnqueueCurrent DEF EnqueueOp, MemoryInv, bindings
  <2> QED
    BY <1>1, <1>9, <2>1 DEF EnqueueOp, bindings
<1>10. CASE LaunchGraph
  <2>1. PICK hit \in graphs :
          hit.key = GraphKey /\ (UNCHANGED device \/ Enqueue(activeStream, hit.submission))
    BY <1>10 DEF LaunchGraph
  <2>2. UNCHANGED tensors
    BY <1>10 DEF LaunchGraph, bindings
  <2>3. hit.submission.tensors = tensors
    <3>1. hit.submission = KeySubmission(GraphKey)
      BY <2>1 DEF MemoryInv, ReplayInv
    <3>2. tensors = KeyTensors(GraphKey)
      BY <1>10, KeyDeterminesTensors DEF LaunchGraph, MemoryInv, ReplayInv, Validated, Tuned
    <3> QED
      BY <3>1, <3>2 DEF KeySubmission
  <2>4. CASE Enqueue(activeStream, hit.submission)
    BY <2>2, <2>3, <2>4, EnqueueCurrent DEF MemoryInv
  <2> QED
    BY <1>1, <2>1, <2>2, <2>4
<1>11. CASE RunStage /\ ~PrepareTensors /\ ~PrepareTuning /\ ~EnqueueOp /\ ~LaunchGraph
  BY <1>1, <1>11 DEF RunStage, ValidateBindings, PrepareKernels, StartSubmission,
     ComputeOnHost, LookupGraph, CaptureGraph, RunPastOps, bindings
<1>12. CASE Synchronize
  BY <1>1, <1>12 DEF Synchronize, bindings
<1>13. CASE SynchronizeFails
  <2>1. CASE device' = [device EXCEPT ![activeStream] = <<>>]
    BY <1>13, <2>1 DEF SynchronizeFails, bindings, MemoryInv, UsesCurrentTensors, DeviceInv
  <2> QED
    BY <1>1, <1>13, <2>1 DEF SynchronizeFails, bindings
<1>14. CASE Destroy
  <2>1. Drained
    BY <1>14 DEF Destroy, StreamDrained, MemoryInv, DeviceInv, Drained, OthersDrained
  <2> QED
    BY <1>14, <2>1, DrainedCurrent DEF Destroy
<1>15. CASE \E stream \in Stream : DeviceStep(stream)
  BY <1>15, FinishCurrent DEF MemoryInv
<1>16. CASE UNCHANGED vars
  BY <1>1, <1>16 DEF vars, bindings
<1> QED
  BY <1>2, <1>3, <1>4, <1>5, <1>6, <1>7, <1>8, <1>9, <1>10, <1>11, <1>12, <1>13,
     <1>14, <1>15, <1>16 DEF Next, Configure, Stopped

(* As long as no call fails with work left on a stream, the device only    *)
(* uses memory the Context still references: releasing, replacing or       *)
(* rebinding a buffer never happens under a running kernel.                *)
THEOREM InFlightMemoryStaysHeld ==
  ASSUME Faults \cap {"enqueue", "tuneInFlight", "syncRejected", "kernel"} = {}
  PROVE  Spec => []InFlightMemoryHeld
<1>1. Init => MemoryInv
  <2>1. Init => DeviceInv
    BY DEF Init, DeviceInv, Drained
  <2>2. Init => ReplayInv
    BY ReplayInvInitially
  <2>3. Init => UsesCurrentTensors
    BY DEF Init, UsesCurrentTensors
  <2> QED
    BY <2>1, <2>2, <2>3, TypeInvInitially DEF MemoryInv
<1>2. MemoryInv /\ [Next]_vars => MemoryInv'
  BY TypeInvInductive, DeviceInvInductive, ReplayInvInductive,
     UsesCurrentTensorsInductive DEF MemoryInv
<1>3. MemoryInv => InFlightMemoryHeld
  BY DEF MemoryInv, UsesCurrentTensors, InFlightMemoryHeld
<1> QED
  BY <1>1, <1>2, <1>3, PTL DEF Spec
-----------------------------------------------------------------------------
(* RecencyOrder, of any set of entries.                                    *)
OrderOf(G) ==
  [i \in 1..Cardinality(G) |->
     (CHOOSE e \in G : Cardinality({f \in G : f.lastUsed < e.lastUsed}) = i - 1).key]

(* A list without repetitions has as many elements as its length.          *)
LEMMA ListCardinality ==
  ASSUME NEW n \in Nat, NEW q, \A i, j \in 1..n : q[i] = q[j] => i = j
  PROVE  Cardinality({q[i] : i \in 1..n}) = n
<1> DEFINE T == {q[i] : i \in 1..n}
<1> DEFINE b == [i \in 1..n |-> q[i]]
<1>1. b \in Injection(1..n, T) /\ b \in Surjection(1..n, T)
  BY DEF Injection, Surjection, IsInjective
<1>2. ExistsBijection(1..n, T)
  <2> HIDE DEF b, T
  <2> QED BY <1>1 DEF ExistsBijection, Bijection
<1> QED BY <1>2, FS_CountingElements

(* q lists the entries of G by age.                                        *)
Ascending(q, G) ==
  /\ q \in Seq(G) /\ G = {q[i] : i \in DOMAIN q}
  /\ \A e \in G : e.lastUsed \in Nat
  /\ \A i, j \in DOMAIN q : i < j => q[i].lastUsed < q[j].lastUsed

(* A list by age gives the cardinality and the recency order.              *)
LEMMA OrderOfAscending ==
  ASSUME NEW G, NEW q, Ascending(q, G)
  PROVE  Cardinality(G) = Len(q) /\ OrderOf(G) = [i \in 1..Len(q) |-> q[i].key]
<1> DEFINE n == Len(q)
<1> DEFINE Older(e) == {f \in G : f.lastUsed < e.lastUsed}
<1>1. n \in Nat /\ DOMAIN q = 1..n /\ \A i \in 1..n : q[i] \in G /\ q[i].lastUsed \in Nat
  BY DEF Ascending
<1>2. \A i, j \in 1..n : q[i].lastUsed < q[j].lastUsed <=> i < j
  <2> SUFFICES ASSUME NEW i \in 1..n, NEW j \in 1..n
               PROVE  q[i].lastUsed < q[j].lastUsed <=> i < j
    OBVIOUS
  <2>1. q[i].lastUsed \in Nat /\ q[j].lastUsed \in Nat /\ i \in Nat /\ j \in Nat
    BY <1>1
  <2>2. /\ i < j => q[i].lastUsed < q[j].lastUsed
        /\ j < i => q[j].lastUsed < q[i].lastUsed
    BY <1>1 DEF Ascending
  <2>3. i < j \/ i = j \/ j < i
    BY <2>1
  <2> QED
    BY <2>1, <2>2, <2>3
<1>3. \A i, j \in 1..n : q[i] = q[j] => i = j
  BY <1>1, <1>2
<1>4. Cardinality(G) = n
  <2>1. G = {q[i] : i \in 1..n}
    BY <1>1 DEF Ascending
  <2> HIDE DEF n
  <2> QED BY <1>1, <1>3, <2>1, ListCardinality
<1>5. ASSUME NEW i \in 1..n PROVE Cardinality(Older(q[i])) = i - 1
  <2>1. Older(q[i]) = {q[j] : j \in 1..(i - 1)}
    <3>1. \A j \in 1..n : q[j] \in Older(q[i]) <=> j \in 1..(i - 1)
      BY <1>1, <1>2
    <3>2. \A f \in Older(q[i]) : \E j \in 1..n : f = q[j]
      BY <1>1 DEF Ascending
    <3>3. 1..(i - 1) \subseteq 1..n
      BY <1>1
    <3> HIDE DEF Older, n
    <3> QED BY <3>1, <3>2, <3>3
  <2>2. i - 1 \in Nat /\ \A k, l \in 1..(i - 1) : q[k] = q[l] => k = l
    BY <1>1, <1>3
  <2> HIDE DEF Older, n
  <2> QED BY <2>1, <2>2, ListCardinality
<1>6. ASSUME NEW i \in 1..n
      PROVE  (CHOOSE e \in G : Cardinality(Older(e)) = i - 1) = q[i]
  <2> HIDE DEF Older
  <2>1. \A e \in G : \E j \in 1..n : e = q[j]
    BY <1>1 DEF Ascending
  <2>2. \A e \in G : Cardinality(Older(e)) = i - 1 => e = q[i]
    <3> SUFFICES ASSUME NEW j \in 1..n, Cardinality(Older(q[j])) = i - 1 PROVE j = i
      BY <2>1
    <3> QED BY <1>5, <1>1
  <2>3. q[i] \in G /\ Cardinality(Older(q[i])) = i - 1
    BY <1>1, <1>5
  <2> QED BY <2>2, <2>3
<1>7. OrderOf(G) = [i \in 1..n |-> (CHOOSE e \in G : Cardinality(Older(e)) = i - 1).key]
  BY <1>4 DEF OrderOf
<1> HIDE DEF Older
<1> QED BY <1>4, <1>6, <1>7

(* The list without its i-th entry, and the keys of a list.                *)
Without(q, i) == [j \in 1..(Len(q) - 1) |-> IF j < i THEN q[j] ELSE q[j + 1]]

Keys(q) == [i \in 1..Len(q) |-> q[i].key]

(* The newest entry goes to the end of the list.                           *)
LEMMA AppendNewest ==
  ASSUME NEW G, NEW q, Ascending(q, G), NEW e, e.lastUsed \in Nat,
         \A f \in G : f.lastUsed < e.lastUsed
  PROVE  /\ Ascending(Append(q, e), G \cup {e})
         /\ Keys(Append(q, e)) = Append(Keys(q), e.key)
<1> DEFINE n == Len(q)
<1> DEFINE r == Append(q, e)
<1>1. q \in Seq(G) /\ n \in Nat /\ DOMAIN q = 1..n
  BY DEF Ascending
<1>2. /\ r \in Seq(G \cup {e}) /\ Len(r) = n + 1 /\ DOMAIN r = 1..(n + 1)
      /\ \A j \in 1..n : r[j] = q[j] /\ q[j] \in G
      /\ r[n + 1] = e
  BY <1>1
<1>3. Keys(q) \in Seq({f.key : f \in G}) /\ Len(Keys(q)) = n
  BY <1>1 DEF Keys
<1> HIDE DEF r
<1>4. \A f \in G : \E j \in 1..n : f = q[j]
  BY <1>1 DEF Ascending
<1>5. G \cup {e} = {r[j] : j \in DOMAIN r}
  BY <1>1, <1>2, <1>4
<1>6. \A i, j \in DOMAIN r : i < j => r[i].lastUsed < r[j].lastUsed
  <2> SUFFICES ASSUME NEW i \in 1..(n + 1), NEW j \in 1..(n + 1), i < j
               PROVE  r[i].lastUsed < r[j].lastUsed
    BY <1>2
  <2>1. CASE j = n + 1
    BY <2>1, <1>1, <1>2
  <2>2. CASE j # n + 1
    <3>1. i \in DOMAIN q /\ j \in DOMAIN q /\ r[i] = q[i] /\ r[j] = q[j]
      BY <2>2, <1>1, <1>2
    <3> QED BY <3>1 DEF Ascending
  <2> QED BY <2>1, <2>2
<1>7. Ascending(r, G \cup {e})
  BY <1>2, <1>5, <1>6 DEF Ascending
<1>8. Keys(r) = Append(Keys(q), e.key)
  <2>1. DOMAIN Keys(r) = 1..(n + 1) /\ \A j \in 1..(n + 1) : Keys(r)[j] = r[j].key
    BY <1>2 DEF Keys
  <2>2. Append(Keys(q), e.key) = [j \in 1..(n + 1) |-> IF j = n + 1 THEN e.key ELSE Keys(q)[j]]
    BY <1>3, <1>1
  <2>3. \A j \in 1..n : Keys(q)[j] = q[j].key
    BY DEF Keys
  <2> QED BY <2>1, <2>2, <2>3, <1>1, <1>2 DEF Keys
<1> QED BY <1>7, <1>8 DEF r

(* An entry may leave the list.                                            *)
LEMMA RemoveEntry ==
  ASSUME NEW G, NEW q, Ascending(q, G), NEW i \in 1..Len(q)
  PROVE  /\ Ascending(Without(q, i), G \ {q[i]})
         /\ Keys(Without(q, i)) = SubSeq(Keys(q), 1, i - 1) \o SubSeq(Keys(q), i + 1, Len(q))
         /\ i = 1 => Keys(Without(q, i)) = Tail(Keys(q))
<1> DEFINE n == Len(q)
<1> DEFINE K == {f.key : f \in G}
<1> DEFINE w == Without(q, i)
<1>1. q \in Seq(G) /\ n \in Nat /\ DOMAIN q = 1..n /\ i \in 1..n /\ n - 1 \in Nat
  BY DEF Ascending
<1>2. /\ DOMAIN w = 1..(n - 1) /\ Len(w) = n - 1
      /\ \A j \in 1..(n - 1) : w[j] = IF j < i THEN q[j] ELSE q[j + 1]
  BY <1>1 DEF Without
<1> HIDE DEF w, n
<1>3. \A j \in 1..n : q[j] \in G /\ q[j].lastUsed \in Nat
  BY <1>1 DEF Ascending
<1>4. \A j, k \in 1..n : q[j] = q[k] => j = k
  BY <1>1, <1>3 DEF Ascending
<1>5. \A j \in 1..(n - 1) : w[j] \in G \ {q[i]}
  BY <1>1, <1>2, <1>3, <1>4
<1>6. w \in Seq(G \ {q[i]})
  <2>1. w = [j \in 1..(n - 1) |-> w[j]]
    BY <1>2 DEF w, Without, n
  <2> QED BY <1>1, <1>5, <2>1
<1>7. \A f \in G \ {q[i]} : \E j \in 1..(n - 1) : f = w[j]
  <2> SUFFICES ASSUME NEW k \in 1..n, k # i PROVE \E j \in 1..(n - 1) : q[k] = w[j]
    BY <1>1 DEF Ascending
  <2>1. CASE k < i
    BY <2>1, <1>1, <1>2
  <2>2. CASE k > i
    <3>1. k - 1 \in 1..(n - 1) /\ ~(k - 1 < i) /\ (k - 1) + 1 = k
      BY <2>2, <1>1
    <3> QED BY <3>1, <1>2
  <2> QED BY <2>1, <2>2, <1>1
<1>8. G \ {q[i]} = {w[j] : j \in DOMAIN w}
  BY <1>2, <1>5, <1>7
<1>9. \A j, k \in DOMAIN w : j < k => w[j].lastUsed < w[k].lastUsed
  <2>1. \A j, k \in 1..n : j < k => q[j].lastUsed < q[k].lastUsed
    BY <1>1 DEF Ascending
  <2> SUFFICES ASSUME NEW j \in 1..(n - 1), NEW k \in 1..(n - 1), j < k
               PROVE  w[j].lastUsed < w[k].lastUsed
    BY <1>2
  <2>2. CASE k < i
    BY <2>1, <2>2, <1>1, <1>2
  <2>3. CASE ~(k < i) /\ j < i
    BY <2>1, <2>3, <1>1, <1>2
  <2>4. CASE ~(j < i)
    BY <2>1, <2>4, <1>1, <1>2
  <2> QED BY <2>2, <2>3, <2>4
<1>10. Ascending(w, G \ {q[i]})
  BY <1>6, <1>8, <1>9 DEF Ascending
<1>11. Keys(w) = [j \in 1..(n - 1) |-> IF j < i THEN q[j].key ELSE q[j + 1].key]
  BY <1>2, <1>1 DEF Keys
<1>12. /\ Keys(q) \in Seq(K) /\ Len(Keys(q)) = n
       /\ \A j \in 1..n : Keys(q)[j] = q[j].key
  BY <1>1, <1>3 DEF Keys, n
<1>13. Keys(w) = SubSeq(Keys(q), 1, i - 1) \o SubSeq(Keys(q), i + 1, n)
  <2> HIDE DEF K
  <2> DEFINE a == SubSeq(Keys(q), 1, i - 1)
  <2> DEFINE b == SubSeq(Keys(q), i + 1, n)
  <2>1. /\ a \in Seq(K) /\ Len(a) = i - 1
        /\ \A j \in 1..(i - 1) : a[j] = q[j].key
    BY <1>1, <1>12
  <2>2. /\ b \in Seq(K) /\ Len(b) = n - i
        /\ \A j \in 1..(n - i) : b[j] = q[j + i].key
    BY <1>1, <1>12
  <2> HIDE DEF a, b
  <2>3. /\ Len(a \o b) = n - 1 /\ a \o b \in Seq(K)
        /\ \A j \in 1..(n - 1) : (a \o b)[j] = IF j <= i - 1 THEN a[j] ELSE b[j - (i - 1)]
    <3>1. Len(a) + Len(b) = n - 1
      BY <1>1, <2>1, <2>2
    <3>2. /\ a \o b \in Seq(K) /\ Len(a \o b) = Len(a) + Len(b)
          /\ \A j \in 1..(Len(a) + Len(b)) :
               (a \o b)[j] = IF j <= Len(a) THEN a[j] ELSE b[j - Len(a)]
      BY <2>1, <2>2, ConcatProperties
    <3> QED BY <2>1, <3>1, <3>2
  <2>4. \A j \in 1..(n - 1) : (a \o b)[j] = IF j < i THEN q[j].key ELSE q[j + 1].key
    <3> SUFFICES ASSUME NEW j \in 1..(n - 1)
                 PROVE  (a \o b)[j] = IF j < i THEN q[j].key ELSE q[j + 1].key
      OBVIOUS
    <3>1. CASE j < i
      BY <3>1, <1>1, <2>1, <2>3
    <3>2. CASE ~(j < i)
      <4>1. j - (i - 1) \in 1..(n - i) /\ (j - (i - 1)) + i = j + 1 /\ ~(j <= i - 1)
        BY <3>2, <1>1
      <4>2. b[j - (i - 1)] = q[(j - (i - 1)) + i].key
        BY <4>1, <2>2
      <4> QED BY <3>2, <4>1, <4>2, <2>3
    <3> QED BY <3>1, <3>2
  <2>5. a \o b = [j \in 1..(n - 1) |-> (a \o b)[j]]
    BY <2>3, LenProperties
  <2>6. a \o b = Keys(w)
    BY <1>11, <2>4, <2>5
  <2> QED BY <2>6 DEF a, b
<1>14. i = 1 => Keys(w) = Tail(Keys(q))
  <2> SUFFICES ASSUME i = 1 PROVE Keys(w) = Tail(Keys(q))
    OBVIOUS
  <2>1. Keys(q) # <<>>
    BY <1>12, <1>1
  <2>2. /\ Tail(Keys(q)) \in Seq(K) /\ Len(Tail(Keys(q))) = n - 1
        /\ \A j \in 1..(n - 1) : Tail(Keys(q))[j] = Keys(q)[j + 1]
    BY <2>1, <1>12, HeadTailProperties
  <2>3. Tail(Keys(q)) = [j \in 1..(n - 1) |-> Tail(Keys(q))[j]]
    BY <2>2, LenProperties
  <2>4. \A j \in 1..(n - 1) : Tail(Keys(q))[j] = q[j + 1].key /\ ~(j < i)
    BY <2>2, <1>12, <1>1
  <2> QED BY <2>3, <2>4, <1>11
<1> QED BY <1>10, <1>13, <1>14 DEF w, n

(* The cached graphs can be listed by age, because each is entered with    *)
(* the newest timestamp.                                                   *)
RecencyInv == TypeInv /\ GraphsInv /\ \E q : Ascending(q, graphs)

(* Entering a graph as the newest, after another has left or none has.     *)
LEMMA EntersAsNewest ==
  ASSUME RecencyInv, NEW q, Ascending(q, graphs), NEW G \in SUBSET graphs,
         NEW r, Ascending(r, G), NEW key, NEW submission,
         graphs' = G \cup {CudaGraphEntry(key, submission)}
  PROVE  /\ RecencyOrder = Keys(q) /\ Cardinality(graphs) = Len(q)
         /\ RecencyOrder' = Append(Keys(r), key)
         /\ \E s : Ascending(s, graphs')
<1> DEFINE e == CudaGraphEntry(key, submission)
<1>1. Cardinality(graphs) = Len(q) /\ OrderOf(graphs) = Keys(q)
  BY OrderOfAscending DEF Keys
<1>2. RecencyOrder = OrderOf(graphs) /\ RecencyOrder' = OrderOf(graphs')
  BY DEF RecencyOrder, OrderOf
<1>3. e.lastUsed \in Nat /\ e.key = key /\ \A f \in G : f.lastUsed < e.lastUsed
  BY DEF RecencyInv, GraphsInv, CudaGraphEntry
<1> HIDE DEF e
<1>4. Ascending(Append(r, e), G \cup {e}) /\ Keys(Append(r, e)) = Append(Keys(r), key)
  BY <1>3, AppendNewest
<1>5. OrderOf(G \cup {e}) = Keys(Append(r, e))
  BY <1>4, OrderOfAscending DEF Keys
<1>6. graphs' = G \cup {e}
  BY DEF e
<1> QED
  BY <1>1, <1>2, <1>4, <1>5, <1>6

(* A replay makes its graph the most recent.                               *)
LEMMA ReplayTouches ==
  ASSUME RecencyInv, LaunchGraph
  PROVE  Lru!Touch /\ \E s : Ascending(s, graphs')
<1>1. PICK hit \in graphs :
        graphs' = (graphs \ {hit}) \cup {CudaGraphEntry(hit.key, hit.submission)}
  BY DEF LaunchGraph
<1>2. PICK q : Ascending(q, graphs)
  BY DEF RecencyInv
<1>3. PICK i \in 1..Len(q) : hit = q[i]
  BY <1>2 DEF Ascending
<1>4. /\ Ascending(Without(q, i), graphs \ {hit})
      /\ Keys(Without(q, i)) = SubSeq(Keys(q), 1, i - 1) \o SubSeq(Keys(q), i + 1, Len(q))
  BY <1>2, <1>3, RemoveEntry
<1>5. /\ RecencyOrder = Keys(q) /\ RecencyOrder' = Append(Keys(Without(q, i)), hit.key)
      /\ \E s : Ascending(s, graphs')
  <2> DEFINE G == graphs \ {hit}
  <2>1. G \in SUBSET graphs /\ graphs' = G \cup {CudaGraphEntry(hit.key, hit.submission)}
    BY <1>1
  <2> HIDE DEF G
  <2>2. Ascending(Without(q, i), G)
    BY <1>4 DEF G
  <2> QED
    BY <1>2, <2>1, <2>2, EntersAsNewest
<1>6. Len(q) \in Nat
  BY <1>2 DEF Ascending
<1>7. DOMAIN RecencyOrder = 1..Len(q) /\ Len(RecencyOrder) = Len(q) /\ RecencyOrder[i] = hit.key
  <2> DEFINE m == Len(q)
  <2>1. RecencyOrder = [k \in 1..m |-> q[k].key]
    BY <1>5, Zenon DEF Keys
  <2>2. m \in Nat /\ i \in 1..m
    BY <1>3, <1>6
  <2> HIDE DEF m
  <2>3. DOMAIN RecencyOrder = 1..m /\ RecencyOrder[i] = q[i].key
    BY <2>1, <2>2, Zenon
  <2>4. RecencyOrder \in Seq({q[k].key : k \in 1..m}) /\ Len(RecencyOrder) = m
    BY ONLY <2>1, <2>2
  <2> QED
    BY <1>3, <2>3, <2>4, Zenon DEF m
<1>8. Append(Keys(Without(q, i)), hit.key) = Keys(Without(q, i)) \o <<hit.key>>
  <2> DEFINE K == {Keys(Without(q, i))[j] : j \in 1..Len(Without(q, i))} \cup {hit.key}
  <2>1. Len(Without(q, i)) \in Nat
    BY <1>4 DEF Ascending
  <2>2. Keys(Without(q, i)) \in Seq(K) /\ hit.key \in K
    BY <2>1 DEF Keys
  <2> HIDE DEF K
  <2> QED
    BY <2>2, AppendIsConcat
<1>9. RecencyOrder' = SubSeq(RecencyOrder, 1, i - 1)
                        \o SubSeq(RecencyOrder, i + 1, Len(RecencyOrder))
                        \o <<RecencyOrder[i]>>
  BY <1>4, <1>5, <1>7, <1>8
<1> QED
  BY <1>5, <1>7, <1>9 DEF Lru!Touch

(* A capture enters a new key, and evicts the oldest from a full cache.    *)
LEMMA CaptureInserts ==
  ASSUME RecencyInv, CaptureGraph, ~UNCHANGED cache
  PROVE  Lru!Insert /\ \E s : Ascending(s, graphs')
<1>1. PICK oldest \in LeastRecentlyUsed \cup {Nil} :
        /\ (oldest # Nil) <=> (Cardinality(graphs) >= Capacity)
        /\ graphs' = (graphs \ {oldest}) \cup {CudaGraphEntry(GraphKey, CurrentSubmission)}
  BY DEF CaptureGraph
<1>2. PICK q : Ascending(q, graphs)
  BY DEF RecencyInv
<1>3. /\ q \in Seq(graphs) /\ Len(q) \in Nat /\ DOMAIN q = 1..Len(q)
      /\ Cardinality(graphs) = Len(q) /\ Len(q) <= Capacity
  <2>1. Cardinality(graphs) = Len(q)
    BY <1>2, OrderOfAscending
  <2>2. Cardinality(graphs) <= Capacity
    BY DEF RecencyInv, GraphsInv, GraphCacheBounded
  <2>3. q \in Seq(graphs)
    BY <1>2 DEF Ascending
  <2> QED
    BY <2>1, <2>2, <2>3
<1>4. Nil \notin graphs
  <2>1. graphs \subseteq [key : GraphKeys, submission : Submission, lastUsed : Nat]
    BY DEF RecencyInv, TypeInv, CacheType
  <2> QED
    BY <2>1, EntryAssumption
<1> DEFINE r == IF Len(q) = Capacity THEN Without(q, 1) ELSE q
<1>5. /\ Ascending(r, graphs \ {oldest})
      /\ Keys(r) = IF Len(q) = Capacity THEN Tail(Keys(q)) ELSE Keys(q)
  <2>1. CASE Len(q) = Capacity
    <3>1. oldest \in graphs /\ \A other \in graphs : oldest.lastUsed <= other.lastUsed
      BY <1>1, <1>3, <2>1, CapacityType DEF LeastRecentlyUsed
    <3>2. 1 \in 1..Len(q) /\ q[1] \in graphs
      BY <1>3, <2>1, CapacityType
    <3>3. PICK j \in 1..Len(q) : oldest = q[j]
      BY <3>1, <1>2, <1>3 DEF Ascending
    <3>4. j = 1
      <4>1. q[1].lastUsed \in Nat /\ q[j].lastUsed \in Nat
        BY <1>2, <1>3, <3>2 DEF Ascending
      <4>2. 1 < j => q[1].lastUsed < q[j].lastUsed
        <5>1. 1 \in DOMAIN q /\ j \in DOMAIN q
          BY <1>3, <3>2
        <5> QED
          BY <1>2, <5>1 DEF Ascending
      <4>3. q[j].lastUsed <= q[1].lastUsed
        BY <3>1, <3>2, <3>3
      <4> QED
        BY <4>1, <4>2, <4>3
    <3> QED
      BY <1>2, <2>1, <3>2, <3>3, <3>4, RemoveEntry
  <2>2. CASE Len(q) # Capacity
    <3>1. graphs \ {oldest} = graphs
      <4>1. ~(Cardinality(graphs) >= Capacity)
        <5>1. ASSUME NEW k \in Nat, NEW m \in Nat, m <= k, m # k PROVE ~(m >= k)
          BY <5>1
        <5> QED
          BY <1>3, <2>2, <5>1, CapacityType
      <4>2. oldest = Nil
        BY <1>1, <4>1
      <4> QED
        BY <1>4, <4>2
    <3> QED
      BY <1>2, <2>2, <3>1
  <2> QED
    BY <2>1, <2>2
<1> HIDE DEF r
<1>6. /\ RecencyOrder = Keys(q) /\ RecencyOrder' = Append(Keys(r), GraphKey)
      /\ \E s : Ascending(s, graphs')
  <2> DEFINE G == graphs \ {oldest}
  <2>1. G \in SUBSET graphs /\ graphs' = G \cup {CudaGraphEntry(GraphKey, CurrentSubmission)}
    BY <1>1
  <2> HIDE DEF G
  <2>2. Ascending(r, G)
    BY <1>5 DEF G
  <2> QED
    BY <1>2, <2>1, <2>2, EntersAsNewest
<1>7. Len(RecencyOrder) = Len(q)
  BY <1>3, <1>6 DEF Keys
<1>8. /\ RecencyOrder' # <<>> /\ RecencyOrder'[Len(RecencyOrder')] = GraphKey
  <2>1. Len(r) \in Nat
    BY <1>5 DEF Ascending
  <2> DEFINE K == {Keys(r)[j] : j \in 1..Len(r)} \cup {GraphKey}
  <2>2. Keys(r) \in Seq(K) /\ GraphKey \in K
    BY <2>1 DEF Keys
  <2> HIDE DEF K
  <2> QED
    BY <1>6, <2>2, AppendProperties
<1>9. GraphKey \notin Lru!Cached
  <2>1. \A e \in graphs : e.key # GraphKey
    BY DEF CaptureGraph, RecencyInv, GraphsInv
  <2>2. \A i \in DOMAIN RecencyOrder : RecencyOrder[i] = q[i].key /\ q[i] \in graphs
    BY <1>3, <1>6 DEF Keys
  <2> QED
    BY <2>1, <2>2 DEF Lru!Cached
<1>10. RecencyOrder' =
         Append(IF Len(RecencyOrder) = Capacity THEN Tail(RecencyOrder) ELSE RecencyOrder,
                RecencyOrder'[Len(RecencyOrder')])
  BY <1>5, <1>6, <1>7, <1>8
<1> QED
  BY <1>6, <1>8, <1>9, <1>10 DEF Lru!Insert

(* A cache without graphs.                                                 *)
LEMMA NoGraphs == ASSUME NEW G, G = {} PROVE Ascending(<<>>, G) /\ OrderOf(G) = <<>>
<1>1. Ascending(<<>>, G)
  BY DEF Ascending
<1> QED
  BY <1>1, OrderOfAscending

(* Every step keeps the list, and is a step of the LRU cache or none.      *)
LEMMA RecencyStep ==
  ASSUME RecencyInv, [Next]_vars
  PROVE  (\E s : Ascending(s, graphs')) /\ [Lru!Next]_RecencyOrder
<1>1. CASE UNCHANGED graphs
  BY <1>1 DEF RecencyInv, RecencyOrder
<1>2. CASE graphs' = {}
  <2>1. RecencyOrder' = OrderOf(graphs')
    BY DEF RecencyOrder, OrderOf
  <2> QED
    BY <1>2, <2>1, NoGraphs DEF Lru!Next, Lru!Clear
<1>3. CASE Configure
  BY <1>1, <1>2, <1>3 DEF Configure, BindInput, BindOutput, BindTensor,
     SelectShapeProfile, InvalidateCudaGraph, SetInputShape, ResolveShapes, cache
<1>4. CASE \E stream \in CallerStream \cup {OwnedStream} : RunAsync(stream)
  BY <1>1, <1>4 DEF RunAsync, cache
<1>5. CASE CaptureGraph
  BY <1>1, <1>5, CaptureInserts DEF Lru!Next, cache
<1>6. CASE LaunchGraph
  BY <1>6, ReplayTouches DEF Lru!Next
<1>7. CASE RunStage /\ ~CaptureGraph /\ ~LaunchGraph
  BY <1>1, <1>7 DEF RunStage, PrepareTensors, ValidateBindings, PrepareTuning,
     PrepareKernels, StartSubmission, ComputeOnHost, EnqueueOp, LookupGraph,
     RunPastOps, cache
<1>8. CASE Synchronize \/ SynchronizeFails \/ Destroy
  BY <1>1, <1>2, <1>8 DEF Synchronize, SynchronizeFails, Destroy, cache
<1>9. CASE \E stream \in Stream : DeviceStep(stream)
  BY <1>1, <1>9 DEF DeviceStep, cache
<1>10. CASE UNCHANGED vars
  BY <1>1, <1>10 DEF vars, cache
<1> QED
  BY <1>3, <1>4, <1>5, <1>6, <1>7, <1>8, <1>9, <1>10 DEF Next, Stopped

(* The graph cache implements an LRU cache of any capacity: a replay or a  *)
(* capture makes its graph the most recent, and only the least recent one  *)
(* makes room.                                                             *)
THEOREM GraphCacheImplementsLru == Spec => GraphCacheIsLru
<1>1. Init => RecencyInv /\ Lru!Init
  <2> SUFFICES ASSUME Init PROVE RecencyInv /\ Lru!Init
    OBVIOUS
  <2>1. graphs = {} /\ RecencyOrder = OrderOf(graphs)
    BY DEF Init, RecencyOrder, OrderOf
  <2>2. GraphsInv
    BY FS_EmptySet, CapacityType DEF Init, GraphsInv, GraphCacheBounded
  <2> QED
    BY <2>1, <2>2, NoGraphs, TypeInvInitially DEF RecencyInv, Lru!Init
<1>2. RecencyInv /\ [Next]_vars => RecencyInv' /\ [Lru!Next]_RecencyOrder
  BY TypeInvInductive, GraphsInvInductive, RecencyStep DEF RecencyInv
<1> QED
  BY <1>1, <1>2, PTL DEF Spec, GraphCacheIsLru, Lru!Spec
=============================================================================
