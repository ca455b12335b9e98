---------------------------- MODULE EngineState ----------------------------
(***************************************************************************)
(* What the Contexts of a process share while each runs on a thread of its *)
(* own: per Engine the EngineState (src/runtime/engine.cpp) with uploaded  *)
(* constants and the CudaModuleCache (src/backend/cuda_launcher.cpp), and  *)
(* for all of them the backend registry (src/backend/backend.cpp) and the  *)
(* device's primary context, whose references buffers, caches and Contexts *)
(* hold.                                                                   *)
(*                                                                         *)
(* A call is ExecutionContext::Run with its stages one by one; what a      *)
(* Context does without touching shared state is in ExecutionContext.tla.  *)
(* A step is the code between two points where another thread could tell   *)
(* the difference: a lock, a call_once, or a reference taken or dropped.   *)
(* The caller's boundary tensors are in memory it manages itself.          *)
(***************************************************************************)
EXTENDS PrimaryContext, Sequences, FiniteSets

CONSTANTS
  Engine, Context,
  EngineOf,        \* EngineOf[c]: the Engine that created c
  ConstantTensor,  \* plan.constants() of every Engine
  HasWorkspace,    \* Contexts whose memory plan needs a workspace
  Tuned,           \* Engines whose plan has tuning enabled
  UsesGraph,       \* Engines whose plan has enable_cuda_graph
  Artifact,
  Sha256,          \* Sha256[a]: what artifact a's PTX hashes to
  Kernels,         \* Kernels[e]: the artifacts of e's plan, in plan order
  Builtin,         \* the built-in backends, in order of registration
  FaultSets,       \* the sets of driver calls that may fail, one per behaviour
  MaxCalls,        \* bound: runs per Context
  User, Nil

ASSUME EngineAssumption ==
  /\ EngineOf \in [Context -> Engine] /\ HasWorkspace \subseteq Context
  /\ Tuned \subseteq Engine /\ UsesGraph \subseteq Engine
  /\ Kernels \in [Engine -> Seq(Artifact) \ {<<>>}] /\ DOMAIN Sha256 = Artifact
  /\ MaxCalls \in Nat /\ Nil \notin Context \cup {User} /\ User \notin Context
  /\ FaultSets \subseteq
       SUBSET {"retain", "current", "alloc", "copy", "stream", "load", "function"}

(* A process has finitely many of them.                                    *)
ASSUME FiniteAssumption ==
  IsFiniteSet(Engine) /\ IsFiniteSet(Context) /\ IsFiniteSet(ConstantTensor)

Part == {"tensors", "workspace", "tuning", "kernels", "cuda", "graph"}
Sha == {Sha256[a] : a \in Artifact}

VARIABLES
  faults,         \* the driver calls that may fail; never changes
  references,     \* references to the device's primary context
  backends,       \* KernelRegistry: who registered the object of a name, or Nil
  engines,        \* the Engine objects that exist
  released,       \* Engines whose EngineState is destroyed
  constantsOnce,  \* "unset", "running", or the outcome of the call_once
  uploaded,       \* device_constants
  cacheOnce,      \* "unset", or the outcome of the module cache's call_once
  owner,          \* who holds the mutex of e's module cache, or Nil
  modules,        \* modules_: SHA-256 keys
  functions,      \* functions_
  loaded,         \* loaded[e][s]: modules the driver has loaded for e from s
  pc,             \* where c's call is, "idle" between calls
  at,             \* the backend or kernel c is at
  current,        \* is the primary context current on the thread c's call is on?
  has,            \* what c has prepared and keeps for its next calls
  functionsOf,    \* functions c's kernels launch
  calls,          \* runs c has made
  broken          \* Contexts whose stream capture was invalidated

engineVars == <<engines, released, constantsOnce, uploaded>>
cacheVars == <<cacheOnce, owner, modules, functions, loaded>>
callVars == <<pc, at, current>>
contextVars == <<has, functionsOf, calls>>
vars == <<faults, references, backends, engineVars, cacheVars, callVars, contextVars, broken>>

Init ==
  /\ faults \in FaultSets
  /\ references = 0
  /\ backends = [n \in {Builtin[i] : i \in DOMAIN Builtin} |-> Nil]
  /\ engines = Engine /\ released = {}
  /\ constantsOnce = [e \in Engine |-> "unset"] /\ uploaded = [e \in Engine |-> {}]
  /\ cacheOnce = [e \in Engine |-> "unset"] /\ owner = [e \in Engine |-> Nil]
  /\ modules = [e \in Engine |-> {}] /\ functions = [e \in Engine |-> {}]
  /\ loaded = [e \in Engine |-> [s \in Sha |-> 0]]
  /\ pc = [c \in Context |-> "absent"] /\ at = [c \in Context |-> 1]
  /\ current = [c \in Context |-> FALSE]
  /\ has = [c \in Context |-> {}] /\ functionsOf = [c \in Context |-> {}]
  /\ calls = [c \in Context |-> 0] /\ broken = {}

(* A call goes on at another stage, for the i-th item, or with what a      *)
(* driver call left; or returns.                                           *)
Goto(c, stage) == pc' = [pc EXCEPT ![c] = stage] /\ UNCHANGED <<at, current>>

GotoItem(c, stage, i) ==
  /\ pc' = [pc EXCEPT ![c] = stage] /\ at' = [at EXCEPT ![c] = i]
  /\ UNCHANGED current

GotoAfter(c, stage, outcome) ==
  /\ pc' = [pc EXCEPT ![c] = stage]
  /\ current' = [current EXCEPT ![c] = @ \/ outcome.current]
  /\ UNCHANGED at

Return(c) ==
  /\ pc' = [pc EXCEPT ![c] = "idle"]
  /\ at' = [at EXCEPT ![c] = 1] /\ current' = [current EXCEPT ![c] = FALSE]

Keep(c, parts) == has' = [has EXCEPT ![c] = @ \cup parts]

Existing(e) == {c \in Context : EngineOf[c] = e /\ pc[c] \notin {"absent", "gone"}}
-----------------------------------------------------------------------------
CreateExecutionContext(c) ==
  /\ pc[c] = "absent" /\ EngineOf[c] \in engines
  /\ Goto(c, "idle")
  /\ UNCHANGED <<references, backends, engineVars, cacheVars, contextVars, broken>>

(* The caller's thread may have made the context current, for instance by  *)
(* allocating a tensor, or may not.                                        *)
RunAsync(c) ==
  /\ pc[c] = "idle" /\ calls[c] < MaxCalls
  /\ calls' = [calls EXCEPT ![c] = @ + 1]
  /\ \E before \in BOOLEAN :
       GotoAfter(c, IF "tensors" \in has[c] THEN "tuning" ELSE "constants",
                 Outcome(TRUE, 0, before))
  /\ UNCHANGED <<references, backends, engineVars, cacheVars, has, functionsOf, broken>>

(* Mutant of ConstantsReady: who comes while another thread uploads goes   *)
(* on with the status as it is.                                            *)
ConstantsStarted(c) == constantsOnce[EngineOf[c]] \in {"running", "ok"}

ConstantsReady(c) == constantsOnce[EngineOf[c]] = "ok"

(* call_once: the first caller uploads, callers meanwhile wait, and all    *)
(* get the status the one attempt left.                                    *)
InitializeConstants(c) ==
  /\ pc[c] = "constants"
  /\ \/ /\ constantsOnce[EngineOf[c]] = "unset"
        /\ constantsOnce' = [constantsOnce EXCEPT ![EngineOf[c]] = "running"]
        /\ Goto(c, "upload")
     \/ ConstantsReady(c) /\ Goto(c, "workspace") /\ UNCHANGED constantsOnce
     \/ constantsOnce[EngineOf[c]] = "failed" /\ Return(c) /\ UNCHANGED constantsOnce
  /\ UNCHANGED <<references, backends, engines, released, uploaded, cacheVars,
                 contextVars, broken>>

Capturing == {c \in Context : pc[c] = "capturing"}

(* While a capture of CU_STREAM_CAPTURE_MODE_GLOBAL is under way the       *)
(* driver refuses cuMemAlloc to every other thread, and the attempt may    *)
(* invalidate the capture.                                                 *)
AllocationRefused == Capturing # {}

AttemptAllocation ==
  \/ UNCHANGED broken
  \/ AllocationRefused /\ broken' = broken \cup Capturing

Missing(e) == ConstantTensor \ uploaded[e]

(* UploadConstants for one constant.  If the copy fails, the new buffer is *)
(* released; the constants uploaded so far stay.                           *)
UploadConstant(c) ==
  LET e == EngineOf[c]
  IN  /\ pc[c] = "upload" /\ Missing(e) # {}
      /\ AttemptAllocation
      /\ \E made \in AllocateCuda(faults, AllocationRefused), copied \in CopyFromHost(faults) :
           \/ /\ made.ok /\ copied.ok
              /\ references' = references + made.retained + copied.retained
              /\ \E w \in Missing(e) : uploaded' = [uploaded EXCEPT ![e] = @ \cup {w}]
              /\ GotoAfter(c, "upload", made) /\ UNCHANGED constantsOnce
           \/ /\ ~(made.ok /\ copied.ok)
              /\ \/ ~made.ok /\ references' = references + made.retained
                 \/ /\ made.ok
                    /\ \E freed \in Release(faults) :
                         references' = references + made.retained + copied.retained
                                         + freed.retained
              /\ constantsOnce' = [constantsOnce EXCEPT ![e] = "failed"]
              /\ GotoAfter(c, "constants", made) /\ UNCHANGED uploaded
      /\ UNCHANGED <<backends, engines, released, cacheVars, contextVars>>

FinishUpload(c) ==
  /\ pc[c] = "upload" /\ Missing(EngineOf[c]) = {}
  /\ constantsOnce' = [constantsOnce EXCEPT ![EngineOf[c]] = "ok"]
  /\ Goto(c, "constants")
  /\ UNCHANGED <<references, backends, engines, released, uploaded, cacheVars,
                 contextVars, broken>>

NeedsWorkspace(c) == c \in HasWorkspace /\ "workspace" \notin has[c]

(* The rest of PrepareTensors.                                             *)
PrepareTensors(c) ==
  /\ pc[c] = "workspace"
  /\ \/ /\ ~NeedsWorkspace(c)
        /\ Keep(c, {"tensors"}) /\ Goto(c, "tuning")
        /\ UNCHANGED <<references, broken>>
     \/ /\ NeedsWorkspace(c)
        /\ AttemptAllocation
        /\ \E made \in AllocateCuda(faults, AllocationRefused) :
             /\ references' = references + made.retained
             /\ \/ made.ok /\ Keep(c, {"workspace", "tensors"}) /\ GotoAfter(c, "tuning", made)
                \/ ~made.ok /\ Return(c) /\ UNCHANGED has
  /\ UNCHANGED <<backends, engineVars, cacheVars, functionsOf, calls>>
-----------------------------------------------------------------------------
(* PrepareTuning and PrepareKernels.                                       *)

Tunes(c) == EngineOf[c] \in Tuned /\ "tuning" \notin has[c]

PrepareTuning(c) ==
  /\ pc[c] = "tuning"
  /\ \/ Tunes(c) /\ Goto(c, "modules") /\ UNCHANGED has
     \/ /\ ~Tunes(c)
        /\ Keep(c, {"tuning"})
        /\ Goto(c, IF "kernels" \in has[c] THEN "cuda" ELSE "register")
  /\ UNCHANGED <<references, backends, engineVars, cacheVars, functionsOf, calls, broken>>

(* RegisterBuiltin looks the name up first ...                             *)
FindBuiltin(c) ==
  /\ pc[c] = "register"
  /\ \/ at[c] > Len(Builtin) /\ GotoItem(c, "modules", 1)
     \/ /\ at[c] <= Len(Builtin) /\ backends[Builtin[at[c]]] # Nil
        /\ GotoItem(c, "register", at[c] + 1)
     \/ /\ at[c] <= Len(Builtin) /\ backends[Builtin[at[c]]] = Nil
        /\ Goto(c, "registering")
  /\ UNCHANGED <<references, backends, engineVars, cacheVars, contextVars, broken>>

(* Mutant of RegisterBackend: the name is not looked up under the lock.    *)
RegisterBackendUnchecked(name, who) == backends' = [backends EXCEPT ![name] = who]

(* KernelRegistry::RegisterBackend: the first object of a name stays.      *)
RegisterBackend(name, who) ==
  backends' = [backends EXCEPT ![name] = IF @ = Nil THEN who ELSE @]

(* ... and takes kAlreadyExists, another thread's doing, for success.      *)
RegisterBuiltin(c) ==
  /\ pc[c] = "registering"
  /\ RegisterBackend(Builtin[at[c]], c)
  /\ GotoItem(c, "register", at[c] + 1)
  /\ UNCHANGED <<references, engineVars, cacheVars, contextVars, broken>>

UserRegisters ==
  /\ \E name \in DOMAIN backends : RegisterBackend(name, User)
  /\ UNCHANGED <<references, engineVars, cacheVars, callVars, contextVars, broken>>

CacheUnset(c) == cacheOnce[EngineOf[c]] = "unset"

(* CudaModuleCache::Initialize takes a reference and makes nothing current.*)
CacheOutcomes ==
  {Outcome(TRUE, 1, FALSE)} \cup {Outcome(FALSE, 0, FALSE) : fault \in faults \cap {"retain"}}

InitializeModuleCache(c) ==
  /\ pc[c] = "modules"
  /\ \/ /\ CacheUnset(c)
        /\ \E o \in CacheOutcomes :
             /\ references' = references + o.retained
             /\ cacheOnce' = [cacheOnce EXCEPT ![EngineOf[c]] = IF o.ok THEN "ok" ELSE "failed"]
        /\ UNCHANGED callVars
     \/ /\ cacheOnce[EngineOf[c]] = "ok"
        /\ Goto(c, IF Tunes(c) THEN "tune" ELSE "lock")
        /\ UNCHANGED <<references, cacheOnce>>
     \/ /\ cacheOnce[EngineOf[c]] = "failed"
        /\ Return(c) /\ UNCHANGED <<references, cacheOnce>>
  /\ UNCHANGED <<backends, engineVars, owner, modules, functions, loaded, contextVars, broken>>

(* Measuring begins with a stream of its own, which needs a current        *)
(* context.                                                                *)
CreateTuningStream(c) ==
  /\ pc[c] = "tune"
  /\ \/ current[c] /\ Goto(c, "lock")
     \/ (~current[c] \/ "stream" \in faults) /\ Return(c)
  /\ UNCHANGED <<references, backends, engineVars, cacheVars, contextVars, broken>>
-----------------------------------------------------------------------------
(* CudaModuleCache::GetFunction, for the kernel c is at.                   *)

Wanted(c) == Kernels[EngineOf[c]][at[c]]

(* Mutant of MutexFree: GetFunction locks nothing.                         *)
MutexIgnored(c) == TRUE

MutexFree(c) == owner[EngineOf[c]] = Nil

Lock(c) ==
  /\ pc[c] = "lock" /\ MutexFree(c)
  /\ \/ /\ owner' = [owner EXCEPT ![EngineOf[c]] = c]
        /\ GotoAfter(c, "module", Outcome(TRUE, 0, TRUE))
     \/ "current" \in faults /\ Return(c) /\ UNCHANGED owner
  /\ UNCHANGED <<references, backends, engineVars, cacheOnce, modules, functions, loaded,
                 contextVars, broken>>

Unlock(c) == owner' = [owner EXCEPT ![EngineOf[c]] = Nil]

(* Mutant of LoadFails: the error return leaves the mutex locked.          *)
LoadFailsLocked(c) == "load" \in faults /\ Return(c) /\ UNCHANGED owner

LoadFails(c) == "load" \in faults /\ Return(c) /\ Unlock(c)

FindModule(c) ==
  /\ pc[c] = "module"
  /\ Goto(c, IF Sha256[Wanted(c)] \in modules[EngineOf[c]] THEN "function" ELSE "load")
  /\ UNCHANGED <<references, backends, engineVars, cacheVars, contextVars, broken>>

(* A module that is missing is read from its file and loaded.              *)
LoadModule(c) ==
  LET e == EngineOf[c]
      s == Sha256[Wanted(c)]
  IN  /\ pc[c] = "load"
      /\ \/ /\ Goto(c, "function") /\ UNCHANGED owner
            /\ modules' = [modules EXCEPT ![e] = @ \cup {s}]
            /\ loaded' = [loaded EXCEPT ![e][s] = @ + 1]
         \/ LoadFails(c) /\ UNCHANGED <<modules, loaded>>
      /\ UNCHANGED <<references, backends, engineVars, cacheOnce, functions, contextVars, broken>>

(* The kernels of a tuning run are dropped again, those of PrepareKernels  *)
(* stay with the Context.                                                  *)
CreateKernel(c) ==
  /\ functionsOf' =
       IF Tunes(c) THEN functionsOf ELSE [functionsOf EXCEPT ![c] = @ \cup {Wanted(c)}]
  /\ \/ /\ at[c] < Len(Kernels[EngineOf[c]])
        /\ GotoItem(c, "lock", at[c] + 1) /\ UNCHANGED has
     \/ /\ at[c] = Len(Kernels[EngineOf[c]])
        /\ Keep(c, {IF Tunes(c) THEN "tuning" ELSE "kernels"})
        /\ GotoItem(c, IF Tunes(c) THEN "register" ELSE "cuda", 1)

FindFunction(c) ==
  LET e == EngineOf[c]
  IN  /\ pc[c] = "function"
      /\ Unlock(c)
      /\ \/ functions' = [functions EXCEPT ![e] = @ \cup {Wanted(c)}] /\ CreateKernel(c)
         \/ /\ Wanted(c) \notin functions[e] /\ "function" \in faults
            /\ Return(c) /\ UNCHANGED <<functions, functionsOf, has>>
      /\ UNCHANGED <<references, backends, engineVars, cacheOnce, modules, loaded, calls, broken>>
-----------------------------------------------------------------------------
(* The rest of Run: the Context's CUDA state, a capture, the work.         *)

SetCurrentOutcomes ==
  {Outcome(TRUE, 0, TRUE)} \cup {Outcome(FALSE, 0, FALSE) : fault \in faults \cap {"current"}}

(* The first run makes the CUDA state, which takes a reference; when that  *)
(* fails, DestroyCuda gives the reference back.                            *)
CudaStateOutcomes ==
  {Outcome(TRUE, 1, TRUE)}
    \cup {Outcome(FALSE, 0, FALSE) : fault \in faults \cap {"retain", "current"}}
    \cup {Outcome(FALSE, 0, TRUE) : fault \in faults \cap {"stream"}}

InitializeCuda(c) ==
  /\ pc[c] = "cuda"
  /\ \E o \in IF "cuda" \in has[c] THEN SetCurrentOutcomes ELSE CudaStateOutcomes :
       /\ references' = references + o.retained
       /\ \/ /\ o.ok /\ Keep(c, {"cuda"})
             /\ GotoAfter(c, IF EngineOf[c] \in UsesGraph /\ "graph" \notin has[c]
                             THEN "begin" ELSE "submit", o)
          \/ ~o.ok /\ Return(c) /\ UNCHANGED has
  /\ UNCHANGED <<backends, engineVars, cacheVars, functionsOf, calls, broken>>

BeginCapture(c) ==
  /\ pc[c] = "begin"
  /\ Goto(c, "capturing")
  /\ broken' = broken \ {c}
  /\ UNCHANGED <<references, backends, engineVars, cacheVars, contextVars>>

EndCapture(c) ==
  /\ pc[c] = "capturing"
  /\ \/ c \notin broken /\ Keep(c, {"graph"}) /\ Goto(c, "submit")
     \/ c \in broken /\ Return(c) /\ UNCHANGED has
  /\ broken' = broken \ {c}
  /\ UNCHANGED <<references, backends, engineVars, cacheVars, functionsOf, calls>>

Submit(c) ==
  /\ pc[c] = "submit"
  /\ Return(c)
  /\ UNCHANGED <<references, backends, engineVars, cacheVars, contextVars, broken>>
-----------------------------------------------------------------------------
(* Destruction.                                                            *)

(* Mutant of StateReleased: Contexts do not keep the EngineState.          *)
StateReleasedWithEngine(e, engineGone, contextsLeft) == engineGone

(* Mutant of StateReleased: the Engine does not keep it.                   *)
StateReleasedWithContexts(e, engineGone, contextsLeft) == contextsLeft = {}

(* The EngineState goes with the last of its Engine and its Contexts.      *)
StateReleased(e, engineGone, contextsLeft) == engineGone /\ contextsLeft = {}

(* A Context's buffers and other references go, and with `last` the        *)
(* EngineState's module cache and constants.                               *)
ReleaseResources(e, last, buffers, others) ==
  LET constants == IF last THEN Cardinality(uploaded[e]) ELSE 0
      caches == IF last /\ cacheOnce[e] = "ok" THEN 1 ELSE 0
  IN  /\ \E freed \in ReleaseAll(faults, buffers + constants) :
           references' = references + freed - others - caches
      /\ released' = IF last THEN released \cup {e} ELSE released
      /\ uploaded' = IF last THEN [uploaded EXCEPT ![e] = {}] ELSE uploaded
      /\ modules' = IF last THEN [modules EXCEPT ![e] = {}] ELSE modules
      /\ functions' = IF last THEN [functions EXCEPT ![e] = {}] ELSE functions
      /\ loaded' = IF last THEN [loaded EXCEPT ![e] = [s \in Sha |-> 0]] ELSE loaded

DestroyEngine(e) ==
  /\ e \in engines
  /\ engines' = engines \ {e}
  /\ ReleaseResources(e, StateReleased(e, TRUE, Existing(e)), 0, 0)
  /\ UNCHANGED <<backends, constantsOnce, cacheOnce, owner, callVars, contextVars, broken>>

(* ~ExecutionContext: its CUDA state, kernels and workspace.               *)
DestroyContext(c) ==
  LET e == EngineOf[c]
  IN  /\ pc[c] = "idle"
      /\ Goto(c, "gone")
      /\ ReleaseResources(e, StateReleased(e, e \notin engines, Existing(e) \ {c}),
                          Cardinality(has[c] \cap {"workspace"}),
                          Cardinality(has[c] \cap {"cuda"}))
      /\ has' = [has EXCEPT ![c] = {}] /\ functionsOf' = [functionsOf EXCEPT ![c] = {}]
      /\ UNCHANGED <<backends, engines, constantsOnce, cacheOnce, owner, calls, broken>>
-----------------------------------------------------------------------------
CallStep(c) ==
  \/ InitializeConstants(c) \/ UploadConstant(c) \/ FinishUpload(c)
  \/ PrepareTensors(c) \/ PrepareTuning(c)
  \/ FindBuiltin(c) \/ RegisterBuiltin(c) \/ InitializeModuleCache(c)
  \/ CreateTuningStream(c) \/ Lock(c) \/ FindModule(c) \/ LoadModule(c)
  \/ FindFunction(c)
  \/ InitializeCuda(c) \/ BeginCapture(c) \/ EndCapture(c) \/ Submit(c)

(* Everything is destroyed.                                                *)
Finished ==
  /\ engines = {} /\ \A c \in Context : pc[c] \in {"absent", "gone"}
  /\ UNCHANGED <<references, backends, engineVars, cacheVars, callVars, contextVars, broken>>

Next ==
  /\ \/ \E c \in Context :
           CreateExecutionContext(c) \/ RunAsync(c) \/ CallStep(c) \/ DestroyContext(c)
     \/ UserRegisters \/ (\E e \in Engine : DestroyEngine(e)) \/ Finished
  /\ UNCHANGED faults

(* A thread in a call goes on as long as it can.                           *)
Spec ==
  Init /\ [][Next]_vars /\ \A c \in Context : WF_vars(CallStep(c) /\ UNCHANGED faults)
-----------------------------------------------------------------------------
(* Properties.                                                             *)

Stages == {"absent", "idle", "constants", "upload", "workspace", "tuning",
           "register", "registering", "modules", "tune", "lock", "module",
           "load", "function", "cuda", "begin", "capturing", "submit", "gone"}

Calling(c) == pc[c] \notin {"absent", "idle", "gone"}

(* The type of every variable, save the count of references.               *)
TypeOK ==
  /\ faults \in FaultSets
  /\ \A n \in DOMAIN backends : backends[n] \in Context \cup {User, Nil}
  /\ engines \subseteq Engine /\ released \subseteq Engine \ engines
  /\ constantsOnce \in [Engine -> {"unset", "running", "ok", "failed"}]
  /\ cacheOnce \in [Engine -> {"unset", "ok", "failed"}]
  /\ uploaded \in [Engine -> SUBSET ConstantTensor]
  /\ owner \in [Engine -> Context \cup {Nil}]
  /\ modules \in [Engine -> SUBSET Sha] /\ functions \in [Engine -> SUBSET Artifact]
  /\ loaded \in [Engine -> [Sha -> Nat]]
  /\ pc \in [Context -> Stages] /\ at \in [Context -> Nat \ {0}]
  /\ current \in [Context -> BOOLEAN] /\ has \in [Context -> SUBSET Part]
  /\ functionsOf \in [Context -> SUBSET Artifact] /\ broken \subseteq Capturing
  /\ calls \in [Context -> 0..MaxCalls]

(* What holds a reference to the primary context for as long as it lives.  *)
Holders ==
  {h \in {"constant"} \X Engine \X ConstantTensor : h[3] \in uploaded[h[2]]}
  \cup {h \in {"cache"} \X (Engine \ released) : cacheOnce[h[2]] = "ok"}
  \cup {h \in {"workspace", "cuda"} \X Context : h[1] \in has[h[2]]}

(* The primary context has a reference of everything that lives in it, so  *)
(* it outlives all of it, and no others unless a driver call failed in     *)
(* SetCudaDevice: what the last owner destroys goes (buffer.cpp: each      *)
(* deleter takes one reference and gives back two).                        *)
ReferencesMatchHolders ==
  /\ references \in Int /\ references >= Cardinality(Holders)
  /\ faults \cap {"retain", "current"} = {} => references = Cardinality(Holders)

(* Contexts of an Engine share one module per PTX: however their calls     *)
(* interleave and fail none is loaded twice or lost (README.md: a PTX used *)
(* by several nodes and Contexts is loaded once).                          *)
ModulesLoadedOnce ==
  \A e \in Engine, s \in Sha : loaded[e][s] = IF s \in modules[e] THEN 1 ELSE 0

(* What a Context's kernels launch is loaded as long as the Context lives, *)
(* also after its Engine was destroyed (engine.h), and the module cache    *)
(* keeps its reference to the primary context.                             *)
FunctionsStayLoaded ==
  \A c \in Context : functionsOf[c] # {} =>
    /\ functionsOf[c] \subseteq functions[EngineOf[c]]
    /\ \A a \in functionsOf[c] : Sha256[a] \in modules[EngineOf[c]]
    /\ EngineOf[c] \notin released /\ cacheOnce[EngineOf[c]] = "ok"

(* A backend that is registered is never replaced by another object,       *)
(* whoever registers at the same time.                                     *)
BackendsStable ==
  [][\A n \in DOMAIN backends : backends[n] # Nil => backends'[n] = backends[n]]_vars

(* Where a Context is with respect to stages `in` and those `before` them. *)
Place(c, in, before) ==
  IF pc[c] \in in THEN "in"
  ELSE IF pc[c] \in {"absent", "idle", "gone"} \cup before THEN "out" ELSE "past"

Users(e) == {c \in Context : EngineOf[c] = e}

(* What OnceCell sees of an Engine's constants and of its module cache.    *)
ConstantsOutcome(e) == IF constantsOnce[e] = "running" THEN "unset" ELSE constantsOnce[e]
ConstantsPlace(e) == [c \in Users(e) |-> Place(c, {"constants", "upload"}, {})]

CachePlace(e) ==
  [c \in Users(e) |-> Place(c, {"modules"}, {"constants", "upload", "workspace", "tuning",
                                            "register", "registering"})]

(* Every call returns: no thread waits for ever for another's upload or    *)
(* for the mutex, whatever fails.                                          *)
CallsReturn == \A c \in Context : Calling(c) ~> ~Calling(c)

(* Contexts do not disturb each other: when no driver call fails of        *)
(* itself, a run succeeds, whatever the others do (architecture.md:48).    *)
RunsIndependent ==
  [][faults = {} => \A c \in Context : Calling(c) /\ pc'[c] = "idle" => pc[c] = "submit"]_vars
=============================================================================
