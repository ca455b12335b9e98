------------------------- MODULE EngineStateProofs -------------------------
(***************************************************************************)
(* Theorems about EngineState for any number of Engines, Contexts, kernels *)
(* and backends, and whatever driver calls fail.                           *)
(***************************************************************************)
EXTENDS EngineState, BasicLemmas

(* The stages in which a kernel of the plan is fetched.                    *)
Fetching == {"lock", "module", "load", "function"}
Registering == {"register", "registering"}

(* A call is at a kernel of its plan while it fetches kernels, and at the  *)
(* first item again when it neither fetches nor registers.                 *)
AtInv ==
  \A c \in Context :
    /\ pc[c] \in Fetching => at[c] <= Len(Kernels[EngineOf[c]])
    /\ pc[c] \notin Fetching \cup Registering => at[c] = 1

TypeInv == TypeOK /\ AtInv

(* The types in three parts: what is shared, the calls, the captures.      *)
SharedTyped ==
  /\ faults \in FaultSets
  /\ \A n \in DOMAIN backends : backends[n] \in Context \cup {User, Nil}
  /\ engines \subseteq Engine /\ released \subseteq Engine \ engines
  /\ constantsOnce \in [Engine -> {"unset", "running", "ok", "failed"}]
  /\ cacheOnce \in [Engine -> {"unset", "ok", "failed"}]
  /\ uploaded \in [Engine -> SUBSET ConstantTensor]
  /\ owner \in [Engine -> Context \cup {Nil}]
  /\ modules \in [Engine -> SUBSET Sha] /\ functions \in [Engine -> SUBSET Artifact]
  /\ loaded \in [Engine -> [Sha -> Nat]]

CallsTyped ==
  /\ pc \in [Context -> Stages] /\ at \in [Context -> Nat \ {0}]
  /\ current \in [Context -> BOOLEAN] /\ has \in [Context -> SUBSET Part]
  /\ functionsOf \in [Context -> SUBSET Artifact]
  /\ calls \in [Context -> 0..MaxCalls]

(* The kernel a call fetches is an artifact of its Engine's plan.          *)
LEMMA WantedIsArtifact ==
  ASSUME TypeInv, NEW c \in Context, pc[c] \in Fetching
  PROVE  Wanted(c) \in Artifact /\ Sha256[Wanted(c)] \in Sha
<1>1. at[c] \in 1..Len(Kernels[EngineOf[c]])
  BY EngineAssumption DEF TypeInv, TypeOK, AtInv
<1>2. Kernels[EngineOf[c]] \in Seq(Artifact)
  BY EngineAssumption
<1> QED
  BY <1>1, <1>2 DEF Wanted, Sha

(* The initial states have the types.                                      *)
LEMMA TypeInvInitially == Init => TypeInv
BY EngineAssumption
   DEF Init, TypeInv, TypeOK, AtInv, Stages, Fetching, Registering, Sha, Capturing, Part

(* Every step keeps the types of what the Contexts share.                  *)
LEMMA SharedTypedInductive ==
  ASSUME TypeInv, [Next]_vars
  PROVE  SharedTyped'
<1> USE DEF SharedTyped, engineVars, cacheVars, callVars, contextVars
<1>0. \A c \in Context : EngineOf[c] \in Engine
  BY EngineAssumption
<1>1. SharedTyped /\ UNCHANGED Sha
  BY DEF TypeInv, TypeOK
<1>2. CASE UNCHANGED vars
  BY <1>1, <1>2 DEF vars
<1> SUFFICES ASSUME Next PROVE SharedTyped'
  BY <1>2
<1>3. faults' \in FaultSets
  BY <1>1 DEF Next
<1>4. ASSUME NEW c \in Context, CreateExecutionContext(c) \/ RunAsync(c) PROVE SharedTyped'
  BY <1>0, <1>1, <1>3, <1>4 DEF CreateExecutionContext, RunAsync
<1>5. ASSUME NEW c \in Context, InitializeConstants(c) \/ FinishUpload(c) PROVE SharedTyped'
  BY <1>0, <1>1, <1>3, <1>5 DEF InitializeConstants, FinishUpload
<1>6. ASSUME NEW c \in Context, UploadConstant(c) PROVE SharedTyped'
  <2>1. /\ \/ UNCHANGED constantsOnce
           \/ constantsOnce' = [constantsOnce EXCEPT ![EngineOf[c]] = "failed"]
        /\ \/ UNCHANGED uploaded
           \/ \E w \in ConstantTensor :
                 uploaded' = [uploaded EXCEPT ![EngineOf[c]] = @ \cup {w}]
        /\ UNCHANGED <<backends, engines, released, cacheVars>>
    BY <1>6 DEF UploadConstant, Missing
  <2>2. uploaded' \in [Engine -> SUBSET ConstantTensor]
    BY <1>1, <2>1
  <2>3. constantsOnce' \in [Engine -> {"unset", "running", "ok", "failed"}]
    BY <1>1, <2>1
  <2> QED
    BY <1>1, <1>3, <2>1, <2>2, <2>3
<1>7. ASSUME NEW c \in Context, PrepareTensors(c) \/ PrepareTuning(c) \/ FindBuiltin(c)
                                  \/ CreateTuningStream(c) \/ FindModule(c)
      PROVE SharedTyped'
  BY <1>0, <1>1, <1>3, <1>7
     DEF PrepareTensors, PrepareTuning, FindBuiltin, CreateTuningStream, FindModule
<1>8. ASSUME NEW c \in Context, RegisterBuiltin(c) PROVE SharedTyped'
  BY <1>0, <1>1, <1>3, <1>8 DEF RegisterBuiltin, RegisterBackend
<1>9. ASSUME NEW c \in Context, InitializeModuleCache(c) PROVE SharedTyped'
  <2>1. /\ \/ UNCHANGED cacheOnce
           \/ \E o \in {"ok", "failed"} : cacheOnce' = [cacheOnce EXCEPT ![EngineOf[c]] = o]
        /\ UNCHANGED <<backends, engineVars, owner, modules, functions, loaded>>
    BY <1>9 DEF InitializeModuleCache
  <2> QED
    BY <1>0, <1>1, <1>3, <2>1
<1>10. ASSUME NEW c \in Context, Lock(c) PROVE SharedTyped'
  <2>1. /\ UNCHANGED owner \/ owner' = [owner EXCEPT ![EngineOf[c]] = c]
        /\ UNCHANGED <<backends, engineVars, cacheOnce, modules, functions, loaded>>
    BY <1>10 DEF Lock
  <2> QED
    BY <1>0, <1>1, <1>3, <2>1
<1>11. ASSUME NEW c \in Context, LoadModule(c) PROVE SharedTyped'
  <2>1. Sha256[Wanted(c)] \in Sha
    BY <1>11, WantedIsArtifact DEF LoadModule, Fetching
  <2>2. /\ \/ UNCHANGED <<modules, loaded>>
           \/ \E s \in Sha : /\ modules' = [modules EXCEPT ![EngineOf[c]] = @ \cup {s}]
                             /\ loaded' = [loaded EXCEPT ![EngineOf[c]][s] = @ + 1]
        /\ UNCHANGED owner \/ owner' = [owner EXCEPT ![EngineOf[c]] = Nil]
        /\ UNCHANGED <<backends, engineVars, cacheOnce, functions>>
    BY <1>11, <2>1 DEF LoadModule, LoadFails, Unlock
  <2>3. CASE UNCHANGED <<modules, loaded>>
    BY <1>0, <1>1, <1>3, <2>2, <2>3
  <2>4. ASSUME NEW s \in Sha, modules' = [modules EXCEPT ![EngineOf[c]] = @ \cup {s}],
               loaded' = [loaded EXCEPT ![EngineOf[c]][s] = @ + 1]
        PROVE  SharedTyped'
    <3>1. modules' \in [Engine -> SUBSET Sha]
      BY <1>1, <2>4
    <3>2. loaded' \in [Engine -> [Sha -> Nat]]
      <4>1. [loaded[EngineOf[c]] EXCEPT ![s] = @ + 1] \in [Sha -> Nat]
        BY <1>0, <1>1
      <4> QED
        BY <1>1, <2>4, <4>1
    <3>3. owner' \in [Engine -> Context \cup {Nil}]
      BY <1>1, <2>2
    <3> QED
      BY <1>1, <1>3, <2>2, <3>1, <3>2, <3>3
  <2> QED
    BY <2>2, <2>3, <2>4
<1>12. ASSUME NEW c \in Context, FindFunction(c) PROVE SharedTyped'
  <2>1. Wanted(c) \in Artifact
    BY <1>12, WantedIsArtifact DEF FindFunction, Fetching
  <2>2. /\ \/ UNCHANGED functions
           \/ \E a \in Artifact : functions' = [functions EXCEPT ![EngineOf[c]] = @ \cup {a}]
        /\ owner' = [owner EXCEPT ![EngineOf[c]] = Nil]
        /\ UNCHANGED <<backends, engineVars, cacheOnce, modules, loaded>>
    BY <1>12, <2>1 DEF FindFunction, Unlock
  <2> QED
    BY <1>0, <1>1, <1>3, <2>2
<1>13. ASSUME NEW c \in Context, InitializeCuda(c) \/ BeginCapture(c) \/ EndCapture(c) \/ Submit(c)
       PROVE SharedTyped'
  BY <1>0, <1>1, <1>3, <1>13 DEF InitializeCuda, BeginCapture, EndCapture, Submit
<1>14. ASSUME NEW e \in Engine, NEW last \in BOOLEAN, NEW buffers, NEW others,
              ReleaseResources(e, last, buffers, others)
       PROVE  /\ uploaded' \in [Engine -> SUBSET ConstantTensor]
              /\ modules' \in [Engine -> SUBSET Sha] /\ functions' \in [Engine -> SUBSET Artifact]
              /\ loaded' \in [Engine -> [Sha -> Nat]]
              /\ released' = IF last THEN released \cup {e} ELSE released
  BY <1>1, <1>14 DEF ReleaseResources
<1>15. ASSUME NEW c \in Context, DestroyContext(c) PROVE SharedTyped'
  <2>1. /\ UNCHANGED <<backends, engines, constantsOnce, cacheOnce, owner>>
        /\ ReleaseResources(EngineOf[c], StateReleased(EngineOf[c], EngineOf[c] \notin engines,
                                                      Existing(EngineOf[c]) \ {c}),
                            Cardinality(has[c] \cap {"workspace"}),
                            Cardinality(has[c] \cap {"cuda"}))
    BY <1>15 DEF DestroyContext
  <2>2. StateReleased(EngineOf[c], EngineOf[c] \notin engines, Existing(EngineOf[c]) \ {c})
          \in BOOLEAN
    BY DEF StateReleased
  <2>3. /\ uploaded' \in [Engine -> SUBSET ConstantTensor]
        /\ modules' \in [Engine -> SUBSET Sha] /\ functions' \in [Engine -> SUBSET Artifact]
        /\ loaded' \in [Engine -> [Sha -> Nat]]
        /\ \/ UNCHANGED released
           \/ EngineOf[c] \notin engines /\ released' = released \cup {EngineOf[c]}
    BY <1>0, <1>14, <2>1, <2>2 DEF StateReleased
  <2> QED
    BY <1>0, <1>1, <1>3, <2>1, <2>3
<1>16. ASSUME NEW e \in Engine, DestroyEngine(e) PROVE SharedTyped'
  <2>1. /\ UNCHANGED <<backends, constantsOnce, cacheOnce, owner>>
        /\ engines' = engines \ {e}
        /\ ReleaseResources(e, StateReleased(e, TRUE, Existing(e)), 0, 0)
    BY <1>16 DEF DestroyEngine
  <2> QED
    BY <1>0, <1>1, <1>3, <1>14, <2>1 DEF StateReleased
<1>17. CASE UserRegisters \/ Finished
  BY <1>0, <1>1, <1>3, <1>17 DEF UserRegisters, RegisterBackend, Finished
<1> QED
  BY <1>4, <1>5, <1>6, <1>7, <1>8, <1>9, <1>10, <1>11, <1>12, <1>13,
     <1>15, <1>16, <1>17 DEF Next, CallStep

(* What any step may do to the calls: everything else is one Context's.    *)
CallMoves(c) ==
  /\ \E stage \in Stages : pc' = [pc EXCEPT ![c] = stage]
  /\ UNCHANGED at \/ (\E i \in Nat \ {0} : at' = [at EXCEPT ![c] = i])
  /\ \/ UNCHANGED current \/ current' = [current EXCEPT ![c] = FALSE]
     \/ \E b \in BOOLEAN : current' = [current EXCEPT ![c] = @ \/ b]
  /\ \/ UNCHANGED has \/ has' = [has EXCEPT ![c] = {}]
     \/ \E parts \in SUBSET Part : has' = [has EXCEPT ![c] = @ \cup parts]
  /\ \/ UNCHANGED functionsOf \/ functionsOf' = [functionsOf EXCEPT ![c] = {}]
     \/ \E a \in Artifact : functionsOf' = [functionsOf EXCEPT ![c] = @ \cup {a}]
  /\ UNCHANGED calls \/ (calls[c] < MaxCalls /\ calls' = [calls EXCEPT ![c] = @ + 1])

(* What a step may do to one Context keeps the types.                      *)
LEMMA CallMovesTyped ==
  ASSUME CallsTyped, NEW c \in Context, CallMoves(c)
  PROVE  CallsTyped'
<1> USE DEF CallsTyped, CallMoves
<1>1. pc' \in [Context -> Stages]
  OBVIOUS
<1>2. at' \in [Context -> Nat \ {0}]
  OBVIOUS
<1>3. current' \in [Context -> BOOLEAN]
  OBVIOUS
<1>4. has' \in [Context -> SUBSET Part]
  OBVIOUS
<1>5. functionsOf' \in [Context -> SUBSET Artifact]
  OBVIOUS
<1>6. calls' \in [Context -> 0..MaxCalls]
  <2>1. MaxCalls \in Nat
    BY EngineAssumption
  <2> QED
    BY <2>1
<1> QED
  BY <1>1, <1>2, <1>3, <1>4, <1>5, <1>6

(* Every step keeps the types of the calls.                                *)
LEMMA CallsTypedInductive ==
  ASSUME TypeInv, [Next]_vars
  PROVE  CallsTyped'
<1> USE DEF CallMoves, Goto, GotoItem, GotoAfter, Return, Keep, Outcome, callVars, contextVars
<1>1. /\ CallsTyped /\ 1 \in Nat \ {0}
      /\ \A c \in Context : at[c] \in Nat \ {0}
      /\ "idle" \in Stages /\ "constants" \in Stages /\ "upload" \in Stages
      /\ "workspace" \in Stages /\ "tuning" \in Stages /\ "register" \in Stages
      /\ "registering" \in Stages /\ "modules" \in Stages /\ "tune" \in Stages
      /\ "lock" \in Stages /\ "module" \in Stages /\ "load" \in Stages
      /\ "function" \in Stages /\ "cuda" \in Stages /\ "begin" \in Stages
      /\ "capturing" \in Stages /\ "submit" \in Stages /\ "gone" \in Stages
      /\ "tensors" \in Part /\ "workspace" \in Part /\ "tuning" \in Part
      /\ "kernels" \in Part /\ "cuda" \in Part /\ "graph" \in Part
  BY DEF TypeInv, TypeOK, Stages, Part, CallsTyped
<1>2. CASE UNCHANGED <<callVars, contextVars>>
  BY <1>1, <1>2 DEF CallsTyped
<1>3. ASSUME NEW c \in Context, CreateExecutionContext(c) \/ RunAsync(c) PROVE CallMoves(c)
  BY <1>1, <1>3 DEF CreateExecutionContext, RunAsync
<1>4. ASSUME NEW c \in Context, InitializeConstants(c) \/ FinishUpload(c) PROVE CallMoves(c)
  BY <1>1, <1>4 DEF InitializeConstants, FinishUpload
<1>5. ASSUME NEW c \in Context, UploadConstant(c) PROVE CallMoves(c)
  BY <1>1, <1>5 DEF UploadConstant
<1>6. ASSUME NEW c \in Context, PrepareTensors(c) PROVE CallMoves(c)
  BY <1>1, <1>6 DEF PrepareTensors
<1>7. ASSUME NEW c \in Context, PrepareTuning(c) PROVE CallMoves(c)
  BY <1>1, <1>7 DEF PrepareTuning
<1>8. ASSUME NEW c \in Context, FindBuiltin(c) \/ RegisterBuiltin(c) PROVE CallMoves(c)
  BY <1>1, <1>8 DEF FindBuiltin, RegisterBuiltin
<1>9. ASSUME NEW c \in Context, InitializeModuleCache(c)
      PROVE  CallMoves(c) \/ UNCHANGED <<callVars, contextVars>>
  BY <1>1, <1>9 DEF InitializeModuleCache
<1>10. ASSUME NEW c \in Context, CreateTuningStream(c) \/ Lock(c) \/ FindModule(c) \/ LoadModule(c)
       PROVE CallMoves(c)
  BY <1>1, <1>10 DEF CreateTuningStream, Lock, FindModule, LoadModule, LoadFails
<1>11. ASSUME NEW c \in Context, FindFunction(c) PROVE CallMoves(c)
  <2>1. Wanted(c) \in Artifact
    BY <1>11, WantedIsArtifact DEF FindFunction, Fetching
  <2>2. at[c] + 1 \in Nat \ {0}
    BY <1>1
  <2>3. CASE CreateKernel(c)
    <3>1. \/ UNCHANGED functionsOf
          \/ functionsOf' = [functionsOf EXCEPT ![c] = @ \cup {Wanted(c)}]
      BY <2>3 DEF CreateKernel
    <3>2. /\ \E stage \in Stages : pc' = [pc EXCEPT ![c] = stage]
          /\ \E i \in Nat \ {0} : at' = [at EXCEPT ![c] = i]
          /\ UNCHANGED current
      BY <1>1, <2>2, <2>3 DEF CreateKernel
    <3>3. UNCHANGED has \/ (\E parts \in SUBSET Part : has' = [has EXCEPT ![c] = @ \cup parts])
      BY <1>1, <2>3 DEF CreateKernel
    <3> QED
      BY <1>11, <2>1, <3>1, <3>2, <3>3 DEF FindFunction
  <2>4. CASE Return(c) /\ UNCHANGED <<functionsOf, has>>
    BY <1>1, <1>11, <2>4 DEF FindFunction
  <2> QED
    BY <1>11, <2>3, <2>4 DEF FindFunction
<1>12. ASSUME NEW c \in Context, InitializeCuda(c) PROVE CallMoves(c)
  BY <1>1, <1>12 DEF InitializeCuda
<1>13. ASSUME NEW c \in Context, BeginCapture(c) \/ EndCapture(c) \/ Submit(c) PROVE CallMoves(c)
  BY <1>1, <1>13 DEF BeginCapture, EndCapture, Submit
<1>14. ASSUME NEW c \in Context, DestroyContext(c) PROVE CallMoves(c)
  BY <1>1, <1>14 DEF DestroyContext
<1>15. CASE UserRegisters \/ Finished \/ (\E e \in Engine : DestroyEngine(e)) \/ UNCHANGED vars
  BY <1>2, <1>15 DEF UserRegisters, Finished, DestroyEngine, vars
<1> HIDE DEF CallMoves
<1> QED
  BY <1>1, <1>2, <1>3, <1>4, <1>5, <1>6, <1>7, <1>8, <1>9, <1>10, <1>11, <1>12, <1>13,
     <1>14, <1>15, CallMovesTyped DEF Next, CallStep

(* A call that starts fetching starts at the first kernel, of which every  *)
(* plan has one, and goes on to the next only while there is one.          *)
LEMMA AtInvInductive ==
  ASSUME TypeInv, [Next]_vars
  PROVE  AtInv'
<1> USE DEF AtInv, Fetching, Registering, Goto, GotoItem, GotoAfter, Return, callVars
<1>1. /\ AtInv /\ CallsTyped
      /\ \A c \in Context : Len(Kernels[EngineOf[c]]) \in Nat \ {0}
  <2>1. ASSUME NEW c \in Context PROVE Len(Kernels[EngineOf[c]]) \in Nat \ {0}
    <3>1. Kernels[EngineOf[c]] \in Seq(Artifact) \ {<<>>}
      BY EngineAssumption
    <3> QED
      BY <3>1
  <2> QED
    BY <2>1 DEF TypeInv, TypeOK, CallsTyped
<1>2. CASE UNCHANGED vars
  BY <1>1, <1>2 DEF vars
<1> SUFFICES ASSUME Next PROVE AtInv'
  BY <1>2
<1> USE DEF CallsTyped
<1>4. ASSUME NEW c \in Context, CreateExecutionContext(c) \/ RunAsync(c) PROVE AtInv'
  BY <1>1, <1>4 DEF CreateExecutionContext, RunAsync
<1>5. ASSUME NEW c \in Context, InitializeConstants(c) \/ FinishUpload(c) PROVE AtInv'
  BY <1>1, <1>5 DEF InitializeConstants, FinishUpload
<1>6. ASSUME NEW c \in Context, UploadConstant(c) PROVE AtInv'
  BY <1>1, <1>6 DEF UploadConstant
<1>7. ASSUME NEW c \in Context, PrepareTensors(c) \/ PrepareTuning(c) PROVE AtInv'
  BY <1>1, <1>7 DEF PrepareTensors, PrepareTuning
<1>8. ASSUME NEW c \in Context, FindBuiltin(c) \/ RegisterBuiltin(c) PROVE AtInv'
  BY <1>1, <1>8 DEF FindBuiltin, RegisterBuiltin
<1>9. ASSUME NEW c \in Context, InitializeModuleCache(c) PROVE AtInv'
  BY <1>1, <1>9 DEF InitializeModuleCache
<1>10. ASSUME NEW c \in Context, CreateTuningStream(c) PROVE AtInv'
  <2>1. /\ pc[c] = "tune" /\ pc \in [Context -> Stages] /\ at \in [Context -> Nat \ {0}]
        /\ \/ pc' = [pc EXCEPT ![c] = "lock"] /\ UNCHANGED at
           \/ pc' = [pc EXCEPT ![c] = "idle"] /\ at' = [at EXCEPT ![c] = 1]
    BY <1>1, <1>10 DEF CreateTuningStream
  <2>2. at[c] = 1 /\ 1 <= Len(Kernels[EngineOf[c]])
    <3>1. Len(Kernels[EngineOf[c]]) \in Nat \ {0}
      BY <1>1
    <3>2. at[c] = 1
      BY <1>1, <2>1
    <3> QED
      BY <3>1, <3>2
  <2>3. at'[c] = 1 /\ pc'[c] \in {"lock", "idle"}
    BY <2>1, <2>2
  <2>4. \A d \in Context : d # c => at'[d] = at[d] /\ pc'[d] = pc[d]
    BY <2>1
  <2> QED
    BY <1>1, <2>2, <2>3, <2>4
<1>11. ASSUME NEW c \in Context, Lock(c) PROVE AtInv'
  BY <1>1, <1>11 DEF Lock
<1>12. ASSUME NEW c \in Context, FindModule(c) \/ LoadModule(c) PROVE AtInv'
  BY <1>1, <1>12 DEF FindModule, LoadModule, LoadFails
<1>13. ASSUME NEW c \in Context, FindFunction(c) PROVE AtInv'
  <2>1. /\ pc \in [Context -> Stages] /\ at \in [Context -> Nat \ {0}]
        /\ \/ /\ pc' = [pc EXCEPT ![c] = "lock"] /\ at' = [at EXCEPT ![c] = at[c] + 1]
              /\ at[c] < Len(Kernels[EngineOf[c]])
           \/ \E stage \in {"register", "cuda", "idle"} :
                pc' = [pc EXCEPT ![c] = stage] /\ at' = [at EXCEPT ![c] = 1]
    BY <1>1, <1>13 DEF FindFunction, CreateKernel
  <2>2. \/ pc'[c] = "lock" /\ at'[c] = at[c] + 1 /\ at[c] < Len(Kernels[EngineOf[c]])
        \/ pc'[c] \in {"register", "cuda", "idle"} /\ at'[c] = 1
    BY <2>1
  <2>3. \A d \in Context : d # c => at'[d] = at[d] /\ pc'[d] = pc[d]
    BY <2>1
  <2>4. at[c] \in Nat /\ Len(Kernels[EngineOf[c]]) \in Nat
    BY <1>1, <2>1
  <2>5. /\ pc'[c] \in Fetching => at'[c] <= Len(Kernels[EngineOf[c]])
        /\ pc'[c] \notin Fetching \cup Registering => at'[c] = 1
    BY <1>1, <2>2, <2>4
  <2> QED
    BY <1>1, <2>3, <2>5
<1>14. ASSUME NEW c \in Context, InitializeCuda(c) PROVE AtInv'
  BY <1>1, <1>14 DEF InitializeCuda
<1>15. ASSUME NEW c \in Context, BeginCapture(c) \/ EndCapture(c) \/ Submit(c) PROVE AtInv'
  BY <1>1, <1>15 DEF BeginCapture, EndCapture, Submit
<1>16. ASSUME NEW c \in Context, DestroyContext(c) PROVE AtInv'
  BY <1>1, <1>16 DEF DestroyContext
<1>17. ASSUME NEW e \in Engine, DestroyEngine(e) PROVE AtInv'
  BY <1>1, <1>17 DEF DestroyEngine
<1>18. CASE UserRegisters \/ Finished
  BY <1>1, <1>18 DEF UserRegisters, Finished
<1> QED
  BY <1>4, <1>5, <1>6, <1>7, <1>8, <1>9, <1>10, <1>11, <1>12,
     <1>13, <1>14, <1>15, <1>16, <1>17, <1>18 DEF Next, CallStep

(* A capture is marked broken only while it is under way: who marks it is  *)
(* at an allocation, and only its own thread ends it.                      *)
LEMMA CapturesTyped ==
  ASSUME TypeInv, [Next]_vars
  PROVE  (broken \subseteq Capturing)'
<1> USE DEF Goto, GotoItem, GotoAfter, Return, callVars
<1>1. broken \subseteq Capturing /\ DOMAIN pc = Context
  BY DEF TypeInv, TypeOK
<1>2. ASSUME NEW c \in Context, pc[c] # "capturing", broken' \subseteq broken \cup Capturing,
             UNCHANGED pc \/ (\E stage : pc' = [pc EXCEPT ![c] = stage])
      PROVE  (broken \subseteq Capturing)'
  BY <1>1, <1>2 DEF Capturing
<1>3. ASSUME NEW c \in Context, CreateExecutionContext(c) \/ RunAsync(c) \/ DestroyContext(c)
      PROVE  (broken \subseteq Capturing)'
  BY <1>2, <1>3 DEF CreateExecutionContext, RunAsync, DestroyContext
<1>4. ASSUME NEW c \in Context, InitializeConstants(c) \/ UploadConstant(c) \/ FinishUpload(c)
      PROVE  (broken \subseteq Capturing)'
  BY <1>1, <1>2, <1>4 DEF InitializeConstants, UploadConstant, FinishUpload, AttemptAllocation
<1>5. ASSUME NEW c \in Context, PrepareTensors(c) \/ PrepareTuning(c)
      PROVE  (broken \subseteq Capturing)'
  BY <1>1, <1>2, <1>5 DEF PrepareTensors, PrepareTuning, AttemptAllocation
<1>6. ASSUME NEW c \in Context, FindBuiltin(c) \/ RegisterBuiltin(c) \/ InitializeModuleCache(c)
      PROVE  (broken \subseteq Capturing)'
  BY <1>1, <1>2, <1>6 DEF FindBuiltin, RegisterBuiltin, InitializeModuleCache
<1>7. ASSUME NEW c \in Context, CreateTuningStream(c) \/ Lock(c) \/ FindModule(c) \/ LoadModule(c)
      PROVE  (broken \subseteq Capturing)'
  BY <1>1, <1>2, <1>7 DEF CreateTuningStream, Lock, FindModule, LoadModule, LoadFails
<1>8. ASSUME NEW c \in Context, FindFunction(c) PROVE (broken \subseteq Capturing)'
  BY <1>1, <1>2, <1>8 DEF FindFunction, CreateKernel
<1>9. ASSUME NEW c \in Context, InitializeCuda(c) \/ BeginCapture(c) \/ Submit(c)
      PROVE  (broken \subseteq Capturing)'
  BY <1>1, <1>2, <1>9 DEF InitializeCuda, BeginCapture, Submit
<1>10. ASSUME NEW c \in Context, EndCapture(c) PROVE (broken \subseteq Capturing)'
  BY <1>1, <1>10 DEF EndCapture, Capturing
<1>11. CASE UserRegisters \/ Finished \/ (\E e \in Engine : DestroyEngine(e)) \/ UNCHANGED vars
  BY <1>1, <1>11 DEF UserRegisters, Finished, DestroyEngine, vars, Capturing
<1> QED
  BY <1>3, <1>4, <1>5, <1>6, <1>7, <1>8, <1>9, <1>10, <1>11 DEF Next, CallStep

(* Every step keeps the types.                                             *)
LEMMA TypeInvInductive ==
  ASSUME TypeInv, [Next]_vars
  PROVE  TypeInv'
BY SharedTypedInductive, CallsTypedInductive, AtInvInductive, CapturesTyped
   DEF TypeInv, TypeOK, SharedTyped, CallsTyped

(* Every variable keeps its type; in particular an EngineState is released *)
(* only once its Engine is gone, and a capture is marked broken only while *)
(* it is under way.                                                        *)
THEOREM TypeCorrect == Spec => []TypeOK
<1>1. TypeInv /\ [Next]_vars => TypeInv'
  BY TypeInvInductive
<1>2. TypeInv => TypeOK
  BY DEF TypeInv
<1> QED
  BY <1>1, <1>2, TypeInvInitially, PTL DEF Spec
-----------------------------------------------------------------------------
(* The module cache.                                                       *)

Locked == {"module", "load", "function"}
UsesCache == Fetching \cup {"tune"}

(* Who is between Lock and Unlock owns the mutex, and what it has found    *)
(* missing stays missing until it loads it.                                *)
LockInv ==
  \A c \in Context :
    /\ pc[c] \in Locked <=> owner[EngineOf[c]] = c
    /\ pc[c] = "load" => Sha256[Wanted(c)] \notin modules[EngineOf[c]]
    /\ pc[c] = "function" => Sha256[Wanted(c)] \in modules[EngineOf[c]]

(* A function belongs to a loaded module, Contexts only hold functions of  *)
(* their Engine's cache, and a cache in use is initialised and not         *)
(* released.                                                               *)
FunctionsInv ==
  /\ \A e \in Engine : \A a \in functions[e] : Sha256[a] \in modules[e]
  /\ \A c \in Context :
       /\ functionsOf[c] \subseteq functions[EngineOf[c]]
       /\ pc[c] \in {"absent", "gone"} => functionsOf[c] = {}
       /\ EngineOf[c] \in released => pc[c] \in {"absent", "gone"}
       /\ functionsOf[c] # {} \/ pc[c] \in UsesCache => cacheOnce[EngineOf[c]] = "ok"

CacheInv == TypeInv /\ LockInv /\ FunctionsInv /\ ModulesLoadedOnce

(* At first every cache is empty, unlocked and unused.                     *)
LEMMA CacheInvInitially == Init => CacheInv
<1>1. Init => LockInv
  BY EngineAssumption DEF Init, LockInv, Locked
<1>2. Init => FunctionsInv
  BY EngineAssumption DEF Init, FunctionsInv, UsesCache, Fetching
<1>3. Init => ModulesLoadedOnce
  BY DEF Init, ModulesLoadedOnce
<1> QED
  BY <1>1, <1>2, <1>3, TypeInvInitially DEF CacheInv

CacheSteady == UNCHANGED <<owner, modules, functions, loaded, released, functionsOf, cacheOnce>>

(* A step of a call that neither is at the cache nor comes to it.          *)
Elsewhere(c) ==
  /\ CacheSteady
  /\ pc[c] \notin UsesCache /\ (pc[c] = "absent" => EngineOf[c] \notin released)
  /\ \E stage : /\ stage \notin UsesCache \cup {"absent", "gone"}
                /\ pc' = [pc EXCEPT ![c] = stage]
  /\ \A d \in Context \ {c} : at'[d] = at[d]

(* Steps away from the cache keep what is known of it.                     *)
LEMMA ElsewhereKeepsCache ==
  ASSUME CacheInv, NEW c \in Context, pc[c] # "gone", Elsewhere(c)
  PROVE  (LockInv /\ FunctionsInv /\ ModulesLoadedOnce)'
<1>1. /\ \A d \in Context \ {c} : pc'[d] = pc[d] /\ at'[d] = at[d] /\ Wanted(d)' = Wanted(d)
      /\ pc'[c] \notin UsesCache \cup {"absent", "gone"} /\ pc[c] \notin UsesCache
      /\ EngineOf[c] \in released => pc[c] \in {"absent", "gone"}
      /\ pc[c] = "absent" => EngineOf[c] \notin released
  BY DEF Elsewhere, CacheInv, TypeInv, TypeOK, FunctionsInv, Wanted
<1>2. LockInv'
  BY <1>1 DEF Elsewhere, CacheSteady, CacheInv, LockInv, UsesCache, Fetching, Locked
<1>3. FunctionsInv'
  BY <1>1 DEF Elsewhere, CacheSteady, CacheInv, FunctionsInv
<1>4. ModulesLoadedOnce'
  BY DEF Elsewhere, CacheSteady, CacheInv, ModulesLoadedOnce
<1> QED
  BY <1>2, <1>3, <1>4

(* Most steps of a call are elsewhere.                                     *)
LEMMA StepsElsewhere ==
  ASSUME CacheInv, NEW c \in Context,
         \/ CreateExecutionContext(c) \/ RunAsync(c) \/ InitializeConstants(c)
         \/ UploadConstant(c) \/ FinishUpload(c) \/ PrepareTensors(c) \/ PrepareTuning(c)
         \/ FindBuiltin(c) \/ RegisterBuiltin(c)
         \/ InitializeCuda(c) \/ BeginCapture(c) \/ EndCapture(c) \/ Submit(c)
  PROVE  Elsewhere(c) /\ pc[c] # "gone"
<1> USE DEF Elsewhere, CacheSteady, UsesCache, Fetching, Goto, GotoItem, GotoAfter, Return,
            engineVars, cacheVars, callVars, contextVars
<1>0. DOMAIN at = Context
  BY DEF CacheInv, TypeInv, TypeOK
<1>1. CASE CreateExecutionContext(c)
  BY <1>1 DEF CreateExecutionContext, CacheInv, TypeInv, TypeOK
<1>2. CASE RunAsync(c)
  BY <1>2 DEF RunAsync
<1>3. CASE InitializeConstants(c)
  BY <1>0, <1>3 DEF InitializeConstants
<1>4. CASE UploadConstant(c) \/ FinishUpload(c)
  BY <1>4 DEF UploadConstant, FinishUpload
<1>5. CASE PrepareTensors(c) \/ PrepareTuning(c)
  BY <1>0, <1>5 DEF PrepareTensors, PrepareTuning
<1>6. CASE FindBuiltin(c) \/ RegisterBuiltin(c)
  BY <1>0, <1>6 DEF FindBuiltin, RegisterBuiltin
<1>7. CASE InitializeCuda(c)
  BY <1>0, <1>7 DEF InitializeCuda
<1>8. CASE BeginCapture(c) \/ EndCapture(c) \/ Submit(c)
  BY <1>0, <1>8 DEF BeginCapture, EndCapture, Submit
<1> QED
  BY <1>1, <1>2, <1>3, <1>4, <1>5, <1>6, <1>7, <1>8

(* What a step of c at the cache keeps of the other Contexts.              *)
OthersKept(c) ==
  \A d \in Context \ {c} :
    pc'[d] = pc[d] /\ Wanted(d)' = Wanted(d) /\ functionsOf'[d] = functionsOf[d]

(* The steps that come to the cache, take its mutex and look a module up.  *)
LEMMA ApproachKeepsCache ==
  ASSUME CacheInv, NEW c \in Context,
         InitializeModuleCache(c) \/ CreateTuningStream(c) \/ Lock(c) \/ FindModule(c)
  PROVE  (LockInv /\ FunctionsInv /\ ModulesLoadedOnce)'
<1> USE DEF UsesCache, Fetching, Locked, Goto, GotoAfter, Return,
            engineVars, cacheVars, callVars, contextVars
<1>1. /\ DOMAIN pc = Context /\ DOMAIN at = Context /\ DOMAIN owner = Engine
      /\ DOMAIN cacheOnce = Engine /\ \A d \in Context : EngineOf[d] \in Engine
      /\ LockInv /\ FunctionsInv /\ ModulesLoadedOnce /\ c # Nil
  BY EngineAssumption DEF CacheInv, TypeInv, TypeOK
<1>2. CASE InitializeModuleCache(c)
  <2>1. UNCHANGED <<owner, modules, functions, loaded, released, functionsOf>>
    BY <1>2 DEF InitializeModuleCache
  <2>2. /\ OthersKept(c) /\ pc[c] = "modules"
        /\ \A e \in Engine : cacheOnce[e] = "ok" => cacheOnce'[e] = "ok"
        /\ \/ pc'[c] \in {"modules", "idle"}
           \/ pc'[c] \in {"tune", "lock"} /\ cacheOnce'[EngineOf[c]] = "ok"
    BY <1>1, <1>2, <2>1 DEF InitializeModuleCache, CacheUnset, OthersKept, Wanted
  <2> QED
    BY <1>1, <2>1, <2>2 DEF LockInv, FunctionsInv, ModulesLoadedOnce, OthersKept
<1>3. CASE CreateTuningStream(c)
  <2>1. UNCHANGED <<owner, modules, functions, loaded, released, functionsOf, cacheOnce>>
    BY <1>3 DEF CreateTuningStream
  <2>2. OthersKept(c) /\ pc[c] = "tune" /\ pc'[c] \in {"lock", "idle"}
    BY <1>1, <1>3, <2>1 DEF CreateTuningStream, OthersKept, Wanted
  <2> QED
    BY <1>1, <2>1, <2>2 DEF LockInv, FunctionsInv, ModulesLoadedOnce, OthersKept
<1>4. CASE Lock(c)
  <2>1. UNCHANGED <<modules, functions, loaded, released, functionsOf, cacheOnce>>
    BY <1>4 DEF Lock
  <2>2. /\ OthersKept(c) /\ pc[c] = "lock" /\ owner[EngineOf[c]] = Nil
        /\ \/ pc'[c] = "idle" /\ UNCHANGED owner
           \/ pc'[c] = "module" /\ owner' = [owner EXCEPT ![EngineOf[c]] = c]
    BY <1>1, <1>4, <2>1 DEF Lock, MutexFree, OthersKept, Wanted
  <2>3. Nil \notin Context
    BY EngineAssumption
  <2> QED
    BY <1>1, <2>1, <2>2, <2>3 DEF LockInv, FunctionsInv, ModulesLoadedOnce, OthersKept
<1>5. CASE FindModule(c)
  <2>1. UNCHANGED <<owner, modules, functions, loaded, released, functionsOf, cacheOnce, at>>
    BY <1>5 DEF FindModule
  <2>2. /\ OthersKept(c) /\ pc[c] = "module" /\ Wanted(c)' = Wanted(c)
        /\ pc'[c] = IF Sha256[Wanted(c)] \in modules[EngineOf[c]] THEN "function" ELSE "load"
    BY <1>1, <1>5, <2>1 DEF FindModule, OthersKept, Wanted
  <2> QED
    BY <1>1, <2>1, <2>2 DEF LockInv, FunctionsInv, ModulesLoadedOnce, OthersKept
<1> QED
  BY <1>2, <1>3, <1>4, <1>5

(* Only the owner of the mutex loads a module, and only one it missed.     *)
LEMMA LoadModuleKeepsCache ==
  ASSUME CacheInv, NEW c \in Context, LoadModule(c)
  PROVE  (LockInv /\ FunctionsInv /\ ModulesLoadedOnce)'
<1> USE DEF UsesCache, Fetching, Locked, Goto, Return,
            engineVars, cacheVars, callVars, contextVars
<1> DEFINE e == EngineOf[c]  s == Sha256[Wanted(c)]
<1>1. /\ DOMAIN pc = Context /\ DOMAIN at = Context /\ DOMAIN owner = Engine
      /\ DOMAIN modules = Engine /\ loaded \in [Engine -> [Sha -> Nat]]
      /\ \A d \in Context : EngineOf[d] \in Engine
      /\ LockInv /\ FunctionsInv /\ ModulesLoadedOnce /\ Nil \notin Context
  BY EngineAssumption DEF CacheInv, TypeInv, TypeOK
<1>2. /\ pc[c] = "load" /\ UNCHANGED <<functions, released, functionsOf, cacheOnce>>
      /\ OthersKept(c)
      /\ \/ /\ pc'[c] = "function" /\ UNCHANGED <<owner, at>>
            /\ modules' = [modules EXCEPT ![e] = @ \cup {s}]
            /\ loaded' = [loaded EXCEPT ![e][s] = @ + 1]
         \/ /\ pc'[c] = "idle" /\ UNCHANGED <<modules, loaded>>
            /\ owner' = [owner EXCEPT ![e] = Nil]
  BY <1>1 DEF LoadModule, LoadFails, Unlock, OthersKept, Wanted
<1>3. s \in Sha /\ s \notin modules[e] /\ owner[e] = c
  BY <1>1, <1>2, WantedIsArtifact DEF CacheInv, LockInv
<1>4. \A d \in Context \ {c} : EngineOf[d] = e => pc[d] \notin Locked
  BY <1>1, <1>3 DEF LockInv
<1>5. LockInv'
  <2>1. ASSUME NEW d \in Context \ {c}
        PROVE  /\ pc'[d] \in Locked <=> owner'[EngineOf[d]] = d
               /\ pc'[d] = "load" => Sha256[Wanted(d)'] \notin modules'[EngineOf[d]]
               /\ pc'[d] = "function" => Sha256[Wanted(d)'] \in modules'[EngineOf[d]]
    BY <1>1, <1>2, <1>3, <1>4, <2>1 DEF LockInv, OthersKept
  <2>2. /\ pc'[c] \in Locked <=> owner'[e] = c
        /\ pc'[c] # "load"
        /\ pc'[c] = "function" => s \in modules'[e] /\ Wanted(c)' = Wanted(c)
    BY <1>1, <1>2, <1>3 DEF Wanted
  <2> QED
    BY <2>1, <2>2 DEF LockInv
<1>6. FunctionsInv'
  BY <1>1, <1>2 DEF FunctionsInv, OthersKept
<1>7. ModulesLoadedOnce'
  <2>1. CASE UNCHANGED <<modules, loaded>>
    BY <1>1, <2>1 DEF ModulesLoadedOnce
  <2>2. CASE /\ modules' = [modules EXCEPT ![e] = @ \cup {s}]
             /\ loaded' = [loaded EXCEPT ![e][s] = @ + 1]
    <3>1. loaded'[e][s] = 1 /\ s \in modules'[e]
      BY <1>1, <1>3, <2>2 DEF ModulesLoadedOnce
    <3>2. ASSUME NEW f \in Engine, NEW r \in Sha, f # e \/ r # s
          PROVE  loaded'[f][r] = loaded[f][r] /\ (r \in modules'[f] <=> r \in modules[f])
      BY <1>1, <2>2, <3>2
    <3> QED
      BY <1>1, <3>1, <3>2 DEF ModulesLoadedOnce
  <2> QED
    BY <1>2, <2>1, <2>2
<1> QED
  BY <1>5, <1>6, <1>7

(* A function is taken from a module that is loaded, under the mutex.      *)
LEMMA FindFunctionKeepsCache ==
  ASSUME CacheInv, NEW c \in Context, FindFunction(c)
  PROVE  (LockInv /\ FunctionsInv /\ ModulesLoadedOnce)'
<1> USE DEF UsesCache, Fetching, Locked, GotoItem, Return, cacheVars, callVars, contextVars
<1> DEFINE e == EngineOf[c]  a == Wanted(c)
<1>1. /\ DOMAIN pc = Context /\ DOMAIN at = Context /\ DOMAIN owner = Engine
      /\ DOMAIN functions = Engine /\ DOMAIN functionsOf = Context
      /\ \A d \in Context : EngineOf[d] \in Engine
      /\ LockInv /\ FunctionsInv /\ ModulesLoadedOnce /\ Nil \notin Context
  BY EngineAssumption DEF CacheInv, TypeInv, TypeOK
<1>2. /\ pc[c] = "function" /\ UNCHANGED <<modules, loaded, released, cacheOnce>>
      /\ owner' = [owner EXCEPT ![e] = Nil]
      /\ pc'[c] \in {"lock", "register", "cuda", "idle"}
      /\ \A d \in Context \ {c} : pc'[d] = pc[d] /\ at'[d] = at[d]
      /\ \/ /\ functions' = [functions EXCEPT ![e] = @ \cup {a}]
            /\ \/ UNCHANGED functionsOf
               \/ functionsOf' = [functionsOf EXCEPT ![c] = @ \cup {a}]
         \/ UNCHANGED <<functions, functionsOf>>
  <2>1. CASE CreateKernel(c)
    <3>1. /\ pc'[c] \in {"lock", "register", "cuda"}
          /\ \A d \in Context \ {c} : pc'[d] = pc[d] /\ at'[d] = at[d]
      BY <1>1, <2>1 DEF CreateKernel
    <3>2. UNCHANGED functionsOf \/ functionsOf' = [functionsOf EXCEPT ![c] = @ \cup {a}]
      BY <2>1 DEF CreateKernel
    <3> QED
      BY <3>1, <3>2 DEF FindFunction, Unlock, engineVars
  <2>2. CASE Return(c) /\ UNCHANGED <<functions, functionsOf>>
    BY <1>1, <2>2 DEF FindFunction, Unlock, engineVars
  <2> QED
    BY <2>1, <2>2 DEF FindFunction
<1>3. /\ OthersKept(c)
      /\ \A d \in Context \ {c} : EngineOf[d] = e => pc[d] \notin Locked
  BY <1>1, <1>2 DEF OthersKept, Wanted, LockInv
<1>4. Sha256[a] \in modules[e] /\ cacheOnce[e] = "ok" /\ e \notin released
  BY <1>1, <1>2 DEF LockInv, FunctionsInv
<1>5. LockInv'
  BY <1>1, <1>2, <1>3 DEF LockInv, OthersKept
<1>6. FunctionsInv'
  <2>1. \A f \in Engine : functions[f] \subseteq functions'[f]
    BY <1>1, <1>2
  <2>2. \A f \in Engine : \A b \in functions'[f] : Sha256[b] \in modules'[f]
    BY <1>1, <1>2, <1>4 DEF FunctionsInv
  <2>3. functionsOf'[c] \subseteq functions'[e]
    BY <1>1, <1>2 DEF FunctionsInv
  <2> QED
    BY <1>1, <1>2, <1>3, <1>4, <2>1, <2>2, <2>3 DEF FunctionsInv, OthersKept
<1>7. ModulesLoadedOnce'
  BY <1>1, <1>2 DEF ModulesLoadedOnce
<1> QED
  BY <1>5, <1>6, <1>7

CacheReleased(e) ==
  /\ modules' = [modules EXCEPT ![e] = {}] /\ functions' = [functions EXCEPT ![e] = {}]
  /\ loaded' = [loaded EXCEPT ![e] = [s \in Sha |-> 0]]
  /\ released' = released \cup {e}

(* A destruction empties the whole cache of an Engine or leaves it alone.  *)
LEMMA ReleaseIsWholeOrNone ==
  ASSUME NEW e, NEW last, NEW buffers, NEW others, ReleaseResources(e, last, buffers, others)
  PROVE  IF last THEN CacheReleased(e) ELSE UNCHANGED <<modules, functions, loaded, released>>
BY DEF ReleaseResources, CacheReleased

(* What a destruction that may take the cache of e with it does.           *)
Destroys(e) ==
  /\ UNCHANGED <<owner, cacheOnce, at>>
  /\ \A c \in Context : \/ pc'[c] = pc[c] /\ functionsOf'[c] = functionsOf[c]
                        \/ pc[c] = "idle" /\ pc'[c] = "gone" /\ functionsOf'[c] = {}
  /\ \/ UNCHANGED <<modules, functions, loaded, released>>
     \/ /\ CacheReleased(e)
        /\ \A c \in Context : EngineOf[c] = e => pc'[c] \in {"absent", "gone"}

(* The cache of an Engine is emptied when nobody can be using it.          *)
LEMMA DestroyKeepsCache ==
  ASSUME CacheInv, NEW e \in Engine, Destroys(e)
  PROVE  (LockInv /\ FunctionsInv /\ ModulesLoadedOnce)'
<1> USE DEF UsesCache, Fetching, Locked, Destroys
<1>1. /\ DOMAIN modules = Engine /\ DOMAIN functions = Engine /\ DOMAIN loaded = Engine
      /\ \A d \in Context : EngineOf[d] \in Engine
      /\ LockInv /\ FunctionsInv /\ ModulesLoadedOnce
  BY EngineAssumption DEF CacheInv, TypeInv, TypeOK
<1>2. \A c \in Context : Wanted(c)' = Wanted(c)
  BY DEF Wanted
<1>3. CASE UNCHANGED <<modules, functions, loaded, released>>
  BY <1>1, <1>2, <1>3 DEF LockInv, FunctionsInv, ModulesLoadedOnce
<1>4. CASE /\ CacheReleased(e)
           /\ \A c \in Context : EngineOf[c] = e => pc'[c] \in {"absent", "gone"}
  <2>1. LockInv'
    BY <1>1, <1>2, <1>4 DEF CacheReleased, LockInv
  <2>2. FunctionsInv'
    BY <1>1, <1>4 DEF CacheReleased, FunctionsInv
  <2>3. ModulesLoadedOnce'
    BY <1>1, <1>4 DEF CacheReleased, ModulesLoadedOnce
  <2> QED
    BY <2>1, <2>2, <2>3
<1> QED
  BY <1>3, <1>4

(* Every step keeps the invariant of the module caches.                    *)
LEMMA CacheInvInductive ==
  ASSUME CacheInv, [Next]_vars
  PROVE  CacheInv'
<1> SUFFICES (LockInv /\ FunctionsInv /\ ModulesLoadedOnce)'
  BY TypeInvInductive DEF CacheInv
<1> USE DEF Goto, engineVars, cacheVars, callVars, contextVars
<1>1. DOMAIN pc = Context /\ DOMAIN functionsOf = Context /\ (\A c \in Context : EngineOf[c] \in Engine)
  BY EngineAssumption DEF CacheInv, TypeInv, TypeOK
<1>2. CASE UserRegisters \/ Finished \/ UNCHANGED vars
  <2>1. UNCHANGED <<owner, modules, functions, loaded, released, functionsOf, cacheOnce, pc, at>>
    BY <1>2 DEF UserRegisters, Finished, vars
  <2> QED
    BY <2>1 DEF CacheInv, LockInv, FunctionsInv, ModulesLoadedOnce, Wanted
<1>3. ASSUME NEW c \in Context, DestroyContext(c) PROVE (LockInv /\ FunctionsInv /\ ModulesLoadedOnce)'
  <2> DEFINE e == EngineOf[c]  last == StateReleased(e, e \notin engines, Existing(e) \ {c})
  <2>1. /\ IF last THEN CacheReleased(e) ELSE UNCHANGED <<modules, functions, loaded, released>>
        /\ UNCHANGED <<owner, cacheOnce, at>>
        /\ pc[c] = "idle" /\ pc' = [pc EXCEPT ![c] = "gone"]
        /\ functionsOf' = [functionsOf EXCEPT ![c] = {}]
    BY <1>3, ReleaseIsWholeOrNone DEF DestroyContext
  <2>2. last => \A d \in Context : EngineOf[d] = e => pc'[d] \in {"absent", "gone"}
    BY <1>1, <2>1 DEF StateReleased, Existing
  <2>3. \A d \in Context : \/ pc'[d] = pc[d] /\ functionsOf'[d] = functionsOf[d]
                           \/ pc[d] = "idle" /\ pc'[d] = "gone" /\ functionsOf'[d] = {}
    BY <1>1, <2>1
  <2>4. \/ UNCHANGED <<modules, functions, loaded, released>>
        \/ /\ CacheReleased(e)
           /\ \A d \in Context : EngineOf[d] = e => pc'[d] \in {"absent", "gone"}
    BY <2>1, <2>2
  <2>5. Destroys(e)
    <3>1. UNCHANGED <<owner, cacheOnce, at>>
      BY <1>3 DEF DestroyContext
    <3> QED
      BY <2>3, <2>4, <3>1 DEF Destroys
  <2> QED
    BY <1>1, <2>5, DestroyKeepsCache
<1>4. ASSUME NEW e \in Engine, DestroyEngine(e) PROVE (LockInv /\ FunctionsInv /\ ModulesLoadedOnce)'
  <2> DEFINE last == StateReleased(e, TRUE, Existing(e))
  <2>1. /\ IF last THEN CacheReleased(e) ELSE UNCHANGED <<modules, functions, loaded, released>>
        /\ UNCHANGED <<owner, cacheOnce, at, pc, functionsOf>>
    <3>1. ReleaseResources(e, last, 0, 0) /\ UNCHANGED <<owner, cacheOnce, at, pc, functionsOf>>
      BY <1>4 DEF DestroyEngine
    <3> HIDE DEF last
    <3> QED
      BY <3>1, ReleaseIsWholeOrNone
  <2>2. last => \A d \in Context : EngineOf[d] = e => pc'[d] \in {"absent", "gone"}
    BY <2>1 DEF StateReleased, Existing
  <2>3. \A d \in Context : pc'[d] = pc[d] /\ functionsOf'[d] = functionsOf[d]
    BY <2>1
  <2>4. \/ UNCHANGED <<modules, functions, loaded, released>>
        \/ /\ CacheReleased(e)
           /\ \A d \in Context : EngineOf[d] = e => pc'[d] \in {"absent", "gone"}
    BY <2>1, <2>2
  <2>5. Destroys(e)
    <3>1. UNCHANGED <<owner, cacheOnce, at>>
      BY <1>4 DEF DestroyEngine
    <3> QED
      BY <2>3, <2>4, <3>1 DEF Destroys
  <2> QED
    BY <2>5, DestroyKeepsCache
<1> QED
  BY <1>2, <1>3, <1>4, StepsElsewhere, ElsewhereKeepsCache, ApproachKeepsCache,
     LoadModuleKeepsCache, FindFunctionKeepsCache DEF Next, CallStep

(* Contexts of an Engine share one module per PTX: under the cache's mutex *)
(* none is loaded twice and none that is loaded is lost, for any number of *)
(* threads and whatever fails.                                             *)
THEOREM ModulesAreLoadedOnce == Spec => []ModulesLoadedOnce
<1>1. CacheInv /\ [Next]_vars => CacheInv'
  BY CacheInvInductive
<1>2. CacheInv => ModulesLoadedOnce
  BY DEF CacheInv
<1> QED
  BY <1>1, <1>2, CacheInvInitially, PTL DEF Spec

(* What a Context launches stays loaded as long as the Context lives, also *)
(* when its Engine is destroyed first.                                     *)
THEOREM LaunchedFunctionsStayLoaded == Spec => []FunctionsStayLoaded
<1>1. CacheInv /\ [Next]_vars => CacheInv'
  BY CacheInvInductive
<1>2. CacheInv => FunctionsStayLoaded
  BY EngineAssumption DEF CacheInv, FunctionsInv, FunctionsStayLoaded
<1> QED
  BY <1>1, <1>2, CacheInvInitially, PTL DEF Spec
-----------------------------------------------------------------------------
(* Only registering touches the backends, and only a name nobody has.      *)
LEMMA BackendsStep ==
  ASSUME [Next]_vars
  PROVE  \/ UNCHANGED backends
         \/ \E name, who : RegisterBackend(name, who)
<1> USE DEF cacheVars, callVars, contextVars, engineVars
<1>1. ASSUME NEW c \in Context, RegisterBuiltin(c) PROVE \E name, who : RegisterBackend(name, who)
  BY <1>1 DEF RegisterBuiltin
<1>2. CASE UserRegisters
  BY <1>2 DEF UserRegisters
<1>3. ASSUME NEW c \in Context,
             \/ CreateExecutionContext(c) \/ RunAsync(c) \/ DestroyContext(c)
             \/ InitializeConstants(c) \/ UploadConstant(c) \/ FinishUpload(c)
             \/ PrepareTensors(c) \/ PrepareTuning(c) \/ FindBuiltin(c)
      PROVE  UNCHANGED backends
  BY <1>3 DEF CreateExecutionContext, RunAsync, DestroyContext, InitializeConstants,
     UploadConstant, FinishUpload, PrepareTensors, PrepareTuning, FindBuiltin
<1>4. ASSUME NEW c \in Context,
             \/ InitializeModuleCache(c) \/ CreateTuningStream(c) \/ Lock(c) \/ FindModule(c)
             \/ LoadModule(c) \/ FindFunction(c)
             \/ InitializeCuda(c) \/ BeginCapture(c) \/ EndCapture(c) \/ Submit(c)
      PROVE  UNCHANGED backends
  BY <1>4 DEF InitializeModuleCache, CreateTuningStream, Lock, FindModule, LoadModule,
     FindFunction, InitializeCuda, BeginCapture, EndCapture, Submit
<1>5. CASE (\E e \in Engine : DestroyEngine(e)) \/ Finished \/ UNCHANGED vars
  BY <1>5 DEF DestroyEngine, Finished, vars
<1> QED
  BY <1>1, <1>2, <1>3, <1>4, <1>5 DEF Next, CallStep

(* A registered backend is never replaced, though a name is looked up and  *)
(* registered in two steps.                                                *)
THEOREM BackendsStayStable == Spec => BackendsStable
<1>1. [Next]_vars => [\A n \in DOMAIN backends : backends[n] # Nil => backends'[n] = backends[n]]_vars
  <2> SUFFICES ASSUME [Next]_vars, NEW n \in DOMAIN backends, backends[n] # Nil
               PROVE  backends'[n] = backends[n]
    OBVIOUS
  <2>1. ASSUME NEW name, NEW who, RegisterBackend(name, who) PROVE backends'[n] = backends[n]
    BY <2>1 DEF RegisterBackend
  <2> QED
    BY <2>1, BackendsStep
<1> QED
  BY <1>1, PTL DEF Spec, BackendsStable
-----------------------------------------------------------------------------
(* The references to the primary context.                                  *)

(* A deleter leaves at most one reference more and takes at most one away, *)
(* just one away when the primary context can be retained and made current.*)
LEMMA ReleaseOutcomes ==
  ASSUME NEW drivers, NEW o \in Release(drivers)
  PROVE  /\ o.retained \in {-1, 0, 1}
         /\ drivers \cap {"retain", "current"} = {} => o.retained = -1
BY DEF Release, SetCudaDevice, Succeeded, Failed, Outcome, Plus

(* n deleters take at most n references away, just n when none can fail.   *)
LEMMA ReleaseAllOutcomes ==
  ASSUME NEW drivers, NEW n \in Nat, NEW freed \in ReleaseAll(drivers, n)
  PROVE  /\ freed \in Int /\ freed >= -n
         /\ drivers \cap {"retain", "current"} = {} => freed = -n
<1> DEFINE A == SUBSET Int
           After(s) == {a + o.retained : a \in s, o \in Release(drivers)}
           G == [p \in (1..n) \X A |-> After(p[2])]
<1>1. \A s \in A : After(s) \in A
  <2> SUFFICES ASSUME NEW s \in A, NEW a \in s, NEW o \in Release(drivers)
               PROVE  a + o.retained \in Int
    OBVIOUS
  <2>1. a \in Int /\ o.retained \in Int
    BY ReleaseOutcomes
  <2> QED
    BY <2>1
<1>2. \E f \in [0..n -> A] :
        f = [i \in 0..n |-> IF i = 0 THEN {0} ELSE After(f[i - 1])]
  <2>1. {0} \in A
    OBVIOUS
  <2> HIDE DEF A, After
  <2>2. G \in [(1..n) \X A -> A]
    BY <1>1
  <2>3. PICK f \in [0..n -> A] : Iterates(f, {0}, n, G)
    <3> HIDE DEF G
    <3> QED
      BY <2>1, <2>2, RecursiveDefinition
  <2>4. ASSUME NEW i \in 0..n, i # 0 PROVE G[<<i, f[i - 1]>>] = After(f[i - 1])
    <3>1. i \in 1..n /\ f[i - 1] \in A
      <4>1. i \in 1..n /\ i - 1 \in 0..n
        BY <2>4
      <4> QED
        BY <4>1
    <3> QED
      BY <3>1
  <2>5. ASSUME NEW i \in 0..n PROVE f[i] = IF i = 0 THEN {0} ELSE After(f[i - 1])
    <3>1. CASE i = 0
      BY <2>3, <3>1 DEF Iterates
    <3>2. CASE i # 0
      <4> HIDE DEF G
      <4>1. i \in 1..n
        BY <3>2
      <4> QED
        BY <2>3, <2>4, <3>2, <4>1 DEF Iterates
    <3> QED
      BY <3>1, <3>2
  <2>6. f = [i \in 0..n |-> f[i]]
    OBVIOUS
  <2> QED
    BY <2>5, <2>6
<1> DEFINE Recursive(g) == g = [i \in 0..n |-> IF i = 0 THEN {0} ELSE After(g[i - 1])]
           Sum == CHOOSE g : Recursive(g)
<1>3. Recursive(Sum)
  <2> HIDE DEF Recursive
  <2>1. \E g : Recursive(g)
    BY <1>2 DEF Recursive
  <2> QED
    BY <2>1
<1>4. freed \in Sum[n]
  BY DEF ReleaseAll
<1> HIDE DEF Sum
<1>5. /\ freed \in Sum[n] /\ Sum[0] = {0}
      /\ \A i \in 1..n : Sum[i] = After(Sum[i - 1])
  <2>1. ASSUME NEW i \in 0..n PROVE Sum[i] = IF i = 0 THEN {0} ELSE After(Sum[i - 1])
    <3> HIDE DEF After
    <3> QED
      BY <1>3
  <2> HIDE DEF After
  <2> QED
    BY <1>4, <2>1
<1> DEFINE Good(i) ==
             \A a \in Sum[i] :
               /\ a \in Int /\ a >= -i
               /\ drivers \cap {"retain", "current"} = {} => a = -i
           S == {i \in Nat : i <= n => Good(i)}
<1> HIDE DEF Sum
<1>6. 0 \in S
  BY <1>5
<1>7. ASSUME NEW i \in Nat, i \in S PROVE i + 1 \in S
  <2> SUFFICES ASSUME i + 1 <= n, NEW b \in Sum[i + 1]
               PROVE  /\ b \in Int /\ b >= -(i + 1)
                      /\ drivers \cap {"retain", "current"} = {} => b = -(i + 1)
    OBVIOUS
  <2>1. PICK a \in Sum[i], o \in Release(drivers) : b = a + o.retained
    <3>1. i + 1 \in 1..n /\ (i + 1) - 1 = i
      OBVIOUS
    <3> QED
      BY <1>5, <3>1
  <2>2. /\ a \in Int /\ a >= -i
        /\ drivers \cap {"retain", "current"} = {} => a = -i
    <3>1. i <= n
      OBVIOUS
    <3>2. Good(i)
      BY <1>7, <3>1
    <3> QED
      BY <3>2
  <2>3. /\ o.retained \in {-1, 0, 1}
        /\ drivers \cap {"retain", "current"} = {} => o.retained = -1
    BY ReleaseOutcomes
  <2> QED
    BY <2>1, <2>2, <2>3
<1>8. n \in S
  <2> HIDE DEF S
  <2> QED
    BY <1>6, <1>7, SetInduction
<1>9. Good(n)
  BY <1>8
<1> QED
  BY <1>5, <1>9

(* The holders of each kind.                                               *)
HolderKinds ==
  /\ \A e \in Engine, w \in ConstantTensor : <<"constant", e, w>> \in Holders <=> w \in uploaded[e]
  /\ \A e \in Engine : <<"cache", e>> \in Holders <=> e \notin released /\ cacheOnce[e] = "ok"
  /\ \A k \in {"workspace", "cuda"}, c \in Context : <<k, c>> \in Holders <=> k \in has[c]

(* There is one holder per uploaded constant, initialised and unreleased   *)
(* cache, workspace and CUDA state.                                        *)
LEMMA HoldersAreOfKinds == HolderKinds
<1> DEFINE Constants == {h \in {"constant"} \X Engine \X ConstantTensor : h[3] \in uploaded[h[2]]}
           Caches == {h \in {"cache"} \X (Engine \ released) : cacheOnce[h[2]] = "ok"}
           Parts == {h \in {"workspace", "cuda"} \X Context : h[1] \in has[h[2]]}
<1>1. \A e \in Engine, w \in ConstantTensor : <<"constant", e, w>> \in Constants <=> w \in uploaded[e]
  OBVIOUS
<1>2. \A e \in Engine, w \in ConstantTensor : <<"constant", e, w>> \notin Caches \cup Parts
  OBVIOUS
<1>3. \A e \in Engine : <<"cache", e>> \in Caches <=> e \notin released /\ cacheOnce[e] = "ok"
  OBVIOUS
<1>4. \A e \in Engine : <<"cache", e>> \notin Constants \cup Parts
  OBVIOUS
<1>5. \A k \in {"workspace", "cuda"}, c \in Context : <<k, c>> \in Parts <=> k \in has[c]
  OBVIOUS
<1>6. \A k \in {"workspace", "cuda"}, c \in Context : <<k, c>> \notin Constants \cup Caches
  OBVIOUS
<1>7. Holders = Constants \cup Caches \cup Parts
  BY DEF Holders
<1> HIDE DEF Constants, Caches, Parts
<1> QED
  BY <1>1, <1>2, <1>3, <1>4, <1>5, <1>6, <1>7 DEF HolderKinds

(* A holder is of one of the kinds.                                        *)
HolderForms ==
  \A h \in Holders :
    \/ \E e \in Engine, w \in ConstantTensor : h = <<"constant", e, w>>
    \/ \E e \in Engine : h = <<"cache", e>>
    \/ \E k \in {"workspace", "cuda"}, c \in Context : h = <<k, c>>

(* Nothing else is a holder.                                               *)
LEMMA HoldersHaveForms == HolderForms
<1>1. ASSUME NEW g \in {"constant"} \X Engine \X ConstantTensor
      PROVE  \E e \in Engine, w \in ConstantTensor : g = <<"constant", e, w>>
  OBVIOUS
<1>2. ASSUME NEW g \in {"cache"} \X Engine PROVE \E e \in Engine : g = <<"cache", e>>
  OBVIOUS
<1>3. ASSUME NEW g \in {"workspace", "cuda"} \X Context
      PROVE  \E k \in {"workspace", "cuda"}, c \in Context : g = <<k, c>>
  OBVIOUS
<1>4. \A h \in Holders : \/ h \in {"constant"} \X Engine \X ConstantTensor
                         \/ h \in {"cache"} \X Engine
                         \/ h \in {"workspace", "cuda"} \X Context
  BY DEF Holders
<1> QED
  BY <1>1, <1>2, <1>3, <1>4 DEF HolderForms

(* There are finitely many holders.                                        *)
LEMMA HoldersFinite == IsFiniteSet(Holders)
<1>1. IsFiniteSet({"constant"} \X Engine \X ConstantTensor)
  <2> DEFINE P == {"constant"} \X Engine
             f == [p \in P \X ConstantTensor |-> <<p[1][1], p[1][2], p[2]>>]
  <2>1. IsFiniteSet(P \X ConstantTensor)
    BY FS_Product, FS_Singleton, FiniteAssumption
  <2> DEFINE T == {"constant"} \X Engine \X ConstantTensor
  <2>2. f \in Surjection(P \X ConstantTensor, T)
    <3>1. ASSUME NEW p \in P \X ConstantTensor PROVE f[p] \in T
      OBVIOUS
    <3>2. ASSUME NEW t \in T PROVE \E p \in P \X ConstantTensor : f[p] = t
      <4>1. PICK e \in Engine, w \in ConstantTensor : t = <<"constant", e, w>>
        OBVIOUS
      <4>2. <<<<"constant", e>>, w>> \in P \X ConstantTensor
        OBVIOUS
      <4>3. f[<<<<"constant", e>>, w>>] = t
        BY <4>1, <4>2
      <4> QED
        BY <4>2, <4>3
    <3>3. f \in [P \X ConstantTensor -> T]
      BY <3>1
    <3> HIDE DEF f, P, T
    <3> QED
      BY <3>2, <3>3 DEF Surjection
  <2> QED
    BY <2>1, <2>2, FS_Surjection
<1>2. IsFiniteSet({"cache"} \X Engine)
  BY FS_Product, FS_Singleton, FiniteAssumption
<1>3. IsFiniteSet({"workspace", "cuda"} \X Context)
  <2>1. IsFiniteSet({"workspace", "cuda"})
    <3>1. IsFiniteSet({"workspace"} \cup {"cuda"})
      BY FS_Singleton, FS_AddElement
    <3>2. {"workspace", "cuda"} = {"workspace"} \cup {"cuda"}
      OBVIOUS
    <3> QED
      BY <3>1, <3>2
  <2> QED
    BY <2>1, FS_Product, FiniteAssumption
<1> DEFINE All == ({"constant"} \X Engine \X ConstantTensor) \cup ({"cache"} \X Engine)
                    \cup ({"workspace", "cuda"} \X Context)
<1>4. IsFiniteSet(All)
  BY <1>1, <1>2, <1>3, FS_Union
<1>5. Holders \in SUBSET All
  BY DEF Holders
<1> QED
  BY <1>4, <1>5, FS_Subset

(* After a step the holders are S, as far as their kinds tell.             *)
HoldersBecome(S) ==
  /\ \A e \in Engine, w \in ConstantTensor : <<"constant", e, w>> \in Holders' <=> <<"constant", e, w>> \in S
  /\ \A e \in Engine : <<"cache", e>> \in Holders' <=> <<"cache", e>> \in S
  /\ \A k \in {"workspace", "cuda"}, c \in Context : <<k, c>> \in Holders' <=> <<k, c>> \in S

(* Which holders a step leaves can be said kind by kind.                   *)
LEMMA HoldersNext ==
  ASSUME NEW S, S \subseteq Holders \cup Holders', HoldersBecome(S)
  PROVE  Holders' = S
<1>1. HolderForms /\ HolderForms'
  BY HoldersHaveForms, PTL
<1>2. ASSUME NEW h \in Holders' PROVE h \in S
  BY <1>1, <1>2 DEF HolderForms, HoldersBecome
<1>3. ASSUME NEW h \in S PROVE h \in Holders'
  BY <1>1, <1>3 DEF HolderForms, HoldersBecome
<1> QED
  BY <1>2, <1>3

(* Uploading a constant makes one holder more.                             *)
LEMMA UploadAddsHolder ==
  ASSUME TypeOK, NEW e \in Engine, NEW w \in ConstantTensor \ uploaded[e],
         uploaded' = [uploaded EXCEPT ![e] = @ \cup {w}], UNCHANGED <<released, cacheOnce, has>>
  PROVE  Cardinality(Holders)' = Cardinality(Holders) + 1
<1> DEFINE x == <<"constant", e, w>>
<1>1. HolderKinds /\ HolderKinds'
  BY HoldersAreOfKinds, PTL
<1>2. x \notin Holders /\ x \in Holders'
  BY <1>1 DEF HolderKinds, TypeOK
<1>3. \A d \in Engine, v \in ConstantTensor :
        <<"constant", d, v>> \in Holders' <=> <<"constant", d, v>> \in Holders \cup {x}
  BY <1>1 DEF HolderKinds, TypeOK
<1>4. \A d \in Engine : <<"cache", d>> \in Holders' <=> <<"cache", d>> \in Holders \cup {x}
  BY <1>1 DEF HolderKinds
<1>5. \A k \in {"workspace", "cuda"}, c \in Context :
        <<k, c>> \in Holders' <=> <<k, c>> \in Holders \cup {x}
  BY <1>1 DEF HolderKinds
<1>6. HoldersBecome(Holders \cup {x})
  BY <1>3, <1>4, <1>5 DEF HoldersBecome
<1>7. Holders' = Holders \cup {x}
  <2> DEFINE S == Holders \cup {x}
  <2>1. S \subseteq Holders \cup Holders'
    BY <1>2
  <2> HIDE DEF S
  <2> QED
    BY <1>6, <2>1, HoldersNext DEF S
<1> QED
  BY <1>2, <1>7, HoldersFinite, FS_AddElement

(* So does initialising a module cache ...                                 *)
LEMMA CacheAddsHolder ==
  ASSUME TypeOK, NEW e \in Engine \ released, cacheOnce[e] # "ok",
         cacheOnce' = [cacheOnce EXCEPT ![e] = "ok"], UNCHANGED <<released, uploaded, has>>
  PROVE  Cardinality(Holders)' = Cardinality(Holders) + 1
<1> DEFINE x == <<"cache", e>>
<1>1. HolderKinds /\ HolderKinds'
  BY HoldersAreOfKinds, PTL
<1>2. x \notin Holders /\ x \in Holders'
  BY <1>1 DEF HolderKinds, TypeOK
<1>3. \A d \in Engine, v \in ConstantTensor :
        <<"constant", d, v>> \in Holders' <=> <<"constant", d, v>> \in Holders \cup {x}
  BY <1>1 DEF HolderKinds, TypeOK
<1>4. \A d \in Engine : <<"cache", d>> \in Holders' <=> <<"cache", d>> \in Holders \cup {x}
  BY <1>1 DEF HolderKinds, TypeOK
<1>5. \A k \in {"workspace", "cuda"}, c \in Context :
        <<k, c>> \in Holders' <=> <<k, c>> \in Holders \cup {x}
  BY <1>1 DEF HolderKinds
<1>6. HoldersBecome(Holders \cup {x})
  BY <1>3, <1>4, <1>5 DEF HoldersBecome
<1>7. Holders' = Holders \cup {x}
  <2> DEFINE S == Holders \cup {x}
  <2>1. S \subseteq Holders \cup Holders'
    BY <1>2
  <2> HIDE DEF S
  <2> QED
    BY <1>6, <2>1, HoldersNext DEF S
<1> QED
  BY <1>2, <1>7, HoldersFinite, FS_AddElement

(* ... and preparing a workspace or the CUDA state.                        *)
LEMMA PartAddsHolder ==
  ASSUME TypeOK, NEW c \in Context, NEW k \in {"workspace", "cuda"}, k \notin has[c],
         NEW parts, parts \cap {"workspace", "cuda"} = {k},
         has' = [has EXCEPT ![c] = @ \cup parts], UNCHANGED <<released, uploaded, cacheOnce>>
  PROVE  Cardinality(Holders)' = Cardinality(Holders) + 1
<1> DEFINE x == <<k, c>>
<1>1. HolderKinds /\ HolderKinds'
  BY HoldersAreOfKinds, PTL
<1>2. x \notin Holders /\ x \in Holders'
  BY <1>1 DEF HolderKinds, TypeOK
<1>3. \A d \in Engine, v \in ConstantTensor :
        <<"constant", d, v>> \in Holders' <=> <<"constant", d, v>> \in Holders \cup {x}
  BY <1>1 DEF HolderKinds
<1>4. \A d \in Engine : <<"cache", d>> \in Holders' <=> <<"cache", d>> \in Holders \cup {x}
  BY <1>1 DEF HolderKinds
<1>5. \A j \in {"workspace", "cuda"}, d \in Context :
        <<j, d>> \in Holders' <=> <<j, d>> \in Holders \cup {x}
  <2> SUFFICES ASSUME NEW j \in {"workspace", "cuda"}, NEW d \in Context
               PROVE  j \in has'[d] <=> j \in has[d] \/ <<j, d>> = x
    BY <1>1 DEF HolderKinds
  <2>1. j \in parts <=> j = k
    OBVIOUS
  <2> QED
    BY <2>1 DEF TypeOK
<1>6. HoldersBecome(Holders \cup {x})
  BY <1>3, <1>4, <1>5 DEF HoldersBecome
<1>7. Holders' = Holders \cup {x}
  <2> DEFINE S == Holders \cup {x}
  <2>1. S \subseteq Holders \cup Holders'
    BY <1>2
  <2> HIDE DEF S
  <2> QED
    BY <1>6, <2>1, HoldersNext DEF S
<1> QED
  BY <1>2, <1>7, HoldersFinite, FS_AddElement

(* The holders that go with an EngineState, and with a Context.            *)
ConstantsOf(e) == {<<"constant", e, w>> : w \in uploaded[e]}
PartsOf(c) == {<<k, c>> : k \in has[c] \cap {"workspace", "cuda"}}

(* They are as many as the references their destruction gives back.        *)
LEMMA ConstantsCounted ==
  ASSUME TypeOK, NEW e \in Engine
  PROVE  IsFiniteSet(ConstantsOf(e)) /\ Cardinality(ConstantsOf(e)) = Cardinality(uploaded[e])
<1> DEFINE f == [w \in uploaded[e] |-> <<"constant", e, w>>]
<1>1. IsFiniteSet(uploaded[e])
  BY FiniteAssumption, FS_Subset DEF TypeOK
<1>2. f \in Bijection(uploaded[e], ConstantsOf(e))
  <2>1. f \in [uploaded[e] -> ConstantsOf(e)]
    BY DEF ConstantsOf
  <2>2. \A v, w \in uploaded[e] : f[v] = f[w] => v = w
    OBVIOUS
  <2>3. \A h \in ConstantsOf(e) : \E w \in uploaded[e] : f[w] = h
    BY DEF ConstantsOf
  <2> HIDE DEF f
  <2> QED
    BY <2>1, <2>2, <2>3 DEF Bijection, Injection, Surjection, IsInjective
<1> HIDE DEF f
<1> QED
  BY <1>1, <1>2, FS_Bijection DEF ExistsBijection

(* The same for a Context's.                                               *)
LEMMA PartsCounted ==
  ASSUME NEW c \in Context
  PROVE  /\ IsFiniteSet(PartsOf(c))
         /\ Cardinality(PartsOf(c)) = Cardinality(has[c] \cap {"workspace"})
                                      + Cardinality(has[c] \cap {"cuda"})
         /\ Cardinality(has[c] \cap {"workspace"}) \in {0, 1}
         /\ Cardinality(has[c] \cap {"cuda"}) \in {0, 1}
<1> DEFINE W == {<<k, c>> : k \in has[c] \cap {"workspace"}}
           C == {<<k, c>> : k \in has[c] \cap {"cuda"}}
<1>1. ASSUME NEW k, NEW S, S = {<<j, c>> : j \in has[c] \cap {k}}
      PROVE  /\ IsFiniteSet(S) /\ Cardinality(S) = Cardinality(has[c] \cap {k})
             /\ Cardinality(has[c] \cap {k}) \in {0, 1}
  <2>1. CASE k \in has[c]
    <3>1. has[c] \cap {k} = {k} /\ S = {<<k, c>>}
      BY <1>1, <2>1
    <3> QED
      BY <3>1, FS_Singleton
  <2>2. CASE k \notin has[c]
    <3>1. has[c] \cap {k} = {} /\ S = {}
      BY <1>1, <2>2
    <3> QED
      BY <3>1, FS_EmptySet
  <2> QED
    BY <2>1, <2>2
<1>2. PartsOf(c) = W \cup C /\ W \cap C = {}
  BY DEF PartsOf
<1>3. /\ IsFiniteSet(W) /\ Cardinality(W) = Cardinality(has[c] \cap {"workspace"})
      /\ Cardinality(has[c] \cap {"workspace"}) \in {0, 1}
  BY <1>1
<1>4. /\ IsFiniteSet(C) /\ Cardinality(C) = Cardinality(has[c] \cap {"cuda"})
      /\ Cardinality(has[c] \cap {"cuda"}) \in {0, 1}
  BY <1>1
<1> HIDE DEF W, C
<1>5. IsFiniteSet(W \cup C) /\ Cardinality(W \cup C) = Cardinality(W) + Cardinality(C)
  BY <1>2, <1>3, <1>4, FS_Union, FS_EmptySet
<1> QED
  BY <1>2, <1>3, <1>4, <1>5

(* Dropping a subset of a finite set.                                      *)
LEMMA DropSubset ==
  ASSUME NEW S, NEW T, IsFiniteSet(S), T \subseteq S
  PROVE  IsFiniteSet(S \ T) /\ Cardinality(S \ T) = Cardinality(S) - Cardinality(T)
<1>1. S \cap T = T
  OBVIOUS
<1>2. IsFiniteSet(S \ T) /\ Cardinality(S \ T) = Cardinality(S) - Cardinality(S \cap T)
  BY FS_Difference
<1> QED
  BY <1>1, <1>2

(* A destruction drops the holders of what it destroys, and no other.      *)
LEMMA DestructionDropsHolders ==
  ASSUME TypeOK, NEW e \in Engine, NEW last \in BOOLEAN, last => e \notin released,
         released' = IF last THEN released \cup {e} ELSE released,
         uploaded' = IF last THEN [uploaded EXCEPT ![e] = {}] ELSE uploaded,
         UNCHANGED cacheOnce,
         NEW lost,
         \/ UNCHANGED has /\ lost = {}
         \/ \E c \in Context : has' = [has EXCEPT ![c] = {}] /\ lost = PartsOf(c)
  PROVE  Cardinality(Holders)' =
           Cardinality(Holders) - Cardinality(lost)
             - (IF last THEN Cardinality(uploaded[e]) ELSE 0)
             - (IF last /\ cacheOnce[e] = "ok" THEN 1 ELSE 0)
<1> DEFINE constants == IF last THEN ConstantsOf(e) ELSE {}
           cache == IF last THEN {<<"cache", e>>} ELSE {}
           S == ((Holders \ lost) \ constants) \ cache
<1>1. HolderKinds /\ HolderKinds'
  BY HoldersAreOfKinds, PTL
<1>2. \A h \in lost : \E k \in {"workspace", "cuda"}, c \in Context : h = <<k, c>>
  BY DEF PartsOf
<1>3. \A k \in {"workspace", "cuda"}, c \in Context :
        <<k, c>> \in lost <=> k \in has[c] /\ k \notin has'[c]
  BY DEF PartsOf, TypeOK
<1>4. \A d \in Engine, v \in ConstantTensor :
        <<"constant", d, v>> \in constants <=> last /\ d = e /\ v \in uploaded[e]
  BY DEF ConstantsOf
<1>5. \A h \in constants : \E v \in ConstantTensor : v \in uploaded[e] /\ h = <<"constant", e, v>>
  BY DEF ConstantsOf, TypeOK
<1>6. constants \subseteq Holders /\ lost \subseteq Holders /\ constants \cap lost = {}
  BY <1>1, <1>2, <1>3, <1>5 DEF HolderKinds
<1>7. HoldersBecome(S)
  <2>1. ASSUME NEW d \in Engine, NEW v \in ConstantTensor
        PROVE  <<"constant", d, v>> \in Holders' <=> <<"constant", d, v>> \in S
    <3>1. <<"constant", d, v>> \notin lost \cup cache
      BY <1>2
    <3>2. v \in uploaded'[d] <=> v \in uploaded[d] /\ ~(last /\ d = e)
      BY DEF TypeOK
    <3> QED
      BY <1>1, <1>4, <3>1, <3>2 DEF HolderKinds
  <2>2. ASSUME NEW d \in Engine PROVE <<"cache", d>> \in Holders' <=> <<"cache", d>> \in S
    <3>1. <<"cache", d>> \notin lost \cup constants
      BY <1>2, <1>5
    <3>2. d \in released' <=> d \in released \/ (last /\ d = e)
      OBVIOUS
    <3> QED
      BY <1>1, <3>1, <3>2 DEF HolderKinds
  <2>3. ASSUME NEW k \in {"workspace", "cuda"}, NEW c \in Context
        PROVE  <<k, c>> \in Holders' <=> <<k, c>> \in S
    <3>1. <<k, c>> \notin constants \cup cache
      BY <1>5
    <3>2. k \in has'[c] => k \in has[c]
      BY DEF TypeOK
    <3> QED
      BY <1>1, <1>3, <3>1, <3>2 DEF HolderKinds
  <2> HIDE DEF S
  <2> QED
    BY <2>1, <2>2, <2>3 DEF HoldersBecome
<1>8. Holders' = S
  <2>1. S \subseteq Holders \cup Holders'
    OBVIOUS
  <2> HIDE DEF S
  <2> QED
    BY <1>7, <2>1, HoldersNext
<1>9. <<"cache", e>> \in (Holders \ lost) \ constants <=> e \notin released /\ cacheOnce[e] = "ok"
  BY <1>1, <1>2, <1>5 DEF HolderKinds
<1>10. IsFiniteSet(Holders \ lost) /\ Cardinality(Holders \ lost) = Cardinality(Holders) - Cardinality(lost)
  BY <1>6, HoldersFinite, DropSubset
<1>11. /\ IsFiniteSet((Holders \ lost) \ constants)
       /\ Cardinality((Holders \ lost) \ constants) = Cardinality(Holders \ lost) - Cardinality(constants)
  <2> DEFINE H == Holders \ lost
  <2>1. constants \subseteq H
    BY <1>6
  <2> HIDE DEF constants, H
  <2> QED
    BY <1>10, <2>1, DropSubset DEF H
<1>12. Cardinality(constants) = IF last THEN Cardinality(uploaded[e]) ELSE 0
  BY ConstantsCounted, FS_EmptySet
<1>13. Cardinality(S) = Cardinality((Holders \ lost) \ constants)
                         - (IF last /\ cacheOnce[e] = "ok" THEN 1 ELSE 0)
  <2> HIDE DEF constants
  <2>1. CASE last
    <3> DEFINE H == (Holders \ lost) \ constants
    <3>1. IsFiniteSet(H) /\ Cardinality(H) \in Nat
      BY <1>11, FS_CardinalityType
    <3>2. <<"cache", e>> \in H <=> cacheOnce[e] = "ok"
      BY <1>9, <2>1
    <3>3. S = H \ {<<"cache", e>>}
      BY <2>1
    <3> HIDE DEF H, S
    <3>4. Cardinality(S) = IF <<"cache", e>> \in H THEN Cardinality(H) - 1 ELSE Cardinality(H)
      BY <3>1, <3>3, FS_RemoveElement
    <3> QED
      BY <2>1, <3>1, <3>2, <3>4 DEF H
  <2>2. CASE ~last
    <3>1. S = (Holders \ lost) \ constants
      BY <2>2
    <3>2. Cardinality((Holders \ lost) \ constants) \in Nat
      BY <1>11, FS_CardinalityType
    <3> QED
      BY <2>2, <3>1, <3>2
  <2> QED
    BY <2>1, <2>2
<1> HIDE DEF S, constants, cache
<1> QED
  BY <1>8, <1>10, <1>11, <1>12, <1>13

(* The driver may fail to retain the primary context or make it current.   *)
DevicesFail == faults \cap {"retain", "current"} # {}

(* An allocation that succeeds keeps a reference, one that fails leaves at *)
(* most one behind, and a copy none if it succeeds.                        *)
LEMMA BufferOutcomes ==
  /\ \A refused \in BOOLEAN : \A o \in AllocateCuda(faults, refused) :
       /\ o.ok => o.retained = 1
       /\ ~o.ok => o.retained \in {0, 1}
       /\ ~o.ok /\ ~DevicesFail => o.retained = 0
  /\ \A o \in CopyFromHost(faults) :
       /\ o.ok => o.retained = 0
       /\ ~o.ok => o.retained \in {0, 1}
       /\ ~o.ok /\ ~DevicesFail => o.retained = 0
<1>1. ASSUME NEW refused \in BOOLEAN, NEW o \in AllocateCuda(faults, refused)
      PROVE  /\ o.ok => o.retained = 1
             /\ ~o.ok => o.retained \in {0, 1}
             /\ ~o.ok /\ ~DevicesFail => o.retained = 0
  BY DEF AllocateCuda, SetCudaDevice, Failed, Outcome, DevicesFail
<1>2. ASSUME NEW o \in CopyFromHost(faults)
      PROVE  /\ o.ok => o.retained = 0
             /\ ~o.ok => o.retained \in {0, 1}
             /\ ~o.ok /\ ~DevicesFail => o.retained = 0
  BY DEF CopyFromHost, SetCudaDevice, Failed, Succeeded, Outcome, Plus, DevicesFail
<1> QED
  BY <1>1, <1>2

(* The references and their holders change together.                       *)
LEMMA ReferencesFollow ==
  ASSUME ReferencesMatchHolders, UNCHANGED faults, NEW taken \in Int, NEW more \in Int,
         references' = references + taken,
         Cardinality(Holders)' = Cardinality(Holders) + more,
         taken >= more, ~DevicesFail => taken = more
  PROVE  ReferencesMatchHolders'
<1>1. Cardinality(Holders) \in Nat /\ references \in Int
  BY HoldersFinite, FS_CardinalityType DEF ReferencesMatchHolders
<1>2. references' \in Int /\ references' >= Cardinality(Holders)'
  BY <1>1 DEF ReferencesMatchHolders
<1>3. ASSUME ~DevicesFail PROVE references' = Cardinality(Holders)'
  <2>1. references = Cardinality(Holders)
    BY <1>3 DEF ReferencesMatchHolders, DevicesFail
  <2> QED
    BY <1>1, <1>3, <2>1
<1> QED
  BY <1>2, <1>3 DEF ReferencesMatchHolders, DevicesFail

(* A step that prepares neither a workspace nor a CUDA state and touches   *)
(* nothing else that holds a reference.                                    *)
Steady ==
  /\ UNCHANGED <<faults, released, uploaded, cacheOnce>>
  /\ \/ UNCHANGED has
     \/ \E c \in Context, parts \in SUBSET Part :
          /\ has' = [has EXCEPT ![c] = @ \cup parts]
          /\ parts \cap {"workspace", "cuda"} \subseteq has[c]

(* Such a step leaves the holders as they are.                             *)
LEMMA SteadyHolders ==
  ASSUME TypeOK, Steady
  PROVE  Cardinality(Holders)' = Cardinality(Holders)
<1>1. HolderKinds /\ HolderKinds'
  BY HoldersAreOfKinds, PTL
<1>2. \A k \in {"workspace", "cuda"}, c \in Context : k \in has'[c] <=> k \in has[c]
  BY DEF Steady, TypeOK
<1>3. HoldersBecome(Holders)
  BY <1>1, <1>2 DEF Steady, HolderKinds, HoldersBecome
<1>4. Holders' = Holders
  BY <1>3, HoldersNext
<1> QED
  BY <1>4

(* The steps of a call that take or drop no reference.                     *)
LEMMA SteadySteps ==
  ASSUME TypeOK, UNCHANGED faults, NEW c \in Context,
         \/ CreateExecutionContext(c) \/ RunAsync(c) \/ InitializeConstants(c)
         \/ FinishUpload(c) \/ PrepareTuning(c) \/ FindBuiltin(c) \/ RegisterBuiltin(c)
         \/ CreateTuningStream(c) \/ Lock(c) \/ FindModule(c) \/ LoadModule(c)
         \/ FindFunction(c) \/ BeginCapture(c) \/ EndCapture(c) \/ Submit(c)
  PROVE  Steady /\ UNCHANGED references
<1> USE DEF engineVars, cacheVars, callVars, contextVars
<1>0. ASSUME UNCHANGED <<released, uploaded, cacheOnce>>,
             UNCHANGED has \/ \E part \in {"tuning", "kernels", "graph"} : Keep(c, {part})
      PROVE  Steady
  <2>1. CASE UNCHANGED has
    BY <1>0, <2>1 DEF Steady
  <2>2. ASSUME NEW part \in {"tuning", "kernels", "graph"}, Keep(c, {part}) PROVE Steady
    <3>1. {part} \in SUBSET Part /\ {part} \cap {"workspace", "cuda"} \subseteq has[c]
      BY DEF Part
    <3>2. has' = [has EXCEPT ![c] = @ \cup {part}]
      BY <2>2 DEF Keep
    <3> QED
      BY <1>0, <3>1, <3>2 DEF Steady
  <2> QED
    BY <1>0, <2>1, <2>2
<1>1. CASE CreateExecutionContext(c) \/ RunAsync(c) \/ InitializeConstants(c) \/ FinishUpload(c)
  BY <1>0, <1>1 DEF CreateExecutionContext, RunAsync, InitializeConstants, FinishUpload
<1>2. CASE PrepareTuning(c)
  BY <1>0, <1>2 DEF PrepareTuning
<1>3. CASE FindBuiltin(c) \/ RegisterBuiltin(c) \/ CreateTuningStream(c) \/ Lock(c)
  BY <1>0, <1>3 DEF FindBuiltin, RegisterBuiltin, CreateTuningStream, Lock
<1>4. CASE FindModule(c) \/ LoadModule(c) \/ BeginCapture(c) \/ Submit(c)
  BY <1>0, <1>4 DEF FindModule, LoadModule, BeginCapture, Submit
<1>5. CASE FindFunction(c)
  <2>1. /\ UNCHANGED <<references, released, uploaded, cacheOnce>>
        /\ UNCHANGED has \/ Keep(c, {IF Tunes(c) THEN "tuning" ELSE "kernels"})
    BY <1>5 DEF FindFunction, CreateKernel
  <2> QED
    BY <1>0, <2>1
<1>6. CASE EndCapture(c)
  BY <1>0, <1>6 DEF EndCapture
<1> QED
  BY <1>1, <1>2, <1>3, <1>4, <1>5, <1>6

RefInv == CacheInv /\ ReferencesMatchHolders

(* A step of a call keeps the references those of the holders.             *)
LEMMA CallKeepsReferences ==
  ASSUME RefInv, UNCHANGED faults, NEW c \in Context,
         \/ UploadConstant(c) \/ PrepareTensors(c) \/ InitializeModuleCache(c)
         \/ InitializeCuda(c)
  PROVE  ReferencesMatchHolders'
<1> USE DEF engineVars, cacheVars, callVars, contextVars
<1>0. /\ TypeOK /\ ReferencesMatchHolders /\ EngineOf[c] \in Engine
      /\ references \in Int /\ Cardinality(Holders) \in Nat
  BY EngineAssumption, HoldersFinite, FS_CardinalityType
     DEF RefInv, CacheInv, TypeInv, ReferencesMatchHolders
<1>1. ASSUME Steady, NEW taken \in Int, references' = references + taken, taken >= 0,
             ~DevicesFail => taken = 0
      PROVE  ReferencesMatchHolders'
  <2>1. Cardinality(Holders)' = Cardinality(Holders) + 0
    BY <1>0, <1>1, SteadyHolders
  <2> QED
    BY <1>0, <1>1, <2>1, ReferencesFollow
<1>2. ASSUME Cardinality(Holders)' = Cardinality(Holders) + 1, references' = references + 1
      PROVE  ReferencesMatchHolders'
  BY <1>0, <1>2, ReferencesFollow
<1>3. CASE UploadConstant(c)
  <2>1. UNCHANGED <<released, cacheOnce, has>>
    BY <1>3 DEF UploadConstant
  <2>2. PICK made \in AllocateCuda(faults, AllocationRefused), copied \in CopyFromHost(faults) :
          \/ /\ made.ok /\ copied.ok
             /\ references' = references + made.retained + copied.retained
             /\ \E w \in Missing(EngineOf[c]) :
                  uploaded' = [uploaded EXCEPT ![EngineOf[c]] = @ \cup {w}]
          \/ /\ ~(made.ok /\ copied.ok)
             /\ \/ ~made.ok /\ references' = references + made.retained
                \/ /\ made.ok
                   /\ \E freed \in Release(faults) :
                        references' = references + made.retained + copied.retained
                                        + freed.retained
             /\ UNCHANGED uploaded
    BY <1>3 DEF UploadConstant
  <2>3. AllocationRefused \in BOOLEAN
    BY DEF AllocationRefused
  <2>4. /\ made.ok => made.retained = 1
        /\ ~made.ok => made.retained \in {0, 1}
        /\ ~made.ok /\ ~DevicesFail => made.retained = 0
        /\ copied.ok => copied.retained = 0
        /\ ~copied.ok => copied.retained \in {0, 1}
        /\ ~copied.ok /\ ~DevicesFail => copied.retained = 0
    BY <2>3, BufferOutcomes
  <2>5. CASE made.ok /\ copied.ok
    <3>1. PICK w \in Missing(EngineOf[c]) :
            uploaded' = [uploaded EXCEPT ![EngineOf[c]] = @ \cup {w}]
      BY <2>2, <2>5
    <3>2. Cardinality(Holders)' = Cardinality(Holders) + 1
      BY <1>0, <2>1, <3>1, UploadAddsHolder DEF Missing
    <3>3. references' = references + 1
      BY <1>0, <2>2, <2>4, <2>5
    <3> QED
      BY <1>2, <3>2, <3>3
  <2>6. CASE ~(made.ok /\ copied.ok)
    <3>1. Steady
      BY <2>1, <2>2, <2>6 DEF Steady
    <3>2. CASE ~made.ok
      BY <1>1, <2>2, <2>4, <3>1, <3>2
    <3>3. CASE made.ok
      <4>1. PICK freed \in Release(faults) :
              references' = references + made.retained + copied.retained + freed.retained
        BY <2>2, <2>6, <3>3
      <4>2. /\ freed.retained \in {-1, 0, 1}
            /\ ~DevicesFail => freed.retained = -1
        BY ReleaseOutcomes DEF DevicesFail
      <4> DEFINE taken == 1 + copied.retained + freed.retained
      <4>3. taken \in Int /\ taken >= 0 /\ (~DevicesFail => taken = 0)
        BY <2>4, <2>6, <3>3, <4>2
      <4>4. references' = references + taken
        BY <1>0, <2>4, <2>6, <3>3, <4>1, <4>2
      <4> HIDE DEF taken
      <4> QED
        BY <1>1, <3>1, <4>3, <4>4
    <3> QED
      BY <3>2, <3>3
  <2> QED
    BY <2>5, <2>6
<1>4. CASE PrepareTensors(c)
  <2>1. UNCHANGED <<released, uploaded, cacheOnce>>
    BY <1>4 DEF PrepareTensors
  <2>2. CASE UNCHANGED references /\ Keep(c, {"tensors"})
    <3>1. {"tensors"} \in SUBSET Part /\ {"tensors"} \cap {"workspace", "cuda"} \subseteq has[c]
      BY DEF Part
    <3>2. Steady
      BY <2>1, <2>2, <3>1 DEF Steady, Keep
    <3>3. references' = references + 0
      BY <1>0, <2>2
    <3> QED
      BY <1>1, <3>2, <3>3
  <2>3. ASSUME NeedsWorkspace(c), NEW made \in AllocateCuda(faults, AllocationRefused),
               references' = references + made.retained,
               \/ made.ok /\ Keep(c, {"workspace", "tensors"})
               \/ ~made.ok /\ UNCHANGED has
        PROVE  ReferencesMatchHolders'
    <3>1. /\ made.ok => made.retained = 1
          /\ ~made.ok => made.retained \in {0, 1}
          /\ ~made.ok /\ ~DevicesFail => made.retained = 0
      BY BufferOutcomes DEF AllocationRefused
    <3>2. CASE made.ok
      <4>1. has' = [has EXCEPT ![c] = @ \cup {"workspace", "tensors"}]
        BY <2>3, <3>2 DEF Keep
      <4>2. {"workspace", "tensors"} \cap {"workspace", "cuda"} = {"workspace"}
        OBVIOUS
      <4>3. Cardinality(Holders)' = Cardinality(Holders) + 1
        BY <1>0, <2>1, <2>3, <4>1, <4>2, PartAddsHolder DEF NeedsWorkspace
      <4> QED
        BY <1>2, <2>3, <3>1, <3>2, <4>3
    <3>3. CASE ~made.ok
      <4>1. Steady
        BY <2>1, <2>3, <3>3 DEF Steady
      <4> QED
        BY <1>1, <2>3, <3>1, <3>3, <4>1
    <3> QED
      BY <3>2, <3>3
  <2>4. CASE NeedsWorkspace(c)
    <3>1. PICK made \in AllocateCuda(faults, AllocationRefused) :
            /\ references' = references + made.retained
            /\ \/ made.ok /\ Keep(c, {"workspace", "tensors"})
               \/ ~made.ok /\ UNCHANGED has
      BY <1>4, <2>4 DEF PrepareTensors
    <3> QED
      BY <2>3, <2>4, <3>1
  <2>5. CASE ~NeedsWorkspace(c)
    BY <1>4, <2>2, <2>5 DEF PrepareTensors
  <2> QED
    BY <2>4, <2>5
<1>5. CASE InitializeModuleCache(c)
  <2>1. UNCHANGED <<released, uploaded, has>>
    BY <1>5 DEF InitializeModuleCache
  <2>2. CASE UNCHANGED <<references, cacheOnce>>
    <3>1. Steady /\ references' = references + 0
      BY <1>0, <2>1, <2>2 DEF Steady
    <3> QED
      BY <1>1, <3>1
  <2>3. CASE CacheUnset(c) /\ ~UNCHANGED <<references, cacheOnce>>
    <3>1. PICK o \in CacheOutcomes :
            /\ references' = references + o.retained
            /\ cacheOnce' = [cacheOnce EXCEPT ![EngineOf[c]] = IF o.ok THEN "ok" ELSE "failed"]
      BY <1>5, <2>3 DEF InitializeModuleCache
    <3>2. (o.ok => o.retained = 1) /\ (~o.ok => o.retained = 0)
      <4>1. o = Outcome(TRUE, 1, FALSE) \/ o = Outcome(FALSE, 0, FALSE)
        BY DEF CacheOutcomes
      <4>2. CASE o = Outcome(TRUE, 1, FALSE)
        BY <4>2 DEF Outcome
      <4>3. CASE o = Outcome(FALSE, 0, FALSE)
        BY <4>3 DEF Outcome
      <4> QED
        BY <4>1, <4>2, <4>3
    <3>3. CASE o.ok
      <4>1. cacheOnce' = [cacheOnce EXCEPT ![EngineOf[c]] = "ok"]
        BY <3>1, <3>3
      <4>2. EngineOf[c] \notin released
        BY <1>5 DEF InitializeModuleCache, RefInv, CacheInv, FunctionsInv
      <4>3. Cardinality(Holders)' = Cardinality(Holders) + 1
        BY <1>0, <2>1, <2>3, <4>1, <4>2, CacheAddsHolder DEF CacheUnset
      <4> QED
        BY <1>2, <3>1, <3>2, <3>3, <4>3
    <3>4. CASE ~o.ok
      <4>1. cacheOnce' = [cacheOnce EXCEPT ![EngineOf[c]] = "failed"]
        BY <3>1, <3>4
      <4>2. HolderKinds /\ HolderKinds'
        BY HoldersAreOfKinds, PTL
      <4>3. \A e \in Engine : cacheOnce'[e] = "ok" <=> cacheOnce[e] = "ok"
        BY <1>0, <2>3, <4>1 DEF CacheUnset, TypeOK
      <4>4. HoldersBecome(Holders)
        BY <2>1, <4>2, <4>3 DEF HolderKinds, HoldersBecome
      <4>5. Holders' = Holders
        BY <4>4, HoldersNext
      <4>6. Cardinality(Holders)' = Cardinality(Holders) + 0 /\ references' = references + 0
        BY <1>0, <3>1, <3>2, <3>4, <4>5
      <4> QED
        BY <1>0, <4>6, ReferencesFollow
    <3> QED
      BY <3>3, <3>4
  <2> QED
    BY <1>5, <2>2, <2>3 DEF InitializeModuleCache
<1>6. CASE InitializeCuda(c)
  <2>1. UNCHANGED <<released, uploaded, cacheOnce>>
    BY <1>6 DEF InitializeCuda
  <2> DEFINE outcomes == IF "cuda" \in has[c] THEN SetCurrentOutcomes ELSE CudaStateOutcomes
  <2>2. PICK o \in outcomes :
          /\ references' = references + o.retained
          /\ (o.ok /\ Keep(c, {"cuda"})) \/ (~o.ok /\ UNCHANGED has)
    BY <1>6 DEF InitializeCuda
  <2>3. CASE "cuda" \in has[c] \/ ~o.ok
    <3>1. o.retained = 0
      BY <2>2, <2>3 DEF SetCurrentOutcomes, CudaStateOutcomes, Outcome
    <3>2. Steady
      <4>1. {"cuda"} \in SUBSET Part
        BY DEF Part
      <4>2. CASE UNCHANGED has
        BY <2>1, <4>2 DEF Steady
      <4>3. CASE Keep(c, {"cuda"}) /\ "cuda" \in has[c]
        BY <2>1, <4>1, <4>3 DEF Steady, Keep
      <4> QED
        BY <2>2, <2>3, <4>2, <4>3
    <3> QED
      BY <1>1, <2>2, <3>1, <3>2
  <2>4. CASE "cuda" \notin has[c] /\ o.ok
    <3>1. o.retained = 1
      BY <2>2, <2>4 DEF CudaStateOutcomes, Outcome
    <3>2. has' = [has EXCEPT ![c] = @ \cup {"cuda"}]
      BY <2>2, <2>4 DEF Keep
    <3>3. {"cuda"} \cap {"workspace", "cuda"} = {"cuda"}
      OBVIOUS
    <3>4. Cardinality(Holders)' = Cardinality(Holders) + 1
      BY <1>0, <2>1, <2>4, <3>2, <3>3, PartAddsHolder
    <3> QED
      BY <1>2, <2>2, <3>1, <3>4
  <2> QED
    BY <2>3, <2>4
<1> QED
  BY <1>3, <1>4, <1>5, <1>6

(* A destruction gives back what it held, so far as the deleters can.      *)
LEMMA DestructionKeepsReferences ==
  ASSUME RefInv, UNCHANGED <<faults, cacheOnce>>, NEW e \in Engine, NEW last \in BOOLEAN,
         last => e \notin released, NEW buffers \in Nat, NEW others \in Nat, NEW lost,
         Cardinality(lost) = buffers + others,
         ReleaseResources(e, last, buffers, others),
         \/ UNCHANGED has /\ lost = {}
         \/ \E c \in Context : has' = [has EXCEPT ![c] = {}] /\ lost = PartsOf(c)
  PROVE  ReferencesMatchHolders'
<1> DEFINE constants == IF last THEN Cardinality(uploaded[e]) ELSE 0
           caches == IF last /\ cacheOnce[e] = "ok" THEN 1 ELSE 0
<1>1. TypeOK /\ ReferencesMatchHolders
  BY DEF RefInv, CacheInv, TypeInv
<1>2. constants \in Nat /\ caches \in Nat
  <2>1. IsFiniteSet(uploaded[e])
    BY <1>1, FiniteAssumption, FS_Subset DEF TypeOK
  <2> QED
    BY <2>1, FS_CardinalityType
<1>3. PICK freed \in ReleaseAll(faults, buffers + constants) :
        references' = references + freed - others - caches
  BY DEF ReleaseResources
<1>4. Cardinality(Holders)' = Cardinality(Holders) - Cardinality(lost) - constants - caches
  <2>1. /\ released' = IF last THEN released \cup {e} ELSE released
        /\ uploaded' = IF last THEN [uploaded EXCEPT ![e] = {}] ELSE uploaded
    BY DEF ReleaseResources
  <2> QED
    BY <1>1, <2>1, DestructionDropsHolders
<1>5. Cardinality(Holders) \in Nat /\ references \in Int
  BY <1>1, HoldersFinite, FS_CardinalityType DEF ReferencesMatchHolders
<1> HIDE DEF constants, caches
<1>6. /\ freed \in Int /\ freed >= -(buffers + constants)
      /\ ~DevicesFail => freed = -(buffers + constants)
  BY <1>2, ReleaseAllOutcomes DEF DevicesFail
<1> DEFINE taken == freed - others - caches
           more == -(buffers + others) - constants - caches
<1>7. /\ taken \in Int /\ more \in Int /\ taken >= more
      /\ ~DevicesFail => taken = more
  BY <1>2, <1>6
<1>8. references' = references + taken /\ Cardinality(Holders)' = Cardinality(Holders) + more
  BY <1>2, <1>3, <1>4, <1>5, <1>6
<1> HIDE DEF taken, more
<1> QED
  BY <1>1, <1>7, <1>8, ReferencesFollow

(* Every step keeps the references those of the holders.                   *)
LEMMA RefInvInductive ==
  ASSUME RefInv, [Next]_vars
  PROVE  RefInv'
<1> USE DEF engineVars, cacheVars, callVars, contextVars
<1>0. TypeOK /\ ReferencesMatchHolders /\ CacheInv'
  BY CacheInvInductive DEF RefInv, CacheInv, TypeInv
<1>1. UNCHANGED faults
  BY DEF Next, vars
<1>2. CASE UserRegisters \/ Finished \/ UNCHANGED vars
  <2>1. UNCHANGED <<references, faults, released, uploaded, cacheOnce, has>>
    BY <1>1, <1>2 DEF UserRegisters, Finished, vars
  <2> QED
    BY <1>0, <2>1 DEF RefInv, ReferencesMatchHolders, Holders
<1>3. ASSUME NEW c \in Context, Steady, UNCHANGED references PROVE RefInv'
  <2>1. Cardinality(Holders)' = Cardinality(Holders) + 0 /\ references' = references + 0
    BY <1>0, <1>3, SteadyHolders, HoldersFinite, FS_CardinalityType DEF ReferencesMatchHolders
  <2> QED
    BY <1>0, <1>1, <2>1, ReferencesFollow DEF RefInv
<1>4. ASSUME NEW c \in Context, DestroyContext(c) PROVE RefInv'
  <2> DEFINE e == EngineOf[c]
             last == StateReleased(e, e \notin engines, Existing(e) \ {c})
             buffers == Cardinality(has[c] \cap {"workspace"})
             others == Cardinality(has[c] \cap {"cuda"})
  <2>1. /\ ReleaseResources(e, last, buffers, others)
        /\ has' = [has EXCEPT ![c] = {}] /\ UNCHANGED cacheOnce /\ pc[c] = "idle"
    BY <1>4 DEF DestroyContext
  <2>2. e \in Engine /\ last \in BOOLEAN /\ e \notin released
    BY <2>1, EngineAssumption DEF StateReleased, RefInv, CacheInv, FunctionsInv
  <2>3. buffers \in Nat /\ others \in Nat /\ Cardinality(PartsOf(c)) = buffers + others
    BY PartsCounted
  <2> HIDE DEF e, last, buffers, others
  <2> QED
    BY <1>0, <1>1, <2>1, <2>2, <2>3, DestructionKeepsReferences DEF RefInv
<1>5. ASSUME NEW e \in Engine, DestroyEngine(e) PROVE RefInv'
  <2> DEFINE last == StateReleased(e, TRUE, Existing(e))
  <2>1. ReleaseResources(e, last, 0, 0) /\ UNCHANGED <<has, cacheOnce>> /\ e \in engines
    BY <1>5 DEF DestroyEngine
  <2>2. last \in BOOLEAN /\ e \notin released
    BY <1>0, <2>1 DEF StateReleased, TypeOK
  <2>3. Cardinality({}) = 0 + 0
    BY FS_EmptySet
  <2> HIDE DEF last
  <2> QED
    BY <1>0, <1>1, <2>1, <2>2, <2>3, DestructionKeepsReferences DEF RefInv
<1>6. ASSUME NEW c \in Context,
             UploadConstant(c) \/ PrepareTensors(c) \/ InitializeModuleCache(c) \/ InitializeCuda(c)
      PROVE  RefInv'
  BY <1>0, <1>1, <1>6, CallKeepsReferences DEF RefInv
<1> QED
  BY <1>0, <1>1, <1>2, <1>3, <1>4, <1>5, <1>6, SteadySteps DEF Next, CallStep

(* The primary context has at least one reference for everything that      *)
(* lives in it, and exactly one when it can always be retained and made    *)
(* current: however calls interleave and fail, and in whatever order       *)
(* Engines and Contexts are destroyed.                                     *)
THEOREM ReferencesAlwaysMatchHolders == Spec => []ReferencesMatchHolders
<1>1. Init => RefInv
  <2> SUFFICES ASSUME Init PROVE ReferencesMatchHolders
    BY CacheInvInitially DEF RefInv
  <2>1. Holders = {}
    BY DEF Init, Holders
  <2> QED
    BY <2>1, FS_EmptySet DEF Init, ReferencesMatchHolders
<1>2. RefInv /\ [Next]_vars => RefInv'
  BY RefInvInductive
<1>3. RefInv => ReferencesMatchHolders
  BY DEF RefInv
<1> QED
  BY <1>1, <1>2, <1>3, PTL DEF Spec
-----------------------------------------------------------------------------
(* The module cache and the constants of an Engine are each initialised as *)
(* OnceCell says: the safety part of MCEngineState!SharedInitializedOnce,  *)
(* for any one of the Engines.                                             *)
CONSTANT engine

ModuleCache ==
  INSTANCE OnceCell WITH
    Caller <- Users(engine), outcome <- cacheOnce[engine], place <- CachePlace(engine)

Launching == {"cuda", "begin", "capturing", "submit"}
BeforeCache == {"constants", "upload", "workspace", "tuning", "register", "registering"}

(* Who is past the cache, or keeps kernels, found it initialised.          *)
PastCacheInv ==
  \A c \in Context :
    "kernels" \in has[c] \/ pc[c] \in Launching => cacheOnce[EngineOf[c]] = "ok"

OnceInv == CacheInv /\ PastCacheInv

(* A failed initialisation is never undone, and who keeps kernels came     *)
(* past a successful one.                                                  *)
LEMMA PastCacheInvInductive ==
  ASSUME OnceInv, [Next]_vars
  PROVE  PastCacheInv'
<1> USE DEF Launching, Goto, GotoItem, GotoAfter, Return, Keep,
            engineVars, cacheVars, callVars, contextVars
<1>1. /\ DOMAIN pc = Context /\ DOMAIN has = Context /\ PastCacheInv
      /\ DOMAIN cacheOnce = Engine /\ \A c \in Context : EngineOf[c] \in Engine
      /\ \A c \in Context : pc[c] \in UsesCache => cacheOnce[EngineOf[c]] = "ok"
  BY EngineAssumption DEF OnceInv, CacheInv, TypeInv, TypeOK, FunctionsInv
<1>2. CASE UserRegisters \/ Finished \/ (\E e \in Engine : DestroyEngine(e)) \/ UNCHANGED vars
  BY <1>1, <1>2 DEF UserRegisters, Finished, DestroyEngine, vars, PastCacheInv
<1>3. ASSUME NEW c \in Context,
             \/ CreateExecutionContext(c) \/ RunAsync(c) \/ FindBuiltin(c) \/ RegisterBuiltin(c)
             \/ FinishUpload(c) \/ InitializeConstants(c)
      PROVE  PastCacheInv'
  BY <1>1, <1>3 DEF CreateExecutionContext, RunAsync, FindBuiltin, RegisterBuiltin,
     InitializeConstants, FinishUpload, PastCacheInv
<1>4. ASSUME NEW c \in Context, UploadConstant(c) PROVE PastCacheInv'
  BY <1>1, <1>4 DEF UploadConstant, PastCacheInv
<1>5. ASSUME NEW c \in Context, PrepareTensors(c) \/ PrepareTuning(c) PROVE PastCacheInv'
  BY <1>1, <1>5 DEF PrepareTensors, PrepareTuning, PastCacheInv
<1>6. ASSUME NEW c \in Context, InitializeModuleCache(c) PROVE PastCacheInv'
  <2>1. /\ UNCHANGED has /\ \A d \in Context : pc'[d] \in Launching => pc[d] \in Launching
        /\ \A e \in Engine : cacheOnce[e] = "ok" => cacheOnce'[e] = "ok"
    BY <1>1, <1>6 DEF InitializeModuleCache, CacheUnset
  <2> QED
    BY <1>1, <2>1 DEF PastCacheInv
<1>7. ASSUME NEW c \in Context,
             CreateTuningStream(c) \/ Lock(c) \/ FindModule(c) \/ LoadModule(c)
      PROVE  PastCacheInv'
  BY <1>1, <1>7 DEF CreateTuningStream, Lock, FindModule, LoadModule, LoadFails, PastCacheInv
<1>8. ASSUME NEW c \in Context, FindFunction(c) PROVE PastCacheInv'
  <2>1. UNCHANGED cacheOnce /\ cacheOnce[EngineOf[c]] = "ok"
    BY <1>1, <1>8 DEF FindFunction, UsesCache, Fetching
  <2>2. \A d \in Context \ {c} : pc'[d] = pc[d] /\ has'[d] = has[d]
    BY <1>1, <1>8 DEF FindFunction, CreateKernel
  <2> QED
    BY <1>1, <2>1, <2>2 DEF PastCacheInv
<1>9. ASSUME NEW c \in Context, InitializeCuda(c) PROVE PastCacheInv'
  BY <1>1, <1>9 DEF InitializeCuda, PastCacheInv
<1>10. ASSUME NEW c \in Context, BeginCapture(c) \/ EndCapture(c) \/ Submit(c) PROVE PastCacheInv'
  BY <1>1, <1>10 DEF BeginCapture, EndCapture, Submit, PastCacheInv
<1>11. ASSUME NEW c \in Context, DestroyContext(c) PROVE PastCacheInv'
  BY <1>1, <1>11 DEF DestroyContext, PastCacheInv
<1> QED
  BY <1>2, <1>3, <1>4, <1>5, <1>6, <1>7, <1>8, <1>9, <1>10, <1>11 DEF Next, CallStep

(* Where a stage is with respect to the module cache.                      *)
CacheStage(stage) ==
  IF stage = "modules" THEN "in"
  ELSE IF stage \in {"absent", "idle", "gone"} \cup BeforeCache THEN "out" ELSE "past"

(* The moves from stage to stage a OnceCell with this outcome allows.      *)
Allowed(from, to, outcome) ==
  \/ from = to
  \/ from # "in" /\ to = "in"
  \/ from = "past" /\ to = "out"
  \/ from # "past" /\ to = "past" /\ outcome = "ok"
  \/ from = "in" /\ to = "out" /\ outcome = "failed"

CacheMove(c) ==
  /\ UNCHANGED cacheOnce
  /\ \E stage : /\ pc' = [pc EXCEPT ![c] = stage]
                /\ Allowed(CacheStage(pc[c]), CacheStage(stage), cacheOnce[EngineOf[c]])

(* A Context of another Engine cannot be told apart from one that does     *)
(* nothing, one of this Engine moves.                                      *)
LEMMA CacheMoveIsStep ==
  ASSUME engine \in Engine, DOMAIN pc = Context, NEW c \in Context, CacheMove(c)
  PROVE  ModuleCache!Next \/ UNCHANGED ModuleCache!vars
<1> DEFINE place == CachePlace(engine)
<1>1. PICK stage : /\ pc' = [pc EXCEPT ![c] = stage]
                   /\ Allowed(CacheStage(pc[c]), CacheStage(stage), cacheOnce[EngineOf[c]])
  BY DEF CacheMove
<1>2. /\ DOMAIN place = Users(engine) /\ DOMAIN place' = Users(engine)
      /\ \A d \in Users(engine) : place[d] = CacheStage(pc[d]) /\ place'[d] = CacheStage(pc'[d])
  BY DEF CachePlace, Place, CacheStage, BeforeCache, Users
<1>3. /\ place = [d \in Users(engine) |-> place[d]]
      /\ place' = [d \in Users(engine) |-> place'[d]]
  BY DEF CachePlace
<1>4. UNCHANGED cacheOnce
  BY DEF CacheMove
<1>5. CASE EngineOf[c] # engine
  <2>1. \A d \in Users(engine) : place'[d] = place[d]
    BY <1>1, <1>2, <1>5 DEF Users
  <2>2. place' = place
    BY <1>2, <1>3, <2>1
  <2> QED
    BY <1>4, <2>2 DEF ModuleCache!vars
<1>6. CASE EngineOf[c] = engine
  <2>1. place' = [place EXCEPT ![c] = CacheStage(stage)] /\ place[c] = CacheStage(pc[c])
    <3>1. c \in Users(engine)
      BY <1>6 DEF Users
    <3>2. \A d \in Users(engine) : place'[d] = [place EXCEPT ![c] = CacheStage(stage)][d]
      BY <1>1, <1>2, <3>1 DEF Users
    <3> QED
      BY <1>2, <1>3, <3>1, <3>2
  <2>2. Allowed(place[c], CacheStage(stage), cacheOnce[engine]) /\ c \in Users(engine)
    BY <1>1, <1>6, <2>1 DEF Users
  <2>3. CASE CacheStage(stage) = place[c]
    <3>1. place' = place
      BY <1>3, <2>1, <2>3
    <3> QED
      BY <1>4, <3>1 DEF ModuleCache!vars
  <2>4. place[c] \in {"in", "out", "past"}
    BY <2>1 DEF CacheStage
  <2>5. CASE CacheStage(stage) # place[c]
    <3>1. ModuleCache!Enter(c) \/ ModuleCache!Pass(c) \/ ModuleCache!Skip(c)
            \/ ModuleCache!TurnAway(c) \/ ModuleCache!Leave(c)
      BY <1>4, <2>1, <2>2, <2>4, <2>5 DEF Allowed, ModuleCache!Enter, ModuleCache!Pass,
         ModuleCache!Skip, ModuleCache!TurnAway, ModuleCache!Leave, ModuleCache!Move
    <3> QED
      BY <2>2, <3>1 DEF ModuleCache!Next
  <2> QED
    BY <2>3, <2>5
<1> QED
  BY <1>5, <1>6

(* Every step of a Context moves it as a OnceCell allows, or is the one    *)
(* attempt.                                                                *)
LEMMA ContextMovesAtCache ==
  ASSUME OnceInv, NEW c \in Context,
         CreateExecutionContext(c) \/ RunAsync(c) \/ CallStep(c) \/ DestroyContext(c)
  PROVE  CacheMove(c) \/ (InitializeModuleCache(c) /\ CacheUnset(c))
<1> USE DEF CacheMove, CacheStage, BeforeCache, Allowed, Goto, GotoItem, GotoAfter, Return,
            engineVars, cacheVars, callVars, contextVars
<1>1. CASE CreateExecutionContext(c) \/ RunAsync(c)
  BY <1>1 DEF CreateExecutionContext, RunAsync
<1>2. CASE InitializeConstants(c) \/ FinishUpload(c)
  BY <1>2 DEF InitializeConstants, FinishUpload
<1>3. CASE UploadConstant(c)
  BY <1>3 DEF UploadConstant
<1>4. CASE PrepareTensors(c)
  BY <1>4 DEF PrepareTensors
<1>5. CASE PrepareTuning(c)
  BY <1>5 DEF PrepareTuning, OnceInv, PastCacheInv
<1>6. CASE FindBuiltin(c) \/ RegisterBuiltin(c)
  BY <1>6 DEF FindBuiltin, RegisterBuiltin
<1>7. CASE InitializeModuleCache(c)
  BY <1>7 DEF InitializeModuleCache
<1>8. CASE CreateTuningStream(c) \/ Lock(c)
  BY <1>8 DEF CreateTuningStream, Lock
<1>9. CASE FindModule(c) \/ LoadModule(c)
  BY <1>9 DEF FindModule, LoadModule, LoadFails
<1>10. CASE FindFunction(c)
  <2>1. \E stage \in {"lock", "register", "cuda", "idle"} : pc' = [pc EXCEPT ![c] = stage]
    BY <1>10 DEF FindFunction, CreateKernel
  <2> QED
    BY <1>10, <2>1 DEF FindFunction
<1>11. CASE InitializeCuda(c)
  BY <1>11 DEF InitializeCuda
<1>12. CASE BeginCapture(c) \/ EndCapture(c) \/ Submit(c)
  BY <1>12 DEF BeginCapture, EndCapture, Submit
<1>13. CASE DestroyContext(c)
  BY <1>13 DEF DestroyContext
<1> QED
  BY <1>1, <1>2, <1>3, <1>4, <1>5, <1>6, <1>7, <1>8, <1>9, <1>10, <1>11, <1>12, <1>13 DEF CallStep

(* The one attempt is made by a Context that is in.                        *)
LEMMA AttemptIsStep ==
  ASSUME engine \in Engine, OnceInv, NEW c \in Context, InitializeModuleCache(c), CacheUnset(c)
  PROVE  ModuleCache!Next \/ UNCHANGED ModuleCache!vars
<1>1. /\ pc[c] = "modules" /\ cacheOnce[EngineOf[c]] = "unset" /\ UNCHANGED pc
      /\ \E o \in {"ok", "failed"} : cacheOnce' = [cacheOnce EXCEPT ![EngineOf[c]] = o]
  BY DEF InitializeModuleCache, CacheUnset, callVars
<1>2. UNCHANGED CachePlace(engine)
  BY <1>1 DEF CachePlace, Place
<1>3. DOMAIN cacheOnce = Engine /\ EngineOf[c] \in Engine
  BY EngineAssumption DEF OnceInv, CacheInv, TypeInv, TypeOK
<1>4. CASE EngineOf[c] # engine
  BY <1>1, <1>2, <1>3, <1>4 DEF ModuleCache!vars
<1>5. CASE EngineOf[c] = engine
  <2>1. c \in Users(engine) /\ CachePlace(engine)[c] = "in"
    BY <1>1, <1>5 DEF Users, CachePlace, Place
  <2>2. cacheOnce[engine] = "unset" /\ cacheOnce'[engine] \in {"ok", "failed"}
    BY <1>1, <1>3, <1>5
  <2> QED
    BY <1>2, <2>1, <2>2 DEF ModuleCache!Next, ModuleCache!Attempt
<1> QED
  BY <1>4, <1>5

(* Every step is one of the module cache's cell, or leaves the cell        *)
(* alone.                                                                  *)
LEMMA ModuleCacheStep ==
  ASSUME engine \in Engine, OnceInv, [Next]_vars
  PROVE  ModuleCache!Next \/ UNCHANGED ModuleCache!vars
<1>1. DOMAIN pc = Context
  BY DEF OnceInv, CacheInv, TypeInv, TypeOK
<1>2. CASE UserRegisters \/ Finished \/ (\E e \in Engine : DestroyEngine(e)) \/ UNCHANGED vars
  <2>1. UNCHANGED <<cacheOnce, pc>>
    BY <1>2 DEF UserRegisters, Finished, DestroyEngine, cacheVars, callVars, vars
  <2> QED
    BY <2>1 DEF ModuleCache!vars, CachePlace, Place
<1>3. ASSUME NEW c \in Context,
             CreateExecutionContext(c) \/ RunAsync(c) \/ CallStep(c) \/ DestroyContext(c)
      PROVE  ModuleCache!Next \/ UNCHANGED ModuleCache!vars
  BY <1>1, <1>3, ContextMovesAtCache, CacheMoveIsStep, AttemptIsStep
<1> QED
  BY <1>2, <1>3 DEF Next

(* The module cache of every Engine is a OnceCell: one attempt, nobody     *)
(* past it before it succeeded or after it failed.                         *)
THEOREM ModuleCacheIsOnceCell ==
  ASSUME engine \in Engine
  PROVE  Spec => ModuleCache!Init /\ [][ModuleCache!Next]_(ModuleCache!vars)
<1>1. Init => OnceInv /\ ModuleCache!Init
  <2>1. Init => PastCacheInv
    BY DEF Init, PastCacheInv, Launching
  <2>2. Init => ModuleCache!Init
    BY DEF Init, ModuleCache!Init, CachePlace, Place, Users
  <2> QED
    BY <2>1, <2>2, CacheInvInitially DEF OnceInv
<1>2. OnceInv /\ [Next]_vars => OnceInv'
  BY CacheInvInductive, PastCacheInvInductive DEF OnceInv
<1>3. OnceInv /\ [Next]_vars => [ModuleCache!Next]_(ModuleCache!vars)
  BY ModuleCacheStep
<1> QED
  BY <1>1, <1>2, <1>3, PTL DEF Spec
-----------------------------------------------------------------------------
(* The constants, whose one attempt takes several steps.                   *)

Constants ==
  INSTANCE OnceCell WITH
    Caller <- Users(engine), outcome <- ConstantsOutcome(engine), place <- ConstantsPlace(engine)

BeforeConstants == {"absent", "idle", "gone"}
AtConstants == {"constants", "upload"}

(* While a Context uploads, nobody else of its Engine does and nobody has  *)
(* the outcome; who is past, or keeps tensors, found the constants there.  *)
PastConstantsInv ==
  \A c \in Context :
    /\ pc[c] = "upload" => constantsOnce[EngineOf[c]] = "running"
    /\ pc[c] = "upload" =>
         \A d \in Context \ {c} : EngineOf[d] = EngineOf[c] => pc[d] # "upload"
    /\ "tensors" \in has[c] \/ pc[c] \notin BeforeConstants \cup AtConstants =>
         constantsOnce[EngineOf[c]] = "ok"

UploadInv == TypeInv /\ PastConstantsInv

(* Constants that are ready stay ready, and nobody comes past them         *)
(* before.                                                                 *)
LEMMA PastConstantsInvInductive ==
  ASSUME UploadInv, [Next]_vars
  PROVE  PastConstantsInv'
<1> USE DEF BeforeConstants, AtConstants, Goto, GotoItem, GotoAfter, Return, Keep,
            engineVars, cacheVars, callVars, contextVars
<1>1. /\ DOMAIN pc = Context /\ DOMAIN has = Context /\ PastConstantsInv
      /\ DOMAIN constantsOnce = Engine /\ \A c \in Context : EngineOf[c] \in Engine
  BY EngineAssumption DEF UploadInv, TypeInv, TypeOK
<1>2. CASE UserRegisters \/ Finished \/ (\E e \in Engine : DestroyEngine(e)) \/ UNCHANGED vars
  BY <1>1, <1>2 DEF UserRegisters, Finished, DestroyEngine, vars, PastConstantsInv
<1>3. ASSUME NEW c \in Context, CreateExecutionContext(c) \/ RunAsync(c) PROVE PastConstantsInv'
  BY <1>1, <1>3 DEF CreateExecutionContext, RunAsync, PastConstantsInv
<1>4. ASSUME NEW c \in Context, InitializeConstants(c) PROVE PastConstantsInv'
  BY <1>1, <1>4 DEF InitializeConstants, ConstantsReady, PastConstantsInv
<1>5. ASSUME NEW c \in Context, FinishUpload(c) PROVE PastConstantsInv'
  BY <1>1, <1>5 DEF FinishUpload, PastConstantsInv
<1>6. ASSUME NEW c \in Context, UploadConstant(c) PROVE PastConstantsInv'
  <2>1. /\ pc[c] = "upload" /\ UNCHANGED has
        /\ \/ pc' = [pc EXCEPT ![c] = "upload"] /\ UNCHANGED constantsOnce
           \/ /\ pc' = [pc EXCEPT ![c] = "constants"]
              /\ constantsOnce' = [constantsOnce EXCEPT ![EngineOf[c]] = "failed"]
    BY <1>6 DEF UploadConstant
  <2> QED
    BY <1>1, <2>1 DEF PastConstantsInv
<1>7. ASSUME NEW c \in Context, PrepareTensors(c) PROVE PastConstantsInv'
  <2>1. /\ pc[c] = "workspace" /\ UNCHANGED constantsOnce
        /\ \E stage \in {"tuning", "idle"} : pc' = [pc EXCEPT ![c] = stage]
        /\ \A d \in Context \ {c} : has'[d] = has[d]
    BY <1>1, <1>7 DEF PrepareTensors
  <2> QED
    BY <1>1, <2>1 DEF PastConstantsInv
<1>8. ASSUME NEW c \in Context, PrepareTuning(c) PROVE PastConstantsInv'
  BY <1>1, <1>8 DEF PrepareTuning, PastConstantsInv
<1>9. ASSUME NEW c \in Context, FindBuiltin(c) \/ RegisterBuiltin(c) \/ InitializeModuleCache(c)
      PROVE  PastConstantsInv'
  BY <1>1, <1>9 DEF FindBuiltin, RegisterBuiltin, InitializeModuleCache, PastConstantsInv
<1>10. ASSUME NEW c \in Context,
              CreateTuningStream(c) \/ Lock(c) \/ FindModule(c) \/ LoadModule(c)
       PROVE  PastConstantsInv'
  <2>1. /\ pc[c] \in {"tune", "lock", "module", "load"} /\ UNCHANGED <<constantsOnce, has>>
        /\ \E stage \in {"lock", "module", "load", "function", "idle"} :
             pc' = [pc EXCEPT ![c] = stage]
    BY <1>10 DEF CreateTuningStream, Lock, FindModule, LoadModule, LoadFails
  <2> QED
    BY <1>1, <2>1 DEF PastConstantsInv
<1>11. ASSUME NEW c \in Context, FindFunction(c) PROVE PastConstantsInv'
  <2>1. /\ pc[c] = "function" /\ UNCHANGED constantsOnce
        /\ \E stage \in {"lock", "register", "cuda", "idle"} : pc' = [pc EXCEPT ![c] = stage]
        /\ \A d \in Context \ {c} : has'[d] = has[d]
    BY <1>1, <1>11 DEF FindFunction, CreateKernel
  <2> QED
    BY <1>1, <2>1 DEF PastConstantsInv
<1>12. ASSUME NEW c \in Context, InitializeCuda(c) PROVE PastConstantsInv'
  BY <1>1, <1>12 DEF InitializeCuda, PastConstantsInv
<1>13. ASSUME NEW c \in Context, BeginCapture(c) \/ EndCapture(c) \/ Submit(c)
       PROVE  PastConstantsInv'
  BY <1>1, <1>13 DEF BeginCapture, EndCapture, Submit, PastConstantsInv
<1>14. ASSUME NEW c \in Context, DestroyContext(c) PROVE PastConstantsInv'
  BY <1>1, <1>14 DEF DestroyContext, PastConstantsInv
<1> QED
  BY <1>2, <1>3, <1>4, <1>5, <1>6, <1>7, <1>8, <1>9, <1>10, <1>11, <1>12, <1>13, <1>14
     DEF Next, CallStep

(* Where a stage is with respect to the constants.                         *)
ConstantsStage(stage) ==
  IF stage \in AtConstants THEN "in" ELSE IF stage \in BeforeConstants THEN "out" ELSE "past"

ConstantsMove(c) ==
  /\ UNCHANGED ConstantsOutcome(engine)
  /\ \E stage : /\ pc' = [pc EXCEPT ![c] = stage]
                /\ Allowed(ConstantsStage(pc[c]), ConstantsStage(stage),
                           ConstantsOutcome(EngineOf[c]))

(* A Context that moves while the constants' outcome stays moves as a      *)
(* caller of the cell may.                                                 *)
LEMMA ConstantsMoveIsStep ==
  ASSUME engine \in Engine, DOMAIN pc = Context, NEW c \in Context, ConstantsMove(c)
  PROVE  Constants!Next \/ UNCHANGED Constants!vars
<1> DEFINE place == ConstantsPlace(engine)
<1>1. PICK stage : /\ pc' = [pc EXCEPT ![c] = stage]
                   /\ Allowed(ConstantsStage(pc[c]), ConstantsStage(stage), ConstantsOutcome(EngineOf[c]))
  BY DEF ConstantsMove
<1>2. /\ DOMAIN place = Users(engine) /\ DOMAIN place' = Users(engine)
      /\ \A d \in Users(engine) : place[d] = ConstantsStage(pc[d]) /\ place'[d] = ConstantsStage(pc'[d])
  BY DEF ConstantsPlace, Place, ConstantsStage, AtConstants, BeforeConstants, Users
<1>3. /\ place = [d \in Users(engine) |-> place[d]]
      /\ place' = [d \in Users(engine) |-> place'[d]]
  BY DEF ConstantsPlace
<1>4. UNCHANGED ConstantsOutcome(engine)
  BY DEF ConstantsMove
<1>5. CASE EngineOf[c] # engine
  <2>1. \A d \in Users(engine) : place'[d] = place[d]
    BY <1>1, <1>2, <1>5 DEF Users
  <2>2. place' = place
    BY <1>2, <1>3, <2>1
  <2> QED
    BY <1>4, <2>2 DEF Constants!vars
<1>6. CASE EngineOf[c] = engine
  <2>1. place' = [place EXCEPT ![c] = ConstantsStage(stage)] /\ place[c] = ConstantsStage(pc[c])
    <3>1. c \in Users(engine)
      BY <1>6 DEF Users
    <3>2. \A d \in Users(engine) : place'[d] = [place EXCEPT ![c] = ConstantsStage(stage)][d]
      BY <1>1, <1>2, <3>1 DEF Users
    <3> QED
      BY <1>2, <1>3, <3>1, <3>2
  <2>2. Allowed(place[c], ConstantsStage(stage), ConstantsOutcome(engine)) /\ c \in Users(engine)
    BY <1>1, <1>6, <2>1 DEF Users
  <2>3. CASE ConstantsStage(stage) = place[c]
    <3>1. place' = place
      BY <1>3, <2>1, <2>3
    <3> QED
      BY <1>4, <3>1 DEF Constants!vars
  <2>4. place[c] \in {"in", "out", "past"}
    BY <2>1 DEF ConstantsStage
  <2>5. CASE ConstantsStage(stage) # place[c]
    <3>1. Constants!Enter(c) \/ Constants!Pass(c) \/ Constants!Skip(c)
            \/ Constants!TurnAway(c) \/ Constants!Leave(c)
      BY <1>4, <2>1, <2>2, <2>4, <2>5 DEF Allowed, Constants!Enter, Constants!Pass,
         Constants!Skip, Constants!TurnAway, Constants!Leave, Constants!Move
    <3> QED
      BY <2>2, <3>1 DEF Constants!Next
  <2> QED
    BY <2>3, <2>5
<1> QED
  BY <1>5, <1>6

(* Every step of a Context moves it as a OnceCell allows, or completes the *)
(* one attempt.                                                            *)
LEMMA ContextMovesAtConstants ==
  ASSUME engine \in Engine, UploadInv, NEW c \in Context,
         CreateExecutionContext(c) \/ RunAsync(c) \/ CallStep(c) \/ DestroyContext(c)
  PROVE  \/ ConstantsMove(c)
         \/ /\ pc[c] = "upload" /\ pc' = [pc EXCEPT ![c] = "constants"]
            /\ \E o \in {"ok", "failed"} :
                 constantsOnce' = [constantsOnce EXCEPT ![EngineOf[c]] = o]
<1> USE DEF ConstantsMove, ConstantsStage, BeforeConstants, AtConstants, Allowed, ConstantsOutcome,
            Goto, GotoItem, GotoAfter, Return, engineVars, cacheVars, callVars, contextVars
<1>1. /\ PastConstantsInv /\ DOMAIN constantsOnce = Engine /\ DOMAIN pc = Context
      /\ EngineOf[c] \in Engine
  BY EngineAssumption DEF UploadInv, TypeInv, TypeOK
<1>2. CASE CreateExecutionContext(c) \/ RunAsync(c)
  BY <1>1, <1>2 DEF CreateExecutionContext, RunAsync, PastConstantsInv
<1>3. CASE InitializeConstants(c)
  BY <1>1, <1>3 DEF InitializeConstants, ConstantsReady
<1>4. CASE FinishUpload(c)
  BY <1>1, <1>4 DEF FinishUpload
<1>5. CASE UploadConstant(c)
  BY <1>1, <1>5 DEF UploadConstant
<1>6. CASE PrepareTensors(c) \/ PrepareTuning(c)
  BY <1>6 DEF PrepareTensors, PrepareTuning
<1>7. CASE FindBuiltin(c) \/ RegisterBuiltin(c)
  BY <1>7 DEF FindBuiltin, RegisterBuiltin
<1>8. CASE InitializeModuleCache(c)
  <2>1. pc = [pc EXCEPT ![c] = pc[c]]
    BY DEF UploadInv, TypeInv, TypeOK
  <2>2. /\ pc[c] = "modules" /\ UNCHANGED constantsOnce
        /\ \E stage \in {"modules", "tune", "lock", "idle"} : pc' = [pc EXCEPT ![c] = stage]
    BY <1>8, <2>1 DEF InitializeModuleCache
  <2> QED
    BY <2>2
<1>9. CASE CreateTuningStream(c) \/ Lock(c)
  BY <1>9 DEF CreateTuningStream, Lock
<1>10. CASE FindModule(c) \/ LoadModule(c)
  BY <1>10 DEF FindModule, LoadModule, LoadFails
<1>11. CASE FindFunction(c)
  <2>1. \E stage \in {"lock", "register", "cuda", "idle"} : pc' = [pc EXCEPT ![c] = stage]
    BY <1>11 DEF FindFunction, CreateKernel
  <2> QED
    BY <1>11, <2>1 DEF FindFunction
<1>12. CASE InitializeCuda(c)
  BY <1>12 DEF InitializeCuda
<1>13. CASE BeginCapture(c) \/ EndCapture(c) \/ Submit(c)
  BY <1>13 DEF BeginCapture, EndCapture, Submit
<1>14. CASE DestroyContext(c)
  BY <1>14 DEF DestroyContext
<1> QED
  BY <1>2, <1>3, <1>4, <1>5, <1>6, <1>7, <1>8, <1>9, <1>10, <1>11, <1>12, <1>13, <1>14
     DEF CallStep

(* The end of the upload is the attempt OnceCell sees.                     *)
LEMMA UploadEndIsStep ==
  ASSUME engine \in Engine, UploadInv, NEW c \in Context,
         pc[c] = "upload", pc' = [pc EXCEPT ![c] = "constants"],
         NEW o \in {"ok", "failed"}, constantsOnce' = [constantsOnce EXCEPT ![EngineOf[c]] = o]
  PROVE  Constants!Next \/ UNCHANGED Constants!vars
<1>1. /\ constantsOnce[EngineOf[c]] = "running" /\ EngineOf[c] \in Engine
      /\ DOMAIN constantsOnce = Engine /\ DOMAIN pc = Context
  BY EngineAssumption DEF UploadInv, PastConstantsInv, TypeInv, TypeOK
<1>2. UNCHANGED ConstantsPlace(engine)
  <2>1. \A d \in Users(engine) : Place(d, {"constants", "upload"}, {})' = Place(d, {"constants", "upload"}, {})
    BY <1>1 DEF Place, Users
  <2> QED
    BY <2>1 DEF ConstantsPlace, Users
<1>3. CASE EngineOf[c] # engine
  BY <1>1, <1>2, <1>3 DEF Constants!vars, ConstantsOutcome
<1>4. CASE EngineOf[c] = engine
  <2>1. c \in Users(engine) /\ ConstantsPlace(engine)[c] = "in"
    BY <1>4 DEF Users, ConstantsPlace, Place
  <2>2. ConstantsOutcome(engine) = "unset" /\ ConstantsOutcome(engine)' \in {"ok", "failed"}
    BY <1>1, <1>4 DEF ConstantsOutcome
  <2> QED
    BY <1>2, <2>1, <2>2 DEF Constants!Next, Constants!Attempt
<1> QED
  BY <1>3, <1>4

(* Every step is one of the constants' cell, or leaves the cell alone.     *)
LEMMA ConstantsStep ==
  ASSUME engine \in Engine, UploadInv, [Next]_vars
  PROVE  Constants!Next \/ UNCHANGED Constants!vars
<1>1. DOMAIN pc = Context
  BY DEF UploadInv, TypeInv, TypeOK
<1>2. CASE UserRegisters \/ Finished \/ (\E e \in Engine : DestroyEngine(e)) \/ UNCHANGED vars
  <2>1. UNCHANGED <<constantsOnce, pc>>
    BY <1>2 DEF UserRegisters, Finished, DestroyEngine, engineVars, callVars, vars
  <2> QED
    BY <2>1 DEF Constants!vars, ConstantsOutcome, ConstantsPlace, Place
<1>3. ASSUME NEW c \in Context,
             CreateExecutionContext(c) \/ RunAsync(c) \/ CallStep(c) \/ DestroyContext(c)
      PROVE  Constants!Next \/ UNCHANGED Constants!vars
  BY <1>1, <1>3, ContextMovesAtConstants, ConstantsMoveIsStep, UploadEndIsStep
<1> QED
  BY <1>2, <1>3 DEF Next

(* The constants of every Engine are a OnceCell, though their upload is    *)
(* one attempt of many steps: nobody goes on before it is complete.        *)
THEOREM ConstantsAreOnceCell ==
  ASSUME engine \in Engine
  PROVE  Spec => Constants!Init /\ [][Constants!Next]_(Constants!vars)
<1>1. Init => UploadInv /\ Constants!Init
  <2>1. Init => PastConstantsInv
    BY DEF Init, PastConstantsInv, BeforeConstants, AtConstants
  <2>2. Init => Constants!Init
    BY DEF Init, Constants!Init, ConstantsOutcome, ConstantsPlace, Place, Users
  <2> QED
    BY <2>1, <2>2, TypeInvInitially DEF UploadInv
<1>2. UploadInv /\ [Next]_vars => UploadInv'
  BY TypeInvInductive, PastConstantsInvInductive DEF UploadInv
<1>3. UploadInv /\ [Next]_vars => [Constants!Next]_(Constants!vars)
  BY ConstantsStep
<1> QED
  BY <1>1, <1>2, <1>3, PTL DEF Spec
=============================================================================
