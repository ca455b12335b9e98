--------------------------- MODULE MCEngineState ---------------------------
(* Small instances of EngineState: one Engine with two Contexts.           *)
EXTENDS EngineState, TLC

CONSTANTS e1, a1, a2, p

MCEngineOf == [c \in Context |-> e1]

(* Two kernels of one PTX.                                                 *)
MCSha256 == [a \in Artifact |-> p]
MCKernels == [e \in Engine |-> <<a1, a2>>]

MCBuiltin == <<"cuda_triton">>

MCFaultSets == {{}, {"retain"}, {"current"}, {"alloc", "copy"}, {"stream", "load", "function"}}
NoFaults == {{}}

Constants ==
  INSTANCE OnceCell WITH
    Caller <- Users(e1), outcome <- ConstantsOutcome(e1), place <- ConstantsPlace(e1)

ModuleCache ==
  INSTANCE OnceCell WITH
    Caller <- Users(e1), outcome <- cacheOnce[e1], place <- CachePlace(e1)

(* call_once (engine.cpp:345, 353) gives every caller the outcome of the   *)
(* one upload, and of the one module cache, there is: nobody goes on before*)
(* it is complete, after a failure nobody goes on and nothing is tried     *)
(* again, nobody waits for ever; a run may ask for the cache twice.        *)
SharedInitializedOnce == Constants!Spec /\ ModuleCache!Spec
=============================================================================
