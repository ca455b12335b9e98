--------------------------- MODULE PrimaryContext ---------------------------
(***************************************************************************)
(* What the operations of src/core/buffer.cpp do to the reference count of *)
(* the device's primary context.  Each is the set of outcomes it may have  *)
(* when the driver calls in `faults` may fail: whether it succeeds, how    *)
(* many more references it leaves behind, and whether the primary context  *)
(* is current on the calling thread afterwards because of it.              *)
(***************************************************************************)
EXTENDS Integers

Outcome(ok, retained, current) ==
  [ok |-> ok, retained |-> retained, current |-> current]

Plus(outcome, retained) == [outcome EXCEPT !.retained = @ + retained]

Succeeded(outcomes) == {o \in outcomes : o.ok}
Failed(outcomes) == {o \in outcomes : ~o.ok}

(* When cuCtxSetCurrent fails, the reference just taken stays.             *)
SetCudaDevice(faults) ==
  {Outcome(TRUE, 1, TRUE)}
    \cup {Outcome(FALSE, 0, FALSE) : fault \in faults \cap {"retain"}}
    \cup {Outcome(FALSE, 1, FALSE) : fault \in faults \cap {"current"}}

(* A buffer keeps the reference it was allocated with.  `refused` is       *)
(* whether the driver must fail cuMemAlloc.                                *)
AllocateCuda(faults, refused) ==
  Failed(SetCudaDevice(faults))
    \cup {Outcome(ok, IF ok THEN 1 ELSE 0, TRUE) :
            ok \in {b \in BOOLEAN : IF b THEN ~refused ELSE refused \/ "alloc" \in faults}}

CopyFromHost(faults) ==
  Failed(SetCudaDevice(faults))
    \cup {Plus(o, -1) : o \in Succeeded(SetCudaDevice(faults))}
    \cup {Outcome(FALSE, 0, TRUE) : fault \in faults \cap {"copy"}}

(* Mutant of Release: the deleter gives back one reference.                *)
ReleaseOnce(faults) ==
  Failed(SetCudaDevice(faults))
    \cup {Plus(o, -1) : o \in Succeeded(SetCudaDevice(faults))}

(* The deleter takes a reference of its own before it frees, and gives     *)
(* both back; if it cannot, neither memory nor reference is released.      *)
Release(faults) ==
  Failed(SetCudaDevice(faults))
    \cup {Plus(o, -2) : o \in Succeeded(SetCudaDevice(faults))}

(* The references n deleters leave, or take away when negative.            *)
ReleaseAll(faults, n) ==
  LET Sum[i \in 0..n] ==
        IF i = 0 THEN {0}
        ELSE {a + o.retained : a \in Sum[i - 1], o \in Release(faults)}
  IN  Sum[n]
=============================================================================
