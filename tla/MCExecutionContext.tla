------------------------- MODULE MCExecutionContext -------------------------
(* Small instances of ExecutionContext: one input, one output, one value   *)
(* in the workspace and one Flatten view, two ops.                         *)
EXTENDS ExecutionContext, TLC

CONSTANTS x, y, t, v, w, small, large, broken

(* Profile 1 accepts both inferable shapes and one that inference rejects; *)
(* profile 2 only the large one.                                           *)
MCInferable == {small, large}
MCOptShape == [p \in 1..ProfileCount |-> IF p = 1 THEN small ELSE large]
MCInRange == [p \in 1..ProfileCount |-> IF p = 1 THEN {small, large, broken} ELSE {large}]
MCPlanBytes == [p \in 0..ProfileCount |-> IF p = 2 THEN 512 ELSE 256]

(* The view shares the input's buffer (boundary) or t's workspace range.   *)
ViewOfInput == v :> x
ViewOfLocal == v :> t
NoView == <<>>

OneCandidate == [i \in 1..OpCount |-> 1]
TwoThenOne == [i \in 1..OpCount |-> IF i = 1 THEN 2 ELSE 1]
=============================================================================
