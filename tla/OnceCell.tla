------------------------------ MODULE OnceCell ------------------------------
(***************************************************************************)
(* What callers may expect of a value that is initialised once: some       *)
(* caller that is in makes the one attempt there ever is; a caller passes  *)
(* only when it succeeded, is turned away only when it failed, and no      *)
(* caller waits for ever.                                                  *)
(***************************************************************************)
CONSTANTS Caller

VARIABLES
  outcome,  \* "unset", then "ok" or "failed"
  place     \* place[c]: "out", "in" or "past" the initialisation

vars == <<outcome, place>>

Init == outcome = "unset" /\ place = [c \in Caller |-> "out"]

Move(c, from, to) == place[c] = from /\ place' = [place EXCEPT ![c] = to]

Enter(c) == (Move(c, "out", "in") \/ Move(c, "past", "in")) /\ UNCHANGED outcome

Attempt ==
  /\ outcome = "unset" /\ \E c \in Caller : place[c] = "in"
  /\ outcome' \in {"ok", "failed"}
  /\ UNCHANGED place

Pass(c) == outcome = "ok" /\ Move(c, "in", "past") /\ UNCHANGED outcome

(* A caller that keeps what it once got need not ask again.                *)
Skip(c) == outcome = "ok" /\ Move(c, "out", "past") /\ UNCHANGED outcome

TurnAway(c) == outcome = "failed" /\ Move(c, "in", "out") /\ UNCHANGED outcome

Leave(c) == Move(c, "past", "out") /\ UNCHANGED outcome

Next ==
  \/ Attempt
  \/ \E c \in Caller : Enter(c) \/ Pass(c) \/ Skip(c) \/ TurnAway(c) \/ Leave(c)

Spec ==
  /\ Init /\ [][Next]_vars
  /\ WF_vars(Attempt)
  /\ \A c \in Caller : WF_vars(Pass(c) \/ TurnAway(c))
=============================================================================
