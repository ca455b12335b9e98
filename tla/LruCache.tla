------------------------------ MODULE LruCache ------------------------------
(***************************************************************************)
(* What an LRU cache promises, without clocks: its keys in the order they  *)
(* were last used.  docs/architecture.md says each Context keeps such a    *)
(* cache of CUDA graphs; ExecutionContext is shown to implement it.        *)
(***************************************************************************)
EXTENDS Naturals, Sequences

CONSTANT Capacity

VARIABLE order    \* the cached keys, least recently used first

Cached == {order[i] : i \in DOMAIN order}

Init == order = <<>>

(* Using a cached key makes it the most recent.                            *)
Touch ==
  \E i \in DOMAIN order :
    order' = SubSeq(order, 1, i - 1) \o SubSeq(order, i + 1, Len(order))
               \o <<order[i]>>

(* A new key enters as the most recent; a full cache drops its oldest key. *)
Insert ==
  /\ order' # <<>>
  /\ order'[Len(order')] \notin Cached
  /\ order' = Append(IF Len(order) = Capacity THEN Tail(order) ELSE order,
                     order'[Len(order')])

Clear == order' = <<>>

Next == Touch \/ Insert \/ Clear

Spec == Init /\ [][Next]_order
=============================================================================
