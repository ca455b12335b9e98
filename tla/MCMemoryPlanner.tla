-------------------------- MODULE MCMemoryPlanner ---------------------------
(* Graphs of `size` nodes: node i produces value i from one or two earlier *)
(* values; value 0 is the graph input and the last value the output.  In   *)
(* graphs that are not wide every node reads the value before it.          *)
EXTENDS MemoryPlanner

CONSTANTS WideSize, DeepSize, Flattens, Bytes

MCValue == 0..DeepSize

Sources(wide, i) ==
  {s \in SUBSET (0..(i - 1)) : Cardinality(s) \in 1..2 /\ (wide \/ i - 1 \in s)}

Wirings(wide, size) ==
  LET wirings[n \in 0..size] ==
        IF n = 0 THEN {<<>>}
        ELSE {Append(w, s) : w \in wirings[n - 1], s \in Sources(wide, n)}
  IN  wirings[size]

(* Node i of a wiring; the nodes of `views` are Flattens.                  *)
MakeNode(wiring, views, i) ==
  [flatten |-> i \in views, ins |-> wiring[i], outs |-> <<i>>]

MakeGraph(wiring, views, bytes) ==
  [nodes |-> [i \in DOMAIN wiring |-> MakeNode(wiring, views, i)],
   inputs |-> {0}, outputs |-> {Len(wiring)}, constants |-> {}, bytes |-> bytes]

(* The sets of views of a wiring: at most Flattens, each of one value that *)
(* is not itself a view.                                                   *)
ViewSets(wiring) ==
  {views \in SUBSET {i \in DOMAIN wiring : Cardinality(wiring[i]) = 1} :
     /\ Cardinality(views) <= Flattens
     /\ \A i \in views : wiring[i] \cap views = {}}

(* Sizes of the values between the boundaries, whose sizes do not matter;  *)
(* a view has the size of its source.                                      *)
Sizes(wiring, views) ==
  LET middle == (1..(Len(wiring) - 1)) \ views
      size(chosen, u) == IF u \in middle THEN chosen[u] ELSE 256
      source(i) == CHOOSE s \in wiring[i] : TRUE
  IN  {[u \in MCValue |-> size(chosen, IF u \in views THEN source(u) ELSE u)] :
         chosen \in [middle -> Bytes]}

Regular(wide, size) ==
  UNION {UNION {{MakeGraph(wiring, views, bytes) : bytes \in Sizes(wiring, views)} :
                  views \in ViewSets(wiring)} :
           wiring \in Wirings(wide, size)}

(* Graphs Plan rejects or treats specially: a value of unknown size, a view *)
(* of a constant, a view of another size, a node with two outputs, one of  *)
(* them constant.                                                          *)
Odd ==
  LET chain == [i \in 1..WideSize |-> {i - 1}]
      plain == MakeGraph(chain, {}, [u \in MCValue |-> 256])
      view == MakeGraph(chain, {2}, [u \in MCValue |-> 256])
  IN  {[plain EXCEPT !.bytes[2] = 0],
       [view EXCEPT !.constants = {1}],
       [view EXCEPT !.bytes[2] = 512],
       [plain EXCEPT !.nodes[1].outs = <<1, 3>>, !.nodes[3].outs = <<>>,
                     !.constants = {3}],
       [plain EXCEPT !.nodes[1].outs = <<1, 3>>, !.nodes[3].outs = <<>>]}

MCGraphs == Regular(TRUE, WideSize) \cup Regular(FALSE, DeepSize) \cup Odd

(* A Flatten of a Flatten: value 3 is a view of value 1 through value 2,   *)
(* read by node 5 after node 4 has been placed.                            *)
ChainedWiring == <<{0}, {1}, {2}, {0}, {3, 4}>>
ChainedGraphs == {MakeGraph(ChainedWiring, {2, 3}, [v \in MCValue |-> 256])}
=============================================================================
