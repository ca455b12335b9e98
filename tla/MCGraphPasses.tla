---------------------------- MODULE MCGraphPasses ----------------------------
(* Small graphs for GraphPasses.  Value 0 is the graph input, node i       *)
(* computes value i, and values from 10 on are constants.                  *)
EXTENDS GraphPasses

CONSTANTS Size, Observed

Filter == 10
Weight == 11
Scale == 12
Bias == 13
MCValue == (0..5) \cup (10..13)

Described(input) ==
  [v \in MCValue |-> CASE v = 0 -> input
                       [] v = Filter -> "image"
                       [] v = Weight -> "matrix"
                       [] v \in {Scale, Bias} -> "vector"
                       [] OTHER -> "unknown"]

(* The nodes that can compute value n from the values before it.           *)
ImageNodes(n) ==
  UNION {{[op |-> "Conv", ins |-> <<v, Filter>>, out |-> n],
          [op |-> "BatchNormalization", ins |-> <<v, Scale, Bias, Bias, Scale>>, out |-> n],
          [op |-> "Relu", ins |-> <<v>>, out |-> n]} : v \in 0..(n - 1)}
  \cup {[op |-> "Add", ins |-> <<u, n - 1>>, out |-> n] : u \in 0..(n - 1)}

MatrixNodes(n) ==
  UNION {{[op |-> "Gemm", ins |-> <<v, Weight>>, out |-> n],
          [op |-> "LayerNormalization", ins |-> <<v, Scale, Bias>>, out |-> n],
          [op |-> "Gelu", ins |-> <<v>>, out |-> n]} : v \in 0..(n - 1)}
  \cup {[op |-> "Add", ins |-> <<u, n - 1>>, out |-> n] : u \in 0..(n - 1)}

(* Every node's output is read by a later node or is one of the graph's    *)
(* two outputs.                                                            *)
NodeLists(NodesFor(_)) ==
  LET lists[n \in 0..Size] ==
        IF n = 0 THEN {<<>>}
        ELSE {Append(l, node) : l \in lists[n - 1], node \in NodesFor(n)}
  IN  lists[Size]

Unread(l) == {i \in 1..Size : \A j \in DOMAIN l : ~Reads(l, j, i)}

Reversed(l) == [i \in DOMAIN l |-> l[Len(l) + 1 - i]]

MakeGraphs(lists, input) ==
  {g \in {[nodes |-> l, outputs |-> {Size, v}, known |-> Described(input)] :
            l \in lists \cup {Reversed(k) : k \in lists}, v \in 1..Size} :
     Unread(g.nodes) \subseteq g.outputs}

(* Whether a node's output is observed, yet only the next node of a        *)
(* Conv-BatchNormalization-Relu or Add-Relu chain reads it.                *)
ObservedInside(g) ==
  \E i, j \in DOMAIN g.nodes :
    /\ g.nodes[i].out \in g.outputs
    /\ \A l \in DOMAIN g.nodes : Reads(g.nodes, l, g.nodes[i].out) <=> l = j
    /\ <<g.nodes[i].op, g.nodes[j].op>> \in
         {<<"Conv", "BatchNormalization">>, <<"BatchNormalization", "Relu">>,
          <<"Add", "Relu">>}

(* A scale computed between the nodes that merge, once for them alone and  *)
(* once for the caller as well, a matrix product with a bias and one       *)
(* without, a Flatten between the families, a second reader that is dead,  *)
(* and graphs that are rejected: a cycle, an unknown shape, an output      *)
(* nobody describes.                                                       *)
Special ==
  LET list(l, input) == [nodes |-> l, outputs |-> {Len(l)}, known |-> Described(input)]
      late == [op |-> "Relu", ins |-> <<Scale>>, out |-> 2]
  IN  {list(<<[op |-> "Conv", ins |-> <<0, Filter>>, out |-> 1], late,
              [op |-> "BatchNormalization", ins |-> <<1, 2, Bias, Bias, Scale>>, out |-> 3],
              [op |-> "Relu", ins |-> <<3>>, out |-> 4]>>, "image"),
       [list(<<[op |-> "Add", ins |-> <<0, 0>>, out |-> 1], late,
               [op |-> "LayerNormalization", ins |-> <<1, 2, Bias>>, out |-> 3]>>, "matrix")
          EXCEPT !.outputs = {2, 3}],
       list(<<[op |-> "MatMul", ins |-> <<0, Weight>>, out |-> 1],
              [op |-> "Gelu", ins |-> <<1>>, out |-> 2],
              [op |-> "Gemm", ins |-> <<2, Weight, Bias>>, out |-> 3],
              [op |-> "Gelu", ins |-> <<3>>, out |-> 4]>>, "matrix"),
       list(<<[op |-> "Conv", ins |-> <<0, Filter>>, out |-> 1],
              [op |-> "GlobalAveragePool", ins |-> <<1>>, out |-> 2],
              [op |-> "Flatten", ins |-> <<2>>, out |-> 3],
              [op |-> "Gemm", ins |-> <<3, Weight>>, out |-> 4],
              [op |-> "Softmax", ins |-> <<4>>, out |-> 5]>>, "image"),
       list(<<[op |-> "Add", ins |-> <<0, 0>>, out |-> 1],
              [op |-> "Gelu", ins |-> <<1>>, out |-> 2],
              [op |-> "Relu", ins |-> <<1>>, out |-> 3]>>, "image"),
       list(<<[op |-> "Relu", ins |-> <<2>>, out |-> 1],
              [op |-> "Relu", ins |-> <<1>>, out |-> 2]>>, "image"),
       list(<<[op |-> "Conv", ins |-> <<0, Filter>>, out |-> 1]>>, "unknown"),
       [nodes |-> <<>>, outputs |-> {1}, known |-> Described("image")]}

MCGraphs ==
  LET regular == MakeGraphs(NodeLists(ImageNodes), "image")
                   \cup MakeGraphs(NodeLists(MatrixNodes), "matrix")
  IN  IF Observed THEN {g \in regular : ObservedInside(g)}
      ELSE Special \cup {g \in regular : ~ObservedInside(g)}
=============================================================================
