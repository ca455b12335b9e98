---------------------------- MODULE GraphPasses ----------------------------
(***************************************************************************)
(* The graph a model is compiled from and the pipeline of passes Compiler  *)
(* runs on it: Graph::TopologicalSort and RemoveNodes (src/ir/graph.cpp),  *)
(* the passes and CreateDefaultCompilePasses (src/ir/pass.cpp).  A fusion  *)
(* pass rewrites one pair of nodes per step, as its loop does; every other *)
(* pass is one step.                                                       *)
(*                                                                         *)
(* A node's id is its position: every change of the node list renumbers    *)
(* it.  Nodes have one output, as every schema demands, and node names and *)
(* attributes are left out: no pass decides anything by them.              *)
(***************************************************************************)
EXTENDS OpSchema, FiniteSets

CONSTANTS
  Value,                     \* the graph's values
  Graphs,                    \* the graphs compiled
  EnableTransformerFusions   \* CompileOptions::enable_transformer_fusions

Op == ConvLike \cup SameAsInput \cup Elementwise \cup GemmLike \cup PoolLike
        \cup {"Flatten", "LayerNormalization", "SkipLayerNormalization"}

Node == [op : Op, ins : Seq(Value), out : Value]

ASSUME GraphAssumption ==
  /\ EnableTransformerFusions \in BOOLEAN
  /\ \A g \in Graphs : /\ g.nodes \in Seq(Node) /\ g.outputs \subseteq Value
                       /\ g.known \in [Value -> Kind]

VARIABLES
  nodes,    \* the nodes, in order
  outputs,  \* the graph's outputs; never changes
  known,    \* known[v]: the kind of v's description
  passes,   \* the passes still to run, the running one first
  status    \* "running", "ok" or "failed"

vars == <<nodes, outputs, known, passes, status>>

(* Mutant of Pipeline: the graph is not sorted again after the fusions.    *)
PipelineSortedOnce ==
  <<"topological_sort", "shape_inference", "constant_folding",
    "dead_node_elimination", "conv_batchnorm_relu_fusion", "add_relu_fusion">>
  \o (IF EnableTransformerFusions
      THEN <<"gemm_gelu_fusion", "skip_layer_norm_fusion">> ELSE <<>>)
  \o <<"shape_inference", "flatten_gemm_normalization",
       "dead_node_elimination", "static_shape_validation">>

Pipeline ==
  <<"topological_sort", "shape_inference", "constant_folding",
    "dead_node_elimination", "conv_batchnorm_relu_fusion", "add_relu_fusion">>
  \o (IF EnableTransformerFusions
      THEN <<"gemm_gelu_fusion", "skip_layer_norm_fusion">> ELSE <<>>)
  \o <<"topological_sort", "shape_inference", "flatten_gemm_normalization",
       "dead_node_elimination", "static_shape_validation">>

Init ==
  /\ \E g \in Graphs : nodes = g.nodes /\ outputs = g.outputs /\ known = g.known
  /\ passes = Pipeline /\ status = "running"
-----------------------------------------------------------------------------
(* PassManager::Run.                                                       *)

Running(pass) == status = "running" /\ passes # <<>> /\ Head(passes) = pass

(* Mutant of NextPass: the pass that has finished is run again.            *)
SamePass == UNCHANGED <<passes, status>>

NextPass == passes' = Tail(passes) /\ UNCHANGED status

Fail == status' = "failed" /\ UNCHANGED passes

Finish ==
  /\ status = "running" /\ passes = <<>>
  /\ status' = "ok"
  /\ UNCHANGED <<nodes, outputs, known, passes>>
-----------------------------------------------------------------------------
(* Analyses of a node list.                                                *)

(* The positions in 1..n that S has, in increasing order.                  *)
Positions(n, S) ==
  LET upTo[i \in 0..n] ==
        IF i = 0 THEN <<>>
        ELSE IF i \in S THEN Append(upTo[i - 1], i) ELSE upTo[i - 1]
  IN  upTo[n]

(* What s has at the positions in S, in order.                             *)
Kept(s, S) ==
  LET kept == Positions(Len(s), S)
  IN  [i \in DOMAIN kept |-> s[kept[i]]]

(* BuildProducerMap: of several producers of a value the last one counts.  *)
Producers(ns, v) == {i \in DOMAIN ns : ns[i].out = v}

Producer(ns, v) ==
  CHOOSE i \in Producers(ns, v) : \A j \in Producers(ns, v) : i >= j

Reads(ns, i, v) == \E k \in DOMAIN ns[i].ins : ns[i].ins[k] = v

(* The nodes i waits for: a node that reads its own output does not.       *)
Dependencies(ns, i) ==
  {Producer(ns, v) : v \in {u \in Value : Reads(ns, i, u) /\ Producers(ns, u) # {}}}
    \ {i}

(* Kahn's algorithm: the queue of ready nodes is also the order.  Taking   *)
(* its k-th node adds those that waited for that node and for none behind  *)
(* it; a cycle's nodes never become ready.                                 *)
KahnOrder(ns) ==
  LET n == Len(ns)
      take(k) ==
        [queue \in Seq(1..n) |->
           IF k > Len(queue) THEN queue
           ELSE queue \o Positions(n,
                  {i \in 1..n :
                     /\ queue[k] \in Dependencies(ns, i)
                     /\ Dependencies(ns, i) \subseteq {queue[j] : j \in 1..k}})]
      taken[k \in 0..n] ==
        IF k = 0 THEN Positions(n, {i \in 1..n : Dependencies(ns, i) = {}})
        ELSE take(k)[taken[k - 1]]
  IN  taken[n]

RemoveNodes(ns, removed) == Kept(ns, DOMAIN ns \ removed)

(* ShapeInferencePass: node by node, up to the first one it rejects.       *)
Inferred(ns, kinds) ==
  LET infer(n) ==
        [found \in [ok : BOOLEAN, known : [Value -> Kind]] |->
           LET args == [k \in DOMAIN ns[n].ins |-> found.known[ns[n].ins[k]]]
           IN  IF found.ok /\ Accepts(ns[n].op, args)
               THEN [found EXCEPT !.known[ns[n].out] = OutputKind(ns[n].op, args)]
               ELSE [found EXCEPT !.ok = FALSE]]
      after[n \in 0..Len(ns)] ==
        IF n = 0 THEN [ok |-> TRUE, known |-> kinds] ELSE infer(n)[after[n - 1]]
  IN  after[Len(ns)]

(* The values some kept node from position i on needs.                     *)
NeededFrom(ns, outs, i) ==
  LET needed[j \in i..(Len(ns) + 1)] ==
        IF j > Len(ns) THEN outs
        ELSE IF ns[j].out \in needed[j + 1]
             THEN needed[j + 1] \cup {ns[j].ins[k] : k \in DOMAIN ns[j].ins}
             ELSE needed[j + 1]
  IN  needed[i]

DeadNodes(ns, outs) ==
  {i \in DOMAIN ns : ns[i].out \notin NeededFrom(ns, outs, i + 1)}
-----------------------------------------------------------------------------
(* The passes.                                                             *)

TopologicalSort ==
  /\ Running("topological_sort")
  /\ LET order == KahnOrder(nodes)
     IN  \/ /\ Len(order) = Len(nodes)
            /\ nodes' = [i \in DOMAIN order |-> nodes[order[i]]]
            /\ NextPass
         \/ Len(order) # Len(nodes) /\ Fail /\ UNCHANGED nodes
  /\ UNCHANGED <<outputs, known>>

InferShapes ==
  /\ Running("shape_inference")
  /\ LET result == Inferred(nodes, known)
     IN  /\ known' = result.known
         /\ \/ result.ok /\ NextPass
            \/ ~result.ok /\ Fail
  /\ UNCHANGED <<nodes, outputs>>

(* The pass is a placeholder.                                              *)
FoldConstants ==
  /\ Running("constant_folding")
  /\ NextPass
  /\ UNCHANGED <<nodes, outputs, known>>

EliminateDeadNodes ==
  /\ Running("dead_node_elimination")
  /\ nodes' = RemoveNodes(nodes, DeadNodes(nodes, outputs))
  /\ NextPass
  /\ UNCHANGED <<outputs, known>>

(* Mutant of OnlyReader: other readers of the value are overlooked.        *)
SomeReader(i, j) == Reads(nodes, j, nodes[i].out)

(* Every read of node i's output is one input of node j.                   *)
OnlyReader(i, j) ==
  /\ \A l \in DOMAIN nodes : Reads(nodes, l, nodes[i].out) <=> l = j
  /\ Cardinality({k \in DOMAIN nodes[j].ins : nodes[j].ins[k] = nodes[i].out}) = 1

(* Nodes a fusion pass may merge: i's output is read by j alone.           *)
Pairs(first, second) ==
  {p \in (DOMAIN nodes) \X (DOMAIN nodes) :
     /\ nodes[p[1]].op = first /\ nodes[p[2]].op = second
     /\ OnlyReader(p[1], p[2])}

(* One round of a fusion pass: the first pair p is merged into its first   *)
(* node, which becomes fused[p], and the nodes removed[p] are removed;     *)
(* without a pair the pass is over.                                        *)
FusionPass(pass, pairs, fused, removed) ==
  /\ Running(pass)
  /\ \/ pairs = {} /\ NextPass /\ UNCHANGED nodes
     \/ /\ \E p \in pairs :
             /\ \A q \in pairs : p[1] <= q[1]
             /\ nodes' = RemoveNodes([nodes EXCEPT ![p[1]] = fused[p]], removed[p])
        /\ UNCHANGED <<passes, status>>
  /\ UNCHANGED <<outputs, known>>

(* The Relu that is the only reader of a normalisation joins the fusion.   *)
FollowingRelu(bn) == {r \in DOMAIN nodes : nodes[r].op = "Relu" /\ OnlyReader(bn, r)}

FusedConvOp(bn) ==
  IF FollowingRelu(bn) = {} THEN "FusedConvBatchNorm" ELSE "FusedConvBatchNormRelu"

(* Neither this pass nor the next asks whether a merged node's output is   *)
(* an output of the graph.                                                 *)
FuseConvBatchNormRelu ==
  LET pairs == Pairs("Conv", "BatchNormalization")
      removed == [p \in pairs |-> {p[2]} \cup FollowingRelu(p[2])]
      last(p) == IF FollowingRelu(p[2]) = {} THEN p[2]
                 ELSE CHOOSE relu \in FollowingRelu(p[2]) : TRUE
      fused == [p \in pairs |->
                  [op |-> FusedConvOp(p[2]),
                   ins |-> nodes[p[1]].ins \o Tail(nodes[p[2]].ins),
                   out |-> nodes[last(p)].out]]
  IN  FusionPass("conv_batchnorm_relu_fusion", pairs, fused, removed)

(* Nodes i and j as one node that takes i's inputs.                        *)
Merged(op, i, j) == [op |-> op, ins |-> nodes[i].ins, out |-> nodes[j].out]

FuseAddRelu ==
  LET pairs == Pairs("Add", "Relu")
  IN  FusionPass("add_relu_fusion", pairs,
                 [p \in pairs |-> Merged("AddRelu", p[1], p[2])],
                 [p \in pairs |-> {p[2]}])

Unobserved(pairs) == {p \in pairs : nodes[p[1]].out \notin outputs}

FuseGemmGelu ==
  LET pairs == Unobserved(Pairs("Gemm", "Gelu"))
  IN  FusionPass("gemm_gelu_fusion", pairs,
                 [p \in pairs |-> Merged("GemmGelu", p[1], p[2])],
                 [p \in pairs |-> {p[2]}])

SkipLayerNormalization(add, norm) ==
  [op |-> "SkipLayerNormalization",
   ins |-> nodes[add].ins \o Tail(nodes[norm].ins), out |-> nodes[norm].out]

(* Only a normalisation with a bias, of the sum itself, is merged.         *)
FuseSkipLayerNormalization ==
  LET pairs == {p \in Unobserved(Pairs("Add", "LayerNormalization")) :
                  /\ Len(nodes[p[2]].ins) = 3
                  /\ nodes[p[2]].ins[1] = nodes[p[1]].out}
  IN  FusionPass("skip_layer_norm_fusion", pairs,
                 [p \in pairs |-> SkipLayerNormalization(p[1], p[2])],
                 [p \in pairs |-> {p[2]}])

Normalize ==
  /\ Running("flatten_gemm_normalization")
  /\ nodes' = [i \in DOMAIN nodes |->
                 IF nodes[i].op = "MatMul" THEN [nodes[i] EXCEPT !.op = "Gemm"]
                                           ELSE nodes[i]]
  /\ NextPass
  /\ UNCHANGED <<outputs, known>>

(* An output must be described; whether anything produces it is not asked. *)
ValidateShapes ==
  /\ Running("static_shape_validation")
  /\ \/ (\A v \in outputs : known[v] # "unknown") /\ NextPass
     \/ (\E v \in outputs : known[v] = "unknown") /\ Fail
  /\ UNCHANGED <<nodes, outputs, known>>

Stopped == status # "running" /\ UNCHANGED vars
-----------------------------------------------------------------------------
PassStep ==
  \/ TopologicalSort \/ InferShapes \/ FoldConstants \/ EliminateDeadNodes
  \/ FuseConvBatchNormRelu \/ FuseAddRelu \/ FuseGemmGelu
  \/ FuseSkipLayerNormalization \/ Normalize \/ ValidateShapes
  \/ Finish

Next == PassStep \/ Stopped

Spec == Init /\ [][Next]_vars
-----------------------------------------------------------------------------
(* Properties.                                                             *)

(* The type of every variable.                                             *)
TypeOK ==
  /\ nodes \in Seq(Node) /\ outputs \subseteq Value
  /\ known \in [Value -> Kind]
  /\ passes \in Seq({Pipeline[i] : i \in DOMAIN Pipeline})
  /\ status \in {"running", "ok", "failed"}

(* A node as a term of unfused operators, by the decompositions the fusion *)
(* registry declares equivalent (src/ir/fusion.cpp).                       *)
Term(op, args) ==
  LET conv == <<"Conv", args[1], args[2]>>
      bn == <<"BatchNormalization", conv>> \o SubSeq(args, 3, Len(args))
      add == <<"Add", args[1], args[2]>>
  IN  CASE op = "FusedConvBatchNorm" -> bn
        [] op = "FusedConvBatchNormRelu" -> <<"Relu", bn>>
        [] op = "AddRelu" -> <<"Relu", add>>
        [] op = "GemmGelu" -> <<"Gelu", <<"Gemm">> \o args>>
        [] op = "SkipLayerNormalization" ->
             <<"LayerNormalization", add>> \o SubSeq(args, 3, Len(args))
        [] op = "MatMul" -> <<"Gemm">> \o args
        [] OTHER -> <<op>> \o args

(* What a node computes, if its inputs are computed as below says.         *)
NodeTerm(node, below) ==
  Term(node.op, [k \in DOMAIN node.ins |-> below[node.ins[k]]])

(* What the values are computed as, from as many nodes behind one another  *)
(* as there are; a value nobody produces stands for itself.                *)
Meaning(ns) ==
  LET behind[depth \in 0..Len(ns)] ==
        [v \in Value |->
           IF depth = 0 \/ Producers(ns, v) = {} THEN <<"value", v>>
           ELSE NodeTerm(ns[Producer(ns, v)], behind[depth - 1])]
  IN  behind[Len(ns)]

(* No pass changes what an output of the graph is computed as: merging,    *)
(* removing and reordering nodes keeps every output a caller observes      *)
(* (implementation_walkthrough.md: what is observable must match too).     *)
OutputsPreserved ==
  [][nodes' # nodes =>
       \A v \in outputs : Meaning(nodes')[v] = Meaning(nodes)[v]]_vars

(* The graph the passes leave is one a plan can be made of.  Its order is  *)
(* that the plan's ops run in: each after the producers of its inputs,     *)
(* although a merged node sits where its first part was and reads what was *)
(* computed between its parts.  Shapes once inferred can be inferred again:*)
(* only the first sort, the first inference or the last validation may     *)
(* reject a graph, never what the fusions made of it, and the result,      *)
(* which is inferred again for every profile and every input shape set at  *)
(* run time, is accepted and keeps its descriptions.                       *)
OptimizedGraphRuns ==
  /\ status = "ok" =>
       /\ \A i \in DOMAIN nodes : \A d \in Dependencies(nodes, i) : d < i
       /\ Inferred(nodes, known) = [ok |-> TRUE, known |-> known]
  /\ status = "failed" => Len(passes) \in {Len(Pipeline), Len(Pipeline) - 1, 1}
=============================================================================
