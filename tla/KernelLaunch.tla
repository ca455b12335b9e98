---------------------------- MODULE KernelLaunch -----------------------------
(***************************************************************************)
(* From a shape profile to the programs that run: ValidateProfiles and     *)
(* ResolveProfileGraph at the profile's three points (src/compiler/        *)
(* compiler.cpp), the selection of kernels (ArtifactMatches, src/backend/  *)
(* backend.cpp), SetInputShape, ResolveShapes and PrepareTensors of a      *)
(* Context (src/runtime/engine.cpp), and ArgumentBinder and the grid of    *)
(* every launch (src/backend/cuda_launcher.cpp).                           *)
(*                                                                         *)
(* A model's graph is one the passes leave as it is, in topological order. *)
(* The plan is the bytes MemoryPlanner reserves for each intermediate; it  *)
(* keeps them apart (module MemoryPlanner).  Tuning may choose any of a    *)
(* node's kernels; candidates of several kernels are left to Compiler.     *)
(* Bound boundary tensors have the resolved shapes.                        *)
(***************************************************************************)
EXTENDS TritonKernels, FiniteSets

CONSTANTS
  Value,
  Models,    \* the models compiled, each with its profile
  Requests,  \* Requests[v]: the shapes the caller asks for input v
  UInt32Max,
  Nil

(* Attributes are integers and lists of them; a window moves forward.      *)
TypedNode(node) ==
  /\ node.ins \in Seq(Value) /\ node.out \in Value
  /\ \A key \in DOMAIN node.lists : node.lists[key] \in Seq(Int)
  /\ \A key \in DOMAIN node.ints : node.ints[key] \in Int
  /\ {Strides(node), PoolStrides(node)} \subseteq Seq(Nat \ {0})

(* One producer for each value, before the nodes that read it.             *)
InOrder(nodes) ==
  \A i, j \in DOMAIN nodes :
    /\ nodes[i].out = nodes[j].out => i = j
    /\ \A k \in DOMAIN nodes[i].ins : nodes[i].ins[k] = nodes[j].out => j < i

(* descs describes inputs and constants; profile gives each input's range. *)
ASSUME ModelAssumption ==
  /\ UInt32Max \in Nat /\ Int32Max < UInt32Max /\ UInt32Max < Int64Max
  /\ \A v \in DOMAIN Requests : Requests[v] \subseteq Seq(Int)
  /\ \A m \in Models :
       /\ m.inputs \subseteq Value /\ m.outputs \subseteq Value /\ m.descs \in [Value -> Desc]
       /\ m.nodes \in Seq(Range(m.nodes)) /\ InOrder(m.nodes)
       /\ \A i \in DOMAIN m.nodes : TypedNode(m.nodes[i]) /\ m.nodes[i].out \notin m.inputs
       /\ DOMAIN m.profile \subseteq m.inputs /\ m.inputs \subseteq DOMAIN Requests
       /\ \A v \in DOMAIN m.profile :
            m.profile[v] \in [min : Seq(Int), opt : Seq(Int), max : Seq(Int)]

VARIABLES
  model,    \* never changes
  stage,    \* "validate", "lower", "plan", "select", "resolved", "run" or "failed"
  points,   \* the profile's points still to be planned
  kernels,  \* the kernels the plan has for each node
  plan,     \* plan[v]: the bytes reserved for v at the max point, 0 for none
  shapes,   \* input_shapes_
  descs,    \* resolved_graph_: the active descriptions
  at,       \* the op RunAsync is at
  last,     \* the last kernel launched
  refused   \* the function that returned the last error, or "none"

compiled == <<kernels, plan>>
vars == <<model, stage, points, compiled, shapes, descs, at, last, refused>>

Nodes == model.nodes

Init ==
  /\ model \in Models
  /\ stage = "validate" /\ points = <<"min", "opt", "max">>
  /\ kernels = <<>> /\ plan = [v \in Value |-> 0]
  /\ shapes = [v \in model.inputs |-> Nil] /\ descs = model.descs
  /\ at = 1 /\ last = Nil /\ refused = "none"

Refuse(function) == refused' = function

(* Compile returns an error: there is no Engine.                           *)
CompileFails(function) ==
  /\ stage' = "failed" /\ Refuse(function)
  /\ UNCHANGED <<model, points, compiled, shapes, descs, at, last>>
-----------------------------------------------------------------------------
(* Compile.                                                                *)

RangeValid(range) ==
  /\ range.min # <<>>
  /\ Len(range.opt) = Len(range.min) /\ Len(range.max) = Len(range.min)
  /\ \A i \in DOMAIN range.min :
       0 < range.min[i] /\ range.min[i] <= range.opt[i] /\ range.opt[i] <= range.max[i]

ValidateProfiles ==
  /\ stage = "validate"
  /\ LET valid == \A v \in model.inputs :
                    v \in DOMAIN model.profile /\ RangeValid(model.profile[v])
     IN  \/ /\ valid /\ stage' = "lower"
            /\ UNCHANGED <<model, points, compiled, shapes, descs, at, last, refused>>
         \/ ~valid /\ CompileFails("ValidateProfiles")

(* ResolveProfileGraph: the descriptions at shapes s of the inputs; none   *)
(* if a node's inference fails.                                            *)
AtShapes(s) ==
  InferAll(Nodes, [v \in Value |-> IF v \in model.inputs
                                   THEN [model.descs[v] EXCEPT !.shape = s[v]]
                                   ELSE model.descs[v]])

AtPoint(point) == AtShapes([v \in model.inputs |-> model.profile[v][point]])

(* Mutant of Matches: attribute constraints are not evaluated.             *)
MatchesIgnoringAttributes(kernel, node, d) ==
  /\ kernel.op = node.op /\ kernel.dtype = d[node.out].dtype
  /\ kernel.layout \in {"", d[node.ins[1]].layout}
  /\ kernel.layout \in {"", d[node.out].layout}
  /\ Len(node.ins) \in kernel.counts
  /\ \A k \in DOMAIN kernel.ranks : Len(d[node.ins[k]].shape) = kernel.ranks[k]

(* ArtifactMatches.                                                        *)
Matches(kernel, node, d) ==
  /\ kernel.op = node.op /\ kernel.dtype = d[node.out].dtype
  /\ kernel.layout \in {"", d[node.ins[1]].layout}
  /\ kernel.layout \in {"", d[node.out].layout}
  /\ Len(node.ins) \in kernel.counts
  /\ \A key \in kernel.zeros : IntAttribute(node, key, 0) = 0
  /\ \A k \in DOMAIN kernel.ranks : Len(d[node.ins[k]].shape) = kernel.ranks[k]

IsView(node) == node.op = "Flatten"
Views == {i \in DOMAIN Nodes : IsView(Nodes[i])}

(* The graph is inferred at the opt point and validated, and each node     *)
(* lowered to the kernels that match it there; a Flatten needs none, but   *)
(* may not compute an output.                                              *)
Lower ==
  /\ stage = "lower"
  /\ LET matching(d) == [i \in DOMAIN Nodes |-> {k \in Kernels : Matches(k, Nodes[i], d)}]
         supported(d) ==
           /\ \A v \in Value : d[v].dtype # "unknown" => Valid(d[v])
           /\ \A i \in DOMAIN Nodes : IF i \in Views THEN Nodes[i].out \notin model.outputs
                                      ELSE matching(d)[i] # {}
     IN  \/ \E d \in AtPoint("opt") :
              /\ supported(d)
              /\ kernels' = matching(d) /\ stage' = "plan"
              /\ UNCHANGED <<model, points, plan, shapes, descs, at, last, refused>>
         \/ ~(\E d \in AtPoint("opt") : supported(d)) /\ CompileFails("Lower")

Intermediates == {Nodes[i].out : i \in DOMAIN Nodes} \ model.outputs
ViewSource(v) == Nodes[CHOOSE i \in Views : Nodes[i].out = v].ins[1]
ViewValues == {Nodes[i].out : i \in Views}

(* MemoryPlanner::Plan fails on an intermediate of no size, and on a view  *)
(* of another size than its source's.                                      *)
Plannable(d) ==
  \A v \in Intermediates : IF v \in ViewValues
                           THEN ByteSize(d[v]) = ByteSize(d[ViewSource(v)])
                           ELSE ByteSize(d[v]) # 0

(* Mutant of ResolvedAt: the min point is not resolved.                    *)
ResolvedAtLeastOpt(point) == AtPoint(IF point = "min" THEN "opt" ELSE point)

ResolvedAt(point) == AtPoint(point)

(* Mutant of Reserved: memory is planned for the opt point.                *)
ReservedAtOpt(d) ==
  [v \in Value |-> IF v \in Intermediates
                   THEN ByteSize((CHOOSE opt \in AtPoint("opt") : TRUE)[v]) ELSE 0]

Reserved(d) == [v \in Value |-> IF v \in Intermediates THEN ByteSize(d[v]) ELSE 0]

(* The graph is resolved at the min, opt and max points, one after the     *)
(* other, and memory is planned at max.                                    *)
PlanPoint ==
  /\ stage = "plan"
  /\ \/ \E d \in ResolvedAt(Head(points)) :
          /\ points' = Tail(points)
          /\ \/ Head(points) # "max" /\ UNCHANGED <<plan, stage>>
             \/ /\ Head(points) = "max" /\ Plannable(d)
                /\ plan' = Reserved(d) /\ stage' = "compiled"
          /\ UNCHANGED <<model, kernels, shapes, descs, at, last, refused>>
     \/ /\ ~\E d \in ResolvedAt(Head(points)) : Head(points) = "max" => Plannable(d)
        /\ CompileFails("PlanPoint")
-----------------------------------------------------------------------------
(* The Context.                                                            *)

(* Reconfiguring drops what was prepared; the call succeeds.               *)
Reconfigure(next) ==
  /\ stage' = next /\ last' = Nil /\ refused' = "none"
  /\ UNCHANGED <<model, points, compiled, at>>

SelectShapeProfile ==
  /\ stage \in {"compiled", "unresolved", "resolved"}
  /\ shapes' = [v \in model.inputs |-> model.profile[v].opt]
  /\ descs' \in AtPoint("opt")
  /\ Reconfigure("resolved")

InRange(v, shape) ==
  LET range == model.profile[v]
  IN  /\ Len(shape) = Len(range.min)
      /\ \A i \in DOMAIN shape : range.min[i] <= shape[i] /\ shape[i] <= range.max[i]

SetInputShape(v, shape) ==
  /\ stage \in {"unresolved", "resolved"}
  /\ \/ /\ InRange(v, shape)
        /\ shapes' = [shapes EXCEPT ![v] = shape]
        /\ Reconfigure("unresolved")
        /\ UNCHANGED descs
     \/ /\ ~InRange(v, shape) /\ Refuse("SetInputShape")
        /\ UNCHANGED <<model, stage, points, compiled, shapes, descs, at, last>>

(* Descriptions a failing inference leaves are not used.                   *)
ResolveShapes ==
  /\ stage = "unresolved"
  /\ \/ descs' \in AtShapes(shapes) /\ Reconfigure("resolved") /\ UNCHANGED shapes
     \/ /\ AtShapes(shapes) = {} /\ Refuse("ResolveShapes")
        /\ UNCHANGED <<model, stage, points, compiled, shapes, descs, at, last>>

(* Binding validates the tensors, PrepareTensors that views keep their     *)
(* source's bytes.  A run of no ops is over at once.                       *)
StartRun ==
  /\ stage = "resolved"
  /\ LET bound == \A v \in model.inputs \cup model.outputs : Valid(descs[v])
         viewsFit == \A v \in ViewValues : ByteSize(descs[v]) = ByteSize(descs[ViewSource(v)])
     IN  \/ /\ bound /\ viewsFit
            /\ stage' = IF Nodes = <<>> THEN "resolved" ELSE "run"
            /\ at' = 1 /\ last' = Nil /\ refused' = "none"
         \/ /\ ~(bound /\ viewsFit) /\ UNCHANGED <<stage, at, last>>
            /\ Refuse(IF bound THEN "PrepareTensors" ELSE "BindTensors")
  /\ UNCHANGED <<model, points, compiled, shapes, descs>>
-----------------------------------------------------------------------------
(* ArgumentBinder.                                                         *)

Bounded(value) == {n \in {value} : n \in 1..Int32Max}

DimensionOf(shape, axis) ==
  {shape[i] : i \in {i \in DOMAIN shape : i = axis /\ shape[i] <= Int32Max}}

(* A list attribute, else a scalar one, else the default.                  *)
AttributeOf(node, source) ==
  IF source.key \in DOMAIN node.lists /\ source.position \in DOMAIN node.lists[source.key]
  THEN node.lists[source.key][source.position]
  ELSE IntAttribute(node, source.key, source.default)

NumelArgument(shape) == Bounded(NumElements(shape))

(* The value of an argument, in a set that is empty if binding it fails.   *)
ArgumentOf(source, node, d) ==
  LET input == d[node.ins[source.index]].shape
      output == d[node.out].shape
  IN  CASE source.kind = "input_dim" ->
             IF source.index \in DOMAIN node.ins THEN DimensionOf(input, source.axis) ELSE {}
        [] source.kind = "output_dim" -> DimensionOf(output, source.axis)
        [] source.kind = "input_dim_product" ->
             IF source.index \in DOMAIN node.ins /\ source.begin \in 1..(Len(input) + 1)
             THEN Bounded(Product(input, source.begin, Len(input))) ELSE {}
        [] source.kind = "output_numel" -> NumelArgument(output)
        [] source.kind = "attribute_i64" -> {Int32(AttributeOf(node, source))}

Bind(kernel, node, d) ==
  LET values(name) == ArgumentOf(kernel.arguments[name], node, d)
      names == DOMAIN kernel.arguments
  IN  IF \E name \in names : values(name) = {} THEN {}
      ELSE {[name \in names |-> CHOOSE n \in values(name) : TRUE]}

(* EvaluateGridExpression on a part without operands, and on an operator   *)
(* of the values a and b; 0 stands for every error.                        *)
LeafValue(part, meta, node, d) ==
  LET output == d[node.out].shape
  IN  CASE part.kind = "literal" -> part.value
        [] part.kind = "meta" -> IF part.key \in DOMAIN meta THEN meta[part.key] ELSE 0
        [] part.kind = "output_dim" -> IF part.axis \in DOMAIN output THEN output[part.axis] ELSE 0
        [] part.kind = "output_numel" -> NumElements(output)

Combined(kind, a, b) ==
  IF a <= 0 \/ b <= 0 THEN 0
  ELSE IF kind = "ceil_div" THEN CeilDiv(a, b)
  ELSE IF a > Int64Max \div b THEN 0 ELSE a * b

GridValue(e, meta, node, d) ==
  LET value[i \in DOMAIN e] ==
        IF e[i].kind \in {"ceil_div", "mul"}
        THEN Combined(e[i].kind, value[e[i].args[1]], value[e[i].args[2]])
        ELSE LeafValue(e[i], meta, node, d)
  IN  value[Len(e)]

LastOp == at = Len(Nodes)

(* The op is done; after the last one the run is.                          *)
Advance ==
  /\ IF LastOp THEN at' = 1 /\ stage' = "resolved" ELSE at' = at + 1 /\ UNCHANGED stage
  /\ UNCHANGED <<model, points, compiled, shapes, descs, refused>>

SkipView == stage = "run" /\ at \in Views /\ Advance /\ UNCHANGED last

(* InvocationKernel::Compute; an error ends the run.                       *)
Launch ==
  /\ stage = "run" /\ at \notin Views
  /\ \E kernel \in kernels[at] : \E meta \in kernel.metas :
       LET bound == Bind(kernel, Nodes[at], descs)
           grid == GridValue(kernel.grid, meta, Nodes[at], descs)
       IN  \/ /\ grid \in 1..UInt32Max
              /\ \E arguments \in bound :
                   last' = [node |-> Nodes[at], program |-> kernel.program, meta |-> meta,
                            arguments |-> arguments, grid |-> grid]
              /\ Advance
           \/ /\ bound = {} \/ grid \notin 1..UInt32Max
              /\ stage' = "resolved" /\ at' = 1 /\ Refuse("Compute")
              /\ UNCHANGED <<model, points, compiled, shapes, descs, last>>

CompileEnded == stage = "failed" /\ UNCHANGED vars

Next ==
  \/ ValidateProfiles \/ Lower \/ PlanPoint \/ CompileEnded
  \/ SelectShapeProfile \/ ResolveShapes \/ StartRun \/ SkipView \/ Launch
  \/ \E v \in model.inputs : \E shape \in Requests[v] : SetInputShape(v, shape)

Spec == Init /\ [][Next]_vars
-----------------------------------------------------------------------------
(* Properties.                                                             *)

Volume(shape) ==
  LET volume[i \in 0..Len(shape)] == IF i = 0 THEN 1 ELSE volume[i - 1] * shape[i]
  IN  volume[Len(shape)]

Launched == last # Nil
Operated == {last.node.out} \cup {last.node.ins[k] : k \in DOMAIN last.node.ins}

(* Whatever shape within the profile is active, what a launch uses of an   *)
(* intermediate fits the bytes reserved for it at the max point            *)
(* (development.md: the profile's max bounds the memory plan).             *)
ActiveFitsPlan ==
  Launched =>
    \A v \in Intermediates \cap Operated :
      Volume(descs[v].shape) * ElementSize(descs[v].dtype) <= plan[v]

Varying == model.inputs \cup {Nodes[i].out : i \in DOMAIN Nodes}

(* No operator reads two values that vary, no convolution varying weights. *)
Straight ==
  \A i \in DOMAIN Nodes : \A k, l \in DOMAIN Nodes[i].ins :
    {Nodes[i].ins[k], Nodes[i].ins[l]} \subseteq Varying =>
      k = l /\ (Nodes[i].op \in ConvLike => k = 1)

(* If such a model compiles, every shape that SetInputShape accepts is     *)
(* resolved, and views keep their bytes, although Compile has inferred     *)
(* only the profile's three points.                                        *)
InRangeShapesRun == Straight => refused \notin {"ResolveShapes", "PrepareTensors"}

Elements(v) == 0..(Volume(descs[v].shape) - 1)
Programs == 0..(last.grid - 1)
WrittenBy(p) == Writes(last.program, p, last.arguments, last.meta)

(* A launch writes every element of its output, each in one program, and   *)
(* nothing beyond.                                                         *)
LaunchWritesOutput ==
  Launched =>
    /\ \A o \in Elements(last.node.out) :
         Cardinality({p \in Programs : o \in WrittenBy(p)}) = 1
    /\ \A p \in Programs : WrittenBy(p) \subseteq Elements(last.node.out)

(* Elements by coordinates, counted from 0.                                *)
Coordinate(shape, o, axis) ==
  (o \div Volume(SubSeq(shape, axis + 1, Len(shape)))) % shape[axis]
Offset(shape, coordinates) ==
  LET offset[axis \in 0..Len(shape)] ==
        IF axis = 0 THEN 0 ELSE offset[axis - 1] * shape[axis] + coordinates[axis]
  IN  offset[Len(shape)]
Inside(shape, coordinates) ==
  \A axis \in DOMAIN shape : coordinates[axis] \in 0..(shape[axis] - 1)

(* The input positions a window of that size covers.                       *)
Covered(node, strides, y, o, size) ==
  {<<Coordinate(y, o, 3) * strides[1] - Pads(node)[1] + kh * Dilations(node)[1],
     Coordinate(y, o, 4) * strides[2] - Pads(node)[2] + kw * Dilations(node)[2], kh, kw>> :
     kh \in 0..(size[1] - 1), kw \in 0..(size[2] - 1)}

WindowOperands(node, strides, x, y, o, size, channels) ==
  From(1, {Offset(x, c) : c \in
     {c \in {<<Coordinate(y, o, 1), channel, at4[1], at4[2]>> :
               channel \in channels, at4 \in Covered(node, strides, y, o, size)} :
        Inside(x, c)}})

ProductOperands(node, a, b, y, o) ==
  LET row == Coordinate(y, o, 1)
      column == Coordinate(y, o, 2)
      inner == 0..(Columns(a, Transposed(node, "transA")) - 1)
  IN  From(1, {Offset(a, IF Transposed(node, "transA") THEN <<i, row>> ELSE <<row, i>>) :
                 i \in inner})
      \cup From(2, {Offset(b, IF Transposed(node, "transB") THEN <<column, i>>
                              ELSE <<i, column>>) : i \in inner})

FilterOffsets(w, channel) ==
  {Offset(w, <<channel, c, h, v>>) :
     c \in 0..(w[2] - 1), h \in 0..(w[3] - 1), v \in 0..(w[4] - 1)}
PlaneOffsets(x, n, channel) ==
  {Offset(x, <<n, channel, h, v>>) : h \in 0..(x[3] - 1), v \in 0..(x[4] - 1)}
RowOffsets(y, o) == {(o \div Last(y)) * Last(y) + i : i \in 0..(Last(y) - 1)}

(* What element o of the node's output is computed from, by the operator's *)
(* definition, with the attributes shape inference reads.                  *)
Operands(node, o) ==
  LET x == descs[node.ins[1]].shape
      w == descs[node.ins[2]].shape
      y == descs[node.out].shape
      row == RowOffsets(y, o)
      column == o % Last(y)
      channel == Coordinate(y, o, 2)
  IN  CASE node.op \in Elementwise \cup {"Relu", "Gelu"} -> {<<k, o>> : k \in DOMAIN node.ins}
        [] node.op = "BatchNormalization" -> {<<1, o>>} \cup {<<k, channel>> : k \in 2..5}
        [] node.op \in ConvLike ->
             WindowOperands(node, Strides(node), x, y, o, <<w[3], w[4]>>, 0..(w[2] - 1))
             \cup From(2, FilterOffsets(w, channel)) \cup {<<k, channel>> : k \in 3..Len(node.ins)}
        [] node.op = "MaxPool" ->
             WindowOperands(node, PoolStrides(node), x, y, o, PoolKernel(node), {channel})
        [] node.op = "GlobalAveragePool" ->
             From(1, PlaneOffsets(x, Coordinate(y, o, 1), channel))
        [] node.op \in GemmLike -> ProductOperands(node, x, w, y, o)
        [] node.op = "Softmax" -> From(1, row)
        [] node.op = "LayerNormalization" -> From(1, row) \cup {<<2, column>>, <<3, column>>}
        [] node.op = "SkipLayerNormalization" ->
             From(1, row) \cup From(2, row) \cup {<<3, column>>, <<4, column>>}

(* Every element is computed from exactly the operands the operator names, *)
(* and nothing outside a tensor is read: what shape inference assumed,     *)
(* what the binder passed and what the kernel indexes agree.               *)
LaunchReadsOperands ==
  Launched =>
    \A o \in Elements(last.node.out) :
      LET read == Reads(last.program, o, last.arguments, Len(last.node.ins))
      IN  /\ read = Operands(last.node, o)
          /\ \A at2 \in read : at2[2] \in Elements(last.node.ins[at2[1]])
=============================================================================
