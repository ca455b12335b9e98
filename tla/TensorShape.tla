----------------------------- MODULE TensorShape -----------------------------
(***************************************************************************)
(* Tensor descriptions (src/core/tensor.cpp) and the shape inference of    *)
(* the built-in operators (src/ir/pass.cpp) with the integers the code     *)
(* has: int64_t dimensions and counts, size_t bytes.  Their widths are     *)
(* constants, so that small shapes reach their limits.                     *)
(*                                                                         *)
(* A node is [op, ins, out, lists, ints]: lists and ints are the           *)
(* attributes set on it, by name.  Strides are positive.  An inference     *)
(* returns the set of the descriptions it gives the output: one, or none   *)
(* if it fails.  Constant, which infers nothing, is left out.              *)
(***************************************************************************)
EXTENDS Integers, Sequences, SequencesExt, OpSchema

CONSTANTS
  Int64Max,    \* the largest int64_t
  SizeModulus  \* the number of values of size_t

ASSUME WidthAssumption ==
  Int64Max \in Nat \ {0} /\ SizeModulus \in Nat /\ SizeModulus > Int64Max

Desc == [shape : Seq(Int), dtype : {"float32", "float16", "unknown"},
         layout : {"NCHW", ""}]

Undescribed == [shape |-> <<>>, dtype |-> "unknown", layout |-> "NCHW"]

(* What an overflowing int64_t computation is left with.                   *)
Int64(value) ==
  ((value + Int64Max + 1) % (2 * (Int64Max + 1))) - (Int64Max + 1)

ElementSize(dtype) ==
  CASE dtype = "float32" -> 4 [] dtype = "float16" -> 2 [] OTHER -> 0

(* The number of elements, 0 if there is none or it is no int64_t.         *)
NumElements(shape) ==
  LET count[i \in 0..Len(shape)] ==
        IF i = 0 THEN 1
        ELSE IF shape[i] <= 0 \/ count[i - 1] > Int64Max \div shape[i] THEN 0
        ELSE count[i - 1] * shape[i]
  IN  IF shape = <<>> THEN 0 ELSE count[Len(shape)]

ByteSize(desc) == (NumElements(desc.shape) * ElementSize(desc.dtype)) % SizeModulus

Valid(desc) ==
  /\ desc.dtype # "unknown" /\ desc.shape # <<>>
  /\ \A i \in DOMAIN desc.shape : desc.shape[i] > 0
  /\ ByteSize(desc) # 0

(* Product: what the axes first to last hold, unchecked for overflow.      *)
Product(shape, first, last) ==
  LET value[i \in 0..last] ==
        IF i < first THEN 1
        ELSE IF shape[i] <= 0 THEN 0 ELSE Int64(value[i - 1] * shape[i])
  IN  value[last]

(* Division as the code's, towards zero.                                   *)
Quotient(a, b) == IF a >= 0 THEN a \div b ELSE -((-a) \div b)

ListAttribute(node, key, fallback) ==
  IF key \in DOMAIN node.lists THEN node.lists[key] ELSE fallback

IntAttribute(node, key, fallback) ==
  IF key \in DOMAIN node.ints THEN node.ints[key] ELSE fallback

Strides(node) == ListAttribute(node, "strides", <<1, 1>>)
Pads(node) == ListAttribute(node, "pads", <<0, 0, 0, 0>>)
Dilations(node) == ListAttribute(node, "dilations", <<1, 1>>)
PoolKernel(node) == ListAttribute(node, "kernel_shape", <<1, 1>>)

(* A pooling without strides steps by its window.                          *)
PoolStrides(node) == ListAttribute(node, "strides", PoolKernel(node))

Checked(desc) == {d \in {desc} : Valid(d)}

(* How many windows of a dilated kernel fit along spatial axis 1 or 2.     *)
Windows(node, strides, size, kernel, axis) ==
  Quotient(size + Pads(node)[axis] + Pads(node)[axis + 2]
             - (Dilations(node)[axis] * (kernel - 1) + 1),
           strides[axis]) + 1

InferConvLike(node, x, weight) ==
  IF /\ Len(x.shape) = 4 /\ Len(weight.shape) = 4
     /\ Len(Strides(node)) = 2 /\ Len(Pads(node)) = 4 /\ Len(Dilations(node)) = 2
  THEN Checked([x EXCEPT !.shape =
         <<x.shape[1], weight.shape[1]>> \o
         [axis \in 1..2 |-> Windows(node, Strides(node), x.shape[axis + 2],
                                    weight.shape[axis + 2], axis)]])
  ELSE {}

InferPool(node, x) ==
  IF /\ Len(x.shape) = 4 /\ Len(PoolKernel(node)) = 2 /\ Len(PoolStrides(node)) = 2
     /\ Len(Pads(node)) = 4 /\ Len(Dilations(node)) = 2
  THEN Checked([x EXCEPT !.shape =
         <<x.shape[1], x.shape[2]>> \o
         [axis \in 1..2 |-> Windows(node, PoolStrides(node), x.shape[axis + 2],
                                    PoolKernel(node)[axis], axis)]])
  ELSE {}

InferGlobalAveragePool(x) ==
  IF Len(x.shape) = 4 THEN {[x EXCEPT !.shape = <<x.shape[1], x.shape[2], 1, 1>>]}
  ELSE {}

InferFlatten(node, x) ==
  LET rank == Len(x.shape)
      given == IntAttribute(node, "axis", 1)
      axis == IF given < 0 THEN given + rank ELSE given
  IN  IF rank > 0 /\ axis \in 0..rank
      THEN Checked([x EXCEPT !.layout = "",
             !.shape = <<Product(x.shape, 1, axis), Product(x.shape, axis + 1, rank)>>])
      ELSE {}

Transposed(node, key) == IntAttribute(node, key, 0) # 0
Rows(shape, transposed) == IF transposed THEN shape[2] ELSE shape[1]
Columns(shape, transposed) == IF transposed THEN shape[1] ELSE shape[2]

(* args: the inputs' descriptions.                                         *)
InferGemm(node, args) ==
  LET a == args[1]
      b == args[2]
      m == Rows(a.shape, Transposed(node, "transA"))
      n == Columns(b.shape, Transposed(node, "transB"))
  IN  IF /\ Len(a.shape) = 2 /\ Len(b.shape) = 2 /\ a.dtype = b.dtype
         /\ Columns(a.shape, Transposed(node, "transA")) =
              Rows(b.shape, Transposed(node, "transB"))
         /\ Len(args) = 3 => /\ args[3].dtype = a.dtype
                             /\ args[3].shape \in {<<n>>, <<m, n>>}
      THEN Checked([a EXCEPT !.shape = <<m, n>>, !.layout = ""])
      ELSE {}

InferElementwise(args) == {d \in {args[1]} : args[2] = args[1]}

InferLayerNormalization(node, args) ==
  LET x == args[1]
  IN  IF /\ x.shape # <<>> /\ args[2].shape = <<Last(x.shape)>>
         /\ args[2].dtype = x.dtype
         /\ Len(args) = 3 => args[3].shape = args[2].shape /\ args[3].dtype = x.dtype
         /\ IntAttribute(node, "axis", -1) \in {-1, Len(x.shape) - 1}
      THEN {x} ELSE {}

(* Shape inference of a node whose inputs have the descriptions args.      *)
Infer(node, args) ==
  IF Len(args) \notin InputCounts(node.op) THEN {}
  ELSE CASE node.op \in ConvLike -> InferConvLike(node, args[1], args[2])
         [] node.op \in SameAsInput -> {d \in {args[1]} : d.dtype # "unknown"}
         [] node.op \in Elementwise -> InferElementwise(args)
         [] node.op \in GemmLike -> InferGemm(node, args)
         [] node.op = "GlobalAveragePool" -> InferGlobalAveragePool(args[1])
         [] node.op \in {"MaxPool", "AveragePool"} -> InferPool(node, args[1])
         [] node.op = "Flatten" -> InferFlatten(node, args[1])
         [] node.op = "LayerNormalization" -> InferLayerNormalization(node, args)
         [] node.op = "SkipLayerNormalization" ->
              IF InferElementwise(args) = {} THEN {}
              ELSE InferLayerNormalization(node, <<args[1], args[3], args[4]>>)

(* The descriptions of a node's inputs.                                    *)
Args(d, node) == [k \in DOMAIN node.ins |-> d[node.ins[k]]]

(* ShapeInferencePass on the nodes in order: each reads what the ones      *)
(* before it have set.  The set of the descriptions it leaves, empty if a  *)
(* node's inference fails.                                                 *)
InferAll(nodes, descs) ==
  LET after[i \in 0..Len(nodes)] ==
        IF i = 0 THEN {descs}
        ELSE UNION {{[d EXCEPT ![nodes[i].out] = r] : r \in Infer(nodes[i], Args(d, nodes[i]))} :
                      d \in after[i - 1]}
  IN  after[Len(nodes)]
=============================================================================
