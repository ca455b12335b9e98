------------------------------ MODULE OpSchema ------------------------------
(***************************************************************************)
(* The built-in operator schemas (RegisterBuiltinOpSchemas, src/ir/        *)
(* pass.cpp): how many inputs each operator takes and what its shape       *)
(* inference accepts and returns.  Shapes are abstracted to their kind, by *)
(* rank; sizes that share a kind are taken to agree with one another, as   *)
(* they do in a model that compiles at one shape.  Constant, which infers  *)
(* nothing, is left out.                                                   *)
(***************************************************************************)
EXTENDS Naturals, Sequences

(* A value's description: rank 4 (activations and filters), 2 or 1, or     *)
(* none yet.                                                               *)
Kind == {"image", "matrix", "vector", "unknown"}

ConvLike == {"Conv", "FusedConvBatchNorm", "FusedConvBatchNormRelu"}
SameAsInput == {"BatchNormalization", "Relu", "Gelu", "Softmax"}
Elementwise == {"Add", "AddRelu"}
GemmLike == {"Gemm", "GemmGelu", "MatMul"}
PoolLike == {"MaxPool", "AveragePool", "GlobalAveragePool"}

(* The numbers of inputs an operator's schema allows.                      *)
InputCounts(op) ==
  CASE op \in {"Conv", "MatMul"} \cup Elementwise -> {2}
    [] op \in {"FusedConvBatchNorm", "FusedConvBatchNormRelu"} -> {6}
    [] op = "BatchNormalization" -> {5}
    [] op \in {"Relu", "Gelu", "Softmax", "Flatten"} \cup PoolLike -> {1}
    [] op \in {"Gemm", "GemmGelu"} -> {2, 3}
    [] op = "LayerNormalization" -> {2, 3}
    [] op = "SkipLayerNormalization" -> {4}
    [] OTHER -> {}

(* InferLayerNormalization: a scale, and a bias if there is one, of the    *)
(* last dimension's size.                                                  *)
NormalizationAccepts(args) ==
  /\ args[1] # "unknown"
  /\ \A k \in 2..Len(args) : args[k] = "vector"

(* Whether inference succeeds on inputs of these kinds.                    *)
Accepts(op, args) ==
  /\ Len(args) \in InputCounts(op)
  /\ \/ op \in ConvLike /\ args[1] = "image" /\ args[2] = "image"
     \/ op \in SameAsInput \cup {"Flatten"} /\ args[1] # "unknown"
     \/ op \in Elementwise /\ args[1] = args[2]
     \/ op \in GemmLike /\ args[1] = "matrix" /\ args[2] = "matrix"
                        /\ (Len(args) = 3 => args[3] \in {"vector", "matrix"})
     \/ op \in PoolLike /\ args[1] = "image"
     \/ op = "LayerNormalization" /\ NormalizationAccepts(args)
     \/ /\ op = "SkipLayerNormalization" /\ args[1] = args[2]
        /\ NormalizationAccepts(<<args[1], args[3], args[4]>>)

(* The kind inference gives the output.                                    *)
OutputKind(op, args) ==
  IF op \in GemmLike \cup {"Flatten"} THEN "matrix" ELSE args[1]
=============================================================================
