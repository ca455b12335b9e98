--------------------------- MODULE MCKernelLaunch ----------------------------
(* Models of one to four nodes over every operator the pack has kernels    *)
(* for, with profiles whose points cross the limits of the integers, fail  *)
(* to infer, or are not valid.                                             *)
EXTENDS KernelLaunch

MCValue == {"x", "z", "w", "s", "m", "h", "i", "j", "y"}

Image(shape) == [shape |-> shape, dtype |-> "float32", layout |-> "NCHW"]
Flat(shape) == [Image(shape) EXCEPT !.layout = ""]
Half(shape) == [Flat(shape) EXCEPT !.dtype = "float16"]

Node(op, ins, out) == [op |-> op, ins |-> ins, out |-> out, lists |-> <<>>, ints |-> <<>>]
WithLists(node, lists) == [node EXCEPT !.lists = lists]
WithInts(node, ints) == [node EXCEPT !.ints = ints]

Range3(min, opt, max) == [min |-> min, opt |-> opt, max |-> max]

(* A model that computes y from x, whose range is the profile.             *)
Model(nodes, x, constants, range) ==
  [nodes |-> nodes, inputs |-> {"x"}, outputs |-> {"y"}, profile |-> [x |-> range],
   descs |-> [v \in MCValue |-> IF v = "x" THEN x ELSE
                                IF v \in DOMAIN constants THEN constants[v] ELSE Undescribed]]

(* And one of x and z, over ranges of their own.                           *)
Model2(nodes, x, z, rangeX, rangeZ) ==
  [Model(nodes, x, <<>>, rangeX) EXCEPT
     !.inputs = {"x", "z"}, !.descs["z"] = z, !.profile = [x |-> rangeX, z |-> rangeZ]]

X == Image(<<1, 1, 2, 2>>)
Sizes == Range3(<<1, 1, 2, 2>>, <<1, 1, 3, 3>>, <<2, 1, 3, 4>>)
Wide == Range3(<<1, 1, 1, 1>>, <<1, 1, 2, 2>>, <<2, 2, 5, 6>>)
Overflowing == [Wide EXCEPT !.max = <<2, 2, 8, 8>>]
RowRange == Range3(<<1, 4>>, <<3, 4>>, <<6, 4>>)

ReluChain == <<Node("Relu", <<"x">>, "h"), Node("Relu", <<"h">>, "y")>>
Conv == Node("Conv", <<"x", "w">>, "y")
Filter == [w |-> Image(<<2, 1, 3, 3>>)]
Padded == [strides |-> <<2, 2>>, pads |-> <<1, 1, 1, 1>>]
Pool == WithLists(Node("MaxPool", <<"x">>, "y"), [kernel_shape |-> <<2, 2>>, strides |-> <<1, 2>>])
Norm == Node("BatchNormalization", <<"x", "s", "s", "s", "s">>, "y")
Gemm == Node("Gemm", <<"x", "w">>, "y")

(* Two pools of an image that agree on images of an even width only.       *)
Branches ==
  <<WithLists(Node("MaxPool", <<"x">>, "h"), [kernel_shape |-> <<1, 1>>, strides |-> <<1, 2>>]),
    WithLists(Node("MaxPool", <<"x">>, "i"), [kernel_shape |-> <<1, 2>>, strides |-> <<1, 2>>]),
    Node("AddRelu", <<"h", "i">>, "y")>>

Images ==
  {Model(ReluChain, X, <<>>, Wide),
   Model(<<Node("Relu", <<"x">>, "y")>>, X, <<>>, Overflowing),
   Model(<<WithLists(Conv, Padded)>>, X, Filter, Sizes),
   Model(<<WithLists(Conv, [pads |-> <<0, 1, 2, 1>>])>>, X, Filter, Sizes),
   Model(<<WithLists(Conv, [pads |-> <<2, 2, 2, 2>>, dilations |-> <<2, 1>>])>>, X,
         [w |-> Image(<<1, 1, 3, 2>>)], Sizes),
   Model(<<Conv>>, X, Filter, Sizes),
   Model(<<WithLists(Node("FusedConvBatchNorm", <<"x", "w", "s", "s", "s", "s">>, "h"), Padded),
           Node("Relu", <<"h">>, "y")>>, X,
         [s |-> Image(<<2>>)] @@ Filter, Sizes),
   Model(<<Norm>>, X, [s |-> Image(<<1>>)], Sizes),
   Model(<<[Norm EXCEPT !.out = "h"], Node("Relu", <<"h">>, "y")>>, X, [s |-> Image(<<2>>)], Wide),
   Model(<<Pool>>, X, <<>>, Sizes),
   Model(<<[Pool EXCEPT !.lists.kernel_shape = <<3, 3>>, !.lists.strides = <<2, 2>>]>>, X, <<>>, Sizes),
   Model2(<<Node("AddRelu", <<"x", "z">>, "h"), Node("Relu", <<"h">>, "y")>>,
          X, X, Sizes, Sizes),
   Model(Branches, X, <<>>, Range3(<<1, 1, 1, 2>>, <<1, 1, 1, 4>>, <<1, 1, 1, 6>>))}

Classifier ==
  {Model(<<Node("GlobalAveragePool", <<"x">>, "h"), Node("Flatten", <<"h">>, "i"),
           [Gemm EXCEPT !.ins = <<"i", "w">>]>>,
         X, [w |-> Flat(<<2, 3>>)], Range3(<<1, 2, 1, 1>>, <<2, 2, 2, 1>>, <<5, 2, 3, 2>>)),
   Model(<<[Pool EXCEPT !.out = "h"], Node("Flatten", <<"h">>, "i"),
           [Gemm EXCEPT !.ins = <<"i", "w">>]>>,
         X, [w |-> Flat(<<3, 2>>)], Range3(<<1, 1, 2, 6>>, <<2, 1, 2, 6>>, <<3, 1, 2, 6>>))}

Matrices ==
  {Model(<<Gemm>>, Flat(<<1, 4>>), [w |-> Flat(<<4, 3>>)], RowRange),
   Model(<<[Gemm EXCEPT !.out = "h"], Node("Softmax", <<"h">>, "y")>>,
         Half(<<1, 4>>), [w |-> Half(<<4, 3>>)], RowRange),
   Model(<<Node("GemmGelu", <<"x", "w">>, "h"), Node("Gelu", <<"h">>, "i"),
           Node("Add", <<"i", "h">>, "y")>>,
         Half(<<1, 4>>), [w |-> Half(<<4, 5>>)], RowRange),
   Model(<<Node("Gelu", <<"x">>, "h"), Node("LayerNormalization", <<"h", "s", "m">>, "i"),
           Node("SkipLayerNormalization", <<"i", "x", "s", "m">>, "y")>>,
         Half(<<1, 4>>), [s |-> Half(<<4>>), m |-> Half(<<4>>)], RowRange),
   Model2(<<[Gemm EXCEPT !.ins = <<"x", "z">>]>>, Half(<<1, 4>>), Half(<<4, 1>>),
          Range3(<<1, 3>>, <<3, 4>>, <<6, 5>>), Range3(<<3, 1>>, <<4, 3>>, <<5, 4>>))}

(* What Compile refuses.                                                   *)
Rejected ==
  {Model(ReluChain, X, <<>>, Overflowing),
   Model2(<<Node("AddRelu", <<"x", "z">>, "h"), Node("Relu", <<"h">>, "y")>>,
          X, X, Sizes, [Sizes EXCEPT !.max = <<3, 1, 3, 4>>]),
   Model(ReluChain, X, <<>>, Range3(<<1, 1, 2, 2>>, <<1, 1, 1, 2>>, <<2, 2, 2, 2>>)),
   Model(ReluChain, X, <<>>, Range3(<<1, 1, 2>>, <<1, 1, 2, 2>>, <<2, 2, 2, 2>>)),
   [Model(ReluChain, X, <<>>, Sizes) EXCEPT !.profile = <<>>],
   Model(<<Node("MatMul", <<"x", "w">>, "y")>>, Flat(<<1, 4>>), [w |-> Flat(<<4, 3>>)], RowRange),
   Model(<<[Gemm EXCEPT !.ins = <<"x", "w", "s">>]>>, Flat(<<1, 4>>),
         [w |-> Flat(<<4, 3>>), s |-> Flat(<<3>>)], RowRange),
   Model(<<WithInts(Gemm, [transB |-> 1])>>, Flat(<<1, 4>>), [w |-> Flat(<<4, 4>>)], RowRange),
   Model(<<WithInts(Gemm, [transA |-> 1])>>, Half(<<1, 4>>), [w |-> Half(<<3, 2>>)],
         Range3(<<3, 1>>, <<3, 4>>, <<3, 6>>)),
   Model(<<Node("Flatten", <<"x">>, "y")>>, X, <<>>, Sizes),
   Model(<<[Pool EXCEPT !.lists.kernel_shape = <<3, 3>>, !.lists.strides = <<2, 2>>]>>, X, <<>>,
         [Sizes EXCEPT !.min = <<1, 1, 1, 1>>])}

MCModels == Images \cup Classifier \cup Matrices \cup Rejected

(* A normalisation of rows longer than the kernel's block.                 *)
LongRows == {Model(<<Node("Softmax", <<"x">>, "y")>>, Half(<<2, 4>>), <<>>,
                   Range3(<<1, 4>>, <<2, 4>>, <<2, 6>>))}

(* A convolution whose weights are an input: the larger they are, the      *)
(* smaller is its output.                                                  *)
DynamicWeights ==
  {Model2(<<[Conv EXCEPT !.ins = <<"x", "z">>, !.out = "h"], Node("Relu", <<"h">>, "y")>>,
          X, Image(<<2, 1, 2, 2>>), Sizes, Range3(<<2, 1, 1, 1>>, <<2, 1, 2, 2>>, <<2, 1, 2, 2>>))}

ImageShapes ==
  {<<n, c, h, w>> : n \in 1..2, c \in {1, 2}, h \in {1, 2, 4}, w \in {1, 3, 4, 6}}
  \cup {<<2, 1, 3, 4>>, <<5, 2, 3, 2>>, <<3, 1, 2, 6>>, <<2, 2, 5, 6>>, <<2, 2, 8, 8>>}
MatrixShapes == {<<n, 4>> : n \in {1, 4, 5, 6, 7}} \cup {<<2, 6>>, <<2, 5>>, <<5, 3>>}

MCRequests == [v \in {"x", "z"} |-> ImageShapes \cup MatrixShapes]

MCTiles == {[BLOCK_M |-> 2, BLOCK_N |-> 2, GROUP_M |-> 2], [BLOCK_M |-> 1, BLOCK_N |-> 4, GROUP_M |-> 4]}
=============================================================================
