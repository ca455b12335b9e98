---------------------------- MODULE TritonKernels ----------------------------
(***************************************************************************)
(* The Kernel Pack's kernels (python/cutriton/triton_kernels): the         *)
(* declared arguments, grid and constraints of each, and which elements    *)
(* of its tensors a program of it writes and which of its inputs it reads  *)
(* for an element, from the offsets and masks of its Triton function.      *)
(*                                                                         *)
(* Tensors are counted from 1, as are axes; elements are flat offsets from *)
(* 0.  Every kernel takes its input pointers in the node's order, so only  *)
(* integer arguments are listed.  Block sizes are constants that stand for *)
(* 256 and 1024.  Offsets are computed in 32 bits and added to a pointer.  *)
(***************************************************************************)
EXTENDS TensorShape

CONSTANTS
  Int32Max,  \* the largest int32_t
  Block,     \* the block of the kernels that count elements
  RowBlock,  \* the block of the kernels of one program per row
  Tiles      \* the variants of the tiled kernels: [BLOCK_M, BLOCK_N, GROUP_M]

(* Blocks are powers of two, as those of tl.arange must be; a group is no  *)
(* higher than a tile is wide, and so counts its tiles in 32 bits.         *)
ASSUME KernelAssumption ==
  /\ {Int32Max, Block, RowBlock} \subseteq Nat \ {0} /\ Int32Max < Int64Max
  /\ Tiles \subseteq [BLOCK_M : Nat \ {0}, BLOCK_N : Nat \ {0}, GROUP_M : Nat \ {0}]
  /\ (Int32Max + 1) % Block = 0
  /\ \A t \in Tiles : /\ (Int32Max + 1) % t.BLOCK_M = 0 /\ (Int32Max + 1) % t.BLOCK_N = 0
                      /\ t.GROUP_M <= t.BLOCK_N

(* What is left of an integer in 32 bits.                                  *)
Int32(value) == ((value + Int32Max + 1) % (2 * (Int32Max + 1))) - (Int32Max + 1)

(* Sources of arguments, and parts of grid expressions.  An expression is  *)
(* the list of its parts, the operands before what is made of them; an     *)
(* operator has the places of its two operands in that list.               *)
InputDim(k, axis) == [kind |-> "input_dim", index |-> k, axis |-> axis]
OutputDim(axis) == [kind |-> "output_dim", axis |-> axis]
InputSpatial(k) == [kind |-> "input_dim_product", index |-> k, begin |-> 3]
OutputNumel == [kind |-> "output_numel"]
Attribute(key, position, default) ==
  [kind |-> "attribute_i64", key |-> key, position |-> position, default |-> default]
Literal(value) == [kind |-> "literal", value |-> value]
Meta(key) == [kind |-> "meta", key |-> key]
CeilDivOf(a, b) == [kind |-> "ceil_div", args |-> <<a, b>>]
ProductOf(a, b) == [kind |-> "mul", args |-> <<a, b>>]

NumelGrid == <<OutputNumel, Literal(Block), CeilDivOf(1, 2)>>
TiledGrid ==
  <<OutputDim(1), Meta("BLOCK_M"), CeilDivOf(1, 2),
    OutputDim(2), Meta("BLOCK_N"), CeilDivOf(4, 5), ProductOf(3, 6)>>
RowGrid == <<OutputDim(1)>>

(* What is passed for each argument of two lists.                          *)
Joined(f, g) == [a \in DOMAIN f \cup DOMAIN g |-> IF a \in DOMAIN f THEN f[a] ELSE g[a]]

WindowArguments ==
  [n |-> InputDim(1, 1), c |-> InputDim(1, 2), h |-> InputDim(1, 3), w |-> InputDim(1, 4),
   out_h |-> OutputDim(3), out_w |-> OutputDim(4),
   stride_h |-> Attribute("strides", 1, 1), stride_w |-> Attribute("strides", 2, 1),
   pad_h |-> Attribute("pads", 1, 0), pad_w |-> Attribute("pads", 2, 0),
   dilation_h |-> Attribute("dilations", 1, 1), dilation_w |-> Attribute("dilations", 2, 1)]

ConvArguments ==
  Joined([k |-> InputDim(2, 1), r |-> InputDim(2, 3), s |-> InputDim(2, 4)], WindowArguments)
PoolArguments ==
  Joined([r |-> Attribute("kernel_shape", 1, 1), s |-> Attribute("kernel_shape", 2, 1)],
         WindowArguments)
TotalArgument == [total |-> OutputNumel]
NormArguments ==
  Joined([channels |-> InputDim(1, 2), spatial |-> InputSpatial(1)], TotalArgument)
AverageArguments == [a \in {"n", "c", "h", "w"} |-> WindowArguments[a]]
RowArguments == [rows |-> InputDim(1, 1), columns |-> InputDim(1, 2)]

(* Kernels of tensors in NCHW have no constraints.                         *)
ImageKernel(op, program, arguments) ==
  [op |-> op, dtype |-> "float32", layout |-> "NCHW", program |-> program,
   counts |-> 1..6, zeros |-> {}, ranks |-> <<>>,
   arguments |-> arguments, grid |-> NumelGrid, metas |-> {<<>>}]

(* The others take matrices, or anything if they count elements.           *)
MatrixKernel(op, program, counts, arguments, grid) ==
  [op |-> op, dtype |-> "float16", layout |-> "", program |-> program,
   counts |-> counts, zeros |-> {}, ranks |-> <<2>>,
   arguments |-> arguments, grid |-> grid, metas |-> {<<>>}]

TiledKernel(op) ==
  [MatrixKernel(op, "gemm_tiled", {2},
                [m |-> OutputDim(1), n |-> OutputDim(2), k |-> InputDim(1, 2)], TiledGrid)
     EXCEPT !.zeros = {"transA", "transB"}, !.ranks = <<2, 2>>, !.metas = Tiles]

ElementKernel(op) ==
  [MatrixKernel(op, "elementwise", 1..6, TotalArgument, NumelGrid) EXCEPT !.ranks = <<>>]

Kernels ==
  {ImageKernel("Conv", "conv", ConvArguments),
   ImageKernel("FusedConvBatchNorm", "fused_conv", ConvArguments),
   ImageKernel("FusedConvBatchNormRelu", "fused_conv", ConvArguments),
   ImageKernel("Relu", "elementwise", TotalArgument),
   ImageKernel("Add", "elementwise", TotalArgument),
   ImageKernel("AddRelu", "elementwise", TotalArgument),
   ImageKernel("BatchNormalization", "batch_norm", NormArguments),
   ImageKernel("MaxPool", "max_pool", PoolArguments),
   ImageKernel("GlobalAveragePool", "global_average_pool", AverageArguments),
   [ImageKernel("Gemm", "gemm", [m |-> InputDim(1, 1), n |-> InputDim(2, 2),
                                 k |-> InputDim(1, 2)])
      EXCEPT !.layout = "", !.counts = {2}, !.zeros = {"transB"}, !.ranks = <<2, 2>>],
   TiledKernel("Gemm"), TiledKernel("GemmGelu"),
   ElementKernel("Gelu"), ElementKernel("Add"),
   MatrixKernel("LayerNormalization", "layer_norm", {3}, RowArguments, RowGrid),
   MatrixKernel("SkipLayerNormalization", "skip_layer_norm", {4}, RowArguments, RowGrid),
   MatrixKernel("Softmax", "softmax", 1..6, RowArguments, RowGrid)}
-----------------------------------------------------------------------------
(* What a program writes.                                                  *)

CeilDiv(a, b) == 1 + (a - 1) \div b
Least(a, b) == IF a <= b THEN a ELSE b

(* The number of elements the mask of a flat kernel lets through.          *)
Total(program, a) ==
  CASE program \in {"elementwise", "batch_norm"} -> a.total
    [] program \in {"conv", "fused_conv"} -> Int32(a.n * a.k * a.out_h * a.out_w)
    [] program = "max_pool" -> Int32(a.n * a.c * a.out_h * a.out_w)
    [] program = "global_average_pool" -> Int32(a.n * a.c)
    [] program = "gemm" -> Int32(a.m * a.n)

(* tl.cdiv.                                                                *)
Cdiv(a, b) == Quotient(Int32(a + b - 1), b)

(* Mutant of TileOf: the last group is taken to be as high as the others.  *)
TileOfFullGroup(p, a, meta) ==
  LET width == meta.GROUP_M * Cdiv(a.n, meta.BLOCK_N)
      first == (p \div width) * meta.GROUP_M
  IN  <<first + ((p % width) % meta.GROUP_M), (p % width) \div meta.GROUP_M>>

(* Programs go through the tiles in groups of GROUP_M rows of tiles, down  *)
(* each group's columns; the last group may be lower.                      *)
TileOf(p, a, meta) ==
  LET width == meta.GROUP_M * Cdiv(a.n, meta.BLOCK_N)
      first == (p \div width) * meta.GROUP_M
      height == Least(Cdiv(a.m, meta.BLOCK_M) - first, meta.GROUP_M)
  IN  <<first + ((p % width) % height), (p % width) \div height>>

(* The offsets of the i-th block.                                          *)
BlockAt(i, size) == {Int32(i * size + k) : k \in 0..(size - 1)}

(* The flat offsets program p stores to.                                   *)
Writes(program, p, a, meta) ==
  CASE program \in {"layer_norm", "skip_layer_norm", "softmax"} ->
         {Int32(p * a.columns) + i : i \in 0..(Least(RowBlock, a.columns) - 1)}
    [] program = "gemm_tiled" ->
         LET tile == TileOf(p, a, meta)
         IN  {Int32(row * a.n) + column :
                row \in {r \in BlockAt(tile[1], meta.BLOCK_M) : r < a.m},
                column \in {c \in BlockAt(tile[2], meta.BLOCK_N) : c < a.n}}
    [] OTHER -> {o \in BlockAt(p, Block) : o < Total(program, a)}
-----------------------------------------------------------------------------
(* What is read for the element at offset o, as <<input, offset>>.         *)

From(k, offsets) == {<<k, i>> : i \in offsets}

(* Where a window at row oh and column ow reads: inside the image only.    *)
WindowReads(oh, ow, r, s, a) ==
  {at \in {<<Int32(oh * a.stride_h - a.pad_h + kh * a.dilation_h),
             Int32(ow * a.stride_w - a.pad_w + kw * a.dilation_w), kh, kw>> :
             kh \in 0..(r - 1), kw \in 0..(s - 1)} :
     at[1] \in 0..(a.h - 1) /\ at[2] \in 0..(a.w - 1)}

ConvReads(o, a) ==
  LET ow == o % a.out_w
      oh == (o \div a.out_w) % a.out_h
      oc == (o \div (a.out_w * a.out_h)) % a.k
      batch == o \div (a.out_w * a.out_h * a.k)
      weight(ic, kh, kw) == Int32(((oc * a.c + ic) * a.r + kh) * a.s + kw)
  IN  From(1, {Int32(((batch * a.c + ic) * a.h + at[1]) * a.w + at[2]) :
                 ic \in 0..(a.c - 1), at \in WindowReads(oh, ow, a.r, a.s, a)})
      \cup From(2, {weight(ic, kh, kw) :
                      ic \in 0..(a.c - 1), kh \in 0..(a.r - 1), kw \in 0..(a.s - 1)})

PoolReads(o, a) ==
  LET ow == o % a.out_w
      oh == (o \div a.out_w) % a.out_h
      image == o \div (a.out_w * a.out_h)
  IN  From(1, {Int32((image * a.h + at[1]) * a.w + at[2]) :
                 at \in WindowReads(oh, ow, a.r, a.s, a)})

RowReads(o, a) ==
  {Int32((o \div a.columns) * a.columns) + i : i \in 0..(Least(RowBlock, a.columns) - 1)}

GemmReads(o, a) ==
  From(1, {Int32((o \div a.n) * a.k) + inner : inner \in 0..(a.k - 1)})
  \cup From(2, {Int32(inner * a.n) + (o % a.n) : inner \in 0..(a.k - 1)})

Reads(program, o, a, count) ==
  CASE program = "elementwise" -> {<<k, o>> : k \in 1..count}
    [] program = "batch_norm" ->
         {<<1, o>>} \cup {<<k, (o \div a.spatial) % a.channels>> : k \in 2..5}
    [] program = "conv" -> ConvReads(o, a)
    [] program = "fused_conv" ->
         ConvReads(o, a) \cup {<<k, (o \div (a.out_w * a.out_h)) % a.k>> : k \in 3..6}
    [] program = "max_pool" -> PoolReads(o, a)
    [] program = "global_average_pool" ->
         From(1, {Int32(o * a.h * a.w + offset) : offset \in 0..(Int32(a.h * a.w) - 1)})
    [] program \in {"gemm", "gemm_tiled"} -> GemmReads(o, a)
    [] program = "softmax" -> From(1, RowReads(o, a))
    [] program = "layer_norm" ->
         From(1, RowReads(o, a)) \cup {<<2, o % a.columns>>, <<3, o % a.columns>>}
    [] program = "skip_layer_norm" ->
         From(1, RowReads(o, a)) \cup From(2, RowReads(o, a))
         \cup {<<3, o % a.columns>>, <<4, o % a.columns>>}
=============================================================================
