----------------------------- MODULE MCCompiler -----------------------------
(* Small graphs, Kernel Packs and options for Compiler.                    *)
EXTENDS MCGraphPasses, Compiler

MCInputs == {0}

(* Nodes 3 and 5 have one name.                                            *)
MCNodeName == [v \in MCValue |-> IF v = 5 THEN 3 ELSE v]

Kernel(op) ==
  [op |-> op, default |-> TRUE, dtype |-> "float32", capability |-> 80,
   counts |-> 1..6, kinds |-> Kind]

Variant(op) == [Kernel(op) EXCEPT !.default = FALSE]

Sound(artifacts) == [artifacts |-> artifacts, flaw |-> "none"]

Listed(S) == FoldSet(LAMBDA op, seq : Append(seq, op), <<>>, S)

Ops == Listed(Op)
Fused == {"AddRelu", "GemmGelu", "FusedConvBatchNorm", "FusedConvBatchNormRelu",
          "SkipLayerNormalization"}
Unfused == SelectSeq(Ops, LAMBDA op : op \notin Fused)

Defaults(of) == [k \in DOMAIN of |-> Kernel(of[k])]
BasicPack == Sound(Defaults(Ops))

Falling == [v \in MCValue |-> IF v < 4 THEN 300 ELSE 256]
Alternating == [v \in MCValue |-> IF v % 2 = 0 THEN 300 ELSE 256]

Static(packs) ==
  [target |-> "cuda_triton", allowCpuFallback |-> FALSE, constantsComplete |-> TRUE,
   profiles |-> <<>>, bytes |-> <<Falling>>, dtype |-> "float32", capability |-> 80,
   packs |-> packs]

Basic == Static(<<BasicPack>>)

Profile(kind) == [valid |-> TRUE, kinds |-> [v \in MCInputs |-> kind]]

(* Two profiles of one rank with sizes of their own, of two ranks, and one *)
(* that is not valid.                                                      *)
Profiled ==
  {[Basic EXCEPT !.profiles = <<Profile(k), Profile(l)>>, !.bytes = <<b, Falling>>] :
     k, l \in {"image", "matrix"}, b \in {Falling, Alternating}}
  \cup {[Basic EXCEPT !.profiles = <<[Profile("image") EXCEPT !.valid = FALSE]>>]}

Refused ==
  {[Basic EXCEPT !.allowCpuFallback = TRUE], [Basic EXCEPT !.constantsComplete = FALSE],
   [Basic EXCEPT !.target = "cpu_reference", !.allowCpuFallback = TRUE],
   [Basic EXCEPT !.target = "unregistered"],
   [Basic EXCEPT !.dtype = "int64"], [Basic EXCEPT !.capability = 75],
   [Basic EXCEPT !.bytes = <<[Falling EXCEPT ![1] = 0]>>]}

(* A flaw at once, or after a good kernel; no default variant.             *)
Flawed ==
  {Static(<<BasicPack, [artifacts |-> good, flaw |-> f]>>) :
     good \in {<<>>, <<Kernel("Relu")>>}, f \in {"rejected", "malformed"}}
  \cup {Static(<<>>), Static(<<Sound(<<>>)>>), Static(<<Sound(<<Variant("Relu")>>)>>),
        Static(<<BasicPack, Sound(<<[Kernel("Relu") EXCEPT !.dtype = "float16"]>>)>>)}

(* The fused kernels are missing, only variants, or for other tensors or   *)
(* devices than the graph's; several variants precede the default one; the *)
(* compilation's type has kernels of its own, not all of them default.     *)
Selections ==
  LET fused == Listed(Fused)
      fusedAs(artifact(_)) == Sound([k \in DOMAIN fused |-> artifact(fused[k])])
      unary == fusedAs(LAMBDA op : [Kernel(op) EXCEPT !.counts = {1}])
      newer == fusedAs(LAMBDA op : [Kernel(op) EXCEPT !.capability = 90])
      half(op) == [Variant(op) EXCEPT !.dtype = "float16"]
  IN  {Static(<<Sound(Defaults(Unfused))>>)}
      \cup {Static(<<Sound(Defaults(Unfused)), unary, p>>) :
              p \in {fusedAs(Variant), fusedAs(Kernel), newer}}
      \cup {Static(<<Sound(<<[Variant("Relu") EXCEPT !.kinds = {"matrix"}], Variant("Relu"),
                            [Variant("Add") EXCEPT !.counts = {2}]>>), BasicPack>>),
            [Static(<<BasicPack, Sound([k \in DOMAIN Ops |-> half(Ops[k])])>>)
               EXCEPT !.dtype = "float16"],
            [Static(<<BasicPack, Sound([k \in DOMAIN Ops |->
                                  [half(Ops[k]) EXCEPT !.default = (Ops[k] # "Relu")]])>>)
               EXCEPT !.dtype = "float16"]}

(* Two decompositions of different sizes, in both orders, and two of nodes *)
(* that have one name.                                                     *)
Several ==
  LET graph(l) == [nodes |-> l, outputs |-> {5}, known |-> Described("image")]
      conv(v, n) == [op |-> "Conv", ins |-> <<v, Filter>>, out |-> n]
      norm(n) == [op |-> "BatchNormalization", ins |-> <<n - 1, Scale, Bias, Bias, Scale>>,
                  out |-> n]
      relu(n) == [op |-> "Relu", ins |-> <<n - 1>>, out |-> n]
      add(v, n) == [op |-> "Add", ins |-> <<v, 0>>, out |-> n]
  IN  {graph(<<conv(0, 1), norm(2), relu(3), add(3, 4), relu(5)>>),
       graph(<<add(0, 1), relu(2), conv(2, 3), norm(4), relu(5)>>),
       graph(<<relu(1), add(1, 2), relu(3), add(3, 4), relu(5)>>)}

(* The packs of the kernel SDK (resnet.py, transformer.py): a variant and  *)
(* the default one of each kernel, some for so many inputs, matrices only. *)
Variants(artifacts) ==
  FlattenSeq([k \in DOMAIN artifacts |->
                <<[artifacts[k] EXCEPT !.default = FALSE], artifacts[k]>>])

OnMatrices(op, counts) == [Kernel(op) EXCEPT !.counts = counts, !.kinds = {"matrix"}]

ResNet ==
  Defaults(<<"Conv", "FusedConvBatchNorm", "FusedConvBatchNormRelu", "Relu", "Add", "AddRelu",
             "BatchNormalization", "MaxPool", "GlobalAveragePool">>)
  \o <<OnMatrices("Gemm", {2})>>

Transformer ==
  LET all == Defaults(<<"Gelu", "Add">>)
             \o <<OnMatrices("Gemm", {2}), OnMatrices("GemmGelu", {2}),
                  OnMatrices("LayerNormalization", {3}),
                  OnMatrices("SkipLayerNormalization", {4}), OnMatrices("Softmax", 1..6)>>
  IN  [k \in DOMAIN all |-> [all[k] EXCEPT !.dtype = "float16"]]

(* One of them or both, for either type, at fixed shapes and with profiles *)
(* of one rank and of two.                                                 *)
Sdk ==
  LET resnet == Sound(Variants(ResNet))
      transformer == Sound(Variants(Transformer))
      both == {<<resnet, transformer>>, <<transformer, resnet>>}
  IN  {[Static(packs) EXCEPT !.profiles = <<Profile(k), Profile(l)>>,
                             !.bytes = <<Falling, Falling>>, !.dtype = t] :
         packs \in both \cup {<<resnet>>, <<transformer>>},
         k, l \in {"image", "matrix"}, t \in Float}
      \cup {[Static(packs) EXCEPT !.dtype = t] : packs \in both, t \in Float}

(* Each operator has a kernel for devices of capability 90, and one for    *)
(* those of 80, in a pack each; either kind of device.                     *)
Generations ==
  LET newer == Sound([k \in DOMAIN Ops |-> [Kernel(Ops[k]) EXCEPT !.capability = 90]])
  IN  {[Static(packs) EXCEPT !.capability = c] :
         packs \in {<<newer, BasicPack>>, <<BasicPack, newer>>}, c \in {80, 90}}

(* What the transformer kernels do, on matrices and on images.             *)
OfEitherRank ==
  LET graph(l, input) == [nodes |-> l, outputs |-> {2}, known |-> Described(input)]
      sum == [op |-> "Add", ins |-> <<0, 0>>, out |-> 1]
      gelu(v, n) == [op |-> "Gelu", ins |-> <<v>>, out |-> n]
  IN  UNION {{graph(<<sum, [op |-> "LayerNormalization", ins |-> <<1, Scale, Bias>>, out |-> 2]>>,
                    input),
              graph(<<[op |-> "Gemm", ins |-> <<0, Weight>>, out |-> 1], gelu(1, 2)>>, input),
              graph(<<gelu(0, 1), [op |-> "Softmax", ins |-> <<1>>, out |-> 2]>>, input),
              graph(<<sum, gelu(1, 2)>>, input),
              graph(<<sum, [op |-> "Relu", ins |-> <<1>>, out |-> 2]>>, input)} :
               input \in {"image", "matrix"}}

CompiledGraphs == MCGraphs \cup Several \cup OfEitherRank

MCCompilations ==
  LET compile(gs, os) == {[graph |-> g, options |-> o] : g \in gs, o \in os}
  IN  IF Observed THEN compile(MCGraphs, {Basic})
      ELSE compile(CompiledGraphs, {Basic})
           \cup compile(Special \cup Several,
                        Profiled \cup Refused \cup Flawed \cup Selections)
           \cup compile(Several \cup OfEitherRank, Sdk \cup Generations)
=============================================================================
