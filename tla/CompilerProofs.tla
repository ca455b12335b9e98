--------------------------- MODULE CompilerProofs ---------------------------
(***************************************************************************)
(* Theorems about Compile, for any graphs, options and packs: the type of  *)
(* its variables, what the selected candidate of an op runs, what every    *)
(* candidate computes, where the plans put the candidates' temporaries,    *)
(* and which tensors the kernels take.                                     *)
(***************************************************************************)
EXTENDS Compiler, GraphPassesProofs

(* The least element of a set of numbers.                                  *)
LEMMA MinNat ==
  ASSUME NEW S \in SUBSET Nat, S # {}
  PROVE  Min(S) \in S /\ \A y \in S : Min(S) <= y
<1>1. \E x \in S : \A y \in S : x <= y
  <2> SUFFICES ASSUME \A x \in S : \E y \in S : ~(x <= y) PROVE FALSE
    OBVIOUS
  <2> DEFINE T == {n \in Nat : \A k \in 0..n : k \notin S}
  <2>1. 0 \in T
    <3>1. ASSUME 0 \in S PROVE FALSE
      <4>1. \A y \in S : 0 <= y
        OBVIOUS
      <4> QED
        BY <3>1, <4>1
    <3> QED
      BY <3>1
  <2>2. ASSUME NEW n \in Nat, n \in T PROVE n + 1 \in T
    <3>1. ASSUME n + 1 \in S PROVE FALSE
      <4>1. PICK y \in S : ~(n + 1 <= y)
        BY <3>1
      <4>2. y \in 0..n
        BY <4>1
      <4> QED
        BY <2>2, <4>2
    <3> QED
      BY <2>2, <3>1
  <2>3. Nat \subseteq T
    <3> HIDE DEF T
    <3> QED
      BY <2>1, <2>2, SetInduction
  <2>4. \A n \in Nat : n \notin S
    BY <2>3
  <2> QED
    BY <2>4
<1> QED
  BY <1>1 DEF Min

(* The greatest element of a finite set of numbers.                        *)
LEMMA MaxFinite ==
  ASSUME NEW S \in SUBSET Int, S # {}, IsFiniteSet(S)
  PROVE  Max(S) \in S /\ \A y \in S : y <= Max(S)
<1> DEFINE C == {A \in SUBSET S : A # {} => \E x \in A : \A y \in A : x >= y}
<1>1. {} \in C
  OBVIOUS
<1>2. ASSUME NEW A \in SUBSET S, NEW z \in S, A \in C, z \notin A PROVE A \cup {z} \in C
  <2>1. CASE A = {}
    BY <2>1
  <2>2. CASE A # {}
    <3>1. PICK x \in A : \A y \in A : x >= y
      BY <1>2, <2>2
    <3>2. CASE x >= z
      BY <3>1, <3>2
    <3>3. CASE ~(x >= z)
      <4>1. \A y \in A : z >= y
        BY <3>1, <3>3
      <4> QED
        BY <4>1
    <3> QED
      BY <3>2, <3>3
  <2> QED
    BY <2>1, <2>2
<1>3. S \in C
  <2> HIDE DEF C
  <2> QED
    BY <1>1, <1>2, FiniteSetInduction
<1>4. \E x \in S : \A y \in S : x >= y
  BY <1>3
<1>5. Max(S) \in S /\ \A y \in S : Max(S) >= y
  BY <1>4 DEF Max
<1> QED
  BY <1>5

(* What the values of a sequence of sequences are once it is flattened.    *)
LEMMA Flattened ==
  ASSUME NEW A, NEW seqs \in Seq(Seq(A))
  PROVE  /\ FlattenSeq(seqs) \in Seq(A)
         /\ \A x : x \in Range(FlattenSeq(seqs)) <=> \E i \in DOMAIN seqs : x \in Range(seqs[i])
<1> DEFINE n == Len(seqs)
<1>0. n \in Nat /\ DOMAIN seqs = 1..n /\ \A i \in 1..n : seqs[i] \in Seq(A)
  OBVIOUS
<1>1. CASE n = 0
  <2>1. seqs = <<>> /\ FlattenSeq(seqs) = seqs
    BY <1>1 DEF FlattenSeq
  <2> QED
    <3>1. Len(<<>>) = 0 /\ <<>> \in Seq(A) /\ DOMAIN <<>> = {}
      BY EmptySeq
    <3>2. Range(<<>>) = {} /\ DOMAIN seqs = {}
      BY <1>0, <1>1, <3>1 DEF Range
    <3> QED
      BY <2>1, <3>1, <3>2
<1>2. CASE n # 0
  <2> DEFINE Recursive(g) ==
               g = [i \in 1..n |-> IF i = 1 THEN seqs[i] ELSE g[i - 1] \o seqs[i]]
             flatten == CHOOSE g : Recursive(g)
             B == Seq(A)
             G == [q \in (1..n) \X B |-> IF q[1] = 1 THEN seqs[1] ELSE q[2] \o seqs[q[1]]]
  <2>1. FlattenSeq(seqs) = flatten[n]
    BY <1>2 DEF FlattenSeq
  <2>2. G \in [(1..n) \X B -> B] /\ <<>> \in B
    <3>1. ASSUME NEW i \in 1..n, NEW s \in B
          PROVE  (IF i = 1 THEN seqs[1] ELSE s \o seqs[i]) \in B
      BY <1>0, <1>2, ConcatProperties
    <3>2. <<>> \in B
      BY EmptySeq
    <3> HIDE DEF B
    <3> QED
      BY <3>1, <3>2
  <2>3. \E g : Recursive(g)
    <3>1. PICK f \in [0..n -> B] : Unfolds(f, <<>>, n, G)
      <4> HIDE DEF B, G, n
      <4> QED
        BY <1>0, <2>2, RecursiveFunction
    <3> DEFINE h == [i \in 1..n |-> f[i]]
    <3>2. ASSUME NEW i \in 1..n
          PROVE  h[i] = IF i = 1 THEN seqs[i] ELSE h[i - 1] \o seqs[i]
      <4>1. f[i] = G[<<i, f[i - 1]>>]
        <5> HIDE DEF G, B
        <5>1. i \in 0..n /\ i # 0
          OBVIOUS
        <5> QED
          BY <3>1, <5>1 DEF Unfolds
      <4>2. f[i - 1] \in B
        <5> HIDE DEF B
        <5>1. i - 1 \in 0..n
          BY <1>0
        <5> QED
          BY <3>1, <5>1
      <4>3. f[i] = IF i = 1 THEN seqs[1] ELSE f[i - 1] \o seqs[i]
        <5> HIDE DEF B
        <5> QED
          BY <4>1, <4>2
      <4>4. i # 1 => h[i - 1] = f[i - 1]
        OBVIOUS
      <4> QED
        BY <4>3, <4>4
    <3>3. h = [i \in 1..n |-> h[i]]
      OBVIOUS
    <3>4. Recursive(h)
      <4> HIDE DEF h
      <4> QED
        BY <3>2, <3>3
    <3> QED
      BY <3>4
  <2>4. Recursive(flatten)
    <3> HIDE DEF Recursive
    <3> QED
      BY <2>3
  <2> HIDE DEF flatten
  <2>5. \A i \in 1..n : flatten[i] = IF i = 1 THEN seqs[i] ELSE flatten[i - 1] \o seqs[i]
    BY <2>4
  <2> DEFINE Good(i) ==
               /\ flatten[i] \in Seq(A)
               /\ \A x : x \in Range(flatten[i]) <=> \E j \in 1..i : x \in Range(seqs[j])
             T == {i \in Nat : i + 1 <= n => Good(i + 1)}
  <2>6. 0 \in T
    BY <1>0, <1>2, <2>5
  <2>7. ASSUME NEW i \in Nat, i \in T PROVE i + 1 \in T
    <3> SUFFICES ASSUME (i + 1) + 1 <= n PROVE Good((i + 1) + 1)
      OBVIOUS
    <3> DEFINE k == (i + 1) + 1
    <3>1. Good(i + 1) /\ k - 1 = i + 1 /\ k \in 1..n /\ k # 1
      BY <2>7
    <3>2. flatten[k] = flatten[i + 1] \o seqs[k]
      BY <2>5, <3>1
    <3> DEFINE s == flatten[i + 1]
               t == seqs[k]
    <3>3. s \in Seq(A) /\ t \in Seq(A)
      BY <1>0, <3>1
    <3>4. \A x : x \in Range(s \o t) <=> x \in Range(s) \/ x \in Range(t)
      <4> HIDE DEF s, t
      <4>1. /\ s \o t \in Seq(A) /\ Len(s \o t) = Len(s) + Len(t)
            /\ \A j \in 1..(Len(s) + Len(t)) :
                 (s \o t)[j] = IF j <= Len(s) THEN s[j] ELSE t[j - Len(s)]
        BY <3>3, ConcatProperties
      <4>2. ASSUME NEW j \in 1..Len(s) PROVE s[j] \in Range(s \o t)
        BY <3>3, <4>1 DEF Range
      <4>3. ASSUME NEW j \in 1..Len(t) PROVE t[j] \in Range(s \o t)
        <5>1. j + Len(s) \in 1..(Len(s) + Len(t)) /\ ~(j + Len(s) <= Len(s))
              /\ (j + Len(s)) - Len(s) = j
          BY <3>3
        <5>2. (s \o t)[j + Len(s)] = t[j]
          BY <4>1, <5>1
        <5> QED
          <6>1. j + Len(s) \in DOMAIN (s \o t)
            BY <3>3, <4>1, <5>1
          <6> QED
            BY <5>2, <6>1 DEF Range
      <4>4. ASSUME NEW j \in 1..Len(s \o t)
            PROVE  (s \o t)[j] \in Range(s) \/ (s \o t)[j] \in Range(t)
        BY <3>3, <4>1 DEF Range
      <4>5. Range(s \o t) = {(s \o t)[j] : j \in 1..Len(s \o t)}
            /\ Range(s) = {s[j] : j \in 1..Len(s)} /\ Range(t) = {t[j] : j \in 1..Len(t)}
        BY <3>3, <4>1, RangeEquality
      <4> QED
        BY <4>2, <4>3, <4>4, <4>5
    <3>5. flatten[k] \in Seq(A)
      BY <3>2, <3>3, ConcatProperties
    <3>6. ASSUME NEW x
          PROVE  x \in Range(flatten[k]) <=> \E j \in 1..k : x \in Range(seqs[j])
      <4>1. x \in Range(flatten[k]) <=> x \in Range(s) \/ x \in Range(t)
        BY <3>2, <3>4
      <4>2. x \in Range(s) <=> \E j \in 1..(i + 1) : x \in Range(seqs[j])
        BY <3>1
      <4>3. 1..k = (1..(i + 1)) \cup {k}
        OBVIOUS
      <4> HIDE DEF k
      <4> QED
        BY <4>1, <4>2, <4>3
    <3> QED
      BY <3>5, <3>6
  <2>8. Nat \subseteq T
    <3> HIDE DEF T
    <3> QED
      BY <2>6, <2>7, SetInduction
  <2>9. n - 1 \in Nat /\ (n - 1) + 1 = n
    BY <1>0, <1>2
  <2>10. n - 1 \in T
    BY <2>8, <2>9
  <2>11. Good(n)
    BY <2>9, <2>10
  <2> QED
    BY <1>0, <2>1, <2>11
<1> QED
  BY <1>1, <1>2

-----------------------------------------------------------------------------
(* What steps read and write: values and decompositions' temporaries.      *)
Parts == {"conv", "bn", "add", "gemm"}

OperandSet ==
  {Operand(v) : v \in Value}
    \cup {<<"temporary", NodeName[v], part>> : v \in Value, part \in Parts}

Candidate ==
  [default : BOOLEAN,
   steps : Seq([kernel : Artifact, ins : Seq(OperandSet), out : OperandSet]),
   temporaries : Seq([name : OperandSet, like : Value, slot : Nat])]

(* A node and what it is compiled with are as the passes leave them.       *)
Lowerable(node) ==
  /\ node \in Node /\ Len(node.ins) \in InputCounts(node.op)
  /\ repository \in Seq(Artifact)

(* A node's inputs, output and temporaries are operands.                   *)
LEMMA OperandsTyped ==
  ASSUME NEW node \in Node
  PROVE  /\ Operands(node.ins) \in Seq(OperandSet)
         /\ Len(Operands(node.ins)) = Len(node.ins) /\ Len(node.ins) \in Nat
         /\ Operand(node.out) \in OperandSet
         /\ \A part \in Parts : Temporary(node, part) \in OperandSet
<1>1. node.ins \in Seq(Value) /\ node.out \in Value
  BY DEF Node
<1>2. \A k \in DOMAIN node.ins : Operand(node.ins[k]) \in OperandSet
  BY <1>1 DEF OperandSet
<1>3. \A part \in Parts : Temporary(node, part) \in OperandSet
  BY <1>1 DEF OperandSet, Temporary
<1>4. Operand(node.out) \in OperandSet
  BY <1>1 DEF OperandSet
<1>5. Operands(node.ins) = [k \in DOMAIN node.ins |-> Operand(node.ins[k])]
  BY DEF Operands
<1> QED
  BY <1>1, <1>2, <1>3, <1>4, <1>5

(* A temporary's part of the decomposition says which slot it has.         *)
PartSlot(part) == IF part = "bn" THEN 1 ELSE 0

StepSet == [op : StepOps, ins : Seq(OperandSet), out : OperandSet]

(* A step of a decomposition is one.                                       *)
LEMMA StepTyped ==
  ASSUME NEW op \in StepOps, NEW s \in Seq(OperandSet), NEW r \in OperandSet
  PROVE  Step(op, s, r) \in StepSet /\ Step(op, s, r).out = r
BY DEF Step, StepSet

(* Part of a list of operands is one, and so is one after another operand. *)
LEMMA OperandLists ==
  ASSUME NEW in \in Seq(OperandSet), NEW x \in OperandSet, NEW m \in Nat, NEW n \in Nat,
         m >= 1, n <= Len(in)
  PROVE  /\ SubSeq(in, m, n) \in Seq(OperandSet)
         /\ <<x>> \o SubSeq(in, m, n) \in Seq(OperandSet)
<1> DEFINE s == SubSeq(in, m, n)
<1>1. \A i \in m..n : in[i] \in OperandSet
  OBVIOUS
<1>2. s \in Seq(OperandSet)
  BY <1>1, SubSeqProperties
<1>3. <<x>> \in Seq(OperandSet)
  OBVIOUS
<1>4. <<x>> \o s \in Seq(OperandSet)
  <2> HIDE DEF s
  <2> QED
    BY <1>2, <1>3, ConcatProperties
<1> QED
  BY <1>2, <1>4

(* A decomposition: every step but the last writes a temporary.            *)
Decomposes(node, steps) ==
  /\ steps \in Seq(StepSet)
  /\ Len(steps) \in {2, 3}
  /\ \A k \in 1..(Len(steps) - 1) :
       \E part \in Parts : steps[k].out = Temporary(node, part) /\ PartSlot(part) = k - 1
  /\ steps[Len(steps)].out = Operand(node.out)

(* A tuple of two and one more.                                            *)
LEMMA TwoAndOne ==
  ASSUME NEW x, NEW y, NEW z
  PROVE  <<x, y>> \o <<z>> = <<x, y, z>>
<1> DEFINE S == {x, y, z}
           s == <<x, y>>
           t == <<z>>
<1>1. s \in Seq(S) /\ t \in Seq(S) /\ Len(s) = 2 /\ Len(t) = 1 /\ <<x, y, z>> \in Seq(S)
      /\ s[1] = x /\ s[2] = y /\ t[1] = z
  OBVIOUS
<1>2. /\ s \o t \in Seq(S) /\ Len(s \o t) = 3
      /\ \A i \in 1..3 : (s \o t)[i] = IF i <= 2 THEN s[i] ELSE t[i - 2]
  <2> HIDE DEF s, t, S
  <2>1. /\ s \o t \in Seq(S) /\ Len(s \o t) = Len(s) + Len(t)
        /\ \A i \in 1..(Len(s) + Len(t)) :
             (s \o t)[i] = IF i <= Len(s) THEN s[i] ELSE t[i - Len(s)]
    BY <1>1, ConcatProperties
  <2> QED
    BY <1>1, <2>1
<1>3. (s \o t)[1] = x /\ (s \o t)[2] = y /\ (s \o t)[3] = z
  <2> HIDE DEF s, t, S
  <2>1. 1 \in 1..3 /\ 2 \in 1..3 /\ 3 \in 1..3 /\ 1 <= 2 /\ 2 <= 2 /\ ~(3 <= 2) /\ 3 - 2 = 1
    OBVIOUS
  <2> QED
    BY <1>1, <1>2, <2>1
<1>4. Len(<<x, y, z>>) = 3
  OBVIOUS
<1>5. \A i \in 1..3 : (s \o t)[i] = <<x, y, z>>[i]
  <2> DEFINE w == s \o t
  <2>1. w[1] = x /\ w[2] = y /\ w[3] = z
    BY <1>3
  <2> HIDE DEF w
  <2>2. \A i \in 1..3 : i = 1 \/ i = 2 \/ i = 3
    OBVIOUS
  <2>3. \A i \in 1..3 : w[i] = <<x, y, z>>[i]
    BY <2>1, <2>2
  <2> QED
    BY <2>3 DEF w
<1> DEFINE w == s \o t
           u == <<x, y, z>>
<1>6. w \in Seq(S) /\ u \in Seq(S) /\ Len(w) = 3 /\ Len(u) = 3 /\ \A i \in 1..3 : w[i] = u[i]
  BY <1>1, <1>2, <1>4, <1>5
<1>7. w = u
  <2> HIDE DEF w, u, S
  <2> QED
    BY <1>6, SeqEqual
<1> QED
  BY <1>7

(* Every decomposition has two or three steps, and each but the last       *)
(* writes the temporary of its slot.                                       *)
LEMMA DecompositionForms ==
  ASSUME NEW node, Lowerable(node), Decomposition(node) # <<>>
  PROVE  Decomposes(node, Decomposition(node))
<1> DEFINE in == Operands(node.ins)
           out == Operand(node.out)
           conv == Temporary(node, "conv")
           bn == Temporary(node, "bn")
           sum == Temporary(node, "add")
           gemm == Temporary(node, "gemm")
           head == SubSeq(in, 1, 2)
           rest == <<conv>> \o SubSeq(in, 3, 6)
           norm == <<sum>> \o SubSeq(in, 3, 4)
           first == Step("Conv", head, conv)
           second(result) == Step("BatchNormalization", rest, result)
<1>1. /\ in \in Seq(OperandSet) /\ Len(in) \in InputCounts(node.op) /\ out \in OperandSet
      /\ conv \in OperandSet /\ bn \in OperandSet /\ sum \in OperandSet /\ gemm \in OperandSet
  BY OperandsTyped DEF Lowerable, Parts
<1>3. /\ "conv" \in Parts /\ PartSlot("conv") = 0 /\ "bn" \in Parts /\ PartSlot("bn") = 1
      /\ "add" \in Parts /\ PartSlot("add") = 0 /\ "gemm" \in Parts /\ PartSlot("gemm") = 0
  BY DEF Parts, PartSlot
<1> HIDE DEF in, out, conv, bn, sum, gemm
<1>2. /\ Len(in) = 6 => head \in Seq(OperandSet) /\ rest \in Seq(OperandSet)
      /\ Len(in) = 4 => head \in Seq(OperandSet) /\ norm \in Seq(OperandSet)
  <2>1. 1 \in Nat /\ 2 \in Nat /\ 3 \in Nat /\ 4 \in Nat /\ 6 \in Nat /\ 1 >= 1 /\ 3 >= 1
    OBVIOUS
  <2>2. ASSUME Len(in) = 6 PROVE head \in Seq(OperandSet) /\ rest \in Seq(OperandSet)
    <3>1. 2 <= Len(in) /\ 6 <= Len(in)
      BY <2>2
    <3> QED
      BY <1>1, <2>1, <3>1, OperandLists
  <2>3. ASSUME Len(in) = 4 PROVE head \in Seq(OperandSet) /\ norm \in Seq(OperandSet)
    <3>1. 2 <= Len(in) /\ 4 <= Len(in)
      BY <2>3
    <3> QED
      BY <1>1, <2>1, <3>1, OperandLists
  <2> QED
    BY <2>2, <2>3
<1>4. /\ <<bn>> \in Seq(OperandSet) /\ <<sum>> \in Seq(OperandSet)
      /\ <<gemm>> \in Seq(OperandSet)
  BY <1>1
<1> HIDE DEF head, rest, norm
(* Two steps, the first into the part's temporary.                         *)
<1>5. ASSUME NEW a \in StepSet, NEW b \in StepSet, NEW part \in Parts, PartSlot(part) = 0,
             a.out = Temporary(node, part), b.out = out, Decomposition(node) = <<a, b>>
      PROVE  Decomposes(node, Decomposition(node))
  <2>1. /\ <<a, b>> \in Seq(StepSet) /\ Len(<<a, b>>) = 2 /\ 1..(2 - 1) = {1} /\ 1 - 1 = 0
        /\ <<a, b>>[1] = a /\ <<a, b>>[2] = b
    OBVIOUS
  <2> QED
    BY <1>5, <2>1 DEF Decomposes, out
<1>6. ASSUME NEW a \in StepSet, NEW b \in StepSet, NEW c \in StepSet,
             a.out = conv, b.out = bn, c.out = out, Decomposition(node) = <<a, b, c>>
      PROVE  Decomposes(node, Decomposition(node))
  <2>1. /\ <<a, b, c>> \in Seq(StepSet) /\ Len(<<a, b, c>>) = 3 /\ 1..(3 - 1) = {1, 2}
        /\ 1 - 1 = 0 /\ 2 - 1 = 1
        /\ <<a, b, c>>[1] = a /\ <<a, b, c>>[2] = b /\ <<a, b, c>>[3] = c
    OBVIOUS
  <2> QED
    BY <1>3, <1>6, <2>1 DEF Decomposes, out, conv, bn
<1>7. CASE node.op = "FusedConvBatchNorm"
  <2>1. Len(in) = 6
    BY <1>1, <1>7 DEF InputCounts, Elementwise, PoolLike
  <2>2. Decomposition(node) = <<first, second(out)>>
    BY <1>7 DEF Decomposition, ConvThenNorm, head, rest, in, out, conv
  <2>4. first \in StepSet /\ second(out) \in StepSet /\ first.out = conv /\ second(out).out = out
    BY <1>1, <1>2, <1>4, <2>1, StepTyped DEF StepOps
  <2> HIDE DEF first, second
  <2> QED
    BY <1>3, <1>5, <2>2, <2>4 DEF conv
<1>8. CASE node.op = "FusedConvBatchNormRelu"
  <2> DEFINE third == Step("Relu", <<bn>>, out)
  <2>1. Len(in) = 6
    BY <1>1, <1>8 DEF InputCounts, Elementwise, PoolLike
  <2>2. Decomposition(node) = <<first, second(bn)>> \o <<third>>
    BY <1>8 DEF Decomposition, ConvThenNorm, head, rest, in, out, conv, bn
  <2>4. /\ first \in StepSet /\ second(bn) \in StepSet /\ third \in StepSet
        /\ first.out = conv /\ second(bn).out = bn /\ third.out = out
    <3>1. first \in StepSet /\ first.out = conv
      BY <1>1, <1>2, <2>1, StepTyped DEF StepOps
    <3>2. second(bn) \in StepSet /\ second(bn).out = bn
      BY <1>1, <1>2, <2>1, StepTyped DEF StepOps
    <3>3. third \in StepSet /\ third.out = out
      BY <1>1, <1>4, StepTyped DEF StepOps
    <3> QED
      BY <3>1, <3>2, <3>3
  <2>5. \A x, y, z : <<x, y>> \o <<z>> = <<x, y, z>>
    BY TwoAndOne
  <2> HIDE DEF first, second, third
  <2> QED
    BY <1>6, <2>2, <2>4, <2>5
<1>9. CASE node.op = "AddRelu"
  <2> DEFINE a == Step("Add", in, sum)
             b == Step("Relu", <<sum>>, out)
  <2>1. Decomposition(node) = <<a, b>>
    BY <1>9 DEF Decomposition, in, out, sum
  <2>2. a \in StepSet /\ b \in StepSet /\ a.out = sum /\ b.out = out
    BY <1>1, <1>4, StepTyped DEF StepOps
  <2> HIDE DEF a, b
  <2> QED
    BY <1>3, <1>5, <2>1, <2>2 DEF sum
<1>10. CASE node.op = "GemmGelu"
  <2> DEFINE a == Step("Gemm", in, gemm)
             b == Step("Gelu", <<gemm>>, out)
  <2>1. Decomposition(node) = <<a, b>>
    BY <1>10 DEF Decomposition, in, out, gemm
  <2>2. a \in StepSet /\ b \in StepSet /\ a.out = gemm /\ b.out = out
    BY <1>1, <1>4, StepTyped DEF StepOps
  <2> HIDE DEF a, b
  <2> QED
    BY <1>3, <1>5, <2>1, <2>2 DEF gemm
<1>11. CASE node.op = "SkipLayerNormalization"
  <2> DEFINE a == Step("Add", head, sum)
             b == Step("LayerNormalization", norm, out)
  <2>1. Len(in) = 4
    BY <1>1, <1>11 DEF InputCounts, Elementwise, PoolLike
  <2>2. Decomposition(node) = <<a, b>>
    BY <1>11 DEF Decomposition, head, norm, in, out, sum
  <2>4. a \in StepSet /\ b \in StepSet /\ a.out = sum /\ b.out = out
    BY <1>1, <1>2, <1>4, <2>1, StepTyped DEF StepOps
  <2> HIDE DEF a, b
  <2> QED
    BY <1>3, <1>5, <2>2, <2>4 DEF sum
<1>12. ASSUME node.op \notin {"FusedConvBatchNorm", "FusedConvBatchNormRelu", "AddRelu",
                              "GemmGelu", "SkipLayerNormalization"}
       PROVE  FALSE
  BY <1>12 DEF Decomposition
<1> QED
  BY <1>7, <1>8, <1>9, <1>10, <1>11, <1>12

-----------------------------------------------------------------------------
(* The artifacts that match a node are of its operator.                    *)
LEMMA MatchingElements ==
  ASSUME NEW node, repository \in Seq(Artifact)
  PROVE  /\ Matching(node) \in Seq(Artifact)
         /\ \A i \in DOMAIN Matching(node) : Matching(node)[i].op = node.op
<1> DEFINE S == {k \in DOMAIN repository :
                   /\ repository[k].op = node.op
                   /\ Suits(repository[k], Len(node.ins), known[node.ins[1]])}
<1>1. Matching(node) = Kept(repository, S)
  BY DEF Matching
<1>2. \A k \in S : repository[k].op = node.op
  OBVIOUS
<1> HIDE DEF S
<1>3. /\ Kept(repository, S) \in Seq(Artifact)
      /\ \A i \in DOMAIN Kept(repository, S) :
           \E k \in (1..Len(repository)) \cap S : Kept(repository, S)[i] = repository[k]
  BY KeptElements
<1> QED
  BY <1>1, <1>2, <1>3

(* The default artifact of an operator is one of its artifacts.            *)
LEMMA DefaultArtifactFits ==
  ASSUME NEW op, repository \in Seq(Artifact), DefaultArtifact(op) # 0
  PROVE  /\ DefaultArtifact(op) \in DOMAIN repository
         /\ repository[DefaultArtifact(op)].op = op
<1> DEFINE I == {i \in 1..Len(repository) :
                   /\ repository[i].op = op /\ repository[i].default
                   /\ repository[i].dtype = options.dtype}
<1>1. DefaultArtifact(op) = IF I # {} THEN Min(I) ELSE 0
  BY DEF DefaultArtifact, SelectInSeq
<1>2. I \in SUBSET Nat /\ I # {}
  BY <1>1
<1>3. Min(I) \in I
  <2> HIDE DEF I
  <2> QED
    BY <1>2, MinNat
<1>4. DefaultArtifact(op) \in I
  <2> HIDE DEF I
  <2> QED
    BY <1>1, <1>2, <1>3
<1> QED
  BY <1>4

Single(node, artifact) ==
  [default |-> artifact.default,
   steps |-> <<[kernel |-> artifact, ins |-> Operands(node.ins), out |-> Operand(node.out)]>>,
   temporaries |-> <<>>]

(* The candidate of a decomposition, and whether every step has a kernel.  *)
Fallback(node) ==
  LET steps == Decomposition(node)
  IN  [default |-> FALSE,
       steps |-> [k \in DOMAIN steps |->
                    [kernel |-> repository[DefaultArtifact(steps[k].op)],
                     ins |-> steps[k].ins, out |-> steps[k].out]],
       temporaries |-> [k \in 1..(Len(steps) - 1) |->
                          [name |-> steps[k].out, like |-> node.out, slot |-> k - 1]]]

HasFallback(node) ==
  /\ Decomposition(node) # <<>>
  /\ \A k \in DOMAIN Decomposition(node) : DefaultArtifact(Decomposition(node)[k].op) # 0

(* Lower adds the decomposition if every step of it has a default kernel.  *)
LEMMA AlternativesAre ==
  ASSUME NEW node
  PROVE  Alternatives(node) = IF HasFallback(node) THEN <<Fallback(node)>> ELSE <<>>
BY DEF Alternatives, HasFallback, Fallback

(* The decomposition's candidate: its temporaries are like the node's      *)
(* output and have a slot each.                                            *)
LEMMA FallbackTyped ==
  ASSUME NEW node, Lowerable(node), HasFallback(node)
  PROVE  /\ Fallback(node) \in Candidate
         /\ \A t \in Range(Fallback(node).temporaries) :
              t.like = node.out /\ \E part \in Parts :
                t.name = Temporary(node, part) /\ t.slot = PartSlot(part)
         /\ \A t, u \in Range(Fallback(node).temporaries) : t # u => t.slot # u.slot
<1> DEFINE steps == Decomposition(node)
           n == Len(steps)
<1>1. Decomposes(node, steps)
  BY DecompositionForms DEF HasFallback
<1>2. /\ steps \in Seq(StepSet) /\ n \in {2, 3} /\ DOMAIN steps = 1..n
      /\ \A k \in 1..n : steps[k] \in StepSet
  BY <1>1 DEF Decomposes
<1>3. \A k \in 1..n : DefaultArtifact(steps[k].op) # 0
  BY <1>2 DEF HasFallback
<1> HIDE DEF steps, n
<1>4. ASSUME NEW k \in 1..n
      PROVE  [kernel |-> repository[DefaultArtifact(steps[k].op)],
              ins |-> steps[k].ins, out |-> steps[k].out]
                \in [kernel : Artifact, ins : Seq(OperandSet), out : OperandSet]
  <2>1. DefaultArtifact(steps[k].op) \in DOMAIN repository /\ repository \in Seq(Artifact)
    BY <1>3, DefaultArtifactFits DEF Lowerable
  <2>2. repository[DefaultArtifact(steps[k].op)] \in Artifact
    BY <2>1
  <2> QED
    BY <1>2, <2>2 DEF StepSet
<1>5. node.out \in Value
  BY DEF Lowerable, Node
<1> DEFINE ks == [k \in 1..n |->
                    [kernel |-> repository[DefaultArtifact(steps[k].op)],
                     ins |-> steps[k].ins, out |-> steps[k].out]]
           temps == [k \in 1..(n - 1) |->
                       [name |-> steps[k].out, like |-> node.out, slot |-> k - 1]]
<1>6. Fallback(node) = [default |-> FALSE, steps |-> ks, temporaries |-> temps]
  BY <1>2 DEF Fallback, steps, n
<1>7. ks \in Seq([kernel : Artifact, ins : Seq(OperandSet), out : OperandSet])
  BY <1>2, <1>4
<1>8. n - 1 \in Nat /\ \A k \in 1..(n - 1) : k \in 1..n /\ k - 1 \in Nat
  BY <1>2
<1>9. temps \in Seq([name : OperandSet, like : Value, slot : Nat])
  <2>1. \A k \in 1..(n - 1) : [name |-> steps[k].out, like |-> node.out, slot |-> k - 1]
                                 \in [name : OperandSet, like : Value, slot : Nat]
    BY <1>2, <1>5, <1>8 DEF StepSet
  <2> DEFINE T == [name : OperandSet, like : Value, slot : Nat]
  <2>2. \A k \in 1..(n - 1) : temps[k] \in T
    BY <2>1
  <2>3. temps = [k \in 1..(n - 1) |-> temps[k]]
    OBVIOUS
  <2> HIDE DEF T, temps
  <2>4. temps \in [1..(n - 1) -> T]
    BY <2>2, <2>3
  <2>5. temps \in Seq(T)
    BY <1>8, <2>4, SeqDef
  <2> QED
    BY <2>5 DEF T
<1>10. DOMAIN temps = 1..(n - 1)
  OBVIOUS
<1>11. ASSUME NEW k \in 1..(n - 1)
       PROVE  /\ temps[k].like = node.out /\ temps[k].slot = k - 1
              /\ \E part \in Parts :
                   temps[k].name = Temporary(node, part) /\ temps[k].slot = PartSlot(part)
  <2>1. \E part \in Parts : steps[k].out = Temporary(node, part) /\ PartSlot(part) = k - 1
    BY <1>1 DEF Decomposes, n
  <2> QED
    BY <2>1
<1> HIDE DEF ks, temps
<1>12. Fallback(node).temporaries = temps /\ Fallback(node) \in Candidate
  BY <1>6, <1>7, <1>9 DEF Candidate
<1>13. \A t \in Range(temps) : \E k \in 1..(n - 1) : t = temps[k]
  BY <1>10 DEF Range
<1>14. ASSUME NEW t \in Range(temps), NEW u \in Range(temps), t # u PROVE t.slot # u.slot
  <2>1. PICK k \in 1..(n - 1) : t = temps[k]
    BY <1>13
  <2>2. PICK l \in 1..(n - 1) : u = temps[l]
    BY <1>13
  <2>3. k # l
    BY <2>1, <2>2, <1>14
  <2> QED
    BY <2>1, <2>2, <2>3, <1>8, <1>11
<1> QED
  BY <1>11, <1>12, <1>13, <1>14

(* A kernel alone is a candidate.                                          *)
LEMMA SingleTyped ==
  ASSUME NEW node, Lowerable(node), NEW artifact \in Artifact
  PROVE  Single(node, artifact) \in Candidate
<1>1. Operands(node.ins) \in Seq(OperandSet) /\ Operand(node.out) \in OperandSet
  BY OperandsTyped DEF Lowerable
<1>2. artifact.default \in BOOLEAN
  BY DEF Artifact
<1> DEFINE step == [kernel |-> artifact, ins |-> Operands(node.ins), out |-> Operand(node.out)]
           T == [kernel : Artifact, ins : Seq(OperandSet), out : OperandSet]
<1>3. step \in T
  BY <1>1
<1>4. <<step>> \in Seq(T)
  <2> HIDE DEF step, T
  <2> QED
    BY <1>3
<1>5. <<>> \in Seq([name : OperandSet, like : Value, slot : Nat])
  BY EmptySeq
<1> HIDE DEF step
<1> QED
  BY <1>2, <1>4, <1>5 DEF Single, Candidate, step

(* The candidates of a node with kernels: one for each artifact, then the  *)
(* decomposition's.                                                        *)
LEMMA CandidatesAre ==
  ASSUME NEW node, Lowerable(node), node.op # "Flatten"
  PROVE  LET matching == Matching(node)
             all == Candidates(node)
         IN  /\ all \in Seq(Candidate) /\ Len(all) >= Len(matching)
             /\ \A k \in 1..Len(matching) : all[k] = Single(node, matching[k])
             /\ \A k \in DOMAIN all : k > Len(matching) =>
                  HasFallback(node) /\ all[k] = Fallback(node)
<1> DEFINE matching == Matching(node)
           singles == [k \in DOMAIN matching |-> Single(node, matching[k])]
           rest == Alternatives(node)
           all == Candidates(node)
<1>1. matching \in Seq(Artifact)
  BY MatchingElements DEF Lowerable
<1>2. all = singles \o rest
  BY DEF Candidates, Single
<1> HIDE DEF all, matching
<1>3. singles \in Seq(Candidate) /\ Len(singles) = Len(matching)
      /\ \A k \in 1..Len(matching) : singles[k] = Single(node, matching[k])
  <2>1. \A k \in DOMAIN matching : Single(node, matching[k]) \in Candidate
    BY <1>1, SingleTyped
  <2> QED
    BY <1>1, <2>1
<1>4. /\ rest \in Seq(Candidate)
      /\ \A k \in 1..Len(rest) : HasFallback(node) /\ rest[k] = Fallback(node)
  <2>1. CASE HasFallback(node)
    <3>1. rest = <<Fallback(node)>> /\ Fallback(node) \in Candidate
      BY <2>1, AlternativesAre, FallbackTyped
    <3> DEFINE f == Fallback(node)
    <3> HIDE DEF f, rest
    <3>2. rest = <<f>> /\ f \in Candidate
      BY <3>1 DEF f
    <3>3. <<f>> \in Seq(Candidate) /\ Len(<<f>>) = 1 /\ <<f>>[1] = f
      BY <3>2
    <3>4. \A k \in 1..1 : k = 1
      OBVIOUS
    <3> QED
      BY <2>1, <3>2, <3>3, <3>4 DEF f
  <2>2. CASE ~HasFallback(node)
    <3>1. rest = <<>>
      BY <2>2, AlternativesAre
    <3> QED
      BY <3>1, EmptySeq
  <2> QED
    BY <2>1, <2>2
<1> HIDE DEF singles, rest
<1>5. /\ all \in Seq(Candidate) /\ Len(all) = Len(singles) + Len(rest)
      /\ \A k \in 1..(Len(singles) + Len(rest)) :
           all[k] = IF k <= Len(singles) THEN singles[k] ELSE rest[k - Len(singles)]
  BY <1>2, <1>3, <1>4, ConcatProperties
<1>6. Len(matching) \in Nat /\ Len(rest) \in Nat
  BY <1>1, <1>4
<1>7. \A k \in 1..Len(matching) : all[k] = Single(node, matching[k])
  BY <1>3, <1>5, <1>6
<1>8. ASSUME NEW k \in DOMAIN all, k > Len(matching)
      PROVE  HasFallback(node) /\ all[k] = Fallback(node)
  <2>1. k - Len(matching) \in 1..Len(rest) /\ k \in 1..(Len(singles) + Len(rest))
        /\ ~(k <= Len(singles))
    BY <1>3, <1>5, <1>6, <1>8
  <2> QED
    BY <1>3, <1>4, <1>5, <2>1
<1>9. Len(all) >= Len(matching)
  BY <1>3, <1>5, <1>6
<1> QED
  BY <1>5, <1>7, <1>8, <1>9 DEF all, matching

(* What is selected for a node with kernels runs one of them, a default    *)
(* one if there is one.                                                    *)
LEMMA SelectedCandidate ==
  ASSUME NEW node, Lowerable(node), node.op # "Flatten", Matching(node) # <<>>
  PROVE  LET matching == Matching(node)
             selected == Selected(Candidates(node))
         IN  /\ selected \in 1..Len(matching) /\ selected \in DOMAIN Candidates(node)
             /\ Candidates(node)[selected] = Single(node, matching[selected])
             /\ (\E a \in Range(matching) : a.default) => matching[selected].default
<1> DEFINE matching == Matching(node)
           all == Candidates(node)
           I == {i \in 1..Len(all) : all[i].default}
<1>1. /\ matching \in Seq(Artifact) /\ Len(matching) \in Nat /\ Len(matching) >= 1
      /\ DOMAIN matching = 1..Len(matching)
  <2>1. matching \in Seq(Artifact)
    BY MatchingElements DEF Lowerable
  <2> HIDE DEF matching
  <2>2. matching # <<>>
    BY DEF matching
  <2> QED
    BY <2>1, <2>2, EmptySeq, LenProperties
<1>2. /\ all \in Seq(Candidate) /\ Len(all) \in Nat /\ DOMAIN all = 1..Len(all)
      /\ Len(all) >= Len(matching)
      /\ \A k \in 1..Len(matching) : all[k] = Single(node, matching[k])
      /\ \A k \in DOMAIN all : k > Len(matching) => all[k] = Fallback(node)
  BY CandidatesAre, LenProperties
<1>3. DefaultCandidate(all) = IF I # {} THEN Min(I) ELSE 0
  BY DEF DefaultCandidate, SelectInSeq
<1> HIDE DEF all, matching
<1>4. \A k \in 1..Len(matching) : k \in 1..Len(all) /\ all[k].default = matching[k].default
  <2>1. \A a : Single(node, a).default = a.default
    BY DEF Single
  <2>2. \A k \in 1..Len(matching) : k \in 1..Len(all)
    BY <1>1, <1>2
  <2> QED
    BY <1>2, <2>1, <2>2
<1>5. ASSUME NEW k \in I PROVE k \in 1..Len(matching) /\ matching[k].default
  <2>1. ASSUME k > Len(matching) PROVE FALSE
    <3>1. all[k] = Fallback(node) /\ all[k].default
      BY <1>2, <2>1
    <3> QED
      BY <3>1 DEF Fallback
  <2>2. k \in 1..Len(matching)
    BY <1>1, <1>2, <2>1
  <2> QED
    BY <1>4, <2>2
<1>6. ASSUME NEW a \in Range(matching), a.default PROVE I # {}
  <2>1. PICK k \in 1..Len(matching) : a = matching[k]
    BY <1>1 DEF Range
  <2> QED
    BY <1>4, <1>6, <2>1
<1>7. CASE I = {}
  <2>1. Selected(all) = 1
    BY <1>3, <1>7 DEF Selected
  <2>2. 1 \in 1..Len(matching)
    BY <1>1
  <2> HIDE DEF I
  <2> QED
    BY <1>2, <1>4, <1>6, <1>7, <2>1, <2>2 DEF all, matching
<1>8. CASE I # {}
  <2>1. I \in SUBSET Nat
    OBVIOUS
  <2>2. Min(I) \in I
    <3> HIDE DEF I
    <3> QED
      BY <1>8, <2>1, MinNat
  <2>3. Min(I) \in 1..Len(matching) /\ matching[Min(I)].default
    <3> HIDE DEF I
    <3> QED
      BY <1>5, <2>2
  <2> HIDE DEF I
  <2>4. Min(I) # 0 /\ DefaultCandidate(all) = Min(I)
    BY <1>1, <1>3, <1>8, <2>3
  <2>5. Selected(all) = Min(I)
    BY <2>4 DEF Selected
  <2> QED
    BY <1>2, <1>4, <2>3, <2>5 DEF all, matching
<1> QED
  BY <1>7, <1>8

(* Every supported node has a candidate that can be selected.              *)
LEMMA SupportedHasSelection ==
  ASSUME NEW node, Lowerable(node), Supported(node)
  PROVE  /\ Candidates(node) \in Seq(Candidate)
         /\ Selected(Candidates(node)) \in DOMAIN Candidates(node)
<1>1. CASE node.op = "Flatten"
  <2> DEFINE view == [default |-> TRUE, steps |-> <<>>, temporaries |-> <<>>]
  <2>1. Candidates(node) = <<view>>
    BY <1>1 DEF Candidates
  <2>2. view \in Candidate
    BY EmptySeq DEF Candidate
  <2>3. /\ <<view>> \in Seq(Candidate) /\ Len(<<view>>) = 1 /\ <<view>>[1] = view
        /\ DOMAIN <<view>> = 1..1
    <3> HIDE DEF view
    <3> QED
      BY <2>2
  <2> DEFINE all == <<view>>
             I == {i \in 1..Len(all) : all[i].default}
  <2>4. DefaultCandidate(all) = IF I # {} THEN Min(I) ELSE 0
    BY DEF DefaultCandidate, SelectInSeq
  <2>5. I = {1}
    BY <2>3
  <2>6. Min(I) \in I
    <3> HIDE DEF I
    <3>1. I \in SUBSET Nat /\ I # {}
      BY <2>5
    <3> QED
      BY <3>1, MinNat
  <2>7. DefaultCandidate(all) = 1
    BY <2>4, <2>5, <2>6
  <2>8. Selected(all) = 1
    BY <2>7 DEF Selected
  <2> QED
    BY <2>1, <2>3, <2>8
<1>2. CASE node.op # "Flatten"
  <2>1. Matching(node) # <<>>
    BY <1>2 DEF Supported
  <2> QED
    BY <1>2, <2>1, CandidatesAre, SelectedCandidate
<1> QED
  BY <1>1, <1>2

-----------------------------------------------------------------------------
(* A list of operands with what the first of them was computed as.         *)
Substituted(s, x, y) == [j \in DOMAIN s |-> IF x = s[j] THEN y ELSE s[j]]

(* What is not in a list is replaced in front of it only.                  *)
LEMMA SubstitutedFirst ==
  ASSUME NEW X, NEW r \in Seq(X), NEW x, x \notin X, NEW y
  PROVE  Substituted(<<x>> \o r, x, y) = <<y>> \o r
<1> DEFINE S == X \cup {x, y}
           s == <<x>>
           t == <<y>>
<1>1. /\ s \in Seq(S) /\ Len(s) = 1 /\ s[1] = x
      /\ t \in Seq(S) /\ Len(t) = 1 /\ t[1] = y
  OBVIOUS
<1>2. r \in Seq(S) /\ Len(r) \in Nat /\ \A i \in 1..Len(r) : r[i] \in X
  <2>1. X \subseteq S
    OBVIOUS
  <2> HIDE DEF S
  <2> QED
    BY <2>1, SeqMonotonic
<1>3. X \subseteq S /\ y \in S
  OBVIOUS
<1> HIDE DEF S, s, t
<1> DEFINE n == 1 + Len(r)
           sr == s \o r
           tr == t \o r
<1>4. /\ sr \in Seq(S) /\ Len(sr) = n
      /\ \A i \in 1..n : sr[i] = IF i <= 1 THEN s[i] ELSE r[i - 1]
  <2>1. /\ sr \in Seq(S) /\ Len(sr) = Len(s) + Len(r)
        /\ \A i \in 1..(Len(s) + Len(r)) :
             sr[i] = IF i <= Len(s) THEN s[i] ELSE r[i - Len(s)]
    BY <1>1, <1>2, ConcatProperties
  <2> HIDE DEF sr
  <2> QED
    BY <1>1, <2>1
<1>5. /\ tr \in Seq(S) /\ Len(tr) = n
      /\ \A i \in 1..n : tr[i] = IF i <= 1 THEN t[i] ELSE r[i - 1]
  <2>1. /\ tr \in Seq(S) /\ Len(tr) = Len(t) + Len(r)
        /\ \A i \in 1..(Len(t) + Len(r)) :
             tr[i] = IF i <= Len(t) THEN t[i] ELSE r[i - Len(t)]
    BY <1>1, <1>2, ConcatProperties
  <2> HIDE DEF tr
  <2> QED
    BY <1>1, <2>1
<1> DEFINE z == Substituted(sr, x, y)
<1>6. DOMAIN sr = 1..n /\ n \in Nat
  <2> HIDE DEF sr
  <2> QED
    BY <1>2, <1>4
<1> HIDE DEF sr, tr
<1>7. z \in Seq(S) /\ Len(z) = n /\ \A i \in 1..n : z[i] = IF x = sr[i] THEN y ELSE sr[i]
  <2>1. z = [j \in 1..n |-> IF x = sr[j] THEN y ELSE sr[j]]
    BY <1>6 DEF Substituted
  <2>2. \A j \in 1..n : (IF x = sr[j] THEN y ELSE sr[j]) \in S
    BY <1>3, <1>4, <1>6
  <2> HIDE DEF z
  <2> QED
    BY <1>6, <2>1, <2>2
<1> HIDE DEF z
<1>8. ASSUME NEW i \in 1..n PROVE z[i] = tr[i]
  <2>1. CASE i = 1
    <3>1. sr[i] = x /\ tr[i] = y
      BY <1>1, <1>4, <1>5, <2>1
    <3> QED
      BY <1>7, <3>1
  <2>2. CASE i # 1
    <3>1. ~(i <= 1) /\ i - 1 \in 1..Len(r)
      BY <1>2, <2>2
    <3>2. sr[i] = r[i - 1] /\ tr[i] = r[i - 1] /\ r[i - 1] \in X
      BY <1>2, <1>4, <1>5, <3>1
    <3>3. x # sr[i]
      BY <3>2
    <3> QED
      BY <1>7, <3>2, <3>3
  <2> QED
    BY <2>1, <2>2
<1>9. z = tr
  BY <1>5, <1>7, <1>8, SeqEqual
<1> QED
  BY <1>9 DEF z, sr, tr, s, t

(* The only operand is replaced.                                           *)
LEMMA SubstitutedOnly ==
  ASSUME NEW x, NEW y
  PROVE  Substituted(<<x>>, x, y) = <<y>>
BY DEF Substituted

(* The operands of step k, those computed by the steps before as g has it. *)
Args(steps, g, k) ==
  [j \in DOMAIN steps[k].ins |->
     LET made == {l \in 1..(k - 1) : steps[l].out = steps[k].ins[j]}
     IN  IF made = {} THEN steps[k].ins[j] ELSE g[Max(made)]]

(* The first step reads values alone.                                      *)
LEMMA FirstArgs ==
  ASSUME NEW steps, NEW g
  PROVE  Args(steps, g, 1) = [j \in DOMAIN steps[1].ins |-> steps[1].ins[j]]
<1>1. \A j : {l \in 1..(1 - 1) : steps[l].out = steps[1].ins[j]} = {}
  OBVIOUS
<1> QED
  BY <1>1 DEF Args

(* The second step may read what the first one wrote.                      *)
LEMMA SecondArgs ==
  ASSUME NEW steps, NEW g
  PROVE  Args(steps, g, 2) = Substituted(steps[2].ins, steps[1].out, g[1])
<1>1. ASSUME NEW j
      PROVE  LET made == {l \in 1..(2 - 1) : steps[l].out = steps[2].ins[j]}
             IN  (IF made = {} THEN steps[2].ins[j] ELSE g[Max(made)])
                   = IF steps[1].out = steps[2].ins[j] THEN g[1] ELSE steps[2].ins[j]
  <2>1. Max({1}) = 1
    BY DEF Max
  <2>2. 1..(2 - 1) = {1}
    OBVIOUS
  <2>3. CASE steps[1].out = steps[2].ins[j]
    <3>1. {l \in 1..(2 - 1) : steps[l].out = steps[2].ins[j]} = {1}
      BY <2>2, <2>3
    <3> QED
      BY <2>1, <2>3, <3>1
  <2>4. CASE steps[1].out # steps[2].ins[j]
    <3>1. {l \in 1..(2 - 1) : steps[l].out = steps[2].ins[j]} = {}
      BY <2>2, <2>4
    <3> QED
      BY <2>4, <3>1
  <2> QED
    BY <2>3, <2>4
<1> QED
  BY <1>1 DEF Args, Substituted

(* A third step that reads the second one's result only.                   *)
LEMMA ThirdArgs ==
  ASSUME NEW steps, NEW g, NEW x, steps[3].ins = <<x>>, steps[2].out = x, steps[1].out # x
  PROVE  Args(steps, g, 3) = <<g[2]>>
<1>1. DOMAIN steps[3].ins = {1} /\ steps[3].ins[1] = x
  OBVIOUS
<1>2. {l \in 1..(3 - 1) : steps[l].out = steps[3].ins[1]} = {2}
  <2>1. 1..(3 - 1) = {1, 2}
    OBVIOUS
  <2> QED
    BY <1>1, <2>1
<1>3. Max({2}) = 2 /\ {2} # {}
  BY DEF Max
<1>4. Args(steps, g, 3) = [j \in {1} |-> g[2]]
  BY <1>1, <1>2, <1>3 DEF Args
<1>5. [j \in {1} |-> g[2]] = <<g[2]>>
  OBVIOUS
<1> QED
  BY <1>4, <1>5

-----------------------------------------------------------------------------
(* What a step reads depends on the steps before it only.                  *)
LEMMA ArgsDepend ==
  ASSUME NEW steps, NEW k \in Nat, NEW g, NEW h, \A l \in 1..(k - 1) : g[l] = h[l]
  PROVE  Args(steps, g, k) = Args(steps, h, k)
<1>1. ASSUME NEW j
      PROVE  LET made == {l \in 1..(k - 1) : steps[l].out = steps[k].ins[j]}
             IN  (IF made = {} THEN steps[k].ins[j] ELSE g[Max(made)])
                   = IF made = {} THEN steps[k].ins[j] ELSE h[Max(made)]
  <2> DEFINE made == {l \in 1..(k - 1) : steps[l].out = steps[k].ins[j]}
  <2>1. CASE made = {}
    BY <2>1
  <2>2. CASE made # {}
    <3>1. made \subseteq 1..(k - 1) /\ made \in SUBSET Int
      OBVIOUS
    <3>2. IsFiniteSet(1..(k - 1))
      <4>1. k - 1 \in Int /\ 1 \in Int
        OBVIOUS
      <4> QED
        BY <4>1, FS_Interval
    <3>3. IsFiniteSet(made)
      <4> HIDE DEF made
      <4> QED
        BY <3>1, <3>2, FS_Subset
    <3>4. Max(made) \in made
      <4> HIDE DEF made
      <4> QED
        BY <2>2, <3>1, <3>3, MaxFinite
    <3>5. g[Max(made)] = h[Max(made)]
      <4> HIDE DEF made
      <4> QED
        BY <3>1, <3>4
    <3> HIDE DEF made
    <3>6. (IF made = {} THEN steps[k].ins[j] ELSE g[Max(made)])
            = IF made = {} THEN steps[k].ins[j] ELSE h[Max(made)]
      BY <2>2, <3>5
    <3> QED
      BY <3>6 DEF made
  <2> HIDE DEF made
  <2>3. (IF made = {} THEN steps[k].ins[j] ELSE g[Max(made)])
          = IF made = {} THEN steps[k].ins[j] ELSE h[Max(made)]
    BY <2>1, <2>2 DEF made
  <2> QED
    BY <2>3 DEF made
<1> QED
  BY <1>1 DEF Args

(* g is what the steps compute, one after another.                         *)
ComputedAs(steps, g) ==
  g = [k \in DOMAIN steps |-> Term(steps[k].kernel.op, Args(steps, g, k))]

(* The recursion of Computed has a solution.                               *)
Solved(steps) == \E g : ComputedAs(steps, g) /\ Computed(steps) = g[Len(steps)]

(* One, two or three steps, numbered from one.                             *)
FewSteps(steps) == Len(steps) \in {1, 2, 3} /\ DOMAIN steps = 1..Len(steps)

(* Up to three steps have one.                                             *)
LEMMA ComputedUnfolds ==
  ASSUME NEW steps, FewSteps(steps)
  PROVE  Solved(steps)
<1>0. Len(steps) \in {1, 2, 3} /\ DOMAIN steps = 1..Len(steps)
  BY DEF FewSteps
<1> DEFINE op(k) == steps[k].kernel.op
           h1 == Term(op(1), Args(steps, <<>>, 1))
           h2 == Term(op(2), Args(steps, [k \in {1} |-> h1], 2))
           h3 == Term(op(3), Args(steps, [k \in {1, 2} |-> IF k = 1 THEN h1 ELSE h2], 3))
           h == [k \in DOMAIN steps |-> IF k = 1 THEN h1 ELSE IF k = 2 THEN h2 ELSE h3]
           term == CHOOSE g : ComputedAs(steps, g)
<1>1. Computed(steps) = term[Len(steps)]
  BY DEF Computed, ComputedAs, Args
<1>2. ASSUME NEW k \in DOMAIN steps
      PROVE  h[k] = Term(op(k), Args(steps, h, k))
  <2>1. k \in {1, 2, 3} /\ k \in 1..Len(steps)
    BY <1>0
  <2>2. CASE k = 1
    <3> HIDE DEF h
    <3>1. \A l \in 1..(1 - 1) : h[l] = <<>>[l]
      OBVIOUS
    <3>2. 1 \in Nat
      OBVIOUS
    <3>3. Args(steps, h, 1) = Args(steps, <<>>, 1)
      BY <3>1, <3>2, ArgsDepend
    <3>4. h[1] = h1
      BY <2>2 DEF h
    <3> QED
      BY <2>2, <3>3, <3>4
  <2>3. CASE k = 2
    <3>1. 1 \in DOMAIN steps /\ 1..(2 - 1) = {1} /\ 2 \in Nat
      BY <1>0, <2>1, <2>3
    <3> HIDE DEF h1, h2, h3
    <3>2. h[1] = h1 /\ h[2] = h2
      BY <2>3, <3>1
    <3> DEFINE e == [i \in {1} |-> h1]
    <3>3. \A l \in 1..(2 - 1) : h[l] = e[l]
      BY <3>1, <3>2
    <3> HIDE DEF h, e
    <3>4. Args(steps, h, 2) = Args(steps, e, 2)
      BY <3>1, <3>3, ArgsDepend
    <3> QED
      BY <2>3, <3>2, <3>4 DEF h2, e
  <2>4. CASE k = 3
    <3>1. 1 \in DOMAIN steps /\ 2 \in DOMAIN steps /\ 1..(3 - 1) = {1, 2} /\ 3 \in Nat
      BY <1>0, <2>1, <2>4
    <3> HIDE DEF h1, h2, h3
    <3>2. h[1] = h1 /\ h[2] = h2 /\ h[3] = h3
      BY <2>4, <3>1
    <3> DEFINE e == [i \in {1, 2} |-> IF i = 1 THEN h1 ELSE h2]
    <3>3. \A l \in 1..(3 - 1) : h[l] = e[l]
      BY <3>1, <3>2
    <3> HIDE DEF h, e
    <3>4. Args(steps, h, 3) = Args(steps, e, 3)
      BY <3>1, <3>3, ArgsDepend
    <3> QED
      BY <2>4, <3>2, <3>4 DEF h3, e
  <2> QED
    BY <2>1, <2>2, <2>3, <2>4
<1>3. ComputedAs(steps, h)
  <2>1. h = [k \in DOMAIN steps |-> h[k]]
    OBVIOUS
  <2> HIDE DEF h
  <2> QED
    BY <1>2, <2>1 DEF ComputedAs
<1>4. ComputedAs(steps, term)
  <2> HIDE DEF h
  <2> QED
    BY <1>3
<1> HIDE DEF term
<1> QED
  BY <1>1, <1>4 DEF Solved

(* What one, two and three steps compute.                                  *)
LEMMA OneStep ==
  ASSUME NEW X, NEW steps, Len(steps) = 1, DOMAIN steps = 1..1, steps[1].ins \in Seq(X)
  PROVE  Computed(steps) = Term(steps[1].kernel.op, steps[1].ins)
<1>0. Len(steps) \in {1, 2, 3} /\ DOMAIN steps = 1..Len(steps)
  OBVIOUS
<1>5. FewSteps(steps)
  BY <1>0, Zenon DEF FewSteps
<1>6. Solved(steps)
  BY <1>5, ComputedUnfolds, Zenon
<1>1. PICK g : ComputedAs(steps, g) /\ Computed(steps) = g[1]
  BY <1>6 DEF Solved
<1>2. Args(steps, g, 1) = steps[1].ins
  <2>1. steps[1].ins = [j \in DOMAIN steps[1].ins |-> steps[1].ins[j]]
    OBVIOUS
  <2> QED
    BY <2>1, FirstArgs
<1>3. g[1] = Term(steps[1].kernel.op, Args(steps, g, 1))
  <2>1. 1 \in DOMAIN steps
    OBVIOUS
  <2> QED
    BY <1>1, <2>1 DEF ComputedAs
<1> QED
  BY <1>1, <1>2, <1>3

(* What two steps compute.                                                 *)
LEMMA TwoSteps ==
  ASSUME NEW X, NEW steps, Len(steps) = 2, DOMAIN steps = 1..2, steps[1].ins \in Seq(X)
  PROVE  Computed(steps) =
           Term(steps[2].kernel.op,
                Substituted(steps[2].ins, steps[1].out,
                            Term(steps[1].kernel.op, steps[1].ins)))
<1>0. Len(steps) \in {1, 2, 3} /\ DOMAIN steps = 1..Len(steps)
  OBVIOUS
<1>5. FewSteps(steps)
  BY <1>0, Zenon DEF FewSteps
<1>6. Solved(steps)
  BY <1>5, ComputedUnfolds, Zenon
<1>1. PICK g : ComputedAs(steps, g) /\ Computed(steps) = g[2]
  BY <1>6 DEF Solved
<1>2. Args(steps, g, 1) = steps[1].ins
  <2>1. steps[1].ins = [j \in DOMAIN steps[1].ins |-> steps[1].ins[j]]
    OBVIOUS
  <2> QED
    BY <2>1, FirstArgs
<1>3. g[1] = Term(steps[1].kernel.op, Args(steps, g, 1))
      /\ g[2] = Term(steps[2].kernel.op, Args(steps, g, 2))
  <2>1. 1 \in DOMAIN steps /\ 2 \in DOMAIN steps
    OBVIOUS
  <2> QED
    BY <1>1, <2>1 DEF ComputedAs
<1>4. Args(steps, g, 2) = Substituted(steps[2].ins, steps[1].out, g[1])
  BY SecondArgs
<1> QED
  BY <1>1, <1>2, <1>3, <1>4

(* What three steps compute, the third of the second one's result alone.   *)
LEMMA ThreeSteps ==
  ASSUME NEW X, NEW steps, Len(steps) = 3, DOMAIN steps = 1..3, steps[1].ins \in Seq(X),
         NEW x, steps[3].ins = <<x>>, steps[2].out = x, steps[1].out # x
  PROVE  Computed(steps) =
           Term(steps[3].kernel.op,
                <<Term(steps[2].kernel.op,
                       Substituted(steps[2].ins, steps[1].out,
                                   Term(steps[1].kernel.op, steps[1].ins)))>>)
<1>0. Len(steps) \in {1, 2, 3} /\ DOMAIN steps = 1..Len(steps)
  OBVIOUS
<1>7. FewSteps(steps)
  BY <1>0, Zenon DEF FewSteps
<1>6. Solved(steps)
  BY <1>7, ComputedUnfolds, Zenon
<1>1. PICK g : ComputedAs(steps, g) /\ Computed(steps) = g[3]
  BY <1>6 DEF Solved
<1>2. Args(steps, g, 1) = steps[1].ins
  <2>1. steps[1].ins = [j \in DOMAIN steps[1].ins |-> steps[1].ins[j]]
    OBVIOUS
  <2> QED
    BY <2>1, FirstArgs
<1>3. /\ g[1] = Term(steps[1].kernel.op, Args(steps, g, 1))
      /\ g[2] = Term(steps[2].kernel.op, Args(steps, g, 2))
      /\ g[3] = Term(steps[3].kernel.op, Args(steps, g, 3))
  <2>1. 1 \in DOMAIN steps /\ 2 \in DOMAIN steps /\ 3 \in DOMAIN steps
    OBVIOUS
  <2> QED
    BY <1>1, <2>1 DEF ComputedAs
<1>4. Args(steps, g, 2) = Substituted(steps[2].ins, steps[1].out, g[1])
  BY SecondArgs
<1>5. Args(steps, g, 3) = <<g[2]>>
  BY ThirdArgs
<1> QED
  BY <1>1, <1>2, <1>3, <1>4, <1>5

-----------------------------------------------------------------------------
ValueOperands == {Operand(v) : v \in Value}

(* The values an operator reads are operands, and no temporary is one.     *)
LEMMA TemporariesAreNoValues ==
  ASSUME NEW node \in Node
  PROVE  /\ Operands(node.ins) \in Seq(ValueOperands)
         /\ \A part : Temporary(node, part) \notin ValueOperands
<1>1. node.ins \in Seq(Value)
  BY DEF Node
<1>2. \A k \in DOMAIN node.ins : Operand(node.ins[k]) \in ValueOperands
  BY <1>1 DEF ValueOperands
<1>3. Operands(node.ins) \in Seq(ValueOperands)
  BY <1>1, <1>2 DEF Operands
<1>4. ASSUME NEW part, Temporary(node, part) \in ValueOperands PROVE FALSE
  <2>1. PICK v \in Value : Temporary(node, part) = Operand(v)
    BY <1>4 DEF ValueOperands
  <2>2. Temporary(node, part)[1] = "temporary" /\ Operand(v)[1] = "value"
    BY DEF Temporary, Operand
  <2>3. "temporary" # "value"
    OBVIOUS
  <2> QED
    BY <2>1, <2>2, <2>3
<1> QED
  BY <1>3, <1>4

(* The steps of a fallback are the decomposition's, each with a kernel of  *)
(* its operator.                                                           *)
LEMMA FallbackSteps ==
  ASSUME NEW node, Lowerable(node), HasFallback(node)
  PROVE  LET d == Decomposition(node)
             steps == Fallback(node).steps
         IN  /\ Len(steps) = Len(d) /\ DOMAIN steps = 1..Len(d) /\ Len(d) \in {2, 3}
             /\ \A k \in 1..Len(d) : /\ steps[k].kernel.op = d[k].op
                                     /\ steps[k].ins = d[k].ins
                                     /\ steps[k].out = d[k].out
<1> DEFINE d == Decomposition(node)
           steps == Fallback(node).steps
           n == Len(d)
<1>1. d \in Seq(StepSet) /\ n \in {2, 3} /\ DOMAIN d = 1..n
  BY DecompositionForms DEF HasFallback, Decomposes
<1>2. \A k \in 1..n : DefaultArtifact(d[k].op) # 0
  BY <1>1 DEF HasFallback
<1>3. repository \in Seq(Artifact)
  BY DEF Lowerable
<1>4. steps = [k \in DOMAIN d |-> [kernel |-> repository[DefaultArtifact(d[k].op)],
                                   ins |-> d[k].ins, out |-> d[k].out]]
  BY DEF Fallback
<1> HIDE DEF d, steps
<1>5. ASSUME NEW k \in 1..n PROVE repository[DefaultArtifact(d[k].op)].op = d[k].op
  BY <1>2, <1>3, DefaultArtifactFits
<1>6. DOMAIN steps = 1..n /\ \A k \in 1..n : /\ steps[k].kernel.op = d[k].op
                                             /\ steps[k].ins = d[k].ins
                                             /\ steps[k].out = d[k].out
  BY <1>1, <1>4, <1>5
<1>7. Len(steps) = n
  BY <1>1, <1>4
<1> QED
  BY <1>1, <1>6, <1>7 DEF d, steps

(* Two steps: the second reads the first one's result, x, then r.          *)
TwoInTurn(steps, X, head, x, r, a, b) ==
  /\ Len(steps) = 2 /\ DOMAIN steps = 1..2
  /\ head \in Seq(X) /\ r \in Seq(X) /\ x \notin X /\ a \in StepOps /\ b \in StepOps
  /\ steps[1].ins = head /\ steps[1].out = x /\ steps[1].kernel.op = a
  /\ steps[2].ins = <<x>> \o r /\ steps[2].kernel.op = b

(* What op makes of t and r, and what a makes of operands.                 *)
TermOn(op, t, r) == <<op, t>> \o r

Applied(op, t) == <<op>> \o t

(* The term of two steps in turn.                                          *)
LEMMA TwoStepsCompute ==
  ASSUME NEW steps, NEW X, NEW head, NEW x, NEW r, NEW a, NEW b,
         TwoInTurn(steps, X, head, x, r, a, b)
  PROVE  Computed(steps) = TermOn(b, Applied(a, head), r)
<1> DEFINE t == <<a>> \o head
<1>1. Computed(steps) = Term(b, Substituted(<<x>> \o r, x, Term(a, head)))
  BY TwoSteps DEF TwoInTurn
<1>2. Term(a, head) = t
  BY PlainTerm DEF TwoInTurn
<1> HIDE DEF t
<1>3. Substituted(<<x>> \o r, x, t) = <<t>> \o r
  BY SubstitutedFirst DEF TwoInTurn
<1>4. Term(b, <<t>> \o r) = <<b>> \o (<<t>> \o r)
  BY PlainTerm DEF TwoInTurn
<1>5. <<b>> \o (<<t>> \o r) = <<b, t>> \o r
  BY TwoBefore DEF TwoInTurn
<1> QED
  BY <1>1, <1>2, <1>3, <1>4, <1>5 DEF t, TermOn, Applied

(* The same, where the second step reads the first one's result only.      *)
LEMMA TwoStepsInTurn ==
  ASSUME NEW steps, Len(steps) = 2, DOMAIN steps = 1..2, NEW X, NEW head \in Seq(X),
         NEW x, steps[1].ins = head, steps[1].out = x,
         steps[2].ins = <<x>>, NEW a \in StepOps, NEW b \in StepOps,
         steps[1].kernel.op = a, steps[2].kernel.op = b
  PROVE  Computed(steps) = <<b, <<a>> \o head>>
<1> DEFINE t == <<a>> \o head
<1>1. Computed(steps) = Term(b, Substituted(<<x>>, x, Term(a, head)))
  BY TwoSteps
<1>2. Term(a, head) = t
  BY PlainTerm
<1> HIDE DEF t
<1>3. Substituted(<<x>>, x, t) = <<t>>
  BY SubstitutedOnly
<1>4. Term(b, <<t>>) = <<b>> \o <<t>>
  BY PlainTerm
<1>5. <<b>> \o <<t>> = <<b, t>>
  BY TwoSingles
<1> QED
  BY <1>1, <1>2, <1>3, <1>4, <1>5 DEF t

(* Three steps: the third reads the second one's result, y, only.          *)
ThreeInTurn(steps, X, head, x, r, y, a, b, c) ==
  /\ Len(steps) = 3 /\ DOMAIN steps = 1..3
  /\ head \in Seq(X) /\ r \in Seq(X) /\ x \notin X /\ y # x
  /\ a \in StepOps /\ b \in StepOps /\ c \in StepOps
  /\ steps[1].ins = head /\ steps[1].out = x /\ steps[1].kernel.op = a
  /\ steps[2].ins = <<x>> \o r /\ steps[2].out = y /\ steps[2].kernel.op = b
  /\ steps[3].ins = <<y>> /\ steps[3].kernel.op = c

(* The term of three steps in turn.                                        *)
LEMMA ThreeStepsCompute ==
  ASSUME NEW steps, NEW X, NEW head, NEW x, NEW r, NEW y, NEW a, NEW b, NEW c,
         ThreeInTurn(steps, X, head, x, r, y, a, b, c)
  PROVE  Computed(steps) = <<c, TermOn(b, Applied(a, head), r)>>
<1> DEFINE t == <<a>> \o head
           u == <<b, t>> \o r
<1>1. Computed(steps) = Term(c, <<Term(b, Substituted(<<x>> \o r, x, Term(a, head)))>>)
  BY ThreeSteps DEF ThreeInTurn
<1>2. Term(a, head) = t
  BY PlainTerm DEF ThreeInTurn
<1> HIDE DEF t
<1>3. Substituted(<<x>> \o r, x, t) = <<t>> \o r
  BY SubstitutedFirst DEF ThreeInTurn
<1>4. Term(b, <<t>> \o r) = <<b>> \o (<<t>> \o r)
  BY PlainTerm DEF ThreeInTurn
<1>5. <<b>> \o (<<t>> \o r) = u
  BY TwoBefore DEF ThreeInTurn
<1> HIDE DEF u
<1>6. Term(c, <<u>>) = <<c>> \o <<u>>
  BY PlainTerm DEF ThreeInTurn
<1>7. <<c>> \o <<u>> = <<c, u>>
  BY TwoSingles
<1> QED
  BY <1>1, <1>2, <1>3, <1>4, <1>5, <1>6, <1>7 DEF t, u, TermOn, Applied

Computes(node, c) ==
  c.steps # <<>> =>
    /\ Last(c.steps).out = Operand(node.out)
    /\ Computed(c.steps) = Term(node.op, Operands(node.ins))

(* An operator of two inputs on the first two operands.                    *)
LEMMA PairTerm ==
  ASSUME NEW X, NEW in \in Seq(X), Len(in) >= 2, NEW op
  PROVE  /\ SubSeq(in, 1, 2) \in Seq(X)
         /\ <<op>> \o SubSeq(in, 1, 2) = <<op, in[1], in[2]>>
<1> DEFINE s == SubSeq(in, 1, 2)
<1>1. /\ 1 \in Nat /\ 2 \in Nat /\ 1 >= 1 /\ 1 <= 2 /\ 2 <= Len(in) /\ 2 - 1 + 1 = 2
      /\ 1 \in 1..2 /\ 2 \in 1..2 /\ 1 + 1 - 1 = 1 /\ 1 + 2 - 1 = 2
  OBVIOUS
<1>2. /\ s \in Seq(X) /\ Len(s) = 2 - 1 + 1
      /\ \A i \in 1..(2 - 1 + 1) : s[i] = in[1 + i - 1]
  BY <1>1, ListParts
<1> HIDE DEF s
<1>3. s \in Seq(X) /\ Len(s) = 2 /\ s[1] = in[1] /\ s[2] = in[2]
  BY <1>1, <1>2
<1>4. <<op>> \o s = <<op, s[1], s[2]>>
  BY <1>3, OneBeforeTwo
<1> QED
  BY <1>3, <1>4 DEF s

(* A fallback computes what its node's operator means.                     *)
LEMMA FallbackComputes ==
  ASSUME NEW node, Lowerable(node), HasFallback(node)
  PROVE  Computes(node, Fallback(node))
<1> DEFINE in == Operands(node.ins)
           out == Operand(node.out)
           conv == Temporary(node, "conv")
           bn == Temporary(node, "bn")
           sum == Temporary(node, "add")
           gemm == Temporary(node, "gemm")
           head == SubSeq(in, 1, 2)
           tail(n) == SubSeq(in, 3, n)
           d == Decomposition(node)
           steps == Fallback(node).steps
           X == ValueOperands
<1>1. /\ in \in Seq(X) /\ Len(in) \in InputCounts(node.op) /\ Len(in) \in Nat
      /\ conv \notin X /\ bn \notin X /\ sum \notin X /\ gemm \notin X
  BY OperandsTyped, TemporariesAreNoValues DEF Lowerable
<1>2. bn # conv
  <2>1. bn[3] = "bn" /\ conv[3] = "conv"
    BY DEF Temporary
  <2> QED
    BY <2>1
<1>3. /\ Len(steps) = Len(d) /\ DOMAIN steps = 1..Len(d) /\ Len(d) \in {2, 3}
      /\ \A k \in 1..Len(d) : /\ steps[k].kernel.op = d[k].op
                              /\ steps[k].ins = d[k].ins
                              /\ steps[k].out = d[k].out
  BY FallbackSteps
<1>4. /\ \A x, y, z : <<x, y>> \o <<z>> = <<x, y, z>>
      /\ "Conv" \in StepOps /\ "BatchNormalization" \in StepOps /\ "Relu" \in StepOps
      /\ "Add" \in StepOps /\ "Gemm" \in StepOps /\ "Gelu" \in StepOps
      /\ "LayerNormalization" \in StepOps
  BY TwoAndOne DEF StepOps
<1>5. Last(steps).out = out
  <2>1. d[Len(d)].out = out
    BY DecompositionForms DEF HasFallback, Decomposes
  <2>2. Last(steps) = steps[Len(steps)]
    BY DEF Last
  <2> HIDE DEF d, steps, out
  <2>3. Len(d) \in 1..Len(d)
    BY <1>3
  <2> QED
    BY <1>3, <2>1, <2>2, <2>3
<1>6. ASSUME NEW op, NEW a, NEW r, NEW b, NEW x, d = <<Step(op, a, x), Step(b, r, out)>>
      PROVE  /\ Len(steps) = 2 /\ DOMAIN steps = 1..2 /\ steps[1].ins = a /\ steps[1].out = x
             /\ steps[1].kernel.op = op /\ steps[2].ins = r /\ steps[2].kernel.op = b
  <2>1. Len(d) = 2 /\ d[1] = Step(op, a, x) /\ d[2] = Step(b, r, out)
    <3> HIDE DEF d
    <3> QED
      BY <1>6
  <2> HIDE DEF d, steps
  <2>2. 1 \in 1..2 /\ 2 \in 1..2
    OBVIOUS
  <2> QED
    BY <1>3, <2>1, <2>2 DEF Step
<1>7. Len(in) = 6 => tail(6) \in Seq(X)
  <2>1. ASSUME Len(in) = 6 PROVE tail(6) \in Seq(X)
    <3>1. 3 \in Nat /\ 6 \in Nat /\ 3 >= 1 /\ 3 <= 6 /\ 6 <= Len(in)
      BY <2>1
    <3> HIDE DEF in, X
    <3> QED
      BY <1>1, <3>1, ListParts
  <2> QED
    BY <2>1
<1>8. Len(in) = 4 => tail(4) \in Seq(X)
  <2>1. ASSUME Len(in) = 4 PROVE tail(4) \in Seq(X)
    <3>1. 3 \in Nat /\ 4 \in Nat /\ 3 >= 1 /\ 3 <= 4 /\ 4 <= Len(in)
      BY <2>1
    <3> HIDE DEF in, X
    <3> QED
      BY <1>1, <3>1, ListParts
  <2> QED
    BY <2>1
<1>9. ASSUME Len(in) >= 2, NEW op
      PROVE  head \in Seq(X) /\ <<op>> \o head = <<op, in[1], in[2]>>
  <2> HIDE DEF in, X
  <2> QED
    BY <1>1, <1>9, PairTerm
<1>10. ASSUME Len(in) = 2, NEW op
       PROVE  <<op>> \o in = <<op, in[1], in[2]>>
  <2> HIDE DEF in, X
  <2> QED
    BY <1>1, <1>10, OneBeforeTwo
<1> SUFFICES Computed(steps) = Term(node.op, in)
  BY <1>5 DEF Computes
<1>11. CASE node.op = "FusedConvBatchNorm"
  <2>1. Len(in) = 6
    BY <1>1, <1>11 DEF InputCounts, Elementwise, PoolLike
  <2>2. d = <<Step("Conv", head, conv), Step("BatchNormalization", <<conv>> \o tail(6), out)>>
    BY <1>11 DEF Decomposition, ConvThenNorm
  <2>3. head \in Seq(X) /\ tail(6) \in Seq(X) /\ Len(in) >= 2
        /\ <<"Conv">> \o head = <<"Conv", in[1], in[2]>>
    BY <1>7, <1>9, <2>1
  <2> DEFINE rest == <<conv>> \o tail(6)
  <2>7. d = <<Step("Conv", head, conv), Step("BatchNormalization", rest, out)>>
    BY <2>2
  <2> HIDE DEF rest, in, out, conv, head, tail, d, steps, X
  <2>4. /\ Len(steps) = 2 /\ DOMAIN steps = 1..2 /\ steps[1].ins = head
        /\ steps[1].out = conv /\ steps[1].kernel.op = "Conv"
        /\ steps[2].ins = <<conv>> \o tail(6)
        /\ steps[2].kernel.op = "BatchNormalization"
    <3>1. steps[2].ins = rest /\ Len(steps) = 2 /\ DOMAIN steps = 1..2 /\ steps[1].ins = head
          /\ steps[1].out = conv /\ steps[1].kernel.op = "Conv"
          /\ steps[2].kernel.op = "BatchNormalization"
      BY <1>6, <2>7
    <3> QED
      BY <3>1 DEF rest
  <2>8. TwoInTurn(steps, X, head, conv, tail(6), "Conv", "BatchNormalization")
    BY <1>1, <1>4, <2>3, <2>4 DEF TwoInTurn
  <2>9. Computed(steps) = TermOn("BatchNormalization", Applied("Conv", head), tail(6))
    BY <2>8, TwoStepsCompute
  <2>5. Computed(steps) = <<"BatchNormalization", <<"Conv">> \o head>> \o tail(6)
    BY <2>9 DEF TermOn, Applied
  <2>6. Term(node.op, in) = <<"BatchNormalization", <<"Conv", in[1], in[2]>>>> \o tail(6)
    BY <1>11, <2>1, FusedTerms DEF tail
  <2> QED
    BY <2>3, <2>5, <2>6
<1>12. CASE node.op = "FusedConvBatchNormRelu"
  <2>1. Len(in) = 6
    BY <1>1, <1>12 DEF InputCounts, Elementwise, PoolLike
  <2>2. d = <<Step("Conv", head, conv), Step("BatchNormalization", <<conv>> \o tail(6), bn)>>
              \o <<Step("Relu", <<bn>>, out)>>
    BY <1>12 DEF Decomposition, ConvThenNorm
  <2>3. head \in Seq(X) /\ tail(6) \in Seq(X) /\ Len(in) >= 2
        /\ <<"Conv">> \o head = <<"Conv", in[1], in[2]>>
    BY <1>7, <1>9, <2>1
  <2> HIDE DEF in, out, conv, bn, head, tail, d, steps, X
  <2> DEFINE s1 == Step("Conv", head, conv)
             s2 == Step("BatchNormalization", <<conv>> \o tail(6), bn)
             s3 == Step("Relu", <<bn>>, out)
  <2>4. d = <<s1, s2, s3>>
    BY <1>4, <2>2
  <2>5. /\ s1.op = "Conv" /\ s1.ins = head /\ s1.out = conv
        /\ s2.op = "BatchNormalization" /\ s2.ins = <<conv>> \o tail(6) /\ s2.out = bn
        /\ s3.op = "Relu" /\ s3.ins = <<bn>> /\ s3.out = out
    BY DEF Step
  <2> HIDE DEF s1, s2, s3
  <2>6. Len(d) = 3 /\ d[1] = s1 /\ d[2] = s2 /\ d[3] = s3
    BY <2>4
  <2>7. 1 \in 1..3 /\ 2 \in 1..3 /\ 3 \in 1..3
    OBVIOUS
  <2>8. /\ Len(steps) = 3 /\ DOMAIN steps = 1..3
        /\ steps[1].ins = head /\ steps[1].out = conv /\ steps[1].kernel.op = "Conv"
        /\ steps[2].ins = <<conv>> \o tail(6) /\ steps[2].out = bn
        /\ steps[2].kernel.op = "BatchNormalization"
        /\ steps[3].ins = <<bn>> /\ steps[3].kernel.op = "Relu"
    BY <1>3, <2>5, <2>6, <2>7
  <2>9. Computed(steps)
          = <<"Relu", <<"BatchNormalization", <<"Conv">> \o head>> \o tail(6)>>
    <3>1. ThreeInTurn(steps, X, head, conv, tail(6), bn,
                      "Conv", "BatchNormalization", "Relu")
      BY <1>1, <1>2, <1>4, <2>3, <2>8 DEF ThreeInTurn
    <3>2. Computed(steps)
            = <<"Relu", TermOn("BatchNormalization", Applied("Conv", head), tail(6))>>
      BY <3>1, ThreeStepsCompute
    <3> QED
      BY <3>2 DEF TermOn, Applied
  <2>10. Term(node.op, in)
           = <<"Relu", <<"BatchNormalization", <<"Conv", in[1], in[2]>>>> \o tail(6)>>
    BY <1>12, <2>1, FusedTerms DEF tail
  <2> QED
    BY <2>3, <2>9, <2>10
<1>13. CASE node.op = "AddRelu"
  <2>1. Len(in) = 2
    BY <1>1, <1>13 DEF InputCounts, Elementwise, PoolLike, ConvLike
  <2>2. d = <<Step("Add", in, sum), Step("Relu", <<sum>>, out)>>
    BY <1>13 DEF Decomposition
  <2>3. <<"Add">> \o in = <<"Add", in[1], in[2]>>
    BY <1>10, <2>1
  <2> HIDE DEF in, out, sum, d, steps, X
  <2>4. /\ Len(steps) = 2 /\ DOMAIN steps = 1..2 /\ steps[1].ins = in
        /\ steps[1].out = sum /\ steps[1].kernel.op = "Add"
        /\ steps[2].ins = <<sum>> /\ steps[2].kernel.op = "Relu"
    BY <1>6, <2>2
  <2>5. Computed(steps) = <<"Relu", <<"Add">> \o in>>
    BY <1>1, <1>4, <2>4, TwoStepsInTurn
  <2>6. Term(node.op, in) = <<"Relu", <<"Add", in[1], in[2]>>>>
    BY <1>13, FusedTerms
  <2> QED
    BY <2>3, <2>5, <2>6
<1>14. CASE node.op = "GemmGelu"
  <2>2. d = <<Step("Gemm", in, gemm), Step("Gelu", <<gemm>>, out)>>
    BY <1>14 DEF Decomposition
  <2> HIDE DEF in, out, gemm, d, steps, X
  <2>4. /\ Len(steps) = 2 /\ DOMAIN steps = 1..2 /\ steps[1].ins = in
        /\ steps[1].out = gemm /\ steps[1].kernel.op = "Gemm"
        /\ steps[2].ins = <<gemm>> /\ steps[2].kernel.op = "Gelu"
    BY <1>6, <2>2
  <2>5. Computed(steps) = <<"Gelu", <<"Gemm">> \o in>>
    BY <1>1, <1>4, <2>4, TwoStepsInTurn
  <2>6. Term(node.op, in) = <<"Gelu", <<"Gemm">> \o in>>
    BY <1>14, FusedTerms
  <2> QED
    BY <2>5, <2>6
<1>15. CASE node.op = "SkipLayerNormalization"
  <2>1. Len(in) = 4
    BY <1>1, <1>15 DEF InputCounts, Elementwise, PoolLike
  <2>2. d = <<Step("Add", head, sum), Step("LayerNormalization", <<sum>> \o tail(4), out)>>
    BY <1>15 DEF Decomposition
  <2>3. head \in Seq(X) /\ tail(4) \in Seq(X) /\ Len(in) >= 2
        /\ <<"Add">> \o head = <<"Add", in[1], in[2]>>
    BY <1>8, <1>9, <2>1
  <2> DEFINE rest == <<sum>> \o tail(4)
  <2>7. d = <<Step("Add", head, sum), Step("LayerNormalization", rest, out)>>
    BY <2>2
  <2> HIDE DEF rest, in, out, sum, head, tail, d, steps, X
  <2>4. /\ Len(steps) = 2 /\ DOMAIN steps = 1..2 /\ steps[1].ins = head
        /\ steps[1].out = sum /\ steps[1].kernel.op = "Add"
        /\ steps[2].ins = <<sum>> \o tail(4)
        /\ steps[2].kernel.op = "LayerNormalization"
    <3>1. steps[2].ins = rest /\ Len(steps) = 2 /\ DOMAIN steps = 1..2 /\ steps[1].ins = head
          /\ steps[1].out = sum /\ steps[1].kernel.op = "Add"
          /\ steps[2].kernel.op = "LayerNormalization"
      BY <1>6, <2>7
    <3> QED
      BY <3>1 DEF rest
  <2>8. TwoInTurn(steps, X, head, sum, tail(4), "Add", "LayerNormalization")
    BY <1>1, <1>4, <2>3, <2>4 DEF TwoInTurn
  <2>9. Computed(steps) = TermOn("LayerNormalization", Applied("Add", head), tail(4))
    BY <2>8, TwoStepsCompute
  <2>5. Computed(steps) = <<"LayerNormalization", <<"Add">> \o head>> \o tail(4)
    BY <2>9 DEF TermOn, Applied
  <2>6. Term(node.op, in) = <<"LayerNormalization", <<"Add", in[1], in[2]>>>> \o tail(4)
    BY <1>15, <2>1, FusedTerms DEF tail
  <2> QED
    BY <2>3, <2>5, <2>6
<1>16. ASSUME node.op \notin {"FusedConvBatchNorm", "FusedConvBatchNormRelu", "AddRelu",
                              "GemmGelu", "SkipLayerNormalization"}
       PROVE  FALSE
  BY <1>16 DEF HasFallback, Decomposition
<1> QED
  BY <1>11, <1>12, <1>13, <1>14, <1>15, <1>16

(* One kernel of the node's operator on its inputs.                        *)
LEMMA SingleComputes ==
  ASSUME NEW node, Lowerable(node), NEW artifact, artifact.op = node.op
  PROVE  Computes(node, Single(node, artifact))
<1> DEFINE in == Operands(node.ins)
           step == [kernel |-> artifact, ins |-> in, out |-> Operand(node.out)]
           steps == <<step>>
<1>1. in \in Seq(OperandSet)
  BY OperandsTyped DEF Lowerable
<1>2. Single(node, artifact).steps = steps
  BY DEF Single
<1>3. step.kernel.op = node.op /\ step.ins = in /\ step.out = Operand(node.out)
  OBVIOUS
<1> HIDE DEF in, step
<1>4. Len(steps) = 1 /\ DOMAIN steps = 1..1 /\ steps[1] = step
  OBVIOUS
<1>5. Last(steps) = step
  BY <1>4 DEF Last
<1> HIDE DEF steps
<1>6. Computed(steps) = Term(node.op, in)
  BY <1>1, <1>3, <1>4, OneStep
<1> QED
  BY <1>2, <1>3, <1>5, <1>6 DEF Computes, in

(* Every candidate of a node computes what its operator means.             *)
LEMMA CandidateComputes ==
  ASSUME NEW node, Lowerable(node), NEW c \in Range(Candidates(node))
  PROVE  Computes(node, c)
<1>1. CASE node.op = "Flatten"
  <2>1. Candidates(node) = <<[default |-> TRUE, steps |-> <<>>, temporaries |-> <<>>]>>
    BY <1>1 DEF Candidates
  <2>2. c.steps = <<>>
    BY <2>1 DEF Range
  <2> QED
    BY <2>2 DEF Computes
<1>2. CASE node.op # "Flatten"
  <2> DEFINE matching == Matching(node)
             all == Candidates(node)
  <2>1. matching \in Seq(Artifact) /\ \A i \in DOMAIN matching : matching[i].op = node.op
    BY MatchingElements DEF Lowerable
  <2>2. /\ all \in Seq(Candidate) /\ Len(all) >= Len(matching)
        /\ \A k \in 1..Len(matching) : all[k] = Single(node, matching[k])
        /\ \A k \in DOMAIN all : k > Len(matching) =>
             HasFallback(node) /\ all[k] = Fallback(node)
    BY <1>2, CandidatesAre
  <2> HIDE DEF matching, all
  <2>3. PICK k \in DOMAIN all : c = all[k]
    BY DEF Range, all
  <2>4. CASE k <= Len(matching)
    <3>1. k \in 1..Len(matching) /\ k \in DOMAIN matching
      BY <2>1, <2>2, <2>4
    <3> QED
      BY <2>1, <2>2, <2>3, <3>1, SingleComputes
  <2>5. CASE k > Len(matching)
    BY <2>2, <2>3, <2>5, FallbackComputes
  <2>6. k \in Nat /\ Len(matching) \in Nat
    BY <2>1, <2>2
  <2> QED
    BY <2>4, <2>5, <2>6
<1> QED
  BY <1>1, <1>2

-----------------------------------------------------------------------------
(* A multiple of 256, at least as large.                                   *)
LEMMA Aligned ==
  ASSUME NEW bytes \in Nat
  PROVE  /\ AlignWorkspace(bytes) \in Nat /\ AlignWorkspace(bytes) % 256 = 0
         /\ AlignWorkspace(bytes) >= bytes
BY DEF AlignWorkspace

(* Multiples of 256 add up to one.                                         *)
LEMMA AlignedSum ==
  ASSUME NEW a \in Nat, NEW b \in Nat, a % 256 = 0, b % 256 = 0
  PROVE  (a + b) % 256 = 0
OBVIOUS

(* The first slots lie one after another behind the planner's workspace.   *)
SlotStarts(p, planned, slot, offset) ==
  /\ offset[0] = AlignWorkspace(planned)
  /\ \A s \in 1..slot : offset[s] = offset[s - 1] + AlignWorkspace(SlotBytes(p, s - 1))

(* SlotOffset is the last of the offsets its recursion defines.            *)
LEMMA SlotOffsetUnfolds ==
  ASSUME NEW p, NEW planned \in Nat, NEW slot \in Nat, \A s \in Nat : SlotBytes(p, s) \in Nat
  PROVE  \E offset : SlotStarts(p, planned, slot, offset)
                       /\ SlotOffset(p, planned, slot) = offset[slot]
<1> DEFINE size(s) == AlignWorkspace(SlotBytes(p, s))
           start == AlignWorkspace(planned)
           G == [q \in (1..slot) \X Nat |-> q[2] + size(q[1] - 1)]
           Recursive(g) ==
             g = [s \in 0..slot |-> IF s = 0 THEN start ELSE g[s - 1] + size(s - 1)]
           offset == CHOOSE g : Recursive(g)
<1>1. SlotOffset(p, planned, slot) = offset[slot]
  BY DEF SlotOffset
<1>2. start \in Nat /\ \A s \in Nat : size(s) \in Nat
  BY Aligned
<1> HIDE DEF size, start
<1>3. G \in [(1..slot) \X Nat -> Nat]
  <2>1. \A s \in 1..slot : s - 1 \in Nat
    OBVIOUS
  <2> QED
    BY <1>2, <2>1
<1>4. \E g : Recursive(g)
  <2>1. PICK f \in [0..slot -> Nat] : Unfolds(f, start, slot, G)
    <3> HIDE DEF G
    <3> QED
      BY <1>2, <1>3, RecursiveFunction
  <2>2. ASSUME NEW s \in 0..slot
        PROVE  (IF s = 0 THEN start ELSE G[<<s, f[s - 1]>>])
                 = IF s = 0 THEN start ELSE f[s - 1] + size(s - 1)
    <3>1. CASE s = 0
      BY <3>1
    <3>2. CASE s # 0
      <4>1. s \in 1..slot /\ s - 1 \in 0..slot
        BY <3>2
      <4>2. f[s - 1] \in Nat
        BY <4>1
      <4> QED
        BY <3>2, <4>1, <4>2
    <3> QED
      BY <3>1, <3>2
  <2> HIDE DEF G
  <2> QED
    BY <2>1, <2>2 DEF Unfolds
<1>5. Recursive(offset)
  <2> HIDE DEF Recursive
  <2> QED
    BY <1>4
<1> HIDE DEF offset
<1>6. offset[0] = start /\ \A s \in 1..slot : offset[s] = offset[s - 1] + size(s - 1)
  BY <1>5
<1> QED
  BY <1>1, <1>6 DEF SlotStarts, start, size

(* Where the slots that decompositions use begin.                          *)
LEMMA SlotOffsets ==
  ASSUME NEW p, NEW planned \in Nat, \A s \in Nat : SlotBytes(p, s) \in Nat
  PROVE  LET offset(s) == SlotOffset(p, planned, s)
             size(s) == AlignWorkspace(SlotBytes(p, s))
         IN  /\ offset(0) = AlignWorkspace(planned) /\ offset(1) = offset(0) + size(0)
             /\ offset(2) = offset(1) + size(1)
             /\ \A s \in {0, 1, 2} : offset(s) \in Nat /\ offset(s) % 256 = 0
<1> DEFINE size(s) == AlignWorkspace(SlotBytes(p, s))
           start == AlignWorkspace(planned)
<1>1. /\ start \in Nat /\ start % 256 = 0
      /\ \A s \in {0, 1} : size(s) \in Nat /\ size(s) % 256 = 0
  <2>1. SlotBytes(p, 0) \in Nat /\ SlotBytes(p, 1) \in Nat
    OBVIOUS
  <2> QED
    BY <2>1, Aligned
<1>2. SlotOffset(p, planned, 0) = start
  BY SlotOffsetUnfolds DEF SlotStarts
<1>3. SlotOffset(p, planned, 1) = start + size(0)
  <2>1. PICK f : SlotStarts(p, planned, 1, f) /\ SlotOffset(p, planned, 1) = f[1]
    BY SlotOffsetUnfolds
  <2>2. 1 \in 1..1 /\ 1 - 1 = 0
    OBVIOUS
  <2> QED
    BY <2>1, <2>2 DEF SlotStarts
<1>4. SlotOffset(p, planned, 2) = (start + size(0)) + size(1)
  <2>1. PICK f : SlotStarts(p, planned, 2, f) /\ SlotOffset(p, planned, 2) = f[2]
    BY SlotOffsetUnfolds
  <2>2. 1 \in 1..2 /\ 1 - 1 = 0 /\ 2 \in 1..2 /\ 2 - 1 = 1
    OBVIOUS
  <2> QED
    BY <2>1, <2>2 DEF SlotStarts
<1> HIDE DEF start, size
<1>5. (start + size(0)) % 256 = 0 /\ ((start + size(0)) + size(1)) % 256 = 0
  <2>1. start + size(0) \in Nat /\ (start + size(0)) % 256 = 0
    BY <1>1, AlignedSum
  <2> QED
    BY <1>1, <2>1, AlignedSum
<1> QED
  BY <1>1, <1>2, <1>3, <1>4, <1>5 DEF start, size

-----------------------------------------------------------------------------
TemporarySet == [name : OperandSet, like : Value, slot : Nat]

(* A temporary's slot follows from its name.                               *)
Placed(t) == t \in TemporarySet /\ t.slot \in {0, 1} /\ t.slot = PartSlot(t.name[3])

(* The temporaries of a candidate are like its node's output, and no two   *)
(* of them share a slot.                                                   *)
LEMMA CandidateTemporaries ==
  ASSUME NEW node, Lowerable(node), NEW c \in Range(Candidates(node))
  PROVE  /\ c.temporaries \in Seq(TemporarySet)
         /\ \A t \in Range(c.temporaries) : Placed(t) /\ t.like = node.out
         /\ \A t, u \in Range(c.temporaries) : t # u => t.slot # u.slot
<1> DEFINE all == Candidates(node)
<1>1. CASE c.temporaries = <<>>
  <2>1. <<>> \in Seq(TemporarySet) /\ DOMAIN <<>> = {}
    BY EmptySeq
  <2>2. Range(c.temporaries) = {}
    BY <1>1, <2>1 DEF Range
  <2> QED
    BY <1>1, <2>1, <2>2
<1>2. CASE c.temporaries # <<>>
  <2>1. node.op # "Flatten"
    <3>1. ASSUME node.op = "Flatten" PROVE FALSE
      <4> DEFINE view == [default |-> TRUE, steps |-> <<>>, temporaries |-> <<>>]
      <4>1. all = <<view>>
        BY <3>1 DEF Candidates
      <4>2. c = view
        <5>1. DOMAIN <<view>> = {1} /\ <<view>>[1] = view
          OBVIOUS
        <5> HIDE DEF view
        <5> QED
          BY <4>1, <5>1 DEF Range
      <4> QED
        BY <1>2, <4>2
    <3> QED
      BY <3>1
  <2>2. PICK k \in DOMAIN all : c = all[k]
    BY DEF Range
  <2>3. /\ all \in Seq(Candidate) /\ DOMAIN all = 1..Len(all)
        /\ \A j \in 1..Len(Matching(node)) : all[j] = Single(node, Matching(node)[j])
        /\ \A j \in DOMAIN all : j > Len(Matching(node)) =>
             HasFallback(node) /\ all[j] = Fallback(node)
        /\ Len(Matching(node)) \in Nat
    <3>1. Len(Matching(node)) \in Nat
      <4> DEFINE matching == Matching(node)
      <4>1. matching \in Seq(Artifact)
        BY MatchingElements DEF Lowerable
      <4> HIDE DEF matching
      <4>2. Len(matching) \in Nat
        BY <4>1
      <4> QED
        BY <4>2 DEF matching
    <3>2. all \in Seq(Candidate)
      BY <2>1, CandidatesAre
    <3>3. DOMAIN all = 1..Len(all)
      <4> HIDE DEF all
      <4> QED
        BY <3>2
    <3> QED
      BY <2>1, <3>1, <3>2, <3>3, CandidatesAre
  <2>4. k > Len(Matching(node))
    <3>1. ASSUME k \in 1..Len(Matching(node)) PROVE FALSE
      <4>1. c = Single(node, Matching(node)[k])
        BY <2>2, <2>3, <3>1
      <4> QED
        BY <1>2, <4>1 DEF Single
    <3> QED
      BY <2>3, <3>1
  <2>5. HasFallback(node) /\ c = Fallback(node)
    BY <2>2, <2>3, <2>4
  <2>6. /\ c \in Candidate
        /\ \A t \in Range(c.temporaries) :
             t.like = node.out /\ \E part \in Parts :
               t.name = Temporary(node, part) /\ t.slot = PartSlot(part)
        /\ \A t, u \in Range(c.temporaries) : t # u => t.slot # u.slot
    BY <2>5, FallbackTyped
  <2>7. c.temporaries \in Seq(TemporarySet)
    BY <2>6 DEF Candidate, TemporarySet
  <2>8. ASSUME NEW t \in Range(c.temporaries) PROVE Placed(t)
    <3>1. PICK part \in Parts : t.name = Temporary(node, part) /\ t.slot = PartSlot(part)
      BY <2>6
    <3>2. t.name[3] = part
      BY <3>1 DEF Temporary
    <3>3. t \in TemporarySet
      BY <2>7, RangeOfSeq
    <3> QED
      BY <3>1, <3>2, <3>3 DEF Placed, PartSlot
  <2> QED
    BY <2>6, <2>7, <2>8
<1> QED
  BY <1>1, <1>2

OpSet == [candidates : Seq(Candidate), selected : Nat]

(* An op is of its node: its candidates compute what the node does, into   *)
(* temporaries like its output, each in a slot of its own.                 *)
OpGood(node, op) ==
  /\ op \in OpSet /\ op.selected \in DOMAIN op.candidates
  /\ \A c \in Range(op.candidates) :
       /\ Computes(node, c)
       /\ c.temporaries \in Seq(TemporarySet)
       /\ \A t \in Range(c.temporaries) : Placed(t) /\ t.like = node.out
       /\ \A t, u \in Range(c.temporaries) : t # u => t.slot # u.slot

OpsGood ==
  /\ ops \in Seq(OpSet) /\ Len(ops) <= Len(nodes)
  /\ \A i \in DOMAIN ops : OpGood(nodes[i], ops[i])

(* What Lower makes of a supported node.                                   *)
LEMMA LoweredOpIsGood ==
  ASSUME NEW node, Lowerable(node), Supported(node)
  PROVE  OpGood(node, [candidates |-> Candidates(node),
                       selected |-> Selected(Candidates(node))])
<1> DEFINE all == Candidates(node)
           op == [candidates |-> all, selected |-> Selected(all)]
<1>1. all \in Seq(Candidate) /\ Selected(all) \in DOMAIN all
  BY SupportedHasSelection
<1>2. \A c \in Range(all) :
        /\ Computes(node, c)
        /\ c.temporaries \in Seq(TemporarySet)
        /\ \A t \in Range(c.temporaries) : Placed(t) /\ t.like = node.out
        /\ \A t, u \in Range(c.temporaries) : t # u => t.slot # u.slot
  BY CandidateComputes, CandidateTemporaries
<1> DEFINE chosen == Selected(all)
<1> HIDE DEF all, chosen
<1>3. op = [candidates |-> all, selected |-> chosen]
  BY DEF chosen
<1>4. chosen \in Nat /\ op \in OpSet
  BY <1>1, <1>3 DEF OpSet, chosen
<1>5. op.candidates = all /\ op.selected = chosen
  BY <1>3
<1> HIDE DEF op
<1>6. OpGood(node, op)
  BY <1>1, <1>2, <1>4, <1>5 DEF OpGood, chosen
<1> QED
  BY <1>6 DEF op, all

Typed ==
  /\ nodes \in Seq(Node) /\ known \in [Value -> Kind] /\ repository \in Seq(Artifact)
  /\ options \in Options

(* The temporaries placed are those of the candidates.                     *)
LEMMA TemporariesAre ==
  ASSUME OpsGood
  PROVE  /\ Temporaries \in Seq(TemporarySet)
         /\ \A t \in Range(Temporaries) : Placed(t)
         /\ \A i \in DOMAIN ops : \A c \in Range(ops[i].candidates) :
              \A t \in Range(c.temporaries) : t \in Range(Temporaries)
<1> DEFINE of(i) == [c \in DOMAIN ops[i].candidates |-> ops[i].candidates[c].temporaries]
           inner == [i \in DOMAIN ops |-> FlattenSeq(of(i))]
<1>0. DOMAIN ops = 1..Len(ops) /\ Len(ops) \in Nat
  BY DEF OpsGood
<1>1. ASSUME NEW i \in DOMAIN ops
      PROVE  /\ of(i) \in Seq(Seq(TemporarySet))
             /\ \A k \in DOMAIN of(i) : of(i)[k] = ops[i].candidates[k].temporaries
             /\ DOMAIN of(i) = DOMAIN ops[i].candidates
  <2> DEFINE all == ops[i].candidates
  <2>1. OpGood(nodes[i], ops[i])
    BY DEF OpsGood
  <2>2. all \in Seq(Candidate)
    BY <2>1 DEF OpGood, OpSet
  <2>3. of(i) = [k \in DOMAIN all |-> all[k].temporaries]
    OBVIOUS
  <2>4. \A k \in DOMAIN all : all[k].temporaries \in Seq(TemporarySet)
    BY <2>1 DEF OpGood, Range
  <2> DEFINE o == of(i)
             T == Seq(TemporarySet)
  <2> HIDE DEF all, T, o
  <2>5. o = [k \in DOMAIN all |-> all[k].temporaries] /\ all = ops[i].candidates
    BY <2>3 DEF o, all
  <2>6. o \in Seq(T)
    BY <2>2, <2>4, <2>5 DEF T
  <2> QED
    BY <2>5, <2>6 DEF o, T
<1>2. ASSUME NEW i \in DOMAIN ops
      PROVE  /\ FlattenSeq(of(i)) \in Seq(TemporarySet)
             /\ \A t : t \in Range(FlattenSeq(of(i))) <=>
                  \E k \in DOMAIN ops[i].candidates :
                    t \in Range(ops[i].candidates[k].temporaries)
  <2> HIDE DEF of
  <2> QED
    BY <1>1, Flattened
<1>3. inner \in Seq(Seq(TemporarySet)) /\ DOMAIN inner = DOMAIN ops
  <2> DEFINE T == Seq(TemporarySet)
  <2>1. \A i \in DOMAIN ops : FlattenSeq(of(i)) \in T
    BY <1>2
  <2> HIDE DEF T, of
  <2>2. inner \in Seq(T) /\ DOMAIN inner = DOMAIN ops
    BY <1>0, <2>1
  <2> QED
    BY <2>2 DEF T
<1>4. Temporaries = FlattenSeq(inner)
  BY DEF Temporaries
<1>5. \A i \in DOMAIN ops : inner[i] = FlattenSeq(of(i))
  OBVIOUS
<1> HIDE DEF inner
<1>6. /\ Temporaries \in Seq(TemporarySet)
      /\ \A t : t \in Range(Temporaries) <=> \E i \in DOMAIN ops : t \in Range(inner[i])
  BY <1>3, <1>4, Flattened
<1> HIDE DEF of
<1>7. \A t : t \in Range(Temporaries) <=>
        \E i \in DOMAIN ops : \E k \in DOMAIN ops[i].candidates :
          t \in Range(ops[i].candidates[k].temporaries)
  BY <1>2, <1>5, <1>6
<1>8. ASSUME NEW i \in DOMAIN ops, NEW k \in DOMAIN ops[i].candidates,
             NEW t \in Range(ops[i].candidates[k].temporaries)
      PROVE  Placed(t)
  <2>1. OpGood(nodes[i], ops[i])
    BY DEF OpsGood
  <2> QED
    BY <2>1 DEF OpGood, Range
<1>9. ASSUME NEW i \in DOMAIN ops, NEW c \in Range(ops[i].candidates),
             NEW t \in Range(c.temporaries)
      PROVE  t \in Range(Temporaries)
  <2>1. PICK k \in DOMAIN ops[i].candidates : c = ops[i].candidates[k]
    BY DEF Range
  <2> QED
    BY <1>7, <2>1
<1> QED
  BY <1>6, <1>7, <1>8, <1>9

(* A function's image of a finite set is finite.                           *)
LEMMA ImageFinite ==
  ASSUME NEW S, IsFiniteSet(S), NEW f
  PROVE  IsFiniteSet({f[x] : x \in S})
<1> DEFINE T == {f[x] : x \in S}
           g == [x \in S |-> f[x]]
<1>1. g \in Surjection(S, T)
  BY DEF Surjection
<1> HIDE DEF T, g
<1>2. IsFiniteSet(T)
  BY <1>1, FS_Surjection
<1> QED
  BY <1>2 DEF T

(* A value takes a number of bytes.                                        *)
LEMMA BytesTyped ==
  ASSUME Typed, NEW p \in DOMAIN options.bytes, NEW v \in Value
  PROVE  BytesOf(p, v) \in Nat
<1>1. options.bytes \in Seq([Value -> Nat])
  BY DEF Typed, Options
<1>2. options.bytes[p] \in [Value -> Nat]
  BY <1>1
<1> QED
  BY <1>2 DEF BytesOf

(* A slot is as large as each of its temporaries.                          *)
LEMMA SlotHoldsTemporaries ==
  ASSUME Typed, OpsGood, NEW p \in DOMAIN options.bytes, NEW slot \in Nat
  PROVE  /\ SlotBytes(p, slot) \in Nat
         /\ \A t \in Range(Temporaries) :
              t.slot = slot => BytesOf(p, t.like) <= SlotBytes(p, slot)
<1> DEFINE all == Range(Temporaries)
           those == {u \in all : u.slot = slot}
           f == [t \in those |-> BytesOf(p, t.like)]
           sizes == {f[t] : t \in those}
           S == {0} \cup {BytesOf(p, t.like) : t \in those}
<1>1. Temporaries \in Seq(TemporarySet)
  BY TemporariesAre
<1>2. IsFiniteSet(all)
  <2> DEFINE T == Temporaries
  <2>1. T \in Seq(TemporarySet)
    BY <1>1
  <2> HIDE DEF T
  <2>2. Range(T) = {T[i] : i \in 1..Len(T)} /\ Len(T) \in Nat
    BY <2>1, RangeEquality
  <2>3. IsFiniteSet(1..Len(T))
    BY <2>2, FS_Interval
  <2>4. IsFiniteSet({T[i] : i \in 1..Len(T)})
    BY <2>3, ImageFinite
  <2> QED
    BY <2>2, <2>4 DEF T
<1>3. \A t \in all : t \in TemporarySet
  BY <1>1, RangeOfSeq
<1>4. \A t \in those : BytesOf(p, t.like) \in Nat
  BY <1>3, BytesTyped DEF TemporarySet
<1>5. IsFiniteSet(those)
  <2> HIDE DEF all
  <2> QED
    BY <1>2, FS_Subset
<1>6. IsFiniteSet(sizes)
  <2> HIDE DEF f, those
  <2> QED
    BY <1>5, ImageFinite
<1>7. S = {0} \cup sizes
  <2> HIDE DEF those
  <2> QED
    OBVIOUS
<1>8. IsFiniteSet(S)
  <2>1. IsFiniteSet({0})
    BY FS_Singleton
  <2> HIDE DEF S, sizes
  <2> QED
    BY <1>6, <1>7, <2>1, FS_Union
<1>9. S \in SUBSET Int /\ S # {} /\ \A x \in S : x \in Nat
  <2> HIDE DEF those
  <2> QED
    BY <1>4
<1>10. SlotBytes(p, slot) = Max(S)
  BY DEF SlotBytes
<1>11. Max(S) \in S /\ \A y \in S : y <= Max(S)
  <2> HIDE DEF S
  <2> QED
    BY <1>8, <1>9, MaxFinite
<1>12. SlotBytes(p, slot) \in Nat
  <2> HIDE DEF S
  <2> QED
    BY <1>9, <1>10, <1>11
<1>13. ASSUME NEW t \in all, t.slot = slot PROVE BytesOf(p, t.like) <= SlotBytes(p, slot)
  <2>1. BytesOf(p, t.like) \in S
    BY <1>13
  <2> HIDE DEF S
  <2> QED
    BY <1>10, <1>11, <2>1
<1> QED
  BY <1>12, <1>13

Allocation == [name : OperandSet, bytes : Nat, offset : Nat]
PlanSet == [planned : PlannedBytes, allocations : SUBSET Allocation, workspace : Nat]

(* A plan places each temporary at its slot, inside the workspace.         *)
LEMMA PlanPlacesTemporaries ==
  ASSUME Typed, OpsGood, NEW p \in DOMAIN options.bytes, NEW planned \in PlannedBytes
  PROVE  LET plan == WithTemporaries(p, planned)
             offset(s) == SlotOffset(p, planned, s)
         IN  /\ plan \in PlanSet /\ plan.planned = planned
             /\ \A t \in Range(Temporaries) :
                  /\ OffsetOf(plan, t.name) = offset(t.slot)
                  /\ offset(t.slot + 1) <= plan.workspace
<1> DEFINE plan == WithTemporaries(p, planned)
           offset(s) == SlotOffset(p, planned, s)
           T == Temporaries
           slots == {t.slot : t \in Range(T)}
           first == {i \in DOMAIN T : \A j \in 1..(i - 1) : T[j].name # T[i].name}
           alloc(i) == [name |-> T[i].name, bytes |-> BytesOf(p, T[i].like),
                        offset |-> offset(T[i].slot)]
           allocations == {alloc(i) : i \in first}
           last == Max({-1} \cup slots)
<1>1. T \in Seq(TemporarySet) /\ \A t \in Range(T) : Placed(t)
  BY TemporariesAre
<1>2. planned \in Nat
  BY CompilerAssumption
<1>3. /\ \A s \in {0, 1, 2} : offset(s) \in Nat
      /\ offset(0) <= offset(1) /\ offset(1) <= offset(2)
  <2>1. \A s \in Nat : SlotBytes(p, s) \in Nat
    BY SlotHoldsTemporaries
  <2>2. /\ offset(1) = offset(0) + AlignWorkspace(SlotBytes(p, 0))
        /\ offset(2) = offset(1) + AlignWorkspace(SlotBytes(p, 1))
        /\ \A s \in {0, 1, 2} : offset(s) \in Nat
    BY <1>2, <2>1, SlotOffsets
  <2>3. AlignWorkspace(SlotBytes(p, 0)) \in Nat /\ AlignWorkspace(SlotBytes(p, 1)) \in Nat
    BY <2>1, Aligned
  <2> HIDE DEF offset
  <2> QED
    BY <2>2, <2>3
<1>4. /\ plan.planned = planned /\ plan.allocations = allocations
      /\ plan.workspace = AlignWorkspace(offset(last + 1))
      /\ plan = [planned |-> planned, allocations |-> allocations,
                 workspace |-> AlignWorkspace(offset(last + 1))]
  BY DEF WithTemporaries
<1> HIDE DEF T, offset, plan
<1>5. /\ DOMAIN T = 1..Len(T) /\ Len(T) \in Nat
      /\ \A i \in DOMAIN T : T[i] \in Range(T) /\ T[i] \in TemporarySet
  BY <1>1 DEF Range
<1>6. last \in {-1, 0, 1} /\ \A s \in slots : s \in {0, 1} /\ s <= last
  <2> DEFINE S == {-1} \cup slots
  <2>1. \A s \in slots : s \in {0, 1}
    BY <1>1 DEF Placed
  <2>2. S \subseteq {-1, 0, 1}
    BY <2>1
  <2>3. IsFiniteSet({-1, 0, 1})
    <3>1. {-1, 0, 1} = (-1)..1
      OBVIOUS
    <3> QED
      <4> DEFINE J == (-1)..1
      <4>1. -1 \in Int /\ 1 \in Int
        OBVIOUS
      <4>2. IsFiniteSet(J)
        BY <4>1, FS_Interval
      <4> HIDE DEF J
      <4>3. {-1, 0, 1} = J
        BY <3>1 DEF J
      <4> QED
        BY <4>2, <4>3
  <2>4. IsFiniteSet(S) /\ S # {} /\ S \in SUBSET Int
    <3> HIDE DEF slots
    <3> QED
      BY <2>2, <2>3, FS_Subset
  <2>5. Max(S) \in S /\ \A y \in S : y <= Max(S)
    <3> HIDE DEF S
    <3> QED
      BY <2>4, MaxFinite
  <2> HIDE DEF slots
  <2> QED
    BY <2>1, <2>2, <2>5
<1>7. ASSUME NEW t \in Range(T)
      PROVE  OffsetOf(plan, t.name) = offset(t.slot)
  <2> DEFINE I == {i \in DOMAIN T : T[i].name = t.name}
             m == Min(I)
  <2>1. I \in SUBSET Nat /\ I # {}
    BY <1>5 DEF Range
  <2>2. m \in I /\ \A i \in I : m <= i
    <3> HIDE DEF I
    <3> QED
      BY <2>1, MinNat
  <2> HIDE DEF m
  <2>3. m \in first
    <3>1. ASSUME NEW j \in 1..(m - 1) PROVE T[j].name # T[m].name
      <4>1. m \in 1..Len(T) /\ T[m].name = t.name
        BY <1>5, <2>2
      <4>2. j \in 1..Len(T) /\ ~(m <= j)
        BY <4>1, <1>5
      <4> QED
        BY <1>5, <2>2, <4>1, <4>2
    <3> QED
      BY <2>2, <3>1
  <2>4. alloc(m) \in allocations /\ alloc(m).name = t.name
    BY <2>2, <2>3
  <2>5. ASSUME NEW a \in allocations, a.name = t.name PROVE a.offset = offset(t.slot)
    <3>1. PICK i \in first : a = alloc(i)
      OBVIOUS
    <3>2. T[i].name = t.name /\ a.offset = offset(T[i].slot) /\ T[i] \in Range(T)
      BY <1>5, <2>5, <3>1
    <3>3. T[i].slot = t.slot
      BY <1>1, <3>2 DEF Placed
    <3> QED
      BY <3>2, <3>3
  <2> DEFINE A == allocations
  <2>6. OffsetOf(plan, t.name) = (CHOOSE a \in A : a.name = t.name).offset
    BY <1>4 DEF OffsetOf
  <2> HIDE DEF A
  <2>7. \E a \in A : a.name = t.name
    BY <2>4 DEF A
  <2>8. \A a \in A : a.name = t.name => a.offset = offset(t.slot)
    BY <2>5 DEF A
  <2> QED
    BY <2>6, <2>7, <2>8
<1>8. last + 1 \in {0, 1, 2} /\ offset(last + 1) \in Nat
  <2>1. last + 1 \in {0, 1, 2}
    <3> HIDE DEF last
    <3> QED
      BY <1>6
  <2> QED
    BY <1>3, <2>1
<1>9. plan.workspace \in Nat /\ plan.workspace >= offset(last + 1)
  <2> HIDE DEF last
  <2> QED
    BY <1>4, <1>8, Aligned
<1>10. ASSUME NEW t \in Range(T)
       PROVE  offset(t.slot + 1) <= plan.workspace
  <2>1. t.slot \in slots
    OBVIOUS
  <2>2. t.slot \in {0, 1} /\ t.slot <= last /\ last \in {-1, 0, 1}
    <3> HIDE DEF slots
    <3> QED
      BY <1>6, <2>1
  <2> HIDE DEF last
  <2>3. \/ t.slot = 0 /\ last = 0
        \/ t.slot = 0 /\ last = 1
        \/ t.slot = 1 /\ last = 1
    <3>1. CASE t.slot = 0
      BY <2>2, <3>1
    <3>2. CASE t.slot = 1
      BY <2>2, <3>2
    <3> QED
      BY <2>2, <3>1, <3>2
  <2>4. 0 + 1 = 1 /\ 1 + 1 = 2
    OBVIOUS
  <2>5. offset(t.slot + 1) <= offset(last + 1) /\ offset(t.slot + 1) \in Nat
    BY <1>3, <2>3, <2>4
  <2> QED
    BY <1>8, <1>9, <2>5
<1>11. plan \in PlanSet
  <2>1. ASSUME NEW i \in first PROVE alloc(i) \in Allocation
    <3>1. T[i] \in TemporarySet /\ Placed(T[i])
      BY <1>1, <1>5
    <3>2. BytesOf(p, T[i].like) \in Nat
      BY <3>1, BytesTyped DEF TemporarySet
    <3>3. offset(T[i].slot) \in Nat
      BY <1>3, <3>1 DEF Placed
    <3> QED
      BY <3>1, <3>2, <3>3 DEF Allocation, TemporarySet
  <2>2. allocations \in SUBSET Allocation
    <3> HIDE DEF first, alloc
    <3> QED
      BY <2>1
  <2> HIDE DEF allocations, last
  <2> QED
    BY <1>4, <1>9, <2>2 DEF PlanSet
<1> QED
  BY <1>4, <1>7, <1>10, <1>11 DEF T, offset, plan

-----------------------------------------------------------------------------
(* The temporaries of each candidate are apart in one plan.                *)
PlanApart(plan, p) ==
  \A i \in DOMAIN ops : \A c \in Range(ops[i].candidates) :
    LET begin(t) == OffsetOf(plan, t.name)
        end(t) == begin(t) + BytesOf(p, t.like)
    IN  \A t \in Range(c.temporaries) :
          /\ begin(t) >= plan.planned /\ begin(t) % 256 = 0
          /\ end(t) <= plan.workspace
          /\ \A u \in Range(c.temporaries) :
               u # t => end(t) <= begin(u) \/ end(u) <= begin(t)

(* The plan of a profile keeps the temporaries of each candidate apart.    *)
LEMMA NewPlanApart ==
  ASSUME Typed, OpsGood, NEW p \in DOMAIN options.bytes, NEW planned \in PlannedBytes
  PROVE  PlanApart(WithTemporaries(p, planned), p)
<1> DEFINE plan == WithTemporaries(p, planned)
           offset(s) == SlotOffset(p, planned, s)
           size(s) == SlotBytes(p, s)
           T == Range(Temporaries)
           begin(t) == OffsetOf(plan, t.name)
           end(t) == begin(t) + BytesOf(p, t.like)
<1>1. planned \in Nat
  BY CompilerAssumption
<1>2. \A s \in Nat : size(s) \in Nat
                       /\ \A t \in T : t.slot = s => BytesOf(p, t.like) <= size(s)
  BY SlotHoldsTemporaries
<1>3. /\ offset(0) = AlignWorkspace(planned)
      /\ offset(1) = offset(0) + AlignWorkspace(size(0))
      /\ offset(2) = offset(1) + AlignWorkspace(size(1))
      /\ \A s \in {0, 1, 2} : offset(s) \in Nat /\ offset(s) % 256 = 0
  BY <1>1, <1>2, SlotOffsets
<1>4. plan \in PlanSet /\ plan.planned = planned
      /\ \A t \in T : begin(t) = offset(t.slot) /\ offset(t.slot + 1) <= plan.workspace
  BY PlanPlacesTemporaries
<1>5. /\ \A t \in T : Placed(t)
      /\ \A i \in DOMAIN ops : \A c \in Range(ops[i].candidates) :
           \A t \in Range(c.temporaries) : t \in T
  BY TemporariesAre
<1>6. ASSUME NEW t \in T
      PROVE  t.slot \in {0, 1} /\ BytesOf(p, t.like) \in Nat
  BY <1>5, BytesTyped DEF Placed, TemporarySet
<1>7. /\ AlignWorkspace(planned) \in Nat /\ AlignWorkspace(planned) >= planned
      /\ \A s \in {0, 1} : AlignWorkspace(size(s)) \in Nat /\ AlignWorkspace(size(s)) >= size(s)
  BY <1>1, <1>2, Aligned
<1>8. plan.workspace \in Nat
  BY <1>4 DEF PlanSet
<1> HIDE DEF plan, offset, size, T
<1>9. offset(0) >= planned /\ offset(1) >= planned
  BY <1>1, <1>3, <1>7
<1>10. ASSUME NEW t \in T
       PROVE  /\ begin(t) \in Nat /\ begin(t) >= plan.planned /\ begin(t) % 256 = 0
              /\ end(t) \in Nat /\ end(t) <= offset(t.slot + 1) /\ end(t) <= plan.workspace
  <2> DEFINE b == BytesOf(p, t.like)
  <2>1. t.slot \in {0, 1} /\ b \in Nat
    BY <1>6
  <2>2. b <= size(t.slot) /\ size(t.slot) \in Nat
    BY <1>2, <2>1
  <2>3. begin(t) = offset(t.slot) /\ offset(t.slot + 1) <= plan.workspace
    BY <1>4
  <2>4. offset(t.slot) >= planned /\ offset(t.slot) \in Nat /\ offset(t.slot) % 256 = 0
    BY <1>3, <1>9, <2>1
  <2>5. offset(t.slot + 1) = offset(t.slot) + AlignWorkspace(size(t.slot))
        /\ offset(t.slot + 1) \in Nat
    <3>1. CASE t.slot = 0
      <4>1. 0 + 1 = 1
        OBVIOUS
      <4> QED
        BY <1>3, <3>1, <4>1
    <3>2. CASE t.slot = 1
      <4>1. 1 + 1 = 2
        OBVIOUS
      <4> QED
        BY <1>3, <3>2, <4>1
    <3> QED
      BY <2>1, <3>1, <3>2
  <2>6. AlignWorkspace(size(t.slot)) >= size(t.slot) /\ AlignWorkspace(size(t.slot)) \in Nat
    BY <1>7, <2>1
  <2>7. end(t) = offset(t.slot) + b
    BY <2>3
  <2> HIDE DEF b, begin, end
  <2>8. end(t) \in Nat /\ end(t) <= offset(t.slot + 1)
    BY <2>1, <2>2, <2>4, <2>5, <2>6, <2>7
  <2> QED
    BY <1>4, <1>8, <2>3, <2>4, <2>5, <2>8
<1>11. ASSUME NEW t \in T, NEW u \in T, t.slot # u.slot
       PROVE  end(t) <= begin(u) \/ end(u) <= begin(t)
  <2>1. begin(t) = offset(t.slot) /\ begin(u) = offset(u.slot)
    BY <1>4
  <2>2. 0 + 1 = 1
    OBVIOUS
  <2> HIDE DEF begin, end
  <2>3. CASE t.slot = 0
    <3>1. u.slot = 1
      BY <1>6, <1>11, <2>3
    <3> QED
      BY <1>10, <2>1, <2>2, <2>3, <3>1
  <2>4. CASE t.slot = 1
    <3>1. u.slot = 0
      BY <1>6, <1>11, <2>4
    <3> QED
      BY <1>10, <2>1, <2>2, <2>4, <3>1
  <2> QED
    BY <1>6, <2>3, <2>4
<1>12. ASSUME NEW i \in DOMAIN ops, NEW c \in Range(ops[i].candidates),
              NEW t \in Range(c.temporaries), NEW u \in Range(c.temporaries), u # t
       PROVE  t.slot # u.slot
  <2>1. OpGood(nodes[i], ops[i])
    BY DEF OpsGood
  <2> QED
    BY <1>12, <2>1 DEF OpGood
<1> HIDE DEF begin, end
<1>13. ASSUME NEW i \in DOMAIN ops, NEW c \in Range(ops[i].candidates),
              NEW t \in Range(c.temporaries)
       PROVE  /\ begin(t) >= plan.planned /\ begin(t) % 256 = 0 /\ end(t) <= plan.workspace
              /\ \A u \in Range(c.temporaries) :
                   u # t => end(t) <= begin(u) \/ end(u) <= begin(t)
  BY <1>5, <1>10, <1>11, <1>12
<1>14. PlanApart(plan, p)
  BY <1>13 DEF PlanApart, begin, end
<1> QED
  BY <1>14 DEF plan

(* TemporariesApart, plan by plan.                                         *)
LEMMA ApartInEveryPlan ==
  TemporariesApart <=> \A p \in DOMAIN plans : PlanApart(plans[p], p)
BY DEF TemporariesApart, PlanApart

-----------------------------------------------------------------------------
(* The inductive invariant of Compile: ops exist from lowering on, plans   *)
(* from planning on, and both are made of the nodes the passes left.       *)
Stages == {"checks", "passes", "load", "lower", "plan", "ok", "failed"}

StagesInOrder ==
  /\ stage \in Stages
  /\ stage \in {"checks", "passes", "load"} => ops = <<>>
  /\ stage \in {"checks", "passes", "load", "lower"} => plans = <<>>
  /\ stage \in {"load", "lower", "plan", "ok"} => WellFormed(nodes)

PlansGood ==
  /\ plans \in Seq(PlanSet) /\ Len(plans) <= Len(options.bytes)
  /\ \A p \in DOMAIN plans : PlanApart(plans[p], p)

CompileInv ==
  /\ GraphInv /\ Typed /\ StagesInOrder
  /\ OpsGood /\ SelectedRunsOneKernel /\ PlansGood

(* Before lowering there are no ops and no plans to speak of.              *)
LEMMA NothingYet ==
  ASSUME Typed, ops = <<>>, plans = <<>>
  PROVE  OpsGood /\ SelectedRunsOneKernel /\ PlansGood
<1>1. Len(options.bytes) \in Nat /\ Len(nodes) \in Nat
  BY DEF Typed, Options
<1>2. /\ ops \in Seq(OpSet) /\ plans \in Seq(PlanSet) /\ Len(ops) = 0 /\ Len(plans) = 0
      /\ DOMAIN ops = {} /\ DOMAIN plans = {}
  BY EmptySeq
<1> QED
  BY <1>1, <1>2 DEF OpsGood, SelectedRunsOneKernel, PlansGood

(* The same of the next state.                                             *)
LEMMA NothingYetNext ==
  ASSUME Typed', ops' = <<>>, plans' = <<>>
  PROVE  (OpsGood /\ SelectedRunsOneKernel /\ PlansGood)'
<1>1. Len(options'.bytes) \in Nat /\ Len(nodes') \in Nat
  BY DEF Typed, Options
<1>2. /\ ops' \in Seq(OpSet) /\ plans' \in Seq(PlanSet) /\ Len(ops') = 0 /\ Len(plans') = 0
      /\ DOMAIN ops' = {} /\ DOMAIN plans' = {}
  BY EmptySeq
<1> QED
  BY <1>1, <1>2 DEF OpsGood, SelectedRunsOneKernel, PlansGood

(* Compile starts with the invariant.                                      *)
LEMMA CompileStart ==
  ASSUME CompileInit
  PROVE  CompileInv
<1>1. PICK c \in Compilations :
        /\ nodes = c.graph.nodes /\ outputs = c.graph.outputs /\ known = c.graph.known
        /\ options = c.options
  BY DEF CompileInit
<1>2. c.graph \in Graphs /\ c.options \in Options
  BY CompilerAssumption
<1>3. nodes \in Seq(Node) /\ outputs \subseteq Value /\ known \in [Value -> Kind]
  BY <1>1, <1>2, GraphAssumption
<1>4. GraphInv
  BY <1>3, GraphStart DEF CompileInit
<1>5. Typed
  BY <1>1, <1>2, <1>3, EmptySeq DEF Typed, CompileInit
<1>6. StagesInOrder
  BY DEF StagesInOrder, Stages, CompileInit
<1> QED
  BY <1>4, <1>5, <1>6, NothingYet DEF CompileInv, CompileInit

(* The checks keep the invariant: a profile only describes the inputs.     *)
LEMMA CheckKeeps ==
  ASSUME CompileInv, CheckOptions
  PROVE  CompileInv'
<1>1. UNCHANGED <<nodes, outputs, passes, status, options, repository, ops, plans>>
  BY DEF CheckOptions
<1>2. GraphInv /\ Typed /\ StagesInOrder /\ ops = <<>> /\ plans = <<>>
  BY DEF CompileInv, StagesInOrder, CheckOptions
<1>3. known' \in [Value -> Kind]
  <2>1. CASE UNCHANGED known
    BY <1>2, <2>1 DEF Typed
  <2>2. CASE options.profiles # <<>> /\ known' = AtProfile(known, 1)
    <3> DEFINE P == [valid : BOOLEAN, kinds : [Inputs -> Kind]]
               profiles == options.profiles
    <3>1. profiles \in Seq(P)
      BY <1>2 DEF Typed, Options
    <3>2. profiles[1].kinds \in [Inputs -> Kind]
      <4>1. profiles[1] \in P
        <5> HIDE DEF P, profiles
        <5>1. profiles # <<>>
          BY <2>2 DEF profiles
        <5>2. Len(profiles) \in Nat /\ Len(profiles) # 0 /\ DOMAIN profiles = 1..Len(profiles)
          BY <3>1, <5>1, EmptySeq
        <5>3. 1 \in 1..Len(profiles)
          BY <5>2
        <5> QED
          BY <3>1, <5>3
      <4> QED
        BY <4>1
    <3>3. known \in [Value -> Kind]
      BY <1>2 DEF Typed
    <3> QED
      BY <2>2, <3>2, <3>3 DEF AtProfile
  <2> QED
    BY <2>1, <2>2 DEF CheckOptions
<1>4. GraphInv'
  BY <1>1, <1>2, <1>3 DEF GraphInv, TypeOK, PassesInOrder, Remaining, NodesWellFormed,
                           WellFormed, Pipeline
<1>5. Typed'
  BY <1>1, <1>2, <1>3 DEF Typed
<1>6. StagesInOrder' /\ ops' = <<>> /\ plans' = <<>>
  BY <1>1, <1>2 DEF StagesInOrder, Stages, CheckOptions
<1>7. (OpsGood /\ SelectedRunsOneKernel /\ PlansGood)'
  BY <1>5, <1>6, NothingYetNext
<1> QED
  BY <1>4, <1>5, <1>6, <1>7 DEF CompileInv

(* The passes keep it, and leave well-formed nodes when they end.          *)
LEMMA OptimizeKeeps ==
  ASSUME CompileInv, Optimize
  PROVE  CompileInv'
<1>1. UNCHANGED <<options, repository, ops, plans>> /\ PassStep
  BY DEF Optimize
<1>2. GraphInv /\ Typed /\ StagesInOrder /\ ops = <<>> /\ plans = <<>>
  BY DEF CompileInv, StagesInOrder, Optimize
<1>3. GraphInv'
  BY <1>1, <1>2, PassStepKeepsGraph
<1>4. Typed'
  BY <1>1, <1>2, <1>3 DEF Typed, GraphInv, TypeOK
<1>5. status' = "ok" => passes' = <<>>
  BY <1>1 DEF PassStep, TopologicalSort, InferShapes, FoldConstants, EliminateDeadNodes,
              FuseConvBatchNormRelu, FuseAddRelu, FuseGemmGelu, FuseSkipLayerNormalization,
              FusionPass, Normalize, ValidateShapes, Finish, Running, NextPass, Fail
<1>6. StagesInOrder'
  <2>1. stage' \in {"load", "failed", "passes"} /\ (stage' = "load" => status' = "ok")
    BY DEF Optimize
  <2>2. stage' = "load" => WellFormed(nodes')
    <3>1. ASSUME stage' = "load" PROVE Len(passes') <= 3
      <4>1. passes' = <<>>
        BY <1>5, <2>1, <3>1
      <4> QED
        BY <4>1
    <3> QED
      BY <1>3, <3>1 DEF GraphInv, NodesWellFormed
  <2> QED
    BY <1>1, <1>2, <2>1, <2>2 DEF StagesInOrder, Stages
<1>7. ops' = <<>> /\ plans' = <<>>
  BY <1>1, <1>2
<1>8. (OpsGood /\ SelectedRunsOneKernel /\ PlansGood)'
  BY <1>4, <1>7, NothingYetNext
<1> QED
  BY <1>3, <1>4, <1>6, <1>8 DEF CompileInv

(* The passes' invariant depends on their variables only.                  *)
LEMMA GraphUnchanged ==
  ASSUME GraphInv, UNCHANGED vars
  PROVE  GraphInv'
BY DEF vars, GraphInv, TypeOK, PassesInOrder, Remaining, NodesWellFormed, WellFormed, Pipeline

(* What is read of the packs is a list of artifacts.                       *)
LEMMA LoadedTyped ==
  ASSUME Typed, LoadArtifacts
  PROVE  repository' \in Seq(Artifact)
<1> DEFINE packs == options.packs
           flawed == {p \in DOMAIN packs : packs[p].flaw # "none"}
           read == IF flawed = {} THEN packs ELSE SubSeq(packs, 1, Min(flawed))
           lists == [p \in DOMAIN read |-> read[p].artifacts]
<1>1. packs \in Seq(Pack)
  BY DEF Typed, Options
<1>2. read \in Seq(Pack)
  <2>1. CASE flawed = {}
    BY <1>1, <2>1
  <2>2. CASE flawed # {}
    <3> DEFINE m == Min(flawed)
    <3>1. flawed \in SUBSET Nat /\ flawed \subseteq 1..Len(packs)
      <4> HIDE DEF packs
      <4> QED
        BY <1>1
    <3>2. m \in flawed
      <4> HIDE DEF flawed
      <4> QED
        BY <2>2, <3>1, MinNat
    <3> HIDE DEF m, packs
    <3>3. m \in 1..Len(packs) /\ Len(packs) \in Nat
      <4> HIDE DEF flawed
      <4> QED
        BY <1>1, <3>1, <3>2
    <3>4. 1 \in 1..(Len(packs) + 1) /\ m \in (1 - 1)..Len(packs)
      BY <3>3
    <3>5. SubSeq(packs, 1, m) \in Seq(Pack)
      <4> HIDE DEF flawed
      <4> QED
        BY <1>1, <3>4, SubSeqProperties
    <3> QED
      BY <2>2, <3>5 DEF m
  <2> QED
    BY <2>1, <2>2
<1>3. \/ UNCHANGED repository
      \/ repository' = <<>>
      \/ repository' = FlattenSeq(lists)
  BY DEF LoadArtifacts
<1> HIDE DEF packs, flawed, read
<1>4. lists \in Seq(Seq(Artifact))
  <2> DEFINE S == Seq(Artifact)
  <2>1. ASSUME NEW p \in DOMAIN read PROVE read[p].artifacts \in S
    <3>1. read[p] \in Pack
      <4> HIDE DEF read
      <4> QED
        BY <1>2
    <3> QED
      BY <3>1 DEF Pack
  <2> HIDE DEF S
  <2>2. lists \in Seq(S)
    BY <1>2, <2>1
  <2> QED
    BY <2>2 DEF S
<1> HIDE DEF lists
<1>5. FlattenSeq(lists) \in Seq(Artifact)
  BY <1>4, Flattened
<1> QED
  BY <1>3, <1>5, EmptySeq DEF Typed

(* Loading the packs keeps the invariant.                                  *)
LEMMA LoadKeeps ==
  ASSUME CompileInv, LoadArtifacts
  PROVE  CompileInv'
<1>1. UNCHANGED <<vars, options, ops, plans>>
  BY DEF LoadArtifacts
<1>2. GraphInv /\ Typed /\ StagesInOrder /\ ops = <<>> /\ plans = <<>>
  BY DEF CompileInv, StagesInOrder, LoadArtifacts
<1>3. GraphInv'
  BY <1>1, <1>2, GraphUnchanged
<1>4. Typed'
  BY <1>1, <1>2, LoadedTyped DEF Typed, vars
<1>5. StagesInOrder'
  <2>1. stage' \in {"failed", "lower"} /\ WellFormed(nodes)
    BY <1>2 DEF LoadArtifacts, StagesInOrder
  <2>2. WellFormed(nodes)'
    BY <1>1, <2>1 DEF vars, WellFormed
  <2> QED
    BY <1>1, <1>2, <2>1, <2>2 DEF StagesInOrder, Stages
<1>6. ops' = <<>> /\ plans' = <<>>
  BY <1>1, <1>2
<1>7. (OpsGood /\ SelectedRunsOneKernel /\ PlansGood)'
  BY <1>4, <1>6, NothingYetNext
<1> QED
  BY <1>3, <1>4, <1>5, <1>7 DEF CompileInv

-----------------------------------------------------------------------------
(* An op that is not a view runs one of the matching kernels.              *)
RunsOneKernel(node, op, matching) ==
  node.op # "Flatten" =>
    LET selected == op.candidates[op.selected]
    IN  /\ Len(selected.steps) = 1 /\ selected.temporaries = <<>>
        /\ selected.steps[1].kernel \in Range(matching)
        /\ (\E a \in Range(matching) : a.default) => selected.steps[1].kernel.default

(* SelectedRunsOneKernel, op by op, in a state and in the next.            *)
LEMMA SelectedOps ==
  /\ SelectedRunsOneKernel
       <=> \A i \in DOMAIN ops : RunsOneKernel(nodes[i], ops[i], Matching(nodes[i]))
  /\ SelectedRunsOneKernel'
       <=> \A i \in DOMAIN ops' : RunsOneKernel(nodes'[i], ops'[i], Matching(nodes[i])')
BY DEF SelectedRunsOneKernel, RunsOneKernel

(* What matches a node stays while the repository and the shapes do.       *)
LEMMA SameMatching ==
  ASSUME UNCHANGED <<nodes, known, options, repository>>
  PROVE  \A i : Matching(nodes[i])' = Matching(nodes[i])
BY DEF Matching, Suits

(* What is selected for a supported node.                                  *)
LEMMA LoweredOpRunsOneKernel ==
  ASSUME NEW node, Lowerable(node), Supported(node), NEW op,
         op.candidates = Candidates(node), op.selected = Selected(Candidates(node))
  PROVE  RunsOneKernel(node, op, Matching(node))
<1> SUFFICES ASSUME node.op # "Flatten" PROVE RunsOneKernel(node, op, Matching(node))
  BY DEF RunsOneKernel
<1> DEFINE matching == Matching(node)
           s == Selected(Candidates(node))
<1>1. matching # <<>> /\ matching \in Seq(Artifact)
  BY MatchingElements DEF Supported, Lowerable
<1>2. /\ s \in 1..Len(matching)
      /\ Candidates(node)[s] = Single(node, matching[s])
      /\ (\E a \in Range(matching) : a.default) => matching[s].default
  BY <1>1, SelectedCandidate
<1> HIDE DEF s, matching
<1>3. matching[s] \in Range(matching)
  BY <1>1, <1>2 DEF Range
<1>4. op.candidates[op.selected] = Single(node, matching[s])
  BY <1>2 DEF s
<1> DEFINE kernel == matching[s]
<1> HIDE DEF kernel
<1>5. /\ Len(Single(node, kernel).steps) = 1 /\ Single(node, kernel).temporaries = <<>>
      /\ Single(node, kernel).steps[1].kernel = kernel
  BY DEF Single
<1>6. RunsOneKernel(node, op, matching)
  BY <1>2, <1>3, <1>4, <1>5 DEF RunsOneKernel, kernel
<1> QED
  BY <1>6 DEF matching

(* A step that changes neither the ops nor what they were made of.         *)
LEMMA OpsStay ==
  ASSUME CompileInv, UNCHANGED <<vars, options, repository, ops>>
  PROVE  GraphInv' /\ Typed' /\ OpsGood' /\ SelectedRunsOneKernel'
<1>1. UNCHANGED <<nodes, known, options, repository, ops>>
  BY DEF vars
<1>2. GraphInv'
  BY GraphUnchanged DEF CompileInv
<1>3. Typed'
  BY <1>1 DEF CompileInv, Typed
<1>4. OpsGood'
  BY <1>1 DEF CompileInv, OpsGood
<1>5. SelectedRunsOneKernel'
  BY <1>1, SelectedOps, SameMatching DEF CompileInv
<1> QED
  BY <1>2, <1>3, <1>4, <1>5

(* Plans stay good as long as they and what they place stay.               *)
LEMMA ApartStays ==
  ASSUME UNCHANGED <<known, options, ops>>, NEW p \in DOMAIN plans,
         PlanApart(plans[p], p), plans'[p] = plans[p]
  PROVE  PlanApart(plans[p], p)'
BY DEF PlanApart, BytesOf, OffsetOf

(* A step that changes nothing of the plans and what they place.           *)
LEMMA PlansStay ==
  ASSUME CompileInv, UNCHANGED <<vars, options, ops, plans>>
  PROVE  PlansGood'
<1>1. UNCHANGED <<known, options, ops, plans>>
  BY DEF vars
<1>2. \A p \in DOMAIN plans : PlanApart(plans[p], p)'
  BY <1>1, ApartStays DEF CompileInv, PlansGood
<1> QED
  BY <1>1, <1>2 DEF CompileInv, PlansGood

(* Lowering the next node keeps the invariant.                             *)
LEMMA LowerKeeps ==
  ASSUME CompileInv, LowerNode
  PROVE  CompileInv'
<1>1. UNCHANGED <<vars, options, repository, plans>> /\ stage = "lower" /\ plans = <<>>
  BY DEF LowerNode, CompileInv, StagesInOrder
<1>2. UNCHANGED <<nodes, known>> /\ GraphInv /\ Typed /\ StagesInOrder /\ OpsGood
  BY <1>1 DEF vars, CompileInv
<1>3. GraphInv'
  BY <1>1, <1>2, GraphUnchanged
<1>4. Typed'
  BY <1>1, <1>2 DEF Typed
<1>5. StagesInOrder'
  <2>1. stage' \in {"lower", "failed"} /\ WellFormed(nodes)'
    BY <1>1, <1>2 DEF LowerNode, StagesInOrder, WellFormed
  <2> QED
    BY <1>1, <2>1 DEF StagesInOrder, Stages
<1>6. PlansGood'
  <2>1. plans' = <<>> /\ Len(options'.bytes) \in Nat
    BY <1>1, <1>4 DEF Typed, Options
  <2>2. plans' \in Seq(PlanSet) /\ Len(plans') = 0 /\ DOMAIN plans' = {}
    BY <2>1, EmptySeq
  <2> QED
    BY <2>1, <2>2 DEF PlansGood
<1>7. OpsGood' /\ SelectedRunsOneKernel'
  <2>1. CASE UNCHANGED ops
    BY <1>1, <2>1, OpsStay
  <2>2. CASE ~UNCHANGED ops
    <3> DEFINE n == Len(ops) + 1
               node == nodes[n]
               all == Candidates(node)
               op == [candidates |-> all, selected |-> Selected(all)]
    <3>1. Supported(node) /\ ops' = Append(ops, op) /\ Len(ops) < Len(nodes)
      BY <2>2 DEF LowerNode
    <3>2. ops \in Seq(OpSet) /\ Len(ops) \in Nat /\ Len(nodes) \in Nat /\ n \in DOMAIN nodes
      BY <1>2, <3>1 DEF OpsGood, Typed
    <3>3. Lowerable(node)
      BY <1>1, <1>2, <3>2 DEF Lowerable, Typed, StagesInOrder, WellFormed
    <3>4. OpGood(node, op)
      BY <3>1, <3>3, LoweredOpIsGood
    <3>5. op.candidates = all /\ op.selected = Selected(all)
      OBVIOUS
    <3>6. RunsOneKernel(node, op, Matching(node))
      <4> HIDE DEF op, node
      <4> QED
        BY <3>1, <3>3, <3>5, LoweredOpRunsOneKernel
    <3> HIDE DEF op
    <3>7. op \in OpSet
      BY <3>4 DEF OpGood
    <3>8. /\ ops' \in Seq(OpSet) /\ Len(ops') = n /\ DOMAIN ops' = 1..n /\ ops'[n] = op
          /\ \A i \in 1..Len(ops) : ops'[i] = ops[i]
      BY <3>1, <3>2, <3>7
    <3>9. \A i \in 1..n : i = n \/ i \in DOMAIN ops
      BY <3>2
    <3>10. DOMAIN ops = 1..Len(ops)
      BY <3>2
    <3>11. OpsGood'
      <4>1. \A i \in 1..n : OpGood(nodes'[i], ops'[i])
        BY <1>2, <3>4, <3>8, <3>9, <3>10 DEF OpsGood
      <4>2. Len(ops') <= Len(nodes')
        BY <1>2, <3>1, <3>2, <3>8
      <4> QED
        BY <3>8, <4>1, <4>2 DEF OpsGood
    <3>12. SelectedRunsOneKernel'
      <4>1. ASSUME NEW i \in 1..n
            PROVE  RunsOneKernel(nodes'[i], ops'[i], Matching(nodes[i])')
        <5>1. Matching(nodes[i])' = Matching(nodes[i]) /\ nodes'[i] = nodes[i]
          BY <1>1, <1>2, SameMatching
        <5>2. RunsOneKernel(nodes[i], ops'[i], Matching(nodes[i]))
          <6>1. CASE i = n
            BY <3>6, <3>8, <6>1
          <6>2. CASE i \in DOMAIN ops
            BY <3>8, <3>10, <6>2, SelectedOps DEF CompileInv
          <6> QED
            BY <3>9, <6>1, <6>2
        <5> QED
          BY <5>1, <5>2
      <4> QED
        BY <3>8, <4>1, SelectedOps
    <3> QED
      BY <3>11, <3>12
  <2> QED
    BY <2>1, <2>2
<1> QED
  BY <1>3, <1>4, <1>5, <1>6, <1>7 DEF CompileInv

(* The steps that only change the stage keep the invariant.                *)
LEMMA StartKeeps ==
  ASSUME CompileInv, StartPlanning \/ ReturnPlan \/ Returned
  PROVE  CompileInv'
<1>1. UNCHANGED <<vars, options, repository, ops, plans>>
  BY DEF StartPlanning, ReturnPlan, Returned, compileVars
<1>2. StagesInOrder'
  <2>1. WellFormed(nodes)' <=> WellFormed(nodes)
    BY <1>1 DEF WellFormed, vars
  <2>2. \/ stage = "lower" /\ stage' = "plan"
        \/ stage = "plan" /\ stage' = "ok"
        \/ stage' = stage
    BY DEF StartPlanning, ReturnPlan, Returned, compileVars
  <2> QED
    BY <1>1, <2>1, <2>2 DEF CompileInv, StagesInOrder, Stages
<1> QED
  BY <1>1, <1>2, OpsStay, PlansStay DEF CompileInv

(* Planning the next profile keeps the invariant.                          *)
LEMMA PlanKeeps ==
  ASSUME CompileInv, PlanMemory
  PROVE  CompileInv'
<1>1. UNCHANGED <<vars, options, repository, ops>> /\ stage = "plan"
      /\ Len(plans) < Len(options.bytes)
  BY DEF PlanMemory
<1>2. /\ GraphInv' /\ Typed' /\ OpsGood' /\ SelectedRunsOneKernel'
      /\ Typed /\ OpsGood /\ PlansGood /\ StagesInOrder /\ UNCHANGED <<known, options, ops>>
  BY <1>1, OpsStay DEF CompileInv, vars
<1>3. StagesInOrder'
  <2>1. stage' \in {"plan", "failed"}
    BY <1>1 DEF PlanMemory
  <2>2. WellFormed(nodes)'
    BY <1>1, <1>2 DEF WellFormed, vars, StagesInOrder
  <2> QED
    BY <1>1, <2>1, <2>2 DEF StagesInOrder, Stages
<1>4. PlansGood'
  <2>1. CASE UNCHANGED plans
    BY <1>1, <2>1, PlansStay
  <2>2. CASE ~UNCHANGED plans
    <3> DEFINE n == Len(plans) + 1
    <3>1. PICK planned \in PlannedBytes : plans' = Append(plans, WithTemporaries(n, planned))
      BY <2>2 DEF PlanMemory
    <3> DEFINE plan == WithTemporaries(n, planned)
    <3>2. /\ plans \in Seq(PlanSet) /\ Len(plans) \in Nat /\ Len(options.bytes) \in Nat
          /\ DOMAIN plans = 1..Len(plans)
          /\ DOMAIN options.bytes = 1..Len(options.bytes)
      BY <1>2 DEF PlansGood, Typed, Options
    <3>3. n \in DOMAIN options.bytes
      BY <1>1, <3>2
    <3>4. plan \in PlanSet /\ PlanApart(plan, n)
      BY <1>2, <3>3, PlanPlacesTemporaries, NewPlanApart
    <3> HIDE DEF plan
    <3>5. /\ plans' \in Seq(PlanSet) /\ Len(plans') = n /\ DOMAIN plans' = 1..n
          /\ plans'[n] = plan /\ \A p \in 1..Len(plans) : plans'[p] = plans[p]
      BY <3>1, <3>2, <3>4 DEF plan
    <3>6. \A p \in 1..n : p = n \/ p \in DOMAIN plans
      BY <3>2
    <3>7. ASSUME NEW p \in 1..n PROVE PlanApart(plans[p], p)'
      <4>1. CASE p = n
        <5>1. PlanApart(plan, p) /\ plans'[p] = plan
          BY <3>4, <3>5, <4>1
        <5> QED
          BY <1>2, <5>1 DEF PlanApart, BytesOf, OffsetOf
      <4>2. CASE p \in DOMAIN plans
        BY <1>2, <3>2, <3>5, <4>2, ApartStays DEF PlansGood
      <4> QED
        BY <3>6, <4>1, <4>2
    <3>8. n <= Len(options'.bytes)
      BY <1>1, <1>2, <3>2
    <3> QED
      BY <3>5, <3>7, <3>8 DEF PlansGood
  <2> QED
    BY <2>1, <2>2
<1> QED
  BY <1>2, <1>3, <1>4 DEF CompileInv

-----------------------------------------------------------------------------
(* The inductive invariant holds throughout.                               *)
LEMMA CompileInvariant ==
  CompileSpec => []CompileInv
<1>1. CompileInit => CompileInv
  BY CompileStart
<1>2. CompileInv /\ [CompileNext]_compileVars => CompileInv'
  <2>1. ASSUME CompileInv, UNCHANGED compileVars PROVE CompileInv'
    <3>1. UNCHANGED <<vars, options, repository, ops, plans>> /\ UNCHANGED stage
      BY <2>1 DEF compileVars
    <3>2. StagesInOrder'
      BY <2>1, <3>1 DEF CompileInv, StagesInOrder, WellFormed, vars
    <3> QED
      BY <2>1, <3>1, <3>2, OpsStay, PlansStay DEF CompileInv
  <2> QED
    BY <2>1, CheckKeeps, OptimizeKeeps, LoadKeeps, LowerKeeps, StartKeeps, PlanKeeps
       DEF CompileNext
<1> QED
  BY <1>1, <1>2, PTL DEF CompileSpec

(* What the invariant says of the candidates of a lowered op.              *)
LEMMA OpsAreTyped ==
  ASSUME OpsGood, NEW op \in Range(ops)
  PROVE  /\ op.selected \in DOMAIN op.candidates
         /\ \A c \in Range(op.candidates) :
              /\ c.default \in BOOLEAN
              /\ \A step \in Range(c.steps) : step.kernel \in Artifact
              /\ \A t \in Range(c.temporaries) : t.like \in Value /\ t.slot \in Nat
<1>1. PICK i \in DOMAIN ops : op = ops[i]
  BY DEF Range
<1>2. OpGood(nodes[i], op)
  BY <1>1 DEF OpsGood
<1>3. op.candidates \in Seq(Candidate)
  BY <1>2 DEF OpGood, OpSet
<1>4. ASSUME NEW c \in Range(op.candidates)
      PROVE  /\ c.default \in BOOLEAN
             /\ \A step \in Range(c.steps) : step.kernel \in Artifact
             /\ \A t \in Range(c.temporaries) : t.like \in Value /\ t.slot \in Nat
  <2>1. c \in Candidate
    BY <1>3, RangeOfSeq
  <2> DEFINE S == [kernel : Artifact, ins : Seq(OperandSet), out : OperandSet]
             T == [name : OperandSet, like : Value, slot : Nat]
  <2>2. c.default \in BOOLEAN /\ c.steps \in Seq(S) /\ c.temporaries \in Seq(T)
    BY <2>1 DEF Candidate
  <2>3. (\A s \in Range(c.steps) : s \in S) /\ \A t \in Range(c.temporaries) : t \in T
    <3> HIDE DEF S, T
    <3> QED
      BY <2>2, RangeOfSeq
  <2> QED
    BY <2>2, <2>3
<1> QED
  BY <1>2, <1>4 DEF OpGood

(* The type of every variable of a compilation, for any graphs, options    *)
(* and packs.                                                              *)
THEOREM CompileTypeCorrect == CompileSpec => []CompileTypeOK
<1>1. CompileInv => CompileTypeOK
  <2> SUFFICES ASSUME CompileInv PROVE CompileTypeOK
    OBVIOUS
  <2>1. TypeOK /\ options \in Options /\ repository \in Seq(Artifact)
    BY DEF CompileInv, GraphInv, Typed
  <2>2. stage \in Stages /\ Len(ops) <= Len(nodes) /\ Len(plans) <= Len(options.bytes)
    BY DEF CompileInv, StagesInOrder, OpsGood, PlansGood
  <2>3. \A plan \in Range(plans) : plan.planned \in PlannedBytes /\ plan.workspace \in Nat
    <3>1. \A plan \in Range(plans) : plan \in PlanSet
      BY RangeOfSeq DEF CompileInv, PlansGood
    <3> QED
      BY <3>1 DEF PlanSet
  <2> QED
    BY <2>1, <2>2, <2>3, OpsAreTyped DEF CompileInv, CompileTypeOK, Stages
<1> QED
  BY <1>1, CompileInvariant, PTL

(* An op that is never tuned runs one kernel that fits the device and the  *)
(* node, a default one if any fits (README.md: kDisabled uses the          *)
(* manifest's defaults).                                                   *)
THEOREM UntunedOpsRunOneKernel == CompileSpec => []SelectedRunsOneKernel
<1>1. CompileInv => SelectedRunsOneKernel
  BY DEF CompileInv
<1> QED
  BY <1>1, CompileInvariant, PTL

(* Every candidate of an op, fused or decomposed, writes the op's output   *)
(* and computes there what its operator means, so the tuner may choose any *)
(* of them.                                                                *)
THEOREM EveryCandidateComputes == CompileSpec => []CandidatesCompute
<1>1. CompileInv => CandidatesCompute
  BY DEF CompileInv, OpsGood, OpGood, Computes, CandidatesCompute
<1> QED
  BY <1>1, CompileInvariant, PTL

(* In every profile's plan the temporaries of a candidate are apart from   *)
(* one another and from every value the planner placed, aligned, and in    *)
(* the workspace.                                                          *)
THEOREM TemporariesAreApart == CompileSpec => []TemporariesApart
<1>1. CompileInv => TemporariesApart
  BY ApartInEveryPlan DEF CompileInv, PlansGood
<1> QED
  BY <1>1, CompileInvariant, PTL

(* A compilation's passes have not begun while its options are checked,    *)
(* and what they rely on holds throughout.                                 *)
PassesRun ==
  /\ GraphInv /\ RunsInv /\ PassesDone
  /\ stage = "checks" => passes = Pipeline /\ status = "running"

(* That holds when a compilation of a well-made graph begins.              *)
LEMMA PassesRunStart ==
  ASSUME \A c \in Compilations : WellMade(c.graph.nodes), CompileInit, GraphInv
  PROVE  PassesRun
<1>1. PICK c \in Compilations : nodes = c.graph.nodes
  BY DEF CompileInit
<1>2. WellMade(nodes) /\ passes = Pipeline /\ status = "running"
  BY <1>1 DEF CompileInit
<1>3. RunsInv
  BY <1>2, RunsStart
<1> QED
  BY <1>2, <1>3 DEF PassesRun, PassesDone

(* Every step of a compilation keeps it.                                   *)
LEMMA PassesRunStep ==
  ASSUME PassesRun, [CompileNext]_compileVars, GraphInv'
  PROVE  PassesRun'
<1>1. CASE CheckOptions
  <2>1. nodes' = nodes /\ passes' = passes /\ status' = status /\ stage' # "checks"
    BY <1>1 DEF CheckOptions
  <2>2. passes = Pipeline /\ status = "running"
    BY <1>1 DEF PassesRun, CheckOptions
  <2>3. Left = All /\ Left' = All' /\ All' \in Nat /\ All' > 4
    BY <2>1, <2>2 DEF Left, All, Pipeline
  <2>4. RunsInv'
    BY <2>1, <2>2, <2>3 DEF RunsInv, PassesRun
  <2> QED
    BY <2>1, <2>2, <2>4 DEF PassesRun, PassesDone
<1>2. CASE Optimize
  <2>1. PassStep /\ stage' # "checks"
    BY <1>2 DEF Optimize
  <2> QED
    BY <2>1, PassStepRuns, PassStepDone DEF PassesRun
<1>3. ASSUME UNCHANGED vars, stage' = "checks" => stage = "checks" PROVE PassesRun'
  <2>1. nodes' = nodes /\ known' = known /\ Left' = Left /\ status' = status /\ passes' = passes
    BY <1>3 DEF vars, Left
  <2>2. RunsInv'
    BY <2>1, AllFixed DEF RunsInv, PassesRun
  <2>3. Pipeline' = Pipeline
    BY DEF Pipeline
  <2> QED
    BY <1>3, <2>1, <2>2, <2>3 DEF PassesRun, PassesDone
<1>4. CASE LoadArtifacts \/ LowerNode \/ StartPlanning \/ PlanMemory \/ ReturnPlan
  <2>1. UNCHANGED vars
    BY <1>4 DEF LoadArtifacts, LowerNode, StartPlanning, PlanMemory, ReturnPlan
  <2>2. stage # "checks"
    BY <1>4 DEF LoadArtifacts, LowerNode, StartPlanning, PlanMemory, ReturnPlan
  <2>3. stage' = "checks" => stage = "checks"
    BY <1>4 DEF LoadArtifacts, LowerNode, StartPlanning, PlanMemory, ReturnPlan
  <2> QED
    BY <1>3, <2>1, <2>3
<1>5. CASE UNCHANGED compileVars
  BY <1>3, <1>5 DEF compileVars
<1> QED
  BY <1>1, <1>2, <1>4, <1>5 DEF CompileNext, Returned

(* Whatever the options make of the inputs' descriptions, the graphs that  *)
(* a compilation optimises run, if the graphs compiled are well made.      *)
THEOREM CompiledGraphsRun ==
  ASSUME \A c \in Compilations : WellMade(c.graph.nodes)
  PROVE  CompileSpec => []OptimizedGraphRuns
<1>1. CompileInit /\ GraphInv => PassesRun
  BY PassesRunStart
<1>2. PassesRun /\ [CompileNext]_compileVars /\ GraphInv' => PassesRun'
  BY PassesRunStep
<1>3. PassesRun => OptimizedGraphRuns
  BY RunsImplied DEF PassesRun
<1>4. CompileInv => GraphInv
  BY DEF CompileInv
<1> QED
  BY <1>1, <1>2, <1>3, <1>4, CompileInvariant, PTL DEF CompileSpec

(* Of well-made graphs whose fusable inner values are no outputs, a        *)
(* compilation changes the nodes in its passes alone, and no pass changes  *)
(* what an output is computed as.                                          *)
THEOREM CompilationsPreserveOutputs ==
  ASSUME \A c \in Compilations :
           WellMade(c.graph.nodes) /\ InnersUnobserved(c.graph.nodes, c.graph.outputs)
  PROVE  CompileSpec => OutputsPreserved
<1> DEFINE Inv == GraphInv /\ PassesRun /\ InnersInv
           Preserved == [nodes' # nodes =>
                           \A v \in outputs : Meaning(nodes')[v] = Meaning(nodes)[v]]_vars
<1>1. CompileInit /\ GraphInv => PassesRun /\ InnersInv
  <2>1. CompileInit => InnersInv
    BY DEF CompileInit, InnersInv
  <2> QED
    BY <2>1, PassesRunStart
<1>2. Inv /\ [CompileNext]_compileVars /\ GraphInv' => PassesRun' /\ InnersInv' /\ Preserved
  <2> SUFFICES ASSUME Inv, [CompileNext]_compileVars, GraphInv'
               PROVE  PassesRun' /\ InnersInv' /\ Preserved
    OBVIOUS
  <2>1. PassesRun'
    BY PassesRunStep
  <2>2. CASE Optimize
    <3>1. PassStep
      BY <2>2 DEF Optimize
    <3>2. KeepsOutputs /\ outputs' = outputs
      BY <3>1, PassStepKeepsOutputs DEF PassesRun
    <3>3. InnersInv' /\ Preserved
      BY <3>2 DEF KeepsOutputs, SameOutputs, InnersInv
    <3> QED
      BY <2>1, <3>3
  <2>3. ASSUME nodes' = nodes, outputs' = outputs PROVE InnersInv' /\ Preserved
    BY <2>3 DEF InnersInv
  <2>4. CASE CheckOptions
    BY <2>1, <2>3, <2>4 DEF CheckOptions
  <2>5. CASE LoadArtifacts \/ LowerNode \/ StartPlanning \/ PlanMemory \/ ReturnPlan
    BY <2>1, <2>3, <2>5 DEF LoadArtifacts, LowerNode, StartPlanning, PlanMemory, ReturnPlan, vars
  <2>6. CASE UNCHANGED compileVars
    BY <2>1, <2>3, <2>6 DEF compileVars, vars
  <2> QED
    BY <2>2, <2>4, <2>5, <2>6 DEF CompileNext, Returned
<1>3. CompileInv => GraphInv
  BY DEF CompileInv
<1> QED
  BY <1>1, <1>2, <1>3, CompileInvariant, PTL DEF CompileSpec, OutputsPreserved
-----------------------------------------------------------------------------
(* Loading takes artifacts from the packs.                                 *)
LEMMA LoadedFromPacks ==
  ASSUME Typed, LoadArtifacts, \A a \in Range(repository) : a \in ArtifactsOf(options)
  PROVE  \A a \in Range(repository') : a \in ArtifactsOf(options)
<1> DEFINE packs == options.packs
           flawed == {p \in DOMAIN packs : packs[p].flaw # "none"}
           read == IF flawed = {} THEN packs ELSE SubSeq(packs, 1, Min(flawed))
           lists == [p \in DOMAIN read |-> read[p].artifacts]
<1>1. packs \in Seq(Pack)
  BY DEF Typed, Options
<1>2. read \in Seq(Pack) /\ \A p \in DOMAIN read : p \in DOMAIN packs /\ read[p] = packs[p]
  <2>1. CASE flawed = {}
    BY <1>1, <2>1
  <2>2. CASE flawed # {}
    <3> DEFINE m == Min(flawed)
    <3>1. flawed \in SUBSET Nat /\ flawed \subseteq 1..Len(packs)
      <4> HIDE DEF packs
      <4> QED
        BY <1>1
    <3>2. m \in flawed
      <4> HIDE DEF flawed
      <4> QED
        BY <2>2, <3>1, MinNat
    <3> HIDE DEF m, packs
    <3>3. m \in 1..Len(packs) /\ Len(packs) \in Nat /\ DOMAIN packs = 1..Len(packs)
      <4> HIDE DEF flawed
      <4> QED
        BY <1>1, <3>1, <3>2
    <3>4. 1 \in 1..(Len(packs) + 1) /\ m \in (1 - 1)..Len(packs)
      BY <3>3
    <3>5. /\ SubSeq(packs, 1, m) \in Seq(Pack) /\ Len(SubSeq(packs, 1, m)) = m
          /\ \A i \in 1..m : SubSeq(packs, 1, m)[i] = packs[i]
      <4> HIDE DEF flawed
      <4>1. /\ SubSeq(packs, 1, m) \in Seq(Pack) /\ Len(SubSeq(packs, 1, m)) = m - 1 + 1
            /\ \A i \in 1..(m - 1 + 1) : SubSeq(packs, 1, m)[i] = packs[1 + i - 1]
        BY <1>1, <3>4, SubSeqProperties
      <4>2. m - 1 + 1 = m /\ \A i \in 1..m : 1 + i - 1 = i
        BY <3>3
      <4> QED
        BY <4>1, <4>2
    <3>6. read = SubSeq(packs, 1, m)
      BY <2>2 DEF m
    <3>7. DOMAIN read = 1..m /\ \A i \in 1..m : i \in 1..Len(packs)
      BY <3>3, <3>5, <3>6
    <3> HIDE DEF read
    <3> QED
      BY <3>3, <3>5, <3>6, <3>7
  <2> QED
    BY <2>1, <2>2
<1>3. repository' = repository \/ repository' = <<>> \/ repository' = FlattenSeq(lists)
  BY DEF LoadArtifacts
<1> HIDE DEF flawed, read
<1>4. lists \in Seq(Seq(Artifact)) /\ DOMAIN lists = DOMAIN read
  <2> DEFINE S == Seq(Artifact)
  <2>1. ASSUME NEW p \in DOMAIN read PROVE read[p].artifacts \in S
    <3>1. read[p] \in Pack
      BY <1>2
    <3> QED
      BY <3>1 DEF Pack
  <2> HIDE DEF S
  <2>2. lists \in Seq(S)
    BY <1>2, <2>1
  <2> QED
    BY <2>2 DEF S
<1>5. \A p \in DOMAIN lists : lists[p] = packs[p].artifacts
  BY <1>2, <1>4
<1> HIDE DEF lists
<1>6. ASSUME NEW a \in Range(FlattenSeq(lists)) PROVE a \in ArtifactsOf(options)
  <2>1. PICK p \in DOMAIN lists : a \in Range(lists[p])
    BY <1>4, Flattened
  <2>2. p \in DOMAIN packs /\ a \in Range(packs[p].artifacts)
    BY <1>2, <1>4, <1>5, <2>1
  <2> QED
    BY <2>2 DEF ArtifactsOf
<1>7. Range(<<>>) = {}
  BY DEF Range
<1> QED
  BY <1>3, <1>6, <1>7

(* What matches a node is in the repository and suits it.                  *)
LEMMA MatchingSuits ==
  ASSUME NEW node, repository \in Seq(Artifact), NEW i \in DOMAIN Matching(node)
  PROVE  /\ Matching(node)[i] \in Range(repository) /\ Matching(node)[i].op = node.op
         /\ Suits(Matching(node)[i], Len(node.ins), known[node.ins[1]])
<1> DEFINE S == {k \in DOMAIN repository :
                   /\ repository[k].op = node.op
                   /\ Suits(repository[k], Len(node.ins), known[node.ins[1]])}
<1>1. Matching(node) = Kept(repository, S)
  BY DEF Matching
<1>2. \A k \in S : /\ repository[k].op = node.op /\ k \in DOMAIN repository
                   /\ Suits(repository[k], Len(node.ins), known[node.ins[1]])
  OBVIOUS
<1> HIDE DEF S
<1>3. PICK k \in S : Matching(node)[i] = repository[k]
  BY <1>1, KeptElements
<1> QED
  BY <1>2, <1>3 DEF Range

(* A default artifact is one, of the compilation's type.                   *)
LEMMA DefaultArtifactIs ==
  ASSUME NEW op, repository \in Seq(Artifact), DefaultArtifact(op) # 0
  PROVE  LET d == repository[DefaultArtifact(op)]
         IN  d \in Range(repository) /\ d.op = op /\ d.default /\ d.dtype = options.dtype
<1> DEFINE I == {i \in 1..Len(repository) :
                   /\ repository[i].op = op /\ repository[i].default
                   /\ repository[i].dtype = options.dtype}
<1>1. DefaultArtifact(op) = IF I # {} THEN Min(I) ELSE 0
  BY DEF DefaultArtifact, SelectInSeq
<1>2. I \in SUBSET Nat /\ I # {}
  BY <1>1
<1>3. Min(I) \in I
  <2> HIDE DEF I
  <2> QED
    BY <1>2, MinNat
<1>4. DefaultArtifact(op) \in I
  <2> HIDE DEF I
  <2> QED
    BY <1>1, <1>2, <1>3
<1> QED
  BY <1>4 DEF Range

FusedOps == {"FusedConvBatchNorm", "FusedConvBatchNormRelu", "AddRelu", "GemmGelu",
             "SkipLayerNormalization"}

(* A step is one of its node's parts, and reads the node's first input or  *)
(* a temporary first.                                                      *)
PartOf(node, step) ==
  /\ node.op \in FusedOps
  /\ step.op \in PartOps(node.op)
  /\ Len(step.ins) = PartInputs(step.op, Len(node.ins))
  /\ step.ins[1] = Operand(node.ins[1]) \/ step.ins[1][1] = "temporary"

(* Where a list of operands is cut, and what is put in front of its end.   *)
LEMMA OperandCuts ==
  ASSUME NEW in \in Seq(OperandSet), NEW x \in OperandSet
  PROVE  /\ Len(in) >= 2 => Len(SubSeq(in, 1, 2)) = 2 /\ SubSeq(in, 1, 2)[1] = in[1]
         /\ Len(in) = 6 => /\ Len(<<x>> \o SubSeq(in, 3, 6)) = 5
                           /\ (<<x>> \o SubSeq(in, 3, 6))[1] = x
         /\ Len(in) = 4 => /\ Len(<<x>> \o SubSeq(in, 3, 4)) = 3
                           /\ (<<x>> \o SubSeq(in, 3, 4))[1] = x
<1>1. ASSUME Len(in) >= 2
      PROVE  Len(SubSeq(in, 1, 2)) = 2 /\ SubSeq(in, 1, 2)[1] = in[1]
  <2> DEFINE s == SubSeq(in, 1, 2)
  <2>1. Len(in) \in Nat /\ 1 \in 1..(Len(in) + 1) /\ 2 \in (1 - 1)..Len(in)
    BY <1>1
  <2>2. Len(s) = 2 - 1 + 1 /\ \A i \in 1..(2 - 1 + 1) : s[i] = in[1 + i - 1]
    <3> HIDE DEF s
    <3> QED
      BY <2>1, SubSeqProperties DEF s
  <2> HIDE DEF s
  <2>3. 1 \in 1..(2 - 1 + 1) /\ 1 + 1 - 1 = 1 /\ 2 - 1 + 1 = 2
    OBVIOUS
  <2> QED
    BY <2>2, <2>3 DEF s
<1>2. ASSUME NEW n \in {4, 6}, Len(in) = n
      PROVE  /\ Len(<<x>> \o SubSeq(in, 3, n)) = n - 1
             /\ (<<x>> \o SubSeq(in, 3, n))[1] = x
  <2> DEFINE s == SubSeq(in, 3, n)
             t == <<x>>
  <2>1. Len(in) \in Nat /\ 3 \in 1..(Len(in) + 1) /\ n \in (3 - 1)..Len(in)
    BY <1>2
  <2>2. s \in Seq(OperandSet) /\ Len(s) = n - 3 + 1
    BY <2>1, SubSeqProperties
  <2>3. t \in Seq(OperandSet) /\ Len(t) = 1 /\ t[1] = x
    OBVIOUS
  <2> HIDE DEF s, t
  <2>4. /\ Len(t \o s) = Len(t) + Len(s)
        /\ \A i \in 1..(Len(t) + Len(s)) : (t \o s)[i] = IF i <= Len(t) THEN t[i]
                                                         ELSE s[i - Len(t)]
    BY <2>2, <2>3, ConcatProperties
  <2>5. n - 3 + 1 \in Nat /\ 1 + (n - 3 + 1) = n - 1 /\ 1 \in 1..(1 + (n - 3 + 1))
    OBVIOUS
  <2>6. Len(t \o s) = n - 1 /\ (t \o s)[1] = x
    BY <2>2, <2>3, <2>4, <2>5
  <2> QED
    BY <2>6 DEF s, t
<1>3. 6 - 1 = 5 /\ 4 - 1 = 3 /\ 4 \in {4, 6} /\ 6 \in {4, 6}
  OBVIOUS
<1> QED
  BY <1>1, <1>2, <1>3

(* Every step of a decomposition is one of the node's parts.               *)
LEMMA DecompositionParts ==
  ASSUME NEW node, Lowerable(node), Decomposition(node) # <<>>
  PROVE  \A k \in DOMAIN Decomposition(node) : PartOf(node, Decomposition(node)[k])
<1> DEFINE in == Operands(node.ins)
           out == Operand(node.out)
           conv == Temporary(node, "conv")
           bn == Temporary(node, "bn")
           sum == Temporary(node, "add")
           gemm == Temporary(node, "gemm")
           n == Len(node.ins)
           d == Decomposition(node)
<1>1. /\ in \in Seq(OperandSet) /\ Len(in) = n /\ n \in InputCounts(node.op)
      /\ conv \in OperandSet /\ bn \in OperandSet /\ sum \in OperandSet /\ gemm \in OperandSet
  BY OperandsTyped DEF Lowerable, Parts
<1>2. /\ conv[1] = "temporary" /\ bn[1] = "temporary" /\ sum[1] = "temporary"
      /\ gemm[1] = "temporary"
  BY DEF Temporary
<1>3. n >= 1 => in[1] = Operand(node.ins[1])
  <2>1. node.ins \in Seq(Value) /\ n \in Nat
    BY DEF Lowerable, Node
  <2>2. n >= 1 => 1 \in DOMAIN node.ins
    BY <2>1
  <2> QED
    BY <2>2 DEF Operands
<1>4. ASSUME NEW op, NEW s, NEW x, node.op \in FusedOps, op \in PartOps(node.op),
             Len(s) = PartInputs(op, n),
             s[1] = Operand(node.ins[1]) \/ s[1][1] = "temporary"
      PROVE  PartOf(node, Step(op, s, x))
  BY <1>4 DEF PartOf, Step
<1>5. ASSUME NEW a, NEW b, d = <<a, b>>, PartOf(node, a), PartOf(node, b)
      PROVE  \A k \in DOMAIN d : PartOf(node, d[k])
  <2> HIDE DEF d
  <2>1. DOMAIN d = {1, 2} /\ d[1] = a /\ d[2] = b
    BY <1>5
  <2> QED
    BY <1>5, <2>1
<1>6. ASSUME NEW a, NEW b, NEW c, d = <<a, b, c>>,
             PartOf(node, a), PartOf(node, b), PartOf(node, c)
      PROVE  \A k \in DOMAIN d : PartOf(node, d[k])
  <2> HIDE DEF d
  <2>1. DOMAIN d = {1, 2, 3} /\ d[1] = a /\ d[2] = b /\ d[3] = c
    BY <1>6
  <2> QED
    BY <1>6, <2>1
<1>7. \A op : PartInputs("Relu", op) = 1 /\ PartInputs("Gelu", op) = 1
              /\ PartInputs("Conv", op) = 2 /\ PartInputs("Add", op) = 2
              /\ PartInputs("LayerNormalization", op) = 3
              /\ PartInputs("BatchNormalization", op) = 5 /\ PartInputs("Gemm", op) = op
  BY DEF PartInputs
<1>8. \A x : Len(<<x>>) = 1 /\ <<x>>[1] = x
  OBVIOUS
<1> HIDE DEF in, out, conv, bn, sum, gemm, n
<1> DEFINE head == SubSeq(in, 1, 2)
           rest == <<conv>> \o SubSeq(in, 3, 6)
           norm == <<sum>> \o SubSeq(in, 3, 4)
<1>9. /\ Len(in) >= 2 => Len(head) = 2 /\ head[1] = in[1]
      /\ Len(in) = 6 => Len(rest) = 5 /\ rest[1] = conv
      /\ Len(in) = 4 => Len(norm) = 3 /\ norm[1] = sum
  BY <1>1, OperandCuts
<1> HIDE DEF head, rest, norm, d
<1>10. CASE node.op = "FusedConvBatchNorm"
  <2> DEFINE a == Step("Conv", head, conv)
             b == Step("BatchNormalization", rest, out)
  <2>1. n = 6 /\ n >= 1
    BY <1>1, <1>10 DEF InputCounts, Elementwise, PoolLike
  <2>2. d = <<a, b>>
    BY <1>10 DEF Decomposition, ConvThenNorm, head, rest, in, out, conv, d
  <2>3. node.op \in FusedOps /\ "Conv" \in PartOps(node.op)
        /\ "BatchNormalization" \in PartOps(node.op)
    BY <1>10 DEF FusedOps, PartOps
  <2>4. PartOf(node, a)
    <3>1. head[1] = Operand(node.ins[1]) /\ Len(head) = 2
      BY <1>1, <1>3, <1>9, <2>1
    <3> QED
      BY <1>4, <1>7, <2>3, <3>1
  <2>5. PartOf(node, b)
    BY <1>1, <1>2, <1>4, <1>7, <1>9, <2>1, <2>3
  <2> HIDE DEF a, b
  <2> QED
    BY <1>5, <2>2, <2>4, <2>5 DEF d
<1>11. CASE node.op = "FusedConvBatchNormRelu"
  <2> DEFINE a == Step("Conv", head, conv)
             b == Step("BatchNormalization", rest, bn)
             c == Step("Relu", <<bn>>, out)
  <2>1. n = 6 /\ n >= 1
    BY <1>1, <1>11 DEF InputCounts, Elementwise, PoolLike
  <2>2. d = <<a, b>> \o <<c>>
    BY <1>11 DEF Decomposition, ConvThenNorm, head, rest, in, out, conv, bn, d
  <2>3. /\ node.op \in FusedOps /\ "Conv" \in PartOps(node.op)
        /\ "BatchNormalization" \in PartOps(node.op) /\ "Relu" \in PartOps(node.op)
    BY <1>11 DEF FusedOps, PartOps
  <2>4. PartOf(node, a)
    <3>1. head[1] = Operand(node.ins[1]) /\ Len(head) = 2
      BY <1>1, <1>3, <1>9, <2>1
    <3> QED
      BY <1>4, <1>7, <2>3, <3>1
  <2>5. PartOf(node, b)
    BY <1>1, <1>2, <1>4, <1>7, <1>9, <2>1, <2>3
  <2>6. PartOf(node, c)
    BY <1>2, <1>4, <1>7, <1>8, <2>3
  <2> HIDE DEF a, b, c
  <2>7. d = <<a, b, c>>
    BY <2>2, TwoAndOne
  <2> QED
    BY <1>6, <2>7, <2>4, <2>5, <2>6 DEF d
<1>12. CASE node.op = "AddRelu"
  <2> DEFINE a == Step("Add", in, sum)
             b == Step("Relu", <<sum>>, out)
  <2>1. n = 2 /\ n >= 1
    BY <1>1, <1>12 DEF InputCounts, Elementwise, PoolLike
  <2>2. d = <<a, b>>
    BY <1>12 DEF Decomposition, in, out, sum, d
  <2>3. node.op \in FusedOps /\ "Add" \in PartOps(node.op) /\ "Relu" \in PartOps(node.op)
    BY <1>12 DEF FusedOps, PartOps
  <2>4. PartOf(node, a)
    BY <1>1, <1>3, <1>4, <1>7, <2>1, <2>3
  <2>5. PartOf(node, b)
    BY <1>2, <1>4, <1>7, <1>8, <2>3
  <2> HIDE DEF a, b
  <2> QED
    BY <1>5, <2>2, <2>4, <2>5 DEF d
<1>13. CASE node.op = "GemmGelu"
  <2> DEFINE a == Step("Gemm", in, gemm)
             b == Step("Gelu", <<gemm>>, out)
  <2>1. n >= 1
    BY <1>1, <1>13 DEF InputCounts, Elementwise, PoolLike
  <2>2. d = <<a, b>>
    BY <1>13 DEF Decomposition, in, out, gemm, d
  <2>3. node.op \in FusedOps /\ "Gemm" \in PartOps(node.op) /\ "Gelu" \in PartOps(node.op)
    BY <1>13 DEF FusedOps, PartOps
  <2>4. PartOf(node, a)
    BY <1>1, <1>3, <1>4, <1>7, <2>1, <2>3
  <2>5. PartOf(node, b)
    BY <1>2, <1>4, <1>7, <1>8, <2>3
  <2> HIDE DEF a, b
  <2> QED
    BY <1>5, <2>2, <2>4, <2>5 DEF d
<1>14. CASE node.op = "SkipLayerNormalization"
  <2> DEFINE a == Step("Add", head, sum)
             b == Step("LayerNormalization", norm, out)
  <2>1. n = 4 /\ n >= 1
    BY <1>1, <1>14 DEF InputCounts, Elementwise, PoolLike
  <2>2. d = <<a, b>>
    BY <1>14 DEF Decomposition, head, norm, in, out, sum, d
  <2>3. /\ node.op \in FusedOps /\ "Add" \in PartOps(node.op)
        /\ "LayerNormalization" \in PartOps(node.op)
    BY <1>14 DEF FusedOps, PartOps
  <2>4. PartOf(node, a)
    <3>1. head[1] = Operand(node.ins[1]) /\ Len(head) = 2
      BY <1>1, <1>3, <1>9, <2>1
    <3> QED
      BY <1>4, <1>7, <2>3, <3>1
  <2>5. PartOf(node, b)
    BY <1>1, <1>2, <1>4, <1>7, <1>9, <2>1, <2>3
  <2> HIDE DEF a, b
  <2> QED
    BY <1>5, <2>2, <2>4, <2>5 DEF d
<1>15. node.op \in FusedOps
  BY DEF Decomposition, FusedOps
<1> QED
  BY <1>10, <1>11, <1>12, <1>13, <1>14, <1>15 DEF d, FusedOps

(* What inference accepts of a fused operator's first input it accepts of  *)
(* the first input of each part.                                           *)
LEMMA PartKinds ==
  ASSUME NEW op \in FusedOps, NEW part \in PartOps(op)
  PROVE  FirstKinds(op) \subseteq FirstKinds(part)
<1>1. CASE op \in {"FusedConvBatchNorm", "FusedConvBatchNormRelu"}
  <2>1. op \in ConvLike \cup PoolLike /\ part \in {"Conv", "BatchNormalization", "Relu"}
    BY <1>1 DEF PartOps, ConvLike
  <2>2. FirstKinds(op) = {"image"}
    BY <1>1 DEF FirstKinds, ConvLike, PoolLike, GemmLike
  <2>3. "image" \in FirstKinds(part)
    BY <2>1 DEF FirstKinds, ConvLike, PoolLike, GemmLike, Kind
  <2> QED
    BY <2>2, <2>3
<1>2. CASE op = "GemmGelu"
  <2>1. part \in {"Gemm", "Gelu"}
    BY <1>2 DEF PartOps
  <2>2. FirstKinds(op) = {"matrix"}
    BY <1>2 DEF FirstKinds, ConvLike, PoolLike, GemmLike
  <2>3. "matrix" \in FirstKinds(part)
    BY <2>1 DEF FirstKinds, ConvLike, PoolLike, GemmLike, Kind
  <2> QED
    BY <2>2, <2>3
<1>3. CASE op \in {"AddRelu", "SkipLayerNormalization"}
  <2>1. part \in {"Add", "Relu", "LayerNormalization"}
    BY <1>3 DEF PartOps
  <2>2. FirstKinds(op) = Kind /\ FirstKinds(part) = Kind
    BY <1>3, <2>1 DEF FirstKinds, ConvLike, PoolLike, GemmLike
  <2> QED
    BY <2>2
<1> QED
  BY <1>1, <1>2, <1>3 DEF FusedOps

(* A step reads its node's first input first, or a temporary of a fused    *)
(* one, and takes first whatever inference lets the node take first.       *)
StepOf(node, step) ==
  /\ \/ step.ins[1] = Operand(node.ins[1])
     \/ node.op \in FusedOps /\ step.ins[1][1] = "temporary"
  /\ FirstKinds(node.op) \subseteq FirstKinds(step.kernel.op)

(* The kernels of a candidate fit its steps, those of a decomposition if   *)
(* the packs' default variants suit, given that what a step reads first is *)
(* described as the node's first input is.                                 *)
CandidateSuits(node, c) ==
  \A step \in Range(c.steps) :
    /\ StepOf(node, step)
    /\ Len(c.steps) = 1 \/ DefaultsSuit(options) =>
         Suits(step.kernel, Len(step.ins), known[node.ins[1]])

(* A matching artifact alone suits its node.                               *)
LEMMA SingleSuits ==
  ASSUME NEW node, Lowerable(node), NEW i \in DOMAIN Matching(node)
  PROVE  CandidateSuits(node, Single(node, Matching(node)[i]))
<1> DEFINE f == Matching(node)[i]
           step == [kernel |-> f, ins |-> Operands(node.ins), out |-> Operand(node.out)]
           n == Len(node.ins)
<1>1. /\ Len(Operands(node.ins)) = n /\ n \in InputCounts(node.op)
      /\ node.ins \in Seq(Value) /\ n \in Nat
  BY OperandsTyped DEF Lowerable, Node
<1>2. n >= 1
  BY <1>1 DEF InputCounts
<1>3. Operands(node.ins)[1] = Operand(node.ins[1])
  <2>1. 1 \in DOMAIN node.ins
    BY <1>1, <1>2
  <2> QED
    BY <2>1 DEF Operands
<1>4. f.op = node.op /\ Suits(f, n, known[node.ins[1]])
  BY MatchingSuits DEF Lowerable
<1> HIDE DEF f
<1>5. Single(node, f).steps = <<step>>
  BY DEF Single
<1>6. step.kernel = f /\ step.ins = Operands(node.ins)
  OBVIOUS
<1> HIDE DEF step
<1>7. Range(<<step>>) = {step}
  BY DEF Range
<1>8. StepOf(node, step) /\ Suits(step.kernel, Len(step.ins), known[node.ins[1]])
  BY <1>1, <1>3, <1>4, <1>6 DEF StepOf
<1>9. CandidateSuits(node, Single(node, f))
  BY <1>5, <1>7, <1>8 DEF CandidateSuits
<1> QED
  BY <1>9 DEF f

(* The default variants suit the parts of a node that some artifact suits. *)
LEMMA FallbackSuits ==
  ASSUME NEW node, Lowerable(node), Matching(node) # <<>>, HasFallback(node),
         \A a \in Range(repository) : a \in ArtifactsOf(options)
  PROVE  CandidateSuits(node, Fallback(node))
<1> DEFINE d == Decomposition(node)
           steps == Fallback(node).steps
           n == Len(node.ins)
           kind == known[node.ins[1]]
<1>1. PICK f \in Range(repository) : f.op = node.op /\ Suits(f, n, kind)
  <2>1. Matching(node) \in Seq(Artifact) /\ repository \in Seq(Artifact)
    BY MatchingElements DEF Lowerable
  <2> DEFINE m == Matching(node)
  <2>2. 1 \in DOMAIN m
    <3> HIDE DEF m
    <3>1. m \in Seq(Artifact) /\ m # <<>>
      BY <2>1 DEF m
    <3>2. Len(m) \in Nat /\ Len(m) # 0 /\ DOMAIN m = 1..Len(m)
      BY <3>1, EmptySeq
    <3> QED
      BY <3>2
  <2> QED
    BY <2>1, <2>2, MatchingSuits
<1>2. d \in Seq(StepSet) /\ DOMAIN d = 1..Len(d)
  BY DecompositionForms DEF HasFallback, Decomposes
<1>3. steps = [k \in DOMAIN d |-> [kernel |-> repository[DefaultArtifact(d[k].op)],
                                   ins |-> d[k].ins, out |-> d[k].out]]
  BY DEF Fallback
<1>4. ASSUME NEW k \in DOMAIN d
      PROVE  /\ StepOf(node, steps[k])
             /\ DefaultsSuit(options) => Suits(steps[k].kernel, Len(steps[k].ins), kind)
  <2> DEFINE a == repository[DefaultArtifact(d[k].op)]
  <2>1. PartOf(node, d[k])
    BY DecompositionParts DEF HasFallback
  <2>2. a \in Range(repository) /\ a.op = d[k].op /\ a.default /\ a.dtype = options.dtype
    <3>1. DefaultArtifact(d[k].op) # 0 /\ repository \in Seq(Artifact)
      BY DEF HasFallback, Lowerable
    <3> QED
      BY <3>1, DefaultArtifactIs
  <2>3. steps[k].kernel = a /\ steps[k].ins = d[k].ins
    <3> HIDE DEF d, steps
    <3> QED
      BY <1>3
  <2> HIDE DEF a, d, steps, n, kind
  <2>4. a \in ArtifactsOf(options) /\ f \in ArtifactsOf(options)
    BY <1>1, <2>2
  <2>5. f.dtype = options.dtype /\ f.capability <= options.capability
        /\ n \in f.counts /\ kind \in f.kinds
    BY <1>1 DEF Suits
  <2>6. a.op \in PartOps(f.op)
    BY <1>1, <2>1, <2>2 DEF PartOf
  <2>7. DefaultsSuit(options) =>
          /\ a.capability <= options.capability /\ f.kinds \subseteq a.kinds
          /\ \A count \in f.counts : PartInputs(a.op, count) \in a.counts
    BY <2>2, <2>4, <2>5, <2>6 DEF DefaultsSuit
  <2>8. Len(d[k].ins) = PartInputs(a.op, n)
    BY <2>1, <2>2 DEF PartOf, n
  <2>9. DefaultsSuit(options) => Suits(a, Len(d[k].ins), kind)
    BY <2>2, <2>5, <2>7, <2>8 DEF Suits
  <2>10. StepOf(node, steps[k])
    <3>1. FirstKinds(node.op) \subseteq FirstKinds(a.op)
      BY <2>1, <2>2, PartKinds DEF PartOf
    <3> QED
      BY <2>1, <2>3, <3>1 DEF StepOf, PartOf
  <2> QED
    BY <2>3, <2>9, <2>10
<1> HIDE DEF d
<1>5. DOMAIN steps = DOMAIN d
  BY <1>3
<1> HIDE DEF steps
<1>6. \A step \in Range(steps) :
        /\ StepOf(node, step)
        /\ DefaultsSuit(options) => Suits(step.kernel, Len(step.ins), kind)
  BY <1>4, <1>5 DEF Range
<1>7. Len(steps) # 1
  <2>1. Len(d) \in {2, 3}
    BY DecompositionForms DEF HasFallback, Decomposes, d
  <2>2. DOMAIN steps = 1..Len(d) /\ Len(d) \in Nat
    BY <1>2, <1>5, <2>1
  <2>3. Len(steps) = Len(d)
    BY <1>3, <2>2
  <2>4. Len(d) # 1
    BY <2>1, <2>2
  <2> HIDE DEF n, kind
  <2> QED
    BY <2>3, <2>4
<1> QED
  BY <1>6, <1>7 DEF CandidateSuits, steps

(* Every candidate of a supported node suits it.                           *)
LEMMA CandidatesSuit ==
  ASSUME NEW node, Lowerable(node), Supported(node),
         \A a \in Range(repository) : a \in ArtifactsOf(options)
  PROVE  \A c \in Range(Candidates(node)) : CandidateSuits(node, c)
<1>1. CASE node.op = "Flatten"
  <2> DEFINE view == [default |-> TRUE, steps |-> <<>>, temporaries |-> <<>>]
  <2>1. Candidates(node) = <<view>>
    BY <1>1 DEF Candidates
  <2>2. Range(<<>>) = {} /\ view.steps = <<>>
    BY DEF Range
  <2>3. CandidateSuits(node, view)
    BY <2>2 DEF CandidateSuits
  <2> HIDE DEF view
  <2>4. Range(<<view>>) = {view}
    BY DEF Range
  <2> QED
    BY <2>1, <2>3, <2>4
<1>2. CASE node.op # "Flatten"
  <2> DEFINE matching == Matching(node)
             all == Candidates(node)
  <2>1. matching # <<>> /\ matching \in Seq(Artifact)
    BY <1>2, MatchingElements DEF Supported, Lowerable
  <2>2. /\ all \in Seq(Candidate)
        /\ \A k \in 1..Len(matching) : all[k] = Single(node, matching[k])
        /\ \A k \in DOMAIN all : k > Len(matching) => HasFallback(node) /\ all[k] = Fallback(node)
    BY <1>2, CandidatesAre
  <2>3. ASSUME NEW k \in DOMAIN all PROVE CandidateSuits(node, all[k])
    <3>1. CASE k > Len(matching)
      BY <2>1, <2>2, <3>1, FallbackSuits
    <3>2. CASE ~(k > Len(matching))
      <4>1. k \in 1..Len(matching) /\ DOMAIN matching = 1..Len(matching)
        <5> HIDE DEF matching, all
        <5>1. k \in 1..Len(all) /\ Len(matching) \in Nat
          BY <2>1, <2>2
        <5> QED
          BY <2>1, <3>2, <5>1
      <4>2. CandidateSuits(node, Single(node, matching[k]))
        BY <4>1, SingleSuits
      <4> QED
        BY <2>2, <4>1, <4>2
    <3> QED
      BY <3>1, <3>2
  <2> HIDE DEF all
  <2>4. \A c \in Range(all) : CandidateSuits(node, c)
    BY <2>3 DEF Range
  <2> QED
    BY <2>4 DEF all
<1> QED
  BY <1>1, <1>2

(* What suits a node by its first input suits what the step reads first,   *)
(* under descriptions that give that input the same kind, or any that      *)
(* inference accepts if the kernel takes all of those: the parts of a      *)
(* fused operator hand on tensors of that input's rank.                    *)
LEMMA TensorsSuit ==
  ASSUME NEW node \in Node, Len(node.ins) \in InputCounts(node.op),
         NEW kinds \in [Value -> Kind], Described(node, kinds),
         NEW step, StepOf(node, step),
         Suits(step.kernel, Len(step.ins), known[node.ins[1]]),
         \/ kinds = known
         \/ FirstKinds(step.kernel.op) \subseteq step.kernel.kinds
  PROVE  Suits(step.kernel, Len(step.ins), KindAt(kinds, node, step.ins[1]))
<1> DEFINE x == node.ins[1]
           n == Len(node.ins)
           args == KindsOf(node, kinds)
<1>1. node.ins \in Seq(Value) /\ node.out \in Value /\ n \in Nat
  BY DEF Node
<1>2. n >= 1
  BY <1>1 DEF InputCounts
<1>3. args[1] = kinds[x] /\ kinds[x] \in Kind
  <2>1. 1 \in 1..Len(node.ins) /\ x \in Value
    BY <1>1, <1>2
  <2> QED
    BY <2>1, KindsListed
<1>4. Accepts(node.op, args) /\ kinds[node.out] = OutputKind(node.op, args)
  BY DEF Described
<1> HIDE DEF args
<1>5. kinds[x] \in FirstKinds(node.op)
  <2>1. CASE node.op \in ConvLike \cup PoolLike
    <3>1. args[1] = "image"
      BY <1>4, <2>1 DEF Accepts, ConvLike, SameAsInput, Elementwise, GemmLike, PoolLike
    <3>2. FirstKinds(node.op) = {"image"}
      BY <2>1 DEF FirstKinds, ConvLike, PoolLike, GemmLike
    <3> QED
      BY <1>3, <3>1, <3>2
  <2>2. CASE node.op \in GemmLike
    <3>1. args[1] = "matrix"
      BY <1>4, <2>2 DEF Accepts, ConvLike, SameAsInput, Elementwise, GemmLike, PoolLike
    <3>2. FirstKinds(node.op) = {"matrix"}
      BY <2>2 DEF FirstKinds, ConvLike, PoolLike, GemmLike
    <3> QED
      BY <1>3, <3>1, <3>2
  <2>3. CASE node.op \notin ConvLike \cup PoolLike /\ node.op \notin GemmLike
    BY <1>3, <2>3 DEF FirstKinds
  <2> QED
    BY <2>1, <2>2, <2>3
<1>6. node.op \in FusedOps => kinds[node.out] = kinds[x]
  <2> SUFFICES ASSUME node.op \in FusedOps PROVE kinds[node.out] = kinds[x]
    OBVIOUS
  <2> HIDE DEF x
  <2>1. CASE node.op = "GemmGelu"
    <3>1. args[1] = "matrix"
      BY <1>4, <2>1 DEF Accepts, ConvLike, SameAsInput, Elementwise, GemmLike, PoolLike
    <3>2. OutputKind(node.op, args) = "matrix"
      BY <2>1 DEF OutputKind, GemmLike
    <3> QED
      BY <1>3, <1>4, <3>1, <3>2
  <2>2. CASE node.op # "GemmGelu"
    <3>1. node.op \notin GemmLike \cup {"Flatten"}
      BY <2>2 DEF FusedOps, GemmLike
    <3> QED
      BY <1>3, <1>4, <3>1 DEF OutputKind
  <2> QED
    BY <2>1, <2>2
<1>7. KindAt(kinds, node, step.ins[1]) = kinds[x]
  <2>1. CASE step.ins[1] = Operand(x)
    <3>1. Operand(x)[1] = "value" /\ Operand(x)[2] = x
      BY DEF Operand
    <3> QED
      BY <2>1, <3>1 DEF KindAt
  <2>2. CASE node.op \in FusedOps /\ step.ins[1][1] = "temporary"
    <3>1. "temporary" # "value"
      OBVIOUS
    <3> QED
      BY <1>6, <2>2, <3>1 DEF KindAt
  <2> QED
    BY <2>1, <2>2 DEF StepOf
<1>8. kinds[x] \in step.kernel.kinds
  <2>1. CASE kinds = known
    BY <2>1 DEF Suits
  <2>2. CASE FirstKinds(step.kernel.op) \subseteq step.kernel.kinds
    BY <1>5, <2>2 DEF StepOf
  <2> QED
    BY <2>1, <2>2
<1> HIDE DEF x
<1> QED
  BY <1>7, <1>8 DEF Suits

(* Every candidate of every op suits its node.                             *)
OpsSuit ==
  \A i \in DOMAIN ops : \A c \in Range(ops[i].candidates) : CandidateSuits(nodes[i], c)

(* Once the options are accepted the inputs are as the first profile has   *)
(* them.                                                                   *)
InputsDescribed ==
  stage \notin {"checks", "failed"} /\ options.profiles # <<>> =>
    \A v \in Inputs : known[v] = options.profiles[1].kinds[v]

(* Under the shapes of a profile that is planned every node is accepted.   *)
PlansInferred ==
  options.profiles # <<>> =>
    \A p \in DOMAIN plans : Inferred(nodes, AtProfile(known, p)).ok

(* What the selection of kernels relies on, and leaves.                    *)
SuitsInv ==
  /\ \E c \in Compilations : options = c.options
  /\ \A a \in Range(repository) : a \in ArtifactsOf(options)
  /\ Untouched(nodes, Inputs) /\ InputsDescribed /\ PlansInferred
  /\ stage \in {"load", "lower", "plan", "ok"} => status = "ok"
  /\ OpsSuit

(* That holds when a compilation begins.                                   *)
LEMMA SuitsStart ==
  ASSUME CompileInit, \A c \in Compilations : Untouched(c.graph.nodes, Inputs)
  PROVE  SuitsInv
<1>1. PICK c \in Compilations : nodes = c.graph.nodes /\ options = c.options
  BY DEF CompileInit
<1>2. stage = "checks" /\ repository = <<>> /\ ops = <<>> /\ plans = <<>>
  BY DEF CompileInit
<1>3. Range(<<>>) = {} /\ DOMAIN <<>> = {}
  BY DEF Range
<1> QED
  BY <1>1, <1>2, <1>3 DEF SuitsInv, InputsDescribed, OpsSuit, PlansInferred

(* A step that changes nothing of what it is about keeps it.               *)
LEMMA SuitsStay ==
  ASSUME SuitsInv, UNCHANGED <<vars, options, ops>>, PlansInferred',
         \A a \in Range(repository') : a \in ArtifactsOf(options),
         stage' \in {"load", "lower", "plan", "ok"} => stage \in {"load", "lower", "plan", "ok"},
         stage' \notin {"checks", "failed"} => stage \notin {"checks", "failed"}
  PROVE  SuitsInv'
<1>1. /\ nodes' = nodes /\ known' = known /\ options' = options /\ ops' = ops
      /\ status' = status
  BY DEF vars
<1>2. ArtifactsOf(options)' = ArtifactsOf(options)
  BY <1>1 DEF ArtifactsOf
<1>3. OpsSuit'
  BY <1>1 DEF SuitsInv, OpsSuit, CandidateSuits, Suits, DefaultsSuit, ArtifactsOf
<1>4. InputsDescribed'
  BY <1>1 DEF SuitsInv, InputsDescribed
<1> QED
  BY <1>1, <1>2, <1>3, <1>4 DEF SuitsInv, Untouched

(* Every step of a compilation keeps it.                                   *)
LEMMA SuitsStep ==
  ASSUME CompileInv, SuitsInv, [CompileNext]_compileVars
  PROVE  SuitsInv'
<1>1. \E c \in Compilations : options = c.options
  BY DEF SuitsInv
<1>7. UNCHANGED <<vars, options, plans>> => PlansInferred'
  BY DEF SuitsInv, PlansInferred, AtProfile, vars
<1>8. plans' = <<>> => PlansInferred'
  <2>1. DOMAIN <<>> = {}
    OBVIOUS
  <2> QED
    BY <2>1 DEF PlansInferred
<1>2. CASE CheckOptions
  <2>1. /\ UNCHANGED <<nodes, options, repository, ops, plans>>
        /\ stage' \in {"passes", "failed"}
    BY <1>2 DEF CheckOptions
  <2>2. ops' = <<>> /\ plans' = <<>>
    BY <1>2, <2>1 DEF CompileInv, StagesInOrder, CheckOptions
  <2>3. InputsDescribed'
    <3> SUFFICES ASSUME stage' = "passes", options.profiles # <<>>, NEW v \in Inputs
                 PROVE  known'[v] = options.profiles[1].kinds[v]
      BY <2>1 DEF InputsDescribed
    <3>1. known' = AtProfile(known, 1)
      BY <1>2 DEF CheckOptions
    <3>2. v \in Value
      BY CompilerAssumption
    <3> QED
      BY <3>1, <3>2 DEF AtProfile
  <2>4. OpsSuit'
    <3>1. DOMAIN ops' = {}
      BY <2>2
    <3> QED
      BY <3>1 DEF OpsSuit
  <2> QED
    BY <1>8, <2>1, <2>2, <2>3, <2>4 DEF SuitsInv, Untouched, ArtifactsOf
<1>3. CASE Optimize
  <2>1. /\ UNCHANGED <<options, repository, ops, plans>> /\ PassStep /\ stage = "passes"
        /\ stage' \in {"load", "failed", "passes"} /\ (stage' = "load" => status' = "ok")
    BY <1>3 DEF Optimize
  <2>2. ops' = <<>> /\ plans' = <<>>
    BY <2>1 DEF CompileInv, StagesInOrder
  <2>3. OpsSuit'
    <3>1. DOMAIN ops' = {}
      BY <2>2
    <3> QED
      BY <3>1 DEF OpsSuit
  <2>4. Untouched(nodes', Inputs) /\ \A v \in Inputs : known'[v] = known[v]
    BY <2>1, PassStepLeaves, CompilerAssumption DEF CompileInv, SuitsInv
  <2>5. InputsDescribed'
    BY <2>1, <2>4 DEF SuitsInv, InputsDescribed
  <2>6. Untouched(nodes, Inputs)'
    BY <2>4 DEF Untouched
  <2>7. ArtifactsOf(options)' = ArtifactsOf(options)
    BY <2>1 DEF ArtifactsOf
  <2> QED
    BY <1>8, <2>1, <2>2, <2>3, <2>5, <2>6, <2>7 DEF SuitsInv
<1>4. CASE LoadArtifacts
  <2>1. /\ UNCHANGED <<vars, options, ops, plans>> /\ stage = "load"
    BY <1>4 DEF LoadArtifacts
  <2>2. \A a \in Range(repository') : a \in ArtifactsOf(options)
    BY <1>4, LoadedFromPacks DEF CompileInv, SuitsInv
  <2> QED
    BY <1>7, <2>1, <2>2, SuitsStay
<1>5. CASE LowerNode
  <2>1. /\ UNCHANGED <<vars, options, repository, plans>> /\ stage = "lower"
        /\ stage' \in {"lower", "failed"}
    BY <1>5 DEF LowerNode
  <2>2. CASE UNCHANGED ops
    BY <1>7, <2>1, <2>2, SuitsStay DEF SuitsInv
  <2>3. CASE ~UNCHANGED ops
    <3> DEFINE n == Len(ops) + 1
               node == nodes[n]
               all == Candidates(node)
               op == [candidates |-> all, selected |-> Selected(all)]
    <3>1. Supported(node) /\ ops' = Append(ops, op) /\ Len(ops) < Len(nodes)
      BY <1>5, <2>3 DEF LowerNode
    <3>2. ops \in Seq(OpSet) /\ Len(ops) \in Nat /\ Len(nodes) \in Nat /\ n \in DOMAIN nodes
      BY <3>1 DEF CompileInv, OpsGood, Typed
    <3>3. Lowerable(node)
      BY <2>1, <3>2 DEF CompileInv, Lowerable, Typed, StagesInOrder, WellFormed
    <3>4. \A c \in Range(all) : CandidateSuits(node, c)
      BY <3>1, <3>3, CandidatesSuit DEF SuitsInv
    <3>5. op \in OpSet
      BY <3>1, <3>3, LoweredOpIsGood DEF OpGood
    <3>6. op.candidates = all
      OBVIOUS
    <3> HIDE DEF op, all
    <3>7. /\ DOMAIN ops' = 1..n /\ ops'[n] = op /\ DOMAIN ops = 1..Len(ops)
          /\ \A i \in 1..Len(ops) : ops'[i] = ops[i]
      BY <3>1, <3>2, <3>5
    <3>8. \A i \in 1..n : i = n \/ i \in 1..Len(ops)
      BY <3>2
    <3>9. \A i \in DOMAIN ops' : \A c \in Range(ops'[i].candidates) : CandidateSuits(nodes[i], c)
      <4>1. ASSUME NEW i \in 1..n, NEW c \in Range(ops'[i].candidates)
            PROVE  CandidateSuits(nodes[i], c)
        <5>1. CASE i = n
          BY <3>4, <3>6, <3>7, <5>1
        <5>2. CASE i \in 1..Len(ops)
          BY <3>7, <5>2 DEF SuitsInv, OpsSuit
        <5> QED
          BY <3>8, <5>1, <5>2
      <4> QED
        BY <3>7, <4>1
    <3>10. nodes' = nodes /\ known' = known /\ options' = options /\ status' = status
      BY <2>1 DEF vars
    <3>11. OpsSuit'
      BY <3>9, <3>10 DEF OpsSuit, CandidateSuits, Suits, DefaultsSuit, ArtifactsOf
    <3> QED
      BY <1>7, <2>1, <3>10, <3>11 DEF SuitsInv, InputsDescribed, Untouched, ArtifactsOf
  <2> QED
    BY <2>2, <2>3
<1>6. CASE StartPlanning \/ PlanMemory \/ ReturnPlan \/ UNCHANGED compileVars
  <2>1. /\ UNCHANGED <<vars, options, ops, repository>>
        /\ stage' = stage \/ stage \in {"lower", "plan"}
    BY <1>6 DEF StartPlanning, PlanMemory, ReturnPlan, compileVars
  <2>2. PlansInferred'
    <3>1. CASE UNCHANGED plans
      BY <1>7, <2>1, <3>1
    <3>2. CASE ~UNCHANGED plans
      <4> DEFINE p == Len(plans) + 1
      <4>1. /\ options.profiles # <<>> => Inferred(nodes, AtProfile(known, p)).ok
            /\ \E planned \in PlannedBytes : plans' = Append(plans, WithTemporaries(p, planned))
        BY <1>6, <3>2 DEF StartPlanning, PlanMemory, ReturnPlan, compileVars
      <4>2. plans \in Seq(PlanSet)
        BY DEF CompileInv, PlansGood
      <4>3. DOMAIN plans' \subseteq DOMAIN plans \cup {p}
        <5> SUFFICES ASSUME NEW planned, plans' = Append(plans, WithTemporaries(p, planned))
                     PROVE  DOMAIN plans' \subseteq DOMAIN plans \cup {p}
          BY <4>1
        <5> DEFINE plan == WithTemporaries(p, planned)
        <5> HIDE DEF plan
        <5> QED
          BY <4>2 DEF plan
      <4> QED
        BY <2>1, <4>1, <4>3 DEF SuitsInv, PlansInferred, AtProfile, vars
    <3> QED
      BY <3>1, <3>2
  <2> QED
    BY <2>1, <2>2, SuitsStay DEF SuitsInv
<1> QED
  BY <1>2, <1>3, <1>4, <1>5, <1>6 DEF CompileNext, Returned

(* Once the passes are "ok" the nodes are in order and the descriptions    *)
(* are consistent.                                                         *)
LEMMA PassesDescribe ==
  ASSUME GraphInv, RunsInv, PassesDone, status = "ok"
  PROVE  OneProducer(nodes) /\ InOrder(nodes) /\ Consistent(nodes, known)
<1>1. Left = 0
  BY DEF PassesDone, Left
<1>2. All \in Nat /\ All >= 11
  <2>1. CASE EnableTransformerFusions
    BY <2>1 DEF All, Pipeline
  <2>2. CASE ~EnableTransformerFusions
    BY <2>2 DEF All, Pipeline
  <2> QED
    BY <2>1, <2>2 DEF GraphAssumption
<1> QED
  BY <1>1, <1>2 DEF RunsInv

(* Every plan but a static graph's is one of a profile.                    *)
LEMMA PlansOfProfiles ==
  ASSUME CompileInv, NEW c \in Compilations, options = c.options, options.profiles # <<>>
  PROVE  DOMAIN plans \subseteq DOMAIN options.profiles
<1> DEFINE profiles == options.profiles
           P == [valid : BOOLEAN, kinds : [Inputs -> Kind]]
<1>1. profiles \in Seq(P)
  BY DEF CompileInv, Typed, Options
<1> HIDE DEF profiles, P
<1>2. Len(profiles) \in Nat /\ Len(profiles) # 0 /\ DOMAIN profiles = 1..Len(profiles)
  BY <1>1, EmptySeq DEF profiles
<1> DEFINE S == {1, Len(profiles)}
<1>3. Len(options.bytes) = Max(S)
  BY CompilerAssumption DEF profiles
<1>4. Max(S) \in S /\ \A y \in S : y <= Max(S)
  <2>1. S \in SUBSET Int /\ S # {}
    BY <1>2
  <2>2. IsFiniteSet(S)
    <3>1. {} \cup {1} = {1} /\ {1} \cup {Len(profiles)} = S
      OBVIOUS
    <3>2. IsFiniteSet({1})
      BY <3>1, FS_EmptySet, FS_AddElement
    <3> QED
      BY <3>1, <3>2, FS_AddElement
  <2> HIDE DEF S
  <2> QED
    BY <2>1, <2>2, MaxFinite
<1>5. Max(S) = Len(profiles)
  BY <1>2, <1>4
<1>6. /\ Len(plans) \in Nat /\ Len(plans) <= Len(options.bytes)
      /\ DOMAIN plans = 1..Len(plans)
  BY DEF CompileInv, PlansGood
<1> HIDE DEF S
<1> QED
  BY <1>2, <1>3, <1>5, <1>6 DEF profiles

(* A profile describes every value with a kind.                            *)
LEMMA ProfileTyped ==
  ASSUME Typed, NEW p \in DOMAIN options.profiles
  PROVE  AtProfile(known, p) \in [Value -> Kind]
<1> DEFINE P == [valid : BOOLEAN, kinds : [Inputs -> Kind]]
<1>1. options.profiles \in Seq(P) /\ known \in [Value -> Kind]
  BY DEF Typed, Options
<1>2. options.profiles[p] \in P
  <2> DEFINE profiles == options.profiles
  <2> HIDE DEF profiles, P
  <2>1. profiles \in Seq(P) /\ p \in DOMAIN profiles
    BY <1>1 DEF profiles
  <2>2. profiles[p] \in P
    BY <2>1
  <2> QED
    BY <2>2 DEF profiles
<1>3. options.profiles[p].kinds \in [Inputs -> Kind]
  BY <1>2
<1> QED
  BY <1>1, <1>3 DEF AtProfile

(* A profile of the first one's ranks describes what is described already. *)
LEMMA ProfileKeeps ==
  ASSUME Typed, SuitsInv, stage = "ok", NEW p \in DOMAIN options.profiles,
         options.profiles[p].kinds = options.profiles[1].kinds
  PROVE  AtProfile(known, p) = known
<1>1. options.profiles # <<>>
  <2>1. DOMAIN <<>> = {}
    OBVIOUS
  <2> QED
    BY <2>1
<1>2. \A v \in Inputs : known[v] = options.profiles[p].kinds[v]
  BY <1>1 DEF SuitsInv, InputsDescribed
<1>3. known = [v \in Value |-> known[v]]
  BY DEF Typed
<1>4. \A v \in Value : (IF v \in Inputs THEN options.profiles[p].kinds[v] ELSE known[v]) = known[v]
  BY <1>2
<1> QED
  BY <1>3, <1>4 DEF AtProfile

(* The descriptions under a planned profile are consistent too, and those  *)
(* of the compilation if the profile has the first one's ranks.            *)
LEMMA KindsDescribe ==
  ASSUME CompileInv, PassesRun, SuitsInv, stage = "ok", NEW p \in DOMAIN plans
  PROVE  /\ KindsAt(p) \in [Value -> Kind] /\ Consistent(nodes, KindsAt(p))
         /\ FirstRanks(p) => KindsAt(p) = known
<1>1. nodes \in Seq(Node) /\ known \in [Value -> Kind] /\ Typed
  BY DEF CompileInv, Typed
<1>2. OneProducer(nodes) /\ InOrder(nodes) /\ Consistent(nodes, known)
  BY PassesDescribe DEF PassesRun, SuitsInv
<1>3. CASE options.profiles = <<>>
  BY <1>1, <1>2, <1>3 DEF KindsAt
<1>4. CASE options.profiles # <<>>
  <2> DEFINE kinds == AtProfile(known, p)
  <2>1. p \in DOMAIN options.profiles
    BY <1>4, PlansOfProfiles DEF SuitsInv
  <2>2. kinds \in [Value -> Kind] /\ Inferred(nodes, kinds).ok
    BY <1>1, <1>4, <2>1, ProfileTyped DEF SuitsInv, PlansInferred
  <2>3. FirstRanks(p) => kinds = known
    BY <1>1, <1>4, <2>1, ProfileKeeps DEF FirstRanks
  <2>4. KindsAt(p) = Inferred(nodes, kinds).known
    BY <1>4 DEF KindsAt
  <2> HIDE DEF kinds
  <2>5. KindsAt(p) \in [Value -> Kind]
    BY <1>1, <2>2, <2>4, InferredResult DEF Found
  <2>6. Consistent(nodes, KindsAt(p))
    BY <1>1, <1>2, <2>2, <2>4, InferenceDescribes
  <2>7. FirstRanks(p) => KindsAt(p) = known
    <3>1. Inferred(nodes, known).known = known
      BY <1>1, <1>2, StableInference
    <3> QED
      BY <2>3, <2>4, <3>1
  <2> QED
    BY <2>5, <2>6, <2>7
<1> QED
  BY <1>3, <1>4

(* The invariants imply that a plan's kernels suit its tensors.            *)
LEMMA SuitsImplied ==
  ASSUME CompileInv, PassesRun, SuitsInv
  PROVE  KernelsSuitTensors
<1>1. SUFFICES ASSUME stage = "ok", NEW p \in DOMAIN plans, NEW i \in DOMAIN ops,
                      NEW c \in Range(ops[i].candidates), NEW step \in Range(c.steps),
                      FirstRanks(p) \/ FirstKinds(step.kernel.op) \subseteq step.kernel.kinds,
                      Len(c.steps) = 1 \/ DefaultsSuit(options)
               PROVE  Suits(step.kernel, Len(step.ins), KindAt(KindsAt(p), nodes[i], step.ins[1]))
  BY DEF KernelsSuitTensors
<1>2. nodes \in Seq(Node) /\ WellFormed(nodes) /\ i \in DOMAIN nodes
  <2>1. ops \in Seq(OpSet) /\ Len(ops) \in Nat /\ Len(ops) <= Len(nodes) /\ Typed
    BY DEF CompileInv, OpsGood
  <2>2. nodes \in Seq(Node) /\ Len(nodes) \in Nat
    BY <2>1 DEF Typed
  <2>3. i \in DOMAIN nodes
    BY <2>1, <2>2
  <2> QED
    BY <1>1, <2>2, <2>3 DEF CompileInv, StagesInOrder
<1>3. nodes[i] \in Node /\ Len(nodes[i].ins) \in InputCounts(nodes[i].op)
  BY <1>2 DEF WellFormed
<1>4. /\ StepOf(nodes[i], step)
      /\ Suits(step.kernel, Len(step.ins), known[nodes[i].ins[1]])
  BY <1>1 DEF SuitsInv, OpsSuit, CandidateSuits
<1>5. /\ KindsAt(p) \in [Value -> Kind] /\ Consistent(nodes, KindsAt(p))
      /\ FirstRanks(p) => KindsAt(p) = known
  BY <1>1, KindsDescribe
<1>6. Described(nodes[i], KindsAt(p))
  BY <1>2, <1>5 DEF Consistent
<1> QED
  BY <1>1, <1>3, <1>4, <1>5, <1>6, TensorsSuit

(* In every plan Compile returns, of well-made graphs whose nodes compute  *)
(* no input, and whatever the packs and the profiles, every kernel that a  *)
(* candidate may run is for the device and takes its step's tensors, under *)
(* the shapes of every profile, except in the two cases the property       *)
(* names: a decomposition of packs whose default variants do not suit the  *)
(* fused kernels, and a profile of other ranks than the first one's, if    *)
(* the kernel asks for ranks that inference does not.                      *)
THEOREM KernelsSuit ==
  ASSUME \A c \in Compilations :
           WellMade(c.graph.nodes) /\ Untouched(c.graph.nodes, Inputs)
  PROVE  CompileSpec => []KernelsSuitTensors
<1>1. CompileInit /\ CompileInv => PassesRun /\ SuitsInv
  BY PassesRunStart, SuitsStart DEF CompileInv
<1>2. CompileInv /\ CompileInv' /\ PassesRun /\ SuitsInv /\ [CompileNext]_compileVars
        => PassesRun' /\ SuitsInv'
  BY PassesRunStep, SuitsStep DEF CompileInv
<1>3. CompileInv /\ PassesRun /\ SuitsInv => KernelsSuitTensors
  BY SuitsImplied
<1> QED
  BY <1>1, <1>2, <1>3, CompileInvariant, PTL DEF CompileSpec
=============================================================================
