------------------------- MODULE KernelLaunchProofs --------------------------
(***************************************************************************)
(* Theorems about KernelLaunch for any models, shapes and kernel variants. *)
(***************************************************************************)
EXTENDS KernelLaunch, BasicLemmas, SequenceTheorems

(* What fits int64_t is what a computation in it is left with.             *)
LEMMA Int64Fits ==
  ASSUME NEW value \in 0..Int64Max
  PROVE  Int64(value) = value
<1>1. Int64Max \in Nat \ {0}
  BY WidthAssumption
<1>2. (value + Int64Max + 1) % (2 * (Int64Max + 1)) = value + Int64Max + 1
  <2>1. /\ value + Int64Max + 1 \in Int /\ 2 * (Int64Max + 1) \in Nat \ {0}
        /\ value + Int64Max + 1 \in 0..(2 * (Int64Max + 1) - 1)
        /\ value + Int64Max + 1 = 0 * (2 * (Int64Max + 1)) + (value + Int64Max + 1)
    BY <1>1
  <2> QED
    BY <2>1, DivisionUnique
<1> QED
  BY <1>1, <1>2 DEF Int64

(* Division towards zero.                                                  *)
LEMMA TowardsZeroGrows ==
  ASSUME NEW a \in Int, NEW b \in Int, a <= b, NEW n \in Nat \ {0}
  PROVE  Quotient(a, n) <= Quotient(b, n) /\ Quotient(a, n) \in Int /\ Quotient(b, n) \in Int
<1>1. ASSUME NEW c \in Int PROVE c \div n \in Int /\ (c >= 0 => c \div n >= 0)
  <2>1. c \div n \in Int
    OBVIOUS
  <2>2. c >= 0 => 0 \div n <= c \div n
    BY QuotientGrows
  <2>3. 0 \div n = 0
    BY DivisionUnique
  <2> QED
    BY <2>1, <2>2, <2>3
<1>2. CASE a >= 0
  BY <1>1, <1>2, QuotientGrows DEF Quotient
<1>3. CASE a < 0 /\ b >= 0
  <2>1. -a \in Int /\ -a >= 0
    BY <1>3
  <2>2. (-a) \div n >= 0 /\ (-a) \div n \in Int
    BY <1>1, <2>1
  <2> QED
    BY <1>1, <1>3, <2>2 DEF Quotient
<1>4. CASE b < 0
  <2>1. -a \in Int /\ -b \in Int /\ -b <= -a
    BY <1>4
  <2>2. (-b) \div n <= (-a) \div n /\ (-b) \div n \in Int /\ (-a) \div n \in Int
    BY <1>1, <2>1, QuotientGrows
  <2> QED
    BY <1>4, <2>2 DEF Quotient
<1> QED
  BY <1>2, <1>3, <1>4

-----------------------------------------------------------------------------
(* What the functions over a shape compute, dimension by dimension.        *)

(* Elements counted up to every axis, 0 once there is none or too many.    *)
Counts(shape, count) ==
  /\ count \in [0..Len(shape) -> 0..Int64Max] /\ count[0] = 1
  /\ \A i \in 1..Len(shape) :
       count[i] = IF shape[i] <= 0 \/ count[i - 1] > Int64Max \div shape[i] THEN 0
                  ELSE count[i - 1] * shape[i]

(* NumElements is the last of them.                                        *)
LEMMA NumElementsUnfolds ==
  ASSUME NEW shape \in Seq(Int)
  PROVE  \E count : /\ Counts(shape, count)
                    /\ NumElements(shape) = IF shape = <<>> THEN 0 ELSE count[Len(shape)]
<1> DEFINE n == Len(shape)
           A == 0..Int64Max
           After(i, c) == IF shape[i] <= 0 \/ c > Int64Max \div shape[i] THEN 0 ELSE c * shape[i]
           G == [p \in (1..n) \X A |-> After(p[1], p[2])]
           Recursive(g) ==
             g = [i \in 0..n |->
                   IF i = 0 THEN 1
                   ELSE IF shape[i] <= 0 \/ g[i - 1] > Int64Max \div shape[i] THEN 0
                   ELSE g[i - 1] * shape[i]]
           count == CHOOSE g : Recursive(g)
<1>1. NumElements(shape) = IF shape = <<>> THEN 0 ELSE count[n]
  BY DEF NumElements
<1>2. n \in Nat /\ 1 \in A /\ Int64Max \in Nat /\ \A i \in 1..n : shape[i] \in Int
  BY WidthAssumption
<1>3. ASSUME NEW i \in 1..n, NEW c \in A PROVE After(i, c) \in A
  <2>1. CASE shape[i] <= 0 \/ c > Int64Max \div shape[i]
    BY <2>1, <1>2
  <2>2. CASE ~(shape[i] <= 0 \/ c > Int64Max \div shape[i])
    <3>1. c \in Nat /\ shape[i] \in Nat \ {0} /\ c <= Int64Max \div shape[i]
      BY <1>2, <2>2
    <3>2. c * shape[i] <= Int64Max /\ c * shape[i] \in Nat
      BY <1>2, <3>1, DivisionBounds, ProductBound
    <3> QED
      BY <2>2, <3>2, <1>2
  <2> QED
    BY <2>1, <2>2
<1>4. PICK f \in [0..n -> A] : Unfolds(f, 1, n, G)
  <2>1. G \in [(1..n) \X A -> A]
    <3> HIDE DEF After, A
    <3> QED
      BY <1>3
  <2> HIDE DEF G, A
  <2> QED
    BY <1>2, <2>1, RecursiveFunction
<1>5. \A i \in 0..n : f[i] = IF i = 0 THEN 1 ELSE After(i, f[i - 1])
  <2>1. ASSUME NEW i \in 0..n PROVE f[i] = IF i = 0 THEN 1 ELSE G[<<i, f[i - 1]>>]
    BY <1>4 DEF Unfolds
  <2>2. ASSUME NEW i \in 1..n PROVE G[<<i, f[i - 1]>>] = After(i, f[i - 1])
    <3>1. f[i - 1] \in A
      <4>1. i - 1 \in 0..n
        BY <1>2
      <4> HIDE DEF n, After
      <4> QED
        BY <4>1
    <3> HIDE DEF A, After
    <3> QED
      BY <3>1
  <2>3. \A i \in 0..n : i # 0 => i \in 1..n
    BY <1>2
  <2> HIDE DEF G, After
  <2> QED
    BY <2>1, <2>2, <2>3
<1>6. Recursive(f)
  BY <1>5
<1>7. Recursive(count)
  <2> HIDE DEF Recursive
  <2> QED
    BY <1>6
<1>8. count[0] = 1 /\ \A i \in 1..n : count[i] = After(i, count[i - 1])
  <2>1. \A i \in 0..n : count[i] = IF i = 0 THEN 1 ELSE After(i, count[i - 1])
    <3> HIDE DEF count, n
    <3> QED
      BY <1>7
  <2>2. 0 \in 0..n /\ \A i \in 1..n : i \in 0..n /\ i # 0
    BY <1>2
  <2> HIDE DEF Recursive, G, count, After
  <2> QED
    BY <2>1, <2>2, Zenon
<1>9. DOMAIN count = 0..n
  <2> HIDE DEF count, n
  <2> QED
    BY <1>7
<1> HIDE DEF Recursive, G, count
<1>10. \A i \in 0..n : count[i] \in A
  <2>1. ASSUME NEW i \in 1..n, count[i - 1] \in A PROVE count[i] \in A
    BY <1>3, <1>8, <2>1, Zenon
  <2> HIDE DEF A, After
  <2> QED
    BY <1>2, <1>8, <2>1, RangeByInduction
<1>11. count \in [0..n -> A]
  <2>1. count = [i \in 0..n |-> count[i]]
    <3> HIDE DEF n, After, A
    <3> QED
      BY <1>7 DEF Recursive
  <2> HIDE DEF A, After, n
  <2> QED
    BY <1>10, <2>1
<1>12. Counts(shape, count)
  BY <1>8, <1>11, Zenon DEF Counts
<1> QED
  BY <1>1, <1>12, Zenon

(* The same for what Volume multiplies.                                    *)
Volumes(shape, volume) ==
  /\ volume \in [0..Len(shape) -> Int] /\ volume[0] = 1
  /\ \A i \in 1..Len(shape) : volume[i] = volume[i - 1] * shape[i]

(* Volume is the last of them.                                             *)
LEMMA VolumeUnfolds ==
  ASSUME NEW shape \in Seq(Int)
  PROVE  \E volume : Volumes(shape, volume) /\ Volume(shape) = volume[Len(shape)]
<1> DEFINE n == Len(shape)
           After(i, c) == c * shape[i]
           G == [p \in (1..n) \X Int |-> After(p[1], p[2])]
           Recursive(g) == g = [i \in 0..n |-> IF i = 0 THEN 1 ELSE g[i - 1] * shape[i]]
           volume == CHOOSE g : Recursive(g)
<1>1. Volume(shape) = volume[n]
  BY DEF Volume
<1>2. n \in Nat /\ 1 \in Int /\ \A i \in 1..n : shape[i] \in Int
  OBVIOUS
<1>3. ASSUME NEW i \in 1..n, NEW c \in Int PROVE After(i, c) \in Int
  BY <1>2
<1>4. PICK f \in [0..n -> Int] : Unfolds(f, 1, n, G)
  <2>1. G \in [(1..n) \X Int -> Int]
    <3> HIDE DEF After
    <3> QED
      BY <1>3
  <2> HIDE DEF G
  <2> QED
    BY <1>2, <2>1, RecursiveFunction
<1>5. \A i \in 0..n : f[i] = IF i = 0 THEN 1 ELSE After(i, f[i - 1])
  <2>1. ASSUME NEW i \in 0..n PROVE f[i] = IF i = 0 THEN 1 ELSE G[<<i, f[i - 1]>>]
    BY <1>4 DEF Unfolds
  <2>2. ASSUME NEW i \in 1..n PROVE G[<<i, f[i - 1]>>] = After(i, f[i - 1])
    <3>1. f[i - 1] \in Int
      <4>1. i - 1 \in 0..n
        BY <1>2
      <4> HIDE DEF n, After
      <4> QED
        BY <4>1
    <3> HIDE DEF After
    <3> QED
      BY <3>1
  <2>3. \A i \in 0..n : i # 0 => i \in 1..n
    BY <1>2
  <2> HIDE DEF G, After
  <2> QED
    BY <2>1, <2>2, <2>3
<1>6. Recursive(f)
  BY <1>5
<1>7. Recursive(volume)
  <2> HIDE DEF Recursive
  <2> QED
    BY <1>6
<1>8. volume[0] = 1 /\ \A i \in 1..n : volume[i] = After(i, volume[i - 1])
  <2>1. \A i \in 0..n : volume[i] = IF i = 0 THEN 1 ELSE After(i, volume[i - 1])
    <3> HIDE DEF volume, n
    <3> QED
      BY <1>7
  <2>2. 0 \in 0..n /\ \A i \in 1..n : i \in 0..n /\ i # 0
    BY <1>2
  <2> HIDE DEF Recursive, G, volume, After
  <2> QED
    BY <2>1, <2>2, Zenon
<1> HIDE DEF G, volume
<1>9. \A i \in 0..n : volume[i] \in Int
  <2>1. ASSUME NEW i \in 1..n, volume[i - 1] \in Int PROVE volume[i] \in Int
    <3> HIDE DEF After, Recursive
    <3> QED
      BY <1>3, <1>8, <2>1
  <2> HIDE DEF After, Recursive
  <2> QED
    BY <1>2, <1>8, <2>1, RangeByInduction
<1>10. volume \in [0..n -> Int]
  <2>1. volume = [i \in 0..n |-> volume[i]]
    <3> HIDE DEF n, After
    <3> QED
      BY <1>7 DEF Recursive
  <2> HIDE DEF After, n
  <2> QED
    BY <1>9, <2>1
<1>11. Volumes(shape, volume)
  BY <1>8, <1>10, Zenon DEF Volumes
<1> QED
  BY <1>1, <1>11, Zenon

(* The same for Product: partial products of the axes from first on.       *)
Products(shape, first, end, value) ==
  /\ value \in [0..end -> Int] /\ value[0] = 1
  /\ \A i \in 1..end :
       value[i] = IF i < first THEN 1
                  ELSE IF shape[i] <= 0 THEN 0 ELSE Int64(value[i - 1] * shape[i])

(* What is left of an integer is one.                                      *)
LEMMA Int64Typed ==
  ASSUME NEW value \in Int
  PROVE  Int64(value) \in Int
<1> DEFINE m == 2 * (Int64Max + 1)
<1>1. Int64Max \in Nat /\ m \in Nat \ {0}
  BY WidthAssumption
<1>2. value + Int64Max + 1 \in Int
  BY <1>1
<1> DEFINE v == value + Int64Max + 1
<1> HIDE DEF m, v
<1>3. v % m \in Int
  BY <1>1, <1>2 DEF v
<1> QED
  BY <1>1, <1>3 DEF Int64, m, v

(* Product is the last of them.                                            *)
LEMMA ProductUnfolds ==
  ASSUME NEW shape \in Seq(Int), NEW first \in Nat \ {0}, NEW end \in 0..Len(shape)
  PROVE  \E value : Products(shape, first, end, value) /\ Product(shape, first, end) = value[end]
<1> DEFINE n == end
           After(i, c) == IF i < first THEN 1
                          ELSE IF shape[i] <= 0 THEN 0 ELSE Int64(c * shape[i])
           G == [p \in (1..n) \X Int |-> After(p[1], p[2])]
           Recursive(g) ==
             g = [i \in 0..n |-> IF i < first THEN 1
                                 ELSE IF shape[i] <= 0 THEN 0 ELSE Int64(g[i - 1] * shape[i])]
           value == CHOOSE g : Recursive(g)
<1>1. Product(shape, first, end) = value[n]
  BY DEF Product
<1>2. n \in Nat /\ 1 \in Int /\ \A i \in 1..n : shape[i] \in Int
  OBVIOUS
<1>3. ASSUME NEW i \in 1..n, NEW c \in Int PROVE After(i, c) \in Int
  <2>1. c * shape[i] \in Int
    BY <1>2
  <2>2. Int64(c * shape[i]) \in Int
    BY <2>1, Int64Typed
  <2> QED
    BY <2>2
<1>4. PICK f \in [0..n -> Int] : Unfolds(f, 1, n, G)
  <2>1. G \in [(1..n) \X Int -> Int]
    <3> HIDE DEF After
    <3> QED
      BY <1>3
  <2> HIDE DEF G
  <2> QED
    BY <1>2, <2>1, RecursiveFunction
<1>5. \A i \in 0..n : f[i] = IF i = 0 THEN 1 ELSE After(i, f[i - 1])
  <2>1. ASSUME NEW i \in 0..n PROVE f[i] = IF i = 0 THEN 1 ELSE G[<<i, f[i - 1]>>]
    BY <1>4 DEF Unfolds
  <2>2. ASSUME NEW i \in 1..n PROVE G[<<i, f[i - 1]>>] = After(i, f[i - 1])
    <3>1. f[i - 1] \in Int
      <4>1. i - 1 \in 0..n
        BY <1>2
      <4> HIDE DEF n, After
      <4> QED
        BY <4>1
    <3> HIDE DEF After
    <3> QED
      BY <3>1
  <2>3. \A i \in 0..n : i # 0 => i \in 1..n
    BY <1>2
  <2> HIDE DEF G, After
  <2> QED
    BY <2>1, <2>2, <2>3
<1>6. Recursive(f)
  <2>1. \A i \in 0..n : f[i] = After(i, f[i - 1])
    <3>1. \A i \in 0..n : i = 0 => i < first
      OBVIOUS
    <3>2. \A i \in 0..n : i < first => After(i, f[i - 1]) = 1
      OBVIOUS
    <3> HIDE DEF After
    <3> QED
      BY <1>5, <3>1, <3>2
  <2> HIDE DEF n
  <2> QED
    BY <2>1
<1>7. Recursive(value)
  <2> HIDE DEF Recursive
  <2> QED
    BY <1>6
<1>8. value[0] = 1 /\ \A i \in 1..n : value[i] = After(i, value[i - 1])
  <2>1. \A i \in 0..n : value[i] = After(i, value[i - 1])
    <3> HIDE DEF value, n
    <3> QED
      BY <1>7
  <2>2. 0 \in 0..n /\ \A i \in 1..n : i \in 0..n
    BY <1>2
  <2>3. After(0, value[0 - 1]) = 1
    <3> HIDE DEF value
    <3> QED
      OBVIOUS
  <2> HIDE DEF Recursive, G, value, After
  <2> QED
    BY <2>1, <2>2, <2>3, Zenon
<1> HIDE DEF G, value
<1>9. \A i \in 0..n : value[i] \in Int
  <2>1. ASSUME NEW i \in 1..n, value[i - 1] \in Int PROVE value[i] \in Int
    <3> HIDE DEF After, Recursive
    <3> QED
      BY <1>3, <1>8, <2>1
  <2> HIDE DEF After, Recursive
  <2> QED
    BY <1>2, <1>8, <2>1, RangeByInduction
<1>10. value \in [0..n -> Int]
  <2>1. value = [i \in 0..n |-> value[i]]
    <3> HIDE DEF n, After
    <3> QED
      BY <1>7 DEF Recursive
  <2> HIDE DEF After, n
  <2> QED
    BY <1>9, <2>1
<1>11. Products(shape, first, end, value)
  BY <1>8, <1>10, Zenon DEF Products
<1> QED
  BY <1>1, <1>11, Zenon
-----------------------------------------------------------------------------
(* What an inference returns: typed descriptions.                          *)

(* A node's windows can be counted.                                        *)
Windowed(node, strides) ==
  /\ strides \in Seq(Nat \ {0}) /\ Len(strides) = 2
  /\ Pads(node) \in Seq(Int) /\ Len(Pads(node)) = 4
  /\ Dilations(node) \in Seq(Int) /\ Len(Dilations(node)) = 2

(* What a typed node's attributes are.                                     *)
LEMMA AttributesTyped ==
  ASSUME NEW node, TypedNode(node)
  PROVE  /\ Pads(node) \in Seq(Int) /\ Dilations(node) \in Seq(Int)
         /\ PoolKernel(node) \in Seq(Int)
         /\ Strides(node) \in Seq(Nat \ {0}) /\ PoolStrides(node) \in Seq(Nat \ {0})
         /\ \A key, default : default \in Int => IntAttribute(node, key, default) \in Int
<1>1. \A key \in DOMAIN node.lists : node.lists[key] \in Seq(Int)
  BY DEF TypedNode
<1>2. <<0, 0, 0, 0>> \in Seq(Int) /\ <<1, 1>> \in Seq(Int)
  OBVIOUS
<1>3. Pads(node) \in Seq(Int) /\ Dilations(node) \in Seq(Int) /\ PoolKernel(node) \in Seq(Int)
  BY <1>1, <1>2, Zenon DEF Pads, Dilations, PoolKernel, ListAttribute
<1>4. Strides(node) \in Seq(Nat \ {0}) /\ PoolStrides(node) \in Seq(Nat \ {0})
  BY DEF TypedNode
<1>5. \A key, default : default \in Int => IntAttribute(node, key, default) \in Int
  BY DEF TypedNode, IntAttribute
<1> QED
  BY <1>3, <1>4, <1>5

(* There are more windows on a larger image.                               *)
LEMMA WindowsGrow ==
  ASSUME NEW node, NEW strides, Windowed(node, strides), NEW axis \in 1..2,
         NEW small \in Int, NEW large \in Int, small <= large, NEW kernel \in Int
  PROVE  /\ Windows(node, strides, small, kernel, axis) \in Int
         /\ Windows(node, strides, large, kernel, axis) \in Int
         /\ Windows(node, strides, small, kernel, axis)
              <= Windows(node, strides, large, kernel, axis)
<1> DEFINE n == strides[axis]
           p == Pads(node)[axis]
           q == Pads(node)[axis + 2]
           e == Dilations(node)[axis] * (kernel - 1) + 1
           a == small + p + q - e
           b == large + p + q - e
<1>0. axis = 1 \/ axis = 2
  OBVIOUS
<1>1. n \in Nat \ {0} /\ p \in Int /\ q \in Int
  <2>1. strides[1] \in Nat \ {0} /\ strides[2] \in Nat \ {0}
    BY TwoElements DEF Windowed
  <2>2. \A i \in 1..4 : Pads(node)[i] \in Int
    BY FourElements DEF Windowed
  <2>3. axis \in 1..4 /\ axis + 2 \in 1..4
    BY <1>0
  <2> QED
    BY <1>0, <2>1, <2>2, <2>3, Zenon
<1>2. e \in Int
  <2>1. Dilations(node)[axis] \in Int
    <3>1. Dilations(node)[1] \in Int /\ Dilations(node)[2] \in Int
      BY TwoElements DEF Windowed
    <3> QED
      BY <1>0, <3>1, Zenon
  <2> QED
    BY <2>1
<1>3. /\ Windows(node, strides, small, kernel, axis) = Quotient(a, n) + 1
      /\ Windows(node, strides, large, kernel, axis) = Quotient(b, n) + 1
  BY DEF Windows
<1> HIDE DEF n, p, q, e
<1>4. a \in Int /\ b \in Int /\ a <= b
  BY <1>1, <1>2
<1> HIDE DEF a, b
<1>5. Quotient(a, n) <= Quotient(b, n) /\ Quotient(a, n) \in Int /\ Quotient(b, n) \in Int
  BY <1>1, <1>4, TowardsZeroGrows
<1> QED
  BY <1>3, <1>5

(* Convolution.                                                            *)
LEMMA InferredConv ==
  ASSUME NEW node, TypedNode(node), NEW x \in Desc, NEW w \in Desc,
         NEW r \in InferConvLike(node, x, w)
  PROVE  /\ r \in Desc /\ r.dtype = x.dtype /\ r.layout = x.layout /\ Valid(r)
         /\ Len(x.shape) = 4 /\ Len(w.shape) = 4 /\ Windowed(node, Strides(node))
         /\ Len(r.shape) = 4 /\ r.shape[1] = x.shape[1] /\ r.shape[2] = w.shape[1]
         /\ \A axis \in 1..2 :
              r.shape[axis + 2] = Windows(node, Strides(node), x.shape[axis + 2],
                                          w.shape[axis + 2], axis)
<1> DEFINE f == [axis \in 1..2 |-> Windows(node, Strides(node), x.shape[axis + 2],
                                           w.shape[axis + 2], axis)]
           shape == <<x.shape[1], w.shape[1]>> \o [axis \in 1..2 |-> f[axis]]
<1>1. Len(x.shape) = 4 /\ Len(w.shape) = 4 /\ Windowed(node, Strides(node))
  BY AttributesTyped DEF InferConvLike, Windowed
<1>2. r \in Checked([x EXCEPT !.shape = shape])
  BY DEF InferConvLike
<1>3. r = [x EXCEPT !.shape = shape] /\ Valid(r)
  <2> HIDE DEF shape
  <2> QED
    BY <1>2 DEF Checked
<1>4. x.shape \in Seq(Int) /\ w.shape \in Seq(Int)
  BY DEF Desc
<1>5. ASSUME NEW axis \in 1..2 PROVE f[axis] \in Int
  <2>1. \A i \in 1..4 : x.shape[i] \in Int /\ w.shape[i] \in Int
    BY <1>1, <1>4, FourElements
  <2>2. axis + 2 \in 1..4
    OBVIOUS
  <2>3. x.shape[axis + 2] \in Int /\ w.shape[axis + 2] \in Int
    BY <2>1, <2>2
  <2>4. f[axis] = Windows(node, Strides(node), x.shape[axis + 2], w.shape[axis + 2], axis)
    OBVIOUS
  <2>5. x.shape[axis + 2] <= x.shape[axis + 2]
    BY <2>3
  <2> HIDE DEF f
  <2> QED
    BY <1>1, <2>3, <2>4, <2>5, WindowsGrow
<1> HIDE DEF f
<1>6. x.shape[1] \in Int /\ w.shape[1] \in Int /\ f[1] \in Int /\ f[2] \in Int
  BY <1>1, <1>4, <1>5, FourElements
<1>7. /\ shape \in Seq(Int) /\ Len(shape) = 4 /\ shape[1] = x.shape[1] /\ shape[2] = w.shape[1]
      /\ \A axis \in 1..2 : shape[axis + 2] = f[axis]
  BY <1>6, FourDimensions
<1> HIDE DEF shape
<1>8. r \in Desc /\ r.shape = shape /\ r.dtype = x.dtype /\ r.layout = x.layout
  BY <1>3, <1>7 DEF Desc
<1>9. \A axis \in 1..2 : f[axis] = Windows(node, Strides(node), x.shape[axis + 2],
                                           w.shape[axis + 2], axis)
  BY DEF f
<1> QED
  BY <1>1, <1>3, <1>7, <1>8, <1>9

(* Pooling.                                                                *)
LEMMA InferredPool ==
  ASSUME NEW node, TypedNode(node), NEW x \in Desc, NEW r \in InferPool(node, x)
  PROVE  /\ r \in Desc /\ r.dtype = x.dtype /\ r.layout = x.layout /\ Valid(r)
         /\ Len(x.shape) = 4 /\ Windowed(node, PoolStrides(node))
         /\ PoolKernel(node) \in Seq(Int) /\ Len(PoolKernel(node)) = 2
         /\ Len(r.shape) = 4 /\ r.shape[1] = x.shape[1] /\ r.shape[2] = x.shape[2]
         /\ \A axis \in 1..2 :
              r.shape[axis + 2] = Windows(node, PoolStrides(node), x.shape[axis + 2],
                                          PoolKernel(node)[axis], axis)
<1> DEFINE f == [axis \in 1..2 |-> Windows(node, PoolStrides(node), x.shape[axis + 2],
                                           PoolKernel(node)[axis], axis)]
           shape == <<x.shape[1], x.shape[2]>> \o [axis \in 1..2 |-> f[axis]]
<1>1. /\ Len(x.shape) = 4 /\ Windowed(node, PoolStrides(node))
      /\ PoolKernel(node) \in Seq(Int) /\ Len(PoolKernel(node)) = 2
  BY AttributesTyped DEF InferPool, Windowed
<1>2. r \in Checked([x EXCEPT !.shape = shape])
  BY DEF InferPool
<1>3. r = [x EXCEPT !.shape = shape] /\ Valid(r)
  <2> HIDE DEF shape
  <2> QED
    BY <1>2 DEF Checked
<1>4. x.shape \in Seq(Int)
  BY DEF Desc
<1>5. ASSUME NEW axis \in 1..2 PROVE f[axis] \in Int
  <2>1. \A i \in 1..4 : x.shape[i] \in Int
    BY <1>1, <1>4, FourElements
  <2>2. axis + 2 \in 1..4 /\ (axis = 1 \/ axis = 2)
    OBVIOUS
  <2>3. PoolKernel(node)[1] \in Int /\ PoolKernel(node)[2] \in Int
    BY <1>1, TwoElements
  <2>4. x.shape[axis + 2] \in Int /\ PoolKernel(node)[axis] \in Int
    BY <2>1, <2>2, <2>3
  <2>5. f[axis] = Windows(node, PoolStrides(node), x.shape[axis + 2], PoolKernel(node)[axis], axis)
    OBVIOUS
  <2>6. x.shape[axis + 2] <= x.shape[axis + 2]
    BY <2>4
  <2> HIDE DEF f
  <2> QED
    BY <1>1, <2>4, <2>5, <2>6, WindowsGrow
<1> HIDE DEF f
<1>6. x.shape[1] \in Int /\ x.shape[2] \in Int /\ f[1] \in Int /\ f[2] \in Int
  BY <1>1, <1>4, <1>5, FourElements
<1>7. /\ shape \in Seq(Int) /\ Len(shape) = 4 /\ shape[1] = x.shape[1] /\ shape[2] = x.shape[2]
      /\ \A axis \in 1..2 : shape[axis + 2] = f[axis]
  BY <1>6, FourDimensions
<1> HIDE DEF shape
<1>8. r \in Desc /\ r.shape = shape /\ r.dtype = x.dtype /\ r.layout = x.layout
  BY <1>3, <1>7 DEF Desc
<1>9. \A axis \in 1..2 : f[axis] = Windows(node, PoolStrides(node), x.shape[axis + 2],
                                           PoolKernel(node)[axis], axis)
  BY DEF f
<1> QED
  BY <1>1, <1>3, <1>7, <1>8, <1>9

(* An output of one place per channel.                                     *)
LEMMA InferredAverage ==
  ASSUME NEW x \in Desc, NEW r \in InferGlobalAveragePool(x)
  PROVE  /\ r \in Desc /\ r.dtype = x.dtype /\ r.layout = x.layout
         /\ Len(x.shape) = 4 /\ r.shape = <<x.shape[1], x.shape[2], 1, 1>>
<1>1. Len(x.shape) = 4 /\ r = [x EXCEPT !.shape = <<x.shape[1], x.shape[2], 1, 1>>]
  BY DEF InferGlobalAveragePool
<1>2. x.shape[1] \in Int /\ x.shape[2] \in Int
  BY <1>1, FourElements DEF Desc
<1>3. <<x.shape[1], x.shape[2], 1, 1>> \in Seq(Int)
  BY <1>2
<1> QED
  BY <1>1, <1>3 DEF Desc

(* The axis at which Flatten parts a shape.                                *)
FlattenAxis(node, rank) ==
  IF IntAttribute(node, "axis", 1) < 0 THEN IntAttribute(node, "axis", 1) + rank
  ELSE IntAttribute(node, "axis", 1)

(* Products of the axes before it and of those behind.                     *)
LEMMA InferredFlatten ==
  ASSUME NEW node, TypedNode(node), NEW x \in Desc, NEW r \in InferFlatten(node, x)
  PROVE  LET axis == FlattenAxis(node, Len(x.shape))
         IN  /\ r \in Desc /\ r.dtype = x.dtype /\ r.layout = "" /\ Valid(r)
             /\ axis \in 0..Len(x.shape)
             /\ r.shape = <<Product(x.shape, 1, axis),
                            Product(x.shape, axis + 1, Len(x.shape))>>
<1> DEFINE rank == Len(x.shape)
           axis == FlattenAxis(node, rank)
           p == Product(x.shape, 1, axis)
           q == Product(x.shape, axis + 1, rank)
<1>1. axis \in 0..rank /\ r \in Checked([x EXCEPT !.layout = "", !.shape = <<p, q>>])
  BY DEF InferFlatten, FlattenAxis
<1>2. x.shape \in Seq(Int) /\ rank \in Nat
  <2>1. x.shape \in Seq(Int)
    BY DEF Desc
  <2>2. \A list \in Seq(Int) : Len(list) \in Nat
    OBVIOUS
  <2> QED
    BY <2>1, <2>2, Zenon
<1> HIDE DEF axis, rank
<1>3. p \in Int /\ q \in Int
  <2>1. axis + 1 \in Nat \ {0} /\ axis \in 0..rank /\ rank \in 0..rank /\ 1 \in Nat \ {0}
    BY <1>1, <1>2
  <2>2. PICK value : Products(x.shape, 1, axis, value) /\ p = value[axis]
    BY <1>2, <2>1, ProductUnfolds DEF rank
  <2>3. PICK other : Products(x.shape, axis + 1, rank, other) /\ q = other[rank]
    BY <1>2, <2>1, ProductUnfolds DEF rank
  <2>4. axis \in 0..axis /\ rank \in 0..rank
    BY <1>1, <1>2
  <2>5. value[axis] \in Int /\ other[rank] \in Int
    BY <2>2, <2>3, <2>4, Zenon DEF Products
  <2> QED
    BY <2>2, <2>3, <2>5
<1> HIDE DEF p, q
<1>4. r = [x EXCEPT !.layout = "", !.shape = <<p, q>>] /\ Valid(r)
  BY <1>1 DEF Checked
<1>5. <<p, q>> \in Seq(Int)
  BY <1>3
<1>6. r \in Desc /\ r.dtype = x.dtype /\ r.layout = "" /\ r.shape = <<p, q>>
  BY <1>4, <1>5 DEF Desc
<1> QED
  BY <1>1, <1>4, <1>6 DEF p, q, axis, rank

(* Matrix products.                                                        *)
LEMMA InferredGemm ==
  ASSUME NEW node, NEW args, args[1] \in Desc, args[2] \in Desc, NEW r \in InferGemm(node, args)
  PROVE  /\ r \in Desc /\ r.dtype = args[1].dtype /\ r.layout = "" /\ Valid(r)
         /\ Len(args[1].shape) = 2 /\ Len(args[2].shape) = 2
         /\ r.shape = <<Rows(args[1].shape, Transposed(node, "transA")),
                        Columns(args[2].shape, Transposed(node, "transB"))>>
<1> DEFINE a == args[1]
           b == args[2]
           m == Rows(a.shape, Transposed(node, "transA"))
           n == Columns(b.shape, Transposed(node, "transB"))
<1>1. /\ Len(a.shape) = 2 /\ Len(b.shape) = 2
      /\ r \in Checked([a EXCEPT !.shape = <<m, n>>, !.layout = ""])
  BY DEF InferGemm
<1>2. m \in Int /\ n \in Int
  <2>1. a.shape \in Seq(Int) /\ b.shape \in Seq(Int)
    BY DEF Desc
  <2>2. a.shape[1] \in Int /\ a.shape[2] \in Int /\ b.shape[1] \in Int /\ b.shape[2] \in Int
    BY <1>1, <2>1, TwoElements
  <2> QED
    BY <2>2 DEF Rows, Columns
<1> HIDE DEF m, n
<1>3. r = [a EXCEPT !.shape = <<m, n>>, !.layout = ""] /\ Valid(r)
  BY <1>1 DEF Checked
<1>4. <<m, n>> \in Seq(Int)
  BY <1>2
<1>5. r \in Desc /\ r.dtype = a.dtype /\ r.layout = "" /\ r.shape = <<m, n>>
  BY <1>3, <1>4 DEF Desc
<1> QED
  BY <1>1, <1>3, <1>5 DEF m, n

(* Every operator in turn.                                                 *)
LEMMA InferCases ==
  ASSUME NEW node, NEW args, NEW r \in Infer(node, args)
  PROVE  /\ Len(args) \in InputCounts(node.op)
         /\ \/ node.op \in ConvLike /\ r \in InferConvLike(node, args[1], args[2])
            \/ node.op \in GemmLike /\ r \in InferGemm(node, args)
            \/ node.op = "GlobalAveragePool" /\ r \in InferGlobalAveragePool(args[1])
            \/ node.op \in {"MaxPool", "AveragePool"} /\ r \in InferPool(node, args[1])
            \/ node.op = "Flatten" /\ r \in InferFlatten(node, args[1])
            \/ /\ node.op \notin ConvLike \cup GemmLike \cup PoolLike \cup {"Flatten"}
               /\ r = args[1]
<1> DEFINE conv == InferConvLike(node, args[1], args[2])
           gemm == InferGemm(node, args)
           average == InferGlobalAveragePool(args[1])
           pool == InferPool(node, args[1])
           flatten == InferFlatten(node, args[1])
           layer == InferLayerNormalization(node, args)
           skip == InferLayerNormalization(node, <<args[1], args[3], args[4]>>)
           pair == InferElementwise(args)
<1>1. Infer(node, args) =
        IF Len(args) \notin InputCounts(node.op) THEN {}
        ELSE CASE node.op \in ConvLike -> conv
               [] node.op \in SameAsInput -> {d \in {args[1]} : d.dtype # "unknown"}
               [] node.op \in Elementwise -> pair
               [] node.op \in GemmLike -> gemm
               [] node.op = "GlobalAveragePool" -> average
               [] node.op \in {"MaxPool", "AveragePool"} -> pool
               [] node.op = "Flatten" -> flatten
               [] node.op = "LayerNormalization" -> layer
               [] node.op = "SkipLayerNormalization" -> IF pair = {} THEN {} ELSE skip
  BY Zenon DEF Infer
<1>2. /\ \A e \in layer : e = args[1]
      /\ \A e \in pair : e = args[1]
      /\ \A e \in skip : e = <<args[1], args[3], args[4]>>[1]
  BY DEF InferLayerNormalization, InferElementwise
<1>3. <<args[1], args[3], args[4]>>[1] = args[1]
  OBVIOUS
<1>4. \A e \in skip : e = args[1]
  BY <1>2, <1>3, Zenon
<1> HIDE DEF conv, gemm, average, pool, flatten, layer, skip, pair
<1>5. Len(args) \in InputCounts(node.op)
  BY Zenon DEF Infer
<1>6. \/ node.op \in ConvLike \cup SameAsInput \cup Elementwise \cup GemmLike \cup PoolLike
      \/ node.op \in {"Flatten", "LayerNormalization", "SkipLayerNormalization"}
  BY <1>5 DEF InputCounts, ConvLike, SameAsInput, Elementwise, GemmLike, PoolLike
<1>7. \/ node.op \in ConvLike /\ r \in conv
      \/ node.op \in GemmLike /\ r \in gemm
      \/ node.op = "GlobalAveragePool" /\ r \in average
      \/ node.op \in {"MaxPool", "AveragePool"} /\ r \in pool
      \/ node.op = "Flatten" /\ r \in flatten
      \/ /\ node.op \notin ConvLike \cup GemmLike \cup PoolLike \cup {"Flatten"}
         /\ r = args[1]
  BY <1>1, <1>2, <1>4, <1>5, <1>6 DEF ConvLike, SameAsInput, Elementwise, GemmLike, PoolLike
<1> QED
  BY <1>5, <1>7, Zenon DEF conv, gemm, average, pool, flatten

(* An inference describes its output like its first input.                 *)
LEMMA InferTyped ==
  ASSUME NEW node, TypedNode(node), NEW args, \A k \in DOMAIN args : args[k] \in Desc,
         DOMAIN args = 1..Len(args), Len(args) \in Nat
  PROVE  \A r \in Infer(node, args) : r \in Desc
<1> SUFFICES ASSUME NEW r \in Infer(node, args) PROVE r \in Desc
  OBVIOUS
<1>1. Len(args) \in InputCounts(node.op)
  BY InferCases, Zenon
<1>2. Len(args) >= 1 /\ (node.op \in ConvLike \cup GemmLike => Len(args) >= 2)
  BY <1>1 DEF InputCounts, ConvLike, GemmLike, Elementwise, PoolLike
<1>3. args[1] \in Desc /\ (node.op \in ConvLike \cup GemmLike => args[2] \in Desc)
  <2>1. 1 \in DOMAIN args
    BY <1>2
  <2>2. node.op \in ConvLike \cup GemmLike => 2 \in DOMAIN args
    BY <1>2
  <2> QED
    BY <2>1, <2>2
<1>4. CASE node.op \in ConvLike /\ r \in InferConvLike(node, args[1], args[2])
  BY <1>3, <1>4, InferredConv
<1>5. CASE node.op \in GemmLike /\ r \in InferGemm(node, args)
  BY <1>3, <1>5, InferredGemm
<1>6. CASE r \in InferGlobalAveragePool(args[1])
  BY <1>3, <1>6, InferredAverage
<1>7. CASE r \in InferPool(node, args[1])
  BY <1>3, <1>7, InferredPool
<1>8. CASE r \in InferFlatten(node, args[1])
  BY <1>3, <1>8, InferredFlatten
<1>9. CASE r = args[1]
  BY <1>3, <1>9
<1> QED
  BY <1>4, <1>5, <1>6, <1>7, <1>8, <1>9, InferCases, Zenon
-----------------------------------------------------------------------------
(* Counting, for a shape that has elements.                                *)

(* Nothing overflowed on the way, and every dimension is positive.         *)
LEMMA CountsPositive ==
  ASSUME NEW shape \in Seq(Int), NumElements(shape) # 0
  PROVE  /\ \A i \in 1..Len(shape) : shape[i] \in Nat \ {0}
         /\ \E count \in [0..Len(shape) -> 1..Int64Max] :
              /\ count[0] = 1 /\ NumElements(shape) = count[Len(shape)]
              /\ \A i \in 1..Len(shape) : count[i] = count[i - 1] * shape[i]
<1> DEFINE n == Len(shape)
<1>1. PICK count : /\ Counts(shape, count)
                   /\ NumElements(shape) = IF shape = <<>> THEN 0 ELSE count[n]
  BY NumElementsUnfolds
<1>2. /\ count[0] = 1 /\ NumElements(shape) = count[n] /\ count[n] # 0
      /\ \A i \in 1..n :
           count[i] = IF shape[i] <= 0 \/ count[i - 1] > Int64Max \div shape[i] THEN 0
                      ELSE count[i - 1] * shape[i]
  BY <1>1, Zenon DEF Counts
<1>3. n \in Nat /\ Int64Max \in Nat /\ \A i \in 1..n : shape[i] \in Int
  BY WidthAssumption
<1>4. \A i \in 0..n : count[i] \in 0..Int64Max
  BY <1>1, Zenon DEF Counts
<1> HIDE DEF n
<1>5. ASSUME NEW i \in 1..n, count[i] # 0
      PROVE  /\ shape[i] \in Nat \ {0} /\ count[i] = count[i - 1] * shape[i]
             /\ count[i - 1] # 0
  <2>1. shape[i] \in Nat \ {0} /\ count[i] = count[i - 1] * shape[i]
    BY <1>2, <1>3, <1>5
  <2>2. count[i - 1] = 0 => count[i] = 0
    <3>1. 0 * shape[i] = 0
      BY <2>1
    <3> QED
      BY <2>1, <3>1
  <2> QED
    BY <1>5, <2>1, <2>2
<1>6. ASSUME NEW j \in 1..n PROVE count[n] = 0 \/ count[j - 1] # 0
  <2> DEFINE S == {d \in Nat : d <= n => count[n - d] # 0}
  <2>1. 0 \in S
    BY <1>2, <1>3
  <2>2. ASSUME NEW d \in Nat, d \in S PROVE d + 1 \in S
    <3> SUFFICES ASSUME d + 1 <= n PROVE count[n - (d + 1)] # 0
      OBVIOUS
    <3>1. n - d \in 1..n /\ count[n - d] # 0 /\ (n - d) - 1 = n - (d + 1)
      BY <1>3, <2>2
    <3> QED
      BY <1>5, <3>1
  <2>3. Nat \subseteq S
    <3> HIDE DEF S
    <3> QED
      BY <2>1, <2>2, SetInduction
  <2>4. n - j + 1 \in Nat /\ n - j + 1 <= n /\ n - (n - j + 1) = j - 1
    BY <1>3
  <2> QED
    BY <2>3, <2>4
<1>7. \A i \in 0..n : count[i] # 0
  <2> SUFFICES ASSUME NEW i \in 0..n PROVE count[i] # 0
    OBVIOUS
  <2>1. i = n \/ (i + 1 \in 1..n /\ (i + 1) - 1 = i)
    BY <1>3
  <2> QED
    BY <1>2, <1>6, <2>1
<1>8. \A i \in 1..n : i \in 0..n /\ count[i] # 0
  BY <1>3, <1>7
<1>9. \A i \in 1..n : shape[i] \in Nat \ {0} /\ count[i] = count[i - 1] * shape[i]
  BY <1>5, <1>8
<1>10. \A i \in 0..n : count[i] \in 1..Int64Max
  BY <1>3, <1>4, <1>7
<1>11. count \in [0..n -> 1..Int64Max]
  <2>1. DOMAIN count = 0..n /\ count = [i \in DOMAIN count |-> count[i]]
    BY <1>1 DEF Counts, n
  <2> QED
    BY <1>10, <2>1
<1> QED
  BY <1>2, <1>9, <1>11, Zenon DEF n

(* NumElements is the volume of such a shape.                              *)
LEMMA ElementsAreVolume ==
  ASSUME NEW shape \in Seq(Int), NumElements(shape) # 0
  PROVE  NumElements(shape) = Volume(shape) /\ NumElements(shape) \in 1..Int64Max
<1> DEFINE n == Len(shape)
<1>1. PICK count \in [0..n -> 1..Int64Max] :
        /\ count[0] = 1 /\ NumElements(shape) = count[n]
        /\ \A i \in 1..n : count[i] = count[i - 1] * shape[i]
  BY CountsPositive
<1>2. PICK volume : Volumes(shape, volume) /\ Volume(shape) = volume[n]
  BY VolumeUnfolds
<1>3. n \in Nat
  OBVIOUS
<1>4. volume[0] = 1 /\ \A i \in 1..n : volume[i] = volume[i - 1] * shape[i]
  BY <1>2, Zenon DEF Volumes
<1> HIDE DEF n
<1> DEFINE S == {i \in Nat : i <= n => count[i] = volume[i]}
<1>5. 0 \in S
  BY <1>1, <1>4
<1>6. ASSUME NEW i \in Nat, i \in S PROVE i + 1 \in S
  <2> SUFFICES ASSUME i + 1 <= n PROVE count[i + 1] = volume[i + 1]
    OBVIOUS
  <2>1. i + 1 \in 1..n /\ (i + 1) - 1 = i /\ count[i] = volume[i]
    BY <1>3, <1>6
  <2>2. count[i + 1] = count[i] * shape[i + 1] /\ volume[i + 1] = volume[i] * shape[i + 1]
    BY <1>1, <1>4, <2>1
  <2> QED
    BY <2>1, <2>2
<1>7. n \in S
  <2> HIDE DEF S
  <2> QED
    BY <1>3, <1>5, <1>6, SetInduction
<1>8. count[n] \in 1..Int64Max
  BY <1>3
<1> QED
  BY <1>1, <1>2, <1>3, <1>7, <1>8 DEF n

(* A dimension of the one shape is that of the other, or less and positive.*)
WithinShape(a, b) ==
  /\ Len(a) = Len(b) /\ DOMAIN a = DOMAIN b
  /\ \A i \in DOMAIN b : a[i] = b[i] \/ (0 < a[i] /\ a[i] <= b[i])

(* The smaller shape has no more elements.                                 *)
LEMMA VolumeGrows ==
  ASSUME NEW a \in Seq(Int), NEW b \in Seq(Int), WithinShape(a, b), NumElements(b) # 0
  PROVE  Volume(a) \in Nat /\ Volume(a) <= Volume(b)
<1> DEFINE n == Len(b)
<1>1. n \in Nat /\ Len(a) = n /\ DOMAIN b = 1..n
  BY DEF WithinShape
<1>2. PICK f : Volumes(a, f) /\ Volume(a) = f[n]
  BY <1>1, VolumeUnfolds
<1>3. PICK g : Volumes(b, g) /\ Volume(b) = g[n]
  BY VolumeUnfolds
<1>4. /\ f[0] = 1 /\ \A i \in 1..n : f[i] = f[i - 1] * a[i]
      /\ g[0] = 1 /\ \A i \in 1..n : g[i] = g[i - 1] * b[i]
  BY <1>1, <1>2, <1>3, Zenon DEF Volumes
<1>5. \A i \in 1..n : a[i] \in Nat /\ b[i] \in Nat /\ a[i] <= b[i]
  <2>1. \A i \in 1..n : b[i] \in Nat \ {0}
    BY CountsPositive
  <2>2. \A i \in 1..n : a[i] \in Int
    BY <1>1
  <2>3. \A i \in 1..n : a[i] = b[i] \/ (0 < a[i] /\ a[i] <= b[i])
    BY <1>1, Zenon DEF WithinShape
  <2> HIDE DEF n
  <2> QED
    BY <2>1, <2>2, <2>3
<1> HIDE DEF n
<1> DEFINE S == {i \in Nat : i <= n => f[i] \in Nat /\ g[i] \in Nat /\ f[i] <= g[i]}
<1>6. 0 \in S
  BY <1>4
<1>7. ASSUME NEW i \in Nat, i \in S PROVE i + 1 \in S
  <2> SUFFICES ASSUME i + 1 <= n
               PROVE  f[i + 1] \in Nat /\ g[i + 1] \in Nat /\ f[i + 1] <= g[i + 1]
    OBVIOUS
  <2>1. i + 1 \in 1..n /\ (i + 1) - 1 = i /\ f[i] \in Nat /\ g[i] \in Nat /\ f[i] <= g[i]
    BY <1>1, <1>7
  <2>2. f[i + 1] = f[i] * a[i + 1] /\ g[i + 1] = g[i] * b[i + 1]
    BY <1>4, <2>1
  <2>3. a[i + 1] \in Nat /\ b[i + 1] \in Nat /\ a[i + 1] <= b[i + 1]
    BY <1>5, <2>1
  <2>4. /\ f[i] * a[i + 1] <= g[i] * b[i + 1]
        /\ f[i] * a[i + 1] \in Nat /\ g[i] * b[i + 1] \in Nat
    BY <2>1, <2>3, ProductGrows
  <2> QED
    BY <2>2, <2>4, Zenon
<1>8. n \in S
  <2> HIDE DEF S
  <2> QED
    BY <1>1, <1>6, <1>7, SetInduction
<1> QED
  BY <1>1, <1>2, <1>3, <1>8

(* Nor has any run of its axes, and none of their products overflows.      *)
LEMMA ProductWithin ==
  ASSUME NEW a \in Seq(Int), NEW b \in Seq(Int), WithinShape(a, b), NumElements(b) # 0,
         NEW first \in Nat \ {0}, NEW end \in 0..Len(b)
  PROVE  /\ Product(a, first, end) \in Nat \ {0} /\ Product(b, first, end) \in 1..Int64Max
         /\ Product(a, first, end) <= Product(b, first, end)
<1> DEFINE n == Len(b)
<1>1. n \in Nat /\ Len(a) = n /\ DOMAIN b = 1..n /\ end \in 0..n /\ Int64Max \in Nat
  BY WidthAssumption DEF WithinShape
<1>2. PICK f : Products(a, first, end, f) /\ Product(a, first, end) = f[end]
  BY <1>1, ProductUnfolds
<1>3. PICK g : Products(b, first, end, g) /\ Product(b, first, end) = g[end]
  BY <1>1, ProductUnfolds
<1>4. PICK count \in [0..n -> 1..Int64Max] :
        /\ count[0] = 1 /\ \A i \in 1..n : count[i] = count[i - 1] * b[i]
  BY CountsPositive
<1>5. /\ f[0] = 1 /\ g[0] = 1
      /\ \A i \in 1..end :
           /\ f[i] = IF i < first THEN 1 ELSE IF a[i] <= 0 THEN 0 ELSE Int64(f[i - 1] * a[i])
           /\ g[i] = IF i < first THEN 1 ELSE IF b[i] <= 0 THEN 0 ELSE Int64(g[i - 1] * b[i])
  BY <1>2, <1>3, Zenon DEF Products
<1>6. \A i \in 1..n : a[i] \in Nat \ {0} /\ b[i] \in Nat \ {0} /\ a[i] <= b[i]
  <2>1. \A i \in 1..n : b[i] \in Nat \ {0}
    BY CountsPositive
  <2>2. \A i \in 1..n : a[i] \in Int
    BY <1>1
  <2>3. \A i \in 1..n : a[i] = b[i] \/ (0 < a[i] /\ a[i] <= b[i])
    BY <1>1, Zenon DEF WithinShape
  <2> HIDE DEF n
  <2> QED
    BY <2>1, <2>2, <2>3
<1> HIDE DEF n
<1> DEFINE Ordered(i) == /\ f[i] \in Nat \ {0} /\ g[i] \in Nat \ {0}
                         /\ f[i] <= g[i] /\ g[i] <= count[i]
           S == {i \in Nat : i <= end => Ordered(i)}
<1>7. 0 \in S
  BY <1>4, <1>5
<1>8. ASSUME NEW i \in Nat, i \in S PROVE i + 1 \in S
  <2> SUFFICES ASSUME i + 1 <= end PROVE Ordered(i + 1)
    OBVIOUS
  <2> DEFINE k == i + 1
  <2>1. /\ k \in 1..end /\ k \in 1..n /\ k - 1 = i /\ k \in 0..n /\ i \in 0..n
        /\ Ordered(i)
    BY <1>1, <1>8
  <2> HIDE DEF k
  <2>2. /\ f[k] = IF k < first THEN 1 ELSE IF a[k] <= 0 THEN 0 ELSE Int64(f[i] * a[k])
        /\ g[k] = IF k < first THEN 1 ELSE IF b[k] <= 0 THEN 0 ELSE Int64(g[i] * b[k])
        /\ count[k] = count[i] * b[k] /\ count[k] \in 1..Int64Max /\ count[i] \in 1..Int64Max
    BY <1>4, <1>5, <2>1
  <2>3. a[k] \in Nat \ {0} /\ b[k] \in Nat \ {0} /\ a[k] <= b[k]
    BY <1>6, <2>1
  <2>4. CASE k < first
    BY <1>1, <2>2, <2>4 DEF k
  <2>5. CASE ~(k < first)
    <3>1. f[k] = Int64(f[i] * a[k]) /\ g[k] = Int64(g[i] * b[k])
      BY <2>2, <2>3, <2>5
    <3> DEFINE p == f[i] * a[k]
               q == g[i] * b[k]
    <3>2. p \in Nat /\ q \in Nat /\ p <= q
      BY <2>1, <2>3, ProductGrows
    <3>3. q <= count[k]
      <4>1. g[i] * b[k] <= count[i] * b[k]
        BY <2>1, <2>2, <2>3, ProductGrows
      <4> QED
        BY <2>2, <4>1
    <3>4. p > 0
      <4>1. f[i] \in Nat /\ f[i] > 0 /\ a[k] \in Nat \ {0}
        BY <2>1, <2>3
      <4>2. f[i] * a[k] > 0
        BY <4>1, ProductBound, Zenon
      <4> QED
        BY <4>2
    <3> HIDE DEF p, q
    <3>5. p \in 0..Int64Max /\ q \in 0..Int64Max
      <4>1. \A x, y, z, m \in Nat : x <= y /\ y <= z /\ z \in 1..m => x \in 0..m /\ y \in 0..m
        OBVIOUS
      <4>2. count[k] \in Nat
        BY <2>2
      <4> QED
        BY <1>1, <2>2, <3>2, <3>3, <4>1, <4>2, Zenon
    <3>6. f[k] = p /\ g[k] = q
      BY <3>1, <3>5, Int64Fits DEF p, q
    <3> QED
      BY <3>2, <3>3, <3>4, <3>6 DEF k
  <2> QED
    BY <2>4, <2>5
<1>9. end \in S
  <2> HIDE DEF S
  <2>1. Nat \subseteq S
    BY <1>7, <1>8, SetInduction
  <2> QED
    BY <1>1, <2>1
<1>10. Ordered(end) /\ count[end] \in 1..Int64Max
  BY <1>1, <1>9
<1> QED
  BY <1>1, <1>2, <1>3, <1>10
-----------------------------------------------------------------------------
(* Inference is monotone.                                                  *)

(* A dimension that is another one, or less and positive.                  *)
WithinSize(x, y) == x = y \/ (0 < x /\ x <= y)

(* A description that differs from another in smaller dimensions only.     *)
Within(x, y) == x.dtype = y.dtype /\ x.layout = y.layout /\ WithinShape(x.shape, y.shape)

(* Dimension by dimension, for two and for four.                           *)
LEMMA TwoWithin ==
  ASSUME NEW a \in Seq(Int), NEW b \in Seq(Int), Len(a) = 2, Len(b) = 2,
         WithinSize(a[1], b[1]), WithinSize(a[2], b[2])
  PROVE  WithinShape(a, b)
<1>1. \A i \in DOMAIN b : i = 1 \/ i = 2
  BY TwoElements
<1>2. Len(a) = Len(b) /\ DOMAIN a = DOMAIN b
  OBVIOUS
<1>3. \A i \in DOMAIN b : WithinSize(a[i], b[i])
  BY <1>1, Zenon
<1> QED
  BY <1>2, <1>3, Zenon DEF WithinShape, WithinSize

(* Four.                                                                   *)
LEMMA FourWithin ==
  ASSUME NEW a \in Seq(Int), NEW b \in Seq(Int), Len(a) = 4, Len(b) = 4,
         WithinSize(a[1], b[1]), WithinSize(a[2], b[2]),
         WithinSize(a[3], b[3]), WithinSize(a[4], b[4])
  PROVE  WithinShape(a, b)
<1>1. \A i \in DOMAIN b : i = 1 \/ i = 2 \/ i = 3 \/ i = 4
  OBVIOUS
<1>2. Len(a) = Len(b) /\ DOMAIN a = DOMAIN b
  OBVIOUS
<1>3. \A i \in DOMAIN b : WithinSize(a[i], b[i])
  BY <1>1, Zenon
<1> QED
  BY <1>2, <1>3, Zenon DEF WithinShape, WithinSize

(* And back.                                                               *)
LEMMA WithinSizes ==
  ASSUME NEW a, NEW b, WithinShape(a, b), NEW i \in DOMAIN b
  PROVE  WithinSize(a[i], b[i])
BY DEF WithinShape, WithinSize

(* A valid description's dimensions are positive.                          *)
LEMMA ValidPositive ==
  ASSUME NEW r \in Desc, Valid(r), NEW i \in DOMAIN r.shape
  PROVE  r.shape[i] > 0
BY DEF Valid

(* Fewer windows fit, but one does.                                        *)
LEMMA WindowsWithin ==
  ASSUME NEW node, NEW strides, Windowed(node, strides), NEW axis \in 1..2,
         NEW small \in Int, NEW large \in Int, WithinSize(small, large), NEW kernel \in Int,
         Windows(node, strides, small, kernel, axis) > 0
  PROVE  WithinSize(Windows(node, strides, small, kernel, axis),
                    Windows(node, strides, large, kernel, axis))
<1>1. small <= large
  BY DEF WithinSize
<1>2. Windows(node, strides, small, kernel, axis) <= Windows(node, strides, large, kernel, axis)
  BY <1>1, WindowsGrow
<1> QED
  BY <1>2, Zenon DEF WithinSize

(* Convolutions with the same weights.                                     *)
LEMMA ConvWithin ==
  ASSUME NEW node, TypedNode(node), NEW x \in Desc, NEW y \in Desc, NEW w \in Desc,
         Within(x, y), NEW r \in InferConvLike(node, x, w), NEW q \in InferConvLike(node, y, w)
  PROVE  Within(r, q)
<1>1. /\ r \in Desc /\ r.dtype = x.dtype /\ r.layout = x.layout /\ Valid(r)
      /\ Len(x.shape) = 4 /\ Len(w.shape) = 4 /\ Windowed(node, Strides(node))
      /\ Len(r.shape) = 4 /\ r.shape[1] = x.shape[1] /\ r.shape[2] = w.shape[1]
      /\ \A axis \in 1..2 :
           r.shape[axis + 2] = Windows(node, Strides(node), x.shape[axis + 2],
                                       w.shape[axis + 2], axis)
  BY InferredConv
<1>2. /\ q \in Desc /\ q.dtype = y.dtype /\ q.layout = y.layout
      /\ Len(y.shape) = 4
      /\ Len(q.shape) = 4 /\ q.shape[1] = y.shape[1] /\ q.shape[2] = w.shape[1]
      /\ \A axis \in 1..2 :
           q.shape[axis + 2] = Windows(node, Strides(node), y.shape[axis + 2],
                                       w.shape[axis + 2], axis)
  BY InferredConv
<1>3. /\ x.shape \in Seq(Int) /\ y.shape \in Seq(Int) /\ w.shape \in Seq(Int)
      /\ r.shape \in Seq(Int) /\ q.shape \in Seq(Int)
  BY <1>1, <1>2 DEF Desc
<1>4. \A i \in 1..4 : /\ x.shape[i] \in Int /\ y.shape[i] \in Int /\ w.shape[i] \in Int
                      /\ i \in DOMAIN y.shape /\ i \in DOMAIN r.shape
  BY <1>1, <1>2, <1>3, FourElements
<1>5. \A i \in 1..4 : WithinSize(x.shape[i], y.shape[i])
  BY <1>4, WithinSizes DEF Within
<1>6. ASSUME NEW axis \in 1..2 PROVE WithinSize(r.shape[axis + 2], q.shape[axis + 2])
  <2> DEFINE i == axis + 2
  <2>1. i \in 1..4
    OBVIOUS
  <2> HIDE DEF i
  <2>2. r.shape[i] > 0
    BY <1>1, <1>4, <2>1, ValidPositive
  <2>3. /\ r.shape[i] = Windows(node, Strides(node), x.shape[i], w.shape[i], axis)
        /\ q.shape[i] = Windows(node, Strides(node), y.shape[i], w.shape[i], axis)
    BY <1>1, <1>2 DEF i
  <2>4. /\ x.shape[i] \in Int /\ y.shape[i] \in Int /\ w.shape[i] \in Int
        /\ WithinSize(x.shape[i], y.shape[i])
    BY <1>4, <1>5, <2>1
  <2>5. WithinSize(r.shape[i], q.shape[i])
    BY <1>1, <2>2, <2>3, <2>4, WindowsWithin
  <2> QED
    BY <2>5 DEF i
<1>7. /\ WithinSize(r.shape[1], q.shape[1]) /\ WithinSize(r.shape[2], q.shape[2])
      /\ WithinSize(r.shape[3], q.shape[3]) /\ WithinSize(r.shape[4], q.shape[4])
  <2>1. 1 \in 1..4 /\ 1 \in 1..2 /\ 2 \in 1..2 /\ 1 + 2 = 3 /\ 2 + 2 = 4
    OBVIOUS
  <2>2. WithinSize(r.shape[1 + 2], q.shape[1 + 2]) /\ WithinSize(r.shape[2 + 2], q.shape[2 + 2])
    BY <1>6
  <2>3. WithinSize(r.shape[3], q.shape[3]) /\ WithinSize(r.shape[4], q.shape[4])
    BY <2>2
  <2>4. WithinSize(r.shape[2], q.shape[2])
    BY <1>1, <1>2 DEF WithinSize
  <2> QED
    BY <1>1, <1>2, <1>5, <2>1, <2>3, <2>4
<1>8. WithinShape(r.shape, q.shape)
  BY <1>1, <1>2, <1>3, <1>7, FourWithin
<1> QED
  BY <1>1, <1>2, <1>8 DEF Within

(* Poolings.                                                               *)
LEMMA PoolWithin ==
  ASSUME NEW node, TypedNode(node), NEW x \in Desc, NEW y \in Desc,
         Within(x, y), NEW r \in InferPool(node, x), NEW q \in InferPool(node, y)
  PROVE  Within(r, q)
<1>1. /\ r \in Desc /\ r.dtype = x.dtype /\ r.layout = x.layout /\ Valid(r)
      /\ Len(x.shape) = 4 /\ Windowed(node, PoolStrides(node))
      /\ PoolKernel(node) \in Seq(Int) /\ Len(PoolKernel(node)) = 2
      /\ Len(r.shape) = 4 /\ r.shape[1] = x.shape[1] /\ r.shape[2] = x.shape[2]
      /\ \A axis \in 1..2 :
           r.shape[axis + 2] = Windows(node, PoolStrides(node), x.shape[axis + 2],
                                       PoolKernel(node)[axis], axis)
  BY InferredPool
<1>2. /\ q \in Desc /\ q.dtype = y.dtype /\ q.layout = y.layout
      /\ Len(y.shape) = 4
      /\ Len(q.shape) = 4 /\ q.shape[1] = y.shape[1] /\ q.shape[2] = y.shape[2]
      /\ \A axis \in 1..2 :
           q.shape[axis + 2] = Windows(node, PoolStrides(node), y.shape[axis + 2],
                                       PoolKernel(node)[axis], axis)
  BY InferredPool
<1>3. /\ x.shape \in Seq(Int) /\ y.shape \in Seq(Int)
      /\ r.shape \in Seq(Int) /\ q.shape \in Seq(Int)
  BY <1>1, <1>2 DEF Desc
<1>4. \A i \in 1..4 : /\ x.shape[i] \in Int /\ y.shape[i] \in Int
                      /\ i \in DOMAIN y.shape /\ i \in DOMAIN r.shape
  BY <1>1, <1>2, <1>3, FourElements
<1>5. \A i \in 1..4 : WithinSize(x.shape[i], y.shape[i])
  BY <1>4, WithinSizes DEF Within
<1>6. ASSUME NEW axis \in 1..2 PROVE WithinSize(r.shape[axis + 2], q.shape[axis + 2])
  <2> DEFINE i == axis + 2
             kernel == PoolKernel(node)[axis]
  <2>1. i \in 1..4 /\ (axis = 1 \/ axis = 2)
    OBVIOUS
  <2>2. kernel \in Int
    <3>1. PoolKernel(node)[1] \in Int /\ PoolKernel(node)[2] \in Int
      BY <1>1, TwoElements
    <3> QED
      BY <2>1, <3>1
  <2> HIDE DEF i, kernel
  <2>3. r.shape[i] > 0
    BY <1>1, <1>4, <2>1, ValidPositive
  <2>4. /\ r.shape[i] = Windows(node, PoolStrides(node), x.shape[i], kernel, axis)
        /\ q.shape[i] = Windows(node, PoolStrides(node), y.shape[i], kernel, axis)
    BY <1>1, <1>2 DEF i, kernel
  <2>5. x.shape[i] \in Int /\ y.shape[i] \in Int /\ WithinSize(x.shape[i], y.shape[i])
    BY <1>4, <1>5, <2>1
  <2>6. WithinSize(r.shape[i], q.shape[i])
    BY <1>1, <2>2, <2>3, <2>4, <2>5, WindowsWithin
  <2> QED
    BY <2>6 DEF i
<1>7. /\ WithinSize(r.shape[1], q.shape[1]) /\ WithinSize(r.shape[2], q.shape[2])
      /\ WithinSize(r.shape[3], q.shape[3]) /\ WithinSize(r.shape[4], q.shape[4])
  <2>1. 1 \in 1..4 /\ 2 \in 1..4 /\ 1 \in 1..2 /\ 2 \in 1..2 /\ 1 + 2 = 3 /\ 2 + 2 = 4
    OBVIOUS
  <2>2. WithinSize(r.shape[1 + 2], q.shape[1 + 2]) /\ WithinSize(r.shape[2 + 2], q.shape[2 + 2])
    BY <1>6
  <2>3. WithinSize(r.shape[3], q.shape[3]) /\ WithinSize(r.shape[4], q.shape[4])
    BY <2>2
  <2> QED
    BY <1>1, <1>2, <1>5, <2>1, <2>3
<1>8. WithinShape(r.shape, q.shape)
  BY <1>1, <1>2, <1>3, <1>7, FourWithin
<1> QED
  BY <1>1, <1>2, <1>8 DEF Within

(* Averages.                                                               *)
LEMMA AverageWithin ==
  ASSUME NEW x \in Desc, NEW y \in Desc, Within(x, y),
         NEW r \in InferGlobalAveragePool(x), NEW q \in InferGlobalAveragePool(y)
  PROVE  Within(r, q)
<1>1. /\ r \in Desc /\ r.dtype = x.dtype /\ r.layout = x.layout /\ Len(x.shape) = 4
      /\ r.shape = <<x.shape[1], x.shape[2], 1, 1>>
  BY InferredAverage
<1>2. /\ q \in Desc /\ q.dtype = y.dtype /\ q.layout = y.layout /\ Len(y.shape) = 4
      /\ q.shape = <<y.shape[1], y.shape[2], 1, 1>>
  BY InferredAverage
<1>3. r.shape \in Seq(Int) /\ q.shape \in Seq(Int) /\ y.shape \in Seq(Int)
  BY <1>1, <1>2 DEF Desc
<1>4. WithinSize(x.shape[1], y.shape[1]) /\ WithinSize(x.shape[2], y.shape[2])
  <2>1. 1 \in DOMAIN y.shape /\ 2 \in DOMAIN y.shape
    BY <1>2, <1>3, FourElements
  <2> QED
    BY <2>1, WithinSizes DEF Within
<1>5. /\ r.shape[1] = x.shape[1] /\ r.shape[2] = x.shape[2] /\ r.shape[3] = 1 /\ r.shape[4] = 1
      /\ q.shape[1] = y.shape[1] /\ q.shape[2] = y.shape[2] /\ q.shape[3] = 1 /\ q.shape[4] = 1
  BY <1>1, <1>2
<1>6. Len(r.shape) = 4 /\ Len(q.shape) = 4
  BY <1>1, <1>2
<1>7. WithinSize(1, 1)
  BY DEF WithinSize
<1>8. WithinShape(r.shape, q.shape)
  BY <1>3, <1>4, <1>5, <1>6, <1>7, FourWithin
<1> QED
  BY <1>1, <1>2, <1>8 DEF Within

(* Flattened shapes, unless the larger one overflows.                      *)
LEMMA FlattenWithin ==
  ASSUME NEW node, TypedNode(node), NEW x \in Desc, NEW y \in Desc, Within(x, y),
         NumElements(y.shape) # 0,
         NEW r \in InferFlatten(node, x), NEW q \in InferFlatten(node, y)
  PROVE  Within(r, q)
<1> DEFINE rank == Len(y.shape)
           axis == FlattenAxis(node, rank)
<1>1. Len(x.shape) = rank /\ WithinShape(x.shape, y.shape)
  BY DEF Within, WithinShape
<1>2. /\ r \in Desc /\ r.dtype = x.dtype /\ r.layout = ""
      /\ r.shape = <<Product(x.shape, 1, axis), Product(x.shape, axis + 1, rank)>>
  BY <1>1, InferredFlatten
<1>3. /\ q \in Desc /\ q.dtype = y.dtype /\ q.layout = "" /\ axis \in 0..rank
      /\ q.shape = <<Product(y.shape, 1, axis), Product(y.shape, axis + 1, rank)>>
  BY InferredFlatten
<1>4. /\ r.shape \in Seq(Int) /\ q.shape \in Seq(Int)
      /\ x.shape \in Seq(Int) /\ y.shape \in Seq(Int)
  BY <1>2, <1>3 DEF Desc
<1>5. rank \in Nat
  <2>1. \A list \in Seq(Int) : Len(list) \in Nat
    OBVIOUS
  <2> QED
    BY <1>4, <2>1, Zenon
<1>6. axis \in 0..rank /\ rank \in 0..rank /\ 1 \in Nat \ {0} /\ axis + 1 \in Nat \ {0}
  <2>1. \A n \in Nat : n \in 0..n /\ \A k \in 0..n : k + 1 \in Nat \ {0}
    OBVIOUS
  <2>2. 1 \in Nat \ {0}
    OBVIOUS
  <2> QED
    BY <1>3, <1>5, <2>1, <2>2, Zenon
<1> HIDE DEF axis
<1>7. WithinSize(Product(x.shape, 1, axis), Product(y.shape, 1, axis))
  <2>1. /\ Product(x.shape, 1, axis) \in Nat \ {0} /\ Product(y.shape, 1, axis) \in 1..Int64Max
        /\ Product(x.shape, 1, axis) <= Product(y.shape, 1, axis)
    BY <1>1, <1>4, <1>6, ProductWithin, Zenon
  <2> QED
    BY <2>1 DEF WithinSize
<1>8. WithinSize(Product(x.shape, axis + 1, rank), Product(y.shape, axis + 1, rank))
  <2>1. /\ Product(x.shape, axis + 1, rank) \in Nat \ {0}
        /\ Product(y.shape, axis + 1, rank) \in 1..Int64Max
        /\ Product(x.shape, axis + 1, rank) <= Product(y.shape, axis + 1, rank)
    BY <1>1, <1>4, <1>6, ProductWithin, Zenon
  <2> HIDE DEF rank
  <2> QED
    BY <2>1 DEF WithinSize
<1>9. /\ r.shape[1] = Product(x.shape, 1, axis) /\ r.shape[2] = Product(x.shape, axis + 1, rank)
      /\ q.shape[1] = Product(y.shape, 1, axis) /\ q.shape[2] = Product(y.shape, axis + 1, rank)
      /\ Len(r.shape) = 2 /\ Len(q.shape) = 2
  <2> DEFINE p1 == Product(x.shape, 1, axis)
             p2 == Product(x.shape, axis + 1, rank)
             s1 == Product(y.shape, 1, axis)
             s2 == Product(y.shape, axis + 1, rank)
  <2>1. r.shape = <<p1, p2>> /\ q.shape = <<s1, s2>>
    BY <1>2, <1>3
  <2> HIDE DEF p1, p2, s1, s2
  <2>2. /\ r.shape[1] = p1 /\ r.shape[2] = p2 /\ Len(r.shape) = 2
        /\ q.shape[1] = s1 /\ q.shape[2] = s2 /\ Len(q.shape) = 2
    BY <2>1
  <2> QED
    BY <2>2 DEF p1, p2, s1, s2
<1>10. WithinShape(r.shape, q.shape)
  BY <1>4, <1>7, <1>8, <1>9, TwoWithin
<1> QED
  BY <1>2, <1>3, <1>10 DEF Within

(* Matrix products.                                                        *)
LEMMA GemmWithin ==
  ASSUME NEW node, NEW as, NEW bs,
         \A k \in 1..2 : as[k] \in Desc /\ bs[k] \in Desc /\ Within(as[k], bs[k]),
         NEW r \in InferGemm(node, as), NEW q \in InferGemm(node, bs)
  PROVE  Within(r, q)
<1> DEFINE ta == Transposed(node, "transA")
           tb == Transposed(node, "transB")
<1> HIDE DEF ta, tb
<1>1. /\ as[1] \in Desc /\ bs[1] \in Desc /\ Within(as[1], bs[1])
      /\ as[2] \in Desc /\ bs[2] \in Desc /\ Within(as[2], bs[2])
  <2>1. 1 \in 1..2 /\ 2 \in 1..2
    OBVIOUS
  <2> QED
    BY <2>1, Zenon
<1>2. /\ r \in Desc /\ r.dtype = as[1].dtype /\ r.layout = ""
      /\ r.shape = <<Rows(as[1].shape, ta), Columns(as[2].shape, tb)>>
  BY <1>1, InferredGemm DEF ta, tb
<1>3. /\ q \in Desc /\ q.dtype = bs[1].dtype /\ q.layout = ""
      /\ Len(bs[1].shape) = 2 /\ Len(bs[2].shape) = 2
      /\ q.shape = <<Rows(bs[1].shape, ta), Columns(bs[2].shape, tb)>>
  BY <1>1, InferredGemm DEF ta, tb
<1>4. /\ r.shape \in Seq(Int) /\ q.shape \in Seq(Int)
      /\ bs[1].shape \in Seq(Int) /\ bs[2].shape \in Seq(Int)
  BY <1>1, <1>2, <1>3 DEF Desc
<1>5. /\ WithinSize(as[1].shape[1], bs[1].shape[1]) /\ WithinSize(as[1].shape[2], bs[1].shape[2])
      /\ WithinSize(as[2].shape[1], bs[2].shape[1]) /\ WithinSize(as[2].shape[2], bs[2].shape[2])
  <2>1. /\ 1 \in DOMAIN bs[1].shape /\ 2 \in DOMAIN bs[1].shape
        /\ 1 \in DOMAIN bs[2].shape /\ 2 \in DOMAIN bs[2].shape
    <3>1. \A s \in Seq(Int) : Len(s) = 2 => 1 \in DOMAIN s /\ 2 \in DOMAIN s
      BY TwoElements
    <3> QED
      BY <1>3, <1>4, <3>1, Zenon
  <2> QED
    BY <1>1, <2>1, WithinSizes DEF Within
<1>6. /\ WithinSize(Rows(as[1].shape, ta), Rows(bs[1].shape, ta))
      /\ WithinSize(Columns(as[2].shape, tb), Columns(bs[2].shape, tb))
  BY <1>5, Zenon DEF Rows, Columns
<1>7. /\ r.shape[1] = Rows(as[1].shape, ta) /\ r.shape[2] = Columns(as[2].shape, tb)
      /\ q.shape[1] = Rows(bs[1].shape, ta) /\ q.shape[2] = Columns(bs[2].shape, tb)
      /\ Len(r.shape) = 2 /\ Len(q.shape) = 2
  <2> DEFINE p1 == Rows(as[1].shape, ta)
             p2 == Columns(as[2].shape, tb)
             s1 == Rows(bs[1].shape, ta)
             s2 == Columns(bs[2].shape, tb)
  <2>1. r.shape = <<p1, p2>> /\ q.shape = <<s1, s2>>
    BY <1>2, <1>3
  <2> HIDE DEF p1, p2, s1, s2
  <2>2. /\ r.shape[1] = p1 /\ r.shape[2] = p2 /\ Len(r.shape) = 2
        /\ q.shape[1] = s1 /\ q.shape[2] = s2 /\ Len(q.shape) = 2
    BY <2>1
  <2> QED
    BY <2>2 DEF p1, p2, s1, s2
<1>8. WithinShape(r.shape, q.shape)
  BY <1>4, <1>6, <1>7, TwoWithin
<1> QED
  BY <1>1, <1>2, <1>3, <1>8 DEF Within

(* An operator applied to smaller inputs has a smaller output.  This fails if*)
(* a convolution's weights grow, or if Flatten's products overflow.        *)
LEMMA InferWithin ==
  ASSUME NEW node, TypedNode(node), NEW as, NEW bs, NEW n \in Nat,
         Len(as) = n, DOMAIN as = 1..n, Len(bs) = n, DOMAIN bs = 1..n,
         \A k \in 1..n : as[k] \in Desc /\ bs[k] \in Desc /\ Within(as[k], bs[k]),
         node.op \in ConvLike => as[2] = bs[2],
         node.op = "Flatten" => NumElements(bs[1].shape) # 0,
         NEW r \in Infer(node, as), NEW q \in Infer(node, bs)
  PROVE  Within(r, q)
<1>1. n \in InputCounts(node.op)
  BY InferCases, Zenon
<1>2. n >= 1 /\ (node.op \in ConvLike \cup GemmLike => n >= 2)
  BY <1>1 DEF InputCounts, ConvLike, GemmLike, Elementwise, PoolLike
<1>3. 1 \in 1..n /\ (node.op \in ConvLike \cup GemmLike => \A k \in 1..2 : k \in 1..n)
  BY <1>2
<1>4. /\ as[1] \in Desc /\ bs[1] \in Desc /\ Within(as[1], bs[1])
      /\ node.op \in ConvLike \cup GemmLike =>
           \A k \in 1..2 : as[k] \in Desc /\ bs[k] \in Desc /\ Within(as[k], bs[k])
  BY <1>3, Zenon
<1> DEFINE Case(args, d) ==
      \/ node.op \in ConvLike /\ d \in InferConvLike(node, args[1], args[2])
      \/ node.op \in GemmLike /\ d \in InferGemm(node, args)
      \/ node.op = "GlobalAveragePool" /\ d \in InferGlobalAveragePool(args[1])
      \/ node.op \in {"MaxPool", "AveragePool"} /\ d \in InferPool(node, args[1])
      \/ node.op = "Flatten" /\ d \in InferFlatten(node, args[1])
      \/ /\ node.op \notin ConvLike \cup GemmLike \cup PoolLike \cup {"Flatten"}
         /\ d = args[1]
<1>5. Case(as, r) /\ Case(bs, q)
  BY InferCases, Zenon
<1>6. CASE node.op \in ConvLike
  <2>1. r \in InferConvLike(node, as[1], as[2]) /\ q \in InferConvLike(node, bs[1], bs[2])
    BY <1>5, <1>6 DEF ConvLike, GemmLike, PoolLike
  <2>2. as[2] = bs[2] /\ as[2] \in Desc
    <3>1. 2 \in 1..2 /\ node.op \in ConvLike \cup GemmLike
      BY <1>6
    <3> QED
      BY <1>4, <1>6, <3>1, Zenon
  <2> QED
    BY <1>4, <2>1, <2>2, ConvWithin
<1>7. CASE node.op \in GemmLike
  <2>1. r \in InferGemm(node, as) /\ q \in InferGemm(node, bs)
    BY <1>5, <1>7 DEF ConvLike, GemmLike, PoolLike
  <2> HIDE DEF Case
  <2> QED
    BY <1>4, <1>7, <2>1, GemmWithin
<1>8. CASE node.op = "GlobalAveragePool"
  <2>1. r \in InferGlobalAveragePool(as[1]) /\ q \in InferGlobalAveragePool(bs[1])
    BY <1>5, <1>8 DEF ConvLike, GemmLike, PoolLike
  <2> QED
    BY <1>4, <2>1, AverageWithin
<1>9. CASE node.op \in {"MaxPool", "AveragePool"}
  <2>1. r \in InferPool(node, as[1]) /\ q \in InferPool(node, bs[1])
    BY <1>5, <1>9 DEF ConvLike, GemmLike, PoolLike
  <2> QED
    BY <1>4, <2>1, PoolWithin
<1>10. CASE node.op = "Flatten"
  <2>1. r \in InferFlatten(node, as[1]) /\ q \in InferFlatten(node, bs[1])
    BY <1>5, <1>10 DEF ConvLike, GemmLike, PoolLike
  <2> QED
    BY <1>4, <1>10, <2>1, FlattenWithin
<1>11. CASE node.op \notin ConvLike \cup GemmLike \cup PoolLike \cup {"Flatten"}
  <2>1. r = as[1] /\ q = bs[1]
    BY <1>5, <1>11 DEF ConvLike, GemmLike, PoolLike
  <2> QED
    BY <1>4, <2>1
<1> QED
  BY <1>6, <1>7, <1>8, <1>9, <1>10, <1>11 DEF PoolLike
-----------------------------------------------------------------------------
(* InferAll.                                                               *)

(* What the models' graphs are assumed to be.                              *)
Graph(nodes) ==
  /\ nodes \in Seq(Range(nodes)) /\ InOrder(nodes)
  /\ \A i \in DOMAIN nodes : TypedNode(nodes[i])

(* The descriptions of a node's inputs are a sequence of them.             *)
LEMMA ArgsTyped ==
  ASSUME NEW node, TypedNode(node), NEW d \in [Value -> Desc]
  PROVE  /\ Args(d, node) \in Seq(Desc) /\ Len(Args(d, node)) = Len(node.ins)
         /\ Len(node.ins) \in Nat /\ DOMAIN Args(d, node) = 1..Len(node.ins)
         /\ DOMAIN node.ins = 1..Len(node.ins)
         /\ \A k \in 1..Len(node.ins) :
              /\ node.ins[k] \in Value /\ Args(d, node)[k] = d[node.ins[k]]
              /\ Args(d, node)[k] \in Desc
<1>1. /\ node.ins \in Seq(Value) /\ Len(node.ins) \in Nat
      /\ DOMAIN node.ins = 1..Len(node.ins)
  BY DEF TypedNode
<1>2. \A k \in 1..Len(node.ins) : node.ins[k] \in Value
  BY <1>1, ElementsIn, Zenon
<1>3. Args(d, node) = [k \in 1..Len(node.ins) |-> d[node.ins[k]]]
  BY <1>1 DEF Args
<1> DEFINE n == Len(node.ins)
           f == [k \in 1..n |-> d[node.ins[k]]]
<1>4. \A k \in 1..n : f[k] = d[node.ins[k]] /\ f[k] \in Desc
  BY <1>2
<1>5. f \in [1..n -> Desc]
  BY <1>2
<1>6. f \in Seq(Desc) /\ Len(f) = n /\ DOMAIN f = 1..n
  <2> HIDE DEF f, n
  <2>1. n \in Nat
    BY <1>1 DEF n
  <2> QED
    BY <1>5, <2>1
<1> QED
  BY <1>1, <1>2, <1>3, <1>4, <1>6, Zenon DEF f, n

(* One node's inference, after any of those before it.                     *)
Inferred(node, set) ==
  UNION {{[d EXCEPT ![node.out] = r] : r \in Infer(node, Args(d, node))} : d \in set}

(* It leaves descriptions.                                                 *)
LEMMA InferredTyped ==
  ASSUME NEW node, TypedNode(node), NEW set \in SUBSET [Value -> Desc]
  PROVE  Inferred(node, set) \in SUBSET [Value -> Desc]
<1> SUFFICES ASSUME NEW d \in set, NEW r \in Infer(node, Args(d, node))
             PROVE  [d EXCEPT ![node.out] = r] \in [Value -> Desc]
  BY DEF Inferred
<1>1. r \in Desc
  <2>1. d \in [Value -> Desc]
    OBVIOUS
  <2>2. /\ \A k \in DOMAIN Args(d, node) : Args(d, node)[k] \in Desc
        /\ DOMAIN Args(d, node) = 1..Len(Args(d, node)) /\ Len(Args(d, node)) \in Nat
    BY <2>1, ArgsTyped, Zenon
  <2> QED
    BY <2>2, InferTyped, Zenon
<1> QED
  BY <1>1

(* What each node's inference leaves.                                      *)
Passes(nodes, base, after) ==
  /\ after \in [0..Len(nodes) -> SUBSET [Value -> Desc]] /\ after[0] = {base}
  /\ \A i \in 1..Len(nodes) : after[i] = Inferred(nodes[i], after[i - 1])

(* InferAll is what the last leaves.                                       *)
LEMMA InferAllUnfolds ==
  ASSUME NEW nodes, Graph(nodes), NEW base \in [Value -> Desc]
  PROVE  \E after : Passes(nodes, base, after) /\ InferAll(nodes, base) = after[Len(nodes)]
<1> DEFINE n == Len(nodes)
           A == SUBSET [Value -> Desc]
           After(i, set) == Inferred(nodes[i], set)
           G == [p \in (1..n) \X A |-> After(p[1], p[2])]
           Recursive(g) ==
             g = [i \in 0..n |->
                   IF i = 0 THEN {base}
                   ELSE UNION {{[d EXCEPT ![nodes[i].out] = r] :
                                  r \in Infer(nodes[i], Args(d, nodes[i]))} : d \in g[i - 1]}]
           after == CHOOSE g : Recursive(g)
<1>1. InferAll(nodes, base) = after[n]
  BY Zenon DEF InferAll
<1>2. n \in Nat /\ {base} \in A /\ \A i \in 1..n : TypedNode(nodes[i])
  <2>1. nodes \in Seq(Range(nodes)) /\ \A i \in DOMAIN nodes : TypedNode(nodes[i])
    BY DEF Graph
  <2>2. n \in Nat /\ DOMAIN nodes = 1..n
    BY <2>1
  <2> QED
    BY <2>1, <2>2, Zenon
<1>3. ASSUME NEW i \in 1..n, NEW set \in A PROVE After(i, set) \in A
  BY <1>2, InferredTyped, Zenon
<1> HIDE DEF A
<1>4. PICK f \in [0..n -> A] : Unfolds(f, {base}, n, G)
  <2>1. G \in [(1..n) \X A -> A]
    <3> HIDE DEF After, n
    <3> QED
      BY <1>3
  <2> HIDE DEF G, n
  <2> QED
    BY <1>2, <2>1, RecursiveFunction
<1>5. \A i \in 0..n : f[i] = IF i = 0 THEN {base} ELSE After(i, f[i - 1])
  <2>1. ASSUME NEW i \in 0..n PROVE f[i] = IF i = 0 THEN {base} ELSE G[<<i, f[i - 1]>>]
    BY <1>4 DEF Unfolds
  <2>2. ASSUME NEW i \in 1..n PROVE G[<<i, f[i - 1]>>] = After(i, f[i - 1])
    <3>1. f[i - 1] \in A
      <4> HIDE DEF n, After
      <4>1. i - 1 \in 0..n
        BY <1>2
      <4> QED
        BY <4>1
    <3> HIDE DEF After, n
    <3> QED
      BY <3>1
  <2>3. \A i \in 0..n : i # 0 => i \in 1..n
    <3> HIDE DEF n
    <3> QED
      BY <1>2
  <2> HIDE DEF G, After, n
  <2> QED
    BY <2>1, <2>2, <2>3
<1>6. Recursive(f)
  <2>1. f = [i \in 0..n |-> f[i]]
    <3> HIDE DEF n
    <3> QED
      OBVIOUS
  <2>2. f = [i \in 0..n |-> IF i = 0 THEN {base} ELSE After(i, f[i - 1])]
    <3> HIDE DEF n, After
    <3> QED
      BY <1>5, <2>1
  <2> QED
    BY <2>2, Zenon DEF Inferred
<1>7. Recursive(after)
  <2> HIDE DEF Recursive
  <2> QED
    BY <1>6
<1>8. after[0] = {base} /\ \A i \in 1..n : after[i] = After(i, after[i - 1])
  <2>1. after = [i \in 0..n |-> IF i = 0 THEN {base} ELSE After(i, after[i - 1])]
    <3> HIDE DEF after, n
    <3> QED
      BY <1>7, Zenon DEF Inferred
  <2>2. \A i \in 0..n : after[i] = IF i = 0 THEN {base} ELSE After(i, after[i - 1])
    <3> HIDE DEF after, n, After
    <3> QED
      BY <2>1
  <2>3. 0 \in 0..n /\ \A i \in 1..n : i \in 0..n /\ i # 0
    <3> HIDE DEF n
    <3> QED
      BY <1>2
  <2> HIDE DEF Recursive, G, after, After, n
  <2> QED
    BY <2>2, <2>3, Zenon
<1> HIDE DEF G, after
<1>9. \A i \in 0..n : after[i] \in A
  <2>1. ASSUME NEW i \in 1..n, after[i - 1] \in A PROVE after[i] \in A
    <3> HIDE DEF After, Recursive, n
    <3> QED
      BY <1>3, <1>8, <2>1
  <2> HIDE DEF After, Recursive, n
  <2> QED
    BY <1>2, <1>8, <2>1, RangeByInduction
<1>10. after \in [0..n -> A]
  <2>1. after = [i \in 0..n |-> after[i]]
    <3> HIDE DEF n, A
    <3> QED
      BY <1>7
  <2> HIDE DEF Recursive, After, n
  <2> QED
    BY <1>9, <2>1
<1>11. Passes(nodes, base, after)
  BY <1>8, <1>10, Zenon DEF Passes, A
<1> QED
  BY <1>1, <1>11, Zenon

(* The first nodes' outputs are what inference gives them, and what no     *)
(* node computes is as it was.                                             *)
InferredUpTo(nodes, base, i, d) ==
  /\ \A j \in 1..i : d[nodes[j].out] \in Infer(nodes[j], Args(d, nodes[j]))
  /\ \A v \in Value : (\A j \in DOMAIN nodes : nodes[j].out # v) => d[v] = base[v]

(* Inferring one more node leaves the others' inference as it is.          *)
LEMMA InferredStep ==
  ASSUME NEW nodes, Graph(nodes), NEW base, NEW i \in 1..Len(nodes),
         NEW c \in [Value -> Desc], InferredUpTo(nodes, base, i - 1, c),
         NEW d \in Inferred(nodes[i], {c})
  PROVE  InferredUpTo(nodes, base, i, d)
<1>1. /\ DOMAIN nodes = 1..Len(nodes) /\ Len(nodes) \in Nat /\ InOrder(nodes)
      /\ \A j \in DOMAIN nodes : TypedNode(nodes[j])
  BY DEF Graph
<1> DEFINE node == nodes[i]
<1>2. PICK r \in Infer(node, Args(c, node)) : d = [c EXCEPT ![node.out] = r]
  BY DEF Inferred
<1>3. node.out \in Value
  BY <1>1 DEF TypedNode
<1>4. d[node.out] = r /\ \A v \in Value : v # node.out => d[v] = c[v]
  BY <1>2, <1>3
<1>5. ASSUME NEW j \in 1..i PROVE Args(d, nodes[j]) = Args(c, nodes[j])
  <2>1. j \in DOMAIN nodes /\ i \in DOMAIN nodes /\ ~(i < j)
    BY <1>1
  <2>2. \A k \in DOMAIN nodes[j].ins : nodes[j].ins[k] # node.out
    BY <1>1, <2>1 DEF InOrder
  <2>3. \A k \in DOMAIN nodes[j].ins : nodes[j].ins[k] \in Value
    BY <1>1, <2>1, ElementsIn DEF TypedNode
  <2>4. \A k \in DOMAIN nodes[j].ins : d[nodes[j].ins[k]] = c[nodes[j].ins[k]]
    BY <1>4, <2>2, <2>3, Zenon
  <2> QED
    BY <2>4 DEF Args
<1>6. ASSUME NEW j \in 1..i PROVE d[nodes[j].out] \in Infer(nodes[j], Args(d, nodes[j]))
  <2>1. CASE j = i
    BY <1>2, <1>4, <1>5, <2>1, Zenon
  <2>2. CASE j # i
    <3>1. j \in 1..(i - 1) /\ j \in DOMAIN nodes /\ i \in DOMAIN nodes
      BY <1>1, <2>2
    <3>2. nodes[j].out # node.out /\ nodes[j].out \in Value
      BY <1>1, <2>2, <3>1, Zenon DEF InOrder, TypedNode
    <3>3. c[nodes[j].out] \in Infer(nodes[j], Args(c, nodes[j]))
      BY <3>1, Zenon DEF InferredUpTo
    <3> QED
      BY <1>4, <1>5, <3>2, <3>3, Zenon
  <2> QED
    BY <2>1, <2>2
<1>7. ASSUME NEW v \in Value, \A j \in DOMAIN nodes : nodes[j].out # v PROVE d[v] = base[v]
  <2>1. v # node.out
    BY <1>1, <1>7
  <2> QED
    BY <1>4, <1>7, <2>1, Zenon DEF InferredUpTo
<1> QED
  BY <1>6, <1>7, Zenon DEF InferredUpTo

(* After InferAll every node's output is what inference gives it from the  *)
(* inputs' final descriptions.                                             *)
LEMMA InferAllSound ==
  ASSUME NEW nodes, Graph(nodes), NEW base \in [Value -> Desc],
         NEW d \in InferAll(nodes, base)
  PROVE  d \in [Value -> Desc] /\ InferredUpTo(nodes, base, Len(nodes), d)
<1>1. PICK after : Passes(nodes, base, after) /\ InferAll(nodes, base) = after[Len(nodes)]
  BY InferAllUnfolds
<1> DEFINE n == Len(nodes)
           Sound(i) == {c \in [Value -> Desc] : InferredUpTo(nodes, base, i, c)}
           S == {i \in Nat : i <= n => after[i] \subseteq Sound(i)}
<1>2. n \in Nat /\ DOMAIN nodes = 1..n
  BY DEF Graph
<1>3. /\ after[0] = {base}
      /\ \A i \in 0..n : after[i] \subseteq [Value -> Desc]
      /\ \A i \in 1..n : after[i] = Inferred(nodes[i], after[i - 1])
  BY <1>1 DEF Passes
<1>4. 0 \in S
  <2>1. InferredUpTo(nodes, base, 0, base)
    BY DEF InferredUpTo
  <2> QED
    BY <1>3, <2>1
<1>5. ASSUME NEW i \in Nat, i \in S PROVE i + 1 \in S
  <2> SUFFICES ASSUME i + 1 <= n, NEW d1 \in after[i + 1] PROVE d1 \in Sound(i + 1)
    OBVIOUS
  <2>1. i + 1 \in 1..n /\ (i + 1) - 1 = i /\ i <= n /\ i + 1 \in 0..n
    BY <1>2
  <2>2. after[i] \subseteq Sound(i)
    BY <1>5, <2>1
  <2>3. d1 \in Inferred(nodes[i + 1], after[i])
    BY <1>3, <2>1
  <2>4. PICK c \in after[i] : d1 \in Inferred(nodes[i + 1], {c})
    BY <2>3 DEF Inferred
  <2>5. c \in [Value -> Desc] /\ InferredUpTo(nodes, base, (i + 1) - 1, c)
    BY <2>1, <2>2
  <2>6. InferredUpTo(nodes, base, i + 1, d1)
    BY <2>1, <2>4, <2>5, InferredStep
  <2> QED
    BY <1>3, <2>1, <2>6
<1>6. n \in S
  <2> HIDE DEF S
  <2>1. Nat \subseteq S
    BY <1>4, <1>5, SetInduction
  <2> QED
    BY <1>2, <2>1
<1>7. after[n] \subseteq Sound(n)
  <2> HIDE DEF Sound, n
  <2> QED
    BY <1>2, <1>6
<1> QED
  BY <1>1, <1>7

(* No node computes a value.                                               *)
Given(nodes, v) == \A j \in DOMAIN nodes : nodes[j].out # v

(* Every node's inference from smaller inputs, the same weights of its     *)
(* convolutions and without an overflow in Flatten leaves smaller shapes.  *)
LEMMA AllWithin ==
  ASSUME NEW nodes, Graph(nodes), NEW a \in [Value -> Desc], NEW b \in [Value -> Desc],
         \A v \in Value : Given(nodes, v) => Within(a[v], b[v]),
         \A i \in DOMAIN nodes : nodes[i].op \in ConvLike /\ 2 \in DOMAIN nodes[i].ins =>
           Given(nodes, nodes[i].ins[2]) /\ a[nodes[i].ins[2]] = b[nodes[i].ins[2]],
         NEW d \in InferAll(nodes, a), NEW e \in InferAll(nodes, b),
         \A i \in DOMAIN nodes : nodes[i].op = "Flatten" =>
           NumElements(e[nodes[i].ins[1]].shape) # 0
  PROVE  \A v \in Value : Within(d[v], e[v])
<1> DEFINE n == Len(nodes)
           S == {i \in Nat : i <= n => \A j \in 1..i : Within(d[nodes[j].out], e[nodes[j].out])}
<1>1. /\ n \in Nat /\ DOMAIN nodes = 1..n /\ InOrder(nodes)
      /\ \A j \in DOMAIN nodes : TypedNode(nodes[j])
  BY DEF Graph
<1>2. /\ d \in [Value -> Desc] /\ e \in [Value -> Desc]
      /\ InferredUpTo(nodes, a, n, d) /\ InferredUpTo(nodes, b, n, e)
  BY InferAllSound
<1>3. ASSUME NEW v \in Value, Given(nodes, v) PROVE d[v] = a[v] /\ e[v] = b[v]
  BY <1>2, <1>3 DEF InferredUpTo, Given
<1>4. ASSUME NEW i \in Nat, i \in S, i + 1 <= n
      PROVE  Within(d[nodes[i + 1].out], e[nodes[i + 1].out])
  <2> DEFINE node == nodes[i + 1]
             as == Args(d, node)
             bs == Args(e, node)
             m == Len(node.ins)
  <2>1. i + 1 \in 1..n /\ i + 1 \in DOMAIN nodes /\ TypedNode(node) /\ i <= n
    BY <1>1, <1>4
  <2>2. d[node.out] \in Infer(node, as) /\ e[node.out] \in Infer(node, bs)
    BY <1>2, <2>1, Zenon DEF InferredUpTo
  <2>3. /\ Len(as) = m /\ DOMAIN as = 1..m /\ Len(bs) = m /\ DOMAIN bs = 1..m
        /\ m \in Nat /\ DOMAIN node.ins = 1..m
        /\ \A k \in 1..m : /\ node.ins[k] \in Value
                           /\ as[k] = d[node.ins[k]] /\ as[k] \in Desc
                           /\ bs[k] = e[node.ins[k]] /\ bs[k] \in Desc
    BY <1>2, <2>1, ArgsTyped, Zenon
  <2> HIDE DEF as, bs, m
  <2>4. ASSUME NEW k \in 1..m PROVE Within(as[k], bs[k])
    <3> DEFINE v == node.ins[k]
    <3>1. v \in Value /\ as[k] = d[v] /\ bs[k] = e[v]
      BY <2>3
    <3>2. CASE Given(nodes, v)
      BY <1>3, <3>1, <3>2, Zenon
    <3>3. CASE ~Given(nodes, v)
      <4>1. PICK j \in DOMAIN nodes : nodes[j].out = v
        BY <3>3 DEF Given
      <4>2. j < i + 1
        BY <1>1, <2>1, <2>3, <4>1, Zenon DEF InOrder
      <4>3. j \in 1..i
        BY <1>1, <4>2
      <4> QED
        BY <1>4, <2>1, <3>1, <4>1, <4>3
    <3> QED
      BY <3>2, <3>3
  <2>5. ASSUME node.op \in ConvLike, 2 \in 1..m PROVE as[2] = bs[2]
    <3>1. Given(nodes, node.ins[2]) /\ a[node.ins[2]] = b[node.ins[2]]
      BY <2>1, <2>3, <2>5, Zenon
    <3> QED
      BY <1>3, <2>3, <2>5, <3>1, Zenon
  <2>6. m \in InputCounts(node.op)
    <3>1. Len(as) \in InputCounts(node.op)
      BY <2>2, InferCases, Zenon
    <3> HIDE DEF node
    <3> QED
      BY <2>3, <3>1
  <2>7. 1 \in 1..m /\ (node.op \in ConvLike => 2 \in 1..m)
    BY <2>3, <2>6 DEF InputCounts, ConvLike, GemmLike, Elementwise, PoolLike
  <2>8. node.op = "Flatten" => NumElements(bs[1].shape) # 0
    BY <2>1, <2>3, <2>7, Zenon
  <2>9. /\ \A k \in 1..m : as[k] \in Desc /\ bs[k] \in Desc /\ Within(as[k], bs[k])
        /\ node.op \in ConvLike => as[2] = bs[2]
        /\ TypedNode(node)
    BY <2>1, <2>3, <2>4, <2>5, <2>7, Zenon
  <2>10. Within(d[node.out], e[node.out])
    <3> HIDE DEF node
    <3> QED
      BY <2>2, <2>3, <2>8, <2>9, InferWithin
  <2> QED
    BY <2>10
<1>5. 0 \in S
  OBVIOUS
<1>6. ASSUME NEW i \in Nat, i \in S PROVE i + 1 \in S
  <2> SUFFICES ASSUME i + 1 <= n, NEW j \in 1..(i + 1)
               PROVE  Within(d[nodes[j].out], e[nodes[j].out])
    OBVIOUS
  <2>1. CASE j = i + 1
    BY <1>4, <1>6, <2>1
  <2>2. CASE j # i + 1
    <3>1. j \in 1..i /\ i <= n
      BY <1>1, <2>2
    <3> QED
      BY <1>6, <3>1
  <2> QED
    BY <2>1, <2>2
<1>7. n \in S
  <2> HIDE DEF S
  <2>1. Nat \subseteq S
    BY <1>5, <1>6, SetInduction
  <2> QED
    BY <1>1, <2>1
<1>8. ASSUME NEW v \in Value PROVE Within(d[v], e[v])
  <2>1. CASE Given(nodes, v)
    BY <1>3, <2>1, Zenon
  <2>2. CASE ~Given(nodes, v)
    <3>1. PICK j \in DOMAIN nodes : nodes[j].out = v
      BY <2>2 DEF Given
    <3>2. j \in 1..n /\ n <= n
      BY <1>1, <3>1
    <3> QED
      BY <1>7, <3>1, <3>2
  <2> QED
    BY <2>1, <2>2
<1> QED
  BY <1>8
-----------------------------------------------------------------------------
(* The states of the specification.                                        *)

(* The descriptions ResolveProfileGraph starts from.                       *)
Described(s) ==
  [v \in Value |-> IF v \in model.inputs THEN [model.descs[v] EXCEPT !.shape = s[v]]
                   ELSE model.descs[v]]

Planned == {"plan", "compiled", "unresolved", "resolved", "run"}
Compiled == Planned \ {"plan"}

(* What ValidateProfiles has checked.                                      *)
Validated ==
  \A v \in model.inputs : v \in DOMAIN model.profile /\ RangeValid(model.profile[v])

(* What Lower has of the views.                                            *)
ViewsInside == \A i \in Views : Nodes[i].out \notin model.outputs

(* What the plan was made of.                                              *)
PlannedAtMax == \E d \in AtPoint("max") : Plannable(d) /\ plan = Reserved(d)

(* The shapes a context has accepted.                                      *)
ShapesInRange ==
  /\ shapes = [v \in model.inputs |-> shapes[v]]
  /\ \A v \in model.inputs : shapes[v] \in Seq(Int) /\ InRange(v, shapes[v])

(* A launch reads descriptions inferred from shapes in the profile, and a  *)
(* plan made of those inferred at its max point.                           *)
LaunchInv ==
  /\ model \in Models
  /\ stage \in {"validate", "lower", "failed"} \cup Planned
  /\ stage \in {"lower"} \cup Planned => Validated
  /\ stage \in Planned => ViewsInside
  /\ stage \in Compiled => PlannedAtMax
  /\ stage \in Compiled \ {"compiled"} => ShapesInRange
  /\ stage \in {"resolved", "run"} => descs \in AtShapes(shapes)
  /\ last # Nil => stage \in {"resolved", "run"}

(* The weights of every convolution are a constant.                        *)
ConstantWeights ==
  \A i \in DOMAIN Nodes :
    Nodes[i].op \in ConvLike /\ 2 \in DOMAIN Nodes[i].ins =>
      Nodes[i].ins[2] \notin model.inputs /\ Given(Nodes, Nodes[i].ins[2])

(* At the max point a size_t counts the bytes of each of the values.       *)
FitsAddressSpace(values) ==
  \A d \in AtPoint("max") : \A v \in values :
    NumElements(d[v].shape) * ElementSize(d[v].dtype) < SizeModulus

(* A model is what ModelAssumption assumes.                                *)
LEMMA ModelTyped ==
  ASSUME LaunchInv
  PROVE  /\ model.inputs \subseteq Value /\ model.descs \in [Value -> Desc] /\ Graph(Nodes)
         /\ \A i \in DOMAIN Nodes : Nodes[i].out \notin model.inputs /\ Nodes[i].out \in Value
         /\ \A v \in DOMAIN model.profile :
              /\ model.profile[v].min \in Seq(Int) /\ model.profile[v].opt \in Seq(Int)
              /\ model.profile[v].max \in Seq(Int)
<1>1. model \in Models
  BY DEF LaunchInv
<1>2. /\ model.inputs \subseteq Value /\ model.descs \in [Value -> Desc]
      /\ model.nodes \in Seq(Range(model.nodes)) /\ InOrder(model.nodes)
      /\ \A i \in DOMAIN model.nodes :
           TypedNode(model.nodes[i]) /\ model.nodes[i].out \notin model.inputs
      /\ \A v \in DOMAIN model.profile :
           model.profile[v] \in [min : Seq(Int), opt : Seq(Int), max : Seq(Int)]
  BY <1>1, ModelAssumption, Zenon
<1>3. ASSUME NEW i \in DOMAIN Nodes PROVE Nodes[i].out \in Value
  BY <1>2, <1>3, Zenon DEF Nodes, TypedNode
<1>4. ASSUME NEW v \in DOMAIN model.profile
      PROVE  /\ model.profile[v].min \in Seq(Int) /\ model.profile[v].opt \in Seq(Int)
             /\ model.profile[v].max \in Seq(Int)
  BY <1>2, <1>4
<1> QED
  BY <1>2, <1>3, <1>4, Zenon DEF Graph, Nodes

(* So are the descriptions inference starts from.                          *)
LEMMA GivenTyped ==
  ASSUME LaunchInv, NEW s, \A v \in model.inputs : s[v] \in Seq(Int)
  PROVE  Described(s) \in [Value -> Desc] /\ AtShapes(s) = InferAll(Nodes, Described(s))
<1>1. model.inputs \subseteq Value /\ model.descs \in [Value -> Desc]
  BY ModelTyped
<1>2. ASSUME NEW v \in Value, v \in model.inputs
      PROVE  [model.descs[v] EXCEPT !.shape = s[v]] \in Desc
  BY <1>1, <1>2 DEF Desc
<1> QED
  BY <1>1, <1>2 DEF Described, AtShapes

(* What holds of the model and the plan holds while they stay.             *)
LEMMA SameModel ==
  ASSUME UNCHANGED <<model, plan>>
  PROVE  /\ Validated' <=> Validated
         /\ ViewsInside' <=> ViewsInside
         /\ PlannedAtMax' <=> PlannedAtMax
<1>1. Nodes' = Nodes /\ Intermediates' = Intermediates /\ Views' = Views
  BY DEF Nodes, Intermediates, Views
<1>2. ViewValues' = ViewValues /\ \A v : ViewSource(v)' = ViewSource(v)
  BY <1>1 DEF ViewValues, ViewSource
<1>3. AtPoint("max")' = AtPoint("max")
  BY <1>1 DEF AtPoint, AtShapes
<1>4. \A d : (Plannable(d)' <=> Plannable(d)) /\ Reserved(d)' = Reserved(d)
  BY <1>1, <1>2 DEF Plannable, Reserved
<1>5. Validated' <=> Validated
  BY DEF Validated
<1>6. ViewsInside' <=> ViewsInside
  BY <1>1 DEF ViewsInside
<1>7. PlannedAtMax' <=> PlannedAtMax
  BY <1>3, <1>4 DEF PlannedAtMax
<1> QED
  BY <1>5, <1>6, <1>7

(* And what holds of the shapes and descriptions while those do.           *)
LEMMA SameShapes ==
  ASSUME UNCHANGED <<model, shapes>>
  PROVE  (ShapesInRange' <=> ShapesInRange) /\ AtShapes(shapes)' = AtShapes(shapes)
<1>1. Nodes' = Nodes
  BY DEF Nodes
<1>2. \A v, shape : InRange(v, shape)' <=> InRange(v, shape)
  BY DEF InRange
<1> QED
  BY <1>1, <1>2 DEF ShapesInRange, AtShapes

(* A validated range's opt point is in it, and what is in it is between    *)
(* its min and its max.                                                    *)
LEMMA RangePoints ==
  ASSUME LaunchInv, Validated, NEW v \in model.inputs
  PROVE  /\ model.profile[v].opt \in Seq(Int) /\ model.profile[v].max \in Seq(Int)
         /\ InRange(v, model.profile[v].opt)
         /\ \A s \in Seq(Int) : InRange(v, s) => WithinShape(s, model.profile[v].max)
         /\ model.profile[v].min \in Seq(Int)
         /\ \A s \in Seq(Int) : InRange(v, s) => WithinShape(model.profile[v].min, s)
<1> DEFINE range == model.profile[v]
<1>1. range.min \in Seq(Int) /\ range.opt \in Seq(Int) /\ range.max \in Seq(Int)
  BY ModelTyped DEF Validated
<1>2. RangeValid(range)
  BY DEF Validated
<1> HIDE DEF range
<1> DEFINE n == Len(range.min)
<1>3. /\ n \in Nat /\ DOMAIN range.min = 1..n /\ DOMAIN range.opt = 1..n /\ DOMAIN range.max = 1..n
      /\ Len(range.opt) = n /\ Len(range.max) = n
  <2>1. \A s \in Seq(Int) : Len(s) \in Nat /\ DOMAIN s = 1..Len(s)
    OBVIOUS
  <2>2. Len(range.opt) = n /\ Len(range.max) = n
    BY <1>2 DEF RangeValid
  <2> QED
    BY <1>1, <2>1, <2>2, Zenon
<1>4. ASSUME NEW i \in 1..n
      PROVE  /\ range.min[i] \in Int /\ range.opt[i] \in Int /\ range.max[i] \in Int
             /\ 0 < range.min[i] /\ range.min[i] <= range.opt[i] /\ range.opt[i] <= range.max[i]
  <2>1. 0 < range.min[i] /\ range.min[i] <= range.opt[i] /\ range.opt[i] <= range.max[i]
    BY <1>2, <1>3 DEF RangeValid
  <2>2. range.min[i] \in Int /\ range.opt[i] \in Int /\ range.max[i] \in Int
    BY <1>1, <1>3, ElementsIn, Zenon
  <2> QED
    BY <2>1, <2>2
<1> HIDE DEF n
<1>5. InRange(v, range.opt)
  <2>1. \A i \in 1..n : range.min[i] <= range.opt[i] /\ range.opt[i] <= range.max[i]
    BY <1>4
  <2> QED
    BY <1>3, <2>1, Zenon DEF InRange, range, n
<1>6. ASSUME NEW s \in Seq(Int), InRange(v, s)
      PROVE  WithinShape(s, range.max) /\ WithinShape(range.min, s)
  <2>1. Len(s) = n /\ \A i \in DOMAIN s : range.min[i] <= s[i] /\ s[i] <= range.max[i]
    BY <1>6 DEF InRange, range, n
  <2>2. DOMAIN s = 1..n
    BY <1>3, <2>1
  <2>3. \A i \in 1..n : s[i] \in Int
    BY <2>2, ElementsIn, Zenon
  <2>4. ASSUME NEW i \in 1..n
        PROVE  0 < s[i] /\ s[i] <= range.max[i] /\ 0 < range.min[i] /\ range.min[i] <= s[i]
    <3>1. range.min[i] <= s[i] /\ s[i] <= range.max[i] /\ s[i] \in Int
      BY <2>1, <2>2, <2>3
    <3>2. range.min[i] \in Int /\ 0 < range.min[i]
      BY <1>4
    <3> HIDE DEF n
    <3> QED
      BY <3>1, <3>2
  <2>5. WithinShape(s, range.max)
    BY <1>3, <2>1, <2>2, <2>4, Zenon DEF WithinShape
  <2>6. WithinShape(range.min, s)
    BY <1>3, <2>1, <2>2, <2>4, Zenon DEF WithinShape, n
  <2> QED
    BY <2>5, <2>6
<1> QED
  BY <1>1, <1>5, <1>6 DEF range

(* The initial states.                                                     *)
LEMMA LaunchInit == Init => LaunchInv
BY DEF Init, LaunchInv, Planned, Compiled

(* Every step keeps the invariant.                                         *)
LEMMA LaunchStep ==
  ASSUME LaunchInv, [Next]_vars
  PROVE  LaunchInv'
<1> USE DEF Planned, Compiled
<1>1. CASE UNCHANGED vars
  <2>1. UNCHANGED <<model, stage, plan, shapes, descs, last>>
    BY <1>1 DEF vars, compiled
  <2> QED
    BY <2>1, SameModel, SameShapes DEF LaunchInv
<1>2. ASSUME NEW function, CompileFails(function), stage \in {"validate", "lower", "plan"}
      PROVE  LaunchInv'
  BY <1>2 DEF LaunchInv, CompileFails, compiled
<1>3. CASE ValidateProfiles
  <2>1. CASE Validated /\ stage' = "lower" /\ UNCHANGED <<model, plan, last>>
    BY <1>3, <2>1, SameModel DEF LaunchInv, ValidateProfiles
  <2>2. CASE stage = "validate" /\ CompileFails("ValidateProfiles")
    BY <1>2, <2>2
  <2> QED
    BY <1>3, <2>1, <2>2 DEF ValidateProfiles, Validated, compiled
<1>4. CASE Lower
  <2>1. CASE stage = "lower" /\ CompileFails("Lower")
    BY <1>2, <2>1
  <2>2. CASE ~CompileFails("Lower")
    <3>1. /\ stage = "lower" /\ stage' = "plan" /\ UNCHANGED <<model, plan, last>>
          /\ \A i \in DOMAIN Nodes : i \in Views => Nodes[i].out \notin model.outputs
      BY <1>4, <2>2 DEF Lower
    <3>2. ViewsInside
      BY <3>1 DEF ViewsInside, Views
    <3> QED
      BY <3>1, <3>2, SameModel DEF LaunchInv
  <2> QED
    BY <1>4, <2>1, <2>2 DEF Lower
<1>5. CASE PlanPoint
  <2>1. CASE stage = "plan" /\ CompileFails("PlanPoint")
    BY <1>2, <2>1
  <2>2. CASE ~CompileFails("PlanPoint")
    <3>1. /\ stage = "plan" /\ UNCHANGED <<model, last>>
          /\ \/ UNCHANGED <<plan, stage>>
             \/ /\ stage' = "compiled"
                /\ \E d \in AtPoint("max") : Plannable(d) /\ plan' = Reserved(d)
      BY <1>5, <2>2 DEF PlanPoint, ResolvedAt
    <3>2. CASE UNCHANGED <<plan, stage>>
      BY <3>1, <3>2, SameModel DEF LaunchInv
    <3>3. CASE stage' = "compiled" /\ \E d \in AtPoint("max") : Plannable(d) /\ plan' = Reserved(d)
      <4>1. Nodes' = Nodes /\ Intermediates' = Intermediates /\ Views' = Views
        BY <3>1 DEF Nodes, Intermediates, Views
      <4>2. ViewValues' = ViewValues /\ \A v : ViewSource(v)' = ViewSource(v)
        BY <4>1 DEF ViewValues, ViewSource
      <4>3. AtPoint("max")' = AtPoint("max")
        BY <3>1, <4>1 DEF AtPoint, AtShapes
      <4>4. \A d : (Plannable(d)' <=> Plannable(d)) /\ Reserved(d)' = Reserved(d)
        BY <4>1, <4>2 DEF Plannable, Reserved
      <4>5. PlannedAtMax'
        BY <3>3, <4>3, <4>4 DEF PlannedAtMax
      <4>6. Validated' /\ ViewsInside'
        BY <3>1, <4>1 DEF LaunchInv, Validated, ViewsInside
      <4> QED
        BY <3>1, <3>3, <4>5, <4>6 DEF LaunchInv
    <3> QED
      BY <3>1, <3>2, <3>3
  <2> QED
    BY <1>5, <2>1, <2>2 DEF PlanPoint
<1>6. CASE SelectShapeProfile
  <2>1. /\ stage \in Compiled /\ stage' = "resolved" /\ UNCHANGED <<model, plan>>
        /\ shapes' = [v \in model.inputs |-> model.profile[v].opt] /\ descs' \in AtPoint("opt")
    BY <1>6 DEF SelectShapeProfile, Reconfigure, compiled
  <2>2. Validated
    BY <2>1 DEF LaunchInv
  <2>3. \A v \in model.inputs :
          shapes'[v] \in Seq(Int) /\ shapes'[v] = model.profile[v].opt /\ InRange(v, shapes'[v])
    BY <2>1, <2>2, RangePoints
  <2>4. ShapesInRange'
    BY <2>1, <2>3 DEF ShapesInRange, InRange
  <2>5. descs' \in AtShapes(shapes)'
    BY <2>1 DEF AtPoint, AtShapes, Nodes
  <2> QED
    BY <2>1, <2>4, <2>5, SameModel DEF LaunchInv
<1>7. CASE ResolveShapes
  <2>1. stage = "unresolved" /\ UNCHANGED <<model, plan, shapes>>
    BY <1>7 DEF ResolveShapes, Reconfigure, compiled
  <2>2. \/ stage' = "resolved" /\ descs' \in AtShapes(shapes)
        \/ UNCHANGED <<stage, last>>
    BY <1>7 DEF ResolveShapes, Reconfigure
  <2> QED
    BY <2>1, <2>2, SameModel, SameShapes DEF LaunchInv
<1>8. CASE StartRun
  <2>1. /\ stage = "resolved" /\ stage' \in {"resolved", "run"}
        /\ UNCHANGED <<model, plan, shapes, descs>>
    BY <1>8 DEF StartRun, compiled
  <2> QED
    BY <2>1, SameModel, SameShapes DEF LaunchInv
<1>9. CASE SkipView \/ Launch
  <2>1. /\ stage = "run" /\ stage' \in {"resolved", "run"}
        /\ UNCHANGED <<model, plan, shapes, descs>>
    BY <1>9 DEF SkipView, Launch, Advance, compiled
  <2> QED
    BY <2>1, SameModel, SameShapes DEF LaunchInv
<1>10. ASSUME NEW v \in model.inputs, NEW shape \in Requests[v], SetInputShape(v, shape)
       PROVE  LaunchInv'
  <2>1. stage \in {"unresolved", "resolved"} /\ UNCHANGED <<model, plan, descs>> /\ ShapesInRange
    BY <1>10 DEF SetInputShape, Reconfigure, compiled, LaunchInv
  <2>2. CASE UNCHANGED <<stage, shapes, last>>
    BY <2>1, <2>2, SameModel, SameShapes DEF LaunchInv
  <2>3. CASE /\ InRange(v, shape) /\ shapes' = [shapes EXCEPT ![v] = shape]
             /\ stage' = "unresolved" /\ last' = Nil
    <3>1. shape \in Seq(Int)
      <4>1. model \in Models
        BY DEF LaunchInv
      <4>2. model.inputs \subseteq DOMAIN Requests
        BY <4>1, ModelAssumption, Zenon
      <4>3. Requests[v] \subseteq Seq(Int)
        BY <4>2, ModelAssumption, Zenon
      <4> QED
        BY <4>3
    <3>2. shapes' = [w \in model.inputs |-> IF w = v THEN shape ELSE shapes[w]]
      BY <2>1, <2>3 DEF ShapesInRange
    <3>3. \A w \in model.inputs : shapes'[w] \in Seq(Int) /\ InRange(w, shapes'[w])
      BY <2>1, <2>3, <3>1, <3>2 DEF ShapesInRange
    <3>4. ShapesInRange'
      BY <2>1, <3>2, <3>3 DEF ShapesInRange, InRange
    <3> QED
      BY <2>1, <2>3, <3>4, SameModel DEF LaunchInv
  <2> QED
    BY <1>10, <2>2, <2>3 DEF SetInputShape, Reconfigure
<1>11. CASE CompileEnded
  BY <1>1, <1>11 DEF CompileEnded
<1> QED
  BY <1>1, <1>3, <1>4, <1>5, <1>6, <1>7, <1>8, <1>9, <1>10, <1>11 DEF Next

THEOREM LaunchInvariant == Spec => []LaunchInv
<1>1. LaunchInv /\ [Next]_vars => LaunchInv'
  BY LaunchStep
<1> QED
  BY <1>1, LaunchInit, PTL DEF Spec
-----------------------------------------------------------------------------
(* What a launch uses fits what was reserved.                              *)

(* Bytes are none if elements are.                                         *)
LEMMA BytesNeedElements ==
  ASSUME NEW d \in Desc, ByteSize(d) # 0
  PROVE  NumElements(d.shape) # 0
<1>1. ElementSize(d.dtype) \in Nat
  BY DEF ElementSize
<1>2. \A n \in Nat : 0 * n = 0
  OBVIOUS
<1>3. (0 % SizeModulus) = 0
  BY DivisionUnique, WidthAssumption
<1> QED
  BY <1>1, <1>2, <1>3 DEF ByteSize

(* Every intermediate has elements at the max point, and what Flatten      *)
(* flattens has.                                                           *)
LEMMA ElementsAtMax ==
  ASSUME LaunchInv, ViewsInside, NEW d \in [Value -> Desc], Plannable(d),
         \A i \in DOMAIN Nodes : d[Nodes[i].out] \in Infer(Nodes[i], Args(d, Nodes[i]))
  PROVE  /\ \A v \in Intermediates : NumElements(d[v].shape) # 0
         /\ \A i \in DOMAIN Nodes : Nodes[i].op = "Flatten" =>
              NumElements(d[Nodes[i].ins[1]].shape) # 0
<1>1. /\ Graph(Nodes) /\ \A i \in DOMAIN Nodes : Nodes[i].out \in Value
  BY ModelTyped
<1>2. InOrder(Nodes) /\ \A i \in DOMAIN Nodes : TypedNode(Nodes[i])
  BY <1>1 DEF Graph
<1>3. ASSUME NEW i \in Views
      PROVE  /\ Nodes[i].out \in Intermediates /\ Nodes[i].ins[1] \in Value
             /\ NumElements(d[Nodes[i].out].shape) # 0
             /\ NumElements(d[Nodes[i].ins[1]].shape) # 0
  <2> DEFINE node == Nodes[i]
             v == node.out
  <2>1. i \in DOMAIN Nodes /\ node.op = "Flatten" /\ TypedNode(node)
    BY <1>2 DEF Views, IsView
  <2>2. d[v] \in Infer(node, Args(d, node))
    BY <2>1
  <2>3. v \in Intermediates /\ v \in ViewValues
    BY <2>1 DEF Intermediates, ViewsInside, ViewValues
  <2>4. (CHOOSE j \in Views : Nodes[j].out = v) = i
    <3>1. \A j \in Views : Nodes[j].out = v => j = i
      BY <1>2, <2>1 DEF InOrder, Views
    <3> QED
      BY <3>1
  <2>5. ViewSource(v) = node.ins[1]
    BY <2>4 DEF ViewSource
  <2>6. /\ d[v] \in InferFlatten(node, Args(d, node)[1])
        /\ Len(Args(d, node)) \in InputCounts(node.op)
    BY <2>1, <2>2, InferCases DEF ConvLike, GemmLike, PoolLike
  <2>7. 1 \in 1..Len(node.ins)
    <3>1. Len(Args(d, node)) = Len(node.ins)
      BY <2>1, ArgsTyped, Zenon
    <3>2. Len(node.ins) \in InputCounts("Flatten")
      BY <2>1, <2>6, <3>1, Zenon
    <3>3. \A n \in InputCounts("Flatten") : 1 \in 1..n
      BY DEF InputCounts, ConvLike, GemmLike, Elementwise, PoolLike
    <3> QED
      BY <3>2, <3>3, Zenon
  <2>8. node.ins[1] \in Value /\ Args(d, node)[1] \in Desc
    BY <2>1, <2>7, ArgsTyped, Zenon
  <2>9. Valid(d[v]) /\ d[v] \in Desc
    BY <2>1, <2>6, <2>8, InferredFlatten, Zenon
  <2>10. ByteSize(d[v]) # 0
    BY <2>9 DEF Valid
  <2>11. ByteSize(d[node.ins[1]]) # 0
    BY <2>3, <2>5, <2>10 DEF Plannable
  <2> QED
    BY <2>3, <2>8, <2>9, <2>10, <2>11, BytesNeedElements
<1>4. ASSUME NEW v \in Intermediates PROVE NumElements(d[v].shape) # 0
  <2>1. CASE v \in ViewValues
    BY <1>3, <2>1 DEF ViewValues
  <2>2. CASE v \notin ViewValues
    <3>1. v \in Value
      BY <1>1 DEF Intermediates
    <3> QED
      BY <2>2, <3>1, BytesNeedElements DEF Plannable
  <2> QED
    BY <2>1, <2>2
<1> QED
  BY <1>3, <1>4 DEF Views, IsView

(* Active descriptions are within those at the max point.                  *)
LEMMA ActiveWithinMax ==
  ASSUME LaunchInv, Validated, ViewsInside, ShapesInRange, ConstantWeights,
         NEW d \in AtShapes(shapes), NEW e \in AtPoint("max"), Plannable(e)
  PROVE  /\ d \in [Value -> Desc] /\ e \in [Value -> Desc]
         /\ \A v \in Value : Within(d[v], e[v])
         /\ \A v \in Intermediates : v \in Value /\ NumElements(e[v].shape) # 0
<1> DEFINE atMax == [v \in model.inputs |-> model.profile[v]["max"]]
           a == Described(shapes)
           b == Described(atMax)
<1>1. /\ model.inputs \subseteq Value /\ model.descs \in [Value -> Desc] /\ Graph(Nodes)
      /\ \A i \in DOMAIN Nodes : Nodes[i].out \notin model.inputs /\ Nodes[i].out \in Value
  BY ModelTyped
<1>2. \A v \in model.inputs : /\ shapes[v] \in Seq(Int) /\ InRange(v, shapes[v])
                              /\ atMax[v] \in Seq(Int) /\ WithinShape(shapes[v], atMax[v])
  BY RangePoints DEF ShapesInRange
<1>3. /\ a \in [Value -> Desc] /\ AtShapes(shapes) = InferAll(Nodes, a)
      /\ b \in [Value -> Desc] /\ AtShapes(atMax) = InferAll(Nodes, b)
  BY <1>2, GivenTyped
<1>4. d \in InferAll(Nodes, a) /\ e \in InferAll(Nodes, b)
  BY <1>3 DEF AtPoint
<1>5. ASSUME NEW v \in Value
      PROVE  IF v \in model.inputs
             THEN /\ a[v] = [model.descs[v] EXCEPT !.shape = shapes[v]]
                  /\ b[v] = [model.descs[v] EXCEPT !.shape = atMax[v]]
             ELSE a[v] = b[v]
  BY DEF Described
<1> HIDE DEF atMax, a, b
<1>6. ASSUME NEW v \in Value PROVE Within(a[v], b[v])
  <2>1. CASE v \in model.inputs
    <3>1. model.descs[v] \in Desc
      BY <1>1
    <3>2. /\ a[v].shape = shapes[v] /\ b[v].shape = atMax[v]
          /\ a[v].dtype = b[v].dtype /\ a[v].layout = b[v].layout
      BY <1>5, <2>1, <3>1 DEF Desc
    <3> QED
      BY <1>2, <2>1, <3>2 DEF Within
  <2>2. CASE v \notin model.inputs
    BY <1>5, <2>2 DEF Within, WithinShape
  <2> QED
    BY <2>1, <2>2
<1>7. /\ d \in [Value -> Desc] /\ e \in [Value -> Desc]
      /\ InferredUpTo(Nodes, b, Len(Nodes), e)
  BY <1>1, <1>3, <1>4, InferAllSound
<1>8. \A i \in DOMAIN Nodes : e[Nodes[i].out] \in Infer(Nodes[i], Args(e, Nodes[i]))
  <2>1. DOMAIN Nodes = 1..Len(Nodes)
    BY <1>1 DEF Graph
  <2> QED
    BY <1>7, <2>1, Zenon DEF InferredUpTo
<1>9. /\ \A v \in Intermediates : NumElements(e[v].shape) # 0
      /\ \A i \in DOMAIN Nodes : Nodes[i].op = "Flatten" =>
           NumElements(e[Nodes[i].ins[1]].shape) # 0
  BY <1>7, <1>8, ElementsAtMax
<1>10. \A v \in Intermediates : v \in Value
  BY <1>1 DEF Intermediates
<1>11. ASSUME NEW i \in DOMAIN Nodes, Nodes[i].op \in ConvLike, 2 \in DOMAIN Nodes[i].ins
       PROVE  Given(Nodes, Nodes[i].ins[2]) /\ a[Nodes[i].ins[2]] = b[Nodes[i].ins[2]]
  <2>1. Nodes[i].ins[2] \notin model.inputs /\ Given(Nodes, Nodes[i].ins[2])
    BY <1>11 DEF ConstantWeights
  <2>2. Nodes[i].ins[2] \in Value
    <3>1. Nodes[i].ins \in Seq(Value)
      BY <1>1 DEF Graph, TypedNode
    <3> QED
      BY <1>11, <3>1, ElementsIn
  <2> QED
    BY <1>5, <2>1, <2>2
<1>12. \A v \in Value : Within(d[v], e[v])
  BY <1>1, <1>3, <1>4, <1>6, <1>9, <1>11, AllWithin, Zenon
<1> QED
  BY <1>7, <1>9, <1>10, <1>12

(* Whatever shape within the profile is active, what a launch uses of an   *)
(* intermediate fits the bytes reserved for it at the max point, if the    *)
(* convolutions' weights are constants and a size_t counts the bytes.      *)
THEOREM LaunchFitsPlan ==
  Spec => [](ConstantWeights /\ FitsAddressSpace(Intermediates) => ActiveFitsPlan)
<1>1. LaunchInv /\ ConstantWeights /\ FitsAddressSpace(Intermediates) => ActiveFitsPlan
  <2> SUFFICES ASSUME LaunchInv, ConstantWeights, FitsAddressSpace(Intermediates), Launched,
                      NEW v \in Intermediates
               PROVE  Volume(descs[v].shape) * ElementSize(descs[v].dtype) <= plan[v]
    BY DEF ActiveFitsPlan
  <2>1. /\ Validated /\ ViewsInside /\ PlannedAtMax /\ ShapesInRange
        /\ descs \in AtShapes(shapes)
    BY DEF LaunchInv, Launched, Planned, Compiled
  <2>2. PICK e \in AtPoint("max") : Plannable(e) /\ plan = Reserved(e)
    BY <2>1 DEF PlannedAtMax
  <2>3. /\ descs \in [Value -> Desc] /\ e \in [Value -> Desc] /\ v \in Value
        /\ Within(descs[v], e[v]) /\ NumElements(e[v].shape) # 0
    BY <2>1, <2>2, ActiveWithinMax
  <2>4. descs[v].shape \in Seq(Int) /\ e[v].shape \in Seq(Int)
    BY <2>3 DEF Desc
  <2> DEFINE small == Volume(descs[v].shape)
             large == Volume(e[v].shape)
             size == ElementSize(e[v].dtype)
  <2>5. small \in Nat /\ small <= large
    BY <2>3, <2>4, VolumeGrows DEF Within
  <2>6. NumElements(e[v].shape) = large /\ large \in 1..Int64Max
    BY <2>3, <2>4, ElementsAreVolume
  <2>7. size \in Nat /\ ElementSize(descs[v].dtype) = size
    BY <2>3 DEF ElementSize, Within
  <2>8. plan[v] = ((large * size) % SizeModulus) /\ large * size < SizeModulus
    <3>1. plan[v] = ByteSize(e[v])
      BY <2>2, <2>3 DEF Reserved
    <3>2. NumElements(e[v].shape) * size < SizeModulus
      BY <2>2 DEF FitsAddressSpace
    <3> QED
      BY <2>6, <3>1, <3>2 DEF ByteSize
  <2> HIDE DEF small, large, size
  <2>9. small * size <= large * size /\ large * size \in Nat
    BY <2>5, <2>6, <2>7, ProductGrows, WidthAssumption
  <2>10. ((large * size) % SizeModulus) = large * size
    <3>1. \A m \in Nat \ {0} : \A n \in 0..(m - 1) : n = 0 * m + n
      OBVIOUS
    <3>2. SizeModulus \in Nat \ {0} /\ large * size \in 0..(SizeModulus - 1)
      BY <2>8, <2>9, WidthAssumption
    <3> QED
      BY <3>1, <3>2, DivisionUnique
  <2> QED
    BY <2>7, <2>8, <2>9, <2>10 DEF small, large, size
<1> QED
  BY <1>1, LaunchInvariant, PTL
-----------------------------------------------------------------------------
(* Shapes between two that have elements.                                  *)

(* A smaller shape than one with elements has elements, and no more.       *)
LEMMA ElementsWithin ==
  ASSUME NEW a \in Seq(Int), NEW b \in Seq(Int), WithinShape(a, b), NumElements(b) # 0
  PROVE  NumElements(a) \in 1..NumElements(b) /\ NumElements(b) \in 1..Int64Max
<1> DEFINE n == Len(b)
<1>1. n \in Nat /\ Len(a) = n /\ DOMAIN b = 1..n /\ Int64Max \in Nat
  BY WidthAssumption DEF WithinShape
<1>2. PICK f : Counts(a, f) /\ NumElements(a) = IF a = <<>> THEN 0 ELSE f[n]
  BY <1>1, NumElementsUnfolds
<1>3. PICK count \in [0..n -> 1..Int64Max] :
        /\ count[0] = 1 /\ NumElements(b) = count[n]
        /\ \A i \in 1..n : count[i] = count[i - 1] * b[i]
  BY CountsPositive
<1>4. /\ f[0] = 1
      /\ \A i \in 1..n : f[i] = IF a[i] <= 0 \/ f[i - 1] > Int64Max \div a[i] THEN 0
                                ELSE f[i - 1] * a[i]
  BY <1>1, <1>2, Zenon DEF Counts
<1>5. \A i \in 1..n : a[i] \in Nat \ {0} /\ b[i] \in Nat \ {0} /\ a[i] <= b[i]
  <2>1. \A i \in 1..n : b[i] \in Nat \ {0}
    BY CountsPositive
  <2>2. \A i \in 1..n : a[i] \in Int
    BY <1>1
  <2>3. \A i \in 1..n : a[i] = b[i] \/ (0 < a[i] /\ a[i] <= b[i])
    BY <1>1, Zenon DEF WithinShape
  <2> HIDE DEF n
  <2> QED
    BY <2>1, <2>2, <2>3
<1>6. a # <<>>
  <2>1. b # <<>>
    BY NumElementsUnfolds
  <2>2. \A s \in Seq(Int) : s = <<>> <=> Len(s) = 0
    OBVIOUS
  <2> QED
    BY <1>1, <2>1, <2>2, Zenon
<1> HIDE DEF n
<1> DEFINE S == {i \in Nat : i <= n => f[i] \in 1..count[i]}
<1>7. 0 \in S
  BY <1>3, <1>4
<1>8. ASSUME NEW i \in Nat, i \in S PROVE i + 1 \in S
  <2> SUFFICES ASSUME i + 1 <= n PROVE f[i + 1] \in 1..count[i + 1]
    OBVIOUS
  <2> DEFINE k == i + 1
  <2>1. k \in 1..n /\ k - 1 = i /\ k \in 0..n /\ i \in 0..n /\ f[i] \in 1..count[i]
    BY <1>1, <1>8
  <2> HIDE DEF k
  <2>2. /\ f[k] = IF a[k] <= 0 \/ f[i] > Int64Max \div a[k] THEN 0 ELSE f[i] * a[k]
        /\ count[k] = count[i] * b[k] /\ count[k] \in 1..Int64Max /\ count[i] \in 1..Int64Max
    BY <1>3, <1>4, <2>1
  <2>3. a[k] \in Nat \ {0} /\ b[k] \in Nat \ {0} /\ a[k] <= b[k]
    BY <1>5, <2>1
  <2>4. f[i] \in Nat \ {0} /\ count[i] \in Nat /\ f[i] <= count[i]
    BY <2>1, <2>2
  <2>5. f[i] * a[k] <= count[k] /\ f[i] * a[k] \in Nat /\ f[i] * a[k] > 0
    <3>1. f[i] * a[k] <= count[i] * b[k] /\ f[i] * a[k] \in Nat
      BY <2>3, <2>4, ProductGrows
    <3>2. f[i] * a[k] > 0
      BY <2>3, <2>4, ProductBound
    <3> QED
      BY <2>2, <3>1, <3>2, Zenon
  <2>6. f[i] <= Int64Max \div a[k]
    <3>1. f[i] * a[k] <= Int64Max
      <4>1. \A x, y, m \in Nat : x <= y /\ y \in 1..m => x <= m
        OBVIOUS
      <4>2. count[k] \in Nat
        BY <2>2
      <4> QED
        BY <1>1, <2>2, <2>5, <4>1, <4>2, Zenon
    <3> QED
      BY <1>1, <2>3, <2>4, <3>1, DivisionBounds
  <2>7. f[k] = f[i] * a[k]
    <3>1. \A x \in Nat : \A y \in Nat \ {0} : x \div y \in Int
      OBVIOUS
    <3> DEFINE most == Int64Max \div a[k]
    <3>2. most \in Int
      BY <1>1, <2>3, <3>1, Zenon
    <3>3. ~(a[k] <= 0) /\ ~(f[i] > most)
      <4>1. a[k] \in Int /\ f[i] \in Int /\ 0 < a[k] /\ f[i] <= most
        BY <2>3, <2>4, <2>6
      <4> HIDE DEF most
      <4> QED
        BY <3>2, <4>1
    <3> QED
      BY <2>2, <3>3, Zenon
  <2> DEFINE p == f[i] * a[k]
  <2> HIDE DEF p
  <2>8. f[k] = p /\ p \in Nat /\ p > 0 /\ p <= count[k]
    BY <2>5, <2>7 DEF p
  <2> QED
    BY <2>2, <2>8 DEF k
<1>9. n \in S
  <2> HIDE DEF S
  <2>1. Nat \subseteq S
    BY <1>7, <1>8, SetInduction
  <2> QED
    BY <1>1, <2>1
<1>10. f[n] \in 1..count[n] /\ count[n] \in 1..Int64Max
  BY <1>1, <1>9
<1> QED
  BY <1>2, <1>3, <1>6, <1>10

(* What the axes from one to another hold, times what those before do.     *)
LEMMA ProductCounts ==
  ASSUME NEW a \in Seq(Int), NEW count \in [0..Len(a) -> 1..Int64Max], count[0] = 1,
         \A i \in 1..Len(a) : a[i] \in Nat \ {0} /\ count[i] = count[i - 1] * a[i],
         NEW axis \in 0..Len(a), NEW end \in axis..Len(a)
  PROVE  /\ Product(a, axis + 1, end) \in 1..Int64Max
         /\ Product(a, axis + 1, end) * count[axis] = count[end]
<1> DEFINE n == Len(a)
           first == axis + 1
<1>1. /\ n \in Nat /\ Int64Max \in Nat \ {0} /\ first \in Nat \ {0} /\ end \in 0..n
      /\ axis \in 0..n /\ axis \in Nat /\ end \in Nat /\ axis <= end
  BY WidthAssumption
<1>2. PICK g : Products(a, first, end, g) /\ Product(a, first, end) = g[end]
  BY <1>1, ProductUnfolds
<1>3. /\ g[0] = 1
      /\ \A i \in 1..end : g[i] = IF i < first THEN 1 ELSE IF a[i] <= 0 THEN 0
                                   ELSE Int64(g[i - 1] * a[i])
  BY <1>2, Zenon DEF Products
<1>4. /\ \A i \in 0..n : count[i] \in 1..Int64Max
      /\ \A i \in 1..n : a[i] \in Nat \ {0} /\ count[i] = count[i - 1] * a[i]
  OBVIOUS
<1> HIDE DEF n, first
<1> DEFINE Split(i) == IF i <= axis THEN g[i] = 1
                       ELSE g[i] \in 1..Int64Max /\ g[i] * count[axis] = count[i]
           S == {i \in Nat : i <= end => Split(i)}
<1>5. 0 \in S
  BY <1>1, <1>3
<1>6. ASSUME NEW i \in Nat, i \in S PROVE i + 1 \in S
  <2> SUFFICES ASSUME i + 1 <= end PROVE Split(i + 1)
    OBVIOUS
  <2> DEFINE k == i + 1
  <2>1. /\ k \in 1..end /\ k \in 1..n /\ k - 1 = i /\ k \in 0..n /\ i \in 0..n /\ k \in Nat
        /\ Split(i)
    BY <1>1, <1>6
  <2>2. (k < first) = (k <= axis) /\ (k > axis => i >= axis)
    BY <1>1 DEF first
  <2> HIDE DEF k
  <2>3. /\ g[k] = IF k < first THEN 1 ELSE IF a[k] <= 0 THEN 0 ELSE Int64(g[i] * a[k])
        /\ a[k] \in Nat \ {0} /\ count[k] = count[i] * a[k]
        /\ count[k] \in 1..Int64Max /\ count[i] \in 1..Int64Max /\ count[axis] \in 1..Int64Max
    BY <1>1, <1>3, <1>4, <2>1
  <2>4. CASE k <= axis
    BY <2>2, <2>3, <2>4 DEF k
  <2>5. CASE ~(k <= axis)
    <3>1. g[k] = Int64(g[i] * a[k])
      BY <2>2, <2>3, <2>5
    <3>2. g[i] \in Nat \ {0} /\ g[i] * count[axis] = count[i]
      <4>1. CASE i <= axis
        <5>1. i = axis
          BY <1>1, <2>1, <2>2, <2>5, <4>1
        <5> QED
          BY <2>1, <2>3, <4>1, <5>1
      <4>2. CASE ~(i <= axis)
        BY <1>1, <2>1, <4>2
      <4> QED
        BY <4>1, <4>2
    <3> DEFINE p == g[i] * a[k]
               c == count[axis]
    <3>3. p \in Nat \ {0} /\ p * c = count[k]
      <4>1. p \in Nat /\ p > 0
        <5>1. g[i] \in Nat /\ g[i] > 0 /\ a[k] \in Nat \ {0}
          BY <2>3, <3>2
        <5> QED
          BY <5>1, ProductBound, Zenon
      <4>2. \A x, y, z \in Nat : (x * y) * z = (x * z) * y
        OBVIOUS
      <4>3. (g[i] * a[k]) * count[axis] = (g[i] * count[axis]) * a[k]
        <5>1. g[i] \in Nat
          BY <3>2
        <5>2. a[k] \in Nat
          BY <2>3
        <5>3. count[axis] \in Nat
          BY <1>1, <2>3
        <5> QED
          BY <4>2, <5>1, <5>2, <5>3, Zenon
      <4> QED
        BY <2>3, <3>2, <4>1, <4>3
    <3> HIDE DEF p
    <3>4. c \in Nat \ {0}
      BY <2>3
    <3> HIDE DEF c
    <3>5. p <= count[k]
      BY <3>3, <3>4, ProductBound
    <3>6. p \in 0..Int64Max
      BY <1>1, <2>3, <3>3, <3>5
    <3>7. g[k] = p
      BY <3>1, <3>6, Int64Fits DEF p
    <3> QED
      BY <1>1, <2>5, <3>3, <3>6, <3>7 DEF k, c
  <2> QED
    BY <2>4, <2>5
<1>7. Split(end)
  <2> HIDE DEF Split
  <2>1. 0 \in S /\ \A i \in Nat : i \in S => i + 1 \in S
    BY <1>5, <1>6
  <2> HIDE DEF S
  <2>2. Nat \subseteq S
    BY <2>1, SetInduction
  <2> QED
    BY <1>1, <2>2 DEF S
<1>8. g[end] \in 1..Int64Max /\ g[end] * count[axis] = count[end]
  <2>1. CASE end <= axis
    <3>1. end = axis /\ count[axis] \in Nat
      BY <1>1, <1>4, <2>1
    <3> QED
      BY <1>1, <1>7, <2>1, <3>1
  <2>2. CASE ~(end <= axis)
    BY <1>7, <2>2
  <2> QED
    BY <2>1, <2>2
<1> QED
  BY <1>2, <1>8 DEF first

(* A pair has as many elements as the product of its dimensions.           *)
LEMMA PairElements ==
  ASSUME NEW p \in Nat \ {0}, NEW q \in Nat \ {0}, p * q <= Int64Max
  PROVE  NumElements(<<p, q>>) = p * q
<1> DEFINE shape == <<p, q>>
<1>1. /\ shape \in Seq(Int) /\ shape # <<>> /\ shape[1] = p /\ shape[2] = q
      /\ Len(shape) = 2 /\ 1 \in 1..Len(shape) /\ 2 \in 1..Len(shape)
  OBVIOUS
<1> HIDE DEF shape
<1>2. PICK f : /\ Counts(shape, f)
               /\ NumElements(shape) = IF shape = <<>> THEN 0 ELSE f[Len(shape)]
  BY <1>1, NumElementsUnfolds
<1> DEFINE Times(i, c) == IF shape[i] <= 0 \/ c > Int64Max \div shape[i] THEN 0 ELSE c * shape[i]
<1>3. f[0] = 1 /\ f[1] = Times(1, f[1 - 1]) /\ f[2] = Times(2, f[2 - 1])
  BY <1>1, <1>2, Zenon DEF Counts
<1>4. 1 - 1 = 0 /\ 2 - 1 = 1
  OBVIOUS
<1>5. ASSUME NEW i, shape[i] \in Nat \ {0}, NEW c \in Nat, c * shape[i] <= Int64Max
      PROVE  Times(i, c) = c * shape[i]
  <2> DEFINE most == Int64Max \div shape[i]
  <2>1. c <= most
    BY <1>5, DivisionBounds, WidthAssumption
  <2>2. most \in Int
    <3>1. \A x \in Nat : \A y \in Nat \ {0} : x \div y \in Int
      OBVIOUS
    <3> QED
      BY <1>5, <3>1, WidthAssumption
  <2>3. ~(shape[i] <= 0) /\ ~(c > most)
    <3> HIDE DEF most
    <3> QED
      BY <1>5, <2>1, <2>2
  <2> QED
    BY <2>3, Zenon
<1>6. p <= p * q /\ 1 * p = p /\ p \in Nat /\ p * q \in Nat
  BY ProductBound
<1>7. f[1] = p
  <2>1. 1 * p <= Int64Max
    BY <1>6, WidthAssumption
  <2>2. Times(1, 1) = 1 * p
    BY <1>1, <1>5, <2>1
  <2> HIDE DEF Times
  <2> QED
    BY <1>3, <1>4, <1>6, <2>2
<1>8. f[2] = p * q
  <2>1. Times(2, p) = p * q
    BY <1>1, <1>5, <1>6
  <2> HIDE DEF Times
  <2> QED
    BY <1>3, <1>4, <1>7, <2>1
<1> QED
  BY <1>1, <1>2, <1>8 DEF shape

(* Flatten keeps the number of elements of a shape that has any.           *)
LEMMA FlattenKeeps ==
  ASSUME NEW a \in Seq(Int), NumElements(a) # 0, NEW axis \in 0..Len(a)
  PROVE  /\ NumElements(<<Product(a, 1, axis), Product(a, axis + 1, Len(a))>>) = NumElements(a)
         /\ Product(a, 1, axis) \in Nat \ {0} /\ Product(a, axis + 1, Len(a)) \in Nat \ {0}
<1> DEFINE n == Len(a)
           p == Product(a, 1, axis)
           q == Product(a, axis + 1, n)
<1>1. PICK count \in [0..n -> 1..Int64Max] :
        /\ count[0] = 1 /\ NumElements(a) = count[n]
        /\ \A i \in 1..n : count[i] = count[i - 1] * a[i]
  BY CountsPositive
<1>2. \A i \in 1..n : a[i] \in Nat \ {0} /\ count[i] = count[i - 1] * a[i]
  BY <1>1, CountsPositive
<1>3. n \in Nat /\ 0 \in 0..n /\ axis \in 0..axis /\ n \in axis..n /\ axis \in 0..n /\ 0 + 1 = 1
  <2>1. n \in Nat
    OBVIOUS
  <2> HIDE DEF n
  <2> QED
    BY <2>1 DEF n
<1>4. ASSUME NEW from \in 0..n, NEW end \in from..n
      PROVE  /\ Product(a, from + 1, end) \in 1..Int64Max
             /\ Product(a, from + 1, end) * count[from] = count[end]
  BY <1>1, <1>2, <1>4, ProductCounts
<1>5. p \in 1..Int64Max /\ p * count[0] = count[axis]
  <2>1. axis \in 0..n
    BY <1>3
  <2>2. Product(a, 0 + 1, axis) \in 1..Int64Max /\ Product(a, 0 + 1, axis) * count[0] = count[axis]
    <3> HIDE DEF n, p, q
    <3> QED
      BY <1>3, <1>4, <2>1
  <2> QED
    BY <1>3, <2>2
<1>6. q \in 1..Int64Max /\ q * count[axis] = count[n]
  <2> HIDE DEF n
  <2> QED
    BY <1>3, <1>4 DEF q
<1>7. count[n] \in 1..Int64Max
  <2> HIDE DEF n
  <2> QED
    BY <1>3
<1> HIDE DEF n, p, q
<1>8. p * q = count[n] /\ p \in Nat \ {0} /\ q \in Nat \ {0}
  <2>1. p \in Nat \ {0} /\ q \in Nat \ {0}
    BY <1>5, <1>6, WidthAssumption
  <2>2. p = count[axis]
    BY <1>1, <1>5, <2>1
  <2>3. p * q = q * p
    BY <2>1
  <2> QED
    BY <1>6, <2>1, <2>2, <2>3
<1>9. p * q <= Int64Max
  BY <1>7, <1>8, WidthAssumption
<1>10. NumElements(<<p, q>>) = count[n]
  BY <1>8, <1>9, PairElements
<1> QED
  BY <1>1, <1>8, <1>10 DEF n, p, q

(* A description of some elements that a size_t counts the bytes of.       *)
LEMMA ValidSized ==
  ASSUME NEW q \in Desc, q.dtype # "unknown", q.shape # <<>>,
         \A i \in DOMAIN q.shape : q.shape[i] > 0,
         NEW most \in Nat, NumElements(q.shape) \in 1..most,
         most * ElementSize(q.dtype) < SizeModulus
  PROVE  Valid(q)
<1> DEFINE n == NumElements(q.shape)
           size == ElementSize(q.dtype)
<1>1. size \in Nat \ {0}
  <2>1. q.dtype \in {"float32", "float16"}
    BY DEF Desc
  <2> QED
    BY <2>1 DEF ElementSize
<1> HIDE DEF n, size
<1>2. n \in Nat /\ n > 0 /\ n <= most /\ most * size < SizeModulus
  BY DEF n, size
<1>3. n * size <= most * size /\ n * size \in Nat /\ most * size \in Nat /\ n * size > 0
  BY <1>1, <1>2, ProductGrows, ProductBound
<1>4. ((n * size) % SizeModulus) = n * size
  <2>1. \A m \in Nat \ {0} : \A k \in 0..(m - 1) : k = 0 * m + k
    OBVIOUS
  <2>2. SizeModulus \in Nat \ {0} /\ n * size \in 0..(SizeModulus - 1)
    BY <1>2, <1>3, WidthAssumption
  <2> QED
    BY <2>1, <2>2, DivisionUnique
<1>5. ByteSize(q) # 0
  BY <1>3, <1>4 DEF ByteSize, n, size
<1> QED
  BY <1>5 DEF Valid

(* One between two valid ones.                                             *)
LEMMA ValidBetween ==
  ASSUME NEW r \in Desc, NEW q \in Desc, NEW t \in Desc, Within(r, q), Within(q, t),
         Valid(r), Valid(t), NumElements(t.shape) * ElementSize(t.dtype) < SizeModulus
  PROVE  Valid(q)
<1>1. r.shape \in Seq(Int) /\ q.shape \in Seq(Int) /\ t.shape \in Seq(Int)
  BY DEF Desc
<1>2. NumElements(t.shape) # 0 /\ t.dtype # "unknown" /\ t.shape # <<>>
  BY BytesNeedElements DEF Valid
<1>3. NumElements(q.shape) \in 1..NumElements(t.shape) /\ NumElements(t.shape) \in Nat
  BY <1>1, <1>2, ElementsWithin, WidthAssumption DEF Within
<1>4. q.dtype = t.dtype /\ q.dtype # "unknown"
  BY <1>2 DEF Within
<1>5. q.shape # <<>>
  <2>1. NumElements(<<>>) = 0
    BY DEF NumElements
  <2> QED
    BY <1>3, <2>1
<1>6. ASSUME NEW i \in DOMAIN q.shape PROVE q.shape[i] > 0
  <2>1. WithinSize(r.shape[i], q.shape[i]) /\ i \in DOMAIN r.shape
    BY WithinSizes DEF Within, WithinShape
  <2>2. r.shape[i] > 0 /\ r.shape[i] \in Int /\ q.shape[i] \in Int
    BY <1>1, <2>1, ValidPositive, ElementsIn
  <2> QED
    BY <2>1, <2>2 DEF WithinSize
<1> QED
  BY <1>3, <1>4, <1>5, <1>6, ValidSized

(* What a sliding window makes of x: second output channels or channels as *)
(* x has, and the windows of that kernel along both axes.                  *)
Slid(node, strides, x, second, kernel, q) ==
  /\ q \in Desc /\ q.dtype = x.dtype /\ q.layout = x.layout
  /\ Len(x.shape) = 4 /\ Len(q.shape) = 4 /\ q.shape[1] = x.shape[1] /\ q.shape[2] = second
  /\ \A axis \in 1..2 :
       /\ kernel[axis] \in Int
       /\ q.shape[axis + 2] = Windows(node, strides, x.shape[axis + 2], kernel[axis], axis)

(* Of a smaller image it makes less.                                       *)
LEMMA SlidWithin ==
  ASSUME NEW node, NEW strides, Windowed(node, strides), NEW x \in Desc, NEW y \in Desc,
         Within(x, y), NEW c, NEW d, WithinSize(c, d), NEW kernel, NEW r, NEW q,
         Slid(node, strides, x, c, kernel, r), Slid(node, strides, y, d, kernel, q),
         \A i \in DOMAIN r.shape : r.shape[i] > 0
  PROVE  Within(r, q)
<1>1. /\ r \in Desc /\ r.dtype = x.dtype /\ r.layout = x.layout
      /\ Len(x.shape) = 4 /\ Len(r.shape) = 4 /\ r.shape[1] = x.shape[1] /\ r.shape[2] = c
      /\ \A axis \in 1..2 :
           /\ kernel[axis] \in Int
           /\ r.shape[axis + 2] = Windows(node, strides, x.shape[axis + 2], kernel[axis], axis)
  BY DEF Slid
<1>2. /\ q \in Desc /\ q.dtype = y.dtype /\ q.layout = y.layout
      /\ Len(y.shape) = 4 /\ Len(q.shape) = 4 /\ q.shape[1] = y.shape[1] /\ q.shape[2] = d
      /\ \A axis \in 1..2 :
           q.shape[axis + 2] = Windows(node, strides, y.shape[axis + 2], kernel[axis], axis)
  BY DEF Slid
<1>3. /\ x.shape \in Seq(Int) /\ y.shape \in Seq(Int)
      /\ r.shape \in Seq(Int) /\ q.shape \in Seq(Int)
  BY <1>1, <1>2 DEF Desc
<1>4. \A i \in 1..4 : /\ x.shape[i] \in Int /\ y.shape[i] \in Int
                      /\ i \in DOMAIN y.shape /\ i \in DOMAIN r.shape
  BY <1>1, <1>2, <1>3, FourElements
<1>5. \A i \in 1..4 : WithinSize(x.shape[i], y.shape[i])
  BY <1>4, WithinSizes DEF Within
<1>6. ASSUME NEW axis \in 1..2 PROVE WithinSize(r.shape[axis + 2], q.shape[axis + 2])
  <2> DEFINE i == axis + 2
  <2>1. i \in 1..4
    OBVIOUS
  <2> HIDE DEF i
  <2>2. r.shape[i] > 0
    BY <1>4, <2>1
  <2>3. /\ r.shape[i] = Windows(node, strides, x.shape[i], kernel[axis], axis)
        /\ q.shape[i] = Windows(node, strides, y.shape[i], kernel[axis], axis)
        /\ kernel[axis] \in Int
    BY <1>1, <1>2 DEF i
  <2>4. x.shape[i] \in Int /\ y.shape[i] \in Int /\ WithinSize(x.shape[i], y.shape[i])
    BY <1>4, <1>5, <2>1
  <2>5. WithinSize(r.shape[i], q.shape[i])
    BY <2>2, <2>3, <2>4, WindowsWithin
  <2> QED
    BY <2>5 DEF i
<1>7. /\ WithinSize(r.shape[1], q.shape[1]) /\ WithinSize(r.shape[2], q.shape[2])
      /\ WithinSize(r.shape[3], q.shape[3]) /\ WithinSize(r.shape[4], q.shape[4])
  <2>1. 1 \in 1..4 /\ 1 \in 1..2 /\ 2 \in 1..2 /\ 1 + 2 = 3 /\ 2 + 2 = 4
    OBVIOUS
  <2>2. WithinSize(r.shape[1 + 2], q.shape[1 + 2]) /\ WithinSize(r.shape[2 + 2], q.shape[2 + 2])
    BY <1>6
  <2>3. WithinSize(r.shape[3], q.shape[3]) /\ WithinSize(r.shape[4], q.shape[4])
    BY <2>2
  <2> QED
    BY <1>1, <1>2, <1>5, <2>1, <2>3
<1>8. WithinShape(r.shape, q.shape)
  BY <1>1, <1>2, <1>3, <1>7, FourWithin
<1> QED
  BY <1>1, <1>2, <1>8 DEF Within

(* Between two images of which it makes valid ones.                        *)
LEMMA SlidBetween ==
  ASSUME NEW node, NEW strides, Windowed(node, strides),
         NEW x \in Desc, NEW y \in Desc, NEW z \in Desc, Within(x, y), Within(y, z),
         NEW c, NEW d, NEW e, WithinSize(c, d), WithinSize(d, e), NEW kernel,
         NEW r, NEW q, NEW t, Slid(node, strides, x, c, kernel, r),
         Slid(node, strides, y, d, kernel, q), Slid(node, strides, z, e, kernel, t),
         Valid(r), Valid(t), NumElements(t.shape) * ElementSize(t.dtype) < SizeModulus
  PROVE  Valid(q)
<1>1. r \in Desc /\ q \in Desc /\ t \in Desc
  BY DEF Slid
<1>2. \A i \in DOMAIN r.shape : r.shape[i] > 0
  BY DEF Valid
<1>3. Within(r, q)
  BY <1>2, SlidWithin
<1>4. ASSUME NEW i \in DOMAIN q.shape PROVE q.shape[i] > 0
  <2>1. WithinSize(r.shape[i], q.shape[i]) /\ i \in DOMAIN r.shape
    BY <1>3, WithinSizes DEF Within, WithinShape
  <2>2. r.shape[i] > 0 /\ r.shape[i] \in Int /\ q.shape[i] \in Int
    <3>1. r.shape \in Seq(Int) /\ q.shape \in Seq(Int)
      BY <1>1 DEF Desc
    <3> QED
      BY <1>2, <2>1, <3>1, ElementsIn
  <2> QED
    BY <2>1, <2>2 DEF WithinSize
<1>5. Within(q, t)
  BY <1>4, SlidWithin
<1> QED
  BY <1>1, <1>3, <1>5, ValidBetween

(* Convolutions.                                                           *)
LEMMA ConvBetween ==
  ASSUME NEW node, TypedNode(node), NEW x \in Desc, NEW y \in Desc, NEW z \in Desc,
         NEW w \in Desc, Within(x, y), Within(y, z),
         NEW r \in InferConvLike(node, x, w), NEW t \in InferConvLike(node, z, w),
         NumElements(t.shape) * ElementSize(t.dtype) < SizeModulus
  PROVE  InferConvLike(node, y, w) # {}
<1> DEFINE strides == Strides(node)
           kernel == [axis \in 1..2 |-> w.shape[axis + 2]]
           f == [axis \in 1..2 |-> Windows(node, strides, y.shape[axis + 2],
                                           w.shape[axis + 2], axis)]
           shape == <<y.shape[1], w.shape[1]>> \o [axis \in 1..2 |-> f[axis]]
           q == [y EXCEPT !.shape = shape]
<1>1. /\ Len(w.shape) = 4 /\ Windowed(node, strides) /\ Valid(r) /\ Valid(t)
      /\ Len(x.shape) = 4 /\ Len(y.shape) = 4
  BY InferredConv DEF Within, WithinShape
<1>2. x.shape \in Seq(Int) /\ y.shape \in Seq(Int) /\ w.shape \in Seq(Int)
  BY DEF Desc
<1>3. InferConvLike(node, y, w) = Checked(q)
  BY <1>1 DEF InferConvLike, Windowed
<1>4. \A axis \in 1..2 : kernel[axis] = w.shape[axis + 2] /\ kernel[axis] \in Int
  <2>1. \A i \in 1..4 : w.shape[i] \in Int
    BY <1>1, <1>2, FourElements
  <2>2. \A axis \in 1..2 : axis + 2 \in 1..4
    OBVIOUS
  <2> QED
    BY <2>1, <2>2
<1>5. ASSUME NEW axis \in 1..2 PROVE f[axis] \in Int
  <2>1. \A i \in 1..4 : y.shape[i] \in Int
    BY <1>1, <1>2, FourElements
  <2>2. axis + 2 \in 1..4
    OBVIOUS
  <2>3. y.shape[axis + 2] \in Int /\ w.shape[axis + 2] \in Int
    BY <1>4, <2>1, <2>2
  <2>4. f[axis] = Windows(node, strides, y.shape[axis + 2], w.shape[axis + 2], axis)
    OBVIOUS
  <2>5. y.shape[axis + 2] <= y.shape[axis + 2]
    BY <2>3
  <2> HIDE DEF f
  <2> QED
    BY <1>1, <2>3, <2>4, <2>5, WindowsGrow
<1>6. \A axis \in 1..2 : f[axis] = Windows(node, strides, y.shape[axis + 2], kernel[axis], axis)
  OBVIOUS
<1>7. Slid(node, strides, x, w.shape[1], kernel, r) /\ Slid(node, strides, z, w.shape[1], kernel, t)
  <2> HIDE DEF kernel
  <2> QED
    BY <1>4, InferredConv DEF Slid
<1> HIDE DEF f, kernel
<1>8. y.shape[1] \in Int /\ w.shape[1] \in Int /\ f[1] \in Int /\ f[2] \in Int
  BY <1>1, <1>2, <1>5, FourElements
<1>9. /\ shape \in Seq(Int) /\ Len(shape) = 4 /\ shape[1] = y.shape[1] /\ shape[2] = w.shape[1]
      /\ \A axis \in 1..2 : shape[axis + 2] = f[axis]
  BY <1>8, FourDimensions
<1> HIDE DEF shape
<1>10. q \in Desc /\ q.shape = shape /\ q.dtype = y.dtype /\ q.layout = y.layout
  BY <1>9 DEF Desc
<1>11. Slid(node, strides, y, w.shape[1], kernel, q)
  <2> HIDE DEF q
  <2> QED
    BY <1>1, <1>4, <1>6, <1>9, <1>10 DEF Slid
<1>12. Valid(q)
  <2> HIDE DEF q
  <2>1. WithinSize(w.shape[1], w.shape[1])
    BY DEF WithinSize
  <2> QED
    BY <1>1, <1>7, <1>11, <2>1, SlidBetween
<1> QED
  BY <1>3, <1>12 DEF Checked

(* Poolings.                                                               *)
LEMMA PoolBetween ==
  ASSUME NEW node, TypedNode(node), NEW x \in Desc, NEW y \in Desc, NEW z \in Desc,
         Within(x, y), Within(y, z),
         NEW r \in InferPool(node, x), NEW t \in InferPool(node, z),
         NumElements(t.shape) * ElementSize(t.dtype) < SizeModulus
  PROVE  InferPool(node, y) # {}
<1> DEFINE strides == PoolStrides(node)
           kernel == PoolKernel(node)
           f == [axis \in 1..2 |-> Windows(node, strides, y.shape[axis + 2], kernel[axis], axis)]
           shape == <<y.shape[1], y.shape[2]>> \o [axis \in 1..2 |-> f[axis]]
           q == [y EXCEPT !.shape = shape]
<1>1. /\ Windowed(node, strides) /\ Valid(r) /\ Valid(t)
      /\ kernel \in Seq(Int) /\ Len(kernel) = 2
      /\ Len(x.shape) = 4 /\ Len(y.shape) = 4 /\ Len(z.shape) = 4
  BY InferredPool DEF Within, WithinShape
<1>2. x.shape \in Seq(Int) /\ y.shape \in Seq(Int) /\ z.shape \in Seq(Int)
  BY DEF Desc
<1>3. InferPool(node, y) = Checked(q)
  BY <1>1 DEF InferPool, Windowed
<1>4. \A axis \in 1..2 : kernel[axis] \in Int
  <2>1. kernel[1] \in Int /\ kernel[2] \in Int
    BY <1>1, TwoElements
  <2>2. \A axis \in 1..2 : axis = 1 \/ axis = 2
    OBVIOUS
  <2> QED
    BY <2>1, <2>2, Zenon
<1>5. ASSUME NEW axis \in 1..2 PROVE f[axis] \in Int
  <2>1. \A i \in 1..4 : y.shape[i] \in Int
    BY <1>1, <1>2, FourElements
  <2>2. axis + 2 \in 1..4
    OBVIOUS
  <2>3. y.shape[axis + 2] \in Int /\ kernel[axis] \in Int
    BY <1>4, <2>1, <2>2
  <2>4. f[axis] = Windows(node, strides, y.shape[axis + 2], kernel[axis], axis)
    OBVIOUS
  <2>5. y.shape[axis + 2] <= y.shape[axis + 2]
    BY <2>3
  <2> HIDE DEF f
  <2> QED
    BY <1>1, <2>3, <2>4, <2>5, WindowsGrow
<1>6. \A axis \in 1..2 : f[axis] = Windows(node, strides, y.shape[axis + 2], kernel[axis], axis)
  OBVIOUS
<1>7. Slid(node, strides, x, x.shape[2], kernel, r) /\ Slid(node, strides, z, z.shape[2], kernel, t)
  BY <1>4, InferredPool DEF Slid
<1> HIDE DEF f, kernel
<1>8. y.shape[1] \in Int /\ y.shape[2] \in Int /\ f[1] \in Int /\ f[2] \in Int
  BY <1>1, <1>2, <1>5, FourElements
<1>9. /\ shape \in Seq(Int) /\ Len(shape) = 4 /\ shape[1] = y.shape[1] /\ shape[2] = y.shape[2]
      /\ \A axis \in 1..2 : shape[axis + 2] = f[axis]
  BY <1>8, FourDimensions
<1> HIDE DEF shape
<1>10. q \in Desc /\ q.shape = shape /\ q.dtype = y.dtype /\ q.layout = y.layout
  BY <1>9 DEF Desc
<1>11. Slid(node, strides, y, y.shape[2], kernel, q)
  <2> HIDE DEF q
  <2> QED
    BY <1>1, <1>4, <1>6, <1>9, <1>10 DEF Slid
<1>12. WithinSize(x.shape[2], y.shape[2]) /\ WithinSize(y.shape[2], z.shape[2])
  <2>1. 2 \in DOMAIN y.shape /\ 2 \in DOMAIN z.shape
    BY <1>1, <1>2, FourElements
  <2> QED
    BY <2>1, WithinSizes DEF Within
<1>13. Valid(q)
  <2> HIDE DEF q
  <2> QED
    BY <1>1, <1>7, <1>11, <1>12, SlidBetween
<1> QED
  BY <1>3, <1>13 DEF Checked

(* Flattening.                                                             *)
LEMMA FlattenBetween ==
  ASSUME NEW node, TypedNode(node), NEW x \in Desc, NEW y \in Desc, NEW z \in Desc,
         Within(x, y), Within(y, z), NumElements(z.shape) # 0,
         NEW r \in InferFlatten(node, x), NEW t \in InferFlatten(node, z),
         NumElements(t.shape) * ElementSize(t.dtype) < SizeModulus
  PROVE  InferFlatten(node, y) # {}
<1> DEFINE rank == Len(y.shape)
           axis == FlattenAxis(node, rank)
           p == Product(y.shape, 1, axis)
           s == Product(y.shape, axis + 1, rank)
           q == [y EXCEPT !.layout = "", !.shape = <<p, s>>]
<1>1. /\ y.shape \in Seq(Int) /\ z.shape \in Seq(Int)
      /\ Len(x.shape) = rank /\ Len(z.shape) = rank /\ WithinShape(y.shape, z.shape)
  BY DEF Desc, Within, WithinShape
<1>2. /\ axis \in 0..rank /\ t.dtype = z.dtype /\ Valid(t)
      /\ t.shape = <<Product(z.shape, 1, axis), Product(z.shape, axis + 1, rank)>>
  BY <1>1, InferredFlatten
<1>3. rank > 0
  <2>1. Len(x.shape) > 0
    BY DEF InferFlatten
  <2> QED
    BY <1>1, <2>1
<1>4. InferFlatten(node, y) = Checked(q)
  BY <1>2, <1>3 DEF InferFlatten, FlattenAxis
<1>5. NumElements(y.shape) \in 1..NumElements(z.shape) /\ NumElements(z.shape) \in 1..Int64Max
  BY <1>1, ElementsWithin
<1>6. NumElements(t.shape) = NumElements(z.shape)
  BY <1>1, <1>2, FlattenKeeps
<1>7. /\ NumElements(<<p, s>>) = NumElements(y.shape)
      /\ p \in Nat \ {0} /\ s \in Nat \ {0}
  <2>1. NumElements(y.shape) # 0
    BY <1>5
  <2> QED
    BY <1>1, <1>2, <2>1, FlattenKeeps
<1>8. t.dtype = y.dtype /\ t.dtype # "unknown"
  BY <1>2 DEF Within, Valid
<1> HIDE DEF p, s
<1>9. /\ q \in Desc /\ q.dtype = y.dtype /\ q.shape = <<p, s>>
  <2> DEFINE shape == <<p, s>>
  <2>1. shape \in Seq(Int)
    BY <1>7
  <2> HIDE DEF shape
  <2>2. q = [y EXCEPT !.layout = "", !.shape = shape]
    BY DEF shape
  <2> HIDE DEF q
  <2>3. q \in Desc /\ q.dtype = y.dtype /\ q.shape = shape
    BY <2>1, <2>2 DEF Desc
  <2> QED
    BY <2>3 DEF shape
<1> HIDE DEF q
<1>10. q.shape # <<>> /\ \A i \in DOMAIN q.shape : q.shape[i] > 0
  BY <1>7, <1>9
<1>11. Valid(q)
  <2> DEFINE most == NumElements(z.shape)
  <2>1. /\ most \in Nat /\ NumElements(q.shape) \in 1..most
        /\ most * ElementSize(q.dtype) < SizeModulus
    <3>1. \A n, m : n \in 1..m => n \in Nat
      OBVIOUS
    <3>2. most \in Nat
      BY <1>5, <3>1, Zenon
    <3> QED
      BY <1>5, <1>6, <1>7, <1>8, <1>9, <3>2, Zenon
  <2> HIDE DEF most
  <2> QED
    BY <1>8, <1>9, <1>10, <2>1, ValidSized
<1> QED
  BY <1>4, <1>11 DEF Checked

(* A shape within another that is within it is that shape.                 *)
LEMMA SameShape ==
  ASSUME NEW a \in Seq(Int), NEW b \in Seq(Int), WithinShape(a, b), WithinShape(b, a)
  PROVE  a = b
<1>1. Len(a) = Len(b) /\ DOMAIN a = DOMAIN b
  BY DEF WithinShape
<1>2. ASSUME NEW i \in DOMAIN b PROVE a[i] = b[i]
  <2>1. WithinSize(a[i], b[i]) /\ WithinSize(b[i], a[i])
    BY <1>1, WithinSizes
  <2>2. a[i] \in Int /\ b[i] \in Int
    BY <1>1, ElementsIn
  <2> QED
    BY <2>1, <2>2 DEF WithinSize
<1>3. \A s \in Seq(Int) : s = [i \in DOMAIN s |-> s[i]]
  OBVIOUS
<1> QED
  BY <1>1, <1>2, <1>3

(* So is a description.                                                    *)
LEMMA SameDesc ==
  ASSUME NEW x \in Desc, NEW y \in Desc, Within(x, y), Within(y, x)
  PROVE  x = y
<1>1. x.shape = y.shape /\ x.dtype = y.dtype /\ x.layout = y.layout
  BY SameShape DEF Within, Desc
<1>2. ASSUME NEW d \in Desc
      PROVE  d = [shape |-> d.shape, dtype |-> d.dtype, layout |-> d.layout]
  <2> DEFINE e == [shape |-> d.shape, dtype |-> d.dtype, layout |-> d.layout]
  <2>1. /\ DOMAIN d = {"shape", "dtype", "layout"} /\ DOMAIN e = {"shape", "dtype", "layout"}
        /\ d = [f \in DOMAIN d |-> d[f]] /\ e = [f \in DOMAIN e |-> e[f]]
    BY DEF Desc
  <2>2. \A f \in {"shape", "dtype", "layout"} : d[f] = e[f]
    OBVIOUS
  <2> QED
    BY <2>1, <2>2
<1>3. /\ x = [shape |-> x.shape, dtype |-> x.dtype, layout |-> x.layout]
      /\ y = [shape |-> y.shape, dtype |-> y.dtype, layout |-> y.layout]
  BY <1>2, Zenon
<1> QED
  BY <1>1, <1>3, Zenon

(* Two sizes that are equal at both ends are equal between, if one stays.  *)
LEMMA SameBetween ==
  ASSUME NEW a \in Int, NEW b \in Int, NEW c \in Int, NEW p \in Int, NEW q \in Int, NEW r \in Int,
         WithinSize(a, b), WithinSize(b, c), WithinSize(p, q), WithinSize(q, r),
         a = p, c = r, (a = b /\ b = c) \/ (p = q /\ q = r)
  PROVE  b = q
BY DEF WithinSize

(* The same for shapes.                                                    *)
LEMMA SameShapesBetween ==
  ASSUME NEW a \in Seq(Int), NEW b \in Seq(Int), NEW c \in Seq(Int),
         NEW p \in Seq(Int), NEW q \in Seq(Int), NEW r \in Seq(Int),
         WithinShape(a, b), WithinShape(b, c), WithinShape(p, q), WithinShape(q, r),
         a = p, c = r, (a = b /\ b = c) \/ (p = q /\ q = r)
  PROVE  b = q
BY SameShape

(* At most one input of an operator varies between three descriptions.     *)
OneVaries(n, as, bs, cs) ==
  \A k, l \in 1..n : k # l => \/ as[k] = bs[k] /\ bs[k] = cs[k]
                              \/ as[l] = bs[l] /\ bs[l] = cs[l]

(* Three descriptions of every input, each within the next.                *)
Chained(n, as, bs, cs) ==
  \A k \in 1..n : /\ as[k] \in Desc /\ bs[k] \in Desc /\ cs[k] \in Desc
                  /\ Within(as[k], bs[k]) /\ Within(bs[k], cs[k])

(* Two inputs' sizes that agree at both ends agree between.                *)
EqualSizes(n, as, bs, cs) ==
  \A k, l \in 1..n : \A i \in DOMAIN bs[k].shape : \A j \in DOMAIN bs[l].shape :
    /\ k # l
    /\ as[k].shape[i] = as[l].shape[j] /\ cs[k].shape[i] = cs[l].shape[j]
    => bs[k].shape[i] = bs[l].shape[j]

(* They do if one of the two inputs does not vary.                         *)
LEMMA SizesAgree ==
  ASSUME NEW n \in Nat, NEW as, NEW bs, NEW cs, Chained(n, as, bs, cs), OneVaries(n, as, bs, cs)
  PROVE  EqualSizes(n, as, bs, cs)
<1> USE DEF EqualSizes
<1> TAKE k, l \in 1..n
<1> TAKE i \in DOMAIN bs[k].shape
<1> TAKE j \in DOMAIN bs[l].shape
<1> HAVE k # l /\ as[k].shape[i] = as[l].shape[j] /\ cs[k].shape[i] = cs[l].shape[j]
<1>1. /\ as[k] \in Desc /\ bs[k] \in Desc /\ cs[k] \in Desc
      /\ Within(as[k], bs[k]) /\ Within(bs[k], cs[k])
      /\ as[l] \in Desc /\ bs[l] \in Desc /\ cs[l] \in Desc
      /\ Within(as[l], bs[l]) /\ Within(bs[l], cs[l])
  BY Zenon DEF Chained
<1>2. (as[k] = bs[k] /\ bs[k] = cs[k]) \/ (as[l] = bs[l] /\ bs[l] = cs[l])
  BY Zenon DEF OneVaries
<1>3. ASSUME NEW x \in Desc, NEW y \in Desc, NEW z \in Desc, Within(x, y), Within(y, z),
             NEW h \in DOMAIN y.shape
      PROVE  /\ x.shape[h] \in Int /\ y.shape[h] \in Int /\ z.shape[h] \in Int
             /\ WithinSize(x.shape[h], y.shape[h]) /\ WithinSize(y.shape[h], z.shape[h])
  <2>1. /\ x.shape \in Seq(Int) /\ y.shape \in Seq(Int) /\ z.shape \in Seq(Int)
        /\ h \in DOMAIN x.shape /\ h \in DOMAIN z.shape
    BY <1>3 DEF Desc, Within, WithinShape
  <2> QED
    BY <1>3, <2>1, ElementsIn, WithinSizes DEF Within
<1>4. /\ as[k].shape[i] \in Int /\ bs[k].shape[i] \in Int /\ cs[k].shape[i] \in Int
      /\ WithinSize(as[k].shape[i], bs[k].shape[i]) /\ WithinSize(bs[k].shape[i], cs[k].shape[i])
  BY <1>1, <1>3, Zenon
<1>5. /\ as[l].shape[j] \in Int /\ bs[l].shape[j] \in Int /\ cs[l].shape[j] \in Int
      /\ WithinSize(as[l].shape[j], bs[l].shape[j]) /\ WithinSize(bs[l].shape[j], cs[l].shape[j])
  BY <1>1, <1>3, Zenon
<1>6. \/ as[k].shape[i] = bs[k].shape[i] /\ bs[k].shape[i] = cs[k].shape[i]
      \/ as[l].shape[j] = bs[l].shape[j] /\ bs[l].shape[j] = cs[l].shape[j]
  BY <1>2
<1> QED
  <2> DEFINE a == as[k].shape[i]
             b == bs[k].shape[i]
             c == cs[k].shape[i]
             p == as[l].shape[j]
             q == bs[l].shape[j]
             r == cs[l].shape[j]
  <2> HIDE DEF a, b, c, p, q, r
  <2>1. /\ a \in Int /\ b \in Int /\ c \in Int /\ WithinSize(a, b) /\ WithinSize(b, c)
        /\ p \in Int /\ q \in Int /\ r \in Int /\ WithinSize(p, q) /\ WithinSize(q, r)
        /\ (a = b /\ b = c) \/ (p = q /\ q = r)
        /\ a = p /\ c = r
    BY <1>4, <1>5, <1>6, Zenon DEF a, b, c, p, q, r
  <2>2. b = q
    BY <2>1, SameBetween
  <2> QED
    BY <2>2 DEF b, q

(* So do two inputs' shapes.                                               *)
EqualShapes(n, as, bs, cs) ==
  \A k, l \in 1..n :
    k # l /\ as[k].shape = as[l].shape /\ cs[k].shape = cs[l].shape
    => bs[k].shape = bs[l].shape

(* They do if one of the two inputs does not vary.                         *)
LEMMA ShapesAgree ==
  ASSUME NEW n \in Nat, NEW as, NEW bs, NEW cs, Chained(n, as, bs, cs), OneVaries(n, as, bs, cs)
  PROVE  EqualShapes(n, as, bs, cs)
<1> SUFFICES ASSUME NEW k \in 1..n, NEW l \in 1..n, k # l,
                    as[k].shape = as[l].shape, cs[k].shape = cs[l].shape
             PROVE  bs[k].shape = bs[l].shape
  BY Zenon DEF EqualShapes
<1>1. /\ as[k] \in Desc /\ bs[k] \in Desc /\ cs[k] \in Desc
      /\ Within(as[k], bs[k]) /\ Within(bs[k], cs[k])
      /\ as[l] \in Desc /\ bs[l] \in Desc /\ cs[l] \in Desc
      /\ Within(as[l], bs[l]) /\ Within(bs[l], cs[l])
  BY Zenon DEF Chained
<1>2. (as[k] = bs[k] /\ bs[k] = cs[k]) \/ (as[l] = bs[l] /\ bs[l] = cs[l])
  BY Zenon DEF OneVaries
<1>3. \A x \in Desc : x.shape \in Seq(Int)
  BY DEF Desc
<1>4. /\ WithinShape(as[k].shape, bs[k].shape) /\ WithinShape(bs[k].shape, cs[k].shape)
      /\ WithinShape(as[l].shape, bs[l].shape) /\ WithinShape(bs[l].shape, cs[l].shape)
  BY <1>1 DEF Within
<1>5. \/ as[k].shape = bs[k].shape /\ bs[k].shape = cs[k].shape
      \/ as[l].shape = bs[l].shape /\ bs[l].shape = cs[l].shape
  BY <1>2, Zenon
<1> QED
  <2> DEFINE a == as[k].shape
             b == bs[k].shape
             c == cs[k].shape
             p == as[l].shape
             q == bs[l].shape
             r == cs[l].shape
  <2> HIDE DEF a, b, c, p, q, r
  <2>1. /\ a \in Seq(Int) /\ b \in Seq(Int) /\ c \in Seq(Int)
        /\ p \in Seq(Int) /\ q \in Seq(Int) /\ r \in Seq(Int)
    BY <1>1, <1>3, Zenon DEF a, b, c, p, q, r
  <2>2. /\ WithinShape(a, b) /\ WithinShape(b, c) /\ WithinShape(p, q) /\ WithinShape(q, r)
        /\ (a = b /\ b = c) \/ (p = q /\ q = r)
        /\ a = p /\ c = r
    BY <1>4, <1>5, Zenon DEF a, b, c, p, q, r
  <2>3. b = q
    BY <2>1, <2>2, SameShapesBetween
  <2> QED
    BY <2>3 DEF b, q

(* The axes of a matrix that are its rows and its columns.                 *)
RowAxis(transposed) == IF transposed THEN 2 ELSE 1
ColumnAxis(transposed) == IF transposed THEN 1 ELSE 2

(* They are axes of every matrix.                                          *)
LEMMA MatrixAxes ==
  ASSUME NEW x \in Desc, Len(x.shape) = 2, NEW transposed \in BOOLEAN
  PROVE  /\ Rows(x.shape, transposed) = x.shape[RowAxis(transposed)]
         /\ Columns(x.shape, transposed) = x.shape[ColumnAxis(transposed)]
         /\ RowAxis(transposed) \in DOMAIN x.shape /\ ColumnAxis(transposed) \in DOMAIN x.shape
         /\ x.shape[RowAxis(transposed)] \in Int /\ x.shape[ColumnAxis(transposed)] \in Int
<1>1. x.shape \in Seq(Int)
  BY DEF Desc
<1>2. x.shape[1] \in Int /\ x.shape[2] \in Int /\ 1 \in DOMAIN x.shape /\ 2 \in DOMAIN x.shape
  BY <1>1, TwoElements
<1>3. /\ Rows(x.shape, transposed) = x.shape[RowAxis(transposed)]
      /\ Columns(x.shape, transposed) = x.shape[ColumnAxis(transposed)]
      /\ RowAxis(transposed) \in {1, 2} /\ ColumnAxis(transposed) \in {1, 2}
  BY Zenon DEF Rows, Columns, RowAxis, ColumnAxis
<1> QED
  BY <1>2, <1>3, Zenon

(* A bias of the columns, or of the whole product.                         *)
Biased(bias, m, n) == bias \in {<<n>>, <<m, n>>}

(* It is one by its length and its elements.                               *)
LEMMA BiasedBy ==
  ASSUME NEW bias \in Seq(Int), NEW m \in Int, NEW n \in Int
  PROVE  Biased(bias, m, n) <=> \/ Len(bias) = 1 /\ bias[1] = n
                                \/ Len(bias) = 2 /\ bias[1] = m /\ bias[2] = n
<1>1. Len(bias) = 1 /\ bias[1] = n => bias = <<n>>
  OBVIOUS
<1>2. Len(bias) = 2 /\ bias[1] = m /\ bias[2] = n => bias = <<m, n>>
  OBVIOUS
<1>3. bias = <<n>> => Len(bias) = 1 /\ bias[1] = n
  OBVIOUS
<1>4. bias = <<m, n>> => Len(bias) = 2 /\ bias[1] = m /\ bias[2] = n
  OBVIOUS
<1>5. Biased(bias, m, n) <=> bias = <<n>> \/ bias = <<m, n>>
  BY DEF Biased
<1> QED
  BY <1>1, <1>2, <1>3, <1>4, <1>5, Zenon

(* Matrix products.                                                        *)
LEMMA GemmBetween ==
  ASSUME NEW node, NEW n \in {2, 3}, NEW as, NEW bs, NEW cs,
         Len(as) = n, Len(bs) = n, Len(cs) = n,
         Chained(n, as, bs, cs), OneVaries(n, as, bs, cs),
         NEW r \in InferGemm(node, as), NEW t \in InferGemm(node, cs),
         NumElements(t.shape) * ElementSize(t.dtype) < SizeModulus
  PROVE  InferGemm(node, bs) # {}
<1> DEFINE ta == Transposed(node, "transA")
           tb == Transposed(node, "transB")
           m == Rows(bs[1].shape, ta)
           w == Columns(bs[2].shape, tb)
           q == [bs[1] EXCEPT !.shape = <<m, w>>, !.layout = ""]
           Accepted(args) ==
             /\ Len(args[1].shape) = 2 /\ Len(args[2].shape) = 2
             /\ args[1].dtype = args[2].dtype
             /\ Columns(args[1].shape, ta) = Rows(args[2].shape, tb)
             /\ Len(args) = 3 => /\ args[3].dtype = args[1].dtype
                                 /\ Biased(args[3].shape, Rows(args[1].shape, ta),
                                           Columns(args[2].shape, tb))
<1>1. Accepted(as) /\ Accepted(cs)
  BY DEF InferGemm, Biased
<1>2. Accepted(bs) => InferGemm(node, bs) = Checked(q)
  BY DEF InferGemm, Biased
<1>3. ta \in BOOLEAN /\ tb \in BOOLEAN
  BY DEF Transposed
<1>4. n \in Nat /\ 1 \in 1..n /\ 2 \in 1..n /\ (n = 3 => 3 \in 1..n) /\ 1 # 2 /\ 3 # 2 /\ 3 # 1
  OBVIOUS
<1> HIDE DEF ta, tb
<1>22. EqualSizes(n, as, bs, cs)
  BY <1>4, SizesAgree
<1>5. /\ as[1] \in Desc /\ bs[1] \in Desc /\ cs[1] \in Desc
      /\ Within(as[1], bs[1]) /\ Within(bs[1], cs[1])
      /\ as[2] \in Desc /\ bs[2] \in Desc /\ cs[2] \in Desc
      /\ Within(as[2], bs[2]) /\ Within(bs[2], cs[2])
      /\ n = 3 => /\ as[3] \in Desc /\ bs[3] \in Desc /\ cs[3] \in Desc
                  /\ Within(as[3], bs[3]) /\ Within(bs[3], cs[3])
  BY <1>4, Zenon DEF Chained
<1>6. /\ Len(as[1].shape) = 2 /\ Len(bs[1].shape) = 2 /\ Len(cs[1].shape) = 2
      /\ Len(as[2].shape) = 2 /\ Len(bs[2].shape) = 2 /\ Len(cs[2].shape) = 2
      /\ bs[1].dtype = bs[2].dtype
  <2>1. /\ Len(as[1].shape) = 2 /\ Len(as[2].shape) = 2 /\ as[1].dtype = as[2].dtype
        /\ Len(cs[1].shape) = 2 /\ Len(cs[2].shape) = 2
    BY <1>1, Zenon
  <2>2. \A x, y \in Desc : Within(x, y) => Len(x.shape) = Len(y.shape) /\ x.dtype = y.dtype
    BY DEF Within, WithinShape
  <2> HIDE DEF Accepted
  <2> QED
    BY <1>5, <2>1, <2>2
<1>7. \A x \in Desc : Len(x.shape) = 2 =>
        /\ Rows(x.shape, ta) = x.shape[RowAxis(ta)]
        /\ Columns(x.shape, ta) = x.shape[ColumnAxis(ta)]
        /\ RowAxis(ta) \in DOMAIN x.shape /\ ColumnAxis(ta) \in DOMAIN x.shape
        /\ x.shape[RowAxis(ta)] \in Int /\ x.shape[ColumnAxis(ta)] \in Int
  BY <1>3, MatrixAxes, Zenon
<1>8. \A x \in Desc : Len(x.shape) = 2 =>
        /\ Rows(x.shape, tb) = x.shape[RowAxis(tb)]
        /\ Columns(x.shape, tb) = x.shape[ColumnAxis(tb)]
        /\ RowAxis(tb) \in DOMAIN x.shape /\ ColumnAxis(tb) \in DOMAIN x.shape
        /\ x.shape[RowAxis(tb)] \in Int /\ x.shape[ColumnAxis(tb)] \in Int
  BY <1>3, MatrixAxes, Zenon
<1>9. Columns(bs[1].shape, ta) = Rows(bs[2].shape, tb)
  <2>1. /\ ColumnAxis(ta) \in DOMAIN bs[1].shape /\ RowAxis(tb) \in DOMAIN bs[2].shape
        /\ as[1].shape[ColumnAxis(ta)] = as[2].shape[RowAxis(tb)]
        /\ cs[1].shape[ColumnAxis(ta)] = cs[2].shape[RowAxis(tb)]
    BY <1>1, <1>5, <1>6, <1>7, <1>8, Zenon
  <2>2. bs[1].shape[ColumnAxis(ta)] = bs[2].shape[RowAxis(tb)]
    BY <1>4, <1>22, <2>1, Zenon DEF EqualSizes
  <2> QED
    BY <1>5, <1>6, <1>7, <1>8, <2>2, Zenon
<1>10. m \in Int /\ w \in Int
  BY <1>5, <1>6, <1>7, <1>8, Zenon
<1>11. ASSUME n = 3 PROVE bs[3].dtype = bs[1].dtype /\ Biased(bs[3].shape, m, w)
  <2> DEFINE m1 == Rows(as[1].shape, ta)
             w1 == Columns(as[2].shape, tb)
             m3 == Rows(cs[1].shape, ta)
             w3 == Columns(cs[2].shape, tb)
  <2>1. /\ as[3].dtype = as[1].dtype /\ Biased(as[3].shape, m1, w1)
        /\ Biased(cs[3].shape, m3, w3)
    BY <1>1, <1>11, Zenon
  <2>2. m1 \in Int /\ w1 \in Int /\ m3 \in Int /\ w3 \in Int
    BY <1>5, <1>6, <1>7, <1>8, Zenon
  <2>3. /\ m = bs[1].shape[RowAxis(ta)] /\ w = bs[2].shape[ColumnAxis(tb)]
        /\ m1 = as[1].shape[RowAxis(ta)] /\ w1 = as[2].shape[ColumnAxis(tb)]
        /\ m3 = cs[1].shape[RowAxis(ta)] /\ w3 = cs[2].shape[ColumnAxis(tb)]
        /\ RowAxis(ta) \in DOMAIN bs[1].shape /\ ColumnAxis(tb) \in DOMAIN bs[2].shape
    BY <1>5, <1>6, <1>7, <1>8, Zenon
  <2> HIDE DEF m, w, m1, w1, m3, w3, Accepted
  <2>4. /\ as[3].shape \in Seq(Int) /\ bs[3].shape \in Seq(Int) /\ cs[3].shape \in Seq(Int)
        /\ Len(as[3].shape) = Len(bs[3].shape) /\ Len(cs[3].shape) = Len(bs[3].shape)
        /\ bs[3].dtype = as[3].dtype /\ bs[1].dtype = as[1].dtype
    BY <1>5, <1>11 DEF Desc, Within, WithinShape
  <2>5. \/ Len(as[3].shape) = 1 /\ as[3].shape[1] = w1
        \/ Len(as[3].shape) = 2 /\ as[3].shape[1] = m1 /\ as[3].shape[2] = w1
    <3> DEFINE bias == as[3].shape
    <3>1. bias \in Seq(Int) /\ Biased(bias, m1, w1)
      BY <2>1, <2>4
    <3> HIDE DEF bias
    <3>2. \/ Len(bias) = 1 /\ bias[1] = w1
          \/ Len(bias) = 2 /\ bias[1] = m1 /\ bias[2] = w1
      BY <2>2, <3>1, BiasedBy
    <3> QED
      BY <3>2 DEF bias
  <2>6. \/ Len(cs[3].shape) = 1 /\ cs[3].shape[1] = w3
        \/ Len(cs[3].shape) = 2 /\ cs[3].shape[1] = m3 /\ cs[3].shape[2] = w3
    BY <2>1, <2>2, <2>4, BiasedBy, Zenon
  <2>7. ASSUME NEW i \in DOMAIN bs[3].shape, as[3].shape[i] = w1, cs[3].shape[i] = w3
        PROVE  bs[3].shape[i] = w
    <3>1. 3 \in 1..n /\ 2 \in 1..n /\ 3 # 2
      BY <1>4, <1>11
    <3>2. /\ as[3].shape[i] = as[2].shape[ColumnAxis(tb)]
          /\ cs[3].shape[i] = cs[2].shape[ColumnAxis(tb)]
          /\ ColumnAxis(tb) \in DOMAIN bs[2].shape
      BY <2>3, <2>7
    <3>3. bs[3].shape[i] = bs[2].shape[ColumnAxis(tb)]
      BY <1>22, <3>1, <3>2, Zenon DEF EqualSizes
    <3> QED
      BY <2>3, <3>3
  <2>8. ASSUME NEW i \in DOMAIN bs[3].shape, as[3].shape[i] = m1, cs[3].shape[i] = m3
        PROVE  bs[3].shape[i] = m
    <3>1. 3 \in 1..n /\ 1 \in 1..n /\ 3 # 1
      BY <1>4, <1>11
    <3>2. /\ as[3].shape[i] = as[1].shape[RowAxis(ta)]
          /\ cs[3].shape[i] = cs[1].shape[RowAxis(ta)]
          /\ RowAxis(ta) \in DOMAIN bs[1].shape
      BY <2>3, <2>8
    <3>3. bs[3].shape[i] = bs[1].shape[RowAxis(ta)]
      BY <1>22, <3>1, <3>2, Zenon DEF EqualSizes
    <3> QED
      BY <2>3, <3>3
  <2>9. CASE Len(bs[3].shape) = 1
    <3>1. as[3].shape[1] = w1 /\ cs[3].shape[1] = w3
      BY <2>4, <2>5, <2>6, <2>9
    <3>2. 1 \in DOMAIN bs[3].shape
      BY <2>4, <2>9
    <3>3. bs[3].shape[1] = w
      BY <2>7, <3>1, <3>2
    <3> QED
      BY <1>10, <2>1, <2>4, <2>9, <3>3, BiasedBy
  <2>10. CASE Len(bs[3].shape) = 2
    <3>1. /\ as[3].shape[1] = m1 /\ cs[3].shape[1] = m3
          /\ as[3].shape[2] = w1 /\ cs[3].shape[2] = w3
      <4>1. Len(as[3].shape) = 2 /\ Len(cs[3].shape) = 2
        BY <2>4, <2>10
      <4>2. ~(Len(as[3].shape) = 1) /\ ~(Len(cs[3].shape) = 1)
        <5>1. \A h : h = 2 => ~(h = 1)
          OBVIOUS
        <5> QED
          BY <4>1, <5>1, Zenon
      <4> QED
        BY <2>5, <2>6, <4>2, Zenon
    <3>2. 1 \in DOMAIN bs[3].shape /\ 2 \in DOMAIN bs[3].shape
      BY <2>4, <2>10, TwoElements
    <3>3. bs[3].shape[1] = m /\ bs[3].shape[2] = w
      BY <2>7, <2>8, <3>1, <3>2
    <3> QED
      BY <1>10, <2>1, <2>4, <2>10, <3>3, BiasedBy
  <2> QED
    BY <2>4, <2>5, <2>9, <2>10
<1>12. Accepted(bs)
  BY <1>6, <1>9, <1>11
<1>13. InferGemm(node, bs) = Checked(q)
  BY <1>2, <1>12
<1>14. Valid(r) /\ Valid(t) /\ r \in Desc /\ t \in Desc
  BY <1>5, InferredGemm
<1>15. /\ r.dtype = as[1].dtype /\ r.layout = ""
       /\ r.shape = <<Rows(as[1].shape, ta), Columns(as[2].shape, tb)>>
       /\ t.dtype = cs[1].dtype /\ t.layout = ""
       /\ t.shape = <<Rows(cs[1].shape, ta), Columns(cs[2].shape, tb)>>
  BY <1>5, InferredGemm DEF ta, tb
<1> HIDE DEF m, w, Accepted
<1>16. q \in Desc /\ q.dtype = bs[1].dtype /\ q.layout = "" /\ q.shape = <<m, w>>
  <2> DEFINE shape == <<m, w>>
  <2>1. shape \in Seq(Int)
    BY <1>10
  <2> HIDE DEF shape
  <2>2. q = [bs[1] EXCEPT !.shape = shape, !.layout = ""]
    BY DEF shape
  <2> HIDE DEF q
  <2>3. q \in Desc /\ q.dtype = bs[1].dtype /\ q.layout = "" /\ q.shape = shape
    BY <1>5, <2>1, <2>2 DEF Desc
  <2> QED
    BY <2>3 DEF shape
<1> HIDE DEF q
<1>17. /\ WithinSize(Rows(as[1].shape, ta), m) /\ WithinSize(m, Rows(cs[1].shape, ta))
       /\ WithinSize(Columns(as[2].shape, tb), w) /\ WithinSize(w, Columns(cs[2].shape, tb))
  <2>1. \A x, y \in Desc : Within(x, y) /\ Len(x.shape) = 2 /\ Len(y.shape) = 2 =>
          /\ WithinSize(Rows(x.shape, ta), Rows(y.shape, ta))
          /\ WithinSize(Columns(x.shape, tb), Columns(y.shape, tb))
    <3> SUFFICES ASSUME NEW x \in Desc, NEW y \in Desc, Within(x, y),
                        Len(x.shape) = 2, Len(y.shape) = 2
                 PROVE  /\ WithinSize(Rows(x.shape, ta), Rows(y.shape, ta))
                        /\ WithinSize(Columns(x.shape, tb), Columns(y.shape, tb))
      OBVIOUS
    <3>1. RowAxis(ta) \in DOMAIN y.shape /\ ColumnAxis(tb) \in DOMAIN y.shape
      BY <1>7, <1>8, Zenon
    <3>2. /\ WithinSize(x.shape[RowAxis(ta)], y.shape[RowAxis(ta)])
          /\ WithinSize(x.shape[ColumnAxis(tb)], y.shape[ColumnAxis(tb)])
      BY <3>1, WithinSizes DEF Within
    <3> QED
      BY <1>7, <1>8, <3>2, Zenon
  <2> QED
    BY <1>5, <1>6, <2>1, Zenon DEF m, w
<1>18. ASSUME NEW x \in Desc, NEW y \in Desc, NEW x1, NEW x2, NEW y1, NEW y2,
              x.shape = <<x1, x2>>, y.shape = <<y1, y2>>, WithinSize(x1, y1), WithinSize(x2, y2),
              x.dtype = y.dtype, x.layout = y.layout
       PROVE  Within(x, y)
  <2>1. x.shape \in Seq(Int) /\ y.shape \in Seq(Int)
    BY DEF Desc
  <2>2. /\ Len(x.shape) = 2 /\ Len(y.shape) = 2 /\ x.shape[1] = x1 /\ x.shape[2] = x2
        /\ y.shape[1] = y1 /\ y.shape[2] = y2
    BY <1>18
  <2>3. WithinShape(x.shape, y.shape)
    BY <1>18, <2>1, <2>2, TwoWithin
  <2> QED
    BY <1>18, <2>3 DEF Within
<1>19. as[1].dtype = bs[1].dtype /\ bs[1].dtype = cs[1].dtype
  BY <1>5 DEF Within
<1>20. Within(r, q) /\ Within(q, t)
  BY <1>14, <1>15, <1>16, <1>17, <1>18, <1>19
<1>21. Valid(q)
  BY <1>14, <1>16, <1>20, ValidBetween
<1> QED
  BY <1>13, <1>21 DEF Checked

(* The same for descriptions.                                              *)
LEMMA SameDescsBetween ==
  ASSUME NEW a \in Desc, NEW b \in Desc, NEW c \in Desc,
         NEW p \in Desc, NEW q \in Desc, NEW r \in Desc,
         Within(a, b), Within(b, c), Within(p, q), Within(q, r),
         a = p, c = r, (a = b /\ b = c) \/ (p = q /\ q = r)
  PROVE  b = q
BY SameDesc

(* So do two inputs' descriptions.                                         *)
EqualDescs(n, as, bs, cs) ==
  \A k, l \in 1..n : k # l /\ as[k] = as[l] /\ cs[k] = cs[l] => bs[k] = bs[l]

(* They do if one of the two inputs does not vary.                         *)
LEMMA DescsAgree ==
  ASSUME NEW n \in Nat, NEW as, NEW bs, NEW cs, Chained(n, as, bs, cs), OneVaries(n, as, bs, cs)
  PROVE  EqualDescs(n, as, bs, cs)
<1> SUFFICES ASSUME NEW k \in 1..n, NEW l \in 1..n, k # l, as[k] = as[l], cs[k] = cs[l]
             PROVE  bs[k] = bs[l]
  BY Zenon DEF EqualDescs
<1> DEFINE a == as[k]
           b == bs[k]
           c == cs[k]
           p == as[l]
           q == bs[l]
           r == cs[l]
<1>1. /\ a \in Desc /\ b \in Desc /\ c \in Desc /\ Within(a, b) /\ Within(b, c)
      /\ p \in Desc /\ q \in Desc /\ r \in Desc /\ Within(p, q) /\ Within(q, r)
  BY Zenon DEF Chained
<1>2. ((a = b /\ b = c) \/ (p = q /\ q = r)) /\ a = p /\ c = r
  BY Zenon DEF OneVaries
<1>3. b = q
  <2> HIDE DEF a, b, c, p, q, r
  <2> QED
    BY <1>1, <1>2, SameDescsBetween
<1> QED
  BY <1>3

(* A scale of x's last dimension at both ends is one between.              *)
LEMMA ScaleBetween ==
  ASSUME NEW n \in Nat, NEW as, NEW bs, NEW cs, Chained(n, as, bs, cs), OneVaries(n, as, bs, cs),
         1 \in 1..n, 2 \in 1..n,
         as[1].shape # <<>>, as[2].shape = <<Last(as[1].shape)>>,
         cs[1].shape # <<>>, cs[2].shape = <<Last(cs[1].shape)>>
  PROVE  bs[1].shape # <<>> /\ bs[2].shape = <<Last(bs[1].shape)>>
<1>1. /\ as[1] \in Desc /\ bs[1] \in Desc /\ cs[1] \in Desc
      /\ Within(as[1], bs[1]) /\ Within(bs[1], cs[1])
      /\ as[2] \in Desc /\ bs[2] \in Desc /\ cs[2] \in Desc
      /\ Within(as[2], bs[2]) /\ Within(bs[2], cs[2])
  BY Zenon DEF Chained
<1> DEFINE x == as[1].shape
           y == bs[1].shape
           z == cs[1].shape
           s == as[2].shape
           t == bs[2].shape
           u == cs[2].shape
           h == Len(y)
<1>2. /\ x \in Seq(Int) /\ y \in Seq(Int) /\ z \in Seq(Int)
      /\ s \in Seq(Int) /\ t \in Seq(Int) /\ u \in Seq(Int)
      /\ Len(x) = Len(y) /\ Len(z) = Len(y) /\ Len(s) = Len(t) /\ Len(u) = Len(t)
      /\ x # <<>> /\ s = <<Last(x)>> /\ z # <<>> /\ u = <<Last(z)>>
  BY <1>1 DEF Desc, Within, WithinShape
<1>3. EqualSizes(n, as, bs, cs)
  BY SizesAgree
<1>4. \A i \in DOMAIN y : \A j \in DOMAIN t : x[i] = s[j] /\ z[i] = u[j] => y[i] = t[j]
  <2>1. 1 # 2
    OBVIOUS
  <2> QED
    BY <1>3, <2>1, Zenon DEF EqualSizes
<1> HIDE DEF x, y, z, s, t, u
<1>5. y # <<>> /\ h \in DOMAIN y /\ h = Len(x) /\ h = Len(z)
  BY <1>2
<1>6. /\ Len(t) = 1 /\ 1 \in DOMAIN t /\ s[1] = x[h] /\ u[1] = z[h]
  BY <1>2, <1>5 DEF Last
<1>7. t[1] = y[h]
  BY <1>4, <1>5, <1>6, Zenon
<1>8. t = <<Last(y)>>
  BY <1>2, <1>6, <1>7 DEF Last
<1> QED
  BY <1>5, <1>8 DEF y, t

(* Layer normalizations.                                                   *)
LEMMA LayerNormalizationBetween ==
  ASSUME NEW node, NEW n \in {2, 3}, NEW as, NEW bs, NEW cs,
         Len(as) = n, Len(bs) = n, Len(cs) = n,
         Chained(n, as, bs, cs), OneVaries(n, as, bs, cs),
         NEW r \in InferLayerNormalization(node, as), NEW t \in InferLayerNormalization(node, cs)
  PROVE  InferLayerNormalization(node, bs) # {}
<1> DEFINE Accepted(args) ==
             /\ args[1].shape # <<>> /\ args[2].shape = <<Last(args[1].shape)>>
             /\ args[2].dtype = args[1].dtype
             /\ n = 3 => args[3].shape = args[2].shape /\ args[3].dtype = args[1].dtype
             /\ IntAttribute(node, "axis", -1) \in {-1, Len(args[1].shape) - 1}
<1>1. Accepted(as) /\ Accepted(cs)
  BY DEF InferLayerNormalization
<1>2. Accepted(bs) => InferLayerNormalization(node, bs) = {bs[1]}
  BY DEF InferLayerNormalization
<1>3. n \in Nat /\ 1 \in 1..n /\ 2 \in 1..n /\ (n = 3 => 3 \in 1..n) /\ 3 # 2
  OBVIOUS
<1>4. /\ bs[1].shape # <<>> /\ bs[2].shape = <<Last(bs[1].shape)>>
  <2>1. /\ as[1].shape # <<>> /\ as[2].shape = <<Last(as[1].shape)>>
        /\ cs[1].shape # <<>> /\ cs[2].shape = <<Last(cs[1].shape)>>
    BY <1>1
  <2> QED
    BY <1>3, <2>1, ScaleBetween
<1>5. /\ as[1].dtype = bs[1].dtype /\ as[2].dtype = bs[2].dtype
      /\ n = 3 => as[3].dtype = bs[3].dtype
      /\ Len(as[1].shape) = Len(bs[1].shape)
  <2>1. \A k \in 1..n : as[k].dtype = bs[k].dtype /\ Len(as[k].shape) = Len(bs[k].shape)
    BY Zenon DEF Chained, Within, WithinShape
  <2> QED
    BY <1>3, <2>1
<1>6. n = 3 => bs[3].shape = bs[2].shape
  <2>1. EqualShapes(n, as, bs, cs)
    <3> HIDE DEF Accepted
    <3> QED
      BY <1>3, ShapesAgree
  <2> QED
    BY <1>1, <1>3, <2>1, Zenon DEF EqualShapes
<1>7. Accepted(bs)
  BY <1>1, <1>4, <1>5, <1>6
<1> QED
  BY <1>2, <1>7

(* Infer, operator by operator.                                            *)
LEMMA InferByOp ==
  ASSUME NEW node, NEW args, Len(args) \in InputCounts(node.op)
  PROVE  /\ node.op \in ConvLike => Infer(node, args) = InferConvLike(node, args[1], args[2])
         /\ node.op \in SameAsInput => Infer(node, args) = {d \in {args[1]} : d.dtype # "unknown"}
         /\ node.op \in Elementwise => Infer(node, args) = InferElementwise(args)
         /\ node.op \in GemmLike => Infer(node, args) = InferGemm(node, args)
         /\ node.op = "GlobalAveragePool" => Infer(node, args) = InferGlobalAveragePool(args[1])
         /\ node.op \in {"MaxPool", "AveragePool"} => Infer(node, args) = InferPool(node, args[1])
         /\ node.op = "Flatten" => Infer(node, args) = InferFlatten(node, args[1])
         /\ node.op = "LayerNormalization" =>
              Infer(node, args) = InferLayerNormalization(node, args)
         /\ node.op = "SkipLayerNormalization" =>
              Infer(node, args) =
                IF InferElementwise(args) = {} THEN {}
                ELSE InferLayerNormalization(node, <<args[1], args[3], args[4]>>)
<1> DEFINE conv == InferConvLike(node, args[1], args[2])
           gemm == InferGemm(node, args)
           average == InferGlobalAveragePool(args[1])
           pool == InferPool(node, args[1])
           flatten == InferFlatten(node, args[1])
           layer == InferLayerNormalization(node, args)
           skip == InferLayerNormalization(node, <<args[1], args[3], args[4]>>)
           pair == InferElementwise(args)
           same == {d \in {args[1]} : d.dtype # "unknown"}
           all == Infer(node, args)
<1>1. all =
        CASE node.op \in ConvLike -> conv
          [] node.op \in SameAsInput -> same
          [] node.op \in Elementwise -> pair
          [] node.op \in GemmLike -> gemm
          [] node.op = "GlobalAveragePool" -> average
          [] node.op \in {"MaxPool", "AveragePool"} -> pool
          [] node.op = "Flatten" -> flatten
          [] node.op = "LayerNormalization" -> layer
          [] node.op = "SkipLayerNormalization" -> IF pair = {} THEN {} ELSE skip
  BY Zenon DEF Infer
<1> HIDE DEF conv, gemm, average, pool, flatten, layer, skip, pair, same, all
<1> DEFINE op == node.op
<1> HIDE DEF op
<1>2. all =
        CASE op \in ConvLike -> conv
          [] op \in SameAsInput -> same
          [] op \in Elementwise -> pair
          [] op \in GemmLike -> gemm
          [] op = "GlobalAveragePool" -> average
          [] op \in {"MaxPool", "AveragePool"} -> pool
          [] op = "Flatten" -> flatten
          [] op = "LayerNormalization" -> layer
          [] op = "SkipLayerNormalization" -> IF pair = {} THEN {} ELSE skip
  BY <1>1 DEF op
<1> USE DEF ConvLike, SameAsInput, Elementwise, GemmLike
<1>3. op \in ConvLike => all = conv
  BY <1>2
<1>4. op \in SameAsInput => all = same
  BY <1>2
<1>5. op \in Elementwise => all = pair
  BY <1>2
<1>6. op \in GemmLike => all = gemm
  BY <1>2
<1>7. /\ op = "GlobalAveragePool" => all = average
      /\ op \in {"MaxPool", "AveragePool"} => all = pool
      /\ op = "Flatten" => all = flatten
      /\ op = "LayerNormalization" => all = layer
      /\ op = "SkipLayerNormalization" => all = IF pair = {} THEN {} ELSE skip
  BY <1>2
<1> QED
  BY <1>3, <1>4, <1>5, <1>6, <1>7, Zenon
     DEF op, conv, gemm, average, pool, flatten, layer, skip, pair, same, all

(* Elementwise operators.                                                  *)
LEMMA ElementwiseBetween ==
  ASSUME NEW n \in Nat, NEW as, NEW bs, NEW cs, Chained(n, as, bs, cs), OneVaries(n, as, bs, cs),
         1 \in 1..n, 2 \in 1..n, InferElementwise(as) # {}, InferElementwise(cs) # {}
  PROVE  InferElementwise(bs) = {bs[1]}
<1>1. as[2] = as[1] /\ cs[2] = cs[1]
  BY DEF InferElementwise
<1>2. EqualDescs(n, as, bs, cs)
  BY DescsAgree
<1>3. 2 # 1
  OBVIOUS
<1>4. bs[2] = bs[1]
  BY <1>1, <1>2, <1>3, Zenon DEF EqualDescs
<1> QED
  BY <1>4 DEF InferElementwise

(* Skip connections, which add two inputs and normalize the sum.           *)
LEMMA SkipBetween ==
  ASSUME NEW node, NEW as, NEW bs, NEW cs, Chained(4, as, bs, cs), OneVaries(4, as, bs, cs),
         NEW r \in InferLayerNormalization(node, <<as[1], as[3], as[4]>>),
         NEW t \in InferLayerNormalization(node, <<cs[1], cs[3], cs[4]>>)
  PROVE  InferLayerNormalization(node, <<bs[1], bs[3], bs[4]>>) # {}
<1> DEFINE a == <<as[1], as[3], as[4]>>
           b == <<bs[1], bs[3], bs[4]>>
           c == <<cs[1], cs[3], cs[4]>>
           Old(k) == IF k = 1 THEN 1 ELSE k + 1
<1>1. /\ Len(a) = 3 /\ Len(b) = 3 /\ Len(c) = 3
      /\ \A k \in 1..3 : a[k] = as[Old(k)] /\ b[k] = bs[Old(k)] /\ c[k] = cs[Old(k)]
  OBVIOUS
<1>2. /\ \A k \in 1..3 : Old(k) \in 1..4
      /\ \A k, l \in 1..3 : k # l => Old(k) # Old(l)
  OBVIOUS
<1> HIDE DEF a, b, c, Old
<1>3. Chained(3, a, b, c)
  BY <1>1, <1>2, Zenon DEF Chained
<1>4. OneVaries(3, a, b, c)
  <2> SUFFICES ASSUME NEW k \in 1..3, NEW l \in 1..3, k # l
               PROVE  (a[k] = b[k] /\ b[k] = c[k]) \/ (a[l] = b[l] /\ b[l] = c[l])
    BY DEF OneVaries
  <2>1. Old(k) \in 1..4 /\ Old(l) \in 1..4 /\ Old(k) # Old(l)
    BY <1>2
  <2>2. \/ as[Old(k)] = bs[Old(k)] /\ bs[Old(k)] = cs[Old(k)]
        \/ as[Old(l)] = bs[Old(l)] /\ bs[Old(l)] = cs[Old(l)]
    BY <2>1, Zenon DEF OneVaries
  <2> QED
    BY <1>1, <2>2, Zenon
<1>5. r \in InferLayerNormalization(node, a) /\ t \in InferLayerNormalization(node, c)
  BY DEF a, c
<1>6. InferLayerNormalization(node, b) # {}
  BY <1>1, <1>3, <1>4, <1>5, LayerNormalizationBetween
<1> QED
  BY <1>6 DEF b

(* An inference that succeeds at both ends succeeds between, if at most    *)
(* one input varies, no convolution's weights do, Flatten's input has      *)
(* elements and a size_t counts the output's bytes.                        *)
LEMMA InferBetween ==
  ASSUME NEW node, TypedNode(node), NEW n \in Nat, NEW as, NEW bs, NEW cs,
         Len(as) = n, Len(bs) = n, Len(cs) = n,
         Chained(n, as, bs, cs), OneVaries(n, as, bs, cs),
         node.op \in ConvLike => as[2] = bs[2] /\ bs[2] = cs[2],
         node.op = "Flatten" => NumElements(cs[1].shape) # 0,
         NEW r \in Infer(node, as), NEW t \in Infer(node, cs),
         NumElements(t.shape) * ElementSize(t.dtype) < SizeModulus
  PROVE  Infer(node, bs) # {}
<1>1. n \in InputCounts(node.op)
  BY InferCases, Zenon
<1>2. /\ n >= 1 /\ (node.op \in ConvLike => n >= 2) /\ (node.op \in GemmLike => n \in {2, 3})
      /\ node.op \in Elementwise => n = 2
      /\ node.op = "LayerNormalization" => n \in {2, 3}
      /\ node.op = "SkipLayerNormalization" => n = 4
  BY <1>1 DEF InputCounts, ConvLike, GemmLike, Elementwise, PoolLike
<1>3. /\ 1 \in 1..n
      /\ node.op \in ConvLike \cup Elementwise \cup {"SkipLayerNormalization"} => 2 \in 1..n
  BY <1>2
<1>4. /\ as[1] \in Desc /\ bs[1] \in Desc /\ cs[1] \in Desc
      /\ Within(as[1], bs[1]) /\ Within(bs[1], cs[1])
      /\ node.op \in ConvLike => bs[2] \in Desc
  BY <1>3 DEF Chained
<1>5. Len(as) \in InputCounts(node.op) /\ Len(bs) \in InputCounts(node.op)
      /\ Len(cs) \in InputCounts(node.op)
  BY <1>1
<1>6. CASE node.op \in ConvLike
  <2>1. /\ Infer(node, as) = InferConvLike(node, as[1], as[2])
        /\ Infer(node, bs) = InferConvLike(node, bs[1], bs[2])
        /\ Infer(node, cs) = InferConvLike(node, cs[1], cs[2])
    BY <1>5, <1>6, InferByOp, Zenon
  <2>2. r \in InferConvLike(node, as[1], bs[2]) /\ t \in InferConvLike(node, cs[1], bs[2])
    BY <1>6, <2>1
  <2> QED
    BY <1>4, <1>6, <2>1, <2>2, ConvBetween
<1>7. CASE node.op \in SameAsInput
  <2>1. /\ Infer(node, as) = {d \in {as[1]} : d.dtype # "unknown"}
        /\ Infer(node, bs) = {d \in {bs[1]} : d.dtype # "unknown"}
    BY <1>5, <1>7, InferByOp, Zenon
  <2>2. as[1].dtype # "unknown"
    BY <2>1
  <2> QED
    BY <1>4, <2>1, <2>2 DEF Within
<1>8. CASE node.op \in Elementwise
  <2>1. /\ Infer(node, as) = InferElementwise(as) /\ Infer(node, bs) = InferElementwise(bs)
        /\ Infer(node, cs) = InferElementwise(cs)
    BY <1>5, <1>8, InferByOp, Zenon
  <2>2. InferElementwise(bs) = {bs[1]}
    <3>1. 1 \in 1..n /\ 2 \in 1..n
      BY <1>3, <1>8
    <3>2. InferElementwise(as) # {} /\ InferElementwise(cs) # {}
      BY <2>1
    <3> QED
      BY <3>1, <3>2, ElementwiseBetween, Zenon
  <2> QED
    BY <2>1, <2>2
<1>9. CASE node.op \in GemmLike
  <2>1. /\ Infer(node, as) = InferGemm(node, as) /\ Infer(node, bs) = InferGemm(node, bs)
        /\ Infer(node, cs) = InferGemm(node, cs)
    BY <1>5, <1>9, InferByOp, Zenon
  <2> QED
    BY <1>2, <1>9, <2>1, GemmBetween
<1>10. CASE node.op = "GlobalAveragePool"
  <2>1. /\ Infer(node, as) = InferGlobalAveragePool(as[1])
        /\ Infer(node, bs) = InferGlobalAveragePool(bs[1])
    BY <1>5, <1>10, InferByOp, Zenon
  <2>2. Len(as[1].shape) = Len(bs[1].shape)
    BY <1>4 DEF Within, WithinShape
  <2> QED
    BY <2>1, <2>2 DEF InferGlobalAveragePool
<1>11. CASE node.op \in {"MaxPool", "AveragePool"}
  <2>1. /\ Infer(node, as) = InferPool(node, as[1]) /\ Infer(node, bs) = InferPool(node, bs[1])
        /\ Infer(node, cs) = InferPool(node, cs[1])
    BY <1>5, <1>11, InferByOp, Zenon
  <2> QED
    BY <1>4, <2>1, PoolBetween
<1>12. CASE node.op = "Flatten"
  <2>1. /\ Infer(node, as) = InferFlatten(node, as[1])
        /\ Infer(node, bs) = InferFlatten(node, bs[1])
        /\ Infer(node, cs) = InferFlatten(node, cs[1])
    BY <1>5, <1>12, InferByOp, Zenon
  <2> QED
    BY <1>4, <1>12, <2>1, FlattenBetween
<1>13. CASE node.op = "LayerNormalization"
  <2>1. /\ Infer(node, as) = InferLayerNormalization(node, as)
        /\ Infer(node, bs) = InferLayerNormalization(node, bs)
        /\ Infer(node, cs) = InferLayerNormalization(node, cs)
    BY <1>5, <1>13, InferByOp, Zenon
  <2> QED
    BY <1>2, <1>13, <2>1, LayerNormalizationBetween
<1>14. CASE node.op = "SkipLayerNormalization"
  <2> DEFINE Skip(args) == InferLayerNormalization(node, <<args[1], args[3], args[4]>>)
             Sum(args) == InferElementwise(args)
  <2>1. /\ Infer(node, as) = IF Sum(as) = {} THEN {} ELSE Skip(as)
        /\ Infer(node, bs) = IF Sum(bs) = {} THEN {} ELSE Skip(bs)
        /\ Infer(node, cs) = IF Sum(cs) = {} THEN {} ELSE Skip(cs)
    BY <1>5, <1>14, InferByOp, Zenon
  <2> HIDE DEF Skip, Sum
  <2>2. Sum(as) # {} /\ Sum(cs) # {} /\ r \in Skip(as) /\ t \in Skip(cs)
    BY <2>1
  <2>3. Sum(bs) = {bs[1]}
    BY <1>3, <1>14, <2>2, ElementwiseBetween DEF Sum
  <2>4. Skip(bs) # {}
    <3>1. Chained(4, as, bs, cs) /\ OneVaries(4, as, bs, cs)
      BY <1>2, <1>14
    <3> QED
      BY <2>2, <3>1, SkipBetween DEF Skip
  <2> QED
    BY <2>1, <2>3, <2>4
<1> QED
  <2>1. \/ node.op \in ConvLike \cup SameAsInput \cup Elementwise \cup GemmLike \cup PoolLike
        \/ node.op \in {"Flatten", "LayerNormalization", "SkipLayerNormalization"}
    BY <1>1 DEF InputCounts, ConvLike, SameAsInput, Elementwise, GemmLike, PoolLike
  <2> QED
    BY <1>6, <1>7, <1>8, <1>9, <1>10, <1>11, <1>12, <1>13, <1>14, <2>1 DEF PoolLike
-----------------------------------------------------------------------------
(* InferAll between two points of which it succeeds.                       *)

(* No node reads two values that vary, no convolution varying weights.     *)
Lone(nodes, varying) ==
  \A i \in DOMAIN nodes :
    /\ nodes[i].out \in varying
    /\ \A k, l \in DOMAIN nodes[i].ins :
         {nodes[i].ins[k], nodes[i].ins[l]} \subseteq varying =>
           k = l /\ (nodes[i].op \in ConvLike => k = 1)

(* Three points: what no node computes is described by a as smaller than   *)
(* by b, and by b than by c; and what does not vary the same.              *)
Spread(nodes, varying, a, b, c) ==
  \A v \in Value : Given(nodes, v) =>
    /\ Within(a[v], b[v]) /\ Within(b[v], c[v])
    /\ v \notin varying => a[v] = b[v] /\ b[v] = c[v]

(* The first nodes' outputs are described by e as between d and f.         *)
BetweenUpTo(nodes, i, b, d, e, f) ==
  /\ \A j \in 1..i : /\ Within(d[nodes[j].out], e[nodes[j].out])
                     /\ Within(e[nodes[j].out], f[nodes[j].out])
  /\ \A v \in Value : Given(nodes, v) => e[v] = b[v]

(* A node's inputs' descriptions are.                                      *)
LEMMA ArgsBetween ==
  ASSUME NEW nodes, Graph(nodes), NEW varying, Lone(nodes, varying),
         NEW a, NEW b, NEW c, Spread(nodes, varying, a, b, c),
         NEW d \in [Value -> Desc], NEW e \in [Value -> Desc], NEW f \in [Value -> Desc],
         \A v \in Value : Given(nodes, v) => d[v] = a[v] /\ f[v] = c[v],
         NEW i \in 1..Len(nodes), BetweenUpTo(nodes, i - 1, b, d, e, f)
  PROVE  /\ Chained(Len(nodes[i].ins), Args(d, nodes[i]), Args(e, nodes[i]), Args(f, nodes[i]))
         /\ OneVaries(Len(nodes[i].ins), Args(d, nodes[i]), Args(e, nodes[i]), Args(f, nodes[i]))
         /\ nodes[i].op \in ConvLike /\ 2 \in 1..Len(nodes[i].ins) =>
              /\ Args(d, nodes[i])[2] = Args(e, nodes[i])[2]
              /\ Args(e, nodes[i])[2] = Args(f, nodes[i])[2]
<1> DEFINE node == nodes[i]
           n == Len(node.ins)
           as == Args(d, node)
           bs == Args(e, node)
           cs == Args(f, node)
<1>1. /\ DOMAIN nodes = 1..Len(nodes) /\ Len(nodes) \in Nat /\ InOrder(nodes)
      /\ \A j \in DOMAIN nodes : TypedNode(nodes[j])
  BY DEF Graph
<1>2. /\ n \in Nat /\ DOMAIN node.ins = 1..n
      /\ \A k \in 1..n : /\ node.ins[k] \in Value
                         /\ as[k] = d[node.ins[k]] /\ as[k] \in Desc
                         /\ bs[k] = e[node.ins[k]] /\ bs[k] \in Desc
                         /\ cs[k] = f[node.ins[k]] /\ cs[k] \in Desc
  <2>1. TypedNode(node)
    BY <1>1
  <2> HIDE DEF node
  <2> QED
    BY <2>1, ArgsTyped, Zenon
<1>3. ASSUME NEW k \in 1..n, Given(nodes, node.ins[k])
      PROVE  /\ Within(as[k], bs[k]) /\ Within(bs[k], cs[k])
             /\ node.ins[k] \notin varying => as[k] = bs[k] /\ bs[k] = cs[k]
  <2> DEFINE v == node.ins[k]
  <2>1. v \in Value /\ as[k] = d[v] /\ bs[k] = e[v] /\ cs[k] = f[v]
    BY <1>2
  <2> HIDE DEF as, bs, cs
  <2>2. d[v] = a[v] /\ e[v] = b[v] /\ f[v] = c[v]
    BY <1>3, <2>1, Zenon DEF BetweenUpTo
  <2> QED
    BY <1>3, <2>1, <2>2, Zenon DEF Spread
<1>4. ASSUME NEW k \in 1..n, ~Given(nodes, node.ins[k])
      PROVE  Within(as[k], bs[k]) /\ Within(bs[k], cs[k]) /\ node.ins[k] \in varying
  <2>1. PICK j \in DOMAIN nodes : nodes[j].out = node.ins[k]
    BY <1>4 DEF Given
  <2>2. j < i /\ i \in DOMAIN nodes
    BY <1>1, <1>2, <2>1, Zenon DEF InOrder
  <2>3. j \in 1..(i - 1)
    BY <1>1, <2>2
  <2>4. /\ Within(d[nodes[j].out], e[nodes[j].out]) /\ Within(e[nodes[j].out], f[nodes[j].out])
    BY <2>3, Zenon DEF BetweenUpTo
  <2>5. Within(as[k], bs[k]) /\ Within(bs[k], cs[k])
    BY <1>2, <2>1, <2>4
  <2> QED
    BY <2>1, <2>5, Zenon DEF Lone
<1>5. \A k \in 1..n : Within(as[k], bs[k]) /\ Within(bs[k], cs[k])
  <2> HIDE DEF as, bs, cs, node, n
  <2> QED
    BY <1>3, <1>4, Zenon DEF node, n
<1>6. \A k \in 1..n : node.ins[k] \notin varying => as[k] = bs[k] /\ bs[k] = cs[k]
  <2> HIDE DEF as, bs, cs, node, n
  <2> QED
    BY <1>3, <1>4, Zenon DEF node, n
<1>7. \A k, l \in 1..n : node.ins[k] \in varying /\ node.ins[l] \in varying =>
        k = l /\ (node.op \in ConvLike => k = 1)
  <2>1. i \in DOMAIN nodes
    BY <1>1
  <2>2. \A k, l \in DOMAIN node.ins : {node.ins[k], node.ins[l]} \subseteq varying =>
          k = l /\ (node.op \in ConvLike => k = 1)
    BY <2>1, Zenon DEF Lone
  <2> HIDE DEF node, n
  <2> QED
    BY <1>2, <2>2
<1> HIDE DEF node, n, as, bs, cs
<1>8. Chained(n, as, bs, cs)
  BY <1>2, <1>5, Zenon DEF Chained
<1>9. OneVaries(n, as, bs, cs)
  BY <1>6, <1>7, Zenon DEF OneVaries
<1>10. ASSUME node.op \in ConvLike, 2 \in 1..n PROVE as[2] = bs[2] /\ bs[2] = cs[2]
  <2>1. ~(2 = 1)
    OBVIOUS
  <2> QED
    BY <1>6, <1>7, <1>10, <2>1, Zenon
<1> QED
  BY <1>8, <1>9, <1>10, Zenon DEF node, n, as, bs, cs

(* One more node is inferred, and between.                                 *)
LEMMA BetweenStep ==
  ASSUME NEW nodes, Graph(nodes), NEW varying, Lone(nodes, varying),
         NEW a, NEW b, NEW c, Spread(nodes, varying, a, b, c),
         NEW d \in [Value -> Desc], InferredUpTo(nodes, a, Len(nodes), d),
         NEW f \in [Value -> Desc], InferredUpTo(nodes, c, Len(nodes), f),
         \A j \in DOMAIN nodes : nodes[j].op = "Flatten" =>
           NumElements(f[nodes[j].ins[1]].shape) # 0,
         \A v \in Value : NumElements(f[v].shape) * ElementSize(f[v].dtype) < SizeModulus,
         NEW i \in 1..Len(nodes), NEW e \in [Value -> Desc], BetweenUpTo(nodes, i - 1, b, d, e, f)
  PROVE  \E q \in Infer(nodes[i], Args(e, nodes[i])) :
           /\ q \in Desc /\ [e EXCEPT ![nodes[i].out] = q] \in [Value -> Desc]
           /\ BetweenUpTo(nodes, i, b, d, [e EXCEPT ![nodes[i].out] = q], f)
<1> DEFINE node == nodes[i]
           n == Len(node.ins)
           as == Args(d, node)
           bs == Args(e, node)
           cs == Args(f, node)
           r == d[node.out]
           t == f[node.out]
<1>1. /\ DOMAIN nodes = 1..Len(nodes) /\ Len(nodes) \in Nat /\ InOrder(nodes)
      /\ \A j \in DOMAIN nodes : TypedNode(nodes[j])
      /\ i \in DOMAIN nodes /\ TypedNode(node)
  BY DEF Graph
<1>2. /\ n \in Nat /\ Len(as) = n /\ Len(bs) = n /\ Len(cs) = n
      /\ DOMAIN as = 1..n /\ DOMAIN bs = 1..n /\ DOMAIN cs = 1..n
      /\ \A k \in 1..n : /\ as[k] \in Desc /\ bs[k] \in Desc /\ cs[k] \in Desc
                         /\ cs[k] = f[node.ins[k]]
  <2> HIDE DEF node
  <2> QED
    BY <1>1, ArgsTyped, Zenon
<1>3. /\ Chained(n, as, bs, cs) /\ OneVaries(n, as, bs, cs)
      /\ node.op \in ConvLike /\ 2 \in 1..n => as[2] = bs[2] /\ bs[2] = cs[2]
  <2>1. \A v \in Value : Given(nodes, v) => d[v] = a[v] /\ f[v] = c[v]
    BY Zenon DEF InferredUpTo, Given
  <2> QED
    BY <2>1, ArgsBetween
<1>4. r \in Infer(node, as) /\ t \in Infer(node, cs) /\ node.out \in Value
  <2>1. i \in 1..Len(nodes) /\ node.out \in Value
    BY <1>1 DEF TypedNode
  <2> QED
    BY <2>1, Zenon DEF InferredUpTo
<1>5. NumElements(t.shape) * ElementSize(t.dtype) < SizeModulus
  BY <1>4
<1>6. node.op = "Flatten" => NumElements(f[node.ins[1]].shape) # 0
  BY <1>1
<1> HIDE DEF node, n, as, bs, cs, r, t
<1>7. n \in InputCounts(node.op)
  <2>1. Len(as) \in InputCounts(node.op)
    BY <1>4, InferCases, Zenon
  <2> QED
    BY <1>2, <2>1
<1>8. 1 \in 1..n /\ (node.op \in ConvLike => 2 \in 1..n)
  BY <1>2, <1>7 DEF InputCounts, ConvLike, GemmLike, Elementwise, PoolLike
<1>9. /\ \A k \in 1..n : Within(as[k], bs[k]) /\ Within(bs[k], cs[k])
      /\ node.op \in ConvLike => as[2] = bs[2] /\ bs[2] = cs[2]
  BY <1>3, <1>8, Zenon DEF Chained
<1>10. node.op = "Flatten" => NumElements(cs[1].shape) # 0 /\ NumElements(bs[1].shape) # 0
  <2> SUFFICES ASSUME node.op = "Flatten"
               PROVE  NumElements(cs[1].shape) # 0 /\ NumElements(bs[1].shape) # 0
    OBVIOUS
  <2>1. NumElements(cs[1].shape) # 0
    BY <1>2, <1>6, <1>8
  <2>2. /\ bs[1].shape \in Seq(Int) /\ cs[1].shape \in Seq(Int)
        /\ WithinShape(bs[1].shape, cs[1].shape)
    BY <1>2, <1>8, <1>9 DEF Desc, Within
  <2>3. NumElements(bs[1].shape) \in 1..NumElements(cs[1].shape)
    BY <2>1, <2>2, ElementsWithin
  <2>4. \A m, k : m \in 1..k => m # 0
    OBVIOUS
  <2> QED
    BY <2>1, <2>3, <2>4, Zenon
<1>11. Infer(node, bs) # {}
  <2>1. /\ n \in Nat /\ Len(as) = n /\ Len(bs) = n /\ Len(cs) = n /\ TypedNode(node)
        /\ Chained(n, as, bs, cs) /\ OneVaries(n, as, bs, cs)
    BY <1>1, <1>2, <1>3
  <2>2. node.op = "Flatten" => NumElements(cs[1].shape) # 0
    BY <1>10
  <2> QED
    BY <1>4, <1>5, <1>9, <2>1, <2>2, InferBetween
<1>12. PICK q \in Infer(node, bs) : TRUE
  BY <1>11
<1>13. Within(r, q) /\ Within(q, t)
  <2>1. Within(r, q)
    BY <1>1, <1>2, <1>4, <1>9, <1>10, InferWithin
  <2>2. Within(q, t)
    BY <1>1, <1>2, <1>4, <1>9, <1>10, InferWithin
  <2> QED
    BY <2>1, <2>2
<1>14. q \in Desc
  BY <1>1, <1>2, InferTyped, Zenon
<1> DEFINE e1 == [e EXCEPT ![node.out] = q]
<1>15. e1 \in [Value -> Desc] /\ e1[node.out] = q /\ \A v \in Value : v # node.out => e1[v] = e[v]
  BY <1>4, <1>14
<1> HIDE DEF e1
<1>16. ASSUME NEW j \in 1..i
       PROVE  /\ Within(d[nodes[j].out], e1[nodes[j].out])
              /\ Within(e1[nodes[j].out], f[nodes[j].out])
  <2>1. CASE j = i
    BY <1>13, <1>15, <2>1 DEF node, r, t
  <2>2. CASE j # i
    <3>1. j \in 1..(i - 1) /\ j \in DOMAIN nodes /\ i \in DOMAIN nodes
      BY <1>1, <2>2
    <3>2. nodes[j].out # node.out /\ nodes[j].out \in Value
      BY <1>1, <2>2, <3>1, Zenon DEF InOrder, TypedNode, node
    <3>3. /\ Within(d[nodes[j].out], e[nodes[j].out])
          /\ Within(e[nodes[j].out], f[nodes[j].out])
      BY <3>1, Zenon DEF BetweenUpTo
    <3> QED
      BY <1>15, <3>2, <3>3
  <2> QED
    BY <2>1, <2>2
<1>17. ASSUME NEW v \in Value, Given(nodes, v) PROVE e1[v] = b[v]
  <2>1. v # node.out
    BY <1>1, <1>17 DEF Given, node
  <2> QED
    BY <1>15, <1>17, <2>1, Zenon DEF BetweenUpTo
<1>18. BetweenUpTo(nodes, i, b, d, e1, f)
  BY <1>16, <1>17, Zenon DEF BetweenUpTo
<1> QED
  BY <1>12, <1>14, <1>15, <1>18, Zenon DEF node, bs, e1

(* A graph inferred at both ends is inferred between.                      *)
LEMMA AllBetween ==
  ASSUME NEW nodes, Graph(nodes), NEW varying, Lone(nodes, varying),
         NEW a \in [Value -> Desc], NEW b \in [Value -> Desc], NEW c \in [Value -> Desc],
         Spread(nodes, varying, a, b, c),
         NEW d \in InferAll(nodes, a), NEW f \in InferAll(nodes, c),
         \A j \in DOMAIN nodes : nodes[j].op = "Flatten" =>
           NumElements(f[nodes[j].ins[1]].shape) # 0,
         \A v \in Value : NumElements(f[v].shape) * ElementSize(f[v].dtype) < SizeModulus
  PROVE  InferAll(nodes, b) # {}
<1> DEFINE n == Len(nodes)
<1>1. n \in Nat
  BY DEF Graph
<1>2. PICK after : Passes(nodes, b, after) /\ InferAll(nodes, b) = after[n]
  BY InferAllUnfolds
<1>3. /\ d \in [Value -> Desc] /\ InferredUpTo(nodes, a, n, d)
      /\ f \in [Value -> Desc] /\ InferredUpTo(nodes, c, n, f)
  BY InferAllSound
<1> DEFINE Some(i) == \E e \in after[i] : e \in [Value -> Desc] /\ BetweenUpTo(nodes, i, b, d, e, f)
           S == {i \in Nat : i <= n => Some(i)}
<1>4. 0 \in S
  <2>1. BetweenUpTo(nodes, 0, b, d, b, f)
    BY DEF BetweenUpTo
  <2> QED
    BY <1>2, <2>1 DEF Passes
<1>5. ASSUME NEW i \in Nat, i \in S PROVE i + 1 \in S
  <2> SUFFICES ASSUME i + 1 <= n PROVE Some(i + 1)
    OBVIOUS
  <2> DEFINE k == i + 1
  <2>1. k \in 1..n /\ k - 1 = i /\ i <= n
    BY <1>1
  <2>2. PICK e \in after[i] : e \in [Value -> Desc] /\ BetweenUpTo(nodes, i, b, d, e, f)
    BY <1>5, <2>1
  <2> HIDE DEF k
  <2>3. BetweenUpTo(nodes, k - 1, b, d, e, f)
    BY <2>1, <2>2
  <2>4. PICK q \in Infer(nodes[k], Args(e, nodes[k])) :
          /\ [e EXCEPT ![nodes[k].out] = q] \in [Value -> Desc]
          /\ BetweenUpTo(nodes, k, b, d, [e EXCEPT ![nodes[k].out] = q], f)
    BY <1>3, <2>1, <2>2, <2>3, BetweenStep
  <2>5. after[k] = Inferred(nodes[k], after[i])
    BY <1>2, <2>1 DEF Passes
  <2>6. [e EXCEPT ![nodes[k].out] = q] \in after[k]
    <3> DEFINE e1 == [e EXCEPT ![nodes[k].out] = q]
               Results(e2) == {[e2 EXCEPT ![nodes[k].out] = r] :
                                 r \in Infer(nodes[k], Args(e2, nodes[k]))}
    <3>1. e1 \in Results(e)
      OBVIOUS
    <3>2. after[k] = UNION {Results(e2) : e2 \in after[i]}
      BY <2>5, Zenon DEF Inferred
    <3> HIDE DEF e1, Results
    <3>3. e1 \in after[k]
      BY <2>2, <3>1, <3>2
    <3> QED
      BY <3>3 DEF e1
  <2> QED
    BY <2>4, <2>6 DEF k
<1>6. n \in S
  <2> HIDE DEF S
  <2>1. Nat \subseteq S
    BY <1>4, <1>5, SetInduction
  <2> QED
    BY <1>1, <2>1
<1> QED
  BY <1>1, <1>2, <1>6
-----------------------------------------------------------------------------
(* Shapes in range run.                                                    *)

AllPoints == <<"min", "opt", "max">>

(* Only a model that infers at its profile's min point compiles.           *)
MinInferred ==
  /\ stage \in {"validate", "lower"} => points = AllPoints
  /\ stage = "plan" => points \in {AllPoints, <<"opt", "max">>, <<"max">>}
  /\ (stage = "plan" /\ points # AllPoints) \/ stage \in Compiled => AtPoint("min") # {}

(* Every step keeps that.                                                  *)
LEMMA MinInferredStep ==
  ASSUME LaunchInv, MinInferred, [Next]_vars
  PROVE  MinInferred'
<1> USE DEF Planned, Compiled
<1>1. UNCHANGED model
  BY DEF Next, vars, compiled, ValidateProfiles, Lower, PlanPoint, CompileEnded, CompileFails,
         SelectShapeProfile, SetInputShape, ResolveShapes, StartRun, SkipView, Launch, Advance,
         Reconfigure
<1>2. AtPoint("min")' = AtPoint("min")
  BY <1>1 DEF AtPoint, AtShapes, Nodes
<1>3. CASE UNCHANGED <<stage, points>>
  BY <1>2, <1>3 DEF MinInferred
<1>4. CASE stage' = "failed"
  BY <1>4 DEF MinInferred
<1>5. CASE stage \in {"validate", "lower"} /\ stage' \in {"lower", "plan"} /\ UNCHANGED points
  BY <1>5 DEF MinInferred
<1>6. CASE /\ stage = "plan" /\ points' = Tail(points) /\ AtPoint(Head(points)) # {}
           /\ IF Head(points) = "max" THEN stage' = "compiled" ELSE UNCHANGED stage
  <2>1. points \in {AllPoints, <<"opt", "max">>, <<"max">>}
    BY <1>6 DEF MinInferred
  <2>2. CASE points = AllPoints
    <3>1. Head(points) = "min" /\ Tail(points) = <<"opt", "max">>
      BY <2>2 DEF AllPoints
    <3> QED
      BY <1>2, <1>6, <3>1 DEF MinInferred
  <2>3. CASE points = <<"opt", "max">>
    <3>1. Head(points) = "opt" /\ Tail(points) = <<"max">> /\ points # AllPoints
      BY <2>3 DEF AllPoints
    <3> QED
      BY <1>2, <1>6, <3>1 DEF MinInferred
  <2>4. CASE points = <<"max">>
    <3>1. Head(points) = "max" /\ points # AllPoints
      BY <2>4 DEF AllPoints
    <3> QED
      BY <1>2, <1>6, <3>1 DEF MinInferred
  <2> QED
    BY <2>1, <2>2, <2>3, <2>4
<1>7. CASE stage \in Compiled /\ stage' \in Compiled
  BY <1>2, <1>7 DEF MinInferred
<1>8. ASSUME NEW v \in model.inputs, NEW shape \in Requests[v], SetInputShape(v, shape)
      PROVE  stage \in Compiled /\ stage' \in Compiled
  BY <1>8 DEF SetInputShape, Reconfigure
<1>9. CASE PlanPoint
  BY <1>4, <1>6, <1>9 DEF PlanPoint, ResolvedAt, CompileFails
<1>10. CASE ValidateProfiles \/ Lower
  BY <1>4, <1>5, <1>10 DEF ValidateProfiles, Lower, CompileFails
<1>11. CASE SelectShapeProfile \/ ResolveShapes \/ StartRun \/ SkipView \/ Launch
  BY <1>7, <1>11 DEF SelectShapeProfile, ResolveShapes, StartRun, SkipView, Launch, Advance,
                     Reconfigure
<1>12. CASE UNCHANGED vars \/ CompileEnded
  BY <1>3, <1>12 DEF vars, CompileEnded
<1> QED
  BY <1>7, <1>8, <1>9, <1>10, <1>11, <1>12 DEF Next

(* Convolutions' weights do not vary in a straight model.                  *)
LEMMA StraightModel ==
  ASSUME LaunchInv, Straight
  PROVE  ConstantWeights /\ Lone(Nodes, Varying)
<1>1. \A i \in DOMAIN Nodes : Nodes[i].out \in Varying
  BY DEF Varying
<1>2. Lone(Nodes, Varying)
  BY <1>1, Zenon DEF Straight, Lone
<1>3. ASSUME NEW i \in DOMAIN Nodes, Nodes[i].op \in ConvLike, 2 \in DOMAIN Nodes[i].ins
      PROVE  Nodes[i].ins[2] \notin Varying
  <2>1. ~(2 = 1)
    OBVIOUS
  <2>2. {Nodes[i].ins[2], Nodes[i].ins[2]} \subseteq Varying => 2 = 1
    BY <1>3, Zenon DEF Straight
  <2> QED
    BY <2>1, <2>2
<1>4. \A v : v \notin Varying => v \notin model.inputs /\ Given(Nodes, v)
  BY DEF Varying, Given
<1> QED
  BY <1>2, <1>3, <1>4, Zenon DEF ConstantWeights

(* Every shape in range is resolved.                                       *)
LEMMA InRangeResolves ==
  ASSUME LaunchInv, MinInferred, stage = "unresolved", Straight, FitsAddressSpace(Value)
  PROVE  AtShapes(shapes) # {}
<1> DEFINE atMin == [v \in model.inputs |-> model.profile[v]["min"]]
           atMax == [v \in model.inputs |-> model.profile[v]["max"]]
           a == Described(atMin)
           b == Described(shapes)
           c == Described(atMax)
<1>1. /\ Validated /\ ViewsInside /\ PlannedAtMax /\ ShapesInRange /\ AtPoint("min") # {}
  BY DEF LaunchInv, MinInferred, Planned, Compiled
<1>2. /\ model.inputs \subseteq Value /\ model.descs \in [Value -> Desc] /\ Graph(Nodes)
      /\ \A i \in DOMAIN Nodes : Nodes[i].out \notin model.inputs /\ Nodes[i].out \in Value
  BY ModelTyped
<1>3. \A v \in model.inputs :
        /\ shapes[v] \in Seq(Int) /\ atMin[v] \in Seq(Int) /\ atMax[v] \in Seq(Int)
        /\ WithinShape(atMin[v], shapes[v]) /\ WithinShape(shapes[v], atMax[v])
  BY <1>1, RangePoints DEF ShapesInRange
<1>4. /\ a \in [Value -> Desc] /\ AtShapes(atMin) = InferAll(Nodes, a)
      /\ b \in [Value -> Desc] /\ AtShapes(shapes) = InferAll(Nodes, b)
      /\ c \in [Value -> Desc] /\ AtShapes(atMax) = InferAll(Nodes, c)
  BY <1>3, GivenTyped
<1>5. PICK f \in AtPoint("max") : Plannable(f)
  BY <1>1 DEF PlannedAtMax
<1>6. PICK d \in AtPoint("min") : TRUE
  BY <1>1
<1>7. d \in InferAll(Nodes, a) /\ f \in InferAll(Nodes, c)
  BY <1>4 DEF AtPoint
<1>8. ASSUME NEW v \in Value
      PROVE  IF v \in model.inputs
             THEN /\ a[v] = [model.descs[v] EXCEPT !.shape = atMin[v]]
                  /\ b[v] = [model.descs[v] EXCEPT !.shape = shapes[v]]
                  /\ c[v] = [model.descs[v] EXCEPT !.shape = atMax[v]]
             ELSE a[v] = b[v] /\ b[v] = c[v]
  BY DEF Described
<1> HIDE DEF atMin, atMax, a, b, c
<1>9. Spread(Nodes, Varying, a, b, c)
  <2> SUFFICES ASSUME NEW v \in Value
               PROVE  /\ Within(a[v], b[v]) /\ Within(b[v], c[v])
                      /\ v \notin Varying => a[v] = b[v] /\ b[v] = c[v]
    BY DEF Spread
  <2>1. CASE v \in model.inputs
    <3>1. model.descs[v] \in Desc
      BY <1>2
    <3>2. /\ a[v].shape = atMin[v] /\ b[v].shape = shapes[v] /\ c[v].shape = atMax[v]
          /\ a[v].dtype = b[v].dtype /\ a[v].layout = b[v].layout
          /\ b[v].dtype = c[v].dtype /\ b[v].layout = c[v].layout
      BY <1>8, <2>1, <3>1 DEF Desc
    <3>3. v \in Varying
      BY <2>1 DEF Varying
    <3> QED
      BY <1>3, <2>1, <3>2, <3>3 DEF Within
  <2>2. CASE v \notin model.inputs
    BY <1>8, <2>2 DEF Within, WithinShape
  <2> QED
    BY <2>1, <2>2
<1>10. f \in [Value -> Desc] /\ InferredUpTo(Nodes, c, Len(Nodes), f)
  BY <1>2, <1>4, <1>7, InferAllSound
<1>11. \A i \in DOMAIN Nodes : f[Nodes[i].out] \in Infer(Nodes[i], Args(f, Nodes[i]))
  <2>1. DOMAIN Nodes = 1..Len(Nodes)
    BY <1>2 DEF Graph
  <2> QED
    BY <1>10, <2>1, Zenon DEF InferredUpTo
<1>12. \A i \in DOMAIN Nodes : Nodes[i].op = "Flatten" =>
         NumElements(f[Nodes[i].ins[1]].shape) # 0
  BY <1>1, <1>5, <1>10, <1>11, ElementsAtMax
<1>13. \A v \in Value : NumElements(f[v].shape) * ElementSize(f[v].dtype) < SizeModulus
  BY DEF FitsAddressSpace
<1>14. Lone(Nodes, Varying)
  BY StraightModel
<1>15. InferAll(Nodes, b) # {}
  BY <1>2, <1>4, <1>7, <1>9, <1>12, <1>13, <1>14, AllBetween
<1> QED
  BY <1>4, <1>15

(* What a Flatten gives has the bytes of what it flattens.                 *)
LEMMA ViewsKeepBytes ==
  ASSUME LaunchInv, stage = "resolved", ConstantWeights, NEW v \in ViewValues
  PROVE  ByteSize(descs[v]) = ByteSize(descs[ViewSource(v)])
<1>1. /\ Validated /\ ViewsInside /\ PlannedAtMax /\ ShapesInRange /\ descs \in AtShapes(shapes)
  BY DEF LaunchInv, Planned, Compiled
<1>2. /\ model.inputs \subseteq Value /\ model.descs \in [Value -> Desc] /\ Graph(Nodes)
  BY ModelTyped
<1>3. PICK e \in AtPoint("max") : Plannable(e)
  BY <1>1 DEF PlannedAtMax
<1>4. /\ descs \in [Value -> Desc] /\ e \in [Value -> Desc]
      /\ \A u \in Value : Within(descs[u], e[u])
  BY <1>1, <1>3, ActiveWithinMax
<1> DEFINE atMax == [u \in model.inputs |-> model.profile[u]["max"]]
<1>5. /\ \A u \in model.inputs : shapes[u] \in Seq(Int) /\ atMax[u] \in Seq(Int)
  BY <1>1, RangePoints DEF ShapesInRange
<1>6. /\ Described(shapes) \in [Value -> Desc]
      /\ AtShapes(shapes) = InferAll(Nodes, Described(shapes))
      /\ Described(atMax) \in [Value -> Desc] /\ AtShapes(atMax) = InferAll(Nodes, Described(atMax))
  BY <1>5, GivenTyped
<1>7. descs \in InferAll(Nodes, Described(shapes)) /\ e \in InferAll(Nodes, Described(atMax))
  BY <1>1, <1>3, <1>6 DEF AtPoint
<1> HIDE DEF atMax
<1>8. /\ InferredUpTo(Nodes, Described(shapes), Len(Nodes), descs)
      /\ InferredUpTo(Nodes, Described(atMax), Len(Nodes), e)
  BY <1>2, <1>6, <1>7, InferAllSound
<1>9. /\ DOMAIN Nodes = 1..Len(Nodes) /\ InOrder(Nodes)
      /\ \A i \in DOMAIN Nodes : TypedNode(Nodes[i])
  BY <1>2 DEF Graph
<1>10. \A i \in DOMAIN Nodes : /\ descs[Nodes[i].out] \in Infer(Nodes[i], Args(descs, Nodes[i]))
                               /\ e[Nodes[i].out] \in Infer(Nodes[i], Args(e, Nodes[i]))
  BY <1>8, <1>9, Zenon DEF InferredUpTo
<1>11. \A i \in DOMAIN Nodes : Nodes[i].op = "Flatten" =>
         NumElements(e[Nodes[i].ins[1]].shape) # 0
  BY <1>1, <1>3, <1>4, <1>10, ElementsAtMax
<1>12. PICK i \in Views : Nodes[i].out = v
  BY DEF ViewValues
<1> DEFINE node == Nodes[i]
           u == node.ins[1]
           x == descs[u]
<1>13. i \in DOMAIN Nodes /\ node.op = "Flatten" /\ TypedNode(node)
  BY <1>9 DEF Views, IsView
<1>14. ViewSource(v) = u
  <2>1. \A j \in Views : Nodes[j].out = v => j = i
    BY <1>9, <1>12, <1>13 DEF InOrder, Views
  <2>2. (CHOOSE j \in Views : Nodes[j].out = v) = i
    BY <1>12, <2>1
  <2> QED
    BY <2>2 DEF ViewSource
<1>15. /\ descs[v] \in InferFlatten(node, Args(descs, node)[1])
       /\ Len(Args(descs, node)) \in InputCounts(node.op)
  BY <1>10, <1>12, <1>13, InferCases DEF ConvLike, GemmLike, PoolLike
<1>16. u \in Value /\ Args(descs, node)[1] = x /\ x \in Desc
  <2>1. 1 \in 1..Len(node.ins)
    <3>1. Len(Args(descs, node)) = Len(node.ins)
      BY <1>4, <1>13, ArgsTyped, Zenon
    <3>2. Len(node.ins) \in InputCounts("Flatten")
      BY <1>13, <1>15, <3>1, Zenon
    <3>3. \A n \in InputCounts("Flatten") : 1 \in 1..n
      BY DEF InputCounts, ConvLike, GemmLike, Elementwise, PoolLike
    <3> QED
      BY <3>2, <3>3, Zenon
  <2> QED
    BY <1>4, <1>13, <2>1, ArgsTyped, Zenon
<1> DEFINE axis == FlattenAxis(node, Len(x.shape))
<1>17. /\ axis \in 0..Len(x.shape) /\ descs[v].dtype = x.dtype
       /\ descs[v].shape = <<Product(x.shape, 1, axis), Product(x.shape, axis + 1, Len(x.shape))>>
  <2> DEFINE q == descs[v]
  <2>1. q \in InferFlatten(node, x)
    BY <1>15, <1>16
  <2>2. TypedNode(node) /\ x \in Desc
    BY <1>13, <1>16
  <2> HIDE DEF node, x, q
  <2>3. /\ FlattenAxis(node, Len(x.shape)) \in 0..Len(x.shape) /\ q.dtype = x.dtype
        /\ q.shape = <<Product(x.shape, 1, FlattenAxis(node, Len(x.shape))),
                       Product(x.shape, FlattenAxis(node, Len(x.shape)) + 1, Len(x.shape))>>
    BY <2>1, <2>2, InferredFlatten
  <2> QED
    BY <2>3 DEF q
<1>18. x.shape \in Seq(Int) /\ NumElements(x.shape) # 0
  <2>1. /\ x.shape \in Seq(Int) /\ e[u].shape \in Seq(Int) /\ WithinShape(x.shape, e[u].shape)
    BY <1>4, <1>16 DEF Desc, Within
  <2>2. NumElements(e[u].shape) # 0
    BY <1>11, <1>13
  <2>3. NumElements(x.shape) \in 1..NumElements(e[u].shape)
    BY <2>1, <2>2, ElementsWithin
  <2>4. \A m, k : m \in 1..k => m # 0
    OBVIOUS
  <2> QED
    BY <2>1, <2>3, <2>4, Zenon
<1> HIDE DEF axis
<1>19. NumElements(descs[v].shape) = NumElements(x.shape)
  BY <1>17, <1>18, FlattenKeeps
<1> QED
  BY <1>14, <1>17, <1>19 DEF ByteSize

(* If a model compiles of which no operator reads two values that vary,    *)
(* and a size_t counts its bytes, then every shape that SetInputShape      *)
(* accepts is resolved and its views keep their bytes: ResolveShapes and   *)
(* PrepareTensors refuse none of the shapes between the profile's points.  *)
THEOREM ShapesBetweenPointsRun ==
  Spec => [](FitsAddressSpace(Value) => InRangeShapesRun)
<1> DEFINE Runs == FitsAddressSpace(Value) => InRangeShapesRun
<1>1. Init => MinInferred /\ Runs
  BY DEF Init, MinInferred, AllPoints, InRangeShapesRun, Planned, Compiled
<1>2. LaunchInv /\ MinInferred /\ Runs /\ [Next]_vars => MinInferred' /\ Runs'
  <2> SUFFICES ASSUME LaunchInv, MinInferred, Runs, [Next]_vars
               PROVE  MinInferred' /\ Runs'
    OBVIOUS
  <2>1. UNCHANGED model
    BY DEF Next, vars, compiled, ValidateProfiles, Lower, PlanPoint, CompileEnded, CompileFails,
           SelectShapeProfile, SetInputShape, ResolveShapes, StartRun, SkipView, Launch, Advance,
           Reconfigure
  <2>2. Nodes' = Nodes /\ AtPoint("max")' = AtPoint("max")
    BY <2>1 DEF AtPoint, AtShapes, Nodes
  <2>3. (Straight' <=> Straight) /\ (FitsAddressSpace(Value)' <=> FitsAddressSpace(Value))
    BY <2>1, <2>2 DEF Straight, Varying, FitsAddressSpace
  <2>4. SUFFICES ASSUME Straight, FitsAddressSpace(Value),
                        refused \notin {"ResolveShapes", "PrepareTensors"}
                 PROVE  refused' \notin {"ResolveShapes", "PrepareTensors"}
    BY <2>3, MinInferredStep DEF InRangeShapesRun
  <2>5. CASE ResolveShapes
    <3>1. stage = "unresolved" /\ AtShapes(shapes) # {}
      BY <2>4, <2>5, InRangeResolves DEF ResolveShapes
    <3> QED
      BY <2>5, <3>1 DEF ResolveShapes, Reconfigure
  <2>6. CASE StartRun
    <3>1. \A v \in ViewValues : ByteSize(descs[v]) = ByteSize(descs[ViewSource(v)])
      BY <2>4, <2>6, StraightModel, ViewsKeepBytes DEF StartRun
    <3> QED
      BY <2>6, <3>1 DEF StartRun, Refuse
  <2>7. CASE ValidateProfiles \/ Lower \/ PlanPoint
    BY <2>4, <2>7 DEF ValidateProfiles, Lower, PlanPoint, CompileFails, Refuse
  <2>8. CASE SelectShapeProfile
    BY <2>8 DEF SelectShapeProfile, Reconfigure
  <2>9. ASSUME NEW v \in model.inputs, NEW shape \in Requests[v], SetInputShape(v, shape)
        PROVE  refused' \in {"none", "SetInputShape"}
    BY <2>9 DEF SetInputShape, Reconfigure, Refuse
  <2>10. CASE SkipView \/ Launch
    BY <2>4, <2>10 DEF SkipView, Launch, Advance, Refuse
  <2>11. CASE UNCHANGED vars \/ CompileEnded
    BY <2>4, <2>11 DEF CompileEnded, vars
  <2> QED
    BY <2>5, <2>6, <2>7, <2>8, <2>9, <2>10, <2>11 DEF Next
<1>3. Runs => (FitsAddressSpace(Value) => InRangeShapesRun)
  OBVIOUS
<1> QED
  BY <1>1, <1>2, <1>3, LaunchInvariant, PTL DEF Spec
-----------------------------------------------------------------------------
(* What programs write: each element once.                                 *)

(* Every element up to count is written by one program and no other        *)
(* element is; written is a function on the programs.                      *)
WrittenOnce(grid, count, written) ==
  /\ \A o \in 0..(count - 1) : Cardinality({p \in 0..(grid - 1) : o \in written[p]}) = 1
  /\ \A p \in 0..(grid - 1) : written[p] \subseteq 0..(count - 1)

(* So it is if every element has an owner that writes it, alone.           *)
LEMMA OwnersWrite ==
  ASSUME NEW grid, NEW count, NEW written, NEW owner,
         \A o \in 0..(count - 1) : owner[o] \in 0..(grid - 1) /\ o \in written[owner[o]],
         \A p \in 0..(grid - 1) : \A o \in written[p] :
           o \in 0..(count - 1) /\ owner[o] = p
  PROVE  WrittenOnce(grid, count, written)
<1>1. ASSUME NEW o \in 0..(count - 1)
      PROVE  Cardinality({p \in 0..(grid - 1) : o \in written[p]}) = 1
  <2>1. {p \in 0..(grid - 1) : o \in written[p]} = {owner[o]}
    OBVIOUS
  <2> QED
    BY <2>1, FS_Singleton
<1> QED
  BY <1>1 DEF WrittenOnce

(* Rounded up, a quotient covers and does not exceed.                      *)
LEMMA CeilDivCovers ==
  ASSUME NEW a \in Nat \ {0}, NEW b \in Nat \ {0}
  PROVE  /\ CeilDiv(a, b) \in Nat \ {0}
         /\ \A q \in Nat : q < CeilDiv(a, b) <=> q * b < a
<1> DEFINE t == (a - 1) \div b
<1>1. t \in Nat /\ t * b <= a - 1 /\ a - 1 < t * b + b
  <2>1. a - 1 \in Int /\ a - 1 >= 0
    OBVIOUS
  <2>2. /\ (a - 1) \div b \in Int /\ ((a - 1) \div b) * b <= a - 1
        /\ a - 1 < ((a - 1) \div b) * b + b /\ (a - 1) \div b >= 0
    BY <2>1, Divides
  <2> QED
    BY <2>2
<1>2. CeilDiv(a, b) = 1 + t
  BY DEF CeilDiv
<1> HIDE DEF t
<1>3. ASSUME NEW q \in Nat PROVE q < 1 + t <=> q * b < a
  <2>1. q <= t => q * b <= t * b
    BY <1>1, ProductGrows
  <2>2. t + 1 <= q => (t + 1) * b <= q * b
    BY <1>1, ProductGrows
  <2>3. (t + 1) * b = t * b + b
    BY <1>1
  <2>4. q * b \in Nat /\ t * b \in Nat
    BY <1>1
  <2> QED
    BY <1>1, <2>1, <2>2, <2>3, <2>4
<1> QED
  BY <1>1, <1>2, <1>3

(* 32 bits keep an integer that fits them.                                 *)
LEMMA Int32Fits ==
  ASSUME NEW value \in 0..Int32Max
  PROVE  Int32(value) = value
<1>1. Int32Max \in Nat \ {0}
  BY KernelAssumption
<1>2. (value + Int32Max + 1) % (2 * (Int32Max + 1)) = value + Int32Max + 1
  <2>1. /\ value + Int32Max + 1 \in Int /\ 2 * (Int32Max + 1) \in Nat \ {0}
        /\ value + Int32Max + 1 \in 0..(2 * (Int32Max + 1) - 1)
        /\ value + Int32Max + 1 = 0 * (2 * (Int32Max + 1)) + (value + Int32Max + 1)
    BY <1>1
  <2> QED
    BY <2>1, DivisionUnique
<1> QED
  BY <1>1, <1>2 DEF Int32

(* A block that starts in 32 bits ends there.                              *)
LEMMA BlockFits ==
  ASSUME NEW size \in Nat \ {0}, (Int32Max + 1) % size = 0, NEW i \in Nat, i * size <= Int32Max
  PROVE  BlockAt(i, size) = (i * size)..(i * size + size - 1)
<1> DEFINE half == Int32Max + 1
           q == half \div size
           first == i * size
<1>1. half \in Nat \ {0} /\ Int32Max = half - 1
  BY KernelAssumption
<1>2. q \in Int /\ q * size = half
  <2> HIDE DEF half
  <2>1. half \in Int /\ half % size = 0
    BY <1>1 DEF half
  <2>2. half \div size \in Int /\ half = (half \div size) * size + (half % size)
    BY <2>1, Divides, Zenon
  <2> QED
    BY <1>1, <2>1, <2>2
<1> HIDE DEF q, half
<1>3. first \in Nat /\ first + size <= half
  <2>1. first \in Nat
    OBVIOUS
  <2>2. q <= i => q * size <= i * size
    BY <1>2, ProductGrows
  <2>3. i + 1 <= q
    BY <1>1, <1>2, <2>1, <2>2
  <2>4. (i + 1) * size <= q * size
    BY <1>2, <2>3, ProductGrows
  <2>5. (i + 1) * size = first + size
    OBVIOUS
  <2> QED
    BY <1>2, <2>1, <2>4, <2>5
<1> HIDE DEF first
<1>4. \A k \in 0..(size - 1) : Int32(first + k) = first + k
  <2> SUFFICES ASSUME NEW k \in 0..(size - 1) PROVE Int32(first + k) = first + k
    OBVIOUS
  <2>1. first + k \in 0..Int32Max
    BY <1>1, <1>3
  <2> QED
    BY <2>1, Int32Fits
<1>5. BlockAt(i, size) = {first + k : k \in 0..(size - 1)}
  <2>1. BlockAt(i, size) = {Int32(first + k) : k \in 0..(size - 1)}
    BY DEF BlockAt, first
  <2> QED
    BY <1>4, <2>1
<1>6. {first + k : k \in 0..(size - 1)} = first..(first + size - 1)
  <2>1. ASSUME NEW o \in first..(first + size - 1)
        PROVE  \E k \in 0..(size - 1) : o = first + k
    <3>1. o - first \in 0..(size - 1) /\ o = first + (o - first)
      BY <1>3
    <3> QED
      BY <3>1
  <2>2. ASSUME NEW k \in 0..(size - 1) PROVE first + k \in first..(first + size - 1)
    BY <1>3
  <2> QED
    BY <2>1, <2>2
<1> QED
  BY <1>5, <1>6 DEF first

(* So does a quotient that Triton rounds up.                               *)
LEMMA CdivFits ==
  ASSUME NEW a \in Nat \ {0}, NEW b \in Nat \ {0}, a + b - 1 <= Int32Max
  PROVE  Cdiv(a, b) = CeilDiv(a, b)
<1>1. a + b - 1 \in 0..Int32Max /\ a + b - 1 \in Int
  BY KernelAssumption
<1>2. Cdiv(a, b) = (a + b - 1) \div b
  BY <1>1, Int32Fits DEF Cdiv, Quotient
<1> DEFINE q == (a - 1) \div b
           r == (a - 1) % b
           t == q + 1
           d == a + b - 1
<1>3. q \in Int /\ r \in 0..(b - 1) /\ a - 1 = q * b + r
  <2>1. a - 1 \in Int
    OBVIOUS
  <2>2. /\ (a - 1) \div b \in Int /\ (a - 1) % b \in 0..(b - 1)
        /\ a - 1 = ((a - 1) \div b) * b + ((a - 1) % b)
    BY <2>1, Divides, Zenon
  <2> QED
    BY <2>2
<1> HIDE DEF q, r
<1>4. d \in Int /\ t \in Int /\ d = t * b + r
  <2>1. (q + 1) * b = q * b + b
    BY <1>3
  <2> QED
    BY <1>1, <1>3, <2>1
<1> HIDE DEF d, t
<1>5. d \div b = t
  BY <1>3, <1>4, DivisionUnique
<1>6. CeilDiv(a, b) = 1 + q
  BY DEF CeilDiv, q
<1> QED
  BY <1>2, <1>3, <1>5, <1>6 DEF d, t

(* A flat kernel's programs take a block each.                             *)
LEMMA FlatWritesOnce ==
  ASSUME NEW count \in 1..Int32Max, NEW written,
         \A p \in Nat : written[p] = {o \in BlockAt(p, Block) : o < count}
  PROVE  WrittenOnce(CeilDiv(count, Block), count, written)
<1> DEFINE grid == CeilDiv(count, Block)
           owner == [o \in Nat |-> o \div Block]
<1>1. Block \in Nat \ {0} /\ count \in Nat \ {0} /\ Int32Max \in Nat
  BY KernelAssumption
<1>2. grid \in Nat \ {0} /\ \A q \in Nat : q < grid <=> q * Block < count
  BY <1>1, CeilDivCovers
<1> HIDE DEF grid
<1>3. ASSUME NEW p \in Nat, p * Block < count
      PROVE  written[p] = {o \in (p * Block)..(p * Block + Block - 1) : o < count}
  <2>1. p * Block <= Int32Max
    BY <1>1, <1>3
  <2>2. BlockAt(p, Block) = (p * Block)..(p * Block + Block - 1)
    BY <1>1, <2>1, BlockFits, KernelAssumption
  <2> QED
    BY <2>2
<1>4. ASSUME NEW o \in 0..(count - 1) PROVE owner[o] \in 0..(grid - 1) /\ o \in written[owner[o]]
  <2> DEFINE q == o \div Block
  <2>1. q \in Nat /\ q * Block <= o /\ o < q * Block + Block
    BY <1>1, Divides
  <2>2. owner[o] = q
    OBVIOUS
  <2> HIDE DEF q, owner
  <2>3. q * Block \in Int /\ q * Block < count
    BY <1>1, <2>1
  <2> QED
    BY <1>1, <1>2, <1>3, <2>1, <2>2, <2>3
<1>5. ASSUME NEW p \in 0..(grid - 1), NEW o \in written[p]
      PROVE  o \in 0..(count - 1) /\ owner[o] = p
  <2>1. p \in Nat /\ p * Block \in Nat /\ p * Block < count
    BY <1>1, <1>2
  <2>2. o \in (p * Block)..(p * Block + Block - 1) /\ o < count
    BY <1>3, <2>1
  <2>3. o \in Nat /\ o \in 0..(count - 1)
    BY <1>1, <2>1, <2>2
  <2>4. o - p * Block \in 0..(Block - 1) /\ o = p * Block + (o - p * Block)
    BY <1>1, <2>1, <2>2
  <2>5. o \div Block = p
    BY <1>1, <2>1, <2>3, <2>4, DivisionUnique
  <2> QED
    BY <2>3, <2>5
<1>6. WrittenOnce(grid, count, written)
  <2> HIDE DEF owner
  <2> QED
    BY <1>4, <1>5, OwnersWrite
<1> QED
  BY <1>6 DEF grid

(* The tile a program takes, of tm rows of tn tiles in groups of g rows.   *)
GroupHeight(first, tm, g) == Least(tm - first, g)
Tile(p, tm, tn, g) ==
  LET first == (p \div (g * tn)) * g
      height == GroupHeight(first, tm, g)
  IN  <<first + ((p % (g * tn)) % height), (p % (g * tn)) \div height>>

(* And the program that takes a tile.                                      *)
TileProgram(i, j, tm, tn, g) ==
  LET first == (i \div g) * g
  IN  (i \div g) * (g * tn) + (j * GroupHeight(first, tm, g) + (i - first))

(* Program p takes the tile in row i and column j, and no other does.      *)
Takes(p, i, j, tm, tn, g) ==
  /\ p \in 0..(tm * tn - 1) /\ i \in 0..(tm - 1) /\ j \in 0..(tn - 1)
  /\ Tile(p, tm, tn, g)[1] = i /\ Tile(p, tm, tn, g)[2] = j
  /\ TileProgram(i, j, tm, tn, g) = p

(* A group has rows of its own.                                            *)
LEMMA GroupRows ==
  ASSUME NEW tm \in Nat \ {0}, NEW g \in Nat \ {0}, NEW k \in Nat, k * g < tm
  PROVE  /\ GroupHeight(k * g, tm, g) \in 1..g
         /\ k * g + GroupHeight(k * g, tm, g) <= tm
         /\ \A i \in 0..(tm - 1) :
              i - k * g \in 0..(g - 1) => i - k * g \in 0..(GroupHeight(k * g, tm, g) - 1)
<1> DEFINE f == k * g
<1>1. f \in Nat /\ f < tm
  OBVIOUS
<1> HIDE DEF f
<1>2. /\ GroupHeight(f, tm, g) \in 1..g
      /\ f + GroupHeight(f, tm, g) <= tm
      /\ \A i \in 0..(tm - 1) : i - f \in 0..(g - 1) => i - f \in 0..(GroupHeight(f, tm, g) - 1)
  BY <1>1 DEF GroupHeight, Least
<1> QED
  BY <1>2 DEF f

(* What a grid's program takes is a tile, and it is the tile's program.    *)
LEMMA ProgramsTakeTiles ==
  ASSUME NEW tm \in Nat \ {0}, NEW tn \in Nat \ {0}, NEW g \in Nat \ {0},
         NEW p \in 0..(tm * tn - 1)
  PROVE  Takes(p, Tile(p, tm, tn, g)[1], Tile(p, tm, tn, g)[2], tm, tn, g)
<1> DEFINE width == g * tn
           k == p \div width
           r == p % width
           first == k * g
           h == GroupHeight(first, tm, g)
           i == first + (r % h)
           j == r \div h
<1>1. width \in Nat \ {0} /\ p \in Nat /\ p < tm * tn /\ tm * tn \in Nat
  BY ProductBound
<1>2. /\ k \in Nat /\ r \in 0..(width - 1) /\ p = k * width + r
      /\ k * width \in Nat
  <2> HIDE DEF width
  <2>1. p \in Int /\ p >= 0 /\ width \in Nat \ {0}
    BY <1>1
  <2>2. /\ p \div width \in Int /\ p % width \in 0..(width - 1)
        /\ p = (p \div width) * width + (p % width) /\ p \div width >= 0
    BY <2>1, Divides
  <2>3. k \in Int /\ r \in 0..(width - 1) /\ p = k * width + r /\ k >= 0
    BY <2>2
  <2> HIDE DEF k, r
  <2> QED
    BY <1>1, <2>3
<1>3. k * width = first * tn /\ first \in Nat
  <2> HIDE DEF k
  <2> QED
    BY <1>2
<1> HIDE DEF k, r
<1>4. first < tm
  <2>1. first >= tm => tm * tn <= first * tn
    BY <1>3, ProductGrows
  <2> HIDE DEF first, width
  <2> QED
    BY <1>1, <1>2, <1>3, <2>1
<1>5. h \in 1..g /\ first + h <= tm
  BY <1>2, <1>4, GroupRows
<1> HIDE DEF h
<1>6. r < h * tn
  <2>1. CASE h = g
    BY <1>2, <2>1
  <2>2. CASE h = tm - first
    <3>1. (tm - first) * tn = tm * tn - first * tn
      BY <1>3
    <3> HIDE DEF first, width
    <3> QED
      BY <1>1, <1>2, <1>3, <2>2, <3>1
  <2>3. h = g \/ h = tm - first
    BY DEF h, GroupHeight, Least
  <2> QED
    BY <2>1, <2>2, <2>3
<1> HIDE DEF width, first
<1>7. /\ r % h \in 0..(h - 1) /\ j \in Nat /\ r = j * h + (r % h) /\ j * h <= r
  <2>1. r \in Int /\ r >= 0 /\ h \in Nat \ {0}
    BY <1>1, <1>2, <1>5
  <2>2. /\ r \div h \in Int /\ r % h \in 0..(h - 1) /\ r = (r \div h) * h + (r % h)
        /\ (r \div h) * h <= r /\ r \div h >= 0
    BY <2>1, Divides
  <2> QED
    BY <2>2
<1>8. j < tn
  <2>1. j >= tn => tn * h <= j * h
    <3>1. j \in Nat /\ h \in Nat /\ tn \in Nat
      BY <1>5, <1>7
    <3> HIDE DEF j
    <3> QED
      BY <3>1, ProductGrows
  <2>2. tn * h = h * tn /\ j * h \in Int /\ h * tn \in Int
    BY <1>5, <1>7
  <2> QED
    BY <1>1, <1>2, <1>6, <1>7, <2>1, <2>2
<1>9. i \in 0..(tm - 1)
  BY <1>3, <1>5, <1>7
<1>10. i \div g = k
  <2>1. r % h \in 0..(g - 1) /\ i = k * g + (r % h) /\ i \in Int
    BY <1>5, <1>7, <1>9 DEF first
  <2> QED
    BY <1>2, <2>1, DivisionUnique
<1>11. TileProgram(i, j, tm, tn, g) = k * width + (j * h + (i - first))
  BY <1>10 DEF TileProgram, first, h, width
<1>12. i - first = r % h
  BY <1>3, <1>5, <1>7
<1>13. TileProgram(i, j, tm, tn, g) = p
  BY <1>2, <1>7, <1>11, <1>12
<1>14. Tile(p, tm, tn, g)[1] = i /\ Tile(p, tm, tn, g)[2] = j
  BY DEF Tile, width, k, r, first, h
<1> QED
  <2> HIDE DEF i, j
  <2>1. j \in 0..(tn - 1)
    BY <1>7, <1>8
  <2> QED
    BY <1>9, <1>13, <1>14, <2>1 DEF Takes

(* Every tile has its program.                                             *)
LEMMA TilesHavePrograms ==
  ASSUME NEW tm \in Nat \ {0}, NEW tn \in Nat \ {0}, NEW g \in Nat \ {0},
         NEW i \in 0..(tm - 1), NEW j \in 0..(tn - 1)
  PROVE  Takes(TileProgram(i, j, tm, tn, g), i, j, tm, tn, g)
<1> DEFINE width == g * tn
           k == i \div g
           first == k * g
           h == GroupHeight(first, tm, g)
           q == j * h + (i - first)
           p == k * width + q
<1>1. k \in Nat /\ first <= i /\ i < first + g
  BY Divides
<1>2. first \in Nat /\ first < tm /\ k * width = first * tn /\ width \in Nat \ {0}
  <2>1. width \in Nat \ {0}
    BY ProductBound
  <2> HIDE DEF k
  <2> QED
    BY <1>1, <2>1
<1>3. h \in 1..g /\ first + h <= tm /\ i - first \in 0..(h - 1)
  <2>1. k \in Nat /\ k * g < tm
    BY <1>1, <1>2
  <2>2. i - k * g \in 0..(g - 1)
    BY <1>1, <1>2
  <2> HIDE DEF k
  <2> QED
    BY <2>1, <2>2, GroupRows
<1> HIDE DEF h, first, k
<1>4. j * h \in Nat /\ q \in Nat /\ q < tn * h
  <2>1. j * h <= (tn - 1) * h
    BY <1>3, ProductGrows
  <2>2. (tn - 1) * h = tn * h - h /\ tn * h \in Nat /\ j * h \in Nat
    BY <1>3
  <2> QED
    BY <1>2, <1>3, <2>1, <2>2
<1>5. q \in 0..(width - 1)
  <2>1. tn * h <= tn * g
    BY <1>3, ProductGrows
  <2>2. tn * g = width
    OBVIOUS
  <2> HIDE DEF width, q
  <2>3. tn * h \in Int /\ tn * g \in Int
    BY <1>3
  <2> QED
    BY <1>2, <1>4, <2>1, <2>2, <2>3
<1> HIDE DEF width
<1>6. p \in Nat /\ p \div width = k /\ p % width = q
  <2> HIDE DEF q
  <2>1. p \in Nat
    BY <1>1, <1>2, <1>5
  <2> QED
    BY <1>1, <1>2, <1>5, <2>1, DivisionUnique
<1>7. p < tm * tn
  <2>1. first * tn + tn * h = (first + h) * tn
    BY <1>2, <1>3
  <2>2. (first + h) * tn <= tm * tn
    BY <1>2, <1>3, ProductGrows
  <2> HIDE DEF q
  <2>3. first * tn \in Int /\ tn * h \in Int /\ tm * tn \in Int
    BY <1>2, <1>3
  <2> QED
    BY <1>2, <1>4, <2>1, <2>2, <2>3
<1>8. q \div h = j /\ q % h = i - first
  <2>1. /\ q \in Int /\ h \in Nat \ {0} /\ j \in Int /\ i - first \in 0..(h - 1)
        /\ q = j * h + (i - first)
    BY <1>3, <1>4
  <2> HIDE DEF q
  <2> QED
    BY <2>1, DivisionUnique
<1>9. Tile(p, tm, tn, g) = <<first + (i - first), j>>
  <2> HIDE DEF p, q
  <2> QED
    BY <1>6, <1>8 DEF Tile, first, h, width
<1>10. TileProgram(i, j, tm, tn, g) = p
  BY DEF TileProgram, k, first, h, width
<1>11. first + (i - first) = i
  BY <1>2
<1>12. Tile(p, tm, tn, g)[1] = i /\ Tile(p, tm, tn, g)[2] = j
  BY <1>9, <1>11
<1>13. p \in 0..(tm * tn - 1)
  <2> HIDE DEF p
  <2>1. tm * tn \in Int
    OBVIOUS
  <2> QED
    BY <1>6, <1>7, <2>1
<1> QED
  <2> HIDE DEF p
  <2> QED
    BY <1>10, <1>12, <1>13 DEF Takes

(* A tiled kernel's programs take a tile each.                             *)
LEMMA TiledWritesOnce ==
  ASSUME NEW a, a.m \in Nat \ {0}, a.n \in Nat \ {0}, NEW meta \in Tiles, NEW written,
         a.m + meta.BLOCK_M - 1 <= Int32Max, a.n + meta.BLOCK_N - 1 <= Int32Max,
         a.m * a.n <= Int32Max,
         \A p \in Nat : written[p] = Writes("gemm_tiled", p, a, meta)
  PROVE  WrittenOnce(CeilDiv(a.m, meta.BLOCK_M) * CeilDiv(a.n, meta.BLOCK_N), a.m * a.n, written)
<1> DEFINE m == a.m
           n == a.n
           bm == meta.BLOCK_M
           bn == meta.BLOCK_N
           g == meta.GROUP_M
           tm == CeilDiv(m, bm)
           tn == CeilDiv(n, bn)
           owner == [o \in Nat |-> TileProgram((o \div n) \div bm, (o % n) \div bn, tm, tn, g)]
<1>1. m \in Nat \ {0} /\ n \in Nat \ {0} /\ {bm, bn, g} \subseteq Nat \ {0}
  BY KernelAssumption
<1>2. /\ tm \in Nat \ {0} /\ \A q \in Nat : q < tm <=> q * bm < m
      /\ tn \in Nat \ {0} /\ \A q \in Nat : q < tn <=> q * bn < n
  BY <1>1, CeilDivCovers
<1>3. tm \in Nat \ {0} /\ tn \in Nat \ {0} /\ g \in Nat \ {0}
  BY <1>1, <1>2
<1>4. \A p : TileOf(p, a, meta) = Tile(p, tm, tn, g)
  <2>1. Cdiv(a.m, meta.BLOCK_M) = tm /\ Cdiv(a.n, meta.BLOCK_N) = tn
    BY <1>1, CdivFits
  <2> HIDE DEF tm, tn
  <2> QED
    BY <2>1 DEF TileOf, Tile, GroupHeight
<1>5. \A p \in Nat : written[p] =
        LET tile == Tile(p, tm, tn, g)
        IN  {Int32(row * n) + column : row \in {r \in BlockAt(tile[1], bm) : r < m},
                                       column \in {c \in BlockAt(tile[2], bn) : c < n}}
  BY <1>4 DEF Writes
<1>6. /\ m * n <= Int32Max /\ m - 1 < Int32Max /\ n - 1 < Int32Max /\ Int32Max \in Nat
      /\ (Int32Max + 1) % bm = 0 /\ (Int32Max + 1) % bn = 0
  BY <1>1, KernelAssumption
<1> HIDE DEF m, n, bm, bn, g, tm, tn
<1>7. ASSUME NEW p \in 0..(tm * tn - 1), NEW i, NEW j,
             Tile(p, tm, tn, g)[1] = i, Tile(p, tm, tn, g)[2] = j,
             i \in 0..(tm - 1), j \in 0..(tn - 1)
      PROVE  written[p] =
               {row * n + column : row \in {r \in (i * bm)..(i * bm + bm - 1) : r < m},
                                   column \in {c \in (j * bn)..(j * bn + bn - 1) : c < n}}
  <2> DEFINE rows == {r \in (i * bm)..(i * bm + bm - 1) : r < m}
             columns == {c \in (j * bn)..(j * bn + bn - 1) : c < n}
  <2>1. p \in Nat
    <3>1. tm * tn \in Nat
      BY <1>2
    <3> QED
      BY <3>1
  <2>2. i \in Nat /\ j \in Nat /\ i * bm \in Nat /\ j * bn \in Nat /\ i * bm < m /\ j * bn < n
    BY <1>1, <1>2, <1>7
  <2>3. i * bm <= Int32Max /\ j * bn <= Int32Max
    BY <1>1, <1>6, <2>2
  <2>4. rows = {r \in BlockAt(i, bm) : r < m}
    <3>1. BlockAt(i, bm) = (i * bm)..(i * bm + bm - 1)
      BY <1>1, <1>6, <2>2, <2>3, BlockFits
    <3> QED
      BY <3>1
  <2>5. columns = {c \in BlockAt(j, bn) : c < n}
    <3>1. BlockAt(j, bn) = (j * bn)..(j * bn + bn - 1)
      BY <1>1, <1>6, <2>2, <2>3, BlockFits
    <3> QED
      BY <3>1
  <2>6. \A row \in rows : Int32(row * n) = row * n
    <3> SUFFICES ASSUME NEW row \in rows PROVE Int32(row * n) = row * n
      OBVIOUS
    <3>1. row \in Nat /\ row <= m
      BY <1>1, <2>2
    <3>2. row * n \in Nat /\ row * n <= m * n /\ m * n \in Nat
      BY <1>1, <3>1, ProductGrows
    <3> QED
      BY <1>6, <3>2, Int32Fits
  <2>7. written[p] = {Int32(row * n) + column : row \in rows, column \in columns}
    <3> HIDE DEF rows, columns
    <3> QED
      BY <1>5, <1>7, <2>1, <2>4, <2>5
  <2> HIDE DEF rows, columns
  <2>8. written[p] = {row * n + column : row \in rows, column \in columns}
    BY <2>6, <2>7
  <2> QED
    BY <2>8 DEF rows, columns
<1>8. ASSUME NEW o \in 0..(m * n - 1)
      PROVE  owner[o] \in 0..(tm * tn - 1) /\ o \in written[owner[o]]
  <2> DEFINE row == o \div n
             column == o % n
             i == row \div bm
             j == column \div bn
             p == TileProgram(i, j, tm, tn, g)
  <2>1. row \in 0..(m - 1) /\ column \in 0..(n - 1) /\ o = row * n + column
    BY <1>1, PartsOfOffset
  <2>2. owner[o] = p
    <3>1. m * n \in Nat
      BY <1>1
    <3> QED
      BY <3>1
  <2> HIDE DEF row, column
  <2>3. i \in Nat /\ i * bm <= row /\ row < i * bm + bm
    <3>1. row \in Int /\ row >= 0 /\ bm \in Nat \ {0}
      BY <1>1, <2>1
    <3>2. /\ row \div bm \in Int /\ (row \div bm) * bm <= row
          /\ row < (row \div bm) * bm + bm /\ row \div bm >= 0
      BY <3>1, Divides, Zenon
    <3> QED
      BY <3>2
  <2>4. j \in Nat /\ j * bn <= column /\ column < j * bn + bn
    <3>1. column \in Int /\ column >= 0 /\ bn \in Nat \ {0}
      BY <1>1, <2>1
    <3>2. /\ column \div bn \in Int /\ (column \div bn) * bn <= column
          /\ column < (column \div bn) * bn + bn /\ column \div bn >= 0
      BY <3>1, Divides, Zenon
    <3> QED
      BY <3>2
  <2> HIDE DEF i, j
  <2>5. i \in 0..(tm - 1) /\ j \in 0..(tn - 1)
    <3>1. i * bm \in Int /\ j * bn \in Int
      BY <1>1, <2>3, <2>4
    <3>2. i * bm < m /\ j * bn < n
      BY <1>1, <2>1, <2>3, <2>4, <3>1
    <3> QED
      BY <1>2, <2>3, <2>4, <3>2
  <2>6. /\ p \in 0..(tm * tn - 1)
        /\ Tile(p, tm, tn, g)[1] = i /\ Tile(p, tm, tn, g)[2] = j
    <3>1. Takes(p, i, j, tm, tn, g)
      BY <1>3, <2>5, TilesHavePrograms
    <3> HIDE DEF p
    <3> QED
      BY <3>1 DEF Takes
  <2>7. p \in Nat
    <3>1. tm * tn \in Nat
      BY <1>2
    <3> HIDE DEF p
    <3> QED
      BY <2>6, <3>1
  <2>8. /\ row \in {r \in (i * bm)..(i * bm + bm - 1) : r < m}
        /\ column \in {c \in (j * bn)..(j * bn + bn - 1) : c < n}
    <3>1. i * bm \in Int /\ j * bn \in Int
      BY <1>1, <2>3, <2>4
    <3> QED
      BY <1>1, <2>1, <2>3, <2>4, <3>1
  <2>9. o \in written[p]
    <3> HIDE DEF p
    <3> QED
      BY <1>7, <2>1, <2>5, <2>6, <2>8
  <2> QED
    BY <2>2, <2>6, <2>9
<1>9. ASSUME NEW p \in 0..(tm * tn - 1), NEW o \in written[p]
      PROVE  o \in 0..(m * n - 1) /\ owner[o] = p
  <2> DEFINE i == Tile(p, tm, tn, g)[1]
             j == Tile(p, tm, tn, g)[2]
  <2>1. p \in Nat
    <3>1. tm * tn \in Nat
      BY <1>2
    <3> QED
      BY <3>1
  <2>2. i \in 0..(tm - 1) /\ j \in 0..(tn - 1) /\ TileProgram(i, j, tm, tn, g) = p
    <3>1. Takes(p, i, j, tm, tn, g)
      BY <1>3, ProgramsTakeTiles
    <3> HIDE DEF i, j
    <3> QED
      BY <3>1 DEF Takes
  <2> HIDE DEF i, j
  <2>3. PICK row \in {r \in (i * bm)..(i * bm + bm - 1) : r < m},
             column \in {c \in (j * bn)..(j * bn + bn - 1) : c < n} : o = row * n + column
    BY <1>7, <2>2 DEF i, j
  <2>4. i * bm \in Nat /\ j * bn \in Nat
    BY <1>1, <1>2, <2>2
  <2>5. row \in 0..(m - 1) /\ column \in 0..(n - 1)
    BY <1>1, <2>3, <2>4
  <2>6. o \in 0..(m * n - 1) /\ o \div n = row /\ o % n = column
    <3>1. m \in Nat /\ n \in Nat \ {0} /\ row \in Int
      BY <1>1, <2>5
    <3>2. row * n + column \in 0..(m * n - 1)
      BY <2>5, <3>1, OffsetParts, Zenon
    <3>3. (row * n + column) \div n = row /\ (row * n + column) % n = column
      BY <2>5, <3>1, OffsetParts, Zenon
    <3> QED
      BY <2>3, <3>2, <3>3
  <2>7. row \div bm = i
    <3> DEFINE r == row - i * bm
    <3>1. /\ row \in Int /\ bm \in Nat \ {0} /\ i \in Int /\ r \in 0..(bm - 1)
          /\ row = i * bm + r
      BY <1>1, <1>2, <2>2, <2>3, <2>4, <2>5
    <3> HIDE DEF r
    <3> QED
      BY <3>1, DivisionUnique
  <2>8. column \div bn = j
    <3> DEFINE r == column - j * bn
    <3>1. /\ column \in Int /\ bn \in Nat \ {0} /\ j \in Int /\ r \in 0..(bn - 1)
          /\ column = j * bn + r
      BY <1>1, <1>2, <2>2, <2>3, <2>4, <2>5
    <3> HIDE DEF r
    <3> QED
      BY <3>1, DivisionUnique
  <2>9. o \in Nat
    <3>1. m * n \in Nat
      BY <1>1
    <3> QED
      BY <2>6, <3>1
  <2> QED
    BY <2>2, <2>6, <2>7, <2>8, <2>9
<1>10. WrittenOnce(tm * tn, m * n, written)
  <2> HIDE DEF owner
  <2> QED
    BY <1>8, <1>9, OwnersWrite
<1> QED
  BY <1>10 DEF m, n, bm, bn, tm, tn

(* A row kernel's programs take a row each, if a block holds it.           *)
LEMMA RowsWriteOnce ==
  ASSUME NEW rows \in Nat \ {0}, NEW columns \in Int, columns <= RowBlock,
         rows * columns <= Int32Max, NEW written,
         \A p \in Nat :
           written[p] = {Int32(p * columns) + i : i \in 0..(Least(RowBlock, columns) - 1)}
  PROVE  WrittenOnce(rows, rows * columns, written)
<1> DEFINE owner == [o \in Nat |-> o \div columns]
<1>1. Least(RowBlock, columns) = columns
  BY KernelAssumption DEF Least
<1>2. ASSUME NEW p \in 0..(rows - 1)
      PROVE  written[p] = {p * columns + i : i \in 0..(columns - 1)}
  <2>1. p \in Nat
    OBVIOUS
  <2>2. CASE columns <= 0
    <3>1. 0..(columns - 1) = {}
      BY <2>2
    <3> QED
      BY <1>1, <2>1, <3>1
  <2>3. CASE columns > 0
    <3>1. p * columns <= rows * columns /\ p * columns \in Nat /\ rows * columns \in Nat
      BY <2>1, <2>3, ProductGrows
    <3>2. Int32(p * columns) = p * columns
      BY <3>1, Int32Fits, KernelAssumption
    <3> QED
      BY <1>1, <2>1, <3>2
  <2>4. columns <= 0 \/ columns > 0
    OBVIOUS
  <2> QED
    BY <2>2, <2>3, <2>4, Zenon
<1>3. CASE columns <= 0
  <2>1. rows * columns \in Int /\ rows * columns <= 0
    BY <1>3
  <2>2. 0..(rows * columns - 1) = {}
    BY <2>1
  <2>3. 0..(columns - 1) = {} /\ \A p \in 0..(rows - 1) : p \in Nat
    BY <1>3
  <2>4. \A p \in 0..(rows - 1) : written[p] = {}
    BY <1>2, <2>3
  <2> QED
    BY <2>2, <2>4 DEF WrittenOnce
<1>4. CASE columns > 0
  <2>1. columns \in Nat \ {0} /\ rows * columns \in Nat
    BY <1>4
  <2>2. ASSUME NEW o \in 0..(rows * columns - 1)
        PROVE  owner[o] \in 0..(rows - 1) /\ o \in written[owner[o]]
    <3> DEFINE p == o \div columns
               i == o % columns
    <3>1. p \in 0..(rows - 1) /\ i \in 0..(columns - 1) /\ o = p * columns + i
      BY <2>1, PartsOfOffset
    <3>2. owner[o] = p
      BY <2>1
    <3> HIDE DEF p, i, owner
    <3>3. p \in Nat
      BY <3>1
    <3>4. o \in written[p]
      BY <1>2, <3>1, <3>3
    <3> QED
      BY <3>1, <3>2, <3>4
  <2>3. ASSUME NEW p \in 0..(rows - 1), NEW o \in written[p]
        PROVE  o \in 0..(rows * columns - 1) /\ owner[o] = p
    <3>1. PICK i \in 0..(columns - 1) : o = p * columns + i
      BY <1>2
    <3>2. o \in 0..(rows * columns - 1) /\ o \div columns = p
      <4>1. /\ rows \in Nat /\ columns \in Nat \ {0} /\ p \in Int
            /\ i \in 0..(columns - 1)
        BY <2>1
      <4>2. p * columns + i \in 0..(rows * columns - 1)
        BY <4>1, OffsetParts, Zenon
      <4>3. (p * columns + i) \div columns = p
        BY <4>1, OffsetParts, Zenon
      <4> QED
        BY <3>1, <4>2, <4>3
    <3> QED
      BY <2>1, <3>2
  <2> QED
    <3> HIDE DEF owner
    <3> QED
      BY <2>2, <2>3, OwnersWrite
<1> QED
  BY <1>3, <1>4
-----------------------------------------------------------------------------
(* The values of grids and arguments.                                      *)

(* What a part of a grid expression comes to, given the values of others.  *)
PartValue(part, value, meta, node, d) ==
  IF part.kind \in {"ceil_div", "mul"}
  THEN Combined(part.kind, value[part.args[1]], value[part.args[2]])
  ELSE LeafValue(part, meta, node, d)

(* A function that gives the parts their values gives the expression its.  *)
LEMMA GridUnfolds ==
  ASSUME NEW e, NEW meta, NEW node, NEW d, NEW w,
         w = [i \in DOMAIN e |-> PartValue(e[i], w, meta, node, d)]
  PROVE  \E value : /\ \A i \in DOMAIN e : value[i] = PartValue(e[i], value, meta, node, d)
                    /\ GridValue(e, meta, node, d) = value[Len(e)]
<1> DEFINE Values(v) == v = [i \in DOMAIN e |-> PartValue(e[i], v, meta, node, d)]
           value == CHOOSE v : Values(v)
<1>1. GridValue(e, meta, node, d) = value[Len(e)]
  BY DEF GridValue, PartValue
<1>2. Values(w)
  OBVIOUS
<1>3. Values(value)
  <2> HIDE DEF Values
  <2> QED
    BY <1>2
<1>4. \A i \in DOMAIN e : value[i] = PartValue(e[i], value, meta, node, d)
  <2> HIDE DEF value
  <2> QED
    BY <1>3
<1> QED
  BY <1>1, <1>4

(* The grid of a kernel that counts elements.                              *)
LEMMA NumelGridValue ==
  ASSUME NEW meta, NEW node, NEW d
  PROVE  GridValue(NumelGrid, meta, node, d) =
           Combined("ceil_div", NumElements(d[node.out].shape), Block)
<1> DEFINE e == NumelGrid
           n == NumElements(d[node.out].shape)
           w == [i \in 1..3 |-> IF i = 1 THEN n ELSE IF i = 2 THEN Block
                                ELSE Combined("ceil_div", n, Block)]
<1>1. /\ DOMAIN e = 1..3 /\ Len(e) = 3
      /\ e[1] = OutputNumel /\ e[2] = Literal(Block) /\ e[3] = CeilDivOf(1, 2)
  BY DEF NumelGrid
<1> HIDE DEF e, n
<1>2. w[1] = n /\ w[2] = Block /\ w[3] = Combined("ceil_div", n, Block)
  OBVIOUS
<1>3. \A i \in 1..3 : i = 1 \/ i = 2 \/ i = 3
  OBVIOUS
<1>4. \A i \in 1..3 : w[i] = PartValue(e[i], w, meta, node, d)
  <2> HIDE DEF w
  <2>1. PartValue(OutputNumel, w, meta, node, d) = n
    BY DEF PartValue, OutputNumel, LeafValue, n
  <2>2. PartValue(Literal(Block), w, meta, node, d) = Block
    BY DEF PartValue, Literal, LeafValue
  <2>3. PartValue(CeilDivOf(1, 2), w, meta, node, d) = Combined("ceil_div", w[1], w[2])
    BY DEF PartValue, CeilDivOf
  <2> QED
    BY <1>1, <1>2, <1>3, <2>1, <2>2, <2>3
<1>5. w = [i \in DOMAIN e |-> PartValue(e[i], w, meta, node, d)]
  <2>1. w = [i \in 1..3 |-> w[i]]
    OBVIOUS
  <2> HIDE DEF w
  <2> QED
    BY <1>1, <1>4, <2>1
<1>6. PICK value : /\ \A i \in DOMAIN e : value[i] = PartValue(e[i], value, meta, node, d)
                   /\ GridValue(e, meta, node, d) = value[Len(e)]
  <2> HIDE DEF w
  <2> QED
    BY <1>5, GridUnfolds
<1>7. value[1] = n /\ value[2] = Block /\ value[3] = Combined("ceil_div", value[1], value[2])
  <2>1. PartValue(OutputNumel, value, meta, node, d) = n
    BY DEF PartValue, OutputNumel, LeafValue, n
  <2>2. PartValue(Literal(Block), value, meta, node, d) = Block
    BY DEF PartValue, Literal, LeafValue
  <2>3. PartValue(CeilDivOf(1, 2), value, meta, node, d) = Combined("ceil_div", value[1], value[2])
    BY DEF PartValue, CeilDivOf
  <2> QED
    BY <1>1, <1>6, <2>1, <2>2, <2>3
<1> QED
  BY <1>1, <1>6, <1>7 DEF e, n

(* Of one that takes a row per program.                                    *)
LEMMA RowGridValue ==
  ASSUME NEW meta, NEW node, NEW d
  PROVE  GridValue(RowGrid, meta, node, d) =
           IF 1 \in DOMAIN d[node.out].shape THEN d[node.out].shape[1] ELSE 0
<1> DEFINE e == RowGrid
           n == IF 1 \in DOMAIN d[node.out].shape THEN d[node.out].shape[1] ELSE 0
           w == [i \in 1..1 |-> n]
<1>1. DOMAIN e = 1..1 /\ Len(e) = 1 /\ e[1] = OutputDim(1)
  BY DEF RowGrid
<1> HIDE DEF e
<1>2. ASSUME NEW value PROVE PartValue(e[1], value, meta, node, d) = n
  <2>1. PartValue(OutputDim(1), value, meta, node, d) = n
    BY DEF PartValue, OutputDim, LeafValue, n
  <2> HIDE DEF n
  <2> QED
    BY <1>1, <2>1
<1> HIDE DEF n
<1>3. w = [i \in DOMAIN e |-> PartValue(e[i], w, meta, node, d)]
  BY <1>1, <1>2
<1>4. PICK value : /\ \A i \in DOMAIN e : value[i] = PartValue(e[i], value, meta, node, d)
                   /\ GridValue(e, meta, node, d) = value[Len(e)]
  <2> HIDE DEF w
  <2> QED
    BY <1>3, GridUnfolds
<1> QED
  BY <1>1, <1>2, <1>4 DEF e, n

(* And of one that takes a tile per program.                               *)
LEMMA TiledGridValue ==
  ASSUME NEW meta \in Tiles, NEW node, NEW d, NEW m, NEW n, d[node.out].shape = <<m, n>>
  PROVE  GridValue(TiledGrid, meta, node, d) =
           Combined("mul", Combined("ceil_div", m, meta.BLOCK_M),
                           Combined("ceil_div", n, meta.BLOCK_N))
<1> DEFINE e == TiledGrid
           bm == meta.BLOCK_M
           bn == meta.BLOCK_N
           tm == Combined("ceil_div", m, bm)
           tn == Combined("ceil_div", n, bn)
           grid == Combined("mul", tm, tn)
           w == [i \in 1..7 |-> CASE i = 1 -> m [] i = 2 -> bm [] i = 3 -> tm
                                  [] i = 4 -> n [] i = 5 -> bn [] i = 6 -> tn [] i = 7 -> grid]
<1>1. /\ DOMAIN e = 1..7 /\ Len(e) = 7
      /\ e[1] = OutputDim(1) /\ e[2] = Meta("BLOCK_M") /\ e[3] = CeilDivOf(1, 2)
      /\ e[4] = OutputDim(2) /\ e[5] = Meta("BLOCK_N") /\ e[6] = CeilDivOf(4, 5)
      /\ e[7] = ProductOf(3, 6)
  BY DEF TiledGrid
<1> HIDE DEF e
<1>2. ASSUME NEW value
      PROVE  /\ PartValue(e[1], value, meta, node, d) = m
             /\ PartValue(e[2], value, meta, node, d) = bm
             /\ PartValue(e[3], value, meta, node, d) = Combined("ceil_div", value[1], value[2])
             /\ PartValue(e[4], value, meta, node, d) = n
             /\ PartValue(e[5], value, meta, node, d) = bn
             /\ PartValue(e[6], value, meta, node, d) = Combined("ceil_div", value[4], value[5])
             /\ PartValue(e[7], value, meta, node, d) = Combined("mul", value[3], value[6])
  <2>1. /\ 1 \in DOMAIN d[node.out].shape /\ d[node.out].shape[1] = m
        /\ 2 \in DOMAIN d[node.out].shape /\ d[node.out].shape[2] = n
    OBVIOUS
  <2>2. "BLOCK_M" \in DOMAIN meta /\ "BLOCK_N" \in DOMAIN meta
    <3>1. meta \in [BLOCK_M : Nat \ {0}, BLOCK_N : Nat \ {0}, GROUP_M : Nat \ {0}]
      BY KernelAssumption
    <3> QED
      BY <3>1
  <2>3. /\ PartValue(OutputDim(1), value, meta, node, d) =
             IF 1 \in DOMAIN d[node.out].shape THEN d[node.out].shape[1] ELSE 0
        /\ PartValue(OutputDim(2), value, meta, node, d) =
             IF 2 \in DOMAIN d[node.out].shape THEN d[node.out].shape[2] ELSE 0
    BY DEF PartValue, OutputDim, LeafValue
  <2>4. /\ PartValue(Meta("BLOCK_M"), value, meta, node, d) =
             IF "BLOCK_M" \in DOMAIN meta THEN meta["BLOCK_M"] ELSE 0
        /\ PartValue(Meta("BLOCK_N"), value, meta, node, d) =
             IF "BLOCK_N" \in DOMAIN meta THEN meta["BLOCK_N"] ELSE 0
    BY DEF PartValue, Meta, LeafValue
  <2>5. /\ PartValue(CeilDivOf(1, 2), value, meta, node, d) =
             Combined("ceil_div", value[1], value[2])
        /\ PartValue(CeilDivOf(4, 5), value, meta, node, d) =
             Combined("ceil_div", value[4], value[5])
        /\ PartValue(ProductOf(3, 6), value, meta, node, d) =
             Combined("mul", value[3], value[6])
    BY DEF PartValue, CeilDivOf, ProductOf
  <2>6. PartValue(OutputDim(1), value, meta, node, d) = m
    BY <2>1, <2>3
  <2>7. PartValue(OutputDim(2), value, meta, node, d) = n
    BY <2>1, <2>3
  <2>8. /\ PartValue(Meta("BLOCK_M"), value, meta, node, d) = bm
        /\ PartValue(Meta("BLOCK_N"), value, meta, node, d) = bn
    BY <2>2, <2>4
  <2> HIDE DEF bm, bn
  <2> QED
    BY <1>1, <2>5, <2>6, <2>7, <2>8, Zenon
<1> HIDE DEF bm, bn, tm, tn, grid
<1>3. /\ w[1] = m /\ w[2] = bm /\ w[3] = tm /\ w[4] = n /\ w[5] = bn /\ w[6] = tn
      /\ w[7] = grid
  OBVIOUS
<1>4. \A i \in 1..7 : i = 1 \/ i = 2 \/ i = 3 \/ i = 4 \/ i = 5 \/ i = 6 \/ i = 7
  OBVIOUS
<1>5. \A i \in 1..7 : w[i] = PartValue(e[i], w, meta, node, d)
  <2> HIDE DEF w
  <2> QED
    BY <1>2, <1>3, <1>4 DEF tm, tn, grid
<1>6. w = [i \in DOMAIN e |-> PartValue(e[i], w, meta, node, d)]
  <2>1. w = [i \in 1..7 |-> w[i]]
    OBVIOUS
  <2> HIDE DEF w
  <2> QED
    BY <1>1, <1>5, <2>1
<1>7. PICK value : /\ \A i \in DOMAIN e : value[i] = PartValue(e[i], value, meta, node, d)
                   /\ GridValue(e, meta, node, d) = value[Len(e)]
  <2> HIDE DEF w
  <2> QED
    BY <1>6, GridUnfolds
<1>8. /\ value[1] = m /\ value[2] = bm /\ value[3] = tm /\ value[4] = n /\ value[5] = bn
      /\ value[6] = tn /\ value[7] = grid
  <2>1. value[1] = m /\ value[2] = bm /\ value[4] = n /\ value[5] = bn
    BY <1>1, <1>2, <1>7
  <2>2. value[3] = tm /\ value[6] = tn
    BY <1>1, <1>2, <1>7, <2>1 DEF tm, tn
  <2>3. value[7] = grid
    BY <1>1, <1>2, <1>7, <2>2 DEF grid
  <2> QED
    BY <2>1, <2>2, <2>3
<1> QED
  BY <1>1, <1>7, <1>8 DEF e, grid, tm, tn, bm, bn

(* A rounded quotient is only computed of what is positive.                *)
LEMMA CeilDivCombined ==
  ASSUME NEW a, NEW b, Combined("ceil_div", a, b) # 0
  PROVE  ~(a <= 0) /\ Combined("ceil_div", a, b) = CeilDiv(a, b)
BY DEF Combined

(* And a product if it fits.                                               *)
LEMMA ProductCombined ==
  ASSUME NEW a, NEW b, Combined("mul", a, b) # 0
  PROVE  Combined("mul", a, b) = a * b /\ ~(a <= 0) /\ ~(b <= 0)
BY DEF Combined

(* A bound argument is a value its source may have.                        *)
LEMMA BoundArgument ==
  ASSUME NEW kernel, NEW node, NEW d, NEW arguments \in Bind(kernel, node, d)
  PROVE  \A name \in DOMAIN kernel.arguments :
           arguments[name] \in ArgumentOf(kernel.arguments[name], node, d)
<1> SUFFICES ASSUME NEW name \in DOMAIN kernel.arguments
             PROVE  arguments[name] \in ArgumentOf(kernel.arguments[name], node, d)
  OBVIOUS
<1>1. ArgumentOf(kernel.arguments[name], node, d) # {}
  BY DEF Bind
<1>2. arguments[name] = CHOOSE n \in ArgumentOf(kernel.arguments[name], node, d) : TRUE
  BY DEF Bind
<1> QED
  BY <1>1, <1>2

(* One that is a dimension of an input is.                                 *)
LEMMA InputArgument ==
  ASSUME NEW k, NEW axis, NEW node, NEW d, NEW n \in ArgumentOf(InputDim(k, axis), node, d)
  PROVE  /\ k \in DOMAIN node.ins /\ axis \in DOMAIN d[node.ins[k]].shape
         /\ n = d[node.ins[k]].shape[axis]
<1>1. n \in IF k \in DOMAIN node.ins THEN DimensionOf(d[node.ins[k]].shape, axis) ELSE {}
  BY DEF ArgumentOf, InputDim
<1> QED
  BY <1>1 DEF DimensionOf

(* One that is a dimension of the output is.                               *)
LEMMA OutputArgument ==
  ASSUME NEW axis, NEW node, NEW d, NEW n \in ArgumentOf(OutputDim(axis), node, d)
  PROVE  axis \in DOMAIN d[node.out].shape /\ n = d[node.out].shape[axis]
<1>1. n \in DimensionOf(d[node.out].shape, axis)
  BY DEF ArgumentOf, OutputDim
<1> QED
  BY <1>1 DEF DimensionOf

(* And one that counts the output's elements counts them.                  *)
LEMMA CountArgument ==
  ASSUME NEW node, NEW d, NEW n \in ArgumentOf(OutputNumel, node, d)
  PROVE  n = NumElements(d[node.out].shape) /\ n \in 1..Int32Max
<1>1. n \in Bounded(NumElements(d[node.out].shape))
  BY DEF ArgumentOf, OutputNumel, NumelArgument
<1> QED
  BY <1>1 DEF Bounded

(* What a kernel that takes that argument is passed for it.                *)
Sourced(arguments, name, source) == name \in DOMAIN arguments /\ arguments[name] = source

(* Of two joined lists of arguments the first one's go first.              *)
LEMMA SourcedJoined ==
  ASSUME NEW f, NEW g, NEW name, NEW source
  PROVE  /\ Sourced(f, name, source) => Sourced(Joined(f, g), name, source)
         /\ Sourced(g, name, source) /\ name \notin DOMAIN f => Sourced(Joined(f, g), name, source)
BY DEF Sourced, Joined

(* The arguments of a window that a launch's writes depend on.             *)
LEMMA WindowSources ==
  /\ Sourced(WindowArguments, "n", InputDim(1, 1)) /\ Sourced(WindowArguments, "c", InputDim(1, 2))
  /\ Sourced(WindowArguments, "out_h", OutputDim(3))
  /\ Sourced(WindowArguments, "out_w", OutputDim(4))
BY DEF Sourced, WindowArguments

(* Those of a convolution.                                                 *)
LEMMA ConvSources ==
  /\ Sourced(ConvArguments, "n", InputDim(1, 1)) /\ Sourced(ConvArguments, "k", InputDim(2, 1))
  /\ Sourced(ConvArguments, "out_h", OutputDim(3))
  /\ Sourced(ConvArguments, "out_w", OutputDim(4))
<1> DEFINE f == [k |-> InputDim(2, 1), r |-> InputDim(2, 3), s |-> InputDim(2, 4)]
<1>1. Sourced(f, "k", InputDim(2, 1))
  BY DEF Sourced
<1>2. "n" \notin DOMAIN f /\ "out_h" \notin DOMAIN f /\ "out_w" \notin DOMAIN f
  OBVIOUS
<1>3. ConvArguments = Joined(f, WindowArguments)
  BY DEF ConvArguments
<1> HIDE DEF f
<1> QED
  BY <1>1, <1>2, <1>3, WindowSources, SourcedJoined

(* The same for pooling.                                                   *)
LEMMA PoolSources ==
  /\ Sourced(PoolArguments, "n", InputDim(1, 1)) /\ Sourced(PoolArguments, "c", InputDim(1, 2))
  /\ Sourced(PoolArguments, "out_h", OutputDim(3))
  /\ Sourced(PoolArguments, "out_w", OutputDim(4))
<1> DEFINE f == [r |-> Attribute("kernel_shape", 1, 1), s |-> Attribute("kernel_shape", 2, 1)]
<1>1. /\ "n" \notin DOMAIN f /\ "c" \notin DOMAIN f
      /\ "out_h" \notin DOMAIN f /\ "out_w" \notin DOMAIN f
  OBVIOUS
<1>2. PoolArguments = Joined(f, WindowArguments)
  BY DEF PoolArguments
<1> HIDE DEF f
<1> QED
  BY <1>1, <1>2, WindowSources, SourcedJoined

(* And the others.                                                         *)
LEMMA OtherSources ==
  /\ Sourced(AverageArguments, "n", InputDim(1, 1))
  /\ Sourced(AverageArguments, "c", InputDim(1, 2))
  /\ Sourced(TotalArgument, "total", OutputNumel)
  /\ Sourced(NormArguments, "total", OutputNumel)
  /\ Sourced(RowArguments, "columns", InputDim(1, 2))
<1>1. /\ Sourced(AverageArguments, "n", InputDim(1, 1))
      /\ Sourced(AverageArguments, "c", InputDim(1, 2))
  BY WindowSources DEF Sourced, AverageArguments
<1>2. Sourced(TotalArgument, "total", OutputNumel)
  BY DEF Sourced, TotalArgument
<1>3. Sourced(NormArguments, "total", OutputNumel)
  <2> DEFINE f == [channels |-> InputDim(1, 2), spatial |-> InputSpatial(1)]
  <2>1. "total" \notin DOMAIN f
    OBVIOUS
  <2>2. NormArguments = Joined(f, TotalArgument)
    BY DEF NormArguments
  <2> HIDE DEF f
  <2> QED
    BY <1>2, <2>1, <2>2, SourcedJoined
<1>4. Sourced(RowArguments, "columns", InputDim(1, 2))
  BY DEF Sourced, RowArguments
<1> QED
  BY <1>1, <1>2, <1>3, <1>4

(* What the kernels are, by program.                                       *)
KernelIs(k) ==
  \/ k.program \in {"elementwise", "batch_norm"} /\ k.grid = NumelGrid
     /\ Sourced(k.arguments, "total", OutputNumel)
  \/ k.program \in {"conv", "fused_conv"} /\ k.grid = NumelGrid
     /\ k.op \in ConvLike /\ k.arguments = ConvArguments
  \/ k.program = "max_pool" /\ k.grid = NumelGrid
     /\ k.op = "MaxPool" /\ k.arguments = PoolArguments
  \/ k.program = "global_average_pool" /\ k.grid = NumelGrid
     /\ k.op = "GlobalAveragePool" /\ k.arguments = AverageArguments
  \/ k.program = "gemm" /\ k.grid = NumelGrid /\ k.op = "Gemm" /\ k.zeros = {"transB"}
     /\ Sourced(k.arguments, "m", InputDim(1, 1)) /\ Sourced(k.arguments, "n", InputDim(2, 2))
  \/ k.program = "gemm_tiled" /\ k.grid = TiledGrid /\ k.op \in GemmLike /\ k.metas = Tiles
     /\ Sourced(k.arguments, "m", OutputDim(1)) /\ Sourced(k.arguments, "n", OutputDim(2))
  \/ k.program \in {"layer_norm", "skip_layer_norm", "softmax"} /\ k.grid = RowGrid
     /\ k.op \in {"LayerNormalization", "SkipLayerNormalization", "Softmax"}
     /\ k.ranks = <<2>> /\ k.arguments = RowArguments

(* Those of images.                                                        *)
LEMMA ImageKernels ==
  /\ KernelIs(ImageKernel("Conv", "conv", ConvArguments))
  /\ KernelIs(ImageKernel("FusedConvBatchNorm", "fused_conv", ConvArguments))
  /\ KernelIs(ImageKernel("FusedConvBatchNormRelu", "fused_conv", ConvArguments))
  /\ \A op : KernelIs(ImageKernel(op, "elementwise", TotalArgument))
  /\ KernelIs(ImageKernel("BatchNormalization", "batch_norm", NormArguments))
  /\ KernelIs(ImageKernel("MaxPool", "max_pool", PoolArguments))
  /\ KernelIs(ImageKernel("GlobalAveragePool", "global_average_pool", AverageArguments))
BY OtherSources DEF KernelIs, ImageKernel, ConvLike

(* And those of matrices.                                                  *)
LEMMA MatrixKernels ==
  /\ KernelIs([ImageKernel("Gemm", "gemm", [m |-> InputDim(1, 1), n |-> InputDim(2, 2),
                                            k |-> InputDim(1, 2)])
                 EXCEPT !.layout = "", !.counts = {2}, !.zeros = {"transB"}, !.ranks = <<2, 2>>])
  /\ \A op \in GemmLike : KernelIs(TiledKernel(op))
  /\ \A op : KernelIs(ElementKernel(op))
  /\ KernelIs(MatrixKernel("LayerNormalization", "layer_norm", {3}, RowArguments, RowGrid))
  /\ KernelIs(MatrixKernel("SkipLayerNormalization", "skip_layer_norm", {4}, RowArguments, RowGrid))
  /\ KernelIs(MatrixKernel("Softmax", "softmax", 1..6, RowArguments, RowGrid))
<1>1. KernelIs([ImageKernel("Gemm", "gemm", [m |-> InputDim(1, 1), n |-> InputDim(2, 2),
                                            k |-> InputDim(1, 2)])
                  EXCEPT !.layout = "", !.counts = {2}, !.zeros = {"transB"}, !.ranks = <<2, 2>>])
  BY DEF KernelIs, ImageKernel, Sourced
<1>2. \A op \in GemmLike : KernelIs(TiledKernel(op))
  BY DEF KernelIs, TiledKernel, MatrixKernel, Sourced
<1>3. \A op : KernelIs(ElementKernel(op))
  BY OtherSources DEF KernelIs, ElementKernel, MatrixKernel
<1>4. /\ KernelIs(MatrixKernel("LayerNormalization", "layer_norm", {3}, RowArguments, RowGrid))
      /\ KernelIs(MatrixKernel("SkipLayerNormalization", "skip_layer_norm", {4},
                               RowArguments, RowGrid))
      /\ KernelIs(MatrixKernel("Softmax", "softmax", 1..6, RowArguments, RowGrid))
  BY DEF KernelIs, MatrixKernel
<1> QED
  BY <1>1, <1>2, <1>3, <1>4, Zenon

(* Together they are all.                                                  *)
LEMMA KernelCases ==
  ASSUME NEW kernel \in Kernels
  PROVE  KernelIs(kernel)
BY ImageKernels, MatrixKernels, Zenon DEF Kernels, GemmLike
-----------------------------------------------------------------------------
(* What has been launched.                                                 *)

(* The rank a node's operator gives its output, of an input of rank n.     *)
OutputRank(op, n) ==
  IF op \in ConvLike \cup {"GlobalAveragePool", "MaxPool", "AveragePool"} THEN 4
  ELSE IF op \in GemmLike \cup {"Flatten"} THEN 2 ELSE n

(* An inference gives that rank.                                           *)
LEMMA InferredRank ==
  ASSUME NEW node, TypedNode(node), NEW args, \A k \in DOMAIN args : args[k] \in Desc,
         DOMAIN args = 1..Len(args), Len(args) \in Nat, NEW r \in Infer(node, args)
  PROVE  1 \in DOMAIN args /\ Len(r.shape) = OutputRank(node.op, Len(args[1].shape))
<1>1. Len(args) \in InputCounts(node.op)
  BY InferCases, Zenon
<1>2. 1 \in DOMAIN args /\ (node.op \in ConvLike \cup GemmLike => 2 \in DOMAIN args)
  BY <1>1 DEF InputCounts, ConvLike, GemmLike, Elementwise, PoolLike
<1>3. args[1] \in Desc /\ (node.op \in ConvLike \cup GemmLike => args[2] \in Desc)
  BY <1>2
<1>4. CASE node.op \in ConvLike /\ r \in InferConvLike(node, args[1], args[2])
  <2>1. args[2] \in Desc
    BY <1>3, <1>4
  <2>2. Len(r.shape) = 4
    BY <1>3, <1>4, <2>1, InferredConv
  <2> QED
    BY <1>2, <1>4, <2>2 DEF OutputRank
<1>5. CASE node.op \in GemmLike /\ r \in InferGemm(node, args)
  <2>1. args[2] \in Desc
    BY <1>3, <1>5
  <2>2. r.shape = <<Rows(args[1].shape, Transposed(node, "transA")),
                    Columns(args[2].shape, Transposed(node, "transB"))>>
    BY <1>3, <1>5, <2>1, InferredGemm
  <2>3. \E m, n : r.shape = <<m, n>>
    BY <2>2
  <2>4. Len(r.shape) = 2
    BY <2>3
  <2> QED
    BY <1>2, <1>5, <2>4 DEF OutputRank, ConvLike, GemmLike
<1>6. CASE node.op = "GlobalAveragePool" /\ r \in InferGlobalAveragePool(args[1])
  <2>1. r.shape = <<args[1].shape[1], args[1].shape[2], 1, 1>>
    BY <1>3, <1>6, InferredAverage
  <2>2. \E m, n : r.shape = <<m, n, 1, 1>>
    BY <2>1
  <2>3. Len(r.shape) = 4
    BY <2>2
  <2> QED
    BY <1>2, <1>6, <2>3 DEF OutputRank
<1>7. CASE node.op \in {"MaxPool", "AveragePool"} /\ r \in InferPool(node, args[1])
  <2>1. Len(r.shape) = 4
    BY <1>3, <1>7, InferredPool
  <2> QED
    BY <1>2, <1>7, <2>1 DEF OutputRank
<1>8. CASE node.op = "Flatten" /\ r \in InferFlatten(node, args[1])
  <2> DEFINE axis == FlattenAxis(node, Len(args[1].shape))
             x == args[1].shape
  <2>1. r.shape = <<Product(x, 1, axis), Product(x, axis + 1, Len(x))>>
    BY <1>3, <1>8, InferredFlatten
  <2>2. \E m, n : r.shape = <<m, n>>
    BY <2>1
  <2>3. Len(r.shape) = 2
    BY <2>2
  <2> QED
    BY <1>2, <1>8, <2>3 DEF OutputRank, ConvLike
<1>9. CASE node.op \notin ConvLike \cup GemmLike \cup PoolLike \cup {"Flatten"} /\ r = args[1]
  BY <1>2, <1>9 DEF OutputRank, PoolLike
<1> QED
  BY <1>4, <1>5, <1>6, <1>7, <1>8, <1>9, InferCases, Zenon

(* So every value's rank follows from those of what no node computes.      *)
LEMMA AllRanks ==
  ASSUME NEW nodes, Graph(nodes), NEW a \in [Value -> Desc], NEW b \in [Value -> Desc],
         \A v \in Value : Given(nodes, v) => Len(a[v].shape) = Len(b[v].shape),
         NEW d \in InferAll(nodes, a), NEW e \in InferAll(nodes, b)
  PROVE  \A v \in Value : Len(d[v].shape) = Len(e[v].shape)
<1> DEFINE n == Len(nodes)
           Alike(v) == Len(d[v].shape) = Len(e[v].shape)
           S == {i \in Nat : i <= n => \A j \in 1..i : Alike(nodes[j].out)}
<1>1. /\ n \in Nat /\ DOMAIN nodes = 1..n /\ InOrder(nodes)
      /\ \A j \in DOMAIN nodes : TypedNode(nodes[j])
  BY DEF Graph
<1>2. /\ d \in [Value -> Desc] /\ e \in [Value -> Desc]
      /\ InferredUpTo(nodes, a, n, d) /\ InferredUpTo(nodes, b, n, e)
  BY InferAllSound
<1>3. ASSUME NEW v \in Value, Given(nodes, v) PROVE Alike(v)
  <2>1. d[v] = a[v] /\ e[v] = b[v]
    BY <1>2, <1>3 DEF InferredUpTo, Given
  <2> QED
    BY <1>3, <2>1
<1> HIDE DEF Alike
<1>4. ASSUME NEW i \in Nat, i \in S, i + 1 <= n PROVE Alike(nodes[i + 1].out)
  <2> DEFINE node == nodes[i + 1]
             as == Args(d, node)
             bs == Args(e, node)
             m == Len(node.ins)
  <2>1. i + 1 \in 1..n /\ i + 1 \in DOMAIN nodes /\ TypedNode(node) /\ i <= n
    BY <1>1, <1>4
  <2>2. d[node.out] \in Infer(node, as) /\ e[node.out] \in Infer(node, bs)
    BY <1>2, <2>1, Zenon DEF InferredUpTo
  <2>3. /\ DOMAIN as = 1..m /\ DOMAIN bs = 1..m
        /\ Len(as) = m /\ Len(bs) = m /\ m \in Nat /\ DOMAIN node.ins = 1..m
        /\ \A k \in 1..m : /\ node.ins[k] \in Value
                           /\ as[k] = d[node.ins[k]] /\ as[k] \in Desc
                           /\ bs[k] = e[node.ins[k]] /\ bs[k] \in Desc
    BY <1>2, <2>1, ArgsTyped, Zenon
  <2> HIDE DEF as, bs, m
  <2>4. /\ 1 \in 1..m
        /\ Len(d[node.out].shape) = OutputRank(node.op, Len(as[1].shape))
        /\ Len(e[node.out].shape) = OutputRank(node.op, Len(bs[1].shape))
    <3>1. /\ \A k \in DOMAIN as : as[k] \in Desc
          /\ \A k \in DOMAIN bs : bs[k] \in Desc
          /\ DOMAIN as = 1..Len(as) /\ DOMAIN bs = 1..Len(bs)
          /\ Len(as) \in Nat /\ Len(bs) \in Nat
      BY <2>3
    <3> HIDE DEF node
    <3> QED
      BY <2>1, <2>2, <2>3, <3>1, InferredRank
  <2>5. Len(as[1].shape) = Len(bs[1].shape)
    <3> DEFINE v == node.ins[1]
    <3>1. v \in Value /\ as[1] = d[v] /\ bs[1] = e[v]
      BY <2>3, <2>4
    <3>2. CASE Given(nodes, v)
      BY <1>3, <3>1, <3>2 DEF Alike
    <3>3. CASE ~Given(nodes, v)
      <4>1. PICK j \in DOMAIN nodes : nodes[j].out = v
        BY <3>3 DEF Given
      <4>2. j < i + 1
        BY <1>1, <2>1, <2>3, <2>4, <4>1, Zenon DEF InOrder
      <4>3. j \in 1..i
        BY <1>1, <4>2
      <4> QED
        BY <1>4, <2>1, <3>1, <4>1, <4>3 DEF Alike
    <3> QED
      BY <3>2, <3>3
  <2> QED
    BY <2>4, <2>5 DEF Alike
<1>5. 0 \in S
  OBVIOUS
<1>6. ASSUME NEW i \in Nat, i \in S PROVE i + 1 \in S
  <2> SUFFICES ASSUME i + 1 <= n, NEW j \in 1..(i + 1) PROVE Alike(nodes[j].out)
    OBVIOUS
  <2>1. CASE j = i + 1
    BY <1>4, <1>6, <2>1
  <2>2. CASE j # i + 1
    <3>1. j \in 1..i /\ i <= n
      BY <1>1, <2>2
    <3> QED
      BY <1>6, <3>1
  <2> QED
    BY <2>1, <2>2
<1>7. n \in S
  <2> HIDE DEF S
  <2>1. Nat \subseteq S
    BY <1>5, <1>6, SetInduction
  <2> QED
    BY <1>1, <2>1
<1>8. ASSUME NEW v \in Value PROVE Alike(v)
  <2>1. CASE Given(nodes, v)
    BY <1>3, <2>1
  <2>2. CASE ~Given(nodes, v)
    <3>1. PICK j \in DOMAIN nodes : nodes[j].out = v
      BY <2>2 DEF Given
    <3>2. j \in 1..n /\ n <= n
      BY <1>1, <3>1
    <3> QED
      BY <1>7, <3>1, <3>2
  <2> QED
    BY <2>1, <2>2
<1> QED
  BY <1>8 DEF Alike

(* The kernels Lower has found for each node, from the descriptions d.     *)
Matching(d) == [i \in DOMAIN Nodes |-> {k \in Kernels : Matches(k, Nodes[i], d)}]
LoweredAtOpt == \E d \in AtPoint("opt") : kernels = Matching(d)

(* How the last launch was made from the active descriptions.              *)
LaunchedWith(i, kernel) ==
  /\ last.node = Nodes[i] /\ last.program = kernel.program
  /\ last.meta \in kernel.metas /\ last.arguments \in Bind(kernel, Nodes[i], descs)
  /\ last.grid = GridValue(kernel.grid, last.meta, Nodes[i], descs)
  /\ last.grid \in 1..UInt32Max

LastBound == \E i \in DOMAIN Nodes : \E kernel \in kernels[i] : LaunchedWith(i, kernel)

(* A launch is of a kernel that matched its node at the opt point, and is  *)
(* made of descriptions that are still the active ones.                    *)
KernelsInv ==
  /\ stage \in Planned => LoweredAtOpt
  /\ stage = "run" => at \in DOMAIN Nodes
  /\ Launched => LastBound

(* Every step keeps that.                                                  *)
LEMMA KernelsStep ==
  ASSUME LaunchInv, KernelsInv, [Next]_vars
  PROVE  KernelsInv'
<1>1. /\ Nodes \in Seq(Range(Nodes)) /\ DOMAIN Nodes = 1..Len(Nodes) /\ Len(Nodes) \in Nat
  <2>1. Graph(Nodes)
    BY ModelTyped
  <2> QED
    BY <2>1 DEF Graph
<1>2. stage \notin {"resolved", "run"} => last = Nil
  BY DEF LaunchInv
<1>3. ASSUME model' = model PROVE Nodes' = Nodes /\ AtPoint("opt")' = AtPoint("opt")
  BY <1>3 DEF Nodes, AtPoint, AtShapes
<1>4. ASSUME UNCHANGED <<model, kernels>> PROVE LoweredAtOpt' <=> LoweredAtOpt
  BY <1>3, <1>4 DEF LoweredAtOpt, Matching
<1>5. ASSUME UNCHANGED <<model, kernels, descs, last>> PROVE LastBound' <=> LastBound
  BY <1>3, <1>5 DEF LastBound, LaunchedWith
<1>6. CASE UNCHANGED vars
  BY <1>3, <1>4, <1>5, <1>6 DEF vars, compiled, KernelsInv, Launched
<1>7. ASSUME NEW function, CompileFails(function), stage \in {"validate", "lower", "plan"}
      PROVE  KernelsInv'
  BY <1>2, <1>7 DEF CompileFails, KernelsInv, Launched, Planned
<1>8. CASE ValidateProfiles
  <2>1. CASE stage' = "lower" /\ stage = "validate" /\ UNCHANGED last
    BY <1>2, <2>1 DEF KernelsInv, Launched, Planned
  <2> QED
    BY <1>7, <1>8, <2>1 DEF ValidateProfiles
<1>9. CASE Lower
  <2>1. CASE stage = "lower" /\ CompileFails("Lower")
    BY <1>7, <2>1
  <2>2. CASE ~CompileFails("Lower")
    <3>1. /\ stage = "lower" /\ stage' = "plan" /\ UNCHANGED <<model, last>>
          /\ \E d \in AtPoint("opt") : kernels' = Matching(d)
      BY <1>9, <2>2 DEF Lower, Matching
    <3>2. LoweredAtOpt'
      BY <1>3, <3>1 DEF LoweredAtOpt, Matching
    <3> QED
      BY <1>2, <3>1, <3>2 DEF KernelsInv, Launched
  <2> QED
    BY <1>9, <2>1, <2>2 DEF Lower
<1>10. CASE PlanPoint
  <2>1. CASE /\ stage = "plan" /\ stage' \in {"plan", "compiled"}
             /\ UNCHANGED <<model, kernels, last>>
    BY <1>2, <1>4, <2>1 DEF KernelsInv, Launched, Planned
  <2> QED
    BY <1>7, <1>10, <2>1 DEF PlanPoint
<1>11. ASSUME NEW next \in {"unresolved", "resolved"}, Reconfigure(next), stage \in Planned
       PROVE  KernelsInv'
  BY <1>4, <1>11 DEF Reconfigure, compiled, KernelsInv, Launched, Planned
<1>12. CASE SelectShapeProfile
  BY <1>11, <1>12 DEF SelectShapeProfile, Planned
<1>13. ASSUME NEW v, NEW shape, SetInputShape(v, shape) PROVE KernelsInv'
  <2>1. CASE Reconfigure("unresolved")
    BY <1>11, <1>13, <2>1 DEF SetInputShape, Planned
  <2>2. CASE UNCHANGED <<model, stage, compiled, shapes, descs, at, last>>
    BY <1>3, <1>4, <1>5, <2>2 DEF compiled, KernelsInv, Launched
  <2> QED
    BY <1>13, <2>1, <2>2 DEF SetInputShape
<1>14. CASE ResolveShapes
  <2>1. CASE Reconfigure("resolved")
    BY <1>11, <1>14, <2>1 DEF ResolveShapes, Planned
  <2>2. CASE UNCHANGED <<model, stage, compiled, shapes, descs, at, last>>
    BY <1>3, <1>4, <1>5, <2>2 DEF compiled, KernelsInv, Launched
  <2> QED
    BY <1>14, <2>1, <2>2 DEF ResolveShapes
<1>15. CASE StartRun
  <2>1. /\ stage = "resolved" /\ UNCHANGED <<model, kernels, descs>>
        /\ \/ /\ stage' = IF Nodes = <<>> THEN "resolved" ELSE "run"
              /\ at' = 1 /\ last' = Nil
           \/ stage' = "resolved" /\ UNCHANGED last
    BY <1>15 DEF StartRun, compiled
  <2>2. stage' = "run" => at' \in DOMAIN Nodes
    BY <1>1, <2>1
  <2>3. LoweredAtOpt'
    BY <1>4, <2>1 DEF KernelsInv, Planned
  <2>4. Launched' => LastBound'
    BY <1>5, <2>1 DEF KernelsInv, Launched
  <2> QED
    BY <1>3, <2>1, <2>2, <2>3, <2>4 DEF KernelsInv
<1>16. ASSUME Advance, stage = "run"
       PROVE  LoweredAtOpt' /\ (stage' = "run" => at' \in DOMAIN Nodes')
  <2>1. /\ UNCHANGED <<model, kernels>> /\ at \in DOMAIN Nodes
        /\ stage' = "run" => at # Len(Nodes) /\ at' = at + 1
    BY <1>16 DEF Advance, LastOp, compiled, KernelsInv
  <2> QED
    BY <1>1, <1>3, <1>4, <1>16, <2>1 DEF KernelsInv, Planned
<1>17. CASE SkipView
  <2>1. stage = "run" /\ Advance /\ UNCHANGED <<model, kernels, descs, last>>
    BY <1>17 DEF SkipView, Advance, compiled
  <2> QED
    BY <1>5, <1>16, <2>1 DEF KernelsInv, Launched
<1>18. CASE Launch
  <2>1. /\ stage = "run" /\ at \in DOMAIN Nodes /\ LoweredAtOpt
        /\ UNCHANGED <<model, kernels, descs>>
    BY <1>18 DEF Launch, Advance, compiled, KernelsInv, Planned
  <2>2. PICK kernel \in kernels[at] : \E meta \in kernel.metas :
          LET bound == Bind(kernel, Nodes[at], descs)
              grid == GridValue(kernel.grid, meta, Nodes[at], descs)
          IN  \/ /\ grid \in 1..UInt32Max
                 /\ \E arguments \in bound :
                      last' = [node |-> Nodes[at], program |-> kernel.program, meta |-> meta,
                               arguments |-> arguments, grid |-> grid]
                 /\ Advance
              \/ stage' = "resolved" /\ UNCHANGED last
    BY <1>18 DEF Launch
  <2>3. PICK meta \in kernel.metas :
          LET bound == Bind(kernel, Nodes[at], descs)
              grid == GridValue(kernel.grid, meta, Nodes[at], descs)
          IN  \/ /\ grid \in 1..UInt32Max
                 /\ \E arguments \in bound :
                      last' = [node |-> Nodes[at], program |-> kernel.program, meta |-> meta,
                               arguments |-> arguments, grid |-> grid]
                 /\ Advance
              \/ stage' = "resolved" /\ UNCHANGED last
    BY <2>2
<2>5. CASE stage' = "resolved" /\ UNCHANGED last
    BY <1>4, <1>5, <2>1, <2>5 DEF KernelsInv, Launched, Planned
  <2>4. CASE Advance /\ \E arguments \in Bind(kernel, Nodes[at], descs) :
               /\ GridValue(kernel.grid, meta, Nodes[at], descs) \in 1..UInt32Max
               /\ last' = [node |-> Nodes[at], program |-> kernel.program, meta |-> meta,
                           arguments |-> arguments,
                           grid |-> GridValue(kernel.grid, meta, Nodes[at], descs)]
    <3>1. Nodes' = Nodes
      BY <1>3, <2>1
    <3>2. LastBound'
      <4>1. /\ last'.node = Nodes[at] /\ last'.program = kernel.program
            /\ last'.meta \in kernel.metas /\ last'.arguments \in Bind(kernel, Nodes[at], descs)
            /\ last'.grid = GridValue(kernel.grid, last'.meta, Nodes[at], descs)
            /\ last'.grid \in 1..UInt32Max
        BY <2>4
      <4> QED
        BY <2>1, <3>1, <4>1 DEF LastBound, LaunchedWith
    <3> QED
      BY <1>16, <2>1, <2>4, <3>2 DEF KernelsInv
  <2> QED
    BY <2>3, <2>4, <2>5
<1>19. CASE CompileEnded
  BY <1>6, <1>19 DEF CompileEnded
<1> QED
  BY <1>6, <1>8, <1>9, <1>10, <1>12, <1>13, <1>14, <1>15, <1>17, <1>18, <1>19 DEF Next

(* So every reachable state is.                                            *)
THEOREM LaunchesAreBound == Spec => []KernelsInv
<1>1. Init => KernelsInv
  BY DEF Init, KernelsInv, Launched, Planned
<1>2. LaunchInv /\ KernelsInv /\ [Next]_vars => KernelsInv'
  BY KernelsStep
<1> QED
  BY <1>1, <1>2, LaunchInvariant, PTL DEF Spec

(* A launch of that kernel for that node, with what is known of both and   *)
(* of the active descriptions.                                             *)
LaunchOf(node, kernel) ==
  /\ last.node = node /\ last.program = kernel.program
  /\ last.meta \in kernel.metas /\ last.arguments \in Bind(kernel, node, descs)
  /\ last.grid = GridValue(kernel.grid, last.meta, node, descs)
  /\ last.grid \in 1..UInt32Max
  /\ kernel.op = node.op /\ \A key \in kernel.zeros : IntAttribute(node, key, 0) = 0
  /\ Len(node.ins) \in kernel.counts
  /\ kernel.ranks = <<2>> => Len(descs[node.ins[1]].shape) = 2
  /\ TypedNode(node) /\ descs \in [Value -> Desc]
  /\ descs[node.out] \in Infer(node, Args(descs, node))

(* Every launch is one.                                                    *)
LEMMA LaunchIsOf ==
  ASSUME LaunchInv, KernelsInv, Launched
  PROVE  \E node : \E kernel \in Kernels : LaunchOf(node, kernel)
<1>1. /\ stage \in {"resolved", "run"} /\ stage \in Planned /\ descs \in AtShapes(shapes)
      /\ ShapesInRange /\ Validated
  BY DEF LaunchInv, Launched, Planned, Compiled
<1>2. Graph(Nodes) /\ DOMAIN Nodes = 1..Len(Nodes)
  <2>1. Graph(Nodes)
    BY ModelTyped
  <2> QED
    BY <2>1 DEF Graph
<1>3. PICK i \in DOMAIN Nodes : \E kernel \in kernels[i] : LaunchedWith(i, kernel)
  BY DEF KernelsInv, LastBound
<1>4. PICK kernel \in kernels[i] : LaunchedWith(i, kernel)
  BY <1>3
<1>5. PICK opt \in AtPoint("opt") : kernels = Matching(opt)
  BY <1>1 DEF KernelsInv, LoweredAtOpt
<1> DEFINE node == Nodes[i]
<1>6. kernel \in Kernels /\ Matches(kernel, node, opt)
  <2>1. kernels[i] = {k \in Kernels : Matches(k, Nodes[i], opt)}
    BY <1>5 DEF Matching
  <2> QED
    BY <1>4, <2>1
<1> DEFINE point == [v \in model.inputs |-> model.profile[v]["opt"]]
<1>7. /\ Described(shapes) \in [Value -> Desc] /\ Described(point) \in [Value -> Desc]
      /\ descs \in InferAll(Nodes, Described(shapes)) /\ opt \in InferAll(Nodes, Described(point))
  <2>1. \A v \in model.inputs : shapes[v] \in Seq(Int)
    BY <1>1 DEF ShapesInRange
  <2>2. \A v \in model.inputs : point[v] \in Seq(Int)
    BY <1>1, RangePoints
  <2>3. AtPoint("opt") = AtShapes(point)
    BY DEF AtPoint
  <2> HIDE DEF point
  <2> QED
    BY <1>1, <1>5, <2>1, <2>2, <2>3, GivenTyped
<1>8. \A v \in Value : Len(Described(shapes)[v].shape) = Len(Described(point)[v].shape)
  <2> SUFFICES ASSUME NEW v \in Value
               PROVE  Len(Described(shapes)[v].shape) = Len(Described(point)[v].shape)
    OBVIOUS
  <2>1. CASE v \in model.inputs
    <3>1. InRange(v, shapes[v]) /\ InRange(v, model.profile[v].opt)
      BY <1>1, <2>1, RangePoints DEF ShapesInRange
    <3>2. Len(shapes[v]) = Len(point[v])
      BY <2>1, <3>1 DEF InRange
    <3>3. model.descs[v] \in Desc
      BY ModelTyped
    <3> HIDE DEF point
    <3> QED
      BY <2>1, <3>2, <3>3 DEF Described, Desc
  <2>2. CASE v \notin model.inputs
    BY <2>2 DEF Described
  <2> QED
    BY <2>1, <2>2
<1> HIDE DEF point
<1>9. \A v \in Value : Len(descs[v].shape) = Len(opt[v].shape)
  BY <1>2, <1>7, <1>8, AllRanks
<1>10. /\ TypedNode(node) /\ descs \in [Value -> Desc]
       /\ descs[node.out] \in Infer(node, Args(descs, node))
  <2>1. descs \in [Value -> Desc] /\ InferredUpTo(Nodes, Described(shapes), Len(Nodes), descs)
    BY <1>2, <1>7, InferAllSound
  <2> QED
    BY <1>2, <2>1 DEF InferredUpTo, Graph
<1>11. ASSUME kernel.ranks = << 2 >> PROVE Len(descs[node.ins[1]].shape) = 2
  <2> DEFINE args == Args(descs, node)
  <2>1. /\ DOMAIN args = 1..Len(node.ins) /\ Len(args) = Len(node.ins) /\ Len(args) \in Nat
        /\ \A k \in 1..Len(node.ins) : node.ins[k] \in Value /\ args[k] \in Desc
    BY <1>10, ArgsTyped, Zenon
  <2> HIDE DEF args, node
  <2>2. 1 \in DOMAIN args
    BY <1>10, <2>1, InferredRank DEF args
  <2>3. Len(opt[node.ins[1]].shape) = 2
    <3>1. \A k \in DOMAIN kernel.ranks : Len(opt[node.ins[k]].shape) = kernel.ranks[k]
      BY <1>6, Zenon DEF Matches
    <3>2. 1 \in DOMAIN kernel.ranks /\ kernel.ranks[1] = 2
      BY <1>11
    <3> QED
      BY <3>1, <3>2
  <2> QED
    BY <1>9, <2>1, <2>2, <2>3
<1>12. /\ kernel.op = node.op /\ \A key \in kernel.zeros : IntAttribute(node, key, 0) = 0
       /\ Len(node.ins) \in kernel.counts
  BY <1>6 DEF Matches
<1>13. LaunchOf(node, kernel)
  BY <1>4, <1>10, <1>11, <1>12, Zenon DEF LaunchOf, LaunchedWith
<1> QED
  BY <1>6, <1>13
-----------------------------------------------------------------------------
(* Every element is written, once.                                         *)

(* The volume of a matrix.                                                 *)
LEMMA MatrixVolume ==
  ASSUME NEW shape \in Seq(Int), Len(shape) = 2
  PROVE  Volume(shape) = shape[1] * shape[2]
<1>1. PICK volume : Volumes(shape, volume) /\ Volume(shape) = volume[2]
  BY VolumeUnfolds
<1>2. shape[1] \in Int /\ shape[2] \in Int
  BY TwoElements
<1>3. volume[0] = 1 /\ volume[1] = volume[0] * shape[1] /\ volume[2] = volume[1] * shape[2]
  <2>1. volume[0] = 1 /\ \A i \in 1..2 : volume[i] = volume[i - 1] * shape[i]
    BY <1>1 DEF Volumes
  <2> QED
    BY <2>1
<1>4. volume[1] = shape[1]
  BY <1>2, <1>3
<1> QED
  BY <1>1, <1>3, <1>4

(* And of an image.                                                        *)
LEMMA ImageVolume ==
  ASSUME NEW shape \in Seq(Int), Len(shape) = 4
  PROVE  Volume(shape) = shape[1] * shape[2] * shape[3] * shape[4]
<1>1. PICK volume : Volumes(shape, volume) /\ Volume(shape) = volume[4]
  BY VolumeUnfolds
<1>2. shape[1] \in Int
  BY FourElements
<1>3. /\ volume[0] = 1 /\ volume[1] = volume[0] * shape[1] /\ volume[2] = volume[1] * shape[2]
      /\ volume[3] = volume[2] * shape[3] /\ volume[4] = volume[3] * shape[4]
  <2>1. volume[0] = 1 /\ \A i \in 1..4 : volume[i] = volume[i - 1] * shape[i]
    BY <1>1 DEF Volumes
  <2> QED
    BY <2>1
<1>4. volume[1] = shape[1]
  BY <1>2, <1>3
<1> QED
  BY <1>1, <1>3, <1>4

(* The offsets each program of the last launch writes, and whether they    *)
(* are the output's elements, each once.                                   *)
Written == [p \in Nat |-> WrittenBy(p)]
OutputSize == Volume(descs[last.node.out].shape)
OutputWritten == WrittenOnce(last.grid, OutputSize, Written)

(* That is what the launch promises.                                       *)
LEMMA OutputWrittenSuffices ==
  ASSUME last.grid \in Nat, OutputWritten
  PROVE  LaunchWritesOutput
<1>1. /\ \A p \in Programs : p \in Nat /\ Written[p] = WrittenBy(p)
      /\ Programs = 0..(last.grid - 1) /\ Elements(last.node.out) = 0..(OutputSize - 1)
  BY DEF Programs, Written, Elements, OutputSize
<1>2. ASSUME NEW o \in Elements(last.node.out)
      PROVE  Cardinality({p \in Programs : o \in WrittenBy(p)}) = 1
  <2>1. {p \in Programs : o \in WrittenBy(p)} = {p \in 0..(last.grid - 1) : o \in Written[p]}
    BY <1>1
  <2>2. Cardinality({p \in 0..(last.grid - 1) : o \in Written[p]}) = 1
    BY <1>1, <1>2 DEF OutputWritten, WrittenOnce
  <2> QED
    BY <2>1, <2>2
<1>3. ASSUME NEW p \in Programs PROVE WrittenBy(p) \subseteq Elements(last.node.out)
  BY <1>1, <1>3 DEF OutputWritten, WrittenOnce
<1> QED
  BY <1>2, <1>3 DEF LaunchWritesOutput

(* A kernel that counts elements has all it counts written.                *)
LEMMA FlatLaunch ==
  ASSUME NEW node, NEW kernel, LaunchOf(node, kernel), kernel.grid = NumelGrid,
         kernel.program \notin {"gemm_tiled", "layer_norm", "skip_layer_norm", "softmax"},
         OutputSize \in Nat => Total(kernel.program, last.arguments) = OutputSize,
         OutputSize <= Int32Max
  PROVE  OutputWritten
<1> DEFINE shape == descs[node.out].shape
<1>1. /\ last.node = node /\ last.program = kernel.program /\ last.grid \in 1..UInt32Max
      /\ last.grid = Combined("ceil_div", NumElements(shape), Block)
  <2>1. /\ last.node = node /\ last.program = kernel.program /\ last.grid \in 1..UInt32Max
        /\ last.grid = GridValue(NumelGrid, last.meta, node, descs)
    BY DEF LaunchOf
  <2> QED
    BY <2>1, NumelGridValue
<1>2. NumElements(shape) \in Nat \ {0} /\ NumElements(shape) = OutputSize
  <2>1. shape \in Seq(Int)
    <3>1. descs \in [Value -> Desc] /\ node.out \in Value
      BY DEF LaunchOf, TypedNode
    <3>2. descs[node.out] \in Desc
      BY <3>1
    <3> QED
      BY <3>2 DEF Desc
  <2>2. ~(NumElements(shape) <= 0)
    BY <1>1, CeilDivCombined
  <2>3. NumElements(shape) # 0
    BY <2>2
  <2>4. NumElements(shape) = Volume(shape) /\ NumElements(shape) \in 1..Int64Max
    BY <2>1, <2>3, ElementsAreVolume
  <2> QED
    BY <1>1, <2>4, WidthAssumption DEF OutputSize
<1> HIDE DEF shape
<1>3. last.grid = CeilDiv(OutputSize, Block)
  <2>1. Combined("ceil_div", NumElements(shape), Block) # 0
    BY <1>1
  <2> QED
    BY <1>1, <1>2, <2>1, CeilDivCombined
<1>4. \A p \in Nat : Written[p] = {o \in BlockAt(p, Block) : o < OutputSize}
  <2> SUFFICES ASSUME NEW p \in Nat
               PROVE  Written[p] = {o \in BlockAt(p, Block) : o < OutputSize}
    OBVIOUS
  <2>1. Written[p] = Writes(kernel.program, p, last.arguments, last.meta)
    BY <1>1 DEF Written, WrittenBy
  <2>2. Total(kernel.program, last.arguments) = OutputSize
    BY <1>2
  <2> QED
    BY <2>1, <2>2 DEF Writes
<1>5. OutputSize \in 1..Int32Max
  BY <1>2, KernelAssumption
<1> QED
  BY <1>3, <1>4, <1>5, FlatWritesOnce DEF OutputWritten

(* What a launch's arguments are.                                          *)
LEMMA LaunchArgument ==
  ASSUME NEW node, NEW kernel, LaunchOf(node, kernel), NEW name, NEW source,
         Sourced(kernel.arguments, name, source)
  PROVE  last.arguments[name] \in ArgumentOf(source, node, descs)
<1>1. last.arguments \in Bind(kernel, node, descs)
  BY DEF LaunchOf
<1>2. name \in DOMAIN kernel.arguments /\ kernel.arguments[name] = source
  BY DEF Sourced
<1> QED
  BY <1>1, <1>2, BoundArgument

(* And its descriptions.                                                   *)
LEMMA LaunchDescribed ==
  ASSUME NEW node, NEW kernel, LaunchOf(node, kernel)
  PROVE  /\ descs[node.out] \in Desc /\ descs[node.out].shape \in Seq(Int)
         /\ \A k \in DOMAIN node.ins : /\ descs[node.ins[k]] \in Desc
                                       /\ descs[node.ins[k]].shape \in Seq(Int)
                                       /\ Args(descs, node)[k] = descs[node.ins[k]]
         /\ DOMAIN Args(descs, node) = DOMAIN node.ins
         /\ DOMAIN node.ins = 1..Len(Args(descs, node)) /\ Len(Args(descs, node)) \in Nat
         /\ OutputSize = Volume(descs[node.out].shape)
<1>1. /\ TypedNode(node) /\ descs \in [Value -> Desc] /\ last.node = node
  BY DEF LaunchOf
<1>2. node.out \in Value
  BY <1>1 DEF TypedNode
<1>3. /\ DOMAIN node.ins = 1..Len(node.ins) /\ Len(node.ins) \in Nat
      /\ Len(Args(descs, node)) = Len(node.ins)
      /\ DOMAIN Args(descs, node) = 1..Len(node.ins)
      /\ \A k \in 1..Len(node.ins) : /\ node.ins[k] \in Value
                                     /\ Args(descs, node)[k] = descs[node.ins[k]]
                                     /\ Args(descs, node)[k] \in Desc
  BY <1>1, ArgsTyped, Zenon
<1>4. \A x \in Desc : x.shape \in Seq(Int)
  BY DEF Desc
<1>5. descs[node.out] \in Desc
  BY <1>1, <1>2
<1>6. OutputSize = Volume(descs[node.out].shape)
  BY <1>1 DEF OutputSize
<1> QED
  BY <1>3, <1>4, <1>5, <1>6

(* Elementwise kernels and batch normalization.                            *)
LEMMA CountLaunch ==
  ASSUME NEW node, NEW kernel, LaunchOf(node, kernel), kernel.grid = NumelGrid,
         kernel.program \in {"elementwise", "batch_norm"},
         Sourced(kernel.arguments, "total", OutputNumel)
  PROVE  OutputWritten
<1> DEFINE shape == descs[node.out].shape
           total == last.arguments["total"]
<1>1. total = NumElements(shape) /\ total \in 1..Int32Max
  BY LaunchArgument, CountArgument
<1>2. NumElements(shape) # 0
  BY <1>1
<1>3. shape \in Seq(Int) /\ OutputSize = Volume(shape)
  BY LaunchDescribed
<1>4. total = OutputSize
  BY <1>1, <1>2, <1>3, ElementsAreVolume
<1>5. Total(kernel.program, last.arguments) = total
  BY DEF Total
<1> QED
  BY <1>1, <1>4, <1>5, FlatLaunch, KernelAssumption

(* Convolutions.                                                           *)
LEMMA ConvLaunch ==
  ASSUME NEW node, NEW kernel, LaunchOf(node, kernel), kernel.grid = NumelGrid,
         kernel.program \in {"conv", "fused_conv"}, kernel.op \in ConvLike,
         kernel.arguments = ConvArguments, OutputSize <= Int32Max
  PROVE  OutputWritten
<1> DEFINE r == descs[node.out]
           x == descs[node.ins[1]]
           w == descs[node.ins[2]]
           a == last.arguments
<1>1. a["n"] \in ArgumentOf(InputDim(1, 1), node, descs)
  BY LaunchArgument, ConvSources
<1>2. a["k"] \in ArgumentOf(InputDim(2, 1), node, descs)
  BY LaunchArgument, ConvSources
<1>3. a["out_h"] \in ArgumentOf(OutputDim(3), node, descs)
  BY LaunchArgument, ConvSources
<1>4. a["out_w"] \in ArgumentOf(OutputDim(4), node, descs)
  BY LaunchArgument, ConvSources
<1>5. 1 \in DOMAIN node.ins /\ a["n"] = x.shape[1]
  BY <1>1, InputArgument
<1>6. 2 \in DOMAIN node.ins /\ a["k"] = w.shape[1]
  BY <1>2, InputArgument
<1>7. a["out_h"] = r.shape[3] /\ a["out_w"] = r.shape[4]
  BY <1>3, <1>4, OutputArgument
<1>8. /\ x \in Desc /\ w \in Desc /\ r \in Desc /\ r.shape \in Seq(Int)
      /\ Args(descs, node)[1] = x /\ Args(descs, node)[2] = w
      /\ OutputSize = Volume(r.shape)
  BY <1>5, <1>6, LaunchDescribed
<1>9. node.op \in ConvLike /\ r \in Infer(node, Args(descs, node)) /\ TypedNode(node)
  BY DEF LaunchOf
<1>10. r \in InferConvLike(node, x, w)
  BY <1>8, <1>9, InferCases DEF ConvLike, GemmLike, PoolLike
<1> HIDE DEF r, x, w, a
<1>11. Len(r.shape) = 4 /\ r.shape[1] = x.shape[1] /\ r.shape[2] = w.shape[1]
  BY <1>8, <1>9, <1>10, InferredConv
<1>12. OutputSize = a["n"] * a["k"] * a["out_h"] * a["out_w"]
  BY <1>5, <1>6, <1>7, <1>8, <1>11, ImageVolume
<1>13. Total(kernel.program, last.arguments) = Int32(OutputSize)
  BY <1>12 DEF Total, a
<1>14. ASSUME OutputSize \in Nat PROVE Int32(OutputSize) = OutputSize
  BY <1>14, Int32Fits, KernelAssumption
<1> QED
  BY <1>13, <1>14, FlatLaunch

(* Max pooling.                                                            *)
LEMMA PoolLaunch ==
  ASSUME NEW node, NEW kernel, LaunchOf(node, kernel), kernel.grid = NumelGrid,
         kernel.program = "max_pool", kernel.op = "MaxPool",
         kernel.arguments = PoolArguments, OutputSize <= Int32Max
  PROVE  OutputWritten
<1> DEFINE r == descs[node.out]
           x == descs[node.ins[1]]
           a == last.arguments
<1>1. a["n"] \in ArgumentOf(InputDim(1, 1), node, descs)
  BY LaunchArgument, PoolSources
<1>2. a["c"] \in ArgumentOf(InputDim(1, 2), node, descs)
  BY LaunchArgument, PoolSources
<1>3. a["out_h"] \in ArgumentOf(OutputDim(3), node, descs)
  BY LaunchArgument, PoolSources
<1>4. a["out_w"] \in ArgumentOf(OutputDim(4), node, descs)
  BY LaunchArgument, PoolSources
<1>5. 1 \in DOMAIN node.ins /\ a["n"] = x.shape[1] /\ a["c"] = x.shape[2]
  BY <1>1, <1>2, InputArgument
<1>6. a["out_h"] = r.shape[3] /\ a["out_w"] = r.shape[4]
  BY <1>3, <1>4, OutputArgument
<1>7. /\ x \in Desc /\ r \in Desc /\ r.shape \in Seq(Int) /\ Args(descs, node)[1] = x
      /\ OutputSize = Volume(r.shape)
  BY <1>5, LaunchDescribed
<1>8. node.op = "MaxPool" /\ r \in Infer(node, Args(descs, node)) /\ TypedNode(node)
  BY DEF LaunchOf
<1>9. r \in InferPool(node, x)
  BY <1>7, <1>8, InferCases DEF ConvLike, GemmLike, PoolLike
<1> HIDE DEF r, x, a
<1>10. Len(r.shape) = 4 /\ r.shape[1] = x.shape[1] /\ r.shape[2] = x.shape[2]
  BY <1>7, <1>8, <1>9, InferredPool
<1>11. OutputSize = a["n"] * a["c"] * a["out_h"] * a["out_w"]
  BY <1>5, <1>6, <1>7, <1>10, ImageVolume
<1>12. Total(kernel.program, last.arguments) = Int32(OutputSize)
  BY <1>11 DEF Total, a
<1>13. ASSUME OutputSize \in Nat PROVE Int32(OutputSize) = OutputSize
  BY <1>13, Int32Fits, KernelAssumption
<1> QED
  BY <1>12, <1>13, FlatLaunch

(* Global average pooling.                                                 *)
LEMMA AverageLaunch ==
  ASSUME NEW node, NEW kernel, LaunchOf(node, kernel), kernel.grid = NumelGrid,
         kernel.program = "global_average_pool", kernel.op = "GlobalAveragePool",
         kernel.arguments = AverageArguments, OutputSize <= Int32Max
  PROVE  OutputWritten
<1> DEFINE r == descs[node.out]
           x == descs[node.ins[1]]
           a == last.arguments
<1>1. a["n"] \in ArgumentOf(InputDim(1, 1), node, descs)
  BY LaunchArgument, OtherSources
<1>2. a["c"] \in ArgumentOf(InputDim(1, 2), node, descs)
  BY LaunchArgument, OtherSources
<1>3. 1 \in DOMAIN node.ins /\ a["n"] = x.shape[1] /\ a["c"] = x.shape[2]
  BY <1>1, <1>2, InputArgument
<1>4. /\ x \in Desc /\ r \in Desc /\ r.shape \in Seq(Int) /\ Args(descs, node)[1] = x
      /\ OutputSize = Volume(r.shape)
  BY <1>3, LaunchDescribed
<1>5. node.op = "GlobalAveragePool" /\ r \in Infer(node, Args(descs, node))
  BY DEF LaunchOf
<1>6. r \in InferGlobalAveragePool(x)
  BY <1>4, <1>5, InferCases DEF ConvLike, GemmLike, PoolLike
<1> HIDE DEF r, a
<1>7. r.shape = <<x.shape[1], x.shape[2], 1, 1>>
  BY <1>4, <1>6, InferredAverage
<1>8. Len(r.shape) = 4 /\ r.shape[1] = a["n"] /\ r.shape[2] = a["c"]
      /\ r.shape[3] = 1 /\ r.shape[4] = 1
  BY <1>3, <1>7
<1>9. a["n"] \in Int /\ a["c"] \in Int
  BY <1>4, <1>8, FourElements
<1>10. OutputSize = a["n"] * a["c"]
  <2>1. OutputSize = a["n"] * a["c"] * 1 * 1
    BY <1>4, <1>8, ImageVolume
  <2> QED
    BY <1>9, <2>1
<1>11. Total(kernel.program, last.arguments) = Int32(OutputSize)
  BY <1>10 DEF Total, a
<1>12. ASSUME OutputSize \in Nat PROVE Int32(OutputSize) = OutputSize
  BY <1>12, Int32Fits, KernelAssumption
<1> QED
  BY <1>11, <1>12, FlatLaunch

(* Gemm by element, of a first matrix that is not transposed.              *)
LEMMA GemmLaunch ==
  ASSUME NEW node, NEW kernel, LaunchOf(node, kernel), kernel.grid = NumelGrid,
         kernel.program = "gemm", kernel.op = "Gemm", kernel.zeros = {"transB"},
         Sourced(kernel.arguments, "m", InputDim(1, 1)),
         Sourced(kernel.arguments, "n", InputDim(2, 2)),
         OutputSize <= Int32Max, ~Transposed(node, "transA")
  PROVE  OutputWritten
<1> DEFINE r == descs[node.out]
           args == Args(descs, node)
           a == last.arguments
<1>1. a["m"] \in ArgumentOf(InputDim(1, 1), node, descs)
  BY LaunchArgument
<1>2. a["n"] \in ArgumentOf(InputDim(2, 2), node, descs)
  BY LaunchArgument
<1>3. /\ 1 \in DOMAIN node.ins /\ a["m"] = descs[node.ins[1]].shape[1]
      /\ 2 \in DOMAIN node.ins /\ a["n"] = descs[node.ins[2]].shape[2]
  BY <1>1, <1>2, InputArgument
<1>4. /\ args[1] = descs[node.ins[1]] /\ args[1] \in Desc
      /\ args[2] = descs[node.ins[2]] /\ args[2] \in Desc
      /\ r \in Desc /\ r.shape \in Seq(Int) /\ OutputSize = Volume(r.shape)
  BY <1>3, LaunchDescribed
<1>5. /\ node.op = "Gemm" /\ r \in Infer(node, args)
      /\ \A key \in {"transB"} : IntAttribute(node, key, 0) = 0
  BY DEF LaunchOf
<1>6. r \in InferGemm(node, args)
  BY <1>5, InferCases DEF ConvLike, GemmLike, PoolLike
<1> HIDE DEF r, args, a
<1>7. r.shape = <<args[1].shape[1], args[2].shape[2]>>
  <2>1. r.shape = <<Rows(args[1].shape, Transposed(node, "transA")),
                    Columns(args[2].shape, Transposed(node, "transB"))>>
    BY <1>4, <1>6, InferredGemm
  <2>2. ~Transposed(node, "transB")
    BY <1>5 DEF Transposed
  <2> QED
    BY <2>1, <2>2 DEF Rows, Columns
<1>8. Len(r.shape) = 2 /\ r.shape[1] = a["m"] /\ r.shape[2] = a["n"]
  BY <1>3, <1>4, <1>7
<1>9. OutputSize = a["m"] * a["n"]
  BY <1>4, <1>8, MatrixVolume
<1>10. Total(kernel.program, last.arguments) = Int32(OutputSize)
  BY <1>9 DEF Total, a
<1>11. ASSUME OutputSize \in Nat PROVE Int32(OutputSize) = OutputSize
  BY <1>11, Int32Fits, KernelAssumption
<1> QED
  BY <1>10, <1>11, FlatLaunch

(* Gemm by tile.                                                           *)
LEMMA TiledLaunch ==
  ASSUME NEW node, NEW kernel, LaunchOf(node, kernel), kernel.grid = TiledGrid,
         kernel.program = "gemm_tiled", kernel.op \in GemmLike, kernel.metas = Tiles,
         Sourced(kernel.arguments, "m", OutputDim(1)),
         Sourced(kernel.arguments, "n", OutputDim(2)),
         last.arguments.m + last.meta.BLOCK_M - 1 <= Int32Max,
         last.arguments.n + last.meta.BLOCK_N - 1 <= Int32Max, OutputSize <= Int32Max
  PROVE  OutputWritten
<1> DEFINE r == descs[node.out]
           args == Args(descs, node)
           a == last.arguments
           meta == last.meta
<1>1. a["m"] \in ArgumentOf(OutputDim(1), node, descs)
  BY LaunchArgument
<1>2. a["n"] \in ArgumentOf(OutputDim(2), node, descs)
  BY LaunchArgument
<1>3. a["m"] = r.shape[1] /\ a["n"] = r.shape[2]
  BY <1>1, <1>2, OutputArgument
<1>4. /\ node.op \in GemmLike /\ r \in Infer(node, args) /\ meta \in Tiles
      /\ last.program = "gemm_tiled" /\ last.grid \in 1..UInt32Max
      /\ last.grid = GridValue(TiledGrid, meta, node, descs) /\ TypedNode(node)
  BY DEF LaunchOf
<1>5. /\ \A k \in DOMAIN args : args[k] \in Desc
      /\ DOMAIN args = 1..Len(args) /\ Len(args) \in Nat
      /\ r \in Desc /\ r.shape \in Seq(Int) /\ OutputSize = Volume(r.shape)
  BY LaunchDescribed
<1>6. r \in InferGemm(node, args) /\ Len(args) \in InputCounts(node.op)
  BY <1>4, InferCases DEF ConvLike, GemmLike, PoolLike
<1>7. args[1] \in Desc /\ args[2] \in Desc
  <2>1. Len(args) >= 2
    <3>1. node.op \in {"Gemm", "GemmGelu", "MatMul"}
      BY <1>4 DEF GemmLike
    <3>2. InputCounts(node.op) \subseteq {2, 3}
      BY <3>1 DEF InputCounts, Elementwise, PoolLike
    <3> QED
      BY <1>6, <3>2
  <2>2. 1 \in DOMAIN args /\ 2 \in DOMAIN args
    BY <1>5, <2>1
  <2> QED
    BY <1>5, <2>2
<1> HIDE DEF r, args, a, meta
<1>8. Valid(r) /\ \E m, n : r.shape = <<m, n>>
  <2>1. Valid(r) /\ r.shape = <<Rows(args[1].shape, Transposed(node, "transA")),
                                Columns(args[2].shape, Transposed(node, "transB"))>>
    BY <1>6, <1>7, InferredGemm
  <2> QED
    BY <2>1
<1>9. /\ r.shape = <<a["m"], a["n"]>> /\ Len(r.shape) = 2
      /\ a["m"] \in Nat \ {0} /\ a["n"] \in Nat \ {0}
  <2>1. PICK m, n : r.shape = <<m, n>>
    BY <1>8
  <2>2. Len(r.shape) = 2 /\ r.shape = <<a["m"], a["n"]>>
    BY <1>3, <2>1
  <2>3. \A i \in DOMAIN r.shape : r.shape[i] > 0
    BY <1>8 DEF Valid
  <2>4. r.shape[1] > 0 /\ r.shape[2] > 0
    BY <2>2, <2>3
  <2>5. r.shape[1] \in Int /\ r.shape[2] \in Int
    BY <1>5, <2>2, TwoElements
  <2> QED
    BY <1>3, <2>2, <2>4, <2>5
<1>10. OutputSize = a["m"] * a["n"]
  BY <1>3, <1>5, <1>9, MatrixVolume
<1> DEFINE tm == Combined("ceil_div", a["m"], meta.BLOCK_M)
           tn == Combined("ceil_div", a["n"], meta.BLOCK_N)
<1>11. last.grid = CeilDiv(a["m"], meta.BLOCK_M) * CeilDiv(a["n"], meta.BLOCK_N)
  <2>1. last.grid = Combined("mul", tm, tn)
    BY <1>4, <1>9, TiledGridValue DEF r
  <2>2. last.grid # 0
    BY <1>4
  <2> HIDE DEF tm, tn
  <2>3. last.grid = tm * tn /\ ~(tm <= 0) /\ ~(tn <= 0)
    BY <2>1, <2>2, ProductCombined
  <2>4. tm # 0 /\ tn # 0
    BY <2>3
  <2>5. tm = CeilDiv(a["m"], meta.BLOCK_M)
    BY <2>4, CeilDivCombined DEF tm
  <2>6. tn = CeilDiv(a["n"], meta.BLOCK_N)
    BY <2>4, CeilDivCombined DEF tn
  <2> QED
    BY <2>3, <2>5, <2>6
<1>12. \A p \in Nat : Written[p] = Writes("gemm_tiled", p, a, meta)
  BY <1>4 DEF Written, WrittenBy, a, meta
<1>13. WrittenOnce(CeilDiv(a.m, meta.BLOCK_M) * CeilDiv(a.n, meta.BLOCK_N), a.m * a.n, Written)
  <2>1. /\ a.m + meta.BLOCK_M - 1 <= Int32Max /\ a.n + meta.BLOCK_N - 1 <= Int32Max
        /\ a.m * a.n <= Int32Max
    BY <1>10 DEF a, meta
  <2> QED
    BY <1>4, <1>9, <1>12, <2>1, TiledWritesOnce
<1> QED
  BY <1>10, <1>11, <1>13 DEF OutputWritten

(* Normalization and softmax of the rows of a matrix, each in one block.   *)
LEMMA RowLaunch ==
  ASSUME NEW node, NEW kernel, LaunchOf(node, kernel), kernel.grid = RowGrid,
         kernel.program \in {"layer_norm", "skip_layer_norm", "softmax"},
         kernel.op \in {"LayerNormalization", "SkipLayerNormalization", "Softmax"},
         kernel.ranks = << 2 >>, kernel.arguments = RowArguments,
         last.arguments.columns <= RowBlock, OutputSize <= Int32Max
  PROVE  OutputWritten
<1> DEFINE r == descs[node.out]
           args == Args(descs, node)
           columns == last.arguments["columns"]
<1>1. columns \in ArgumentOf(InputDim(1, 2), node, descs)
  BY LaunchArgument, OtherSources
<1>2. 1 \in DOMAIN node.ins /\ columns = descs[node.ins[1]].shape[2]
  BY <1>1, InputArgument
<1>3. /\ args[1] = descs[node.ins[1]]
      /\ r.shape \in Seq(Int) /\ OutputSize = Volume(r.shape)
  BY <1>2, LaunchDescribed
<1>4. /\ kernel.op = node.op /\ r \in Infer(node, args) /\ last.program = kernel.program
      /\ Len(descs[node.ins[1]].shape) = 2 /\ last.grid \in 1..UInt32Max
      /\ last.grid = GridValue(RowGrid, last.meta, node, descs)
  BY DEF LaunchOf
<1>5. r = args[1]
  BY <1>4, InferCases DEF ConvLike, GemmLike, PoolLike
<1>6. Len(r.shape) = 2 /\ r.shape[2] = columns
  BY <1>2, <1>3, <1>4, <1>5
<1>7. last.grid = r.shape[1]
  <2>1. last.grid = IF 1 \in DOMAIN r.shape THEN r.shape[1] ELSE 0
    BY <1>4, RowGridValue
  <2>2. 1 \in DOMAIN r.shape
    BY <1>3, <1>6
  <2> QED
    BY <2>1, <2>2
<1> HIDE DEF r, args, columns
<1>8. OutputSize = last.grid * columns
  BY <1>3, <1>6, <1>7, MatrixVolume
<1>9. columns \in Int
  BY <1>3, <1>6, TwoElements
<1>10. \A p \in Nat :
         Written[p] = {Int32(p * columns) + i : i \in 0..(Least(RowBlock, columns) - 1)}
  BY <1>4 DEF Written, WrittenBy, Writes, columns
<1>11. columns <= RowBlock
  BY DEF columns
<1>12. WrittenOnce(last.grid, last.grid * columns, Written)
  <2>1. last.grid \in Nat \ {0}
    BY <1>4
  <2> DEFINE rows == last.grid
  <2> HIDE DEF rows
  <2>2. WrittenOnce(rows, rows * columns, Written)
    BY <1>8, <1>9, <1>10, <1>11, <2>1, RowsWriteOnce DEF rows
  <2> QED
    BY <2>2 DEF rows
<1> QED
  BY <1>8, <1>12 DEF OutputWritten

(* What the kernels are written for: an output 32 bits count the elements  *)
(* of, a row of one block at most, tiles counted in 32 bits and, element   *)
(* by element, a Gemm that does not transpose its first matrix.            *)
WithinLimits ==
  Launched =>
    /\ OutputSize <= Int32Max
    /\ last.program \in {"layer_norm", "skip_layer_norm", "softmax"} =>
         last.arguments.columns <= RowBlock
    /\ last.program = "gemm_tiled" =>
         /\ last.arguments.m + last.meta.BLOCK_M - 1 <= Int32Max
         /\ last.arguments.n + last.meta.BLOCK_N - 1 <= Int32Max
    /\ last.program = "gemm" => ~Transposed(last.node, "transA")

(* Every kernel of the pack writes its output then.                        *)
LEMMA KernelWrites ==
  ASSUME NEW node, NEW kernel \in Kernels, LaunchOf(node, kernel), WithinLimits, Launched
  PROVE  OutputWritten
<1>1. last.node = node /\ last.program = kernel.program
  BY DEF LaunchOf
<1>2. /\ OutputSize <= Int32Max
      /\ kernel.program \in {"layer_norm", "skip_layer_norm", "softmax"} =>
           last.arguments.columns <= RowBlock
      /\ kernel.program = "gemm_tiled" =>
           /\ last.arguments.m + last.meta.BLOCK_M - 1 <= Int32Max
           /\ last.arguments.n + last.meta.BLOCK_N - 1 <= Int32Max
      /\ kernel.program = "gemm" => ~Transposed(node, "transA")
  BY <1>1, Zenon DEF WithinLimits
<1>3. KernelIs(kernel)
  BY KernelCases
<1>4. CASE kernel.program \in {"elementwise", "batch_norm"} /\ kernel.grid = NumelGrid
           /\ Sourced(kernel.arguments, "total", OutputNumel)
  BY <1>4, CountLaunch
<1>5. CASE kernel.program \in {"conv", "fused_conv"} /\ kernel.grid = NumelGrid
           /\ kernel.op \in ConvLike /\ kernel.arguments = ConvArguments
  BY <1>2, <1>5, ConvLaunch
<1>6. CASE kernel.program = "max_pool" /\ kernel.grid = NumelGrid
           /\ kernel.op = "MaxPool" /\ kernel.arguments = PoolArguments
  BY <1>2, <1>6, PoolLaunch
<1>7. CASE kernel.program = "global_average_pool" /\ kernel.grid = NumelGrid
           /\ kernel.op = "GlobalAveragePool" /\ kernel.arguments = AverageArguments
  BY <1>2, <1>7, AverageLaunch
<1>8. CASE kernel.program = "gemm" /\ kernel.grid = NumelGrid /\ kernel.op = "Gemm"
           /\ kernel.zeros = {"transB"} /\ Sourced(kernel.arguments, "m", InputDim(1, 1))
           /\ Sourced(kernel.arguments, "n", InputDim(2, 2))
  <2>1. ~Transposed(node, "transA")
    BY <1>2, <1>8
  <2> QED
    BY <1>2, <1>8, <2>1, GemmLaunch
<1>9. CASE kernel.program = "gemm_tiled" /\ kernel.grid = TiledGrid /\ kernel.op \in GemmLike
           /\ kernel.metas = Tiles /\ Sourced(kernel.arguments, "m", OutputDim(1))
           /\ Sourced(kernel.arguments, "n", OutputDim(2))
  BY <1>2, <1>9, TiledLaunch
<1>10. CASE kernel.program \in {"layer_norm", "skip_layer_norm", "softmax"}
            /\ kernel.grid = RowGrid
            /\ kernel.op \in {"LayerNormalization", "SkipLayerNormalization", "Softmax"}
            /\ kernel.ranks = <<2>> /\ kernel.arguments = RowArguments
  <2>1. last.arguments.columns <= RowBlock
    BY <1>2, <1>10
  <2> QED
    BY <1>2, <1>10, <2>1, RowLaunch
<1> QED
  BY <1>3, <1>4, <1>5, <1>6, <1>7, <1>8, <1>9, <1>10, Zenon DEF KernelIs

(* Every launch within those limits writes every element of its output in  *)
(* exactly one of its programs, and nothing beyond: the descriptions, the  *)
(* arguments ArgumentBinder passes, the grid and the masks agree.          *)
THEOREM LaunchesWriteOutput == Spec => [](WithinLimits => LaunchWritesOutput)
<1>1. LaunchInv /\ KernelsInv => (WithinLimits => LaunchWritesOutput)
  <2> SUFFICES ASSUME LaunchInv, KernelsInv, WithinLimits PROVE LaunchWritesOutput
    OBVIOUS
  <2>1. CASE ~Launched
    BY <2>1 DEF LaunchWritesOutput
  <2>2. CASE Launched
    <3>1. PICK node : \E kernel \in Kernels : LaunchOf(node, kernel)
      BY <2>2, LaunchIsOf
    <3>2. PICK kernel \in Kernels : LaunchOf(node, kernel)
      BY <3>1
    <3>3. OutputWritten
      BY <2>2, <3>2, KernelWrites
    <3>4. last.grid \in Nat
      <4>1. last.grid \in 1..UInt32Max
        BY <3>2 DEF LaunchOf
      <4> QED
        BY <4>1
    <3> QED
      BY <3>3, <3>4, OutputWrittenSuffices
  <2> QED
    BY <2>1, <2>2
<1> QED
  BY <1>1, LaunchInvariant, LaunchesAreBound, PTL
-----------------------------------------------------------------------------
(* Where an element is, and what is read for it.                           *)

(* What Offset adds up, axis by axis.                                      *)
Offsets(shape, coordinates, offset) ==
  /\ offset \in [0..Len(shape) -> Int] /\ offset[0] = 0
  /\ \A i \in 1..Len(shape) : offset[i] = offset[i - 1] * shape[i] + coordinates[i]

(* Offset is the last of them.                                             *)
LEMMA OffsetUnfolds ==
  ASSUME NEW shape \in Seq(Int), NEW coordinates, \A i \in 1..Len(shape) : coordinates[i] \in Int
  PROVE  \E offset : Offsets(shape, coordinates, offset)
                     /\ Offset(shape, coordinates) = offset[Len(shape)]
<1> DEFINE n == Len(shape)
           After(i, c) == c * shape[i] + coordinates[i]
           G == [p \in (1..n) \X Int |-> After(p[1], p[2])]
           Recursive(g) == g = [i \in 0..n |-> IF i = 0 THEN 0
                                               ELSE g[i - 1] * shape[i] + coordinates[i]]
           offset == CHOOSE g : Recursive(g)
<1>1. Offset(shape, coordinates) = offset[n]
  BY DEF Offset
<1>2. n \in Nat /\ 0 \in Int /\ \A i \in 1..n : shape[i] \in Int /\ coordinates[i] \in Int
  OBVIOUS
<1>3. ASSUME NEW i \in 1..n, NEW c \in Int PROVE After(i, c) \in Int
  BY <1>2
<1>4. PICK f \in [0..n -> Int] : Unfolds(f, 0, n, G)
  <2>1. G \in [(1..n) \X Int -> Int]
    <3> HIDE DEF After
    <3> QED
      BY <1>3
  <2> HIDE DEF G
  <2> QED
    BY <1>2, <2>1, RecursiveFunction
<1>5. \A i \in 0..n : f[i] = IF i = 0 THEN 0 ELSE After(i, f[i - 1])
  <2>1. ASSUME NEW i \in 0..n PROVE f[i] = IF i = 0 THEN 0 ELSE G[<<i, f[i - 1]>>]
    BY <1>4 DEF Unfolds
  <2>2. ASSUME NEW i \in 1..n PROVE G[<<i, f[i - 1]>>] = After(i, f[i - 1])
    <3>1. f[i - 1] \in Int
      <4>1. i - 1 \in 0..n
        BY <1>2
      <4> HIDE DEF n, After
      <4> QED
        BY <4>1
    <3> HIDE DEF After
    <3> QED
      BY <3>1
  <2>3. \A i \in 0..n : i # 0 => i \in 1..n
    BY <1>2
  <2> HIDE DEF G, After
  <2> QED
    BY <2>1, <2>2, <2>3
<1>6. Recursive(f)
  BY <1>5
<1>7. Recursive(offset)
  <2> HIDE DEF Recursive
  <2> QED
    BY <1>6
<1>8. offset[0] = 0 /\ \A i \in 1..n : offset[i] = After(i, offset[i - 1])
  <2>1. \A i \in 0..n : offset[i] = IF i = 0 THEN 0 ELSE After(i, offset[i - 1])
    <3> HIDE DEF offset, n
    <3> QED
      BY <1>7
  <2>2. 0 \in 0..n /\ \A i \in 1..n : i \in 0..n /\ i # 0
    BY <1>2
  <2> HIDE DEF Recursive, G, offset, After
  <2> QED
    BY <2>1, <2>2, Zenon
<1> HIDE DEF G, offset
<1>9. \A i \in 0..n : offset[i] \in Int
  <2>1. ASSUME NEW i \in 1..n, offset[i - 1] \in Int PROVE offset[i] \in Int
    <3> HIDE DEF After, Recursive
    <3> QED
      BY <1>3, <1>8, <2>1
  <2> HIDE DEF After, Recursive
  <2> QED
    BY <1>2, <1>8, <2>1, RangeByInduction
<1>10. offset \in [0..n -> Int]
  <2>1. offset = [i \in 0..n |-> offset[i]]
    <3> HIDE DEF n, After
    <3> QED
      BY <1>7 DEF Recursive
  <2> HIDE DEF After, n
  <2> QED
    BY <1>9, <2>1
<1>11. Offsets(shape, coordinates, offset)
  BY <1>8, <1>10, Zenon DEF Offsets
<1> QED
  BY <1>1, <1>11, Zenon

(* In a matrix, from a pair.                                               *)
LEMMA MatrixOffset ==
  ASSUME NEW shape \in Seq(Int), Len(shape) = 2, NEW row \in Int, NEW column \in Int
  PROVE  Offset(shape, <<row, column>>) = row * shape[2] + column
<1> DEFINE c == <<row, column>>
<1>0. c[1] = row /\ c[2] = column
  OBVIOUS
<1>1. \A i \in 1..Len(shape) : c[i] \in Int
  OBVIOUS
<1> HIDE DEF c
<1>2. PICK offset : Offsets(shape, c, offset) /\ Offset(shape, c) = offset[2]
  BY <1>1, OffsetUnfolds
<1>3. shape[1] \in Int /\ shape[2] \in Int
  BY TwoElements
<1>4. /\ offset[0] = 0 /\ offset[1] = offset[0] * shape[1] + c[1]
      /\ offset[2] = offset[1] * shape[2] + c[2]
  <2>1. offset[0] = 0 /\ \A i \in 1..2 : offset[i] = offset[i - 1] * shape[i] + c[i]
    BY <1>2 DEF Offsets
  <2> QED
    BY <2>1
<1>5. offset[1] = row
  BY <1>0, <1>3, <1>4
<1> QED
  BY <1>0, <1>2, <1>4, <1>5 DEF c

(* And in an image.                                                        *)
LEMMA ImageOffset ==
  ASSUME NEW shape \in Seq(Int), Len(shape) = 4,
         NEW n \in Int, NEW c \in Int, NEW h \in Int, NEW w \in Int
  PROVE  Offset(shape, <<n, c, h, w>>) = ((n * shape[2] + c) * shape[3] + h) * shape[4] + w
<1> DEFINE at4 == <<n, c, h, w>>
<1>0. at4[1] = n /\ at4[2] = c /\ at4[3] = h /\ at4[4] = w
  OBVIOUS
<1>1. \A i \in 1..Len(shape) : at4[i] \in Int
  OBVIOUS
<1> HIDE DEF at4
<1>2. PICK offset : Offsets(shape, at4, offset) /\ Offset(shape, at4) = offset[4]
  BY <1>1, OffsetUnfolds
<1>3. shape[1] \in Int
  BY FourElements
<1>4. /\ offset[0] = 0 /\ offset[1] = offset[0] * shape[1] + at4[1]
      /\ offset[2] = offset[1] * shape[2] + at4[2]
      /\ offset[3] = offset[2] * shape[3] + at4[3]
      /\ offset[4] = offset[3] * shape[4] + at4[4]
  <2>1. offset[0] = 0 /\ \A i \in 1..4 : offset[i] = offset[i - 1] * shape[i] + at4[i]
    BY <1>2 DEF Offsets
  <2> QED
    BY <2>1
<1>5. offset[1] = n
  BY <1>0, <1>3, <1>4
<1> QED
  BY <1>0, <1>2, <1>4, <1>5 DEF at4

(* The volumes of other short shapes.                                      *)
LEMMA ShortVolumes ==
  ASSUME NEW shape \in Seq(Int)
  PROVE  /\ Len(shape) = 0 => Volume(shape) = 1
         /\ Len(shape) = 1 => Volume(shape) = shape[1]
         /\ Len(shape) = 3 => Volume(shape) = shape[1] * shape[2] * shape[3]
<1>1. PICK volume : Volumes(shape, volume) /\ Volume(shape) = volume[Len(shape)]
  BY VolumeUnfolds
<1>2. volume[0] = 1 /\ \A i \in 1..Len(shape) : volume[i] = volume[i - 1] * shape[i]
  BY <1>1 DEF Volumes
<1>3. Len(shape) \in Nat /\ \A i \in 1..Len(shape) : shape[i] \in Int
  OBVIOUS
<1>4. Len(shape) >= 1 => volume[1] = shape[1]
  <2>1. Len(shape) >= 1 => volume[1] = volume[0] * shape[1] /\ shape[1] \in Int
    BY <1>2, <1>3
  <2> QED
    BY <1>2, <2>1
<1>5. Len(shape) = 3 => volume[2] = volume[1] * shape[2] /\ volume[3] = volume[2] * shape[3]
  BY <1>2
<1>6. Len(shape) = 3 => Volume(shape) = shape[1] * shape[2] * shape[3]
  <2> SUFFICES ASSUME Len(shape) = 3 PROVE Volume(shape) = shape[1] * shape[2] * shape[3]
    OBVIOUS
  <2>1. Volume(shape) = volume[3] /\ volume[1] = shape[1]
    BY <1>1, <1>4
  <2> QED
    BY <1>5, <2>1
<1> QED
  BY <1>1, <1>2, <1>4, <1>6

(* The coordinates of an element of a matrix.                              *)
LEMMA MatrixCoordinates ==
  ASSUME NEW y \in Seq(Int), Len(y) = 2, y[1] > 0, y[2] > 0, NEW o \in 0..(Volume(y) - 1)
  PROVE  /\ Coordinate(y, o, 1) = o \div y[2] /\ o \div y[2] \in 0..(y[1] - 1)
         /\ Coordinate(y, o, 2) = o % y[2] /\ o % y[2] \in 0..(y[2] - 1)
         /\ o = (o \div y[2]) * y[2] + (o % y[2])
<1>1. y[1] \in Nat \ {0} /\ y[2] \in Nat \ {0} /\ 1 \in DOMAIN y /\ 2 \in DOMAIN y
  <2>1. y[1] \in Int /\ y[2] \in Int /\ 1 \in DOMAIN y /\ 2 \in DOMAIN y
    BY TwoElements
  <2> QED
    BY <2>1
<1>2. Volume(y) = y[1] * y[2]
  BY MatrixVolume
<1>3. /\ o \div y[2] \in 0..(y[1] - 1) /\ o % y[2] \in 0..(y[2] - 1)
      /\ o = (o \div y[2]) * y[2] + (o % y[2])
  BY <1>1, <1>2, PartsOfOffset
<1>4. Volume(SubSeq(y, 1 + 1, Len(y))) = y[2]
  <2> DEFINE behind == SubSeq(y, 1 + 1, Len(y))
  <2>1. behind \in Seq(Int) /\ Len(behind) = 1 /\ behind[1] = y[2]
    <3>1. /\ behind \in Seq(Int) /\ Len(behind) = Len(y) - 1
          /\ \A i \in 1..(Len(y) - 1) : behind[i] = y[1 + i]
      BY <1>1, AxesBehind
    <3> HIDE DEF behind
    <3> QED
      BY <3>1
  <2> HIDE DEF behind
  <2> QED
    BY <2>1, ShortVolumes DEF behind
<1>5. Volume(SubSeq(y, 2 + 1, Len(y))) = 1
  <2> DEFINE behind == SubSeq(y, 2 + 1, Len(y))
  <2>1. behind \in Seq(Int) /\ Len(behind) = 0
    <3>1. behind \in Seq(Int) /\ Len(behind) = Len(y) - 2
      BY <1>1, AxesBehind
    <3> HIDE DEF behind
    <3> QED
      BY <3>1
  <2> HIDE DEF behind
  <2> QED
    BY <2>1, ShortVolumes DEF behind
<1>6. o \in Int /\ o \div 1 = o
  <2>1. o \in Int
    BY <1>1, <1>2
  <2> QED
    BY <2>1, DivisionUnique
<1>7. Coordinate(y, o, 1) = (o \div y[2]) % y[1] /\ Coordinate(y, o, 2) = o % y[2]
  BY <1>4, <1>5, <1>6 DEF Coordinate
<1>8. (o \div y[2]) % y[1] = o \div y[2]
  <2> DEFINE q == o \div y[2]
  <2>1. q \in 0..(y[1] - 1) /\ q = 0 * y[1] + q /\ q \in Int
    BY <1>1, <1>3
  <2> HIDE DEF q
  <2>2. q % y[1] = q
    BY <1>1, <2>1, DivisionUnique
  <2> QED
    BY <2>2 DEF q
<1> QED
  BY <1>3, <1>7, <1>8

(* The volumes of what is behind an image's axes.                          *)
LEMMA ImageBehind ==
  ASSUME NEW y \in Seq(Int), Len(y) = 4
  PROVE  /\ Volume(SubSeq(y, 1 + 1, Len(y))) = y[4] * y[3] * y[2]
         /\ Volume(SubSeq(y, 2 + 1, Len(y))) = y[4] * y[3]
         /\ Volume(SubSeq(y, 3 + 1, Len(y))) = y[4]
         /\ Volume(SubSeq(y, 4 + 1, Len(y))) = 1
<1>1. /\ 1 \in DOMAIN y /\ 2 \in DOMAIN y /\ 3 \in DOMAIN y /\ 4 \in DOMAIN y
      /\ y[1] \in Int /\ y[2] \in Int /\ y[3] \in Int /\ y[4] \in Int
  BY FourElements
<1>2. Volume(SubSeq(y, 1 + 1, Len(y))) = y[4] * y[3] * y[2]
  <2> DEFINE behind == SubSeq(y, 1 + 1, Len(y))
  <2>1. /\ behind \in Seq(Int) /\ Len(behind) = 3
        /\ behind[1] = y[2] /\ behind[2] = y[3] /\ behind[3] = y[4]
    <3>1. /\ behind \in Seq(Int) /\ Len(behind) = Len(y) - 1
          /\ \A i \in 1..(Len(y) - 1) : behind[i] = y[1 + i]
      BY <1>1, AxesBehind
    <3> HIDE DEF behind
    <3> QED
      BY <3>1
  <2> HIDE DEF behind
  <2>2. Volume(behind) = y[2] * y[3] * y[4]
    BY <2>1, ShortVolumes
  <2> QED
    BY <1>1, <2>2 DEF behind
<1>3. Volume(SubSeq(y, 2 + 1, Len(y))) = y[4] * y[3]
  <2> DEFINE behind == SubSeq(y, 2 + 1, Len(y))
  <2>1. behind \in Seq(Int) /\ Len(behind) = 2 /\ behind[1] = y[3] /\ behind[2] = y[4]
    <3>1. /\ behind \in Seq(Int) /\ Len(behind) = Len(y) - 2
          /\ \A i \in 1..(Len(y) - 2) : behind[i] = y[2 + i]
      BY <1>1, AxesBehind
    <3> HIDE DEF behind
    <3> QED
      BY <3>1
  <2> HIDE DEF behind
  <2>2. Volume(behind) = y[3] * y[4]
    BY <2>1, MatrixVolume
  <2> QED
    BY <1>1, <2>2 DEF behind
<1>4. Volume(SubSeq(y, 3 + 1, Len(y))) = y[4]
  <2> DEFINE behind == SubSeq(y, 3 + 1, Len(y))
  <2>1. behind \in Seq(Int) /\ Len(behind) = 1 /\ behind[1] = y[4]
    <3>1. /\ behind \in Seq(Int) /\ Len(behind) = Len(y) - 3
          /\ \A i \in 1..(Len(y) - 3) : behind[i] = y[3 + i]
      BY <1>1, AxesBehind
    <3> HIDE DEF behind
    <3> QED
      BY <3>1
  <2> HIDE DEF behind
  <2> QED
    BY <2>1, ShortVolumes DEF behind
<1>5. Volume(SubSeq(y, 4 + 1, Len(y))) = 1
  <2> DEFINE behind == SubSeq(y, 4 + 1, Len(y))
  <2>1. behind \in Seq(Int) /\ Len(behind) = 0
    <3>1. behind \in Seq(Int) /\ Len(behind) = Len(y) - 4
      BY <1>1, AxesBehind
    <3> HIDE DEF behind
    <3> QED
      BY <3>1
  <2> HIDE DEF behind
  <2> QED
    BY <2>1, ShortVolumes DEF behind
<1> QED
  BY <1>2, <1>3, <1>4, <1>5

(* The coordinates of an element of an image.                              *)
LEMMA ImageCoordinates ==
  ASSUME NEW y \in Seq(Int), Len(y) = 4, y[1] > 0, y[2] > 0, y[3] > 0, y[4] > 0,
         NEW o \in 0..(Volume(y) - 1)
  PROVE  /\ Coordinate(y, o, 1) = o \div (y[4] * y[3] * y[2])
         /\ Coordinate(y, o, 1) \in 0..(y[1] - 1)
         /\ Coordinate(y, o, 2) = (o \div (y[4] * y[3])) % y[2]
         /\ Coordinate(y, o, 2) \in 0..(y[2] - 1)
         /\ Coordinate(y, o, 3) = (o \div y[4]) % y[3] /\ Coordinate(y, o, 3) \in 0..(y[3] - 1)
         /\ Coordinate(y, o, 4) = o % y[4] /\ Coordinate(y, o, 4) \in 0..(y[4] - 1)
<1>1. y[1] \in Nat \ {0} /\ y[2] \in Nat \ {0} /\ y[3] \in Nat \ {0} /\ y[4] \in Nat \ {0}
  <2>1. y[1] \in Int /\ y[2] \in Int /\ y[3] \in Int /\ y[4] \in Int
    BY FourElements
  <2> QED
    BY <2>1
<1> DEFINE p == y[4] * y[3]
           q == p * y[2]
<1>2. p \in Nat \ {0} /\ q \in Nat \ {0}
  <2>1. p \in Nat \ {0}
    BY <1>1, ProductBound
  <2> HIDE DEF p
  <2> QED
    BY <1>1, <2>1, ProductBound
<1>3. Volume(y) = y[1] * q /\ o \in Int
  <2>1. Volume(y) = y[1] * y[2] * y[3] * y[4]
    BY ImageVolume
  <2>2. Volume(y) = y[1] * q
    BY <1>1, <2>1
  <2> HIDE DEF q
  <2> QED
    BY <1>1, <1>2, <2>2
<1>4. /\ Coordinate(y, o, 1) = (o \div q) % y[1] /\ Coordinate(y, o, 2) = (o \div p) % y[2]
      /\ Coordinate(y, o, 3) = (o \div y[4]) % y[3] /\ Coordinate(y, o, 4) = o % y[4]
  <2>1. o \div 1 = o
    BY <1>3, DivisionUnique
  <2> QED
    BY <2>1, ImageBehind, Zenon DEF Coordinate
<1> HIDE DEF p, q
<1>5. o \div q \in 0..(y[1] - 1)
  BY <1>1, <1>2, <1>3, PartsOfOffset
<1>6. (o \div q) % y[1] = o \div q
  <2> DEFINE b == o \div q
  <2>1. b \in 0..(y[1] - 1) /\ b = 0 * y[1] + b /\ b \in Int
    BY <1>1, <1>5
  <2> HIDE DEF b
  <2>2. b % y[1] = b
    BY <1>1, <2>1, DivisionUnique
  <2> QED
    BY <2>2 DEF b
<1>7. (o \div p) % y[2] \in 0..(y[2] - 1)
  <2>1. o \div p \in Int
    BY <1>2, <1>3, Divides
  <2> QED
    BY <1>1, <2>1, Divides
<1>8. (o \div y[4]) % y[3] \in 0..(y[3] - 1)
  <2>1. o \div y[4] \in Int
    BY <1>1, <1>3, Divides
  <2> QED
    BY <1>1, <2>1, Divides
<1>9. o % y[4] \in 0..(y[4] - 1)
  BY <1>1, <1>3, Divides
<1> QED
  BY <1>4, <1>5, <1>6, <1>7, <1>8, <1>9 DEF p, q

(* Offsets inside an image are offsets of its elements.                    *)
LEMMA OffsetInside ==
  ASSUME NEW shape \in Seq(Int), Len(shape) = 4, NEW n \in 0..(shape[1] - 1),
         NEW c \in 0..(shape[2] - 1), NEW h \in 0..(shape[3] - 1), NEW w \in 0..(shape[4] - 1)
  PROVE  ((n * shape[2] + c) * shape[3] + h) * shape[4] + w \in 0..(Volume(shape) - 1)
<1> DEFINE i == n * shape[2] + c
           j == i * shape[3] + h
           m == shape[1] * shape[2]
           l == m * shape[3]
<1>1. shape[1] \in Int /\ shape[2] \in Int /\ shape[3] \in Int /\ shape[4] \in Int
  BY FourElements
<1>2. /\ shape[1] \in Nat \ {0} /\ shape[2] \in Nat \ {0}
      /\ shape[3] \in Nat \ {0} /\ shape[4] \in Nat \ {0}
  BY <1>1
<1>3. Volume(shape) = l * shape[4]
  BY ImageVolume
<1>4. i \in 0..(m - 1) /\ m \in Nat
  <2>1. shape[1] \in Nat /\ shape[2] \in Nat \ {0}
    BY <1>2
  <2> QED
    BY <2>1, PartsInside
<1> HIDE DEF i, m
<1>5. j \in 0..(l - 1) /\ l \in Nat
  BY <1>2, <1>4, PartsInside
<1> HIDE DEF j, l
<1>6. j * shape[4] + w \in 0..(l * shape[4] - 1)
  BY <1>2, <1>5, PartsInside
<1> QED
  BY <1>3, <1>6 DEF i, j

(* 32 bits keep every integer that fits them, negative or not.             *)
LEMMA Int32Keeps ==
  ASSUME NEW value \in (-(Int32Max + 1))..Int32Max
  PROVE  Int32(value) = value
<1>1. Int32Max \in Nat \ {0}
  BY KernelAssumption
<1>2. (value + Int32Max + 1) % (2 * (Int32Max + 1)) = value + Int32Max + 1
  <2>1. /\ value + Int32Max + 1 \in Int /\ 2 * (Int32Max + 1) \in Nat \ {0}
        /\ value + Int32Max + 1 \in 0..(2 * (Int32Max + 1) - 1)
        /\ value + Int32Max + 1 = 0 * (2 * (Int32Max + 1)) + (value + Int32Max + 1)
    BY <1>1
  <2> QED
    BY <2>1, DivisionUnique
<1> QED
  BY <1>1, <1>2 DEF Int32

(* A quotient towards zero that is not negative hardly exceeds.            *)
LEMMA QuotientCovers ==
  ASSUME NEW t \in Int, NEW s \in Nat \ {0}, Quotient(t, s) >= 0
  PROVE  Quotient(t, s) \in Nat /\ Quotient(t, s) * s < t + s
<1>1. CASE t >= 0
  <2>1. Quotient(t, s) = t \div s
    BY <1>1 DEF Quotient
  <2>2. t \div s \in Int /\ (t \div s) * s <= t
    BY Divides
  <2> QED
    BY <1>1, <2>1, <2>2
<1>2. CASE t < 0
  <2> DEFINE q == (-t) \div s
  <2>1. Quotient(t, s) = -q
    BY <1>2 DEF Quotient
  <2>2. q \in Int /\ -t < q * s + s /\ q >= 0
    <3>1. -t \in Int /\ -t >= 0
      BY <1>2
    <3> QED
      BY <3>1, Divides
  <2> HIDE DEF q
  <2>3. q = 0 /\ Quotient(t, s) = 0
    BY <2>1, <2>2
  <2> QED
    BY <2>2, <2>3
<1> QED
  BY <1>1, <1>2

(* The positions along an axis that windows cover fit 32 bits, if what is  *)
(* around the image does.                                                  *)
LEMMA PositionFits ==
  ASSUME NEW x \in Int, NEW begin \in Int, NEW end \in Int, NEW s \in Nat \ {0}, NEW d \in Nat,
         NEW size \in Int, NEW out \in Int,
         out = Quotient(x + begin + end - (d * (size - 1) + 1), s) + 1,
         begin <= Int32Max, x + end + s <= Int32Max,
         NEW o \in 0..(out - 1), NEW k \in 0..(size - 1)
  PROVE  o * s - begin + k * d \in (-(Int32Max + 1))..Int32Max
<1> DEFINE e == d * (size - 1)
           t == x + begin + end - (e + 1)
           q == Quotient(t, s)
<1>1. Int32Max \in Nat \ {0}
  BY KernelAssumption
<1>2. e \in Int /\ t \in Int
  OBVIOUS
<1>3. out = q + 1
  OBVIOUS
<1> HIDE DEF t
<1>4. q \in Nat /\ q * s < t + s
  <2>1. q \in Int /\ q >= 0
    <3>1. t >= 0 => t \div s \in Int
      BY <1>2, Divides
    <3>2. (-t) \div s \in Int
      BY <1>2, Divides
    <3>3. q \in Int
      BY <1>2, <3>1, <3>2 DEF Quotient
    <3> HIDE DEF q
    <3> QED
      BY <1>3, <3>3
  <2> QED
    BY <1>2, <2>1, QuotientCovers
<1> HIDE DEF q
<1>5. o \in Nat /\ o <= q /\ k \in Nat /\ k <= size - 1
  BY <1>3, <1>4
<1>6. o * s <= q * s /\ o * s \in Nat /\ q * s \in Nat
  BY <1>4, <1>5, ProductGrows
<1>7. k * d <= (size - 1) * d /\ k * d \in Nat /\ (size - 1) * d \in Nat
  <2>1. size - 1 \in Nat
    BY <1>5
  <2> QED
    BY <1>5, <2>1, ProductGrows
<1>8. (size - 1) * d = e
  OBVIOUS
<1> HIDE DEF e
<1>9. t = x + begin + end - (e + 1)
  BY DEF t
<1> QED
  BY <1>1, <1>2, <1>4, <1>6, <1>7, <1>8, <1>9

(* The place along an axis that a window reads at.                         *)
Place(node, strides, axis, o, k) ==
  o * strides[axis] - Pads(node)[axis] + k * Dilations(node)[axis]

(* What a kernel was passed of a window.                                   *)
WindowPassed(a, node, strides, x) ==
  /\ a.h = x[3] /\ a.w = x[4] /\ a.stride_h = strides[1] /\ a.stride_w = strides[2]
  /\ a.pad_h = Pads(node)[1] /\ a.pad_w = Pads(node)[2]
  /\ a.dilation_h = Dilations(node)[1] /\ a.dilation_w = Dilations(node)[2]

(* The positions covered inside an image.                                  *)
CoveredInside(node, strides, x, y, o, size) ==
  {p \in Covered(node, strides, y, o, size) : p[1] \in 0..(x[3] - 1) /\ p[2] \in 0..(x[4] - 1)}

(* They are where a kernel's window reads.                                 *)
LEMMA WindowReadsAre ==
  ASSUME NEW node, NEW strides, NEW a, NEW x, NEW y, NEW o, NEW size,
         WindowPassed(a, node, strides, x),
         \A k \in 0..(size[1] - 1) :
           Int32(Place(node, strides, 1, Coordinate(y, o, 3), k))
             = Place(node, strides, 1, Coordinate(y, o, 3), k),
         \A k \in 0..(size[2] - 1) :
           Int32(Place(node, strides, 2, Coordinate(y, o, 4), k))
             = Place(node, strides, 2, Coordinate(y, o, 4), k)
  PROVE  WindowReads(Coordinate(y, o, 3), Coordinate(y, o, 4), size[1], size[2], a)
           = CoveredInside(node, strides, x, y, o, size)
<1> DEFINE h(k) == Place(node, strides, 1, Coordinate(y, o, 3), k)
           w(k) == Place(node, strides, 2, Coordinate(y, o, 4), k)
           S == {<<Int32(h(kh)), Int32(w(kw)), kh, kw>> : kh \in 0..(size[1] - 1),
                                                          kw \in 0..(size[2] - 1)}
           T == {<<h(kh), w(kw), kh, kw>> : kh \in 0..(size[1] - 1), kw \in 0..(size[2] - 1)}
<1>1. WindowReads(Coordinate(y, o, 3), Coordinate(y, o, 4), size[1], size[2], a)
        = {p \in S : p[1] \in 0..(x[3] - 1) /\ p[2] \in 0..(x[4] - 1)}
  BY DEF WindowReads, WindowPassed, Place
<1>2. Covered(node, strides, y, o, size) = T
  BY DEF Covered, Place
<1>3. S = T
  <2> HIDE DEF h, w
  <2>1. /\ \A k \in 0..(size[1] - 1) : Int32(h(k)) = h(k)
        /\ \A k \in 0..(size[2] - 1) : Int32(w(k)) = w(k)
    BY Zenon DEF h, w
  <2>2. S \subseteq T
    BY <2>1
  <2>3. T \subseteq S
    BY <2>1
  <2> QED
    BY <2>2, <2>3
<1> HIDE DEF S, T
<1> QED
  BY <1>1, <1>2, <1>3 DEF CoveredInside

(* The offsets of those positions in the channels of the n-th image.       *)
WindowOffsets(x, n, channels, places) ==
  {((n * x[2] + c) * x[3] + p[1]) * x[4] + p[2] : c \in channels, p \in places}

(* What a window's operands are, and that they are inside the image.       *)
LEMMA WindowOperandsAre ==
  ASSUME NEW node, NEW strides, NEW x \in Seq(Int), Len(x) = 4, NEW y, NEW o, NEW size,
         NEW channels, channels \subseteq 0..(x[2] - 1), Coordinate(y, o, 1) \in 0..(x[1] - 1)
  PROVE  LET offsets == WindowOffsets(x, Coordinate(y, o, 1), channels,
                                      CoveredInside(node, strides, x, y, o, size))
         IN  /\ WindowOperands(node, strides, x, y, o, size, channels) = From(1, offsets)
             /\ offsets \subseteq 0..(Volume(x) - 1)
<1> DEFINE n == Coordinate(y, o, 1)
           C == Covered(node, strides, y, o, size)
           inside == CoveredInside(node, strides, x, y, o, size)
           offset(c, p) == ((n * x[2] + c) * x[3] + p[1]) * x[4] + p[2]
           D == {d \in {<<n, c, p[1], p[2]>> : c \in channels, p \in C} : Inside(x, d)}
<1>1. /\ n \in 0..(x[1] - 1) /\ n \in Int /\ DOMAIN x = 1..4
      /\ x[1] \in Int /\ x[2] \in Int /\ x[3] \in Int /\ x[4] \in Int
  BY FourElements
<1>2. inside = {p \in C : p[1] \in 0..(x[3] - 1) /\ p[2] \in 0..(x[4] - 1)}
  BY DEF CoveredInside
<1>3. WindowOperands(node, strides, x, y, o, size, channels) = From(1, {Offset(x, d) : d \in D})
  BY DEF WindowOperands
<1> HIDE DEF n, C, inside, D
<1>4. ASSUME NEW c \in channels, NEW p \in inside
      PROVE  /\ c \in 0..(x[2] - 1) /\ p \in C
             /\ p[1] \in 0..(x[3] - 1) /\ p[2] \in 0..(x[4] - 1)
             /\ c \in Int /\ p[1] \in Int /\ p[2] \in Int
  <2>1. c \in 0..(x[2] - 1) /\ p \in C /\ p[1] \in 0..(x[3] - 1) /\ p[2] \in 0..(x[4] - 1)
    BY <1>2
  <2> QED
    BY <1>1, <2>1
<1>5. ASSUME NEW c \in channels, NEW p \in inside PROVE offset(c, p) \in 0..(Volume(x) - 1)
  BY <1>1, <1>4, OffsetInside
<1>6. ASSUME NEW c \in channels, NEW p \in inside
      PROVE  <<n, c, p[1], p[2]>> \in D /\ Offset(x, <<n, c, p[1], p[2]>>) = offset(c, p)
  <2> DEFINE d == <<n, c, p[1], p[2]>>
  <2>1. d[1] = n /\ d[2] = c /\ d[3] = p[1] /\ d[4] = p[2]
    OBVIOUS
  <2>2. d \in {<<n, k, q[1], q[2]>> : k \in channels, q \in C}
    BY <1>4
  <2>3. Inside(x, d)
    <3> HIDE DEF d
    <3>1. d[1] \in 0..(x[1] - 1) /\ d[2] \in 0..(x[2] - 1)
          /\ d[3] \in 0..(x[3] - 1) /\ d[4] \in 0..(x[4] - 1)
      BY <1>1, <1>4, <2>1
    <3>2. \A axis \in 1..4 : axis = 1 \/ axis = 2 \/ axis = 3 \/ axis = 4
      OBVIOUS
    <3> QED
      BY <1>1, <3>1, <3>2, Zenon DEF Inside
  <2>4. Offset(x, d) = offset(c, p)
    <3> DEFINE h == p[1]
               w == p[2]
    <3>1. c \in Int /\ h \in Int /\ w \in Int /\ n \in Int
      BY <1>1, <1>4
    <3> HIDE DEF h, w
    <3>2. Offset(x, <<n, c, h, w>>) = ((n * x[2] + c) * x[3] + h) * x[4] + w
      BY <3>1, ImageOffset
    <3> QED
      BY <3>2 DEF h, w
  <2> HIDE DEF d
  <2> QED
    BY <2>2, <2>3, <2>4 DEF D, d
<1>7. ASSUME NEW d \in D
      PROVE  \E c \in channels : \E p \in inside : Offset(x, d) = offset(c, p)
  <2>1. PICK c \in channels, p \in C : d = <<n, c, p[1], p[2]>>
    BY DEF D
  <2>2. \A axis \in 1..4 : d[axis] \in 0..(x[axis] - 1)
    <3>1. Inside(x, d)
      BY DEF D
    <3> QED
      BY <1>1, <3>1, Zenon DEF Inside
  <2>3. d[3] = p[1] /\ d[4] = p[2] /\ 3 \in 1..4 /\ 4 \in 1..4
    BY <2>1
  <2>4. p \in inside
    BY <1>2, <2>2, <2>3, Zenon
  <2> QED
    BY <1>6, <2>1, <2>4
<1> DEFINE Named == {Offset(x, d) : d \in D}
           Read == {offset(c, p) : c \in channels, p \in inside}
<1>8. Named = Read
  <2> HIDE DEF offset
  <2>1. Named \subseteq Read
    BY <1>7
  <2>2. ASSUME NEW z \in Read PROVE z \in Named
    <3>1. PICK c \in channels, p \in inside : z = offset(c, p)
      OBVIOUS
    <3> DEFINE d == <<n, c, p[1], p[2]>>
    <3>2. d \in D /\ Offset(x, d) = offset(c, p)
      BY <1>6
    <3> HIDE DEF d
    <3> QED
      BY <3>1, <3>2
  <2> HIDE DEF Named, Read
  <2> QED
    BY <2>1, <2>2
<1>9. Read = WindowOffsets(x, n, channels, inside)
  BY DEF WindowOffsets
<1>10. Read \subseteq 0..(Volume(x) - 1)
  <2> HIDE DEF offset
  <2> SUFFICES ASSUME NEW z \in Read PROVE z \in 0..(Volume(x) - 1)
    OBVIOUS
  <2>1. PICK c \in channels, p \in inside : z = offset(c, p)
    OBVIOUS
  <2> QED
    BY <1>5, <2>1
<1>11. WindowOperands(node, strides, x, y, o, size, channels) = From(1, Read)
  <2> HIDE DEF Read
  <2> QED
    BY <1>3, <1>8
<1> HIDE DEF Read
<1> QED
  BY <1>9, <1>10, <1>11, Zenon DEF n, inside

(* What 32 bits leave of the offsets a convolution reads a filter of       *)
(* l * m * n weights at.                                                   *)
FilterReads(channel, l, m, n) ==
  {Int32(((channel * l + c) * m + h) * n + v) :
     c \in 0..(l - 1), h \in 0..(m - 1), v \in 0..(n - 1)}

(* They are the operands.                                                  *)
LEMMA FilterReadsAre ==
  ASSUME NEW w \in Seq(Int), Len(w) = 4, Volume(w) <= Int32Max, NEW channel \in 0..(w[1] - 1)
  PROVE  /\ FilterReads(channel, w[2], w[3], w[4]) = FilterOffsets(w, channel)
         /\ FilterOffsets(w, channel) \subseteq 0..(Volume(w) - 1)
<1> DEFINE offset(c, h, v) == ((channel * w[2] + c) * w[3] + h) * w[4] + v
           Read == {Int32(offset(c, h, v)) :
                      c \in 0..(w[2] - 1), h \in 0..(w[3] - 1), v \in 0..(w[4] - 1)}
<1>1. channel \in Int /\ w[1] \in Int /\ w[2] \in Int /\ w[3] \in Int /\ w[4] \in Int
  BY FourElements
<1>2. Volume(w) \in Int /\ Int32Max \in Nat
  <2>1. Volume(w) = w[1] * w[2] * w[3] * w[4]
    BY ImageVolume
  <2> QED
    BY <1>1, <2>1, KernelAssumption
<1>3. ASSUME NEW c \in 0..(w[2] - 1), NEW h \in 0..(w[3] - 1), NEW v \in 0..(w[4] - 1)
      PROVE  /\ Offset(w, <<channel, c, h, v>>) = offset(c, h, v)
             /\ Int32(offset(c, h, v)) = offset(c, h, v) /\ offset(c, h, v) \in 0..(Volume(w) - 1)
  <2>1. c \in Int /\ h \in Int /\ v \in Int
    BY <1>1
  <2>2. Offset(w, <<channel, c, h, v>>) = offset(c, h, v)
    BY <1>1, <2>1, ImageOffset
  <2>3. offset(c, h, v) \in 0..(Volume(w) - 1)
    BY OffsetInside
  <2> HIDE DEF offset
  <2>4. offset(c, h, v) \in 0..Int32Max
    BY <1>2, <2>3
  <2> QED
    BY <2>2, <2>3, <2>4, Int32Fits
<1> HIDE DEF offset
<1>4. Read \subseteq FilterOffsets(w, channel)
  BY <1>3 DEF FilterOffsets
<1>5. ASSUME NEW z \in FilterOffsets(w, channel) PROVE z \in Read /\ z \in 0..(Volume(w) - 1)
  <2> DEFINE C == 0..(w[2] - 1)
             H == 0..(w[3] - 1)
             V == 0..(w[4] - 1)
             named(c, h, v) == Offset(w, <<channel, c, h, v>>)
  <2>1. FilterOffsets(w, channel) = {named(c, h, v) : c \in C, h \in H, v \in V}
    BY DEF FilterOffsets
  <2>2. \E c \in C, h \in H, v \in V : z = named(c, h, v)
    <3> HIDE DEF C, H, V, named
    <3> QED
      BY <2>1
  <2>3. PICK c \in C, h \in H, v \in V : z = named(c, h, v)
    BY <2>2
  <2>4. z = Int32(offset(c, h, v)) /\ z \in 0..(Volume(w) - 1)
    BY <1>3, <2>3
  <2> QED
    BY <2>4
<1>6. Read = FilterOffsets(w, channel)
  <2> HIDE DEF Read
  <2> QED
    BY <1>4, <1>5
<1>7. Read = FilterReads(channel, w[2], w[3], w[4])
  BY DEF FilterReads, offset
<1> HIDE DEF Read
<1> QED
  BY <1>5, <1>6, <1>7

(* What 32 bits leave of the offsets a window reads the n-th of images of  *)
(* l * m * k elements at.                                                  *)
ImageReads(n, l, m, k, channels, places) ==
  {Int32(((n * l + c) * m + p[1]) * k + p[2]) : c \in channels, p \in places}

(* They are those offsets.                                                 *)
LEMMA WindowOffsetsFit ==
  ASSUME NEW x, NEW n, NEW channels, NEW places, Volume(x) <= Int32Max, Volume(x) \in Int,
         WindowOffsets(x, n, channels, places) \subseteq 0..(Volume(x) - 1)
  PROVE  ImageReads(n, x[2], x[3], x[4], channels, places) = WindowOffsets(x, n, channels, places)
<1> DEFINE offset(c, p) == ((n * x[2] + c) * x[3] + p[1]) * x[4] + p[2]
           Read == {Int32(offset(c, p)) : c \in channels, p \in places}
<1>1. Int32Max \in Nat
  BY KernelAssumption
<1>2. WindowOffsets(x, n, channels, places) = {offset(c, p) : c \in channels, p \in places}
  BY DEF WindowOffsets
<1> HIDE DEF offset
<1>3. ASSUME NEW c \in channels, NEW p \in places
      PROVE  /\ Int32(offset(c, p)) = offset(c, p)
             /\ offset(c, p) \in WindowOffsets(x, n, channels, places)
  <2>1. offset(c, p) \in WindowOffsets(x, n, channels, places)
    BY <1>2
  <2>2. offset(c, p) \in 0..Int32Max
    BY <1>1, <2>1
  <2> QED
    BY <2>1, <2>2, Int32Fits
<1>4. Read \subseteq WindowOffsets(x, n, channels, places)
  BY <1>3
<1>5. ASSUME NEW z \in WindowOffsets(x, n, channels, places) PROVE z \in Read
  <2>1. PICK c \in channels, p \in places : z = offset(c, p)
    BY <1>2
  <2> QED
    BY <1>3, <2>1
<1>6. Read = WindowOffsets(x, n, channels, places)
  <2> HIDE DEF Read
  <2> QED
    BY <1>4, <1>5
<1>7. Read = ImageReads(n, x[2], x[3], x[4], channels, places)
  BY DEF ImageReads, offset
<1> QED
  BY <1>6, <1>7

(* The coordinates a kernel of windows takes an offset apart into.         *)
LEMMA KernelCoordinates ==
  ASSUME NEW a, NEW y \in Seq(Int), Len(y) = 4, y[1] > 0, y[2] > 0, y[3] > 0, y[4] > 0,
         a.out_h = y[3], a.out_w = y[4], NEW o \in 0..(Volume(y) - 1)
  PROVE  /\ o % a.out_w = Coordinate(y, o, 4)
         /\ (o \div a.out_w) % a.out_h = Coordinate(y, o, 3)
         /\ (o \div (a.out_w * a.out_h)) % y[2] = Coordinate(y, o, 2)
         /\ o \div (a.out_w * a.out_h * y[2]) = Coordinate(y, o, 1)
         /\ o \div (a.out_w * a.out_h) = Coordinate(y, o, 1) * y[2] + Coordinate(y, o, 2)
<1>1. /\ Coordinate(y, o, 1) = o \div (y[4] * y[3] * y[2])
      /\ Coordinate(y, o, 2) = (o \div (y[4] * y[3])) % y[2]
      /\ Coordinate(y, o, 3) = (o \div y[4]) % y[3]
      /\ Coordinate(y, o, 4) = o % y[4]
  BY ImageCoordinates
<1>2. /\ o % a.out_w = Coordinate(y, o, 4)
      /\ (o \div a.out_w) % a.out_h = Coordinate(y, o, 3)
      /\ (o \div (a.out_w * a.out_h)) % y[2] = Coordinate(y, o, 2)
      /\ o \div (a.out_w * a.out_h * y[2]) = Coordinate(y, o, 1)
  BY <1>1, Zenon
<1> DEFINE p == y[4] * y[3]
           i == o \div p
<1>3. /\ y[1] \in Nat \ {0} /\ y[2] \in Nat \ {0} /\ p \in Nat \ {0} /\ o \in Int
  <2>1. y[1] \in Int /\ y[2] \in Int /\ y[3] \in Int /\ y[4] \in Int
    BY FourElements
  <2>2. y[1] \in Nat \ {0} /\ y[2] \in Nat \ {0} /\ y[3] \in Nat \ {0} /\ y[4] \in Nat \ {0}
    BY <2>1
  <2>3. Volume(y) = y[1] * y[2] * y[3] * y[4]
    BY ImageVolume
  <2>4. Volume(y) \in Int
    BY <2>1, <2>3
  <2>5. p \in Nat \ {0}
    BY <2>2, ProductBound
  <2> QED
    BY <2>2, <2>4, <2>5
<1>4. Coordinate(y, o, 1) = o \div (p * y[2]) /\ Coordinate(y, o, 2) = i % y[2]
  BY <1>1
<1>5. o \div (a.out_w * a.out_h) = i
  OBVIOUS
<1> HIDE DEF p
<1>6. /\ i \in Int /\ o % p \in 0..(p - 1) /\ o = i * p + (o % p)
      /\ i \div y[2] \in Int /\ i % y[2] \in 0..(y[2] - 1)
      /\ i = (i \div y[2]) * y[2] + (i % y[2])
  BY <1>3, Divides
<1> HIDE DEF i
<1>7. o \div (p * y[2]) = i \div y[2]
  BY <1>3, NestedDivision DEF i
<1>8. i = Coordinate(y, o, 1) * y[2] + Coordinate(y, o, 2)
  BY <1>4, <1>6, <1>7
<1> QED
  BY <1>2, <1>5, <1>8

(* What a convolution is computed from.                                    *)
ConvOperands(node, x, w, y, o) ==
  WindowOperands(node, Strides(node), x, y, o, <<w[3], w[4]>>, 0..(w[2] - 1))
  \cup From(2, FilterOffsets(w, Coordinate(y, o, 2)))

(* The extents around an image that windows over it stay within, in 32     *)
(* bits.                                                                   *)
WindowsFit(node, strides, x) ==
  \A axis \in 1..2 :
    /\ strides[axis] <= Int32Max /\ Pads(node)[axis] \in (-Int32Max)..Int32Max
    /\ Dilations(node)[axis] \in 0..Int32Max
    /\ x[axis + 2] + Pads(node)[axis + 2] + strides[axis] <= Int32Max

(* Every place a window reads at fits them then.                           *)
LEMMA PlacesFit ==
  ASSUME NEW node, NEW strides, NEW x, NEW axis \in 1..2, NEW n \in Int, n = x[axis + 2],
         NEW size \in Int, NEW out \in Int,
         Windowed(node, strides), WindowsFit(node, strides, x),
         out = Windows(node, strides, n, size, axis),
         NEW o \in 0..(out - 1), NEW k \in 0..(size - 1)
  PROVE  Int32(Place(node, strides, axis, o, k)) = Place(node, strides, axis, o, k)
<1> DEFINE s == strides[axis]
           begin == Pads(node)[axis]
           end == Pads(node)[axis + 2]
           d == Dilations(node)[axis]
<1>0. axis = 1 \/ axis = 2
  OBVIOUS
<1>1. s \in Nat \ {0} /\ begin \in Int /\ end \in Int /\ n \in Int
  <2>1. strides[1] \in Nat \ {0} /\ strides[2] \in Nat \ {0}
    BY TwoElements DEF Windowed
  <2>2. \A i \in 1..4 : Pads(node)[i] \in Int
    BY FourElements DEF Windowed
  <2> QED
    BY <1>0, <2>1, <2>2
<1>2. Int32Max \in Nat
  BY KernelAssumption
<1>3. begin <= Int32Max /\ d \in Nat /\ n + end + s <= Int32Max
  BY <1>2 DEF WindowsFit
<1>4. out = Quotient(n + begin + end - (d * (size - 1) + 1), s) + 1
  BY DEF Windows
<1> HIDE DEF s, begin, end, d
<1>5. o * s - begin + k * d \in (-(Int32Max + 1))..Int32Max
  BY <1>1, <1>3, <1>4, PositionFits
<1>6. Place(node, strides, axis, o, k) = o * s - begin + k * d
  BY DEF Place, s, begin, d
<1> QED
  BY <1>5, <1>6, Int32Keeps

(* What is read of tensors inside them.                                    *)
LEMMA FromWithin ==
  ASSUME NEW k, NEW A, NEW B, A \subseteq B
  PROVE  From(k, A) \subseteq From(k, B)
BY DEF From

(* A convolution reads its operands, inside the image and the filters.     *)
LEMMA ConvReadsAre ==
  ASSUME NEW node, TypedNode(node), NEW x \in Desc, NEW w \in Desc,
         NEW r \in InferConvLike(node, x, w), NEW a,
         WindowPassed(a, node, Strides(node), x.shape), a.c = x.shape[2], a.k = w.shape[1],
         a.r = w.shape[3], a.s = w.shape[4], a.out_h = r.shape[3], a.out_w = r.shape[4],
         WindowsFit(node, Strides(node), x.shape), w.shape[2] = x.shape[2],
         Volume(x.shape) <= Int32Max, Volume(w.shape) <= Int32Max,
         NEW o \in 0..(Volume(r.shape) - 1)
  PROVE  /\ ConvReads(o, a) = ConvOperands(node, x.shape, w.shape, r.shape, o)
         /\ ConvReads(o, a) \subseteq From(1, 0..(Volume(x.shape) - 1))
                                      \cup From(2, 0..(Volume(w.shape) - 1))
         /\ Coordinate(r.shape, o, 2) \in 0..(r.shape[2] - 1)
<1> DEFINE strides == Strides(node)
           y == r.shape
           X == x.shape
           W == w.shape
           n == Coordinate(y, o, 1)
           channel == Coordinate(y, o, 2)
           size == <<W[3], W[4]>>
           channels == 0..(X[2] - 1)
           inside == CoveredInside(node, strides, X, y, o, size)
           offsets == WindowOffsets(X, n, channels, inside)
<1>1. /\ Valid(r) /\ Len(X) = 4 /\ Len(W) = 4 /\ Windowed(node, strides)
      /\ Len(y) = 4 /\ y[1] = X[1] /\ y[2] = W[1] /\ y \in Seq(Int)
      /\ \A axis \in 1..2 :
           y[axis + 2] = Windows(node, strides, X[axis + 2], W[axis + 2], axis)
  <2>1. r \in Desc
    BY InferredConv
  <2>2. y \in Seq(Int)
    BY <2>1 DEF Desc
  <2> QED
    BY <2>2, InferredConv
<1>2. X \in Seq(Int) /\ W \in Seq(Int)
  BY DEF Desc
<1>3. y[1] > 0 /\ y[2] > 0 /\ y[3] > 0 /\ y[4] > 0
  <2>1. \A i \in DOMAIN y : y[i] > 0
    BY <1>1 DEF Valid
  <2> QED
    BY <1>1, <2>1, FourElements
<1>4. /\ WindowPassed(a, node, strides, X) /\ a.c = X[2] /\ a.k = W[1]
      /\ a.r = W[3] /\ a.s = W[4] /\ a.out_h = y[3] /\ a.out_w = y[4] /\ a.k = y[2]
      /\ WindowsFit(node, strides, X) /\ W[2] = X[2]
      /\ Volume(X) <= Int32Max /\ Volume(W) <= Int32Max /\ o \in 0..(Volume(y) - 1)
  BY <1>1
<1> HIDE DEF strides, y, X, W
<1>5. /\ n \in 0..(y[1] - 1) /\ channel \in 0..(y[2] - 1)
      /\ Coordinate(y, o, 3) \in 0..(y[3] - 1) /\ Coordinate(y, o, 4) \in 0..(y[4] - 1)
  BY <1>1, <1>3, <1>4, ImageCoordinates
<1>6. /\ o % a.out_w = Coordinate(y, o, 4)
      /\ (o \div a.out_w) % a.out_h = Coordinate(y, o, 3)
      /\ (o \div (a.out_w * a.out_h)) % a.k = channel
      /\ o \div (a.out_w * a.out_h * a.k) = n
  BY <1>1, <1>3, <1>4, KernelCoordinates
<1>7. WindowReads(Coordinate(y, o, 3), Coordinate(y, o, 4), a.r, a.s, a) = inside
  <2>1. /\ X[3] \in Int /\ X[4] \in Int /\ W[3] \in Int /\ W[4] \in Int
        /\ y[3] \in Int /\ y[4] \in Int
    BY <1>1, <1>2, FourElements
  <2>2. 1 \in 1..2 /\ 2 \in 1..2 /\ 1 + 2 = 3 /\ 2 + 2 = 4
    OBVIOUS
  <2>3. /\ y[3] = Windows(node, strides, X[3], W[3], 1)
        /\ y[4] = Windows(node, strides, X[4], W[4], 2)
    BY <1>1, <2>2
  <2>4. ASSUME NEW k \in 0..(W[3] - 1)
        PROVE  Int32(Place(node, strides, 1, Coordinate(y, o, 3), k))
                 = Place(node, strides, 1, Coordinate(y, o, 3), k)
    <3> DEFINE place == Coordinate(y, o, 3)
    <3>1. /\ X[3] \in Int /\ X[3] = X[1 + 2] /\ W[3] \in Int /\ y[3] \in Int
          /\ y[3] = Windows(node, strides, X[3], W[3], 1) /\ place \in 0..(y[3] - 1)
          /\ Windowed(node, strides) /\ WindowsFit(node, strides, X) /\ 1 \in 1..2
      BY <1>1, <1>4, <1>5, <2>1, <2>3
    <3> HIDE DEF place
    <3>2. Int32(Place(node, strides, 1, place, k)) = Place(node, strides, 1, place, k)
      BY <3>1, PlacesFit
    <3> QED
      BY <3>2 DEF place
  <2>5. ASSUME NEW k \in 0..(W[4] - 1)
        PROVE  Int32(Place(node, strides, 2, Coordinate(y, o, 4), k))
                 = Place(node, strides, 2, Coordinate(y, o, 4), k)
    <3> DEFINE place == Coordinate(y, o, 4)
    <3>1. /\ X[4] \in Int /\ X[4] = X[2 + 2] /\ W[4] \in Int /\ y[4] \in Int
          /\ y[4] = Windows(node, strides, X[4], W[4], 2) /\ place \in 0..(y[4] - 1)
          /\ Windowed(node, strides) /\ WindowsFit(node, strides, X) /\ 2 \in 1..2
      BY <1>1, <1>4, <1>5, <2>1, <2>3
    <3> HIDE DEF place
    <3>2. Int32(Place(node, strides, 2, place, k)) = Place(node, strides, 2, place, k)
      BY <3>1, PlacesFit
    <3> QED
      BY <3>2 DEF place
  <2>6. size[1] = W[3] /\ size[2] = W[4]
    OBVIOUS
  <2> HIDE DEF size
  <2>7. WindowReads(Coordinate(y, o, 3), Coordinate(y, o, 4), size[1], size[2], a) = inside
    BY <1>4, <2>4, <2>5, <2>6, WindowReadsAre
  <2> QED
    BY <1>4, <2>6, <2>7
<1>8. /\ WindowOperands(node, strides, X, y, o, size, channels) = From(1, offsets)
      /\ offsets \subseteq 0..(Volume(X) - 1)
  <2>1. n \in 0..(X[1] - 1)
    BY <1>1, <1>5
  <2>2. channels \subseteq 0..(X[2] - 1)
    OBVIOUS
  <2> HIDE DEF size, channels
  <2> QED
    BY <1>1, <1>2, <2>1, <2>2, WindowOperandsAre
<1>9. ImageReads(n, X[2], X[3], X[4], channels, inside) = offsets
  <2>1. Volume(X) \in Int
    <3>1. X[1] \in Int /\ X[2] \in Int /\ X[3] \in Int /\ X[4] \in Int
      BY <1>1, <1>2, FourElements
    <3>2. Volume(X) = X[1] * X[2] * X[3] * X[4]
      BY <1>1, <1>2, ImageVolume
    <3> QED
      BY <3>1, <3>2
  <2> HIDE DEF channels, inside, n
  <2> QED
    BY <1>4, <1>8, <2>1, WindowOffsetsFit
<1>10. /\ FilterReads(channel, W[2], W[3], W[4]) = FilterOffsets(W, channel)
       /\ FilterOffsets(W, channel) \subseteq 0..(Volume(W) - 1)
  <2>1. channel \in 0..(W[1] - 1)
    BY <1>1, <1>5
  <2> QED
    BY <1>1, <1>2, <1>4, <2>1, FilterReadsAre
<1>11. ConvReads(o, a)
         = From(1, ImageReads(o \div (a.out_w * a.out_h * a.k), a.c, a.h, a.w, 0..(a.c - 1),
                              WindowReads((o \div a.out_w) % a.out_h, o % a.out_w, a.r, a.s, a)))
           \cup From(2, FilterReads((o \div (a.out_w * a.out_h)) % a.k, a.c, a.r, a.s))
  BY DEF ConvReads, ImageReads, FilterReads
<1>12. a.h = X[3] /\ a.w = X[4]
  BY <1>4 DEF WindowPassed
<1>13. ConvReads(o, a) = From(1, ImageReads(n, X[2], X[3], X[4], channels, inside))
                         \cup From(2, FilterReads(channel, W[2], W[3], W[4]))
  <2> HIDE DEF n, channel, inside
  <2> QED
    BY <1>4, <1>6, <1>7, <1>11, <1>12, Zenon
<1>14. ConvReads(o, a) = From(1, offsets) \cup From(2, FilterOffsets(W, channel))
  BY <1>9, <1>10, <1>13
<1>15. ConvOperands(node, X, W, y, o) = From(1, offsets) \cup From(2, FilterOffsets(W, channel))
  <2>1. channels = 0..(W[2] - 1)
    BY <1>4
  <2> HIDE DEF offsets, channels
  <2> QED
    BY <1>8, <2>1 DEF ConvOperands, strides
<1>16. ConvReads(o, a) \subseteq From(1, 0..(Volume(X) - 1)) \cup From(2, 0..(Volume(W) - 1))
  <2> HIDE DEF offsets, channel
  <2>1. From(1, offsets) \subseteq From(1, 0..(Volume(X) - 1))
    BY <1>8, FromWithin
  <2>2. From(2, FilterOffsets(W, channel)) \subseteq From(2, 0..(Volume(W) - 1))
    BY <1>10, FromWithin
  <2> QED
    BY <1>14, <2>1, <2>2
<1> QED
  BY <1>5, <1>14, <1>15, <1>16 DEF X, W, y

(* What 32 bits leave of the offsets a window reads one channel at, the    *)
(* i-th of all images' channels.                                           *)
ChannelReads(i, m, k, places) == {Int32((i * m + p[1]) * k + p[2]) : p \in places}

(* They are an image's.                                                    *)
LEMMA ChannelReadsAre ==
  ASSUME NEW n, NEW l, NEW m, NEW k, NEW channel, NEW places
  PROVE  ChannelReads(n * l + channel, m, k, places) = ImageReads(n, l, m, k, {channel}, places)
<1> DEFINE read(c, p) == Int32(((n * l + c) * m + p[1]) * k + p[2])
<1>1. ChannelReads(n * l + channel, m, k, places) = {read(channel, p) : p \in places}
  BY DEF ChannelReads
<1>2. ImageReads(n, l, m, k, {channel}, places) = {read(c, p) : c \in {channel}, p \in places}
  BY DEF ImageReads
<1> HIDE DEF read
<1> DEFINE S == {read(channel, p) : p \in places}
           T == {read(c, p) : c \in {channel}, p \in places}
<1>3. S \subseteq T
  OBVIOUS
<1>4. T \subseteq S
  OBVIOUS
<1>5. S = T
  <2> HIDE DEF S, T
  <2> QED
    BY <1>3, <1>4
<1> QED
  BY <1>1, <1>2, <1>5

(* What the pooling node reads for one element, as Operands has it.        *)
PoolOperands(node, x, y, o) ==
  WindowOperands(node, PoolStrides(node), x, y, o, PoolKernel(node), {Coordinate(y, o, 2)})

(* Pooling reads its operands, inside the image.                           *)
LEMMA PoolReadsAre ==
  ASSUME NEW node, TypedNode(node), NEW x \in Desc, NEW r \in InferPool(node, x), NEW a,
         WindowPassed(a, node, PoolStrides(node), x.shape),
         a.r = PoolKernel(node)[1], a.s = PoolKernel(node)[2],
         a.out_h = r.shape[3], a.out_w = r.shape[4],
         WindowsFit(node, PoolStrides(node), x.shape), Volume(x.shape) <= Int32Max,
         NEW o \in 0..(Volume(r.shape) - 1)
  PROVE  /\ PoolReads(o, a) = PoolOperands(node, x.shape, r.shape, o)
         /\ PoolReads(o, a) \subseteq From(1, 0..(Volume(x.shape) - 1))
<1> DEFINE strides == PoolStrides(node)
           y == r.shape
           X == x.shape
           n == Coordinate(y, o, 1)
           channel == Coordinate(y, o, 2)
           size == PoolKernel(node)
           inside == CoveredInside(node, strides, X, y, o, size)
           offsets == WindowOffsets(X, n, {channel}, inside)
<1>1. /\ Valid(r) /\ Len(X) = 4 /\ Windowed(node, strides) /\ size \in Seq(Int) /\ Len(size) = 2
      /\ Len(y) = 4 /\ y[1] = X[1] /\ y[2] = X[2] /\ y \in Seq(Int)
      /\ \A axis \in 1..2 :
           y[axis + 2] = Windows(node, strides, X[axis + 2], size[axis], axis)
  <2>1. r \in Desc
    BY InferredPool
  <2>2. y \in Seq(Int)
    BY <2>1 DEF Desc
  <2> QED
    BY <2>2, InferredPool
<1>2. X \in Seq(Int)
  BY DEF Desc
<1>3. y[1] > 0 /\ y[2] > 0 /\ y[3] > 0 /\ y[4] > 0
  <2>1. \A i \in DOMAIN y : y[i] > 0
    BY <1>1 DEF Valid
  <2> QED
    BY <1>1, <2>1, FourElements
<1>4. /\ WindowPassed(a, node, strides, X) /\ a.r = size[1] /\ a.s = size[2]
      /\ a.out_h = y[3] /\ a.out_w = y[4] /\ WindowsFit(node, strides, X)
      /\ Volume(X) <= Int32Max /\ o \in 0..(Volume(y) - 1)
  OBVIOUS
<1> HIDE DEF strides, y, X, size
<1>5. /\ n \in 0..(y[1] - 1) /\ channel \in 0..(y[2] - 1)
      /\ Coordinate(y, o, 3) \in 0..(y[3] - 1) /\ Coordinate(y, o, 4) \in 0..(y[4] - 1)
  BY <1>1, <1>3, <1>4, ImageCoordinates
<1>6. /\ o % a.out_w = Coordinate(y, o, 4)
      /\ (o \div a.out_w) % a.out_h = Coordinate(y, o, 3)
      /\ o \div (a.out_w * a.out_h) = n * y[2] + channel
  BY <1>1, <1>3, <1>4, KernelCoordinates
<1>7. WindowReads(Coordinate(y, o, 3), Coordinate(y, o, 4), a.r, a.s, a) = inside
  <2>1. /\ X[3] \in Int /\ X[4] \in Int /\ size[1] \in Int /\ size[2] \in Int
        /\ y[3] \in Int /\ y[4] \in Int
    BY <1>1, <1>2, FourElements, TwoElements
  <2>2. 1 \in 1..2 /\ 2 \in 1..2 /\ 1 + 2 = 3 /\ 2 + 2 = 4
    OBVIOUS
  <2>3. /\ y[3] = Windows(node, strides, X[3], size[1], 1)
        /\ y[4] = Windows(node, strides, X[4], size[2], 2)
    BY <1>1, <2>2
  <2>4. ASSUME NEW k \in 0..(size[1] - 1)
        PROVE  Int32(Place(node, strides, 1, Coordinate(y, o, 3), k))
                 = Place(node, strides, 1, Coordinate(y, o, 3), k)
    <3> DEFINE place == Coordinate(y, o, 3)
    <3>1. /\ X[3] \in Int /\ X[3] = X[1 + 2] /\ size[1] \in Int /\ y[3] \in Int
          /\ y[3] = Windows(node, strides, X[3], size[1], 1) /\ place \in 0..(y[3] - 1)
          /\ Windowed(node, strides) /\ WindowsFit(node, strides, X) /\ 1 \in 1..2
      BY <1>1, <1>4, <1>5, <2>1, <2>3
    <3> HIDE DEF place
    <3>2. Int32(Place(node, strides, 1, place, k)) = Place(node, strides, 1, place, k)
      BY <3>1, PlacesFit
    <3> QED
      BY <3>2 DEF place
  <2>5. ASSUME NEW k \in 0..(size[2] - 1)
        PROVE  Int32(Place(node, strides, 2, Coordinate(y, o, 4), k))
                 = Place(node, strides, 2, Coordinate(y, o, 4), k)
    <3> DEFINE place == Coordinate(y, o, 4)
    <3>1. /\ X[4] \in Int /\ X[4] = X[2 + 2] /\ size[2] \in Int /\ y[4] \in Int
          /\ y[4] = Windows(node, strides, X[4], size[2], 2) /\ place \in 0..(y[4] - 1)
          /\ Windowed(node, strides) /\ WindowsFit(node, strides, X) /\ 2 \in 1..2
      BY <1>1, <1>4, <1>5, <2>1, <2>3
    <3> HIDE DEF place
    <3>2. Int32(Place(node, strides, 2, place, k)) = Place(node, strides, 2, place, k)
      BY <3>1, PlacesFit
    <3> QED
      BY <3>2 DEF place
  <2>6. WindowReads(Coordinate(y, o, 3), Coordinate(y, o, 4), size[1], size[2], a) = inside
    BY <1>4, <2>4, <2>5, WindowReadsAre
  <2> QED
    BY <1>4, <2>6
<1>8. /\ WindowOperands(node, strides, X, y, o, size, {channel}) = From(1, offsets)
      /\ offsets \subseteq 0..(Volume(X) - 1)
  <2>1. n \in 0..(X[1] - 1) /\ {channel} \subseteq 0..(X[2] - 1)
    BY <1>1, <1>5
  <2> QED
    BY <1>1, <1>2, <2>1, WindowOperandsAre
<1>9. ImageReads(n, X[2], X[3], X[4], {channel}, inside) = offsets
  <2>1. Volume(X) \in Int
    <3>1. X[1] \in Int /\ X[2] \in Int /\ X[3] \in Int /\ X[4] \in Int
      BY <1>1, <1>2, FourElements
    <3>2. Volume(X) = X[1] * X[2] * X[3] * X[4]
      BY <1>1, <1>2, ImageVolume
    <3> QED
      BY <3>1, <3>2
  <2> HIDE DEF channel, inside, n
  <2> QED
    BY <1>4, <1>8, <2>1, WindowOffsetsFit
<1>10. PoolReads(o, a)
         = From(1, ChannelReads(o \div (a.out_w * a.out_h), a.h, a.w,
                                WindowReads((o \div a.out_w) % a.out_h, o % a.out_w, a.r, a.s, a)))
  BY DEF PoolReads, ChannelReads
<1>11. a.h = X[3] /\ a.w = X[4] /\ o \div (a.out_w * a.out_h) = n * X[2] + channel
  BY <1>1, <1>4, <1>6 DEF WindowPassed
<1>12. PoolReads(o, a) = From(1, ImageReads(n, X[2], X[3], X[4], {channel}, inside))
  <2> HIDE DEF n, channel, inside
  <2>1. PoolReads(o, a) = From(1, ChannelReads(n * X[2] + channel, X[3], X[4], inside))
    BY <1>6, <1>7, <1>10, <1>11, Zenon
  <2>2. ChannelReads(n * X[2] + channel, X[3], X[4], inside)
          = ImageReads(n, X[2], X[3], X[4], {channel}, inside)
    BY ChannelReadsAre
  <2> QED
    BY <2>1, <2>2
<1>13. PoolReads(o, a) = From(1, offsets)
  BY <1>9, <1>12
<1>14. PoolReads(o, a) \subseteq From(1, 0..(Volume(X) - 1))
  <2> HIDE DEF offsets
  <2>1. From(1, offsets) \subseteq From(1, 0..(Volume(X) - 1))
    BY <1>8, FromWithin
  <2> QED
    BY <1>13, <2>1
<1>15. PoolReads(o, a) = WindowOperands(node, strides, X, y, o, size, {channel})
  BY <1>8, <1>13
<1> QED
  BY <1>14, <1>15 DEF strides, X, y, size, channel, PoolOperands

(* Where the average of the o-th of planes of m * k elements is read.      *)
PlaneReads(o, m, k) == {Int32(o * m * k + offset) : offset \in 0..(Int32(m * k) - 1)}

(* It is that of the channel, inside the image.                            *)
LEMMA PlaneReadsAre ==
  ASSUME NEW x \in Seq(Int), Len(x) = 4, x[1] > 0, x[2] > 0, x[3] > 0, x[4] > 0,
         Volume(x) <= Int32Max, NEW n \in 0..(x[1] - 1), NEW channel \in 0..(x[2] - 1)
  PROVE  /\ PlaneReads(n * x[2] + channel, x[3], x[4]) = PlaneOffsets(x, n, channel)
         /\ PlaneOffsets(x, n, channel) \subseteq 0..(Volume(x) - 1)
<1> DEFINE m == x[3]
           k == x[4]
           o == n * x[2] + channel
           size == m * k
           l == x[1] * x[2]
<1>1. /\ x[1] \in Nat \ {0} /\ x[2] \in Nat \ {0} /\ m \in Nat \ {0} /\ k \in Nat \ {0}
      /\ n \in Int /\ channel \in Int
  <2>1. x[1] \in Int /\ x[2] \in Int /\ x[3] \in Int /\ x[4] \in Int
    BY FourElements
  <2> QED
    BY <2>1
<1>2. o \in 0..(l - 1) /\ l \in Nat /\ o \in Int
  <2>1. x[1] \in Nat /\ x[2] \in Nat \ {0}
    BY <1>1
  <2>2. n * x[2] + channel \in 0..(x[1] * x[2] - 1) /\ x[1] * x[2] \in Nat
    BY <2>1, PartsInside
  <2> QED
    BY <1>1, <2>2
<1>3. Volume(x) = l * size /\ Volume(x) <= Int32Max /\ Int32Max \in Nat
  <2>1. Volume(x) = x[1] * x[2] * x[3] * x[4]
    BY ImageVolume
  <2>2. Volume(x) = l * size
    BY <1>1, <2>1
  <2> HIDE DEF l, size
  <2> QED
    BY <2>2, KernelAssumption
<1>4. ASSUME NEW h \in 0..(m - 1), NEW v \in 0..(k - 1)
      PROVE  /\ Offset(x, <<n, channel, h, v>>) = o * size + (h * k + v)
             /\ h * k + v \in 0..(size - 1)
  <2>1. h \in Int /\ v \in Int
    BY <1>1
  <2>2. Offset(x, <<n, channel, h, v>>) = (o * m + h) * k + v
    BY <1>1, <2>1, ImageOffset
  <2>3. (o * m + h) * k + v = o * size + (h * k + v)
    <3> HIDE DEF o, m, k
    <3> QED
      BY <1>1, <1>2, <2>1
  <2>4. h * k + v \in 0..(m * k - 1)
    <3> HIDE DEF m, k
    <3> QED
      BY <1>1, PartsInside
  <2> QED
    BY <2>2, <2>3, <2>4
<1> HIDE DEF o, m, k
<1>5. size \in Nat \ {0}
  <2>1. size > 0 /\ size \in Nat
    BY <1>1, ProductBound
  <2> QED
    BY <2>1
<1>6. ASSUME NEW t \in 0..(size - 1)
      PROVE  \E h \in 0..(m - 1), v \in 0..(k - 1) : t = h * k + v
  <2>1. /\ t \div k \in 0..(m - 1) /\ t % k \in 0..(k - 1)
        /\ t = (t \div k) * k + (t % k)
    BY <1>1, PartsOfOffset
  <2> QED
    BY <2>1
<1> HIDE DEF size, l
<1>7. ASSUME NEW t \in 0..(size - 1)
      PROVE  /\ o * size + t \in 0..(Volume(x) - 1)
             /\ Int32(o * size + t) = o * size + t
  <2>1. o * size + t \in 0..(l * size - 1)
    BY <1>2, <1>5, PartsInside
  <2>2. l * size \in Nat
    BY <1>2, <1>5
  <2>3. o * size + t \in 0..Int32Max
    <3> DEFINE at0 == o * size + t
               p == l * size
    <3>1. at0 \in 0..(p - 1) /\ p \in Nat /\ p <= Int32Max
      BY <1>3, <2>1, <2>2
    <3> HIDE DEF at0, p
    <3>2. at0 \in 0..Int32Max
      BY <1>3, <3>1
    <3> QED
      BY <3>2 DEF at0
  <2> QED
    BY <1>3, <2>1, <2>3, Int32Fits
<1>8. Int32(size) = size
  <2>1. l >= 1
    BY <1>2
  <2>2. 1 * size <= l * size
    BY <1>2, <1>5, <2>1, ProductGrows
  <2>3. size \in 0..Int32Max
    <3>1. size \in Nat /\ 1 * size = size /\ l * size <= Int32Max
      BY <1>3, <1>5
    <3>2. l * size \in Nat
      BY <1>2, <1>5
    <3> QED
      BY <1>3, <2>2, <3>1, <3>2
  <2> QED
    BY <2>3, Int32Fits
<1> DEFINE S == {Int32(o * size + t) : t \in 0..(size - 1)}
           H == 0..(m - 1)
           V == 0..(k - 1)
           named(h, v) == Offset(x, <<n, channel, h, v>>)
           T == {named(h, v) : h \in H, v \in V}
<1>9. PlaneReads(o, m, k) = S
  <2>1. o * m * k = o * size
    <3> QED
      BY <1>1, <1>2 DEF size
  <2>2. Int32(m * k) = size
    BY <1>8 DEF size
  <2> QED
    BY <2>1, <2>2 DEF PlaneReads
<1>10. PlaneOffsets(x, n, channel) = T
  BY DEF PlaneOffsets, m, k
<1>11. ASSUME NEW h \in H, NEW v \in V
       PROVE  named(h, v) = o * size + (h * k + v) /\ h * k + v \in 0..(size - 1)
  BY <1>4
<1>12. ASSUME NEW t \in 0..(size - 1) PROVE \E h \in H, v \in V : t = h * k + v
  BY <1>6
<1> HIDE DEF named, H, V
<1>13. ASSUME NEW z \in S PROVE z \in T
  <2>1. PICK t \in 0..(size - 1) : z = Int32(o * size + t)
    BY <1>13
  <2>2. PICK h \in H : \E v \in V : t = h * k + v
    BY <1>12
  <2>3. PICK v \in V : t = h * k + v
    BY <2>2
  <2>4. z = named(h, v)
    BY <1>7, <1>11, <2>1, <2>3
  <2> HIDE DEF S
  <2> QED
    BY <2>4
<1>14. ASSUME NEW z \in T PROVE z \in S /\ z \in 0..(Volume(x) - 1)
  <2>1. PICK h \in H : \E v \in V : z = named(h, v)
    BY <1>14
  <2>2. PICK v \in V : z = named(h, v)
    BY <2>1
  <2> DEFINE t == h * k + v
  <2>3. z = o * size + t /\ t \in 0..(size - 1)
    BY <1>11, <2>2
  <2> HIDE DEF t, T
  <2> QED
    BY <1>7, <2>3
<1> HIDE DEF S, T
<1>15. S = T
  BY <1>13, <1>14
<1> QED
  BY <1>9, <1>10, <1>14, <1>15 DEF o, m, k

(* Global average pooling reads its operands, inside the image.            *)
LEMMA AverageReadsAre ==
  ASSUME NEW x \in Desc, NEW r \in InferGlobalAveragePool(x),
         \A i \in DOMAIN x.shape : x.shape[i] > 0, Volume(x.shape) <= Int32Max,
         NEW o \in 0..(Volume(r.shape) - 1)
  PROVE  /\ PlaneReads(o, x.shape[3], x.shape[4])
              = PlaneOffsets(x.shape, Coordinate(r.shape, o, 1), Coordinate(r.shape, o, 2))
         /\ PlaneReads(o, x.shape[3], x.shape[4]) \subseteq 0..(Volume(x.shape) - 1)
<1> DEFINE X == x.shape
           y == r.shape
           n == Coordinate(y, o, 1)
           channel == Coordinate(y, o, 2)
<1>1. /\ X \in Seq(Int) /\ Len(X) = 4 /\ y = <<X[1], X[2], 1, 1>> /\ y \in Seq(Int)
      /\ \A i \in DOMAIN X : X[i] > 0
  <2>1. r \in Desc /\ Len(X) = 4 /\ y = <<X[1], X[2], 1, 1>>
    BY InferredAverage
  <2> QED
    BY <2>1 DEF Desc
<1>2. Volume(X) <= Int32Max /\ o \in 0..(Volume(y) - 1)
  OBVIOUS
<1> HIDE DEF X
<1>3. Len(y) = 4 /\ y[1] = X[1] /\ y[2] = X[2] /\ y[3] = 1 /\ y[4] = 1
  BY <1>1
<1> HIDE DEF y
<1>4. X[1] > 0 /\ X[2] > 0 /\ X[3] > 0 /\ X[4] > 0 /\ X[1] \in Int /\ X[2] \in Int
  BY <1>1, FourElements
<1>5. /\ n = o \div (y[4] * y[3] * y[2]) /\ n \in 0..(X[1] - 1)
      /\ channel = (o \div (y[4] * y[3])) % y[2] /\ channel \in 0..(X[2] - 1)
  <2>1. y[1] > 0 /\ y[2] > 0 /\ y[3] > 0 /\ y[4] > 0
    BY <1>3, <1>4
  <2> QED
    BY <1>1, <1>2, <1>3, <2>1, ImageCoordinates
<1>6. o \in Int
  <2>1. Volume(y) = y[1] * y[2] * y[3] * y[4]
    BY <1>1, <1>3, ImageVolume
  <2>2. Volume(y) \in Int
    BY <1>3, <1>4, <2>1
  <2> QED
    BY <1>2, <2>2
<1>7. o = n * X[2] + channel
  <2>1. y[4] * y[3] = 1 /\ y[4] * y[3] * y[2] = X[2]
    BY <1>3, <1>4
  <2>2. o \div 1 = o
    BY <1>6, DivisionUnique
  <2>3. n = o \div X[2] /\ channel = o % X[2]
    BY <1>3, <1>5, <2>1, <2>2
  <2> DEFINE m == X[2]
  <2>4. m \in Nat \ {0}
    BY <1>4
  <2>5. n = o \div m /\ channel = o % m
    BY <2>3
  <2> HIDE DEF n, channel, m
  <2>6. o = (o \div m) * m + (o % m)
    BY <1>6, <2>4, Divides
  <2> QED
    BY <2>5, <2>6 DEF m
<1> HIDE DEF n, channel
<1>8. /\ PlaneReads(n * X[2] + channel, X[3], X[4]) = PlaneOffsets(X, n, channel)
      /\ PlaneOffsets(X, n, channel) \subseteq 0..(Volume(X) - 1)
  BY <1>1, <1>2, <1>4, <1>5, PlaneReadsAre
<1> QED
  BY <1>7, <1>8 DEF n, channel, X, y

(* The offsets a product is read at in a row of its first matrix and a     *)
(* column of its second one.                                               *)
LineOffsets(a, row) == {Offset(a, <<row, i>>) : i \in 0..(a[2] - 1)}
ColumnOffsets(b, column) == {Offset(b, <<i, column>>) : i \in 0..(b[1] - 1)}

(* What 32 bits leave of them.                                             *)
RowReadAt(row, m) == {Int32(row * m) + i : i \in 0..(m - 1)}
ColumnReadAt(column, m, n) == {Int32(i * n) + column : i \in 0..(m - 1)}

(* All of a row, inside the matrix.                                        *)
LEMMA RowReadIs ==
  ASSUME NEW a \in Seq(Int), Len(a) = 2, a[1] > 0, a[2] > 0, Volume(a) <= Int32Max,
         NEW row \in 0..(a[1] - 1)
  PROVE  /\ RowReadAt(row, a[2]) = LineOffsets(a, row)
         /\ RowReadAt(row, a[2]) = {row * a[2] + i : i \in 0..(a[2] - 1)}
         /\ RowReadAt(row, a[2]) \subseteq 0..(Volume(a) - 1)
<1>1. /\ a[1] \in Nat \ {0} /\ a[2] \in Nat \ {0} /\ row \in Int
  <2>1. a[1] \in Int /\ a[2] \in Int
    BY TwoElements
  <2> QED
    BY <2>1
<1>2. Volume(a) = a[1] * a[2]
  BY MatrixVolume
<1>3. ASSUME NEW i \in 0..(a[2] - 1)
      PROVE  Offset(a, <<row, i>>) = row * a[2] + i /\ row * a[2] + i \in 0..(Volume(a) - 1)
  <2>1. i \in Int
    BY <1>1
  <2>2. Offset(a, <<row, i>>) = row * a[2] + i
    BY <1>1, <2>1, MatrixOffset
  <2>3. row * a[2] + i \in 0..(Volume(a) - 1)
    BY <1>1, <1>2, PartsInside
  <2> QED
    BY <2>2, <2>3
<1>4. Int32(row * a[2]) = row * a[2]
  <2> DEFINE start == row * a[2]
             m == a[1] * a[2]
  <2>1. start \in 0..(m - 1) /\ m \in Nat
    <3>1. 0 \in 0..(a[2] - 1) /\ a[1] \in Nat
      BY <1>1
    <3> QED
      BY <1>1, <3>1, PartsInside
  <2>2. m <= Int32Max /\ Int32Max \in Nat
    BY <1>2, KernelAssumption
  <2> HIDE DEF start, m
  <2>3. start \in 0..Int32Max
    BY <2>1, <2>2
  <2>4. Int32(start) = start
    BY <2>3, Int32Fits
  <2> QED
    BY <2>4 DEF start
<1>5. RowReadAt(row, a[2]) = {row * a[2] + i : i \in 0..(a[2] - 1)}
  BY <1>4 DEF RowReadAt
<1>6. LineOffsets(a, row) = {row * a[2] + i : i \in 0..(a[2] - 1)}
  BY <1>3 DEF LineOffsets
<1>7. {row * a[2] + i : i \in 0..(a[2] - 1)} \subseteq 0..(Volume(a) - 1)
  BY <1>3
<1> QED
  BY <1>5, <1>6, <1>7

(* The same for a column.                                                  *)
LEMMA ColumnReadIs ==
  ASSUME NEW b \in Seq(Int), Len(b) = 2, b[1] > 0, b[2] > 0, Volume(b) <= Int32Max,
         NEW column \in 0..(b[2] - 1)
  PROVE  /\ ColumnReadAt(column, b[1], b[2]) = ColumnOffsets(b, column)
         /\ ColumnOffsets(b, column) \subseteq 0..(Volume(b) - 1)
<1>1. /\ b[1] \in Nat \ {0} /\ b[2] \in Nat \ {0} /\ column \in Int
  <2>1. b[1] \in Int /\ b[2] \in Int
    BY TwoElements
  <2> QED
    BY <2>1
<1>2. Volume(b) = b[1] * b[2]
  BY MatrixVolume
<1>3. ASSUME NEW i \in 0..(b[1] - 1)
      PROVE  /\ Offset(b, <<i, column>>) = Int32(i * b[2]) + column
             /\ Offset(b, <<i, column>>) \in 0..(Volume(b) - 1)
  <2>1. i \in Int /\ b[1] \in Nat
    BY <1>1
  <2>2. Offset(b, <<i, column>>) = i * b[2] + column
    BY <1>1, <2>1, MatrixOffset
  <2>3. i * b[2] + column \in 0..(b[1] * b[2] - 1)
    BY <1>1, <2>1, PartsInside
  <2>4. Int32(i * b[2]) = i * b[2]
    <3> DEFINE start == i * b[2]
               m == b[1] * b[2]
    <3>1. start \in 0..(m - 1) /\ m \in Nat
      BY <1>1, <2>1, PartsInside
    <3>2. m <= Int32Max /\ Int32Max \in Nat
      BY <1>2, KernelAssumption
    <3> HIDE DEF start, m
    <3>3. start \in 0..Int32Max
      BY <3>1, <3>2
    <3>4. Int32(start) = start
      BY <3>3, Int32Fits
    <3> QED
      BY <3>4 DEF start
  <2> QED
    BY <1>2, <2>2, <2>3, <2>4
<1>4. ColumnReadAt(column, b[1], b[2]) = ColumnOffsets(b, column)
  BY <1>3 DEF ColumnReadAt, ColumnOffsets
<1>5. ColumnOffsets(b, column) \subseteq 0..(Volume(b) - 1)
  BY <1>3 DEF ColumnOffsets
<1> QED
  BY <1>4, <1>5

(* A product of matrices that are not transposed reads its operands.       *)
LEMMA GemmReadsAre ==
  ASSUME NEW node, ~Transposed(node, "transA"), ~Transposed(node, "transB"),
         NEW x \in Seq(Int), Len(x) = 2, NEW w \in Seq(Int), Len(w) = 2,
         NEW y \in Seq(Int), Len(y) = 2, y[1] = x[1], y[2] = w[2], x[2] = w[1],
         x[1] > 0, x[2] > 0, w[2] > 0, Volume(x) <= Int32Max, Volume(w) <= Int32Max,
         NEW a, a.n = y[2], a.k = x[2], NEW o \in 0..(Volume(y) - 1)
  PROVE  /\ GemmReads(o, a) = ProductOperands(node, x, w, y, o)
         /\ GemmReads(o, a)
              \subseteq From(1, 0..(Volume(x) - 1)) \cup From(2, 0..(Volume(w) - 1))
<1> DEFINE row == Coordinate(y, o, 1)
           column == Coordinate(y, o, 2)
<1>1. /\ row = o \div y[2] /\ row \in 0..(x[1] - 1)
      /\ column = o % y[2] /\ column \in 0..(w[2] - 1)
  BY MatrixCoordinates
<1> HIDE DEF row, column
<1>2. GemmReads(o, a) = From(1, RowReadAt(row, x[2])) \cup From(2, ColumnReadAt(column, w[1], w[2]))
  BY <1>1 DEF GemmReads, RowReadAt, ColumnReadAt
<1>3. /\ RowReadAt(row, x[2]) = LineOffsets(x, row)
      /\ RowReadAt(row, x[2]) \subseteq 0..(Volume(x) - 1)
  BY <1>1, RowReadIs
<1>4. /\ ColumnReadAt(column, w[1], w[2]) = ColumnOffsets(w, column)
      /\ ColumnOffsets(w, column) \subseteq 0..(Volume(w) - 1)
  BY <1>1, ColumnReadIs
<1>5. ProductOperands(node, x, w, y, o)
        = From(1, LineOffsets(x, row)) \cup From(2, ColumnOffsets(w, column))
  <2>1. Columns(x, Transposed(node, "transA")) = x[2]
    BY DEF Columns
  <2> QED
    BY <2>1 DEF ProductOperands, LineOffsets, ColumnOffsets, row, column
<1>6. GemmReads(o, a) = From(1, LineOffsets(x, row)) \cup From(2, ColumnOffsets(w, column))
  BY <1>2, <1>3, <1>4
<1>7. From(1, LineOffsets(x, row)) \subseteq From(1, 0..(Volume(x) - 1))
  <2>1. LineOffsets(x, row) \subseteq 0..(Volume(x) - 1)
    BY <1>3
  <2> QED
    BY <2>1, FromWithin
<1>8. From(2, ColumnOffsets(w, column)) \subseteq From(2, 0..(Volume(w) - 1))
  BY <1>4, FromWithin
<1> QED
  BY <1>5, <1>6, <1>7, <1>8

(* A kernel of one block per row reads the element's row.                  *)
LEMMA RowReadsAre ==
  ASSUME NEW y \in Seq(Int), Len(y) = 2, y[1] > 0, y[2] > 0, Volume(y) <= Int32Max,
         NEW a, a.columns = y[2], y[2] <= RowBlock, NEW o \in 0..(Volume(y) - 1)
  PROVE  /\ RowReads(o, a) = RowOffsets(y, o)
         /\ RowReads(o, a) \subseteq 0..(Volume(y) - 1)
         /\ o % a.columns = o % Last(y) /\ o % Last(y) \in 0..(y[2] - 1)
<1> DEFINE row == o \div y[2]
<1>1. Last(y) = y[2]
  BY DEF Last
<1>2. row \in 0..(y[1] - 1) /\ o % y[2] \in 0..(y[2] - 1)
  BY MatrixCoordinates
<1> HIDE DEF row
<1>3. Least(RowBlock, a.columns) = y[2]
  <2>1. y[2] \in Int /\ RowBlock \in Int
    BY TwoElements, KernelAssumption
  <2> QED
    BY <2>1 DEF Least
<1>4. RowReads(o, a) = RowReadAt(row, y[2])
  BY <1>3 DEF RowReads, RowReadAt, row
<1>5. /\ RowReadAt(row, y[2]) = {row * y[2] + i : i \in 0..(y[2] - 1)}
      /\ RowReadAt(row, y[2]) \subseteq 0..(Volume(y) - 1)
  BY <1>2, RowReadIs
<1>6. {row * y[2] + i : i \in 0..(y[2] - 1)} = RowOffsets(y, o)
  BY <1>1 DEF row, RowOffsets
<1> QED
  BY <1>1, <1>2, <1>4, <1>5, <1>6

(* What the axes behind one hold, times what it and those before do.       *)
LEMMA BehindCounts ==
  ASSUME NEW x \in Seq(Int), NEW count \in [0..Len(x) -> 1..Int64Max], count[0] = 1,
         \A i \in 1..Len(x) : count[i] = count[i - 1] * x[i], NEW axis \in DOMAIN x
  PROVE  /\ Volume(SubSeq(x, axis + 1, Len(x))) \in Int
         /\ Volume(SubSeq(x, axis + 1, Len(x))) * count[axis] = count[Len(x)]
<1> DEFINE n == Len(x)
           m == n - axis
           behind == SubSeq(x, axis + 1, n)
<1>1. n \in Nat /\ axis \in 1..n /\ m \in Nat /\ \A i \in 1..n : x[i] \in Int
  OBVIOUS
<1>2. behind \in Seq(Int) /\ Len(behind) = m /\ \A i \in 1..m : behind[i] = x[axis + i]
  BY AxesBehind
<1> HIDE DEF behind
<1>3. PICK volume : Volumes(behind, volume) /\ Volume(behind) = volume[m]
  BY <1>2, VolumeUnfolds
<1>4. /\ volume \in [0..m -> Int] /\ volume[0] = 1
      /\ \A i \in 1..m : volume[i] = volume[i - 1] * behind[i]
  BY <1>2, <1>3, Zenon DEF Volumes
<1>5. /\ \A i \in 0..n : count[i] \in Int
      /\ \A i \in 1..n : count[i] = count[i - 1] * x[i]
  OBVIOUS
<1> HIDE DEF n
<1>6. axis + m = n /\ axis + 0 = axis /\ m \in Nat /\ axis \in 0..n /\ axis \in Int
  BY <1>1
<1> HIDE DEF m
<1> DEFINE S == {i \in Nat : i <= m => volume[i] * count[axis] = count[axis + i]}
<1>7. 0 \in S
  BY <1>4, <1>5, <1>6
<1>8. ASSUME NEW i \in Nat, i \in S PROVE i + 1 \in S
  <2> SUFFICES ASSUME i + 1 <= m PROVE volume[i + 1] * count[axis] = count[axis + (i + 1)]
    OBVIOUS
  <2>1. /\ i + 1 \in 1..m /\ (i + 1) - 1 = i /\ i \in 0..m
        /\ volume[i] * count[axis] = count[axis + i]
    <3>1. i + 1 \in 1..m /\ (i + 1) - 1 = i /\ i \in 0..m /\ i <= m
      BY <1>6
    <3> QED
      BY <1>8, <3>1
  <2>2. /\ axis + (i + 1) \in 1..n /\ (axis + (i + 1)) - 1 = axis + i
    <3>1. i + 1 >= 1 /\ i + 1 <= m /\ i \in Int
      BY <1>6, <2>1
    <3>2. axis \in 1..n /\ n \in Nat /\ axis + m = n /\ m \in Nat
      BY <1>1, <1>6
    <3> HIDE DEF S
    <3> QED
      BY <3>1, <3>2
  <2>3. /\ volume[i + 1] = volume[i] * x[axis + (i + 1)]
        /\ count[axis + (i + 1)] = count[axis + i] * x[axis + (i + 1)]
    BY <1>2, <1>4, <1>5, <2>1, <2>2
  <2> DEFINE v == volume[i]
             c == count[axis]
             d == x[axis + (i + 1)]
  <2>4. v \in Int /\ c \in Int /\ d \in Int
    BY <1>1, <1>4, <1>5, <1>6, <2>1, <2>2
  <2>5. volume[i + 1] = v * d /\ count[axis + (i + 1)] = (v * c) * d
    BY <2>1, <2>3
  <2> HIDE DEF v, c, d
  <2>6. (v * d) * c = (v * c) * d
    BY <2>4
  <2> QED
    BY <2>5, <2>6 DEF c
<1>9. m \in S
  <2> HIDE DEF S
  <2> QED
    BY <1>6, <1>7, <1>8, SetInduction
<1>10. volume[m] \in Int /\ volume[m] * count[axis] = count[n]
  BY <1>4, <1>6, <1>9
<1> QED
  BY <1>3, <1>10 DEF behind, n

(* What a normalization counts as spatial is what is behind the channels,  *)
(* and so it finds an element's channel.                                   *)
LEMMA ChannelIs ==
  ASSUME NEW x \in Seq(Int), NumElements(x) # 0, 2 \in DOMAIN x,
         NEW o \in 0..(Volume(x) - 1)
  PROVE  /\ (o \div Product(x, 3, Len(x))) % x[2] = Coordinate(x, o, 2)
         /\ Coordinate(x, o, 2) \in 0..(x[2] - 1)
<1> DEFINE n == Len(x)
           p == Product(x, 3, n)
           v == Volume(SubSeq(x, 2 + 1, n))
<1>1. NumElements(x) = Volume(x) /\ NumElements(x) \in 1..Int64Max
  BY ElementsAreVolume
<1>2. PICK count \in [0..n -> 1..Int64Max] :
        /\ count[0] = 1 /\ NumElements(x) = count[n]
        /\ \A i \in 1..n : count[i] = count[i - 1] * x[i]
        /\ \A i \in 1..n : x[i] \in Nat \ {0}
  BY CountsPositive
<1>3. v \in Int /\ v * count[2] = count[n]
  BY <1>2, BehindCounts
<1>4. p \in 1..Int64Max /\ p * count[2] = count[n]
  <2>1. n \in Nat /\ 2 \in 0..n /\ n \in 2..n /\ 2 + 1 = 3
    OBVIOUS
  <2>2. Product(x, 2 + 1, n) \in 1..Int64Max /\ Product(x, 2 + 1, n) * count[2] = count[n]
    <3>1. \A i \in 1..n : x[i] \in Nat \ {0} /\ count[i] = count[i - 1] * x[i]
      BY <1>2
    <3> DEFINE axis == 2
    <3>2. axis \in 0..n
      BY <2>1
    <3> HIDE DEF n, axis
    <3>3. /\ Product(x, axis + 1, n) \in 1..Int64Max
          /\ Product(x, axis + 1, n) * count[axis] = count[n]
      <4>1. n = Len(x) /\ n \in axis..n
        BY <2>1 DEF n, axis
      <4> QED
        BY <1>2, <3>1, <3>2, <4>1, ProductCounts
    <3> QED
      BY <3>3 DEF axis
  <2> QED
    BY <2>1, <2>2
<1>5. /\ count[2] \in Nat \ {0} /\ x[2] \in Nat \ {0}
      /\ Volume(x) \in Nat /\ o \in Int /\ p \in Nat \ {0}
  <2>1. 2 \in 0..n /\ 2 \in 1..n /\ Int64Max \in Nat
    BY WidthAssumption
  <2> HIDE DEF n, p
  <2>2. count[2] \in 1..Int64Max /\ x[2] \in Nat \ {0}
    BY <1>2, <2>1
  <2>3. Volume(x) \in Nat
    BY <1>1, <2>1
  <2> QED
    BY <1>4, <2>1, <2>2, <2>3
<1>6. Coordinate(x, o, 2) = (o \div v) % x[2]
  BY DEF Coordinate
<1> HIDE DEF n, p, v
<1>7. p = v
  <2> DEFINE c == count[2]
             k == count[n]
  <2>1. c \in Nat \ {0} /\ k \in Int /\ 0 \in 0..(c - 1) /\ k = p * c + 0 /\ k = v * c + 0
    BY <1>3, <1>4, <1>5
  <2>2. p \in Int /\ v \in Int
    BY <1>3, <1>5
  <2> HIDE DEF c, k
  <2>3. k \div c = p
    BY <2>1, <2>2, DivisionUnique
  <2>4. k \div c = v
    BY <2>1, <2>2, DivisionUnique
  <2> QED
    BY <2>3, <2>4
<1>8. (o \div p) % x[2] \in 0..(x[2] - 1)
  <2> DEFINE q == o \div p
             m == x[2]
  <2>1. q \in Int /\ m \in Nat \ {0}
    BY <1>5, Divides
  <2> HIDE DEF q, m
  <2>2. q % m \in 0..(m - 1)
    BY <2>1, Divides
  <2> QED
    BY <2>2 DEF q, m
<1> QED
  BY <1>6, <1>7, <1>8 DEF p, n

-----------------------------------------------------------------------------
(* Every element is computed from its operands.                            *)

(* What a launch reads for one of them.                                    *)
ReadsOperands(o) ==
  LET read == Reads(last.program, o, last.arguments, Len(last.node.ins))
  IN  /\ read = Operands(last.node, o)
      /\ \A at2 \in read : at2[2] \in Elements(last.node.ins[at2[1]])

(* It does, if it reads what the operator names and nothing outside.       *)
LEMMA ReadsSuffice ==
  ASSUME NEW read, NEW o, read = Reads(last.program, o, last.arguments, Len(last.node.ins)),
         read = Operands(last.node, o),
         \A at2 \in read : \E k : at2 \in From(k, Elements(last.node.ins[k]))
  PROVE  ReadsOperands(o)
<1> SUFFICES ASSUME NEW at2 \in read PROVE at2[2] \in Elements(last.node.ins[at2[1]])
  BY DEF ReadsOperands
<1>1. PICK k : at2 \in From(k, Elements(last.node.ins[k]))
  OBVIOUS
<1>2. PICK i \in Elements(last.node.ins[k]) : at2 = <<k, i>>
  BY <1>1 DEF From
<1>3. at2[1] = k /\ at2[2] = i
  BY <1>2
<1> QED
  BY <1>2, <1>3

(* The arguments of a window that what is read depends on.                 *)
StepsSourced(arguments) ==
  /\ Sourced(arguments, "h", InputDim(1, 3)) /\ Sourced(arguments, "w", InputDim(1, 4))
  /\ Sourced(arguments, "stride_h", Attribute("strides", 1, 1))
  /\ Sourced(arguments, "stride_w", Attribute("strides", 2, 1))
  /\ Sourced(arguments, "pad_h", Attribute("pads", 1, 0))
  /\ Sourced(arguments, "pad_w", Attribute("pads", 2, 0))
  /\ Sourced(arguments, "dilation_h", Attribute("dilations", 1, 1))
  /\ Sourced(arguments, "dilation_w", Attribute("dilations", 2, 1))

(* They are joined to others.                                              *)
LEMMA StepsJoined ==
  ASSUME NEW f, "h" \notin DOMAIN f, "w" \notin DOMAIN f,
         "stride_h" \notin DOMAIN f, "stride_w" \notin DOMAIN f, "pad_h" \notin DOMAIN f,
         "pad_w" \notin DOMAIN f, "dilation_h" \notin DOMAIN f, "dilation_w" \notin DOMAIN f
  PROVE  StepsSourced(Joined(f, WindowArguments))
<1>1. StepsSourced(WindowArguments)
  BY DEF StepsSourced, Sourced, WindowArguments
<1> QED
  BY <1>1, SourcedJoined DEF StepsSourced

(* Those of a convolution.                                                 *)
LEMMA ConvReadSources ==
  /\ StepsSourced(ConvArguments) /\ Sourced(ConvArguments, "c", InputDim(1, 2))
  /\ Sourced(ConvArguments, "r", InputDim(2, 3)) /\ Sourced(ConvArguments, "s", InputDim(2, 4))
<1> DEFINE f == [k |-> InputDim(2, 1), r |-> InputDim(2, 3), s |-> InputDim(2, 4)]
<1>1. Sourced(f, "r", InputDim(2, 3)) /\ Sourced(f, "s", InputDim(2, 4))
  BY DEF Sourced
<1>2. /\ "h" \notin DOMAIN f /\ "w" \notin DOMAIN f /\ "c" \notin DOMAIN f
      /\ "stride_h" \notin DOMAIN f /\ "stride_w" \notin DOMAIN f /\ "pad_h" \notin DOMAIN f
      /\ "pad_w" \notin DOMAIN f /\ "dilation_h" \notin DOMAIN f /\ "dilation_w" \notin DOMAIN f
  OBVIOUS
<1>3. ConvArguments = Joined(f, WindowArguments)
  BY DEF ConvArguments
<1> HIDE DEF f
<1> QED
  BY <1>1, <1>2, <1>3, StepsJoined, WindowSources, SourcedJoined

(* The same for pooling.                                                   *)
LEMMA PoolReadSources ==
  /\ StepsSourced(PoolArguments)
  /\ Sourced(PoolArguments, "r", Attribute("kernel_shape", 1, 1))
  /\ Sourced(PoolArguments, "s", Attribute("kernel_shape", 2, 1))
<1> DEFINE f == [r |-> Attribute("kernel_shape", 1, 1), s |-> Attribute("kernel_shape", 2, 1)]
<1>1. /\ Sourced(f, "r", Attribute("kernel_shape", 1, 1))
      /\ Sourced(f, "s", Attribute("kernel_shape", 2, 1))
  BY DEF Sourced
<1>2. /\ "h" \notin DOMAIN f /\ "w" \notin DOMAIN f
      /\ "stride_h" \notin DOMAIN f /\ "stride_w" \notin DOMAIN f /\ "pad_h" \notin DOMAIN f
      /\ "pad_w" \notin DOMAIN f /\ "dilation_h" \notin DOMAIN f /\ "dilation_w" \notin DOMAIN f
  OBVIOUS
<1>3. PoolArguments = Joined(f, WindowArguments)
  BY DEF PoolArguments
<1> HIDE DEF f
<1> QED
  BY <1>1, <1>2, <1>3, StepsJoined, SourcedJoined

(* And the others.                                                         *)
LEMMA OtherReadSources ==
  /\ Sourced(AverageArguments, "h", InputDim(1, 3))
  /\ Sourced(AverageArguments, "w", InputDim(1, 4))
  /\ Sourced(NormArguments, "channels", InputDim(1, 2))
  /\ Sourced(NormArguments, "spatial", InputSpatial(1))
<1>1. /\ Sourced(AverageArguments, "h", InputDim(1, 3))
      /\ Sourced(AverageArguments, "w", InputDim(1, 4))
  BY DEF Sourced, AverageArguments, WindowArguments
<1>2. /\ Sourced(NormArguments, "channels", InputDim(1, 2))
      /\ Sourced(NormArguments, "spatial", InputSpatial(1))
  <2> DEFINE f == [channels |-> InputDim(1, 2), spatial |-> InputSpatial(1)]
  <2>1. Sourced(f, "channels", InputDim(1, 2)) /\ Sourced(f, "spatial", InputSpatial(1))
    BY DEF Sourced
  <2>2. NormArguments = Joined(f, TotalArgument)
    BY DEF NormArguments
  <2> HIDE DEF f
  <2> QED
    BY <2>1, <2>2, SourcedJoined
<1> QED
  BY <1>1, <1>2

(* The argument of a list attribute, where no scalar has its name.         *)
LEMMA AttributeArgument ==
  ASSUME NEW node, NEW d, NEW key, NEW position, NEW default, NEW fallback,
         key \notin DOMAIN node.ints, fallback[position] = default,
         position \in DOMAIN ListAttribute(node, key, fallback),
         ListAttribute(node, key, fallback)[position] \in (-Int32Max)..Int32Max,
         NEW n \in ArgumentOf(Attribute(key, position, default), node, d)
  PROVE  n = ListAttribute(node, key, fallback)[position]
<1> DEFINE source == Attribute(key, position, default)
           value == ListAttribute(node, key, fallback)[position]
<1>1. n = Int32(AttributeOf(node, source))
  BY DEF ArgumentOf, Attribute
<1>2. source.key = key /\ source.position = position /\ source.default = default
  BY DEF Attribute
<1> HIDE DEF source
<1>3. AttributeOf(node, source) = value
  <2>1. CASE key \in DOMAIN node.lists
    BY <1>2, <2>1 DEF AttributeOf, ListAttribute
  <2>2. CASE key \notin DOMAIN node.lists
    BY <1>2, <2>2 DEF AttributeOf, ListAttribute, IntAttribute
  <2> QED
    BY <2>1, <2>2
<1>4. Int32(value) = value
  <2>1. value \in (-Int32Max)..Int32Max /\ Int32Max \in Nat
    BY KernelAssumption
  <2> HIDE DEF value
  <2>2. value \in (-(Int32Max + 1))..Int32Max
    BY <2>1
  <2> QED
    BY <2>2, Int32Keeps
<1> QED
  BY <1>1, <1>3, <1>4

(* No scalar attribute has the name of a window's lists, which the binder  *)
(* would read where shape inference reads the lists alone.                 *)
ListsOnly(node) ==
  DOMAIN node.ints \cap {"strides", "pads", "dilations", "kernel_shape"} = {}

(* So a kernel is passed the windows that shape inference counted.         *)
LEMMA WindowIsPassed ==
  ASSUME NEW node, NEW kernel, LaunchOf(node, kernel), StepsSourced(kernel.arguments),
         ListsOnly(node), Windowed(node, Strides(node)),
         WindowsFit(node, Strides(node), descs[node.ins[1]].shape)
  PROVE  WindowPassed(last.arguments, node, Strides(node), descs[node.ins[1]].shape)
<1> DEFINE a == last.arguments
           x == descs[node.ins[1]].shape
<1>1. a["h"] = x[3] /\ a["w"] = x[4]
  <2>1. a["h"] \in ArgumentOf(InputDim(1, 3), node, descs)
    BY LaunchArgument DEF StepsSourced
  <2>2. a["w"] \in ArgumentOf(InputDim(1, 4), node, descs)
    BY LaunchArgument DEF StepsSourced
  <2> QED
    BY <2>1, <2>2, InputArgument
<1>2. /\ a["stride_h"] \in ArgumentOf(Attribute("strides", 1, 1), node, descs)
      /\ a["stride_w"] \in ArgumentOf(Attribute("strides", 2, 1), node, descs)
  BY LaunchArgument DEF StepsSourced
<1>3. /\ a["pad_h"] \in ArgumentOf(Attribute("pads", 1, 0), node, descs)
      /\ a["pad_w"] \in ArgumentOf(Attribute("pads", 2, 0), node, descs)
  BY LaunchArgument DEF StepsSourced
<1>4. /\ a["dilation_h"] \in ArgumentOf(Attribute("dilations", 1, 1), node, descs)
      /\ a["dilation_w"] \in ArgumentOf(Attribute("dilations", 2, 1), node, descs)
  BY LaunchArgument DEF StepsSourced
<1>5. /\ "strides" \notin DOMAIN node.ints /\ "pads" \notin DOMAIN node.ints
      /\ "dilations" \notin DOMAIN node.ints
  BY DEF ListsOnly
<1> HIDE DEF a, x
<1>6. a["stride_h"] = Strides(node)[1] /\ a["stride_w"] = Strides(node)[2]
  <2> DEFINE list == Strides(node)
             fallback == <<1, 1>>
  <2>1. list = ListAttribute(node, "strides", fallback) /\ fallback[1] = 1 /\ fallback[2] = 1
    BY DEF Strides
  <2>2. /\ 1 \in DOMAIN list /\ 2 \in DOMAIN list
        /\ list[1] \in (-Int32Max)..Int32Max /\ list[2] \in (-Int32Max)..Int32Max
    <3>1. list[1] \in Nat \ {0} /\ list[2] \in Nat \ {0} /\ 1 \in DOMAIN list /\ 2 \in DOMAIN list
      BY TwoElements DEF Windowed
    <3>2. list[1] <= Int32Max /\ list[2] <= Int32Max /\ Int32Max \in Nat
      BY KernelAssumption DEF WindowsFit
    <3> HIDE DEF list
    <3> QED
      BY <3>1, <3>2
  <2> HIDE DEF list, fallback
  <2> QED
    BY <1>2, <1>5, <2>1, <2>2, AttributeArgument DEF list
<1>7. a["pad_h"] = Pads(node)[1] /\ a["pad_w"] = Pads(node)[2]
  <2> DEFINE list == Pads(node)
             fallback == <<0, 0, 0, 0>>
  <2>1. list = ListAttribute(node, "pads", fallback) /\ fallback[1] = 0 /\ fallback[2] = 0
    BY DEF Pads
  <2>2. /\ 1 \in DOMAIN list /\ 2 \in DOMAIN list
        /\ list[1] \in (-Int32Max)..Int32Max /\ list[2] \in (-Int32Max)..Int32Max
    BY FourElements DEF Windowed, WindowsFit
  <2> HIDE DEF list, fallback
  <2> QED
    BY <1>3, <1>5, <2>1, <2>2, AttributeArgument DEF list
<1>8. a["dilation_h"] = Dilations(node)[1] /\ a["dilation_w"] = Dilations(node)[2]
  <2> DEFINE list == Dilations(node)
             fallback == <<1, 1>>
  <2>1. list = ListAttribute(node, "dilations", fallback) /\ fallback[1] = 1 /\ fallback[2] = 1
    BY DEF Dilations
  <2>2. /\ 1 \in DOMAIN list /\ 2 \in DOMAIN list
        /\ list[1] \in (-Int32Max)..Int32Max /\ list[2] \in (-Int32Max)..Int32Max
    <3>1. 1 \in DOMAIN list /\ 2 \in DOMAIN list
      BY TwoElements DEF Windowed
    <3>2. list[1] \in 0..Int32Max /\ list[2] \in 0..Int32Max /\ Int32Max \in Nat
      BY KernelAssumption DEF WindowsFit
    <3> HIDE DEF list
    <3> QED
      BY <3>1, <3>2
  <2> HIDE DEF list, fallback
  <2> QED
    BY <1>4, <1>5, <2>1, <2>2, AttributeArgument DEF list
<1> QED
  BY <1>1, <1>6, <1>7, <1>8 DEF WindowPassed, a, x

(* 32 bits count the elements of a tensor.                                 *)
Sized(shape) == Volume(shape) <= Int32Max /\ \A i \in DOMAIN shape : shape[i] > 0

(* Each of these operands has an element for each of the output's channels.*)
PerChannel(node, ks) ==
  \A k \in ks : k \in DOMAIN node.ins
                /\ descs[node.out].shape[2] <= Volume(descs[node.ins[k]].shape)

(* A volume is an integer.                                                 *)
LEMMA VolumeTyped ==
  ASSUME NEW shape \in Seq(Int)
  PROVE  Volume(shape) \in Int
<1>1. PICK volume : Volumes(shape, volume) /\ Volume(shape) = volume[Len(shape)]
  BY VolumeUnfolds
<1>2. volume \in [0..Len(shape) -> Int] /\ Len(shape) \in 0..Len(shape)
  BY <1>1 DEF Volumes
<1> QED
  BY <1>1, <1>2

(* A channel is then an element of each.                                   *)
LEMMA ChannelInside ==
  ASSUME NEW node, NEW kernel, LaunchOf(node, kernel), NEW ks, PerChannel(node, ks), NEW k \in ks,
         NEW channel \in 0..(descs[node.out].shape[2] - 1), descs[node.out].shape[2] \in Int
  PROVE  <<k, channel>> \in From(k, Elements(last.node.ins[k]))
<1>1. last.node = node
  BY DEF LaunchOf
<1>2. k \in DOMAIN node.ins /\ descs[node.out].shape[2] <= Volume(descs[node.ins[k]].shape)
  BY DEF PerChannel
<1>3. Volume(descs[node.ins[k]].shape) \in Int
  BY <1>2, LaunchDescribed, VolumeTyped
<1>4. channel \in Elements(node.ins[k])
  <2> DEFINE size == Volume(descs[node.ins[k]].shape)
             channels == descs[node.out].shape[2]
  <2>1. size \in Int /\ channels \in Int /\ channels <= size /\ channel \in 0..(channels - 1)
    BY <1>2, <1>3
  <2>2. Elements(node.ins[k]) = 0..(size - 1)
    BY DEF Elements
  <2> HIDE DEF size, channels
  <2> QED
    BY <2>1, <2>2
<1> QED
  BY <1>1, <1>4 DEF From

(* The operands of a convolution's element.                                *)
LEMMA ConvOperandsAre ==
  ASSUME NEW node, node.op \in ConvLike, NEW o
  PROVE  Operands(node, o)
           = ConvOperands(node, descs[node.ins[1]].shape, descs[node.ins[2]].shape,
                          descs[node.out].shape, o)
             \cup {<<k, Coordinate(descs[node.out].shape, o, 2)>> : k \in 3..Len(node.ins)}
<1> DEFINE x == descs[node.ins[1]].shape
           w == descs[node.ins[2]].shape
           y == descs[node.out].shape
           image == WindowOperands(node, Strides(node), x, y, o, <<w[3], w[4]>>, 0..(w[2] - 1))
           filters == From(2, FilterOffsets(w, Coordinate(y, o, 2)))
           perChannel == {<<k, Coordinate(y, o, 2)>> : k \in 3..Len(node.ins)}
<1>1. /\ node.op \notin Elementwise \cup {"Relu", "Gelu"} \cup GemmLike
      /\ node.op \notin {"BatchNormalization", "MaxPool", "GlobalAveragePool"}
      /\ node.op \notin {"Softmax", "LayerNormalization", "SkipLayerNormalization"}
  BY DEF ConvLike, GemmLike, Elementwise
<1>2. Operands(node, o) = image \cup filters \cup perChannel
  BY <1>1, Zenon DEF Operands
<1> QED
  BY <1>2 DEF ConvOperands

(* As many arguments are described as the node has inputs.                 *)
LEMMA LaunchCounts ==
  ASSUME NEW node, NEW kernel, LaunchOf(node, kernel)
  PROVE  Len(node.ins) = Len(Args(descs, node))
<1>1. TypedNode(node) /\ descs \in [Value -> Desc]
  BY DEF LaunchOf
<1> QED
  BY <1>1, ArgsTyped, Zenon

(* Convolutions.                                                           *)
LEMMA ConvLaunchReads ==
  ASSUME NEW node, NEW kernel, LaunchOf(node, kernel), kernel.arguments = ConvArguments,
         \/ kernel.program = "conv" /\ kernel.op = "Conv"
         \/ kernel.program = "fused_conv" /\ kernel.op \in ConvLike \ {"Conv"},
         \A k \in DOMAIN node.ins : Sized(descs[node.ins[k]].shape),
         ListsOnly(node), WindowsFit(node, Strides(node), descs[node.ins[1]].shape),
         descs[node.ins[2]].shape[2] = descs[node.ins[1]].shape[2],
         PerChannel(node, 3..Len(node.ins)), NEW o \in Elements(node.out)
  PROVE  ReadsOperands(o)
<1> DEFINE r == descs[node.out]
           x == descs[node.ins[1]]
           w == descs[node.ins[2]]
           a == last.arguments
           channel == Coordinate(r.shape, o, 2)
           count == Len(node.ins)
           read == Reads(last.program, o, a, count)
<1>1. last.node = node /\ last.program = kernel.program /\ TypedNode(node) /\ node.op = kernel.op
  BY DEF LaunchOf
<1>2. node.op \in ConvLike
  BY <1>1 DEF ConvLike
<1>3. /\ a["n"] \in ArgumentOf(InputDim(1, 1), node, descs)
      /\ a["k"] \in ArgumentOf(InputDim(2, 1), node, descs)
      /\ a["out_h"] \in ArgumentOf(OutputDim(3), node, descs)
      /\ a["out_w"] \in ArgumentOf(OutputDim(4), node, descs)
  BY LaunchArgument, ConvSources
<1>4. /\ a["c"] \in ArgumentOf(InputDim(1, 2), node, descs)
      /\ a["r"] \in ArgumentOf(InputDim(2, 3), node, descs)
      /\ a["s"] \in ArgumentOf(InputDim(2, 4), node, descs)
  BY LaunchArgument, ConvReadSources
<1>5. /\ 1 \in DOMAIN node.ins /\ 2 \in DOMAIN node.ins
      /\ a["k"] = w.shape[1] /\ a["c"] = x.shape[2] /\ a["r"] = w.shape[3] /\ a["s"] = w.shape[4]
  BY <1>3, <1>4, InputArgument
<1>6. a["out_h"] = r.shape[3] /\ a["out_w"] = r.shape[4]
  BY <1>3, OutputArgument
<1>7. /\ x \in Desc /\ w \in Desc /\ r \in Desc /\ r.shape \in Seq(Int)
      /\ Args(descs, node)[1] = x /\ Args(descs, node)[2] = w
      /\ DOMAIN node.ins = 1..Len(Args(descs, node)) /\ Len(Args(descs, node)) \in Nat
  BY <1>5, LaunchDescribed
<1>8. r \in Infer(node, Args(descs, node))
  BY DEF LaunchOf
<1>9. r \in InferConvLike(node, x, w) /\ Len(Args(descs, node)) \in InputCounts(node.op)
  BY <1>2, <1>7, <1>8, InferCases DEF ConvLike, GemmLike, PoolLike
<1>10. count = Len(Args(descs, node))
  BY <1>1, LaunchCounts
<1>11. IF kernel.program = "conv" THEN count = 2 ELSE count = 6
  <2>1. /\ InputCounts("Conv") = {2}
        /\ \A op \in ConvLike \ {"Conv"} : InputCounts(op) = {6}
    <3>1. InputCounts("Conv") = {2}
      BY DEF InputCounts, Elementwise, PoolLike
    <3>2. \A op \in {"FusedConvBatchNorm", "FusedConvBatchNormRelu"} : InputCounts(op) = {6}
      BY DEF InputCounts, Elementwise, PoolLike
    <3> QED
      BY <3>1, <3>2 DEF ConvLike
  <2> HIDE DEF count
  <2> QED
    BY <1>1, <1>9, <1>10, <2>1
<1>12. /\ Volume(x.shape) <= Int32Max /\ Volume(w.shape) <= Int32Max
       /\ Elements(node.ins[1]) = 0..(Volume(x.shape) - 1)
       /\ Elements(node.ins[2]) = 0..(Volume(w.shape) - 1)
       /\ Elements(node.out) = 0..(Volume(r.shape) - 1)
  BY <1>5 DEF Sized, Elements
<1>13. /\ Len(r.shape) = 4 /\ r.shape[2] = w.shape[1] /\ Valid(r) /\ Windowed(node, Strides(node))
  <2> HIDE DEF r, x, w
  <2> QED
    BY <1>1, <1>7, <1>9, InferredConv
<1>14. WindowPassed(a, node, Strides(node), x.shape)
  BY <1>13, WindowIsPassed, ConvReadSources
<1>15. w.shape[2] = x.shape[2] /\ WindowsFit(node, Strides(node), x.shape)
       /\ o \in 0..(Volume(r.shape) - 1)
  BY <1>12
<1> HIDE DEF r, x, w, a, channel, count, read
<1>16. /\ ConvReads(o, a) = ConvOperands(node, x.shape, w.shape, r.shape, o)
       /\ ConvReads(o, a) \subseteq From(1, 0..(Volume(x.shape) - 1))
                                    \cup From(2, 0..(Volume(w.shape) - 1))
       /\ channel \in 0..(r.shape[2] - 1)
  BY <1>1, <1>5, <1>6, <1>7, <1>9, <1>12, <1>14, <1>15, ConvReadsAre DEF channel
<1>17. (o \div (a.out_w * a.out_h)) % a.k = channel /\ r.shape[2] \in Int
  <2>1. /\ 1 \in DOMAIN r.shape /\ 2 \in DOMAIN r.shape
        /\ 3 \in DOMAIN r.shape /\ 4 \in DOMAIN r.shape /\ r.shape[2] \in Int
    BY <1>7, <1>13, FourElements
  <2>2. r.shape[1] > 0 /\ r.shape[2] > 0 /\ r.shape[3] > 0 /\ r.shape[4] > 0
    BY <1>13, <2>1 DEF Valid
  <2>3. (o \div (a.out_w * a.out_h)) % r.shape[2] = Coordinate(r.shape, o, 2)
    BY <1>6, <1>7, <1>13, <1>15, <2>2, KernelCoordinates
  <2> QED
    BY <1>5, <1>13, <2>1, <2>3 DEF channel
<1> DEFINE perChannel == {<<k, channel>> : k \in 3..count}
<1>18. read = ConvReads(o, a) \cup perChannel
  <2>1. CASE kernel.program = "conv"
    <3>1. read = ConvReads(o, a)
      BY <1>1, <2>1 DEF Reads, read
    <3>2. perChannel = {}
      BY <1>11, <2>1
    <3> HIDE DEF perChannel
    <3> QED
      BY <3>1, <3>2
  <2>2. CASE kernel.program # "conv"
    <3>1. last.program = "fused_conv" /\ count = 6
      BY <1>1, <1>11, <2>2
    <3>2. read = ConvReads(o, a) \cup {<<k, (o \div (a.out_w * a.out_h)) % a.k>> : k \in 3..6}
      BY <3>1 DEF Reads, read
    <3> QED
      BY <1>17, <3>1, <3>2
  <2> QED
    BY <2>1, <2>2
<1>19. Operands(node, o) = ConvOperands(node, x.shape, w.shape, r.shape, o) \cup perChannel
  BY <1>2, ConvOperandsAre DEF x, w, r, channel, count
<1>20. ASSUME NEW at2 \in read PROVE \E k : at2 \in From(k, Elements(last.node.ins[k]))
  <2>1. CASE at2 \in ConvReads(o, a)
    BY <1>1, <1>12, <1>16, <2>1
  <2>2. CASE at2 \in perChannel
    <3>1. PICK k \in 3..count : at2 = <<k, channel>>
      BY <2>2
    <3>2. <<k, channel>> \in From(k, Elements(last.node.ins[k]))
      <4>1. PerChannel(node, 3..count) /\ channel \in 0..(descs[node.out].shape[2] - 1)
            /\ descs[node.out].shape[2] \in Int
        BY <1>16, <1>17 DEF r, count
      <4> QED
        BY <4>1, ChannelInside
    <3> QED
      BY <3>1, <3>2
  <2> HIDE DEF perChannel
  <2> QED
    BY <1>18, <1>20, <2>1, <2>2
<1> HIDE DEF perChannel
<1>21. read = Operands(last.node, o)
  BY <1>1, <1>16, <1>18, <1>19
<1> QED
  BY <1>1, <1>20, <1>21, ReadsSuffice DEF read, a, count

(* The same element of several operands.                                   *)
PerOperand(ks, i) == {<<k, i>> : k \in ks}

(* And those of the other operators.                                       *)
LEMMA OperandsByOp ==
  ASSUME NEW node, NEW o
  PROVE  LET x == descs[node.ins[1]].shape
             w == descs[node.ins[2]].shape
             y == descs[node.out].shape
             column == o % Last(y)
             channel == Coordinate(y, o, 2)
         IN  /\ node.op \in {"Relu", "Gelu", "Add", "AddRelu"} =>
                  Operands(node, o) = PerOperand(DOMAIN node.ins, o)
             /\ node.op = "BatchNormalization" =>
                  Operands(node, o) = {<<1, o>>} \cup PerOperand(2..5, channel)
             /\ node.op = "MaxPool" =>
                  Operands(node, o) = WindowOperands(node, PoolStrides(node), x, y, o,
                                                     PoolKernel(node), {channel})
             /\ node.op = "GlobalAveragePool" =>
                  Operands(node, o) = From(1, PlaneOffsets(x, Coordinate(y, o, 1), channel))
             /\ node.op \in GemmLike => Operands(node, o) = ProductOperands(node, x, w, y, o)
             /\ node.op = "Softmax" => Operands(node, o) = From(1, RowOffsets(y, o))
             /\ node.op = "LayerNormalization" =>
                  Operands(node, o) = From(1, RowOffsets(y, o)) \cup {<<2, column>>, <<3, column>>}
             /\ node.op = "SkipLayerNormalization" =>
                  Operands(node, o) = From(1, RowOffsets(y, o)) \cup From(2, RowOffsets(y, o))
                                      \cup {<<3, column>>, <<4, column>>}
<1>1. Elementwise = {"Add", "AddRelu"} /\ GemmLike = {"Gemm", "GemmGelu", "MatMul"}
      /\ ConvLike = {"Conv", "FusedConvBatchNorm", "FusedConvBatchNormRelu"}
  BY DEF Elementwise, GemmLike, ConvLike
<1> DEFINE row == RowOffsets(descs[node.out].shape, o)
           column == o % Last(descs[node.out].shape)
           x == descs[node.ins[1]].shape
           w == descs[node.ins[2]].shape
           y == descs[node.out].shape
           channel == Coordinate(y, o, 2)
<1>2. ASSUME node.op \in {"Relu", "Gelu", "Add", "AddRelu"}
      PROVE  Operands(node, o) = PerOperand(DOMAIN node.ins, o)
  <2>1. /\ node.op \in Elementwise \cup {"Relu", "Gelu"} /\ node.op \notin ConvLike \cup GemmLike
        /\ node.op \notin {"BatchNormalization", "MaxPool", "GlobalAveragePool"}
        /\ node.op \notin {"Softmax", "LayerNormalization", "SkipLayerNormalization"}
    BY <1>1, <1>2
  <2> QED
    BY <2>1, Zenon DEF Operands, PerOperand
<1>3. ASSUME node.op = "BatchNormalization"
      PROVE  Operands(node, o) = {<<1, o>>} \cup PerOperand(2..5, channel)
  <2>1. /\ node.op \notin Elementwise \cup {"Relu", "Gelu"} \cup ConvLike \cup GemmLike
        /\ node.op \notin {"MaxPool", "GlobalAveragePool"}
        /\ node.op \notin {"Softmax", "LayerNormalization", "SkipLayerNormalization"}
    BY <1>1, <1>3
  <2> QED
    BY <1>3, <2>1, Zenon DEF Operands, PerOperand
<1>4. ASSUME node.op = "MaxPool"
      PROVE  Operands(node, o) = WindowOperands(node, PoolStrides(node), x, y, o,
                                                PoolKernel(node), {channel})
  <2>1. /\ node.op \notin Elementwise \cup {"Relu", "Gelu"} \cup ConvLike \cup GemmLike
        /\ node.op \notin {"BatchNormalization", "GlobalAveragePool"}
        /\ node.op \notin {"Softmax", "LayerNormalization", "SkipLayerNormalization"}
    BY <1>1, <1>4
  <2> QED
    BY <1>4, <2>1, Zenon DEF Operands
<1>5. ASSUME node.op = "GlobalAveragePool"
      PROVE  Operands(node, o) = From(1, PlaneOffsets(x, Coordinate(y, o, 1), channel))
  <2>1. /\ node.op \notin Elementwise \cup {"Relu", "Gelu"} \cup ConvLike \cup GemmLike
        /\ node.op \notin {"BatchNormalization", "MaxPool"}
        /\ node.op \notin {"Softmax", "LayerNormalization", "SkipLayerNormalization"}
    BY <1>1, <1>5
  <2> QED
    BY <1>5, <2>1, Zenon DEF Operands
<1>6. ASSUME node.op \in GemmLike
      PROVE  Operands(node, o) = ProductOperands(node, x, w, y, o)
  <2>1. /\ node.op \notin Elementwise \cup {"Relu", "Gelu"} \cup ConvLike
        /\ node.op \notin {"BatchNormalization", "MaxPool", "GlobalAveragePool"}
        /\ node.op \notin {"Softmax", "LayerNormalization", "SkipLayerNormalization"}
    BY <1>1, <1>6
  <2> QED
    BY <1>6, <2>1, Zenon DEF Operands
<1>7. ASSUME node.op = "Softmax" PROVE Operands(node, o) = From(1, row)
  <2>1. /\ node.op \notin Elementwise \cup {"Relu", "Gelu"} \cup ConvLike \cup GemmLike
        /\ node.op \notin {"BatchNormalization", "MaxPool", "GlobalAveragePool"}
        /\ node.op \notin {"LayerNormalization", "SkipLayerNormalization"}
    BY <1>1, <1>7
  <2> QED
    BY <1>7, <2>1, Zenon DEF Operands
<1>8. ASSUME node.op = "LayerNormalization"
      PROVE  Operands(node, o) = From(1, row) \cup {<<2, column>>, <<3, column>>}
  <2>1. /\ node.op \notin Elementwise \cup {"Relu", "Gelu"} \cup ConvLike \cup GemmLike
        /\ node.op \notin {"BatchNormalization", "MaxPool", "GlobalAveragePool"}
        /\ node.op \notin {"Softmax", "SkipLayerNormalization"}
    BY <1>1, <1>8
  <2> QED
    BY <1>8, <2>1, Zenon DEF Operands
<1>9. ASSUME node.op = "SkipLayerNormalization"
      PROVE  Operands(node, o) = From(1, row) \cup From(2, row) \cup {<<3, column>>, <<4, column>>}
  <2>1. /\ node.op \notin Elementwise \cup {"Relu", "Gelu"} \cup ConvLike \cup GemmLike
        /\ node.op \notin {"BatchNormalization", "MaxPool", "GlobalAveragePool"}
        /\ node.op \notin {"Softmax", "LayerNormalization"}
    BY <1>1, <1>9
  <2> QED
    BY <1>9, <2>1, Zenon DEF Operands
<1> QED
  BY <1>2, <1>3, <1>4, <1>5, <1>6, <1>7, <1>8, <1>9, Zenon

(* Max pooling.                                                            *)
LEMMA PoolLaunchReads ==
  ASSUME NEW node, NEW kernel, LaunchOf(node, kernel), kernel.arguments = PoolArguments,
         kernel.program = "max_pool", kernel.op = "MaxPool",
         \A k \in DOMAIN node.ins : Sized(descs[node.ins[k]].shape),
         ListsOnly(node), "strides" \in DOMAIN node.lists,
         WindowsFit(node, Strides(node), descs[node.ins[1]].shape),
         \A axis \in 1..2 : PoolKernel(node)[axis] \in 0..Int32Max,
         NEW o \in Elements(node.out)
  PROVE  ReadsOperands(o)
<1> DEFINE r == descs[node.out]
           x == descs[node.ins[1]]
           a == last.arguments
           read == Reads(last.program, o, a, Len(node.ins))
<1>1. last.node = node /\ last.program = kernel.program /\ TypedNode(node) /\ node.op = "MaxPool"
  BY DEF LaunchOf
<1>2. /\ a["n"] \in ArgumentOf(InputDim(1, 1), node, descs)
      /\ a["out_h"] \in ArgumentOf(OutputDim(3), node, descs)
      /\ a["out_w"] \in ArgumentOf(OutputDim(4), node, descs)
  BY LaunchArgument, PoolSources
<1>3. /\ a["r"] \in ArgumentOf(Attribute("kernel_shape", 1, 1), node, descs)
      /\ a["s"] \in ArgumentOf(Attribute("kernel_shape", 2, 1), node, descs)
  BY LaunchArgument, PoolReadSources
<1>4. 1 \in DOMAIN node.ins
  BY <1>2, InputArgument
<1>5. a["out_h"] = r.shape[3] /\ a["out_w"] = r.shape[4]
  BY <1>2, OutputArgument
<1>6. x \in Desc /\ Args(descs, node)[1] = x
  BY <1>4, LaunchDescribed
<1>7. r \in Infer(node, Args(descs, node))
  BY DEF LaunchOf
<1>8. r \in InferPool(node, x)
  BY <1>1, <1>6, <1>7, InferCases DEF ConvLike, GemmLike, PoolLike
<1>9. PoolStrides(node) = Strides(node)
  BY DEF PoolStrides, Strides, ListAttribute
<1>10. /\ Volume(x.shape) <= Int32Max /\ Elements(node.ins[1]) = 0..(Volume(x.shape) - 1)
       /\ Elements(node.out) = 0..(Volume(r.shape) - 1)
  BY <1>4 DEF Sized, Elements
<1>11. Windowed(node, PoolStrides(node)) /\ PoolKernel(node) \in Seq(Int)
       /\ Len(PoolKernel(node)) = 2
  <2> HIDE DEF r, x
  <2> QED
    BY <1>1, <1>6, <1>8, InferredPool
<1>12. WindowPassed(a, node, PoolStrides(node), x.shape)
  BY <1>9, <1>11, WindowIsPassed, PoolReadSources
<1>13. a["r"] = PoolKernel(node)[1] /\ a["s"] = PoolKernel(node)[2]
  <2> DEFINE list == PoolKernel(node)
             fallback == <<1, 1>>
  <2>1. list = ListAttribute(node, "kernel_shape", fallback) /\ fallback[1] = 1 /\ fallback[2] = 1
    BY DEF PoolKernel
  <2>2. /\ 1 \in DOMAIN list /\ 2 \in DOMAIN list
        /\ list[1] \in (-Int32Max)..Int32Max /\ list[2] \in (-Int32Max)..Int32Max
    <3>1. 1 \in DOMAIN list /\ 2 \in DOMAIN list
      BY <1>11, TwoElements
    <3>2. list[1] \in 0..Int32Max /\ list[2] \in 0..Int32Max /\ Int32Max \in Nat
      BY KernelAssumption
    <3> HIDE DEF list
    <3> QED
      BY <3>1, <3>2
  <2>3. "kernel_shape" \notin DOMAIN node.ints
    BY DEF ListsOnly
  <2> HIDE DEF list, fallback, a
  <2>4. a["r"] = list[1]
    BY <1>3, <2>1, <2>2, <2>3, AttributeArgument
  <2>5. a["s"] = list[2]
    BY <1>3, <2>1, <2>2, <2>3, AttributeArgument
  <2> QED
    BY <2>4, <2>5 DEF list
<1>14. WindowsFit(node, PoolStrides(node), x.shape) /\ o \in 0..(Volume(r.shape) - 1)
  BY <1>9, <1>10
<1>15. read = PoolReads(o, a)
  BY <1>1 DEF Reads
<1> HIDE DEF r, x, a, read
<1>16. /\ PoolReads(o, a) = PoolOperands(node, x.shape, r.shape, o)
       /\ PoolReads(o, a) \subseteq From(1, 0..(Volume(x.shape) - 1))
  <2>1. /\ a.r = PoolKernel(node)[1] /\ a.s = PoolKernel(node)[2]
        /\ a.out_h = r.shape[3] /\ a.out_w = r.shape[4] /\ TypedNode(node)
        /\ Volume(x.shape) <= Int32Max
    BY <1>1, <1>5, <1>10, <1>13
  <2> QED
    BY <1>6, <1>8, <1>12, <1>14, <2>1, PoolReadsAre
<1>17. read = Operands(last.node, o)
  BY <1>1, <1>15, <1>16, OperandsByOp DEF x, r, PoolOperands
<1>18. \A at2 \in read : \E k : at2 \in From(k, Elements(last.node.ins[k]))
  BY <1>1, <1>10, <1>15, <1>16
<1> QED
  BY <1>1, <1>17, <1>18, ReadsSuffice DEF read, a

(* Global average pooling.                                                 *)
LEMMA AverageLaunchReads ==
  ASSUME NEW node, NEW kernel, LaunchOf(node, kernel), kernel.arguments = AverageArguments,
         kernel.program = "global_average_pool", kernel.op = "GlobalAveragePool",
         \A k \in DOMAIN node.ins : Sized(descs[node.ins[k]].shape),
         NEW o \in Elements(node.out)
  PROVE  ReadsOperands(o)
<1> DEFINE r == descs[node.out]
           x == descs[node.ins[1]]
           a == last.arguments
           read == Reads(last.program, o, a, Len(node.ins))
           offsets == PlaneReads(o, x.shape[3], x.shape[4])
<1>1. /\ last.node = node /\ last.program = kernel.program
      /\ node.op = "GlobalAveragePool" /\ r \in Infer(node, Args(descs, node))
  BY DEF LaunchOf
<1>2. /\ a["h"] \in ArgumentOf(InputDim(1, 3), node, descs)
      /\ a["w"] \in ArgumentOf(InputDim(1, 4), node, descs)
  BY LaunchArgument, OtherReadSources
<1>3. 1 \in DOMAIN node.ins /\ a["h"] = x.shape[3] /\ a["w"] = x.shape[4]
  BY <1>2, InputArgument
<1>4. x \in Desc /\ Args(descs, node)[1] = x
  BY <1>3, LaunchDescribed
<1>5. r \in InferGlobalAveragePool(x)
  BY <1>1, <1>4, InferCases DEF ConvLike, GemmLike, PoolLike
<1>6. /\ Volume(x.shape) <= Int32Max /\ \A i \in DOMAIN x.shape : x.shape[i] > 0
      /\ Elements(node.ins[1]) = 0..(Volume(x.shape) - 1)
      /\ Elements(node.out) = 0..(Volume(r.shape) - 1)
  BY <1>3 DEF Sized, Elements
<1>7. read = From(1, offsets)
  BY <1>1, <1>3 DEF Reads, PlaneReads
<1> HIDE DEF r, x, a, read
<1>8. /\ offsets = PlaneOffsets(x.shape, Coordinate(r.shape, o, 1), Coordinate(r.shape, o, 2))
      /\ offsets \subseteq 0..(Volume(x.shape) - 1)
  BY <1>4, <1>5, <1>6, AverageReadsAre
<1> HIDE DEF offsets
<1>9. read = Operands(last.node, o)
  BY <1>1, <1>7, <1>8, OperandsByOp DEF x, r
<1>10. \A at2 \in read : \E k : at2 \in From(k, Elements(last.node.ins[k]))
  <2>1. From(1, offsets) \subseteq From(1, Elements(node.ins[1]))
    <3>1. offsets \subseteq Elements(node.ins[1])
      BY <1>6, <1>8
    <3> QED
      BY <3>1, FromWithin
  <2> QED
    BY <1>1, <1>7, <2>1
<1> QED
  BY <1>1, <1>9, <1>10, ReadsSuffice DEF read, a

(* What a product's inference asks of the first two inputs.                *)
LEMMA ProductAsks ==
  ASSUME NEW node, NEW args, NEW r \in InferGemm(node, args)
  PROVE  /\ Len(args[1].shape) = 2 /\ Len(args[2].shape) = 2
         /\ Columns(args[1].shape, Transposed(node, "transA"))
              = Rows(args[2].shape, Transposed(node, "transB"))
BY Zenon DEF InferGemm

(* Products of matrices, element by element or by tile.                    *)
LEMMA ProductLaunchReads ==
  ASSUME NEW node, NEW kernel, LaunchOf(node, kernel), kernel.op \in GemmLike,
         kernel.program \in {"gemm", "gemm_tiled"},
         ~Transposed(node, "transA"), ~Transposed(node, "transB"),
         Sourced(kernel.arguments, "k", InputDim(1, 2)),
         \/ Sourced(kernel.arguments, "n", InputDim(2, 2))
         \/ Sourced(kernel.arguments, "n", OutputDim(2)),
         \A k \in DOMAIN node.ins : Sized(descs[node.ins[k]].shape),
         NEW o \in Elements(node.out)
  PROVE  ReadsOperands(o)
<1> DEFINE r == descs[node.out]
           args == Args(descs, node)
           x == descs[node.ins[1]]
           w == descs[node.ins[2]]
           a == last.arguments
           read == Reads(last.program, o, a, Len(node.ins))
<1>1. /\ last.node = node /\ last.program = kernel.program /\ TypedNode(node)
      /\ node.op \in GemmLike /\ r \in Infer(node, args)
  BY DEF LaunchOf
<1>2. r \in InferGemm(node, args) /\ Len(args) \in InputCounts(node.op)
  BY <1>1, InferCases DEF ConvLike, GemmLike, PoolLike
<1>3. 1 \in DOMAIN node.ins /\ 2 \in DOMAIN node.ins
  <2>1. Len(args) >= 2
    <3>1. node.op \in {"Gemm", "GemmGelu", "MatMul"}
      BY <1>1 DEF GemmLike
    <3>2. InputCounts(node.op) \subseteq {2, 3}
      BY <3>1 DEF InputCounts, Elementwise, PoolLike
    <3> QED
      BY <1>2, <3>2
  <2>2. DOMAIN node.ins = 1..Len(args) /\ Len(args) \in Nat
    BY LaunchDescribed
  <2> HIDE DEF args
  <2> QED
    BY <2>1, <2>2
<1>4. /\ x \in Desc /\ x.shape \in Seq(Int) /\ args[1] = x
      /\ w \in Desc /\ w.shape \in Seq(Int) /\ args[2] = w
      /\ r \in Desc /\ r.shape \in Seq(Int)
  BY <1>3, LaunchDescribed
<1>5. /\ Volume(x.shape) <= Int32Max /\ \A i \in DOMAIN x.shape : x.shape[i] > 0
      /\ Volume(w.shape) <= Int32Max /\ \A i \in DOMAIN w.shape : w.shape[i] > 0
      /\ Elements(node.ins[1]) = 0..(Volume(x.shape) - 1)
      /\ Elements(node.ins[2]) = 0..(Volume(w.shape) - 1)
      /\ Elements(node.out) = 0..(Volume(r.shape) - 1)
  BY <1>3 DEF Sized, Elements
<1>6. a["k"] = x.shape[2]
  <2>1. a["k"] \in ArgumentOf(InputDim(1, 2), node, descs)
    BY LaunchArgument
  <2> QED
    BY <2>1, InputArgument
<1>7. a["n"] = w.shape[2] \/ a["n"] = r.shape[2]
  <2>1. CASE Sourced(kernel.arguments, "n", InputDim(2, 2))
    <3>1. a["n"] \in ArgumentOf(InputDim(2, 2), node, descs)
      BY <2>1, LaunchArgument
    <3> QED
      BY <3>1, InputArgument
  <2>2. CASE Sourced(kernel.arguments, "n", OutputDim(2))
    <3>1. a["n"] \in ArgumentOf(OutputDim(2), node, descs)
      BY <2>2, LaunchArgument
    <3> QED
      BY <3>1, OutputArgument
  <2> QED
    BY <2>1, <2>2
<1>8. read = GemmReads(o, a)
  BY <1>1 DEF Reads
<1> HIDE DEF r, x, w, a, read, args
<1>9. Len(x.shape) = 2 /\ Len(w.shape) = 2 /\ x.shape[2] = w.shape[1]
  BY <1>2, <1>4, ProductAsks DEF Columns, Rows
<1>10. r.shape = <<x.shape[1], w.shape[2]>>
  <2>1. r.shape = <<Rows(args[1].shape, Transposed(node, "transA")),
                    Columns(args[2].shape, Transposed(node, "transB"))>>
    BY <1>2, <1>4, InferredGemm
  <2> QED
    BY <1>4, <2>1 DEF Rows, Columns
<1>11. /\ Len(r.shape) = 2 /\ r.shape[1] = x.shape[1] /\ r.shape[2] = w.shape[2]
       /\ a.n = r.shape[2] /\ a.k = x.shape[2]
  BY <1>6, <1>7, <1>10
<1>12. x.shape[1] > 0 /\ x.shape[2] > 0 /\ w.shape[2] > 0
  <2>1. 1 \in DOMAIN x.shape /\ 2 \in DOMAIN x.shape /\ 2 \in DOMAIN w.shape
    BY <1>4, <1>9, TwoElements
  <2> QED
    BY <1>5, <2>1
<1>13. /\ GemmReads(o, a) = ProductOperands(node, x.shape, w.shape, r.shape, o)
       /\ GemmReads(o, a) \subseteq From(1, 0..(Volume(x.shape) - 1))
                                    \cup From(2, 0..(Volume(w.shape) - 1))
  BY <1>4, <1>5, <1>9, <1>11, <1>12, GemmReadsAre
<1>14. read = Operands(last.node, o)
  BY <1>1, <1>8, <1>13, OperandsByOp DEF x, w, r
<1>15. \A at2 \in read : \E k : at2 \in From(k, Elements(last.node.ins[k]))
  BY <1>1, <1>5, <1>8, <1>13
<1> QED
  BY <1>1, <1>14, <1>15, ReadsSuffice DEF read, a

(* What the inference of a normalization over rows, and of one that adds a *)
(* second tensor first, asks of the other inputs.                          *)
LEMMA RowsAsk ==
  ASSUME NEW node, NEW args, NEW r \in Infer(node, args)
  PROVE  /\ node.op = "LayerNormalization" =>
              /\ args[2].shape = <<Last(args[1].shape)>>
              /\ Len(args) = 3 => args[3].shape = args[2].shape
         /\ node.op = "SkipLayerNormalization" =>
              /\ args[2] = args[1] /\ args[3].shape = <<Last(args[1].shape)>>
              /\ args[4].shape = args[3].shape
<1>1. /\ ConvLike = {"Conv", "FusedConvBatchNorm", "FusedConvBatchNormRelu"}
      /\ GemmLike = {"Gemm", "GemmGelu", "MatMul"} /\ Elementwise = {"Add", "AddRelu"}
      /\ "LayerNormalization" \notin SameAsInput /\ "SkipLayerNormalization" \notin SameAsInput
  BY DEF ConvLike, GemmLike, Elementwise, SameAsInput
<1>2. ASSUME node.op = "LayerNormalization"
      PROVE  /\ args[2].shape = <<Last(args[1].shape)>>
             /\ Len(args) = 3 => args[3].shape = args[2].shape
  <2>1. /\ node.op \notin ConvLike /\ node.op \notin SameAsInput /\ node.op \notin Elementwise
        /\ node.op \notin GemmLike /\ node.op \notin {"GlobalAveragePool", "Flatten"}
        /\ node.op \notin {"MaxPool", "AveragePool"} /\ node.op # "SkipLayerNormalization"
    BY <1>1, <1>2
  <2>2. Infer(node, args) # {}
    OBVIOUS
  <2>3. r \in InferLayerNormalization(node, args)
    BY <1>2, <2>1, <2>2, Zenon DEF Infer
  <2> QED
    BY <2>3, Zenon DEF InferLayerNormalization
<1>3. ASSUME node.op = "SkipLayerNormalization"
      PROVE  /\ args[2] = args[1] /\ args[3].shape = <<Last(args[1].shape)>>
             /\ args[4].shape = args[3].shape
  <2> DEFINE rows == <<args[1], args[3], args[4]>>
  <2>1. /\ node.op \notin ConvLike /\ node.op \notin SameAsInput /\ node.op \notin Elementwise
        /\ node.op \notin GemmLike /\ node.op \notin {"GlobalAveragePool", "Flatten"}
        /\ node.op \notin {"MaxPool", "AveragePool"} /\ node.op # "LayerNormalization"
    BY <1>1, <1>3
  <2>2. Infer(node, args) # {}
    OBVIOUS
  <2>3. InferElementwise(args) # {} /\ r \in InferLayerNormalization(node, rows)
    <3>1. r \in IF InferElementwise(args) = {} THEN {} ELSE InferLayerNormalization(node, rows)
      BY <1>3, <2>1, <2>2, Zenon DEF Infer
    <3> HIDE DEF rows
    <3> QED
      BY <3>1
  <2>4. args[2] = args[1]
    BY <2>3 DEF InferElementwise
  <2>5. Len(rows) = 3 /\ rows[1] = args[1] /\ rows[2] = args[3] /\ rows[3] = args[4]
    OBVIOUS
  <2> HIDE DEF rows
  <2>6. /\ rows[2].shape = <<Last(rows[1].shape)>>
        /\ Len(rows) = 3 => rows[3].shape = rows[2].shape
    BY <2>3, Zenon DEF InferLayerNormalization
  <2> QED
    BY <2>4, <2>5, <2>6
<1> QED
  BY <1>2, <1>3

(* A list has as many elements as its one dimension says.                  *)
LEMMA ListVolume ==
  ASSUME NEW n \in Int
  PROVE  Volume(<<n>>) = n
<1> DEFINE shape == <<n>>
<1>1. shape \in Seq(Int) /\ Len(shape) = 1 /\ shape[1] = n
  OBVIOUS
<1> HIDE DEF shape
<1>2. PICK volume : Volumes(shape, volume) /\ Volume(shape) = volume[1]
  BY <1>1, VolumeUnfolds
<1>3. volume[0] = 1 /\ volume[1] = volume[0] * n
  <2>1. volume[0] = 1 /\ \A i \in 1..1 : volume[i] = volume[i - 1] * shape[i]
    BY <1>1, <1>2 DEF Volumes
  <2> QED
    BY <1>1, <2>1
<1> QED
  BY <1>2, <1>3 DEF shape

(* So a column is an element of an operand with one per column.            *)
LEMMA ColumnInside ==
  ASSUME NEW k, NEW n \in Int, descs[last.node.ins[k]].shape = <<n>>, NEW column \in 0..(n - 1)
  PROVE  <<k, column>> \in From(k, Elements(last.node.ins[k]))
<1>1. Elements(last.node.ins[k]) = 0..(n - 1)
  BY ListVolume DEF Elements
<1> QED
  BY <1>1 DEF From

(* Normalization and softmax of the rows of a matrix, each in one block.   *)
LEMMA RowLaunchReads ==
  ASSUME NEW node, NEW kernel, LaunchOf(node, kernel),
         \/ kernel.program = "softmax" /\ kernel.op = "Softmax"
         \/ /\ kernel.program = "layer_norm" /\ kernel.op = "LayerNormalization"
            /\ kernel.counts = {3}
         \/ /\ kernel.program = "skip_layer_norm" /\ kernel.op = "SkipLayerNormalization"
            /\ kernel.counts = {4},
         kernel.ranks = << 2 >>, kernel.arguments = RowArguments,
         last.arguments.columns <= RowBlock,
         \A k \in DOMAIN node.ins : Sized(descs[node.ins[k]].shape),
         NEW o \in Elements(node.out)
  PROVE  ReadsOperands(o)
<1> DEFINE r == descs[node.out]
           y == r.shape
           args == Args(descs, node)
           a == last.arguments
           read == Reads(last.program, o, a, Len(node.ins))
           column == o % Last(y)
<1>1. /\ last.node = node /\ last.program = kernel.program /\ kernel.op = node.op
      /\ r \in Infer(node, args) /\ Len(node.ins) \in kernel.counts
      /\ Len(descs[node.ins[1]].shape) = 2
  BY DEF LaunchOf
<1>2. 1 \in DOMAIN node.ins /\ a["columns"] = descs[node.ins[1]].shape[2]
  <2>1. a["columns"] \in ArgumentOf(InputDim(1, 2), node, descs)
    BY LaunchArgument, OtherSources
  <2> QED
    BY <2>1, InputArgument
<1>3. /\ args[1] = descs[node.ins[1]] /\ y \in Seq(Int)
      /\ \A k \in DOMAIN node.ins : args[k] = descs[node.ins[k]]
      /\ Len(args) = Len(node.ins) /\ DOMAIN node.ins = 1..Len(node.ins)
  BY <1>2, LaunchDescribed, LaunchCounts
<1>4. r = args[1]
  BY <1>1, InferCases DEF ConvLike, GemmLike, PoolLike
<1>5. Volume(y) <= Int32Max /\ \A i \in DOMAIN y : y[i] > 0
  BY <1>2, <1>3, <1>4 DEF Sized
<1>6. /\ Elements(node.ins[1]) = 0..(Volume(y) - 1)
      /\ Elements(node.out) = 0..(Volume(y) - 1)
  BY <1>3, <1>4 DEF Elements
<1>7. Len(y) = 2 /\ a.columns = y[2] /\ y[2] <= RowBlock
  BY <1>1, <1>2, <1>3, <1>4
<1> DEFINE row == RowReads(o, a)
<1>8. /\ read = CASE last.program = "softmax" -> From(1, row)
                  [] last.program = "layer_norm" ->
                       From(1, row) \cup {<<2, o % a.columns>>, <<3, o % a.columns>>}
                  [] last.program = "skip_layer_norm" ->
                       From(1, row) \cup From(2, row)
                       \cup {<<3, o % a.columns>>, <<4, o % a.columns>>}
  BY <1>1 DEF Reads
<1> HIDE DEF y, a, read, args
<1>9. y[1] > 0 /\ y[2] > 0 /\ y[2] \in Int
  BY <1>3, <1>5, <1>7, TwoElements
<1>10. /\ row = RowOffsets(y, o) /\ row \subseteq 0..(Volume(y) - 1)
       /\ o % a.columns = column /\ column \in 0..(y[2] - 1)
  BY <1>3, <1>5, <1>6, <1>7, <1>9, RowReadsAre
<1>11. Last(y) = y[2]
  BY <1>7 DEF Last
<1> HIDE DEF row, column
<1>12. From(1, row) \subseteq From(1, Elements(node.ins[1]))
  <2>1. row \subseteq Elements(node.ins[1])
    BY <1>6, <1>10
  <2> QED
    BY <2>1, FromWithin
<1>13. CASE last.program = "softmax"
  <2>1. node.op = "Softmax"
    BY <1>1, <1>13
  <2>2. read = From(1, row)
    BY <1>8, <1>13
  <2>3. read = Operands(last.node, o)
    BY <1>1, <1>10, <2>1, <2>2, OperandsByOp DEF y, r
  <2>4. \A at2 \in read : \E k : at2 \in From(k, Elements(last.node.ins[k]))
    BY <1>1, <1>12, <2>2
  <2> QED
    BY <1>1, <2>3, <2>4, ReadsSuffice DEF read, a
<1>14. CASE last.program = "layer_norm"
  <2>1. node.op = "LayerNormalization" /\ Len(node.ins) = 3
    BY <1>1, <1>14
  <2>2. read = From(1, row) \cup {<<2, column>>, <<3, column>>}
    BY <1>8, <1>10, <1>14
  <2>3. read = Operands(last.node, o)
    BY <1>1, <1>10, <2>1, <2>2, OperandsByOp DEF y, r, column
  <2>4. /\ descs[node.ins[2]].shape = <<y[2]>> /\ descs[node.ins[3]].shape = <<y[2]>>
    <3>1. args[2].shape = <<Last(args[1].shape)>> /\ args[3].shape = args[2].shape
      BY <1>1, <1>3, <2>1, RowsAsk
    <3>2. args[2] = descs[node.ins[2]] /\ args[3] = descs[node.ins[3]]
      BY <1>3, <2>1
    <3> QED
      BY <1>4, <1>11, <3>1, <3>2 DEF y
  <2>5. /\ <<2, column>> \in From(2, Elements(last.node.ins[2]))
        /\ <<3, column>> \in From(3, Elements(last.node.ins[3]))
    BY <1>1, <1>9, <1>10, <2>4, ColumnInside
  <2>6. \A at2 \in read : \E k : at2 \in From(k, Elements(last.node.ins[k]))
    BY <1>1, <1>12, <2>2, <2>5
  <2> QED
    BY <1>1, <2>3, <2>6, ReadsSuffice DEF read, a
<1>15. CASE last.program = "skip_layer_norm"
  <2>1. node.op = "SkipLayerNormalization" /\ Len(node.ins) = 4
    BY <1>1, <1>15
  <2>2. read = From(1, row) \cup From(2, row) \cup {<<3, column>>, <<4, column>>}
    BY <1>8, <1>10, <1>15
  <2>3. read = Operands(last.node, o)
    BY <1>1, <1>10, <2>1, <2>2, OperandsByOp DEF y, r, column
  <2>4. /\ descs[node.ins[2]] = r
        /\ descs[node.ins[3]].shape = <<y[2]>> /\ descs[node.ins[4]].shape = <<y[2]>>
    <3>1. /\ args[2] = args[1] /\ args[3].shape = <<Last(args[1].shape)>>
          /\ args[4].shape = args[3].shape
      BY <1>1, <2>1, RowsAsk
    <3>2. /\ args[2] = descs[node.ins[2]] /\ args[3] = descs[node.ins[3]]
          /\ args[4] = descs[node.ins[4]]
      BY <1>3, <2>1
    <3> QED
      BY <1>4, <1>11, <3>1, <3>2 DEF y
  <2>5. /\ <<3, column>> \in From(3, Elements(last.node.ins[3]))
        /\ <<4, column>> \in From(4, Elements(last.node.ins[4]))
    BY <1>1, <1>9, <1>10, <2>4, ColumnInside
  <2>6. From(2, row) \subseteq From(2, Elements(node.ins[2]))
    <3>1. row \subseteq Elements(node.ins[2])
      BY <1>10, <2>4 DEF Elements, y
    <3> QED
      BY <3>1, FromWithin
  <2>7. \A at2 \in read : \E k : at2 \in From(k, Elements(last.node.ins[k]))
    BY <1>1, <1>12, <2>2, <2>5, <2>6
  <2> QED
    BY <1>1, <2>3, <2>7, ReadsSuffice DEF read, a
<1> QED
  BY <1>1, <1>13, <1>14, <1>15

(* What the inference of an elementwise operator asks of its inputs, which *)
(* are two, or one for the activations.                                    *)
LEMMA ElementsAsk ==
  ASSUME NEW node, NEW args, NEW r \in Infer(node, args),
         node.op \in {"Relu", "Gelu", "Add", "AddRelu"}
  PROVE  Len(args) = 1 \/ (Len(args) = 2 /\ args[2] = args[1])
<1>1. /\ ConvLike = {"Conv", "FusedConvBatchNorm", "FusedConvBatchNormRelu"}
      /\ Elementwise = {"Add", "AddRelu"}
      /\ SameAsInput = {"BatchNormalization", "Relu", "Gelu", "Softmax"}
      /\ PoolLike = {"MaxPool", "AveragePool", "GlobalAveragePool"}
  BY DEF ConvLike, Elementwise, SameAsInput, PoolLike
<1>2. Len(args) \in InputCounts(node.op)
  BY InferCases
<1>3. CASE node.op \in {"Relu", "Gelu"}
  <2>1. InputCounts(node.op) = {1}
    BY <1>1, <1>3 DEF InputCounts
  <2> QED
    BY <1>2, <2>1
<1>4. CASE node.op \in {"Add", "AddRelu"}
  <2>1. InputCounts(node.op) = {2}
    BY <1>1, <1>4 DEF InputCounts
  <2>2. node.op \notin ConvLike /\ node.op \notin SameAsInput /\ node.op \in Elementwise
    BY <1>1, <1>4
  <2>3. Infer(node, args) # {}
    OBVIOUS
  <2>4. /\ node.op \notin GemmLike /\ node.op \notin {"GlobalAveragePool", "Flatten"}
        /\ node.op \notin {"MaxPool", "AveragePool"}
        /\ node.op \notin {"LayerNormalization", "SkipLayerNormalization"}
    BY <1>4 DEF GemmLike
  <2>5. r \in InferElementwise(args)
    BY <2>2, <2>3, <2>4, Zenon DEF Infer
  <2> QED
    BY <1>2, <2>1, <2>5 DEF InferElementwise
<1> QED
  BY <1>3, <1>4

(* Elementwise operators.                                                  *)
LEMMA ElementLaunchReads ==
  ASSUME NEW node, NEW kernel, LaunchOf(node, kernel), kernel.program = "elementwise",
         kernel.op \in {"Relu", "Gelu", "Add", "AddRelu"}, NEW o \in Elements(node.out)
  PROVE  ReadsOperands(o)
<1> DEFINE r == descs[node.out]
           args == Args(descs, node)
           count == Len(node.ins)
           read == PerOperand(1..count, o)
<1>1. /\ last.node = node /\ last.program = "elementwise" /\ r \in Infer(node, args)
      /\ node.op \in {"Relu", "Gelu", "Add", "AddRelu"}
  BY DEF LaunchOf
<1>2. Len(args) = 1 \/ (Len(args) = 2 /\ args[2] = args[1])
  BY <1>1, ElementsAsk
<1>3. /\ Len(args) = count /\ DOMAIN node.ins = 1..count
      /\ \A k \in DOMAIN node.ins : args[k] = descs[node.ins[k]]
  BY LaunchDescribed, LaunchCounts
<1>4. r = args[1]
  BY <1>1, InferCases DEF ConvLike, GemmLike, PoolLike
<1>5. \A k \in 1..count : descs[node.ins[k]] = r
  <2> HIDE DEF args, r, count
  <2> SUFFICES ASSUME NEW k \in 1..count PROVE descs[node.ins[k]] = r
    OBVIOUS
  <2>1. k = 1 \/ (k = 2 /\ args[2] = args[1])
    BY <1>2, <1>3
  <2>2. args[k] = r
    BY <1>4, <2>1
  <2> QED
    BY <1>3, <2>2
<1>6. read = Reads(last.program, o, last.arguments, Len(last.node.ins))
  BY <1>1 DEF Reads, PerOperand
<1>7. read = Operands(last.node, o)
  <2>1. Operands(node, o) = PerOperand(DOMAIN node.ins, o)
    BY <1>1, OperandsByOp
  <2> QED
    BY <1>1, <1>3, <2>1
<1> HIDE DEF count
<1>8. ASSUME NEW at2 \in read PROVE \E k : at2 \in From(k, Elements(last.node.ins[k]))
  <2>1. PICK k \in 1..count : at2 = <<k, o>>
    BY DEF PerOperand
  <2>2. Elements(last.node.ins[k]) = Elements(node.out)
    BY <1>1, <1>5 DEF Elements
  <2>3. at2 \in From(k, Elements(last.node.ins[k]))
    BY <2>1, <2>2 DEF From
  <2> QED
    BY <2>3
<1> HIDE DEF read
<1> QED
  BY <1>6, <1>7, <1>8, ReadsSuffice

(* Batch normalization.                                                    *)
LEMMA NormLaunchReads ==
  ASSUME NEW node, NEW kernel, LaunchOf(node, kernel), kernel.arguments = NormArguments,
         kernel.program = "batch_norm", kernel.op = "BatchNormalization",
         PerChannel(node, 2..5), NEW o \in Elements(node.out)
  PROVE  ReadsOperands(o)
<1> DEFINE r == descs[node.out]
           x == r.shape
           args == Args(descs, node)
           a == last.arguments
           channel == Coordinate(x, o, 2)
           perChannel == PerOperand(2..5, channel)
           read == Reads(last.program, o, a, Len(node.ins))
<1>1. /\ last.node = node /\ last.program = kernel.program
      /\ node.op = "BatchNormalization" /\ r \in Infer(node, args)
  BY DEF LaunchOf
<1>2. /\ a["channels"] \in ArgumentOf(InputDim(1, 2), node, descs)
      /\ a["spatial"] \in ArgumentOf(InputSpatial(1), node, descs)
      /\ a["total"] \in ArgumentOf(OutputNumel, node, descs)
  BY LaunchArgument, OtherReadSources, OtherSources
<1>3. /\ 1 \in DOMAIN node.ins /\ 2 \in DOMAIN descs[node.ins[1]].shape
      /\ a["channels"] = descs[node.ins[1]].shape[2]
  BY <1>2, InputArgument
<1>4. descs[node.ins[1]] = r
  <2>1. r = args[1]
    BY <1>1, InferCases DEF ConvLike, GemmLike, PoolLike
  <2>2. args[1] = descs[node.ins[1]]
    BY <1>3, LaunchDescribed
  <2> QED
    BY <2>1, <2>2
<1>5. a["spatial"] = Product(x, 3, Len(x))
  BY <1>2, <1>4 DEF ArgumentOf, InputSpatial, Bounded
<1>6. NumElements(x) # 0
  BY <1>2, CountArgument
<1>7. x \in Seq(Int) /\ o \in 0..(Volume(x) - 1) /\ Elements(node.ins[1]) = 0..(Volume(x) - 1)
  BY <1>4, LaunchDescribed DEF Elements
<1>8. read = {<<1, o>>} \cup {<<k, (o \div a.spatial) % a.channels>> : k \in 2..5}
  BY <1>1 DEF Reads
<1> HIDE DEF read, a, args, x
<1>9. (o \div a.spatial) % a.channels = channel /\ channel \in 0..(x[2] - 1)
  BY <1>3, <1>4, <1>5, <1>6, <1>7, ChannelIs DEF x
<1> HIDE DEF channel
<1>10. read = {<<1, o>>} \cup perChannel
  BY <1>8, <1>9 DEF PerOperand
<1>11. read = Operands(last.node, o)
  BY <1>1, <1>10, OperandsByOp DEF channel, x
<1>12. ASSUME NEW at2 \in read PROVE \E k : at2 \in From(k, Elements(last.node.ins[k]))
  <2>1. CASE at2 = <<1, o>>
    <3>1. at2 \in From(1, Elements(last.node.ins[1]))
      BY <1>1, <1>7, <2>1 DEF From
    <3> QED
      BY <3>1
  <2>2. CASE at2 \in perChannel
    <3>1. PICK k \in 2..5 : at2 = <<k, channel>>
      BY <2>2 DEF PerOperand
    <3>2. channel \in 0..(descs[node.out].shape[2] - 1) /\ descs[node.out].shape[2] \in Int
      BY <1>3, <1>4, <1>7, <1>9 DEF x
    <3>3. <<k, channel>> \in From(k, Elements(last.node.ins[k]))
      BY <3>2, ChannelInside
    <3> QED
      BY <3>1, <3>3
  <2> HIDE DEF perChannel
  <2> QED
    BY <1>10, <1>12, <2>1, <2>2
<1> QED
  BY <1>1, <1>11, <1>12, ReadsSuffice DEF read, a

(* What each kernel reads by, by program.                                  *)
ReaderIs(k) ==
  \/ k.program = "elementwise" /\ k.op \in {"Relu", "Gelu", "Add", "AddRelu"}
  \/ k.program = "batch_norm" /\ k.op = "BatchNormalization" /\ k.arguments = NormArguments
  \/ k.program = "conv" /\ k.op = "Conv" /\ k.arguments = ConvArguments
  \/ k.program = "fused_conv" /\ k.op \in ConvLike \ {"Conv"} /\ k.arguments = ConvArguments
  \/ k.program = "max_pool" /\ k.op = "MaxPool" /\ k.arguments = PoolArguments
  \/ k.program = "global_average_pool" /\ k.op = "GlobalAveragePool"
     /\ k.arguments = AverageArguments
  \/ k.program = "gemm" /\ k.op = "Gemm" /\ k.zeros = {"transB"}
     /\ Sourced(k.arguments, "k", InputDim(1, 2)) /\ Sourced(k.arguments, "n", InputDim(2, 2))
  \/ k.program = "gemm_tiled" /\ k.op \in GemmLike /\ k.zeros = {"transA", "transB"}
     /\ Sourced(k.arguments, "k", InputDim(1, 2)) /\ Sourced(k.arguments, "n", OutputDim(2))
  \/ /\ \/ k.program = "softmax" /\ k.op = "Softmax"
        \/ k.program = "layer_norm" /\ k.op = "LayerNormalization" /\ k.counts = {3}
        \/ k.program = "skip_layer_norm" /\ k.op = "SkipLayerNormalization" /\ k.counts = {4}
     /\ k.ranks = <<2>> /\ k.arguments = RowArguments

(* Kernels of images.                                                      *)
LEMMA ImageReaders ==
  /\ ReaderIs(ImageKernel("Conv", "conv", ConvArguments))
  /\ ReaderIs(ImageKernel("FusedConvBatchNorm", "fused_conv", ConvArguments))
  /\ ReaderIs(ImageKernel("FusedConvBatchNormRelu", "fused_conv", ConvArguments))
  /\ \A op \in {"Relu", "Add", "AddRelu"} :
       ReaderIs(ImageKernel(op, "elementwise", TotalArgument))
  /\ ReaderIs(ImageKernel("BatchNormalization", "batch_norm", NormArguments))
  /\ ReaderIs(ImageKernel("MaxPool", "max_pool", PoolArguments))
  /\ ReaderIs(ImageKernel("GlobalAveragePool", "global_average_pool", AverageArguments))
BY DEF ReaderIs, ImageKernel, ConvLike

(* Kernels of matrices.                                                    *)
LEMMA MatrixReaders ==
  /\ ReaderIs([ImageKernel("Gemm", "gemm", [m |-> InputDim(1, 1), n |-> InputDim(2, 2),
                                            k |-> InputDim(1, 2)])
                 EXCEPT !.layout = "", !.counts = {2}, !.zeros = {"transB"}, !.ranks = <<2, 2>>])
  /\ \A op \in GemmLike : ReaderIs(TiledKernel(op))
  /\ \A op \in {"Gelu", "Add"} : ReaderIs(ElementKernel(op))
  /\ ReaderIs(MatrixKernel("LayerNormalization", "layer_norm", {3}, RowArguments, RowGrid))
  /\ ReaderIs(MatrixKernel("SkipLayerNormalization", "skip_layer_norm", {4}, RowArguments, RowGrid))
  /\ ReaderIs(MatrixKernel("Softmax", "softmax", 1..6, RowArguments, RowGrid))
<1>1. ReaderIs([ImageKernel("Gemm", "gemm", [m |-> InputDim(1, 1), n |-> InputDim(2, 2),
                                            k |-> InputDim(1, 2)])
                  EXCEPT !.layout = "", !.counts = {2}, !.zeros = {"transB"}, !.ranks = <<2, 2>>])
  BY DEF ReaderIs, ImageKernel, Sourced
<1>2. \A op \in GemmLike : ReaderIs(TiledKernel(op))
  BY DEF ReaderIs, TiledKernel, MatrixKernel, Sourced
<1>3. \A op \in {"Gelu", "Add"} : ReaderIs(ElementKernel(op))
  BY DEF ReaderIs, ElementKernel, MatrixKernel
<1>4. /\ ReaderIs(MatrixKernel("LayerNormalization", "layer_norm", {3}, RowArguments, RowGrid))
      /\ ReaderIs(MatrixKernel("SkipLayerNormalization", "skip_layer_norm", {4},
                               RowArguments, RowGrid))
      /\ ReaderIs(MatrixKernel("Softmax", "softmax", 1..6, RowArguments, RowGrid))
  BY DEF ReaderIs, MatrixKernel
<1> QED
  BY <1>1, <1>2, <1>3, <1>4, Zenon

(* Together they are all.                                                  *)
LEMMA ReaderCases ==
  ASSUME NEW kernel \in Kernels
  PROVE  ReaderIs(kernel)
<1>1. /\ ReaderIs(TiledKernel("Gemm")) /\ ReaderIs(TiledKernel("GemmGelu"))
      /\ ReaderIs(ElementKernel("Gelu")) /\ ReaderIs(ElementKernel("Add"))
      /\ ReaderIs(ImageKernel("Relu", "elementwise", TotalArgument))
      /\ ReaderIs(ImageKernel("Add", "elementwise", TotalArgument))
      /\ ReaderIs(ImageKernel("AddRelu", "elementwise", TotalArgument))
  BY ImageReaders, MatrixReaders, Zenon DEF GemmLike
<1> QED
  BY <1>1, ImageReaders, MatrixReaders, Zenon DEF Kernels

(* What the kernels rely on that neither shape inference nor a kernel's    *)
(* constraints look at: operands of at least one element that 32 bits      *)
(* count, window attributes that are lists and fit in 32 bits, a filter of *)
(* as many channels as its image, a stride given to every pooling, and for *)
(* each operand that is read by channel an element per channel.            *)
ReadLimits ==
  Launched =>
    LET node == last.node
        image == descs[node.ins[1]].shape
    IN  /\ \A k \in DOMAIN node.ins : Sized(descs[node.ins[k]].shape)
        /\ node.op \in ConvLike =>
             /\ ListsOnly(node) /\ WindowsFit(node, Strides(node), image)
             /\ descs[node.ins[2]].shape[2] = image[2]
             /\ PerChannel(node, 3..Len(node.ins))
        /\ node.op = "MaxPool" =>
             /\ ListsOnly(node) /\ WindowsFit(node, Strides(node), image)
             /\ "strides" \in DOMAIN node.lists
             /\ \A axis \in 1..2 : PoolKernel(node)[axis] \in 0..Int32Max
        /\ node.op = "BatchNormalization" => PerChannel(node, 2..5)

(* Every kernel of the pack reads its operands then.                       *)
LEMMA KernelReads ==
  ASSUME NEW node, NEW kernel \in Kernels, LaunchOf(node, kernel), WithinLimits, ReadLimits,
         Launched, NEW o \in Elements(node.out)
  PROVE  ReadsOperands(o)
<1>1. /\ last.node = node /\ last.program = kernel.program /\ kernel.op = node.op
      /\ \A key \in kernel.zeros : IntAttribute(node, key, 0) = 0
  BY DEF LaunchOf
<1>2. /\ kernel.program \in {"layer_norm", "skip_layer_norm", "softmax"} =>
           last.arguments.columns <= RowBlock
      /\ kernel.program = "gemm" => ~Transposed(node, "transA")
  BY <1>1, Zenon DEF WithinLimits
<1>3. /\ \A k \in DOMAIN node.ins : Sized(descs[node.ins[k]].shape)
      /\ kernel.op \in ConvLike =>
           /\ ListsOnly(node) /\ WindowsFit(node, Strides(node), descs[node.ins[1]].shape)
           /\ descs[node.ins[2]].shape[2] = descs[node.ins[1]].shape[2]
           /\ PerChannel(node, 3..Len(node.ins))
      /\ kernel.op = "MaxPool" =>
           /\ ListsOnly(node) /\ WindowsFit(node, Strides(node), descs[node.ins[1]].shape)
           /\ "strides" \in DOMAIN node.lists
           /\ \A axis \in 1..2 : PoolKernel(node)[axis] \in 0..Int32Max
      /\ kernel.op = "BatchNormalization" => PerChannel(node, 2..5)
  BY <1>1, Zenon DEF ReadLimits
<1>4. ReaderIs(kernel)
  BY ReaderCases
<1>5. CASE kernel.program = "elementwise" /\ kernel.op \in {"Relu", "Gelu", "Add", "AddRelu"}
  BY <1>5, ElementLaunchReads
<1>6. CASE kernel.program = "batch_norm" /\ kernel.op = "BatchNormalization"
           /\ kernel.arguments = NormArguments
  BY <1>3, <1>6, NormLaunchReads
<1>7. CASE /\ \/ kernel.program = "conv" /\ kernel.op = "Conv"
              \/ kernel.program = "fused_conv" /\ kernel.op \in ConvLike \ {"Conv"}
           /\ kernel.arguments = ConvArguments
  <2>1. kernel.op \in ConvLike
    BY <1>7 DEF ConvLike
  <2> QED
    BY <1>3, <1>7, <2>1, ConvLaunchReads
<1>8. CASE kernel.program = "max_pool" /\ kernel.op = "MaxPool"
           /\ kernel.arguments = PoolArguments
  BY <1>3, <1>8, PoolLaunchReads
<1>9. CASE kernel.program = "global_average_pool" /\ kernel.op = "GlobalAveragePool"
           /\ kernel.arguments = AverageArguments
  BY <1>3, <1>9, AverageLaunchReads
<1>10. CASE kernel.program = "gemm" /\ kernel.op = "Gemm" /\ kernel.zeros = {"transB"}
            /\ Sourced(kernel.arguments, "k", InputDim(1, 2))
            /\ Sourced(kernel.arguments, "n", InputDim(2, 2))
  <2>1. ~Transposed(node, "transA") /\ ~Transposed(node, "transB") /\ kernel.op \in GemmLike
    BY <1>1, <1>2, <1>10 DEF Transposed, GemmLike
  <2> QED
    BY <1>3, <1>10, <2>1, ProductLaunchReads
<1>11. CASE kernel.program = "gemm_tiled" /\ kernel.op \in GemmLike
            /\ kernel.zeros = {"transA", "transB"}
            /\ Sourced(kernel.arguments, "k", InputDim(1, 2))
            /\ Sourced(kernel.arguments, "n", OutputDim(2))
  <2>1. ~Transposed(node, "transA") /\ ~Transposed(node, "transB")
    BY <1>1, <1>11 DEF Transposed
  <2> QED
    BY <1>3, <1>11, <2>1, ProductLaunchReads
<1>12. CASE /\ \/ kernel.program = "softmax" /\ kernel.op = "Softmax"
               \/ /\ kernel.program = "layer_norm" /\ kernel.op = "LayerNormalization"
                  /\ kernel.counts = {3}
               \/ /\ kernel.program = "skip_layer_norm" /\ kernel.op = "SkipLayerNormalization"
                  /\ kernel.counts = {4}
            /\ kernel.ranks = << 2 >> /\ kernel.arguments = RowArguments
  <2>1. last.arguments.columns <= RowBlock
    BY <1>2, <1>12
  <2> QED
    BY <1>3, <1>12, <2>1, RowLaunchReads
<1> QED
  BY <1>4, <1>5, <1>6, <1>7, <1>8, <1>9, <1>10, <1>11, <1>12, Zenon DEF ReaderIs

(* Every launch within those limits computes every element of its output   *)
(* from exactly the operands its operator names and reads nothing outside  *)
(* a tensor: the windows and strides shape inference counts with, the      *)
(* arguments ArgumentBinder passes and the offsets the kernels compute in  *)
(* 32 bits agree.                                                          *)
THEOREM LaunchesReadOperands ==
  Spec => [](WithinLimits /\ ReadLimits => LaunchReadsOperands)
<1>1. LaunchInv /\ KernelsInv => (WithinLimits /\ ReadLimits => LaunchReadsOperands)
  <2> SUFFICES ASSUME LaunchInv, KernelsInv, WithinLimits, ReadLimits PROVE LaunchReadsOperands
    OBVIOUS
  <2>1. CASE ~Launched
    BY <2>1 DEF LaunchReadsOperands
  <2>2. CASE Launched
    <3>1. PICK node : \E kernel \in Kernels : LaunchOf(node, kernel)
      BY <2>2, LaunchIsOf
    <3>2. PICK kernel \in Kernels : LaunchOf(node, kernel)
      BY <3>1
    <3>3. last.node = node
      BY <3>2 DEF LaunchOf
    <3>4. ASSUME NEW o \in Elements(last.node.out) PROVE ReadsOperands(o)
      BY <2>2, <3>2, <3>3, <3>4, KernelReads
    <3> QED
      BY <3>4, Zenon DEF LaunchReadsOperands, ReadsOperands
  <2> QED
    BY <2>1, <2>2
<1> QED
  BY <1>1, LaunchInvariant, LaunchesAreBound, PTL
=============================================================================
