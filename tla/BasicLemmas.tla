---------------------------- MODULE BasicLemmas ----------------------------
(***************************************************************************)
(* Induction and recursion with sets in place of predicates, division, and *)
(* short sequences.  The library's induction theorems take an operator as  *)
(* a parameter, which no backend instantiates; here the elements that have *)
(* the property are a set, and a step of a recursive function is a         *)
(* function of the index and the value before it.                          *)
(***************************************************************************)
EXTENDS Integers, Sequences, FiniteSets, FiniteSetTheorems, SequenceTheorems,
        WellFoundedInduction, TLAPS

(* Among finite sets there is one with no other inside it.                 *)
LEMMA FiniteMinimal ==
  ASSUME NEW F, F # {}, \A A \in F : IsFiniteSet(A)
  PROVE  \E A \in F : \A B \in F : B \subseteq A => B = A
<1> DEFINE U == UNION F
<1> DEFINE R == StrictSubsetOrdering(U)
<1>1. IsWellFoundedOn(R, FiniteSubsetsOf(U))
  BY FS_StrictSubsetOrderingWellFounded
<1>2. F \subseteq FiniteSubsetsOf(U)
  BY DEF FiniteSubsetsOf
<1>3. PICK A \in F : \A B \in F : <<B, A>> \notin R
  <2> HIDE DEF U, R
  <2> QED BY <1>1, <1>2, WFMin
<1>4. \A B \in F : B \subseteq A /\ B # A => <<B, A>> \in R
  BY DEF StrictSubsetOrdering
<1>5. \A B \in F : B \subseteq A => B = A
  <2> HIDE DEF U, R
  <2> QED BY <1>3, <1>4
<1> QED BY <1>5

(* Induction over the natural numbers.                                     *)
LEMMA SetInduction ==
  ASSUME NEW S, 0 \in S, \A n \in Nat : n \in S => n + 1 \in S
  PROVE  Nat \subseteq S
<1> DEFINE F == {0..n : n \in Nat \ S}
<1>1. SUFFICES ASSUME NEW k \in Nat, k \notin S PROVE FALSE
  OBVIOUS
<1>2. F # {} /\ \A A \in F : IsFiniteSet(A)
  BY <1>1, FS_Interval
<1>3. PICK A \in F : \A B \in F : B \subseteq A => B = A
  <2> HIDE DEF F
  <2> QED BY <1>2, FiniteMinimal
<1>4. PICK n \in Nat \ S : A = 0..n
  OBVIOUS
<1>5. n - 1 \in Nat /\ n - 1 \notin S
  BY <1>4
<1>6. 0..(n-1) \in F
  BY <1>5
<1>7. 0..(n-1) \subseteq A /\ n \in A /\ n \notin 0..(n-1)
  BY <1>4, <1>5
<1> QED BY <1>3, <1>6, <1>7

(* What the first value has and each next one keeps, all have.             *)
LEMMA RangeByInduction ==
  ASSUME NEW n \in Nat, NEW A, NEW f, f[0] \in A,
         \A i \in 1..n : f[i - 1] \in A => f[i] \in A
  PROVE  \A i \in 0..n : f[i] \in A
<1> DEFINE S == {i \in Nat : i <= n => f[i] \in A}
<1>1. 0 \in S
  OBVIOUS
<1>2. ASSUME NEW i \in Nat, i \in S PROVE i + 1 \in S
  <2> SUFFICES ASSUME i + 1 <= n PROVE f[i + 1] \in A
    OBVIOUS
  <2>1. i + 1 \in 1..n /\ (i + 1) - 1 = i /\ f[i] \in A
    BY <1>2
  <2> QED
    BY <2>1
<1>3. Nat \subseteq S
  <2> HIDE DEF S
  <2> QED
    BY <1>1, <1>2, SetInduction
<1> QED
  BY <1>3

(* Induction over the subsets of a finite set, one element at a time.      *)
LEMMA FiniteSetInduction ==
  ASSUME NEW D, IsFiniteSet(D), NEW C, {} \in C,
         \A A \in SUBSET D : \A x \in D : A \in C /\ x \notin A => A \cup {x} \in C
  PROVE  D \in C
<1> DEFINE F == {D \ A : A \in C \cap SUBSET D}
<1>1. F # {} /\ \A A \in F : IsFiniteSet(A)
  BY FS_Subset
<1>2. PICK E \in F : \A B \in F : B \subseteq E => B = E
  <2> HIDE DEF F
  <2> QED BY <1>1, FiniteMinimal
<1>3. PICK A \in C \cap SUBSET D : E = D \ A
  OBVIOUS
<1>4. ASSUME NEW x \in D, x \notin A PROVE FALSE
  <2>1. A \cup {x} \in C \cap SUBSET D
    BY <1>3, <1>4
  <2>2. D \ (A \cup {x}) \in F
    BY <2>1
  <2> QED BY <2>2, <1>2, <1>3, <1>4
<1> QED BY <1>3, <1>4

(* f starts with x, and G makes each of its values of the one before.      *)
Iterates(f, x, n, G) == f[0] = x /\ \A i \in 1..n : f[i] = G[<<i, f[i - 1]>>]

(* A function on 0..n may be defined by its first value and by what each   *)
(* value makes of the one before.                                          *)
LEMMA RecursiveDefinition ==
  ASSUME NEW A, NEW x \in A, NEW n \in Nat, NEW G \in [(1..n) \X A -> A]
  PROVE  \E f \in [0..n -> A] : Iterates(f, x, n, G)
<1> DEFINE Defined(f, m) ==
             f[0] = x /\ \A i \in 1..m : f[i] = G[<<i, f[i - 1]>>]
<1> DEFINE S == {m \in Nat : m <= n => \E f \in [0..m -> A] : Defined(f, m)}
<1>1. 0 \in S
  <2>1. [i \in 0..0 |-> x] \in [0..0 -> A] /\ Defined([i \in 0..0 |-> x], 0)
    OBVIOUS
  <2> QED BY <2>1
<1>2. ASSUME NEW m \in Nat, m \in S, m + 1 <= n PROVE m + 1 \in S
  <2>1. PICK f \in [0..m -> A] : Defined(f, m)
    BY <1>2
  <2> DEFINE y == G[<<m + 1, f[m]>>]
  <2> DEFINE g == [i \in 0..(m + 1) |-> IF i = m + 1 THEN y ELSE f[i]]
  <2>2. y \in A
    BY <1>2
  <2>3. g \in [0..(m + 1) -> A]
    <3> HIDE DEF y
    <3> QED BY <2>2
  <2>4. Defined(g, m + 1)
    <3>1. g[0] = x
      BY <2>1
    <3>2. ASSUME NEW i \in 1..(m + 1) PROVE g[i] = G[<<i, g[i - 1]>>]
      <4>1. CASE i = m + 1
        <5>1. g[i] = y /\ i - 1 = m /\ m \in 0..(m + 1) /\ m # m + 1
          BY <4>1
        <5>2. g[m] = f[m]
          BY <5>1
        <5> QED BY <5>1, <5>2, <4>1
      <4>2. CASE i # m + 1 
        <5>1. i \in 1..m /\ g[i] = f[i] /\ g[i - 1] = f[i - 1]
          BY <4>2
        <5> QED BY <5>1, <2>1
      <4> QED BY <4>1, <4>2
    <3> QED BY <3>1, <3>2
  <2> HIDE DEF g, Defined
  <2> QED BY <2>3, <2>4
<1>3. n \in S
  <2> HIDE DEF S
  <2>1. \A m \in Nat : m \in S => m + 1 \in S
    BY <1>2 DEF S
  <2> QED BY <1>1, <2>1, SetInduction
<1>4. PICK f \in [0..n -> A] : Defined(f, n)
  BY <1>3
<1> QED BY <1>4 DEF Iterates

(* The same as the equation a recursive function is defined by.            *)
Unfolds(f, x, n, G) == f = [i \in 0..n |-> IF i = 0 THEN x ELSE G[<<i, f[i - 1]>>]]

(* There is a function that satisfies it, so the one chosen does.          *)
LEMMA RecursiveFunction ==
  ASSUME NEW A, NEW x \in A, NEW n \in Nat, NEW G \in [(1..n) \X A -> A]
  PROVE  \E f \in [0..n -> A] : Unfolds(f, x, n, G)
<1>1. PICK f \in [0..n -> A] : Iterates(f, x, n, G)
  BY RecursiveDefinition
<1>2. ASSUME NEW i \in 0..n PROVE f[i] = IF i = 0 THEN x ELSE G[<<i, f[i - 1]>>]
  <2>1. i = 0 \/ i \in 1..n
    OBVIOUS
  <2> QED
    BY <1>1, <2>1 DEF Iterates
<1>3. f = [i \in 0..n |-> f[i]]
  OBVIOUS
<1> QED
  BY <1>2, <1>3 DEF Unfolds
-----------------------------------------------------------------------------
(* Products, quotients and remainders.                                     *)

(* Products grow with their factors.                                       *)
LEMMA ProductGrows ==
  ASSUME NEW a \in Nat, NEW b \in Nat, NEW x \in Nat, NEW y \in Nat, a <= b, x <= y
  PROVE  a * x <= b * y /\ a * x \in Nat /\ b * y \in Nat
<1>1. a * x <= b * x
  OBVIOUS
<1>2. b * x <= b * y
  OBVIOUS
<1> QED
  BY <1>1, <1>2

(* And do not shrink by a positive one.                                    *)
LEMMA ProductBound ==
  ASSUME NEW a \in Nat, NEW b \in Nat \ {0}
  PROVE  a <= a * b /\ a * b \in Nat /\ (a > 0 => a * b > 0)
<1>1. a * 1 <= a * b
  BY ProductGrows
<1> QED
  BY <1>1

(* A quotient and a remainder are what they are for one reason.            *)
LEMMA DivisionUnique ==
  ASSUME NEW a \in Int, NEW b \in Nat \ {0}, NEW q \in Int, NEW r \in 0..(b - 1), a = q * b + r
  PROVE  a \div b = q /\ a % b = r
<1>1. /\ a \div b \in Int /\ a % b \in 0..(b - 1)
      /\ a = b * (a \div b) + (a % b)
  OBVIOUS
<1> DEFINE p == a \div b
           s == a % b
<1> HIDE DEF p, s
<1>2. p = q
  <2>1. b * (p - q) = r - s /\ r - s < b /\ r - s > -b
    BY <1>1 DEF p, s
  <2>2. p - q < 1
    <3>1. p - q >= 1 => b * (p - q) >= b
      BY <1>1 DEF p
    <3> QED
      BY <1>1, <2>1, <3>1 DEF p
  <2>3. p - q > -1
    <3>1. p - q <= -1 => b * (p - q) <= -b
      BY <1>1 DEF p
    <3> QED
      BY <1>1, <2>1, <3>1 DEF p
  <2> QED
    BY <1>1, <2>2, <2>3 DEF p
<1> QED
  BY <1>1, <1>2 DEF p, s

(* Larger dividends have larger quotients.                                 *)
LEMMA QuotientGrows ==
  ASSUME NEW a \in Int, NEW b \in Int, a <= b, NEW n \in Nat \ {0}
  PROVE  a \div n <= b \div n
<1> DEFINE p == a \div n
           q == b \div n
<1>1. p \in Int /\ q \in Int /\ n * p <= a /\ b < n * q + n
  OBVIOUS
<1> HIDE DEF p, q
<1>2. n * (p - q) < n
  BY <1>1
<1>3. p - q >= 1 => n * (p - q) >= n
  BY <1>1
<1> QED
  BY <1>1, <1>2, <1>3 DEF p, q

(* A bound on a product, as one on a factor.                               *)
LEMMA DivisionBounds ==
  ASSUME NEW a \in Nat, NEW b \in Nat \ {0}, NEW max \in Nat
  PROVE  a <= max \div b <=> a * b <= max
<1> DEFINE q == max \div b
<1>1. q \in Int /\ b * q <= max /\ max < b * q + b
  OBVIOUS
<1>2. q >= 0
  <2>1. 0 \div b = 0 /\ 0 \div b <= q
    BY DivisionUnique, QuotientGrows
  <2> QED
    BY <2>1
<1> HIDE DEF q
<1>3. a <= q => a * b <= max
  <2>1. a <= q => a * b <= q * b
    BY <1>1, <1>2, ProductGrows
  <2> QED
    BY <1>1, <2>1
<1>4. a > q => a * b > max
  <2>1. a > q => (q + 1) * b <= a * b
    BY <1>1, <1>2, ProductGrows
  <2> QED
    BY <1>1, <2>1
<1> QED
  BY <1>1, <1>3, <1>4 DEF q

(* The parts of a division, by an inequality each.                         *)
LEMMA Divides ==
  ASSUME NEW a \in Int, NEW b \in Nat \ {0}
  PROVE  /\ a \div b \in Int /\ a % b \in 0..(b - 1) /\ a = (a \div b) * b + (a % b)
         /\ (a \div b) * b <= a /\ a < (a \div b) * b + b
         /\ a >= 0 => a \div b >= 0
<1>1. /\ a \div b \in Int /\ a % b \in 0..(b - 1) /\ a = b * (a \div b) + (a % b)
  OBVIOUS
<1>2. b * (a \div b) = (a \div b) * b
  BY <1>1
<1>3. a >= 0 => a \div b >= 0
  <2>1. a >= 0 => 0 \div b <= a \div b
    BY QuotientGrows
  <2>2. 0 \div b = 0
    BY DivisionUnique
  <2> QED
    BY <1>1, <2>1, <2>2
<1> QED
  BY <1>1, <1>2, <1>3

(* An offset in a matrix is its row and its column.                        *)
LEMMA OffsetParts ==
  ASSUME NEW m \in Nat, NEW n \in Nat \ {0}, NEW row \in Int, NEW column \in 0..(n - 1)
  PROVE  /\ row * n + column \in Int
         /\ (row * n + column) \div n = row /\ (row * n + column) % n = column
         /\ row \in 0..(m - 1) => row * n + column \in 0..(m * n - 1)
<1> DEFINE o == row * n + column
<1>1. o \in Int
  OBVIOUS
<1>2. o \div n = row /\ o % n = column
  <2>1. o = row * n + column
    OBVIOUS
  <2> HIDE DEF o
  <2> QED
    BY <1>1, <2>1, DivisionUnique
<1>3. row \in 0..(m - 1) => o \in 0..(m * n - 1)
  <2> SUFFICES ASSUME row \in 0..(m - 1) PROVE o \in 0..(m * n - 1)
    OBVIOUS
  <2>1. (row + 1) * n <= m * n
    BY ProductGrows
  <2>2. (row + 1) * n = row * n + n /\ row * n \in Nat /\ m * n \in Nat
    OBVIOUS
  <2> QED
    BY <2>1, <2>2
<1> QED
  BY <1>1, <1>2, <1>3

(* And every offset has them.                                              *)
LEMMA PartsOfOffset ==
  ASSUME NEW m \in Nat, NEW n \in Nat \ {0}, NEW o \in 0..(m * n - 1)
  PROVE  /\ o \div n \in 0..(m - 1) /\ o % n \in 0..(n - 1)
         /\ o = (o \div n) * n + (o % n)
<1>1. m * n \in Nat
  OBVIOUS
<1>2. o \in Int /\ o >= 0
  BY <1>1
<1> DEFINE q == o \div n
           r == o % n
<1>3. q \in Int /\ r \in 0..(n - 1) /\ o = q * n + r /\ q * n <= o /\ q >= 0
  BY <1>2, Divides
<1> HIDE DEF q, r
<1>4. q < m
  <2>1. q >= m => m * n <= q * n
    BY <1>3, ProductGrows
  <2>2. q * n \in Int
    BY <1>3
  <2> QED
    BY <1>1, <1>2, <1>3, <2>1, <2>2
<1> QED
  BY <1>3, <1>4 DEF q, r

(* A row of a matrix and a column of it make an offset inside it.          *)
LEMMA PartsInside ==
  ASSUME NEW m \in Nat, NEW n \in Nat \ {0}, NEW row \in 0..(m - 1), NEW column \in 0..(n - 1)
  PROVE  row * n + column \in 0..(m * n - 1) /\ m * n \in Nat /\ row * n \in 0..(m * n - 1)
<1>1. row \in Int /\ 0 \in 0..(n - 1) /\ m * n \in Nat
  OBVIOUS
<1>2. row * n + column \in 0..(m * n - 1)
  BY <1>1, OffsetParts
<1>3. row * n + 0 \in 0..(m * n - 1)
  BY <1>1, OffsetParts
<1>4. row * n + 0 = row * n
  BY <1>1
<1> QED
  BY <1>1, <1>2, <1>3, <1>4

(* Dividing twice is dividing by the product.                              *)
LEMMA NestedDivision ==
  ASSUME NEW o \in Int, NEW p \in Nat \ {0}, NEW m \in Nat \ {0}
  PROVE  o \div (p * m) = (o \div p) \div m
<1> DEFINE i == o \div p
           r == o % p
           q == i \div m
           c == i % m
<1>1. i \in Int /\ r \in 0..(p - 1) /\ o = i * p + r
  BY Divides
<1> HIDE DEF i, r
<1>2. q \in Int /\ c \in 0..(m - 1) /\ i = q * m + c
  BY <1>1, Divides
<1> HIDE DEF q, c
<1>3. c * p + r \in 0..(m * p - 1)
  BY <1>1, <1>2, PartsInside
<1>4. p * m \in Nat \ {0} /\ p * m = m * p
  <2>1. p * m > 0 /\ p * m \in Nat
    BY ProductBound
  <2> QED
    BY <2>1
<1>5. i * p = q * (p * m) + c * p
  <2>1. c \in Int
    BY <1>2
  <2>2. i * p = (q * m + c) * p
    BY <1>2
  <2> QED
    BY <1>2, <2>1, <2>2
<1>6. o = q * (p * m) + (c * p + r)
  <2> DEFINE n == p * m
             l == c * p
  <2>1. n \in Int /\ l \in Int /\ r \in Int /\ q * n \in Int
    BY <1>1, <1>2, <1>4
  <2>2. o = i * p + r /\ i * p = q * n + l
    BY <1>1, <1>5
  <2> HIDE DEF n, l
  <2>3. o = q * n + (l + r)
    BY <2>1, <2>2
  <2> QED
    BY <2>3 DEF n, l
<1>7. o \div (p * m) = q
  <2> DEFINE n == p * m
             l == c * p + r
  <2>1. n \in Nat \ {0} /\ l \in 0..(n - 1) /\ o = q * n + l
    BY <1>3, <1>4, <1>6
  <2> HIDE DEF n, l
  <2>2. o \div n = q
    BY <1>2, <2>1, DivisionUnique
  <2> QED
    BY <2>2 DEF n
<1> QED
  BY <1>7 DEF q, i
-----------------------------------------------------------------------------
(* Short sequences, and parts of one.                                      *)

(* The elements of a sequence, and of a short one.                         *)
LEMMA ElementsIn ==
  ASSUME NEW A, NEW s \in Seq(A)
  PROVE  \A i \in DOMAIN s : s[i] \in A
OBVIOUS

(* Two of them.                                                            *)
LEMMA TwoElements ==
  ASSUME NEW A, NEW s \in Seq(A), Len(s) = 2
  PROVE  /\ s[1] \in A /\ s[2] \in A /\ 1 \in DOMAIN s /\ 2 \in DOMAIN s
         /\ \A i \in DOMAIN s : i = 1 \/ i = 2
<1>1. 1 \in DOMAIN s /\ 2 \in DOMAIN s /\ \A i \in DOMAIN s : i = 1 \/ i = 2
  OBVIOUS
<1>2. \A i \in DOMAIN s : s[i] \in A
  BY ElementsIn, Zenon
<1> QED
  BY <1>1, <1>2, Zenon

(* The same for four.                                                      *)
LEMMA FourElements ==
  ASSUME NEW A, NEW s \in Seq(A), Len(s) = 4
  PROVE  /\ \A i \in 1..4 : i \in DOMAIN s /\ s[i] \in A
         /\ 1 \in DOMAIN s /\ 2 \in DOMAIN s /\ 3 \in DOMAIN s /\ 4 \in DOMAIN s
         /\ s[1] \in A /\ s[2] \in A /\ s[3] \in A /\ s[4] \in A
<1>1. 1 \in DOMAIN s /\ 2 \in DOMAIN s /\ 3 \in DOMAIN s /\ 4 \in DOMAIN s
  OBVIOUS
<1>2. \A i \in DOMAIN s : s[i] \in A
  BY ElementsIn, Zenon
<1>3. \A i \in 1..4 : i \in DOMAIN s
  OBVIOUS
<1> QED
  BY <1>1, <1>2, <1>3, Zenon

(* Two dimensions and two more are four.                                   *)
LEMMA FourDimensions ==
  ASSUME NEW a \in Int, NEW b \in Int, NEW f, f[1] \in Int, f[2] \in Int
  PROVE  LET shape == <<a, b>> \o [axis \in 1..2 |-> f[axis]]
         IN  /\ shape \in Seq(Int) /\ Len(shape) = 4
             /\ shape[1] = a /\ shape[2] = b /\ \A axis \in 1..2 : shape[axis + 2] = f[axis]
<1> DEFINE g == [axis \in 1..2 |-> f[axis]]
<1>1. <<a, b>> \in Seq(Int) /\ Len(<<a, b>>) = 2
  OBVIOUS
<1>2. \A axis \in 1..2 : axis = 1 \/ axis = 2
  OBVIOUS
<1>3. g \in [1..2 -> Int] /\ g[1] = f[1] /\ g[2] = f[2]
  BY <1>2
<1>4. g \in Seq(Int) /\ Len(g) = 2
  <2> DEFINE m == 2
  <2>1. m \in Nat /\ g \in [1..m -> Int]
    BY <1>3
  <2> HIDE DEF g, m
  <2>2. g \in Seq(Int) /\ Len(g) = m
    BY <2>1
  <2> QED
    BY <2>2, Zenon DEF m
<1> HIDE DEF g
<1> DEFINE shape == <<a, b>> \o g
<1>5. /\ shape \in Seq(Int) /\ Len(shape) = Len(<<a, b>>) + Len(g)
      /\ \A i \in 1..(Len(<<a, b>>) + Len(g)) :
           shape[i] = IF i <= Len(<<a, b>>) THEN <<a, b>>[i] ELSE g[i - Len(<<a, b>>)]
  BY <1>1, <1>4, ConcatProperties
<1> HIDE DEF shape
<1>6. /\ shape \in Seq(Int) /\ Len(shape) = 4
      /\ shape[1] = a /\ shape[2] = b /\ shape[3] = g[1] /\ shape[4] = g[2]
  BY <1>1, <1>4, <1>5
<1>7. \A axis \in 1..2 : shape[axis + 2] = f[axis]
  BY <1>2, <1>3, <1>6
<1> QED
  BY <1>6, <1>7 DEF shape, g

(* The axes behind the given one, as a shape.                              *)
LEMMA AxesBehind ==
  ASSUME NEW shape \in Seq(Int), NEW axis \in DOMAIN shape
  PROVE  LET behind == SubSeq(shape, axis + 1, Len(shape))
         IN  /\ behind \in Seq(Int) /\ Len(behind) = Len(shape) - axis
             /\ \A i \in 1..(Len(shape) - axis) : behind[i] = shape[axis + i]
<1> DEFINE n == Len(shape)
           behind == SubSeq(shape, axis + 1, n)
<1>1. n \in Nat /\ axis \in 1..n /\ axis + 1 \in Int /\ \A i \in (axis + 1)..n : shape[i] \in Int
  OBVIOUS
<1>2. /\ behind \in Seq(Int) /\ Len(behind) = IF axis + 1 <= n THEN n - (axis + 1) + 1 ELSE 0
      /\ \A i \in 1..(n - (axis + 1) + 1) : behind[i] = shape[(axis + 1) + i - 1]
  <2> HIDE DEF n
  <2> QED
    BY <1>1, SubSeqProperties
<1> HIDE DEF behind
<1>3. Len(behind) = n - axis
  BY <1>1, <1>2
<1>4. \A i \in 1..(n - axis) : behind[i] = shape[axis + i]
  <2> SUFFICES ASSUME NEW i \in 1..(n - axis) PROVE behind[i] = shape[axis + i]
    OBVIOUS
  <2>1. i \in 1..(n - (axis + 1) + 1) /\ (axis + 1) + i - 1 = axis + i
    <3>1. n \in Int /\ axis \in Int
      BY <1>1
    <3> HIDE DEF n
    <3>2. i \in Int /\ 1 <= i /\ i <= n - axis
      BY <3>1
    <3> QED
      BY <3>1, <3>2
  <2> QED
    BY <1>2, <2>1
<1> QED
  BY <1>2, <1>3, <1>4 DEF behind
=============================================================================
