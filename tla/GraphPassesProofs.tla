-------------------------- MODULE GraphPassesProofs --------------------------
(***************************************************************************)
(* Theorems about the passes, for any graphs: what the analyses of a node  *)
(* list return, that every pass keeps the graph's type, that what leaves   *)
(* the pipeline runs, and that it computes what the caller asked for.      *)
(***************************************************************************)
EXTENDS GraphPasses, BasicLemmas, SequenceTheorems

(* s lists the elements of S in 1..n in increasing order.                  *)
Lists(s, n, S) ==
  /\ s \in Seq((1..n) \cap S) /\ Len(s) <= n
  /\ \A i, j \in DOMAIN s : i < j => s[i] < s[j]
  /\ \A x \in (1..n) \cap S : \E i \in DOMAIN s : s[i] = x

(* Positions lists what it is asked for.                                   *)
LEMMA PositionsList ==
  ASSUME NEW n \in Nat, NEW S
  PROVE  Lists(Positions(n, S), n, S)
<1> DEFINE A == Seq(1..n)
           After(i, s) == IF i \in S THEN Append(s, i) ELSE s
           G == [p \in (1..n) \X A |-> After(p[1], p[2])]
           Recursive(g) == g = [i \in 0..n |-> IF i = 0 THEN <<>> ELSE After(i, g[i - 1])]
<1>1. \E f : Recursive(f)
  <2>1. G \in [(1..n) \X A -> A] /\ <<>> \in A
    <3>1. ASSUME NEW i \in 1..n, NEW s \in A PROVE After(i, s) \in A
      BY AppendProperties
    <3>2. <<>> \in A
      BY EmptySeq
    <3> HIDE DEF A, After
    <3> QED
      BY <3>1, <3>2
  <2>2. PICK f \in [0..n -> A] : Unfolds(f, <<>>, n, G)
    <3> HIDE DEF G, A
    <3> QED
      BY <2>1, RecursiveFunction
  <2>3. ASSUME NEW i \in 0..n
        PROVE  (IF i = 0 THEN <<>> ELSE G[<<i, f[i - 1]>>])
                 = IF i = 0 THEN <<>> ELSE After(i, f[i - 1])
    <3>1. CASE i = 0
      BY <3>1
    <3>2. CASE i # 0
      <4>1. i \in 1..n /\ f[i - 1] \in A
        BY <3>2
      <4> HIDE DEF A, After
      <4> QED
        BY <4>1
    <3> QED BY <3>1, <3>2
  <2> HIDE DEF G, After
  <2> QED
    BY <2>2, <2>3 DEF Unfolds
<1> DEFINE up == CHOOSE g : Recursive(g)
<1>2. Recursive(up)
  <2> HIDE DEF Recursive
  <2> QED
    BY <1>1
<1>3. Positions(n, S) = up[n]
  BY DEF Positions
<1> HIDE DEF up
<1>4. up[0] = <<>> /\ \A i \in 1..n : up[i] = After(i, up[i - 1])
  <2>1. ASSUME NEW i \in 0..n PROVE up[i] = IF i = 0 THEN <<>> ELSE After(i, up[i - 1])
    <3> HIDE DEF After
    <3> QED
      BY <1>2
  <2> HIDE DEF After
  <2> QED
    BY <2>1
<1> DEFINE T == {i \in Nat : i <= n => Lists(up[i], i, S)}
<1>5. 0 \in T
  <2>1. <<>> \in Seq((1..0) \cap S) /\ Len(<<>>) = 0 /\ DOMAIN <<>> = {} /\ (1..0) \cap S = {}
    BY EmptySeq
  <2>2. Lists(<<>>, 0, S)
    BY <2>1 DEF Lists
  <2> QED
    BY <1>4, <2>2
<1>6. ASSUME NEW i \in Nat, i \in T PROVE i + 1 \in T
  <2> SUFFICES ASSUME i + 1 <= n PROVE Lists(up[i + 1], i + 1, S)
    OBVIOUS
  <2> DEFINE s == up[i]
  <2>1. Lists(s, i, S)
    BY <1>6
  <2>2. up[i + 1] = After(i + 1, s)
    <3>1. i + 1 \in 1..n /\ (i + 1) - 1 = i
      OBVIOUS
    <3> HIDE DEF After
    <3> QED
      BY <1>4, <3>1
  <2> HIDE DEF s
  <2>3. CASE i + 1 \in S
    <3> DEFINE t == Append(s, i + 1)
    <3>0. s \in Seq((1..(i + 1)) \cap S)
      BY <2>1, SeqMonotonic DEF Lists
    <3>1. t \in Seq((1..(i + 1)) \cap S) /\ Len(t) = Len(s) + 1 /\ DOMAIN t = 1..(Len(s) + 1)
          /\ \A k \in 1..Len(s) : t[k] = s[k]
      BY <3>0, <2>3, AppendProperties
    <3>2. t[Len(s) + 1] = i + 1
      BY <3>0, <2>3, AppendProperties
    <3>3. \A k \in DOMAIN s : s[k] \in 1..i
      BY <2>1 DEF Lists
    <3>4. DOMAIN s = 1..Len(s) /\ Len(s) \in Nat
      BY <3>0
    <3> HIDE DEF t
    <3>5. ASSUME NEW k \in DOMAIN t, NEW j \in DOMAIN t, k < j PROVE t[k] < t[j]
      <4>1. k \in DOMAIN s
        BY <3>1, <3>4, <3>5
      <4>2. CASE j \in DOMAIN s
        BY <4>1, <4>2, <3>1, <3>4, <3>5, <2>1 DEF Lists
      <4>3. CASE j \notin DOMAIN s
        BY <4>1, <4>3, <3>1, <3>2, <3>3, <3>4
      <4> QED
        BY <4>2, <4>3
    <3>6. ASSUME NEW x \in (1..(i + 1)) \cap S PROVE \E k \in DOMAIN t : t[k] = x
      <4>1. CASE x = i + 1
        BY <4>1, <3>1, <3>2, <3>4
      <4>2. CASE x # i + 1
        <5>1. x \in (1..i) \cap S
          BY <4>2
        <5>2. PICK k \in DOMAIN s : s[k] = x
          BY <5>1, <2>1 DEF Lists
        <5> QED
          BY <5>2, <3>1, <3>4
      <4> QED
        BY <4>1, <4>2
    <3>7. Len(t) <= i + 1
      BY <2>1, <3>1, <3>4 DEF Lists
    <3>8. up[i + 1] = t
      BY <2>2, <2>3 DEF t
    <3> QED
      BY <3>1, <3>5, <3>6, <3>7, <3>8 DEF Lists
  <2>4. CASE i + 1 \notin S
    <3>1. up[i + 1] = s /\ (1..(i + 1)) \cap S = (1..i) \cap S
      BY <2>2, <2>4
    <3>2. Len(s) <= i + 1
      BY <2>1 DEF Lists
    <3> QED
      BY <2>1, <3>1, <3>2 DEF Lists
  <2> QED
    BY <2>3, <2>4
<1>7. n \in T
  <2> HIDE DEF T
  <2> QED
    BY <1>5, <1>6, SetInduction
<1> QED
  BY <1>3, <1>7

(* The positions asked for are what a list keeps.                          *)
KeptFrom(s, S) ==
  /\ \A i \in DOMAIN Kept(s, S) : \E k \in (1..Len(s)) \cap S : Kept(s, S)[i] = s[k]
  /\ \A k \in (1..Len(s)) \cap S : \E i \in DOMAIN Kept(s, S) : Kept(s, S)[i] = s[k]

(* What is kept is of the sequence, at positions asked for, in order.      *)
LEMMA KeptElements ==
  ASSUME NEW A, NEW s \in Seq(A), NEW S
  PROVE  /\ Kept(s, S) \in Seq(A) /\ Len(Kept(s, S)) <= Len(s)
         /\ \A i \in DOMAIN Kept(s, S) :
              \E k \in (1..Len(s)) \cap S : Kept(s, S)[i] = s[k]
         /\ \A k \in (1..Len(s)) \cap S :
              \E i \in DOMAIN Kept(s, S) : Kept(s, S)[i] = s[k]
         /\ KeptFrom(s, S)
<1> DEFINE n == Len(s)
           kept == Positions(n, S)
<1>1. Lists(kept, n, S)
  BY PositionsList
<1>2. Kept(s, S) = [i \in DOMAIN kept |-> s[kept[i]]]
  BY DEF Kept
<1> HIDE DEF kept
<1>3. /\ kept \in Seq((1..n) \cap S) /\ DOMAIN kept = 1..Len(kept) /\ Len(kept) \in Nat
      /\ \A i \in DOMAIN kept : kept[i] \in (1..n) \cap S
  BY <1>1 DEF Lists
<1>4. \A i \in DOMAIN kept : s[kept[i]] \in A
  BY <1>3
<1>5. Kept(s, S) \in Seq(A) /\ Len(Kept(s, S)) = Len(kept)
      /\ DOMAIN Kept(s, S) = DOMAIN kept
  BY <1>2, <1>3, <1>4
<1>6. kept \in Seq((1..n) \cap S) /\ Len(kept) <= n /\ \A i \in (1..n) \cap S :
        \E j \in DOMAIN kept : kept[j] = i
  BY <1>1, Zenon DEF Lists
<1>7. \A i \in DOMAIN kept : Kept(s, S)[i] = s[kept[i]]
  BY <1>2, Zenon
<1>8. Kept(s, S) \in Seq(A) /\ Len(Kept(s, S)) <= n
  BY <1>5, <1>6, Zenon
<1>9. ASSUME NEW i \in DOMAIN Kept(s, S)
      PROVE  \E k \in (1..n) \cap S : Kept(s, S)[i] = s[k]
  BY <1>3, <1>5, <1>7, Zenon
<1>10. ASSUME NEW k \in (1..n) \cap S
       PROVE  \E i \in DOMAIN Kept(s, S) : Kept(s, S)[i] = s[k]
  <2>1. PICK j \in DOMAIN kept : kept[j] = k
    BY <1>6, Zenon
  <2>2. Kept(s, S)[j] = s[k] /\ j \in DOMAIN Kept(s, S)
    BY <1>5, <1>7, <2>1, Zenon
  <2> QED
    BY <2>2
<1>11. KeptFrom(s, S)
  BY <1>9, <1>10, Zenon DEF KeptFrom
<1> QED
  BY <1>8, <1>9, <1>10, <1>11, Zenon

(* RemoveNodes leaves nodes of the list.                                   *)
LEMMA RemovedNodes ==
  ASSUME NEW A, NEW ns \in Seq(A), NEW removed
  PROVE  /\ RemoveNodes(ns, removed) \in Seq(A)
         /\ \A i \in DOMAIN RemoveNodes(ns, removed) :
              \E k \in DOMAIN ns : RemoveNodes(ns, removed)[i] = ns[k]
<1> DEFINE S == DOMAIN ns \ removed
<1>1. DOMAIN ns = 1..Len(ns)
  OBVIOUS
<1>2. /\ Kept(ns, S) \in Seq(A)
      /\ \A i \in DOMAIN Kept(ns, S) : \E k \in (1..Len(ns)) \cap S : Kept(ns, S)[i] = ns[k]
  <2> HIDE DEF S
  <2> QED
    BY KeptElements
<1> QED
  BY <1>1, <1>2 DEF RemoveNodes
-----------------------------------------------------------------------------
(* The nodes that become ready with the k-th of a queue.                   *)
Released(ns, k, queue) ==
  {i \in 1..Len(ns) :
     /\ queue[k] \in Dependencies(ns, i)
     /\ Dependencies(ns, i) \subseteq {queue[j] : j \in 1..k}}

(* The queue of Kahn's algorithm once its k-th node is taken, if any is.   *)
Taken(ns, k, queue) ==
  IF k > Len(queue) THEN queue ELSE queue \o Positions(Len(ns), Released(ns, k, queue))

(* taken[k] is the queue behind its k-th node.                             *)
KahnQueues(ns, taken) ==
  /\ taken \in [0..Len(ns) -> Seq(1..Len(ns))]
  /\ taken[0] = Positions(Len(ns), {i \in 1..Len(ns) : Dependencies(ns, i) = {}})
  /\ \A k \in 1..Len(ns) : taken[k] = Taken(ns, k, taken[k - 1])

(* Positions returns positions.                                            *)
LEMMA PositionsTyped ==
  ASSUME NEW n \in Nat, NEW S
  PROVE  Positions(n, S) \in Seq(1..n)
<1>1. Positions(n, S) \in Seq((1..n) \cap S)
  BY PositionsList DEF Lists
<1> QED
  BY <1>1, SeqMonotonic

(* KahnOrder is the last of the queues its recursion defines.              *)
LEMMA KahnOrderUnfolds ==
  ASSUME NEW ns, Len(ns) \in Nat
  PROVE  \E taken : KahnQueues(ns, taken) /\ KahnOrder(ns) = taken[Len(ns)]
<1> DEFINE n == Len(ns)
           A == Seq(1..n)
           start == Positions(n, {i \in 1..n : Dependencies(ns, i) = {}})
           take(k) ==
             [queue \in Seq(1..n) |->
                IF k > Len(queue) THEN queue
                ELSE queue \o Positions(n,
                       {i \in 1..n :
                          /\ queue[k] \in Dependencies(ns, i)
                          /\ Dependencies(ns, i) \subseteq {queue[j] : j \in 1..k}})]
           G == [p \in (1..n) \X A |-> Taken(ns, p[1], p[2])]
           Recursive(g) == g = [k \in 0..n |-> IF k = 0 THEN start ELSE take(k)[g[k - 1]]]
           taken == CHOOSE g : Recursive(g)
<1>1. KahnOrder(ns) = taken[n]
  BY DEF KahnOrder
<1>2. \A k \in 1..n : \A q \in A : take(k)[q] = Taken(ns, k, q)
  BY DEF Taken, Released
<1>3. \A k \in 1..n : \A q \in A : Taken(ns, k, q) \in A
  BY PositionsTyped, ConcatProperties DEF Taken
<1> HIDE DEF take
<1>5. G \in [(1..n) \X A -> A]
  <2> HIDE DEF A
  <2> QED
    BY <1>3
<1>6. start \in A
  BY PositionsTyped
<1>7. \E f \in [0..n -> A] : Recursive(f)
  <2>2. PICK f \in [0..n -> A] : Unfolds(f, start, n, G)
    <3> HIDE DEF A, start, G
    <3> QED
      BY <1>5, <1>6, RecursiveFunction
  <2>3. ASSUME NEW k \in 0..n
        PROVE  (IF k = 0 THEN start ELSE G[<<k, f[k - 1]>>])
                 = IF k = 0 THEN start ELSE take(k)[f[k - 1]]
    <3> HIDE DEF A, start
    <3> QED
      BY <1>2
  <2> HIDE DEF G, start
  <2> QED
    BY <2>2, <2>3 DEF Unfolds
<1>8. Recursive(taken)
  <2> HIDE DEF Recursive
  <2> QED
    BY <1>7
<1> HIDE DEF taken
<1>9. taken = [k \in 0..n |-> taken[k]]
  BY <1>8
<1>10. taken[0] = start /\ \A k \in 1..n : taken[k] = take(k)[taken[k - 1]]
  <2> HIDE DEF start
  <2> QED
    BY <1>8
<1> DEFINE T == {k \in Nat : k <= n => taken[k] \in A}
<1>11. 0 \in T
  BY <1>6, <1>10
<1>12. ASSUME NEW k \in Nat, k \in T PROVE k + 1 \in T
  <2> SUFFICES ASSUME k + 1 <= n PROVE taken[k + 1] \in A
    OBVIOUS
  <2>1. taken[k + 1] = take(k + 1)[taken[k]]
    BY <1>10
  <2>2. k + 1 \in 1..n /\ taken[k] \in A
    BY <1>12
  <2> HIDE DEF A, n, take
  <2>3. taken[k + 1] = Taken(ns, k + 1, taken[k])
    BY <2>1, <2>2, <1>2
  <2> QED
    BY <2>2, <2>3, <1>3
<1>13. \A k \in 0..n : taken[k] \in A
  <2> HIDE DEF T
  <2>1. Nat \subseteq T
    BY <1>11, <1>12, SetInduction
  <2> QED
    BY <2>1 DEF T
<1>14. \A k \in 1..n : taken[k] = Taken(ns, k, taken[k - 1])
  <2> HIDE DEF A
  <2> QED
    BY <1>2, <1>10, <1>13
<1>15. KahnQueues(ns, taken)
  <2>1. taken \in [0..n -> A]
    <3> HIDE DEF A
    <3> QED
      BY <1>9, <1>13
  <2> QED
    BY <2>1, <1>10, <1>14 DEF KahnQueues
<1> QED
  BY <1>1, <1>15

(* Kahn's algorithm returns positions of nodes.                            *)
LEMMA KahnOrderTyped ==
  ASSUME NEW ns, Len(ns) \in Nat
  PROVE  KahnOrder(ns) \in Seq(1..Len(ns))
<1>1. PICK taken : KahnQueues(ns, taken) /\ KahnOrder(ns) = taken[Len(ns)]
  BY KahnOrderUnfolds
<1>2. Len(ns) \in 0..Len(ns)
  OBVIOUS
<1> QED
  BY <1>1, <1>2 DEF KahnQueues
-----------------------------------------------------------------------------
(* What inference finds: whether it accepts, and the kinds of the values.  *)
Found == [ok : BOOLEAN, known : [Value -> Kind]]

(* The kinds of a node's inputs.                                           *)
KindsOf(node, kinds) == [k \in DOMAIN node.ins |-> kinds[node.ins[k]]]

(* What inference finds once it has come to a node.                        *)
Infer(node, found) ==
  IF found.ok /\ Accepts(node.op, KindsOf(node, found.known))
  THEN [found EXCEPT !.known[node.out] = OutputKind(node.op, KindsOf(node, found.known))]
  ELSE [found EXCEPT !.ok = FALSE]

(* after[n] is what inference has found behind node n.                     *)
InferredSteps(ns, kinds, after) ==
  /\ after \in [0..Len(ns) -> Found]
  /\ after[0] = [ok |-> TRUE, known |-> kinds]
  /\ \A n \in 1..Len(ns) : after[n] = Infer(ns[n], after[n - 1])

(* Every node has as many inputs as its schema allows.                     *)
WellFormed(ns) == \A i \in DOMAIN ns : Len(ns[i].ins) \in InputCounts(ns[i].op)

(* A node's inference step gives a kind to its output.                     *)
LEMMA InferTyped ==
  ASSUME NEW node \in Node, NEW found \in Found
  PROVE  Infer(node, found) \in Found
<1> DEFINE args == KindsOf(node, found.known)
<1>1. args \in Seq(Kind) /\ Len(args) = Len(node.ins)
  <2>1. node.ins \in Seq(Value) /\ DOMAIN node.ins = 1..Len(node.ins) /\ Len(node.ins) \in Nat
    BY DEF Node
  <2>2. \A k \in DOMAIN node.ins : found.known[node.ins[k]] \in Kind
    BY <2>1 DEF Found
  <2> QED
    BY <2>1, <2>2 DEF KindsOf
<1> HIDE DEF args
<1>2. ASSUME Accepts(node.op, args) PROVE OutputKind(node.op, args) \in Kind
  <2>1. CASE node.op \in GemmLike \cup {"Flatten"}
    BY <2>1 DEF OutputKind, Kind
  <2>2. CASE node.op \notin GemmLike \cup {"Flatten"}
    <3>1. Len(args) \in InputCounts(node.op)
      BY <1>2 DEF Accepts
    <3>2. \A n \in InputCounts(node.op) : n \in Nat /\ n >= 1
      BY DEF InputCounts
    <3>3. 1 \in 1..Len(args)
      BY <3>1, <3>2
    <3>4. args[1] \in Kind
      BY <3>3, <1>1, ElementOfSeq
    <3> QED
      BY <2>2, <3>4 DEF OutputKind
  <2> QED
    BY <2>1, <2>2
<1>3. Infer(node, found) = IF found.ok /\ Accepts(node.op, args)
                           THEN [found EXCEPT !.known[node.out] = OutputKind(node.op, args)]
                           ELSE [found EXCEPT !.ok = FALSE]
  BY DEF Infer, args
<1> QED
  BY <1>2, <1>3 DEF Found

(* Inferred is the last of the findings its recursion defines.             *)
LEMMA InferredUnfolds ==
  ASSUME NEW ns \in Seq(Node), NEW kinds \in [Value -> Kind]
  PROVE  \E after : InferredSteps(ns, kinds, after) /\ Inferred(ns, kinds) = after[Len(ns)]
<1> DEFINE n == Len(ns)
           A == Found
           start == [ok |-> TRUE, known |-> kinds]
           infer(i) ==
             [found \in [ok : BOOLEAN, known : [Value -> Kind]] |->
                LET args == [k \in DOMAIN ns[i].ins |-> found.known[ns[i].ins[k]]]
                IN  IF found.ok /\ Accepts(ns[i].op, args)
                    THEN [found EXCEPT !.known[ns[i].out] = OutputKind(ns[i].op, args)]
                    ELSE [found EXCEPT !.ok = FALSE]]
           G == [p \in (1..n) \X A |-> Infer(ns[p[1]], p[2])]
           Recursive(g) == g = [i \in 0..n |-> IF i = 0 THEN start ELSE infer(i)[g[i - 1]]]
           after == CHOOSE g : Recursive(g)
<1>0. n \in Nat
  OBVIOUS
<1>1. Inferred(ns, kinds) = after[n]
  BY DEF Inferred
<1>2. \A i \in 1..n : \A q \in A : infer(i)[q] = Infer(ns[i], q)
  BY DEF Infer, KindsOf, Found
<1>3. \A i \in 1..n : \A q \in A : Infer(ns[i], q) \in A
  BY InferTyped
<1> HIDE DEF infer
<1>5. G \in [(1..n) \X A -> A]
  <2> HIDE DEF A
  <2> QED
    BY <1>3
<1>6. start \in A
  BY DEF Found
<1>7. \E f \in [0..n -> A] : Recursive(f)
  <2>2. PICK f \in [0..n -> A] : Unfolds(f, start, n, G)
    <3> HIDE DEF A, start, G, n
    <3> QED
      BY <1>0, <1>5, <1>6, RecursiveFunction
  <2>3. ASSUME NEW i \in 0..n
        PROVE  (IF i = 0 THEN start ELSE G[<<i, f[i - 1]>>])
                 = IF i = 0 THEN start ELSE infer(i)[f[i - 1]]
    <3>1. CASE i = 0
      BY <3>1
    <3>2. CASE i # 0
      <4> HIDE DEF A, start, n
      <4>1. i \in 1..n /\ i - 1 \in 0..n
        BY <1>0, <3>2
      <4>2. f[i - 1] \in A
        BY <4>1
      <4>3. G[<<i, f[i - 1]>>] = Infer(ns[i], f[i - 1])
        BY <4>1, <4>2
      <4>4. infer(i)[f[i - 1]] = Infer(ns[i], f[i - 1])
        BY <1>2, <4>1, <4>2
      <4> QED
        BY <3>2, <4>3, <4>4
    <3> QED
      BY <3>1, <3>2
  <2> HIDE DEF G, start
  <2> QED
    BY <2>2, <2>3 DEF Unfolds
<1>8. Recursive(after)
  <2> HIDE DEF Recursive
  <2> QED
    BY <1>7
<1> HIDE DEF after
<1>9. after = [i \in 0..n |-> after[i]]
  BY <1>8
<1>10. after[0] = start /\ \A i \in 1..n : after[i] = infer(i)[after[i - 1]]
  <2> HIDE DEF start
  <2> QED
    BY <1>8
<1> DEFINE T == {i \in Nat : i <= n => after[i] \in A}
<1>11. 0 \in T
  BY <1>6, <1>10
<1>12. ASSUME NEW i \in Nat, i \in T PROVE i + 1 \in T
  <2> SUFFICES ASSUME i + 1 <= n PROVE after[i + 1] \in A
    OBVIOUS
  <2>1. after[i + 1] = infer(i + 1)[after[i]]
    BY <1>10
  <2>2. i + 1 \in 1..n /\ after[i] \in A
    BY <1>12
  <2> HIDE DEF A, n, infer
  <2>3. after[i + 1] = Infer(ns[i + 1], after[i])
    BY <2>1, <2>2, <1>2
  <2> QED
    BY <2>2, <2>3, <1>3
<1>13. \A i \in 0..n : after[i] \in A
  <2> HIDE DEF T
  <2>1. Nat \subseteq T
    BY <1>11, <1>12, SetInduction
  <2> QED
    BY <2>1 DEF T
<1>14. \A i \in 1..n : after[i] = Infer(ns[i], after[i - 1])
  <2> HIDE DEF A
  <2> QED
    BY <1>2, <1>10, <1>13
<1>15. InferredSteps(ns, kinds, after)
  <2>1. after \in [0..n -> Found]
    BY <1>9, <1>13
  <2> QED
    BY <2>1, <1>10, <1>14 DEF InferredSteps
<1> QED
  BY <1>1, <1>15

(* Inference describes values, and accepts well-formed nodes only.         *)
LEMMA InferredResult ==
  ASSUME NEW ns \in Seq(Node), NEW kinds \in [Value -> Kind]
  PROVE  /\ Inferred(ns, kinds) \in Found
         /\ Inferred(ns, kinds).ok => WellFormed(ns)
<1> DEFINE n == Len(ns)
<1>1. PICK after : InferredSteps(ns, kinds, after) /\ Inferred(ns, kinds) = after[n]
  BY InferredUnfolds
<1>2. n \in 0..n /\ DOMAIN ns = 1..n
  OBVIOUS
<1>3. Inferred(ns, kinds) \in Found
  BY <1>1, <1>2 DEF InferredSteps
<1> DEFINE Good(i) == after[i].ok => \A j \in 1..i : Len(ns[j].ins) \in InputCounts(ns[j].op)
           T == {i \in Nat : i <= n => Good(i)}
<1>4. 0 \in T
  OBVIOUS
<1>5. ASSUME NEW i \in Nat, i \in T PROVE i + 1 \in T
  <2> SUFFICES ASSUME i + 1 <= n, after[i + 1].ok,
                      NEW j \in 1..(i + 1)
               PROVE  Len(ns[j].ins) \in InputCounts(ns[j].op)
    OBVIOUS
  <2>1. i + 1 \in 1..n /\ after[i] \in Found /\ after[i + 1] = Infer(ns[i + 1], after[i])
    BY <1>1 DEF InferredSteps
  <2>2. after[i].ok /\ Accepts(ns[i + 1].op, KindsOf(ns[i + 1], after[i].known))
    <3> HIDE DEF T, Good
    <3> QED
      BY <2>1 DEF Infer, Found
  <2>3. Len(ns[i + 1].ins) \in InputCounts(ns[i + 1].op)
    <3>1. ns[i + 1].ins \in Seq(Value)
      <4>1. ns[i + 1] \in Node
        BY <2>1
      <4> QED
        BY <4>1 DEF Node
    <3>2. Len(KindsOf(ns[i + 1], after[i].known)) = Len(ns[i + 1].ins)
      BY <3>1 DEF KindsOf
    <3> QED
      BY <2>2, <3>2 DEF Accepts
  <2>4. CASE j = i + 1
    BY <2>3, <2>4
  <2>5. CASE j # i + 1
    <3>1. Good(i) /\ j \in 1..i
      BY <1>5, <2>5
    <3> QED
      BY <3>1, <2>2
  <2> QED
    BY <2>4, <2>5
<1>6. n \in T
  <2> HIDE DEF T
  <2> QED
    BY <1>4, <1>5, <1>2, SetInduction
<1> QED
  BY <1>1, <1>2, <1>3, <1>6 DEF WellFormed
-----------------------------------------------------------------------------
(* The passes still to run are the end of the pipeline.                    *)
Remaining(k) == passes = SubSeq(Pipeline, k, Len(Pipeline))

PassesInOrder == \E k \in 1..(Len(Pipeline) + 1) : Remaining(k)

(* Once shapes are inferred for the last time, every node has as many      *)
(* inputs as its schema asks for.                                          *)
NodesWellFormed == Len(passes) <= 3 => WellFormed(nodes)

(* The inductive invariant of the passes.                                  *)
GraphInv == TypeOK /\ PassesInOrder /\ NodesWellFormed

(* The names of the passes.                                                *)
PassNames ==
  {"topological_sort", "shape_inference", "constant_folding", "dead_node_elimination",
   "conv_batchnorm_relu_fusion", "add_relu_fusion", "gemm_gelu_fusion",
   "skip_layer_norm_fusion", "flatten_gemm_normalization", "static_shape_validation"}

(* Both pipelines end with the same four passes.                           *)
LEMMA PipelineEnds ==
  /\ Pipeline \in Seq(PassNames) /\ Len(Pipeline) \in Nat /\ Len(Pipeline) >= 4
  /\ Pipeline[Len(Pipeline) - 3] = "shape_inference"
  /\ Pipeline[Len(Pipeline) - 2] = "flatten_gemm_normalization"
  /\ Pipeline[Len(Pipeline) - 1] = "dead_node_elimination"
  /\ Pipeline[Len(Pipeline)] = "static_shape_validation"
<1>1. CASE EnableTransformerFusions
  BY <1>1 DEF Pipeline, PassNames
<1>2. CASE ~EnableTransformerFusions
  BY <1>2 DEF Pipeline, PassNames
<1> QED
  BY <1>1, <1>2

(* What the first remaining pass is, and what follows it.                  *)
LEMMA RemainingPasses ==
  ASSUME NEW k \in 1..(Len(Pipeline) + 1), Remaining(k)
  PROVE  /\ passes \in Seq(PassNames) /\ Len(passes) = Len(Pipeline) - k + 1
         /\ passes # <<>> <=> k <= Len(Pipeline)
         /\ passes # <<>> => /\ Head(passes) = Pipeline[k]
                             /\ Tail(passes) = SubSeq(Pipeline, k + 1, Len(Pipeline))
<1> DEFINE L == Len(Pipeline)
<1>1. Pipeline \in Seq(PassNames) /\ L \in Nat
  BY PipelineEnds
<1>2. \A i \in k..L : Pipeline[i] \in PassNames
  BY <1>1
<1>3. /\ SubSeq(Pipeline, k, L) \in Seq(PassNames)
      /\ Len(SubSeq(Pipeline, k, L)) = IF k <= L THEN L - k + 1 ELSE 0
  BY <1>1, <1>2, SubSeqProperties
<1>4. k <= L => /\ Head(SubSeq(Pipeline, k, L)) = Pipeline[k]
                /\ Tail(SubSeq(Pipeline, k, L)) = SubSeq(Pipeline, k + 1, L)
  BY <1>1, HeadTailOfSubSeq
<1>5. passes = SubSeq(Pipeline, k, L)
  BY DEF Remaining
<1>6. passes # <<>> <=> Len(passes) # 0
  BY <1>3, <1>5, EmptySeq
<1>7. Len(passes) = L - k + 1
  BY <1>1, <1>3, <1>5
<1> HIDE DEF L
<1>8. passes # <<>> <=> k <= L
  BY <1>1, <1>6, <1>7
<1> QED
  BY <1>3, <1>4, <1>5, <1>7, <1>8 DEF L

(* A pass of the last three runs on the final nodes, the one before them   *)
(* is shape inference.                                                     *)
LEMMA LastPasses ==
  ASSUME PassesInOrder, passes # <<>>, Len(passes) <= 4
  PROVE  /\ Len(passes) = 4 => Head(passes) = "shape_inference"
         /\ Len(passes) # 4 =>
              \/ Head(passes) = "flatten_gemm_normalization"
              \/ Head(passes) = "dead_node_elimination"
              \/ Head(passes) = "static_shape_validation"
<1>1. PICK k \in 1..(Len(Pipeline) + 1) : Remaining(k)
  BY DEF PassesInOrder
<1>2. Head(passes) = Pipeline[k] /\ Len(passes) = Len(Pipeline) - k + 1 /\ k <= Len(Pipeline)
  BY <1>1, RemainingPasses
<1>3. Len(Pipeline) \in Nat /\ Len(Pipeline) >= 4
  BY PipelineEnds
<1>4. k \in {Len(Pipeline) - 3, Len(Pipeline) - 2, Len(Pipeline) - 1, Len(Pipeline)}
  <2>1. \A l \in Nat, j \in Nat : l >= 4 /\ j <= l /\ l - j + 1 <= 4
                               => j \in {l - 3, l - 2, l - 1, l}
    OBVIOUS
  <2>2. k \in Nat
    BY <1>3
  <2>3. Len(Pipeline) - k + 1 <= 4
    BY <1>2
  <2> QED
    BY <1>2, <1>3, <2>1, <2>2, <2>3
<1> QED
  BY <1>2, <1>3, <1>4, PipelineEnds

(* Moving on to the next pass keeps what is known of the passes.           *)
LEMMA PassesAdvance ==
  ASSUME TypeOK, PassesInOrder, passes # <<>>, NextPass
  PROVE  /\ PassesInOrder' /\ Len(passes') = Len(passes) - 1 /\ Len(passes) \in Nat
         /\ passes' \in Seq({Pipeline[i] : i \in DOMAIN Pipeline})
         /\ status' = status
<1>1. PICK k \in 1..(Len(Pipeline) + 1) : Remaining(k)
  BY DEF PassesInOrder
<1>2. /\ passes # <<>> /\ passes' = SubSeq(Pipeline, k + 1, Len(Pipeline))
      /\ k <= Len(Pipeline)
  BY <1>1, RemainingPasses DEF NextPass
<1>3. Len(Pipeline) \in Nat
  BY PipelineEnds
<1>4. k + 1 \in 1..(Len(Pipeline) + 1) /\ Remaining(k + 1)'
  BY <1>2, <1>3 DEF Remaining, Pipeline
<1>5. PassesInOrder'
  BY <1>4 DEF PassesInOrder, Pipeline
<1>6. passes \in Seq({Pipeline[i] : i \in DOMAIN Pipeline})
  BY DEF TypeOK
<1>7. passes' = Tail(passes) /\ status' = status
  BY DEF NextPass
<1> QED
  BY <1>2, <1>5, <1>6, <1>7, HeadTailProperties, LenProperties
-----------------------------------------------------------------------------
(* What a step of the list of passes leaves.                               *)
PassesStep ==
  \/ passes # <<>> /\ NextPass
  \/ Fail
  \/ UNCHANGED <<passes, status>>

(* A step of a pass keeps the invariant if it keeps the nodes' and the     *)
(* descriptions' types, and the numbers of inputs once they are final.     *)
LEMMA PassKeepsGraph ==
  ASSUME GraphInv, NEW pass, Running(pass), PassesStep,
         nodes' \in Seq(Node), known' \in [Value -> Kind], outputs' = outputs,
         Len(passes') <= 3 => WellFormed(nodes')
  PROVE  GraphInv'
<1>1. TypeOK /\ PassesInOrder
  BY DEF GraphInv
<1>2. CASE NextPass
  <2>1. /\ PassesInOrder' /\ passes' \in Seq({Pipeline[i] : i \in DOMAIN Pipeline})
        /\ status' = status
    BY <1>1, <1>2, PassesAdvance DEF Running
  <2> QED
    BY <1>1, <2>1 DEF GraphInv, TypeOK, NodesWellFormed, Pipeline
<1>3. CASE Fail \/ UNCHANGED <<passes, status>>
  <2>1. passes' = passes /\ status' \in {"running", "ok", "failed"}
    BY <1>1, <1>3 DEF Fail, TypeOK
  <2>2. PassesInOrder'
    BY <1>1, <2>1 DEF PassesInOrder, Remaining, Pipeline
  <2> QED
    BY <1>1, <2>1, <2>2 DEF GraphInv, TypeOK, NodesWellFormed, Pipeline
<1> QED
  BY <1>2, <1>3 DEF PassesStep

(* A pass that is none of the last four leaves more than three to run.     *)
LEMMA EarlyPass ==
  ASSUME GraphInv, NEW pass, Running(pass), PassesStep,
         pass \notin {"shape_inference", "flatten_gemm_normalization",
                      "dead_node_elimination", "static_shape_validation"}
  PROVE  ~(Len(passes') <= 3)
<1>1. TypeOK /\ PassesInOrder
  BY DEF GraphInv
<1>2. Len(passes) \in Nat /\ ~(Len(passes) <= 4)
  BY <1>1, LastPasses DEF Running, TypeOK
<1>3. CASE NextPass
  <2>1. Len(passes') = Len(passes) - 1
    BY <1>1, <1>3, PassesAdvance DEF Running
  <2> QED
    BY <1>2, <2>1
<1>4. CASE Fail \/ UNCHANGED <<passes, status>>
  BY <1>2, <1>4 DEF Fail
<1> QED
  BY <1>3, <1>4 DEF PassesStep

(* Sorting keeps the invariant.                                            *)
LEMMA SortKeepsGraph ==
  ASSUME GraphInv, TopologicalSort
  PROVE  GraphInv'
<1> DEFINE order == KahnOrder(nodes)
<1>1. nodes \in Seq(Node) /\ known \in [Value -> Kind]
  BY DEF GraphInv, TypeOK
<1>2. order \in Seq(1..Len(nodes))
  BY <1>1, KahnOrderTyped
<1>3. Running("topological_sort") /\ PassesStep /\ outputs' = outputs /\ known' = known
  BY DEF TopologicalSort, PassesStep, Running
<1>4. nodes' = [i \in DOMAIN order |-> nodes[order[i]]] \/ nodes' = nodes
  BY DEF TopologicalSort
<1> HIDE DEF order
<1>5. nodes' \in Seq(Node)
  <2>1. \A i \in DOMAIN order : nodes[order[i]] \in Node
    BY <1>1, <1>2
  <2>2. DOMAIN order = 1..Len(order) /\ Len(order) \in Nat
    BY <1>2
  <2>3. [i \in DOMAIN order |-> nodes[order[i]]] \in Seq(Node)
    BY <2>1, <2>2
  <2> QED
    BY <1>1, <1>4, <2>3, Zenon
<1>6. ~(Len(passes') <= 3)
  BY <1>3, EarlyPass
<1> QED
  BY <1>1, <1>3, <1>5, <1>6, PassKeepsGraph

(* Shape inference establishes the numbers of inputs.                      *)
LEMMA InferenceKeepsGraph ==
  ASSUME GraphInv, InferShapes
  PROVE  GraphInv'
<1> DEFINE result == Inferred(nodes, known)
<1>1. nodes \in Seq(Node) /\ known \in [Value -> Kind]
  BY DEF GraphInv, TypeOK
<1>2. result \in Found /\ (result.ok => WellFormed(nodes))
  BY <1>1, InferredResult
<1>3. /\ Running("shape_inference") /\ PassesStep /\ outputs' = outputs /\ nodes' = nodes
      /\ known' = result.known /\ ((result.ok /\ NextPass) \/ Fail)
  BY DEF InferShapes, PassesStep, Running
<1> HIDE DEF result
<1>4. known' \in [Value -> Kind]
  BY <1>2, <1>3 DEF Found
<1>5. ASSUME Len(passes') <= 3 PROVE WellFormed(nodes')
  <2>1. CASE result.ok
    BY <1>2, <1>3, <2>1 DEF WellFormed
  <2>2. CASE Fail
    <3>1. Len(passes) <= 3 /\ Len(passes) \in Nat
      BY <1>5, <2>2 DEF Fail, GraphInv, TypeOK
    <3> QED
      <4>0. \A l \in Nat : l <= 3 => l # 4
        OBVIOUS
      <4>1. passes # <<>> /\ Head(passes) = "shape_inference" /\ PassesInOrder /\ Len(passes) # 4
        BY <1>3, <3>1, <4>0, Zenon DEF Running, GraphInv
      <4>2. Len(passes) <= 4
        BY <3>1
      <4> QED
        BY <4>1, <4>2, LastPasses
  <2> QED
    BY <1>3, <2>1, <2>2
<1> QED
  BY <1>1, <1>3, <1>4, <1>5, PassKeepsGraph

(* Dead-node elimination keeps the invariant.                              *)
LEMMA EliminationKeepsGraph ==
  ASSUME GraphInv, EliminateDeadNodes
  PROVE  GraphInv'
<1> DEFINE dead == DeadNodes(nodes, outputs)
<1>1. nodes \in Seq(Node) /\ known \in [Value -> Kind] /\ TypeOK /\ PassesInOrder
  BY DEF GraphInv, TypeOK
<1>2. /\ Running("dead_node_elimination") /\ PassesStep /\ NextPass
      /\ nodes' = RemoveNodes(nodes, dead) /\ outputs' = outputs /\ known' = known
  BY DEF EliminateDeadNodes, PassesStep, Running
<1> HIDE DEF dead
<1>3. /\ nodes' \in Seq(Node)
      /\ \A i \in DOMAIN nodes' : \E k \in DOMAIN nodes : nodes'[i] = nodes[k]
  BY <1>1, <1>2, RemovedNodes
<1>4. ASSUME Len(passes') <= 3 PROVE WellFormed(nodes')
  <2>1. Len(passes) \in Nat /\ Len(passes) <= 4
    BY <1>1, <1>2, <1>4, PassesAdvance DEF Running
  <2>2. Len(passes) <= 3
    <3>1. Len(passes) # 4
      BY <1>1, <1>2, <2>1, LastPasses DEF Running
    <3>2. \A n \in Nat : n <= 4 /\ n # 4 => n <= 3
      OBVIOUS
    <3> QED
      BY <2>1, <3>1, <3>2
  <2>3. WellFormed(nodes)
    BY <2>2 DEF GraphInv, NodesWellFormed
  <2> QED
    BY <1>3, <2>3 DEF WellFormed
<1> QED
  BY <1>1, <1>2, <1>3, <1>4, PassKeepsGraph

(* A MatMul has as many inputs as a Gemm may have.                         *)
LEMMA NormalizationKeepsGraph ==
  ASSUME GraphInv, Normalize
  PROVE  GraphInv'
<1> DEFINE new(i) == IF nodes[i].op = "MatMul" THEN [nodes[i] EXCEPT !.op = "Gemm"]
                     ELSE nodes[i]
<1>1. nodes \in Seq(Node) /\ known \in [Value -> Kind] /\ TypeOK /\ PassesInOrder
  BY DEF GraphInv, TypeOK
<1>2. /\ Running("flatten_gemm_normalization") /\ PassesStep /\ NextPass
      /\ nodes' = [i \in DOMAIN nodes |-> new(i)] /\ outputs' = outputs /\ known' = known
  BY DEF Normalize, PassesStep, Running
<1>3. ASSUME NEW i \in DOMAIN nodes
      PROVE  /\ new(i) \in Node
             /\ Len(nodes[i].ins) \in InputCounts(nodes[i].op)
                  => Len(new(i).ins) \in InputCounts(new(i).op)
  <2>1. nodes[i] \in Node
    BY <1>1
  <2>2. "Gemm" \in Op
    BY DEF Op, GemmLike
  <2>3. new(i) \in Node
    BY <2>1, <2>2 DEF Node
  <2>4. CASE nodes[i].op = "MatMul"
    <3>1. new(i).op = "Gemm" /\ new(i).ins = nodes[i].ins
      BY <2>1, <2>4 DEF Node
    <3>2. InputCounts("MatMul") = {2} /\ InputCounts("Gemm") = {2, 3}
      BY DEF InputCounts, Elementwise, PoolLike
    <3> QED
      BY <2>3, <2>4, <3>1, <3>2
  <2> QED
    BY <2>3, <2>4
<1> HIDE DEF new
<1>4. nodes' \in Seq(Node)
  BY <1>1, <1>2, <1>3
<1>5. ASSUME Len(passes') <= 3 PROVE WellFormed(nodes')
  <2>1. Len(passes) \in Nat /\ Len(passes) <= 4
    BY <1>1, <1>2, <1>5, PassesAdvance DEF Running
  <2>2. Len(passes) <= 3
    <3>1. Len(passes) # 4
      BY <1>1, <1>2, <2>1, LastPasses DEF Running
    <3>2. \A n \in Nat : n <= 4 /\ n # 4 => n <= 3
      OBVIOUS
    <3> QED
      BY <2>1, <3>1, <3>2
  <2>3. WellFormed(nodes)
    BY <2>2 DEF GraphInv, NodesWellFormed
  <2> QED
    BY <1>2, <1>3, <2>3 DEF WellFormed
<1> QED
  BY <1>1, <1>2, <1>4, <1>5, PassKeepsGraph

(* The last validation keeps the invariant.                                *)
LEMMA ValidationKeepsGraph ==
  ASSUME GraphInv, ValidateShapes
  PROVE  GraphInv'
<1>1. nodes \in Seq(Node) /\ known \in [Value -> Kind] /\ TypeOK /\ PassesInOrder
  BY DEF GraphInv, TypeOK
<1>2. /\ Running("static_shape_validation") /\ PassesStep
      /\ UNCHANGED <<nodes, outputs, known>>
  BY DEF ValidateShapes, PassesStep, Running
<1>3. ASSUME Len(passes') <= 3 PROVE WellFormed(nodes')
  <2>1. Len(passes) \in Nat /\ Len(passes) <= 4
    <3>1. CASE NextPass
      BY <1>1, <1>2, <1>3, <3>1, PassesAdvance DEF Running
    <3>2. CASE ~NextPass
      BY <1>1, <1>2, <1>3, <3>2 DEF PassesStep, Fail, TypeOK
    <3> QED
      BY <3>1, <3>2
  <2>2. Len(passes) <= 3
    <3>1. Len(passes) # 4
      BY <1>1, <1>2, <2>1, LastPasses DEF Running
    <3>2. \A n \in Nat : n <= 4 /\ n # 4 => n <= 3
      OBVIOUS
    <3> QED
      BY <2>1, <3>1, <3>2
  <2> QED
    BY <1>2, <2>2 DEF GraphInv, NodesWellFormed, WellFormed
<1> QED
  BY <1>1, <1>2, <1>3, PassKeepsGraph

(* Constant folding keeps the invariant.                                   *)
LEMMA FoldingKeepsGraph ==
  ASSUME GraphInv, FoldConstants
  PROVE  GraphInv'
<1>1. nodes \in Seq(Node) /\ known \in [Value -> Kind]
  BY DEF GraphInv, TypeOK
<1>2. /\ Running("constant_folding") /\ PassesStep /\ UNCHANGED <<nodes, outputs, known>>
  BY DEF FoldConstants, PassesStep, Running
<1>3. ~(Len(passes') <= 3)
  BY <1>2, EarlyPass
<1> QED
  BY <1>1, <1>2, <1>3, PassKeepsGraph

(* A fusion pass keeps the invariant if the merged nodes are nodes.        *)
LEMMA FusionKeepsGraph ==
  ASSUME GraphInv, NEW pass, NEW pairs, NEW fused, NEW removed,
         FusionPass(pass, pairs, fused, removed),
         pass \notin {"shape_inference", "flatten_gemm_normalization",
                      "dead_node_elimination", "static_shape_validation"},
         pairs \subseteq (DOMAIN nodes) \X (DOMAIN nodes),
         \A p \in pairs : fused[p] \in Node
  PROVE  GraphInv'
<1>1. nodes \in Seq(Node) /\ known \in [Value -> Kind]
  BY DEF GraphInv, TypeOK
<1>2. Running(pass) /\ PassesStep /\ outputs' = outputs /\ known' = known
  BY DEF FusionPass, PassesStep, Running
<1>3. CASE nodes' = nodes
  <2>1. ~(Len(passes') <= 3)
    BY <1>2, EarlyPass
  <2> QED
    BY <1>1, <1>2, <1>3, <2>1, PassKeepsGraph
<1>4. CASE \E p \in pairs : nodes' = RemoveNodes([nodes EXCEPT ![p[1]] = fused[p]], removed[p])
  <2>1. PICK p \in pairs : nodes' = RemoveNodes([nodes EXCEPT ![p[1]] = fused[p]], removed[p])
    BY <1>4
  <2>2. [nodes EXCEPT ![p[1]] = fused[p]] \in Seq(Node)
    BY <1>1, ExceptSeq
  <2>3. nodes' \in Seq(Node)
    BY <2>1, <2>2, RemovedNodes
  <2>4. ~(Len(passes') <= 3)
    BY <1>2, EarlyPass
  <2> QED
    BY <1>1, <1>2, <2>3, <2>4, PassKeepsGraph
<1> QED
  BY <1>3, <1>4 DEF FusionPass

(* The second node of a pair has an input, the first's output.             *)
LEMMA PairsRead ==
  ASSUME nodes \in Seq(Node), NEW i \in DOMAIN nodes, NEW j \in DOMAIN nodes, OnlyReader(i, j)
  PROVE  /\ nodes[j].ins # <<>> /\ Tail(nodes[j].ins) \in Seq(Value)
         /\ nodes[i].ins \in Seq(Value) /\ nodes[j].out \in Value
         /\ nodes[i].ins \o Tail(nodes[j].ins) \in Seq(Value)
<1>1. nodes[i] \in Node /\ nodes[j] \in Node
  OBVIOUS
<1>2. nodes[j].ins \in Seq(Value) /\ nodes[i].ins \in Seq(Value) /\ nodes[j].out \in Value
  BY <1>1 DEF Node
<1>3. \E k \in DOMAIN nodes[j].ins : nodes[j].ins[k] = nodes[i].out
  BY DEF OnlyReader, Reads
<1>4. nodes[j].ins # <<>>
  BY <1>3
<1> QED
  BY <1>2, <1>4, HeadTailProperties, ConcatProperties

(* Conv and normalisation are merged into a node.                          *)
LEMMA ConvFusionKeepsGraph ==
  ASSUME GraphInv, FuseConvBatchNormRelu
  PROVE  GraphInv'
<1> DEFINE pairs == Pairs("Conv", "BatchNormalization")
           removed == [p \in pairs |-> {p[2]} \cup FollowingRelu(p[2])]
           last(p) == IF FollowingRelu(p[2]) = {} THEN p[2]
                      ELSE CHOOSE relu \in FollowingRelu(p[2]) : TRUE
           fused == [p \in pairs |->
                       [op |-> FusedConvOp(p[2]),
                        ins |-> nodes[p[1]].ins \o Tail(nodes[p[2]].ins),
                        out |-> nodes[last(p)].out]]
<1>1. FusionPass("conv_batchnorm_relu_fusion", pairs, fused, removed)
  BY DEF FuseConvBatchNormRelu
<1>2. nodes \in Seq(Node)
  BY DEF GraphInv, TypeOK
<1>3. ASSUME NEW p \in pairs PROVE fused[p] \in Node
  <2>1. p[1] \in DOMAIN nodes /\ p[2] \in DOMAIN nodes /\ OnlyReader(p[1], p[2])
    BY DEF Pairs
  <2>2. FusedConvOp(p[2]) \in Op
    BY DEF FusedConvOp, Op, ConvLike
  <2>3. last(p) \in DOMAIN nodes
    BY <2>1 DEF FollowingRelu
  <2>4. nodes[last(p)].out \in Value
    <3> HIDE DEF last
    <3>1. nodes[last(p)] \in Node
      BY <1>2, <2>3
    <3> QED
      BY <3>1 DEF Node
  <2>5. nodes[p[1]].ins \o Tail(nodes[p[2]].ins) \in Seq(Value)
    BY <1>2, <2>1, PairsRead
  <2> HIDE DEF last
  <2> QED
    BY <2>2, <2>4, <2>5 DEF Node
<1>4. pairs \subseteq (DOMAIN nodes) \X (DOMAIN nodes)
  BY DEF Pairs
<1> HIDE DEF pairs, fused, removed
<1> QED
  BY <1>1, <1>3, <1>4, FusionKeepsGraph

(* Two merged nodes are a node.                                            *)
LEMMA MergedTyped ==
  ASSUME nodes \in Seq(Node), NEW i \in DOMAIN nodes, NEW j \in DOMAIN nodes, NEW op \in Op
  PROVE  Merged(op, i, j) \in Node
<1>1. nodes[i] \in Node /\ nodes[j] \in Node
  OBVIOUS
<1> QED
  BY <1>1 DEF Merged, Node

(* Add and Relu are merged into a node.                                    *)
LEMMA AddFusionKeepsGraph ==
  ASSUME GraphInv, FuseAddRelu
  PROVE  GraphInv'
<1> DEFINE pairs == Pairs("Add", "Relu")
           fused == [p \in pairs |-> Merged("AddRelu", p[1], p[2])]
           removed == [p \in pairs |-> {p[2]}]
<1>1. FusionPass("add_relu_fusion", pairs, fused, removed)
  BY DEF FuseAddRelu
<1>2. nodes \in Seq(Node) /\ "AddRelu" \in Op
  BY DEF GraphInv, TypeOK, Op, Elementwise
<1>3. pairs \subseteq (DOMAIN nodes) \X (DOMAIN nodes)
  BY DEF Pairs
<1>4. \A p \in pairs : fused[p] \in Node
  BY <1>2, <1>3, MergedTyped
<1> HIDE DEF pairs, fused, removed
<1> QED
  BY <1>1, <1>3, <1>4, FusionKeepsGraph

(* Gemm and Gelu are merged into a node.                                   *)
LEMMA GemmFusionKeepsGraph ==
  ASSUME GraphInv, FuseGemmGelu
  PROVE  GraphInv'
<1> DEFINE pairs == Unobserved(Pairs("Gemm", "Gelu"))
           fused == [p \in pairs |-> Merged("GemmGelu", p[1], p[2])]
           removed == [p \in pairs |-> {p[2]}]
<1>1. FusionPass("gemm_gelu_fusion", pairs, fused, removed)
  BY DEF FuseGemmGelu
<1>2. nodes \in Seq(Node) /\ "GemmGelu" \in Op
  BY DEF GraphInv, TypeOK, Op, GemmLike
<1>3. pairs \subseteq (DOMAIN nodes) \X (DOMAIN nodes)
  BY DEF Pairs, Unobserved
<1>4. \A p \in pairs : fused[p] \in Node
  BY <1>2, <1>3, MergedTyped
<1> HIDE DEF pairs, fused, removed
<1> QED
  BY <1>1, <1>3, <1>4, FusionKeepsGraph

(* Add and layer normalisation are merged into a node.                     *)
LEMMA NormFusionKeepsGraph ==
  ASSUME GraphInv, FuseSkipLayerNormalization
  PROVE  GraphInv'
<1> DEFINE pairs == {p \in Unobserved(Pairs("Add", "LayerNormalization")) :
                       /\ Len(nodes[p[2]].ins) = 3
                       /\ nodes[p[2]].ins[1] = nodes[p[1]].out}
           fused == [p \in pairs |-> SkipLayerNormalization(p[1], p[2])]
           removed == [p \in pairs |-> {p[2]}]
<1>1. FusionPass("skip_layer_norm_fusion", pairs, fused, removed)
  BY DEF FuseSkipLayerNormalization
<1>2. nodes \in Seq(Node) /\ "SkipLayerNormalization" \in Op
  BY DEF GraphInv, TypeOK, Op
<1>3. /\ pairs \subseteq (DOMAIN nodes) \X (DOMAIN nodes)
      /\ \A p \in pairs : OnlyReader(p[1], p[2])
  BY DEF Pairs, Unobserved
<1>4. ASSUME NEW p \in pairs PROVE fused[p] \in Node
  <2>1. p[1] \in DOMAIN nodes /\ p[2] \in DOMAIN nodes /\ OnlyReader(p[1], p[2])
    BY <1>3
  <2>2. /\ nodes[p[1]].ins \o Tail(nodes[p[2]].ins) \in Seq(Value)
        /\ nodes[p[2]].out \in Value
    BY <1>2, <2>1, PairsRead
  <2> QED
    BY <1>2, <2>2 DEF SkipLayerNormalization, Node
<1> HIDE DEF pairs, fused, removed
<1> QED
  BY <1>1, <1>3, <1>4, FusionKeepsGraph

(* The end of the pipeline keeps the invariant.                            *)
LEMMA FinishKeepsGraph ==
  ASSUME GraphInv, Finish
  PROVE  GraphInv'
<1>1. /\ status' = "ok" /\ UNCHANGED <<nodes, outputs, known, passes>>
  BY DEF Finish
<1> QED
  BY <1>1 DEF GraphInv, TypeOK, PassesInOrder, Remaining, NodesWellFormed, WellFormed, Pipeline

(* Every step of the passes keeps the invariant.                           *)
LEMMA PassStepKeepsGraph ==
  ASSUME GraphInv, PassStep
  PROVE  GraphInv'
BY SortKeepsGraph, InferenceKeepsGraph, FoldingKeepsGraph, EliminationKeepsGraph,
   ConvFusionKeepsGraph, AddFusionKeepsGraph, GemmFusionKeepsGraph, NormFusionKeepsGraph,
   NormalizationKeepsGraph, ValidationKeepsGraph, FinishKeepsGraph DEF PassStep

(* The invariant holds of a typed graph before the first pass.             *)
LEMMA GraphStart ==
  ASSUME nodes \in Seq(Node), outputs \subseteq Value, known \in [Value -> Kind],
         passes = Pipeline, status = "running"
  PROVE  GraphInv
<1>1. Pipeline \in Seq(PassNames) /\ Len(Pipeline) \in Nat /\ Len(Pipeline) >= 4
  BY PipelineEnds
<1>2. passes \in Seq({Pipeline[i] : i \in DOMAIN Pipeline})
  BY <1>1
<1>3. Remaining(1)
  BY <1>1, SubSeqFull DEF Remaining
<1>4. PassesInOrder
  BY <1>1, <1>3 DEF PassesInOrder
<1>5. ~(Len(passes) <= 3)
  <2>1. \A n \in Nat : n >= 4 => ~(n <= 3)
    OBVIOUS
  <2> QED
    BY <1>1, <2>1
<1> QED
  BY <1>2, <1>4, <1>5 DEF GraphInv, TypeOK, NodesWellFormed

(* The type of every variable of the passes.                               *)
THEOREM TypeCorrect == Spec => []TypeOK
<1>1. Init => GraphInv
  <2> SUFFICES ASSUME Init PROVE GraphInv
    OBVIOUS
  <2>1. PICK g \in Graphs : nodes = g.nodes /\ outputs = g.outputs /\ known = g.known
    BY DEF Init
  <2>2. g.nodes \in Seq(Node) /\ g.outputs \subseteq Value /\ g.known \in [Value -> Kind]
    BY GraphAssumption
  <2> QED
    BY <2>1, <2>2, GraphStart DEF Init
<1>2. GraphInv /\ [Next]_vars => GraphInv'
  <2>1. ASSUME GraphInv, UNCHANGED vars PROVE GraphInv'
    BY <2>1 DEF vars, GraphInv, TypeOK, PassesInOrder, Remaining, NodesWellFormed, WellFormed,
                Pipeline
  <2> QED
    BY <2>1, PassStepKeepsGraph DEF Next, Stopped
<1>3. GraphInv => TypeOK
  BY DEF GraphInv
<1> QED
  BY <1>1, <1>2, <1>3, PTL DEF Spec

(* No two nodes produce one value.                                         *)
OneProducer(ns) == \A i, j \in DOMAIN ns : ns[i].out = ns[j].out => i = j

(* Every node stands behind the producers of what it reads.                *)
InOrder(ns) == \A i, j \in DOMAIN ns : Reads(ns, i, ns[j].out) => j < i

(* Values have ranks that grow from a node's inputs to its output.         *)
Below(node, rank) == \A k \in DOMAIN node.ins : rank[node.ins[k]] < rank[node.out]

Ranked(ns) == \E rank \in [Value -> Nat] : \A i \in DOMAIN ns : Below(ns[i], rank)

(* The elements of q up to its k-th.                                       *)
Among(q, k) == {q[j] : j \in {l \in DOMAIN q : l <= k}}

(* A queue of Kahn's algorithm behind its k-th node: no node is in it      *)
(* twice, each waits for earlier ones only, and it has the nodes that wait *)
(* for none but the first k.                                               *)
QueueGood(ns, k, q) ==
  /\ \A a, b \in DOMAIN q : q[a] = q[b] => a = b
  /\ \A m \in DOMAIN q : Dependencies(ns, q[m]) \subseteq Among(q, m - 1)
  /\ \A i \in 1..Len(ns) :
       (\E m \in DOMAIN q : q[m] = i) <=> Dependencies(ns, i) \subseteq Among(q, k)

(* The first queue has the nodes that wait for none.                       *)
LEMMA FirstQueue ==
  ASSUME NEW ns, Len(ns) \in Nat
  PROVE  QueueGood(ns, 0, Positions(Len(ns), {i \in 1..Len(ns) : Dependencies(ns, i) = {}}))
<1> DEFINE n == Len(ns)
           S == {i \in 1..n : Dependencies(ns, i) = {}}
           q == Positions(n, S)
<1>1. Lists(q, n, S)
  BY PositionsList
<1> HIDE DEF q
<1>2. /\ q \in Seq((1..n) \cap S) /\ DOMAIN q = 1..Len(q) /\ Len(q) \in Nat
      /\ \A m \in DOMAIN q : q[m] \in S
      /\ \A i \in S : \E m \in DOMAIN q : q[m] = i
      /\ \A a, b \in DOMAIN q : a < b => q[a] < q[b]
  BY <1>1 DEF Lists
<1>3. \A a, b \in DOMAIN q : q[a] = q[b] => a = b
  <2> SUFFICES ASSUME NEW a \in DOMAIN q, NEW b \in DOMAIN q, q[a] = q[b], a # b PROVE FALSE
    OBVIOUS
  <2>1. a \in Nat /\ b \in Nat /\ q[a] \in Nat /\ q[b] \in Nat
    BY <1>2
  <2>2. a < b \/ b < a
    BY <2>1
  <2> QED
    BY <1>2, <2>1, <2>2
<1>4. Among(q, 0) = {}
  BY <1>2 DEF Among
<1>5. \A m \in DOMAIN q : Dependencies(ns, q[m]) = {}
  BY <1>2
<1>6. \A i \in 1..n : (\E m \in DOMAIN q : q[m] = i) <=> Dependencies(ns, i) = {}
  BY <1>2
<1>7. \A i \in 1..n : (\E m \in DOMAIN q : q[m] = i) <=> Dependencies(ns, i) \subseteq Among(q, 0)
  BY <1>4, <1>6
<1>8. QueueGood(ns, 0, q)
  BY <1>3, <1>5, <1>7 DEF QueueGood
<1> QED
  BY <1>8 DEF q

(* Taking a node keeps a queue good.                                       *)
LEMMA NextQueue ==
  ASSUME NEW ns, Len(ns) \in Nat, NEW k \in Nat, NEW q \in Seq(1..Len(ns)), QueueGood(ns, k, q)
  PROVE  QueueGood(ns, k + 1, Taken(ns, k + 1, q))
<1> DEFINE n == Len(ns)
           c == k + 1
<1>1. /\ DOMAIN q = 1..Len(q) /\ Len(q) \in Nat /\ n \in Nat /\ c \in Nat
      /\ \A a \in DOMAIN q : q[a] \in 1..n
  OBVIOUS
<1>2. CASE c > Len(q)
  <2>1. Taken(ns, c, q) = q
    BY <1>2 DEF Taken
  <2>2. Among(q, c) = Among(q, k)
    <3>1. {l \in DOMAIN q : l <= c} = {l \in DOMAIN q : l <= k}
      BY <1>1, <1>2
    <3> QED
      BY <3>1 DEF Among
  <2> QED
    BY <2>1, <2>2 DEF QueueGood
<1>3. CASE c <= Len(q)
  <2> DEFINE R == Released(ns, c, q)
             p == Positions(n, R)
             t == q \o p
  <2>1. Taken(ns, c, q) = t
    BY <1>1, <1>3 DEF Taken
  <2>2. Lists(p, n, R) /\ R \subseteq 1..n
    BY PositionsList, <1>1 DEF Released
  <2> HIDE DEF p
  <2>3. /\ p \in Seq((1..n) \cap R) /\ DOMAIN p = 1..Len(p) /\ Len(p) \in Nat
        /\ \A m \in DOMAIN p : p[m] \in R
        /\ \A i \in R : \E m \in DOMAIN p : p[m] = i
        /\ \A a, b \in DOMAIN p : a < b => p[a] < p[b]
    BY <2>2 DEF Lists
  <2>4. \A a, b \in DOMAIN p : p[a] = p[b] => a = b
    <3> SUFFICES ASSUME NEW a \in DOMAIN p, NEW b \in DOMAIN p, p[a] = p[b], a # b PROVE FALSE
      OBVIOUS
    <3>1. a \in Nat /\ b \in Nat /\ p[a] \in Nat /\ p[b] \in Nat
      BY <2>2, <2>3
    <3>2. a < b \/ b < a
      BY <3>1
    <3> QED
      BY <2>3, <3>1, <3>2
  <2>5. p \in Seq(1..n)
    BY <2>2, <2>3
  <2>6. /\ t \in Seq(1..n) /\ Len(t) = Len(q) + Len(p) /\ DOMAIN t = 1..(Len(q) + Len(p))
        /\ \A m \in DOMAIN q : m \in DOMAIN t /\ t[m] = q[m]
        /\ \A m \in DOMAIN p : m + Len(q) \in DOMAIN t /\ t[m + Len(q)] = p[m]
    <3>1. /\ t \in Seq(1..n) /\ Len(t) = Len(q) + Len(p)
          /\ \A m \in 1..(Len(q) + Len(p)) : t[m] = IF m <= Len(q) THEN q[m] ELSE p[m - Len(q)]
      BY <2>5, ConcatProperties
    <3>2. DOMAIN t = 1..(Len(q) + Len(p))
      BY <3>1
    <3> HIDE DEF t, n
    <3>3. \A m \in DOMAIN q : m \in DOMAIN t /\ m <= Len(q)
      BY <1>1, <2>3, <3>2
    <3>4. \A m \in DOMAIN p : m + Len(q) \in DOMAIN t /\ ~(m + Len(q) <= Len(q))
                             /\ (m + Len(q)) - Len(q) = m
      BY <1>1, <2>3, <3>2
    <3> QED
      BY <3>1, <3>2, <3>3, <3>4
  <2>7. \A m \in DOMAIN t : m \notin DOMAIN q => m - Len(q) \in DOMAIN p /\ t[m] = p[m - Len(q)]
    <3> SUFFICES ASSUME NEW m \in DOMAIN t, m \notin DOMAIN q
                 PROVE  m - Len(q) \in DOMAIN p /\ t[m] = p[m - Len(q)]
      OBVIOUS
    <3>1. m - Len(q) \in DOMAIN p /\ (m - Len(q)) + Len(q) = m
      BY <1>1, <2>3, <2>6
    <3> QED
      BY <2>6, <3>1
  <2> HIDE DEF t
  <2>8. \A l \in Nat : l <= Len(q) => Among(t, l) = Among(q, l)
    <3> SUFFICES ASSUME NEW l \in Nat, l <= Len(q) PROVE Among(t, l) = Among(q, l)
      OBVIOUS
    <3>1. {m \in DOMAIN t : m <= l} = {m \in DOMAIN q : m <= l}
      BY <1>1, <2>3, <2>6
    <3>2. \A m \in {m \in DOMAIN q : m <= l} : t[m] = q[m]
      BY <2>6
    <3> QED
      BY <3>1, <3>2 DEF Among
  <2>9. Among(t, c) = Among(q, c) /\ Among(q, c) = Among(q, k) \cup {q[c]}
    <3>1. {m \in DOMAIN q : m <= c} = {m \in DOMAIN q : m <= k} \cup {c}
      BY <1>1, <1>3
    <3> QED
      BY <1>3, <1>1, <2>8, <3>1 DEF Among
  <2>10. Among(q, c) = {q[j] : j \in 1..c}
    <3>1. {m \in DOMAIN q : m <= c} = 1..c
      BY <1>1, <1>3
    <3> QED
      BY <3>1 DEF Among
  <2>11. R = {i \in 1..n :
                q[c] \in Dependencies(ns, i) /\ Dependencies(ns, i) \subseteq Among(t, c)}
    BY <2>9, <2>10 DEF Released
  <2> HIDE DEF R
  <2>12. q[c] \notin Among(q, k)
    <3>1. \A j \in {l \in DOMAIN q : l <= k} : q[j] # q[c]
      <4>1. \A a, b \in DOMAIN q : q[a] = q[b] => a = b
        BY Zenon DEF QueueGood
      <4>2. c \in DOMAIN q /\ ~(c <= k)
        BY <1>1, <1>3
      <4> QED
        BY <4>1, <4>2, Zenon
    <3> QED
      BY <3>1 DEF Among
  <2>13. \A m \in DOMAIN q : q[m] \notin R
    <3>1. \A m \in DOMAIN q : Dependencies(ns, q[m]) \subseteq Among(q, k)
      BY <1>1 DEF QueueGood
    <3> QED
      BY <2>11, <2>12, <3>1
  <2>14. \A a, b \in DOMAIN t : t[a] = t[b] => a = b
    <3> SUFFICES ASSUME NEW a \in DOMAIN t, NEW b \in DOMAIN t, t[a] = t[b] PROVE a = b
      OBVIOUS
    <3>1. CASE a \in DOMAIN q /\ b \in DOMAIN q
      BY <2>6, <3>1 DEF QueueGood
    <3>2. CASE a \in DOMAIN q /\ b \notin DOMAIN q
      BY <2>3, <2>6, <2>7, <2>13, <3>2
    <3>3. CASE a \notin DOMAIN q /\ b \in DOMAIN q
      BY <2>3, <2>6, <2>7, <2>13, <3>3
    <3>4. CASE a \notin DOMAIN q /\ b \notin DOMAIN q
      <4>1. a - Len(q) = b - Len(q)
        BY <2>4, <2>7, <3>4
      <4> QED
        BY <1>1, <2>6, <4>1
    <3> QED
      BY <3>1, <3>2, <3>3, <3>4
  <2>15. \A m \in DOMAIN t : Dependencies(ns, t[m]) \subseteq Among(t, m - 1)
    <3> SUFFICES ASSUME NEW m \in DOMAIN t PROVE Dependencies(ns, t[m]) \subseteq Among(t, m - 1)
      OBVIOUS
    <3>1. CASE m \in DOMAIN q
      <4>1. m - 1 \in Nat /\ m - 1 <= Len(q)
        BY <1>1, <3>1
      <4>2. Among(t, m - 1) = Among(q, m - 1)
        BY <2>8, <4>1
      <4>3. Dependencies(ns, q[m]) \subseteq Among(q, m - 1)
        BY <3>1, Zenon DEF QueueGood
      <4> QED
        BY <2>6, <3>1, <4>2, <4>3, Zenon
    <3>2. CASE m \notin DOMAIN q
      <4>1. t[m] \in R
        BY <2>3, <2>7, <3>2
      <4>2. c <= m - 1 /\ m \in Nat
        BY <1>1, <1>3, <2>6, <3>2
      <4>3. Among(t, c) \subseteq Among(t, m - 1)
        <5>1. {l \in DOMAIN t : l <= c} \subseteq {l \in DOMAIN t : l <= m - 1}
          BY <1>1, <2>6, <4>2
        <5> QED
          BY <5>1 DEF Among
      <4> QED
        BY <2>11, <4>1, <4>3
    <3> QED
      BY <3>1, <3>2
  <2>16. ASSUME NEW i \in 1..n
         PROVE  (\E m \in DOMAIN t : t[m] = i) <=> Dependencies(ns, i) \subseteq Among(t, c)
    <3>1. (\E m \in DOMAIN t : t[m] = i) <=> (\E m \in DOMAIN q : q[m] = i) \/ i \in R
      <4>1. ASSUME NEW m \in DOMAIN t, t[m] = i
            PROVE  (\E l \in DOMAIN q : q[l] = i) \/ i \in R
        <5>1. CASE m \in DOMAIN q
          BY <2>6, <4>1, <5>1, Zenon
        <5>2. CASE m \notin DOMAIN q
          BY <2>3, <2>7, <4>1, <5>2, Zenon
        <5> QED
          BY <5>1, <5>2
      <4>2. ASSUME NEW m \in DOMAIN q, q[m] = i
            PROVE  \E l \in DOMAIN t : t[l] = i
        BY <2>6, <4>2, Zenon
      <4>3. ASSUME i \in R PROVE \E l \in DOMAIN t : t[l] = i
        BY <2>3, <2>6, <4>3, Zenon
      <4> QED
        BY <4>1, <4>2, <4>3, Zenon
    <3>2. (\E m \in DOMAIN q : q[m] = i) <=> Dependencies(ns, i) \subseteq Among(q, k)
      BY DEF QueueGood
    <3>3. Dependencies(ns, i) \subseteq Among(t, c)
            <=> \/ Dependencies(ns, i) \subseteq Among(q, k)
                \/ q[c] \in Dependencies(ns, i) /\ Dependencies(ns, i) \subseteq Among(t, c)
      BY <2>9
    <3> QED
      BY <2>11, <3>1, <3>2, <3>3
  <2> HIDE DEF c
  <2>17. QueueGood(ns, c, t)
    BY <2>14, <2>15, <2>16 DEF QueueGood
  <2> QED
    BY <2>1, <2>17 DEF c
<1>4. c <= Len(q) \/ c > Len(q)
  BY <1>1
<1> QED
  BY <1>2, <1>3, <1>4

(* No node reads what it produces.                                         *)
NoSelfRead(ns) == \A i \in DOMAIN ns : ~Reads(ns, i, ns[i].out)

(* The nodes of an order: each once, behind those it waits for, and all    *)
(* that wait for none but these.                                           *)
OrderGood(ns, order) ==
  /\ order \in Seq(1..Len(ns)) /\ Len(order) <= Len(ns)
  /\ \A a, b \in DOMAIN order : order[a] = order[b] => a = b
  /\ \A m \in DOMAIN order : Dependencies(ns, order[m]) \subseteq Among(order, m - 1)
  /\ \A i \in 1..Len(ns) :
       (\E m \in DOMAIN order : order[m] = i)
         <=> \A d \in Dependencies(ns, i) : \E m \in DOMAIN order : order[m] = d

(* The numbers from one to m are m.                                        *)
LEMMA UpToCardinality ==
  ASSUME NEW m \in Nat
  PROVE  IsFiniteSet(1..m) /\ Cardinality(1..m) = m
<1>1. 1 \in Int /\ m \in Int
  OBVIOUS
<1>2. Cardinality(1..m) = IF 1 > m THEN 0 ELSE m - 1 + 1
  BY <1>1, FS_Interval
<1> QED
  BY <1>1, <1>2, FS_Interval

(* A sequence without repetition is no longer than the numbers in it, and  *)
(* as long if it has them all.                                             *)
LEMMA DistinctLength ==
  ASSUME NEW n \in Nat, NEW s \in Seq(1..n), \A a, b \in DOMAIN s : s[a] = s[b] => a = b
  PROVE  /\ Len(s) <= n
         /\ Len(s) = n <=> \A i \in 1..n : \E a \in DOMAIN s : s[a] = i
<1> DEFINE l == Len(s)
<1>1. l \in Nat /\ DOMAIN s = 1..l /\ s \in [1..l -> 1..n]
  OBVIOUS
<1> HIDE DEF l
<1>2. s \in Injection(1..l, 1..n)
  BY <1>1 DEF Injection, IsInjective
<1>3. /\ IsFiniteSet(1..n) /\ Cardinality(1..n) = n /\ Cardinality(1..l) = l
  BY <1>1, UpToCardinality
<1>4. l <= n /\ (l = n <=> s \in Surjection(1..l, 1..n))
  BY <1>2, <1>3, FS_Injection
<1>5. s \in Surjection(1..l, 1..n) <=> \A i \in 1..n : \E a \in 1..l : s[a] = i
  BY <1>1 DEF Surjection
<1>6. l <= n /\ (l = n <=> \A i \in 1..n : \E a \in 1..l : s[a] = i)
  BY <1>4, <1>5
<1>7. l = n <=> \A i \in 1..n : \E a \in DOMAIN s : s[a] = i
  BY <1>1, <1>6, Zenon
<1> QED
  BY <1>6, <1>7, Zenon DEF l

(* What Kahn's algorithm returns.                                          *)
LEMMA KahnOrderGood ==
  ASSUME NEW ns, Len(ns) \in Nat
  PROVE  OrderGood(ns, KahnOrder(ns))
<1> DEFINE n == Len(ns)
<1>1. PICK taken : KahnQueues(ns, taken) /\ KahnOrder(ns) = taken[n]
  BY KahnOrderUnfolds
<1> DEFINE T == {k \in Nat : k <= n => QueueGood(ns, k, taken[k])}
<1>2. 0 \in T
  BY <1>1, FirstQueue DEF KahnQueues
<1>3. ASSUME NEW k \in Nat, k \in T PROVE k + 1 \in T
  <2> SUFFICES ASSUME k + 1 <= n PROVE QueueGood(ns, k + 1, taken[k + 1])
    OBVIOUS
  <2>1. QueueGood(ns, k, taken[k]) /\ k \in 0..n /\ k + 1 \in 1..n /\ (k + 1) - 1 = k
    BY <1>3
  <2>2. taken[k] \in Seq(1..Len(ns)) /\ taken[k + 1] = Taken(ns, k + 1, taken[k])
    BY <1>1, <2>1 DEF KahnQueues
  <2> QED
    BY <2>1, <2>2, NextQueue
<1>4. n \in T
  <2> HIDE DEF T
  <2> QED
    BY <1>2, <1>3, SetInduction
<1> DEFINE order == KahnOrder(ns)
<1>5. QueueGood(ns, n, order) /\ order \in Seq(1..n)
  BY <1>1, <1>4, KahnOrderTyped
<1> HIDE DEF order
<1>6. \A a, b \in DOMAIN order : order[a] = order[b] => a = b
  BY <1>5 DEF QueueGood
<1>7. Len(order) <= n /\ DOMAIN order = 1..Len(order) /\ Len(order) \in Nat
  BY <1>5, <1>6, DistinctLength
<1>8. Among(order, n) = {order[m] : m \in DOMAIN order}
  <2>1. {l \in DOMAIN order : l <= n} = DOMAIN order
    BY <1>7
  <2> QED
    BY <2>1 DEF Among
<1>9. \A i \in 1..n : (\E m \in DOMAIN order : order[m] = i)
        <=> Dependencies(ns, i) \subseteq {order[m] : m \in DOMAIN order}
  BY <1>5, <1>8 DEF QueueGood
<1>10. OrderGood(ns, order)
  BY <1>5, <1>6, <1>7, <1>9 DEF OrderGood, QueueGood
<1> QED
  BY <1>10 DEF order

(* What a node waits for, if values have one producer.                     *)
LEMMA DependsOn ==
  ASSUME NEW ns \in Seq(Node), OneProducer(ns), NEW i \in DOMAIN ns, NEW d
  PROVE  d \in Dependencies(ns, i) <=> d \in DOMAIN ns /\ d # i /\ Reads(ns, i, ns[d].out)
<1>1. ASSUME NEW j \in DOMAIN ns PROVE Producer(ns, ns[j].out) = j /\ j \in Producers(ns, ns[j].out)
  <2>1. Producers(ns, ns[j].out) = {j}
    BY DEF Producers, OneProducer
  <2>2. j >= j
    OBVIOUS
  <2> QED
    BY <2>1, <2>2 DEF Producer
<1>2. ASSUME d \in Dependencies(ns, i)
      PROVE  d \in DOMAIN ns /\ d # i /\ Reads(ns, i, ns[d].out)
  <2>1. PICK v \in Value : /\ Reads(ns, i, v) /\ Producers(ns, v) # {} /\ d = Producer(ns, v)
                           /\ d # i
    BY <1>2 DEF Dependencies
  <2>2. PICK j \in DOMAIN ns : ns[j].out = v
    BY <2>1 DEF Producers
  <2> QED
    BY <1>1, <2>1, <2>2
<1>3. ASSUME d \in DOMAIN ns, d # i, Reads(ns, i, ns[d].out)
      PROVE  d \in Dependencies(ns, i)
  <2>1. ns[d] \in Node
    BY <1>3
  <2>2. ns[d].out \in Value
    BY <2>1 DEF Node
  <2> QED
    BY <1>1, <1>3, <2>2 DEF Dependencies
<1> QED
  BY <1>2, <1>3

(* Ranks rule out cycles, so that no node is left behind.                  *)
LEMMA RankedSorts ==
  ASSUME NEW ns \in Seq(Node), OneProducer(ns), Ranked(ns)
  PROVE  Len(KahnOrder(ns)) = Len(ns)
<1> DEFINE n == Len(ns)
           order == KahnOrder(ns)
           In(i) == \E m \in DOMAIN order : order[m] = i
<1>1. n \in Nat /\ DOMAIN ns = 1..n
  OBVIOUS
<1>2. OrderGood(ns, order)
  BY <1>1, KahnOrderGood
<1> HIDE DEF order
<1>3. PICK rank \in [Value -> Nat] : \A i \in DOMAIN ns : Below(ns[i], rank)
  BY DEF Ranked
<1> DEFINE T == {r \in Nat : \A i \in 1..n : rank[ns[i].out] < r => In(i)}
<1>4. \A i \in 1..n : ns[i].out \in Value /\ rank[ns[i].out] \in Nat
  <2> TAKE i \in 1..n
  <2>1. ns[i] \in Node
    OBVIOUS
  <2> QED
    BY <2>1 DEF Node
<1> HIDE DEF n
<1>5. 0 \in T
  BY <1>4
<1>6. ASSUME NEW r \in Nat, r \in T PROVE r + 1 \in T
  <2> SUFFICES ASSUME NEW i \in 1..n, rank[ns[i].out] < r + 1 PROVE In(i)
    OBVIOUS
  <2>1. ASSUME NEW d \in Dependencies(ns, i) PROVE In(d)
    <3>1. d \in 1..n /\ Reads(ns, i, ns[d].out)
      BY <1>1, DependsOn
    <3>2. rank[ns[d].out] < rank[ns[i].out]
      BY <1>1, <1>3, <3>1 DEF Below, Reads
    <3>3. rank[ns[d].out] < r
      BY <1>4, <3>1, <3>2
    <3> QED
      BY <1>6, <3>1, <3>3
  <2> QED
    BY <1>2, <2>1 DEF OrderGood, n
<1>7. \A i \in 1..n : In(i)
  <2>1. Nat \subseteq T
    <3> HIDE DEF T
    <3> QED
      BY <1>5, <1>6, SetInduction
  <2> TAKE i \in 1..n
  <2>2. rank[ns[i].out] + 1 \in T /\ rank[ns[i].out] < rank[ns[i].out] + 1
    BY <1>4, <2>1
  <2> QED
    BY <2>2
<1>8. order \in Seq(1..n) /\ \A a, b \in DOMAIN order : order[a] = order[b] => a = b
  BY <1>2 DEF OrderGood, n
<1>9. Len(order) = n
  BY <1>1, <1>7, <1>8, DistinctLength
<1> QED
  BY <1>9 DEF order, n

(* The nodes in the order Kahn's algorithm returns.                        *)
Sorted(ns) == [i \in DOMAIN KahnOrder(ns) |-> ns[KahnOrder(ns)[i]]]

(* A sorted list has the nodes it had, each behind its producers.          *)
LEMMA SortedInOrder ==
  ASSUME NEW ns \in Seq(Node), OneProducer(ns), NoSelfRead(ns),
         Len(KahnOrder(ns)) = Len(ns)
  PROVE  /\ OneProducer(Sorted(ns)) /\ InOrder(Sorted(ns))
         /\ \A i \in DOMAIN Sorted(ns) : \E j \in DOMAIN ns : Sorted(ns)[i] = ns[j]
<1> DEFINE n == Len(ns)
           new == Sorted(ns)
           order == KahnOrder(ns)
<1>1. n \in Nat /\ DOMAIN ns = 1..n
  OBVIOUS
<1>2. OrderGood(ns, order)
  BY <1>1, KahnOrderGood
<1> HIDE DEF order
<1>3. DOMAIN new = DOMAIN order /\ \A i \in DOMAIN order : new[i] = ns[order[i]]
  BY DEF order, Sorted
<1> HIDE DEF new
<1>4. /\ DOMAIN order \subseteq Nat /\ \A i \in DOMAIN order : order[i] \in DOMAIN ns
      /\ \A a, b \in DOMAIN order : order[a] = order[b] => a = b
  BY <1>1, <1>2 DEF OrderGood
<1>5. OneProducer(new)
  BY <1>3, <1>4 DEF OneProducer
<1>6. ASSUME NEW i \in DOMAIN new, NEW j \in DOMAIN new, Reads(new, i, new[j].out) PROVE j < i
  <2>1. Reads(ns, order[i], ns[order[j]].out)
    BY <1>3, <1>6 DEF Reads
  <2>2. order[j] # order[i]
    BY <1>3, <1>4, <2>1 DEF NoSelfRead
  <2>3. order[j] \in Dependencies(ns, order[i])
    BY <1>3, <1>4, <2>1, <2>2, DependsOn
  <2>4. order[j] \in Among(order, i - 1)
    BY <1>2, <1>3, <2>3 DEF OrderGood
  <2>5. PICK l \in DOMAIN order : l <= i - 1 /\ order[j] = order[l]
    BY <2>4 DEF Among
  <2>6. l = j
    BY <1>3, <1>4, <2>5
  <2> QED
    BY <1>3, <1>4, <2>5, <2>6
<1> QED
  BY <1>3, <1>4, <1>5, <1>6 DEF InOrder, new

(* In a list in order every node waits for earlier ones only.              *)
LEMMA InOrderWaits ==
  ASSUME NEW ns \in Seq(Node), OneProducer(ns), InOrder(ns)
  PROVE  \A i \in DOMAIN ns : \A d \in Dependencies(ns, i) : d < i
BY DependsOn DEF InOrder

(* The positions of their producers rank the values of a list in order.    *)
LEMMA InOrderRanked ==
  ASSUME NEW ns \in Seq(Node), OneProducer(ns), InOrder(ns)
  PROVE  Ranked(ns)
<1> DEFINE Made(v) == {i \in DOMAIN ns : ns[i].out = v}
           rank == [v \in Value |-> IF Made(v) = {} THEN 0 ELSE CHOOSE i \in Made(v) : TRUE]
<1>1. DOMAIN ns = 1..Len(ns) /\ Len(ns) \in Nat
  OBVIOUS
<1>2. \A v \in Value : rank[v] \in Nat /\ (Made(v) # {} => rank[v] \in Made(v))
                       /\ (Made(v) = {} => rank[v] = 0)
  BY <1>1
<1>3. rank \in [Value -> Nat]
  <2>1. rank = [v \in Value |-> rank[v]]
    OBVIOUS
  <2> HIDE DEF rank
  <2> QED
    BY <1>2, <2>1
<1> HIDE DEF rank
<1>4. ASSUME NEW i \in DOMAIN ns, NEW k \in DOMAIN ns[i].ins
      PROVE  rank[ns[i].ins[k]] < rank[ns[i].out]
  <2>1. ns[i] \in Node
    OBVIOUS
  <2>2. ns[i].out \in Value /\ ns[i].ins[k] \in Value
    BY <2>1 DEF Node
  <2>3. rank[ns[i].out] = i
    BY <1>2, <2>2 DEF OneProducer
  <2>4. CASE Made(ns[i].ins[k]) = {}
    BY <1>1, <1>2, <2>2, <2>3, <2>4
  <2>5. CASE Made(ns[i].ins[k]) # {}
    <3> DEFINE j == rank[ns[i].ins[k]]
    <3>1. j \in DOMAIN ns /\ ns[j].out = ns[i].ins[k]
      BY <1>2, <2>2, <2>5
    <3>2. Reads(ns, i, ns[j].out)
      BY <3>1 DEF Reads
    <3> HIDE DEF j
    <3>3. j < i
      BY <3>1, <3>2 DEF InOrder
    <3> QED
      BY <2>3, <3>3 DEF j
  <2> QED
    BY <2>4, <2>5
<1> QED
  BY <1>3, <1>4 DEF Ranked, Below

(* Inference accepts a node and finds what its output is described as.     *)
Described(node, kinds) ==
  /\ Accepts(node.op, KindsOf(node, kinds))
  /\ kinds[node.out] = OutputKind(node.op, KindsOf(node, kinds))

Consistent(ns, kinds) == \A i \in DOMAIN ns : Described(ns[i], kinds)

(* The kinds of a node's inputs, one by one.                               *)
LEMMA KindsListed ==
  ASSUME NEW node \in Node, NEW kinds \in [Value -> Kind]
  PROVE  /\ KindsOf(node, kinds) \in Seq(Kind) /\ Len(KindsOf(node, kinds)) = Len(node.ins)
         /\ \A k \in 1..Len(node.ins) : KindsOf(node, kinds)[k] = kinds[node.ins[k]]
         /\ node.ins \in Seq(Value) /\ node.out \in Value /\ DOMAIN node.ins = 1..Len(node.ins)
         /\ Len(node.ins) \in Nat
<1>1. /\ node.ins \in Seq(Value) /\ DOMAIN node.ins = 1..Len(node.ins) /\ Len(node.ins) \in Nat
      /\ node.out \in Value
  BY DEF Node
<1>2. \A k \in DOMAIN node.ins : kinds[node.ins[k]] \in Kind
  BY <1>1
<1> QED
  BY <1>1, <1>2 DEF KindsOf

(* Descriptions that are consistent are found again, in whatever order.    *)
LEMMA StableInference ==
  ASSUME NEW ns \in Seq(Node), NEW kinds \in [Value -> Kind], Consistent(ns, kinds)
  PROVE  Inferred(ns, kinds) = [ok |-> TRUE, known |-> kinds]
<1> DEFINE n == Len(ns)
           found == [ok |-> TRUE, known |-> kinds]
<1>1. PICK after : InferredSteps(ns, kinds, after) /\ Inferred(ns, kinds) = after[n]
  BY InferredUnfolds
<1>2. n \in Nat /\ DOMAIN ns = 1..n
  OBVIOUS
<1> DEFINE T == {i \in Nat : i <= n => after[i] = found}
<1>3. 0 \in T
  BY <1>1 DEF InferredSteps
<1>4. ASSUME NEW i \in Nat, i \in T PROVE i + 1 \in T
  <2> SUFFICES ASSUME i + 1 <= n PROVE after[i + 1] = found
    OBVIOUS
  <2>1. i + 1 \in 1..n /\ (i + 1) - 1 = i /\ after[i] = found
    BY <1>2, <1>4
  <2> DEFINE node == ns[i + 1]
  <2>2. after[i + 1] = Infer(node, found)
    BY <1>1, <2>1 DEF InferredSteps
  <2>3. Described(node, kinds) /\ node \in Node
    BY <1>2, <2>1 DEF Consistent
  <2> HIDE DEF node
  <2>4. [kinds EXCEPT ![node.out] = kinds[node.out]] = kinds
    OBVIOUS
  <2>5. Infer(node, found) = [found EXCEPT !.known[node.out] = kinds[node.out]]
    BY <2>3 DEF Infer, Described
  <2>6. Infer(node, found) = [ok |-> TRUE, known |-> [kinds EXCEPT ![node.out] = kinds[node.out]]]
    BY <2>5
  <2> QED
    BY <2>2, <2>4, <2>6
<1>5. n \in T
  <2> HIDE DEF T
  <2> QED
    BY <1>2, <1>3, <1>4, SetInduction
<1> QED
  BY <1>1, <1>2, <1>5

(* What a node's inference finds, by cases.                                *)
LEMMA InferCases ==
  ASSUME NEW node \in Node, NEW found \in Found
  PROVE  Infer(node, found).ok =>
           /\ found.ok /\ Accepts(node.op, KindsOf(node, found.known))
           /\ Infer(node, found).known =
                [found.known EXCEPT ![node.out] = OutputKind(node.op, KindsOf(node, found.known))]
BY DEF Infer, Found

(* On a list in order, inference that accepts every node leaves consistent *)
(* descriptions.                                                           *)
LEMMA InferenceDescribes ==
  ASSUME NEW ns \in Seq(Node), NEW kinds \in [Value -> Kind], OneProducer(ns), InOrder(ns),
         Inferred(ns, kinds).ok
  PROVE  Consistent(ns, Inferred(ns, kinds).known)
<1> DEFINE n == Len(ns)
<1>1. PICK after : InferredSteps(ns, kinds, after) /\ Inferred(ns, kinds) = after[n]
  BY InferredUnfolds
<1>2. n \in Nat /\ DOMAIN ns = 1..n
  OBVIOUS
<1> DEFINE Good(i) == after[i].ok => \A j \in 1..i : Described(ns[j], after[i].known)
           T == {i \in Nat : i <= n => Good(i)}
<1>3. 0 \in T
  OBVIOUS
<1>4. ASSUME NEW i \in Nat, i \in T PROVE i + 1 \in T
  <2> DEFINE h == i + 1
             node == ns[h]
             found == after[i]
             args == KindsOf(node, found.known)
  <2> SUFFICES ASSUME h <= n, after[h].ok, NEW j \in 1..h
               PROVE  Described(ns[j], after[h].known)
    OBVIOUS
  <2>1. h \in 1..n /\ h - 1 = i /\ i <= n /\ i \in 0..n
    BY <1>2
  <2>2. after[h] = Infer(node, found) /\ found \in Found /\ node \in Node
    BY <1>1, <1>2, <2>1 DEF InferredSteps
  <2>3. /\ found.ok /\ Accepts(node.op, args)
        /\ after[h].known = [found.known EXCEPT ![node.out] = OutputKind(node.op, args)]
    <3> HIDE DEF node, found
    <3> QED
      BY <2>2, InferCases DEF found
  <2>4. found.known \in [Value -> Kind]
    BY <2>2 DEF Found
  <2>5. node.out \in Value
    BY <2>2 DEF Node
  <2>6. ns[j] \in Node /\ j \in DOMAIN ns
    BY <1>2, <2>1
  <2>7. ns[j].ins \in Seq(Value) /\ ns[j].out \in Value
    BY <2>6 DEF Node
  <2>8. \A k \in DOMAIN ns[j].ins : ns[j].ins[k] # node.out
    <3> SUFFICES ASSUME NEW k \in DOMAIN ns[j].ins, ns[j].ins[k] = node.out PROVE FALSE
      OBVIOUS
    <3>1. Reads(ns, j, ns[h].out)
      BY DEF Reads
    <3>2. h < j
      BY <1>2, <2>1, <2>6, <3>1 DEF InOrder
    <3> QED
      BY <2>1, <3>2
  <2> DEFINE kinds2 == after[h].known
  <2>9. KindsOf(ns[j], kinds2) = KindsOf(ns[j], found.known)
    <3>1. \A k \in DOMAIN ns[j].ins : kinds2[ns[j].ins[k]] = found.known[ns[j].ins[k]]
      <4> TAKE k \in DOMAIN ns[j].ins
      <4>1. ns[j].ins[k] \in Value /\ ns[j].ins[k] # node.out
        BY <2>7, <2>8
      <4> HIDE DEF node, args
      <4> QED
        BY <2>3, <2>4, <4>1
    <3> HIDE DEF kinds2
    <3> QED
      BY <3>1 DEF KindsOf
  <2>10. CASE j = h
    <3>1. kinds2[node.out] = OutputKind(node.op, args)
      <4> HIDE DEF args, node
      <4> QED
        BY <2>3, <2>4, <2>5
    <3> QED
      BY <2>3, <2>9, <2>10, <3>1 DEF Described
  <2>11. CASE j # h
    <3>1. Described(ns[j], found.known)
      <4>1. j \in 1..i
        BY <2>11
      <4> QED
        BY <1>4, <2>1, <2>3, <4>1
    <3>2. ns[j].out # node.out
      BY <1>2, <2>1, <2>6, <2>11 DEF OneProducer
    <3>3. kinds2[ns[j].out] = found.known[ns[j].out]
      <4> HIDE DEF args, node
      <4> QED
        BY <2>3, <2>4, <2>7, <3>2
    <3> QED
      BY <2>9, <3>1, <3>3 DEF Described
  <2> QED
    BY <2>10, <2>11
<1>5. n \in T
  <2> HIDE DEF T
  <2> QED
    BY <1>2, <1>3, <1>4, SetInduction
<1> QED
  BY <1>1, <1>2, <1>5 DEF Consistent
-----------------------------------------------------------------------------
(* The nodes that stay when some are removed, by their former positions.   *)
Survivors(ns, removed, pos) ==
  /\ pos \in [DOMAIN RemoveNodes(ns, removed) -> DOMAIN ns \ removed]
  /\ \A i, j \in DOMAIN pos : i < j => pos[i] < pos[j]
  /\ \A i \in DOMAIN pos : RemoveNodes(ns, removed)[i] = ns[pos[i]]

(* RemoveNodes keeps the order of the nodes it leaves.                     *)
LEMMA RemovedInOrder ==
  ASSUME NEW A, NEW ns \in Seq(A), NEW removed
  PROVE  \E pos : Survivors(ns, removed, pos)
<1> DEFINE n == Len(ns)
           S == DOMAIN ns \ removed
           pos == Positions(n, S)
<1>1. Lists(pos, n, S) /\ DOMAIN ns = 1..n
  BY PositionsList
<1>2. RemoveNodes(ns, removed) = [i \in DOMAIN pos |-> ns[pos[i]]]
  BY DEF RemoveNodes, Kept
<1> HIDE DEF pos
<1>3. pos \in Seq(S) /\ \A i, j \in DOMAIN pos : i < j => pos[i] < pos[j]
  BY <1>1 DEF Lists
<1>4. pos \in [DOMAIN pos -> S]
  BY <1>3
<1> HIDE DEF S
<1>5. Survivors(ns, removed, pos)
  BY <1>2, <1>3, <1>4 DEF Survivors, S
<1> QED
  BY <1>5

(* Removing nodes keeps what holds of each, of two, and of their order.    *)
LEMMA RemovalKeepsOrder ==
  ASSUME NEW ns \in Seq(Node), NEW removed, OneProducer(ns)
  PROVE  /\ OneProducer(RemoveNodes(ns, removed))
         /\ InOrder(ns) => InOrder(RemoveNodes(ns, removed))
<1> DEFINE new == RemoveNodes(ns, removed)
<1>1. PICK pos : Survivors(ns, removed, pos)
  BY RemovedInOrder
<1>2. /\ DOMAIN pos = DOMAIN new
      /\ \A i \in DOMAIN new : pos[i] \in DOMAIN ns /\ new[i] = ns[pos[i]]
      /\ \A i, j \in DOMAIN new : i < j => pos[i] < pos[j]
  BY <1>1 DEF Survivors
<1>3. new \in Seq(Node)
  BY RemovedNodes
<1> HIDE DEF new
<1>4. \A i, j \in DOMAIN new : i \in Nat /\ j \in Nat /\ pos[i] \in Nat /\ pos[j] \in Nat
  BY <1>2, <1>3
<1>5. \A i, j \in DOMAIN new : pos[i] = pos[j] => i = j
  <2> SUFFICES ASSUME NEW i \in DOMAIN new, NEW j \in DOMAIN new, pos[i] = pos[j], i # j
               PROVE  FALSE
    OBVIOUS
  <2>1. i < j \/ j < i
    BY <1>4
  <2> QED
    BY <1>2, <1>4, <2>1
<1>6. OneProducer(new)
  BY <1>2, <1>5 DEF OneProducer
<1>7. ASSUME InOrder(ns) PROVE InOrder(new)
  <2> SUFFICES ASSUME NEW i \in DOMAIN new, NEW j \in DOMAIN new, Reads(new, i, new[j].out)
               PROVE  j < i
    BY DEF InOrder
  <2>1. Reads(ns, pos[i], ns[pos[j]].out)
    BY <1>2 DEF Reads
  <2>2. pos[j] < pos[i]
    BY <1>2, <1>7, <2>1 DEF InOrder
  <2>3. ~(i < j) /\ i # j
    BY <1>2, <1>4, <2>2
  <2> QED
    BY <1>4, <2>3
<1> QED
  BY <1>6, <1>7 DEF new

(* A normalisation takes what a convolution computes as its first input    *)
(* only.                                                                   *)
ScalesGiven(ns) ==
  \A i, j \in DOMAIN ns :
    ns[i].op = "Conv" /\ ns[j].op = "BatchNormalization" =>
      \A k \in 2..Len(ns[j].ins) : ns[j].ins[k] # ns[i].out

(* The list in which node i is merged into node and others are removed.    *)
MergedList(ns, i, node, removed) == RemoveNodes([ns EXCEPT ![i] = node], removed)

(* node takes the place of i and the output of a removed node, and is      *)
(* ranked and described where they are.                                    *)
Replaces(ns, i, node, removed, kinds) ==
  /\ node \in Node /\ node.op \notin {"Conv", "BatchNormalization"}
  /\ \E last \in removed \cap DOMAIN ns : last # i /\ node.out = ns[last].out
  /\ \A rank \in [Value -> Nat] :
       (\A j \in DOMAIN ns : Below(ns[j], rank)) => Below(node, rank)
  /\ Consistent(ns, kinds) => Described(node, kinds)

(* Merging keeps what the passes rely on.                                  *)
LEMMA MergingKeeps ==
  ASSUME NEW ns \in Seq(Node), NEW i \in DOMAIN ns, NEW node, NEW removed, NEW kinds,
         Replaces(ns, i, node, removed, kinds), OneProducer(ns), ScalesGiven(ns)
  PROVE  /\ OneProducer(MergedList(ns, i, node, removed))
         /\ ScalesGiven(MergedList(ns, i, node, removed))
         /\ Ranked(ns) => Ranked(MergedList(ns, i, node, removed))
         /\ Consistent(ns, kinds) => Consistent(MergedList(ns, i, node, removed), kinds)
<1> DEFINE set == [ns EXCEPT ![i] = node]
           new == MergedList(ns, i, node, removed)
<1>1. node \in Node /\ node.op \notin {"Conv", "BatchNormalization"}
  BY DEF Replaces
<1>2. set \in Seq(Node) /\ DOMAIN set = DOMAIN ns /\ set[i] = node
      /\ \A j \in DOMAIN ns : j # i => set[j] = ns[j]
  BY <1>1, ExceptSeq
<1> HIDE DEF set
<1>3. new = RemoveNodes(set, removed)
  BY DEF MergedList, set
<1> HIDE DEF new
<1>4. PICK pos : Survivors(set, removed, pos)
  BY <1>2, RemovedInOrder
<1>5. /\ DOMAIN pos = DOMAIN new
      /\ \A a \in DOMAIN new : pos[a] \in DOMAIN ns /\ pos[a] \notin removed /\ new[a] = set[pos[a]]
      /\ \A a, b \in DOMAIN new : a < b => pos[a] < pos[b]
  BY <1>2, <1>3, <1>4 DEF Survivors
<1>6. new \in Seq(Node) /\ DOMAIN ns \subseteq Nat /\ DOMAIN new \subseteq Nat
  BY <1>2, <1>3, RemovedNodes
<1>7. \A a, b \in DOMAIN new : pos[a] = pos[b] => a = b
  <2> SUFFICES ASSUME NEW a \in DOMAIN new, NEW b \in DOMAIN new, pos[a] = pos[b], a # b
               PROVE  FALSE
    OBVIOUS
  <2>1. a < b \/ b < a
    BY <1>6
  <2>2. pos[a] \in Nat /\ pos[b] \in Nat
    BY <1>5, <1>6
  <2> QED
    BY <1>5, <2>1, <2>2
<1>8. PICK last \in removed \cap DOMAIN ns : last # i /\ node.out = ns[last].out
  BY DEF Replaces
<1>9. OneProducer(new)
  <2> SUFFICES ASSUME NEW a \in DOMAIN new, NEW b \in DOMAIN new, new[a].out = new[b].out
               PROVE  a = b
    BY DEF OneProducer
  <2>1. pos[a] # last /\ pos[b] # last /\ pos[a] \in DOMAIN ns /\ pos[b] \in DOMAIN ns
    BY <1>5
  <2>2. CASE pos[a] = i /\ pos[b] = i
    BY <1>7, <2>2
  <2>3. CASE pos[a] # i /\ pos[b] # i
    BY <1>2, <1>5, <1>7, <2>1, <2>3 DEF OneProducer
  <2>4. CASE pos[a] = i /\ pos[b] # i
    BY <1>2, <1>5, <1>8, <2>1, <2>4 DEF OneProducer
  <2>5. CASE pos[a] # i /\ pos[b] = i
    BY <1>2, <1>5, <1>8, <2>1, <2>5 DEF OneProducer
  <2> QED
    BY <2>2, <2>3, <2>4, <2>5
<1>10. ScalesGiven(new)
  <2> SUFFICES ASSUME NEW a \in DOMAIN new, NEW b \in DOMAIN new,
                      new[a].op = "Conv", new[b].op = "BatchNormalization",
                      NEW k \in 2..Len(new[b].ins)
               PROVE  new[b].ins[k] # new[a].out
    BY DEF ScalesGiven
  <2>1. pos[a] # i /\ pos[b] # i
    BY <1>1, <1>2, <1>5
  <2>2. new[a] = ns[pos[a]] /\ new[b] = ns[pos[b]] /\ pos[a] \in DOMAIN ns /\ pos[b] \in DOMAIN ns
    BY <1>2, <1>5, <2>1
  <2> QED
    BY <2>2 DEF ScalesGiven
<1>11. ASSUME Ranked(ns) PROVE Ranked(new)
  <2>1. PICK rank \in [Value -> Nat] : \A j \in DOMAIN ns : Below(ns[j], rank)
    BY <1>11 DEF Ranked
  <2>2. Below(node, rank)
    BY <2>1 DEF Replaces
  <2>3. \A a \in DOMAIN new : Below(new[a], rank)
    BY <1>2, <1>5, <2>1, <2>2
  <2> QED
    BY <2>3 DEF Ranked
<1>12. ASSUME Consistent(ns, kinds) PROVE Consistent(new, kinds)
  <2>1. Described(node, kinds)
    BY <1>12 DEF Replaces
  <2> QED
    BY <1>2, <1>5, <1>12, <2>1 DEF Consistent
<1> QED
  BY <1>9, <1>10, <1>11, <1>12 DEF new
-----------------------------------------------------------------------------
(* What a described node says of the kinds, operator by operator.          *)
LEMMA ConvDescribed ==
  ASSUME NEW node \in Node, NEW kinds \in [Value -> Kind], Described(node, kinds),
         node.op = "Conv"
  PROVE  /\ Len(node.ins) = 2
         /\ kinds[node.ins[1]] = "image" /\ kinds[node.ins[2]] = "image"
         /\ kinds[node.out] = "image"
<1> DEFINE args == KindsOf(node, kinds)
<1>1. /\ Len(args) = Len(node.ins) /\ \A k \in 1..Len(node.ins) : args[k] = kinds[node.ins[k]]
  BY KindsListed
<1>2. Accepts("Conv", args) /\ kinds[node.out] = OutputKind("Conv", args)
  BY DEF Described
<1> HIDE DEF args
<1>3. Len(args) = 2 /\ args[1] = "image" /\ args[2] = "image"
  BY <1>2 DEF Accepts, InputCounts, ConvLike, SameAsInput, Elementwise, GemmLike, PoolLike
<1>4. kinds[node.out] = args[1]
  BY <1>2 DEF OutputKind, GemmLike
<1> QED
  BY <1>1, <1>3, <1>4

(* Normalisation and activations.                                          *)
LEMMA SameDescribed ==
  ASSUME NEW node \in Node, NEW kinds \in [Value -> Kind], Described(node, kinds),
         node.op \in {"BatchNormalization", "Relu", "Gelu"}
  PROVE  /\ Len(node.ins) = IF node.op = "BatchNormalization" THEN 5 ELSE 1
         /\ kinds[node.out] = kinds[node.ins[1]]
<1> DEFINE args == KindsOf(node, kinds)
<1>1. /\ Len(args) = Len(node.ins) /\ \A k \in 1..Len(node.ins) : args[k] = kinds[node.ins[k]]
  BY KindsListed
<1>2. Accepts(node.op, args) /\ kinds[node.out] = OutputKind(node.op, args)
  BY DEF Described
<1> HIDE DEF args
<1>3. Len(args) = IF node.op = "BatchNormalization" THEN 5 ELSE 1
  BY <1>2 DEF Accepts, InputCounts, ConvLike, SameAsInput, Elementwise, GemmLike, PoolLike
<1>4. kinds[node.out] = args[1]
  BY <1>2 DEF OutputKind, GemmLike
<1> QED
  BY <1>1, <1>3, <1>4

(* A sum.                                                                  *)
LEMMA AddDescribed ==
  ASSUME NEW node \in Node, NEW kinds \in [Value -> Kind], Described(node, kinds),
         node.op = "Add"
  PROVE  /\ Len(node.ins) = 2 /\ kinds[node.ins[1]] = kinds[node.ins[2]]
         /\ kinds[node.out] = kinds[node.ins[1]]
<1> DEFINE args == KindsOf(node, kinds)
<1>1. /\ Len(args) = Len(node.ins) /\ \A k \in 1..Len(node.ins) : args[k] = kinds[node.ins[k]]
  BY KindsListed
<1>2. Accepts("Add", args) /\ kinds[node.out] = OutputKind("Add", args)
  BY DEF Described
<1> HIDE DEF args
<1>3. Len(args) = 2 /\ args[1] = args[2]
  BY <1>2 DEF Accepts, InputCounts, ConvLike, SameAsInput, Elementwise, GemmLike, PoolLike
<1>4. kinds[node.out] = args[1]
  BY <1>2 DEF OutputKind, GemmLike
<1> QED
  BY <1>1, <1>3, <1>4

(* A layer normalisation.                                                  *)
LEMMA NormDescribed ==
  ASSUME NEW node \in Node, NEW kinds \in [Value -> Kind], Described(node, kinds),
         node.op = "LayerNormalization"
  PROVE  /\ Len(node.ins) \in {2, 3} /\ kinds[node.ins[1]] # "unknown"
         /\ \A k \in 2..Len(node.ins) : kinds[node.ins[k]] = "vector"
         /\ kinds[node.out] = kinds[node.ins[1]]
<1> DEFINE args == KindsOf(node, kinds)
<1>1. /\ Len(args) = Len(node.ins) /\ \A k \in 1..Len(node.ins) : args[k] = kinds[node.ins[k]]
  BY KindsListed
<1>2. /\ Accepts("LayerNormalization", args)
      /\ kinds[node.out] = OutputKind("LayerNormalization", args)
  BY DEF Described
<1> HIDE DEF args
<1>3. /\ Len(args) \in {2, 3} /\ args[1] # "unknown" /\ \A k \in 2..Len(args) : args[k] = "vector"
  BY <1>2 DEF Accepts, NormalizationAccepts, InputCounts, ConvLike, SameAsInput, Elementwise,
              GemmLike, PoolLike
<1>4. kinds[node.out] = args[1]
  BY <1>2 DEF OutputKind, GemmLike
<1> QED
  BY <1>1, <1>3, <1>4

(* A fused Add is described as the sum is, a fused Gemm as the product is. *)
LEMMA RenamedDescribed ==
  ASSUME NEW node \in Node, NEW kinds \in [Value -> Kind], Described(node, kinds),
         NEW new \in Node, new.ins = node.ins, kinds[new.out] = kinds[node.out],
         \/ node.op = "Add" /\ new.op = "AddRelu"
         \/ node.op = "Gemm" /\ new.op = "GemmGelu"
         \/ node.op = "MatMul" /\ new.op = "Gemm"
  PROVE  Described(new, kinds)
<1> DEFINE args == KindsOf(node, kinds)
<1>1. KindsOf(new, kinds) = args
  BY DEF KindsOf
<1>2. Accepts(node.op, args) /\ kinds[node.out] = OutputKind(node.op, args)
  BY DEF Described
<1> HIDE DEF args
<1>3. Accepts(new.op, args)
  BY <1>2 DEF Accepts, InputCounts, ConvLike, SameAsInput, Elementwise, GemmLike, PoolLike
<1>4. OutputKind(new.op, args) = OutputKind(node.op, args)
  BY DEF OutputKind, GemmLike
<1> QED
  BY <1>1, <1>2, <1>3, <1>4 DEF Described

(* The fused convolutions are described as images.                         *)
LEMMA FusedConvDescribed ==
  ASSUME NEW node \in Node, NEW kinds \in [Value -> Kind],
         node.op \in {"FusedConvBatchNorm", "FusedConvBatchNormRelu"}, Len(node.ins) = 6,
         kinds[node.ins[1]] = "image", kinds[node.ins[2]] = "image", kinds[node.out] = "image"
  PROVE  Described(node, kinds)
<1> DEFINE args == KindsOf(node, kinds)
<1>1. /\ Len(args) = Len(node.ins) /\ \A k \in 1..Len(node.ins) : args[k] = kinds[node.ins[k]]
  BY KindsListed
<1> HIDE DEF args
<1>2. Len(args) = 6 /\ args[1] = "image" /\ args[2] = "image"
  BY <1>1
<1>3. Accepts(node.op, args)
  BY <1>2 DEF Accepts, InputCounts, ConvLike, SameAsInput, Elementwise, GemmLike, PoolLike
<1>4. OutputKind(node.op, args) = "image"
  BY <1>2 DEF OutputKind, GemmLike
<1> QED
  BY <1>3, <1>4 DEF Described, args

(* A fused layer normalisation is described as the sum's first input is.   *)
LEMMA SkipNormDescribed ==
  ASSUME NEW node \in Node, NEW kinds \in [Value -> Kind],
         node.op = "SkipLayerNormalization", Len(node.ins) = 4,
         kinds[node.ins[1]] = kinds[node.ins[2]], kinds[node.ins[1]] # "unknown",
         kinds[node.ins[3]] = "vector", kinds[node.ins[4]] = "vector",
         kinds[node.out] = kinds[node.ins[1]]
  PROVE  Described(node, kinds)
<1> DEFINE args == KindsOf(node, kinds)
<1>1. /\ Len(args) = Len(node.ins) /\ \A k \in 1..Len(node.ins) : args[k] = kinds[node.ins[k]]
  BY KindsListed
<1> HIDE DEF args
<1>2. /\ Len(args) = 4 /\ args[1] = args[2] /\ args[1] # "unknown"
      /\ args[3] = "vector" /\ args[4] = "vector" /\ kinds[node.out] = args[1]
  BY <1>1
<1>3. NormalizationAccepts(<<args[1], args[3], args[4]>>)
  BY <1>2 DEF NormalizationAccepts
<1>4. Accepts(node.op, args)
  BY <1>2, <1>3 DEF Accepts, InputCounts, ConvLike, SameAsInput, Elementwise, GemmLike, PoolLike
<1>5. OutputKind(node.op, args) = args[1]
  BY DEF OutputKind, GemmLike
<1> QED
  BY <1>2, <1>4, <1>5 DEF Described, args

(* The elements of a sequence continued by another one's tail.             *)
LEMMA JoinedElements ==
  ASSUME NEW a \in Seq(Value), NEW b \in Seq(Value), b # <<>>
  PROVE  /\ a \o Tail(b) \in Seq(Value) /\ Len(a \o Tail(b)) = Len(a) + Len(b) - 1
         /\ \A k \in DOMAIN a : (a \o Tail(b))[k] = a[k]
         /\ \A k \in 2..Len(b) : (a \o Tail(b))[Len(a) + k - 1] = b[k]
         /\ \A k \in DOMAIN (a \o Tail(b)) :
              \/ k \in DOMAIN a /\ (a \o Tail(b))[k] = a[k]
              \/ \E l \in 2..Len(b) : (a \o Tail(b))[k] = b[l]
<1> DEFINE t == Tail(b)
           j == a \o t
<1>1. /\ t \in Seq(Value) /\ Len(t) = Len(b) - 1 /\ Len(t) \in Nat /\ Len(b) \in Nat
      /\ \A k \in 1..Len(t) : t[k] = b[k + 1]
  BY HeadTailProperties
<1>2. Len(a) \in Nat /\ DOMAIN a = 1..Len(a)
  OBVIOUS
<1> HIDE DEF t
<1>3. /\ j \in Seq(Value) /\ Len(j) = Len(a) + Len(t)
      /\ \A k \in 1..(Len(a) + Len(t)) : j[k] = IF k <= Len(a) THEN a[k] ELSE t[k - Len(a)]
      /\ DOMAIN j = 1..(Len(a) + Len(t))
  <2>1. /\ j \in Seq(Value) /\ Len(j) = Len(a) + Len(t)
        /\ \A k \in 1..(Len(a) + Len(t)) : j[k] = IF k <= Len(a) THEN a[k] ELSE t[k - Len(a)]
    BY <1>1, ConcatProperties
  <2> HIDE DEF j
  <2> QED
    BY <2>1
<1> HIDE DEF j
<1>4. Len(j) = Len(a) + Len(b) - 1
  BY <1>1, <1>2, <1>3
<1>5. \A k \in DOMAIN a : j[k] = a[k]
  BY <1>1, <1>2, <1>3
<1>6. ASSUME NEW k \in 2..Len(b) PROVE j[Len(a) + k - 1] = b[k]
  <2>1. /\ k - 1 \in 1..Len(t) /\ (k - 1) + 1 = k
        /\ Len(a) + k - 1 \in 1..(Len(a) + Len(t)) /\ ~(Len(a) + k - 1 <= Len(a))
        /\ (Len(a) + k - 1) - Len(a) = k - 1
    BY <1>1, <1>2
  <2> QED
    BY <1>1, <1>3, <2>1
<1>7. ASSUME NEW k \in DOMAIN j
      PROVE  (k \in DOMAIN a /\ j[k] = a[k]) \/ \E l \in 2..Len(b) : j[k] = b[l]
  <2>1. CASE k <= Len(a)
    BY <1>2, <1>3, <2>1
  <2>2. CASE ~(k <= Len(a))
    <3>1. k - Len(a) \in 1..Len(t) /\ (k - Len(a)) + 1 \in 2..Len(b)
      BY <1>1, <1>2, <1>3, <2>2
    <3> QED
      BY <1>1, <1>3, <2>2, <3>1
  <2> QED
    BY <2>1, <2>2
<1> QED
  BY <1>3, <1>4, <1>5, <1>6, <1>7 DEF j, t

(* A chain of nodes, each reading the one before: a, b and last, which may *)
(* be b itself.  node stands for all of them.                              *)
Chained(a, b, last, node) ==
  /\ a \in Node /\ b \in Node /\ last \in Node /\ node \in Node
  /\ \E k \in DOMAIN b.ins : b.ins[k] = a.out
  /\ last = b \/ \E k \in DOMAIN last.ins : last.ins[k] = b.out
  /\ node.out = last.out
  /\ \A k \in DOMAIN node.ins :
       \/ \E l \in DOMAIN a.ins : node.ins[k] = a.ins[l]
       \/ \E l \in DOMAIN b.ins : node.ins[k] = b.ins[l]

(* What stands for a chain is ranked as the chain is.                      *)
LEMMA ChainBelow ==
  ASSUME NEW a, NEW b, NEW last, NEW node, Chained(a, b, last, node),
         NEW rank \in [Value -> Nat], Below(a, rank), Below(b, rank), Below(last, rank)
  PROVE  Below(node, rank)
<1>1. /\ a.out \in Value /\ b.out \in Value /\ last.out \in Value
      /\ node.ins \in Seq(Value) /\ DOMAIN node.ins = 1..Len(node.ins)
      /\ node.out = last.out
  BY DEF Chained, Node
<1>2. rank[a.out] < rank[b.out]
  BY DEF Chained, Below
<1>3. last = b \/ rank[b.out] < rank[last.out]
  BY DEF Chained, Below
<1>4. rank[a.out] \in Nat /\ rank[b.out] \in Nat /\ rank[last.out] \in Nat
  BY <1>1
<1>5. ASSUME NEW k \in DOMAIN node.ins PROVE rank[node.ins[k]] < rank[node.out]
  <2>1. node.ins[k] \in Value /\ rank[node.ins[k]] \in Nat
    BY <1>1
  <2>2. rank[node.ins[k]] < rank[a.out] \/ rank[node.ins[k]] < rank[b.out]
    BY DEF Chained, Below
  <2> QED
    BY <1>1, <1>2, <1>3, <1>4, <2>1, <2>2
<1> QED
  BY <1>5 DEF Below

(* A merged chain of the list's nodes replaces its first one.              *)
LEMMA ChainReplaces ==
  ASSUME NEW ns \in Seq(Node), NEW i \in DOMAIN ns, NEW j \in DOMAIN ns, NEW l \in DOMAIN ns,
         NEW node, Chained(ns[i], ns[j], ns[l], node), l # i, NEW removed, l \in removed,
         node.op \notin {"Conv", "BatchNormalization"}, NEW kinds, Described(node, kinds)
  PROVE  Replaces(ns, i, node, removed, kinds)
<1>1. node \in Node /\ node.out = ns[l].out
  BY DEF Chained
<1>2. \A rank \in [Value -> Nat] : (\A m \in DOMAIN ns : Below(ns[m], rank)) => Below(node, rank)
  BY ChainBelow
<1> QED
  BY <1>1, <1>2 DEF Replaces

(* The only input of a node that a pair's second node may have.            *)
LEMMA ReadsFirst ==
  ASSUME nodes \in Seq(Node), known \in [Value -> Kind], Consistent(nodes, known),
         NEW i \in DOMAIN nodes, NEW j \in DOMAIN nodes, OnlyReader(i, j),
         nodes[j].op \in {"Relu", "Gelu"}
  PROVE  /\ 1 \in DOMAIN nodes[j].ins /\ nodes[j].ins[1] = nodes[i].out
         /\ known[nodes[j].out] = known[nodes[i].out]
<1>1. nodes[j] \in Node /\ Described(nodes[j], known)
  BY DEF Consistent
<1>2. Len(nodes[j].ins) = 1 /\ known[nodes[j].out] = known[nodes[j].ins[1]]
  BY <1>1, SameDescribed
<1>3. DOMAIN nodes[j].ins = {1}
  BY <1>1, <1>2 DEF Node
<1>4. \E k \in DOMAIN nodes[j].ins : nodes[j].ins[k] = nodes[i].out
  BY DEF OnlyReader, Reads
<1> QED
  BY <1>2, <1>3, <1>4

(* Add and Relu, Gemm and Gelu.                                            *)
LEMMA MergedReplaces ==
  ASSUME nodes \in Seq(Node), known \in [Value -> Kind], Consistent(nodes, known),
         NEW i \in DOMAIN nodes, NEW j \in DOMAIN nodes, OnlyReader(i, j), NEW op \in Op,
         \/ nodes[i].op = "Add" /\ nodes[j].op = "Relu" /\ op = "AddRelu"
         \/ nodes[i].op = "Gemm" /\ nodes[j].op = "Gelu" /\ op = "GemmGelu"
  PROVE  Replaces(nodes, i, Merged(op, i, j), {j}, known)
<1> DEFINE node == Merged(op, i, j)
<1>1. node \in Node /\ nodes[i] \in Node /\ nodes[j] \in Node
  BY MergedTyped
<1>2. node.op = op /\ node.ins = nodes[i].ins /\ node.out = nodes[j].out
  BY DEF Merged
<1> HIDE DEF node
<1>3. 1 \in DOMAIN nodes[j].ins /\ nodes[j].ins[1] = nodes[i].out
      /\ known[nodes[j].out] = known[nodes[i].out]
  BY ReadsFirst
<1>4. Chained(nodes[i], nodes[j], nodes[j], node)
  BY <1>1, <1>2, <1>3 DEF Chained
<1>5. Described(nodes[i], known)
  BY DEF Consistent
<1>6. Described(node, known)
  BY <1>1, <1>2, <1>3, <1>5, RenamedDescribed
<1>7. j # i /\ node.op \notin {"Conv", "BatchNormalization"}
  BY <1>2
<1>8. Replaces(nodes, i, node, {j}, known)
  BY <1>4, <1>6, <1>7, ChainReplaces
<1> QED
  BY <1>8 DEF node

(* Add and LayerNormalization.                                             *)
LEMMA SkipNormReplaces ==
  ASSUME nodes \in Seq(Node), known \in [Value -> Kind], Consistent(nodes, known),
         NEW i \in DOMAIN nodes, NEW j \in DOMAIN nodes, OnlyReader(i, j),
         nodes[i].op = "Add", nodes[j].op = "LayerNormalization",
         Len(nodes[j].ins) = 3, nodes[j].ins[1] = nodes[i].out
  PROVE  Replaces(nodes, i, SkipLayerNormalization(i, j), {j}, known)
<1> DEFINE node == SkipLayerNormalization(i, j)
           a == nodes[i]
           b == nodes[j]
<1>1. a \in Node /\ b \in Node /\ Described(a, known) /\ Described(b, known)
  BY DEF Consistent
<1>2. node.op = "SkipLayerNormalization" /\ node.ins = a.ins \o Tail(b.ins) /\ node.out = b.out
      /\ "SkipLayerNormalization" \in Op
      /\ node = [op |-> node.op, ins |-> node.ins, out |-> node.out]
  BY DEF SkipLayerNormalization, Op
<1>3. a.ins \in Seq(Value) /\ b.ins \in Seq(Value) /\ b.out \in Value
      /\ DOMAIN a.ins = 1..Len(a.ins) /\ DOMAIN b.ins = 1..Len(b.ins)
  BY <1>1 DEF Node
<1>4. Len(a.ins) = 2 /\ known[a.ins[1]] = known[a.ins[2]] /\ known[a.out] = known[a.ins[1]]
  BY <1>1, AddDescribed
<1>5. known[b.ins[1]] # "unknown" /\ known[b.ins[2]] = "vector" /\ known[b.ins[3]] = "vector"
      /\ known[b.out] = known[b.ins[1]]
  <2> HIDE DEF b
  <2>1. /\ known[b.ins[1]] # "unknown" /\ known[b.out] = known[b.ins[1]]
        /\ \A k \in 2..Len(b.ins) : known[b.ins[k]] = "vector"
    BY <1>1, NormDescribed, Zenon DEF b
  <2>2. Len(b.ins) = 3 /\ 2 \in 2..3 /\ 3 \in 2..3
    BY DEF b
  <2> QED
    BY <2>1, <2>2, Zenon
<1>6. b.ins # <<>>
  BY <1>3
<1> HIDE DEF node, a, b
<1>7. /\ node.ins \in Seq(Value) /\ Len(node.ins) = 4
      /\ node.ins[1] = a.ins[1] /\ node.ins[2] = a.ins[2]
      /\ node.ins[3] = b.ins[2] /\ node.ins[4] = b.ins[3]
      /\ \A k \in DOMAIN node.ins :
           \/ \E l \in DOMAIN a.ins : node.ins[k] = a.ins[l]
           \/ \E l \in DOMAIN b.ins : node.ins[k] = b.ins[l]
  <2>1. Len(b.ins) = 3 /\ 1 \in DOMAIN a.ins /\ 2 \in DOMAIN a.ins
    BY <1>3, <1>4 DEF b
  <2> DEFINE t == a.ins \o Tail(b.ins)
  <2>2. /\ t \in Seq(Value) /\ Len(t) = Len(a.ins) + Len(b.ins) - 1
        /\ \A k \in DOMAIN a.ins : t[k] = a.ins[k]
        /\ \A k \in 2..Len(b.ins) : t[Len(a.ins) + k - 1] = b.ins[k]
        /\ \A k \in DOMAIN t : \/ k \in DOMAIN a.ins /\ t[k] = a.ins[k]
                               \/ \E l \in 2..Len(b.ins) : t[k] = b.ins[l]
    BY <1>3, <1>6, JoinedElements
  <2> HIDE DEF t
  <2>3. node.ins = t
    BY <1>2 DEF t
  <2>4. t[2 + 2 - 1] = b.ins[2] /\ t[2 + 3 - 1] = b.ins[3]
    BY <1>4, <2>1, <2>2
  <2> QED
    BY <1>3, <1>4, <2>1, <2>2, <2>3, <2>4
<1>8. node \in Node
  BY <1>2, <1>3, <1>7 DEF Node
<1>9. b.ins[1] = a.out /\ 1 \in DOMAIN b.ins /\ j # i
  BY <1>3 DEF a, b
<1>10. Chained(a, b, b, node)
  BY <1>1, <1>2, <1>7, <1>8, <1>9 DEF Chained
<1>11. Described(node, known)
  <2>1. known[node.ins[1]] # "unknown"
    BY <1>4, <1>5, <1>7, <1>9
  <2>2. known[node.out] = known[node.ins[1]]
    BY <1>2, <1>4, <1>5, <1>7, <1>9
  <2> QED
    BY <1>2, <1>4, <1>5, <1>7, <1>8, <2>1, <2>2, SkipNormDescribed
<1>12. Replaces(nodes, i, node, {j}, known)
  BY <1>2, <1>9, <1>10, <1>11, ChainReplaces DEF a, b
<1> QED
  BY <1>12 DEF node

(* Conv, BatchNormalization and the Relu behind them.                      *)
LEMMA FusedConvReplaces ==
  ASSUME nodes \in Seq(Node), known \in [Value -> Kind], Consistent(nodes, known),
         ScalesGiven(nodes),
         NEW i \in DOMAIN nodes, NEW j \in DOMAIN nodes, NEW l \in DOMAIN nodes,
         nodes[i].op = "Conv", nodes[j].op = "BatchNormalization", OnlyReader(i, j),
         l = j \/ l \in FollowingRelu(j), NEW removed, l \in removed,
         NEW node \in Node, node.op \in {"FusedConvBatchNorm", "FusedConvBatchNormRelu"},
         node.ins = nodes[i].ins \o Tail(nodes[j].ins), node.out = nodes[l].out
  PROVE  Replaces(nodes, i, node, removed, known)
<1> DEFINE a == nodes[i]
           b == nodes[j]
           c == nodes[l]
<1>1. a \in Node /\ b \in Node /\ c \in Node /\ Described(a, known) /\ Described(b, known)
  BY DEF Consistent
<1>2. a.ins \in Seq(Value) /\ b.ins \in Seq(Value) /\ b.out \in Value
      /\ DOMAIN a.ins = 1..Len(a.ins) /\ DOMAIN b.ins = 1..Len(b.ins)
  BY <1>1 DEF Node
<1>3. Len(a.ins) = 2 /\ known[a.ins[1]] = "image" /\ known[a.ins[2]] = "image"
      /\ known[a.out] = "image"
  BY <1>1, ConvDescribed
<1>4. Len(b.ins) = 5 /\ known[b.out] = known[b.ins[1]]
  BY <1>1, SameDescribed
<1>5. b.ins[1] = a.out /\ 1 \in DOMAIN b.ins
  <2>1. PICK k \in DOMAIN b.ins : b.ins[k] = a.out
    BY DEF OnlyReader, Reads
  <2>2. k \notin 2..Len(b.ins)
    BY <2>1 DEF ScalesGiven
  <2>3. k = 1
    BY <1>2, <1>4, <2>2
  <2> QED
    BY <2>1, <2>3
<1>6. /\ c = b \/ \E k \in DOMAIN c.ins : c.ins[k] = b.out
      /\ known[c.out] = known[b.out] /\ l # i
  <2>1. CASE l = j
    BY <2>1
  <2>2. CASE l \in FollowingRelu(j)
    <3>1. nodes[l].op = "Relu" /\ OnlyReader(j, l)
      BY <2>2 DEF FollowingRelu
    <3> QED
      BY <3>1, ReadsFirst
  <2> QED
    BY <2>1, <2>2
<1>7. b.ins # <<>>
  BY <1>5
<1> HIDE DEF a, b, c
<1>8. /\ Len(node.ins) = 6 /\ node.ins[1] = a.ins[1] /\ node.ins[2] = a.ins[2]
      /\ \A k \in DOMAIN node.ins :
           \/ \E m \in DOMAIN a.ins : node.ins[k] = a.ins[m]
           \/ \E m \in DOMAIN b.ins : node.ins[k] = b.ins[m]
  <2>1. 1 \in DOMAIN a.ins /\ 2 \in DOMAIN a.ins
    BY <1>2, <1>3
  <2> DEFINE t == a.ins \o Tail(b.ins)
  <2>2. /\ t \in Seq(Value) /\ Len(t) = Len(a.ins) + Len(b.ins) - 1
        /\ \A k \in DOMAIN a.ins : t[k] = a.ins[k]
        /\ \A k \in DOMAIN t : \/ k \in DOMAIN a.ins /\ t[k] = a.ins[k]
                               \/ \E m \in 2..Len(b.ins) : t[k] = b.ins[m]
    BY <1>2, <1>7, JoinedElements
  <2> HIDE DEF t
  <2>3. node.ins = t
    BY DEF t, a, b
  <2>4. Len(t) = 6 /\ t[1] = a.ins[1] /\ t[2] = a.ins[2]
    BY <1>3, <1>4, <2>1, <2>2
  <2>5. \A m \in 2..Len(b.ins) : m \in DOMAIN b.ins
    BY <1>2
  <2> QED
    BY <2>2, <2>3, <2>4, <2>5
<1>9. node.out = c.out
  BY DEF c
<1>10. Chained(a, b, c, node)
  BY <1>1, <1>5, <1>6, <1>8, <1>9 DEF Chained
<1>11. Described(node, known)
  <2>1. known[node.out] = "image"
    BY <1>3, <1>4, <1>5, <1>6, <1>9
  <2> QED
    BY <1>3, <1>8, <2>1, FusedConvDescribed
<1>12. node.op \notin {"Conv", "BatchNormalization"}
  OBVIOUS
<1> QED
  BY <1>6, <1>10, <1>11, <1>12, ChainReplaces DEF a, b, c

(* A graph whose values have one producer each, none of which reads its    *)
(* own output, and whose normalisations are given their scales.  Nothing   *)
(* checks it when a graph is built.                                        *)
WellMade(ns) == OneProducer(ns) /\ NoSelfRead(ns) /\ ScalesGiven(ns)

(* How many passes are left, and how many there are.                       *)
Left == Len(passes)
All == Len(Pipeline)

(* What the passes rely on and leave: from the first sort on there is no   *)
(* cycle, from the first inference on descriptions are consistent, and the *)
(* order is that of the producers where inference or the plan needs it.    *)
RunsInv ==
  /\ OneProducer(nodes) /\ ScalesGiven(nodes)
  /\ Left = All => NoSelfRead(nodes)
  /\ Left < All => Ranked(nodes)
  /\ (Left < All /\ Left >= All - 3) \/ Left <= 4 => InOrder(nodes)
  /\ Left < All - 1 => Consistent(nodes, known)
  /\ status = "failed" => Left \in {All, All - 1, 1}

FusionNames ==
  {"conv_batchnorm_relu_fusion", "add_relu_fusion", "gemm_gelu_fusion", "skip_layer_norm_fusion"}

(* How many passes are left when a pass runs.                              *)
LEMMA PassesLeft ==
  ASSUME GraphInv, NEW pass, Running(pass)
  PROVE  /\ All \in Nat /\ All >= 11
         /\ Left \in Nat /\ Left >= 1 /\ Left <= All
         /\ pass = "topological_sort" => Left = All \/ Left = 5
         /\ pass = "shape_inference" => Left = All - 1 \/ Left = 4
         /\ pass = "constant_folding" => Left = All - 2
         /\ pass \in FusionNames => Left > 5 /\ Left < All - 3
         /\ pass = "dead_node_elimination" => Left = All - 3 \/ Left = 2
         /\ pass = "flatten_gemm_normalization" => Left = 3
         /\ pass = "static_shape_validation" => Left = 1
<1>1. PICK k \in 1..(Len(Pipeline) + 1) : Remaining(k)
  BY DEF GraphInv, PassesInOrder
<1>2. /\ Len(passes) = Len(Pipeline) - k + 1 /\ k <= Len(Pipeline) /\ pass = Pipeline[k]
  BY <1>1, RemainingPasses DEF Running
<1>3. CASE EnableTransformerFusions
  <2>1. Len(Pipeline) = 13
    BY <1>3 DEF Pipeline
  <2>2. k \in 1..13
    BY <1>2, <2>1
  <2>3. /\ pass = "topological_sort" => k \in {1, 9}
        /\ pass = "shape_inference" => k \in {2, 10}
        /\ pass = "constant_folding" => k = 3
        /\ pass \in FusionNames => k \in {5, 6, 7, 8}
        /\ pass = "dead_node_elimination" => k \in {4, 12}
        /\ pass = "flatten_gemm_normalization" => k = 11
        /\ pass = "static_shape_validation" => k = 13
    BY <1>2, <1>3, <2>2 DEF Pipeline, FusionNames
  <2>4. Left = 13 - k + 1 /\ All = 13
    BY <1>2, <2>1 DEF Left, All
  <2> QED
    BY <2>2, <2>3, <2>4
<1>4. CASE ~EnableTransformerFusions
  <2>1. Len(Pipeline) = 11
    BY <1>4 DEF Pipeline
  <2>2. k \in 1..11
    BY <1>2, <2>1
  <2>3. /\ pass = "topological_sort" => k \in {1, 7}
        /\ pass = "shape_inference" => k \in {2, 8}
        /\ pass = "constant_folding" => k = 3
        /\ pass \in FusionNames => k \in {5, 6}
        /\ pass = "dead_node_elimination" => k \in {4, 10}
        /\ pass = "flatten_gemm_normalization" => k = 9
        /\ pass = "static_shape_validation" => k = 11
    BY <1>2, <1>4, <2>2 DEF Pipeline, FusionNames
  <2>4. Left = 11 - k + 1 /\ All = 11
    BY <1>2, <2>1 DEF Left, All
  <2> QED
    BY <2>2, <2>3, <2>4
<1> QED
  BY <1>3, <1>4

(* The pipeline does not change.                                           *)
LEMMA AllFixed == All' = All
BY DEF All, Pipeline

(* A pass that is over leaves one less.                                    *)
LEMMA OneLess ==
  ASSUME GraphInv, NEW pass, Running(pass), NextPass
  PROVE  Left' = Left - 1 /\ status' = "running"
BY PassesAdvance DEF GraphInv, Running, Left

(* No sorted list has a node that reads what it produces.                  *)
LEMMA SortedReads ==
  ASSUME GraphInv, RunsInv, Running("topological_sort")
  PROVE  NoSelfRead(nodes)
<1>1. nodes \in Seq(Node)
  BY DEF GraphInv, TypeOK
<1>2. All \in Nat /\ All >= 11 /\ Left \in Nat /\ (Left = All \/ Left = 5)
  BY PassesLeft
<1>3. CASE Left = All
  BY <1>3 DEF RunsInv
<1>4. CASE Left # All
  <2>1. Ranked(nodes)
    BY <1>2, <1>4 DEF RunsInv
  <2>2. PICK rank \in [Value -> Nat] : \A i \in DOMAIN nodes : Below(nodes[i], rank)
    BY <2>1 DEF Ranked
  <2>3. ASSUME NEW i \in DOMAIN nodes PROVE ~Reads(nodes, i, nodes[i].out)
    <3>1. nodes[i].out \in Value
      <4>1. nodes[i] \in Node
        BY <1>1
      <4> QED
        BY <4>1 DEF Node
    <3>2. rank[nodes[i].out] \in Nat
      BY <3>1
    <3> QED
      BY <2>2, <3>2 DEF Below, Reads
  <2> QED
    BY <2>3 DEF NoSelfRead
<1> QED
  BY <1>3, <1>4

(* Sorting orders the nodes; the second time it cannot fail.               *)
LEMMA SortRuns ==
  ASSUME GraphInv, RunsInv, TopologicalSort
  PROVE  RunsInv'
<1>1. nodes \in Seq(Node)
  BY DEF GraphInv, TypeOK
<1>2. Running("topological_sort") /\ known' = known
  BY DEF TopologicalSort
<1>3. All \in Nat /\ All >= 11 /\ Left \in Nat /\ (Left = All \/ Left = 5)
  BY <1>2, PassesLeft
<1>4. NoSelfRead(nodes)
  BY SortedReads DEF TopologicalSort
<1>5. CASE Len(KahnOrder(nodes)) = Len(nodes)
  <2>1. nodes' = [i \in DOMAIN KahnOrder(nodes) |-> nodes[KahnOrder(nodes)[i]]] /\ NextPass
    BY <1>5 DEF TopologicalSort
  <2>2. Left' = Left - 1 /\ status' = "running"
    BY <1>2, <2>1, OneLess
  <2>3. /\ OneProducer(nodes') /\ InOrder(nodes')
        /\ \A i \in DOMAIN nodes' : \E j \in DOMAIN nodes : nodes'[i] = nodes[j]
    <3>1. OneProducer(nodes)
      BY DEF RunsInv
    <3>2. nodes' = Sorted(nodes)
      BY <2>1 DEF Sorted
    <3> QED
      BY <1>1, <1>4, <1>5, <3>1, <3>2, SortedInOrder
  <2>4. nodes' \in Seq(Node)
    BY SortKeepsGraph DEF GraphInv, TypeOK
  <2>5. Ranked(nodes')
    BY <2>3, <2>4, InOrderRanked
  <2>6. ScalesGiven(nodes')
    BY <2>3 DEF RunsInv, ScalesGiven
  <2>7. Left' < All - 1 => Consistent(nodes', known')
    <3> SUFFICES ASSUME Left' < All - 1 PROVE Consistent(nodes', known')
      OBVIOUS
    <3>1. Left < All - 1
      BY <1>3, <2>2
    <3> QED
      BY <1>2, <2>3, <3>1 DEF RunsInv, Consistent
  <2>8. Left' # All
    BY <1>3, <2>2
  <2> QED
    BY <2>2, <2>3, <2>5, <2>6, <2>7, <2>8, AllFixed DEF RunsInv
<1>6. CASE Len(KahnOrder(nodes)) # Len(nodes)
  <2>1. nodes' = nodes /\ Left' = Left /\ status' = "failed"
    BY <1>6 DEF TopologicalSort, Fail, Left
  <2>2. Left = All
    <3>1. ~Ranked(nodes)
      BY <1>1, <1>6, RankedSorts DEF RunsInv
    <3> QED
      BY <1>3, <3>1 DEF RunsInv
  <2> QED
    BY <1>2, <2>1, <2>2, AllFixed DEF RunsInv
<1> QED
  BY <1>5, <1>6

(* Inference describes every value; the second time it finds them again.   *)
LEMMA InferenceRuns ==
  ASSUME GraphInv, RunsInv, InferShapes
  PROVE  RunsInv'
<1> DEFINE result == Inferred(nodes, known)
<1>1. nodes \in Seq(Node) /\ known \in [Value -> Kind]
  BY DEF GraphInv, TypeOK
<1>2. /\ Running("shape_inference") /\ nodes' = nodes /\ known' = result.known
      /\ (result.ok /\ NextPass) \/ (~result.ok /\ Fail)
  BY DEF InferShapes
<1>3. All \in Nat /\ All >= 11 /\ Left \in Nat /\ (Left = All - 1 \/ Left = 4)
  BY <1>2, PassesLeft
<1>4. InOrder(nodes) /\ OneProducer(nodes)
  BY <1>3 DEF RunsInv
<1>5. CASE Left = All - 1
  <2>1. CASE result.ok
    <3>1. Consistent(nodes', known')
      BY <1>1, <1>2, <1>4, <2>1, InferenceDescribes
    <3>2. Left' = All - 2 /\ status' = "running"
      BY <1>2, <1>3, <1>5, <2>1, OneLess
    <3>3. Left' # All /\ Left' # All - 1 /\ ~(Left' <= 4) /\ Left < All
      BY <1>3, <1>5, <3>2
    <3> HIDE DEF result
    <3> QED
      BY <1>2, <1>4, <3>1, <3>2, <3>3, AllFixed DEF RunsInv
  <2>2. CASE ~result.ok
    <3>1. Left' = Left /\ status' = "failed"
      BY <1>2, <2>2 DEF Fail, Left
    <3>2. Left # All /\ ~(Left < All - 1)
      BY <1>3, <1>5
    <3> HIDE DEF result
    <3> QED
      BY <1>2, <1>5, <3>1, <3>2, AllFixed DEF RunsInv
  <2> QED
    BY <2>1, <2>2
<1>6. CASE Left = 4
  <2>1. Consistent(nodes, known)
    BY <1>3, <1>6 DEF RunsInv
  <2>2. result = [ok |-> TRUE, known |-> known]
    BY <1>1, <2>1, StableInference
  <2>3. known' = known /\ NextPass
    BY <1>2, <2>2
  <2>4. Left' = 3 /\ status' = "running"
    BY <1>2, <1>6, <2>3, OneLess
  <2>5. Left' # All /\ Left < All
    BY <1>3, <1>6, <2>4
  <2> QED
    BY <1>2, <1>4, <2>1, <2>3, <2>4, <2>5, AllFixed DEF RunsInv
<1> QED
  BY <1>3, <1>5, <1>6

(* A step that leaves the descriptions and, of the nodes, what is relied   *)
(* on.                                                                     *)
LEMMA LatePass ==
  ASSUME GraphInv, RunsInv, NEW pass, Running(pass), known' = known,
         NextPass \/ UNCHANGED <<passes, status>>,
         Left < All - 1, Left # 5, Left # 1,
         OneProducer(nodes'), ScalesGiven(nodes'), Ranked(nodes'), Consistent(nodes', known),
         Left >= All - 3 \/ Left <= 4 => InOrder(nodes')
  PROVE  RunsInv'
<1>1. All \in Nat /\ All >= 11 /\ Left \in Nat /\ Left >= 1 /\ Left <= All
  BY PassesLeft
<1>2. /\ Left' < All - 1 /\ (Left' <= 4 => Left <= 4) /\ (Left' >= All - 3 => Left >= All - 3)
      /\ Left' \in Nat
      /\ status' = "running"
  <2>1. CASE NextPass
    <3>1. Left' = Left - 1 /\ status' = "running"
      BY <2>1, OneLess
    <3> QED
      BY <1>1, <3>1
  <2>2. CASE UNCHANGED <<passes, status>>
    <3>1. Left' = Left /\ status' = "running"
      BY <2>2 DEF Left, Running
    <3> QED
      BY <1>1, <3>1
  <2> QED
    BY <2>1, <2>2
<1>3. Left' # All /\ Left' # All - 1
  BY <1>1, <1>2
<1> QED
  BY <1>2, <1>3, AllFixed DEF RunsInv

(* A merge keeps what is relied on.                                        *)
LEMMA FusionRuns ==
  ASSUME GraphInv, RunsInv, NEW pass \in FusionNames, NEW pairs, NEW fused, NEW removed,
         FusionPass(pass, pairs, fused, removed),
         pairs \subseteq (DOMAIN nodes) \X (DOMAIN nodes),
         Consistent(nodes, known) =>
           \A p \in pairs : Replaces(nodes, p[1], fused[p], removed[p], known)
  PROVE  RunsInv'
<1>1. nodes \in Seq(Node)
  BY DEF GraphInv, TypeOK
<1>2. Running(pass) /\ known' = known /\ (NextPass \/ UNCHANGED <<passes, status>>)
  BY DEF FusionPass
<1>3. All \in Nat /\ Left \in Nat /\ Left > 5
      /\ Left < All - 3
  BY <1>2, PassesLeft
<1>4. OneProducer(nodes) /\ ScalesGiven(nodes) /\ Ranked(nodes) /\ Consistent(nodes, known)
  BY <1>3 DEF RunsInv
<1>5. OneProducer(nodes') /\ ScalesGiven(nodes') /\ Ranked(nodes') /\ Consistent(nodes', known)
  <2>1. CASE nodes' = nodes
    BY <1>4, <2>1
  <2>2. CASE \E p \in pairs : nodes' = RemoveNodes([nodes EXCEPT ![p[1]] = fused[p]], removed[p])
    <3>1. PICK p \in pairs : nodes' = RemoveNodes([nodes EXCEPT ![p[1]] = fused[p]], removed[p])
      BY <2>2
    <3>2. nodes' = MergedList(nodes, p[1], fused[p], removed[p]) /\ p[1] \in DOMAIN nodes
      BY <3>1 DEF MergedList
    <3>3. Replaces(nodes, p[1], fused[p], removed[p], known)
      BY <1>4
    <3> QED
      BY <1>1, <1>4, <3>2, <3>3, MergingKeeps
  <2> QED
    BY <2>1, <2>2 DEF FusionPass
<1>6. Left # 5 /\ Left # 1 /\ ~(Left <= 4) /\ ~(Left >= All - 3) /\ Left < All - 1
  BY <1>3
<1> QED
  BY <1>2, <1>3, <1>5, <1>6, LatePass

(* Constant folding keeps what is relied on.                               *)
LEMMA FoldingRuns ==
  ASSUME GraphInv, RunsInv, FoldConstants
  PROVE  RunsInv'
<1>1. Running("constant_folding") /\ NextPass /\ nodes' = nodes /\ known' = known
  BY DEF FoldConstants
<1>2. All \in Nat /\ All >= 11 /\ Left \in Nat /\ Left = All - 2
  BY <1>1, PassesLeft
<1>3. Left # 5 /\ Left # 1 /\ Left < All /\ Left < All - 1 /\ Left >= All - 3
  BY <1>2
<1>4. /\ OneProducer(nodes') /\ ScalesGiven(nodes') /\ Ranked(nodes') /\ Consistent(nodes', known)
      /\ InOrder(nodes')
  BY <1>1, <1>2, <1>3 DEF RunsInv
<1> QED
  BY <1>1, <1>2, <1>3, <1>4, LatePass

(* Removing dead nodes keeps what is relied on.                            *)
LEMMA EliminationRuns ==
  ASSUME GraphInv, RunsInv, EliminateDeadNodes
  PROVE  RunsInv'
<1> DEFINE dead == DeadNodes(nodes, outputs)
<1>1. /\ Running("dead_node_elimination") /\ NextPass /\ known' = known
      /\ nodes' = RemoveNodes(nodes, dead)
  BY DEF EliminateDeadNodes
<1> HIDE DEF dead
<1>2. nodes \in Seq(Node)
  BY DEF GraphInv, TypeOK
<1>3. All \in Nat /\ All >= 11 /\ Left \in Nat /\ (Left = All - 3 \/ Left = 2)
  BY <1>1, PassesLeft
<1>4. Left # 5 /\ Left # 1 /\ Left < All - 1 /\ Left < All /\ (Left >= All - 3 \/ Left <= 4)
  BY <1>3
<1>5. OneProducer(nodes) /\ ScalesGiven(nodes) /\ Ranked(nodes) /\ Consistent(nodes, known)
      /\ InOrder(nodes)
  BY <1>4 DEF RunsInv
<1>6. OneProducer(nodes') /\ InOrder(nodes')
  BY <1>1, <1>2, <1>5, RemovalKeepsOrder
<1>7. \A i \in DOMAIN nodes' : \E k \in DOMAIN nodes : nodes'[i] = nodes[k]
  BY <1>1, <1>2, RemovedNodes
<1>8. Consistent(nodes', known)
  BY <1>5, <1>7 DEF Consistent
<1>9. Ranked(nodes')
  BY <1>5, <1>7 DEF Ranked
<1>10. ScalesGiven(nodes')
  BY <1>5, <1>7 DEF ScalesGiven
<1> QED
  BY <1>1, <1>4, <1>5, <1>6, <1>8, <1>9, <1>10, LatePass

(* A matrix product becomes a Gemm in place.                               *)
LEMMA NormalizationRuns ==
  ASSUME GraphInv, RunsInv, Normalize
  PROVE  RunsInv'
<1> DEFINE new(i) == IF nodes[i].op = "MatMul" THEN [nodes[i] EXCEPT !.op = "Gemm"]
                     ELSE nodes[i]
<1>1. /\ Running("flatten_gemm_normalization") /\ NextPass /\ known' = known
      /\ nodes' = [i \in DOMAIN nodes |-> new(i)]
  BY DEF Normalize
<1>2. nodes \in Seq(Node) /\ known \in [Value -> Kind]
  BY DEF GraphInv, TypeOK
<1>3. ASSUME NEW i \in DOMAIN nodes
      PROVE  /\ new(i).ins = nodes[i].ins /\ new(i).out = nodes[i].out /\ new(i) \in Node
             /\ \/ new(i) = nodes[i]
                \/ nodes[i].op = "MatMul" /\ new(i).op = "Gemm"
  <2>1. nodes[i] \in Node /\ "Gemm" \in Op
    BY <1>2 DEF Op, GemmLike
  <2> QED
    BY <2>1 DEF Node
<1> HIDE DEF new
<1>4. /\ DOMAIN nodes' = DOMAIN nodes
      /\ \A i \in DOMAIN nodes :
           /\ nodes'[i].ins = nodes[i].ins /\ nodes'[i].out = nodes[i].out /\ nodes'[i] \in Node
           /\ nodes'[i] = nodes[i] \/ (nodes[i].op = "MatMul" /\ nodes'[i].op = "Gemm")
  BY <1>1, <1>3
<1>5. All \in Nat /\ All >= 11 /\ Left \in Nat /\ Left = 3
  BY <1>1, PassesLeft
<1>6. Left # 5 /\ Left # 1 /\ Left < All - 1 /\ Left < All /\ Left <= 4
  BY <1>5
<1>7. OneProducer(nodes) /\ ScalesGiven(nodes) /\ Ranked(nodes) /\ Consistent(nodes, known)
      /\ InOrder(nodes)
  BY <1>6 DEF RunsInv
<1>8. OneProducer(nodes')
  BY <1>4, <1>7 DEF OneProducer
<1>9. InOrder(nodes')
  BY <1>4, <1>7 DEF InOrder, Reads
<1>10. Ranked(nodes')
  BY <1>4, <1>7 DEF Ranked, Below
<1>11. ScalesGiven(nodes')
  <2> SUFFICES ASSUME NEW i \in DOMAIN nodes, NEW j \in DOMAIN nodes,
                      nodes'[i].op = "Conv", nodes'[j].op = "BatchNormalization",
                      NEW k \in 2..Len(nodes'[j].ins)
               PROVE  nodes'[j].ins[k] # nodes'[i].out
    BY <1>4 DEF ScalesGiven
  <2>1. nodes'[i] = nodes[i] /\ nodes'[j] = nodes[j]
    BY <1>4
  <2> QED
    BY <1>7, <2>1 DEF ScalesGiven
<1>12. Consistent(nodes', known)
  <2> SUFFICES ASSUME NEW i \in DOMAIN nodes PROVE Described(nodes'[i], known)
    BY <1>4 DEF Consistent
  <2>1. Described(nodes[i], known) /\ nodes[i] \in Node
    BY <1>2, <1>7 DEF Consistent
  <2>2. CASE nodes'[i] = nodes[i]
    BY <2>1, <2>2
  <2>3. CASE nodes[i].op = "MatMul" /\ nodes'[i].op = "Gemm"
    BY <1>2, <1>4, <2>1, <2>3, RenamedDescribed
  <2> QED
    BY <1>4, <2>2, <2>3
<1> QED
  BY <1>1, <1>6, <1>8, <1>9, <1>10, <1>11, <1>12, LatePass

(* The last pass changes nothing.                                          *)
LEMMA ValidationRuns ==
  ASSUME GraphInv, RunsInv, ValidateShapes
  PROVE  RunsInv'
<1>1. /\ Running("static_shape_validation") /\ UNCHANGED <<nodes, known>>
      /\ NextPass \/ Fail
  BY DEF ValidateShapes
<1>2. All \in Nat /\ All >= 11 /\ Left = 1
  BY <1>1, PassesLeft
<1>3. CASE NextPass
  <2>1. Left' = 0 /\ status' = "running"
    BY <1>1, <1>2, <1>3, OneLess
  <2>2. Left' # All /\ Left < All /\ Left < All - 1 /\ Left <= 4
    BY <1>2, <2>1
  <2> QED
    BY <1>1, <2>1, <2>2, AllFixed DEF RunsInv
<1>4. CASE Fail
  <2>1. Left' = Left
    BY <1>4 DEF Fail, Left
  <2> QED
    BY <1>1, <1>2, <2>1, AllFixed DEF RunsInv
<1> QED
  BY <1>1, <1>3, <1>4

(* The end of the pipeline changes nothing.                                *)
LEMMA FinishRuns ==
  ASSUME RunsInv, Finish
  PROVE  RunsInv'
<1>1. nodes' = nodes /\ known' = known /\ Left' = Left /\ status' = "ok"
  BY DEF Finish, Left
<1> QED
  BY <1>1, AllFixed DEF RunsInv

(* Nodes i and j, a convolution and a normalisation, merge into node, which*)
(* writes what node l does, and the nodes removed go.                      *)
ConvMerges(i, j, l, node, removed) ==
  /\ i \in DOMAIN nodes /\ j \in DOMAIN nodes /\ OnlyReader(i, j)
  /\ nodes[i].op = "Conv" /\ nodes[j].op = "BatchNormalization"
  /\ l = IF FollowingRelu(j) = {} THEN j ELSE CHOOSE relu \in FollowingRelu(j) : TRUE
  /\ node = [op |-> FusedConvOp(j), ins |-> nodes[i].ins \o Tail(nodes[j].ins),
             out |-> nodes[l].out]
  /\ removed = {j} \cup FollowingRelu(j)

(* What a convolution and a normalisation merge into, with the activation  *)
(* behind them or without.                                                 *)
LEMMA ConvPairReplaces ==
  ASSUME nodes \in Seq(Node), known \in [Value -> Kind], ScalesGiven(nodes),
         Consistent(nodes, known), NEW i, NEW j, NEW l, NEW node, NEW removed,
         ConvMerges(i, j, l, node, removed)
  PROVE  /\ l \in DOMAIN nodes /\ l \in removed /\ (l = j \/ l \in FollowingRelu(j))
         /\ \/ l = j /\ removed = {j} /\ FusedConvOp(j) = "FusedConvBatchNorm"
            \/ /\ nodes[l].op = "Relu" /\ OnlyReader(j, l) /\ removed = {j, l}
               /\ FusedConvOp(j) = "FusedConvBatchNormRelu"
         /\ node \in Node /\ Replaces(nodes, i, node, removed, known)
<1> USE DEF ConvMerges
<1>1. l \in DOMAIN nodes /\ l \in removed /\ (l = j \/ l \in FollowingRelu(j))
      /\ \/ l = j /\ removed = {j} /\ FusedConvOp(j) = "FusedConvBatchNorm"
         \/ /\ nodes[l].op = "Relu" /\ OnlyReader(j, l) /\ removed = {j, l}
            /\ FusedConvOp(j) = "FusedConvBatchNormRelu"
  <2>1. CASE FollowingRelu(j) = {}
    BY <2>1 DEF FusedConvOp
  <2>2. CASE FollowingRelu(j) # {}
    <3>1. l \in FollowingRelu(j)
      BY <2>2
    <3>2. l \in DOMAIN nodes /\ nodes[l].op = "Relu" /\ OnlyReader(j, l)
      BY <3>1 DEF FollowingRelu
    <3>3. \A r \in FollowingRelu(j) : r = l
      BY <3>2 DEF FollowingRelu, OnlyReader
    <3>4. FollowingRelu(j) = {l}
      BY <3>1, <3>3
    <3> QED
      BY <2>2, <3>1, <3>2, <3>4 DEF FusedConvOp
  <2> QED
    BY <2>1, <2>2
<1>2. node.op = FusedConvOp(j) /\ node.ins = nodes[i].ins \o Tail(nodes[j].ins)
      /\ node.out = nodes[l].out
      /\ node = [op |-> node.op, ins |-> node.ins, out |-> node.out]
  OBVIOUS
<1>3. node.op \in {"FusedConvBatchNorm", "FusedConvBatchNormRelu"} /\ node.op \in Op
  BY <1>2 DEF FusedConvOp, Op, ConvLike
<1>4. node \in Node
  <2>1. nodes[i].ins \o Tail(nodes[j].ins) \in Seq(Value)
    BY PairsRead
  <2>2. nodes[l] \in Node
    BY <1>1
  <2>3. nodes[l].out \in Value
    BY <2>2 DEF Node
  <2> QED
    BY <1>2, <1>3, <2>1, <2>3 DEF Node
<1>5. Replaces(nodes, i, node, removed, known)
  BY <1>1, <1>2, <1>3, <1>4, FusedConvReplaces
<1> QED
  BY <1>1, <1>4, <1>5

(* Conv and normalisation.                                                 *)
LEMMA ConvFusionRuns ==
  ASSUME GraphInv, RunsInv, FuseConvBatchNormRelu
  PROVE  RunsInv'
<1> DEFINE pairs == Pairs("Conv", "BatchNormalization")
           removed == [p \in pairs |-> {p[2]} \cup FollowingRelu(p[2])]
           last(p) == IF FollowingRelu(p[2]) = {} THEN p[2]
                      ELSE CHOOSE relu \in FollowingRelu(p[2]) : TRUE
           fused == [p \in pairs |->
                       [op |-> FusedConvOp(p[2]),
                        ins |-> nodes[p[1]].ins \o Tail(nodes[p[2]].ins),
                        out |-> nodes[last(p)].out]]
<1>1. FusionPass("conv_batchnorm_relu_fusion", pairs, fused, removed)
  BY DEF FuseConvBatchNormRelu
<1>2. nodes \in Seq(Node) /\ known \in [Value -> Kind] /\ ScalesGiven(nodes)
  BY DEF GraphInv, TypeOK, RunsInv
<1>3. ASSUME Consistent(nodes, known), NEW p \in pairs
      PROVE  Replaces(nodes, p[1], fused[p], removed[p], known)
  <2> DEFINE i == p[1]
             j == p[2]
             l == last(p)
             node == fused[p]
             gone == removed[p]
  <2>1. /\ i \in DOMAIN nodes /\ j \in DOMAIN nodes /\ OnlyReader(i, j)
        /\ nodes[i].op = "Conv" /\ nodes[j].op = "BatchNormalization"
    BY DEF Pairs
  <2>2. ConvMerges(i, j, l, node, gone)
    BY <2>1 DEF ConvMerges
  <2> HIDE DEF i, j, l, node, gone
  <2>3. Replaces(nodes, i, node, gone, known)
    BY <1>2, <1>3, <2>2, ConvPairReplaces
  <2> QED
    BY <2>3 DEF i, node, gone
<1>4. pairs \subseteq (DOMAIN nodes) \X (DOMAIN nodes)
  BY DEF Pairs
<1> HIDE DEF pairs, fused, removed
<1> QED
  BY <1>1, <1>3, <1>4, FusionRuns DEF FusionNames

(* Add and Relu.                                                           *)
LEMMA AddFusionRuns ==
  ASSUME GraphInv, RunsInv, FuseAddRelu
  PROVE  RunsInv'
<1> DEFINE pairs == Pairs("Add", "Relu")
           fused == [p \in pairs |-> Merged("AddRelu", p[1], p[2])]
           removed == [p \in pairs |-> {p[2]}]
<1>1. FusionPass("add_relu_fusion", pairs, fused, removed)
  BY DEF FuseAddRelu
<1>2. nodes \in Seq(Node) /\ known \in [Value -> Kind] /\ "AddRelu" \in Op
  BY DEF GraphInv, TypeOK, Op, Elementwise
<1>3. pairs \subseteq (DOMAIN nodes) \X (DOMAIN nodes)
  BY DEF Pairs
<1>4. \A p \in pairs : OnlyReader(p[1], p[2]) /\ nodes[p[1]].op = "Add" /\ nodes[p[2]].op = "Relu"
  BY DEF Pairs
<1>5. ASSUME Consistent(nodes, known), NEW p \in pairs
      PROVE  Replaces(nodes, p[1], Merged("AddRelu", p[1], p[2]), {p[2]}, known)
  BY <1>2, <1>3, <1>4, <1>5, MergedReplaces
<1>6. \A p \in pairs : fused[p] = Merged("AddRelu", p[1], p[2]) /\ removed[p] = {p[2]}
  OBVIOUS
<1> HIDE DEF pairs, fused, removed
<1> QED
  BY <1>1, <1>3, <1>5, <1>6, FusionRuns DEF FusionNames

(* Gemm and Gelu.                                                          *)
LEMMA GemmFusionRuns ==
  ASSUME GraphInv, RunsInv, FuseGemmGelu
  PROVE  RunsInv'
<1> DEFINE pairs == Unobserved(Pairs("Gemm", "Gelu"))
           fused == [p \in pairs |-> Merged("GemmGelu", p[1], p[2])]
           removed == [p \in pairs |-> {p[2]}]
<1>1. FusionPass("gemm_gelu_fusion", pairs, fused, removed)
  BY DEF FuseGemmGelu
<1>2. nodes \in Seq(Node) /\ known \in [Value -> Kind] /\ "GemmGelu" \in Op
  BY DEF GraphInv, TypeOK, Op, GemmLike
<1>3. pairs \subseteq (DOMAIN nodes) \X (DOMAIN nodes)
  BY DEF Pairs, Unobserved
<1>4. \A p \in pairs : OnlyReader(p[1], p[2]) /\ nodes[p[1]].op = "Gemm" /\ nodes[p[2]].op = "Gelu"
  BY DEF Pairs, Unobserved
<1>5. ASSUME Consistent(nodes, known), NEW p \in pairs
      PROVE  Replaces(nodes, p[1], Merged("GemmGelu", p[1], p[2]), {p[2]}, known)
  BY <1>2, <1>3, <1>4, <1>5, MergedReplaces
<1>6. \A p \in pairs : fused[p] = Merged("GemmGelu", p[1], p[2]) /\ removed[p] = {p[2]}
  OBVIOUS
<1> HIDE DEF pairs, fused, removed
<1> QED
  BY <1>1, <1>3, <1>5, <1>6, FusionRuns DEF FusionNames

(* Add and layer normalisation.                                            *)
LEMMA NormFusionRuns ==
  ASSUME GraphInv, RunsInv, FuseSkipLayerNormalization
  PROVE  RunsInv'
<1> DEFINE pairs == {p \in Unobserved(Pairs("Add", "LayerNormalization")) :
                       /\ Len(nodes[p[2]].ins) = 3
                       /\ nodes[p[2]].ins[1] = nodes[p[1]].out}
           fused == [p \in pairs |-> SkipLayerNormalization(p[1], p[2])]
           removed == [p \in pairs |-> {p[2]}]
<1>1. FusionPass("skip_layer_norm_fusion", pairs, fused, removed)
  BY DEF FuseSkipLayerNormalization
<1>2. nodes \in Seq(Node) /\ known \in [Value -> Kind]
  BY DEF GraphInv, TypeOK
<1>3. pairs \subseteq (DOMAIN nodes) \X (DOMAIN nodes)
  BY DEF Pairs, Unobserved
<1>4. \A p \in pairs : /\ OnlyReader(p[1], p[2]) /\ nodes[p[1]].op = "Add"
                       /\ nodes[p[2]].op = "LayerNormalization"
                       /\ Len(nodes[p[2]].ins) = 3 /\ nodes[p[2]].ins[1] = nodes[p[1]].out
  BY DEF Pairs, Unobserved
<1>5. ASSUME Consistent(nodes, known), NEW p \in pairs
      PROVE  Replaces(nodes, p[1], SkipLayerNormalization(p[1], p[2]), {p[2]}, known)
  BY <1>2, <1>3, <1>4, <1>5, SkipNormReplaces
<1>6. \A p \in pairs : fused[p] = SkipLayerNormalization(p[1], p[2]) /\ removed[p] = {p[2]}
  OBVIOUS
<1> HIDE DEF pairs, fused, removed
<1> QED
  BY <1>1, <1>3, <1>5, <1>6, FusionRuns DEF FusionNames

(* Every step of the passes keeps what they rely on.                       *)
LEMMA PassStepRuns ==
  ASSUME GraphInv, RunsInv, PassStep
  PROVE  RunsInv'
BY SortRuns, InferenceRuns, FoldingRuns, EliminationRuns, ConvFusionRuns, AddFusionRuns,
   GemmFusionRuns, NormFusionRuns, NormalizationRuns, ValidationRuns, FinishRuns DEF PassStep

(* What is relied on holds of a well-made graph before the first pass.     *)
LEMMA RunsStart ==
  ASSUME WellMade(nodes), passes = Pipeline, status = "running"
  PROVE  RunsInv
<1>1. Left = All
  BY DEF Left, All
<1>2. All \in Nat /\ All >= 11
  <2>1. CASE EnableTransformerFusions
    BY <2>1 DEF All, Pipeline
  <2>2. CASE ~EnableTransformerFusions
    BY <2>2 DEF All, Pipeline
  <2> QED
    BY <2>1, <2>2
<1>3. Left # All - 1 /\ ~(Left <= 4) /\ ~(Left < All) /\ ~(Left < All - 1)
  BY <1>1, <1>2
<1> QED
  BY <1>3 DEF RunsInv, WellMade

(* The passes' end, once they are "ok".                                    *)
PassesDone == status = "ok" => passes = <<>>

(* What is relied on implies that the optimised graph runs.                *)
LEMMA RunsImplied ==
  ASSUME GraphInv, RunsInv, PassesDone
  PROVE  OptimizedGraphRuns
<1>1. nodes \in Seq(Node) /\ known \in [Value -> Kind]
  BY DEF GraphInv, TypeOK
<1>2. ASSUME status = "ok"
      PROVE  /\ \A i \in DOMAIN nodes : \A d \in Dependencies(nodes, i) : d < i
             /\ Inferred(nodes, known) = [ok |-> TRUE, known |-> known]
  <2>1. Left = 0
    BY <1>2 DEF PassesDone, Left
  <2>2. All \in Nat /\ All >= 11
    <3>1. CASE EnableTransformerFusions
      BY <3>1 DEF All, Pipeline
    <3>2. CASE ~EnableTransformerFusions
      BY <3>2 DEF All, Pipeline
    <3> QED
      BY <3>1, <3>2
  <2>3. Left <= 4 /\ Left < All - 1
    BY <2>1, <2>2
  <2>4. InOrder(nodes) /\ OneProducer(nodes) /\ Consistent(nodes, known)
    BY <2>3 DEF RunsInv
  <2> QED
    BY <1>1, <2>4, InOrderWaits, StableInference
<1>3. status = "failed" => Len(passes) \in {Len(Pipeline), Len(Pipeline) - 1, 1}
  BY DEF RunsInv, Left, All
<1> QED
  BY <1>2, <1>3 DEF OptimizedGraphRuns

(* The passes end when none is left.                                       *)
LEMMA PassStepDone ==
  ASSUME PassesDone, PassStep
  PROVE  PassesDone'
BY DEF PassStep, PassesDone, TopologicalSort, InferShapes, FoldConstants, EliminateDeadNodes,
       FuseConvBatchNormRelu, FuseAddRelu, FuseGemmGelu, FuseSkipLayerNormalization, FusionPass,
       Normalize, ValidateShapes, Finish, Running, NextPass, Fail

(* Of a well-made graph the passes leave one that a plan can be made of,   *)
(* in order and with descriptions every later inference finds again; what  *)
(* the fusions make of a graph is never rejected.                          *)
THEOREM OptimizedGraphsRun ==
  ASSUME \A g \in Graphs : WellMade(g.nodes)
  PROVE  Spec => []OptimizedGraphRuns
<1> DEFINE Inv == GraphInv /\ RunsInv /\ PassesDone
<1>1. Init => Inv
  <2> SUFFICES ASSUME Init PROVE Inv
    OBVIOUS
  <2>1. PICK g \in Graphs : nodes = g.nodes /\ outputs = g.outputs /\ known = g.known
    BY DEF Init
  <2>2. /\ g.nodes \in Seq(Node) /\ g.outputs \subseteq Value /\ g.known \in [Value -> Kind]
        /\ WellMade(g.nodes)
    BY <2>1, GraphAssumption
  <2>3. GraphInv /\ RunsInv
    BY <2>1, <2>2, GraphStart, RunsStart DEF Init
  <2> QED
    BY <2>3 DEF Init, PassesDone
<1>2. Inv /\ [Next]_vars => Inv'
  <2> SUFFICES ASSUME Inv, [Next]_vars PROVE Inv'
    OBVIOUS
  <2>1. CASE PassStep
    BY <2>1, PassStepKeepsGraph, PassStepRuns, PassStepDone
  <2>2. CASE UNCHANGED vars
    <3>1. GraphInv'
      BY <2>2 DEF vars, GraphInv, TypeOK, PassesInOrder, Remaining, NodesWellFormed, WellFormed,
                  Pipeline
    <3>2. nodes' = nodes /\ known' = known /\ Left' = Left /\ status' = status /\ passes' = passes
      BY <2>2 DEF vars, Left
    <3>3. RunsInv'
      BY <3>2, AllFixed DEF RunsInv
    <3> QED
      BY <3>1, <3>2, <3>3 DEF PassesDone
  <2> QED
    BY <2>1, <2>2 DEF Next, Stopped
<1>3. Inv => OptimizedGraphRuns
  BY RunsImplied
<1> QED
  BY <1>1, <1>2, <1>3, PTL DEF Spec

(* What the values stand for before any node is run, and what they are     *)
(* computed as one node further.                                           *)
Leaves == [v \in Value |-> <<"value", v>>]

Level(ns, below) ==
  [v \in Value |-> IF Producers(ns, v) = {} THEN <<"value", v>>
                   ELSE NodeTerm(ns[Producer(ns, v)], below)]

Stacked(ns, f, n) ==
  f = [depth \in 0..n |-> IF depth = 0 THEN Leaves ELSE Level(ns, f[depth - 1])]

(* The levels up to any depth are a function, though of no given range.    *)
LEMMA LevelsExist ==
  ASSUME NEW ns
  PROVE  \A n \in Nat : \E f : Stacked(ns, f, n)
<1> DEFINE S == {n \in Nat : \E f : Stacked(ns, f, n)}
<1>1. 0 \in S
  <2> DEFINE f == [depth \in 0..0 |-> Leaves]
  <2>1. f = [depth \in 0..0 |-> IF depth = 0 THEN Leaves ELSE Level(ns, f[depth - 1])]
    OBVIOUS
  <2> HIDE DEF f
  <2>2. Stacked(ns, f, 0)
    BY <2>1 DEF Stacked
  <2> QED
    BY <2>2
<1>2. ASSUME NEW n \in Nat, n \in S PROVE n + 1 \in S
  <2>1. PICK f : Stacked(ns, f, n)
    BY <1>2
  <2> DEFINE top == Level(ns, f[n])
             g == [depth \in 0..(n + 1) |-> IF depth = n + 1 THEN top ELSE f[depth]]
             step(depth) == IF depth = 0 THEN Leaves ELSE Level(ns, g[depth - 1])
  <2>2. ASSUME NEW depth \in 0..(n + 1) PROVE g[depth] = step(depth)
    <3>1. CASE depth = n + 1
      <4>1. g[depth] = top /\ depth # 0 /\ depth - 1 = n /\ n \in 0..(n + 1) /\ n # n + 1
        BY <3>1
      <4>2. g[n] = f[n]
        BY <4>1
      <4> HIDE DEF g
      <4> QED
        BY <4>1, <4>2
    <3>2. CASE depth # n + 1
      <4>1. depth \in 0..n /\ g[depth] = f[depth]
        BY <3>2
      <4>2. f[depth] = IF depth = 0 THEN Leaves ELSE Level(ns, f[depth - 1])
        BY <2>1, <4>1 DEF Stacked
      <4>3. depth # 0 => g[depth - 1] = f[depth - 1]
        BY <4>1
      <4> HIDE DEF g
      <4> QED
        BY <4>1, <4>2, <4>3
    <3> QED
      BY <3>1, <3>2
  <2>3. g = [depth \in 0..(n + 1) |-> g[depth]]
    OBVIOUS
  <2> HIDE DEF g
  <2>4. Stacked(ns, g, n + 1)
    BY <2>2, <2>3 DEF Stacked
  <2> QED
    BY <2>4
<1> HIDE DEF S
<1>3. Nat \subseteq S
  BY <1>1, <1>2, SetInduction
<1> QED
  BY <1>3 DEF S

(* Meaning is the highest of the levels its recursion defines.             *)
LEMMA MeaningStacked ==
  ASSUME NEW ns, Len(ns) \in Nat
  PROVE  \E f : Stacked(ns, f, Len(ns)) /\ Meaning(ns) = f[Len(ns)]
<1> DEFINE n == Len(ns)
           Equation(f) ==
             f = [depth \in 0..n |->
                    [v \in Value |->
                       IF depth = 0 \/ Producers(ns, v) = {} THEN <<"value", v>>
                       ELSE NodeTerm(ns[Producer(ns, v)], f[depth - 1])]]
<1>1. ASSUME NEW f PROVE Equation(f) <=> Stacked(ns, f, n)
  <2> DEFINE one(depth) ==
               [v \in Value |->
                  IF depth = 0 \/ Producers(ns, v) = {} THEN <<"value", v>>
                  ELSE NodeTerm(ns[Producer(ns, v)], f[depth - 1])]
             two(depth) == IF depth = 0 THEN Leaves ELSE Level(ns, f[depth - 1])
  <2>1. ASSUME NEW depth \in 0..n PROVE one(depth) = two(depth)
    <3>1. CASE depth = 0
      BY <3>1 DEF Leaves
    <3>2. CASE depth # 0
      BY <3>2 DEF Level
    <3> QED
      BY <3>1, <3>2
  <2>2. [depth \in 0..n |-> one(depth)] = [depth \in 0..n |-> two(depth)]
    <3> HIDE DEF one, two
    <3> QED
      BY <2>1
  <2> QED
    BY <2>2 DEF Stacked
<1> DEFINE behind == CHOOSE f : Equation(f)
<1>2. Meaning(ns) = behind[n]
  BY DEF Meaning
<1>3. \E f : Equation(f)
  <2> HIDE DEF Equation
  <2> QED
    BY <1>1, LevelsExist
<1>4. Equation(behind)
  <2> HIDE DEF Equation
  <2> QED
    BY <1>3
<1>5. Stacked(ns, behind, n)
  BY <1>1, <1>4
<1> HIDE DEF behind
<1> QED
  BY <1>2, <1>5

(* m says what every value is computed as.                                 *)
Solves(ns, m) ==
  \A v \in Value :
    m[v] = IF Producers(ns, v) = {} THEN <<"value", v>> ELSE NodeTerm(ns[Producer(ns, v)], m)

(* A node's term depends on its inputs only.                               *)
LEMMA SameInputs ==
  ASSUME NEW node, NEW a, NEW b, \A k \in DOMAIN node.ins : a[node.ins[k]] = b[node.ins[k]]
  PROVE  NodeTerm(node, a) = NodeTerm(node, b)
<1>1. [k \in DOMAIN node.ins |-> a[node.ins[k]]] = [k \in DOMAIN node.ins |-> b[node.ins[k]]]
  OBVIOUS
<1> QED
  BY <1>1 DEF NodeTerm

(* The producer of a value that has one.                                   *)
LEMMA ProducerIs ==
  ASSUME NEW ns \in Seq(Node), OneProducer(ns), NEW i \in DOMAIN ns
  PROVE  i \in Producers(ns, ns[i].out) /\ Producer(ns, ns[i].out) = i
<1>1. Producers(ns, ns[i].out) = {i}
  BY DEF Producers, OneProducer
<1>2. i >= i
  OBVIOUS
<1> QED
  BY <1>1, <1>2 DEF Producer

(* A value is produced by its producer.                                    *)
LEMMA ProducerMakes ==
  ASSUME NEW ns \in Seq(Node), OneProducer(ns), NEW v, Producers(ns, v) # {}
  PROVE  Producer(ns, v) \in DOMAIN ns /\ ns[Producer(ns, v)].out = v
<1>1. PICK i \in DOMAIN ns : ns[i].out = v
  BY DEF Producers
<1> QED
  BY <1>1, ProducerIs

(* Ranks no higher than there are nodes, and above 0 if there is one.      *)
RankedBelow(ns, rank, n) ==
  /\ rank \in [Value -> 0..n]
  /\ \A i \in DOMAIN ns : rank[ns[i].out] # 0 /\ Below(ns[i], rank)

(* How many nodes compute values of no higher rank is a rank itself.       *)
LEMMA FewRanks ==
  ASSUME NEW ns \in Seq(Node), Ranked(ns)
  PROVE  \E rank : RankedBelow(ns, rank, Len(ns))
<1>1. PICK r \in [Value -> Nat] : \A i \in DOMAIN ns : Below(ns[i], r)
  BY DEF Ranked
<1> DEFINE n == Len(ns)
           UpTo(v) == {i \in 1..n : r[ns[i].out] <= r[v]}
           rank == [v \in Value |-> Cardinality(UpTo(v))]
<1>2. n \in Nat /\ DOMAIN ns = 1..n
  OBVIOUS
<1>3. IsFiniteSet(1..n) /\ Cardinality(1..n) = n
  <2>1. Cardinality(1..n) = IF 1 > n THEN 0 ELSE n - 1 + 1
    BY <1>2, FS_Interval
  <2> QED
    BY <1>2, <2>1, FS_Interval
<1>4. ASSUME NEW v \in Value PROVE IsFiniteSet(UpTo(v)) /\ Cardinality(UpTo(v)) \in 0..n
  <2>1. UpTo(v) \subseteq 1..n
    OBVIOUS
  <2> HIDE DEF UpTo
  <2>2. IsFiniteSet(UpTo(v)) /\ Cardinality(UpTo(v)) <= n /\ Cardinality(UpTo(v)) \in Nat
    BY <1>3, <2>1, FS_Subset, FS_CardinalityType
  <2> QED
    BY <1>2, <2>2
<1>5. \A i \in DOMAIN ns : /\ ns[i].out \in Value /\ r[ns[i].out] \in Nat
                           /\ \A k \in DOMAIN ns[i].ins : ns[i].ins[k] \in Value
  <2> SUFFICES ASSUME NEW i \in DOMAIN ns
               PROVE  /\ ns[i].out \in Value /\ r[ns[i].out] \in Nat
                      /\ \A k \in DOMAIN ns[i].ins : ns[i].ins[k] \in Value
    OBVIOUS
  <2>1. ns[i] \in Node
    OBVIOUS
  <2> QED
    BY <2>1 DEF Node
<1>6. ASSUME NEW i \in DOMAIN ns PROVE rank[ns[i].out] # 0
  <2>1. i \in UpTo(ns[i].out) /\ ns[i].out \in Value
    BY <1>2, <1>5
  <2> HIDE DEF UpTo
  <2>2. Cardinality(UpTo(ns[i].out)) # 0
    BY <1>4, <2>1, FS_EmptySet
  <2> QED
    BY <2>1, <2>2
<1>7. ASSUME NEW i \in DOMAIN ns, NEW k \in DOMAIN ns[i].ins
      PROVE  rank[ns[i].ins[k]] < rank[ns[i].out]
  <2> DEFINE u == ns[i].ins[k]
             v == ns[i].out
  <2>1. u \in Value /\ v \in Value /\ r[u] \in Nat /\ r[v] \in Nat /\ r[u] < r[v]
    BY <1>1, <1>5 DEF Below
  <2>2. UpTo(u) \subseteq UpTo(v)
    BY <1>2, <1>5, <2>1
  <2>3. i \in UpTo(v) /\ i \notin UpTo(u)
    BY <1>2, <1>5, <2>1
  <2> HIDE DEF UpTo, u, v
  <2>4. UpTo(u) # UpTo(v)
    BY <2>3
  <2>5. Cardinality(UpTo(u)) < Cardinality(UpTo(v))
    <3>1. /\ Cardinality(UpTo(u)) \in Nat /\ Cardinality(UpTo(v)) \in Nat
          /\ Cardinality(UpTo(u)) <= Cardinality(UpTo(v))
      BY <1>4, <2>1, <2>2, FS_Subset
    <3>2. Cardinality(UpTo(u)) # Cardinality(UpTo(v))
      BY <1>4, <2>1, <2>2, <2>4, FS_Subset
    <3> QED
      BY <3>1, <3>2
  <2> QED
    BY <2>1, <2>5 DEF u, v
<1>8. rank \in [Value -> 0..n]
  <2> HIDE DEF UpTo
  <2> QED
    BY <1>4
<1> HIDE DEF rank
<1> QED
  BY <1>6, <1>7, <1>8 DEF RankedBelow, Below

(* Above a value's rank the levels agree on it.                            *)
LEMMA LevelsAgree ==
  ASSUME NEW ns \in Seq(Node), OneProducer(ns), NEW rank, RankedBelow(ns, rank, Len(ns)),
         NEW f, Stacked(ns, f, Len(ns))
  PROVE  \A d \in 0..Len(ns) : \A v \in Value :
           rank[v] <= d => f[Len(ns)][v] = f[d][v]
<1> DEFINE n == Len(ns)
           Agree(d) == \A e \in d..n : \A v \in Value : rank[v] <= d => f[e][v] = f[d][v]
           S == {d \in Nat : d <= n => Agree(d)}
<1>1. n \in Nat /\ \A v \in Value : rank[v] \in 0..n
  BY DEF RankedBelow
<1>2. ASSUME NEW e \in 0..n, NEW v \in Value
      PROVE  f[e][v] = IF e = 0 \/ Producers(ns, v) = {} THEN <<"value", v>>
                       ELSE NodeTerm(ns[Producer(ns, v)], f[e - 1])
  <2>1. f[e] = IF e = 0 THEN Leaves ELSE Level(ns, f[e - 1])
    BY DEF Stacked
  <2> QED
    BY <2>1 DEF Leaves, Level
<1>3. ASSUME NEW v \in Value, Producers(ns, v) # {}
      PROVE  /\ rank[v] # 0
             /\ \A k \in DOMAIN ns[Producer(ns, v)].ins :
                  /\ ns[Producer(ns, v)].ins[k] \in Value
                  /\ rank[ns[Producer(ns, v)].ins[k]] < rank[v]
  <2> DEFINE i == Producer(ns, v)
  <2>1. i \in DOMAIN ns /\ ns[i].out = v
    BY <1>3, ProducerMakes
  <2> HIDE DEF i
  <2>2. ns[i] \in Node
    BY <2>1
  <2>3. \A k \in DOMAIN ns[i].ins : ns[i].ins[k] \in Value
    BY <2>2 DEF Node
  <2>4. rank[v] # 0 /\ \A k \in DOMAIN ns[i].ins : rank[ns[i].ins[k]] < rank[v]
    BY <2>1 DEF RankedBelow, Below
  <2> QED
    BY <2>3, <2>4 DEF i
<1>4. 0 \in S
  <2>1. ASSUME NEW e \in 0..n, NEW v \in Value, rank[v] <= 0 PROVE f[e][v] = f[0][v]
    <3>1. Producers(ns, v) = {}
      BY <1>1, <1>3, <2>1
    <3>2. 0 \in 0..n
      BY <1>1
    <3> QED
      BY <1>2, <3>1, <3>2
  <2> QED
    BY <2>1
<1>5. ASSUME NEW d \in Nat, d \in S PROVE d + 1 \in S
  <2> SUFFICES ASSUME d + 1 <= n, NEW e \in (d + 1)..n, NEW v \in Value, rank[v] <= d + 1
               PROVE  f[e][v] = f[d + 1][v]
    OBVIOUS
  <2>1. Agree(d) /\ d + 1 \in 0..n /\ e \in 0..n /\ e - 1 \in d..n /\ e # 0 /\ d + 1 # 0
        /\ (d + 1) - 1 = d
    BY <1>1, <1>5
  <2>2. CASE Producers(ns, v) = {}
    BY <1>2, <2>1, <2>2
  <2>3. CASE Producers(ns, v) # {}
    <3> DEFINE node == ns[Producer(ns, v)]
    <3>1. f[e][v] = NodeTerm(node, f[e - 1]) /\ f[d + 1][v] = NodeTerm(node, f[d])
      BY <1>2, <2>1, <2>3
    <3>2. ASSUME NEW k \in DOMAIN node.ins PROVE f[e - 1][node.ins[k]] = f[d][node.ins[k]]
      <4>1. node.ins[k] \in Value /\ rank[node.ins[k]] < rank[v]
        BY <1>3, <2>3
      <4> HIDE DEF node
      <4>2. rank[node.ins[k]] <= d
        BY <1>1, <4>1
      <4> QED
        BY <2>1, <4>1, <4>2
    <3> HIDE DEF node
    <3> QED
      BY <3>1, <3>2, SameInputs
  <2> QED
    BY <2>2, <2>3
<1> HIDE DEF S
<1>6. Nat \subseteq S
  BY <1>4, <1>5, SetInduction
<1> HIDE DEF Agree
<1>7. ASSUME NEW d \in 0..n PROVE Agree(d)
  <2>1. d \in S /\ d <= n
    BY <1>1, <1>6
  <2> QED
    BY <2>1 DEF S
<1> QED
  BY <1>1, <1>7 DEF Agree

(* Without cycles, Meaning says what every value is computed as.           *)
LEMMA MeaningSolves ==
  ASSUME NEW ns \in Seq(Node), OneProducer(ns), Ranked(ns)
  PROVE  Solves(ns, Meaning(ns))
<1> DEFINE n == Len(ns)
<1>1. PICK rank : RankedBelow(ns, rank, n)
  BY FewRanks
<1>2. n \in Nat
  OBVIOUS
<1>3. PICK f : Stacked(ns, f, n) /\ Meaning(ns) = f[n]
  BY <1>2, MeaningStacked
<1>4. ASSUME NEW v \in Value
      PROVE  f[n][v] = IF Producers(ns, v) = {} THEN <<"value", v>>
                       ELSE NodeTerm(ns[Producer(ns, v)], f[n])
  <2>1. f[n] = IF n = 0 THEN Leaves ELSE Level(ns, f[n - 1])
    <3>1. n \in 0..n
      BY <1>2
    <3> HIDE DEF n
    <3> QED
      BY <1>3, <3>1, Zenon DEF Stacked
  <2>2. CASE Producers(ns, v) = {}
    BY <2>1, <2>2 DEF Leaves, Level
  <2>3. CASE Producers(ns, v) # {}
    <3> DEFINE i == Producer(ns, v)
    <3>1. i \in DOMAIN ns /\ ns[i].out = v
      BY <2>3, ProducerMakes
    <3> HIDE DEF i
    <3>2. n # 0 /\ n - 1 \in 0..n /\ ns[i] \in Node
      BY <1>2, <3>1
    <3>3. f[n][v] = NodeTerm(ns[i], f[n - 1])
      BY <2>1, <2>3, <3>2 DEF Level, i
    <3>4. ASSUME NEW k \in DOMAIN ns[i].ins PROVE f[n][ns[i].ins[k]] = f[n - 1][ns[i].ins[k]]
      <4>1. ns[i].ins[k] \in Value /\ v \in Value
        BY <3>2 DEF Node
      <4>2. rank[ns[i].ins[k]] < rank[v] /\ rank[v] \in 0..n /\ rank[ns[i].ins[k]] \in 0..n
        BY <1>1, <3>1, <4>1 DEF RankedBelow, Below
      <4>3. rank[ns[i].ins[k]] <= n - 1
        BY <1>2, <4>2
      <4> QED
        BY <1>1, <1>3, <3>2, <4>1, <4>3, LevelsAgree
    <3>5. NodeTerm(ns[i], f[n]) = NodeTerm(ns[i], f[n - 1])
      BY <3>4, SameInputs
    <3> QED
      BY <2>3, <3>3, <3>5 DEF i
  <2> QED
    BY <2>2, <2>3
<1>5. Solves(ns, f[n])
  BY <1>4, Zenon DEF Solves
<1> QED
  BY <1>3, <1>5, Zenon

(* Without cycles there is only one way to say it.                         *)
LEMMA SameMeaning ==
  ASSUME NEW ns \in Seq(Node), OneProducer(ns), Ranked(ns),
         NEW a, Solves(ns, a), NEW b, Solves(ns, b)
  PROVE  \A v \in Value : a[v] = b[v]
<1>1. PICK rank \in [Value -> Nat] : \A i \in DOMAIN ns : Below(ns[i], rank)
  BY DEF Ranked
<1> DEFINE S == {n \in Nat : \A v \in Value : rank[v] < n => a[v] = b[v]}
<1>2. \A v \in Value : rank[v] \in Nat
  OBVIOUS
<1>3. 0 \in S
  BY <1>2
<1>4. ASSUME NEW n \in Nat, n \in S PROVE n + 1 \in S
  <2> SUFFICES ASSUME NEW v \in Value, rank[v] < n + 1 PROVE a[v] = b[v]
    OBVIOUS
  <2>1. CASE Producers(ns, v) = {}
    BY <2>1 DEF Solves
  <2>2. CASE Producers(ns, v) # {}
    <3> DEFINE i == Producer(ns, v)
    <3>1. i \in DOMAIN ns /\ ns[i].out = v
      BY <2>2, ProducerMakes
    <3>2. a[v] = NodeTerm(ns[i], a) /\ b[v] = NodeTerm(ns[i], b)
      BY <2>2 DEF Solves
    <3> HIDE DEF i
    <3>3. ASSUME NEW k \in DOMAIN ns[i].ins PROVE a[ns[i].ins[k]] = b[ns[i].ins[k]]
      <4>1. ns[i] \in Node
        BY <3>1
      <4>2. ns[i].ins[k] \in Value
        BY <4>1 DEF Node
      <4>3. rank[ns[i].ins[k]] < rank[v]
        BY <1>1, <3>1 DEF Below
      <4>4. rank[ns[i].ins[k]] < n
        BY <1>2, <4>2, <4>3
      <4> QED
        BY <1>4, <4>2, <4>4
    <3> QED
      BY <3>2, <3>3, SameInputs
  <2> QED
    BY <2>1, <2>2
<1> HIDE DEF S
<1>5. Nat \subseteq S
  BY <1>3, <1>4, SetInduction
<1>6. ASSUME NEW v \in Value PROVE a[v] = b[v]
  <2>1. rank[v] + 1 \in S /\ rank[v] < rank[v] + 1
    BY <1>2, <1>5
  <2> QED
    BY <2>1 DEF S
<1> QED
  BY <1>6

(* What a list's own nodes compute.                                        *)
LEMMA NodeMeaning ==
  ASSUME NEW ns \in Seq(Node), OneProducer(ns), NEW m, Solves(ns, m), NEW i \in DOMAIN ns
  PROVE  m[ns[i].out] = NodeTerm(ns[i], m)
<1>1. ns[i] \in Node
  OBVIOUS
<1>2. ns[i].out \in Value
  BY <1>1 DEF Node
<1>3. i \in Producers(ns, ns[i].out) /\ Producer(ns, ns[i].out) = i
  BY ProducerIs
<1> QED
  BY <1>2, <1>3 DEF Solves

(* new may take the place of ns where the values in gone are not computed  *)
(* any more: nobody reads them, and every node computes what its output    *)
(* was computed as.                                                        *)
Rewrites(ns, new, gone) ==
  /\ new \in Seq(Node) /\ OneProducer(new) /\ Ranked(new)
  /\ \A v \in Value : Producers(new, v) = {} <=> v \in gone \/ Producers(ns, v) = {}
  /\ \A i \in DOMAIN new :
       /\ \A k \in DOMAIN new[i].ins : new[i].ins[k] \notin gone
       /\ Meaning(ns)[new[i].out] = NodeTerm(new[i], Meaning(ns))

(* All other values are computed as before.                                *)
LEMMA RewritingPreserves ==
  ASSUME NEW ns \in Seq(Node), OneProducer(ns), Ranked(ns),
         NEW new, NEW gone, Rewrites(ns, new, gone)
  PROVE  \A v \in Value \ gone : Meaning(new)[v] = Meaning(ns)[v]
<1> DEFINE m == Meaning(ns)
           n == [v \in Value |-> IF v \in gone THEN <<"value", v>> ELSE m[v]]
<1>1. Solves(ns, m)
  BY MeaningSolves
<1>2. new \in Seq(Node) /\ OneProducer(new) /\ Ranked(new)
  BY DEF Rewrites
<1> HIDE DEF m
<1>3. ASSUME NEW v \in Value, Producers(new, v) = {} PROVE n[v] = <<"value", v>>
  <2>1. CASE v \in gone
    BY <2>1
  <2>2. CASE v \notin gone
    <3>1. Producers(ns, v) = {}
      BY <1>3, <2>2 DEF Rewrites
    <3> QED
      BY <1>1, <2>2, <3>1 DEF Solves
  <2> QED
    BY <2>1, <2>2
<1>4. ASSUME NEW v \in Value, Producers(new, v) # {}
      PROVE  n[v] = NodeTerm(new[Producer(new, v)], n)
  <2> DEFINE i == Producer(new, v)
  <2>1. i \in DOMAIN new /\ new[i].out = v
    BY <1>2, <1>4, ProducerMakes
  <2> HIDE DEF i
  <2>2. v \notin gone
    BY <1>4 DEF Rewrites
  <2>3. m[v] = NodeTerm(new[i], m)
    BY <2>1 DEF Rewrites, m
  <2>4. ASSUME NEW k \in DOMAIN new[i].ins PROVE n[new[i].ins[k]] = m[new[i].ins[k]]
    <3>1. new[i] \in Node
      BY <1>2, <2>1
    <3>2. new[i].ins[k] \in Value
      BY <3>1 DEF Node
    <3>3. new[i].ins[k] \notin gone
      BY <2>1 DEF Rewrites
    <3> QED
      BY <3>2, <3>3
  <2> HIDE DEF n
  <2>5. NodeTerm(new[i], n) = NodeTerm(new[i], m)
    BY <2>4, SameInputs
  <2>6. n[v] = m[v]
    BY <2>2 DEF n
  <2> QED
    BY <2>3, <2>5, <2>6 DEF i
<1>5. \A v \in Value \ gone : n[v] = m[v]
  OBVIOUS
<1> HIDE DEF n
<1>6. Solves(new, n)
  BY <1>3, <1>4 DEF Solves
<1>7. \A v \in Value : Meaning(new)[v] = n[v]
  BY <1>2, <1>6, MeaningSolves, SameMeaning
<1> QED
  BY <1>5, <1>7 DEF m

(* A list with the same nodes computes the same.                           *)
LEMMA SameNodesRewrite ==
  ASSUME NEW ns \in Seq(Node), OneProducer(ns), Ranked(ns),
         NEW new \in Seq(Node), OneProducer(new), Ranked(new),
         \A i \in DOMAIN new : \E j \in DOMAIN ns : new[i] = ns[j],
         \A j \in DOMAIN ns : \E i \in DOMAIN new : new[i] = ns[j]
  PROVE  Rewrites(ns, new, {})
<1>1. Solves(ns, Meaning(ns))
  BY MeaningSolves
<1>2. \A i \in DOMAIN new : Meaning(ns)[new[i].out] = NodeTerm(new[i], Meaning(ns))
  BY <1>1, NodeMeaning
<1>3. \A v \in Value : Producers(new, v) = {} <=> Producers(ns, v) = {}
  BY DEF Producers
<1> QED
  BY <1>2, <1>3 DEF Rewrites

(* Removing nodes whose values no other node reads.                        *)
LEMMA RemovalRewrites ==
  ASSUME NEW ns \in Seq(Node), OneProducer(ns), Ranked(ns), NEW removed,
         \A i, j \in DOMAIN ns : j \in removed /\ Reads(ns, i, ns[j].out) => i \in removed
  PROVE  Rewrites(ns, RemoveNodes(ns, removed), {ns[j].out : j \in removed \cap DOMAIN ns})
<1> DEFINE new == RemoveNodes(ns, removed)
           gone == {ns[j].out : j \in removed \cap DOMAIN ns}
           S == DOMAIN ns \ removed
<1>1. Solves(ns, Meaning(ns))
  BY MeaningSolves
<1>2. new \in Seq(Node) /\ OneProducer(new)
  BY RemovedNodes, RemovalKeepsOrder
<1>3. /\ \A i \in DOMAIN new : \E k \in S : new[i] = ns[k]
      /\ \A k \in S : \E i \in DOMAIN new : new[i] = ns[k]
  <2>0. \A X : KeptFrom(ns, X)
    BY KeptElements
  <2>1. new = Kept(ns, S) /\ (1..Len(ns)) \cap S = S
    BY DEF RemoveNodes
  <2> HIDE DEF new, S
  <2>2. /\ \A i \in DOMAIN Kept(ns, S) : \E k \in (1..Len(ns)) \cap S : Kept(ns, S)[i] = ns[k]
        /\ \A k \in (1..Len(ns)) \cap S : \E i \in DOMAIN Kept(ns, S) : Kept(ns, S)[i] = ns[k]
    BY <2>0, Zenon DEF KeptFrom
  <2> QED
    BY <2>1, <2>2
<1> HIDE DEF new
<1>4. Ranked(new)
  <2>1. PICK rank \in [Value -> Nat] : \A i \in DOMAIN ns : Below(ns[i], rank)
    BY DEF Ranked
  <2>2. \A i \in DOMAIN new : Below(new[i], rank)
    BY <1>3, <2>1
  <2> QED
    BY <2>2 DEF Ranked
<1>5. ASSUME NEW v \in Value
      PROVE  Producers(new, v) = {} <=> v \in gone \/ Producers(ns, v) = {}
  <2>1. ASSUME v \in gone, Producers(new, v) # {} PROVE FALSE
    <3>1. PICK j \in removed \cap DOMAIN ns : v = ns[j].out
      BY <2>1
    <3>2. PICK i \in DOMAIN new : new[i].out = v
      BY <2>1 DEF Producers
    <3>3. PICK k \in S : new[i] = ns[k]
      BY <1>3
    <3> QED
      BY <3>1, <3>2, <3>3 DEF OneProducer
  <2>2. ASSUME v \notin gone, Producers(ns, v) # {} PROVE Producers(new, v) # {}
    <3>1. PICK j \in DOMAIN ns : ns[j].out = v
      BY <2>2 DEF Producers
    <3>2. j \in S
      BY <2>2, <3>1
    <3> QED
      BY <1>3, <3>1, <3>2 DEF Producers
  <2>3. Producers(ns, v) = {} => Producers(new, v) = {}
    BY <1>3 DEF Producers
  <2> QED
    BY <2>1, <2>2, <2>3
<1>6. ASSUME NEW i \in DOMAIN new
      PROVE  /\ \A k \in DOMAIN new[i].ins : new[i].ins[k] \notin gone
             /\ Meaning(ns)[new[i].out] = NodeTerm(new[i], Meaning(ns))
  <2>1. PICK k \in S : new[i] = ns[k]
    BY <1>3
  <2>2. Meaning(ns)[new[i].out] = NodeTerm(new[i], Meaning(ns))
    BY <1>1, <2>1, NodeMeaning
  <2>3. \A l \in DOMAIN ns[k].ins : ns[k].ins[l] \notin gone
    BY <2>1 DEF Reads
  <2> QED
    BY <2>1, <2>2, <2>3
<1> HIDE DEF gone
<1>7. Rewrites(ns, new, gone)
  BY <1>2, <1>4, <1>5, <1>6 DEF Rewrites
<1> QED
  BY <1>7 DEF new, gone

(* Concatenations written as tuples.                                       *)
LEMMA TwoSingles ==
  ASSUME NEW a, NEW b
  PROVE  <<a>> \o <<b>> = <<a, b>>
<1> DEFINE S == {a, b}
           s == <<a>>
           t == <<b>>
           u == <<a, b>>
<1>1. /\ s \in Seq(S) /\ t \in Seq(S) /\ u \in Seq(S) /\ Len(s) = 1 /\ Len(t) = 1 /\ Len(u) = 2
      /\ s[1] = a /\ t[1] = b /\ u[1] = a /\ u[2] = b
  OBVIOUS
<1> HIDE DEF S, s, t, u
<1>2. /\ s \o t \in Seq(S) /\ Len(s \o t) = 1 + 1
      /\ \A i \in 1..(1 + 1) : (s \o t)[i] = IF i <= 1 THEN s[i] ELSE t[i - 1]
  BY <1>1, ConcatProperties
<1>3. \A i \in 1..2 : (s \o t)[i] = u[i]
  <2>1. 1 \in 1..(1 + 1) /\ 2 \in 1..(1 + 1) /\ ~(2 <= 1) /\ 2 - 1 = 1
        /\ \A i \in 1..2 : i = 1 \/ i = 2
    OBVIOUS
  <2> QED
    BY <1>1, <1>2, <2>1
<1>4. s \o t = u
  BY <1>1, <1>2, <1>3, SeqEqual
<1> QED
  BY <1>4 DEF s, t, u

(* Two elements before a list, one by one or together.                     *)
LEMMA TwoBefore ==
  ASSUME NEW X, NEW r \in Seq(X), NEW a, NEW b
  PROVE  <<a>> \o (<<b>> \o r) = <<a, b>> \o r
<1> DEFINE S == X \cup {a, b}
           s == <<a>>
           t == <<b>>
<1>1. s \in Seq(S) /\ t \in Seq(S)
  OBVIOUS
<1>2. r \in Seq(S)
  <2>1. X \subseteq S
    OBVIOUS
  <2> HIDE DEF S
  <2> QED
    BY <2>1, SeqMonotonic
<1>3. s \o t = <<a, b>>
  BY TwoSingles
<1> HIDE DEF S, s, t
<1>4. (s \o t) \o r = s \o (t \o r)
  BY <1>1, <1>2, ConcatAssociative
<1> QED
  BY <1>3, <1>4 DEF s, t

(* One element before a list of two.                                       *)
LEMMA OneBeforeTwo ==
  ASSUME NEW X, NEW r \in Seq(X), Len(r) = 2, NEW a
  PROVE  <<a>> \o r = <<a, r[1], r[2]>>
<1> DEFINE S == X \cup {a}
           s == <<a>>
           u == <<a, r[1], r[2]>>
<1>0. r[1] \in X /\ r[2] \in X
  OBVIOUS
<1>1. /\ s \in Seq(S) /\ Len(s) = 1 /\ s[1] = a
      /\ u[1] = a /\ u[2] = r[1] /\ u[3] = r[2] /\ Len(u) = 3
  OBVIOUS
<1>2. u \in Seq(S)
  <2>1. a \in S /\ r[1] \in S /\ r[2] \in S
    BY <1>0
  <2> HIDE DEF S
  <2> QED
    BY <2>1
<1>3. r \in Seq(S)
  <2>1. X \subseteq S
    OBVIOUS
  <2> HIDE DEF S
  <2> QED
    BY <2>1, SeqMonotonic
<1> HIDE DEF S, s, u
<1>4. /\ s \o r \in Seq(S) /\ Len(s \o r) = 1 + 2
      /\ \A i \in 1..(1 + 2) : (s \o r)[i] = IF i <= 1 THEN s[i] ELSE r[i - 1]
  <2>1. /\ s \o r \in Seq(S) /\ Len(s \o r) = Len(s) + Len(r)
        /\ \A i \in 1..(Len(s) + Len(r)) : (s \o r)[i] = IF i <= Len(s) THEN s[i] ELSE r[i - Len(s)]
    BY <1>1, <1>3, ConcatProperties
  <2> DEFINE w == s \o r
  <2> HIDE DEF w
  <2>2. /\ w \in Seq(S) /\ Len(w) = 1 + 2
        /\ \A i \in 1..(1 + 2) : w[i] = IF i <= 1 THEN s[i] ELSE r[i - 1]
    BY <1>1, <2>1 DEF w
  <2> QED
    BY <2>2 DEF w
<1>5. \A i \in 1..3 : (s \o r)[i] = u[i]
  <2>1. /\ 1 \in 1..(1 + 2) /\ 2 \in 1..(1 + 2) /\ 3 \in 1..(1 + 2)
        /\ ~(2 <= 1) /\ ~(3 <= 1) /\ 2 - 1 = 1 /\ 3 - 1 = 2
        /\ \A i \in 1..3 : i = 1 \/ i = 2 \/ i = 3
    OBVIOUS
  <2> QED
    BY <1>1, <1>4, <2>1
<1>6. s \o r = u
  BY <1>1, <1>2, <1>4, <1>5, SeqEqual
<1> QED
  BY <1>6 DEF s, u

(* The parts of a list of operands.                                        *)
LEMMA ListParts ==
  ASSUME NEW X, NEW in \in Seq(X), NEW m \in Nat, NEW n \in Nat, m >= 1, m <= n, n <= Len(in)
  PROVE  /\ SubSeq(in, m, n) \in Seq(X) /\ Len(SubSeq(in, m, n)) = n - m + 1
         /\ \A i \in 1..(n - m + 1) : SubSeq(in, m, n)[i] = in[m + i - 1]
<1> DEFINE s == SubSeq(in, m, n)
<1>1. m \in 1..(Len(in) + 1) /\ n \in (m - 1)..Len(in)
  OBVIOUS
<1>2. /\ s \in Seq(X) /\ Len(s) = IF m <= n THEN n - m + 1 ELSE 0
      /\ \A i \in 1..(n - m + 1) : s[i] = in[m + i - 1]
  BY <1>1, SubSeqProperties
<1> HIDE DEF s
<1>3. s \in Seq(X) /\ Len(s) = n - m + 1 /\ \A i \in 1..(n - m + 1) : s[i] = in[m + i - 1]
  BY <1>2
<1> QED
  BY <1>3 DEF s

(* The operators that fused ones decompose into.                           *)
StepOps == {"Conv", "BatchNormalization", "Relu", "Add", "Gemm", "Gelu", "LayerNormalization"}

(* Terms of unfused operators.                                             *)
LEMMA PlainTerm ==
  ASSUME NEW op \in StepOps, NEW args
  PROVE  Term(op, args) = <<op>> \o args
<1>1. op \notin {"FusedConvBatchNorm", "FusedConvBatchNormRelu", "AddRelu", "GemmGelu",
                 "SkipLayerNormalization", "MatMul"}
  BY DEF StepOps
<1> QED
  BY <1>1 DEF Term

(* The fused operators' terms, as those of their parts.                    *)
LEMMA FusedTerms ==
  ASSUME NEW in
  PROVE  LET conv == <<"Conv", in[1], in[2]>>
             add == <<"Add", in[1], in[2]>>
         IN  /\ Len(in) = 6 =>
                  /\ Term("FusedConvBatchNorm", in)
                       = <<"BatchNormalization", conv>> \o SubSeq(in, 3, 6)
                  /\ Term("FusedConvBatchNormRelu", in)
                       = <<"Relu", <<"BatchNormalization", conv>> \o SubSeq(in, 3, 6)>>
             /\ Term("AddRelu", in) = <<"Relu", add>>
             /\ Term("GemmGelu", in) = <<"Gelu", <<"Gemm">> \o in>>
             /\ Len(in) = 4 =>
                  Term("SkipLayerNormalization", in)
                    = <<"LayerNormalization", add>> \o SubSeq(in, 3, 4)
BY DEF Term

-----------------------------------------------------------------------------
(* What the inputs of a node are computed as.                              *)
ArgsOf(ins, m) == [k \in DOMAIN ins |-> m[ins[k]]]

Terms(m) == {m[v] : v \in Value}

(* They are a list as long as the inputs.                                  *)
LEMMA ArgsListed ==
  ASSUME NEW ins \in Seq(Value), NEW m
  PROVE  /\ ArgsOf(ins, m) \in Seq(Terms(m)) /\ Len(ArgsOf(ins, m)) = Len(ins)
         /\ \A k \in 1..Len(ins) : ArgsOf(ins, m)[k] = m[ins[k]]
<1> DEFINE args == ArgsOf(ins, m)
<1>1. DOMAIN ins = 1..Len(ins) /\ Len(ins) \in Nat /\ \A k \in 1..Len(ins) : ins[k] \in Value
  OBVIOUS
<1>2. args = [k \in 1..Len(ins) |-> m[ins[k]]]
  BY <1>1 DEF ArgsOf
<1>3. \A k \in 1..Len(ins) : m[ins[k]] \in Terms(m)
  BY <1>1 DEF Terms
<1>4. args \in [1..Len(ins) -> Terms(m)]
  BY <1>2, <1>3
<1> HIDE DEF args
<1>5. args \in Seq(Terms(m)) /\ Len(args) = Len(ins)
  BY <1>1, <1>4
<1>6. \A k \in 1..Len(ins) : args[k] = m[ins[k]]
  BY <1>2
<1> QED
  BY <1>5, <1>6 DEF args

(* A term is the operator, the first argument and the others.              *)
LEMMA FirstAndOthers ==
  ASSUME NEW X, NEW args \in Seq(X), args # <<>>, NEW op
  PROVE  <<op>> \o args = <<op, args[1]>> \o Tail(args)
<1> DEFINE t == Tail(args)
           h == <<args[1]>>
<1>1. /\ t \in Seq(X) /\ Len(t) = Len(args) - 1 /\ Len(args) \in Nat /\ Len(args) # 0
      /\ \A k \in 1..Len(t) : t[k] = args[k + 1]
  BY HeadTailProperties
<1>2. args[1] \in X
  BY <1>1
<1>3. h \in Seq(X) /\ Len(h) = 1 /\ h[1] = args[1]
  BY <1>2
<1> HIDE DEF t, h
<1> DEFINE j == h \o t
<1>4. /\ j \in Seq(X) /\ Len(j) = Len(h) + Len(t)
      /\ \A k \in 1..(Len(h) + Len(t)) : j[k] = IF k <= Len(h) THEN h[k] ELSE t[k - Len(h)]
  <2>1. h \in Seq(X) /\ t \in Seq(X)
    BY <1>1, <1>3
  <2> QED
    BY <2>1, ConcatProperties
<1> HIDE DEF j
<1>5. Len(j) = Len(args)
  BY <1>1, <1>3, <1>4
<1>6. ASSUME NEW k \in 1..Len(j) PROVE j[k] = args[k]
  <2>1. CASE k = 1
    BY <1>1, <1>3, <1>4, <1>5, <2>1
  <2>2. CASE k # 1
    <3>1. ~(k <= 1) /\ k - 1 \in 1..Len(t) /\ (k - 1) + 1 = k
      BY <1>1, <1>5, <2>2
    <3> QED
      BY <1>1, <1>3, <1>4, <3>1
  <2> QED
    BY <2>1, <2>2
<1>7. j = args
  BY <1>4, <1>5, <1>6, SeqEqual
<1>8. <<op>> \o (<<args[1]>> \o t) = <<op, args[1]>> \o t
  BY <1>1, TwoBefore
<1> QED
  BY <1>7, <1>8 DEF j, h, t

(* The arguments of a node that takes a's inputs and b's but the first.    *)
LEMMA JoinedArgs ==
  ASSUME NEW a \in Seq(Value), NEW b \in Seq(Value), Len(a) = 2, Len(b) >= 2, NEW m,
         NEW args, args = ArgsOf(a \o Tail(b), m)
  PROVE  /\ args[1] = m[a[1]] /\ args[2] = m[a[2]] /\ Len(args) = Len(b) + 1
         /\ SubSeq(args, 3, Len(args)) = Tail(ArgsOf(b, m))
<1> DEFINE j == a \o Tail(b)
           B == ArgsOf(b, m)
           X == Terms(m)
<1>1. b # <<>> /\ Len(b) \in Nat /\ 1 \in DOMAIN a /\ 2 \in DOMAIN a
  OBVIOUS
<1>2. /\ j \in Seq(Value) /\ Len(j) = Len(a) + Len(b) - 1
      /\ \A k \in DOMAIN a : j[k] = a[k]
      /\ \A k \in 2..Len(b) : j[Len(a) + k - 1] = b[k]
  BY <1>1, JoinedElements
<1> HIDE DEF j
<1>3. Len(j) = Len(b) + 1 /\ j[1] = a[1] /\ j[2] = a[2]
      /\ \A k \in 2..Len(b) : j[k + 1] = b[k]
  <2>1. \A k \in 2..Len(b) : 2 + k - 1 = k + 1
    BY <1>1
  <2> QED
    BY <1>1, <1>2, <2>1
<1>4. args \in Seq(X) /\ Len(args) = Len(j) /\ \A k \in 1..Len(j) : args[k] = m[j[k]]
  BY <1>2, ArgsListed DEF j
<1>5. B \in Seq(X) /\ Len(B) = Len(b) /\ \A k \in 1..Len(b) : B[k] = m[b[k]]
  BY ArgsListed
<1> HIDE DEF B, X
<1>6. args[1] = m[a[1]] /\ args[2] = m[a[2]] /\ Len(args) = Len(b) + 1
  BY <1>1, <1>3, <1>4
<1> DEFINE n == Len(args)
           s == SubSeq(args, 3, n)
           t == Tail(B)
<1>7. n = Len(b) + 1 /\ n \in Nat /\ 3 \in Nat /\ 3 >= 1 /\ 3 <= n /\ n <= Len(args)
  BY <1>1, <1>6
<1>8. /\ s \in Seq(X) /\ Len(s) = n - 3 + 1
      /\ \A i \in 1..(n - 3 + 1) : s[i] = args[3 + i - 1]
  BY <1>4, <1>7, ListParts
<1>9. t \in Seq(X) /\ Len(t) = Len(B) - 1 /\ \A k \in 1..Len(t) : t[k] = B[k + 1]
  <2>1. B # <<>>
    BY <1>1, <1>5
  <2> QED
    BY <1>5, <2>1, HeadTailProperties
<1> HIDE DEF n, s, t
<1>10. Len(s) = Len(t)
  BY <1>5, <1>7, <1>8, <1>9
<1>11. ASSUME NEW i \in 1..Len(s) PROVE s[i] = t[i]
  <2>1. /\ i \in 1..(n - 3 + 1) /\ i \in 1..Len(t) /\ i + 1 \in 2..Len(b) /\ i + 1 \in 1..Len(b)
        /\ 3 + i - 1 = (i + 1) + 1 /\ (i + 1) + 1 \in 1..Len(j)
    BY <1>1, <1>3, <1>5, <1>7, <1>8, <1>9, <1>10
  <2>2. s[i] = args[(i + 1) + 1] /\ t[i] = B[i + 1]
    BY <1>8, <1>9, <2>1
  <2>3. args[(i + 1) + 1] = m[j[(i + 1) + 1]] /\ B[i + 1] = m[b[i + 1]]
    BY <1>4, <1>5, <2>1
  <2>4. j[(i + 1) + 1] = b[i + 1]
    BY <1>3, <2>1
  <2> QED
    BY <2>2, <2>3, <2>4
<1>12. s = t
  BY <1>8, <1>9, <1>10, <1>11, SeqEqual
<1> QED
  BY <1>6, <1>12 DEF s, t, n, B

(* Nodes compute the terms of their arguments.                             *)
LEMMA NodeTermOf ==
  ASSUME NEW node, NEW m
  PROVE  NodeTerm(node, m) = Term(node.op, ArgsOf(node.ins, m))
BY DEF NodeTerm, ArgsOf

(* An activation of a value.                                               *)
LEMMA ActivationTerm ==
  ASSUME NEW node \in Node, node.op \in {"Relu", "Gelu"}, Len(node.ins) = 1, NEW m
  PROVE  NodeTerm(node, m) = <<node.op, m[node.ins[1]]>>
<1> DEFINE args == ArgsOf(node.ins, m)
<1>1. node.ins \in Seq(Value) /\ node.op \in StepOps
  BY DEF Node, StepOps
<1>2. args \in Seq(Terms(m)) /\ Len(args) = 1 /\ args[1] = m[node.ins[1]]
  <2>1. 1 \in 1..Len(node.ins)
    OBVIOUS
  <2> QED
    BY <1>1, <2>1, ArgsListed
<1>3. NodeTerm(node, m) = <<node.op>> \o args
  BY <1>1, NodeTermOf, PlainTerm
<1> HIDE DEF args
<1>4. args = <<args[1]>>
  BY <1>2
<1>5. <<node.op>> \o <<args[1]>> = <<node.op, args[1]>>
  BY TwoSingles
<1> QED
  BY <1>2, <1>3, <1>4, <1>5

(* Add and Relu, Gemm and Gelu, as one node.                               *)
LEMMA MergedComputes ==
  ASSUME NEW a \in Node, NEW b \in Node, NEW node \in Node, NEW m,
         m[a.out] = NodeTerm(a, m), Len(b.ins) = 1, b.ins[1] = a.out, node.ins = a.ins,
         \/ a.op = "Add" /\ b.op = "Relu" /\ node.op = "AddRelu" /\ Len(a.ins) = 2
         \/ a.op = "Gemm" /\ b.op = "Gelu" /\ node.op = "GemmGelu"
  PROVE  NodeTerm(node, m) = NodeTerm(b, m)
<1> DEFINE args == ArgsOf(a.ins, m)
<1>1. a.ins \in Seq(Value) /\ a.op \in StepOps
  BY DEF Node, StepOps
<1>2. args \in Seq(Terms(m)) /\ Len(args) = Len(a.ins)
  BY <1>1, ArgsListed
<1>3. m[a.out] = <<a.op>> \o args
  BY <1>1, NodeTermOf, PlainTerm
<1>4. NodeTerm(node, m) = Term(node.op, args)
  BY NodeTermOf
<1>5. NodeTerm(b, m) = <<b.op, m[a.out]>>
  BY ActivationTerm
<1> HIDE DEF args
<1>6. CASE a.op = "Add"
  <2>1. <<a.op>> \o args = <<a.op, args[1], args[2]>>
    BY <1>2, <1>6, OneBeforeTwo
  <2>2. Term("AddRelu", args) = <<"Relu", <<"Add", args[1], args[2]>>>>
    BY FusedTerms
  <2> QED
    BY <1>3, <1>4, <1>5, <1>6, <2>1, <2>2
<1>7. CASE a.op = "Gemm"
  <2>1. Term("GemmGelu", args) = <<"Gelu", <<"Gemm">> \o args>>
    BY FusedTerms
  <2> QED
    BY <1>3, <1>4, <1>5, <1>7, <2>1
<1> QED
  BY <1>6, <1>7

(* A node on what another one computes and on further inputs.              *)
Continues(a, b, m) ==
  /\ a \in Node /\ b \in Node /\ m[a.out] = NodeTerm(a, m)
  /\ a.op \in StepOps /\ b.op \in StepOps
  /\ Len(a.ins) = 2 /\ Len(b.ins) >= 2 /\ b.ins[1] = a.out

(* What it computes, by the inputs of both.                                *)
LEMMA ChainTerm ==
  ASSUME NEW a, NEW b, NEW m, Continues(a, b, m)
  PROVE  \A args : args = ArgsOf(a.ins \o Tail(b.ins), m) =>
           /\ NodeTerm(b, m) = <<b.op, <<a.op, args[1], args[2]>>>> \o SubSeq(args, 3, Len(args))
           /\ Len(args) = Len(b.ins) + 1
<1> USE DEF Continues
<1> SUFFICES ASSUME NEW args, args = ArgsOf(a.ins \o Tail(b.ins), m)
             PROVE  /\ NodeTerm(b, m)
                          = <<b.op, <<a.op, args[1], args[2]>>>> \o SubSeq(args, 3, Len(args))
                    /\ Len(args) = Len(b.ins) + 1
  OBVIOUS
<1> DEFINE A == ArgsOf(a.ins, m)
           B == ArgsOf(b.ins, m)
           s == SubSeq(args, 3, Len(args))
<1>1. a.ins \in Seq(Value) /\ b.ins \in Seq(Value)
  BY DEF Node
<1>2. A \in Seq(Terms(m)) /\ Len(A) = 2 /\ A[1] = m[a.ins[1]] /\ A[2] = m[a.ins[2]]
  <2>1. 1 \in 1..Len(a.ins) /\ 2 \in 1..Len(a.ins)
    OBVIOUS
  <2> QED
    BY <1>1, <2>1, ArgsListed
<1>3. B \in Seq(Terms(m)) /\ Len(B) = Len(b.ins) /\ B[1] = m[b.ins[1]]
  <2>1. 1 \in 1..Len(b.ins)
    BY <1>1
  <2> QED
    BY <1>1, <2>1, ArgsListed
<1>4. /\ args[1] = m[a.ins[1]] /\ args[2] = m[a.ins[2]] /\ Len(args) = Len(b.ins) + 1
      /\ s = Tail(B)
  <2> DEFINE x == a.ins
             y == b.ins
  <2>1. /\ x \in Seq(Value) /\ y \in Seq(Value) /\ Len(x) = 2 /\ Len(y) >= 2
        /\ args = ArgsOf(x \o Tail(y), m)
    BY <1>1
  <2> HIDE DEF x, y
  <2>2. /\ args[1] = m[x[1]] /\ args[2] = m[x[2]] /\ Len(args) = Len(y) + 1
        /\ SubSeq(args, 3, Len(args)) = Tail(ArgsOf(y, m))
    BY <2>1, JoinedArgs, SMT
  <2> QED
    BY <2>2 DEF x, y
<1>5. NodeTerm(a, m) = <<a.op>> \o A /\ NodeTerm(b, m) = <<b.op>> \o B
  BY NodeTermOf, PlainTerm
<1> HIDE DEF A, B, s
<1>6. <<a.op>> \o A = <<a.op, A[1], A[2]>>
  BY <1>2, OneBeforeTwo
<1>7. <<b.op>> \o B = <<b.op, B[1]>> \o Tail(B)
  <2>1. B # <<>>
    BY <1>1, <1>3
  <2> QED
    BY <1>3, <2>1, FirstAndOthers
<1>8. B[1] = <<a.op, args[1], args[2]>>
  BY <1>2, <1>3, <1>4, <1>5, <1>6
<1> QED
  BY <1>4, <1>5, <1>7, <1>8 DEF s

(* Add and LayerNormalization as one node.                                 *)
LEMMA SkipNormComputes ==
  ASSUME NEW a \in Node, NEW b \in Node, NEW node \in Node, NEW m,
         m[a.out] = NodeTerm(a, m), b.ins[1] = a.out,
         a.op = "Add", b.op = "LayerNormalization", Len(a.ins) = 2, Len(b.ins) = 3,
         node.op = "SkipLayerNormalization", node.ins = a.ins \o Tail(b.ins)
  PROVE  NodeTerm(node, m) = NodeTerm(b, m)
<1> DEFINE args == ArgsOf(a.ins \o Tail(b.ins), m)
<1>1. a.op \in StepOps /\ b.op \in StepOps
  BY DEF StepOps
<1>2. NodeTerm(node, m) = Term("SkipLayerNormalization", args)
  BY NodeTermOf
<1>3. args = ArgsOf(a.ins \o Tail(b.ins), m)
  OBVIOUS
<1> HIDE DEF args
<1>4. /\ NodeTerm(b, m) = <<b.op, <<a.op, args[1], args[2]>>>> \o SubSeq(args, 3, Len(args))
      /\ Len(args) = Len(b.ins) + 1
  <2>1. Continues(a, b, m)
    BY <1>1 DEF Continues
  <2> QED
    BY ONLY <1>3, <2>1, ChainTerm
<1>5. Len(args) = 4
  BY <1>4
<1>6. Term("SkipLayerNormalization", args)
        = <<"LayerNormalization", <<"Add", args[1], args[2]>>>> \o SubSeq(args, 3, 4)
  BY <1>5, FusedTerms
<1> QED
  BY <1>2, <1>4, <1>5, <1>6

(* Conv and BatchNormalization as one node, with the Relu behind them or   *)
(* without.                                                                *)
FusesConv(a, b, c, node, m) ==
  /\ a \in Node /\ b \in Node /\ c \in Node /\ node \in Node
  /\ m[a.out] = NodeTerm(a, m) /\ m[b.out] = NodeTerm(b, m) /\ b.ins[1] = a.out
  /\ a.op = "Conv" /\ b.op = "BatchNormalization" /\ Len(a.ins) = 2 /\ Len(b.ins) = 5
  /\ node.ins = a.ins \o Tail(b.ins)
  /\ \/ c = b /\ node.op = "FusedConvBatchNorm"
     \/ /\ c.op = "Relu" /\ Len(c.ins) = 1 /\ c.ins[1] = b.out
        /\ node.op = "FusedConvBatchNormRelu"

(* It computes what the last of them does.                                 *)
LEMMA FusedConvComputes ==
  ASSUME NEW a, NEW b, NEW c, NEW node, NEW m, FusesConv(a, b, c, node, m)
  PROVE  NodeTerm(node, m) = NodeTerm(c, m)
<1> USE DEF FusesConv
<1> DEFINE args == ArgsOf(a.ins \o Tail(b.ins), m)
           conv == <<"Conv", args[1], args[2]>>
           bn == <<"BatchNormalization", conv>> \o SubSeq(args, 3, 6)
<1>1. a.op \in StepOps /\ b.op \in StepOps
  BY DEF StepOps
<1>2. NodeTerm(node, m) = Term(node.op, args)
  BY NodeTermOf
<1>3. args = ArgsOf(a.ins \o Tail(b.ins), m)
  OBVIOUS
<1> HIDE DEF args
<1>4. /\ NodeTerm(b, m) = <<b.op, <<a.op, args[1], args[2]>>>> \o SubSeq(args, 3, Len(args))
      /\ Len(args) = Len(b.ins) + 1
  <2>1. Continues(a, b, m)
    BY <1>1 DEF Continues
  <2> QED
    BY ONLY <1>3, <2>1, ChainTerm
<1>5. Len(args) = 6
  BY <1>4
<1>6. NodeTerm(b, m) = bn
  BY <1>4, <1>5
<1>7. Term("FusedConvBatchNorm", args) = bn /\ Term("FusedConvBatchNormRelu", args) = <<"Relu", bn>>
  BY <1>5, FusedTerms
<1> HIDE DEF bn
<1>8. CASE c = b /\ node.op = "FusedConvBatchNorm"
  BY <1>2, <1>6, <1>7, <1>8
<1>9. CASE c.op = "Relu" /\ Len(c.ins) = 1 /\ c.ins[1] = b.out
           /\ node.op = "FusedConvBatchNormRelu"
  <2>1. NodeTerm(c, m) = <<"Relu", m[b.out]>>
    BY <1>9, ActivationTerm
  <2> QED
    BY <1>2, <1>6, <1>7, <1>9, <2>1
<1> QED
  BY <1>8, <1>9

(* A product without a bias is a Gemm.                                     *)
LEMMA NormalizedComputes ==
  ASSUME NEW node, NEW new, node.op = "MatMul", new.op = "Gemm", new.ins = node.ins, NEW m
  PROVE  NodeTerm(new, m) = NodeTerm(node, m)
<1>1. "Gemm" \in StepOps
  BY DEF StepOps
<1>2. \A args : Term("MatMul", args) = <<"Gemm">> \o args
  BY DEF Term
<1> QED
  BY <1>1, <1>2, NodeTermOf, PlainTerm

(* The values that are not computed any more once node i is merged.        *)
Absorbed(ns, i, node, removed) == {ns[j].out : j \in removed \cup {i}} \ {node.out}

(* The operators of the nodes that fusions merge without asking whether    *)
(* what they no longer compute is an output of the graph.                  *)
BlindlyFused == {"Conv", "BatchNormalization", "Relu", "Add"}

(* node computes what its output was computed as, and nobody reads what is *)
(* not computed any more; nor is it an output of the graph.                *)
MergeKeeps(ns, i, node, removed, outs) ==
  /\ removed \subseteq DOMAIN ns /\ i \notin removed /\ node.op \notin BlindlyFused
  /\ \A v \in Absorbed(ns, i, node, removed) :
       /\ \A k \in DOMAIN ns \ (removed \cup {i}) : ~Reads(ns, k, v)
       /\ \A k \in DOMAIN node.ins : node.ins[k] # v
       /\ v \notin outs
  /\ NodeTerm(node, Meaning(ns)) = Meaning(ns)[node.out]

(* The nodes of a merged list.                                             *)
LEMMA MergedNodes ==
  ASSUME NEW ns \in Seq(Node), NEW i \in DOMAIN ns, NEW node \in Node, NEW removed
  PROVE  /\ MergedList(ns, i, node, removed) \in Seq(Node)
         /\ \A a \in DOMAIN MergedList(ns, i, node, removed) :
              \/ MergedList(ns, i, node, removed)[a] = node
              \/ \E k \in DOMAIN ns \ (removed \cup {i}) :
                   MergedList(ns, i, node, removed)[a] = ns[k]
         /\ i \notin removed =>
              \E a \in DOMAIN MergedList(ns, i, node, removed) :
                MergedList(ns, i, node, removed)[a] = node
         /\ \A k \in DOMAIN ns \ (removed \cup {i}) :
              \E a \in DOMAIN MergedList(ns, i, node, removed) :
                MergedList(ns, i, node, removed)[a] = ns[k]
<1> DEFINE set == [ns EXCEPT ![i] = node]
           new == MergedList(ns, i, node, removed)
           S == DOMAIN ns \ removed
<1>1. set \in Seq(Node) /\ DOMAIN set = DOMAIN ns /\ set[i] = node /\ Len(set) = Len(ns)
      /\ \A j \in DOMAIN ns : j # i => set[j] = ns[j]
  BY ExceptSeq
<1> HIDE DEF set
<1>2. new = Kept(set, S) /\ (1..Len(set)) \cap S = S
  BY <1>1 DEF MergedList, RemoveNodes, set
<1> HIDE DEF new
<1>3. /\ Kept(set, S) \in Seq(Node)
      /\ \A a \in DOMAIN Kept(set, S) :
           \E k \in (1..Len(set)) \cap S : Kept(set, S)[a] = set[k]
      /\ \A k \in (1..Len(set)) \cap S :
           \E a \in DOMAIN Kept(set, S) : Kept(set, S)[a] = set[k]
  <2> HIDE DEF S
  <2> QED
    BY <1>1, KeptElements
<1>4. /\ new \in Seq(Node)
      /\ \A a \in DOMAIN new : \E k \in S : new[a] = set[k]
      /\ \A k \in S : \E a \in DOMAIN new : new[a] = set[k]
  <2> HIDE DEF S
  <2> QED
    BY <1>2, <1>3
<1>5. ASSUME NEW a \in DOMAIN new
      PROVE  new[a] = node \/ \E k \in DOMAIN ns \ (removed \cup {i}) : new[a] = ns[k]
  <2>1. PICK k \in S : new[a] = set[k]
    BY <1>4
  <2> QED
    BY <1>1, <2>1
<1>6. i \notin removed => \E a \in DOMAIN new : new[a] = node
  BY <1>1, <1>4
<1>7. \A k \in DOMAIN ns \ (removed \cup {i}) : \E a \in DOMAIN new : new[a] = ns[k]
  BY <1>1, <1>4
<1> QED
  BY <1>4, <1>5, <1>6, <1>7 DEF new

(* A merge computes what is still computed as before.                      *)
LEMMA MergingRewrites ==
  ASSUME NEW ns \in Seq(Node), OneProducer(ns), Ranked(ns), NEW i \in DOMAIN ns, NEW node \in Node,
         NEW removed, NEW last \in removed, node.out = ns[last].out, NEW outs,
         MergeKeeps(ns, i, node, removed, outs),
         OneProducer(MergedList(ns, i, node, removed)),
         Ranked(MergedList(ns, i, node, removed))
  PROVE  Rewrites(ns, MergedList(ns, i, node, removed), Absorbed(ns, i, node, removed))
<1> DEFINE new == MergedList(ns, i, node, removed)
           gone == Absorbed(ns, i, node, removed)
           Stays == DOMAIN ns \ (removed \cup {i})
           m == Meaning(ns)
<1>1. /\ new \in Seq(Node)
      /\ \A a \in DOMAIN new : new[a] = node \/ \E k \in Stays : new[a] = ns[k]
      /\ i \notin removed => \E a \in DOMAIN new : new[a] = node
      /\ \A k \in Stays : \E a \in DOMAIN new : new[a] = ns[k]
  BY MergedNodes
<1>2. removed \subseteq DOMAIN ns /\ i \notin removed /\ NodeTerm(node, m) = m[node.out]
  BY DEF MergeKeeps
<1>3. \A v \in gone : /\ \A k \in Stays : ~Reads(ns, k, v)
                      /\ \A k \in DOMAIN node.ins : node.ins[k] # v
  BY DEF MergeKeeps
<1>4. Solves(ns, m)
  BY MeaningSolves
<1> HIDE DEF new, gone, m
<1>5. ASSUME NEW a \in DOMAIN new
      PROVE  /\ \A k \in DOMAIN new[a].ins : new[a].ins[k] \notin gone
             /\ m[new[a].out] = NodeTerm(new[a], m)
  <2>1. CASE new[a] = node
    BY <1>2, <1>3, <2>1
  <2>2. CASE \E k \in Stays : new[a] = ns[k]
    <3>1. PICK k \in Stays : new[a] = ns[k]
      BY <2>2
    <3>2. m[ns[k].out] = NodeTerm(ns[k], m)
      BY <1>4, NodeMeaning
    <3>3. \A l \in DOMAIN ns[k].ins : ns[k].ins[l] \notin gone
      BY <1>3 DEF Reads
    <3> QED
      BY <3>1, <3>2, <3>3
  <2> QED
    BY <1>1, <2>1, <2>2
<1>6. ASSUME NEW v \in Value
      PROVE  Producers(new, v) = {} <=> v \in gone \/ Producers(ns, v) = {}
  <2>1. ASSUME v \in gone, NEW a \in DOMAIN new, new[a].out = v PROVE FALSE
    <3>1. v # node.out /\ \E j \in removed \cup {i} : v = ns[j].out
      BY <2>1 DEF gone, Absorbed
    <3>2. PICK k \in Stays : new[a] = ns[k]
      BY <1>1, <2>1, <3>1
    <3> QED
      BY <1>2, <2>1, <3>1, <3>2 DEF OneProducer
  <2>2. ASSUME v \notin gone, NEW j \in DOMAIN ns, ns[j].out = v
        PROVE  \E a \in DOMAIN new : new[a].out = v
    <3>1. CASE j \in Stays
      BY <1>1, <2>2, <3>1
    <3>2. CASE j \notin Stays
      <4>1. v = node.out
        BY <2>2, <3>2 DEF gone, Absorbed
      <4> QED
        BY <1>1, <1>2, <4>1
    <3> QED
      BY <3>1, <3>2
  <2>3. ASSUME NEW a \in DOMAIN new, new[a].out = v PROVE \E j \in DOMAIN ns : ns[j].out = v
    <3>1. CASE new[a] = node
      BY <1>2, <2>3, <3>1
    <3>2. CASE \E k \in Stays : new[a] = ns[k]
      BY <2>3, <3>2
    <3> QED
      BY <1>1, <3>1, <3>2
  <2> QED
    BY <2>1, <2>2, <2>3 DEF Producers
<1>7. Rewrites(ns, new, gone)
  BY <1>1, <1>5, <1>6 DEF Rewrites, new, m
<1> QED
  BY <1>7 DEF new, gone

(* What each output of the graph is computed as is the same in both lists. *)
SameOutputs(ns, new, outs) == \A v \in outs : Meaning(new)[v] = Meaning(ns)[v]

(* A merge keeps the outputs.                                              *)
LEMMA MergePreserves ==
  ASSUME NEW ns \in Seq(Node), OneProducer(ns), Ranked(ns), ScalesGiven(ns),
         NEW i \in DOMAIN ns, NEW node, NEW removed, NEW kinds,
         Replaces(ns, i, node, removed, kinds), NEW outs \in SUBSET Value,
         MergeKeeps(ns, i, node, removed, outs)
  PROVE  SameOutputs(ns, MergedList(ns, i, node, removed), outs)
<1> DEFINE new == MergedList(ns, i, node, removed)
<1>1. OneProducer(new) /\ Ranked(new)
  BY MergingKeeps
<1>2. node \in Node /\ \E last \in removed : node.out = ns[last].out
  BY DEF Replaces
<1>3. Rewrites(ns, new, Absorbed(ns, i, node, removed))
  BY <1>1, <1>2, MergingRewrites
<1>4. \A v \in Value \ Absorbed(ns, i, node, removed) : Meaning(new)[v] = Meaning(ns)[v]
  BY <1>3, RewritingPreserves
<1>5. \A v \in outs : v \in Value \ Absorbed(ns, i, node, removed)
  BY DEF MergeKeeps
<1> QED
  BY <1>4, <1>5 DEF SameOutputs

(* The fusions that do not ask whether what they no longer compute is an   *)
(* output of the graph: in a graph whose outputs they may not touch, none  *)
(* of these nodes' first parts computes one.                               *)
FusesBlindly(first, second) ==
  \/ first = "Conv" /\ second = "BatchNormalization"
  \/ first = "BatchNormalization" /\ second = "Relu"
  \/ first = "Add" /\ second = "Relu"

InnersUnobserved(ns, outs) ==
  \A i, j \in DOMAIN ns :
    FusesBlindly(ns[i].op, ns[j].op) /\ Reads(ns, j, ns[i].out) => ns[i].out \notin outs

(* The only reader reads once.                                             *)
LEMMA ReadsOnce ==
  ASSUME nodes \in Seq(Node), NEW i, NEW j \in DOMAIN nodes, OnlyReader(i, j),
         1 \in DOMAIN nodes[j].ins, nodes[j].ins[1] = nodes[i].out
  PROVE  \A k \in 2..Len(nodes[j].ins) : nodes[j].ins[k] # nodes[i].out
<1> DEFINE S == {k \in DOMAIN nodes[j].ins : nodes[j].ins[k] = nodes[i].out}
<1>1. nodes[j] \in Node
  OBVIOUS
<1>2. nodes[j].ins \in Seq(Value) /\ DOMAIN nodes[j].ins = 1..Len(nodes[j].ins)
      /\ Len(nodes[j].ins) \in Nat
  BY <1>1 DEF Node
<1>3. IsFiniteSet(S)
  <2>1. S \subseteq 1..Len(nodes[j].ins) /\ 1 \in Nat
    BY <1>2
  <2>2. IsFiniteSet(1..Len(nodes[j].ins))
    BY <1>2, FS_Interval
  <2> HIDE DEF S
  <2> QED
    BY <2>1, <2>2, FS_Subset
<1>4. Cardinality(S) = 1
  BY DEF OnlyReader
<1>5. PICK x : S = {x}
  <2> HIDE DEF S
  <2> QED
    BY <1>3, <1>4, FS_Singleton
<1>6. 1 \in S
  OBVIOUS
<1>7. \A k \in 2..Len(nodes[j].ins) : k # 1 /\ k \in DOMAIN nodes[j].ins
  BY <1>2
<1> QED
  BY <1>5, <1>6, <1>7

(* Add and Relu, Gemm and Gelu.                                            *)
LEMMA MergedMergeKeeps ==
  ASSUME nodes \in Seq(Node), known \in [Value -> Kind], Consistent(nodes, known),
         OneProducer(nodes), Ranked(nodes),
         NEW i \in DOMAIN nodes, NEW j \in DOMAIN nodes, OnlyReader(i, j), NEW op \in Op,
         \/ nodes[i].op = "Add" /\ nodes[j].op = "Relu" /\ op = "AddRelu"
         \/ nodes[i].op = "Gemm" /\ nodes[j].op = "Gelu" /\ op = "GemmGelu",
         nodes[i].out \notin outputs
  PROVE  MergeKeeps(nodes, i, Merged(op, i, j), {j}, outputs)
<1> DEFINE node == Merged(op, i, j)
           m == Meaning(nodes)
<1>1. node \in Node /\ nodes[i] \in Node /\ nodes[j] \in Node
  BY MergedTyped
<1>2. node.op = op /\ node.ins = nodes[i].ins /\ node.out = nodes[j].out
  BY DEF Merged
<1> HIDE DEF node
<1>3. nodes[j].ins[1] = nodes[i].out
  BY ReadsFirst
<1>4. Len(nodes[j].ins) = 1 /\ (nodes[i].op = "Add" => Len(nodes[i].ins) = 2)
  <2>1. Described(nodes[i], known) /\ Described(nodes[j], known)
    BY DEF Consistent
  <2> QED
    BY <1>1, <2>1, SameDescribed, AddDescribed
<1>5. m[nodes[i].out] = NodeTerm(nodes[i], m) /\ m[nodes[j].out] = NodeTerm(nodes[j], m)
  BY MeaningSolves, NodeMeaning
<1> HIDE DEF m
<1>6. NodeTerm(node, m) = NodeTerm(nodes[j], m)
  BY <1>1, <1>2, <1>3, <1>4, <1>5, MergedComputes
<1>7. i # j
  OBVIOUS
<1>8. \A l \in DOMAIN nodes : Reads(nodes, l, nodes[i].out) <=> l = j
  BY DEF OnlyReader
<1>9. \A v \in Absorbed(nodes, i, node, {j}) : v = nodes[i].out
  BY <1>2 DEF Absorbed
<1>10. \A k \in DOMAIN node.ins : node.ins[k] # nodes[i].out
  BY <1>2, <1>7, <1>8 DEF Reads
<1>11. NodeTerm(node, m) = m[node.out]
  BY <1>2, <1>5, <1>6
<1>12. MergeKeeps(nodes, i, node, {j}, outputs)
  <2>1. node.op \notin BlindlyFused
    BY <1>2 DEF BlindlyFused
  <2> QED
    BY <1>7, <1>8, <1>9, <1>10, <1>11, <2>1 DEF MergeKeeps, m
<1> QED
  BY <1>12 DEF node

(* Inputs joined from those of a pair, none of which is v.                 *)
LEMMA JoinedReads ==
  ASSUME NEW a \in Seq(Value), NEW b \in Seq(Value), b # <<>>, NEW v,
         \A k \in DOMAIN a : a[k] # v, \A k \in 2..Len(b) : b[k] # v
  PROVE  \A k \in DOMAIN (a \o Tail(b)) : (a \o Tail(b))[k] # v
<1> DEFINE t == a \o Tail(b)
<1>1. \A k \in DOMAIN t : \/ k \in DOMAIN a /\ t[k] = a[k]
                          \/ \E l \in 2..Len(b) : t[k] = b[l]
  BY JoinedElements
<1> HIDE DEF t
<1>2. \A k \in DOMAIN t : t[k] # v
  BY <1>1
<1> QED
  BY <1>2 DEF t

(* Add and LayerNormalization.                                             *)
LEMMA SkipNormMergeKeeps ==
  ASSUME nodes \in Seq(Node), known \in [Value -> Kind], Consistent(nodes, known),
         OneProducer(nodes), Ranked(nodes),
         NEW i \in DOMAIN nodes, NEW j \in DOMAIN nodes, OnlyReader(i, j),
         nodes[i].op = "Add", nodes[j].op = "LayerNormalization",
         Len(nodes[j].ins) = 3, nodes[j].ins[1] = nodes[i].out, nodes[i].out \notin outputs
  PROVE  MergeKeeps(nodes, i, SkipLayerNormalization(i, j), {j}, outputs)
<1> DEFINE node == SkipLayerNormalization(i, j)
           m == Meaning(nodes)
           a == nodes[i]
           b == nodes[j]
<1>1. a \in Node /\ b \in Node /\ Described(a, known)
  BY DEF Consistent
<1>2. node.op = "SkipLayerNormalization" /\ node.ins = a.ins \o Tail(b.ins) /\ node.out = b.out
      /\ node = [op |-> node.op, ins |-> node.ins, out |-> node.out]
      /\ "SkipLayerNormalization" \in Op
  BY DEF SkipLayerNormalization, Op
<1> HIDE DEF node
<1>3. a.ins \in Seq(Value) /\ b.ins \in Seq(Value) /\ b.out \in Value /\ b.ins # <<>>
      /\ 1 \in DOMAIN b.ins
  BY <1>1 DEF Node
<1>4. node \in Node
  <2>1. a.ins \o Tail(b.ins) \in Seq(Value)
    BY <1>3, JoinedElements
  <2> HIDE DEF a, b
  <2> QED
    BY <1>2, <1>3, <2>1 DEF Node
<1>5. m[a.out] = NodeTerm(a, m) /\ m[b.out] = NodeTerm(b, m)
  BY MeaningSolves, NodeMeaning
<1>6. Len(a.ins) = 2
  BY <1>1, AddDescribed
<1> HIDE DEF m
<1>7. NodeTerm(node, m) = NodeTerm(b, m)
  BY <1>1, <1>2, <1>4, <1>5, <1>6, SkipNormComputes
<1>8. i # j /\ \A l \in DOMAIN nodes : Reads(nodes, l, a.out) <=> l = j
  BY DEF OnlyReader
<1>9. \A v \in Absorbed(nodes, i, node, {j}) : v = a.out
  BY <1>2 DEF Absorbed
<1>10. \A k \in DOMAIN node.ins : node.ins[k] # a.out
  <2>1. \A k \in DOMAIN a.ins : a.ins[k] # a.out
    BY <1>8 DEF Reads
  <2>2. \A k \in 2..Len(b.ins) : b.ins[k] # a.out
    BY <1>3, ReadsOnce
  <2> DEFINE x == a.ins
             y == b.ins
             v == a.out
  <2>3. /\ x \in Seq(Value) /\ y \in Seq(Value) /\ y # <<>>
        /\ \A k \in DOMAIN x : x[k] # v
        /\ \A k \in 2..Len(y) : y[k] # v
    BY <1>3, <2>1, <2>2
  <2>4. node.ins = x \o Tail(y)
    BY <1>2
  <2> HIDE DEF x, y, v
  <2>5. \A k \in DOMAIN (x \o Tail(y)) : (x \o Tail(y))[k] # v
    BY ONLY <2>3, JoinedReads
  <2> QED
    BY <2>4, <2>5 DEF v
<1>11. NodeTerm(node, m) = m[node.out]
  BY <1>2, <1>5, <1>7
<1>12. MergeKeeps(nodes, i, node, {j}, outputs)
  <2>1. node.op \notin BlindlyFused
    BY <1>2 DEF BlindlyFused
  <2> QED
    BY <1>8, <1>9, <1>10, <1>11, <2>1 DEF MergeKeeps, m
<1> QED
  BY <1>12 DEF node

(* Conv, BatchNormalization and the Relu behind them.                      *)
LEMMA FusedConvMergeKeeps ==
  ASSUME nodes \in Seq(Node), known \in [Value -> Kind], Consistent(nodes, known),
         OneProducer(nodes), Ranked(nodes), ScalesGiven(nodes), InnersUnobserved(nodes, outputs),
         NEW i \in DOMAIN nodes, NEW j \in DOMAIN nodes, NEW l \in DOMAIN nodes,
         nodes[i].op = "Conv", nodes[j].op = "BatchNormalization", OnlyReader(i, j),
         NEW node \in Node,
         node.ins = nodes[i].ins \o Tail(nodes[j].ins), node.out = nodes[l].out,
         NEW removed,
         \/ /\ l = j /\ removed = {j} /\ node.op = "FusedConvBatchNorm"
         \/ /\ nodes[l].op = "Relu" /\ OnlyReader(j, l) /\ removed = {j, l}
            /\ node.op = "FusedConvBatchNormRelu"
  PROVE  MergeKeeps(nodes, i, node, removed, outputs)
<1> DEFINE m == Meaning(nodes)
           a == nodes[i]
           b == nodes[j]
           c == nodes[l]
<1>1. a \in Node /\ b \in Node /\ c \in Node /\ Described(a, known) /\ Described(b, known)
      /\ Described(c, known)
  BY DEF Consistent
<1>2. a.ins \in Seq(Value) /\ b.ins \in Seq(Value) /\ DOMAIN b.ins = 1..Len(b.ins)
  BY <1>1 DEF Node
<1>3. Len(a.ins) = 2 /\ Len(b.ins) = 5
  BY <1>1, ConvDescribed, SameDescribed
<1>4. b.ins # <<>> /\ 1 \in DOMAIN b.ins
  <2>1. 1 \in DOMAIN b.ins
    BY <1>2, <1>3
  <2> HIDE DEF b
  <2> QED
    BY <2>1
<1>5. b.ins[1] = a.out
  <2>1. PICK k \in DOMAIN b.ins : b.ins[k] = a.out
    BY DEF OnlyReader, Reads
  <2>2. k \notin 2..Len(b.ins)
    BY <2>1 DEF ScalesGiven
  <2>3. k = 1
    BY <1>2, <1>3, <2>2
  <2> QED
    BY <2>1, <2>3
<1>6. c.op = "Relu" /\ OnlyReader(j, l) => Len(c.ins) = 1 /\ c.ins[1] = b.out
  BY <1>1, SameDescribed, ReadsFirst
<1>7. m[a.out] = NodeTerm(a, m) /\ m[b.out] = NodeTerm(b, m) /\ m[c.out] = NodeTerm(c, m)
  BY MeaningSolves, NodeMeaning
<1> HIDE DEF m
<1>8. NodeTerm(node, m) = m[node.out]
  <2>1. \/ c = b /\ node.op = "FusedConvBatchNorm"
        \/ /\ c.op = "Relu" /\ Len(c.ins) = 1 /\ c.ins[1] = b.out
           /\ node.op = "FusedConvBatchNormRelu"
    BY <1>6
  <2>2. NodeTerm(node, m) = NodeTerm(c, m)
    <3>1. a.op = "Conv" /\ b.op = "BatchNormalization" /\ node.ins = a.ins \o Tail(b.ins)
      OBVIOUS
    <3> HIDE DEF a, b, c
    <3>2. FusesConv(a, b, c, node, m)
      BY <1>1, <1>3, <1>5, <1>7, <2>1, <3>1 DEF FusesConv
    <3> QED
      BY ONLY <3>2, FusedConvComputes
  <2> QED
    BY <1>7, <2>2
<1>9. i # j /\ i # l /\ \A k \in DOMAIN nodes : Reads(nodes, k, a.out) <=> k = j
  BY DEF OnlyReader
<1>10. l # j => \A k \in DOMAIN nodes : Reads(nodes, k, b.out) <=> k = l
  BY DEF OnlyReader
<1>11. removed = {j, l} /\ a.out \notin outputs /\ (l # j => b.out \notin outputs)
  BY <1>9, <1>10 DEF InnersUnobserved, FusesBlindly
<1>12. \A v \in Absorbed(nodes, i, node, removed) : v = a.out \/ (l # j /\ v = b.out)
  BY <1>11 DEF Absorbed
<1>13. \A k \in DOMAIN node.ins : node.ins[k] # a.out /\ (l # j => node.ins[k] # b.out)
  <2>1. \A k \in DOMAIN a.ins : a.ins[k] # a.out /\ (l # j => a.ins[k] # b.out)
    BY <1>9, <1>10 DEF Reads
  <2>2. \A k \in 2..Len(b.ins) : b.ins[k] # a.out
    BY <1>4, <1>5, ReadsOnce
  <2>3. l # j => \A k \in 2..Len(b.ins) : b.ins[k] # b.out
    BY <1>2, <1>10 DEF Reads
  <2>4. node.ins = a.ins \o Tail(b.ins)
    OBVIOUS
  <2> DEFINE x == a.ins
             y == b.ins
  <2>5. /\ x \in Seq(Value) /\ y \in Seq(Value) /\ y # <<>>
        /\ \A k \in DOMAIN x : x[k] # a.out /\ (l # j => x[k] # b.out)
        /\ \A k \in 2..Len(y) : y[k] # a.out /\ (l # j => y[k] # b.out)
        /\ node.ins = x \o Tail(y)
    BY <1>2, <1>4, <2>1, <2>2, <2>3, <2>4
  <2> HIDE DEF x, y
  <2>6. ASSUME NEW v, v = a.out \/ (l # j /\ v = b.out)
        PROVE  \A k \in DOMAIN (x \o Tail(y)) : (x \o Tail(y))[k] # v
    <3>1. (\A k \in DOMAIN x : x[k] # v) /\ (\A k \in 2..Len(y) : y[k] # v)
      BY <2>5, <2>6
    <3> QED
      BY ONLY <2>5, <3>1, JoinedReads
  <2>7. \A k \in DOMAIN node.ins : node.ins[k] # a.out
    BY <2>5, <2>6
  <2>8. l # j => \A k \in DOMAIN node.ins : node.ins[k] # b.out
    BY <2>5, <2>6
  <2> QED
    BY <2>7, <2>8
<1>14. \A v \in Absorbed(nodes, i, node, removed) :
         /\ \A k \in DOMAIN nodes \ (removed \cup {i}) : ~Reads(nodes, k, v)
         /\ \A k \in DOMAIN node.ins : node.ins[k] # v
         /\ v \notin outputs
  BY <1>9, <1>10, <1>11, <1>12, <1>13
<1>15. node.op \notin BlindlyFused
  BY DEF BlindlyFused
<1> QED
  BY <1>8, <1>9, <1>11, <1>14, <1>15 DEF MergeKeeps, m

(* What is needed from a node on, given what is needed behind it.          *)
AlsoNeeded(node, behind) ==
  IF node.out \in behind THEN behind \cup {node.ins[k] : k \in DOMAIN node.ins} ELSE behind

(* f[j] is what is needed from node j on, for j from i to the end.         *)
NeededIs(ns, outs, i, f) ==
  f = [j \in i..(Len(ns) + 1) |-> IF j > Len(ns) THEN outs ELSE AlsoNeeded(ns[j], f[j + 1])]

(* There is such a function from k on, and all that start by then agree    *)
(* on k.                                                                   *)
NeededAt(ns, outs, k) ==
  /\ \E f : NeededIs(ns, outs, k, f)
  /\ \A i, j \in 1..k : \A f, g :
       NeededIs(ns, outs, i, f) /\ NeededIs(ns, outs, j, g) => f[k] = g[k]

(* So it is for every node.                                                *)
LEMMA NeededExists ==
  ASSUME NEW ns, Len(ns) \in Nat, NEW outs
  PROVE  \A k \in 1..(Len(ns) + 1) : NeededAt(ns, outs, k)
<1> DEFINE n == Len(ns)
           S == {d \in Nat : d <= n => NeededAt(ns, outs, n + 1 - d)}
<1>1. ASSUME NEW i \in Nat, NEW f, NeededIs(ns, outs, i, f), NEW j \in i..(n + 1)
      PROVE  f[j] = IF j > n THEN outs ELSE AlsoNeeded(ns[j], f[j + 1])
  <2> DEFINE step(k) == IF k > n THEN outs ELSE AlsoNeeded(ns[k], f[k + 1])
  <2>1. f = [k \in i..(n + 1) |-> step(k)]
    BY <1>1 DEF NeededIs
  <2> HIDE DEF step
  <2>2. f[j] = step(j)
    BY <2>1
  <2> QED
    BY <2>2 DEF step
<1>2. 0 \in S
  <2>1. n + 1 - 0 = n + 1 /\ n + 1 > n /\ n + 1 \in (n + 1)..(n + 1)
    OBVIOUS
  <2>2. \E f : NeededIs(ns, outs, n + 1, f)
    <3> DEFINE f == [j \in (n + 1)..(n + 1) |-> outs]
    <3>1. \A j \in (n + 1)..(n + 1) : j > n
      OBVIOUS
    <3>2. f = [j \in (n + 1)..(n + 1) |->
                 IF j > n THEN outs ELSE AlsoNeeded(ns[j], f[j + 1])]
      BY <3>1
    <3> HIDE DEF f
    <3> QED
      BY <3>2 DEF NeededIs
  <2>3. ASSUME NEW i \in 1..(n + 1), NEW j \in 1..(n + 1), NEW f, NEW g,
               NeededIs(ns, outs, i, f), NeededIs(ns, outs, j, g)
        PROVE  f[n + 1] = g[n + 1]
    <3>1. /\ n + 1 \in i..(n + 1) /\ n + 1 \in j..(n + 1) /\ n + 1 > n
          /\ i \in Nat /\ j \in Nat
      OBVIOUS
    <3>2. f[n + 1] = outs
      BY <1>1, <2>3, <3>1
    <3>3. g[n + 1] = outs
      BY <1>1, <2>3, <3>1
    <3> QED
      BY <3>2, <3>3
  <2>4. NeededAt(ns, outs, n + 1)
    <3> HIDE DEF n
    <3> QED
      BY <2>2, <2>3 DEF NeededAt
  <2> QED
    BY <2>1, <2>4
<1>3. ASSUME NEW d \in Nat, d \in S PROVE d + 1 \in S
  <2> SUFFICES ASSUME d + 1 <= n PROVE NeededAt(ns, outs, n + 1 - (d + 1))
    OBVIOUS
  <2> DEFINE k == n - d
  <2>1. /\ n + 1 - (d + 1) = k /\ n + 1 - d = k + 1 /\ k \in 1..n /\ k \in Nat /\ ~(k > n)
        /\ d <= n
    <3>1. \A m, e \in Nat : e + 1 <= m =>
            /\ m + 1 - (e + 1) = m - e /\ m + 1 - e = (m - e) + 1 /\ m - e \in 1..m
            /\ m - e \in Nat /\ ~(m - e > m) /\ e <= m
      OBVIOUS
    <3>2. n \in Nat
      OBVIOUS
    <3> QED
      BY <3>1, <3>2, Zenon
  <2> HIDE DEF k
  <2>2. /\ \E f : NeededIs(ns, outs, k + 1, f)
        /\ \A i, j \in 1..(k + 1) : \A f, g :
             NeededIs(ns, outs, i, f) /\ NeededIs(ns, outs, j, g) => f[k + 1] = g[k + 1]
    <3>1. NeededAt(ns, outs, k + 1)
      BY <1>3, <2>1
    <3> QED
      BY <3>1 DEF NeededAt
  <2>3. \E f : NeededIs(ns, outs, k, f)
    <3>1. PICK g : NeededIs(ns, outs, k + 1, g)
      BY <2>2
    <3> DEFINE first == AlsoNeeded(ns[k], g[k + 1])
               f == [j \in k..(n + 1) |-> IF j = k THEN first ELSE g[j]]
               step(j) == IF j > n THEN outs ELSE AlsoNeeded(ns[j], f[j + 1])
    <3>2. ASSUME NEW j \in k..(n + 1) PROVE f[j] = step(j)
      <4>1. CASE j = k
        <5>1. f[j] = first /\ k + 1 \in k..(n + 1) /\ k + 1 # k
          BY <2>1, <4>1
        <5>2. f[k + 1] = g[k + 1]
          BY <5>1
        <5> HIDE DEF f
        <5> QED
          BY <2>1, <4>1, <5>1, <5>2
      <4>2. CASE j # k
        <5>1. j \in (k + 1)..(n + 1) /\ f[j] = g[j]
          BY <2>1, <4>2
        <5>2. k + 1 \in Nat
          BY <2>1
        <5>3. g[j] = IF j > n THEN outs ELSE AlsoNeeded(ns[j], g[j + 1])
          BY <1>1, <3>1, <5>1, <5>2
        <5>4. ~(j > n) => f[j + 1] = g[j + 1]
          BY <2>1, <5>1
        <5> HIDE DEF f
        <5> QED
          BY <5>1, <5>3, <5>4
      <4> QED
        BY <4>1, <4>2
    <3>3. f = [j \in k..(n + 1) |-> f[j]]
      OBVIOUS
    <3> HIDE DEF f
    <3>4. NeededIs(ns, outs, k, f)
      BY <3>2, <3>3 DEF NeededIs
    <3> QED
      BY <3>4
  <2>4. ASSUME NEW i \in 1..k, NEW j \in 1..k, NEW f, NEW g,
               NeededIs(ns, outs, i, f), NeededIs(ns, outs, j, g)
        PROVE  f[k] = g[k]
    <3>1. /\ k \in i..(n + 1) /\ k \in j..(n + 1) /\ i \in 1..(k + 1) /\ j \in 1..(k + 1)
          /\ i \in Nat /\ j \in Nat
      BY <2>1
    <3>2. f[k] = AlsoNeeded(ns[k], f[k + 1])
      BY <1>1, <2>1, <2>4, <3>1
    <3>3. g[k] = AlsoNeeded(ns[k], g[k + 1])
      BY <1>1, <2>1, <2>4, <3>1
    <3>4. f[k + 1] = g[k + 1]
      BY <2>2, <2>4, <3>1
    <3> QED
      BY <3>2, <3>3, <3>4
  <2>5. NeededAt(ns, outs, k)
    BY <2>3, <2>4 DEF NeededAt
  <2> QED
    BY <2>1, <2>5
<1> HIDE DEF S
<1>4. Nat \subseteq S
  BY <1>2, <1>3, SetInduction
<1>5. ASSUME NEW k \in 1..(n + 1) PROVE NeededAt(ns, outs, k)
  <2>1. (n + 1) - k \in Nat /\ (n + 1) - k <= n /\ n + 1 - ((n + 1) - k) = k
    OBVIOUS
  <2>2. (n + 1) - k \in S
    BY <1>4, <2>1
  <2> QED
    BY <2>1, <2>2 DEF S
<1> QED
  BY <1>5

(* What is needed from a node on, step by step.                            *)
LEMMA NeededSteps ==
  ASSUME NEW ns, Len(ns) \in Nat, NEW outs
  PROVE  /\ NeededFrom(ns, outs, Len(ns) + 1) = outs
         /\ \A i \in 1..Len(ns) :
              NeededFrom(ns, outs, i) = AlsoNeeded(ns[i], NeededFrom(ns, outs, i + 1))
<1> DEFINE n == Len(ns)
           need(i) == CHOOSE f : NeededIs(ns, outs, i, f)
<1>1. ASSUME NEW i \in 1..(n + 1)
      PROVE  NeededFrom(ns, outs, i) = need(i)[i] /\ NeededIs(ns, outs, i, need(i))
  <2> DEFINE Equation(f) ==
               f = [j \in i..(n + 1) |->
                      IF j > n THEN outs
                      ELSE IF ns[j].out \in f[j + 1]
                           THEN f[j + 1] \cup {ns[j].ins[k] : k \in DOMAIN ns[j].ins}
                           ELSE f[j + 1]]
             needed == CHOOSE f : Equation(f)
  <2>1. NeededFrom(ns, outs, i) = needed[i]
    BY DEF NeededFrom
  <2>2. \A f : Equation(f) <=> NeededIs(ns, outs, i, f)
    BY DEF NeededIs, AlsoNeeded
  <2>3. needed = need(i)
    <3> HIDE DEF Equation
    <3> QED
      BY <2>2
  <2>4. \E f : NeededIs(ns, outs, i, f)
    BY NeededExists DEF NeededAt
  <2> HIDE DEF needed
  <2>5. NeededIs(ns, outs, i, need(i))
    BY <2>4
  <2> QED
    BY <2>1, <2>3, <2>5
<1> HIDE DEF need
<1>2. ASSUME NEW i \in 1..(n + 1)
      PROVE  need(i)[i] = IF i > n THEN outs ELSE AlsoNeeded(ns[i], need(i)[i + 1])
  <2> DEFINE f == need(i)
             step(k) == IF k > n THEN outs ELSE AlsoNeeded(ns[k], f[k + 1])
  <2>1. f = [k \in i..(n + 1) |-> step(k)] /\ i \in i..(n + 1)
    BY <1>1 DEF NeededIs
  <2> HIDE DEF step, f
  <2>2. f[i] = step(i)
    BY <2>1
  <2> QED
    BY <2>2 DEF step, f
<1>3. ASSUME NEW i \in 1..n PROVE need(i)[i + 1] = need(i + 1)[i + 1]
  <2>1. /\ i \in 1..(i + 1) /\ i + 1 \in 1..(i + 1) /\ i \in 1..(n + 1) /\ i + 1 \in 1..(n + 1)
    OBVIOUS
  <2>2. NeededIs(ns, outs, i, need(i)) /\ NeededIs(ns, outs, i + 1, need(i + 1))
    BY <1>1, <2>1
  <2>3. NeededAt(ns, outs, i + 1)
    BY <2>1, NeededExists
  <2> QED
    BY <2>1, <2>2, <2>3 DEF NeededAt
<1>4. /\ n + 1 \in 1..(n + 1) /\ n + 1 > n
      /\ \A i \in 1..n : i \in 1..(n + 1) /\ ~(i > n) /\ i + 1 \in 1..(n + 1)
  OBVIOUS
<1>5. NeededFrom(ns, outs, n + 1) = outs
  BY <1>1, <1>2, <1>4
<1>6. ASSUME NEW i \in 1..n
      PROVE  NeededFrom(ns, outs, i) = AlsoNeeded(ns[i], NeededFrom(ns, outs, i + 1))
  <2>1. NeededFrom(ns, outs, i) = need(i)[i] /\ NeededFrom(ns, outs, i + 1) = need(i + 1)[i + 1]
    BY <1>1, <1>4
  <2> QED
    BY <1>2, <1>3, <1>4, <2>1
<1> QED
  BY <1>5, <1>6

(* More is needed from earlier nodes on, and the outputs always are.       *)
LEMMA NeededGrows ==
  ASSUME NEW ns, Len(ns) \in Nat, NEW outs
  PROVE  /\ \A i \in 1..(Len(ns) + 1) : outs \subseteq NeededFrom(ns, outs, i)
         /\ \A i, j \in 1..(Len(ns) + 1) :
              i <= j => NeededFrom(ns, outs, j) \subseteq NeededFrom(ns, outs, i)
<1> DEFINE n == Len(ns)
           N(i) == NeededFrom(ns, outs, i)
           S == {d \in Nat : d <= n =>
                   /\ outs \subseteq N(n + 1 - d)
                   /\ \A j \in (n + 1 - d)..(n + 1) : N(j) \subseteq N(n + 1 - d)}
<1>0. N(n + 1) = outs /\ \A i \in 1..n : N(i) = AlsoNeeded(ns[i], N(i + 1))
  BY NeededSteps
<1> HIDE DEF N
<1>1. N(n + 1) = outs /\ \A i \in 1..n : N(i + 1) \subseteq N(i)
  BY <1>0 DEF AlsoNeeded
<1>2. 0 \in S
  <2>1. n + 1 - 0 = n + 1 /\ \A j \in (n + 1)..(n + 1) : j = n + 1
    OBVIOUS
  <2> QED
    BY <1>1, <2>1
<1>3. ASSUME NEW d \in Nat, d \in S PROVE d + 1 \in S
  <2> SUFFICES ASSUME d + 1 <= n
               PROVE  /\ outs \subseteq N(n + 1 - (d + 1))
                      /\ \A j \in (n + 1 - (d + 1))..(n + 1) : N(j) \subseteq N(n + 1 - (d + 1))
    OBVIOUS
  <2> DEFINE k == n - d
  <2>1. /\ n + 1 - (d + 1) = k /\ n + 1 - d = k + 1 /\ k \in 1..n /\ d <= n
        /\ \A j \in k..(n + 1) : j = k \/ j \in (k + 1)..(n + 1)
    <3>1. \A m, e \in Nat : e + 1 <= m =>
            /\ m + 1 - (e + 1) = m - e /\ m + 1 - e = (m - e) + 1 /\ m - e \in 1..m /\ e <= m
            /\ \A j \in (m - e)..(m + 1) : j = m - e \/ j \in ((m - e) + 1)..(m + 1)
      OBVIOUS
    <3>2. n \in Nat
      OBVIOUS
    <3> QED
      BY <3>1, <3>2, Zenon
  <2> HIDE DEF k
  <2>2. outs \subseteq N(k + 1) /\ \A j \in (k + 1)..(n + 1) : N(j) \subseteq N(k + 1)
    BY <1>3, <2>1
  <2>3. N(k + 1) \subseteq N(k)
    BY <1>1, <2>1
  <2>4. \A j \in k..(n + 1) : N(j) \subseteq N(k)
    BY <2>1, <2>2, <2>3
  <2> QED
    BY <2>1, <2>2, <2>3, <2>4
<1> HIDE DEF S
<1>4. Nat \subseteq S
  BY <1>2, <1>3, SetInduction
<1>5. ASSUME NEW i \in 1..(n + 1)
      PROVE  outs \subseteq N(i) /\ \A j \in i..(n + 1) : N(j) \subseteq N(i)
  <2>1. (n + 1) - i \in Nat /\ (n + 1) - i <= n /\ n + 1 - ((n + 1) - i) = i
    OBVIOUS
  <2>2. (n + 1) - i \in S
    BY <1>4, <2>1
  <2> QED
    BY <2>1, <2>2 DEF S
<1>6. \A i, j \in 1..(n + 1) : i <= j => j \in i..(n + 1)
  OBVIOUS
<1> QED
  BY <1>5, <1>6 DEF N

(* In a list in order only dead nodes read what dead nodes compute, which  *)
(* is no output of the graph.                                              *)
LEMMA DeadUnread ==
  ASSUME NEW ns \in Seq(Node), InOrder(ns), NEW outs
  PROVE  /\ \A i, j \in DOMAIN ns :
              j \in DeadNodes(ns, outs) /\ Reads(ns, i, ns[j].out) => i \in DeadNodes(ns, outs)
         /\ \A j \in DeadNodes(ns, outs) : ns[j].out \notin outs
<1> DEFINE n == Len(ns)
           N(i) == NeededFrom(ns, outs, i)
<1>1. n \in Nat /\ DOMAIN ns = 1..n
  OBVIOUS
<1>2. /\ \A i \in 1..(n + 1) : outs \subseteq N(i)
      /\ \A i, j \in 1..(n + 1) : i <= j => N(j) \subseteq N(i)
      /\ \A i \in 1..n : N(i) = AlsoNeeded(ns[i], N(i + 1))
  BY <1>1, NeededGrows, NeededSteps
<1>3. DeadNodes(ns, outs) = {i \in DOMAIN ns : ns[i].out \notin N(i + 1)}
  BY DEF DeadNodes
<1> HIDE DEF N
<1>4. ASSUME NEW i \in DOMAIN ns, NEW j \in DOMAIN ns, ns[j].out \notin N(j + 1),
             Reads(ns, i, ns[j].out), ns[i].out \in N(i + 1)
      PROVE  FALSE
  <2>1. j < i
    BY <1>4 DEF InOrder
  <2>2. i \in 1..(n + 1) /\ j + 1 \in 1..(n + 1) /\ j + 1 <= i
    BY <1>1, <2>1
  <2>3. ns[j].out \in N(i)
    BY <1>1, <1>2, <1>4 DEF AlsoNeeded, Reads
  <2> QED
    BY <1>2, <1>4, <2>2, <2>3
<1>5. \A j \in DOMAIN ns : j + 1 \in 1..(n + 1)
  BY <1>1
<1> QED
  BY <1>2, <1>3, <1>4, <1>5

(* A list of the same nodes, and of fused ones, observes no more.          *)
LEMMA InnersKept ==
  ASSUME NEW ns, NEW new, NEW outs, InnersUnobserved(ns, outs),
         \A i \in DOMAIN new :
           (\E j \in DOMAIN ns : new[i] = ns[j]) \/ new[i].op \notin BlindlyFused
  PROVE  InnersUnobserved(new, outs)
<1> SUFFICES ASSUME NEW i \in DOMAIN new, NEW j \in DOMAIN new,
                    FusesBlindly(new[i].op, new[j].op), Reads(new, j, new[i].out)
             PROVE  new[i].out \notin outs
  BY DEF InnersUnobserved
<1>1. new[i].op \in BlindlyFused /\ new[j].op \in BlindlyFused
  BY DEF FusesBlindly, BlindlyFused
<1>2. PICK k \in DOMAIN ns : new[i] = ns[k]
  BY <1>1
<1>3. PICK l \in DOMAIN ns : new[j] = ns[l]
  BY <1>1
<1>4. Reads(ns, l, ns[k].out)
  BY <1>2, <1>3 DEF Reads
<1> QED
  BY <1>2, <1>3, <1>4 DEF InnersUnobserved

(* Sorting keeps what everything is computed as.                           *)
LEMMA SortingPreserves ==
  ASSUME NEW ns \in Seq(Node), OneProducer(ns), NoSelfRead(ns),
         Len(KahnOrder(ns)) = Len(ns), NEW outs \in SUBSET Value
  PROVE  SameOutputs(ns, Sorted(ns), outs)
<1> DEFINE n == Len(ns)
           new == Sorted(ns)
           order == KahnOrder(ns)
<1>1. n \in Nat /\ DOMAIN ns = 1..n
  OBVIOUS
<1>2. /\ OneProducer(new) /\ InOrder(new)
      /\ \A i \in DOMAIN new : \E j \in DOMAIN ns : new[i] = ns[j]
  BY SortedInOrder
<1>3. order \in Seq(1..n) /\ \A a, b \in DOMAIN order : order[a] = order[b] => a = b
  BY <1>1, KahnOrderGood DEF OrderGood
<1>4. \A i \in 1..n : \E a \in DOMAIN order : order[a] = i
  BY <1>1, <1>3, DistinctLength
<1>5. DOMAIN new = DOMAIN order /\ \A a \in DOMAIN order : new[a] = ns[order[a]]
  BY DEF Sorted
<1>6. new \in Seq(Node)
  <2>1. \A a \in DOMAIN order : ns[order[a]] \in Node
    BY <1>1, <1>3
  <2> HIDE DEF order, new
  <2>2. DOMAIN new = 1..Len(order) /\ \A a \in 1..Len(order) : new[a] \in Node
    BY <1>3, <1>5, <2>1
  <2>3. new = [a \in DOMAIN new |-> new[a]] /\ Len(order) \in Nat
    BY <1>3 DEF new, Sorted
  <2> QED
    BY <2>2, <2>3
<1> HIDE DEF new, order
<1>7. \A j \in DOMAIN ns : \E i \in DOMAIN new : new[i] = ns[j]
  BY <1>1, <1>4, <1>5
<1>8. Ranked(new)
  BY <1>2, <1>6, InOrderRanked
<1>9. Ranked(ns)
  BY <1>7, <1>8 DEF Ranked
<1>10. Rewrites(ns, new, {})
  BY <1>2, <1>6, <1>7, <1>8, <1>9, SameNodesRewrite
<1>11. \A v \in Value \ {} : Meaning(new)[v] = Meaning(ns)[v]
  BY <1>9, <1>10, RewritingPreserves
<1> QED
  BY <1>11 DEF SameOutputs, new

(* Removing dead nodes keeps what the outputs are computed as.             *)
LEMMA EliminationPreserves ==
  ASSUME NEW ns \in Seq(Node), OneProducer(ns), Ranked(ns), InOrder(ns), NEW outs \in SUBSET Value
  PROVE  SameOutputs(ns, RemoveNodes(ns, DeadNodes(ns, outs)), outs)
<1> DEFINE dead == DeadNodes(ns, outs)
           new == RemoveNodes(ns, dead)
           gone == {ns[j].out : j \in dead \cap DOMAIN ns}
<1>1. /\ \A i, j \in DOMAIN ns : j \in dead /\ Reads(ns, i, ns[j].out) => i \in dead
      /\ \A j \in dead : ns[j].out \notin outs
  BY DeadUnread
<1> HIDE DEF dead
<1>2. Rewrites(ns, new, gone)
  BY <1>1, RemovalRewrites
<1> HIDE DEF new
<1>3. \A v \in outs : v \in Value \ gone
  BY <1>1
<1> HIDE DEF gone
<1>4. \A v \in Value \ gone : Meaning(new)[v] = Meaning(ns)[v]
  BY <1>2, RewritingPreserves
<1> QED
  BY <1>3, <1>4 DEF SameOutputs, new, dead

(* Naming products alike keeps what everything is computed as.             *)
LEMMA RenamingPreserves ==
  ASSUME NEW ns \in Seq(Node), OneProducer(ns), Ranked(ns), NEW new \in Seq(Node),
         DOMAIN new = DOMAIN ns,
         \A i \in DOMAIN ns :
           /\ new[i].ins = ns[i].ins /\ new[i].out = ns[i].out
           /\ new[i] = ns[i] \/ (ns[i].op = "MatMul" /\ new[i].op = "Gemm"),
         NEW outs \in SUBSET Value
  PROVE  SameOutputs(ns, new, outs)
<1> DEFINE m == Meaning(ns)
<1>1. OneProducer(new)
  BY DEF OneProducer
<1>2. Ranked(new)
  BY DEF Ranked, Below
<1>3. Solves(ns, m)
  BY MeaningSolves
<1> HIDE DEF m
<1>4. ASSUME NEW i \in DOMAIN new PROVE m[new[i].out] = NodeTerm(new[i], m)
  <2>1. m[ns[i].out] = NodeTerm(ns[i], m)
    BY <1>3, NodeMeaning
  <2>2. NodeTerm(new[i], m) = NodeTerm(ns[i], m)
    BY NormalizedComputes
  <2> QED
    BY <2>1, <2>2
<1>5. \A v \in Value : Producers(new, v) = {} <=> Producers(ns, v) = {}
  BY DEF Producers
<1>6. Rewrites(ns, new, {})
  BY <1>1, <1>2, <1>4, <1>5 DEF Rewrites, m
<1>7. \A v \in Value \ {} : Meaning(new)[v] = Meaning(ns)[v]
  BY <1>6, RewritingPreserves
<1> QED
  BY <1>7 DEF SameOutputs

(* The outputs that fusions may not touch are no inner ones.               *)
InnersInv == InnersUnobserved(nodes, outputs)

(* A step keeps what the outputs are computed as, and that.                *)
KeepsOutputs == SameOutputs(nodes, nodes', outputs) /\ InnersUnobserved(nodes', outputs)

(* A step that leaves the nodes keeps everything.                          *)
LEMMA SameKeeps ==
  ASSUME InnersInv, nodes' = nodes
  PROVE  KeepsOutputs
BY DEF KeepsOutputs, InnersInv, SameOutputs

(* Sorting keeps the outputs.                                              *)
LEMMA SortKeepsOutputs ==
  ASSUME GraphInv, RunsInv, InnersInv, TopologicalSort
  PROVE  KeepsOutputs
<1>1. nodes \in Seq(Node) /\ outputs \in SUBSET Value
  BY DEF GraphInv, TypeOK
<1>2. OneProducer(nodes) /\ NoSelfRead(nodes)
  BY SortedReads DEF RunsInv, TopologicalSort
<1>3. CASE Len(KahnOrder(nodes)) = Len(nodes)
  <2>1. nodes' = Sorted(nodes)
    BY <1>3 DEF TopologicalSort, Sorted
  <2>2. SameOutputs(nodes, nodes', outputs)
    BY <1>1, <1>2, <1>3, <2>1, SortingPreserves
  <2>3. \A i \in DOMAIN nodes' : \E j \in DOMAIN nodes : nodes'[i] = nodes[j]
    BY <1>1, <1>2, <1>3, <2>1, SortedInOrder
  <2>4. InnersUnobserved(nodes', outputs)
    BY <2>3, InnersKept DEF InnersInv
  <2> QED
    BY <2>2, <2>4 DEF KeepsOutputs
<1>4. CASE Len(KahnOrder(nodes)) # Len(nodes)
  BY <1>4, SameKeeps DEF TopologicalSort
<1> QED
  BY <1>3, <1>4

(* Removing dead nodes keeps the outputs.                                  *)
LEMMA EliminationKeepsOutputs ==
  ASSUME GraphInv, RunsInv, InnersInv, EliminateDeadNodes
  PROVE  KeepsOutputs
<1>1. nodes \in Seq(Node) /\ outputs \in SUBSET Value
  BY DEF GraphInv, TypeOK
<1>2. Running("dead_node_elimination") /\ nodes' = RemoveNodes(nodes, DeadNodes(nodes, outputs))
  BY DEF EliminateDeadNodes
<1>3. All \in Nat /\ All >= 11 /\ Left \in Nat /\ (Left = All - 3 \/ Left = 2)
  BY <1>2, PassesLeft
<1>4. Left < All /\ (Left >= All - 3 \/ Left <= 4)
  BY <1>3
<1>5. OneProducer(nodes) /\ Ranked(nodes) /\ InOrder(nodes)
  BY <1>4 DEF RunsInv
<1>6. SameOutputs(nodes, nodes', outputs)
  BY <1>1, <1>2, <1>5, EliminationPreserves
<1>7. \A i \in DOMAIN nodes' : \E j \in DOMAIN nodes : nodes'[i] = nodes[j]
  BY <1>1, <1>2, RemovedNodes
<1>8. InnersUnobserved(nodes', outputs)
  BY <1>7, InnersKept DEF InnersInv
<1> QED
  BY <1>6, <1>8 DEF KeepsOutputs

(* Naming products alike keeps the outputs.                                *)
LEMMA NormalizationKeepsOutputs ==
  ASSUME GraphInv, RunsInv, InnersInv, Normalize
  PROVE  KeepsOutputs
<1> DEFINE new(i) == IF nodes[i].op = "MatMul" THEN [nodes[i] EXCEPT !.op = "Gemm"]
                     ELSE nodes[i]
<1>1. nodes \in Seq(Node) /\ outputs \in SUBSET Value
  BY DEF GraphInv, TypeOK
<1>2. /\ Running("flatten_gemm_normalization")
      /\ nodes' = [i \in DOMAIN nodes |-> new(i)]
  BY DEF Normalize
<1>3. ASSUME NEW i \in DOMAIN nodes
      PROVE  /\ new(i).ins = nodes[i].ins /\ new(i).out = nodes[i].out
             /\ \/ new(i) = nodes[i]
                \/ nodes[i].op = "MatMul" /\ new(i).op = "Gemm"
  <2>1. nodes[i] \in Node
    BY <1>1
  <2> QED
    BY <2>1 DEF Node
<1> HIDE DEF new
<1>4. /\ DOMAIN nodes' = DOMAIN nodes
      /\ \A i \in DOMAIN nodes :
           /\ nodes'[i].ins = nodes[i].ins /\ nodes'[i].out = nodes[i].out
           /\ nodes'[i] = nodes[i] \/ (nodes[i].op = "MatMul" /\ nodes'[i].op = "Gemm")
  BY <1>2, <1>3
<1>5. nodes' \in Seq(Node)
  BY NormalizationKeepsGraph DEF GraphInv, TypeOK
<1>6. OneProducer(nodes) /\ Ranked(nodes)
  <2>1. All \in Nat /\ All >= 11 /\ Left = 3
    BY <1>2, PassesLeft
  <2>2. Left < All
    BY <2>1
  <2> QED
    BY <2>2 DEF RunsInv
<1>7. SameOutputs(nodes, nodes', outputs)
  BY <1>1, <1>4, <1>5, <1>6, RenamingPreserves
<1>8. \A i \in DOMAIN nodes' :
        (\E j \in DOMAIN nodes : nodes'[i] = nodes[j]) \/ nodes'[i].op \notin BlindlyFused
  BY <1>4 DEF BlindlyFused
<1>9. InnersUnobserved(nodes', outputs)
  BY <1>8, InnersKept DEF InnersInv
<1> QED
  BY <1>7, <1>9 DEF KeepsOutputs

(* A merge keeps the outputs.                                              *)
LEMMA FusionKeepsOutputs ==
  ASSUME GraphInv, RunsInv, InnersInv, NEW pass \in FusionNames, NEW pairs, NEW fused,
         NEW removed, FusionPass(pass, pairs, fused, removed),
         pairs \subseteq (DOMAIN nodes) \X (DOMAIN nodes),
         /\ nodes \in Seq(Node) /\ known \in [Value -> Kind] /\ Consistent(nodes, known)
         /\ OneProducer(nodes) /\ Ranked(nodes) /\ ScalesGiven(nodes)
         => \A p \in pairs : /\ Replaces(nodes, p[1], fused[p], removed[p], known)
                             /\ MergeKeeps(nodes, p[1], fused[p], removed[p], outputs)
  PROVE  KeepsOutputs
<1>1. nodes \in Seq(Node) /\ outputs \in SUBSET Value /\ known \in [Value -> Kind]
  BY DEF GraphInv, TypeOK
<1>2. All \in Nat /\ Left \in Nat /\ Left > 5 /\ Left < All - 3
  BY PassesLeft DEF FusionPass
<1>3. Left < All /\ Left < All - 1
  BY <1>2
<1>4. OneProducer(nodes) /\ ScalesGiven(nodes) /\ Ranked(nodes) /\ Consistent(nodes, known)
  BY <1>3 DEF RunsInv
<1>5. CASE nodes' = nodes
  BY <1>5, SameKeeps
<1>6. CASE \E p \in pairs : nodes' = RemoveNodes([nodes EXCEPT ![p[1]] = fused[p]], removed[p])
  <2>1. PICK p \in pairs : nodes' = RemoveNodes([nodes EXCEPT ![p[1]] = fused[p]], removed[p])
    BY <1>6
  <2> DEFINE i == p[1]
             node == fused[p]
             gone == removed[p]
  <2>2. nodes' = MergedList(nodes, i, node, gone) /\ i \in DOMAIN nodes
    BY <2>1 DEF MergedList
  <2>3. Replaces(nodes, i, node, gone, known) /\ MergeKeeps(nodes, i, node, gone, outputs)
    BY <1>1, <1>4
  <2> HIDE DEF i, node, gone
  <2>4. SameOutputs(nodes, nodes', outputs)
    BY <1>1, <1>4, <2>2, <2>3, MergePreserves
  <2>5. node \in Node /\ node.op \notin BlindlyFused
    BY <2>3 DEF Replaces, MergeKeeps
  <2>6. \A a \in DOMAIN nodes' :
          (\E j \in DOMAIN nodes : nodes'[a] = nodes[j]) \/ nodes'[a].op \notin BlindlyFused
    <3>1. \A a \in DOMAIN nodes' :
            nodes'[a] = node \/ \E k \in DOMAIN nodes \ (gone \cup {i}) : nodes'[a] = nodes[k]
      BY <1>1, <2>2, <2>5, MergedNodes
    <3> QED
      BY <2>5, <3>1
  <2>7. InnersUnobserved(nodes', outputs)
    BY <2>6, InnersKept DEF InnersInv
  <2> QED
    BY <2>4, <2>7 DEF KeepsOutputs
<1> QED
  BY <1>5, <1>6 DEF FusionPass

(* The merged convolution computes what the merged nodes did.              *)
LEMMA ConvPairMerge ==
  ASSUME nodes \in Seq(Node), known \in [Value -> Kind], ScalesGiven(nodes),
         Consistent(nodes, known), NEW i, NEW j, NEW l, NEW node, NEW removed,
         ConvMerges(i, j, l, node, removed)
  PROVE  /\ Replaces(nodes, i, node, removed, known)
         /\ /\ OneProducer(nodes) /\ Ranked(nodes) /\ InnersUnobserved(nodes, outputs)
            => MergeKeeps(nodes, i, node, removed, outputs)
<1>1. /\ l \in DOMAIN nodes /\ l \in removed /\ (l = j \/ l \in FollowingRelu(j))
      /\ \/ l = j /\ removed = {j} /\ FusedConvOp(j) = "FusedConvBatchNorm"
         \/ /\ nodes[l].op = "Relu" /\ OnlyReader(j, l) /\ removed = {j, l}
            /\ FusedConvOp(j) = "FusedConvBatchNormRelu"
      /\ node \in Node /\ Replaces(nodes, i, node, removed, known)
  BY ConvPairReplaces
<1>2. node.op = FusedConvOp(j) /\ node.ins = nodes[i].ins \o Tail(nodes[j].ins)
      /\ node.out = nodes[l].out
      /\ node = [op |-> node.op, ins |-> node.ins, out |-> node.out]
      /\ i \in DOMAIN nodes /\ j \in DOMAIN nodes /\ OnlyReader(i, j)
      /\ nodes[i].op = "Conv" /\ nodes[j].op = "BatchNormalization"
  BY DEF ConvMerges
<1>3. ASSUME OneProducer(nodes), Ranked(nodes), InnersUnobserved(nodes, outputs)
      PROVE  MergeKeeps(nodes, i, node, removed, outputs)
  BY <1>1, <1>2, <1>3, FusedConvMergeKeeps
<1> QED
  BY <1>1, <1>3

(* Conv and normalisation.                                                 *)
LEMMA ConvFusionKeepsOutputs ==
  ASSUME GraphInv, RunsInv, InnersInv, FuseConvBatchNormRelu
  PROVE  KeepsOutputs
<1> DEFINE pairs == Pairs("Conv", "BatchNormalization")
           removed == [p \in pairs |-> {p[2]} \cup FollowingRelu(p[2])]
           last(p) == IF FollowingRelu(p[2]) = {} THEN p[2]
                      ELSE CHOOSE relu \in FollowingRelu(p[2]) : TRUE
           fused == [p \in pairs |->
                       [op |-> FusedConvOp(p[2]),
                        ins |-> nodes[p[1]].ins \o Tail(nodes[p[2]].ins),
                        out |-> nodes[last(p)].out]]
<1>1. FusionPass("conv_batchnorm_relu_fusion", pairs, fused, removed)
  BY DEF FuseConvBatchNormRelu
<1>2. ASSUME nodes \in Seq(Node), known \in [Value -> Kind], Consistent(nodes, known),
             OneProducer(nodes), Ranked(nodes), ScalesGiven(nodes), NEW p \in pairs
      PROVE  /\ Replaces(nodes, p[1], fused[p], removed[p], known)
             /\ MergeKeeps(nodes, p[1], fused[p], removed[p], outputs)
  <2> DEFINE i == p[1]
             j == p[2]
             l == last(p)
             node == fused[p]
             gone == removed[p]
  <2>1. /\ i \in DOMAIN nodes /\ j \in DOMAIN nodes /\ OnlyReader(i, j)
        /\ nodes[i].op = "Conv" /\ nodes[j].op = "BatchNormalization"
    BY DEF Pairs
  <2>2. ConvMerges(i, j, l, node, gone)
    BY <2>1 DEF ConvMerges
  <2> HIDE DEF i, j, l, node, gone
  <2>3. Replaces(nodes, i, node, gone, known) /\ MergeKeeps(nodes, i, node, gone, outputs)
    BY <1>2, <2>2, ConvPairMerge DEF InnersInv
  <2> QED
    BY <2>3 DEF i, node, gone
<1>3. pairs \subseteq (DOMAIN nodes) \X (DOMAIN nodes)
  BY DEF Pairs
<1>4. "conv_batchnorm_relu_fusion" \in FusionNames
  BY DEF FusionNames
<1> HIDE DEF pairs, fused, removed
<1> QED
  BY <1>1, <1>2, <1>3, <1>4, FusionKeepsOutputs

(* Add and Relu.                                                           *)
LEMMA AddFusionKeepsOutputs ==
  ASSUME GraphInv, RunsInv, InnersInv, FuseAddRelu
  PROVE  KeepsOutputs
<1> DEFINE pairs == Pairs("Add", "Relu")
           fused == [p \in pairs |-> Merged("AddRelu", p[1], p[2])]
           removed == [p \in pairs |-> {p[2]}]
<1>1. FusionPass("add_relu_fusion", pairs, fused, removed)
  BY DEF FuseAddRelu
<1>2. pairs \subseteq (DOMAIN nodes) \X (DOMAIN nodes) /\ "AddRelu" \in Op
  BY DEF Pairs, Op, Elementwise
<1>3. \A p \in pairs : OnlyReader(p[1], p[2]) /\ nodes[p[1]].op = "Add" /\ nodes[p[2]].op = "Relu"
  BY DEF Pairs
<1>4. \A p \in pairs : nodes[p[1]].out \notin outputs
  <2> SUFFICES ASSUME NEW p \in pairs PROVE nodes[p[1]].out \notin outputs
    OBVIOUS
  <2>1. Reads(nodes, p[2], nodes[p[1]].out)
    BY <1>2, <1>3 DEF OnlyReader
  <2> QED
    BY <1>2, <1>3, <2>1 DEF InnersInv, InnersUnobserved, FusesBlindly
<1>5. ASSUME nodes \in Seq(Node), known \in [Value -> Kind], Consistent(nodes, known),
             OneProducer(nodes), Ranked(nodes), ScalesGiven(nodes), NEW p \in pairs
      PROVE  /\ Replaces(nodes, p[1], Merged("AddRelu", p[1], p[2]), {p[2]}, known)
             /\ MergeKeeps(nodes, p[1], Merged("AddRelu", p[1], p[2]), {p[2]}, outputs)
  BY <1>2, <1>3, <1>4, <1>5, MergedReplaces, MergedMergeKeeps
<1>6. \A p \in pairs : fused[p] = Merged("AddRelu", p[1], p[2]) /\ removed[p] = {p[2]}
  OBVIOUS
<1>7. "add_relu_fusion" \in FusionNames
  BY DEF FusionNames
<1> HIDE DEF pairs, fused, removed
<1> QED
  BY <1>1, <1>2, <1>5, <1>6, <1>7, FusionKeepsOutputs

(* Gemm and Gelu.                                                          *)
LEMMA GemmFusionKeepsOutputs ==
  ASSUME GraphInv, RunsInv, InnersInv, FuseGemmGelu
  PROVE  KeepsOutputs
<1> DEFINE pairs == Unobserved(Pairs("Gemm", "Gelu"))
           fused == [p \in pairs |-> Merged("GemmGelu", p[1], p[2])]
           removed == [p \in pairs |-> {p[2]}]
<1>1. FusionPass("gemm_gelu_fusion", pairs, fused, removed)
  BY DEF FuseGemmGelu
<1>2. pairs \subseteq (DOMAIN nodes) \X (DOMAIN nodes) /\ "GemmGelu" \in Op
  BY DEF Pairs, Unobserved, Op, GemmLike
<1>3. \A p \in pairs : /\ OnlyReader(p[1], p[2]) /\ nodes[p[1]].op = "Gemm"
                       /\ nodes[p[2]].op = "Gelu" /\ nodes[p[1]].out \notin outputs
  BY DEF Pairs, Unobserved
<1>4. ASSUME nodes \in Seq(Node), known \in [Value -> Kind], Consistent(nodes, known),
             OneProducer(nodes), Ranked(nodes), ScalesGiven(nodes), NEW p \in pairs
      PROVE  /\ Replaces(nodes, p[1], Merged("GemmGelu", p[1], p[2]), {p[2]}, known)
             /\ MergeKeeps(nodes, p[1], Merged("GemmGelu", p[1], p[2]), {p[2]}, outputs)
  BY <1>2, <1>3, <1>4, MergedReplaces, MergedMergeKeeps
<1>5. \A p \in pairs : fused[p] = Merged("GemmGelu", p[1], p[2]) /\ removed[p] = {p[2]}
  OBVIOUS
<1>6. "gemm_gelu_fusion" \in FusionNames
  BY DEF FusionNames
<1> HIDE DEF pairs, fused, removed
<1> QED
  BY <1>1, <1>2, <1>4, <1>5, <1>6, FusionKeepsOutputs

(* Add and layer normalisation.                                            *)
LEMMA NormFusionKeepsOutputs ==
  ASSUME GraphInv, RunsInv, InnersInv, FuseSkipLayerNormalization
  PROVE  KeepsOutputs
<1> DEFINE pairs == {p \in Unobserved(Pairs("Add", "LayerNormalization")) :
                       /\ Len(nodes[p[2]].ins) = 3
                       /\ nodes[p[2]].ins[1] = nodes[p[1]].out}
           fused == [p \in pairs |-> SkipLayerNormalization(p[1], p[2])]
           removed == [p \in pairs |-> {p[2]}]
<1>1. FusionPass("skip_layer_norm_fusion", pairs, fused, removed)
  BY DEF FuseSkipLayerNormalization
<1>2. pairs \subseteq (DOMAIN nodes) \X (DOMAIN nodes)
  BY DEF Pairs, Unobserved
<1>3. \A p \in pairs : /\ OnlyReader(p[1], p[2]) /\ nodes[p[1]].op = "Add"
                       /\ nodes[p[2]].op = "LayerNormalization"
                       /\ Len(nodes[p[2]].ins) = 3 /\ nodes[p[2]].ins[1] = nodes[p[1]].out
                       /\ nodes[p[1]].out \notin outputs
  BY DEF Pairs, Unobserved
<1>4. ASSUME nodes \in Seq(Node), known \in [Value -> Kind], Consistent(nodes, known),
             OneProducer(nodes), Ranked(nodes), ScalesGiven(nodes), NEW p \in pairs
      PROVE  /\ Replaces(nodes, p[1], SkipLayerNormalization(p[1], p[2]), {p[2]}, known)
             /\ MergeKeeps(nodes, p[1], SkipLayerNormalization(p[1], p[2]), {p[2]}, outputs)
  BY <1>2, <1>3, <1>4, SkipNormReplaces, SkipNormMergeKeeps
<1>5. \A p \in pairs : fused[p] = SkipLayerNormalization(p[1], p[2]) /\ removed[p] = {p[2]}
  OBVIOUS
<1>6. "skip_layer_norm_fusion" \in FusionNames
  BY DEF FusionNames
<1> HIDE DEF pairs, fused, removed
<1> QED
  BY <1>1, <1>2, <1>4, <1>5, <1>6, FusionKeepsOutputs

(* Every step of the passes keeps the outputs.                             *)
LEMMA PassStepKeepsOutputs ==
  ASSUME GraphInv, RunsInv, InnersInv, PassStep
  PROVE  KeepsOutputs /\ outputs' = outputs
<1>1. outputs' = outputs
  BY DEF PassStep, TopologicalSort, InferShapes, FoldConstants, EliminateDeadNodes,
         FuseConvBatchNormRelu, FuseAddRelu, FuseGemmGelu, FuseSkipLayerNormalization,
         FusionPass, Normalize, ValidateShapes, Finish
<1>2. ASSUME InferShapes \/ FoldConstants \/ ValidateShapes \/ Finish PROVE KeepsOutputs
  <2>1. nodes' = nodes
    BY <1>2 DEF InferShapes, FoldConstants, ValidateShapes, Finish
  <2> QED
    BY <2>1, SameKeeps
<1>3. KeepsOutputs
  BY <1>2, SortKeepsOutputs, EliminationKeepsOutputs, ConvFusionKeepsOutputs,
     AddFusionKeepsOutputs, GemmFusionKeepsOutputs, NormFusionKeepsOutputs,
     NormalizationKeepsOutputs DEF PassStep
<1> QED
  BY <1>1, <1>3

(* Of a well-made graph whose fusable inner values are no outputs, no pass *)
(* changes what an output is computed as.                                  *)
THEOREM PassesPreserveOutputs ==
  ASSUME \A g \in Graphs : WellMade(g.nodes) /\ InnersUnobserved(g.nodes, g.outputs)
  PROVE  Spec => OutputsPreserved
<1> DEFINE Inv == GraphInv /\ RunsInv /\ InnersInv
           Preserved == [nodes' # nodes =>
                           \A v \in outputs : Meaning(nodes')[v] = Meaning(nodes)[v]]_vars
<1>1. Init => Inv
  <2> SUFFICES ASSUME Init PROVE Inv
    OBVIOUS
  <2>1. PICK g \in Graphs : nodes = g.nodes /\ outputs = g.outputs /\ known = g.known
    BY DEF Init
  <2>2. /\ g.nodes \in Seq(Node) /\ g.outputs \subseteq Value /\ g.known \in [Value -> Kind]
        /\ WellMade(g.nodes) /\ InnersUnobserved(g.nodes, g.outputs)
    BY <2>1, GraphAssumption
  <2> QED
    BY <2>1, <2>2, GraphStart, RunsStart DEF Init, InnersInv
<1>2. Inv /\ [Next]_vars => Inv' /\ Preserved
  <2> SUFFICES ASSUME Inv, [Next]_vars PROVE Inv' /\ Preserved
    OBVIOUS
  <2>1. CASE PassStep
    <3>1. GraphInv' /\ RunsInv'
      BY <2>1, PassStepKeepsGraph, PassStepRuns
    <3>2. KeepsOutputs /\ outputs' = outputs
      BY <2>1, PassStepKeepsOutputs
    <3>3. InnersInv'
      BY <3>2 DEF KeepsOutputs, InnersInv
    <3>4. Preserved
      BY <3>2 DEF KeepsOutputs, SameOutputs
    <3> QED
      BY <3>1, <3>3, <3>4
  <2>2. CASE UNCHANGED vars
    <3>1. GraphInv'
      BY <2>2 DEF vars, GraphInv, TypeOK, PassesInOrder, Remaining, NodesWellFormed, WellFormed,
                  Pipeline
    <3>2. /\ nodes' = nodes /\ known' = known /\ Left' = Left /\ status' = status
          /\ passes' = passes /\ outputs' = outputs
      BY <2>2 DEF vars, Left
    <3>3. RunsInv'
      BY <3>2, AllFixed DEF RunsInv
    <3>4. InnersInv'
      BY <3>2 DEF InnersInv
    <3> QED
      BY <2>2, <3>1, <3>3, <3>4
  <2> QED
    BY <2>1, <2>2 DEF Next, Stopped
<1> QED
  BY <1>1, <1>2, PTL DEF Spec, OutputsPreserved
-----------------------------------------------------------------------------
(* No node computes a value of S.                                          *)
Untouched(ns, S) == \A i \in DOMAIN ns : ns[i].out \notin S

(* Inference leaves alone what no node computes.                           *)
LEMMA InferenceLeaves ==
  ASSUME NEW ns \in Seq(Node), NEW kinds \in [Value -> Kind], NEW v \in Value,
         \A i \in DOMAIN ns : ns[i].out # v
  PROVE  Inferred(ns, kinds).known[v] = kinds[v]
<1> DEFINE n == Len(ns)
<1>1. PICK after : InferredSteps(ns, kinds, after) /\ Inferred(ns, kinds) = after[n]
  BY InferredUnfolds
<1>2. n \in Nat /\ DOMAIN ns = 1..n
  OBVIOUS
<1> DEFINE T == {i \in Nat : i <= n => after[i].known[v] = kinds[v]}
<1>3. 0 \in T
  BY <1>1 DEF InferredSteps
<1>4. ASSUME NEW i \in Nat, i \in T PROVE i + 1 \in T
  <2> SUFFICES ASSUME i + 1 <= n PROVE after[i + 1].known[v] = kinds[v]
    OBVIOUS
  <2>1. i + 1 \in 1..n /\ i \in 0..n /\ (i + 1) - 1 = i /\ after[i].known[v] = kinds[v]
    BY <1>2, <1>4
  <2>2. after[i + 1] = Infer(ns[i + 1], after[i]) /\ after[i] \in Found
    BY <1>1, <2>1 DEF InferredSteps
  <2>3. ns[i + 1].out # v
    BY <1>2, <2>1
  <2> QED
    BY <2>1, <2>2, <2>3 DEF Infer, Found
<1>5. n \in T
  <2> HIDE DEF T, n
  <2>1. Nat \subseteq T
    BY <1>3, <1>4, SetInduction
  <2> QED
    BY <1>2, <2>1
<1> QED
  BY <1>1, <1>2, <1>5

(* A fusion whose nodes compute what a merged node did adds no producer.   *)
LEMMA FusionLeaves ==
  ASSUME nodes \in Seq(Node), NEW S, Untouched(nodes, S),
         NEW pass, NEW pairs, NEW fused, NEW removed, FusionPass(pass, pairs, fused, removed),
         \A p \in pairs : /\ p[1] \in DOMAIN nodes /\ fused[p] \in Node
                          /\ \E k \in DOMAIN nodes : fused[p].out = nodes[k].out
  PROVE  Untouched(nodes', S) /\ known' = known
<1>1. known' = known
  BY DEF FusionPass
<1>2. CASE nodes' = nodes
  BY <1>1, <1>2
<1>3. CASE \E p \in pairs : nodes' = RemoveNodes([nodes EXCEPT ![p[1]] = fused[p]], removed[p])
  <2>1. PICK p \in pairs : nodes' = RemoveNodes([nodes EXCEPT ![p[1]] = fused[p]], removed[p])
    BY <1>3
  <2> DEFINE merged == [nodes EXCEPT ![p[1]] = fused[p]]
  <2>2. merged \in Seq(Node) /\ DOMAIN merged = DOMAIN nodes
    BY <2>1, ExceptSeq
  <2>3. \A k \in DOMAIN merged : merged[k].out \notin S
    <3> SUFFICES ASSUME NEW k \in DOMAIN nodes PROVE merged[k].out \notin S
      BY <2>2
    <3>1. CASE k = p[1]
      BY <2>1, <3>1 DEF Untouched
    <3>2. CASE k # p[1]
      BY <3>2 DEF Untouched
    <3> QED
      BY <3>1, <3>2
  <2>4. nodes' = RemoveNodes(merged, removed[p])
    BY <2>1
  <2> HIDE DEF merged
  <2>5. \A i \in DOMAIN nodes' : \E k \in DOMAIN merged : nodes'[i] = merged[k]
    BY <2>2, <2>4, RemovedNodes
  <2> QED
    BY <1>1, <2>3, <2>5 DEF Untouched
<1> QED
  BY <1>2, <1>3 DEF FusionPass

(* No pass adds a producer of a value that has none, or describes it.      *)
LEMMA PassStepLeaves ==
  ASSUME GraphInv, PassStep, NEW S, S \subseteq Value, Untouched(nodes, S)
  PROVE  Untouched(nodes', S) /\ \A v \in S : known'[v] = known[v]
<1>1. nodes \in Seq(Node) /\ known \in [Value -> Kind]
  BY DEF GraphInv, TypeOK
<1>2. CASE TopologicalSort
  <2> DEFINE order == KahnOrder(nodes)
  <2>1. Len(nodes) \in Nat /\ DOMAIN nodes = 1..Len(nodes)
    BY <1>1
  <2>2. order \in Seq(1..Len(nodes))
    BY <2>1, KahnOrderTyped
  <2>3. known' = known /\ (nodes' = [i \in DOMAIN order |-> nodes[order[i]]] \/ nodes' = nodes)
    BY <1>2 DEF TopologicalSort
  <2> HIDE DEF order
  <2>4. \A i \in DOMAIN order : order[i] \in DOMAIN nodes
    BY <2>1, <2>2
  <2> QED
    BY <2>3, <2>4 DEF Untouched
<1>3. CASE InferShapes
  <2>1. nodes' = nodes /\ known' = Inferred(nodes, known).known
    BY <1>3 DEF InferShapes
  <2> QED
    BY <1>1, <2>1, InferenceLeaves DEF Untouched
<1>4. CASE EliminateDeadNodes
  <2>1. nodes' = RemoveNodes(nodes, DeadNodes(nodes, outputs)) /\ known' = known
    BY <1>4 DEF EliminateDeadNodes
  <2>2. \A i \in DOMAIN nodes' : \E k \in DOMAIN nodes : nodes'[i] = nodes[k]
    BY <1>1, <2>1, RemovedNodes
  <2> QED
    BY <2>1, <2>2 DEF Untouched
<1>5. CASE FuseConvBatchNormRelu
  <2> DEFINE pairs == Pairs("Conv", "BatchNormalization")
             removed == [p \in pairs |-> {p[2]} \cup FollowingRelu(p[2])]
             end(p) == IF FollowingRelu(p[2]) = {} THEN p[2]
                       ELSE CHOOSE relu \in FollowingRelu(p[2]) : TRUE
             fused == [p \in pairs |->
                         [op |-> FusedConvOp(p[2]),
                          ins |-> nodes[p[1]].ins \o Tail(nodes[p[2]].ins),
                          out |-> nodes[end(p)].out]]
  <2>1. FusionPass("conv_batchnorm_relu_fusion", pairs, fused, removed)
    BY <1>5 DEF FuseConvBatchNormRelu
  <2>2. ASSUME NEW p \in pairs
        PROVE  /\ p[1] \in DOMAIN nodes /\ fused[p] \in Node
               /\ \E k \in DOMAIN nodes : fused[p].out = nodes[k].out
    <3>1. p[1] \in DOMAIN nodes /\ p[2] \in DOMAIN nodes /\ OnlyReader(p[1], p[2])
      BY DEF Pairs
    <3>2. FusedConvOp(p[2]) \in Op
      BY DEF FusedConvOp, Op, ConvLike
    <3>3. end(p) \in DOMAIN nodes
      BY <3>1 DEF FollowingRelu
    <3> HIDE DEF end
    <3>4. nodes[end(p)].out \in Value
      <4>1. nodes[end(p)] \in Node
        BY <1>1, <3>3
      <4> QED
        BY <4>1 DEF Node
    <3>5. nodes[p[1]].ins \o Tail(nodes[p[2]].ins) \in Seq(Value)
      BY <1>1, <3>1, PairsRead
    <3>6. fused[p] \in Node
      BY <3>2, <3>4, <3>5 DEF Node
    <3> QED
      BY <3>1, <3>3, <3>6
  <2> HIDE DEF pairs, fused, removed
  <2>3. Untouched(nodes', S) /\ known' = known
    BY <1>1, <2>1, <2>2, FusionLeaves
  <2> QED
    BY <2>3
<1>6. ASSUME NEW pass, NEW pairs, NEW op \in Op, pairs \subseteq (DOMAIN nodes) \X (DOMAIN nodes),
             NEW removed, FusionPass(pass, pairs, [p \in pairs |-> Merged(op, p[1], p[2])], removed)
      PROVE  Untouched(nodes', S) /\ known' = known
  <2> DEFINE fused == [p \in pairs |-> Merged(op, p[1], p[2])]
  <2>1. ASSUME NEW p \in pairs
        PROVE  /\ p[1] \in DOMAIN nodes /\ fused[p] \in Node
               /\ \E k \in DOMAIN nodes : fused[p].out = nodes[k].out
    <3>1. p[1] \in DOMAIN nodes /\ p[2] \in DOMAIN nodes
      BY <1>6
    <3>2. fused[p] = Merged(op, p[1], p[2])
      OBVIOUS
    <3>3. fused[p] \in Node
      BY <1>1, <3>1, <3>2, MergedTyped
    <3>4. fused[p].out = nodes[p[2]].out
      BY <3>2 DEF Merged
    <3> QED
      BY <3>1, <3>3, <3>4
  <2>2. FusionPass(pass, pairs, fused, removed)
    BY <1>6
  <2> HIDE DEF fused
  <2> QED
    BY <1>1, <2>1, <2>2, FusionLeaves
<1>7. CASE FuseAddRelu
  <2> DEFINE pairs == Pairs("Add", "Relu")
             removed == [p \in pairs |-> {p[2]}]
  <2>1. FusionPass("add_relu_fusion", pairs, [p \in pairs |-> Merged("AddRelu", p[1], p[2])],
                   removed)
    BY <1>7 DEF FuseAddRelu
  <2>2. pairs \subseteq (DOMAIN nodes) \X (DOMAIN nodes) /\ "AddRelu" \in Op
    BY DEF Pairs, Op, Elementwise
  <2> HIDE DEF pairs, removed
  <2> QED
    BY <1>6, <2>1, <2>2
<1>8. CASE FuseGemmGelu
  <2> DEFINE pairs == Unobserved(Pairs("Gemm", "Gelu"))
             removed == [p \in pairs |-> {p[2]}]
  <2>1. FusionPass("gemm_gelu_fusion", pairs, [p \in pairs |-> Merged("GemmGelu", p[1], p[2])],
                   removed)
    BY <1>8 DEF FuseGemmGelu
  <2>2. pairs \subseteq (DOMAIN nodes) \X (DOMAIN nodes) /\ "GemmGelu" \in Op
    BY DEF Pairs, Unobserved, Op, GemmLike
  <2> HIDE DEF pairs, removed
  <2> QED
    BY <1>6, <2>1, <2>2
<1>9. CASE FuseSkipLayerNormalization
  <2> DEFINE pairs == {p \in Unobserved(Pairs("Add", "LayerNormalization")) :
                         /\ Len(nodes[p[2]].ins) = 3
                         /\ nodes[p[2]].ins[1] = nodes[p[1]].out}
             fused == [p \in pairs |-> SkipLayerNormalization(p[1], p[2])]
             removed == [p \in pairs |-> {p[2]}]
  <2>1. FusionPass("skip_layer_norm_fusion", pairs, fused, removed)
    BY <1>9 DEF FuseSkipLayerNormalization
  <2>2. ASSUME NEW p \in pairs
        PROVE  /\ p[1] \in DOMAIN nodes /\ fused[p] \in Node
               /\ \E k \in DOMAIN nodes : fused[p].out = nodes[k].out
    <3>1. p[1] \in DOMAIN nodes /\ p[2] \in DOMAIN nodes /\ OnlyReader(p[1], p[2])
      BY DEF Pairs, Unobserved
    <3>2. /\ nodes[p[1]].ins \o Tail(nodes[p[2]].ins) \in Seq(Value)
          /\ nodes[p[2]].out \in Value
      BY <1>1, <3>1, PairsRead
    <3>3. fused[p] \in Node /\ fused[p].out = nodes[p[2]].out
      BY <3>2 DEF SkipLayerNormalization, Node, Op
    <3> QED
      BY <3>1, <3>3
  <2> HIDE DEF pairs, fused, removed
  <2>3. Untouched(nodes', S) /\ known' = known
    BY <1>1, <2>1, <2>2, FusionLeaves
  <2> QED
    BY <2>3
<1>10. CASE Normalize
  <2>1. /\ known' = known /\ DOMAIN nodes' = DOMAIN nodes
        /\ \A i \in DOMAIN nodes :
             nodes'[i] = IF nodes[i].op = "MatMul" THEN [nodes[i] EXCEPT !.op = "Gemm"]
                                                   ELSE nodes[i]
    BY <1>10 DEF Normalize
  <2>2. \A i \in DOMAIN nodes : nodes'[i].out = nodes[i].out
    <3> SUFFICES ASSUME NEW i \in DOMAIN nodes PROVE nodes'[i].out = nodes[i].out
      OBVIOUS
    <3>1. nodes[i] \in Node
      BY <1>1
    <3> QED
      BY <2>1, <3>1 DEF Node
  <2> QED
    BY <2>1, <2>2 DEF Untouched
<1>11. CASE FoldConstants \/ ValidateShapes \/ Finish
  <2>1. nodes' = nodes /\ known' = known
    BY <1>11 DEF FoldConstants, ValidateShapes, Finish
  <2> QED
    BY <2>1
<1> QED
  BY <1>2, <1>3, <1>4, <1>5, <1>7, <1>8, <1>9, <1>10, <1>11 DEF PassStep
=============================================================================
