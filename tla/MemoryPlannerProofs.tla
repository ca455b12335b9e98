------------------------ MODULE MemoryPlannerProofs ------------------------
(***************************************************************************)
(* Theorems about MemoryPlanner for every set of graphs.                   *)
(***************************************************************************)
EXTENDS MemoryPlanner, TLAPS

(* Rounding up to the alignment never loses a byte.                        *)
LEMMA AlignUpBounds ==
  ASSUME NEW value \in Nat
  PROVE  AlignUp(value) \in Nat /\ value <= AlignUp(value)
BY DEF AlignUp, kWorkspaceAlignment

(* The output being placed is a value, of a known number of bytes.         *)
LEMMA PlacedOutput ==
  ASSUME TypeOK, Placing
  PROVE  /\ Output \in Value
         /\ graph.bytes[Output] \in Nat
         /\ node \in 1..NodeCount /\ slot \in DOMAIN graph.nodes[node].outs
         /\ Output \in OutputsOf(node)
<1>1. node \in 1..NodeCount
  BY DEF TypeOK, Placing, NodeCount, Graph
<1>2. graph.nodes[node] \in Node
  BY <1>1 DEF TypeOK, NodeCount, Graph
<1>3. graph.nodes[node].outs \in Seq(Value)
  BY <1>2 DEF Node
<1>4. slot \in 1..Len(graph.nodes[node].outs)
  BY <1>3 DEF TypeOK, Placing
<1>5. Output \in Value
  BY <1>3, <1>4 DEF Output
<1>6. graph.bytes[Output] \in Nat
  BY <1>5 DEF TypeOK, Graph
<1> QED
  BY <1>1, <1>3, <1>4, <1>5, <1>6 DEF Output, OutputsOf

(* What is reserved for an output holds it.                                *)
LEMMA ReservedBounds ==
  ASSUME TypeOK, Placing
  PROVE  Reserved \in Nat /\ graph.bytes[Output] <= Reserved
BY PlacedOutput, AlignUpBounds DEF Reserved

(* What a placement adds to the lists is well typed.                       *)
LEMMA PlacedTypes ==
  ASSUME TypeOK, Placing, NEW offset \in Nat, PlaceAt(offset)
  PROVE  /\ assigned' \in [Value -> Extent \cup {Nil}]
         /\ live' \subseteq LiveBlock
         /\ slot' \in Nat \ {0}
         /\ UNCHANGED <<graph, phase, node, lifetimes>>
<1>1. Output \in Value /\ graph.bytes[Output] \in Nat /\ Reserved \in Nat
  BY PlacedOutput, ReservedBounds
<1>2. [offset |-> offset, bytes |-> graph.bytes[Output]] \in Extent
  BY <1>1 DEF Extent
<1>3. assigned' \in [Value -> Extent \cup {Nil}]
  BY <1>1, <1>2 DEF TypeOK, PlaceAt
<1>4. [value |-> Output, offset |-> offset, size |-> Reserved] \in LiveBlock
  BY <1>1 DEF LiveBlock
<1>5. live' \subseteq LiveBlock
  BY <1>4 DEF TypeOK, PlaceAt
<1> QED
  BY <1>3, <1>5 DEF TypeOK, PlaceAt, NextOutput

(* A source is a value, and an alias has one.                              *)
LEMMA AliasSourceValue ==
  ASSUME NEW a \in Aliases
  PROVE  a \in Value /\ AliasSource(a) \in Value /\ IsAlias(a, AliasSource(a))
BY DEF Aliases, AliasSource

(* Plan starts well typed.                                                 *)
LEMMA TypeInit == Init => TypeOK
<1> SUFFICES ASSUME Init PROVE TypeOK
  OBVIOUS
<1>1. graph \in Graph /\ WellFormed(graph)
  BY GraphAssumption DEF Init
<1>2. NodeCount \in Nat
  BY <1>1 DEF NodeCount, Graph
<1> QED
  BY <1>1, <1>2 DEF Init, TypeOK

(* Every step of Plan keeps every type.                                    *)
LEMMA TypeNext == TypeOK /\ [Next]_vars => TypeOK'
<1> SUFFICES ASSUME TypeOK, [Next]_vars PROVE TypeOK'
  OBVIOUS
<1> USE DEF walk, lifetimes, memory
<1>0. NodeCount \in Nat
  BY DEF TypeOK, NodeCount, Graph
<1>a. ASSUME UNCHANGED graph PROVE NodeCount' = NodeCount /\ Aliases' = Aliases
  BY <1>a DEF NodeCount, Aliases, IsAlias
<1>1. CASE ScanNode
  BY <1>0, <1>1, <1>a DEF ScanNode, TypeOK
<1>2. CASE MarkOutputs
  BY <1>0, <1>2, <1>a DEF MarkOutputs, TypeOK
<1>3. ASSUME NEW a \in Value, PropagateAlias(a) PROVE TypeOK'
  <2>1. AliasSource(a) \in Value /\ lastUse[a] \in Nat
    BY <1>3, AliasSourceValue DEF PropagateAlias, TypeOK
  <2>2. lastUse' \in [Value -> Nat]
    BY <1>3, <2>1 DEF PropagateAlias, TypeOK
  <2> QED
    BY <1>0, <1>3, <1>a, <2>2 DEF PropagateAlias, TypeOK
<1>4. CASE BeginPlacement
  BY <1>0, <1>4, <1>a DEF BeginPlacement, TypeOK
<1>5. CASE EnterNode
  <2>1. free' \subseteq FreeBlock /\ live' \subseteq LiveBlock
    BY <1>5 DEF EnterNode, TypeOK, Dead, FreeBlock, LiveBlock
  <2> QED
    BY <1>0, <1>5, <1>a, <2>1 DEF EnterNode, TypeOK
<1>6. CASE LeaveNode
  BY <1>0, <1>6, <1>a DEF LeaveNode, TypeOK
<1>7. CASE Finish
  BY <1>0, <1>7, <1>a DEF Finish, TypeOK
<1>8. CASE SkipOutput
  BY <1>0, <1>8, <1>a DEF SkipOutput, Placing, NextOutput, TypeOK
<1>9. CASE PlaceAlias
  <2>1. CASE SourceKnown /\ assigned' = [assigned EXCEPT ![Output] = SourceExtent]
             /\ NextOutput /\ UNCHANGED <<free, live, workspaceEnd>>
    <3>1. Output \in Aliases /\ AliasSource(Output) \in Value
      BY <1>9, AliasSourceValue DEF PlaceAlias
    <3>2. graph.bytes[AliasSource(Output)] \in Nat
      BY <3>1 DEF TypeOK, Graph
    <3>3. SourceExtent \in Extent
      BY <3>1, <3>2 DEF SourceExtent, TypeOK, Extent
    <3>4. assigned' \in [Value -> Extent \cup {Nil}]
      BY <2>1, <3>3 DEF TypeOK
    <3> QED
      BY <1>0, <1>9, <1>a, <2>1, <3>4 DEF PlaceAlias, Placing, NextOutput, TypeOK
  <2>2. CASE Reject
    BY <1>0, <1>9, <1>a, <2>2 DEF PlaceAlias, Placing, Reject, TypeOK
  <2> QED
    BY <1>9, <2>1, <2>2 DEF PlaceAlias
<1>10. CASE RejectDynamic
  BY <1>0, <1>10, <1>a DEF RejectDynamic, NeedsBlock, Placing, Reject, TypeOK
<1>11. CASE ExtendWorkspace
  <2>1. Placing
    BY <1>11 DEF ExtendWorkspace, NeedsBlock
  <2>2. AlignUp(workspaceEnd) \in Nat /\ Reserved \in Nat
    BY <2>1, AlignUpBounds, ReservedBounds DEF TypeOK
  <2>3. workspaceEnd' \in Nat
    BY <1>11, <2>2 DEF ExtendWorkspace
  <2>4. /\ assigned' \in [Value -> Extent \cup {Nil}]
        /\ live' \subseteq LiveBlock
        /\ slot' \in Nat \ {0}
        /\ UNCHANGED <<graph, phase, node, lifetimes>>
    BY <1>11, <2>1, <2>2, PlacedTypes DEF ExtendWorkspace
  <2> QED
    BY <1>0, <1>11, <1>a, <2>3, <2>4 DEF ExtendWorkspace, TypeOK
<1>12. ASSUME NEW b \in free, ReuseBlock(b) PROVE TypeOK'
  <2>1. Placing
    BY <1>12 DEF ReuseBlock, NeedsBlock
  <2>2. b \in FreeBlock /\ Reserved \in Nat /\ b.size >= Reserved
    BY <1>12, <2>1, ReservedBounds DEF ReuseBlock, BestFits, TypeOK
  <2>3. [offset |-> b.offset + Reserved, size |-> b.size - Reserved] \in FreeBlock
    BY <2>2 DEF FreeBlock
  <2>4. free' \subseteq FreeBlock
    BY <1>12, <2>3 DEF ReuseBlock, TypeOK
  <2>5. /\ assigned' \in [Value -> Extent \cup {Nil}]
        /\ live' \subseteq LiveBlock
        /\ slot' \in Nat \ {0}
        /\ UNCHANGED <<graph, phase, node, lifetimes>>
    BY <1>12, <2>1, <2>2, PlacedTypes DEF ReuseBlock, FreeBlock
  <2> QED
    BY <1>0, <1>12, <1>a, <2>4, <2>5 DEF ReuseBlock, TypeOK
<1>13. CASE UNCHANGED vars
  BY <1>0, <1>13, <1>a DEF vars, TypeOK
<1> QED
  BY <1>1, <1>2, <1>3, <1>4, <1>5, <1>6, <1>7, <1>8, <1>9, <1>10, <1>11, <1>12,
     <1>13 DEF Next, Returned

(* Every variable keeps its type, for every set of graphs.                 *)
THEOREM TypeCorrect == Spec => []TypeOK
<1>1. Init => TypeOK
  BY TypeInit
<1>2. TypeOK /\ [Next]_vars => TypeOK'
  BY TypeNext
<1> QED
  BY <1>1, <1>2, PTL DEF Spec
-----------------------------------------------------------------------------
(* The block lists stay a partition of what was reserved.                  *)

(* A step that moves no block keeps the partition.                         *)
LEMMA BlocksUnchanged ==
  ASSUME BlocksDisjoint, UNCHANGED <<free, live, workspaceEnd>>
  PROVE  BlocksDisjoint'
BY DEF BlocksDisjoint, Apart

(* Releasing blocks moves them from one list to the other.                 *)
LEMMA BlocksReleased ==
  ASSUME TypeOK, BlocksDisjoint, EnterNode
  PROVE  BlocksDisjoint'
<1> DEFINE released == {[offset |-> b.offset, size |-> b.size] : b \in Dead}
<1>1. free' = free \cup released /\ live' = live \ Dead /\ Dead \subseteq live
      /\ workspaceEnd' = workspaceEnd
  BY DEF EnterNode, Dead, memory
<1>2. \A r \in released : \E d \in Dead : r.offset = d.offset /\ r.size = d.size
  OBVIOUS
<1>3. ASSUME NEW a \in free', NEW b \in free', a # b
      PROVE  Apart(a.offset, a.size, b.offset, b.size)
  <2>1. CASE a \in free /\ b \in free
    BY <1>3, <2>1 DEF BlocksDisjoint
  <2>2. CASE a \in free /\ b \in released
    BY <1>1, <1>2, <2>2 DEF BlocksDisjoint
  <2>3. CASE a \in released /\ b \in free
    BY <1>1, <1>2, <2>3 DEF BlocksDisjoint, Apart
  <2>4. CASE a \in released /\ b \in released
    <3>1. PICK c \in Dead, d \in Dead :
            /\ a = [offset |-> c.offset, size |-> c.size]
            /\ b = [offset |-> d.offset, size |-> d.size]
      BY <2>4
    <3>2. c # d
      BY <1>3, <3>1
    <3> QED
      BY <1>1, <3>1, <3>2 DEF BlocksDisjoint
  <2> QED
    BY <1>1, <1>3, <2>1, <2>2, <2>3, <2>4
<1>4. ASSUME NEW a \in free', NEW b \in live'
      PROVE  Apart(a.offset, a.size, b.offset, b.size)
  <2>1. CASE a \in free
    BY <1>1, <1>4, <2>1 DEF BlocksDisjoint
  <2>2. CASE a \in released
    <3>1. PICK d \in Dead : a = [offset |-> d.offset, size |-> d.size]
      BY <2>2
    <3>2. d # b /\ d \in live /\ b \in live
      BY <1>1, <1>4
    <3> QED
      BY <3>1, <3>2 DEF BlocksDisjoint
  <2> QED
    BY <1>1, <1>4, <2>1, <2>2
<1>5. \A a \in free' \cup live' : a.offset + a.size <= workspaceEnd'
  BY <1>1, <1>2 DEF BlocksDisjoint
<1> QED
  BY <1>1, <1>3, <1>4, <1>5 DEF BlocksDisjoint

(* A best-fit split leaves the rest of the block free.                     *)
LEMMA BlocksReused ==
  ASSUME TypeOK, BlocksDisjoint, NEW b \in free, ReuseBlock(b)
  PROVE  BlocksDisjoint'
<1> DEFINE used == [value |-> Output, offset |-> b.offset, size |-> Reserved]
           rest == [offset |-> b.offset + Reserved, size |-> b.size - Reserved]
<1>1. Placing /\ b \in FreeBlock /\ b.size >= Reserved
  BY DEF ReuseBlock, NeedsBlock, BestFits, TypeOK
<1>2. Reserved \in Nat /\ b.offset \in Nat /\ b.size \in Nat
  BY <1>1, ReservedBounds DEF FreeBlock
<1>3. /\ free' \subseteq (free \ {b}) \cup {rest}
      /\ live' = live \cup {used}
      /\ workspaceEnd' = workspaceEnd
  BY DEF ReuseBlock, PlaceAt
<1>4. free \subseteq FreeBlock /\ live \subseteq LiveBlock
  BY DEF TypeOK
<1>5. ASSUME NEW c \in (free \ {b}) \cup live
      PROVE  /\ Apart(c.offset, c.size, used.offset, used.size)
             /\ Apart(c.offset, c.size, rest.offset, rest.size)
             /\ Apart(rest.offset, rest.size, c.offset, c.size)
             /\ Apart(used.offset, used.size, c.offset, c.size)
  <2>1. Apart(b.offset, b.size, c.offset, c.size)
    BY <1>5 DEF BlocksDisjoint
  <2>2. c.offset \in Nat /\ c.size \in Nat
    BY <1>4, <1>5 DEF FreeBlock, LiveBlock
  <2> QED
    BY <1>1, <1>2, <2>1, <2>2 DEF Apart
<1>6. Apart(rest.offset, rest.size, used.offset, used.size)
  BY <1>1, <1>2 DEF Apart
<1>7. \A x, y \in free' : x # y => Apart(x.offset, x.size, y.offset, y.size)
  BY <1>3, <1>5 DEF BlocksDisjoint
<1>8. \A x, y \in live' : x # y => Apart(x.offset, x.size, y.offset, y.size)
  BY <1>3, <1>5 DEF BlocksDisjoint
<1>9. \A x \in free', y \in live' : Apart(x.offset, x.size, y.offset, y.size)
  BY <1>3, <1>5, <1>6 DEF BlocksDisjoint
<1>10. \A x \in free' \cup live' : x.offset + x.size <= workspaceEnd'
  <2>1. b.offset + b.size <= workspaceEnd /\ workspaceEnd \in Nat
    BY DEF BlocksDisjoint, TypeOK
  <2>2. used.offset + used.size <= workspaceEnd /\ rest.offset + rest.size <= workspaceEnd
    BY <1>1, <1>2, <2>1
  <2> QED
    BY <1>3, <2>2 DEF BlocksDisjoint
<1> QED
  BY <1>7, <1>8, <1>9, <1>10 DEF BlocksDisjoint

(* A new block starts past every other one.                                *)
LEMMA BlocksExtended ==
  ASSUME TypeOK, BlocksDisjoint, ExtendWorkspace
  PROVE  BlocksDisjoint'
<1> DEFINE added == [value |-> Output, offset |-> AlignUp(workspaceEnd), size |-> Reserved]
<1>1. Placing
  BY DEF ExtendWorkspace, NeedsBlock
<1>2. /\ Reserved \in Nat /\ workspaceEnd \in Nat
      /\ AlignUp(workspaceEnd) \in Nat /\ workspaceEnd <= AlignUp(workspaceEnd)
  BY <1>1, ReservedBounds, AlignUpBounds DEF TypeOK
<1>3. /\ free' = free /\ live' = live \cup {added}
      /\ workspaceEnd' = AlignUp(workspaceEnd) + Reserved
  BY DEF ExtendWorkspace, PlaceAt
<1>4. ASSUME NEW c \in free \cup live
      PROVE  /\ c.offset \in Nat /\ c.size \in Nat
             /\ c.offset + c.size <= workspaceEnd
  BY <1>4 DEF TypeOK, BlocksDisjoint, FreeBlock, LiveBlock
<1>5. ASSUME NEW c \in free \cup live
      PROVE  /\ Apart(c.offset, c.size, added.offset, added.size)
             /\ Apart(added.offset, added.size, c.offset, c.size)
  BY <1>2, <1>4, <1>5 DEF Apart
<1>6. \A x \in free' \cup live' : x.offset + x.size <= workspaceEnd'
  <2>1. added.offset + added.size <= workspaceEnd'
    BY <1>2, <1>3
  <2>2. \A c \in free \cup live : c.offset + c.size <= workspaceEnd'
    BY <1>2, <1>3, <1>4
  <2> QED
    BY <1>3, <2>1, <2>2
<1> QED
  BY <1>3, <1>5, <1>6 DEF BlocksDisjoint

(* Every step keeps the blocks apart and inside the workspace.             *)
LEMMA BlocksNext == TypeOK /\ BlocksDisjoint /\ [Next]_vars => BlocksDisjoint'
<1> SUFFICES ASSUME TypeOK, BlocksDisjoint, [Next]_vars PROVE BlocksDisjoint'
  OBVIOUS
<1>1. CASE EnterNode
  BY <1>1, BlocksReleased
<1>2. CASE ExtendWorkspace
  BY <1>2, BlocksExtended
<1>3. ASSUME NEW b \in free, ReuseBlock(b) PROVE BlocksDisjoint'
  BY <1>3, BlocksReused
<1>4. CASE UNCHANGED <<free, live, workspaceEnd>>
  BY <1>4, BlocksUnchanged
<1>5. EnterNode \/ ExtendWorkspace \/ (\E b \in free : ReuseBlock(b))
      \/ UNCHANGED <<free, live, workspaceEnd>>
  BY DEF Next, ScanNode, MarkOutputs, PropagateAlias, BeginPlacement, LeaveNode,
         Finish, SkipOutput, PlaceAlias, RejectDynamic, Reject, Returned, vars,
         memory
<1> QED
  BY <1>1, <1>2, <1>3, <1>4, <1>5

(* Free and live blocks never share a byte of the workspace and stay       *)
(* inside it, for every set of graphs.                                     *)
THEOREM BlocksStayDisjoint == Spec => []BlocksDisjoint
<1>1. Init => BlocksDisjoint
  BY DEF Init, BlocksDisjoint
<1>2. TypeOK /\ BlocksDisjoint /\ [Next]_vars => BlocksDisjoint'
  BY BlocksNext
<1> QED
  BY <1>1, <1>2, TypeCorrect, PTL DEF Spec
-----------------------------------------------------------------------------
(* Every planned value lies inside the workspace.                          *)

(* Plan does not change the graph.                                         *)
LEMMA GraphNext ==
  ASSUME [Next]_vars
  PROVE  /\ graph' = graph /\ NodeCount' = NodeCount /\ Aliases' = Aliases
         /\ \A v \in Value : AliasSource(v)' = AliasSource(v)
         /\ \A v \in Value : Views(v)' = Views(v)
<1>1. graph' = graph
  BY DEF Next, ScanNode, MarkOutputs, PropagateAlias, BeginPlacement, EnterNode,
         LeaveNode, Finish, SkipOutput, PlaceAlias, RejectDynamic, Reject,
         ReuseBlock, ExtendWorkspace, PlaceAt, NextOutput, Returned, vars, walk
<1>2. NodeCount' = NodeCount
  BY <1>1 DEF NodeCount
<1>3. \A a, v \in Value : IsAlias(a, v)' = IsAlias(a, v)
  BY <1>1, <1>2 DEF IsAlias
<1>4. Aliases' = Aliases
  BY <1>3 DEF Aliases
<1>5. \A v \in Value : AliasSource(v)' = AliasSource(v)
  BY <1>3 DEF AliasSource
<1>6. \A v \in Value : Views(v)' = Views(v)
  BY <1>4, <1>5 DEF Views, Aliases
<1> QED
  BY <1>1, <1>2, <1>4, <1>5, <1>6

(* A step leaves the placed values alone, or places one more.              *)
PlacesOutput(offset) ==
  /\ NeedsBlock /\ PlaceAt(offset)
  /\ offset + Reserved <= workspaceEnd'
  /\ Owners' = Owners \cup {Output}

PlacesNothing ==
  /\ Owners' = Owners /\ \A v \in Owners : assigned'[v] = assigned[v]
  /\ EnterNode \/ live' = live

(* A step gives a block of its own to no value or to the output being      *)
(* placed.                                                                 *)
LEMMA OwnersNext ==
  ASSUME TypeOK, BlocksDisjoint, [Next]_vars
  PROVE  /\ workspaceEnd <= workspaceEnd'
         /\ PlacesNothing \/ \E offset \in Nat : PlacesOutput(offset)
<1>1. Aliases' = Aliases /\ graph' = graph
  BY GraphNext
<1>2. workspaceEnd \in Nat
  BY DEF TypeOK
<1>3. CASE UNCHANGED <<assigned, workspaceEnd>> /\ (EnterNode \/ live' = live)
  BY <1>1, <1>2, <1>3 DEF Owners, PlacesNothing
<1>4. CASE PlaceAlias
  <2>1. Output \in Aliases /\ \A v \in Value \ {Output} : assigned'[v] = assigned[v]
    BY <1>4 DEF PlaceAlias, Reject, memory, TypeOK
  <2>2. workspaceEnd' = workspaceEnd /\ live' = live
    BY <1>4 DEF PlaceAlias, Reject, memory
  <2> QED
    BY <1>1, <1>2, <2>1, <2>2 DEF Owners, PlacesNothing
<1>5. ASSUME NEW offset \in Nat, NeedsBlock, PlaceAt(offset)
      PROVE  Owners' = Owners \cup {Output}
  <2>1. Output \in Value /\ Output \notin Aliases /\ graph.bytes[Output] \in Nat
    BY <1>5, PlacedOutput DEF NeedsBlock
  <2>2. assigned' = [assigned EXCEPT ![Output] =
                       [offset |-> offset, bytes |-> graph.bytes[Output]]]
    BY <1>5 DEF PlaceAt
  <2>3. [offset |-> offset, bytes |-> graph.bytes[Output]] # Nil
    BY <2>1, GraphAssumption
  <2> QED
    BY <1>1, <2>1, <2>2, <2>3 DEF Owners, TypeOK
<1>6. CASE ExtendWorkspace
  <2>1. NeedsBlock /\ Placing /\ PlaceAt(AlignUp(workspaceEnd))
    BY <1>6 DEF ExtendWorkspace, NeedsBlock
  <2>2. /\ AlignUp(workspaceEnd) \in Nat /\ workspaceEnd <= AlignUp(workspaceEnd)
        /\ Reserved \in Nat
    BY <1>2, <2>1, AlignUpBounds, ReservedBounds
  <2>3. workspaceEnd' = AlignUp(workspaceEnd) + Reserved
    BY <1>6 DEF ExtendWorkspace
  <2>4. Owners' = Owners \cup {Output}
    BY <1>5, <2>1, <2>2
  <2> QED
    BY <1>2, <2>1, <2>2, <2>3, <2>4 DEF PlacesOutput
<1>7. ASSUME NEW b \in free, ReuseBlock(b)
      PROVE  workspaceEnd <= workspaceEnd' /\ PlacesOutput(b.offset) /\ b.offset \in Nat
  <2>1. /\ NeedsBlock /\ Placing /\ PlaceAt(b.offset)
        /\ b.size >= Reserved /\ workspaceEnd' = workspaceEnd
    BY <1>7 DEF ReuseBlock, NeedsBlock, BestFits
  <2>2. Reserved \in Nat /\ b.offset \in Nat /\ b.size \in Nat
    BY <2>1, ReservedBounds DEF TypeOK, FreeBlock
  <2>3. b.offset + b.size <= workspaceEnd
    BY DEF BlocksDisjoint
  <2>4. Owners' = Owners \cup {Output}
    BY <1>5, <2>1, <2>2
  <2> QED
    BY <1>2, <2>1, <2>2, <2>3, <2>4 DEF PlacesOutput
<1>8. \/ UNCHANGED <<assigned, workspaceEnd>> /\ (EnterNode \/ live' = live)
      \/ PlaceAlias \/ ExtendWorkspace \/ \E b \in free : ReuseBlock(b)
  BY DEF Next, ScanNode, MarkOutputs, PropagateAlias, BeginPlacement, EnterNode,
         LeaveNode, Finish, SkipOutput, RejectDynamic, Reject, Returned, vars,
         memory
<1> QED
  BY <1>3, <1>4, <1>6, <1>7, <1>8

PlacedWithinEnd ==
  \A v \in Owners : assigned[v].offset + assigned[v].bytes <= workspaceEnd

(* Every step keeps each planned value inside the workspace.               *)
LEMMA WithinNext ==
  TypeOK /\ BlocksDisjoint /\ PlacedWithinEnd /\ [Next]_vars => PlacedWithinEnd'
<1> SUFFICES ASSUME TypeOK, BlocksDisjoint, PlacedWithinEnd, [Next]_vars
             PROVE  PlacedWithinEnd'
  OBVIOUS
<1>1. workspaceEnd <= workspaceEnd' /\ workspaceEnd \in Nat /\ workspaceEnd' \in Nat
  BY OwnersNext, TypeNext DEF TypeOK
<1>2. \A v \in Owners : assigned[v].offset \in Nat /\ assigned[v].bytes \in Nat
  BY DEF Owners, TypeOK, Extent
<1>3. CASE PlacesNothing
  BY <1>1, <1>2, <1>3 DEF PlacesNothing, PlacedWithinEnd
<1>4. ASSUME NEW offset \in Nat, PlacesOutput(offset) PROVE PlacedWithinEnd'
  <2>1. /\ Output \in Value /\ graph.bytes[Output] \in Nat
        /\ Reserved \in Nat /\ graph.bytes[Output] <= Reserved
    BY <1>4, PlacedOutput, ReservedBounds DEF PlacesOutput, NeedsBlock
  <2>2. assigned' = [assigned EXCEPT ![Output] =
                       [offset |-> offset, bytes |-> graph.bytes[Output]]]
    BY <1>4 DEF PlacesOutput, PlaceAt
  <2>3. \A v \in Owners : v \in Value
    BY DEF Owners
  <2>4. ASSUME NEW v \in Owners'
        PROVE  assigned'[v].offset + assigned'[v].bytes <= workspaceEnd'
    <3>1. CASE v = Output
      BY <1>1, <1>4, <2>1, <2>2, <3>1 DEF PlacesOutput, TypeOK
    <3>2. CASE v # Output
      <4>1. v \in Owners /\ assigned'[v] = assigned[v]
        BY <1>4, <2>2, <2>3, <2>4, <3>2 DEF PlacesOutput, TypeOK
      <4> QED
        BY <1>1, <1>2, <4>1 DEF PlacedWithinEnd
    <3> QED
      BY <3>1, <3>2
  <2> QED
    BY <2>4 DEF PlacedWithinEnd
<1> QED
  BY <1>3, <1>4, OwnersNext

(* A plan asks for a workspace that holds every value it placed.           *)
THEOREM PlanFits == Spec => []PlanFitsWorkspace
<1>1. Init => PlacedWithinEnd
  BY DEF Init, PlacedWithinEnd, Owners
<1>2. TypeOK /\ BlocksDisjoint /\ PlacedWithinEnd /\ [Next]_vars => PlacedWithinEnd'
  BY WithinNext
<1>3. TypeOK /\ PlacedWithinEnd => PlanFitsWorkspace
  <2> SUFFICES ASSUME TypeOK, PlacedWithinEnd, NEW v \in Owners
               PROVE  assigned[v].offset + assigned[v].bytes <= AlignUp(workspaceEnd)
    BY DEF PlanFitsWorkspace
  <2>1. /\ workspaceEnd \in Nat /\ AlignUp(workspaceEnd) \in Nat
        /\ workspaceEnd <= AlignUp(workspaceEnd)
    BY AlignUpBounds DEF TypeOK
  <2>2. assigned[v].offset \in Nat /\ assigned[v].bytes \in Nat
    BY DEF Owners, TypeOK, Extent
  <2> QED
    BY <2>1, <2>2 DEF PlacedWithinEnd
<1> QED
  BY <1>1, <1>2, <1>3, TypeCorrect, BlocksStayDisjoint, PTL DEF Spec
-----------------------------------------------------------------------------
(* Values still needed never overlap, in graphs with no view of a view.    *)

(* No Flatten reads what a Flatten produced.                               *)
ChainFree(g) ==
  \A i, j \in DOMAIN g.nodes :
    g.nodes[i].flatten /\ g.nodes[j].flatten =>
      \A k \in DOMAIN g.nodes[j].outs : g.nodes[j].outs[k] \notin g.nodes[i].ins

(* What lastUse knows: in the scan the uses by the nodes visited so far,   *)
(* then every use and the graph outputs, and for the views already visited *)
(* the view's own last use.                                                *)
LifetimesKnown ==
  /\ phase = "scan" =>
       \A k \in 1..NodeCount : k < node => \A v \in Inputs(k) : lastUse[v] >= k
  /\ phase # "scan" =>
       /\ \A k \in 1..NodeCount : \A v \in Inputs(k) : lastUse[v] >= k
       /\ \A v \in graph.outputs : lastUse[v] > NodeCount
       /\ \A a \in Aliases \ aliasesLeft : lastUse[AliasSource(a)] >= lastUse[a]
  /\ phase \notin {"scan", "alias"} => aliasesLeft = {}

(* Blocks hold values produced by the nodes visited so far.                *)
BlocksProduced ==
  /\ phase \in {"scan", "alias"} => live = {} /\ Owners = {}
  /\ \A b \in live : \E k \in 1..NodeCount :
       b.value \in OutputsOf(k) /\ (k < node \/ (k = node /\ phase # "enter"))

HasBlock(v) ==
  \E b \in live : /\ b.value = v /\ b.offset = assigned[v].offset
                  /\ assigned[v].bytes <= b.size

(* A placed value keeps its block until nobody needs it any more.          *)
NeededHaveBlocks == \A v \in Owners : HasBlock(v) \/ ~Needed(v)

LiveInv == ChainFree(graph) /\ LifetimesKnown /\ BlocksProduced /\ NeededHaveBlocks

(* The source of a view is not a view.                                     *)
LEMMA SourceIsNoAlias ==
  ASSUME TypeOK, ChainFree(graph), NEW a \in Aliases
  PROVE  AliasSource(a) \in Value \ Aliases
<1>1. IsAlias(a, AliasSource(a)) /\ AliasSource(a) \in Value
  BY AliasSourceValue
<1>2. PICK i \in 1..NodeCount : /\ graph.nodes[i].flatten
                                /\ graph.nodes[i].ins = {AliasSource(a)}
  BY <1>1 DEF IsAlias
<1>3. ASSUME AliasSource(a) \in Aliases PROVE FALSE
  <2>1. PICK j \in 1..NodeCount : /\ graph.nodes[j].flatten
                                  /\ graph.nodes[j].outs = <<AliasSource(a)>>
    BY <1>3 DEF Aliases, IsAlias
  <2>2. i \in DOMAIN graph.nodes /\ j \in DOMAIN graph.nodes
    BY DEF NodeCount, TypeOK, Graph
  <2>3. 1 \in DOMAIN graph.nodes[j].outs /\ graph.nodes[j].outs[1] = AliasSource(a)
    BY <2>1
  <2> QED
    BY <1>2, <2>1, <2>2, <2>3 DEF ChainFree
<1> QED
  BY <1>1, <1>3

(* Without chains a value is shared by its own views only.                 *)
LEMMA ViewsOfOwner ==
  ASSUME TypeOK, ChainFree(graph), NEW v \in Value \ Aliases, NEW w \in Views(v)
  PROVE  w = v \/ (w \in Aliases /\ AliasSource(w) = v)
<1> DEFINE storage == {v} \cup Aliases
           direct == {v} \cup {a \in Aliases : AliasSource(a) = v}
<1>1. \A a \in storage \ {v} : AliasSource(a) \in direct => a \in direct
  BY SourceIsNoAlias
<1>2. direct \in SUBSET storage /\ v \in direct
  OBVIOUS
<1>3. w \in direct
  BY <1>1, <1>2 DEF Views
<1> QED
  BY <1>3

(* A value is produced by one node only.                                   *)
LEMMA OneProducer ==
  ASSUME TypeOK, NEW i \in 1..NodeCount, NEW j \in 1..NodeCount,
         NEW v \in OutputsOf(i), v \in OutputsOf(j)
  PROVE  i = j
<1>1. i \in DOMAIN graph.nodes /\ j \in DOMAIN graph.nodes
  BY DEF NodeCount, TypeOK, Graph
<1>2. PICK k \in DOMAIN graph.nodes[i].outs : graph.nodes[i].outs[k] = v
  BY DEF OutputsOf
<1>3. PICK l \in DOMAIN graph.nodes[j].outs : graph.nodes[j].outs[l] = v
  BY DEF OutputsOf
<1> QED
  BY <1>1, <1>2, <1>3 DEF TypeOK, WellFormed

(* A value whose last use has passed is needed only if a node to come      *)
(* produces it.                                                            *)
LEMMA NotNeededAfterLastUse ==
  ASSUME TypeOK, ChainFree(graph), LifetimesKnown, phase \notin {"scan", "alias"},
         NEW v \in Value \ Aliases, lastUse[v] < node, Needed(v)
  PROVE  \E k \in node..NodeCount : v \in OutputsOf(k)
<1>1. PICK w \in Views(v) : UsedFrom(w, node)
  BY DEF Needed
<1>2. w = v \/ (w \in Aliases /\ AliasSource(w) = v)
  BY ViewsOfOwner
<1>3. w \in Value
  BY <1>2, AliasSourceValue
<1>4. lastUse[v] >= lastUse[w]
  BY <1>2, <1>3 DEF LifetimesKnown, TypeOK
<1>5. /\ NodeCount \in Nat /\ node \in 1..(NodeCount + 1)
      /\ lastUse[v] \in Nat /\ lastUse[w] \in Nat
  BY <1>3 DEF TypeOK, NodeCount, Graph
<1>6. CASE w \in graph.outputs
  BY <1>4, <1>5, <1>6 DEF LifetimesKnown
<1>7. ASSUME NEW k \in node..NodeCount, w \in Inputs(k) PROVE FALSE
  <2>1. k \in 1..NodeCount
    BY <1>5
  <2> QED
    BY <1>4, <1>5, <1>7, <2>1 DEF LifetimesKnown
<1>8. ASSUME NEW k \in node..NodeCount, w \in OutputsOf(k), w # v PROVE FALSE
  <2>1. k \in 1..NodeCount
    BY <1>5
  <2>2. IsAlias(w, v)
    BY <1>2, <1>8, AliasSourceValue
  <2>3. PICK i \in 1..NodeCount : graph.nodes[i].ins = {v} /\ graph.nodes[i].outs = <<w>>
    BY <2>2 DEF IsAlias
  <2>4. w \in OutputsOf(i) /\ v \in Inputs(i)
    BY <2>3 DEF OutputsOf, Inputs
  <2>5. i = k
    BY <1>8, <2>1, <2>4, OneProducer
  <2> QED
    BY <1>5, <2>1, <2>4, <2>5 DEF LifetimesKnown
<1> QED
  BY <1>1, <1>6, <1>7, <1>8 DEF UsedFrom

(* Every step keeps last_use at or past every use.                         *)
LEMMA LifetimesNext ==
  ASSUME TypeOK, ChainFree(graph), LifetimesKnown, [Next]_vars
  PROVE  LifetimesKnown'
<1> USE DEF walk, lifetimes, memory
<1>1. /\ graph' = graph /\ NodeCount' = NodeCount /\ Aliases' = Aliases
      /\ \A v \in Value : AliasSource(v)' = AliasSource(v)
  BY GraphNext
<1>2. \A k : Inputs(k)' = Inputs(k)
  BY <1>1 DEF Inputs
<1>3. NodeCount \in Nat /\ node \in 1..(NodeCount + 1) /\ lastUse \in [Value -> Nat]
  BY DEF TypeOK, NodeCount, Graph
<1>4. (\A k \in 1..NodeCount : Inputs(k) \subseteq Value) /\ graph.outputs \subseteq Value
  <2>1. graph.outputs \subseteq Value /\ graph.nodes \in Seq(Node)
    BY DEF TypeOK, Graph
  <2>2. \A k \in 1..NodeCount : graph.nodes[k] \in Node
    BY <2>1 DEF NodeCount
  <2> QED
    BY <2>1, <2>2 DEF Inputs, Node
<1>5. \A a \in Aliases : a \in Value /\ AliasSource(a) \in Value \ Aliases
  BY AliasSourceValue, SourceIsNoAlias
<1>6. CASE ScanNode
  <2>1. /\ phase = "scan" /\ phase' = "scan" /\ node' = node + 1
        /\ lastUse' = [v \in Value |->
             IF v \in Inputs(node) \/ (v \in OutputsOf(node) /\ lastUse[v] = 0)
             THEN node ELSE lastUse[v]]
    BY <1>6 DEF ScanNode
  <2>2. ASSUME NEW k \in 1..NodeCount, k < node + 1, NEW v \in Inputs(k)
        PROVE  lastUse'[v] >= k
    <3>1. v \in Value
      BY <1>4, <2>2
    <3>2. CASE k = node
      BY <1>3, <2>1, <2>2, <3>1, <3>2
    <3>3. CASE k < node
      <4>1. lastUse[v] >= k
        BY <2>1, <2>2, <3>3 DEF LifetimesKnown
      <4> QED
        BY <1>3, <2>1, <3>1, <3>3, <4>1
    <3> QED
      BY <1>3, <2>2, <3>2, <3>3
  <2> QED
    BY <1>1, <1>2, <2>1, <2>2 DEF LifetimesKnown
<1>7. CASE MarkOutputs
  <2>1. /\ phase = "scan" /\ phase' = "alias" /\ node > NodeCount
        /\ lastUse' = [v \in Value |-> IF v \in graph.outputs THEN NodeCount + 1
                                                              ELSE lastUse[v]]
        /\ aliasesLeft' = Aliases
    BY <1>7 DEF MarkOutputs
  <2>2. \A k \in 1..NodeCount : \A v \in Inputs(k) : lastUse'[v] >= k
    BY <1>3, <1>4, <2>1 DEF LifetimesKnown
  <2>3. \A v \in graph.outputs : lastUse'[v] > NodeCount
    BY <1>3, <1>4, <2>1
  <2> QED
    BY <1>1, <1>2, <2>1, <2>2, <2>3 DEF LifetimesKnown
<1>8. ASSUME NEW a \in Value, PropagateAlias(a) PROVE LifetimesKnown'
  <2>1. /\ phase = "alias" /\ phase' = "alias" /\ a \in aliasesLeft
        /\ lastUse' = [lastUse EXCEPT ![AliasSource(a)] =
                         IF lastUse[a] > @ THEN lastUse[a] ELSE @]
        /\ aliasesLeft' = aliasesLeft \ {a} /\ aliasesLeft \subseteq Aliases
    BY <1>8 DEF PropagateAlias, TypeOK
  <2>2. AliasSource(a) \in Value \ Aliases
    BY <1>5, <2>1
  <2>3. \A v \in Value : lastUse'[v] >= lastUse[v] /\ lastUse'[v] \in Nat
    BY <1>3, <2>1, <2>2
  <2>4. \A k \in 1..NodeCount : \A v \in Inputs(k) : lastUse'[v] >= k
    BY <1>3, <1>4, <2>1, <2>3 DEF LifetimesKnown
  <2>5. \A v \in graph.outputs : lastUse'[v] > NodeCount
    BY <1>3, <1>4, <2>1, <2>3 DEF LifetimesKnown
  <2>6. ASSUME NEW c \in Aliases \ aliasesLeft'
        PROVE  lastUse'[AliasSource(c)] >= lastUse'[c]
    <3>1. c \in Value /\ AliasSource(c) \in Value /\ lastUse'[c] = lastUse[c]
      BY <1>3, <1>5, <2>1, <2>2, <2>6
    <3>2. CASE c = a
      BY <1>3, <2>1, <2>2, <3>1, <3>2
    <3>3. CASE c # a
      <4>1. lastUse[AliasSource(c)] >= lastUse[c]
        BY <2>1, <2>6, <3>3 DEF LifetimesKnown
      <4> QED
        BY <1>3, <2>3, <3>1, <4>1
    <3> QED
      BY <3>2, <3>3
  <2> QED
    BY <1>1, <1>2, <1>5, <2>1, <2>4, <2>5, <2>6 DEF LifetimesKnown
<1>9. CASE BeginPlacement
  BY <1>1, <1>2, <1>5, <1>9 DEF BeginPlacement, LifetimesKnown
<1>10. CASE phase \notin {"scan", "alias"} /\ phase' \notin {"scan", "alias"}
            /\ UNCHANGED lifetimes
  BY <1>1, <1>2, <1>5, <1>10 DEF LifetimesKnown
<1>11. CASE UNCHANGED vars
  BY <1>1, <1>2, <1>5, <1>11 DEF LifetimesKnown, vars
<1>12. \/ ScanNode \/ MarkOutputs \/ BeginPlacement \/ UNCHANGED vars
       \/ \E a \in Value : PropagateAlias(a)
       \/ phase \notin {"scan", "alias"} /\ phase' \notin {"scan", "alias"}
            /\ UNCHANGED lifetimes
  BY DEF Next, EnterNode, LeaveNode, Finish, SkipOutput, PlaceAlias, RejectDynamic,
         Reject, ReuseBlock, ExtendWorkspace, NeedsBlock, Placing, PlaceAt,
         NextOutput, Returned
<1> QED
  BY <1>6, <1>7, <1>8, <1>9, <1>10, <1>11, <1>12

(* A step that places nothing and releases nothing moves no block.         *)
LEMMA ProducedNext ==
  ASSUME TypeOK, BlocksDisjoint, BlocksProduced, [Next]_vars
  PROVE  BlocksProduced'
<1> USE DEF walk, lifetimes, memory
<1>1. /\ graph' = graph /\ NodeCount' = NodeCount /\ Aliases' = Aliases
      /\ \A k : OutputsOf(k)' = OutputsOf(k)
  BY GraphNext DEF OutputsOf
<1>2. NodeCount \in Nat /\ node \in 1..(NodeCount + 1)
  BY DEF TypeOK, NodeCount, Graph
<1>3. CASE /\ phase \in {"scan", "alias"} /\ UNCHANGED <<live, assigned>>
  BY <1>1, <1>3 DEF BlocksProduced, Owners
<1>4. CASE EnterNode
  BY <1>1, <1>2, <1>4 DEF EnterNode, BlocksProduced
<1>5. CASE LeaveNode
  BY <1>1, <1>2, <1>5 DEF LeaveNode, BlocksProduced
<1>6. CASE Finish
  BY <1>1, <1>2, <1>6 DEF Finish, BlocksProduced
<1>7. CASE phase \notin {"scan", "alias", "enter"} /\ UNCHANGED <<live, node>>
           /\ phase' \notin {"scan", "alias", "enter"}
  BY <1>1, <1>2, <1>7 DEF BlocksProduced
<1>8. ASSUME NEW offset, NeedsBlock, PlaceAt(offset) PROVE BlocksProduced'
  <2>1. Placing /\ phase = "place"
    BY <1>8 DEF NeedsBlock, Placing
  <2>2. phase' = "place" /\ node' = node
    BY <1>8, <2>1 DEF PlaceAt, NextOutput
  <2>3. live' = live \cup {[value |-> Output, offset |-> offset, size |-> Reserved]}
    BY <1>8 DEF PlaceAt
  <2>4. node \in 1..NodeCount /\ Output \in OutputsOf(node)
    BY <2>1, PlacedOutput
  <2>5. ASSUME NEW b \in live'
        PROVE  \E k \in 1..NodeCount : b.value \in OutputsOf(k) /\ (k < node \/ k = node)
    <3>1. CASE b \in live
      BY <3>1 DEF BlocksProduced
    <3>2. CASE b \notin live
      BY <2>3, <2>4, <2>5, <3>2
    <3> QED
      BY <3>1, <3>2
  <2> QED
    BY <1>1, <2>2, <2>5 DEF BlocksProduced
<1>9. CASE UNCHANGED vars
  BY <1>1, <1>9 DEF BlocksProduced, Owners, vars
<1>10. \/ phase \in {"scan", "alias"} /\ UNCHANGED <<live, assigned>>
       \/ EnterNode \/ LeaveNode \/ Finish \/ UNCHANGED vars
       \/ /\ phase \notin {"scan", "alias", "enter"} /\ UNCHANGED <<live, node>>
          /\ phase' \notin {"scan", "alias", "enter"}
       \/ \E offset : NeedsBlock /\ PlaceAt(offset)
  BY DEF Next, ScanNode, MarkOutputs, PropagateAlias, BeginPlacement, SkipOutput,
         PlaceAlias, RejectDynamic, Reject, ReuseBlock, ExtendWorkspace,
         NeedsBlock, Placing, NextOutput, Returned
<1> QED
  BY <1>3, <1>4, <1>5, <1>6, <1>7, <1>8, <1>9, <1>10

(* Once placement runs, what is needed only becomes less.                  *)
LEMMA NeededShrinks ==
  ASSUME TypeOK, [Next]_vars, node' >= node, NEW v \in Value, Needed(v)'
  PROVE  Needed(v)
<1>1. /\ graph' = graph /\ NodeCount' = NodeCount /\ Views(v)' = Views(v)
  BY GraphNext
<1>2. PICK w \in Views(v) : UsedFrom(w, node)'
  BY <1>1 DEF Needed
<1>3. node \in Nat /\ node' \in Nat /\ NodeCount \in Nat
  BY <1>1, TypeNext DEF TypeOK, NodeCount, Graph
<1>4. UsedFrom(w, node)
  BY <1>1, <1>2, <1>3 DEF UsedFrom, Inputs, OutputsOf
<1> QED
  BY <1>2, <1>4 DEF Needed

(* Every step leaves each needed value its live block.                     *)
LEMMA NeededNext ==
  ASSUME TypeOK, BlocksDisjoint, LiveInv, [Next]_vars
  PROVE  NeededHaveBlocks'
<1> USE DEF walk, lifetimes, memory
<1>1. CASE phase \in {"scan", "alias"}
  <2>1. UNCHANGED assigned /\ Owners = {}
    BY <1>1 DEF Next, ScanNode, MarkOutputs, PropagateAlias, BeginPlacement,
         EnterNode, LeaveNode, Finish, SkipOutput, PlaceAlias, RejectDynamic,
         Reject, ReuseBlock, ExtendWorkspace, NeedsBlock, Placing, Returned, vars,
         LiveInv, BlocksProduced
  <2>2. Owners' = {}
    BY <2>1, GraphNext DEF Owners
  <2> QED
    BY <2>2 DEF NeededHaveBlocks
<1>2. ASSUME phase \notin {"scan", "alias"}
      PROVE  node' >= node
  <2>1. node \in Nat
    BY DEF TypeOK
  <2> QED
    BY <1>2, <2>1 DEF Next, ScanNode, MarkOutputs, PropagateAlias, BeginPlacement,
         EnterNode, LeaveNode, Finish, SkipOutput, PlaceAlias, RejectDynamic,
         Reject, ReuseBlock, ExtendWorkspace, PlaceAt, NextOutput, Returned, vars
<1>3. ASSUME phase \notin {"scan", "alias"}, NEW v \in Owners, assigned'[v] = assigned[v],
             HasBlock(v) => HasBlock(v)'
      PROVE  HasBlock(v)' \/ ~Needed(v)'
  <2>1. v \in Value
    BY DEF Owners
  <2> QED
    BY <1>2, <1>3, <2>1, NeededShrinks DEF LiveInv, NeededHaveBlocks
<1>4. CASE EnterNode
  <2>1. /\ phase = "enter" /\ node \in 1..NodeCount /\ live' = live \ Dead
        /\ UNCHANGED <<assigned, node>>
    BY <1>4 DEF EnterNode, TypeOK
  <2>2. Owners' = Owners
    BY <2>1, GraphNext DEF Owners
  <2>3. ASSUME NEW v \in Owners PROVE HasBlock(v)' \/ ~Needed(v)'
    <3>1. CASE \E b \in Dead : b.value = v
      <4>1. PICK b \in live : b.value = v /\ lastUse[v] < node
        BY <3>1 DEF Dead
      <4>2. PICK k \in 1..NodeCount : v \in OutputsOf(k) /\ k < node
        BY <2>1, <4>1 DEF LiveInv, BlocksProduced
      <4>3. ASSUME NEW j \in node..NodeCount, v \in OutputsOf(j) PROVE FALSE
        <5>1. NodeCount \in Nat
          BY DEF TypeOK, NodeCount, Graph
        <5>2. j \in 1..NodeCount /\ k < j
          BY <2>1, <4>2, <5>1
        <5> QED
          BY <4>2, <4>3, <5>2, OneProducer
      <4>4. v \in Value \ Aliases
        BY DEF Owners
      <4>5. ~Needed(v)
        BY <2>1, <4>1, <4>3, <4>4, NotNeededAfterLastUse DEF LiveInv
      <4> QED
        BY <1>2, <2>1, <4>4, <4>5, NeededShrinks
    <3>2. CASE \A b \in Dead : b.value # v
      <4>1. HasBlock(v) => HasBlock(v)'
        BY <2>1, <3>2 DEF HasBlock
      <4> QED
        BY <1>3, <2>1, <4>1
    <3> QED
      BY <3>1, <3>2
  <2> QED
    BY <2>2, <2>3 DEF NeededHaveBlocks
<1>5. CASE phase \notin {"scan", "alias"} /\ ~EnterNode /\ PlacesNothing
  <2>1. live' = live
    BY <1>5 DEF PlacesNothing
  <2>2. ASSUME NEW v \in Owners PROVE HasBlock(v)' \/ ~Needed(v)'
    BY <1>3, <1>5, <2>1 DEF PlacesNothing, HasBlock
  <2> QED
    BY <1>5, <2>2 DEF PlacesNothing, NeededHaveBlocks
<1>6. ASSUME phase \notin {"scan", "alias"}, NEW offset \in Nat, PlacesOutput(offset)
      PROVE  NeededHaveBlocks'
  <2>1. PICK o \in Value, bytes \in Nat, size \in Nat :
          o = Output /\ bytes = graph.bytes[Output] /\ size = Reserved /\ bytes <= size
    BY <1>6, PlacedOutput, ReservedBounds DEF PlacesOutput, NeedsBlock
  <2>2. /\ assigned' = [assigned EXCEPT ![o] = [offset |-> offset, bytes |-> bytes]]
        /\ live' = live \cup {[value |-> o, offset |-> offset, size |-> size]}
        /\ Owners' = Owners \cup {o}
    BY <1>6, <2>1 DEF PlacesOutput, PlaceAt
  <2>3. assigned'[o] = [offset |-> offset, bytes |-> bytes]
    BY <2>1, <2>2 DEF TypeOK
  <2>4. HasBlock(o)'
    <3>1. PICK b \in live' : b = [value |-> o, offset |-> offset, size |-> size]
      BY <2>2
    <3>2. /\ b.value = o /\ b.offset = assigned'[o].offset
          /\ assigned'[o].bytes <= b.size
      BY <2>1, <2>3, <3>1
    <3> QED
      BY <3>1, <3>2 DEF HasBlock
  <2>5. ASSUME NEW v \in Owners, v # o PROVE HasBlock(v)' \/ ~Needed(v)'
    <3>1. assigned'[v] = assigned[v]
      BY <2>2, <2>5 DEF TypeOK, Owners
    <3>2. HasBlock(v) => HasBlock(v)'
      BY <2>2, <3>1 DEF HasBlock
    <3> QED
      BY <1>3, <1>6, <2>5, <3>1, <3>2
  <2> QED
    BY <2>2, <2>4, <2>5 DEF NeededHaveBlocks
<1> QED
  BY <1>1, <1>4, <1>5, <1>6, OwnersNext

(* No two values that are still needed overlap in the workspace, whatever  *)
(* the graph, as long as no Flatten reads another Flatten's output.        *)
THEOREM LiveValuesStayDisjoint ==
  ASSUME \A g \in Graphs : ChainFree(g)
  PROVE  Spec => []LiveValuesDisjoint
<1>1. Init => LiveInv
  <2> SUFFICES ASSUME Init PROVE LiveInv
    OBVIOUS
  <2>1. ChainFree(graph) /\ Owners = {}
    BY DEF Init, Owners
  <2> QED
    BY <2>1 DEF Init, LiveInv, LifetimesKnown, BlocksProduced, NeededHaveBlocks
<1>2. TypeOK /\ BlocksDisjoint /\ LiveInv /\ [Next]_vars => LiveInv'
  <2> SUFFICES ASSUME TypeOK, BlocksDisjoint, LiveInv, [Next]_vars PROVE LiveInv'
    OBVIOUS
  <2>1. ChainFree(graph)'
    BY GraphNext DEF LiveInv, ChainFree
  <2> QED
    BY <2>1, LifetimesNext, ProducedNext, NeededNext DEF LiveInv
<1>3. TypeOK /\ BlocksDisjoint /\ LiveInv => LiveValuesDisjoint
  <2> SUFFICES ASSUME TypeOK, BlocksDisjoint, LiveInv,
                      NEW u \in Owners, NEW v \in Owners, u # v, Needed(u), Needed(v)
               PROVE  Apart(assigned[u].offset, assigned[u].bytes,
                            assigned[v].offset, assigned[v].bytes)
    BY DEF LiveValuesDisjoint
  <2>1. PICK b \in live : /\ b.value = u /\ b.offset = assigned[u].offset
                          /\ assigned[u].bytes <= b.size
    BY DEF LiveInv, NeededHaveBlocks, HasBlock
  <2>2. PICK c \in live : /\ c.value = v /\ c.offset = assigned[v].offset
                          /\ assigned[v].bytes <= c.size
    BY DEF LiveInv, NeededHaveBlocks, HasBlock
  <2>3. Apart(b.offset, b.size, c.offset, c.size)
    BY <2>1, <2>2 DEF BlocksDisjoint
  <2>4. /\ assigned[u] \in Extent /\ assigned[v] \in Extent
        /\ b \in LiveBlock /\ c \in LiveBlock
    BY DEF Owners, TypeOK
  <2> QED
    BY <2>1, <2>2, <2>3, <2>4 DEF Apart, Extent, LiveBlock
<1> QED
  BY <1>1, <1>2, <1>3, TypeCorrect, BlocksStayDisjoint, PTL DEF Spec
-----------------------------------------------------------------------------
(* ViewsShareStorage: a Flatten view occupies exactly its source's bytes.  *)

(* No Flatten reads what a Flatten computes straight into a boundary value.*)
BoundaryViewsUnread(g) ==
  \A i, j \in DOMAIN g.nodes :
    g.nodes[i].flatten /\ g.nodes[j].flatten =>
      \A k \in DOMAIN g.nodes[j].outs :
        g.nodes[j].outs[k] \in g.inputs \cup g.outputs => g.nodes[j].outs[k] \notin g.nodes[i].ins

(* A value with an extent was produced before the output Plan is at.       *)
Visited(v) ==
  \E k \in 1..NodeCount : \E l \in DOMAIN graph.nodes[k].outs :
    /\ graph.nodes[k].outs[l] = v
    /\ k < node \/ (k = node /\ phase \in {"place", "error"} /\ l < slot)

(* Values get their extents in the order of the walk, boundary values      *)
(* never do, and an alias has its source's unless the source is one.       *)
SharedInv ==
  /\ BoundaryViewsUnread(graph)
  /\ phase \in {"scan", "alias"} => \A v \in Value : assigned[v] = Nil
  /\ \A v \in Value : assigned[v] # Nil => Visited(v) /\ v \notin External
  /\ \A a \in Aliases : assigned[a] # Nil =>
       assigned[a] = assigned[AliasSource(a)] \/ AliasSource(a) \in External

(* An alias's source is not a boundary value that is itself an alias.      *)
LEMMA SourceNoBoundaryView ==
  ASSUME TypeOK, BoundaryViewsUnread(graph), NEW a \in Aliases, AliasSource(a) \in External
  PROVE  AliasSource(a) \notin Aliases
<1>1. IsAlias(a, AliasSource(a)) /\ AliasSource(a) \in Value
  BY AliasSourceValue
<1>2. PICK i \in 1..NodeCount : /\ graph.nodes[i].flatten
                                /\ graph.nodes[i].ins = {AliasSource(a)}
  BY <1>1 DEF IsAlias
<1>3. ASSUME AliasSource(a) \in Aliases PROVE FALSE
  <2>1. PICK j \in 1..NodeCount : /\ graph.nodes[j].flatten
                                  /\ graph.nodes[j].outs = <<AliasSource(a)>>
    BY <1>3 DEF Aliases, IsAlias
  <2>2. i \in DOMAIN graph.nodes /\ j \in DOMAIN graph.nodes
    BY DEF NodeCount, TypeOK, Graph
  <2>3. 1 \in DOMAIN graph.nodes[j].outs /\ graph.nodes[j].outs[1] = AliasSource(a)
    BY <2>1
  <2> QED
    BY <1>2, <2>1, <2>2, <2>3 DEF BoundaryViewsUnread, External
<1> QED
  BY <1>3

(* The output being placed has no extent yet.                              *)
LEMMA OutputIsNew ==
  ASSUME TypeOK, SharedInv, Placing
  PROVE  assigned[Output] = Nil
<1>1. /\ Output \in Value /\ node \in 1..NodeCount
      /\ slot \in DOMAIN graph.nodes[node].outs /\ graph.nodes[node].outs[slot] = Output
  BY PlacedOutput DEF Output
<1>2. ASSUME NEW k \in 1..NodeCount, NEW l \in DOMAIN graph.nodes[k].outs,
             graph.nodes[k].outs[l] = Output
      PROVE  k = node /\ l = slot
  <2>1. k \in DOMAIN graph.nodes /\ node \in DOMAIN graph.nodes
    BY <1>1 DEF NodeCount, TypeOK, Graph
  <2> QED
    BY <1>1, <1>2, <2>1 DEF TypeOK, WellFormed
<1>3. slot \in Nat /\ node \in Nat
  BY DEF TypeOK
<1>4. ~Visited(Output)
  BY <1>2, <1>3 DEF Visited
<1> QED
  BY <1>1, <1>4 DEF SharedInv

(* Every step that gives no extent keeps the walk's order.                 *)
LEMMA VisitedNext ==
  ASSUME TypeOK, [Next]_vars, phase \notin {"scan", "alias"}, NEW v, Visited(v)
  PROVE  Visited(v)'
<1>1. graph' = graph /\ NodeCount' = NodeCount
  BY GraphNext
<1>2. PICK k \in 1..NodeCount : \E l \in DOMAIN graph.nodes[k].outs :
        /\ graph.nodes[k].outs[l] = v
        /\ k < node \/ (k = node /\ phase \in {"place", "error"} /\ l < slot)
  BY DEF Visited
<1>3. PICK l \in DOMAIN graph.nodes[k].outs :
        /\ graph.nodes[k].outs[l] = v
        /\ k < node \/ (k = node /\ phase \in {"place", "error"} /\ l < slot)
  BY <1>2
<1>4. /\ k \in Nat /\ l \in Nat /\ node \in Nat /\ slot \in Nat
  <2>1. graph.nodes \in Seq(Node) /\ NodeCount \in Nat
    BY DEF TypeOK, Graph, NodeCount
  <2>2. graph.nodes[k] \in Node
    BY <2>1 DEF NodeCount
  <2>3. graph.nodes[k].outs \in Seq(Value)
    BY <2>2 DEF Node
  <2>4. l \in Nat
    BY <2>3
  <2>5. slot \in Nat /\ node \in Nat
    BY <2>1 DEF TypeOK
  <2> QED
    BY <2>1, <2>4, <2>5
<1>5. \/ node' = node + 1 /\ phase' = "enter"
      \/ node' = node /\ slot' = 1 /\ phase = "enter" /\ phase' = "place"
      \/ node' = node /\ phase = "enter" /\ phase' = "done"
      \/ node' = node /\ slot' \in {slot, slot + 1} /\ phase' = phase
      \/ node' = node /\ slot' = slot /\ phase = "place" /\ phase' = "error"
  BY DEF Next, ScanNode, MarkOutputs, PropagateAlias, BeginPlacement, EnterNode,
         LeaveNode, Finish, SkipOutput, PlaceAlias, RejectDynamic, Reject, Placing,
         NeedsBlock, ReuseBlock, ExtendWorkspace, PlaceAt, NextOutput, Returned, vars, walk
<1>6. k < node' \/ (k = node' /\ phase' \in {"place", "error"} /\ l < slot')
  BY <1>3, <1>4, <1>5
<1> QED
  BY <1>1, <1>3, <1>6 DEF Visited

(* The output just placed has been visited.                                *)
LEMMA VisitedOutput ==
  ASSUME TypeOK, [Next]_vars, Placing, NextOutput, NEW v, v = Output
  PROVE  Visited(v)'
<1>1. /\ node \in 1..NodeCount /\ slot \in DOMAIN graph.nodes[node].outs
      /\ graph.nodes[node].outs[slot] = v
  BY PlacedOutput DEF Output
<1>2. slot \in Nat
  BY DEF TypeOK
<1>3. graph' = graph /\ NodeCount' = NodeCount
  BY GraphNext
<1>4. node' = node /\ phase' = phase /\ slot' = slot + 1
  BY DEF NextOutput
<1>5. phase' = "place"
  BY <1>4 DEF Placing
<1>6. slot < slot'
  BY <1>2, <1>4
<1> QED
  BY <1>1, <1>3, <1>4, <1>5, <1>6 DEF Visited

(* Giving the output an extent keeps the invariant, if an alias gets its   *)
(* source's.                                                               *)
LEMMA SharedPlaces ==
  ASSUME TypeOK, SharedInv, [Next]_vars, Placing, NextOutput, Output \notin External,
         NEW extent, assigned' = [assigned EXCEPT ![Output] = extent],
         Output \in Aliases =>
           extent = assigned[AliasSource(Output)] \/ AliasSource(Output) \in External
  PROVE  SharedInv'
<1>1. /\ graph' = graph /\ Aliases' = Aliases /\ External' = External
      /\ \A v \in Value : AliasSource(v)' = AliasSource(v)
  BY GraphNext DEF External
<1>2. PICK o \in Value : o = Output
  BY PlacedOutput
<1>3. /\ phase = "place" /\ phase' = "place" /\ assigned[o] = Nil
      /\ assigned' = [assigned EXCEPT ![o] = extent] /\ o \notin External
  BY <1>2, OutputIsNew DEF Placing, NextOutput
<1>4. assigned'[o] = extent /\ \A v \in Value \ {o} : assigned'[v] = assigned[v]
  BY <1>3 DEF TypeOK
<1>5. ASSUME NEW v \in Value, assigned'[v] # Nil PROVE Visited(v)' /\ v \notin External
  <2>1. CASE v = o
    <3>1. v = Output
      BY <1>2, <2>1
    <3> QED
      BY <1>3, <2>1, <3>1, VisitedOutput
  <2>2. CASE v # o
    BY <1>3, <1>4, <1>5, <2>2, VisitedNext DEF SharedInv
  <2> QED
    BY <2>1, <2>2
<1>6. ASSUME NEW a \in Aliases, assigned'[a] # Nil, AliasSource(a) \notin External
      PROVE  assigned'[a] = assigned'[AliasSource(a)]
  <2>1. a \in Value /\ AliasSource(a) \in Value
    BY AliasSourceValue
  <2>2. CASE a # o
    <3>1. assigned[a] # Nil /\ assigned[a] = assigned[AliasSource(a)]
      BY <1>4, <1>6, <2>1, <2>2 DEF SharedInv
    <3>2. AliasSource(a) # o
      BY <1>3, <3>1
    <3> QED
      BY <1>4, <2>1, <2>2, <3>1, <3>2
  <2>3. CASE a = o
    <3>1. extent = assigned[AliasSource(a)]
      BY <1>2, <1>6, <2>3
    <3>2. AliasSource(a) # o
      BY <1>3, <1>4, <1>6, <2>3, <3>1
    <3> QED
      BY <1>4, <2>1, <2>3, <3>1, <3>2
  <2> QED
    BY <2>2, <2>3
<1>7. \A a \in Aliases : a \in Value
  BY AliasSourceValue
<1> QED
  BY <1>1, <1>3, <1>5, <1>6, <1>7 DEF SharedInv, BoundaryViewsUnread

(* Every step keeps the extents of aliases those of their sources.         *)
LEMMA SharedNext ==
  ASSUME TypeOK, SharedInv, [Next]_vars
  PROVE  SharedInv'
<1>1. /\ graph' = graph /\ Aliases' = Aliases /\ External' = External
      /\ \A v \in Value : AliasSource(v)' = AliasSource(v)
  BY GraphNext DEF External
<1>2. \A a \in Aliases : a \in Value
  BY AliasSourceValue
<1>3. CASE phase \in {"scan", "alias"}
  <2>1. assigned' = assigned
    BY <1>3 DEF Next, ScanNode, MarkOutputs, PropagateAlias, BeginPlacement, EnterNode,
         LeaveNode, Finish, SkipOutput, PlaceAlias, RejectDynamic, Placing,
         NeedsBlock, ReuseBlock, ExtendWorkspace, Returned, vars, memory
  <2>2. \A v \in Value : assigned'[v] = Nil
    BY <1>3, <2>1 DEF SharedInv
  <2> QED
    BY <1>1, <1>2, <2>2 DEF SharedInv, BoundaryViewsUnread
<1>4. CASE phase \notin {"scan", "alias"} /\ assigned' = assigned
  <2>1. phase' \notin {"scan", "alias"}
    BY <1>4 DEF Next, ScanNode, MarkOutputs, PropagateAlias, BeginPlacement, EnterNode,
         LeaveNode, Finish, SkipOutput, PlaceAlias, RejectDynamic, Reject, NextOutput,
         ReuseBlock, ExtendWorkspace, PlaceAt, Returned, vars, walk
  <2>2. \A v \in Value : Visited(v) => Visited(v)'
    BY <1>4, VisitedNext
  <2> QED
    BY <1>1, <1>2, <1>4, <2>1, <2>2 DEF SharedInv, BoundaryViewsUnread
<1>5. CASE PlaceAlias /\ assigned' # assigned
  <2>1. /\ Placing /\ NextOutput /\ Output \notin External
        /\ SourceKnown /\ assigned' = [assigned EXCEPT ![Output] = SourceExtent]
    BY <1>5 DEF PlaceAlias, Reject, memory
  <2>2. SourceExtent = assigned[AliasSource(Output)] \/ AliasSource(Output) \in External
    BY <2>1 DEF SourceKnown, SourceExtent
  <2> QED
    BY <2>1, <2>2, SharedPlaces
<1>6. CASE \E offset : NeedsBlock /\ PlaceAt(offset)
  BY <1>6, SharedPlaces DEF NeedsBlock, Placing, PlaceAt
<1>7. assigned' = assigned \/ PlaceAlias \/ \E offset : NeedsBlock /\ PlaceAt(offset)
  BY DEF Next, ScanNode, MarkOutputs, PropagateAlias, BeginPlacement, EnterNode,
         LeaveNode, Finish, SkipOutput, RejectDynamic, Reject, ReuseBlock,
         ExtendWorkspace, Returned, vars, memory
<1> QED
  BY <1>3, <1>4, <1>5, <1>6, <1>7

(* Every value that shares an owner's storage, through however many        *)
(* Flattens, has the owner's extent, if the only boundary values Flattens  *)
(* read are ones no Flatten computes.                                      *)
THEOREM ViewsShareTheirSource ==
  ASSUME \A g \in Graphs : BoundaryViewsUnread(g)
  PROVE  Spec => []ViewsShareStorage
<1>1. Init => SharedInv
  <2> SUFFICES ASSUME Init PROVE SharedInv
    OBVIOUS
  <2>1. \A v \in Value : assigned[v] = Nil
    BY DEF Init
  <2>2. \A a \in Aliases : a \in Value
    BY AliasSourceValue
  <2> QED
    BY <2>1, <2>2 DEF Init, SharedInv
<1>2. TypeOK /\ SharedInv /\ [Next]_vars => SharedInv'
  BY SharedNext
<1>3. TypeOK /\ SharedInv => ViewsShareStorage
  <2> SUFFICES ASSUME TypeOK, SharedInv, NEW v \in Owners, NEW w \in Views(v),
                      assigned[w] # Nil
               PROVE  assigned[w] = assigned[v]
    BY DEF ViewsShareStorage
  <2> DEFINE storage == {v} \cup Aliases
             same == {u \in storage : /\ assigned[u] # Nil => assigned[u] = assigned[v]
                                      /\ u \notin Aliases \cap External => u \notin External}
  <2>1. v \in Value \ Aliases /\ v \notin External
    BY DEF Owners, SharedInv
  <2>2. ASSUME NEW a \in storage \ {v}, AliasSource(a) \in same PROVE a \in same
    <3>1. a \in Aliases /\ AliasSource(a) \notin External
      BY <2>2, SourceNoBoundaryView DEF SharedInv
    <3> QED
      BY <2>2, <3>1 DEF SharedInv
  <2>3. same \in SUBSET storage /\ v \in same
    BY <2>1
  <2>4. w \in same
    BY <2>2, <2>3 DEF Views
  <2> QED
    BY <2>4
<1> QED
  BY <1>1, <1>2, <1>3, TypeCorrect, PTL DEF Spec
=============================================================================
