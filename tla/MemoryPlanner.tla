--------------------------- MODULE MemoryPlanner ----------------------------
(***************************************************************************)
(* MemoryPlanner::Plan of src/runtime/memory_planner.cpp: it walks a       *)
(* topologically sorted graph and packs the intermediate values into one   *)
(* workspace, reusing a block once its value's last use has passed.        *)
(*                                                                         *)
(* One behaviour is one call of Plan on one graph of Graphs.  Nodes are    *)
(* counted from 1, so the code's graph_end is Len(nodes) + 1 here, and 0   *)
(* stands for a value with no last_use entry.  The free list is a set: of  *)
(* two free blocks of equal size the code takes the one released first,    *)
(* the model either.  The order of the alias pass is that of an            *)
(* unordered_map, so any.                                                  *)
(***************************************************************************)
EXTENDS Integers, Sequences, FiniteSets

CONSTANTS
  Value,    \* the values of all graphs
  Graphs,   \* the graphs to plan
  Nil

(* A node's flatten flag says it is a Flatten of one input to one output,  *)
(* which makes the output an alias of the input.                           *)
Node == [flatten : BOOLEAN, ins : SUBSET Value, outs : Seq(Value)]

Graph == [nodes : Seq(Node), inputs : SUBSET Value, outputs : SUBSET Value,
          constants : SUBSET Value, bytes : [Value -> Nat]]

(* No value is produced twice, and a Flatten has one input and one output. *)
WellFormed(g) ==
  /\ \A i, j \in DOMAIN g.nodes :
       \A k \in DOMAIN g.nodes[i].outs, l \in DOMAIN g.nodes[j].outs :
         g.nodes[i].outs[k] = g.nodes[j].outs[l] => i = j /\ k = l
  /\ \A i \in DOMAIN g.nodes : g.nodes[i].flatten =>
       /\ Len(g.nodes[i].outs) = 1
       /\ \E v \in Value : g.nodes[i].ins = {v} /\ v # g.nodes[i].outs[1]

ASSUME GraphAssumption ==
  /\ Nil \notin [offset : Nat, bytes : Nat]
  /\ \A g \in Graphs : g \in Graph /\ WellFormed(g)

VARIABLES
  graph,
  phase,      \* where Plan is: "scan", "alias", "enter", "place", "done", "error"
  node, slot, \* the node and the output of it that Plan is at
  lastUse,    \* last_use
  aliasesLeft,\* aliases the lifetime pass has still to visit
  free,       \* free_blocks
  live,       \* live_blocks
  assigned,   \* assigned: the extent of each planned value, or Nil
  workspaceEnd

walk == <<graph, phase, node, slot>>
lifetimes == <<lastUse, aliasesLeft>>
memory == <<free, live, assigned, workspaceEnd>>
vars == <<walk, lifetimes, memory>>

kWorkspaceAlignment == 256
(* Mutant of AlignUp: it rounds down.                                      *)
AlignDown(value) == (value \div kWorkspaceAlignment) * kWorkspaceAlignment

AlignUp(value) ==
  ((value + kWorkspaceAlignment - 1) \div kWorkspaceAlignment) * kWorkspaceAlignment

Extent == [offset : Nat, bytes : Nat]
FreeBlock == [offset : Nat, size : Nat]
LiveBlock == [value : Value, offset : Nat, size : Nat]

NodeCount == Len(graph.nodes)
Inputs(i) == graph.nodes[i].ins
OutputsOf(i) == {graph.nodes[i].outs[k] : k \in DOMAIN graph.nodes[i].outs}

External == graph.inputs \cup graph.outputs

(* IsAlias(a, v): some Flatten makes a an alias of v.                      *)
IsAlias(a, v) ==
  \E i \in 1..NodeCount : /\ graph.nodes[i].flatten
                          /\ graph.nodes[i].ins = {v}
                          /\ graph.nodes[i].outs = <<a>>

Aliases == {a \in Value : \E v \in Value : IsAlias(a, v)}
AliasSource(a) == CHOOSE v \in Value : IsAlias(a, v)

Init ==
  /\ graph \in Graphs
  /\ phase = "scan" /\ node = 1 /\ slot = 1
  /\ lastUse = [v \in Value |-> 0] /\ aliasesLeft = {}
  /\ free = {} /\ live = {} /\ workspaceEnd = 0
  /\ assigned = [v \in Value |-> Nil]
-----------------------------------------------------------------------------
(* Lifetimes.                                                              *)

(* A use overwrites last_use; producing a value only starts it.            *)
ScanNode ==
  /\ phase = "scan" /\ node <= NodeCount
  /\ lastUse' = [v \in Value |->
       IF v \in Inputs(node) \/ (v \in OutputsOf(node) /\ lastUse[v] = 0)
       THEN node ELSE lastUse[v]]
  /\ node' = node + 1
  /\ UNCHANGED <<graph, phase, slot, aliasesLeft, memory>>

(* Graph outputs live to the end; then the alias pass starts.              *)
MarkOutputs ==
  /\ phase = "scan" /\ node > NodeCount
  /\ lastUse' = [v \in Value |-> IF v \in graph.outputs THEN NodeCount + 1
                                                        ELSE lastUse[v]]
  /\ aliasesLeft' = Aliases
  /\ phase' = "alias" /\ node' = 1
  /\ UNCHANGED <<graph, slot, memory>>

(* Mutant of PropagateAlias: a source's lifetime ignores its views.        *)
PropagateNothing(a) ==
  /\ phase = "alias" /\ a \in aliasesLeft
  /\ aliasesLeft' = aliasesLeft \ {a}
  /\ UNCHANGED <<walk, memory, lastUse>>

(* The source of an alias lives as long as the alias, as far as the        *)
(* alias's own last use is known when the pass visits it.                  *)
PropagateAlias(a) ==
  /\ phase = "alias" /\ a \in aliasesLeft
  /\ lastUse' = [lastUse EXCEPT ![AliasSource(a)] =
                   IF lastUse[a] > @ THEN lastUse[a] ELSE @]
  /\ aliasesLeft' = aliasesLeft \ {a}
  /\ UNCHANGED <<walk, memory>>

BeginPlacement ==
  /\ phase = "alias" /\ aliasesLeft = {}
  /\ phase' = "enter"
  /\ UNCHANGED <<graph, node, slot, lifetimes, memory>>
-----------------------------------------------------------------------------
(* Placement.                                                              *)

Dead == {b \in live : lastUse[b.value] # 0 /\ lastUse[b.value] < node}

(* Mutant of EnterNode: the loop runs one node too far.                    *)
EnterNodePastEnd ==
  /\ phase = "enter" /\ node <= NodeCount + 1
  /\ free' = free \cup {[offset |-> b.offset, size |-> b.size] : b \in Dead}
  /\ live' = live \ Dead
  /\ phase' = "place" /\ slot' = 1
  /\ UNCHANGED <<graph, node, lifetimes, assigned, workspaceEnd>>

(* release_dead: blocks of values last used by an earlier node.            *)
EnterNode ==
  /\ phase = "enter" /\ node <= NodeCount
  /\ free' = free \cup {[offset |-> b.offset, size |-> b.size] : b \in Dead}
  /\ live' = live \ Dead
  /\ phase' = "place" /\ slot' = 1
  /\ UNCHANGED <<graph, node, lifetimes, assigned, workspaceEnd>>

LeaveNode ==
  /\ phase = "place" /\ slot > Len(graph.nodes[node].outs)
  /\ phase' = "enter" /\ node' = node + 1
  /\ UNCHANGED <<graph, slot, lifetimes, memory>>

Finish ==
  /\ phase = "enter" /\ node > NodeCount
  /\ phase' = "done"
  /\ UNCHANGED <<graph, node, slot, lifetimes, memory>>

Placing == phase = "place" /\ slot <= Len(graph.nodes[node].outs)
Output == graph.nodes[node].outs[slot]

NextOutput == slot' = slot + 1 /\ UNCHANGED <<graph, phase, node, lifetimes>>
Reject == phase' = "error" /\ UNCHANGED <<graph, node, slot, lifetimes, memory>>

(* Boundary values and constants have memory of their own.                 *)
SkipOutput ==
  /\ Placing
  /\ Output \in External \/ (Output \notin Aliases /\ Output \in graph.constants)
  /\ NextOutput
  /\ UNCHANGED memory

(* Mutant of SourceExtent: the source's offset is not taken over.          *)
SourceExtentAtZero ==
  [offset |-> 0, bytes |-> graph.bytes[AliasSource(Output)]]

(* An alias takes its source's extent; an external source has offset 0.    *)
SourceExtent ==
  LET source == AliasSource(Output)
  IN  IF assigned[source] # Nil THEN assigned[source]
      ELSE [offset |-> 0, bytes |-> graph.bytes[source]]

SourceKnown ==
  \/ assigned[AliasSource(Output)] # Nil
  \/ AliasSource(Output) \in External

PlaceAlias ==
  /\ Placing /\ Output \notin External /\ Output \in Aliases
  /\ \/ /\ SourceKnown /\ graph.bytes[Output] = SourceExtent.bytes
        /\ assigned' = [assigned EXCEPT ![Output] = SourceExtent]
        /\ NextOutput
        /\ UNCHANGED <<free, live, workspaceEnd>>
     \/ ~SourceKnown /\ Reject
     \/ SourceKnown /\ graph.bytes[Output] # SourceExtent.bytes /\ Reject

NeedsBlock ==
  /\ Placing
  /\ Output \notin External \cup Aliases \cup graph.constants

RejectDynamic == NeedsBlock /\ graph.bytes[Output] = 0 /\ Reject

Reserved == AlignUp(graph.bytes[Output])
BestFits ==
  {b \in free : /\ b.size >= Reserved
                /\ \A c \in free : c.size >= Reserved => b.size <= c.size}

PlaceAt(offset) ==
  /\ assigned' = [assigned EXCEPT
                    ![Output] = [offset |-> offset, bytes |-> graph.bytes[Output]]]
  /\ live' = live \cup {[value |-> Output, offset |-> offset, size |-> Reserved]}
  /\ NextOutput

(* Mutant of ReuseBlock: a split shrinks the free block but does not move  *)
(* it.                                                                     *)
ReuseBlockKeepsOffset(b) ==
  /\ NeedsBlock /\ graph.bytes[Output] # 0 /\ b \in BestFits
  /\ PlaceAt(b.offset)
  /\ free' = (free \ {b}) \cup
       {r \in {[offset |-> b.offset, size |-> b.size - Reserved]} : r.size > 0}
  /\ UNCHANGED workspaceEnd

(* Best fit; what the block has to spare stays free.                       *)
ReuseBlock(b) ==
  /\ NeedsBlock /\ graph.bytes[Output] # 0 /\ b \in BestFits
  /\ PlaceAt(b.offset)
  /\ free' = (free \ {b}) \cup
       {r \in {[offset |-> b.offset + Reserved, size |-> b.size - Reserved]} : r.size > 0}
  /\ UNCHANGED workspaceEnd

ExtendWorkspace ==
  /\ NeedsBlock /\ graph.bytes[Output] # 0 /\ BestFits = {}
  /\ PlaceAt(AlignUp(workspaceEnd))
  /\ workspaceEnd' = AlignUp(workspaceEnd) + Reserved
  /\ UNCHANGED free

(* Plan has returned.                                                      *)
Returned == phase \in {"done", "error"} /\ UNCHANGED vars

Next ==
  \/ ScanNode \/ MarkOutputs \/ BeginPlacement
  \/ \E a \in Value : PropagateAlias(a)
  \/ EnterNode \/ LeaveNode \/ Finish
  \/ SkipOutput \/ PlaceAlias \/ RejectDynamic \/ ExtendWorkspace
  \/ \E b \in free : ReuseBlock(b)
  \/ Returned

Spec == Init /\ [][Next]_vars
-----------------------------------------------------------------------------
(* Properties.                                                             *)

(* The type of every variable.                                             *)
TypeOK ==
  /\ graph \in Graph /\ WellFormed(graph)
  /\ phase \in {"scan", "alias", "enter", "place", "done", "error"}
  /\ node \in 1..(NodeCount + 1) /\ slot \in Nat \ {0}
  /\ phase = "place" => node <= NodeCount
  /\ lastUse \in [Value -> Nat] /\ aliasesLeft \subseteq Aliases
  /\ free \subseteq FreeBlock /\ live \subseteq LiveBlock
  /\ assigned \in [Value -> Extent \cup {Nil}]
  /\ workspaceEnd \in Nat

Apart(a, aSize, b, bSize) == a + aSize <= b \/ b + bSize <= a

(* No byte of the workspace is in two blocks, free or live, and no block   *)
(* reaches past its end: splitting, releasing and extending keep the       *)
(* block lists a partition of what was reserved.                           *)
BlocksDisjoint ==
  /\ \A a, b \in free : a # b => Apart(a.offset, a.size, b.offset, b.size)
  /\ \A a, b \in live : a # b => Apart(a.offset, a.size, b.offset, b.size)
  /\ \A a \in free, b \in live : Apart(a.offset, a.size, b.offset, b.size)
  /\ \A a \in free \cup live : a.offset + a.size <= workspaceEnd

(* The values that share v's storage: v and, transitively, its aliases.    *)
Views(v) ==
  LET storage == {v} \cup Aliases
      closed(S) == \A a \in storage \ {v} : AliasSource(a) \in S => a \in S
  IN  {w \in storage : \A S \in SUBSET storage : v \in S /\ closed(S) => w \in S}

(* Node i or a later one reads or writes w, or the caller reads it.        *)
UsedFrom(w, i) ==
  \/ w \in graph.outputs
  \/ \E k \in i..NodeCount : w \in Inputs(k) \cup OutputsOf(k)

Needed(v) == \E w \in Views(v) : UsedFrom(w, node)

(* The values with a block of their own.                                   *)
Owners == {v \in Value \ Aliases : assigned[v] # Nil}

(* Two values whose storage is still needed, by a node to come or through  *)
(* a Flatten view, never overlap in the workspace (development.md: no      *)
(* overwriting of a live intermediate).                                    *)
LiveValuesDisjoint ==
  \A u, v \in Owners :
    u # v /\ Needed(u) /\ Needed(v) =>
      Apart(assigned[u].offset, assigned[u].bytes,
            assigned[v].offset, assigned[v].bytes)

(* A Flatten view occupies exactly its source's bytes.                     *)
ViewsShareStorage ==
  \A v \in Owners : \A w \in Views(v) :
    assigned[w] # Nil => assigned[w] = assigned[v]

(* Every planned value lies inside the workspace the plan asks for.        *)
PlanFitsWorkspace ==
  \A v \in Owners : assigned[v].offset + assigned[v].bytes <= AlignUp(workspaceEnd)
=============================================================================
