------------------------------ MODULE Compiler ------------------------------
(***************************************************************************)
(* Compiler::Compile (src/compiler/compiler.cpp) on top of the passes: it  *)
(* checks the options, runs the pipeline, loads the Kernel Packs           *)
(* (ArtifactRepository::Load, src/backend/kernel_artifact.cpp), lowers     *)
(* every node to its candidates (CudaTritonBackend::Lower, src/backend/    *)
(* backend.cpp) and plans the memory of each shape profile.                *)
(*                                                                         *)
(* A profile is the kinds (ranks) its shapes give the inputs; its min, opt *)
(* and max points share them.  ByteSize is what the values take at the     *)
(* profile's max point.  MemoryPlanner is known by what it promises: the   *)
(* values it places end at or before its workspace's end (module           *)
(* MemoryPlanner, PlanFitsWorkspace).  A node's name is a function of its  *)
(* output, not always a different one.  A kernel's layout and attribute    *)
(* constraints are left out, as those attributes are.                      *)
(***************************************************************************)
EXTENDS GraphPasses, FiniteSetsExt, SequencesExt

CONSTANTS
  Inputs,        \* the graph's inputs
  NodeName,      \* NodeName[v]: the name of the node that computes v
  Compilations,  \* the graphs compiled, each with its options
  PlannedBytes   \* the workspaces MemoryPlanner may return

Float == {"float32", "float16"}

(* A kernel of a pack: the inputs it counts, if it does, and the kinds its *)
(* first input may have are its constraints.                               *)
Artifact ==
  [op : Op, default : BOOLEAN, dtype : Float, capability : Nat,
   counts : SUBSET (1..6), kinds : SUBSET Kind]

(* A Kernel Pack is the artifacts read from it, up to its first flaw if it *)
(* has one: what is wrong with its manifest or one of its kernels ends in  *)
(* an error returned or in an exception.                                   *)
Pack == [artifacts : Seq(Artifact), flaw : {"none", "rejected", "malformed"}]

(* CompileOptions, and of the model whether every constant has its data.   *)
Options ==
  [target : {"cuda_triton", "cpu_reference", "unregistered"},
   allowCpuFallback : BOOLEAN, constantsComplete : BOOLEAN,
   profiles : Seq([valid : BOOLEAN, kinds : [Inputs -> Kind]]),
   bytes : Seq([Value -> Nat]), dtype : Float \cup {"int64"},
   capability : Nat,
   packs : Seq(Pack)]

ASSUME CompilerAssumption ==
  /\ Inputs \subseteq Value /\ DOMAIN NodeName = Value /\ PlannedBytes \subseteq Nat
  /\ \A c \in Compilations :
       /\ c.graph \in Graphs /\ c.options \in Options
       /\ Len(c.options.bytes) = Max({1, Len(c.options.profiles)})

VARIABLES
  options,     \* what Compile was called with; never changes
  stage,       \* "checks", "passes", "load", "lower", "plan", "ok" or "failed"
  repository,  \* the artifacts loaded, in the packs' order
  ops,         \* the plan's ops
  plans        \* the memory plan of each profile, or of the static graph

compileVars == <<vars, options, stage, repository, ops, plans>>

CompileInit ==
  /\ \E c \in Compilations :
       /\ nodes = c.graph.nodes /\ outputs = c.graph.outputs /\ known = c.graph.known
       /\ options = c.options
  /\ passes = Pipeline /\ status = "running" /\ stage = "checks"
  /\ repository = <<>> /\ ops = <<>> /\ plans = <<>>

OnCuda == options.target = "cuda_triton"

(* ApplyProfilePoint: descriptions with profile p's shapes on the inputs.  *)
AtProfile(kinds, p) ==
  [v \in Value |-> IF v \in Inputs THEN options.profiles[p].kinds[v] ELSE kinds[v]]

CheckOptions ==
  /\ stage = "checks"
  /\ LET accepted ==
           /\ ~(options.allowCpuFallback /\ OnCuda)
           /\ \A p \in DOMAIN options.profiles : options.profiles[p].valid
           /\ options.constantsComplete
     IN  \/ /\ accepted /\ stage' = "passes"
            /\ known' = IF options.profiles = <<>> THEN known ELSE AtProfile(known, 1)
         \/ ~accepted /\ stage' = "failed" /\ UNCHANGED known
  /\ UNCHANGED <<nodes, outputs, passes, status, options, repository, ops, plans>>

Optimize ==
  /\ stage = "passes" /\ PassStep
  /\ stage' = CASE status' = "ok" -> "load"
                [] status' = "failed" -> "failed"
                [] OTHER -> "passes"
  /\ UNCHANGED <<options, repository, ops, plans>>
-----------------------------------------------------------------------------
(* ArtifactRepository::Load.                                               *)

(* The first flaw ends Load: what was read before it stays if the flaw is  *)
(* returned as an error, and is dropped if it is thrown.  A repository     *)
(* without flaw has to have a default variant of every operator it knows.  *)
LoadArtifacts ==
  /\ stage = "load"
  /\ LET flawed == {p \in DOMAIN options.packs : options.packs[p].flaw # "none"}
         read == IF flawed = {} THEN options.packs
                 ELSE SubSeq(options.packs, 1, Min(flawed))
     IN  \/ /\ ~OnCuda
            /\ stage' = IF options.target = "unregistered" THEN "failed" ELSE "lower"
            /\ UNCHANGED repository
         \/ /\ OnCuda
            /\ repository' =
                 IF flawed # {} /\ Last(read).flaw = "malformed" THEN <<>>
                 ELSE FlattenSeq([p \in DOMAIN read |-> read[p].artifacts])
            /\ LET loaded ==
                     /\ options.packs # <<>> /\ flawed = {}
                     /\ \A a \in Range(repository') :
                          \E b \in Range(repository') : b.op = a.op /\ b.default
               IN  stage' = IF loaded THEN "lower" ELSE "failed"
  /\ UNCHANGED <<vars, options, ops, plans>>
-----------------------------------------------------------------------------
(* CudaTritonBackend::Lower.                                               *)

(* Whether an artifact fits the compilation, and its constraints fit a     *)
(* node of so many inputs, the first of that kind (KernelCatalog::Query,   *)
(* ArtifactMatches).                                                       *)
Suits(artifact, count, kind) ==
  /\ artifact.dtype = options.dtype /\ artifact.capability <= options.capability
  /\ count \in artifact.counts /\ kind \in artifact.kinds

Matching(node) ==
  Kept(repository,
       {k \in DOMAIN repository :
          /\ repository[k].op = node.op
          /\ Suits(repository[k], Len(node.ins), known[node.ins[1]])})

(* Mutant of Supported: any artifact of the operator is enough.            *)
SupportedByName(node) ==
  /\ options.dtype \in Float
  /\ IF node.op = "Flatten" THEN node.out \notin outputs
     ELSE \E i \in DOMAIN repository : repository[i].op = node.op

(* CheckCudaNode.                                                          *)
Supported(node) ==
  /\ options.dtype \in Float
  /\ IF node.op = "Flatten" THEN node.out \notin outputs ELSE Matching(node) # <<>>

Operand(v) == <<"value", v>>
Operands(vs) == [k \in DOMAIN vs |-> Operand(vs[k])]

Temporary(node, part) == <<"temporary", NodeName[node.out], part>>

Step(op, ins, result) == [op |-> op, ins |-> ins, out |-> result]

(* Mutant of ConvThenNorm: the operands are counted without the weights.   *)
ConvThenNormOffByOne(in, conv, result) ==
  <<Step("Conv", SubSeq(in, 1, 2), conv),
    Step("BatchNormalization", <<conv>> \o SubSeq(in, 2, 5), result)>>

ConvThenNorm(in, conv, result) ==
  <<Step("Conv", SubSeq(in, 1, 2), conv),
    Step("BatchNormalization", <<conv>> \o SubSeq(in, 3, 6), result)>>

(* The steps Lower replaces a fused operator by; none if it knows none.    *)
Decomposition(node) ==
  LET in == Operands(node.ins)
      out == Operand(node.out)
      conv == Temporary(node, "conv")
      bn == Temporary(node, "bn")
      sum == Temporary(node, "add")
      gemm == Temporary(node, "gemm")
  IN  CASE node.op = "FusedConvBatchNorm" -> ConvThenNorm(in, conv, out)
        [] node.op = "FusedConvBatchNormRelu" ->
             ConvThenNorm(in, conv, bn) \o <<Step("Relu", <<bn>>, out)>>
        [] node.op = "AddRelu" ->
             <<Step("Add", in, sum), Step("Relu", <<sum>>, out)>>
        [] node.op = "GemmGelu" ->
             <<Step("Gemm", in, gemm), Step("Gelu", <<gemm>>, out)>>
        [] node.op = "SkipLayerNormalization" ->
             <<Step("Add", SubSeq(in, 1, 2), sum),
               Step("LayerNormalization", <<sum>> \o SubSeq(in, 3, 4), out)>>
        [] OTHER -> <<>>

(* Mutant of DefaultArtifact: whatever its type, too.                      *)
DefaultOfAnyType(op) == SelectInSeq(repository, LAMBDA a : a.op = op /\ a.default)

(* DefaultArtifact: the first default variant of the operator, whatever    *)
(* its constraints and the device it is built for; 0 if there is none.     *)
DefaultArtifact(op) ==
  SelectInSeq(repository, LAMBDA a : a.op = op /\ a.default /\ a.dtype = options.dtype)

(* The candidate that runs the decomposition, each step but the last into  *)
(* a temporary like the node's output.                                     *)
Alternatives(node) ==
  LET steps == Decomposition(node)
  IN  IF steps = <<>> \/ \E k \in DOMAIN steps : DefaultArtifact(steps[k].op) = 0 THEN <<>>
      ELSE <<[default |-> FALSE,
              steps |-> [k \in DOMAIN steps |->
                           [kernel |-> repository[DefaultArtifact(steps[k].op)],
                            ins |-> steps[k].ins, out |-> steps[k].out]],
              temporaries |-> [k \in 1..(Len(steps) - 1) |->
                                 [name |-> steps[k].out, like |-> node.out,
                                  slot |-> k - 1]]]>>

(* A Flatten is a view and has no kernel; every other node has a candidate *)
(* of one step for each matching artifact, and its alternatives.           *)
Candidates(node) ==
  IF node.op = "Flatten"
  THEN <<[default |-> TRUE, steps |-> <<>>, temporaries |-> <<>>]>>
  ELSE LET matching == Matching(node)
       IN  [k \in DOMAIN matching |->
              [default |-> matching[k].default,
               steps |-> <<[kernel |-> matching[k], ins |-> Operands(node.ins),
                            out |-> Operand(node.out)]>>,
               temporaries |-> <<>>]]
           \o Alternatives(node)

DefaultCandidate(candidates) == SelectInSeq(candidates, LAMBDA c : c.default)

(* The first default candidate, else the first.                            *)
Selected(candidates) ==
  IF DefaultCandidate(candidates) = 0 THEN 1 ELSE DefaultCandidate(candidates)

(* The next node of the optimised graph becomes an op.  The CPU backend    *)
(* refuses every node.                                                     *)
LowerNode ==
  /\ stage = "lower" /\ Len(ops) < Len(nodes)
  /\ LET node == nodes[Len(ops) + 1]
         candidates == Candidates(node)
     IN  \/ /\ OnCuda /\ Supported(node) /\ candidates # <<>>
            /\ ops' = Append(ops, [candidates |-> candidates,
                                   selected |-> Selected(candidates)])
            /\ UNCHANGED stage
         \/ /\ ~(OnCuda /\ Supported(node) /\ candidates # <<>>)
            /\ stage' = "failed" /\ UNCHANGED ops
  /\ UNCHANGED <<vars, options, repository, plans>>

StartPlanning ==
  /\ stage = "lower" /\ Len(ops) = Len(nodes)
  /\ stage' = "plan"
  /\ UNCHANGED <<vars, options, repository, ops, plans>>
-----------------------------------------------------------------------------
(* Memory.                                                                 *)

AlignWorkspace(bytes) == ((bytes + 255) \div 256) * 256

(* The temporaries of all candidates, in the order they are visited.       *)
Temporaries ==
  FlattenSeq([i \in DOMAIN ops |->
    FlattenSeq([c \in DOMAIN ops[i].candidates |-> ops[i].candidates[c].temporaries])])

BytesOf(p, v) == IF known[v] = "unknown" THEN 0 ELSE options.bytes[p][v]

(* Mutant of SlotBytes: a slot is as large as its last temporary.          *)
BytesOfLast(p, slot) ==
  LET same == SelectSeq(Temporaries, LAMBDA t : t.slot = slot)
  IN  IF same = <<>> THEN 0 ELSE BytesOf(p, Last(same).like)

SlotBytes(p, slot) ==
  Max({0} \cup {BytesOf(p, t.like) : t \in {u \in Range(Temporaries) : u.slot = slot}})

(* Slots follow the planner's workspace, one after another.                *)
SlotOffset(p, planned, slot) ==
  LET offset[s \in 0..slot] ==
        IF s = 0 THEN AlignWorkspace(planned)
        ELSE offset[s - 1] + AlignWorkspace(SlotBytes(p, s - 1))
  IN  offset[slot]

(* AddCandidateTemporaries: a temporary whose name has its place already   *)
(* is not given another one.                                               *)
WithTemporaries(p, planned) ==
  LET slots == {t.slot : t \in Range(Temporaries)}
      first == {i \in DOMAIN Temporaries :
                  \A j \in 1..(i - 1) : Temporaries[j].name # Temporaries[i].name}
  IN  [planned |-> planned,
       allocations |-> {[name |-> Temporaries[i].name,
                         bytes |-> BytesOf(p, Temporaries[i].like),
                         offset |-> SlotOffset(p, planned, Temporaries[i].slot)] :
                          i \in first},
       workspace |-> AlignWorkspace(SlotOffset(p, planned, Max({-1} \cup slots) + 1))]

(* MemoryPlanner::Plan refuses a value of unknown size, and a view that is *)
(* not as large as what it views.                                          *)
Plannable(p) ==
  \A node \in Range(nodes) :
    IF node.op = "Flatten" THEN BytesOf(p, node.out) = BytesOf(p, node.ins[1])
    ELSE node.out \in outputs \/ BytesOf(p, node.out) > 0

(* The next profile's shapes are inferred and its workspace is planned,    *)
(* or, without profiles, the graph's own.                                  *)
PlanMemory ==
  /\ stage = "plan" /\ Len(plans) < Len(options.bytes)
  /\ LET p == Len(plans) + 1
         accepted ==
           /\ options.profiles # <<>> => Inferred(nodes, AtProfile(known, p)).ok
           /\ Plannable(p)
           /\ \A t \in Range(Temporaries) : BytesOf(p, t.like) > 0
     IN  \/ /\ accepted
            /\ \E planned \in PlannedBytes :
                 plans' = Append(plans, WithTemporaries(p, planned))
            /\ UNCHANGED stage
         \/ ~accepted /\ stage' = "failed" /\ UNCHANGED plans
  /\ UNCHANGED <<vars, options, repository, ops>>

ReturnPlan ==
  /\ stage = "plan" /\ Len(plans) = Len(options.bytes)
  /\ stage' = "ok"
  /\ UNCHANGED <<vars, options, repository, ops, plans>>

Returned == stage \in {"ok", "failed"} /\ UNCHANGED compileVars
-----------------------------------------------------------------------------
CompileNext ==
  \/ CheckOptions \/ Optimize \/ LoadArtifacts \/ LowerNode \/ StartPlanning
  \/ PlanMemory \/ ReturnPlan \/ Returned

(* Compile is one sequential call: it takes its next step until it returns. *)
CompileSpec ==
  CompileInit /\ [][CompileNext]_compileVars /\ WF_compileVars(CompileNext)
-----------------------------------------------------------------------------
(* Properties.                                                             *)

(* The type of every variable, those of the passes included.               *)
CompileTypeOK ==
  /\ TypeOK
  /\ options \in Options
  /\ stage \in {"checks", "passes", "load", "lower", "plan", "ok", "failed"}
  /\ repository \in Seq(Artifact)
  /\ Len(ops) <= Len(nodes) /\ Len(plans) <= Len(options.bytes)
  /\ \A op \in Range(ops) :
       /\ op.selected \in DOMAIN op.candidates
       /\ \A c \in Range(op.candidates) :
            /\ c.default \in BOOLEAN
            /\ \A step \in Range(c.steps) : step.kernel \in Artifact
            /\ \A t \in Range(c.temporaries) : t.like \in Value /\ t.slot \in Nat
  /\ \A plan \in Range(plans) : plan.planned \in PlannedBytes /\ plan.workspace \in Nat

(* An op that is never tuned runs one kernel of its own operator that fits *)
(* the device and the node, a default one if any fits, and never a         *)
(* decomposition (README.md: kDisabled uses the manifest's defaults).      *)
SelectedRunsOneKernel ==
  \A i \in DOMAIN ops :
    LET selected == ops[i].candidates[ops[i].selected]
        matching == Matching(nodes[i])
    IN  nodes[i].op # "Flatten" =>
          /\ Len(selected.steps) = 1 /\ selected.temporaries = <<>>
          /\ selected.steps[1].kernel \in Range(matching)
          /\ (\E a \in Range(matching) : a.default) => selected.steps[1].kernel.default

(* The operand a candidate's last step writes, as a term of unfused        *)
(* operators over what its steps read from outside.                        *)
Computed(steps) ==
  LET term[k \in DOMAIN steps] ==
        Term(steps[k].kernel.op,
             [j \in DOMAIN steps[k].ins |->
                LET made == {l \in 1..(k - 1) : steps[l].out = steps[k].ins[j]}
                IN  IF made = {} THEN steps[k].ins[j] ELSE term[Max(made)]])
  IN  term[Len(steps)]

(* Every candidate of an op, fused or decomposed, writes the op's output,  *)
(* and computes there what the operator means: the tuner may choose any of *)
(* them (architecture.md: the fused kernel and the sequence of ops).       *)
CandidatesCompute ==
  \A i \in DOMAIN ops : \A c \in Range(ops[i].candidates) :
    c.steps # <<>> =>
      /\ Last(c.steps).out = Operand(nodes[i].out)
      /\ Computed(c.steps) = Term(nodes[i].op, Operands(nodes[i].ins))

(* The artifacts of the packs that Compile is given.                       *)
ArtifactsOf(o) == UNION {Range(o.packs[p].artifacts) : p \in DOMAIN o.packs}

(* The operators that a fused one is decomposed into, and the inputs of    *)
(* each in a node of so many.                                              *)
PartOps(op) ==
  CASE op = "FusedConvBatchNorm" -> {"Conv", "BatchNormalization"}
    [] op = "FusedConvBatchNormRelu" -> {"Conv", "BatchNormalization", "Relu"}
    [] op = "AddRelu" -> {"Add", "Relu"}
    [] op = "GemmGelu" -> {"Gemm", "Gelu"}
    [] op = "SkipLayerNormalization" -> {"Add", "LayerNormalization"}
    [] OTHER -> {}

PartInputs(op, count) ==
  CASE op \in {"Relu", "Gelu"} -> 1
    [] op \in {"Conv", "Add"} -> 2
    [] op = "LayerNormalization" -> 3
    [] op = "BatchNormalization" -> 5
    [] OTHER -> count

(* In these packs, a default variant that a decomposition may take is for  *)
(* the device, and takes what the fused kernels for it take, part by part. *)
DefaultsSuit(o) ==
  \A d, f \in ArtifactsOf(o) :
    /\ d.default /\ d.dtype = o.dtype /\ d.op \in PartOps(f.op)
    /\ f.dtype = o.dtype /\ f.capability <= o.capability
    => /\ d.capability <= o.capability /\ f.kinds \subseteq d.kinds
       /\ \A count \in f.counts : PartInputs(d.op, count) \in d.counts

(* The kinds that inference may accept of an operator's first input.       *)
FirstKinds(op) ==
  CASE op \in ConvLike \cup PoolLike -> {"image"}
    [] op \in GemmLike -> {"matrix"}
    [] OTHER -> Kind

(* The kinds of the values under a profile's shapes, or the graph's own.   *)
KindsAt(p) ==
  IF options.profiles = <<>> THEN known ELSE Inferred(nodes, AtProfile(known, p)).known

FirstRanks(p) ==
  options.profiles # <<>> => options.profiles[p].kinds = options.profiles[1].kinds

(* The kind of an operand; a temporary is like the output of its node.     *)
KindAt(kinds, node, operand) ==
  IF operand[1] = "value" THEN kinds[operand[2]] ELSE kinds[node.out]

(* The code fits kernels to a node one by one, under the first profile's   *)
(* shapes, and takes those of a decomposition by operator and type alone.  *)
(* In the plan it returns, every kernel that a candidate may run is for    *)
(* the device and accepts its tensors, under the shapes of every profile   *)
(* whose ranks are the first one's, and of the others as well if it asks   *)
(* for no rank that inference does not; those of a decomposition only if   *)
(* the packs' default variants suit their fused kernels (backend.cpp: 215; *)
(* compiler.cpp: 221).                                                     *)
KernelsSuitTensors ==
  stage = "ok" =>
    LET defaultsSuit == DefaultsSuit(options)
    IN  \A p \in DOMAIN plans :
          LET kinds == KindsAt(p)
          IN  \A i \in DOMAIN ops : \A c \in Range(ops[i].candidates) :
                \A step \in Range(c.steps) :
                  /\ FirstRanks(p) \/ FirstKinds(step.kernel.op) \subseteq step.kernel.kinds
                  /\ Len(c.steps) = 1 \/ defaultsSuit
                  => Suits(step.kernel, Len(step.ins), KindAt(kinds, nodes[i], step.ins[1]))

(* Where a plan has a temporary's tensor begin.                            *)
OffsetOf(plan, name) == (CHOOSE a \in plan.allocations : a.name = name).offset

(* The temporaries of a candidate are apart from one another and from      *)
(* every value the planner placed, are aligned, and fit in the workspace,  *)
(* in every profile, although slots are shared by all ops and a name that  *)
(* two nodes share has one place only (compiler/README.md, point 6).       *)
TemporariesApart ==
  \A p \in DOMAIN plans : \A i \in DOMAIN ops : \A c \in Range(ops[i].candidates) :
    LET begin(t) == OffsetOf(plans[p], t.name)
        end(t) == begin(t) + BytesOf(p, t.like)
    IN  \A t \in Range(c.temporaries) :
          /\ begin(t) >= plans[p].planned /\ begin(t) % 256 = 0
          /\ end(t) <= plans[p].workspace
          /\ \A u \in Range(c.temporaries) :
               u # t => end(t) <= begin(u) \/ end(u) <= begin(t)

(* Compile returns a plan or an error: no stage, and no loop of a fusion,  *)
(* goes on forever.                                                        *)
CompileReturns == <>(stage \in {"ok", "failed"})
=============================================================================
