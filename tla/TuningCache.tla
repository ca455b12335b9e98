---------------------------- MODULE TuningCache ----------------------------
(***************************************************************************)
(* The persistent tuning cache: ReadTuningChoice, WriteTuningChoice and    *)
(* the loop of ExecutionContext::PrepareTuning that uses them              *)
(* (src/runtime/engine.cpp), run by several Contexts, of one process or of *)
(* several, on one cache directory, any of which may crash between two     *)
(* file operations.                                                        *)
(*                                                                         *)
(* Files are modelled as POSIX inodes: an open file keeps its inode when   *)
(* its name is renamed, and a name opened for truncation keeps its inode.  *)
(* An entry's text is the candidate it names, or Empty: it is shorter than *)
(* the stream's buffer, so it reaches the file in the one write that       *)
(* closing the stream makes.  A reader that finds no candidate in a file   *)
(* treats it as a miss, so partly written text is Empty as well.           *)
(***************************************************************************)
EXTENDS Naturals, Sequences, FiniteSets

CONSTANTS
  Context,
  Mode,        \* Mode[c]: the tuning mode of c's plan
  Key,         \* tuning keys
  Ops,         \* Ops[c]: the keys of c's ops at its active shape, in plan order
  OptKey,      \* OptKey[c][i]: op i's key at the profile's opt point, or Nil
  Candidate,   \* execution candidates; every op has all of them
  Default,     \* the candidate the compiler selected
  Inode,
  FaultSets,   \* the sets of operations that may fail, one per behaviour
  Empty, Nil

Modes == {"kUseCache", "kTuneIfMissing", "kForceRetune"}

ASSUME CacheAssumption ==
  /\ Mode \in [Context -> Modes] /\ Default \in Candidate
  /\ Ops \in [Context -> Seq(Key)]
  /\ \A c \in Context : OptKey[c] \in [DOMAIN Ops[c] -> Key \cup {Nil}]
  /\ Empty \notin Candidate /\ Nil \notin Key \cup Inode \cup Candidate
  /\ FaultSets \subseteq SUBSET {"measure", "open", "flush", "rename", "crash"}

VARIABLES
  faults,    \* the operations that may fail; never changes
  entry,     \* entry[k]: the inode named <k>.json, or Nil
  temporary, \* temporary[k]: the inode named <k>.json.tmp, or Nil
  content,   \* content[f]: the candidate inode f's text names, or Empty
  pc,        \* pc[c]: where c is in PrepareTuning
  op,        \* op[c]: the op c is at
  selected,  \* selected[c]: c's selected_candidates_
  best,      \* best[c]: the candidate c's measurement chose
  output     \* output[c]: the inode of c's open ofstream, or Nil

files == <<entry, temporary, content>>
vars == <<faults, files, pc, op, selected, best, output>>

CurrentKey(c) == Ops[c][op[c]]

Init ==
  /\ faults \in FaultSets
  /\ entry = [k \in Key |-> Nil] /\ temporary = [k \in Key |-> Nil]
  /\ content = [f \in Inode |-> Empty]
  /\ pc = [c \in Context |-> "idle"] /\ op = [c \in Context |-> 1]
  /\ selected = [c \in Context |-> <<>>]
  /\ best = [c \in Context |-> Nil] /\ output = [c \in Context |-> Nil]
-----------------------------------------------------------------------------
Goto(c, stage) == pc' = [pc EXCEPT ![c] = stage]

At(c, stage) == pc[c] = stage /\ op[c] <= Len(Ops[c])

(* What ReadTuningChoice makes of an entry: its candidate, or Nil.         *)
ReadTuningChoice(k) ==
  IF entry[k] = Nil \/ content[entry[k]] = Empty THEN Nil ELSE content[entry[k]]

(* Each run that finds tuning_prepared_ false starts from the defaults.    *)
PrepareTuning(c) ==
  /\ pc[c] \in {"idle", "prepared", "failed"}
  /\ Goto(c, "read")
  /\ op' = [op EXCEPT ![c] = 1]
  /\ selected' = [selected EXCEPT ![c] = [i \in 1..Len(Ops[c]) |-> Default]]
  /\ UNCHANGED <<files, best, output>>

NextOp(c) == Goto(c, "read") /\ op' = [op EXCEPT ![c] = @ + 1]

Fail(c) == Goto(c, "failed") /\ UNCHANGED op

Select(c, candidate) ==
  selected' = [selected EXCEPT ![c][op[c]] = candidate] /\ NextOp(c)

(* Mutant of ReadExact: only kUseCache looks in the cache.                 *)
ReadExactForUseOnly(c) ==
  /\ At(c, "read")
  /\ LET hit == Mode[c] = "kUseCache" /\ ReadTuningChoice(CurrentKey(c)) # Nil
     IN  \/ hit /\ Select(c, ReadTuningChoice(CurrentKey(c)))
         \/ ~hit /\ Mode[c] = "kUseCache" /\ Goto(c, "opt") /\ UNCHANGED <<op, selected>>
         \/ ~hit /\ Mode[c] # "kUseCache" /\ Goto(c, "measure") /\ UNCHANGED <<op, selected>>
  /\ UNCHANGED <<files, best, output>>

(* The entry of the exact shape, which kForceRetune ignores.               *)
ReadExact(c) ==
  /\ At(c, "read")
  /\ LET hit == Mode[c] # "kForceRetune" /\ ReadTuningChoice(CurrentKey(c)) # Nil
     IN  \/ hit /\ Select(c, ReadTuningChoice(CurrentKey(c)))
         \/ ~hit /\ Mode[c] = "kUseCache" /\ Goto(c, "opt") /\ UNCHANGED <<op, selected>>
         \/ ~hit /\ Mode[c] # "kUseCache" /\ Goto(c, "measure") /\ UNCHANGED <<op, selected>>
  /\ UNCHANGED <<files, best, output>>

(* kUseCache falls back on the opt point's entry, then on the default.     *)
ReadOpt(c) ==
  /\ At(c, "opt")
  /\ LET key == OptKey[c][op[c]]
         hit == key # Nil /\ ReadTuningChoice(key) # Nil
     IN  \/ hit /\ Select(c, ReadTuningChoice(key))
         \/ ~hit /\ NextOp(c) /\ UNCHANGED selected
  /\ UNCHANGED <<files, best, output>>

(* Mutant of Measure: finding no valid candidate is not an error.          *)
MeasureUnchecked(c) ==
  /\ At(c, "measure")
  /\ \E candidate \in Candidate \cup {Nil} :
       /\ best' = [best EXCEPT ![c] = candidate]
       /\ selected' = [selected EXCEPT ![c][op[c]] = candidate]
  /\ Goto(c, "open")
  /\ UNCHANGED <<files, op, output>>

(* Measuring may prefer any candidate, or end with an error, such as that  *)
(* no candidate is numerically valid.                                      *)
Measure(c) ==
  /\ At(c, "measure")
  /\ \/ /\ \E candidate \in Candidate :
             /\ best' = [best EXCEPT ![c] = candidate]
             /\ selected' = [selected EXCEPT ![c][op[c]] = candidate]
        /\ Goto(c, "open") /\ UNCHANGED op
     \/ "measure" \in faults /\ Fail(c) /\ UNCHANGED <<selected, best>>
  /\ UNCHANGED <<files, output>>
-----------------------------------------------------------------------------
(* WriteTuningChoice.                                                      *)

(* Inodes no name and no open stream refers to.                            *)
FreshInodes ==
  {f \in Inode : /\ \A k \in Key : entry[k] # f /\ temporary[k] # f
                 /\ \A c \in Context : output[c] # f}

(* Mutant of OpenTemporary: the entry itself is opened and truncated.      *)
OpenEntry(c) ==
  /\ At(c, "open")
  /\ \E f \in IF entry[CurrentKey(c)] = Nil THEN FreshInodes
               ELSE {entry[CurrentKey(c)]} :
       /\ entry' = [entry EXCEPT ![CurrentKey(c)] = f]
       /\ content' = [content EXCEPT ![f] = Empty]
       /\ output' = [output EXCEPT ![c] = f]
  /\ Goto(c, "close")
  /\ UNCHANGED <<temporary, op, selected, best>>

(* Create the directory, open <k>.json.tmp and truncate it.  The name is   *)
(* the same for every writer of the key.                                   *)
OpenTemporary(c) ==
  /\ At(c, "open")
  /\ \/ /\ \E f \in IF temporary[CurrentKey(c)] = Nil THEN FreshInodes
                    ELSE {temporary[CurrentKey(c)]} :
             /\ temporary' = [temporary EXCEPT ![CurrentKey(c)] = f]
             /\ content' = [content EXCEPT ![f] = Empty]
             /\ output' = [output EXCEPT ![c] = f]
        /\ Goto(c, "close") /\ UNCHANGED op
     \/ "open" \in faults /\ Fail(c) /\ UNCHANGED <<temporary, content, output>>
  /\ UNCHANGED <<entry, selected, best>>

(* Closing the stream writes its buffer.  The stream was checked before    *)
(* that, so nobody sees this write fail.                                   *)
CloseTemporary(c) ==
  /\ At(c, "close")
  /\ \/ content' = [content EXCEPT ![output[c]] = best[c]]
     \/ "flush" \in faults /\ UNCHANGED content
  /\ output' = [output EXCEPT ![c] = Nil]
  /\ Goto(c, "rename")
  /\ UNCHANGED <<entry, temporary, op, selected, best>>

RenameTemporary(c) ==
  /\ temporary[CurrentKey(c)] # Nil
  /\ entry' = [entry EXCEPT ![CurrentKey(c)] = temporary[CurrentKey(c)]]
  /\ temporary' = [temporary EXCEPT ![CurrentKey(c)] = Nil]

RenameFails(c) ==
  /\ temporary[CurrentKey(c)] = Nil \/ "rename" \in faults
  /\ UNCHANGED <<entry, temporary>>

(* Mutant of Publish: the old entry is always removed first.               *)
PublishAfterRemoving(c) ==
  /\ At(c, "rename")
  /\ Goto(c, "remove")
  /\ UNCHANGED <<files, op, selected, best, output>>

Publish(c) ==
  /\ At(c, "rename")
  /\ \/ RenameTemporary(c) /\ NextOp(c)
     \/ RenameFails(c) /\ Goto(c, "remove") /\ UNCHANGED op
  /\ UNCHANGED <<content, selected, best, output>>

(* After a failed rename the entry itself is removed, for a second try.    *)
RemoveEntry(c) ==
  /\ At(c, "remove")
  /\ entry' = [entry EXCEPT ![CurrentKey(c)] = Nil]
  /\ Goto(c, "retry")
  /\ UNCHANGED <<temporary, content, op, selected, best, output>>

PublishAgain(c) ==
  /\ At(c, "retry")
  /\ \/ RenameTemporary(c) /\ NextOp(c)
     \/ RenameFails(c) /\ Fail(c)
  /\ UNCHANGED <<content, selected, best, output>>

Finish(c) ==
  /\ pc[c] = "read" /\ op[c] > Len(Ops[c])
  /\ Goto(c, "prepared")
  /\ UNCHANGED <<files, op, selected, best, output>>

(* The process dies: its open stream closes without writing its buffer.    *)
Crash(c) ==
  /\ "crash" \in faults /\ pc[c] # "idle"
  /\ Goto(c, "idle")
  /\ op' = [op EXCEPT ![c] = 1] /\ selected' = [selected EXCEPT ![c] = <<>>]
  /\ best' = [best EXCEPT ![c] = Nil] /\ output' = [output EXCEPT ![c] = Nil]
  /\ UNCHANGED files
-----------------------------------------------------------------------------
ContextStep(c) ==
  \/ PrepareTuning(c) \/ ReadExact(c) \/ ReadOpt(c) \/ Measure(c)
  \/ OpenTemporary(c) \/ CloseTemporary(c) \/ Publish(c)
  \/ RemoveEntry(c) \/ PublishAgain(c) \/ Finish(c) \/ Crash(c)

Next == (\E c \in Context : ContextStep(c)) /\ UNCHANGED faults

Spec == Init /\ [][Next]_vars
-----------------------------------------------------------------------------
(* Properties.                                                             *)

Stages == {"idle", "read", "opt", "measure", "open", "close", "rename",
           "remove", "retry", "prepared", "failed"}

(* The type of every variable.                                             *)
TypeOK ==
  /\ faults \in FaultSets
  /\ entry \in [Key -> Inode \cup {Nil}] /\ temporary \in [Key -> Inode \cup {Nil}]
  /\ content \in [Inode -> Candidate \cup {Empty}]
  /\ pc \in [Context -> Stages] /\ op \in [Context -> Nat \ {0}]
  /\ selected \in [Context -> Seq(Candidate)]
  /\ best \in [Context -> Candidate \cup {Nil}]
  /\ output \in [Context -> Inode \cup {Nil}]

(* What is published is whole: an entry that exists names a candidate,     *)
(* whatever writers were interrupted at (architecture.md: written through  *)
(* a temporary file and an atomic rename), as long as no write is lost     *)
(* when a stream closes, which the code does not notice.                   *)
EntriesComplete ==
  "flush" \notin faults => \A k \in Key : entry[k] # Nil => content[entry[k]] # Empty

(* A published entry may be replaced, but a reader never finds it gone     *)
(* (README: kForceRetune overwrites atomically), unless a rename fails or  *)
(* a write is lost.                                                        *)
EntriesNeverLost ==
  [][faults \cap {"rename", "flush"} = {} =>
     \A k \in Key : ReadTuningChoice(k) # Nil => ReadTuningChoice(k)' # Nil]_vars

(* The keys of ops some Context measures whatever the cache holds.         *)
Retuned ==
  UNION {{Ops[c][i] : i \in DOMAIN Ops[c]} :
           c \in {d \in Context : Mode[d] = "kForceRetune"}}

(* Without kForceRetune a published choice is final: a crash, a restart or *)
(* a failed run never leads to measuring a cached op again.                *)
ChoicesStable ==
  [][\A k \in Key \ Retuned :
       ReadTuningChoice(k) # Nil => ReadTuningChoice(k)' = ReadTuningChoice(k)]_vars
=============================================================================
