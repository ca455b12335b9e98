------------------------- MODULE TuningCacheProofs -------------------------
(***************************************************************************)
(* Theorems about TuningCache for any number of Contexts, keys and         *)
(* candidates, and whatever fails or crashes.  What a cache entry promises *)
(* needs that no two Contexts write entries of one key: two writers of a   *)
(* key share its temporary file.                                           *)
(***************************************************************************)
EXTENDS TuningCache, TLAPS

(* The stages in which a Context is at one of its ops and writes it.       *)
Publishing == {"rename", "remove", "retry"}
Writing == {"measure", "open", "close"} \cup Publishing

(* A Context that writes is at an op of its plan, does not only use the    *)
(* cache, and has measured before it opens a file; only while it writes    *)
(* the file is its stream open.                                            *)
StageInv ==
  \A c \in Context :
    /\ pc[c] \in Writing \cup {"opt"} => op[c] <= Len(Ops[c])
    /\ pc[c] \in Writing => Mode[c] # "kUseCache"
    /\ pc[c] \in {"open", "close"} => best[c] \in Candidate
    /\ pc[c] = "close" <=> output[c] # Nil

TypeInv == TypeOK /\ StageInv

(* The initial states have the types.                                      *)
LEMMA TypeInvInitially == Init => TypeInv
BY CacheAssumption
   DEF Init, TypeInv, TypeOK, StageInv, Stages, Writing, Publishing

(* The op a Context is at has a key.                                       *)
LEMMA CurrentKeyTyped ==
  ASSUME TypeInv, NEW c \in Context, op[c] <= Len(Ops[c])
  PROVE  CurrentKey(c) \in Key
<1>1. Ops[c] \in Seq(Key) /\ op[c] \in 1..Len(Ops[c])
  BY CacheAssumption DEF TypeInv, TypeOK
<1> QED
  BY <1>1 DEF CurrentKey

(* Replacing an element keeps a sequence of candidates one.                *)
LEMMA ReplacedInSeq ==
  ASSUME NEW s \in Seq(Candidate), NEW i, NEW x \in Candidate
  PROVE  [s EXCEPT ![i] = x] \in Seq(Candidate)
<1>1. s \in [1..Len(s) -> Candidate] /\ Len(s) \in Nat
  OBVIOUS
<1>2. [s EXCEPT ![i] = x] \in [1..Len(s) -> Candidate]
  BY <1>1
<1> QED
  BY <1>1, <1>2

(* What a cache entry is read as is a candidate or nothing.                *)
LEMMA ReadTuningChoiceTyped ==
  ASSUME TypeInv, NEW k \in Key
  PROVE  ReadTuningChoice(k) \in Candidate \cup {Nil}
<1>1. entry[k] # Nil => content[entry[k]] \in Candidate \cup {Empty}
  BY DEF TypeInv, TypeOK
<1> QED
  BY <1>1 DEF ReadTuningChoice

(* The files have their types.                                             *)
FilesTyped ==
  /\ entry \in [Key -> Inode \cup {Nil}] /\ temporary \in [Key -> Inode \cup {Nil}]
  /\ content \in [Inode -> Candidate \cup {Empty}]

(* Every step keeps the types of the files.                                *)
LEMMA FilesTypedInductive ==
  ASSUME TypeInv, [Next]_vars
  PROVE  FilesTyped'
<1> USE DEF FilesTyped, files
<1>1. FilesTyped /\ Nil \notin Inode
  BY CacheAssumption DEF TypeInv, TypeOK
<1>2. ASSUME NEW c \in Context,
             \/ PrepareTuning(c) \/ ReadExact(c) \/ ReadOpt(c) \/ Measure(c)
             \/ Finish(c) \/ Crash(c)
      PROVE  FilesTyped'
  BY <1>1, <1>2 DEF PrepareTuning, ReadExact, ReadOpt, Measure, Finish, Crash
<1>3. ASSUME NEW c \in Context, OpenTemporary(c) PROVE FilesTyped'
  <2>1. CASE UNCHANGED <<temporary, content>>
    BY <1>1, <1>3, <2>1 DEF OpenTemporary
  <2>2. ASSUME NEW f, f \in IF temporary[CurrentKey(c)] = Nil THEN FreshInodes
                            ELSE {temporary[CurrentKey(c)]},
               temporary' = [temporary EXCEPT ![CurrentKey(c)] = f],
               content' = [content EXCEPT ![f] = Empty]
        PROVE  FilesTyped'
    <3>1. CurrentKey(c) \in Key
      BY <1>3, CurrentKeyTyped DEF OpenTemporary, At
    <3>2. f \in Inode
      BY <1>1, <2>2, <3>1 DEF FreshInodes
    <3> QED
      BY <1>1, <1>3, <2>2, <3>2 DEF OpenTemporary
  <2> QED
    BY <1>3, <2>1, <2>2 DEF OpenTemporary
<1>4. ASSUME NEW c \in Context, CloseTemporary(c) PROVE FilesTyped'
  <2>1. best[c] \in Candidate /\ output[c] \in Inode
    BY <1>4 DEF CloseTemporary, At, TypeInv, TypeOK, StageInv
  <2> QED
    BY <1>1, <1>4, <2>1 DEF CloseTemporary
<1>5. ASSUME NEW c \in Context, Publish(c) \/ PublishAgain(c) PROVE FilesTyped'
  <2>1. temporary[CurrentKey(c)] \in Inode \cup {Nil}
    BY <1>1, <1>5, CurrentKeyTyped DEF Publish, PublishAgain, At
  <2> QED
    BY <1>1, <1>5, <2>1 DEF Publish, PublishAgain, RenameTemporary, RenameFails
<1>6. ASSUME NEW c \in Context, RemoveEntry(c) PROVE FilesTyped'
  BY <1>1, <1>6 DEF RemoveEntry
<1>7. CASE UNCHANGED vars
  BY <1>1, <1>7 DEF vars
<1> QED
  BY <1>2, <1>3, <1>4, <1>5, <1>6, <1>7 DEF Next, ContextStep

CallsTyped ==
  /\ pc \in [Context -> Stages] /\ op \in [Context -> Nat \ {0}]
  /\ selected \in [Context -> Seq(Candidate)]
  /\ best \in [Context -> Candidate \cup {Nil}]
  /\ output \in [Context -> Inode \cup {Nil}]

(* Every step keeps the types of the Contexts.                             *)
LEMMA CallsTypedInductive ==
  ASSUME TypeInv, [Next]_vars
  PROVE  CallsTyped'
<1> USE DEF CallsTyped, Goto, Fail, At
<1>1. /\ CallsTyped /\ Default \in Candidate
      /\ "idle" \in Stages /\ "read" \in Stages /\ "opt" \in Stages /\ "measure" \in Stages
      /\ "open" \in Stages /\ "close" \in Stages /\ "rename" \in Stages /\ "remove" \in Stages
      /\ "retry" \in Stages /\ "prepared" \in Stages /\ "failed" \in Stages
      /\ \A c \in Context : Len(Ops[c]) \in Nat
  BY CacheAssumption DEF TypeInv, TypeOK, Stages
<1>2. ASSUME NEW c \in Context, NEW x \in Candidate,
             selected' = [selected EXCEPT ![c][op[c]] = x]
      PROVE  selected' \in [Context -> Seq(Candidate)]
  <2>1. [selected[c] EXCEPT ![op[c]] = x] \in Seq(Candidate)
    BY <1>1, ReplacedInSeq
  <2> QED
    BY <1>1, <1>2, <2>1
<1>3. ASSUME NEW c \in Context, NextOp(c)
      PROVE  pc' \in [Context -> Stages] /\ op' \in [Context -> Nat \ {0}]
  BY <1>1, <1>3 DEF NextOp
<1>4. ASSUME NEW c \in Context, NEW x \in Candidate, Select(c, x)
      PROVE  /\ pc' \in [Context -> Stages] /\ op' \in [Context -> Nat \ {0}]
             /\ selected' \in [Context -> Seq(Candidate)]
  BY <1>2, <1>3, <1>4 DEF Select
<1>5. ASSUME NEW c \in Context, PrepareTuning(c) PROVE CallsTyped'
  <2>1. [i \in 1..Len(Ops[c]) |-> Default] \in Seq(Candidate)
    BY <1>1
  <2> QED
    BY <1>1, <1>5, <2>1 DEF PrepareTuning
<1>6. ASSUME NEW c \in Context, ReadExact(c) PROVE CallsTyped'
  <2>1. ReadTuningChoice(CurrentKey(c)) # Nil => ReadTuningChoice(CurrentKey(c)) \in Candidate
    BY <1>6, CurrentKeyTyped, ReadTuningChoiceTyped DEF ReadExact
  <2>2. CASE ReadTuningChoice(CurrentKey(c)) # Nil /\ Select(c, ReadTuningChoice(CurrentKey(c)))
    BY <1>1, <1>4, <1>6, <2>1, <2>2 DEF ReadExact
  <2>3. CASE (Goto(c, "opt") \/ Goto(c, "measure")) /\ UNCHANGED <<op, selected>>
    BY <1>1, <1>6, <2>3 DEF ReadExact
  <2> QED
    BY <1>6, <2>2, <2>3 DEF ReadExact
<1>7. ASSUME NEW c \in Context, ReadOpt(c) PROVE CallsTyped'
  <2> DEFINE key == OptKey[c][op[c]]
  <2>1. key # Nil => key \in Key
    <3>1. OptKey[c] \in [DOMAIN Ops[c] -> Key \cup {Nil}] /\ DOMAIN Ops[c] = 1..Len(Ops[c])
      BY CacheAssumption
    <3> QED
      BY <1>1, <1>7, <3>1 DEF ReadOpt
  <2>2. key # Nil /\ ReadTuningChoice(key) # Nil => ReadTuningChoice(key) \in Candidate
    BY <2>1, ReadTuningChoiceTyped
  <2>3. CASE key # Nil /\ ReadTuningChoice(key) # Nil /\ Select(c, ReadTuningChoice(key))
    BY <1>1, <1>4, <1>7, <2>2, <2>3 DEF ReadOpt
  <2>4. CASE NextOp(c) /\ UNCHANGED selected
    BY <1>1, <1>3, <1>7, <2>4 DEF ReadOpt
  <2> QED
    BY <1>7, <2>3, <2>4 DEF ReadOpt
<1>8. ASSUME NEW c \in Context, Measure(c) PROVE CallsTyped'
  BY <1>1, <1>2, <1>8 DEF Measure
<1>9. ASSUME NEW c \in Context, OpenTemporary(c) PROVE CallsTyped'
  <2>1. CASE UNCHANGED output
    BY <1>1, <1>9, <2>1 DEF OpenTemporary
  <2>2. ASSUME NEW f, f \in IF temporary[CurrentKey(c)] = Nil THEN FreshInodes
                            ELSE {temporary[CurrentKey(c)]},
               output' = [output EXCEPT ![c] = f]
        PROVE  CallsTyped'
    <3>1. f \in Inode
      BY <1>9, <2>2, CurrentKeyTyped DEF OpenTemporary, TypeInv, TypeOK, FreshInodes
    <3> QED
      BY <1>1, <1>9, <2>2, <3>1 DEF OpenTemporary
  <2> QED
    BY <1>9, <2>1, <2>2 DEF OpenTemporary
<1>10. ASSUME NEW c \in Context, CloseTemporary(c) \/ RemoveEntry(c) \/ Finish(c) PROVE CallsTyped'
  BY <1>1, <1>10 DEF CloseTemporary, RemoveEntry, Finish
<1>11. ASSUME NEW c \in Context, Publish(c) \/ PublishAgain(c) PROVE CallsTyped'
  BY <1>1, <1>3, <1>11 DEF Publish, PublishAgain
<1>12. ASSUME NEW c \in Context, Crash(c) PROVE CallsTyped'
  BY <1>1, <1>12 DEF Crash
<1>13. CASE UNCHANGED vars
  BY <1>1, <1>13 DEF vars
<1> QED
  BY <1>5, <1>6, <1>7, <1>8, <1>9, <1>10, <1>11, <1>12, <1>13 DEF Next, ContextStep

(* Every step keeps the stages.                                            *)
LEMMA StageInvInductive ==
  ASSUME TypeInv, [Next]_vars
  PROVE  StageInv'
<1> USE DEF StageInv, Writing, Publishing, Goto, Fail, NextOp, At
<1>1. /\ StageInv /\ DOMAIN pc = Context /\ DOMAIN op = Context /\ DOMAIN best = Context
      /\ DOMAIN output = Context /\ Nil \notin Inode
  BY CacheAssumption DEF TypeInv, TypeOK
<1>2. ASSUME NEW c \in Context, PrepareTuning(c) \/ Finish(c) \/ Crash(c) PROVE StageInv'
  BY <1>1, <1>2 DEF PrepareTuning, Finish, Crash
<1>3. ASSUME NEW c \in Context, ReadExact(c) PROVE StageInv'
  <2>1. /\ pc[c] = "read" /\ op[c] <= Len(Ops[c]) /\ UNCHANGED <<best, output>>
        /\ \/ pc' = [pc EXCEPT ![c] = "read"] /\ op' = [op EXCEPT ![c] = @ + 1]
           \/ /\ \/ pc' = [pc EXCEPT ![c] = "opt"]
                 \/ pc' = [pc EXCEPT ![c] = "measure"] /\ Mode[c] # "kUseCache"
              /\ UNCHANGED op
    BY <1>3 DEF ReadExact, Select
  <2> QED
    BY <1>1, <2>1
<1>4. ASSUME NEW c \in Context, ReadOpt(c) PROVE StageInv'
  <2>1. /\ pc[c] = "opt" /\ pc' = [pc EXCEPT ![c] = "read"] /\ op' = [op EXCEPT ![c] = @ + 1]
        /\ UNCHANGED <<best, output>>
    BY <1>4 DEF ReadOpt, Select
  <2> QED
    BY <1>1, <2>1
<1>5. ASSUME NEW c \in Context, Measure(c) PROVE StageInv'
  BY <1>1, <1>5 DEF Measure
<1>6. ASSUME NEW c \in Context, OpenTemporary(c) PROVE StageInv'
  <2>1. CASE pc' = [pc EXCEPT ![c] = "failed"] /\ UNCHANGED output
    BY <1>1, <1>6, <2>1 DEF OpenTemporary
  <2>2. ASSUME NEW f, f \in IF temporary[CurrentKey(c)] = Nil THEN FreshInodes
                            ELSE {temporary[CurrentKey(c)]},
               output' = [output EXCEPT ![c] = f], pc' = [pc EXCEPT ![c] = "close"]
        PROVE  StageInv'
    <3>1. f # Nil
      BY <1>1, <2>2 DEF FreshInodes
    <3> QED
      BY <1>1, <1>6, <2>2, <3>1 DEF OpenTemporary
  <2> QED
    BY <1>6, <2>1, <2>2 DEF OpenTemporary
<1>7. ASSUME NEW c \in Context, CloseTemporary(c) \/ RemoveEntry(c) PROVE StageInv'
  BY <1>1, <1>7 DEF CloseTemporary, RemoveEntry
<1>8. ASSUME NEW c \in Context, Publish(c) \/ PublishAgain(c) PROVE StageInv'
  BY <1>1, <1>8 DEF Publish, PublishAgain
<1>9. CASE UNCHANGED vars
  BY <1>1, <1>9 DEF vars
<1> QED
  BY <1>2, <1>3, <1>4, <1>5, <1>6, <1>7, <1>8, <1>9 DEF Next, ContextStep

(* Every step keeps the types.                                             *)
LEMMA TypeInvInductive ==
  ASSUME TypeInv, [Next]_vars
  PROVE  TypeInv'
<1>1. faults' \in FaultSets
  BY DEF Next, vars, TypeInv, TypeOK
<1> QED
  BY <1>1, FilesTypedInductive, CallsTypedInductive, StageInvInductive
     DEF TypeInv, TypeOK, FilesTyped, CallsTyped

(* Every variable keeps its type: a file holds a candidate or nothing, and *)
(* what a Context has selected is a sequence of candidates, whoever else   *)
(* writes and whatever fails.                                              *)
THEOREM TypeCorrect == Spec => []TypeOK
<1>1. TypeInv /\ [Next]_vars => TypeInv'
  BY TypeInvInductive
<1>2. TypeInv => TypeOK
  BY DEF TypeInv
<1> QED
  BY <1>1, <1>2, TypeInvInitially, PTL DEF Spec
-----------------------------------------------------------------------------
(* One writer per key.                                                     *)

Writes(c) == IF Mode[c] = "kUseCache" THEN {} ELSE {Ops[c][i] : i \in DOMAIN Ops[c]}

OneWriter == \A c, d \in Context : c # d => Writes(c) \cap Writes(d) = {}

(* No file has two names.                                                  *)
NamesInv ==
  \A k, j \in Key :
    /\ entry[k] # Nil => entry[k] # temporary[j] /\ (entry[k] = entry[j] => k = j)
    /\ temporary[k] # Nil /\ temporary[k] = temporary[j] => k = j

(* A Context writes the temporary file of its key, and that file is there, *)
(* and complete unless a write was lost, until it is renamed; an entry is  *)
(* only removed when a rename has failed.                                  *)
FilesInv ==
  \A c \in Context :
    /\ pc[c] = "close" => output[c] = temporary[CurrentKey(c)]
    /\ pc[c] \in Publishing =>
         /\ temporary[CurrentKey(c)] # Nil
         /\ "flush" \notin faults => content[temporary[CurrentKey(c)]] # Empty
    /\ pc[c] \in {"remove", "retry"} => "rename" \in faults

(* Who measures an op, unless it was told to, has found no choice for it.  *)
MissInv ==
  \A c \in Context :
    pc[c] \in Writing /\ CurrentKey(c) \notin Retuned => ReadTuningChoice(CurrentKey(c)) = Nil

CacheInv == TypeInv /\ NamesInv /\ FilesInv /\ MissInv /\ EntriesComplete

(* At first there are no files.                                            *)
LEMMA CacheInvInitially == Init => CacheInv
BY TypeInvInitially
   DEF Init, CacheInv, NamesInv, FilesInv, MissInv, EntriesComplete, Writing, Publishing

(* Two Contexts that write are at different keys.                          *)
LEMMA WritersApart ==
  ASSUME OneWriter, TypeInv, NEW c \in Context, NEW d \in Context, c # d,
         pc[c] \in Writing, pc[d] \in Writing
  PROVE  CurrentKey(c) # CurrentKey(d)
<1>1. \A b \in {c, d} : CurrentKey(b) \in Writes(b)
  <2>1. ASSUME NEW b \in {c, d} PROVE CurrentKey(b) \in Writes(b)
    <3>1. op[b] \in 1..Len(Ops[b]) /\ Mode[b] # "kUseCache" /\ Ops[b] \in Seq(Key)
      BY CacheAssumption DEF TypeInv, TypeOK, StageInv
    <3>2. op[b] \in DOMAIN Ops[b]
      BY <3>1
    <3> QED
      BY <3>1, <3>2 DEF Writes, CurrentKey
  <2> QED
    BY <2>1
<1> QED
  BY <1>1 DEF OneWriter

EntriesInv == NamesInv /\ FilesInv /\ MissInv /\ EntriesComplete

(* A step of c that touches no file and does not come to writing one.      *)
LEMMA ReadingKeepsEntries ==
  ASSUME CacheInv, NEW c \in Context, UNCHANGED <<files, faults>>, NEW stage,
         pc' = [pc EXCEPT ![c] = stage], stage \notin Publishing \cup {"close"},
         \A d \in Context \ {c} : op'[d] = op[d] /\ output'[d] = output[d],
         stage \in Writing =>
           /\ op'[c] = op[c]
           /\ CurrentKey(c) \notin Retuned => ReadTuningChoice(CurrentKey(c)) = Nil
  PROVE  EntriesInv'
<1>1. /\ DOMAIN pc = Context /\ UNCHANGED Retuned
      /\ \A d \in Context \ {c} : pc'[d] = pc[d] /\ CurrentKey(d)' = CurrentKey(d)
      /\ pc'[c] = stage /\ (stage \in Writing => CurrentKey(c)' = CurrentKey(c))
      /\ \A k : ReadTuningChoice(k)' = ReadTuningChoice(k)
  BY DEF CacheInv, TypeInv, TypeOK, CurrentKey, ReadTuningChoice, files, Retuned
<1>2. NamesInv'
  BY DEF CacheInv, NamesInv, files
<1>3. FilesInv'
  BY <1>1 DEF CacheInv, FilesInv, files, Publishing
<1>4. MissInv'
  BY <1>1 DEF CacheInv, MissInv, Writing, Publishing
<1>5. EntriesComplete'
  BY DEF CacheInv, EntriesComplete, files
<1> QED
  BY <1>2, <1>3, <1>4, <1>5 DEF EntriesInv

(* The key of an op is retuned when its Context is in kForceRetune.        *)
LEMMA ForcedIsRetuned ==
  ASSUME TypeInv, NEW c \in Context, op[c] <= Len(Ops[c]), Mode[c] = "kForceRetune"
  PROVE  CurrentKey(c) \in Retuned
<1>1. Ops[c] \in Seq(Key) /\ op[c] \in 1..Len(Ops[c])
  BY CacheAssumption DEF TypeInv, TypeOK
<1>2. op[c] \in DOMAIN Ops[c]
  BY <1>1
<1> QED
  BY <1>2 DEF CurrentKey, Retuned

(* Steps that touch no file keep what is known of the files.               *)
LEMMA ReadsKeepEntries ==
  ASSUME CacheInv, UNCHANGED faults, NEW c \in Context,
         PrepareTuning(c) \/ ReadExact(c) \/ ReadOpt(c) \/ Measure(c) \/ Finish(c) \/ Crash(c)
  PROVE  EntriesInv'
<1> USE DEF Goto, Fail, NextOp, At, Writing, Publishing
<1>0. DOMAIN op = Context /\ DOMAIN output = Context /\ CacheInv
  BY DEF CacheInv, TypeInv, TypeOK
<1>1. CASE PrepareTuning(c)
  BY <1>0, <1>1, ReadingKeepsEntries DEF PrepareTuning
<1>2. CASE ReadExact(c)
  <2>1. /\ UNCHANGED <<files, output>> /\ op[c] <= Len(Ops[c])
        /\ \A d \in Context \ {c} : op'[d] = op[d]
        /\ \/ pc' = [pc EXCEPT ![c] = "read"]
           \/ pc' = [pc EXCEPT ![c] = "opt"]
           \/ /\ pc' = [pc EXCEPT ![c] = "measure"] /\ UNCHANGED op
              /\ Mode[c] = "kForceRetune" \/ ReadTuningChoice(CurrentKey(c)) = Nil
    BY <1>0, <1>2 DEF ReadExact, Select
  <2>2. CurrentKey(c) \notin Retuned => Mode[c] # "kForceRetune"
    BY <2>1, ForcedIsRetuned DEF CacheInv
  <2> QED
    BY <2>1, <2>2, ReadingKeepsEntries
<1>3. CASE ReadOpt(c)
  <2>1. /\ UNCHANGED <<files, output>> /\ pc' = [pc EXCEPT ![c] = "read"]
        /\ \A d \in Context \ {c} : op'[d] = op[d]
    BY <1>0, <1>3 DEF ReadOpt, Select
  <2> QED
    BY <2>1, ReadingKeepsEntries
<1>4. CASE Measure(c)
  <2>1. CASE pc' = [pc EXCEPT ![c] = "open"]
    BY <1>4, <2>1, ReadingKeepsEntries DEF Measure, CacheInv, MissInv
  <2>2. CASE pc' = [pc EXCEPT ![c] = "failed"]
    BY <1>4, <2>2, ReadingKeepsEntries DEF Measure
  <2> QED
    BY <1>4, <2>1, <2>2 DEF Measure
<1>5. CASE Finish(c)
  BY <1>5, ReadingKeepsEntries DEF Finish
<1>6. CASE Crash(c)
  BY <1>0, <1>6, ReadingKeepsEntries DEF Crash
<1> QED
  BY <1>1, <1>2, <1>3, <1>4, <1>5, <1>6

ChoicesKept == \A k \in Key : ReadTuningChoice(k)' = ReadTuningChoice(k)

(* What opening the temporary file truncates is no entry and no file that  *)
(* another Context has yet to rename.                                      *)
LEMMA OpenKeepsEntries ==
  ASSUME OneWriter, CacheInv, UNCHANGED faults, NEW c \in Context, OpenTemporary(c)
  PROVE  EntriesInv' /\ ChoicesKept
<1> USE DEF Goto, Fail, At, Writing, Publishing
<1> DEFINE key == CurrentKey(c)
<1>0. /\ TypeInv /\ NamesInv /\ FilesInv /\ MissInv /\ EntriesComplete
      /\ DOMAIN pc = Context /\ DOMAIN output = Context
      /\ DOMAIN entry = Key /\ DOMAIN temporary = Key /\ DOMAIN content = Inode
      /\ Nil \notin Inode /\ key \in Key /\ pc[c] = "open"
  BY CacheAssumption, CurrentKeyTyped DEF CacheInv, TypeInv, TypeOK, OpenTemporary
<1>1. CASE pc' = [pc EXCEPT ![c] = "failed"] /\ UNCHANGED <<temporary, content, output>>
  <2>1. EntriesInv'
    BY <1>1, ReadingKeepsEntries DEF OpenTemporary, files
  <2> QED
    BY <1>1, <2>1 DEF OpenTemporary, ChoicesKept, ReadTuningChoice
<1>2. ASSUME NEW f, f \in IF temporary[key] = Nil THEN FreshInodes ELSE {temporary[key]},
             temporary' = [temporary EXCEPT ![key] = f],
             content' = [content EXCEPT ![f] = Empty],
             output' = [output EXCEPT ![c] = f],
             pc' = [pc EXCEPT ![c] = "close"], UNCHANGED op
      PROVE  EntriesInv' /\ ChoicesKept
  <2>1. f # Nil /\ \A k \in Key : entry[k] # f /\ (temporary[k] = f => k = key)
    BY <1>0, <1>2 DEF FreshInodes, NamesInv
  <2>2. /\ UNCHANGED <<entry, Retuned>>
        /\ \A k \in Key : temporary'[k] = IF k = key THEN f ELSE temporary[k]
        /\ \A g \in Inode \ {f} : content'[g] = content[g]
        /\ \A d \in Context : CurrentKey(d)' = CurrentKey(d)
        /\ \A d \in Context \ {c} : pc'[d] = pc[d] /\ output'[d] = output[d]
        /\ pc'[c] = "close" /\ output'[c] = f
    BY <1>0, <1>2 DEF OpenTemporary, CurrentKey, Retuned
  <2>3. \A k \in Key : entry[k] \in Inode \cup {Nil} /\ temporary[k] \in Inode \cup {Nil}
    BY <1>0 DEF TypeInv, TypeOK
  <2>4. \A k \in Key : ReadTuningChoice(k)' = ReadTuningChoice(k)
    BY <2>1, <2>2, <2>3 DEF ReadTuningChoice
  <2>5. NamesInv'
    BY <1>0, <2>1, <2>2 DEF NamesInv
  <2>6. ASSUME NEW d \in Context \ {c}, pc[d] \in Writing
        PROVE  CurrentKey(d) \in Key /\ CurrentKey(d) # key
    BY <1>0, <2>6, WritersApart, CurrentKeyTyped DEF TypeInv, StageInv
  <2>7. FilesInv'
    <3>1. ASSUME NEW d \in Context \ {c}, pc[d] \in {"close"} \cup Publishing
          PROVE  /\ temporary'[CurrentKey(d)'] = temporary[CurrentKey(d)]
                 /\ temporary[CurrentKey(d)] # Nil =>
                      content'[temporary[CurrentKey(d)]] = content[temporary[CurrentKey(d)]]
      BY <2>1, <2>2, <2>3, <2>6, <3>1
    <3> QED
      BY <1>0, <2>2, <3>1 DEF FilesInv
  <2>8. MissInv'
    <3>1. ASSUME NEW d \in Context, pc'[d] \in Writing
          PROVE  pc[d] \in Writing /\ CurrentKey(d) \in Key
      BY <1>0, <2>2, <2>6, <3>1
    <3> QED
      BY <1>0, <2>2, <2>4, <3>1 DEF MissInv
  <2>9. EntriesComplete'
    BY <1>0, <2>1, <2>2, <2>3 DEF EntriesComplete
  <2> QED
    BY <2>4, <2>5, <2>7, <2>8, <2>9 DEF EntriesInv, ChoicesKept
<1> QED
  BY <1>1, <1>2 DEF OpenTemporary

(* Closing the stream completes the temporary file of c and nothing else.  *)
LEMMA CloseKeepsEntries ==
  ASSUME OneWriter, CacheInv, UNCHANGED faults, NEW c \in Context, CloseTemporary(c)
  PROVE  EntriesInv' /\ ChoicesKept
<1> USE DEF Goto, At, Writing, Publishing
<1> DEFINE key == CurrentKey(c)  f == output[c]
<1>0. /\ TypeInv /\ NamesInv /\ FilesInv /\ MissInv /\ EntriesComplete
      /\ DOMAIN pc = Context /\ DOMAIN output = Context /\ DOMAIN content = Inode
      /\ Nil \notin Inode /\ key \in Key /\ pc[c] = "close"
      /\ f = temporary[key] /\ f \in Inode /\ best[c] # Empty
      /\ \A k \in Key : entry[k] \in Inode \cup {Nil} /\ temporary[k] \in Inode \cup {Nil}
  BY CacheAssumption, CurrentKeyTyped
     DEF CacheInv, TypeInv, TypeOK, StageInv, FilesInv, CloseTemporary
<1>1. \A k \in Key : entry[k] # f /\ (temporary[k] = f => k = key)
  BY <1>0 DEF NamesInv
<1>2. /\ UNCHANGED <<entry, temporary, Retuned>>
      /\ \A g \in Inode \ {f} : content'[g] = content[g]
      /\ content'[f] # Empty \/ "flush" \in faults
      /\ \A d \in Context : CurrentKey(d)' = CurrentKey(d)
      /\ \A d \in Context \ {c} : pc'[d] = pc[d] /\ output'[d] = output[d]
      /\ pc'[c] = "rename"
  BY <1>0 DEF CloseTemporary, CurrentKey, Retuned
<1>3. \A k \in Key : ReadTuningChoice(k)' = ReadTuningChoice(k)
  BY <1>0, <1>1, <1>2 DEF ReadTuningChoice
<1>4. NamesInv'
  BY <1>0, <1>2 DEF NamesInv
<1>5. ASSUME NEW d \in Context \ {c}, pc[d] \in Writing
      PROVE  CurrentKey(d) \in Key /\ CurrentKey(d) # key
  BY <1>0, <1>5, WritersApart, CurrentKeyTyped DEF TypeInv, StageInv
<1>6. FilesInv'
  BY <1>0, <1>1, <1>2, <1>5 DEF FilesInv
<1>7. MissInv'
  <2>1. ASSUME NEW d \in Context, pc'[d] \in Writing
        PROVE  pc[d] \in Writing /\ CurrentKey(d) \in Key
    BY <1>0, <1>2, <1>5, <2>1
  <2> QED
    BY <1>0, <1>2, <1>3, <2>1 DEF MissInv
<1>8. EntriesComplete'
  BY <1>0, <1>1, <1>2 DEF EntriesComplete
<1> QED
  BY <1>3, <1>4, <1>6, <1>7, <1>8 DEF EntriesInv, ChoicesKept

(* The temporary file a Context renames is its own and complete.           *)
LEMMA RenameKeepsEntries ==
  ASSUME OneWriter, CacheInv, UNCHANGED faults, NEW c \in Context,
         pc[c] \in {"rename", "retry"}, op[c] <= Len(Ops[c]), RenameTemporary(c), NextOp(c),
         UNCHANGED <<content, output>>
  PROVE  EntriesInv'
<1> USE DEF Goto, NextOp, Writing, Publishing
<1> DEFINE key == CurrentKey(c)
<1>0. /\ TypeInv /\ NamesInv /\ FilesInv /\ MissInv /\ EntriesComplete
      /\ DOMAIN pc = Context /\ DOMAIN op = Context
      /\ DOMAIN entry = Key /\ DOMAIN temporary = Key
      /\ key \in Key /\ temporary[key] # Nil
      /\ "flush" \notin faults => content[temporary[key]] # Empty
  BY CurrentKeyTyped DEF CacheInv, TypeInv, TypeOK, FilesInv
<1>1. /\ UNCHANGED Retuned
      /\ \A k \in Key : /\ entry'[k] = IF k = key THEN temporary[key] ELSE entry[k]
                        /\ temporary'[k] = IF k = key THEN Nil ELSE temporary[k]
      /\ \A d \in Context \ {c} : pc'[d] = pc[d] /\ CurrentKey(d)' = CurrentKey(d)
      /\ pc'[c] = "read"
  BY <1>0 DEF RenameTemporary, CurrentKey, Retuned
<1>2. \A k \in Key \ {key} : ReadTuningChoice(k)' = ReadTuningChoice(k)
  BY <1>1 DEF ReadTuningChoice
<1>3. NamesInv'
  BY <1>0, <1>1 DEF NamesInv
<1>4. ASSUME NEW d \in Context \ {c}, pc[d] \in Writing
      PROVE  CurrentKey(d) \in Key /\ CurrentKey(d) # key
  BY <1>0, <1>4, WritersApart, CurrentKeyTyped DEF TypeInv, StageInv
<1>5. FilesInv'
  BY <1>0, <1>1, <1>4 DEF FilesInv
<1>6. MissInv'
  BY <1>0, <1>1, <1>2, <1>4 DEF MissInv
<1>7. EntriesComplete'
  BY <1>0, <1>1 DEF EntriesComplete
<1> QED
  BY <1>3, <1>5, <1>6, <1>7 DEF EntriesInv

(* Renaming, done or failed, keeps what is known of the files.             *)
LEMMA PublishKeepsEntries ==
  ASSUME OneWriter, CacheInv, UNCHANGED faults, NEW c \in Context,
         Publish(c) \/ PublishAgain(c)
  PROVE  EntriesInv'
<1> USE DEF Goto, Fail, At, Writing, Publishing
<1>0. /\ TypeInv /\ FilesInv /\ MissInv /\ EntriesComplete /\ DOMAIN pc = Context
      /\ pc[c] \in {"rename", "retry"} /\ op[c] <= Len(Ops[c])
      /\ UNCHANGED <<content, output>>
  BY DEF CacheInv, TypeInv, TypeOK, Publish, PublishAgain
<1>1. CASE RenameTemporary(c) /\ NextOp(c)
  BY <1>0, <1>1, RenameKeepsEntries
<1>2. CASE RenameFails(c) /\ pc' = [pc EXCEPT ![c] = "failed"] /\ UNCHANGED op
  BY <1>0, <1>2, ReadingKeepsEntries DEF RenameFails, files
<1>3. CASE RenameFails(c) /\ pc' = [pc EXCEPT ![c] = "remove"] /\ UNCHANGED op
  <2>1. /\ UNCHANGED <<entry, temporary, Retuned>> /\ "rename" \in faults
        /\ \A d \in Context : CurrentKey(d)' = CurrentKey(d)
        /\ \A d \in Context \ {c} : pc'[d] = pc[d]
        /\ pc'[c] = "remove"
    BY <1>0, <1>3 DEF RenameFails, CurrentKey, Retuned, FilesInv
  <2>2. \A k : ReadTuningChoice(k)' = ReadTuningChoice(k)
    BY <1>0, <2>1 DEF ReadTuningChoice
  <2>3. NamesInv'
    BY <2>1 DEF CacheInv, NamesInv
  <2>4. FilesInv'
    BY <1>0, <2>1 DEF FilesInv
  <2>5. MissInv'
    BY <1>0, <2>1, <2>2 DEF MissInv
  <2>6. EntriesComplete'
    BY <1>0, <2>1 DEF EntriesComplete
  <2> QED
    BY <2>3, <2>4, <2>5, <2>6 DEF EntriesInv
<1> QED
  BY <1>1, <1>2, <1>3 DEF Publish, PublishAgain

(* Removing an entry keeps what is known of the files.                     *)
LEMMA RemoveKeepsEntries ==
  ASSUME CacheInv, UNCHANGED faults, NEW c \in Context, RemoveEntry(c)
  PROVE  EntriesInv'
<1> USE DEF Goto, At, Writing, Publishing
<1>0. /\ TypeInv /\ NamesInv /\ FilesInv /\ MissInv /\ EntriesComplete
      /\ DOMAIN pc = Context /\ DOMAIN entry = Key /\ pc[c] = "remove"
  BY DEF CacheInv, TypeInv, TypeOK, RemoveEntry
<1>1. /\ UNCHANGED <<temporary, content, output, Retuned>>
      /\ \A k \in Key : entry'[k] = entry[k] \/ entry'[k] = Nil
      /\ \A d \in Context : CurrentKey(d)' = CurrentKey(d)
      /\ \A d \in Context \ {c} : pc'[d] = pc[d]
      /\ pc'[c] = "retry"
  BY <1>0 DEF RemoveEntry, CurrentKey, Retuned
<1>2. \A k \in Key : ReadTuningChoice(k)' = ReadTuningChoice(k) \/ ReadTuningChoice(k)' = Nil
  BY <1>1 DEF ReadTuningChoice
<1>3. NamesInv'
  BY <1>0, <1>1 DEF NamesInv
<1>4. FilesInv'
  BY <1>0, <1>1 DEF FilesInv
<1>5. MissInv'
  <2>1. ASSUME NEW d \in Context, pc[d] \in Writing PROVE CurrentKey(d) \in Key
    BY <1>0, <2>1, CurrentKeyTyped DEF TypeInv, StageInv
  <2> QED
    BY <1>0, <1>1, <1>2, <2>1 DEF MissInv
<1>6. EntriesComplete'
  BY <1>0, <1>1 DEF EntriesComplete
<1> QED
  BY <1>3, <1>4, <1>5, <1>6 DEF EntriesInv

(* Every step keeps the invariant of the cache directory.                  *)
LEMMA CacheInvInductive ==
  ASSUME OneWriter, CacheInv, [Next]_vars
  PROVE  CacheInv'
<1>1. TypeInv'
  BY TypeInvInductive DEF CacheInv
<1>2. CASE UNCHANGED vars
  <2>1. UNCHANGED Retuned /\ (\A c : CurrentKey(c)' = CurrentKey(c))
          /\ (\A k : ReadTuningChoice(k)' = ReadTuningChoice(k))
    BY <1>2 DEF vars, files, Retuned, CurrentKey, ReadTuningChoice
  <2> QED
    BY <1>1, <1>2, <2>1
       DEF CacheInv, NamesInv, FilesInv, MissInv, EntriesComplete, vars, files
<1>3. CASE Next
  <2>1. EntriesInv'
    BY <1>3, ReadsKeepEntries, OpenKeepsEntries, CloseKeepsEntries, PublishKeepsEntries,
       RemoveKeepsEntries DEF Next, ContextStep
  <2> QED
    BY <1>1, <2>1 DEF CacheInv, EntriesInv
<1> QED
  BY <1>2, <1>3

(* With one writer per key, no crash, failed rename or failed measurement  *)
(* leaves an entry that names no candidate, as long as no write is lost.   *)
THEOREM PublishedEntriesComplete ==
  ASSUME OneWriter
  PROVE  Spec => []EntriesComplete
<1>1. CacheInv /\ [Next]_vars => CacheInv'
  BY CacheInvInductive
<1>2. CacheInv => EntriesComplete
  BY DEF CacheInv
<1> QED
  BY <1>1, <1>2, CacheInvInitially, PTL DEF Spec
-----------------------------------------------------------------------------
(* What an entry is read as only changes when a Context that writes its    *)
(* key publishes; unless a rename failed or a write was lost, it is then   *)
(* read as a choice.                                                       *)
LEMMA ChoiceStep ==
  ASSUME OneWriter, CacheInv, [Next]_vars, NEW k \in Key
  PROVE  \/ ReadTuningChoice(k)' = ReadTuningChoice(k)
         \/ /\ \E c \in Context : pc[c] \in Writing /\ CurrentKey(c) = k
            /\ faults \cap {"rename", "flush"} = {} => ReadTuningChoice(k)' # Nil
<1> USE DEF Goto, At, Writing, Publishing
<1>0. /\ DOMAIN entry = Key /\ Nil \notin Candidate /\ TypeInv
      /\ \A j \in Key : temporary[j] # Nil => content[temporary[j]] \in Candidate \cup {Empty}
  BY CacheAssumption DEF CacheInv, TypeInv, TypeOK
<1>1. CASE UNCHANGED files
  BY <1>1 DEF files, ReadTuningChoice
<1>2. ASSUME NEW c \in Context, OpenTemporary(c) \/ CloseTemporary(c), UNCHANGED faults
      PROVE  ReadTuningChoice(k)' = ReadTuningChoice(k)
  BY <1>2, OpenKeepsEntries, CloseKeepsEntries DEF ChoicesKept
<1>3. ASSUME NEW c \in Context, Publish(c) \/ PublishAgain(c),
             ReadTuningChoice(k)' # ReadTuningChoice(k)
      PROVE  /\ pc[c] \in Writing /\ CurrentKey(c) = k
             /\ faults \cap {"rename", "flush"} = {} => ReadTuningChoice(k)' # Nil
  <2>1. /\ pc[c] \in {"rename", "retry"} /\ CurrentKey(c) \in Key /\ UNCHANGED content
        /\ RenameTemporary(c) \/ RenameFails(c)
    BY <1>0, <1>3, CurrentKeyTyped DEF Publish, PublishAgain
  <2>2. CASE RenameFails(c)
    BY <1>1, <1>3, <2>1, <2>2 DEF RenameFails, ReadTuningChoice
  <2>3. CASE RenameTemporary(c)
    <3>1. \A j \in Key : entry'[j] = IF j = CurrentKey(c) THEN temporary[j] ELSE entry[j]
      BY <1>0, <2>3 DEF RenameTemporary
    <3>2. CurrentKey(c) = k
      BY <1>3, <2>1, <3>1 DEF ReadTuningChoice
    <3>3. "flush" \notin faults => content[temporary[k]] # Empty /\ temporary[k] # Nil
      BY <2>1, <3>2 DEF CacheInv, FilesInv
    <3> QED
      BY <1>0, <2>1, <3>1, <3>2, <3>3 DEF ReadTuningChoice
  <2> QED
    BY <2>1, <2>2, <2>3
<1>4. ASSUME NEW c \in Context, RemoveEntry(c), ReadTuningChoice(k)' # ReadTuningChoice(k)
      PROVE  pc[c] \in Writing /\ CurrentKey(c) = k /\ "rename" \in faults
  <2>1. pc[c] = "remove" /\ "rename" \in faults
    BY <1>4 DEF RemoveEntry, CacheInv, FilesInv
  <2> QED
    BY <1>0, <1>4, <2>1 DEF RemoveEntry, ReadTuningChoice
<1>5. ASSUME NEW c \in Context,
             PrepareTuning(c) \/ ReadExact(c) \/ ReadOpt(c) \/ Measure(c) \/ Finish(c) \/ Crash(c)
      PROVE  UNCHANGED files
  BY <1>5 DEF PrepareTuning, ReadExact, ReadOpt, Measure, Finish, Crash
<1>6. CASE UNCHANGED vars
  BY <1>1, <1>6 DEF vars
<1> QED
  BY <1>1, <1>2, <1>3, <1>4, <1>5, <1>6 DEF Next, ContextStep

(* With one writer per key a reader never finds a published entry gone or  *)
(* emptied, also while it is overwritten, unless a rename fails or a write *)
(* is lost.                                                                *)
THEOREM PublishedEntriesNeverLost ==
  ASSUME OneWriter
  PROVE  Spec => EntriesNeverLost
<1>1. CacheInv /\ [Next]_vars => CacheInv'
  BY CacheInvInductive
<1>2. CacheInv /\ [Next]_vars =>
        [faults \cap {"rename", "flush"} = {} =>
           \A k \in Key : ReadTuningChoice(k) # Nil => ReadTuningChoice(k)' # Nil]_vars
  BY ChoiceStep
<1> QED
  BY <1>1, <1>2, CacheInvInitially, PTL DEF Spec, EntriesNeverLost

(* With one writer per key, and none that is told to retune it, a          *)
(* published choice is final, whatever fails: a key is only measured after *)
(* it was found to have no choice, and nobody else gives it one meanwhile. *)
THEOREM PublishedChoicesStable ==
  ASSUME OneWriter
  PROVE  Spec => ChoicesStable
<1>1. CacheInv /\ [Next]_vars => CacheInv'
  BY CacheInvInductive
<1>2. CacheInv /\ [Next]_vars =>
        [\A k \in Key \ Retuned :
           ReadTuningChoice(k) # Nil => ReadTuningChoice(k)' = ReadTuningChoice(k)]_vars
  BY ChoiceStep DEF CacheInv, MissInv
<1> QED
  BY <1>1, <1>2, CacheInvInitially, PTL DEF Spec, ChoicesStable
=============================================================================
