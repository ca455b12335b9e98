---------------------------- MODULE MCTuningCache ----------------------------
(* Small instances of TuningCache: tuner and retuner write, reader reads.  *)
EXTENDS TuningCache, TLC

CONSTANTS tuner, retuner, reader, k1, k2, k3, SharedKey

MCMode == [c \in Context |-> CASE c = tuner -> "kTuneIfMissing"
                               [] c = retuner -> "kForceRetune"
                               [] OTHER -> "kUseCache"]

(* With SharedKey both writers write k1; the reader's shape k3 is never    *)
(* tuned, its opt point is k2.                                             *)
MCOps == [c \in Context |-> CASE c = tuner -> <<k1>>
                              [] c = retuner -> IF SharedKey THEN <<k1>> ELSE <<k2>>
                              [] OTHER -> <<k3>>]

MCOptKey == [c \in Context |->
               [i \in DOMAIN MCOps[c] |-> IF c = reader THEN k2 ELSE Nil]]

(* Crashes alone, or every fault.                                          *)
MCFaultSets ==
  IF SharedKey THEN {{}}
  ELSE {{"open", "crash"}, {"measure", "open", "flush", "rename", "crash"}}

InodeSymmetry == Permutations(Inode)
=============================================================================
