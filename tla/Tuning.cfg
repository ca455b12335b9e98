SPECIFICATION Spec
CONSTANTS
  tuner = tuner
  retuner = retuner
  reader = reader
  k1 = k1
  k2 = k2
  k3 = k3
  SharedKey = FALSE
  Context = {tuner, retuner, reader}
  Mode <- MCMode
  Key = {k1, k2, k3}
  Ops <- MCOps
  OptKey <- MCOptKey
  Candidate = {a, b}
  Default = a
  Inode = {f1, f2, f3, f4}
  FaultSets <- MCFaultSets
  Empty = Empty
  Nil = Nil
INVARIANTS TypeOK EntriesComplete
PROPERTIES EntriesNeverLost ChoicesStable
SYMMETRY InodeSymmetry
