CONSTANTS
  Replicas = {r1, r2}
  Requests = {q1, q2, q3, q4}
  Forged = Forged
  None = None
  MaxGroupEmails = 3
  StoreModes = {"kv"}
SPECIFICATION Spec
SYMMETRY Symmetry
INVARIANTS
  TypeOK
  ListedOnce
  GroupWithinCap
  FullIsFinal
  NoOrphanRecord
PROPERTIES
  AppendOnly
  ImplementsAtomicIndex
