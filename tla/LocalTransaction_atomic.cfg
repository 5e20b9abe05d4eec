SPECIFICATION Spec
CONSTANTS
  Proc = {p1, p2}
  NTargets = 2
  LockKey <- MCLockKey
  MaxOps = 2
  Kinds = {"txn", "append", "snapshot"}
  Faults = {}
  NoProc = NoProc
  Torn = Torn
INVARIANTS TypeOK AllOrNothing
PROPERTIES ImplementsAtomicStore
SYMMETRY Symmetry
CHECK_DEADLOCK FALSE
