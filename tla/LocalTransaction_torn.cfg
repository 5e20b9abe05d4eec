SPECIFICATION Spec
CONSTANTS
  Proc = {p1, p2}
  NTargets = 2
  LockKey <- MCLockKey
  MaxOps = 2
  Kinds = {"append"}
  Faults = {"torn_append"}
  NoProc = NoProc
  Torn = Torn
INVARIANT NoTornRecord
CHECK_DEADLOCK FALSE
