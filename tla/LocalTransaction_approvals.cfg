SPECIFICATION Spec
CONSTANTS
  Proc = {p1, p2}
  NTargets = 2
  LockKey <- MCLockKey
  MaxOps = 2
  Kinds = {"txn", "put"}
  Faults = {}
  NoProc = NoProc
  Torn = Torn
INVARIANT ApprovalsKept
CHECK_DEADLOCK FALSE
