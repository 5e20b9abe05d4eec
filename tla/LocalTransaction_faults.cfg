SPECIFICATION Spec
CONSTANTS
  Proc = {p1, p2}
  NTargets = 2
  LockKey <- MCLockKey
  MaxOps = 1
  Kinds = {"txn", "append", "snapshot", "put"}
  Faults = {"post_commit_error", "torn_append"}
  NoProc = NoProc
  Torn = Torn
INVARIANTS AckedDurable
PROPERTIES EveryOperationEnds
CHECK_DEADLOCK FALSE
