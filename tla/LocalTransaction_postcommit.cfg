SPECIFICATION Spec
CONSTANTS
  Proc = {p1, p2}
  NTargets = 2
  LockKey <- MCLockKey
  MaxOps = 2
  Kinds = {"txn"}
  Faults = {"post_commit_error"}
  NoProc = NoProc
  Torn = Torn
INVARIANT AllOrNothing
CHECK_DEADLOCK FALSE
