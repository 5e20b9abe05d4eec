SPECIFICATION Spec
CONSTANTS
  Server = {s1, s2}
  Case = {c1}
  Plan = {w1}
  Question = {}
  Nonce = {n1, n2}
  Cred = {k1}
  Counting = {k1}
  Enrolled = {k1}
  Config = {a}
  Settings <- AllTheSame
  Store = {x, y}
  View <- MCView
  Lifetime = 2
  MaxPending = 1
  MaxTime = 0
  MaxCount = 1
  MaxEdits = 2
  None = None
SYMMETRY Interchangeable
INVARIANTS OneDecisionPerState ConsumedWithEffect CountersIncrease DecidedOnce AppliedAsShown
CHECK_DEADLOCK FALSE
