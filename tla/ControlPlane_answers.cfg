SPECIFICATION Spec
CONSTANTS
  Server = {s1, s2}
  Case = {}
  Plan = {}
  Question = {q1}
  Nonce = {n1, n2}
  Cred = {k1, k2}
  Counting = {}
  Enrolled = {k1}
  Config = {a, b}
  Settings <- AllTheSame
  Store = {x}
  View <- MCView
  Lifetime = 2
  MaxPending = 1
  MaxTime = 2
  MaxCount = 2
  MaxEdits = 1
  None = None
SYMMETRY Interchangeable
INVARIANTS TypeOK ConsumedWithEffect
CHECK_DEADLOCK FALSE
