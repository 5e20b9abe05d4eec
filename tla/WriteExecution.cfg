SPECIFICATION Spec
CONSTANTS
  Proc = {p1, p2}
  Plan = {w1, w2}
  Approval = {a1, a2}
  Content = {c1, c2}
  MaxVersion = 3
  MaxTime = 1
  PlanTTL = 2
  ApprovalTTL = 1
  None = None
INVARIANTS TypeOK AtMostOneCall RejectedUntouched SuccessWasVerified OneResolution
SYMMETRY Symmetry
CHECK_DEADLOCK FALSE
