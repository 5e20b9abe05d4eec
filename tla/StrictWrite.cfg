SPECIFICATION Spec
CONSTANTS
  Writer = {w1, w2}
  File = {f1, f2}
  None = None
  MaxFaults = 2
  MaxEdits = 2
SYMMETRY Symmetry
INVARIANTS TargetComplete FailedClean CancelledClean
CHECK_DEADLOCK FALSE
