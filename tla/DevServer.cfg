SPECIFICATION Spec
CONSTANTS
  Command = {c1, c2, c3}
  Mode <- MCMode
  Assigns <- MCAssigns
  Configured <- MCConfigured
  Source = {1, 2}
  Role = {declared, other}
  declared = declared
  other = other
  c1 = c1
  c2 = c2
  c3 = c3
  Pid = {1, 2}
  Birth = {1}
  Port = {1, 2}
  None = None
  Garbage = Garbage
  MaxTries = 1
INVARIANT Locatable
PROPERTIES NotRunningTrue RolesKept EveryCommandEnds
CHECK_DEADLOCK FALSE
