SPECIFICATION Spec
CONSTANTS
  None = None
  Actor = {"alice", "bob"}
  Conv = {"p1", "p2"}
  HostConv = {"p2"}
  HostOf <- MCHost
  SlotOf <- MCSlot
  Asked <- MCAsked
  Reply = {"r"}
  Content <- MCContent
  BootContent <- MCBoot
  Authority <- MCAuthority
  AnswerConnector = {"conversation:codex"}
  Client = {"b"}
  Proposer = {"b"}
  Time = {0, 1}
  StartTime = {1}
  EditFrom = 3
  MaxTurns = 6
  OtherAt = {1}
  MaxBoot = 1
  MaxSessions = 2
  Edit <- MCEdit
INVARIANTS LedgerDecodes DecidedApplied AnswersGrounded AdvisoryExclusive
PROPERTY ReviewedIndependently
CHECK_DEADLOCK FALSE
