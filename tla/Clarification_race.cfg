SPECIFICATION Spec
CONSTANTS
  None = None
  Actor = {"alice", "bob"}
  Conv = {}
  HostConv = {}
  HostOf <- MCHost
  SlotOf <- MCSlot
  Asked <- MCAsked
  Reply = {"r"}
  Content <- MCContent
  BootContent <- MCBoot
  Authority <- MCAuthority
  AnswerConnector = {"conversation:codex"}
  Client = {"b", "c"}
  Proposer = {"b", "c"}
  Time = {1}
  StartTime = {1}
  EditFrom = 3
  MaxTurns = 0
  OtherAt = {1}
  MaxBoot = 2
  MaxSessions = 0
  Edit <- MCEdit
INVARIANT LedgerDecodes
CHECK_DEADLOCK FALSE
