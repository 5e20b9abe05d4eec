SPECIFICATION FairSpec
CONSTANTS
  None = None
  Caller = {"x", "y"}
  Task = {"t"}
  Captured = {"t"}
  Node = {"n"}
  Path = {"a"}
  Relevant <- MCRelevant
  Scope <- MCScope
  TTL = 1
  MaxLive = 1
  MaxTasks = 1
  MaxClock = 1
  MaxTokens = 2
  MaxChanges = 1
  MaxCommits = 1
INVARIANTS TypeOK Bounded CommitAuthorized
PROPERTIES NoResurrection EveryCallEnds
