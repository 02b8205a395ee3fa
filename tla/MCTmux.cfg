SPECIFICATION RetrySpec
CONSTANTS
  None = None
  Ids = {s1, s2}
  Panes <- Pairs
  Plugins = {opencode}
  Names <- Titles
  Tasks = {}
  Usages = {}
  Callers = {t1, t2}
  Valid <- Titles
  Stored <- Undotted
  Longer <- Starts
  MaxPane = 1
  MaxFaults = 1
INVARIANTS CreateAtomic KillsOwn
PROPERTY KillRetries
