SPECIFICATION RetrySpec
CONSTANTS
  Procs = {d1, d2}
  Detached = {d1}
  Inodes = {i1, i2}
  Clients = {c1}
  MaxFaults = 1
  ChmodFails = FALSE
  None = None
  Stale = Stale
PROPERTY Recovers
