SPECIFICATION CliRetrySpec
CONSTANTS
  Procs = {d1, d2}
  Detached = {}
  Inodes = {i1, i2}
  Clients = {c1}
  MaxFaults = 1
  ChmodFails = TRUE
  Polls = 2
  None = None
  Stale = Stale
INVARIANTS
  HoldersHold
  SocketNamesServer
PROPERTIES
  OneServer
  SignalReleases
  ComesBack
  CommandsEnd
  StopHonest
