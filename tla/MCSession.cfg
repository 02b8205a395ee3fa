SPECIFICATION Spec
CONSTANTS
  None = None
  Ids = {s1}
  Panes = {x}
  Plugins = {p1, p2}
  Names = {n1}
  Tasks = {}
  Usages = {}
  Workers = {w1, w2}
  Reports <- RaceReports
  BusCapacity = 1
SYMMETRY Interchangeable
INVARIANTS TypeOK HistoryExplainsRow BusAfterWrite UnownedOnlyKilled
PROPERTIES WriteAuthority LedgerKept
CONSTRAINT Bounds
