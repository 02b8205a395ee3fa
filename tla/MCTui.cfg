SPECIFICATION TuiSpec
CONSTANTS
  None = None
  Ids = {s1}
  Panes = {x}
  Plugins = {p1}
  Names = {n1}
  Tasks = {t1}
  Usages = {u1}
  UsageFields <- Fields
  FieldsOf <- Complete
  Workers = {w1}
  Reports <- PlainReports
  BusCapacity = 1
  RxCapacity = 1
  MaxStream = 1
INVARIANTS Converged ViewExplained
CONSTRAINT Promised
