SPECIFICATION TuiSpec
CONSTANTS
  None = None
  Ids = {s1}
  Panes = {x}
  Plugins = {p1}
  Names = {n1}
  Tasks = {}
  Usages = {}
  UsageFields <- Fields
  FieldsOf <- Complete
  Workers = {w1}
  Reports <- RaceReports
  BusCapacity = 2
  RxCapacity = 2
  MaxStream = 2
INVARIANT PatchingSuffices
