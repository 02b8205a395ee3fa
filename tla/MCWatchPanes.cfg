SPECIFICATION Spec
CONSTANTS
  None = None
  Ids = {s1, s2}
  Panes = {x1, x2}
  Plugins = {opencode}
  Plugin = opencode
  Names = {dir}
  Name = dir
  Tasks = {}
  Usages = {}
  Texts = {"working"}
  Every <- EveryTick
  MaxFaults = 1
SYMMETRY PaneSymmetry
INVARIANTS KnownBound ActiveIsKnown
