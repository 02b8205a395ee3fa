SPECIFICATION FairSpec
CONSTANTS
  None = None
  Ids = {s1}
  Panes = {x1}
  Plugins = {opencode}
  Plugin = opencode
  Names = {dir}
  Name = dir
  Tasks = {}
  Usages = {}
  Texts = {"working"}
  Every <- DefaultPeriods
  MaxFaults = 0
PROPERTY StatusReported
