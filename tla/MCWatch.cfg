SPECIFICATION FairSpec
CONSTANTS
  None = None
  Ids = {s1}
  Panes = {x1}
  Plugins = {opencode}
  Plugin = opencode
  Names = {dir}
  Name = dir
  Tasks = {}
  Usages = {}
  Texts = {"working", "idle", "errored"}
  Every <- PollFaster
  MaxFaults = 1
INVARIANT BeliefsHold
PROPERTIES VanishedFinished StatusReported FirstTracked
