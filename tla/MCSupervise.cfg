SPECIFICATION FairSpec
CONSTANTS
  None = None
  Manifest = {opencode, aider}
  Autostart = {opencode}
  Owners = {opencode, aider, unlisted}
  Kids = {k1, k2, k3}
  StaleAfter = 3
  Window = 12
  MaxRestarts = 3
  MaxFaults = 1
INVARIANT KidsHeld
PROPERTIES ShutdownKills GivesUp AutostartConnects
