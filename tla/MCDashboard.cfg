SPECIFICATION FairSpec
CONSTANTS
  None = None
  Here = Here
  Ids = {s1, s2}
  Seen = {"idle", "working", "errored"}
  Dirs = {1, 2, 3}
  Queries <- Typed
  Matches <- Substring
  Listings <- Answers
  MaxRecents = 2
INVARIANTS SelectionValid RowsAgree ActsOnChosen StaleMarked
PROPERTY Redrawn
