\* Fair cycles of two devices, edits between cycles, one version too large.  A device that has
\* given up stops, and with it the system.
SPECIFICATION FairSpec
CONSTANTS
  n1 = n1
  n2 = n2
  blank = blank
  v1 = v1
  v2 = v2
  None = none
  Device = {d1, d2}
  Cycle = {k1}
  Path = {n1}
  Content = {blank, v1, v2}
  Blank = blank
  Refused <- LargeRefused
  Disturbances = {"overlap", "loss", "delete"}
  Threshold = 3
  MaxSaves = 3
  MaxFaults = 2
INVARIANTS BaseWasStored ConflictHasServerFile NothingOverlooked
PROPERTIES PullKeepsEdits Converges
CHECK_DEADLOCK FALSE
