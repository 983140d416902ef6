\* The user saves while a cycle is in progress.
SPECIFICATION Spec
CONSTANTS
  n1 = n1
  n2 = n2
  blank = blank
  v1 = v1
  v2 = v2
  None = none
  Device = {d1}
  Cycle = {k1}
  Path = {n1}
  Content = {blank, v1}
  Blank = blank
  Refused <- NothingRefused
  Disturbances = {"editDuringCycle"}
  Threshold = 3
  MaxSaves = 2
  MaxFaults = 0
PROPERTIES PullKeepsEdits
