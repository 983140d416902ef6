\* One cycle at a time, edits between cycles; failures, full disks and crashes.
SPECIFICATION Spec
CONSTANTS
  n1 = n1
  n2 = n2
  blank = blank
  v1 = v1
  v2 = v2
  None = none
  Device = {d1, d2}
  Cycle = {k1}
  Path = {n1}
  Content = {blank, v1, v2}
  Blank = blank
  Refused <- NothingRefused
  Disturbances = {"crash", "loss", "diskError", "slowSave", "reload", "delete", "remoteDelete"}
  Threshold = 3
  MaxSaves = 3
  MaxFaults = 1
SYMMETRY Symmetry
INVARIANTS TypeOK BaseWasStored ConflictHasServerFile
PROPERTIES PushReplacesItsBase ConflictKeepsLocal
