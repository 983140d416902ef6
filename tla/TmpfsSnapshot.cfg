\* Crashes and failures outside the swap, graceful restarts.
SPECIFICATION Spec
CONSTANTS
  Note = {a, b}
  None = none
  Disturbances = {"crash", "failure"}
  MaxWrites = 3
  MaxFaults = 2
INVARIANTS TypeOK SnapshotSurvives PersistWhole ShutdownKeepsAll
