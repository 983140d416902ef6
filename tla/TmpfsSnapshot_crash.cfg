\* A crash between the removal of the old snapshot and the renaming of the new one.
SPECIFICATION Spec
CONSTANTS
  Note = {a, b}
  None = none
  Disturbances = {"swapCrash"}
  MaxWrites = 3
  MaxFaults = 1
INVARIANTS SnapshotSurvives
