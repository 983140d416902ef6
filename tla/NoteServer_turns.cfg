\* Writes of one note take turns; reads of it, and other notes' requests, come at any time.
SPECIFICATION Spec
CONSTANTS
  None = none
  Client = {c1, c2}
  Path = {a, b}
  Content = {v1, v2}
  MaxNotes = 2
  Disturbances = {}
INVARIANTS TypeOK IndexMirrors
PROPERTIES Atomic
