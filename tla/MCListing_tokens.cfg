\* A workspace larger than a page, and nobody writes.
SPECIFICATION Spec
CONSTANTS
  Key <- Keys
  Folder <- Folders
  ParentOf <- Parents
  Version = {v1}
  None = none
  MaxKeys = 3
  MaxWrites = 0
INVARIANTS TokenContinues
