\* Pages of one to three entries, next to three writes.
SPECIFICATION FairSpec
CONSTANTS
  Key <- Keys
  Folder <- Folders
  ParentOf <- Parents
  Version = {v1}
  None = none
  MaxKeys = 3
  MaxWrites = 3
INVARIANTS TypeOK ListTells PageIsFirst
PROPERTIES ListingEnds
