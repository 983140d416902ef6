SPECIFICATION FairSpec
CONSTANTS
  Owner = owner
  Admin = admin
  Session = {s1, s2}
  Key = {k1, k2}
  Request = {r1, r2}
  Here = here
  Host = {home}
  None = None
  StorageMode = "tmpfs"
  MaxEvents = 3
INVARIANTS TypeOK GoneStaysOut SessionsLast ServesWhole KeyLasts
PROPERTY ServesAgain
