\* Every disturbance; R2 next to a store whose ETag is the SHA-256.
SPECIFICATION FairSpec
CONSTANTS
  Path = {a, bad, esc}
  Refused = {bad}
  Escaped = {esc}
  Version = {v1, v2}
  None = none
  OtherHash = md5
  Disturbances = {"localDuringPoll", "bucketDuringPoll", "otherETag", "loss"}
  MaxWrites = 2
  MaxFailures = 2
\* The server really stops after Stop.
CHECK_DEADLOCK FALSE
INVARIANTS TypeOK
PROPERTIES PushReplacesSeen RelayConverges StopReturns
