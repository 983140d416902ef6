------------------------- MODULE RelayPoller_proofs -------------------------
(***************************************************************************)
(* The relay never replaces an object the home server has not had, for any *)
(* notes and versions, under every disturbance: the argument follows one   *)
(* poll, from the listing over the pulls to the pushes.  And one poll that *)
(* nothing fails is enough: when it returns, both copies agree.            *)
(***************************************************************************)
EXTENDS RelayPoller, TLAPS

\* The home server has had what the bucket holds.
Known(p) == p \in unseen \union Refused \/ bucket[p] \in everFile[p] \union {None}

\* The listing still speaks of the object that is there.
ListingHolds(p) ==
  \/ p \in unseen
  \/ /\ poll.listed[p] = None <=> bucket[p] = None
     /\ poll.listed[p] \in {None, OtherHash, bucket[p]}

Pulling == poll.step \in {"pull", "get", "store"}
Pushing == poll.step \in {"walk", "push", "send"}

FilesRecorded == \A p \in Path : file[p] \in everFile[p] \union {None}

\* What a poll has made sure of, note by note.
ListInv ==
  /\ At("list") => \A p \in Path : IF p \in poll.left THEN poll.listed[p] = None
                                                     ELSE ListingHolds(p)
  /\ Pulling => \A p \in Path : ListingHolds(p)

PullInv ==
  /\ Pulling => \A p \in Path : p \in poll.left \/ Known(p)
  /\ Pulling => poll.left \subseteq Listed
  /\ At("get") \/ At("store") => poll.key \in poll.left
  /\ At("store") => poll.key \in unseen \/ poll.got = bucket[poll.key]

PushInv ==
  /\ Pushing => \A p \in Path : Known(p)
  /\ At("send") => poll.key \in Note /\ poll.got \in everFile[poll.key]

IndInv == TypeOK /\ FilesRecorded /\ ListInv /\ PullInv /\ PushInv

-----------------------------------------------------------------------------
\* Type correctness

LEMMA Bounds == MaxWrites \in Nat /\ MaxFailures \in Nat
BY ConstantsAssumption

LEMMA NoneIsNoVersion == None \notin Version /\ OtherHash \notin Version /\ OtherHash # None
BY ConstantsAssumption

LEMMA RefusedIsPath == Refused \subseteq Path
BY ConstantsAssumption

LEMMA FailTypes ==
  ASSUME failures \in 0 .. MaxFailures, Fails
  PROVE  failures' \in 0 .. MaxFailures
BY Bounds DEF Fails

LEMMA WriteTypes ==
  ASSUME writes \in 0 .. MaxWrites, ClientWrites
  PROVE  writes' \in 0 .. MaxWrites
BY Bounds DEF ClientWrites

LEMMA PollTypes ==
  /\ Waiting \in Poll /\ Waiting.step = "wait"
  /\ Listing \in Poll /\ Listing.step = "list" /\ Listing.left = Path
  /\ \A p \in Path : Listing.listed[p] = None
  /\ Nothing \in [Path -> Version \union {None}]
BY DEF Poll, Waiting, Listing, Nothing, Step

LEMMA SetFileTypes ==
  ASSUME TypeOK, NEW p \in Note, NEW v \in Version \union {None}, SetFile(p, v)
  PROVE  /\ file' \in [Path -> Version \union {None}]
         /\ \A q \in Refused : file'[q] = None
         /\ everFile' \in [Path -> SUBSET Version]
         /\ bucket' = bucket
BY DEF TypeOK, SetFile, Note

LEMMA NextTypeOK == TypeOK /\ [Next]_vars => TypeOK'
<1> SUFFICES ASSUME TypeOK, [Next]_vars PROVE TypeOK'
  OBVIOUS
<1> USE DEF TypeOK, Unchanged, Copies
<1>1. CASE StartPoll \/ ListFails \/ PollDone
  BY <1>1, PollTypes, FailTypes DEF StartPoll, ListFails, PollDone, Waiting, Listing
<1>2. ASSUME NEW S \in SUBSET Path, ListPage(S) PROVE TypeOK'
  <2>1. PICK listed :
          /\ listed \in [Path -> Version \union {OtherHash, None}]
          /\ poll' = [poll EXCEPT !.listed = listed, !.left = @ \ S]
    <3>1. PICK tag \in [Present(S) -> Version \union {OtherHash}] :
            poll' = [poll EXCEPT
              !.listed = [p \in Path |-> IF p \in Present(S) THEN tag[p] ELSE @[p]],
              !.left = @ \ S]
      BY <1>2 DEF ListPage
    <3>2. [p \in Path |-> IF p \in Present(S) THEN tag[p] ELSE poll.listed[p]] \in
            [Path -> Version \union {OtherHash, None}]
      BY DEF Poll
    <3> QED
      BY <3>1, <3>2
  <2>2. poll' \in Poll /\ poll'.step = "list"
    BY <1>2, <2>1 DEF ListPage, Poll, At
  <2> QED
    BY <1>2, <2>2 DEF ListPage
<1>3. CASE ListDone \/ PullsDone \/ WalkDone
  <2>1. Listed \in SUBSET Path /\ ToPush \in SUBSET Path
    BY DEF Listed, ToPush
  <2>2. poll' \in Poll /\ poll'.step \in {"pull", "walk", "push"}
    BY <1>3, <2>1 DEF ListDone, PullsDone, WalkDone, Poll, Step
  <2> QED
    BY <1>3, <2>2 DEF ListDone, PullsDone, WalkDone
<1>4. ASSUME NEW p \in Path, Head(p) \/ WalkFile(p) \/ ReadNote(p) PROVE TypeOK'
  <2> DEFINE Goal == poll' \in Poll /\ (poll'.step \in {"pull", "walk", "push"} \/ poll'.key = p)
  <2>1. ASSUME Head(p) PROVE Goal
    <3>1. CASE poll' = [poll EXCEPT !.step = "get", !.key = p]
      BY <3>1 DEF Poll, Step
    <3>2. CASE poll.step = "pull" /\ poll' = [poll EXCEPT !.left = @ \ {p}]
      BY <3>2 DEF Poll
    <3> QED
      BY <2>1, <3>1, <3>2 DEF Head, Transfer, At
  <2>2. ASSUME WalkFile(p) PROVE Goal
    <3>1. [poll.metas EXCEPT ![p] = file[p]] \in [Path -> Version \union {None}]
      BY DEF Poll
    <3> QED
      BY <2>2, <3>1 DEF WalkFile, Poll, Step, At
  <2>3. ASSUME ReadNote(p) PROVE Goal
    BY <2>3 DEF ReadNote, Poll, Step, At
  <2>4. Goal
    BY <1>4, <2>1, <2>2, <2>3
  <2> QED
    BY <1>4, <2>4 DEF Head, WalkFile, ReadNote
<1>5. CASE GetObject
  <2>1. poll.key \in Path /\ bucket[poll.key] \in Version \union {None}
    BY <1>5 DEF GetObject, At
  <2>2. poll' \in Poll /\ poll'.key = poll.key
    BY <1>5, <2>1 DEF GetObject, Poll, Step
  <2> QED
    BY <1>5, <2>1, <2>2 DEF GetObject
<1>6. ASSUME NEW s \in {"pull", "push"}, NextKey(s)
      PROVE  poll' \in Poll /\ poll'.step \in {"pull", "push"}
  BY <1>6 DEF NextKey, Poll, Step
<1>7. CASE StoreNote
  <2>1. poll' \in Poll /\ poll'.step \in {"pull", "push"}
    BY <1>6, <1>7 DEF StoreNote
  <2>2. CASE poll.key \in Refused
    BY <1>7, <2>1, <2>2 DEF StoreNote
  <2>3. CASE poll.key \notin Refused
    <3>1. poll.key \in Note /\ poll.got \in Version \union {None}
      BY <1>7, <2>3 DEF StoreNote, At, Note, Poll
    <3>2. SetFile(poll.key, poll.got)
      BY <1>7, <2>3 DEF StoreNote
    <3> QED
      BY <1>7, <2>1, <3>1, <3>2, SetFileTypes DEF StoreNote
  <2> QED
    BY <2>2, <2>3
<1>8. CASE PutObject
  <2>1. poll' \in Poll /\ poll'.step \in {"pull", "push"}
    BY <1>6, <1>8 DEF PutObject
  <2>2. bucket' \in [Path -> Version \union {None}]
    BY <1>8 DEF PutObject, SetObject, Poll
  <2> QED
    BY <1>8, <2>1, <2>2 DEF PutObject, SetObject
<1>9. CASE PullFails \/ GetRefused
  <2>1. poll' \in Poll /\ poll'.step \in {"pull", "push"}
    BY <1>6, <1>9 DEF PullFails, GetRefused
  <2>2. poll.key \in Path
    BY <1>9 DEF PullFails, GetRefused, At
  <2> QED
    BY <1>9, <2>1, <2>2, FailTypes DEF PullFails, GetRefused
<1>10. CASE PushFails \/ PutRefused
  BY <1>6, <1>10, FailTypes DEF PushFails, PutRefused
<1>15. CASE WalkFails
  <2>1. poll' \in Poll /\ poll'.step \in {"wait", "walk"}
    BY <1>15, PollTypes DEF WalkFails, Poll, At
  <2> QED
    BY <1>15, <2>1, FailTypes DEF WalkFails
<1>11. ASSUME NEW p \in Note, NEW v \in Version \union {None}, WriteLocal(p, v) PROVE TypeOK'
  <2>1. SetFile(p, v) /\ ClientWrites /\ UNCHANGED <<poll, phase, failures, unseen>>
    BY <1>11 DEF WriteLocal, ClientWrites
  <2> QED
    BY <2>1, SetFileTypes, WriteTypes
<1>12. ASSUME NEW p \in Note, NEW v \in Version, WriteBucket(p, v) PROVE TypeOK'
  <2>1. /\ SetObject(p, v) /\ ClientWrites /\ UNCHANGED <<poll, phase, failures>>
        /\ unseen' \subseteq unseen \union {p} /\ p \in Path
    BY <1>12 DEF WriteBucket, ClientWrites, Note
  <2> QED
    BY <2>1, WriteTypes DEF SetObject
<1>13. CASE Stop \/ LoopEnds
  BY <1>13 DEF Stop, LoopEnds
<1>14. CASE UNCHANGED vars
  BY <1>14 DEF vars
<1> QED
  BY <1>1, <1>2, <1>3, <1>4, <1>5, <1>7, <1>8, <1>9, <1>10, <1>11, <1>12, <1>13, <1>14, <1>15
     DEF Next, PollStep, ClientStep

-----------------------------------------------------------------------------
\* One step of a poll

LEMMA InitIndInv == Init => IndInv
<1> SUFFICES ASSUME Init PROVE IndInv
  OBVIOUS
<1>1. poll = Listing /\ poll.step = "list" /\ poll.left = Path
  BY PollTypes DEF Init
<1>2. TypeOK
  <2>1. \A p \in Refused : file[p] = None
    BY RefusedIsPath DEF Init, Nothing
  <2> QED
    BY <1>1, <2>1, Bounds, PollTypes DEF Init, TypeOK
<1>3. FilesRecorded
  BY DEF Init, FilesRecorded, Nothing
<1> QED
  BY <1>1, <1>2, <1>3, PollTypes DEF IndInv, ListInv, PullInv, PushInv, At, Pulling, Pushing

\* What the clients of the server write, the server has had.
LEMMA LocalWrites ==
  ASSUME IndInv, NEW p \in Note, NEW v \in Version \union {None}, SetFile(p, v),
         UNCHANGED <<poll, unseen>>
  PROVE  FilesRecorded' /\ ListInv' /\ PullInv' /\ PushInv'
<1>1. /\ bucket' = bucket
      /\ \A q \in Path : everFile[q] \subseteq everFile'[q]
      /\ \A q \in Path : file'[q] = file[q] \/ file'[q] \in everFile'[q] \union {None}
  BY DEF SetFile, IndInv, TypeOK, Note
<1>2. FilesRecorded'
  BY <1>1 DEF IndInv, FilesRecorded
<1>3. \A q \in Path : (Known(q) => Known(q)') /\ (ListingHolds(q) => ListingHolds(q)')
  BY <1>1 DEF Known, ListingHolds
<1>4. ListInv' /\ PullInv'
  BY <1>1, <1>3 DEF IndInv, ListInv, PullInv, Pulling, At, TypeOK, Poll, Listed
<1>5. PushInv'
  BY <1>1, <1>3 DEF IndInv, PushInv, Pushing, At, TypeOK, Poll, Note
<1> QED
  BY <1>2, <1>4, <1>5

\* What the clients of the bucket write during a poll is set aside.
LEMMA BucketWrites ==
  ASSUME IndInv, NEW p \in Note, NEW v \in Version, WriteBucket(p, v)
  PROVE  FilesRecorded' /\ ListInv' /\ PullInv' /\ PushInv'
<1>1. /\ UNCHANGED <<file, everFile, poll>>
      /\ \A q \in Path \ {p} : bucket'[q] = bucket[q]
      /\ unseen \subseteq unseen'
      /\ poll.step # "wait" => p \in unseen'
  BY DEF WriteBucket, ClientWrites, SetObject, IndInv, TypeOK, Polling, At
<1>2. CASE poll.step = "wait"
  BY <1>1, <1>2 DEF IndInv, FilesRecorded, ListInv, PullInv, PushInv, Pulling, Pushing, At
<1>3. CASE poll.step # "wait"
  <2>1. \A q \in Path : (Known(q) => Known(q)') /\ (ListingHolds(q) => ListingHolds(q)')
    BY <1>1, <1>3 DEF Known, ListingHolds
  <2>2. FilesRecorded' /\ ListInv' /\ PushInv'
    BY <1>1, <2>1 DEF IndInv, FilesRecorded, ListInv, PushInv, Pulling, Pushing, At
  <2>3. PullInv'
    BY <1>1, <1>3, <2>1 DEF IndInv, PullInv, Pulling, At, Listed, TypeOK
  <2> QED
    BY <2>2, <2>3
<1> QED
  BY <1>2, <1>3

\* Steps that touch neither a copy nor the history of the poll.
Quiet == UNCHANGED <<file, bucket, everFile, unseen>>

LEMMA QuietSteps ==
  ASSUME Quiet
  PROVE  /\ FilesRecorded => FilesRecorded'
         /\ \A p \in Path : Known(p) => Known(p)'
         /\ \A p \in Path : ListingHolds(p) /\ poll'.listed[p] = poll.listed[p] =>
              ListingHolds(p)'
BY DEF Quiet, FilesRecorded, Known, ListingHolds

LEMMA ListSteps ==
  ASSUME IndInv,
         \/ \E S \in SUBSET Path : ListPage(S)
         \/ ListDone \/ StartPoll \/ ListFails \/ PollDone \/ Stop \/ LoopEnds
  PROVE  FilesRecorded' /\ ListInv' /\ PullInv' /\ PushInv'
<1>1. ASSUME NEW S \in SUBSET Path, ListPage(S)
      PROVE  FilesRecorded' /\ ListInv' /\ PullInv' /\ PushInv'
  <2>1. PICK tag \in [Present(S) -> Version \union {OtherHash}] :
          /\ \A p \in Present(S) : tag[p] \in ETags(p)
          /\ poll' = [poll EXCEPT
               !.listed = [p \in Path |-> IF p \in Present(S) THEN tag[p] ELSE @[p]],
               !.left = @ \ S]
    BY <1>1 DEF ListPage
  <2>2. /\ poll'.step = "list" /\ poll'.left = poll.left \ S
        /\ \A p \in Path :
             poll'.listed[p] = IF p \in Present(S) THEN tag[p] ELSE poll.listed[p]
    BY <1>1, <2>1 DEF ListPage, At, IndInv, TypeOK, Poll
  <2>3. Quiet /\ At("list")
    BY <1>1 DEF ListPage, Unchanged, Copies, Quiet
  <2>4. ASSUME NEW p \in S PROVE ListingHolds(p)'
    <3>1. bucket' = bucket /\ bucket[p] \in Version \union {None} /\ poll.listed[p] = None
          /\ p \in Path
      BY <1>1, <2>3 DEF ListPage, Quiet, IndInv, TypeOK, ListInv
    <3>2. CASE p \in Present(S)
      BY <2>1, <2>2, <3>1, <3>2, NoneIsNoVersion DEF Present, ETags, ListingHolds
    <3>3. CASE p \notin Present(S)
      BY <2>2, <3>1, <3>3 DEF Present, ListingHolds
    <3> QED
      BY <3>2, <3>3
  <2>5. \A p \in Path : IF p \in poll'.left THEN poll'.listed[p] = None ELSE ListingHolds(p)'
    <3>1. ASSUME NEW p \in Path \ S PROVE poll'.listed[p] = poll.listed[p]
      BY <2>2, <3>1 DEF Present
    <3> QED
      BY <2>2, <2>3, <2>4, <3>1, QuietSteps DEF IndInv, ListInv
  <2> QED
    BY <2>2, <2>3, <2>5, QuietSteps
       DEF IndInv, ListInv, PullInv, PushInv, Pulling, Pushing, At
<1>2. CASE ListDone
  <2>1. /\ poll'.step = "pull" /\ poll'.left = Listed /\ poll'.listed = poll.listed
        /\ poll.left = {} /\ At("list") /\ Quiet
    BY <1>2 DEF ListDone, At, Unchanged, Copies, Quiet, IndInv, TypeOK, Poll
  <2>2. \A p \in Path : ListingHolds(p)'
    BY <2>1, QuietSteps DEF IndInv, ListInv
  <2>3. \A p \in Path \ Listed : Known(p)'
    BY <2>1, <2>2 DEF ListingHolds, Listed, Known
  <2>4. Listed' = Listed
    BY <2>1 DEF Listed
  <2> QED
    BY <2>1, <2>2, <2>3, <2>4, QuietSteps
       DEF IndInv, ListInv, PullInv, PushInv, Pulling, Pushing, At
<1>3. CASE StartPoll
  <2>1. /\ poll'.step = "list" /\ \A p \in Path : poll'.listed[p] = None /\ p \in poll'.left
        /\ UNCHANGED <<file, everFile>>
    BY <1>3, PollTypes DEF StartPoll, Unchanged, Copies
  <2> QED
    BY <2>1 DEF IndInv, FilesRecorded, ListInv, PullInv, PushInv, Pulling, Pushing, At
<1>4. CASE ListFails \/ PollDone
  <2>1. poll'.step = "wait" /\ UNCHANGED <<file, everFile>>
    BY <1>4, PollTypes DEF ListFails, PollDone, Unchanged, Copies
  <2> QED
    BY <2>1 DEF IndInv, FilesRecorded, ListInv, PullInv, PushInv, Pulling, Pushing, At
<1>5. CASE Stop \/ LoopEnds
  <2>1. Quiet /\ poll' = poll
    BY <1>5 DEF Stop, LoopEnds, Copies, Quiet
  <2> QED
    BY <2>1, QuietSteps
       DEF IndInv, ListInv, PullInv, PushInv, Pulling, Pushing, At, Listed, Quiet
<1> QED
  BY <1>1, <1>2, <1>3, <1>4, <1>5

\* The key is done with: what is known of the others stays, so that only the
\* key itself has to be looked at.
LEMMA PullSteps ==
  ASSUME IndInv,
         \/ \E p \in Path : Head(p)
         \/ GetObject \/ GetRefused \/ StoreNote \/ PullFails \/ PullsDone
  PROVE  FilesRecorded' /\ ListInv' /\ PullInv' /\ PushInv'
<1> USE DEF ListInv, PullInv, PushInv, Pulling, Pushing, At
<1>0. poll \in Poll /\ bucket \in [Path -> Version \union {None}]
      /\ file \in [Path -> Version \union {None}] /\ everFile \in [Path -> SUBSET Version]
  BY DEF IndInv, TypeOK
<1>1. ASSUME NEW p \in Path, Head(p)
      PROVE  FilesRecorded' /\ ListInv' /\ PullInv' /\ PushInv'
  <2>1. Quiet /\ poll.step = "pull" /\ p \in poll.left
    BY <1>1 DEF Head, Unchanged, Copies, Quiet
  <2>2. CASE poll' = [poll EXCEPT !.step = "get", !.key = p]
    <3>1. /\ poll'.step = "get" /\ poll'.key = p
          /\ poll'.left = poll.left /\ poll'.listed = poll.listed
      BY <1>0, <2>2 DEF Poll
    <3>2. Listed' = Listed
      BY <3>1 DEF Listed
    <3> QED
      BY <2>1, <3>1, <3>2, QuietSteps DEF IndInv
  <2>3. CASE file[p] = poll.listed[p] /\ poll' = [poll EXCEPT !.left = @ \ {p}]
    <3>1. /\ poll'.step = "pull"
          /\ poll'.left = poll.left \ {p} /\ poll'.listed = poll.listed
      BY <1>0, <2>1, <2>3 DEF Poll
    <3>2. Listed' = Listed
      BY <3>1 DEF Listed
    <3>3. poll.listed[p] # None /\ ListingHolds(p)
      BY <2>1 DEF IndInv, Listed
    <3>4. Known(p)
      BY <1>0, <2>3, <3>3, NoneIsNoVersion DEF ListingHolds, Known, IndInv, FilesRecorded
    <3> QED
      BY <2>1, <3>1, <3>2, <3>4, QuietSteps DEF IndInv
  <2> QED
    BY <1>1, <2>2, <2>3 DEF Head, Transfer
<1>2. CASE GetObject
  <2>1. /\ poll'.step = "store" /\ poll'.key = poll.key /\ poll'.got = bucket[poll.key]
        /\ poll'.left = poll.left /\ poll'.listed = poll.listed
        /\ poll.step = "get" /\ Quiet
    BY <1>0, <1>2 DEF GetObject, Unchanged, Copies, Quiet, Poll
  <2>2. Listed' = Listed
    BY <2>1 DEF Listed
  <2> QED
    BY <2>1, <2>2, QuietSteps DEF IndInv, Quiet
<1>3. CASE StoreNote
  <2>1. /\ poll'.step = "pull" /\ poll'.left = poll.left \ {poll.key}
        /\ poll'.listed = poll.listed
        /\ poll.step = "store" /\ bucket' = bucket /\ unseen' = unseen
    BY <1>0, <1>3 DEF StoreNote, NextKey, SetFile, Copies, Poll
  <2>2. Listed' = Listed
    BY <2>1 DEF Listed
  <2>3. poll.key \in Path /\ poll.got \in Version \union {None}
    BY <1>0, <2>1 DEF IndInv, TypeOK, Poll
  <2>4. /\ \A p \in Path : everFile[p] \subseteq everFile'[p]
        /\ poll.key \notin Refused => poll.got \in everFile'[poll.key] \union {None}
    BY <1>0, <1>3, <2>3 DEF StoreNote, SetFile, Copies
  <2>5. FilesRecorded'
    BY <1>0, <1>3, <2>3, <2>4 DEF StoreNote, SetFile, Copies, IndInv, FilesRecorded
  <2>6. \A p \in Path : (Known(p) => Known(p)') /\ (ListingHolds(p) => ListingHolds(p)')
    BY <2>1, <2>4 DEF Known, ListingHolds
  <2>7. ASSUME NEW k \in Path, k = poll.key PROVE Known(k)'
    <3>1. k \in unseen \union Refused \/ poll.got = bucket[k]
      BY <2>1, <2>7 DEF IndInv
    <3>2. k \in Refused \/ poll.got \in everFile'[k] \union {None}
      BY <2>4, <2>7
    <3> QED
      BY <2>1, <3>1, <3>2 DEF Known
  <2>8. ListInv' /\ PushInv'
    BY <2>1, <2>6 DEF IndInv
  <2>9. PullInv'
    <3>1. \A p \in Path : p \in poll'.left \/ Known(p)'
      BY <2>1, <2>6, <2>7 DEF IndInv
    <3> QED
      BY <2>1, <2>2, <3>1 DEF IndInv
  <2> QED
    BY <2>5, <2>8, <2>9
<1>4. CASE PullFails \/ GetRefused
  <2>1. /\ poll'.step = "pull" /\ poll'.left = poll.left \ {poll.key}
        /\ poll'.listed = poll.listed
        /\ poll.step \in {"get", "store"} /\ UNCHANGED <<file, bucket, everFile>>
        /\ unseen' = unseen \union {poll.key}
    BY <1>0, <1>4 DEF PullFails, GetRefused, NextKey, Unchanged, Copies, Poll
  <2>2. Listed' = Listed
    BY <2>1 DEF Listed
  <2>3. FilesRecorded' /\ \A p \in Path : /\ Known(p) => Known(p)'
                                          /\ ListingHolds(p) => ListingHolds(p)'
    BY <2>1 DEF Known, ListingHolds, IndInv, FilesRecorded
  <2>4. ASSUME NEW k \in Path, k = poll.key PROVE Known(k)'
    BY <2>1, <2>4 DEF Known
  <2>5. ListInv' /\ PushInv'
    BY <2>1, <2>3 DEF IndInv
  <2>6. PullInv'
    <3>1. \A p \in Path : p \in poll'.left \/ Known(p)'
      BY <2>1, <2>3, <2>4 DEF IndInv
    <3> QED
      BY <2>1, <2>2, <3>1 DEF IndInv
  <2> QED
    BY <2>3, <2>5, <2>6
<1>5. CASE PullsDone
  <2>1. poll.step = "pull" /\ poll.left = {} /\ poll'.step = "walk" /\ Quiet
    BY <1>0, <1>5 DEF PullsDone, Unchanged, Copies, Quiet, Poll
  <2> QED
    BY <2>1, QuietSteps DEF IndInv
<1> QED
  BY <1>1, <1>2, <1>3, <1>4, <1>5

LEMMA PushSteps ==
  ASSUME IndInv,
         \/ \E p \in Path : WalkFile(p) \/ ReadNote(p)
         \/ WalkDone \/ WalkFails \/ PutObject \/ PutRefused \/ PushFails
  PROVE  FilesRecorded' /\ ListInv' /\ PullInv' /\ PushInv'
<1> USE DEF ListInv, PullInv, PushInv, Pulling, Pushing, At
<1>0. poll \in Poll /\ bucket \in [Path -> Version \union {None}]
      /\ file \in [Path -> Version \union {None}] /\ everFile \in [Path -> SUBSET Version]
  BY DEF IndInv, TypeOK
<1>1. CASE (\E p \in Path : WalkFile(p)) \/ WalkDone \/ WalkFails \/ PushFails \/ PutRefused
  <2>1. /\ poll.step \in {"walk", "send"} /\ poll'.step \in {"walk", "push", "wait"} /\ Quiet
    BY <1>0, <1>1, PollTypes DEF WalkFile, WalkDone, WalkFails, PushFails, PutRefused, NextKey,
       Unchanged, Copies, Quiet, Poll
  <2> QED
    BY <2>1, QuietSteps DEF IndInv
<1>2. ASSUME NEW p \in Path, ReadNote(p)
      PROVE  FilesRecorded' /\ ListInv' /\ PullInv' /\ PushInv'
  <2>1. poll.step = "push" /\ Quiet
        /\ \/ poll'.step = "push"
           \/ /\ poll'.step = "send" /\ poll'.key = p /\ poll'.got = file[p]
              /\ file[p] # None
    BY <1>0, <1>2 DEF ReadNote, Unchanged, Copies, Quiet, Poll
  <2>2. file[p] # None => p \in Note /\ file[p] \in everFile[p]
    BY DEF IndInv, TypeOK, FilesRecorded, Note
  <2> QED
    BY <2>1, <2>2, QuietSteps DEF IndInv, Quiet
<1>3. CASE PutObject
  <2>1. /\ poll.step = "send" /\ poll'.step = "push"
        /\ bucket' = [bucket EXCEPT ![poll.key] = poll.got]
        /\ UNCHANGED <<file, everFile, unseen>>
    BY <1>0, <1>3 DEF PutObject, SetObject, NextKey, Poll
  <2>2. \A p \in Path : Known(p)'
    BY <1>0, <2>1 DEF IndInv, Known
  <2> QED
    BY <2>1, <2>2 DEF IndInv, FilesRecorded
<1> QED
  BY <1>1, <1>2, <1>3

LEMMA NextIndInv == IndInv /\ [Next]_vars => IndInv'
<1> SUFFICES ASSUME IndInv, [Next]_vars PROVE IndInv'
  OBVIOUS
<1>1. TypeOK'
  BY NextTypeOK DEF IndInv
<1> SUFFICES FilesRecorded' /\ ListInv' /\ PullInv' /\ PushInv'
  BY <1>1 DEF IndInv
<1>2. CASE \/ \E S \in SUBSET Path : ListPage(S)
           \/ ListDone \/ StartPoll \/ ListFails \/ PollDone \/ Stop \/ LoopEnds
  BY <1>2, ListSteps
<1>3. CASE \/ \E p \in Path : Head(p)
           \/ GetObject \/ GetRefused \/ StoreNote \/ PullFails \/ PullsDone
  BY <1>3, PullSteps
<1>4. CASE \/ \E p \in Path : WalkFile(p) \/ ReadNote(p)
           \/ WalkDone \/ WalkFails \/ PutObject \/ PutRefused \/ PushFails
  BY <1>4, PushSteps
<1>5. ASSUME NEW p \in Note, NEW v \in Version \union {None}, WriteLocal(p, v)
      PROVE  FilesRecorded' /\ ListInv' /\ PullInv' /\ PushInv'
  BY <1>5, LocalWrites DEF WriteLocal, ClientWrites
<1>6. ASSUME NEW p \in Note, NEW v \in Version, WriteBucket(p, v)
      PROVE  FilesRecorded' /\ ListInv' /\ PullInv' /\ PushInv'
  BY <1>6, BucketWrites
<1>7. CASE UNCHANGED vars
  BY <1>7 DEF vars, IndInv, FilesRecorded, ListInv, PullInv, PushInv, Pulling, Pushing, At,
              Known, ListingHolds, Listed
<1> QED
  BY <1>2, <1>3, <1>4, <1>5, <1>6, <1>7 DEF Next, PollStep, ClientStep

LEMMA AlwaysIndInv == Spec => []IndInv
BY InitIndInv, NextIndInv, PTL DEF Spec

\* Only notes are written in the bucket, by its clients and by pushes.
LEMMA BucketChanges ==
  ASSUME IndInv, [Next]_vars, NEW p \in Path, bucket'[p] # bucket[p]
  PROVE  p \in Note
<1>1. CASE PutObject
  BY <1>1 DEF PutObject, SetObject, IndInv, PushInv, TypeOK, At
<1>2. ASSUME NEW q \in Note, NEW v \in Version, WriteBucket(q, v) PROVE p \in Note
  BY <1>2 DEF WriteBucket, SetObject, IndInv, TypeOK
<1> QED
  BY <1>1, <1>2 DEF Next, PollStep, ClientStep, StartPoll, ListPage, ListFails, ListDone, Head,
       GetObject, GetRefused, StoreNote, PullFails, PullsDone, WalkFile, WalkDone, WalkFails,
       ReadNote, PutRefused, PushFails,
       PollDone, Stop, LoopEnds, WriteLocal, SetFile, Unchanged, Copies, vars

-----------------------------------------------------------------------------
\* The theorems

\* The poller's state keeps its types: a key that ValidateNotePath refuses never
\* becomes a file of the home server, whatever the bucket holds.
THEOREM RelayTypeCorrect == Spec => []TypeOK
<1>1. IndInv => TypeOK
  BY DEF IndInv
<1> QED
  BY <1>1, AlwaysIndInv, PTL

\* Under every disturbance a push replaces only what the home server has had, but for
\* notes that were written or not pulled during that very poll.
THEOREM PushesReplaceSeen == Spec => PushReplacesSeen
<1> DEFINE Seen == \A p \in Path :
             bucket'[p] # bucket[p] /\ At("send") /\ poll'.step = "push" /\ p \notin unseen
               => bucket[p] = None \/ bucket[p] \in everFile[p]
<1>1. IndInv /\ [Next]_vars => [Seen]_vars
  <2> SUFFICES ASSUME IndInv, NEW p \in Path, bucket'[p] # bucket[p], At("send"),
                      p \notin unseen, [Next]_vars
               PROVE  bucket[p] = None \/ bucket[p] \in everFile[p]
    OBVIOUS
  <2>1. Known(p)
    BY DEF IndInv, PushInv, Pushing, At
  <2>2. p \in Note
    BY BucketChanges
  <2> QED
    BY <2>1, <2>2 DEF Known, Note
<1>2. Spec => [][Seen]_vars
  BY <1>1, AlwaysIndInv, PTL DEF Spec
<1> QED
  BY <1>2 DEF PushReplacesSeen
-----------------------------------------------------------------------------
(***************************************************************************)
(* One poll is enough: a poll that comes to its end has made both copies   *)
(* the same, but for notes that clients wrote in the bucket meanwhile.     *)
(* What it needs is that nothing fails (loss) and that no client of the    *)
(* home server writes during the poll (localDuringPoll).  The keys that    *)
(* cannot be stored, fetched or sent stay as they are.                     *)
(***************************************************************************)
PollAlone == Disturbances \subseteq {"otherETag", "bucketDuringPoll"}

Agreed(p) == p \in unseen \/ file[p] = bucket[p]

\* The state poll returns from.
FinishedPollAgrees == At("push") /\ poll.left = {} => \A p \in Copied : Agreed(p)

\* What the poll has made sure of: the notes that are not left to pull agree or are to be
\* pushed, the walk has read every file as it is, and what is not left to push agrees.
Pulled == Pulling => \A p \in Copied : p \in poll.left \/ Agreed(p) \/ bucket[p] = None

Walked ==
  At("walk") => \A p \in Copied : /\ ListingHolds(p)
                                  /\ Agreed(p) \/ bucket[p] = None
                                  /\ p \notin poll.left => poll.metas[p] = file[p]

Pushed ==
  /\ At("push") \/ At("send") =>
       \A p \in Copied : Agreed(p) \/ (p \in poll.left /\ file[p] # None)
  /\ At("send") => poll.got = file[poll.key]

AgreeInv == Pulled /\ Walked /\ Pushed

\* Nothing of the notes changes.
LEMMA QuietAgreed ==
  ASSUME Quiet
  PROVE  \A p \in Path : /\ Agreed(p)' <=> Agreed(p)
                         /\ file'[p] = file[p] /\ bucket'[p] = bucket[p]
                         /\ poll'.listed[p] = poll.listed[p] /\ ListingHolds(p) =>
                              ListingHolds(p)'
BY DEF Quiet, Agreed, ListingHolds

\* The steps between the polls, and the listing.
LEMMA ListAgrees ==
  ASSUME IndInv, AgreeInv,
         \/ \E S \in SUBSET Path : ListPage(S)
         \/ ListDone \/ StartPoll \/ ListFails \/ PollDone \/ Stop \/ LoopEnds
  PROVE  AgreeInv'
<1>0. poll \in Poll
  BY DEF IndInv, TypeOK
<1>1. CASE \E S \in SUBSET Path : ListPage(S)
  <2>1. poll'.step = "list"
    BY <1>0, <1>1 DEF ListPage, At, Poll
  <2> QED
    BY <2>1 DEF AgreeInv, Pulled, Walked, Pushed, Pulling, At
<1>2. CASE ListDone
  <2>1. /\ poll'.step = "pull" /\ poll'.left = Listed /\ poll.left = {} /\ At("list") /\ Quiet
        /\ poll'.listed = poll.listed
    BY <1>0, <1>2 DEF ListDone, Unchanged, Copies, Quiet, Poll, At
  <2>2. \A p \in Copied : p \in poll'.left \/ Agreed(p)' \/ bucket'[p] = None
    <3>1. \A p \in Copied : p \in Path /\ ListingHolds(p)
      BY <2>1 DEF IndInv, ListInv, Note, Copied
    <3> QED
      BY <2>1, <3>1 DEF ListingHolds, Agreed, Listed, Quiet
  <2> QED
    BY <2>1, <2>2 DEF AgreeInv, Pulled, Walked, Pushed, Pulling, At
<1>3. CASE StartPoll \/ ListFails \/ PollDone
  <2>1. poll'.step \in {"list", "wait"}
    BY <1>3, PollTypes DEF StartPoll, ListFails, PollDone
  <2> QED
    BY <2>1 DEF AgreeInv, Pulled, Walked, Pushed, Pulling, At
<1>4. CASE Stop \/ LoopEnds
  <2>1. Quiet /\ poll' = poll
    BY <1>4 DEF Stop, LoopEnds, Copies, Quiet
  <2> QED
    BY <2>1, QuietAgreed DEF AgreeInv, Pulled, Walked, Pushed, Pulling, At, Note, Copied, Quiet
<1> QED
  BY <1>1, <1>2, <1>3, <1>4

\* The pulls.
LEMMA PullAgrees ==
  ASSUME IndInv, AgreeInv, PollAlone,
         \/ \E p \in Path : Head(p)
         \/ GetObject \/ GetRefused \/ StoreNote \/ PullFails \/ PullsDone
  PROVE  AgreeInv'
<1> USE DEF AgreeInv, Pulled, Walked, Pushed, Pulling, At
<1>0. poll \in Poll /\ bucket \in [Path -> Version \union {None}]
      /\ file \in [Path -> Version \union {None}] /\ \A p \in Copied : p \in Path /\ p \notin Refused
  BY DEF IndInv, TypeOK, Note, Copied
<1>1. ASSUME NEW p \in Path, Head(p)
      PROVE  AgreeInv'
  <2>1. Quiet /\ poll.step = "pull" /\ p \in poll.left
    BY <1>1 DEF Head, Unchanged, Copies, Quiet
  <2>2. CASE poll' = [poll EXCEPT !.step = "get", !.key = p]
    <3>1. poll'.step = "get" /\ poll'.left = poll.left
      BY <1>0, <2>2 DEF Poll
    <3> QED
      BY <1>0, <2>1, <3>1, QuietAgreed
  <2>3. CASE file[p] = poll.listed[p] /\ poll' = [poll EXCEPT !.left = @ \ {p}]
    <3>1. poll'.step = "pull" /\ poll'.left = poll.left \ {p}
      BY <1>0, <2>1, <2>3 DEF Poll
    <3>2. poll.listed[p] # None /\ ListingHolds(p)
      BY <2>1 DEF IndInv, ListInv, PullInv, Listed
    <3>3. Agreed(p)
      BY <1>0, <2>3, <3>2, NoneIsNoVersion DEF ListingHolds, Agreed
    <3> QED
      BY <1>0, <2>1, <3>1, <3>3, QuietAgreed
  <2> QED
    BY <1>1, <2>2, <2>3 DEF Head, Transfer
<1>2. CASE GetObject
  <2>1. /\ poll'.step = "store" /\ poll'.left = poll.left /\ poll.step = "get" /\ Quiet
    BY <1>0, <1>2 DEF GetObject, Unchanged, Copies, Quiet, Poll
  <2> QED
    BY <1>0, <2>1, QuietAgreed
<1>3. CASE StoreNote
  <2>1. /\ poll'.step = "pull" /\ poll'.left = poll.left \ {poll.key}
        /\ poll.step = "store" /\ bucket' = bucket /\ unseen' = unseen
    BY <1>0, <1>3 DEF StoreNote, NextKey, SetFile, Copies, Poll
  <2>2. PICK q \in Path, v \in Version \union {None} :
          q = poll.key /\ v = poll.got /\ (q \in unseen \/ v = bucket[q])
    BY <1>0, <2>1 DEF IndInv, TypeOK, PullInv, Poll
  <2>3. /\ \A p \in Path \ {q} : file'[p] = file[p]
        /\ q \notin Refused => file'[q] = v
    BY <1>0, <1>3, <2>2 DEF StoreNote, SetFile, Copies
  <2>4. ASSUME NEW p \in Copied
        PROVE  p \in poll'.left \/ Agreed(p)' \/ bucket'[p] = None
    <3>1. CASE p = q
      BY <1>0, <2>1, <2>2, <2>3, <3>1 DEF Agreed
    <3>2. CASE p # q
      BY <1>0, <2>1, <2>2, <2>3, <3>2 DEF Agreed
    <3> QED
      BY <3>1, <3>2
  <2> QED
    BY <2>1, <2>4
<1>6. CASE GetRefused
  <2>1. /\ poll'.step = "pull" /\ poll'.left = poll.left \ {poll.key} /\ poll.step = "get"
        /\ UNCHANGED <<file, bucket>> /\ unseen \subseteq unseen' /\ poll.key \notin Copied
    BY <1>0, <1>6 DEF GetRefused, NextKey, Unchanged, Copies, Poll, Copied
  <2> QED
    BY <1>0, <2>1 DEF Agreed
<1>4. ~PullFails
  BY DEF PullFails, Fails, Allowed, PollAlone
<1>5. CASE PullsDone
  <2>1. /\ poll.step = "pull" /\ poll.left = {} /\ poll'.step = "walk" /\ Quiet
        /\ poll'.left = Path /\ poll'.listed = poll.listed
    BY <1>0, <1>5 DEF PullsDone, Unchanged, Copies, Quiet, Poll
  <2>2. \A p \in Copied : ListingHolds(p)
    BY <1>0, <2>1 DEF IndInv, ListInv
  <2> QED
    BY <1>0, <2>1, <2>2, QuietAgreed
<1> QED
  BY <1>1, <1>2, <1>3, <1>4, <1>5, <1>6

\* The walk and the pushes.
LEMMA PushAgrees ==
  ASSUME IndInv, AgreeInv, PollAlone,
         \/ \E p \in Path : WalkFile(p) \/ ReadNote(p)
         \/ WalkDone \/ WalkFails \/ PutObject \/ PutRefused \/ PushFails
  PROVE  AgreeInv'
<1> USE DEF AgreeInv, Pulled, Walked, Pushed, Pulling, At
<1>0. poll \in Poll /\ bucket \in [Path -> Version \union {None}]
      /\ file \in [Path -> Version \union {None}] /\ \A p \in Copied : p \in Path
  BY DEF IndInv, TypeOK, Note, Copied
<1>1. ASSUME NEW q \in Path, WalkFile(q)
      PROVE  AgreeInv'
  <2>1. /\ poll.step = "walk" /\ Quiet
        /\ poll' = [poll EXCEPT !.metas[q] = file[q], !.left = @ \ {q}]
    BY <1>1 DEF WalkFile, Unchanged, Copies, Quiet
  <2>2. /\ poll'.step = "walk" /\ poll'.listed = poll.listed /\ poll'.left = poll.left \ {q}
        /\ poll'.metas[q] = file[q]
        /\ \A p \in Path \ {q} : poll'.metas[p] = poll.metas[p]
    BY <1>0, <2>1 DEF Poll
  <2> QED
    BY <1>0, <2>1, <2>2, QuietAgreed
<1>2. CASE WalkDone
  <2>1. /\ poll.step = "walk" /\ poll.left = {} /\ Quiet
        /\ poll'.step = "push" /\ poll'.left = ToPush
    BY <1>0, <1>2 DEF WalkDone, Unchanged, Copies, Quiet, Poll
  <2>2. ASSUME NEW p \in Copied
        PROVE  Agreed(p) \/ (p \in ToPush /\ file[p] # None)
    BY <1>0, <2>1 DEF ToPush, ListingHolds, Agreed
  <2> QED
    BY <1>0, <2>1, <2>2, QuietAgreed
<1>3. ASSUME NEW q \in Path, ReadNote(q)
      PROVE  AgreeInv'
  <2>1. poll.step = "push" /\ Quiet /\ q \in poll.left
    BY <1>3 DEF ReadNote, Unchanged, Copies, Quiet
  <2>2. CASE file[q] = None /\ poll' = [poll EXCEPT !.left = @ \ {q}]
    <3>1. poll'.step = "push" /\ poll'.left = poll.left \ {q}
      BY <1>0, <2>1, <2>2 DEF Poll
    <3> QED
      BY <1>0, <2>1, <2>2, <3>1, QuietAgreed
  <2>3. CASE poll' = [poll EXCEPT !.step = "send", !.key = q, !.got = file[q]]
    <3>1. poll'.step = "send" /\ poll'.left = poll.left /\ poll'.key = q /\ poll'.got = file[q]
      BY <1>0, <2>3 DEF Poll
    <3> QED
      BY <1>0, <2>1, <3>1, QuietAgreed
  <2> QED
    BY <1>3, <2>2, <2>3 DEF ReadNote
<1>4. CASE PutObject
  <2>1. /\ poll.step = "send" /\ poll'.step = "push" /\ poll'.left = poll.left \ {poll.key}
        /\ UNCHANGED <<file, unseen>>
    BY <1>0, <1>4 DEF PutObject, SetObject, NextKey, Poll
  <2>2. PICK q \in Path : q = poll.key
    BY <2>1 DEF IndInv, TypeOK
  <2>3. bucket'[q] = file[q] /\ \A p \in Path \ {q} : bucket'[p] = bucket[p]
    BY <1>0, <1>4, <2>1, <2>2 DEF PutObject, SetObject
  <2>4. ASSUME NEW p \in Copied
        PROVE  Agreed(p)' \/ (p \in poll'.left /\ file'[p] # None)
    BY <1>0, <2>1, <2>2, <2>3 DEF Agreed
  <2> QED
    BY <2>1, <2>4
<1>6. CASE PutRefused
  <2>1. /\ poll'.step = "push" /\ poll'.left = poll.left \ {poll.key} /\ poll.step = "send"
        /\ Quiet /\ poll.key \notin Copied
    BY <1>0, <1>6 DEF PutRefused, NextKey, Unchanged, Copies, Quiet, Poll, Copied
  <2> QED
    BY <1>0, <2>1, QuietAgreed
<1>5. ~PushFails /\ ~WalkFails
  BY DEF PushFails, WalkFails, Fails, Allowed, PollAlone
<1> QED
  BY <1>1, <1>2, <1>3, <1>4, <1>5, <1>6

\* The clients: those of the home server write between the polls, and what those of the
\* bucket write during a poll is unseen.
LEMMA ClientAgrees ==
  ASSUME IndInv, AgreeInv, PollAlone, ClientStep
  PROVE  AgreeInv'
<1>1. ASSUME NEW p \in Note, NEW v \in Version \union {None}, WriteLocal(p, v)
      PROVE  AgreeInv'
  <2>1. poll.step = "wait" /\ poll' = poll
    BY <1>1 DEF WriteLocal, ClientWrites, PollAlone, Allowed, Polling, At
  <2> QED
    BY <2>1 DEF AgreeInv, Pulled, Walked, Pushed, Pulling, At
<1>2. ASSUME NEW q \in Note, NEW v \in Version, WriteBucket(q, v)
      PROVE  AgreeInv'
  <2>1. /\ UNCHANGED <<file, poll>> /\ \A p \in Path \ {q} : bucket'[p] = bucket[p]
        /\ unseen \subseteq unseen'
        /\ poll.step # "wait" => q \in unseen'
        /\ \A p \in Copied : p \in Path
    BY <1>2 DEF WriteBucket, ClientWrites, SetObject, IndInv, TypeOK, Polling, At, Note, Copied
  <2>2. CASE poll.step = "wait"
    BY <2>1, <2>2 DEF AgreeInv, Pulled, Walked, Pushed, Pulling, At
  <2>3. CASE poll.step # "wait"
    <3>1. ASSUME NEW p \in Copied
          PROVE  /\ Agreed(p) => Agreed(p)'
                 /\ ListingHolds(p) => ListingHolds(p)'
                 /\ p # q => bucket'[p] = bucket[p]
                 /\ p = q => Agreed(p)'
      <4>1. CASE p = q
        BY <2>1, <2>3, <4>1 DEF Agreed, ListingHolds
      <4>2. CASE p # q
        BY <2>1, <2>3, <4>2 DEF Agreed, ListingHolds
      <4> QED
        BY <4>1, <4>2
    <3>2. Pulled'
      BY <2>1, <3>1 DEF AgreeInv, Pulled, Pulling, At
    <3>3. Walked'
      BY <2>1, <3>1 DEF AgreeInv, Walked, At
    <3>4. Pushed'
      BY <2>1, <3>1 DEF AgreeInv, Pushed, At
    <3> QED
      BY <3>2, <3>3, <3>4 DEF AgreeInv
  <2> QED
    BY <2>2, <2>3
<1> QED
  BY <1>1, <1>2 DEF ClientStep

LEMMA NextAgrees ==
  ASSUME PollAlone, IndInv, AgreeInv, [Next]_vars
  PROVE  AgreeInv'
<1>1. CASE UNCHANGED vars
  BY <1>1 DEF vars, AgreeInv, Pulled, Walked, Pushed, Pulling, At, Agreed, ListingHolds
<1> QED
  BY <1>1, ListAgrees, PullAgrees, PushAgrees, ClientAgrees DEF Next, PollStep

LEMMA InitAgrees == Init => AgreeInv
<1> SUFFICES ASSUME Init PROVE AgreeInv
  OBVIOUS
<1>1. poll.step = "list"
  BY PollTypes DEF Init
<1> QED
  BY <1>1 DEF AgreeInv, Pulled, Walked, Pushed, Pulling, At

\* poll: when it returns, every note whose key needs no escaping is the same in the home
\* server and in the bucket, or was written in the bucket meanwhile.  It needs no second poll for a note that was
\* deleted here, which comes back, nor for one whose ETag is no SHA-256.
THEOREM FinishedPollsAgree ==
  ASSUME PollAlone
  PROVE  Spec => []FinishedPollAgrees
<1>1. IndInv /\ AgreeInv /\ [Next]_vars => AgreeInv'
  BY NextAgrees
<1>2. AgreeInv => FinishedPollAgrees
  BY DEF AgreeInv, Pushed, FinishedPollAgrees
<1> QED
  BY <1>1, <1>2, InitAgrees, AlwaysIndInv, PTL DEF Spec

=============================================================================
