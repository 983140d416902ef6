----------------------------- MODULE RelayPoller -----------------------------
(***************************************************************************)
(* The relay: the home server's poller (internal/relay/poller.go) copies   *)
(* notes between the server's files and an R2 bucket that the clients of   *)
(* the relay write to directly.  One poll lists the bucket, pulls every    *)
(* listed note whose hash is not that of the file, then walks the files    *)
(* and pushes those whose hash is not the listed one.  One action is one   *)
(* request to the bucket or one operation on a file; between two of them   *)
(* the clients of the server and of the bucket go on, without a lock.      *)
(*                                                                         *)
(* A version stands for a note's text and its SHA-256.                     *)
(***************************************************************************)
EXTENDS Naturals, FiniteSets

CONSTANTS
  Path,
  Refused,       \* keys in the bucket that ValidateNotePath refuses
  Escaped,       \* keys that a URL escapes, in a bucket that signs them escaped
  Version,
  None,
  OtherHash,     \* an ETag that is no SHA-256
  Disturbances,  \* what the environment may do, see Disturbance
  MaxWrites,     \* bound: changes that clients make
  MaxFailures    \* bound: requests and operations that fail

(***************************************************************************)
(* "localDuringPoll"   clients of the home server write during a poll      *)
(* "bucketDuringPoll"  clients of the bucket write during a poll           *)
(* "otherETag"         the bucket names an object by its MD5, as R2 does   *)
(* "loss"              a request or an operation on a file fails           *)
(***************************************************************************)
Disturbance == {"localDuringPoll", "bucketDuringPoll", "otherETag", "loss"}

ASSUME ConstantsAssumption ==
  /\ Refused \subseteq Path
  /\ Escaped \subseteq Path
  /\ None \notin Version
  /\ OtherHash \notin Version \union {None}
  /\ Disturbances \subseteq Disturbance
  /\ MaxWrites \in Nat
  /\ MaxFailures \in Nat

VARIABLES
  file,      \* the notes of the home server
  bucket,    \* the objects of the bucket
  poll,      \* the poll in progress
  phase,     \* of the poller: running, stopCh closed, doneCh closed
  everFile,  \* history: the versions of a note the home server has had
  unseen,    \* history: notes written in the bucket, or not pulled, in this poll
  writes, failures

vars == <<file, bucket, poll, phase, everFile, unseen, writes, failures>>

Note == Path \ Refused
Copied == Note \ Escaped
Step == {"wait", "list", "pull", "get", "store", "walk", "push", "send"}

\* listed: the ETags of the listing; left: keys still to list, pull, walk or push;
\* metas: the hashes of the walk; key and got: the transfer in progress.
Poll == [step : Step,
         listed : [Path -> Version \union {OtherHash, None}],
         left : SUBSET Path,
         metas : [Path -> Version \union {None}],
         key : Path \union {None},
         got : Version \union {None}]

Nothing == [p \in Path |-> None]
Waiting == [step |-> "wait", listed |-> Nothing, left |-> {}, metas |-> Nothing,
            key |-> None, got |-> None]
Listing == [Waiting EXCEPT !.step = "list", !.left = Path]

TypeOK ==
  /\ file \in [Path -> Version \union {None}]
  /\ \A p \in Refused : file[p] = None
  /\ bucket \in [Path -> Version \union {None}]
  /\ poll \in Poll
  /\ poll.step \in {"get", "store", "send"} => poll.key \in Path
  /\ phase \in {"running", "stopping", "stopped"}
  /\ everFile \in [Path -> SUBSET Version]
  /\ unseen \subseteq Path
  /\ writes \in 0 .. MaxWrites
  /\ failures \in 0 .. MaxFailures

\* The loop polls at once.  The bucket may hold keys that are no notes.
Init ==
  /\ file = Nothing
  /\ bucket \in [Path -> Version \union {None}]
  /\ \A p \in Note : bucket[p] = None
  /\ poll = Listing
  /\ phase = "running"
  /\ everFile = [p \in Path |-> {}]
  /\ unseen = {}
  /\ writes = 0
  /\ failures = 0

Allowed(x) == x \in Disturbances
At(s) == poll.step = s
Polling == ~At("wait")

Fails ==
  /\ Allowed("loss")
  /\ failures < MaxFailures
  /\ failures' = failures + 1

SetFile(p, v) ==
  /\ file' = [file EXCEPT ![p] = v]
  /\ everFile' = [everFile EXCEPT ![p] = @ \union ({v} \ {None})]
  /\ UNCHANGED bucket

SetObject(p, v) ==
  /\ bucket' = [bucket EXCEPT ![p] = v]
  /\ UNCHANGED <<file, everFile>>

-----------------------------------------------------------------------------
\* The clients of the home server and of the bucket

ClientWrites ==
  /\ writes < MaxWrites
  /\ writes' = writes + 1
  /\ UNCHANGED <<poll, phase, failures>>

\* A PUT or, with None, a DELETE.
WriteLocal(p, v) ==
  /\ ClientWrites
  /\ Allowed("localDuringPoll") \/ ~Polling
  /\ SetFile(p, v)
  /\ UNCHANGED unseen

\* Clients never delete an object.
WriteBucket(p, v) ==
  /\ ClientWrites
  /\ Allowed("bucketDuringPoll") \/ ~Polling
  /\ SetObject(p, v)
  /\ unseen' = IF Polling THEN unseen \union {p} ELSE unseen

-----------------------------------------------------------------------------
\* listObjects

Copies == <<file, bucket, everFile>>
Unchanged == UNCHANGED <<Copies, phase, writes>>

\* A tick.  When stopCh is closed too, select takes either.
StartPoll ==
  /\ At("wait")
  /\ phase # "stopped"
  /\ poll' = Listing
  /\ unseen' = {}
  /\ Unchanged /\ UNCHANGED failures

Present(S) == {p \in S : bucket[p] # None}
ETags(p) == IF Allowed("otherETag") THEN {bucket[p], OtherHash} ELSE {bucket[p]}

\* One page: the keys of a range, with the continuation token of the rest.
ListPage(S) ==
  /\ At("list")
  /\ S # {} /\ S \subseteq poll.left
  /\ \E tag \in [Present(S) -> Version \union {OtherHash}] :
       /\ \A p \in Present(S) : tag[p] \in ETags(p)
       /\ poll' = [poll EXCEPT
            !.listed = [p \in Path |-> IF p \in Present(S) THEN tag[p] ELSE @[p]],
            !.left = @ \ S]
  /\ Unchanged /\ UNCHANGED <<unseen, failures>>

ListFails ==
  /\ At("list")
  /\ Fails
  /\ poll' = Waiting
  /\ Unchanged /\ UNCHANGED unseen

Listed == {p \in Path : poll.listed[p] # None}

ListDone ==
  /\ At("list")
  /\ poll.left = {}
  /\ poll' = [poll EXCEPT !.step = "pull", !.left = Listed]
  /\ Unchanged /\ UNCHANGED <<unseen, failures>>

-----------------------------------------------------------------------------
\* The pulls, in any order of the map

Transfer(step, p) == poll' = [poll EXCEPT !.step = step, !.key = p]

\* The key is done with, or given up.
NextKey(step) ==
  poll' = [poll EXCEPT !.step = step, !.left = @ \ {poll.key}, !.key = None, !.got = None]

\* Mutant: a pull only brings notes the home server does not have.
HeadNewOnly(p) ==
  /\ At("pull")
  /\ p \in poll.left
  /\ IF file[p] = None
       THEN Transfer("get", p)
       ELSE poll' = [poll EXCEPT !.left = @ \ {p}]
  /\ Unchanged /\ UNCHANGED <<unseen, failures>>

\* Head fails for a missing file and for a key it refuses, which are pulled.
Head(p) ==
  /\ At("pull")
  /\ p \in poll.left
  /\ IF p \in Refused \/ file[p] # poll.listed[p]
       THEN Transfer("get", p)
       ELSE poll' = [poll EXCEPT !.left = @ \ {p}]
  /\ Unchanged /\ UNCHANGED <<unseen, failures>>

\* signRequest signs the path as it is before escaping.
GetObject ==
  /\ At("get")
  /\ poll.key \notin Escaped
  /\ bucket[poll.key] # None
  /\ poll' = [poll EXCEPT !.step = "store", !.got = bucket[poll.key]]
  /\ Unchanged /\ UNCHANGED <<unseen, failures>>

GetRefused ==
  /\ At("get")
  /\ poll.key \in Escaped
  /\ NextKey("pull")
  /\ unseen' = unseen \union {poll.key}
  /\ Unchanged /\ UNCHANGED failures

\* Mutant: a key that cannot be stored ends the poll.
StoreNoteOrEnd ==
  /\ At("store")
  /\ IF poll.key \in Refused
       THEN poll' = Waiting /\ UNCHANGED Copies
       ELSE NextKey("pull") /\ SetFile(poll.key, poll.got)
  /\ UNCHANGED <<phase, unseen, writes, failures>>

\* Mutant: a key that cannot be stored is tried again.
StoreNoteRetried ==
  /\ At("store")
  /\ IF poll.key \in Refused
       THEN Transfer("get", poll.key) /\ UNCHANGED Copies
       ELSE NextKey("pull") /\ SetFile(poll.key, poll.got)
  /\ UNCHANGED <<phase, unseen, writes, failures>>

\* Mutant: Put accepts every key.
StoreNoteUnchecked ==
  /\ At("store")
  /\ NextKey("pull")
  /\ SetFile(poll.key, poll.got)
  /\ UNCHANGED <<phase, unseen, writes, failures>>

\* FilesystemStorage.Put refuses the keys Head refuses.
StoreNote ==
  /\ At("store")
  /\ NextKey("pull")
  /\ IF poll.key \in Refused THEN UNCHANGED Copies ELSE SetFile(poll.key, poll.got)
  /\ UNCHANGED <<phase, unseen, writes, failures>>

\* No answer, an error, a body cut short, a full disk: continue.
PullFails ==
  /\ At("get") \/ At("store")
  /\ Fails
  /\ NextKey("pull")
  /\ unseen' = unseen \union {poll.key}
  /\ Unchanged

PullsDone ==
  /\ At("pull")
  /\ poll.left = {}
  /\ poll' = [poll EXCEPT !.step = "walk", !.left = Path]
  /\ Unchanged /\ UNCHANGED <<unseen, failures>>

-----------------------------------------------------------------------------
\* The pushes

\* FilesystemStorage.List reads file by file, and leaves out what it cannot read.
WalkFile(p) ==
  /\ At("walk")
  /\ p \in poll.left
  /\ poll' = [poll EXCEPT !.metas[p] = file[p], !.left = @ \ {p}]
  /\ Unchanged /\ UNCHANGED <<unseen, failures>>

\* An error of one file, or of List, which ends the poll.
WalkFails ==
  /\ At("walk")
  /\ Fails
  /\ \/ poll' = Waiting
     \/ \E p \in poll.left : poll' = [poll EXCEPT !.left = @ \ {p}]
  /\ Unchanged /\ UNCHANGED unseen

ToPush == {p \in Path : poll.metas[p] # None /\ poll.metas[p] # poll.listed[p]}

WalkDone ==
  /\ At("walk")
  /\ poll.left = {}
  /\ poll' = [poll EXCEPT !.step = "push", !.left = ToPush]
  /\ Unchanged /\ UNCHANGED <<unseen, failures>>

ReadNote(p) ==
  /\ At("push")
  /\ p \in poll.left
  /\ poll' = IF file[p] = None
               THEN [poll EXCEPT !.left = @ \ {p}]
               ELSE [poll EXCEPT !.step = "send", !.key = p, !.got = file[p]]
  /\ Unchanged /\ UNCHANGED <<unseen, failures>>

PutObject ==
  /\ At("send")
  /\ poll.key \notin Escaped
  /\ SetObject(poll.key, poll.got)
  /\ NextKey("push")
  /\ UNCHANGED <<phase, unseen, writes, failures>>

PutRefused ==
  /\ At("send")
  /\ poll.key \in Escaped
  /\ NextKey("push")
  /\ Unchanged /\ UNCHANGED <<unseen, failures>>

\* The bucket did not do it; when it did and the answer was lost, that is PutObject.
PushFails ==
  /\ At("send")
  /\ Fails
  /\ NextKey("push")
  /\ Unchanged /\ UNCHANGED unseen

PollDone ==
  /\ At("push")
  /\ poll.left = {}
  /\ poll' = Waiting
  /\ Unchanged /\ UNCHANGED <<unseen, failures>>

-----------------------------------------------------------------------------
\* Stop

\* main closes stopCh and waits for doneCh.
Stop ==
  /\ phase = "running"
  /\ phase' = "stopping"
  /\ UNCHANGED <<Copies, poll, unseen, writes, failures>>

LoopEnds ==
  /\ At("wait")
  /\ phase = "stopping"
  /\ phase' = "stopped"
  /\ UNCHANGED <<Copies, poll, unseen, writes, failures>>

-----------------------------------------------------------------------------

\* What goes on without a client and without a failure.
PollStep ==
  \/ \E S \in SUBSET Path : ListPage(S)
  \/ \E p \in Path : Head(p) \/ WalkFile(p) \/ ReadNote(p)
  \/ StartPoll \/ ListDone \/ GetObject \/ GetRefused \/ StoreNote \/ PullsDone
  \/ WalkDone \/ PutObject \/ PutRefused \/ PollDone

ClientStep ==
  \E p \in Note : \/ \E v \in Version \union {None} : WriteLocal(p, v)
                  \/ \E v \in Version : WriteBucket(p, v)

Next ==
  \/ PollStep \/ ClientStep
  \/ ListFails \/ PullFails \/ WalkFails \/ PushFails
  \/ Stop \/ LoopEnds

Spec == Init /\ [][Next]_vars

\* Requests end (the HTTP client gives up after 30 s), ticks come, and a select
\* with two cases ready does not for ever take the tick.
FairSpec == Spec /\ WF_vars(PollStep) /\ SF_vars(LoopEnds)

-----------------------------------------------------------------------------

\* A push replaces only a version the home server has had, so that nothing a phone
\* stored in the bucket is lost without the home server having it; unless the phone
\* wrote during that poll, or the pull of that note failed: the push loop compares
\* with the listing alone (poll, poller.go:143).
PushReplacesSeen ==
  [][\A p \in Path :
       bucket'[p] # bucket[p] /\ At("send") /\ poll'.step = "push" /\ p \notin unseen
         => bucket[p] = None \/ bucket[p] \in everFile[p]]_vars

\* Whatever fails and whatever a client writes during a poll, once that ends both
\* copies of every note become the same and stay so, or the server stops; the keys
\* that can never be stored, fetched or sent, which every poll tries again, do not
\* keep the others from being copied.
RelayConverges ==
  <>[](phase = "running" => \A p \in Copied : file[p] = bucket[p])

\* Stop returns: whatever the poll in progress meets, it ends.
StopReturns == phase = "stopping" ~> phase = "stopped"
=============================================================================
