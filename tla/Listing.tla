------------------------------ MODULE Listing ------------------------------
(***************************************************************************)
(* Listings: the walk over the note files (FilesystemStorage.List), the    *)
(* page that ListObjectsV2 makes of it (s3/listing.go) or the manifest of  *)
(* the native API (sync/manifest.go), and a client that asks for page      *)
(* after page, as the sync cycle and the relay poller do, while others     *)
(* write notes.                                                            *)
(*                                                                         *)
(* A name stands for its place in the order of the names: a key is a       *)
(* number, and so is a folder, which comes before the keys below it.       *)
(***************************************************************************)
EXTENDS Naturals, FiniteSets, FiniteSetsExt

CONSTANTS
  Key,
  Folder,      \* the names with the delimiter at their end
  ParentOf,    \* the folder of a key, or None
  Version,
  None,
  MaxKeys,     \* bound: the page sizes a client asks for
  MaxWrites    \* bound: notes written or deleted

ASSUME ConstantsAssumption ==
  /\ Key \union Folder \subseteq Nat
  /\ IsFiniteSet(Key \union Folder)
  /\ Key \intersect Folder = {}
  /\ None \notin Nat \union Version
  /\ ParentOf \in [Key -> Folder \union {None}]
  /\ \A k \in Key : ParentOf[k] # None => ParentOf[k] < k
  /\ MaxKeys \in Nat \ {0}
  /\ MaxWrites \in Nat

VARIABLES
  file,      \* the note files
  folders,   \* the directories, which no deletion removes
  request,   \* the listing in progress: what the client has, what the server does
  during,    \* history: what each file has been since the listing began
  writes

vars == <<file, folders, request, during, writes>>

Top == {k \in Key : ParentOf[k] = None}
Below(g) == {k \in Key : ParentOf[k] = g}
Present == {k \in Key : file[k] # None}

\* A client that recurses sends no delimiter.
S3Query == [manifest : {FALSE}, prefix : Folder \union {None}, delimiter : BOOLEAN,
            maxKeys : 1 .. MaxKeys]

\* GET /api/v1/manifest
ManifestQuery == [manifest |-> TRUE, prefix |-> None, delimiter |-> FALSE, maxKeys |-> 1]
Query == S3Query \union {ManifestQuery}

Metas == [Key -> Version \union {None}]
NoMetas == [k \in Key |-> None]
Page == [contents : SUBSET Key, prefixes : SUBSET Folder, truncated : BOOLEAN]
NoPage == [contents |-> {}, prefixes |-> {}, truncated |-> FALSE]

\* token: it has a continuation token; left and metas: the walk's; page: the answer; got
\* and below: what the client has.
Request == [step : {"idle", "ask", "walk", "answer", "done"},
            query : Query, token : BOOLEAN, left : SUBSET (Key \union Folder), metas : Metas,
            page : Page, got : Metas, below : SUBSET Folder]

Idle == [step |-> "idle", query |-> ManifestQuery, token |-> FALSE, left |-> {},
         metas |-> NoMetas, page |-> NoPage, got |-> NoMetas, below |-> {}]

TypeOK ==
  /\ file \in Metas
  /\ \A k \in Present : ParentOf[k] \in folders \union {None}
  /\ folders \subseteq Folder
  /\ request \in Request
  /\ request.query.manifest => request.page = NoPage
  /\ during \in [Key -> SUBSET (Version \union {None})]
  /\ writes \in 0 .. MaxWrites

Init ==
  /\ file \in Metas
  /\ folders = {ParentOf[k] : k \in Present \ Top}
  /\ request = Idle
  /\ during = [k \in Key |-> {}]
  /\ writes = 0

At(s) == request.step = s
Listing == request.step \in {"ask", "walk", "answer"}

-----------------------------------------------------------------------------
\* Other clients

\* Mutant: the directory of a new note is not made.
WriteNoFolder(k, v) ==
  /\ writes < MaxWrites
  /\ writes' = writes + 1
  /\ file' = [file EXCEPT ![k] = v]
  /\ during' = IF Listing THEN [during EXCEPT ![k] = @ \union {v}] ELSE during
  /\ UNCHANGED <<folders, request>>

\* Put and, with None, Delete.
Write(k, v) ==
  /\ writes < MaxWrites
  /\ writes' = writes + 1
  /\ file' = [file EXCEPT ![k] = v]
  /\ folders' = IF v = None THEN folders ELSE folders \union ({ParentOf[k]} \ {None})
  /\ during' = IF Listing THEN [during EXCEPT ![k] = @ \union {v}] ELSE during
  /\ UNCHANGED request

-----------------------------------------------------------------------------
\* FilesystemStorage.List

Files == <<file, folders, writes>>

StartListing(q) ==
  /\ At("idle")
  /\ request' = [Idle EXCEPT !.step = "ask", !.query = q]
  /\ during' = [k \in Key |-> {file[k]}]
  /\ UNCHANGED Files

\* The handler walks everything, whatever the prefix and the token.  The names of a
\* directory are read first, then what they name.
ReadRoot ==
  /\ At("ask")
  /\ request' = [request EXCEPT !.step = "walk", !.metas = NoMetas,
                                !.left = (Present \intersect Top) \union folders]
  /\ UNCHANGED <<Files, during>>

\* Mutant: what is gone when its turn comes ends the walk.
ReadNextOrEnd ==
  /\ At("walk")
  /\ request.left # {}
  /\ LET n == Min(request.left)
     IN request' =
          IF n \in Folder
            THEN [request EXCEPT !.left = (@ \ {n}) \union (Below(n) \intersect Present)]
            ELSE [request EXCEPT !.left = IF file[n] = None THEN {} ELSE @ \ {n},
                                 !.metas[n] = file[n]]
  /\ UNCHANGED <<Files, during>>

\* In the order of the names.  What is gone when its turn comes is skipped.
ReadNext ==
  /\ At("walk")
  /\ request.left # {}
  /\ LET n == Min(request.left)
     IN request' =
          IF n \in Folder
            THEN [request EXCEPT !.left = (@ \ {n}) \union (Below(n) \intersect Present)]
            ELSE [request EXCEPT !.left = @ \ {n}, !.metas[n] = file[n]]
  /\ UNCHANGED <<Files, during>>

-----------------------------------------------------------------------------
\* BuildListObjectsResult

Filtered(q, keys) == {k \in keys : q.prefix = None \/ ParentOf[k] = q.prefix}

\* Below the prefix there is no delimiter any more.
Grouped(q) == q.delimiter /\ q.prefix = None

Objects(q, keys) == IF Grouped(q) THEN Filtered(q, keys) \intersect Top ELSE Filtered(q, keys)

PrefixGroups(q, keys) ==
  IF Grouped(q) THEN {ParentOf[k] : k \in Filtered(q, keys) \ Top} ELSE {}

\* What is left when the smaller of the first object and the first prefix is taken.
Take(left) ==
  IF left.objects # {} /\ (left.prefixes = {} \/ Min(left.objects) < Min(left.prefixes))
    THEN [left EXCEPT !.objects = @ \ {Min(@)}]
    ELSE [left EXCEPT !.prefixes = @ \ {Min(@)}]

\* What is left when that has been done n times: the loop of the pagination.
Left(all, n) ==
  LET left[i \in 0 .. n] == IF i = 0 THEN all ELSE Take(left[i - 1])
  IN left[n]

Nothing == [objects |-> {}, prefixes |-> {}]
Listed(q, keys) == [objects |-> Objects(q, keys), prefixes |-> PrefixGroups(q, keys)]
Total(list) == Cardinality(list.objects) + Cardinality(list.prefixes)

PageOf(all, left, truncated) ==
  [contents |-> all.objects \ left.objects, prefixes |-> all.prefixes \ left.prefixes,
   truncated |-> truncated]

\* Mutant: a full page counts as truncated.
BuildListObjectsResultFull(q, keys) ==
  LET all == Listed(q, keys)
  IN IF Total(all) >= q.maxKeys THEN PageOf(all, Left(all, q.maxKeys), TRUE)
                                ELSE PageOf(all, Nothing, FALSE)

BuildListObjectsResult(q, keys) ==
  LET all == Listed(q, keys)
  IN IF Total(all) > q.maxKeys THEN PageOf(all, Left(all, q.maxKeys), TRUE)
                               ELSE PageOf(all, Nothing, FALSE)

Walked == {k \in Key : request.metas[k] # None}

AnswerPage ==
  /\ At("walk")
  /\ request.left = {}
  /\ ~request.query.manifest
  /\ request' = [request EXCEPT !.step = "answer",
                                !.page = BuildListObjectsResult(request.query, Walked)]
  /\ UNCHANGED <<Files, during>>

\* BuildManifest
AnswerManifest ==
  /\ At("walk")
  /\ request.left = {}
  /\ request.query.manifest
  /\ request' = [request EXCEPT !.step = "done", !.got = request.metas]
  /\ UNCHANGED <<Files, during>>

-----------------------------------------------------------------------------
\* The client

\* It adds the page to what it has and, when that was truncated, asks again with the
\* token, which BuildListObjectsResult only sends back.
TakePage ==
  /\ At("answer")
  /\ request' = [request EXCEPT
       !.step = IF request.page.truncated THEN "ask" ELSE "done",
       !.token = request.page.truncated,
       !.got = [k \in Key |-> IF k \in request.page.contents THEN request.metas[k] ELSE @[k]],
       !.below = @ \union request.page.prefixes,
       !.metas = NoMetas,
       !.page = NoPage]
  /\ UNCHANGED <<Files, during>>

\* No answer, or it is done with the list.
End ==
  /\ ~At("idle")
  /\ request' = Idle
  /\ during' = [k \in Key |-> {}]
  /\ UNCHANGED Files

-----------------------------------------------------------------------------

ListStep == ReadRoot \/ ReadNext \/ AnswerPage \/ AnswerManifest \/ TakePage

Next ==
  \/ \E k \in Key, v \in Version \union {None} : Write(k, v)
  \/ \E q \in Query : StartListing(q)
  \/ ListStep \/ End

Spec == Init /\ [][Next]_vars

\* The server answers a request and the client goes on with what it was answered.
FairSpec == Spec /\ WF_vars(ListStep)

-----------------------------------------------------------------------------

\* A list the client ends up with says of every key it asked for something that was
\* true while it was made, that there is no such note included: what it goes by
\* (the diff of a sync cycle, the pulls and pushes of a poll) is old, never made up,
\* although the walk and the pages are no snapshot.  The same goes for the folders.
ListTells ==
  At("done") =>
    LET q == request.query
    IN /\ \A k \in Objects(q, Key) : request.got[k] \in during[k]
       /\ \A g \in PrefixGroups(q, Key) :
            IF g \in request.below THEN \E k \in Below(g) : during[k] # {None}
                                   ELSE \A k \in Below(g) : None \in during[k]

\* The page asked for without a token is the beginning of the list in the order of
\* the names, folders among the keys, and says truncated exactly when something is
\* left out.
PageIsFirst ==
  At("answer") /\ ~request.token =>
    LET q == request.query
        all == Objects(q, Walked) \union PrefixGroups(q, Walked)
        page == request.page.contents \union request.page.prefixes
    IN /\ page \subseteq all
       /\ Cardinality(page) <= q.maxKeys
       /\ \A x \in page, y \in all \ page : x < y
       /\ request.page.truncated <=> page # all
       /\ request.page.truncated => Cardinality(page) = q.maxKeys

\* "Pagination via continuation tokens" (listing.go:2-3): the page asked for with the token
\* of a page goes on after it, so that it has nothing the client has been sent.
TokenContinues ==
  At("answer") /\ request.token =>
    /\ \A k \in request.page.contents : request.got[k] = None
    /\ request.page.prefixes \intersect request.below = {}

\* A listing ends while the workspace fits into one page, the last place included,
\* and so does one that met a larger workspace before.  A larger one never ends it:
\* the second page is the first one again.
ListingEnds ==
  Listing ~>
    \/ ~Listing
    \/ LET q == request.query
       IN Cardinality(Objects(q, Present)) + Cardinality(PrefixGroups(q, Present)) > q.maxKeys
=============================================================================
