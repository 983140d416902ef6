---------------------------- MODULE ServerAccess ----------------------------
(***************************************************************************)
(* Who gets in: the startup of the server in users mode (main.go), which   *)
(* makes the database and the S3 key, the sessions of the native API       *)
(* (auth/users.go) and the signatures of the S3 API (s3/signature.go),     *)
(* over requests that overlap, crashes and restarts.  In tmpfs mode the    *)
(* data directory may go with the process, and an older meta.db comes back *)
(* with the next one (tmpfs/snapshot.go).                                  *)
(*                                                                         *)
(* One action is one statement of SQL or one operation on a file: a        *)
(* request may be between two of them while another one goes on, and a     *)
(* crash may fall there.  A session stands for its token and the token's   *)
(* hash, a key for an access key with its secret; which of the unused ones *)
(* a random generator comes up with makes no difference.                   *)
(***************************************************************************)
EXTENDS Naturals, FiniteSets

CONSTANTS
  Owner, Admin,  \* cfg.UserID, and the account GenerateInitialAdmin makes
  Session, Key, Request,
  Here, Host,    \* a localhost, and the other names a client knows the server by
  None,
  StorageMode,   \* cfg.StorageMode
  MaxEvents      \* bound: signals, snapshots, crashes, failures
                 \* and sessions that grow old, in a behaviour

ASSUME ConstantsAssumption ==
  /\ Owner # Admin
  /\ None \notin Key \union Session
  /\ "cut" \notin Key
  /\ "" \notin Host \union {Here}
  /\ Here \notin Host
  /\ StorageMode \in {"direct", "tmpfs"}
  /\ MaxEvents \in Nat

VARIABLES
  data,     \* dataDir: meta.db and credentials.txt
  backup,   \* the meta.db of the last snapshot, or None
  phase,    \* how far main has come
  key,      \* the S3 credentials in memory
  request,  \* the requests of the native API in progress
  life,     \* history: how far a session has come
  expired,  \* history: the sessions older than 30 days
  spared,   \* history: the sessions whose logout was answered and did not remove the row
  reset,    \* history: the sessions that a lost or restored meta.db took or brought back
  known,    \* history: the keys served with from this data directory
  cut,      \* history: a process died between two statements of schema.sql
  events

vars == <<data, backup, phase, key, request, life, expired, spared, reset, known, cut, events>>

Account == {Owner, Admin}

\* What schema.sql makes, in its order.
Tables == <<"schema_version", "workspaces", "users", "notes", "audit_log", "auth_tokens">>
Whole == 6
Has(t) == \E i \in 1 .. data.tables : Tables[i] = t

\* tables: how many are there; users: the rows, with or without a password hash;
\* tokens: the rows of auth_tokens; keyFile: a file with no whole line is cut.
Data == [tables : 0 .. Whole,
         users : [Account -> {"absent", "noPassword", "password"}],
         tokens : SUBSET Session,
         keyFile : Key \union {None, "cut"}]

MetaDb == [tables : 0 .. Whole,
           users : [Account -> {"absent", "noPassword", "password"}],
           tokens : SUBSET Session]

NoData == [tables |-> 0, users |-> [a \in Account |-> "absent"], tokens |-> {},
           keyFile |-> None]

Phase == {"down", "schema", "workspace", "user", "restore", "auth", "keys", "writeKey",
          "serving", "stopping"}

\* gone: the session had ended for good when the request came; failed: its SELECT did.
Idle == [step |-> "idle", logout |-> FALSE, session |-> None, gone |-> FALSE, failed |-> FALSE]
Requests == [step : {"idle", "read", "remove", "admitted", "refused", "verified"},
             logout : BOOLEAN, session : Session \union {None}, gone : BOOLEAN,
             failed : BOOLEAN]

TypeOK ==
  /\ data \in Data
  /\ backup = None \/ backup \in MetaDb
  /\ phase \in Phase
  /\ key \in Key \union {None}
  /\ phase \in {"writeKey", "serving", "stopping"} => key \in Key
  /\ request \in [Request -> Requests]
  /\ life \in [Session -> {"unused", "live", "asked", "ended"}]
  /\ expired \subseteq Session /\ spared \subseteq Session /\ reset \subseteq Session
  /\ known \subseteq Key
  /\ cut \in BOOLEAN
  /\ events \in 0 .. MaxEvents

Init ==
  /\ data = NoData
  /\ backup = None
  /\ phase = "down"
  /\ key = None
  /\ request = [r \in Request |-> Idle]
  /\ life = [s \in Session |-> "unused"]
  /\ expired = {} /\ spared = {} /\ reset = {}
  /\ known = {}
  /\ cut = FALSE
  /\ events = 0

Event == events < MaxEvents /\ events' = events + 1

-----------------------------------------------------------------------------
\* main

Sessions == <<request, life, expired, spared>>
Disk == <<backup, reset, cut>>
GoTo(p) == phase' = p /\ UNCHANGED Sessions

\* Mutant: the schema is executed without the look at what is there.
OpenDatabaseAlways ==
  /\ phase = "down"
  /\ GoTo(IF data.tables = 0 THEN "schema" ELSE "down")
  /\ UNCHANGED <<Disk, data, key, known, events>>

\* OpenMetadataStore and initSchema, which only looks for schema_version.
OpenDatabase ==
  /\ phase = "down"
  /\ GoTo(IF Has("schema_version") THEN "workspace" ELSE "schema")
  /\ UNCHANGED <<Disk, data, key, known, events>>

\* One CREATE TABLE, a transaction of its own.
CreateTable ==
  /\ phase = "schema"
  /\ data.tables < Whole
  /\ data' = [data EXCEPT !.tables = @ + 1]
  /\ GoTo(IF data.tables + 1 = Whole THEN "workspace" ELSE "schema")
  /\ UNCHANGED <<Disk, key, known, events>>

\* Without the table main exits with 1.
InitWorkspace ==
  /\ phase = "workspace"
  /\ GoTo(IF Has("workspaces") THEN "user" ELSE "down")
  /\ UNCHANGED <<Disk, data, key, known, events>>

\* INSERT OR IGNORE, without a password hash.
InitUser ==
  /\ phase = "user"
  /\ IF Has("users")
       THEN /\ data' = [data EXCEPT !.users[Owner] = IF @ = "absent" THEN "noPassword" ELSE @]
            /\ GoTo(IF StorageMode = "tmpfs" THEN "restore" ELSE "auth")
       ELSE GoTo("down") /\ UNCHANGED data
  /\ UNCHANGED <<Disk, key, known, events>>

\* RestoreFromPersist copies the snapshot over the meta.db that is open: the server
\* may see it, or go on with what it had, which the WAL still holds.  The latter is
\* also what it does next to a snapshot that was cut short.
Restore ==
  /\ phase = "restore"
  /\ GoTo("auth")
  /\ \/ UNCHANGED <<data, reset>>
     \/ /\ backup # None
        /\ data' = [data EXCEPT !.tables = backup.tables, !.users = backup.users,
                                !.tokens = backup.tokens]
        /\ reset' = {s \in backup.tokens : life[s] = "ended"}
                     \union ((reset \union data.tokens) \ backup.tokens)
  /\ UNCHANGED <<backup, cut, key, known, events>>

\* backupSQLite, in the loop or for the last snapshot.
Snapshot ==
  /\ StorageMode = "tmpfs"
  /\ Event
  /\ phase \in {"auth", "keys", "writeKey", "serving", "stopping"}
  /\ backup' = [tables |-> data.tables, users |-> data.users, tokens |-> data.tokens]
  /\ UNCHANGED <<data, phase, key, Sessions, reset, known, cut>>

\* INSERT OR IGNORE, with the hash of a random password.
GenerateInitialAdmin ==
  data' = [data EXCEPT !.users[Admin] = IF @ = "absent" THEN "password" ELSE @]

\* buildAuthenticator: the first administrator of an empty users table.
BuildAuthenticator ==
  /\ phase = "auth"
  /\ IF \A a \in Account : data.users[a] = "absent"
       THEN GenerateInitialAdmin
       ELSE UNCHANGED data
  /\ GoTo("keys")
  /\ UNCHANGED <<Disk, key, known, events>>

Serve(k) ==
  /\ key' = k
  /\ known' = known \union {k}
  /\ GoTo("serving")

\* GenerateCredentials, and WriteFile has truncated or made the file.
Generate ==
  /\ Key \ known # {}
  /\ key' = CHOOSE k \in Key : k \notin known
  /\ data' = [data EXCEPT !.keyFile = "cut"]
  /\ GoTo("writeKey")
  /\ UNCHANGED known

\* Mutant: a line that is cut short is taken for a key.
LoadCredentialsCut ==
  /\ phase = "keys"
  /\ IF data.keyFile # None THEN Serve(data.keyFile) /\ UNCHANGED data ELSE Generate
  /\ UNCHANGED <<Disk, events>>

\* Mutant: the file is not read.
LoadCredentialsNew ==
  /\ phase = "keys"
  /\ Generate
  /\ UNCHANGED <<Disk, events>>

\* loadOrGenerateCredentials and readCredentialsFile.
LoadCredentials ==
  /\ phase = "keys"
  /\ IF data.keyFile \in Key THEN Serve(data.keyFile) /\ UNCHANGED data ELSE Generate
  /\ UNCHANGED <<Disk, events>>

WriteCredentials ==
  /\ phase = "writeKey"
  /\ data' = [data EXCEPT !.keyFile = key]
  /\ Serve(key)
  /\ UNCHANGED <<Disk, events>>

\* A RAM disk may go with the process, and the keys of before with it.
DirectoryLost ==
  /\ StorageMode = "tmpfs"
  /\ data' = NoData
  /\ known' = {}
  /\ reset' = reset \union data.tokens

ProcessEnds ==
  /\ phase' = "down"
  /\ key' = None
  /\ request' = [r \in Request |-> Idle]
  /\ cut' = (cut \/ data.tables \in 1 .. Whole - 1)
  /\ DirectoryLost \/ UNCHANGED <<data, known, reset>>
  /\ UNCHANGED <<backup, life, expired, spared>>

\* Mutant: the server goes on without the file.
WriteFailsIgnored ==
  /\ phase = "writeKey"
  /\ Event
  /\ Serve(key)
  /\ UNCHANGED <<data, Disk>>

\* The disk is full: exit with 1, the file stays cut.
WriteFails ==
  /\ phase = "writeKey"
  /\ Event
  /\ ProcessEnds

Crash ==
  /\ phase # "down"
  /\ Event
  /\ ProcessEnds

\* A signal: no request is accepted any more.
Shutdown ==
  /\ phase = "serving"
  /\ Event
  /\ GoTo("stopping")
  /\ UNCHANGED <<Disk, data, key, known>>

\* The requests are done, or 10 s have passed.
Exit ==
  /\ phase = "stopping"
  /\ ProcessEnds
  /\ UNCHANGED events

\* No handler sets a password: the operator does, in a row of the database.
SetPassword(a) ==
  /\ phase = "serving"
  /\ data.users[a] # "absent"
  /\ data' = [data EXCEPT !.users[a] = "password"]
  /\ UNCHANGED <<phase, key, Sessions, Disk, known, events>>

-----------------------------------------------------------------------------
\* The sessions

Main == <<Disk, phase, key, known>>
Up == phase \in {"serving", "stopping"}
At(r, s) == Up /\ request[r].step = s
Step(r, s) == request' = [request EXCEPT ![r].step = s]
Done(r) == request' = [request EXCEPT ![r] = Idle]

\* Some password is that of the account.
VerifyPassword(a) == data.users[a] = "password"

\* ValidateLogin: a wrong password and an account without one change nothing.
Login(r) ==
  /\ phase = "serving"
  /\ At(r, "idle")
  /\ \E a \in Account : VerifyPassword(a)
  /\ Step(r, "verified")
  /\ UNCHANGED <<data, Main, life, expired, spared, events>>

StoreToken(r) ==
  LET s == CHOOSE s \in Session : life[s] = "unused" IN
  /\ At(r, "verified")
  /\ Has("auth_tokens")
  /\ \E o \in Session : life[o] = "unused"
  /\ life' = [life EXCEPT ![s] = "live"]
  /\ data' = [data EXCEPT !.tokens = @ \union {s}]
  /\ Done(r)
  /\ UNCHANGED <<Main, expired, spared, events>>

\* The INSERT finds the database locked, or no such table: 401.
LoginFails(r) ==
  /\ At(r, "verified")
  /\ IF Has("auth_tokens") THEN Event ELSE UNCHANGED events
  /\ Done(r)
  /\ UNCHANGED <<data, Main, life, expired, spared>>

\* Too old, or logged out, its row removed and not brought back.
Gone(s) == s \in expired \/ (life[s] = "ended" /\ s \notin spared \union reset)

\* A request with the token of a session, for a note or for its logout.
Ask(r, s, logout) ==
  /\ phase = "serving"
  /\ At(r, "idle")
  /\ life[s] # "unused"
  /\ request' = [request EXCEPT ![r] =
       [step |-> "read", logout |-> logout, session |-> s, gone |-> Gone(s), failed |-> FALSE]]
  /\ life' = [life EXCEPT ![s] = IF logout /\ @ = "live" THEN "asked" ELSE @]
  /\ UNCHANGED <<data, Main, expired, spared, events>>

\* What the handler does next with the session.
Authenticated(r, step) ==
  request' = [request EXCEPT ![r] =
    [Idle EXCEPT !.step = step, !.session = request[r].session,
                 !.gone = step = "admitted" /\ request[r].gone]]

\* Authenticate: the SELECT and the look at the clock.  Whether the row of an expired
\* session is deleted is not looked at.
ReadToken(r) ==
  LET s == request[r].session IN
  /\ At(r, "read")
  /\ \/ /\ s \notin data.tokens
        /\ Authenticated(r, "refused")
        /\ UNCHANGED data
     \/ /\ s \in data.tokens \intersect expired
        /\ Authenticated(r, "refused")
        /\ \E old \in {{}, {s}} : data' = [data EXCEPT !.tokens = @ \ old]
     \/ /\ s \in data.tokens \ expired
        /\ Authenticated(r, IF request[r].logout THEN "remove" ELSE "admitted")
        /\ UNCHANGED data
  /\ UNCHANGED <<Main, life, expired, spared, events>>

\* The SELECT finds the database locked: 401, as for a token that is not there.
ReadFails(r) ==
  /\ At(r, "read")
  /\ Event
  /\ request' = [request EXCEPT ![r] =
       [Idle EXCEPT !.step = "refused", !.session = request[r].session, !.failed = TRUE]]
  /\ UNCHANGED <<data, Main, life, expired, spared>>

\* The answer is 204.
LoggedOut(r) ==
  /\ Done(r)
  /\ life' = [life EXCEPT ![request[r].session] = "ended"]

RowGone(r) ==
  /\ spared' = spared \ {request[r].session}
  /\ reset' = reset \ {request[r].session}
  /\ UNCHANGED <<backup, cut, phase, key, known, expired, events>>

\* Mutant: the row is looked for by the token, not by its hash.
InvalidateTokenUnhashed(r) ==
  /\ At(r, "remove")
  /\ LoggedOut(r)
  /\ RowGone(r)
  /\ UNCHANGED data

\* Mutant: a logout ends every session of the account.
InvalidateTokens(r) ==
  /\ At(r, "remove")
  /\ data' = [data EXCEPT !.tokens = {}]
  /\ LoggedOut(r)
  /\ RowGone(r)

\* InvalidateToken: the DELETE.
InvalidateToken(r) ==
  /\ At(r, "remove")
  /\ data' = [data EXCEPT !.tokens = @ \ {request[r].session}]
  /\ LoggedOut(r)
  /\ RowGone(r)

\* The DELETE finds the database locked: logged, and 204 all the same.
InvalidateFails(r) ==
  /\ At(r, "remove")
  /\ Event
  /\ LoggedOut(r)
  /\ spared' = spared \union (data.tokens \intersect {request[r].session})
  /\ UNCHANGED <<data, Main, expired>>

Answer(r) ==
  /\ request[r].step \in {"admitted", "refused"}
  /\ Done(r)
  /\ UNCHANGED <<data, Main, life, expired, spared, events>>

\* Thirty days have passed since the login.
Expire(s) ==
  /\ life[s] # "unused" /\ s \notin expired
  /\ Event
  /\ expired' = expired \union {s}
  /\ UNCHANGED <<data, Main, request, life, spared>>

-----------------------------------------------------------------------------
\* The S3 API, where a handler needs a signature but no session

\* late: signed more than 15 minutes from the server's time; escaped: the path has a
\* character, as a space, that the request line has as an escape.
S3Request == [key : Key, late : BOOLEAN, host : Host \union {Here}, signsHost : BOOLEAN,
              query : {"", "list-type=2"}, path : {"plain", "escaped"}]

\* What a client puts into its canonical request.
Canonical(q) == [host |-> IF q.signsHost THEN q.host ELSE None, query |-> q.query,
                 path |-> q.path]

\* buildCanonicalRequest takes the path that net/http has decoded, leaves the query
\* out, and reads a header out of which net/http has taken Host.
Rebuilt(q) == [host |-> IF q.signsHost THEN "" ELSE None, query |-> "",
               path |-> IF q.path = "escaped" THEN "decoded" ELSE q.path]

VerifySignature(q) == q.key = key /\ ~q.late /\ Canonical(q) = Rebuilt(q)

\* wrapS3Auth
S3LetsIn(q) == q.host = Here \/ VerifySignature(q)

-----------------------------------------------------------------------------

StartStep ==
  \/ OpenDatabase \/ CreateTable \/ InitWorkspace \/ InitUser \/ Restore \/ BuildAuthenticator
  \/ LoadCredentials \/ WriteCredentials

RequestStep(r) ==
  \/ Login(r) \/ LoginFails(r) \/ StoreToken(r)
  \/ \E s \in Session, logout \in BOOLEAN : Ask(r, s, logout)
  \/ ReadToken(r) \/ ReadFails(r)
  \/ InvalidateToken(r) \/ InvalidateFails(r) \/ Answer(r)

Next ==
  \/ StartStep \/ WriteFails \/ Crash \/ Shutdown \/ Exit \/ Snapshot
  \/ \E a \in Account : SetPassword(a)
  \/ \E r \in Request : RequestStep(r)
  \/ \E s \in Session : Expire(s)

Spec == Init /\ [][Next]_vars

\* The container is started again whenever it ended ("restart: unless-stopped").
FairSpec == Spec /\ WF_vars(StartStep)

-----------------------------------------------------------------------------

\* Once 30 days have passed or the row was deleted by a logout, no request that comes
\* later is let in with that session: not next to a login, a request or another logout
\* in progress, and not after a crash.  A logout whose DELETE failed was answered with
\* 204 too and leaves its session open, and a restored meta.db that still has the row
\* opens it again; these two are told apart by spared and reset (Authenticate,
\* InvalidateToken, RestoreFromPersist).
GoneStaysOut ==
  \A r \in Request : request[r].step = "admitted" => ~request[r].gone

\* A session that nobody asked to end, that is not old and that no lost or restored
\* meta.db took away has its row, whoever else logged out and whatever crashed; so a
\* request with it is refused only where its own SELECT failed, which is answered as
\* if the token were unknown.
SessionsLast ==
  /\ \A s \in Session \ (expired \union reset) : life[s] = "live" => s \in data.tokens
  /\ \A r \in Request :
       LET s == request[r].session IN
       request[r].step = "refused" =>
         life[s] # "live" \/ s \in expired \union reset \/ request[r].failed

\* A server that serves has its S3 key on disk for the next one, and every table
\* unless a process once died within schema.sql: initSchema never makes the rest.
ServesWhole ==
  Up => data.keyFile = key /\ (data.tables = Whole \/ cut)

\* A key that a server once served with opens the S3 API of every later one, as long
\* as the data directory is there, for requests that are in time, sign neither their
\* host nor a query and have nothing escaped in their path.  Requests that sign those
\* are refused, as buildCanonicalRequest makes another text than the client.
KeyLasts ==
  Up => \A q \in S3Request :
    /\ q.key \in known /\ ~q.late
    /\ ~q.signsHost /\ q.query = "" /\ q.path = "plain"
    => S3LetsIn(q)

\* A start that was cut short, but not within schema.sql, is followed by one that
\* comes to serve.
ServesAgain == phase = "down" ~> (phase = "serving" \/ cut)
=============================================================================
