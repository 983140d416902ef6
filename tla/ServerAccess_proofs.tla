------------------------ MODULE ServerAccess_proofs ------------------------
(***************************************************************************)
(* The invariants of ServerAccess hold for any number of sessions, keys,   *)
(* requests and events, in either storage mode.                            *)
(***************************************************************************)
EXTENDS ServerAccess, TLAPS

\* What a request in progress knows of its session, given the life of the sessions,
\* those that have expired or were reset, and the rows of auth_tokens.
RequestOK(q, lf, ex, rs, tk) ==
  /\ q.step \notin {"idle", "verified"} =>
       /\ q.session \in Session
       /\ lf[q.session] # "unused"
       /\ q.logout => lf[q.session] # "live"
  /\ q.step = "remove" => lf[q.session] # "live"
  /\ q.step = "read" /\ q.gone => q.session \in ex \/ q.session \notin tk
  /\ q.step = "admitted" => ~q.gone
  /\ q.step = "refused" /\ ~q.failed => lf[q.session] # "live" \/ q.session \in ex \union rs

RequestsOK == \A r \in Request : RequestOK(request[r], life, expired, reset, data.tokens)

\* No request outlives the process.
Quiet == ~Up => request = [r \in Request |-> Idle]

\* The rows of auth_tokens follow the life of the sessions.
EndedHasNoRow ==
  \A s \in Session : life[s] = "ended" /\ s \notin spared \union reset => s \notin data.tokens

LiveHasRow ==
  \A s \in Session \ (expired \union reset) : life[s] = "live" => s \in data.tokens

\* The schema is whole or not begun when main looks at it, and whole in a snapshot.
SchemaWhole ==
  ~cut =>
    /\ phase = "down" => data.tables \in {0, Whole}
    /\ phase \notin {"down", "schema"} => data.tables = Whole
    /\ backup # None => backup.tables = Whole

KeyOnDisk ==
  /\ Up => data.keyFile = key
  /\ phase = "writeKey" => data.keyFile = "cut"
  /\ \A k \in known : data.keyFile = k

IndInv ==
  TypeOK /\ RequestsOK /\ Quiet /\ EndedHasNoRow /\ LiveHasRow /\ SchemaWhole /\ KeyOnDisk

-----------------------------------------------------------------------------
\* Type correctness

LEMMA MaxEventsNat == MaxEvents \in Nat
BY ConstantsAssumption

LEMMA EventTypes ==
  ASSUME events \in 0 .. MaxEvents, Event
  PROVE  events' \in 0 .. MaxEvents
BY MaxEventsNat DEF Event

LEMMA InitTypeOK == Init => TypeOK
<1> SUFFICES ASSUME Init PROVE TypeOK
  OBVIOUS
<1>1. NoData \in Data
  BY DEF NoData, Data, Whole, Account
<1>2. Idle \in Requests
  BY DEF Idle, Requests
<1>3. events \in 0 .. MaxEvents
  BY MaxEventsNat DEF Init
<1> QED
  BY <1>1, <1>2, <1>3 DEF Init, TypeOK, Phase

\* A process that ends leaves the data directory, or an empty one.
LEMMA EndTypes ==
  ASSUME TypeOK, ProcessEnds
  PROVE  data' \in Data /\ phase' \in Phase /\ key' \in Key \union {None}
         /\ request' \in [Request -> Requests] /\ known' \subseteq Key
         /\ reset' \subseteq Session /\ cut' \in BOOLEAN
<1>1. NoData \in Data
  BY DEF NoData, Data, Whole, Account
<1>2. Idle \in Requests
  BY DEF Idle, Requests
<1>3. data.tokens \subseteq Session
  BY DEF TypeOK, Data
<1> QED
  BY <1>1, <1>2, <1>3 DEF TypeOK, ProcessEnds, DirectoryLost, Phase

\* What a handler or main may write into the data directory.
LEMMA DataUpdates ==
  ASSUME data \in Data
  PROVE  /\ data.users \in [Account -> {"absent", "noPassword", "password"}]
         /\ data.tables \in 0 .. 6 /\ data.tokens \in SUBSET Session
         /\ data.keyFile \in Key \union {None, "cut"}
         /\ \A n \in 0 .. 6 : [data EXCEPT !.tables = n] \in Data
         /\ \A u \in [Account -> {"absent", "noPassword", "password"}] :
              [data EXCEPT !.users = u] \in Data
         /\ \A T \in SUBSET Session : [data EXCEPT !.tokens = T] \in Data
         /\ \A k \in Key \union {None, "cut"} : [data EXCEPT !.keyFile = k] \in Data
         /\ [tables |-> data.tables, users |-> data.users, tokens |-> data.tokens] \in MetaDb
BY DEF Data, MetaDb, Whole

\* The steps a handler may take.
LEMMA RequestUpdates ==
  ASSUME request \in [Request -> Requests], NEW r \in Request
  PROVE  /\ request[r] \in Requests
         /\ Done(r) => request' \in [Request -> Requests]
         /\ Step(r, "verified") => request' \in [Request -> Requests]
         /\ \A s \in {"remove", "admitted", "refused"} :
              Authenticated(r, s) => request' \in [Request -> Requests]
<1>1. Idle \in Requests
  BY DEF Idle, Requests
<1>2. [request[r] EXCEPT !.step = "verified"] \in Requests
  BY DEF Requests
<1>3. ASSUME NEW s \in {"remove", "admitted", "refused"}, Authenticated(r, s)
      PROVE  request' \in [Request -> Requests]
  <2>1. [Idle EXCEPT !.step = s, !.session = request[r].session,
                     !.gone = s = "admitted" /\ request[r].gone] \in Requests
    BY DEF Requests, Idle
  <2> QED
    BY <1>3, <2>1 DEF Authenticated
<1> QED
  BY <1>1, <1>2, <1>3 DEF Done, Step

\* The session a login makes.
LEMMA NewSession ==
  ASSUME NEW r \in Request, StoreToken(r)
  PROVE  \E s \in Session :
           /\ life[s] = "unused" /\ life' = [life EXCEPT ![s] = "live"]
           /\ data' = [data EXCEPT !.tokens = @ \union {s}]
<1> DEFINE s == CHOOSE o \in Session : life[o] = "unused"
<1>1. \E o \in Session : life[o] = "unused"
  BY DEF StoreToken
<1>2. s \in Session /\ life[s] = "unused"
  BY <1>1
<1> QED
  BY <1>2 DEF StoreToken

LEMMA RequestStepTypes ==
  ASSUME TypeOK, NEW r \in Request, RequestStep(r)
  PROVE  TypeOK'
<1> USE DEF TypeOK, Main, Disk
<1>1. CASE Login(r)
  BY <1>1, RequestUpdates DEF Login
<1>2. CASE LoginFails(r)
  BY <1>2, RequestUpdates, EventTypes DEF LoginFails
<1>3. CASE StoreToken(r)
  <2>1. PICK s \in Session : /\ life' = [life EXCEPT ![s] = "live"]
                            /\ data' = [data EXCEPT !.tokens = @ \union {s}]
    BY <1>3, NewSession
  <2>2. data.tokens \union {s} \in SUBSET Session
    BY DataUpdates
  <2>3. data' \in Data
    BY <2>1, <2>2, DataUpdates
  <2> QED
    BY <1>3, <2>1, <2>3, RequestUpdates DEF StoreToken
<1>4. ASSUME NEW s \in Session, NEW logout \in BOOLEAN, Ask(r, s, logout) PROVE TypeOK'
  <2>1. [step |-> "read", logout |-> logout, session |-> s, gone |-> Gone(s),
         failed |-> FALSE] \in Requests
    BY <1>4 DEF Requests, Gone
  <2>2. request' \in [Request -> Requests]
    BY <1>4, <2>1 DEF Ask
  <2>3. life' \in [Session -> {"unused", "live", "asked", "ended"}]
    BY <1>4 DEF Ask
  <2> QED
    BY <1>4, <2>2, <2>3 DEF Ask
<1>5. CASE ReadToken(r)
  <2>1. \A old : data.tokens \ old \in SUBSET Session
    BY DataUpdates
  <2>2. data' \in Data
    BY <1>5, <2>1, DataUpdates DEF ReadToken
  <2>3. \E s \in {"remove", "admitted", "refused"} : Authenticated(r, s)
    BY <1>5 DEF ReadToken
  <2> QED
    BY <1>5, <2>2, <2>3, RequestUpdates DEF ReadToken
<1>6. CASE ReadFails(r)
  <2>1. [Idle EXCEPT !.step = "refused", !.session = request[r].session, !.failed = TRUE]
          \in Requests
    BY RequestUpdates DEF Requests, Idle
  <2> QED
    BY <1>6, <2>1, EventTypes DEF ReadFails
<1>7. CASE InvalidateToken(r)
  <2>1. \A gone : data.tokens \ gone \in SUBSET Session
    BY DataUpdates
  <2>2. data' \in Data
    BY <1>7, <2>1, DataUpdates DEF InvalidateToken
  <2>3. life' \in [Session -> {"unused", "live", "asked", "ended"}]
    BY <1>7 DEF InvalidateToken, LoggedOut
  <2> QED
    BY <1>7, <2>2, <2>3, RequestUpdates DEF InvalidateToken, LoggedOut, RowGone
<1>8. CASE InvalidateFails(r)
  <2>1. life' \in [Session -> {"unused", "live", "asked", "ended"}]
    BY <1>8 DEF InvalidateFails, LoggedOut
  <2>2. spared' \subseteq Session
    BY <1>8, DataUpdates DEF InvalidateFails
  <2> QED
    BY <1>8, <2>1, <2>2, RequestUpdates, EventTypes DEF InvalidateFails, LoggedOut
<1>9. CASE Answer(r)
  BY <1>9, RequestUpdates DEF Answer
<1> QED
  BY <1>1, <1>2, <1>3, <1>4, <1>5, <1>6, <1>7, <1>8, <1>9 DEF RequestStep

LEMMA NextTypeOK == TypeOK /\ [Next]_vars => TypeOK'
<1> SUFFICES ASSUME TypeOK, [Next]_vars PROVE TypeOK'
  OBVIOUS
<1> USE DEF TypeOK, GoTo, Sessions, Phase, Disk
<1>1. CASE OpenDatabase \/ InitWorkspace \/ Shutdown
  BY <1>1, EventTypes DEF OpenDatabase, InitWorkspace, Shutdown
<1>2. CASE CreateTable
  <2>1. data.tables + 1 \in 0 .. 6
    BY <1>2, DataUpdates DEF CreateTable, Whole
  <2> QED
    BY <1>2, <2>1, DataUpdates DEF CreateTable
<1>3. CASE InitUser
  <2> DEFINE row == IF data.users[Owner] = "absent" THEN "noPassword" ELSE data.users[Owner]
  <2>1. [data.users EXCEPT ![Owner] = row] \in
          [Account -> {"absent", "noPassword", "password"}]
    BY DataUpdates DEF Account
  <2>2. data' \in Data
    BY <1>3, <2>1, DataUpdates DEF InitUser
  <2> QED
    BY <1>3, <2>2 DEF InitUser
<1>10. CASE Restore
  <2>1. CASE UNCHANGED <<data, reset>>
    BY <1>10, <2>1 DEF Restore
  <2>2. CASE backup # None /\ ~UNCHANGED <<data, reset>>
    <3>1. backup \in MetaDb
      BY <2>2
    <3>2. data' \in Data
      BY <1>10, <2>2, <3>1 DEF Restore, Data, MetaDb
    <3>3. reset' \subseteq Session
      BY <1>10, <2>2, <3>1, DataUpdates DEF Restore, MetaDb
    <3> QED
      BY <1>10, <3>2, <3>3 DEF Restore
  <2> QED
    BY <1>10, <2>1, <2>2 DEF Restore
<1>11. CASE Snapshot
  BY <1>11, DataUpdates, EventTypes DEF Snapshot
<1>4. CASE BuildAuthenticator
  <2> DEFINE row == IF data.users[Admin] = "absent" THEN "password" ELSE data.users[Admin]
  <2>0. [data.users EXCEPT ![Admin] = row] \in
          [Account -> {"absent", "noPassword", "password"}]
    BY DataUpdates DEF Account
  <2>1. data' \in Data
    BY <1>4, <2>0, DataUpdates DEF BuildAuthenticator, GenerateInitialAdmin
  <2> QED
    BY <1>4, <2>1 DEF BuildAuthenticator
<1>5. CASE LoadCredentials
  <2>1. data' \in Data
    BY <1>5, DataUpdates DEF LoadCredentials, Serve, Generate
  <2>2. Key \ known # {} => (CHOOSE k \in Key : k \notin known) \in Key
    OBVIOUS
  <2> QED
    BY <1>5, <2>1, <2>2 DEF LoadCredentials, Serve, Generate
<1>6. CASE WriteCredentials
  <2>1. data' \in Data /\ key \in Key
    BY <1>6, DataUpdates DEF WriteCredentials, Serve
  <2> QED
    BY <1>6, <2>1 DEF WriteCredentials, Serve
<1>7. CASE WriteFails \/ Crash \/ Exit
  <2>1. UNCHANGED <<backup, life, expired, spared>> /\ events' \in 0 .. MaxEvents
        /\ ProcessEnds
    BY <1>7, EventTypes DEF WriteFails, Crash, Exit, ProcessEnds
  <2> QED
    BY <2>1, EndTypes DEF ProcessEnds
<1>8. ASSUME NEW a \in Account, SetPassword(a) PROVE TypeOK'
  <2>1. data' \in Data
    BY <1>8, DataUpdates DEF SetPassword
  <2> QED
    BY <1>8, <2>1 DEF SetPassword
<1>9. ASSUME NEW s \in Session, Expire(s) PROVE TypeOK'
  BY <1>9, EventTypes DEF Expire, Main
<1> QED
  BY <1>1, <1>2, <1>3, <1>4, <1>5, <1>6, <1>7, <1>8, <1>9, <1>10, <1>11, RequestStepTypes
     DEF Next, StartStep, vars

-----------------------------------------------------------------------------
\* The requests

\* While a process is up, time only goes on: sessions are made, end and expire, and
\* their rows do not come back.
Later ==
  /\ expired \subseteq expired'
  /\ \A s \in Session :
       /\ life[s] # "unused" => life'[s] # "unused" /\ (s \in data'.tokens => s \in data.tokens)
       /\ life[s] \notin {"unused", "live"} => life'[s] \notin {"unused", "live"}
       /\ s \in reset => s \in reset' \/ life'[s] # "live"

LEMMA Persists ==
  ASSUME NEW q, RequestOK(q, life, expired, reset, data.tokens), Later
  PROVE  RequestOK(q, life', expired', reset', data'.tokens)
BY DEF RequestOK, Later

LEMMA IdleOK ==
  ASSUME NEW lf, NEW ex, NEW rs, NEW tk
  PROVE  RequestOK(Idle, lf, ex, rs, tk)
BY DEF RequestOK, Idle

\* Neither main nor the clock touches a request, but the end of the process does.
LEMMA OthersKeepSessions ==
  ASSUME TypeOK,
         StartStep \/ Shutdown \/ Snapshot \/ \E a \in Account : SetPassword(a)
  PROVE  /\ UNCHANGED <<request, life, expired, spared>>
         /\ ~Restore => data'.tokens = data.tokens /\ reset' = reset
<1>1. data \in Data
  BY DEF TypeOK
<1> QED
  BY <1>1 DEF StartStep, Shutdown, Snapshot, SetPassword, OpenDatabase, CreateTable,
       InitWorkspace, InitUser, Restore, BuildAuthenticator, GenerateInitialAdmin,
       LoadCredentials, WriteCredentials, Serve, Generate, GoTo, Sessions, Disk, Data

LEMMA Ends ==
  ASSUME WriteFails \/ Crash \/ Exit
  PROVE  /\ request' = [r \in Request |-> Idle]
         /\ UNCHANGED <<life, expired, spared, backup>>
         /\ phase' = "down"
         /\ cut' = (cut \/ data.tables \in 1 .. Whole - 1)
         /\ \/ data' = data /\ known' = known /\ reset' = reset
            \/ data' = NoData /\ known' = {} /\ reset' = reset \union data.tokens
BY DEF WriteFails, Crash, Exit, ProcessEnds, DirectoryLost

LEMMA RequestsKeepMain ==
  ASSUME TypeOK, NEW r \in Request, RequestStep(r)
  PROVE  /\ UNCHANGED <<phase, key, known, expired, cut, backup>>
         /\ data'.tables = data.tables /\ data'.keyFile = data.keyFile
         /\ \A o \in Request \ {r} : request'[o] = request[o]
<1>1. data \in Data /\ request \in [Request -> Requests]
  BY DEF TypeOK
<1>2. CASE StoreToken(r)
  BY <1>1, <1>2, NewSession DEF StoreToken, Done, Main, Disk, Data
<1> QED
  BY <1>1, <1>2 DEF RequestStep, Login, LoginFails, Ask, ReadToken, ReadFails,
       Authenticated, InvalidateToken, InvalidateFails, LoggedOut, RowGone, Answer, Done, Step,
       Main, Disk, Data

\* A request step needs a process that is up.
LEMMA RequestsNeedUp ==
  ASSUME Quiet, NEW r \in Request, RequestStep(r)
  PROVE  Up
<1>1. ~Up => request[r].step = "idle"
  BY DEF Quiet, Idle
<1> QED
  BY <1>1 DEF RequestStep, Login, LoginFails, StoreToken, Ask, ReadToken, ReadFails,
       InvalidateToken, InvalidateFails, Answer, At, Up

LEMMA RequestStepIsLater ==
  ASSUME IndInv, NEW r \in Request, RequestStep(r)
  PROVE  Later
<1> DEFINE q == request[r]
<1>1. /\ data \in Data /\ life \in [Session -> {"unused", "live", "asked", "ended"}]
      /\ expired' = expired
      /\ RequestOK(q, life, expired, reset, data.tokens)
  BY RequestsKeepMain DEF IndInv, TypeOK, RequestsOK
<1>2. CASE Login(r) \/ LoginFails(r) \/ ReadFails(r) \/ Answer(r)
  BY <1>2 DEF Login, LoginFails, ReadFails, Answer, Main, Disk, Later
<1>3. CASE StoreToken(r)
  <2>1. PICK s \in Session :
          /\ life[s] = "unused" /\ life' = [life EXCEPT ![s] = "live"]
          /\ data' = [data EXCEPT !.tokens = @ \union {s}]
    BY <1>3, NewSession
  <2>2. data'.tokens = data.tokens \union {s} /\ reset' = reset
    BY <1>1, <1>3, <2>1 DEF StoreToken, Main, Disk, Data
  <2> QED
    BY <1>1, <2>1, <2>2 DEF Later
<1>4. ASSUME NEW s \in Session, NEW logout \in BOOLEAN, Ask(r, s, logout) PROVE Later
  BY <1>1, <1>4 DEF Ask, Main, Disk, Later
<1>5. CASE ReadToken(r)
  <2>1. life' = life /\ reset' = reset /\ data'.tokens \subseteq data.tokens
    BY <1>1, <1>5 DEF ReadToken, Main, Disk, Data
  <2> QED
    BY <1>1, <2>1 DEF Later
<1>6. CASE InvalidateToken(r) \/ InvalidateFails(r)
  <2>1. /\ life' = [life EXCEPT ![q.session] = "ended"]
        /\ data'.tokens \subseteq data.tokens
        /\ reset \subseteq reset' \union {q.session}
    BY <1>1, <1>6
       DEF InvalidateToken, InvalidateFails, LoggedOut, RowGone, Main, Disk, Data
  <2>2. q.session \in Session /\ life[q.session] # "unused"
    BY <1>1, <1>6 DEF InvalidateToken, InvalidateFails, At, RequestOK
  <2> QED
    BY <1>1, <2>1, <2>2 DEF Later
<1> QED
  BY <1>2, <1>3, <1>4, <1>5, <1>6 DEF RequestStep

LEMMA RequestsStayOK ==
  ASSUME IndInv, [Next]_vars
  PROVE  RequestsOK' /\ Quiet'
<1> USE DEF RequestsOK, Quiet
<1>0. TypeOK /\ Quiet /\ RequestsOK
  BY DEF IndInv
<1>1. CASE WriteFails \/ Crash \/ Exit
  BY <1>1, Ends, IdleOK
<1>2. CASE request' = request /\ ~Up
  <2>1. request' = [r \in Request |-> Idle]
    BY <1>0, <1>2
  <2> QED
    BY <2>1, IdleOK
<1>3. CASE request' = request /\ Up /\ Up' /\ Later
  BY <1>0, <1>3, Persists
<1>4. CASE UNCHANGED vars
  <2>1. Later /\ UNCHANGED <<request, phase>>
    BY <1>4 DEF vars, Later
  <2> QED
    BY <1>2, <1>3, <2>1 DEF Up
<1>5. CASE StartStep \/ Shutdown \/ Snapshot \/ \E a \in Account : SetPassword(a)
  <2>1. request' = request
    BY <1>0, <1>5, OthersKeepSessions
  <2>2. Up => Up' /\ ~Restore
    BY <1>5 DEF Up, StartStep, Shutdown, Snapshot, SetPassword, OpenDatabase, CreateTable,
         InitWorkspace, InitUser, Restore, BuildAuthenticator, LoadCredentials,
         WriteCredentials, GoTo
  <2>3. Up => Later
    BY <1>0, <1>5, <2>2, OthersKeepSessions DEF Later
  <2> QED
    BY <1>2, <1>3, <2>1, <2>2, <2>3
<1>6. ASSUME NEW s \in Session, Expire(s) PROVE RequestsOK' /\ Quiet'
  <2>1. Later /\ UNCHANGED <<request, phase>>
    BY <1>6 DEF Expire, Main, Disk, Later
  <2> QED
    BY <1>2, <1>3, <2>1 DEF Up
<1>7. ASSUME NEW r \in Request, RequestStep(r)
      PROVE  RequestOK(request'[r], life', expired', reset', data'.tokens)
  <2> DEFINE q == request[r]
  <2>1. /\ RequestOK(q, life', expired', reset', data'.tokens)
        /\ RequestOK(q, life, expired, reset, data.tokens)
        /\ q \in Requests /\ data \in Data
        /\ request \in [Request -> Requests] /\ expired' = expired
    BY <1>0, <1>7, RequestStepIsLater, Persists, RequestsKeepMain DEF TypeOK
  <2>3. CASE Login(r)
    BY <2>1, <2>3 DEF Login, Step, RequestOK
  <2>4. CASE LoginFails(r) \/ Answer(r) \/ StoreToken(r)
    BY <2>1, <2>4, IdleOK DEF LoginFails, Answer, StoreToken, Done
  <2>5. ASSUME NEW s \in Session, NEW logout \in BOOLEAN, Ask(r, s, logout)
        PROVE  RequestOK(request'[r], life', expired', reset', data'.tokens)
    <3>1. request'[r] = [step |-> "read", logout |-> logout, session |-> s,
                         gone |-> Gone(s), failed |-> FALSE]
      BY <2>1, <2>5 DEF Ask
    <3>2. life'[s] = IF logout /\ life[s] = "live" THEN "asked" ELSE life[s]
      BY <1>0, <2>5 DEF Ask, TypeOK
    <3>3. life[s] # "unused" /\ data' = data
      BY <2>5 DEF Ask
    <3>4. Gone(s) => s \in expired \/ s \notin data.tokens
      BY DEF Gone, IndInv, EndedHasNoRow
    <3> DEFINE new == request'[r]
    <3>5. new.step = "read" /\ new.session = s /\ (new.logout => logout)
      BY <3>1
    <3>6. new.gone => s \in expired \/ s \notin data.tokens
      BY <3>1, <3>4
    <3> HIDE DEF new
    <3>7. RequestOK(new, life', expired', reset', data'.tokens)
      BY <2>1, <3>2, <3>3, <3>5, <3>6 DEF RequestOK
    <3> QED
      BY <3>7 DEF new
  <2>6. CASE ReadToken(r)
    <3>1. q.step = "read" /\ life' = life /\ reset' = reset
      BY <2>6 DEF ReadToken, At, Main, Disk
    <3>2. q.session \in Session /\ life[q.session] # "unused"
          /\ (q.logout => life[q.session] # "live")
          /\ (q.gone => q.session \in expired \/ q.session \notin data.tokens)
      BY <2>1, <3>1 DEF RequestOK
    <3>3. PICK step \in {"remove", "admitted", "refused"} :
            /\ Authenticated(r, step)
            /\ step = "refused" => q.session \notin data.tokens \/ q.session \in expired
            /\ step # "refused" => q.session \in data.tokens \ expired
            /\ step = "remove" => q.logout
      BY <2>6 DEF ReadToken
    <3> DEFINE new == request'[r]
    <3>4. /\ new.step = step /\ new.session = q.session /\ ~new.logout /\ ~new.failed
          /\ new.gone => step = "admitted" /\ q.gone
      BY <2>1, <3>3 DEF Authenticated, Idle
    <3> HIDE DEF new
    <3>5. step = "refused" => life[q.session] # "live" \/ q.session \in expired \union reset
      BY <3>2, <3>3 DEF IndInv, LiveHasRow
    <3>6. RequestOK(new, life', expired', reset', data'.tokens)
      BY <2>1, <3>1, <3>2, <3>3, <3>4, <3>5 DEF RequestOK
    <3> QED
      BY <3>6 DEF new
  <2>7. CASE ReadFails(r)
    <3>1. q.step = "read"
      BY <2>7 DEF ReadFails, At
    <3> DEFINE new == request'[r]
    <3>2. /\ new.step = "refused" /\ new.session = q.session
          /\ ~new.logout /\ new.failed /\ ~new.gone
      BY <2>1, <2>7 DEF ReadFails, Idle
    <3> HIDE DEF new
    <3>3. RequestOK(new, life', expired', reset', data'.tokens)
      BY <2>1, <3>1, <3>2 DEF RequestOK
    <3> QED
      BY <3>3 DEF new
  <2>9. CASE InvalidateToken(r) \/ InvalidateFails(r)
    BY <2>1, <2>9, IdleOK DEF InvalidateToken, InvalidateFails, LoggedOut, Done
  <2> QED
    BY <1>7, <2>3, <2>4, <2>5, <2>6, <2>7, <2>9 DEF RequestStep
<1>8. ASSUME NEW r \in Request, RequestStep(r) PROVE RequestsOK' /\ Quiet'
  <2>1. Up /\ phase' = phase
    BY <1>0, <1>8, RequestsNeedUp, RequestsKeepMain
  <2>2. \A o \in Request \ {r} :
          RequestOK(request'[o], life', expired', reset', data'.tokens)
    BY <1>0, <1>8, RequestsKeepMain, RequestStepIsLater, Persists
  <2> QED
    BY <1>7, <1>8, <2>1, <2>2 DEF Up
<1> QED
  BY <1>1, <1>4, <1>5, <1>6, <1>8 DEF Next

-----------------------------------------------------------------------------
\* The rows of auth_tokens

LEMMA TokensFollow ==
  ASSUME IndInv, [Next]_vars
  PROVE  EndedHasNoRow' /\ LiveHasRow'
<1> USE DEF EndedHasNoRow, LiveHasRow
<1>0. /\ EndedHasNoRow /\ LiveHasRow /\ TypeOK
      /\ data \in Data /\ life \in [Session -> {"unused", "live", "asked", "ended"}]
  BY DEF IndInv, TypeOK
<1>1. CASE UNCHANGED vars
  BY <1>0, <1>1 DEF vars
<1>2. CASE Restore
  <2>1. CASE UNCHANGED <<data, reset>>
    BY <1>0, <1>2, <2>1 DEF Restore, GoTo, Sessions
  <2>2. CASE backup # None /\ ~UNCHANGED <<data, reset>>
    <3>1. data'.tokens = backup.tokens
      BY <1>0, <1>2, <2>2 DEF Restore, Data
    <3>2. reset' = {s \in backup.tokens : life[s] = "ended"}
                   \union ((reset \union data.tokens) \ backup.tokens)
      BY <1>2, <2>2 DEF Restore
    <3>3. UNCHANGED <<life, expired, spared>>
      BY <1>2 DEF Restore, GoTo, Sessions
    <3>4. EndedHasNoRow'
      BY <3>1, <3>2, <3>3
    <3>5. LiveHasRow'
      BY <1>0, <3>1, <3>2, <3>3
    <3> QED
      BY <3>4, <3>5
  <2> QED
    BY <1>2, <2>1, <2>2 DEF Restore
<1>3. CASE /\ StartStep \/ Shutdown \/ Snapshot \/ \E a \in Account : SetPassword(a)
           /\ ~Restore
  BY <1>0, <1>3, OthersKeepSessions
<1>4. CASE WriteFails \/ Crash \/ Exit
  BY <1>0, <1>4, Ends DEF NoData
<1>5. ASSUME NEW s \in Session, Expire(s) PROVE EndedHasNoRow' /\ LiveHasRow'
  BY <1>0, <1>5 DEF Expire, Main, Disk
<1>6. ASSUME NEW r \in Request, RequestStep(r) PROVE EndedHasNoRow' /\ LiveHasRow'
  <2> DEFINE q == request[r]
  <2>1. expired' = expired /\ RequestOK(q, life, expired, reset, data.tokens)
    BY <1>0, <1>6, RequestsKeepMain DEF IndInv, RequestsOK
  <2>2. CASE Login(r) \/ LoginFails(r) \/ ReadFails(r) \/ Answer(r)
    BY <1>0, <2>1, <2>2 DEF Login, LoginFails, ReadFails, Answer, Main, Disk
  <2>3. CASE StoreToken(r)
    <3>1. PICK s \in Session :
            /\ life[s] = "unused" /\ life' = [life EXCEPT ![s] = "live"]
            /\ data' = [data EXCEPT !.tokens = @ \union {s}]
      BY <2>3, NewSession
    <3>2. data'.tokens = data.tokens \union {s} /\ UNCHANGED <<spared, reset>>
      BY <1>0, <2>3, <3>1 DEF StoreToken, Main, Disk, Data
    <3> QED
      BY <1>0, <2>1, <3>1, <3>2
  <2>4. ASSUME NEW s \in Session, NEW logout \in BOOLEAN, Ask(r, s, logout)
        PROVE  EndedHasNoRow' /\ LiveHasRow'
    BY <1>0, <2>1, <2>4 DEF Ask, Main, Disk
  <2>5. CASE ReadToken(r)
    <3>1. UNCHANGED <<life, spared, reset>>
          /\ (data' = data \/ (/\ q.session \in expired
                              /\ data'.tokens \in {data.tokens, data.tokens \ {q.session}}))
      BY <1>0, <2>5 DEF ReadToken, Main, Disk, Data
    <3> QED
      BY <1>0, <2>1, <3>1
  <2>6. CASE InvalidateToken(r)
    <3>1. /\ data'.tokens = data.tokens \ {q.session}
          /\ life' = [life EXCEPT ![q.session] = "ended"]
          /\ spared' = spared \ {q.session} /\ reset' = reset \ {q.session}
      BY <1>0, <2>6 DEF InvalidateToken, LoggedOut, RowGone, Data
    <3>2. q.session \in Session
      BY <2>1, <2>6 DEF InvalidateToken, At, RequestOK
    <3> QED
      BY <1>0, <2>1, <3>1, <3>2
  <2>7. CASE InvalidateFails(r)
    <3>1. /\ data' = data /\ reset' = reset
          /\ life' = [life EXCEPT ![q.session] = "ended"]
          /\ spared' = spared \union (data.tokens \intersect {q.session})
      BY <2>7 DEF InvalidateFails, LoggedOut, Main, Disk
    <3>2. q.session \in Session
      BY <2>1, <2>7 DEF InvalidateFails, At, RequestOK
    <3> QED
      BY <1>0, <2>1, <3>1, <3>2
  <2> QED
    BY <1>6, <2>2, <2>3, <2>4, <2>5, <2>6, <2>7 DEF RequestStep
<1> QED
  BY <1>1, <1>2, <1>3, <1>4, <1>5, <1>6 DEF Next, StartStep

-----------------------------------------------------------------------------
\* The database and the key

LEMMA HasAll ==
  ASSUME data \in Data
  PROVE  /\ Has("schema_version") <=> data.tables > 0
         /\ data.tables = Whole => Has("workspaces") /\ Has("users")
<1>1. Has("schema_version") <=> data.tables > 0
  BY DEF Has, Tables, Data, Whole
<1>2. data.tables = Whole => Has("workspaces")
  <2>1. Tables[2] = "workspaces"
    BY DEF Tables
  <2> QED
    BY <2>1 DEF Has, Whole
<1>3. data.tables = Whole => Has("users")
  <2>1. Tables[3] = "users"
    BY DEF Tables
  <2> QED
    BY <2>1 DEF Has, Whole
<1> QED
  BY <1>1, <1>2, <1>3

LEMMA DiskStaysWhole ==
  ASSUME IndInv, [Next]_vars
  PROVE  SchemaWhole' /\ KeyOnDisk'
<1> USE DEF SchemaWhole, KeyOnDisk, Up
<1>0. data \in Data
  BY DEF IndInv, TypeOK
<1>1. CASE UNCHANGED vars
  BY <1>1 DEF vars, IndInv
<1>2. CASE OpenDatabase \/ InitWorkspace \/ Shutdown
  BY <1>0, <1>2, HasAll DEF OpenDatabase, InitWorkspace, Shutdown, GoTo, IndInv, Data, Whole,
    Disk
<1>3. CASE CreateTable
  BY <1>0, <1>3 DEF CreateTable, GoTo, IndInv, Data, Whole, Disk
<1>4. CASE InitUser \/ BuildAuthenticator
  <2>1. /\ data'.tables = data.tables /\ data'.keyFile = data.keyFile
        /\ phase' \in {"restore", "auth", "keys"} \/ (phase' = "down" /\ ~Has("users"))
        /\ phase \in {"user", "auth"} /\ UNCHANGED <<key, known, cut, backup>>
    BY <1>0, <1>4 DEF InitUser, BuildAuthenticator, GenerateInitialAdmin, GoTo, Data, Disk
  <2> QED
    BY <1>0, <2>1, HasAll DEF IndInv
<1>5. CASE LoadCredentials
  <2>1. CASE data.keyFile \in Key
    BY <1>0, <1>5, <2>1 DEF LoadCredentials, Serve, GoTo, IndInv, Disk
  <2>2. CASE data.keyFile \notin Key
    <3>1. known = {}
      BY <2>2 DEF IndInv, TypeOK
    <3>2. /\ data'.tables = data.tables /\ data'.keyFile = "cut"
          /\ phase = "keys" /\ phase' = "writeKey" /\ UNCHANGED <<known, cut, backup>>
      BY <1>0, <1>5, <2>2 DEF LoadCredentials, Generate, GoTo, Data, Disk
    <3> QED
      BY <3>1, <3>2 DEF IndInv
  <2> QED
    BY <2>1, <2>2
<1>6. CASE WriteCredentials
  <2>1. /\ data'.tables = data.tables /\ data'.keyFile = key
        /\ phase = "writeKey" /\ phase' = "serving" /\ key' = key /\ known' = known \union {key}
        /\ UNCHANGED <<cut, backup>>
    BY <1>0, <1>6 DEF WriteCredentials, Serve, GoTo, Data, Disk
  <2>2. known = {}
    BY <2>1, ConstantsAssumption DEF IndInv, TypeOK
  <2> QED
    BY <2>1, <2>2 DEF IndInv
<1>7. CASE WriteFails \/ Crash \/ Exit
  <2>1. data.tables \in 0 .. 6
    BY <1>0, DataUpdates
  <2>2. phase # "down"
    BY <1>7 DEF WriteFails, Crash, Exit
  <2>3. ~cut' => ~cut /\ data'.tables \in {0, Whole} /\ backup' = backup
    <3>1. /\ cut' = (cut \/ data.tables \in 1 .. Whole - 1) /\ backup' = backup
          /\ data' = data \/ data' = NoData
      BY <1>7, Ends
    <3>2. data.tables \in 1 .. Whole - 1 \/ data.tables \in {0, Whole}
      BY <2>1 DEF Whole
    <3>3. NoData.tables = 0
      BY DEF NoData
    <3> QED
      BY <3>1, <3>2, <3>3
  <2>4. \A k \in known' : data'.keyFile = k
    BY <1>7, Ends DEF IndInv
  <2> QED
    BY <1>7, <2>3, <2>4, Ends DEF IndInv
<1>8. ASSUME NEW a \in Account, SetPassword(a) PROVE SchemaWhole' /\ KeyOnDisk'
  BY <1>0, <1>8 DEF SetPassword, IndInv, Data, Disk
<1>9. ASSUME NEW r \in Request, RequestStep(r) PROVE SchemaWhole' /\ KeyOnDisk'
  BY <1>9, RequestsKeepMain DEF IndInv
<1>10. ASSUME NEW s \in Session, Expire(s) PROVE SchemaWhole' /\ KeyOnDisk'
  BY <1>10 DEF Expire, Main, Disk, IndInv
<1>11. CASE Restore
  <2>1. /\ phase = "restore" /\ phase' = "auth" /\ UNCHANGED <<key, known, cut, backup>>
        /\ data'.keyFile = data.keyFile
        /\ data'.tables = data.tables \/ (backup # None /\ data'.tables = backup.tables)
    BY <1>0, <1>11 DEF Restore, GoTo, Data
  <2> QED
    BY <2>1 DEF IndInv
<1>12. CASE Snapshot
  <2>1. /\ phase \notin {"down", "schema"} /\ UNCHANGED <<data, phase, key, known, cut>>
        /\ backup'.tables = data.tables
    BY <1>12 DEF Snapshot
  <2> QED
    BY <2>1 DEF IndInv
<1> QED
  BY <1>1, <1>2, <1>3, <1>4, <1>5, <1>6, <1>7, <1>8, <1>9, <1>10, <1>11, <1>12
     DEF Next, StartStep

-----------------------------------------------------------------------------

LEMMA InitIndInv == Init => IndInv
<1> SUFFICES ASSUME Init PROVE IndInv
  OBVIOUS
<1>1. TypeOK
  BY InitTypeOK
<1>2. RequestsOK /\ Quiet
  BY IdleOK DEF Init, RequestsOK, Quiet
<1>3. EndedHasNoRow /\ LiveHasRow
  BY DEF Init, EndedHasNoRow, LiveHasRow
<1>4. SchemaWhole /\ KeyOnDisk
  BY DEF Init, SchemaWhole, KeyOnDisk, Up, NoData
<1> QED
  BY <1>1, <1>2, <1>3, <1>4 DEF IndInv

LEMMA AlwaysIndInv == Spec => []IndInv
<1>1. IndInv /\ [Next]_vars => IndInv'
  BY NextTypeOK, RequestsStayOK, TokensFollow, DiskStaysWhole DEF IndInv
<1> QED
  BY InitIndInv, <1>1, PTL DEF Spec

\* The state of main, the sessions and the requests have their types, and a server
\* that serves has a key.
THEOREM AccessTypeCorrect == Spec => []TypeOK
<1>1. IndInv => TypeOK
  BY DEF IndInv
<1> QED
  BY AlwaysIndInv, <1>1, PTL

\* No request is let in with a session that was old when it came, or whose row a logout
\* had removed and no restored meta.db brought back, over any overlap of requests and
\* any crash.  Of a logout that failed and was answered with 204 nothing is claimed.
THEOREM GoneAlwaysStaysOut == Spec => []GoneStaysOut
<1>1. IndInv => GoneStaysOut
  BY DEF IndInv, RequestsOK, RequestOK, GoneStaysOut
<1> QED
  BY AlwaysIndInv, <1>1, PTL

\* A session keeps its row until its own logout, its age, or a lost or restored meta.db,
\* and is refused for nothing else but a SELECT that failed.
THEOREM SessionsAlwaysLast == Spec => []SessionsLast
<1>1. IndInv => SessionsLast
  BY DEF IndInv, RequestsOK, RequestOK, LiveHasRow, SessionsLast
<1> QED
  BY AlwaysIndInv, <1>1, PTL

\* A server that serves has its key on disk, and every table unless a process died
\* between two statements of the schema.
THEOREM AlwaysServesWhole == Spec => []ServesWhole
<1>1. IndInv => ServesWhole
  BY DEF IndInv, SchemaWhole, KeyOnDisk, ServesWhole, Up
<1> QED
  BY AlwaysIndInv, <1>1, PTL

\* A key once served with opens the S3 API of every later process over the same data
\* directory, for requests in time that sign neither host nor query nor an escape.
THEOREM KeyAlwaysLasts == Spec => []KeyLasts
<1>1. ASSUME IndInv, Up, NEW q \in S3Request, q.key \in known, ~q.late,
             ~q.signsHost, q.query = "", q.path = "plain"
      PROVE  S3LetsIn(q)
  <2>1. q.key = key
    BY <1>1 DEF IndInv, KeyOnDisk
  <2>2. Canonical(q) = Rebuilt(q)
    BY <1>1 DEF Canonical, Rebuilt
  <2> QED
    BY <1>1, <2>1, <2>2 DEF S3LetsIn, VerifySignature
<1>2. IndInv => KeyLasts
  BY <1>1 DEF KeyLasts
<1> QED
  BY AlwaysIndInv, <1>2, PTL
=============================================================================
