------------------------- MODULE NoteServer_proofs -------------------------
(***************************************************************************)
(* Proofs about NoteServer: for any number of requests at once, any notes  *)
(* and versions and any limit, TypeOK whatever overlaps, fails or crashes, *)
(* and, when no disturbance is allowed, IndexMirrors and that the handlers *)
(* implement NoteStore.                                                    *)
(***************************************************************************)
EXTENDS NoteServer, TLAPS

-----------------------------------------------------------------------------
\* The initial states.

\* An idle handler knows nothing yet, and the files and the index are empty.
LEMMA InitIndInv == Init => IndInv
  BY ConstantsAssumption
  DEF Init, IndInv, TypeOK, Version, HandlerOK, IndexMirrors, Busy, At, HandlerKnows,
      IdleHandler

-----------------------------------------------------------------------------
\* The operators the handlers are built from.

\* A request that changes its note is compatible with another request for that
\* note only if the other reads.
LEMMA WritersExclude ==
  ASSUME NEW q \in Store!Request, NEW r \in Store!Request,
         q.path = r.path, Compatible(q, r), q.op \in {"put", "putObject", "delete"}
  PROVE  r.op \in Store!Reads
  BY DEF Compatible, Store!Request, Store!Writes, Store!Reads

\* Compatibility does not depend on the order of the two requests.
LEMMA CompatibleSymmetric ==
  ASSUME NEW q, NEW r, Compatible(q, r)
  PROVE  Compatible(r, q)
  BY DEF Compatible

\* A handler that is neither idle nor done has a request, of a kind that its step
\* tells.
LEMMA StepTellsOp ==
  ASSUME TypeOK, NEW c \in Client, handler[c].step # "idle"
  PROVE  LET h == handler[c]
         IN /\ h.request \in Store!Request
            /\ h.step \in StepsOf(h.request.op)
            /\ h.step \in {"count", "match"} => h.request.op = "put"
            /\ h.step \in {"store", "index"} => h.request.op \in Store!Writes
            /\ h.step \in {"remove", "unindex"} => h.request.op = "delete"
            /\ h.step = "open" => h.request.op \in Store!Reads
            /\ h.step = "head" => h.request.op = "get" /\ h.answer.version # None
  <1>1. /\ handler[c].request \in Store!Request
        /\ handler[c].step \in StepsOf(handler[c].request.op)
        /\ handler[c].step = "head" => handler[c].answer.version # None
    BY DEF TypeOK, HandlerOK, IdleHandler, Before, After
  <1>2. handler[c].request.op \in {"put", "putObject", "delete", "get", "getNote"}
    BY <1>1 DEF Store!Request, Store!Writes, Store!Reads
  <1> QED
    BY <1>1, <1>2 DEF StepsOf, Store!Writes, Store!Reads

\* An answer stays one when it gets its ETag.
LEMMA TaggedAnswer ==
  ASSUME NEW a \in Store!Answer, NEW v \in Version
  PROVE  Store!Tagged(a, v) \in Store!Answer
  BY DEF Store!Tagged, Store!Answer, Version

-----------------------------------------------------------------------------
\* How the handlers move.

\* Handler c becomes h and the others stay as they are.
Moves(c, h) ==
  /\ DOMAIN handler' = Client
  /\ handler'[c] = h
  /\ \A d \in Client \ {c} : handler'[d] = handler[d]

\* GoTo changes a step and nothing else of the handler.
LEMMA GoToMoves ==
  ASSUME TypeOK, NEW c \in Client, NEW s, GoTo(c, s), handler[c].step # "idle"
  PROVE  Moves(c, [step |-> s, request |-> handler[c].request,
                   answer |-> handler[c].answer])
  BY DEF TypeOK, HandlerOK, IdleHandler, GoTo, Moves

\* Reply changes a step and the answer.
LEMMA ReplyMoves ==
  ASSUME TypeOK, NEW c \in Client, NEW s, NEW a, Reply(c, s, a), handler[c].step # "idle"
  PROVE  Moves(c, [step |-> s, request |-> handler[c].request, answer |-> a])
  BY DEF TypeOK, HandlerOK, IdleHandler, Reply, Moves

\* A handler before its effect has no answer, one after it has one.
LEMMA StepTellsAnswer ==
  ASSUME TypeOK, NEW c \in Client
  PROVE  /\ handler[c].step \in Before => handler[c].answer = None
         /\ handler[c].step \in After => handler[c].answer \in Store!Answer
  BY DEF TypeOK, HandlerOK, IdleHandler, Before, After

-----------------------------------------------------------------------------
\* Type correctness, whatever overlaps, fails or crashes.

\* A step of one handler that leaves it in order keeps the types.
LEMMA HandlerTypes ==
  ASSUME TypeOK, NEW c \in Client, NEW h, Moves(c, h), HandlerOK(h),
         file' \in [Path -> Version], index' \in [Path -> Version]
  PROVE  TypeOK'
  BY DEF TypeOK, Moves, HandlerOK

\* A handler that has its answer.
LEMMA RepliedTypes ==
  ASSUME TypeOK, NEW c \in Client, handler[c].step # "idle", NEW a \in Store!Answer,
         NEW s \in After, s \in StepsOf(handler[c].request.op),
         s = "head" => a.version # None, Reply(c, s, a),
         file' \in [Path -> Version], index' \in [Path -> Version]
  PROVE  TypeOK'
  <1> PICK h : h = [step |-> s, request |-> handler[c].request, answer |-> a]
    OBVIOUS
  <1>1. Moves(c, h)
    BY ReplyMoves
  <1>2. HandlerOK(h)
    BY StepTellsOp DEF HandlerOK
  <1> QED BY <1>1, <1>2, HandlerTypes

\* A handler that goes on to another of its steps.
LEMMA GoneTypes ==
  ASSUME TypeOK, NEW c \in Client, NEW s, GoTo(c, s), s \in StepsOf(handler[c].request.op),
         \/ handler[c].step \in Before /\ s \in Before
         \/ handler[c].step \in After /\ s = "answer",
         file' \in [Path -> Version], index' \in [Path -> Version]
  PROVE  TypeOK'
  <1> PICK h : h = [step |-> s, request |-> handler[c].request, answer |-> handler[c].answer]
    OBVIOUS
  <1>1. handler[c].step # "idle"
    BY DEF Before, After
  <1>2. Moves(c, h)
    BY <1>1, GoToMoves
  <1>3. HandlerOK(h)
    BY <1>1, StepTellsOp, StepTellsAnswer DEF HandlerOK, Before, After
  <1> QED BY <1>2, <1>3, HandlerTypes

LEMMA WriteTypes ==
  ASSUME TypeOK, NEW c \in Client,
         CountNotes(c) \/ CheckIfMatch(c) \/ Put(c) \/ RemoveFile(c) \/ UpsertNote(c)
           \/ DeleteNote(c)
  PROVE  TypeOK'
  <1> DEFINE q == handler[c].request
  <1>1. handler[c].step \in {"count", "match", "store", "remove", "index", "unindex"}
    BY DEF CountNotes, CheckIfMatch, Put, RemoveFile, UpsertNote, DeleteNote, At
  <1>2. /\ q \in Store!Request
        /\ handler[c].step \in {"count", "match"} => q.op = "put"
        /\ handler[c].step \in {"store", "index"} => q.op \in Store!Writes
        /\ handler[c].step \in {"remove", "unindex"} => q.op = "delete"
    BY <1>1, StepTellsOp
  <1>3. q.path \in Path /\ q.content \in Version /\ index[q.path] \in Version
    BY <1>2 DEF Store!Request, Version, TypeOK
  <1>4. file' \in [Path -> Version] /\ index' \in [Path -> Version]
    BY <1>3 DEF CountNotes, CheckIfMatch, Put, RemoveFile, UpsertNote, DeleteNote, TypeOK, Version
  <1>5. ASSUME NEW a \in Store!Answer, NEW s \in {"answer", "index", "unindex"},
               s = "index" => q.op \in Store!Writes, s = "unindex" => q.op = "delete",
               Reply(c, s, a)
        PROVE  TypeOK'
    <2>1. s \in StepsOf(q.op) /\ s \in After
      BY <1>2, <1>5 DEF StepsOf, After, Store!Writes
    <2> QED BY <1>1, <1>4, <1>5, <2>1, RepliedTypes
  <1>6. ASSUME NEW s \in {"match", "store"}, GoTo(c, s), q.op = "put",
               handler[c].step \in {"count", "match"}
        PROVE  TypeOK'
    <2>1. s \in StepsOf(q.op)
      BY <1>6 DEF StepsOf
    <2> QED BY <1>4, <1>6, <2>1, GoneTypes DEF Before
  <1>7. CASE CountNotes(c)
    <2>1. Refused \in Store!Answer
      BY DEF Refused, Store!Reply, Store!Answer
    <2> QED BY <1>2, <1>5, <1>6, <1>7, <2>1 DEF CountNotes, At
  <1>8. CASE CheckIfMatch(c)
    <2>1. /\ Store!Reply("conflict", index[q.path], None) \in Store!Answer
          /\ Refused \in Store!Answer
      BY <1>3 DEF Refused, Store!Reply, Store!Answer, Version
    <2> QED BY <1>2, <1>5, <1>6, <1>8, <2>1 DEF CheckIfMatch, At
  <1>9. CASE Put(c) \/ RemoveFile(c)
    <2>1. /\ Refused \in Store!Answer
          /\ Store!Reply("ok", q.content, None) \in Store!Answer
          /\ Store!Reply("ok", None, None) \in Store!Answer
      BY <1>3 DEF Refused, Store!Reply, Store!Answer, Version
    <2> QED BY <1>2, <1>5, <1>9, <2>1 DEF Put, RemoveFile, At
  <1>10. CASE UpsertNote(c) \/ DeleteNote(c)
    <2>1. handler[c].step \in After /\ GoTo(c, "answer") /\ "answer" \in StepsOf(q.op)
      BY <1>10 DEF UpsertNote, DeleteNote, At, After, StepsOf
    <2> QED BY <1>4, <2>1, GoneTypes
  <1> QED BY <1>7, <1>8, <1>9, <1>10

LEMMA ReadTypes ==
  ASSUME TypeOK, NEW c \in Client, Receive(c) \/ OpenFile(c) \/ Head(c) \/ SendAnswer(c)
  PROVE  TypeOK'
  <1>1. file' \in [Path -> Version] /\ index' \in [Path -> Version]
    BY DEF Receive, OpenFile, Head, SendAnswer, TypeOK
  <1>2. CASE Receive(c)
    <2>1. PICK q \in Store!Request :
            handler' = [handler EXCEPT ![c] = [step |-> FirstStep(q.op), request |-> q,
                                               answer |-> None]]
      BY <1>2 DEF Receive
    <2> PICK h : h = [step |-> FirstStep(q.op), request |-> q, answer |-> None]
      OBVIOUS
    <2>2. Moves(c, h)
      BY <2>1 DEF TypeOK, Moves
    <2>3. /\ FirstStep(q.op) \in {"count", "store", "remove", "open"}
          /\ FirstStep(q.op) \in StepsOf(q.op)
      BY DEF FirstStep, StepsOf, Store!Request, Store!Writes, Store!Reads
    <2>4. HandlerOK(h)
      BY <2>3 DEF HandlerOK, Before
    <2> QED BY <1>1, <2>2, <2>4, HandlerTypes
  <1>3. CASE OpenFile(c)
    <2> DEFINE q == handler[c].request
    <2>1. handler[c].step = "open" /\ q \in Store!Request /\ q.op \in Store!Reads
      BY <1>3, StepTellsOp DEF OpenFile, At
    <2>2. file[q.path] \in Version
      BY <2>1 DEF Store!Request, TypeOK
    <2>3. /\ Refused \in Store!Answer
          /\ Store!Reply("notFound", None, None) \in Store!Answer
          /\ Store!Reply("ok", file[q.path], None) \in Store!Answer
          /\ Store!Reply("ok", file[q.path], None).version = file[q.path]
      BY <2>2 DEF Refused, Store!Reply, Store!Answer, Version
    <2>4. /\ "answer" \in StepsOf(q.op) /\ "answer" \in After /\ "head" \in After
          /\ q.op = "get" => "head" \in StepsOf(q.op)
      BY DEF StepsOf, After
    <2>5. \/ Reply(c, "answer", Store!Reply("notFound", None, None))
          \/ Reply(c, "answer", Refused)
          \/ /\ file[q.path] # None
             /\ \/ Reply(c, "answer", Store!Reply("ok", file[q.path], None))
                \/ q.op = "get" /\ Reply(c, "head", Store!Reply("ok", file[q.path], None))
      BY <1>3 DEF OpenFile
    <2> QED BY <1>1, <2>1, <2>3, <2>4, <2>5, RepliedTypes
  <1>4. CASE Head(c)
    <2> DEFINE q == handler[c].request
    <2>1. handler[c].step = "head" /\ q \in Store!Request /\ handler[c].answer \in Store!Answer
      BY <1>4, StepTellsOp, StepTellsAnswer DEF Head, At, After
    <2>2. file[q.path] \in Version
      BY <2>1 DEF Store!Request, TypeOK
    <2>3. PICK v \in Version : Reply(c, "answer", Store!Tagged(handler[c].answer, v))
      BY <1>4, <2>2 DEF Head, Version
    <2>4. Store!Tagged(handler[c].answer, v) \in Store!Answer
      BY <2>1, TaggedAnswer
    <2>5. "answer" \in StepsOf(q.op) /\ "answer" \in After
      BY DEF StepsOf, After
    <2> QED BY <1>1, <2>1, <2>3, <2>4, <2>5, RepliedTypes
  <1>5. CASE SendAnswer(c)
    <2>1. Moves(c, IdleHandler)
      BY <1>5 DEF SendAnswer, TypeOK, Moves
    <2>2. HandlerOK(IdleHandler)
      BY DEF HandlerOK
    <2> QED BY <1>1, <2>1, <2>2, HandlerTypes
  <1> QED BY <1>2, <1>3, <1>4, <1>5

\* Every reachable state has its type, under every disturbance: a handler is only in steps
\* of its request's kind, has an answer exactly when its effect is done, and a GET never
\* comes to Head without a file it has opened.
THEOREM ServerTypeCorrect == Spec => []TypeOK
  <1>1. Init => TypeOK
    BY InitIndInv DEF IndInv
  <1>2. TypeOK /\ [Next]_vars => TypeOK'
    <2> SUFFICES ASSUME TypeOK, [Next]_vars PROVE TypeOK'
      OBVIOUS
    <2>1. CASE UNCHANGED vars
      BY <2>1 DEF vars, TypeOK, HandlerOK
    <2>2. CASE Crash
      BY <2>2 DEF Crash, TypeOK, HandlerOK
    <2>3. ASSUME NEW c \in Client, Handle(c)
          PROVE  TypeOK'
      BY <2>3, WriteTypes, ReadTypes DEF Handle
    <2> QED BY <2>1, <2>2, <2>3 DEF Next
  <1> QED BY <1>1, <1>2, PTL DEF Spec

-----------------------------------------------------------------------------
\* The inductive invariant is kept.

\* While handler c changes the file of a note, no other handler relies on that file.
LEMMA OthersKeepKnowing ==
  ASSUME IndInv, NEW c \in Client, NEW d \in Client \ {c}, HandlerOK(handler[d]),
         \A p \in Path : file'[p] # file[p] =>
            handler[c].step \in {"store", "remove"} /\ p = handler[c].request.path,
         handler'[d] = handler[d]
  PROVE  HandlerKnows(handler[d])'
  <1> DEFINE q == handler[c].request
             r == handler[d].request
  <1>1. CASE handler[d].step \notin {"store", "index", "unindex"}
    BY <1>1 DEF IndInv, HandlerKnows
  <1>2. CASE handler[d].step \in {"store", "index", "unindex"}
    <2>1. r \in Store!Request /\ r.op \in {"put", "putObject", "delete"}
      BY <1>2, StepTellsOp DEF IndInv, Store!Writes
    <2>2. file'[r.path] = file[r.path]
      <3>1. SUFFICES ASSUME file'[r.path] # file[r.path]
                     PROVE  FALSE
        OBVIOUS
      <3>2. r.path \in Path
        BY <2>1 DEF Store!Request
      <3>3. handler[c].step \in {"store", "remove"} /\ r.path = q.path
        BY <3>1, <3>2
      <3>4. q \in Store!Request /\ q.op \in {"put", "putObject", "delete"}
        BY <3>3, StepTellsOp DEF IndInv, Store!Writes
      <3>5. Compatible(q, r)
        BY <1>2, <3>3 DEF IndInv, Busy
      <3>6. r.op \in Store!Reads
        BY <2>1, <3>3, <3>4, <3>5, WritersExclude
      <3> QED BY <2>1, <3>6 DEF Store!Reads
    <2> QED BY <2>2 DEF IndInv, HandlerKnows, Store!Matches
  <1> QED BY <1>1, <1>2

\* A step of one handler keeps the invariant if it leaves the handler in order, the
\* others' requests compatible with its own, and changes the file, then the row, of
\* no note but its own.
LEMMA HandlerStepKeeps ==
  ASSUME IndInv, NEW c \in Client, NEW h, Moves(c, h), HandlerOK(h), HandlerKnows(h)',
         file' \in [Path -> Version], index' \in [Path -> Version],
         h.step \notin {"idle", "answer"} =>
           \A d \in Client \ {c} : Busy(d) => Compatible(h.request, handler[d].request),
         \A p \in Path : file'[p] # file[p] =>
           /\ handler[c].step \in {"store", "remove"}
           /\ p = handler[c].request.path
           /\ h.step \in {"index", "unindex"}
           /\ h.request = handler[c].request,
         \A p \in Path : index'[p] # index[p] =>
           handler[c].step \in {"index", "unindex"} /\ p = handler[c].request.path,
         handler[c].step \in {"index", "unindex"} =>
           LET p == handler[c].request.path IN index'[p] = file'[p]
  PROVE  IndInv'
  <1>1. TypeOK'
    BY DEF IndInv, TypeOK, Moves, HandlerOK
  <1>2. IndexMirrors'
    <2>1. SUFFICES ASSUME NEW p \in Path, index'[p] # file'[p]
                   PROVE  \E d \in Client : /\ At(d, "index")' \/ At(d, "unindex")'
                                            /\ handler'[d].request.path = p
      BY DEF IndexMirrors
    <2>2. CASE file'[p] # file[p]
      BY <2>2 DEF Moves, At
    <2>3. CASE index'[p] # index[p]
      BY <2>1, <2>3
    <2>4. CASE file'[p] = file[p] /\ index'[p] = index[p]
      <3>1. PICK d \in Client : /\ At(d, "index") \/ At(d, "unindex")
                                /\ handler[d].request.path = p
        BY <2>1, <2>4 DEF IndInv, IndexMirrors
      <3>2. d # c
        BY <2>1, <3>1 DEF At
      <3> QED BY <3>1, <3>2 DEF Moves, At
    <2> QED BY <2>2, <2>3, <2>4
  <1>3. ASSUME NEW d \in Client, NEW e \in Client, d # e, Busy(d)', Busy(e)'
        PROVE  Compatible(handler[d].request, handler[e].request)'
    <2>1. CASE d # c /\ e # c
      BY <1>3, <2>1 DEF IndInv, Moves, Busy
    <2>2. CASE d = c
      BY <1>3, <2>2 DEF Moves, Busy
    <2>3. CASE e = c
      <3>1. Compatible(h.request, handler[d].request)
        BY <1>3, <2>3 DEF Moves, Busy
      <3>2. Compatible(handler[d].request, h.request)
        BY <3>1, CompatibleSymmetric
      <3> QED BY <1>3, <2>3, <3>2 DEF Moves
    <2> QED BY <2>1, <2>2, <2>3
  <1>4. ASSUME NEW d \in Client
        PROVE  HandlerKnows(handler[d])'
    <2>1. CASE d = c
      BY <2>1 DEF Moves
    <2>2. CASE d # c
      <3>1. handler'[d] = handler[d] /\ HandlerOK(handler[d])
        BY <2>2 DEF Moves, IndInv, TypeOK
      <3> QED BY <2>2, <3>1, OthersKeepKnowing
    <2> QED BY <2>1, <2>2
  <1> QED BY <1>1, <1>2, <1>3, <1>4 DEF IndInv

\* Steps that change neither files nor rows.
LEMMA QuietStepKeeps ==
  ASSUME IndInv, NEW c \in Client, NEW h, Moves(c, h), HandlerOK(h), HandlerKnows(h),
         UNCHANGED <<file, index>>,
         handler[c].step \notin {"index", "unindex"},
         h.step \notin {"idle", "answer"} => Busy(c) /\ h.request = handler[c].request
  PROVE  IndInv'
  <1>1. file' \in [Path -> Version] /\ index' \in [Path -> Version]
    BY DEF IndInv, TypeOK
  <1>2. HandlerKnows(h)'
    BY DEF HandlerKnows, Store!Matches
  <1>3. h.step \notin {"idle", "answer"} =>
          \A d \in Client \ {c} : Busy(d) => Compatible(h.request, handler[d].request)
    BY DEF IndInv
  <1> QED BY <1>1, <1>2, <1>3, HandlerStepKeeps

\* A request that arrives is compatible with those in progress.
LEMMA ReceiveKeeps ==
  ASSUME IndInv, Disturbances = {}, NEW c \in Client, Receive(c)
  PROVE  IndInv'
  <1>1. PICK q \in Store!Request :
          /\ q.op # "put" => q.ifMatch = None
          /\ \A d \in Client : Busy(d) => Compatible(q, handler[d].request)
          /\ handler' = [handler EXCEPT ![c] = [step |-> FirstStep(q.op), request |-> q,
                                                answer |-> None]]
    BY DEF Receive, Allowed
  <1> DEFINE h == [step |-> FirstStep(q.op), request |-> q, answer |-> None]
  <1>2. Moves(c, h)
    BY <1>1 DEF IndInv, TypeOK, Moves
  <1>3. /\ h.step \in {"count", "store", "remove", "open"}
        /\ h.step \in StepsOf(q.op)
        /\ h.step = "store" => q.op # "put"
    BY DEF FirstStep, StepsOf, Store!Request, Store!Writes, Store!Reads
  <1>4. HandlerOK(h)
    BY <1>3 DEF HandlerOK, Before
  <1>5. HandlerKnows(h)'
    BY <1>1, <1>3 DEF HandlerKnows, Store!Matches
  <1>6. file' = file /\ index' = index /\ handler[c].step = "idle"
    BY DEF Receive, At
  <1> HIDE DEF h
  <1>7. h.request = q
    BY DEF h
  <1> QED
    BY <1>1, <1>2, <1>4, <1>5, <1>6, <1>7, HandlerStepKeeps DEF IndInv, TypeOK

\* A PUT that reads the row of its note reads the version in the file.
LEMMA MatchReadsFile ==
  ASSUME IndInv, NEW c \in Client, At(c, "match")
  PROVE  index[handler[c].request.path] = file[handler[c].request.path]
  <1> DEFINE q == handler[c].request
  <1>1. q \in Store!Request /\ q.op = "put"
    BY StepTellsOp DEF IndInv, At
  <1>2. SUFFICES ASSUME NEW d \in Client, At(d, "index") \/ At(d, "unindex"),
                        handler[d].request.path = q.path
                 PROVE  FALSE
    BY <1>1 DEF IndInv, IndexMirrors, Store!Request
  <1>3. d # c /\ Busy(c) /\ Busy(d)
    BY <1>2 DEF At, Busy
  <1>4. /\ handler[d].request \in Store!Request
        /\ handler[d].request.op \in {"put", "putObject", "delete"}
    BY <1>2, StepTellsOp DEF IndInv, At, Store!Writes
  <1>5. Compatible(q, handler[d].request)
    BY <1>3 DEF IndInv
  <1>6. handler[d].request.op \in Store!Reads
    BY <1>1, <1>2, <1>4, <1>5, WritersExclude
  <1> QED BY <1>4, <1>6 DEF Store!Reads

\* CountNotes and CheckIfMatch: a PUT that goes on to the file knows what it replaces.
LEMMA ChecksKeep ==
  ASSUME IndInv, NEW c \in Client, CountNotes(c) \/ CheckIfMatch(c)
  PROVE  IndInv'
  <1> DEFINE q == handler[c].request
             Next1(s) == [step |-> s, request |-> q, answer |-> handler[c].answer]
             Replied(a) == [step |-> "answer", request |-> q, answer |-> a]
  <1>1. /\ handler[c].step \in {"count", "match"}
        /\ UNCHANGED <<file, index>>
    BY DEF CountNotes, CheckIfMatch, At
  <1>2. /\ q \in Store!Request /\ q.op = "put"
        /\ handler[c].answer = None
    BY <1>1, StepTellsOp, StepTellsAnswer DEF IndInv, Before
  <1>3. ASSUME NEW a \in Store!Answer, Reply(c, "answer", a)
        PROVE  IndInv'
    <2>1. Moves(c, Replied(a))
      BY <1>1, <1>3, ReplyMoves DEF IndInv
    <2>2. HandlerOK(Replied(a)) /\ HandlerKnows(Replied(a))
      BY <1>2 DEF HandlerOK, HandlerKnows, StepsOf, After
    <2> QED BY <1>1, <2>1, <2>2, QuietStepKeeps
  <1>4. ASSUME NEW s \in {"match", "store"}, GoTo(c, s), HandlerKnows(Next1(s))
        PROVE  IndInv'
    <2>1. Moves(c, Next1(s))
      BY <1>1, <1>4, GoToMoves DEF IndInv
    <2>2. HandlerOK(Next1(s))
      BY <1>2 DEF HandlerOK, StepsOf, Before
    <2> QED BY <1>1, <1>4, <2>1, <2>2, QuietStepKeeps DEF Busy
  <1>5. CASE CountNotes(c)
    <2>1. CASE Reply(c, "answer", Refused)
      BY <2>1, <1>3 DEF Refused, Store!Reply, Store!Answer
    <2>2. CASE GoTo(c, IF q.ifMatch = None THEN "store" ELSE "match")
      BY <2>2, <1>4 DEF HandlerKnows, Store!Matches
    <2> QED BY <1>5, <2>1, <2>2 DEF CountNotes
  <1>6. CASE CheckIfMatch(c)
    <2>1. index[q.path] \in Version
      BY <1>2 DEF IndInv, TypeOK, Store!Request
    <2>2. CASE Reply(c, "answer", Store!Reply("conflict", index[q.path], None))
      BY <2>1, <2>2, <1>3 DEF Store!Reply, Store!Answer, Version
    <2>3. CASE GoTo(c, "store") /\ index[q.path] \in {None, q.ifMatch}
      <3>1. file[q.path] = index[q.path]
        BY <1>6, MatchReadsFile DEF CheckIfMatch
      <3> QED BY <2>3, <3>1, <1>4 DEF HandlerKnows, Store!Matches
    <2>4. CASE Reply(c, "answer", Refused)
      BY <2>4, <1>3 DEF Refused, Store!Reply, Store!Answer
    <2> QED BY <1>6, <2>2, <2>3, <2>4 DEF CheckIfMatch
  <1> QED BY <1>5, <1>6

\* Put and RemoveFile: only the handler's own file changes, and its row is next.
LEMMA FileStepsKeep ==
  ASSUME IndInv, NEW c \in Client, Put(c) \/ RemoveFile(c)
  PROVE  IndInv'
  <1> DEFINE q == handler[c].request
             Replied(s, a) == [step |-> s, request |-> q, answer |-> a]
  <1>1. /\ handler[c].step \in {"store", "remove"}
        /\ index' = index
    BY DEF Put, RemoveFile, At
  <1>2. /\ q \in Store!Request
        /\ handler[c].step = "store" => q.op \in Store!Writes
        /\ handler[c].step = "remove" => q.op = "delete"
    BY <1>1, StepTellsOp DEF IndInv
  <1>3. CASE Reply(c, "answer", Refused) /\ UNCHANGED file
    <2>1. Moves(c, Replied("answer", Refused))
      BY <1>1, <1>3, ReplyMoves DEF IndInv
    <2>2. HandlerOK(Replied("answer", Refused)) /\ HandlerKnows(Replied("answer", Refused))
      BY <1>2 DEF HandlerOK, HandlerKnows, StepsOf, After, Refused, Store!Reply, Store!Answer
    <2> QED BY <1>1, <1>3, <2>1, <2>2, QuietStepKeeps
  <1>4. ASSUME NEW s \in {"index", "unindex"}, NEW v \in Version,
               s = "index" => q.op \in Store!Writes /\ v = q.content,
               s = "unindex" => q.op = "delete" /\ v = None,
               Reply(c, s, Store!Reply("ok", v, None)),
               file' = [file EXCEPT ![q.path] = v]
        PROVE  IndInv'
    <2> PICK h : h = Replied(s, Store!Reply("ok", v, None))
      OBVIOUS
    <2>1. Moves(c, h)
      BY <1>1, <1>4, ReplyMoves DEF IndInv
    <2>2. Store!Reply("ok", v, None) \in Store!Answer
      BY DEF Store!Reply, Store!Answer, Version
    <2>3. s \in StepsOf(q.op)
      BY <1>4 DEF StepsOf, Store!Writes
    <2>4. HandlerOK(h)
      BY <1>2, <2>2, <2>3 DEF HandlerOK, After
    <2>5. q.path \in Path
      BY <1>2 DEF Store!Request
    <2>6. HandlerKnows(h)'
      BY <1>4, <2>5 DEF HandlerKnows, IndInv, TypeOK
    <2>7. /\ file' \in [Path -> Version]
          /\ \A p \in Path : file'[p] # file[p] => p = q.path
      BY <1>4, <2>5 DEF IndInv, TypeOK
    <2>8. \A d \in Client \ {c} : Busy(d) => Compatible(q, handler[d].request)
      BY <1>1 DEF IndInv, Busy
    <2>9. h.step = s /\ h.request = q
      OBVIOUS
    <2> QED
      BY <1>1, <1>4, <2>1, <2>4, <2>6, <2>7, <2>8, <2>9, HandlerStepKeeps DEF IndInv, TypeOK
  <1>5. CASE Put(c)
    <2>1. q.content \in Version /\ q.op \in Store!Writes
      BY <1>2, <1>5 DEF Put, At, Store!Request, Version
    <2> QED BY <1>3, <1>4, <1>5, <2>1 DEF Put
  <1>6. CASE RemoveFile(c)
    <2>1. None \in Version /\ q.op = "delete"
      BY <1>2, <1>6 DEF RemoveFile, At, Version
    <2> QED BY <1>3, <1>4, <1>6, <2>1 DEF RemoveFile
  <1> QED BY <1>5, <1>6

\* UpsertNote and DeleteNote: the row of the handler's note becomes that of its file.
LEMMA RowStepsKeep ==
  ASSUME IndInv, Disturbances = {}, NEW c \in Client, UpsertNote(c) \/ DeleteNote(c)
  PROVE  IndInv'
  <1> DEFINE q == handler[c].request
  <1> PICK h : h = [step |-> "answer", request |-> q, answer |-> handler[c].answer]
    OBVIOUS
  <1>1. /\ handler[c].step \in {"index", "unindex"}
        /\ GoTo(c, "answer")
        /\ file' = file
    BY DEF UpsertNote, DeleteNote, At
  <1>2. q \in Store!Request /\ handler[c].answer \in Store!Answer
    BY <1>1, StepTellsOp, StepTellsAnswer DEF IndInv, After
  <1>3. Moves(c, h)
    BY <1>1, GoToMoves DEF IndInv
  <1>4. HandlerOK(h) /\ HandlerKnows(h)'
    BY <1>2 DEF HandlerOK, HandlerKnows, StepsOf, After
  <1>5. PICK v : v = file[q.path] /\ index' = [index EXCEPT ![q.path] = v]
    <2>1. CASE UpsertNote(c)
      BY <2>1 DEF UpsertNote, Allowed, At, IndInv, HandlerKnows
    <2>2. CASE DeleteNote(c)
      BY <2>2 DEF DeleteNote, Allowed, At, IndInv, HandlerKnows
    <2> QED BY <2>1, <2>2
  <1>6. q.path \in Path
    BY <1>2 DEF Store!Request
  <1>7. /\ index' \in [Path -> Version]
        /\ index'[q.path] = file'[q.path]
        /\ \A p \in Path : index'[p] # index[p] => p = q.path
    BY <1>1, <1>5, <1>6 DEF IndInv, TypeOK
  <1>8. file' \in [Path -> Version] /\ h.step = "answer"
    BY <1>1 DEF IndInv, TypeOK
  <1> QED BY <1>1, <1>3, <1>4, <1>7, <1>8, HandlerStepKeeps

\* OpenFile, Head and SendAnswer only look at the file.
LEMMA ReadStepsKeep ==
  ASSUME IndInv, NEW c \in Client, OpenFile(c) \/ Head(c) \/ SendAnswer(c)
  PROVE  IndInv'
  <1> DEFINE q == handler[c].request
             Replied(s, a) == [step |-> s, request |-> q, answer |-> a]
  <1>1. handler[c].step \in {"open", "head", "answer"} /\ UNCHANGED <<file, index>>
    BY DEF OpenFile, Head, SendAnswer, At
  <1>2. /\ q \in Store!Request
        /\ handler[c].step = "open" => q.op \in Store!Reads
        /\ handler[c].step = "head" => handler[c].answer \in Store!Answer
    BY <1>1, StepTellsOp, StepTellsAnswer DEF IndInv, After
  <1>3. ASSUME NEW a \in Store!Answer, Reply(c, "answer", a)
        PROVE  IndInv'
    <2>1. Moves(c, Replied("answer", a))
      BY <1>1, <1>3, ReplyMoves DEF IndInv
    <2>2. HandlerOK(Replied("answer", a)) /\ HandlerKnows(Replied("answer", a))
      BY <1>2 DEF HandlerOK, HandlerKnows, StepsOf, After
    <2> QED BY <1>1, <2>1, <2>2, QuietStepKeeps
  <1>4. CASE OpenFile(c)
    <2>1. q.path \in Path /\ file[q.path] \in Version /\ q.op \in Store!Reads
      BY <1>2, <1>4 DEF OpenFile, At, Store!Request, IndInv, TypeOK
    <2>2. CASE Reply(c, "answer", Store!Reply("notFound", None, None))
      BY <2>2, <1>3 DEF Store!Reply, Store!Answer
    <2>3. CASE Reply(c, "answer", Refused)
      BY <2>3, <1>3 DEF Refused, Store!Reply, Store!Answer
    <2>4. CASE /\ file[q.path] # None
               /\ Reply(c, IF q.op = "get" THEN "head" ELSE "answer",
                        Store!Reply("ok", file[q.path], None))
      <3>1. Store!Reply("ok", file[q.path], None) \in Store!Answer
        BY <2>1 DEF Store!Reply, Store!Answer, Version
      <3>2. CASE q.op # "get"
        BY <2>4, <3>1, <3>2, <1>3
      <3>3. CASE q.op = "get"
        <4> DEFINE h == Replied("head", Store!Reply("ok", file[q.path], None))
        <4>1. Moves(c, h)
          BY <1>1, <2>4, <3>3, ReplyMoves DEF IndInv
        <4>2. HandlerOK(h)
          BY <1>2, <2>4, <3>1, <3>3 DEF HandlerOK, StepsOf, After, Store!Reply
        <4>3. HandlerKnows(h)
          BY DEF HandlerKnows, Store!Reply
        <4>4. Busy(c) /\ h.request = q
          BY <1>4 DEF OpenFile, At, Busy
        <4> QED BY <1>1, <4>1, <4>2, <4>3, <4>4, QuietStepKeeps
      <3> QED BY <3>2, <3>3
    <2> QED BY <1>4, <2>2, <2>3, <2>4 DEF OpenFile
  <1>5. CASE Head(c)
    <2>1. file[q.path] \in Version
      BY <1>2 DEF Store!Request, IndInv, TypeOK
    <2>2. PICK v \in Version : Reply(c, "answer", Store!Tagged(handler[c].answer, v))
      BY <1>5, <2>1 DEF Head, Version
    <2>3. Store!Tagged(handler[c].answer, v) \in Store!Answer
      BY <1>2, <1>5, TaggedAnswer DEF Head, At
    <2> QED BY <2>2, <2>3, <1>3
  <1>6. CASE SendAnswer(c)
    <2>1. Moves(c, IdleHandler)
      BY <1>6 DEF SendAnswer, IndInv, TypeOK, Moves
    <2>2. HandlerOK(IdleHandler) /\ HandlerKnows(IdleHandler) /\ IdleHandler.step = "idle"
      BY DEF HandlerOK, HandlerKnows, IdleHandler
    <2> QED BY <1>1, <2>1, <2>2, QuietStepKeeps
  <1> QED BY <1>4, <1>5, <1>6

\* A crash that leaves no row behind its file.
LEMMA CrashKeeps ==
  ASSUME IndInv, Disturbances = {}, Crash
  PROVE  IndInv'
  <1>1. \A p \in Path : index[p] = file[p]
    BY DEF IndInv, IndexMirrors, Crash, Allowed, At
  <1> QED
    BY <1>1 DEF IndInv, TypeOK, IndexMirrors, Crash, HandlerOK, HandlerKnows, IdleHandler,
                Busy, At

-----------------------------------------------------------------------------
\* The theorems.

\* Every step of every handler keeps the invariant.
LEMMA NextKeepsIndInv ==
  ASSUME IndInv, Disturbances = {}, [Next]_vars
  PROVE  IndInv'
  <1>1. CASE UNCHANGED vars
    BY <1>1 DEF vars, IndInv, TypeOK, IndexMirrors, HandlerOK, HandlerKnows, Busy, At,
                Store!Matches
  <1>2. CASE Crash
    BY <1>2, CrashKeeps
  <1>3. ASSUME NEW c \in Client, Handle(c)
        PROVE  IndInv'
    BY <1>3, ReceiveKeeps, ChecksKeep, FileStepsKeep, RowStepsKeep, ReadStepsKeep DEF Handle
  <1> QED BY <1>1, <1>2, <1>3 DEF Next

\* The inductive invariant holds always, without disturbances.
THEOREM AlwaysIndInv ==
  ASSUME Disturbances = {}
  PROVE  Spec => []IndInv
  <1>1. Init => IndInv
    BY InitIndInv
  <1>2. IndInv /\ [Next]_vars => IndInv'
    BY NextKeepsIndInv
  <1> QED BY <1>1, <1>2, PTL DEF Spec

\* The index mirrors the files whenever no handler is between the two, for any
\* number of requests at once, if the writes of one note come one at a time.
THEOREM IndexAlwaysMirrors ==
  ASSUME Disturbances = {}
  PROVE  Spec => []IndexMirrors
  <1>1. IndInv => IndexMirrors
    BY DEF IndInv
  <1> QED BY <1>1, AlwaysIndInv, PTL

-----------------------------------------------------------------------------
\* The handlers implement NoteStore.

SeenCalls == [c \in Client |-> Seen(handler[c])]

\* What is seen of one handler changes, and of the others nothing.
LEMMA SeenMoves ==
  ASSUME NEW c \in Client, NEW h, Moves(c, h)
  PROVE  SeenCalls' = [SeenCalls EXCEPT ![c] = Seen(h)]
  BY DEF SeenCalls, Moves, Seen

\* A step after which the same is seen of the handler, and the same file, is a
\* stuttering step of the store.
LEMMA Stutters ==
  ASSUME NEW c \in Client, NEW h, Moves(c, h), Seen(h) = Seen(handler[c]), file' = file
  PROVE  UNCHANGED Store!vars
  <1>1. SeenCalls' = SeenCalls
    BY SeenMoves DEF SeenCalls
  <1> QED BY <1>1 DEF Store!vars, SeenCalls

\* A handler that gives its answer makes the store's call answered.
LEMMA AnswerSeen ==
  ASSUME NEW c \in Client, handler[c].step \in Before, NEW s \in {"index", "unindex", "answer"},
         NEW a, Moves(c, [step |-> s, request |-> handler[c].request, answer |-> a])
  PROVE  Store!Answered(c, a)
  <1> USE DEF Store!Answered, Store!Becomes
  <1> PICK h : h = [step |-> s, request |-> handler[c].request, answer |-> a]
    OBVIOUS
  <1>1. Seen(h) = [state |-> "answered", request |-> SeenCalls[c].request, answer |-> a]
    BY DEF Seen, SeenCalls, Before, After
  <1>2. SeenCalls' = [SeenCalls EXCEPT ![c] = [state |-> "answered",
                        request |-> SeenCalls[c].request, answer |-> a]]
    BY <1>1, SeenMoves
  <1>3. SeenCalls[c].state = "called"
    BY DEF SeenCalls, Seen, Before, After
  <1> QED BY <1>2, <1>3 DEF SeenCalls, Store!Answered

\* A request that is refused.
LEMMA RefusalSeen ==
  ASSUME IndInv, NEW c \in Client, handler[c].step \in Before, Reply(c, "answer", Refused),
         UNCHANGED file
  PROVE  Store!Refuse(c)
  <1>1. Moves(c, [step |-> "answer", request |-> handler[c].request, answer |-> Refused])
    BY ReplyMoves DEF IndInv, Before
  <1>2. Store!Answered(c, Refused)
    BY <1>1, AnswerSeen
  <1> QED BY <1>2 DEF Store!Refuse, Refused

\* The arrival of a request is the call.
LEMMA ReceiveBegins ==
  ASSUME IndInv, NEW c \in Client, Receive(c)
  PROVE  Store!Begin(c)
  <1>1. PICK q \in Store!Request :
          handler' = [handler EXCEPT ![c] = [step |-> FirstStep(q.op), request |-> q,
                                            answer |-> None]]
    BY DEF Receive
  <1>2. FirstStep(q.op) \in Before
    BY DEF FirstStep, Before, Store!Request, Store!Writes, Store!Reads
  <1> PICK h : h = [step |-> FirstStep(q.op), request |-> q, answer |-> None]
    OBVIOUS
  <1>3. SeenCalls' = [SeenCalls EXCEPT ![c] = Seen(h)]
    BY <1>1, SeenMoves DEF IndInv, TypeOK, Moves
  <1>4. Seen(h) = [state |-> "called", request |-> q, answer |-> None]
    BY <1>2 DEF Seen, Before, After
  <1>5. SeenCalls[c] = Store!Idle
    <2>1. handler[c] = IdleHandler
      BY DEF Receive, At, IndInv, TypeOK, HandlerOK, Before, After
    <2> QED BY <2>1 DEF SeenCalls, Seen, Before, After, IdleHandler, Store!Idle
  <1>6. UNCHANGED file
    BY DEF Receive
  <1> QED BY <1>3, <1>4, <1>5, <1>6 DEF SeenCalls, Store!Begin

\* The checks before a write refuse it, answer that it does not match, or are not
\* seen.
LEMMA ChecksImplement ==
  ASSUME IndInv, NEW c \in Client, CountNotes(c) \/ CheckIfMatch(c)
  PROVE  Store!Refuse(c) \/ Store!Mismatch(c) \/ UNCHANGED Store!vars
  <1> DEFINE q == handler[c].request
  <1>1. handler[c].step \in {"count", "match"} /\ UNCHANGED file
    BY DEF CountNotes, CheckIfMatch, At
  <1>2. q \in Store!Request /\ q.op = "put" /\ handler[c].answer = None
    BY <1>1, StepTellsOp, StepTellsAnswer DEF IndInv, Before
  <1>3. ASSUME NEW s \in {"match", "store"}, GoTo(c, s)
        PROVE  UNCHANGED Store!vars
    <2> PICK h : h = [step |-> s, request |-> q, answer |-> handler[c].answer]
      OBVIOUS
    <2>1. Moves(c, h)
      BY <1>1, <1>3, GoToMoves DEF IndInv
    <2>2. Seen(h) = Seen(handler[c])
      BY <1>1 DEF Seen, Before, After
    <2> QED BY <1>1, <2>1, <2>2, Stutters
  <1>4. CASE CountNotes(c)
    <2>1. CASE Reply(c, "answer", Refused)
      BY <1>1, <2>1, RefusalSeen DEF Before, After
    <2>2. CASE GoTo(c, IF q.ifMatch = None THEN "store" ELSE "match")
      BY <2>2, <1>3
    <2> QED BY <1>4, <2>1, <2>2 DEF CountNotes
  <1>5. CASE CheckIfMatch(c)
    <2>1. CASE GoTo(c, "store")
      BY <2>1, <1>3
    <2>2. CASE /\ index[q.path] \notin {None, q.ifMatch}
               /\ Reply(c, "answer", Store!Reply("conflict", index[q.path], None))
      <3>1. file[q.path] = index[q.path] /\ q.ifMatch # None
        BY <1>5, MatchReadsFile DEF CheckIfMatch, IndInv, HandlerKnows, At
      <3>2. Store!Answered(c, Store!Reply("conflict", file[q.path], None))
        BY <1>1, <2>2, <3>1, ReplyMoves, AnswerSeen DEF IndInv, Before, After
      <3>3. SeenCalls[c].request = q
        BY DEF SeenCalls, Seen
      <3>4. ~Store!Matches(q, file[q.path])
        BY <2>2, <3>1 DEF Store!Matches
      <3>5. q.op \in Store!Writes
        BY <1>2 DEF Store!Writes
      <3> QED BY <1>1, <3>2, <3>3, <3>4, <3>5 DEF SeenCalls, Store!Mismatch
    <2>3. CASE Reply(c, "answer", Refused)
      BY <1>1, <2>3, RefusalSeen DEF Before, After
    <2> QED BY <1>5, <2>1, <2>2, <2>3 DEF CheckIfMatch
  <1> QED BY <1>4, <1>5

\* The rename is the write, the removal of the file the deletion.
LEMMA FileStepsImplement ==
  ASSUME IndInv, NEW c \in Client, Put(c) \/ RemoveFile(c)
  PROVE  Store!Write(c) \/ Store!Remove(c) \/ Store!Refuse(c)
  <1> DEFINE q == handler[c].request
  <1>1. handler[c].step \in {"store", "remove"}
    BY DEF Put, RemoveFile, At
  <1>2. /\ handler[c].step = "store" => q.op \in Store!Writes
        /\ handler[c].step = "remove" => q.op = "delete"
    BY <1>1, StepTellsOp DEF IndInv
  <1>3. SeenCalls[c].request = q
    BY DEF SeenCalls, Seen
  <1>4. CASE Reply(c, "answer", Refused) /\ UNCHANGED file
    BY <1>1, <1>4, RefusalSeen DEF Before, After
  <1>5. CASE /\ At(c, "store")
             /\ file' = [file EXCEPT ![q.path] = q.content]
             /\ Reply(c, "index", Store!Reply("ok", q.content, None))
    <2>1. Store!Answered(c, Store!Reply("ok", q.content, None))
      BY <1>1, <1>5, ReplyMoves, AnswerSeen DEF IndInv, Before, After
    <2>2. Store!Matches(q, file[q.path])
      BY <1>5 DEF IndInv, HandlerKnows, At
    <2> QED BY <1>2, <1>3, <1>5, <2>1, <2>2 DEF At, SeenCalls, Store!Write
  <1>6. CASE /\ At(c, "remove")
             /\ file' = [file EXCEPT ![q.path] = None]
             /\ Reply(c, "unindex", Store!Reply("ok", None, None))
    <2>1. Store!Answered(c, Store!Reply("ok", None, None))
      BY <1>1, <1>6, ReplyMoves, AnswerSeen DEF IndInv, Before, After
    <2> QED BY <1>2, <1>3, <1>6, <2>1 DEF At, SeenCalls, Store!Remove
  <1> QED BY <1>4, <1>5, <1>6 DEF Put, RemoveFile

\* The note is read when its file is opened, and a GET of the S3 API is then without
\* its ETag.
LEMMA OpenFileImplements ==
  ASSUME IndInv, NEW c \in Client, OpenFile(c)
  PROVE  Store!Read(c) \/ Store!Refuse(c)
  <1> DEFINE q == handler[c].request
             v == file[q.path]
  <1>1. handler[c].step = "open" /\ handler[c].step \in Before /\ UNCHANGED file
    BY DEF OpenFile, At, Before
  <1>2. q.op \in Store!Reads
    BY <1>1, StepTellsOp DEF IndInv
  <1>3. SeenCalls[c].request = q
    BY DEF SeenCalls, Seen
  <1>0. SeenCalls[c].state = "called"
    BY <1>1 DEF SeenCalls, Seen, Before, After
  <1>4. CASE Reply(c, "answer", Refused)
    BY <1>1, <1>4, RefusalSeen
  <1>5. CASE v = None /\ Reply(c, "answer", Store!Reply("notFound", None, None))
    <2>1. Store!Answered(c, Store!Reply("notFound", None, None))
      BY <1>1, <1>5, ReplyMoves, AnswerSeen DEF IndInv
    <2> QED BY <1>0, <1>1, <1>2, <1>3, <1>5, <2>1 DEF SeenCalls, Store!Read
  <1>6. CASE /\ v # None
             /\ Reply(c, IF q.op = "get" THEN "head" ELSE "answer", Store!Reply("ok", v, None))
    <2>1. CASE q.op # "get"
      <3>1. q.op = "getNote"
        BY <1>2, <2>1 DEF Store!Reads
      <3>2. Store!Answered(c, Store!Reply("ok", v, None))
        BY <1>1, <1>6, <2>1, ReplyMoves, AnswerSeen DEF IndInv
      <3> QED BY <1>0, <1>1, <1>2, <1>3, <1>6, <3>1, <3>2 DEF SeenCalls, Store!Read
    <2>2. CASE q.op = "get"
      <3> PICK h : h = [step |-> "head", request |-> q, answer |-> Store!Reply("ok", v, None)]
        OBVIOUS
      <3>1. SeenCalls' = [SeenCalls EXCEPT ![c] = Seen(h)]
        BY <1>1, <1>6, <2>2, ReplyMoves, SeenMoves DEF IndInv
      <3>2. Seen(h) = [state |-> "tagging", request |-> SeenCalls[c].request,
                       answer |-> Store!Reply("ok", v, None)]
        BY <1>3 DEF Seen, Before, After
      <3>3. Store!Becomes(c, "tagging", Store!Reply("ok", v, None))
        BY <3>1, <3>2 DEF SeenCalls, Store!Becomes
      <3> QED BY <1>0, <1>1, <1>2, <1>3, <1>6, <2>2, <3>3 DEF SeenCalls, Store!Read
    <2> QED BY <2>1, <2>2
  <1> QED BY <1>4, <1>5, <1>6 DEF OpenFile

\* The second look at the file is the store's.
LEMMA HeadImplements ==
  ASSUME IndInv, NEW c \in Client, Head(c)
  PROVE  Store!Tag(c)
  <1> DEFINE q == handler[c].request
             a == handler[c].answer
  <1>1. handler[c].step = "head" /\ UNCHANGED file
    BY DEF Head, At
  <1>2. PICK v \in {None, file[q.path]} : Reply(c, "answer", Store!Tagged(a, v))
    BY DEF Head
  <1> PICK b : b = Store!Tagged(a, v)
    OBVIOUS
  <1> PICK h : h = [step |-> "answer", request |-> q, answer |-> b]
    OBVIOUS
  <1>3. Moves(c, h)
    BY <1>1, <1>2, ReplyMoves DEF IndInv
  <1>4. SeenCalls' = [SeenCalls EXCEPT ![c] = Seen(h)]
    BY <1>3, SeenMoves
  <1>5. Seen(h) = [state |-> "answered", request |-> q, answer |-> b]
    BY DEF Seen, Before, After
  <1>6. /\ SeenCalls[c].state = "tagging"
        /\ SeenCalls[c].request = q
        /\ SeenCalls[c].answer = a
    BY <1>1 DEF SeenCalls, Seen, Before, After
  <1>7. Store!Becomes(c, "answered", Store!Tagged(a, v))
    BY <1>4, <1>5, <1>6 DEF SeenCalls, Store!Becomes
  <1> QED BY <1>1, <1>2, <1>6, <1>7 DEF SeenCalls, Store!Tag

\* The row is not seen.
LEMMA RowStepsStutter ==
  ASSUME IndInv, NEW c \in Client, UpsertNote(c) \/ DeleteNote(c)
  PROVE  UNCHANGED Store!vars
  <1> PICK h : h = [step |-> "answer", request |-> handler[c].request,
                    answer |-> handler[c].answer]
    OBVIOUS
  <1>1. handler[c].step \in {"index", "unindex"} /\ GoTo(c, "answer") /\ file' = file
    BY DEF UpsertNote, DeleteNote, At
  <1>2. Moves(c, h)
    BY <1>1, GoToMoves DEF IndInv
  <1>3. Seen(h) = Seen(handler[c])
    BY <1>1 DEF Seen, Before, After
  <1> QED BY <1>1, <1>2, <1>3, Stutters

\* The answer that is sent ends the call.
LEMMA SendAnswerEnds ==
  ASSUME IndInv, NEW c \in Client, SendAnswer(c)
  PROVE  Store!End(c)
  <1>1. Moves(c, IdleHandler)
    BY DEF SendAnswer, IndInv, TypeOK, Moves
  <1>2. Seen(IdleHandler) = Store!Idle
    BY DEF Seen, IdleHandler, Before, After, Store!Idle
  <1>3. SeenCalls' = [SeenCalls EXCEPT ![c] = Store!Idle]
    BY <1>1, <1>2, SeenMoves DEF IdleHandler
  <1>4. SeenCalls[c].state = "answered"
    BY DEF SendAnswer, At, SeenCalls, Seen, Before, After
  <1> QED BY <1>3, <1>4 DEF SendAnswer, SeenCalls, Store!End

\* Every step is a step of the store, or is not seen.
LEMMA NextImplements ==
  ASSUME IndInv, [Next]_vars
  PROVE  [Store!Next]_(Store!vars)
  <1>1. CASE UNCHANGED vars
    BY <1>1 DEF vars, Store!vars, Seen
  <1>2. CASE Crash
    <2>1. Store!Crash
      BY <1>2 DEF Crash, Store!Crash, Seen, Before, After, IdleHandler, Store!Idle
    <2> QED BY <2>1 DEF Store!Next
  <1>3. ASSUME NEW c \in Client, Handle(c)
        PROVE  [Store!Next]_(Store!vars)
    BY <1>3, ReceiveBegins, ChecksImplement, FileStepsImplement, OpenFileImplements,
       HeadImplements, RowStepsStutter, SendAnswerEnds
    DEF Handle, Store!Next
  <1> QED BY <1>1, <1>2, <1>3 DEF Next

\* When the writes of one note take turns and every row is written, the handlers
\* implement a store in which every request takes effect at one moment: no write with
\* If-Match replaces a version it does not name, and every GET answers with a version the
\* note had.  The ETag of an S3 GET is read at a later moment, and is that version's
\* unless the note was written between the two.
THEOREM HandlersAreAtomic ==
  ASSUME Disturbances = {}
  PROVE  Spec => Atomic
  <1>1. Init => Store!Init
    BY DEF Init, Store!Init, Seen, Before, After, IdleHandler, Store!Idle
  <1>2. IndInv /\ [Next]_vars => [Store!Next]_(Store!vars)
    BY NextImplements
  <1> QED BY <1>1, <1>2, AlwaysIndInv, PTL DEF Spec, Atomic, Store!Spec
=============================================================================
