----------------------------- MODULE NoteStore -----------------------------
(***************************************************************************)
(* What the server promises about its notes: every request takes effect at *)
(* one moment between its arrival and its answer, and the answer is the    *)
(* one that moment gives.  Only a GET of the S3 API has two, one for its   *)
(* body and a later one for its ETag.  A write may name the version it     *)
(* replaces (the If-Match header).  A crash forgets the requests, not the  *)
(* notes.                                                                  *)
(***************************************************************************)
CONSTANTS
  Client,   \* requests that may be in progress at once
  Path,
  Content,  \* note versions, with their SHA-256
  None

VARIABLES
  note,  \* the version of each note
  call   \* the requests in progress

vars == <<note, call>>

\* "put" and "getNote" are the native API's, "putObject" and "get" those of the
\* S3 API; the DELETE of both does the same.
Writes == {"put", "putObject"}
Reads == {"get", "getNote"}
Request == [op : Writes \union Reads \union {"delete"}, path : Path,
            content : Content, ifMatch : Content \union {None}]

\* An answer's status, the version it speaks of, and the version its ETag is the
\* hash of.  The body of a "mixed" answer is of one version and has the ETag and
\* the length of another.
Answer == [status : {"ok", "mixed", "notFound", "conflict", "refused"},
           version : Content \union {None}, etag : Content \union {None}]
Reply(status, v, etag) == [status |-> status, version |-> v, etag |-> etag]

Idle == [state |-> "idle", request |-> None, answer |-> None]

Init ==
  /\ note = [p \in Path |-> None]
  /\ call = [c \in Client |-> Idle]

Begin(c) ==
  /\ call[c] = Idle
  /\ \E q \in Request :
       call' = [call EXCEPT ![c] = [state |-> "called", request |-> q, answer |-> None]]
  /\ UNCHANGED note

Becomes(c, s, a) ==
  call' = [call EXCEPT ![c] = [state |-> s, request |-> call[c].request, answer |-> a]]

Answered(c, a) == call[c].state = "called" /\ Becomes(c, "answered", a)

\* The precondition of a request, given the current version of its note.
Matches(q, v) == q.ifMatch = None \/ v \in {None, q.ifMatch}

Write(c) ==
  LET q == call[c].request
  IN /\ Answered(c, Reply("ok", q.content, None))
     /\ q.op \in Writes
     /\ Matches(q, note[q.path])
     /\ note' = [note EXCEPT ![q.path] = q.content]

Mismatch(c) ==
  LET q == call[c].request
  IN /\ Answered(c, Reply("conflict", note[q.path], None))
     /\ q.op \in Writes
     /\ ~Matches(q, note[q.path])
     /\ UNCHANGED note

Remove(c) ==
  LET q == call[c].request
  IN /\ Answered(c, Reply("ok", None, None))
     /\ q.op = "delete"
     /\ note' = [note EXCEPT ![q.path] = None]

Read(c) ==
  LET q == call[c].request
      v == note[q.path]
  IN /\ call[c].state = "called"
     /\ q.op \in Reads
     /\ \/ v = None /\ Answered(c, Reply("notFound", None, None))
        \/ v # None /\ q.op = "getNote" /\ Answered(c, Reply("ok", v, None))
        \/ v # None /\ q.op = "get" /\ Becomes(c, "tagging", Reply("ok", v, None))
     /\ UNCHANGED note

\* The answer a with the ETag of version v, or with none.
Tagged(a, v) ==
  [a EXCEPT !.status = IF v \in {None, a.version} THEN "ok" ELSE "mixed", !.etag = v]

\* The ETag is that of the version the note has now.  There may be none at all.
Tag(c) ==
  /\ call[c].state = "tagging"
  /\ \E v \in {None, note[call[c].request.path]} :
       Becomes(c, "answered", Tagged(call[c].answer, v))
  /\ UNCHANGED note

\* A limit, the size, the path or the disk.
Refuse(c) ==
  /\ Answered(c, Reply("refused", None, None))
  /\ UNCHANGED note

End(c) ==
  /\ call[c].state = "answered"
  /\ call' = [call EXCEPT ![c] = Idle]
  /\ UNCHANGED note

Crash ==
  /\ call' = [c \in Client |-> Idle]
  /\ UNCHANGED note

Next ==
  \/ \E c \in Client : \/ Begin(c) \/ Write(c) \/ Mismatch(c) \/ Remove(c) \/ Read(c)
                       \/ Tag(c) \/ Refuse(c) \/ End(c)
  \/ Crash

Spec == Init /\ [][Next]_vars
=============================================================================
