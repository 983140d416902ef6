----------------------------- MODULE NoteServer -----------------------------
(***************************************************************************)
(* The server's request handlers: the native API (server.go) and the S3    *)
(* API (s3_handlers.go) over the note files (FilesystemStorage) and the    *)
(* SQLite index of them (MetadataStore).                                   *)
(*                                                                         *)
(* net/http runs every request in a goroutine of its own, and no lock      *)
(* covers a file and its row of the index.  One action is one operation on *)
(* either: a file is replaced by a rename, a row by one SQL statement.     *)
(* Temporary files, the size in the row and the audit log, which no        *)
(* handler reads, are left out.                                            *)
(***************************************************************************)
EXTENDS FiniteSets, Naturals

CONSTANTS
  Client,        \* requests that may be in progress at once
  Path,
  Content,       \* note versions, with their SHA-256
  None,
  MaxNotes,      \* MaxNotesPerWorkspace
  Disturbances   \* what the environment may do, see Disturbance

(***************************************************************************)
(* "overlap"     a write of a note arrives while another one is in         *)
(*               progress (reads may come at any time without it)          *)
(* "indexFails"  a row cannot be written; the handler logs that, or not    *)
(* "crash"       the process dies between the file and its row             *)
(***************************************************************************)
Disturbance == {"overlap", "indexFails", "crash"}

ASSUME ConstantsAssumption ==
  /\ None \notin Content
  /\ IsFiniteSet(Path)
  /\ MaxNotes \in Nat
  /\ Disturbances \subseteq Disturbance

VARIABLES
  file,    \* the file of each note
  index,   \* the content_hash of each row of table notes
  handler  \* the request handlers

vars == <<file, index, handler>>

Version == Content \union {None}

\* The steps of a handler before it has changed or opened the file, and after.
Before == {"count", "match", "store", "remove", "open"}
After == {"index", "unindex", "head", "answer"}
IdleHandler == [step |-> "idle", request |-> None, answer |-> None]

\* What a client sees of a handler: the row it writes after the file is not seen.
Seen(h) ==
  [state |-> CASE h.step = "idle" -> "idle"
               [] h.step \in Before -> "called"
               [] h.step = "head" -> "tagging"
               [] h.step \in After \ {"head"} -> "answered",
   request |-> h.request,
   answer |-> h.answer]

Store == INSTANCE NoteStore WITH note <- file, call <- [c \in Client |-> Seen(handler[c])]

\* The steps a request of each kind can be in.
StepsOf(op) ==
  {"answer"} \union
    CASE op = "put" -> {"count", "match", "store", "index"}
      [] op = "putObject" -> {"store", "index"}
      [] op = "delete" -> {"remove", "unindex"}
      [] op = "get" -> {"open", "head"}
      [] op = "getNote" -> {"open"}

HandlerOK(h) ==
  \/ h = IdleHandler
  \/ /\ h \in [step : Before, request : Store!Request, answer : {None}]
     /\ h.step \in StepsOf(h.request.op)
  \/ /\ h \in [step : After, request : Store!Request, answer : Store!Answer]
     /\ h.step \in StepsOf(h.request.op)
     /\ h.step = "head" => h.answer.version # None

TypeOK ==
  /\ file \in [Path -> Version]
  /\ index \in [Path -> Version]
  /\ DOMAIN handler = Client
  /\ \A c \in Client : HandlerOK(handler[c])

Init ==
  /\ file = [p \in Path |-> None]
  /\ index = [p \in Path |-> None]
  /\ handler = [c \in Client |-> IdleHandler]

-----------------------------------------------------------------------------

Allowed(x) == x \in Disturbances
At(c, s) == handler[c].step = s
Busy(c) == handler[c].step \notin {"idle", "answer"}
GoTo(c, s) == handler' = [handler EXCEPT ![c].step = s]
Reply(c, s, a) ==
  handler' = [handler EXCEPT ![c] = [step |-> s, request |-> handler[c].request,
                                     answer |-> a]]
Refused == Store!Reply("refused", None, None)

\* Two requests that are not both writes of one note.
Compatible(q, r) == q.path # r.path \/ q.op \in Store!Reads \/ r.op \in Store!Reads

FirstStep(op) ==
  CASE op = "put" -> "count"
    [] op = "putObject" -> "store"
    [] op = "delete" -> "remove"
    [] op \in Store!Reads -> "open"

\* The mux hands a request to its handler.  Only a native PUT reads If-Match.
Receive(c) ==
  /\ At(c, "idle")
  /\ \E q \in Store!Request :
       /\ q.op # "put" => q.ifMatch = None
       /\ Allowed("overlap") \/ \A d \in Client : Busy(d) => Compatible(q, handler[d].request)
       /\ handler' = [handler EXCEPT ![c] = [step |-> FirstStep(q.op), request |-> q,
                                             answer |-> None]]
  /\ UNCHANGED <<file, index>>

\* CountNotes counts the rows.  At the limit a note that is there already is refused
\* as well; but when the rows cannot be counted, no note is.
CountNotes(c) ==
  /\ At(c, "count")
  /\ \/ /\ Cardinality({p \in Path : index[p] # None}) >= MaxNotes
        /\ Reply(c, "answer", Refused)
     \/ GoTo(c, IF handler[c].request.ifMatch = None THEN "store" ELSE "match")
  /\ UNCHANGED <<file, index>>

\* Mutant: a row is not compared, it need only be there.
CheckIfMatchRowOnly(c) ==
  LET current == index[handler[c].request.path]
  IN /\ At(c, "match")
     /\ \/ current = None /\ Reply(c, "answer", Store!Reply("conflict", current, None))
        \/ current # None /\ GoTo(c, "store")
        \/ Reply(c, "answer", Refused)
     /\ UNCHANGED <<file, index>>

\* GetNoteHash reads the row, not the file; a note without a row matches.  An error
\* of it ends the request.
CheckIfMatch(c) ==
  LET current == index[handler[c].request.path]
  IN /\ At(c, "match")
     /\ \/ /\ current \notin {None, handler[c].request.ifMatch}
           /\ Reply(c, "answer", Store!Reply("conflict", current, None))
        \/ current \in {None, handler[c].request.ifMatch} /\ GoTo(c, "store")
        \/ Reply(c, "answer", Refused)
     /\ UNCHANGED <<file, index>>

\* FilesystemStorage.Put up to its rename, which may not be reached: the path or
\* the size is refused, or the disk is full.
Put(c) ==
  LET q == handler[c].request
  IN /\ At(c, "store")
     /\ \/ /\ file' = [file EXCEPT ![q.path] = q.content]
           /\ Reply(c, "index", Store!Reply("ok", q.content, None))
        \/ Reply(c, "answer", Refused) /\ UNCHANGED file
     /\ UNCHANGED index

\* UpsertNote.  An error changes neither the answer nor the file.
UpsertNote(c) ==
  LET q == handler[c].request
  IN /\ At(c, "index")
     /\ GoTo(c, "answer")
     /\ \/ index' = [index EXCEPT ![q.path] = q.content]
        \/ Allowed("indexFails") /\ UNCHANGED index
     /\ UNCHANGED file

\* Mutant: the row of a deleted note stays.
RemoveFileOnly(c) ==
  LET q == handler[c].request
  IN /\ At(c, "remove")
     /\ file' = [file EXCEPT ![q.path] = None]
     /\ Reply(c, "answer", Store!Reply("ok", None, None))
     /\ UNCHANGED index

\* FilesystemStorage.Delete: a file that is not there is no error.
RemoveFile(c) ==
  LET q == handler[c].request
  IN /\ At(c, "remove")
     /\ \/ /\ file' = [file EXCEPT ![q.path] = None]
           /\ Reply(c, "unindex", Store!Reply("ok", None, None))
        \/ Reply(c, "answer", Refused) /\ UNCHANGED file
     /\ UNCHANGED index

\* MetadataStore.DeleteNote.
DeleteNote(c) ==
  /\ At(c, "unindex")
  /\ GoTo(c, "answer")
  /\ \/ index' = [index EXCEPT ![handler[c].request.path] = None]
     \/ Allowed("indexFails") /\ UNCHANGED index
  /\ UNCHANGED file

\* Mutant: the file is opened without the test that it is there.
OpenFileUnchecked(c) ==
  LET q == handler[c].request
  IN /\ At(c, "open")
     /\ Reply(c, IF q.op = "get" THEN "head" ELSE "answer",
              Store!Reply("ok", file[q.path], None))
     /\ UNCHANGED <<file, index>>

\* FilesystemStorage.Get.  What is open stays readable when it is replaced.
OpenFile(c) ==
  LET q == handler[c].request
      v == file[q.path]
  IN /\ At(c, "open")
     /\ \/ v = None /\ Reply(c, "answer", Store!Reply("notFound", None, None))
        \/ /\ v # None
           /\ Reply(c, IF q.op = "get" THEN "head" ELSE "answer", Store!Reply("ok", v, None))
        \/ Reply(c, "answer", Refused)
     /\ UNCHANGED <<file, index>>

\* FilesystemStorage.Head reads the file again for ETag and Content-Length.  Without
\* it, after an error or a deletion, the body goes out whole.
Head(c) ==
  /\ At(c, "head")
  /\ \E v \in {None, file[handler[c].request.path]} :
       Reply(c, "answer", Store!Tagged(handler[c].answer, v))
  /\ UNCHANGED <<file, index>>

SendAnswer(c) ==
  /\ At(c, "answer")
  /\ handler' = [handler EXCEPT ![c] = IdleHandler]
  /\ UNCHANGED <<file, index>>

\* The process dies and starts again.  Nothing compares the index with the files.
Crash ==
  /\ Allowed("crash") \/ \A c \in Client : handler[c].step \notin {"index", "unindex"}
  /\ handler' = [c \in Client |-> IdleHandler]
  /\ UNCHANGED <<file, index>>

Handle(c) ==
  \/ Receive(c) \/ CountNotes(c) \/ CheckIfMatch(c) \/ Put(c) \/ UpsertNote(c)
  \/ RemoveFile(c) \/ DeleteNote(c) \/ OpenFile(c) \/ Head(c) \/ SendAnswer(c)

Next == Crash \/ \E c \in Client : Handle(c)

Spec == Init /\ [][Next]_vars

-----------------------------------------------------------------------------

\* "The metadata index mirrors the filesystem": the row of a note is that of its
\* file unless a handler is between the two.  It is what If-Match and the note
\* limit rely on, and nothing ever repairs it.
IndexMirrors ==
  \A p \in Path :
    \/ index[p] = file[p]
    \/ \E c \in Client : (At(c, "index") \/ At(c, "unindex")) /\ handler[c].request.path = p

\* The handlers implement a store whose requests each take effect at one moment: a
\* write with If-Match replaces the version it names or answers with the one it met,
\* and the body of a GET is a version the note had.  An ETag is that of a version the
\* note had after that: of the same one, unless the note was written in between.
Atomic == Store!Spec

\* What makes IndexMirrors inductive, and the refinement a step by step one, when
\* Disturbances is empty: the writes of one note take turns, and what a writer has
\* found out about its file is still so.
HandlerKnows(h) ==
  LET q == h.request
      v == file[q.path]
  IN /\ h.step = "match" => q.ifMatch # None
     /\ h.step = "store" => Store!Matches(q, v)
     /\ h.step = "index" => v = q.content
     /\ h.step = "unindex" => v = None

IndInv ==
  /\ TypeOK
  /\ IndexMirrors
  /\ \A c, d \in Client :
       c # d /\ Busy(c) /\ Busy(d) => Compatible(handler[c].request, handler[d].request)
  /\ \A c \in Client : HandlerKnows(handler[c])
=============================================================================
