---------------------------- MODULE TmpfsSnapshot ----------------------------
(***************************************************************************)
(* tmpfs mode: the notes live in RAM, package tmpfs copies them to the     *)
(* persist directory every snapshotInterval and once more at shutdown, and *)
(* restores them from there at startup (main.go).                          *)
(*                                                                         *)
(* Two goroutines call doSnapshot: the snapshot loop and, for              *)
(* FinalSnapshot, main.  They share the persist directory and no lock, and *)
(* main stops the loop only after its own snapshot.  One action is one     *)
(* file system operation that the other one, a writer or a crash can meet. *)
(*                                                                         *)
(* The state of a note is the number of the write that made it, 0 when no  *)
(* write did.  A deletion is a write, and a copy that lacks the file has   *)
(* its number.  Of meta.db only its presence is kept.                      *)
(***************************************************************************)
EXTENDS Naturals

CONSTANTS
  Note,
  None,
  Disturbances,  \* what the environment may do, see Disturbance
  MaxWrites,     \* bound: writes in a behaviour
  MaxFaults      \* bound: crashes and failures in a behaviour

(***************************************************************************)
(* "crash"         the process dies, but not at a moment of "swapCrash"    *)
(* "swapCrash"     the process dies after the old notes were removed and   *)
(*                 before the new notes and database have their names      *)
(* "finalOverlap"  the loop's snapshot and the final one meet              *)
(* "failure"       the copy, the backup or a renaming fails                *)
(***************************************************************************)
Disturbance == {"crash", "swapCrash", "finalOverlap", "failure"}

ASSUME ConstantsAssumption ==
  /\ None \notin [Note -> 0 .. MaxWrites]
  /\ Disturbances \subseteq Disturbance
  /\ MaxWrites \in Nat
  /\ MaxFaults \in Nat

VARIABLES
  ram,      \* the notes under dataDir
  persist,  \* persistDir: notes, notes.new, meta.db and meta.db.new
  phase,    \* how far main has come
  quiet,    \* nobody writes any more while main shuts down
  snap,     \* the doSnapshot of the loop and of main
  safe,     \* history: the notes when the last successful snapshot began, while it is there
  torn,     \* history: a renaming failed since
  writes, faults

vars == <<ram, persist, phase, quiet, snap, safe, torn, writes, faults>>

Notes == [Note -> 0 .. MaxWrites]
NoNotes == [n \in Note |-> 0]

Runner == {"loop", "final"}
Step == {"idle", "copy", "swap", "rename", "dbRemove", "dbRename", "done", "failed"}
NoSnap == [step |-> "idle", left |-> {}, begun |-> NoNotes]

TypeOK ==
  /\ ram \in Notes
  /\ persist \in [notes : Notes \union {None}, notesNew : Notes \union {None},
                  db : BOOLEAN, dbNew : BOOLEAN]
  /\ phase \in {"down", "up", "final", "stopping"}
  /\ snap \in [Runner -> [step : Step, left : SUBSET Note, begun : Notes]]
  /\ safe \in Notes
  /\ quiet \in BOOLEAN /\ torn \in BOOLEAN
  /\ writes \in 0 .. MaxWrites
  /\ faults \in 0 .. MaxFaults

Init ==
  /\ ram = NoNotes
  /\ persist = [notes |-> None, notesNew |-> None, db |-> FALSE, dbNew |-> FALSE]
  /\ phase = "down"
  /\ snap = [r \in Runner |-> NoSnap]
  /\ safe = NoNotes
  /\ quiet = TRUE /\ torn = FALSE
  /\ writes = 0
  /\ faults = 0

Allowed(x) == x \in Disturbances
Fault == faults < MaxFaults /\ faults' = faults + 1
Busy(r) == snap[r].step \notin {"idle", "done", "failed"}

-----------------------------------------------------------------------------
\* The server's writers

\* FilesystemStorage.Put or Delete, for a request or for the relay poller.
WriteNote(n) ==
  /\ phase = "up" \/ (phase \in {"final", "stopping"} /\ ~quiet)
  /\ writes < MaxWrites
  /\ writes' = writes + 1
  /\ ram' = [ram EXCEPT ![n] = writes + 1]
  /\ UNCHANGED <<persist, phase, quiet, snap, safe, torn, faults>>

-----------------------------------------------------------------------------
\* main

\* Mutant: restored without the test that there is a snapshot.
StartServerUnchecked ==
  /\ phase = "down"
  /\ phase' = "up"
  /\ ram' = persist.notes
  /\ UNCHANGED <<persist, quiet, snap, safe, torn, writes, faults>>

\* RestoreFromPersist and Start.  Without persisted notes dataDir stays as it is.
StartServer ==
  /\ phase = "down"
  /\ phase' = "up"
  /\ ram' = IF persist.notes = None THEN ram ELSE persist.notes
  /\ UNCHANGED <<persist, quiet, snap, safe, torn, writes, faults>>

\* A process that ends leaves the RAM disk, or takes it along.
ProcessEnds ==
  /\ phase' = "down"
  /\ snap' = [r \in Runner |-> NoSnap]
  /\ ram' \in {ram, NoNotes}
  /\ UNCHANGED <<persist, quiet, safe, torn, writes>>

Crash ==
  /\ phase # "down"
  /\ IF \E r \in Runner : snap[r].step \in {"rename", "dbRemove", "dbRename"}
       THEN Allowed("swapCrash")
       ELSE Allowed("crash")
  /\ Fault
  /\ ProcessEnds

\* After a signal httpServer.Shutdown waits for the requests in progress.  That it
\* gives up on some after 10 s is only logged; these go on to write, and so does the
\* relay poller, which main stops last.  FinalSnapshot begins in any case.
Shutdown ==
  /\ phase = "up"
  /\ Allowed("finalOverlap") \/ ~Busy("loop")
  /\ phase' = "final"
  /\ quiet' \in BOOLEAN
  /\ UNCHANGED <<ram, persist, snap, safe, torn, writes, faults>>

\* FinalSnapshot has returned, with or without an error: Stop closes stopCh.
StopLoop ==
  /\ phase = "final"
  /\ snap["final"].step \in {"done", "failed"}
  /\ phase' = "stopping"
  /\ UNCHANGED <<ram, persist, quiet, snap, safe, torn, writes, faults>>

\* doneCh is closed when the loop is between two snapshots.
Exit ==
  /\ phase = "stopping"
  /\ ~Busy("loop")
  /\ ProcessEnds
  /\ UNCHANGED faults

-----------------------------------------------------------------------------
\* doSnapshot

At(r, s) == snap[r].step = s
GoTo(r, s) == snap' = [snap EXCEPT ![r].step = s]
Fail(r) == GoTo(r, "failed")
OnDisk(q) == persist' = q /\ UNCHANGED <<ram, phase, quiet, writes>>

\* The stale notes.new is removed and made again.  When Stop has closed stopCh the
\* loop's select may still prefer a tick that is due.
BeginSnapshot(r) ==
  /\ ~Busy(r)
  /\ \/ r = "loop" /\ phase # "down"
     \/ r = "final" /\ phase = "final" /\ At("final", "idle")
  /\ Allowed("finalOverlap") \/ \A s \in Runner : ~Busy(s)
  /\ snap' = [snap EXCEPT ![r] = [step |-> "copy", left |-> Note, begun |-> ram]]
  /\ OnDisk([persist EXCEPT !.notesNew = NoNotes])
  /\ UNCHANGED <<safe, torn, faults>>

\* copyFile makes the directories it needs.
CopyNote(r, n) ==
  /\ At(r, "copy")
  /\ n \in snap[r].left
  /\ snap' = [snap EXCEPT ![r].left = @ \ {n}]
  /\ OnDisk([persist EXCEPT !.notesNew = [(IF @ = None THEN NoNotes ELSE @) EXCEPT ![n] = ram[n]]])
  /\ UNCHANGED <<safe, torn, faults>>

\* Mutant: an error of the copy is only logged.
CopyFailsIgnored(r) ==
  /\ Allowed("failure")
  /\ Fault
  /\ At(r, "copy")
  /\ snap' = [snap EXCEPT ![r].left = {}]
  /\ OnDisk(persist)
  /\ UNCHANGED <<safe, torn>>

\* A file vanished under the walk, or the disk is full; notes.new stays.
CopyFails(r) ==
  /\ Allowed("failure")
  /\ Fault
  /\ At(r, "copy")
  /\ Fail(r)
  /\ OnDisk(persist)
  /\ UNCHANGED <<safe, torn>>

Copied(r) == At(r, "copy") /\ snap[r].left = {}

\* Mutant: the backup does not wait for the copy.
BackupDbEarly(r) ==
  /\ At(r, "copy")
  /\ GoTo(r, "swap")
  /\ OnDisk([persist EXCEPT !.dbNew = TRUE])
  /\ UNCHANGED <<safe, torn, faults>>

\* backupSQLite.
BackupDb(r) ==
  /\ Copied(r)
  /\ GoTo(r, "swap")
  /\ OnDisk([persist EXCEPT !.dbNew = TRUE])
  /\ UNCHANGED <<safe, torn, faults>>

BackupFails(r) ==
  /\ Allowed("failure")
  /\ Fault
  /\ Copied(r)
  /\ Fail(r)
  /\ OnDisk([persist EXCEPT !.notesNew = None, !.dbNew = FALSE])
  /\ UNCHANGED <<safe, torn>>

RemoveNotes(r) ==
  /\ At(r, "swap")
  /\ GoTo(r, "rename")
  /\ OnDisk([persist EXCEPT !.notes = None])
  /\ UNCHANGED <<safe, torn, faults>>

\* A directory is not renamed over another one.
CanRename == persist.notesNew # None /\ persist.notes = None

RenameNotes(r) ==
  /\ At(r, "rename")
  /\ CanRename
  /\ GoTo(r, "dbRemove")
  /\ OnDisk([persist EXCEPT !.notes = persist.notesNew, !.notesNew = None])
  /\ UNCHANGED <<safe, torn, faults>>

\* Both new copies are removed, and the old notes are gone already.
RenameNotesFails(r) ==
  /\ At(r, "rename")
  /\ IF CanRename THEN Allowed("failure") /\ Fault ELSE UNCHANGED faults
  /\ Fail(r)
  /\ OnDisk([persist EXCEPT !.notesNew = None, !.dbNew = FALSE])
  /\ safe' = IF persist.notes = None THEN NoNotes ELSE safe
  /\ torn' = TRUE

RemoveDb(r) ==
  /\ At(r, "dbRemove")
  /\ GoTo(r, "dbRename")
  /\ OnDisk([persist EXCEPT !.db = FALSE])
  /\ UNCHANGED <<safe, torn, faults>>

\* Mutant: the backup never gets the name of the database.
RenameDbForgotten(r) ==
  /\ At(r, "dbRename")
  /\ GoTo(r, "done")
  /\ OnDisk(persist)
  /\ safe' = snap[r].begun
  /\ torn' = FALSE
  /\ UNCHANGED faults

RenameDb(r) ==
  /\ At(r, "dbRename")
  /\ persist.dbNew
  /\ GoTo(r, "done")
  /\ OnDisk([persist EXCEPT !.db = TRUE, !.dbNew = FALSE])
  /\ safe' = snap[r].begun
  /\ torn' = FALSE
  /\ UNCHANGED faults

\* The notes have been swapped already, and the old meta.db is gone.
RenameDbFails(r) ==
  /\ At(r, "dbRename")
  /\ IF persist.dbNew THEN Allowed("failure") /\ Fault ELSE UNCHANGED faults
  /\ Fail(r)
  /\ OnDisk([persist EXCEPT !.dbNew = FALSE])
  /\ torn' = TRUE
  /\ UNCHANGED safe

-----------------------------------------------------------------------------

SnapshotStep(r) ==
  \/ BeginSnapshot(r) \/ CopyFails(r) \/ BackupDb(r) \/ BackupFails(r)
  \/ RemoveNotes(r) \/ RenameNotes(r) \/ RenameNotesFails(r)
  \/ RemoveDb(r) \/ RenameDb(r) \/ RenameDbFails(r)
  \/ \E n \in Note : CopyNote(r, n)

Next ==
  \/ \E n \in Note : WriteNote(n)
  \/ StartServer \/ Shutdown \/ StopLoop \/ Exit \/ Crash
  \/ \E r \in Runner : SnapshotStep(r)

Spec == Init /\ [][Next]_vars

-----------------------------------------------------------------------------

\* A snapshot that succeeded is not lost: every server that starts later has each
\* note as it was when that snapshot began, or newer.  "Survives restarts with
\* zero data loss", the atomic swap "to avoid corruption if the process crashes
\* mid-snapshot".  Nothing is claimed between a renaming of the notes that failed,
\* which has removed the snapshot before it, and the next success.
SnapshotSurvives ==
  phase # "down" => \A n \in Note : ram[n] >= safe[n]

\* No step between two snapshots leaves the notes without their database, or the
\* database without the notes: a restart finds both or neither.  Only a renaming that
\* fails does, and the next snapshot that succeeds makes up for it.
PersistWhole ==
  (\A r \in Runner : ~Busy(r)) /\ ~torn => (persist.notes # None <=> persist.db)

\* A graceful shutdown whose last snapshot succeeded has persisted every note as it
\* was when that snapshot began, or newer, and all of the RAM if Shutdown had waited
\* for every request and no relay poller was at work; whatever the loop does before
\* it stops, but for a renaming that fails.
ShutdownKeepsAll ==
  phase = "stopping" /\ At("final", "done") /\ ~Busy("loop") /\ ~torn =>
    /\ persist.notes # None
    /\ \A n \in Note : persist.notes[n] >= snap["final"].begun[n]
    /\ quiet => persist.notes = ram
=============================================================================
