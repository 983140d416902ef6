------------------------ MODULE TmpfsSnapshot_proofs ------------------------
(***************************************************************************)
(* No snapshot that succeeded is lost and a graceful shutdown keeps all,   *)
(* for any notes and any number of writes, faults and restarts, as long as *)
(* the process does not die within a swap and the two runners do not meet. *)
(***************************************************************************)
EXTENDS TmpfsSnapshot, TLAPS

Newer(f, g) == \A n \in Note : f[n] >= g[n]
Swapping(r) == snap[r].step \in {"rename", "dbRemove", "dbRename"}

\* Who runs in which phase.
Phases ==
  /\ phase \in {"down", "up", "final", "stopping"}
  /\ ~(Busy("loop") /\ Busy("final"))
  /\ phase = "down" => \A r \in Runner : At(r, "idle")
  /\ phase \in {"down", "up"} => At("final", "idle")
  /\ phase = "stopping" => At("final", "done") \/ At("final", "failed")

\* The next write is newer than what there is.
Written ==
  /\ \A n \in Note : ram[n] <= writes
  /\ persist.notes # None => \A n \in Note : persist.notes[n] <= writes
  /\ persist.notesNew # None => \A n \in Note : persist.notesNew[n] <= writes

\* What a snapshot in progress has on the disk.
SnapOK(r) ==
  /\ ~At(r, "idle") => Newer(ram, snap[r].begun)
  /\ Busy(r) => Newer(snap[r].begun, safe)
  /\ At(r, "copy") =>
       /\ persist.notesNew # None
       /\ \A n \in Note \ snap[r].left : persist.notesNew[n] >= snap[r].begun[n]
  /\ At(r, "swap") \/ At(r, "rename") =>
       persist.notesNew # None /\ Newer(persist.notesNew, snap[r].begun)
  /\ At(r, "rename") => persist.notes = None
  /\ At(r, "swap") \/ Swapping(r) => persist.dbNew
  /\ At(r, "dbRemove") \/ At(r, "dbRename") =>
       persist.notes # None /\ Newer(persist.notes, snap[r].begun)

\* What a restart finds, unless the notes are between two names.
NotesOK == IF persist.notes = None THEN safe = NoNotes ELSE Newer(persist.notes, safe)
DbOK == torn \/ (persist.notes # None <=> persist.db)

DiskOK ==
  /\ (\A r \in Runner : ~At(r, "rename")) => NotesOK
  /\ (\A r \in Runner : ~Swapping(r)) => DbOK

RamOK == phase # "down" => Newer(ram, safe)

\* While main shuts down and nobody writes, the RAM stands still.
Still == quiet /\ phase \in {"final", "stopping"}

KeepOK(r) ==
  /\ At(r, "copy") => \A n \in Note \ snap[r].left : persist.notesNew[n] = ram[n]
  /\ At(r, "swap") \/ At(r, "rename") => persist.notesNew = ram
  /\ At(r, "dbRemove") \/ At(r, "dbRename") => persist.notes = ram

Inv ==
  /\ Phases /\ Written /\ DiskOK /\ RamOK
  /\ \A r \in Runner : SnapOK(r)
  /\ Still => \A r \in Runner : KeepOK(r)

\* What the final snapshot has persisted, and what the loop persists after it.
LoopAfter ==
  At("final", "done") /\ Busy("loop") => Newer(snap["loop"].begun, snap["final"].begun)

FinalOK ==
  At("final", "done") /\ (\A r \in Runner : ~At(r, "rename")) /\ ~torn =>
    /\ persist.notes # None
    /\ Newer(persist.notes, snap["final"].begun)
    /\ Still => persist.notes = ram

Ends == LoopAfter /\ FinalOK

IndInv == TypeOK /\ Inv /\ Ends

NoSwapCrash == "swapCrash" \notin Disturbances /\ "finalOverlap" \notin Disturbances

-----------------------------------------------------------------------------
\* Type correctness

LEMMA Facts ==
  /\ MaxWrites \in Nat /\ MaxFaults \in Nat
  /\ None \notin Notes
  /\ NoNotes \in Notes
  /\ \A n \in Note : NoNotes[n] = 0
BY ConstantsAssumption DEF Notes, NoNotes

Persist == [notes : Notes \union {None}, notesNew : Notes \union {None},
            db : BOOLEAN, dbNew : BOOLEAN]
Snap == [step : Step, left : SUBSET Note, begun : Notes]

LEMMA PersistUpdates ==
  ASSUME persist \in Persist
  PROVE  /\ persist.notes \in Notes \union {None}
         /\ persist.notesNew \in Notes \union {None}
         /\ persist.db \in BOOLEAN /\ persist.dbNew \in BOOLEAN
         /\ [persist EXCEPT !.notes = None] \in Persist
         /\ [persist EXCEPT !.notes = persist.notesNew, !.notesNew = None] \in Persist
         /\ [persist EXCEPT !.notesNew = None, !.dbNew = FALSE] \in Persist
         /\ [persist EXCEPT !.db = FALSE] \in Persist
         /\ [persist EXCEPT !.dbNew = TRUE] \in Persist
         /\ \A x \in Notes : [persist EXCEPT !.notesNew = x] \in Persist
         /\ [persist EXCEPT !.db = TRUE, !.dbNew = FALSE] \in Persist
         /\ [persist EXCEPT !.dbNew = FALSE] \in Persist
BY DEF Persist

\* A runner that goes on to a step: the other one stays where it is.
LEMMA GoToFacts ==
  ASSUME snap \in [Runner -> Snap], NEW r \in Runner, NEW s \in Step, GoTo(r, s)
  PROVE  /\ snap' \in [Runner -> Snap]
         /\ snap'[r].step = s
         /\ snap'[r].left = snap[r].left
         /\ snap'[r].begun = snap[r].begun
         /\ \A q \in Runner \ {r} : snap'[q] = snap[q]
BY DEF GoTo, Snap

LEMMA TypeParts ==
  ASSUME TypeOK
  PROVE  /\ ram \in Notes
         /\ persist \in Persist
         /\ phase \in {"down", "up", "final", "stopping"}
         /\ snap \in [Runner -> Snap]
         /\ safe \in Notes
         /\ quiet \in BOOLEAN /\ torn \in BOOLEAN
         /\ writes \in 0 .. MaxWrites
         /\ faults \in 0 .. MaxFaults
BY DEF TypeOK, Persist, Snap

LEMMA FaultType ==
  ASSUME TypeOK, Fault
  PROVE  faults' \in 0 .. MaxFaults
BY Facts DEF TypeOK, Fault

LEMMA WriteTypes ==
  ASSUME TypeOK, NEW n \in Note, writes < MaxWrites, writes' = writes + 1,
         ram' = [ram EXCEPT ![n] = writes + 1]
  PROVE  ram' \in Notes /\ writes' \in 0 .. MaxWrites
BY Facts DEF TypeOK, Notes

LEMMA SnapshotTypeOK ==
  ASSUME TypeOK, NEW r \in Runner, SnapshotStep(r)
  PROVE  TypeOK'
<1> USE DEF Fail, OnDisk, At
<1>0. /\ persist \in Persist /\ snap \in [Runner -> Snap] /\ ram \in Notes /\ safe \in Notes
      /\ faults \in 0 .. MaxFaults
      /\ phase \in {"down", "up", "final", "stopping"} /\ writes \in 0 .. MaxWrites
  BY TypeParts
<1>s. {"copy", "swap", "rename", "dbRemove", "dbRename", "done", "failed"} \subseteq Step
  BY DEF Step
<1>1. /\ persist' \in Persist /\ snap' \in [Runner -> Snap] /\ safe' \in Notes
      /\ faults' \in 0 .. MaxFaults
  <2>1. CASE BeginSnapshot(r)
    <3>1. [step |-> "copy", left |-> Note, begun |-> ram] \in Snap
      BY <1>0, <1>s DEF Snap
    <3>2. snap' \in [Runner -> Snap]
      BY <1>0, <2>1, <3>1 DEF BeginSnapshot
    <3>3. persist' \in Persist
      BY <1>0, <2>1, PersistUpdates, Facts DEF BeginSnapshot
    <3> QED
      BY <1>0, <2>1, <3>2, <3>3 DEF BeginSnapshot
  <2>2. ASSUME NEW n \in Note, CopyNote(r, n)
        PROVE  /\ persist' \in Persist /\ snap' \in [Runner -> Snap] /\ safe' \in Notes
               /\ faults' \in 0 .. MaxFaults
    <3> DEFINE new == [(IF persist.notesNew = None THEN NoNotes ELSE persist.notesNew)
                         EXCEPT ![n] = ram[n]]
    <3>1. new \in Notes
      BY <1>0, PersistUpdates, Facts DEF Notes
    <3>2. persist' = [persist EXCEPT !.notesNew = new]
      BY <2>2 DEF CopyNote
    <3>3. persist' \in Persist
      BY <1>0, <3>1, <3>2, PersistUpdates
    <3>4. snap' \in [Runner -> Snap]
      <4>1. snap[r].left \ {n} \in SUBSET Note
        BY <1>0 DEF Snap
      <4>2. snap' = [snap EXCEPT ![r].left = snap[r].left \ {n}]
        BY <2>2 DEF CopyNote
      <4> QED
        BY <1>0, <4>1, <4>2 DEF Snap
    <3> QED
      BY <1>0, <2>2, <3>3, <3>4 DEF CopyNote
  <2>3. CASE CopyFails(r) \/ BackupFails(r)
    <3>1. persist' = persist \/ persist' = [persist EXCEPT !.notesNew = None, !.dbNew = FALSE]
      BY <2>3 DEF CopyFails, BackupFails
    <3>2. persist' \in Persist
      BY <1>0, <3>1, PersistUpdates
    <3>3. snap' \in [Runner -> Snap]
      BY <1>0, <1>s, <2>3, GoToFacts DEF CopyFails, BackupFails
    <3> QED
      BY <1>0, <2>3, <3>2, <3>3, FaultType DEF CopyFails, BackupFails
  <2>4. CASE BackupDb(r) \/ RemoveNotes(r) \/ RemoveDb(r)
    <3>1. \/ persist' = [persist EXCEPT !.dbNew = TRUE]
          \/ persist' = [persist EXCEPT !.notes = None]
          \/ persist' = [persist EXCEPT !.db = FALSE]
      BY <2>4 DEF BackupDb, RemoveNotes, RemoveDb
    <3>2. persist' \in Persist
      BY <1>0, <3>1, PersistUpdates
    <3>3. snap' \in [Runner -> Snap]
      BY <1>0, <1>s, <2>4, GoToFacts DEF BackupDb, RemoveNotes, RemoveDb
    <3> QED
      BY <1>0, <2>4, <3>2, <3>3 DEF BackupDb, RemoveNotes, RemoveDb
  <2>5. CASE RenameNotes(r) \/ RenameNotesFails(r) \/ RenameDbFails(r)
    <3>1. \/ persist' = [persist EXCEPT !.notes = persist.notesNew, !.notesNew = None]
          \/ persist' = [persist EXCEPT !.notesNew = None, !.dbNew = FALSE]
          \/ persist' = [persist EXCEPT !.dbNew = FALSE]
      BY <2>5 DEF RenameNotes, RenameNotesFails, RenameDbFails
    <3>2. persist' \in Persist
      BY <1>0, <3>1, PersistUpdates
    <3>3. snap' \in [Runner -> Snap]
      BY <1>0, <1>s, <2>5, GoToFacts DEF RenameNotes, RenameNotesFails, RenameDbFails
    <3>4. faults' \in 0 .. MaxFaults
      BY <1>0, <2>5, FaultType DEF RenameNotes, RenameNotesFails, RenameDbFails
    <3> QED
      BY <1>0, <2>5, <3>2, <3>3, <3>4, Facts DEF RenameNotes, RenameNotesFails, RenameDbFails
  <2>6. CASE RenameDb(r)
    <3>3. persist' \in Persist
      BY <1>0, <2>6, PersistUpdates DEF RenameDb
    <3>4. snap' \in [Runner -> Snap]
      BY <1>0, <1>s, <2>6, GoToFacts DEF RenameDb
    <3>5. safe' \in Notes
      BY <1>0, <2>6 DEF RenameDb, Snap
    <3> QED
      BY <1>0, <2>6, <3>3, <3>4, <3>5 DEF RenameDb
  <2> QED
    BY <2>1, <2>2, <2>3, <2>4, <2>5, <2>6 DEF SnapshotStep
<1>2. UNCHANGED <<ram, phase, quiet, writes>> /\ torn' \in {torn, TRUE, FALSE}
  BY DEF SnapshotStep, BeginSnapshot, CopyNote, CopyFails, BackupDb, BackupFails, RemoveNotes,
         RenameNotes, RenameNotesFails, RemoveDb, RenameDb, RenameDbFails
<1> QED
  BY <1>0, <1>1, <1>2 DEF TypeOK, Persist, Snap

LEMMA EndTypes ==
  ASSUME TypeOK, ProcessEnds
  PROVE  /\ ram' \in Notes /\ persist' \in Persist /\ phase' = "down" /\ UNCHANGED <<quiet, torn>>
         /\ snap' \in [Runner -> Snap] /\ safe' \in Notes /\ writes' \in 0 .. MaxWrites
BY Facts, TypeParts DEF ProcessEnds, NoSnap, Snap, Step

LEMMA InitTypeOK == Init => TypeOK
<1> SUFFICES ASSUME Init PROVE TypeOK
  OBVIOUS
<1>1. /\ persist \in [notes : Notes \union {None}, notesNew : Notes \union {None},
                      db : BOOLEAN, dbNew : BOOLEAN]
      /\ snap \in [Runner -> [step : Step, left : SUBSET Note, begun : Notes]]
  BY Facts DEF Init, NoSnap, Step
<1>2. quiet \in BOOLEAN /\ torn \in BOOLEAN
  BY DEF Init
<1>3. /\ ram \in Notes /\ safe \in Notes /\ phase \in {"down", "up", "final", "stopping"}
      /\ writes \in 0 .. MaxWrites /\ faults \in 0 .. MaxFaults
  BY Facts DEF Init
<1> QED
  BY <1>1, <1>2, <1>3 DEF TypeOK

LEMMA NextTypeOK == TypeOK /\ [Next]_vars => TypeOK'
<1> SUFFICES ASSUME TypeOK, [Next]_vars PROVE TypeOK'
  OBVIOUS
<1>1. ASSUME NEW n \in Note, WriteNote(n) PROVE TypeOK'
  <2>1. ram' \in Notes /\ writes' \in 0 .. MaxWrites
    BY <1>1, WriteTypes DEF WriteNote
  <2> QED
    BY <1>1, <2>1 DEF WriteNote, TypeOK
<1>2. CASE StartServer
  <2>1. ram' \in Notes
    BY <1>2 DEF StartServer, TypeOK
  <2> QED
    BY <1>2, <2>1 DEF StartServer, TypeOK
<1>3. CASE Shutdown \/ StopLoop
  BY <1>3 DEF Shutdown, StopLoop, TypeOK
<1>4. CASE Exit
  <2>1. faults' \in 0 .. MaxFaults
    BY <1>4 DEF Exit, TypeOK
  <2> QED
    BY <1>4, <2>1, EndTypes DEF Exit, TypeOK, Persist, Snap
<1>5. CASE Crash
  <2>1. faults' \in 0 .. MaxFaults
    BY <1>5, FaultType DEF Crash
  <2> QED
    BY <1>5, <2>1, EndTypes DEF Crash, TypeOK, Persist, Snap
<1>6. ASSUME NEW r \in Runner, SnapshotStep(r) PROVE TypeOK'
  BY <1>6, SnapshotTypeOK
<1>7. CASE UNCHANGED vars
  BY <1>7 DEF vars, TypeOK
<1> QED
  BY <1>1, <1>2, <1>3, <1>4, <1>5, <1>6, <1>7 DEF Next

\* Every state of the snapshots and of main has its type: what is restored is a
\* snapshot, whatever failed before (RestoreFromPersist).
THEOREM SnapshotTypeCorrect == Spec => []TypeOK
<1>1. Init => TypeOK
  BY InitTypeOK
<1> QED
  BY <1>1, NextTypeOK, PTL DEF Spec

-----------------------------------------------------------------------------
\* A step of one runner.  While it is at work the other one is not, and the invariant
\* is about this runner alone.

MayWork(r) ==
  /\ \A q \in Runner \ {r} : ~Busy(q)
  /\ phase # "down"
  /\ r = "final" => phase = "final"

Mine(r) ==
  /\ Written /\ RamOK /\ SnapOK(r)
  /\ ~At(r, "rename") => NotesOK
  /\ ~Swapping(r) => DbOK
  /\ Still => KeepOK(r)

\* Nothing the step does to snap is about the other runner.
OnlyMine(r) ==
  /\ snap'[r].step # "idle"
  /\ \A q \in Runner \ {r} : snap'[q] = snap[q]
  /\ UNCHANGED <<phase, quiet>>

LEMMA Alone ==
  ASSUME Phases, NEW r \in Runner, Busy(r)
  PROVE  MayWork(r)
BY DEF Phases, Runner, Busy, At, MayWork

LEMMA Take ==
  ASSUME Inv, NEW r \in Runner, MayWork(r)
  PROVE  Mine(r)
<1>1. \A q \in Runner \ {r} : ~At(q, "rename") /\ ~Swapping(q)
  BY DEF MayWork, Busy, At, Swapping
<1> QED
  BY <1>1 DEF Inv, Mine, DiskOK

LEMMA Give ==
  ASSUME Inv, NEW r \in Runner, MayWork(r), OnlyMine(r), UNCHANGED ram, Mine(r)'
  PROVE  Inv'
<1>1. ASSUME NEW q \in Runner \ {r}
      PROVE  /\ ~Busy(q)' /\ SnapOK(q)' /\ KeepOK(q)'
  BY DEF MayWork, OnlyMine, Busy, Inv, SnapOK, KeepOK, At, Swapping, Newer
<1>2. Phases'
  <2>0. Runner = {"loop", "final"}
    BY DEF Runner
  <2>1. phase \in {"down", "up", "final", "stopping"} /\ phase' = phase
    BY DEF OnlyMine, Inv, Phases
  <2>2. CASE r = "loop"
    <3>1. ~Busy("final")' /\ snap'["final"] = snap["final"] /\ phase # "down"
      BY <1>1, <2>0, <2>2 DEF OnlyMine, MayWork
    <3> QED
      BY <2>1, <3>1 DEF Inv, Phases, At
  <2>3. CASE r = "final"
    <3>1. ~Busy("loop")' /\ phase = "final"
      BY <1>1, <2>0, <2>3 DEF OnlyMine, MayWork
    <3> QED
      BY <2>1, <3>1 DEF Phases
  <2> QED
    BY <2>0, <2>2, <2>3
<1>3. DiskOK'
  BY DEF Mine, DiskOK
<1>4. (\A q \in Runner : SnapOK(q))'
  BY <1>1 DEF Mine
<1>5. Still' => (\A q \in Runner : KeepOK(q))'
  BY <1>1 DEF Mine
<1> QED
  BY <1>2, <1>3, <1>4, <1>5 DEF Inv, Mine

\* What a step to the name s changes: for the steps that are nothing but OnDisk and GoTo.
LEMMA Goes ==
  ASSUME IndInv, NEW r \in Runner, Busy(r), NEW s \in Step \ {"idle"}, GoTo(r, s),
         UNCHANGED <<ram, phase, quiet, writes>>
  PROVE  /\ MayWork(r) /\ OnlyMine(r) /\ Mine(r)
         /\ persist \in Persist
         /\ snap'[r].step = s
         /\ snap'[r].left = snap[r].left
         /\ snap'[r].begun = snap[r].begun
<1>1. TypeOK /\ Inv /\ Phases
  BY DEF IndInv, Inv
<1>2. snap \in [Runner -> Snap] /\ persist \in Persist
  BY <1>1, TypeParts
<1>3. MayWork(r)
  BY <1>1, Alone
<1>4. /\ snap'[r].step = s /\ snap'[r].left = snap[r].left /\ snap'[r].begun = snap[r].begun
      /\ \A q \in Runner \ {r} : snap'[q] = snap[q]
  BY <1>2, GoToFacts
<1>5. OnlyMine(r)
  BY <1>4 DEF OnlyMine
<1>6. Mine(r)
  BY <1>1, <1>3, Take
<1> QED
  BY <1>2, <1>3, <1>4, <1>5, <1>6

LEMMA StepNames ==
  /\ {"copy", "swap", "rename", "dbRemove", "dbRename", "done", "failed"} \subseteq Step \ {"idle"}
  /\ \A r \in Runner : Copied(r) => At(r, "copy")
  /\ \A r \in Runner, s \in {"copy", "swap", "rename", "dbRemove", "dbRename"} :
       At(r, s) => Busy(r)
BY DEF Step, Copied, At, Busy

LEMMA CopyFailsKeeps ==
  ASSUME IndInv, NEW r \in Runner, CopyFails(r)
  PROVE  Inv'
<1>1. At(r, "copy") /\ GoTo(r, "failed") /\ UNCHANGED <<ram, phase, quiet, writes, safe, torn>>
  BY StepNames DEF CopyFails, OnDisk, Fail
<1>2. /\ MayWork(r) /\ OnlyMine(r) /\ Mine(r) /\ persist \in Persist
      /\ snap'[r].step = "failed" /\ snap'[r].left = snap[r].left /\ snap'[r].begun = snap[r].begun
  BY <1>1, StepNames, Goes
<1>3. persist'.notes = persist.notes /\ persist'.notesNew = persist.notesNew
      /\ persist'.db = persist.db /\ persist'.dbNew = persist.dbNew
  BY <1>2 DEF CopyFails, OnDisk, Persist
<1>4. Mine(r)'
  BY <1>1, <1>2, <1>3, Facts DEF Mine, Written, RamOK, SnapOK, NotesOK, DbOK, KeepOK, Still, Newer,
     At, Busy, Swapping
<1> QED
  BY <1>1, <1>2, <1>4, Give DEF IndInv

LEMMA BackupDbKeeps ==
  ASSUME IndInv, NEW r \in Runner, BackupDb(r)
  PROVE  Inv'
<1>1. At(r, "copy") /\ GoTo(r, "swap") /\ UNCHANGED <<ram, phase, quiet, writes, safe, torn>>
  BY StepNames DEF BackupDb, OnDisk, Fail
<1>2. /\ MayWork(r) /\ OnlyMine(r) /\ Mine(r) /\ persist \in Persist
      /\ snap'[r].step = "swap" /\ snap'[r].left = snap[r].left /\ snap'[r].begun = snap[r].begun
  BY <1>1, StepNames, Goes
<1>3. persist'.notes = persist.notes /\ persist'.notesNew = persist.notesNew
      /\ persist'.db = persist.db /\ persist'.dbNew
  BY <1>2 DEF BackupDb, OnDisk, Persist
<1>4. persist.notesNew \in Notes /\ Newer(persist.notesNew, snap[r].begun)
  BY <1>1, <1>2 DEF BackupDb, Copied, Mine, SnapOK, Persist, Newer
<1>5. Still => persist.notesNew = ram
  <2>1. Still => \A n \in Note : persist.notesNew[n] = ram[n]
    BY <1>1, <1>2 DEF BackupDb, Copied, Mine, KeepOK
  <2> QED
    BY <1>4, <2>1 DEF IndInv, TypeOK, Notes
<1>6. Mine(r)'
  BY <1>1, <1>2, <1>3, <1>4, <1>5, Facts DEF Mine, Written, RamOK, SnapOK, NotesOK, DbOK, KeepOK, Still, Newer,
     At, Busy, Swapping
<1> QED
  BY <1>1, <1>2, <1>6, Give DEF IndInv

LEMMA BackupFailsKeeps ==
  ASSUME IndInv, NEW r \in Runner, BackupFails(r)
  PROVE  Inv'
<1>1. At(r, "copy") /\ GoTo(r, "failed") /\ UNCHANGED <<ram, phase, quiet, writes, safe, torn>>
  BY StepNames DEF BackupFails, OnDisk, Fail
<1>2. /\ MayWork(r) /\ OnlyMine(r) /\ Mine(r) /\ persist \in Persist
      /\ snap'[r].step = "failed" /\ snap'[r].left = snap[r].left /\ snap'[r].begun = snap[r].begun
  BY <1>1, StepNames, Goes
<1>3. persist'.notes = persist.notes /\ persist'.notesNew = None
      /\ persist'.db = persist.db /\ ~persist'.dbNew
  BY <1>2 DEF BackupFails, OnDisk, Persist
<1>4. Mine(r)'
  BY <1>1, <1>2, <1>3, Facts DEF Mine, Written, RamOK, SnapOK, NotesOK, DbOK, KeepOK, Still, Newer,
     At, Busy, Swapping
<1> QED
  BY <1>1, <1>2, <1>4, Give DEF IndInv

LEMMA RemoveNotesKeeps ==
  ASSUME IndInv, NEW r \in Runner, RemoveNotes(r)
  PROVE  Inv'
<1>1. At(r, "swap") /\ GoTo(r, "rename") /\ UNCHANGED <<ram, phase, quiet, writes, safe, torn>>
  BY StepNames DEF RemoveNotes, OnDisk, Fail
<1>2. /\ MayWork(r) /\ OnlyMine(r) /\ Mine(r) /\ persist \in Persist
      /\ snap'[r].step = "rename" /\ snap'[r].left = snap[r].left /\ snap'[r].begun = snap[r].begun
  BY <1>1, StepNames, Goes
<1>3. persist'.notes = None /\ persist'.notesNew = persist.notesNew
      /\ persist'.db = persist.db /\ persist'.dbNew = persist.dbNew
  BY <1>2 DEF RemoveNotes, OnDisk, Persist
<1>4. Mine(r)'
  BY <1>1, <1>2, <1>3, Facts DEF Mine, Written, RamOK, SnapOK, NotesOK, DbOK, KeepOK, Still, Newer,
     At, Busy, Swapping
<1> QED
  BY <1>1, <1>2, <1>4, Give DEF IndInv

LEMMA RemoveDbKeeps ==
  ASSUME IndInv, NEW r \in Runner, RemoveDb(r)
  PROVE  Inv'
<1>1. At(r, "dbRemove") /\ GoTo(r, "dbRename") /\ UNCHANGED <<ram, phase, quiet, writes, safe, torn>>
  BY StepNames DEF RemoveDb, OnDisk, Fail
<1>2. /\ MayWork(r) /\ OnlyMine(r) /\ Mine(r) /\ persist \in Persist
      /\ snap'[r].step = "dbRename" /\ snap'[r].left = snap[r].left /\ snap'[r].begun = snap[r].begun
  BY <1>1, StepNames, Goes
<1>3. persist'.notes = persist.notes /\ persist'.notesNew = persist.notesNew
      /\ ~persist'.db /\ persist'.dbNew = persist.dbNew
  BY <1>2 DEF RemoveDb, OnDisk, Persist
<1>4. Mine(r)'
  BY <1>1, <1>2, <1>3, Facts DEF Mine, Written, RamOK, SnapOK, NotesOK, DbOK, KeepOK, Still, Newer,
     At, Busy, Swapping
<1> QED
  BY <1>1, <1>2, <1>4, Give DEF IndInv

LEMMA BeginSnapshotKeeps ==
  ASSUME IndInv, NEW r \in Runner, NoSwapCrash, BeginSnapshot(r)
  PROVE  Inv'
<1>1. TypeOK /\ Inv /\ Phases
  BY DEF IndInv, Inv
<1>2. MayWork(r) /\ UNCHANGED <<ram, phase, quiet, writes, safe, torn>>
  BY DEF BeginSnapshot, OnDisk, NoSwapCrash, Allowed, MayWork
<1>3. Mine(r) /\ ram \in Notes
  BY <1>1, <1>2, Take, TypeParts
<1>4. /\ snap'[r].step = "copy" /\ snap'[r].left = Note /\ snap'[r].begun = ram
      /\ \A q \in Runner \ {r} : snap'[q] = snap[q]
  BY <1>1, TypeParts DEF BeginSnapshot
<1>5. OnlyMine(r)
  BY <1>2, <1>4 DEF OnlyMine
<1>6. /\ persist'.notes = persist.notes /\ persist'.notesNew = NoNotes /\ persist'.db = persist.db
  BY <1>1, TypeParts DEF BeginSnapshot, OnDisk, Persist
<1>8. ~At(r, "rename") /\ ~Swapping(r)
  BY StepNames DEF BeginSnapshot, Swapping, Busy, At
<1>9. Newer(ram, ram) /\ Newer(ram, safe) /\ writes \in Nat
  BY <1>1, <1>2, <1>3, Facts DEF Mine, RamOK, MayWork, Newer, TypeOK, Notes
<1>10. Mine(r)'
  <2>1. Written'
    BY <1>2, <1>3, <1>6, <1>9, Facts DEF Mine, Written
  <2>2. SnapOK(r)'
    BY <1>2, <1>4, <1>6, <1>9, Facts DEF SnapOK, At, Busy, Swapping
  <2> QED
    BY <1>2, <1>3, <1>4, <1>6, <1>8, <2>1, <2>2 DEF Mine, RamOK, NotesOK, DbOK, KeepOK,
       Still, At, Swapping, Newer
<1> QED
  BY <1>1, <1>2, <1>5, <1>10, Give

LEMMA CopyNoteKeeps ==
  ASSUME IndInv, NEW r \in Runner, NEW n \in Note, CopyNote(r, n)
  PROVE  Inv'
<1>1. TypeOK /\ Inv /\ Phases /\ At(r, "copy") /\ UNCHANGED <<ram, phase, quiet, writes, safe, torn>>
  BY DEF IndInv, Inv, CopyNote, OnDisk
<1>2. MayWork(r)
  BY <1>1, StepNames, Alone
<1>3. Mine(r) /\ ram \in Notes /\ persist \in Persist
  BY <1>1, <1>2, Take, TypeParts
<1>4. /\ snap'[r].step = "copy" /\ snap'[r].left = snap[r].left \ {n}
      /\ snap'[r].begun = snap[r].begun
      /\ \A q \in Runner \ {r} : snap'[q] = snap[q]
  BY <1>1, TypeParts DEF CopyNote, At, Snap
<1>5. OnlyMine(r)
  BY <1>1, <1>4 DEF OnlyMine
<1>6. persist.notesNew # None /\ persist.notesNew \in Notes
  BY <1>1, <1>3 DEF Mine, SnapOK, Persist
<1>7. /\ persist'.notes = persist.notes /\ persist'.db = persist.db
      /\ persist'.notesNew = [persist.notesNew EXCEPT ![n] = ram[n]]
  BY <1>3, <1>6 DEF CopyNote, OnDisk, Persist
<1>8. /\ persist'.notesNew \in Notes
      /\ persist'.notesNew[n] = ram[n]
      /\ \A m \in Note \ {n} : persist'.notesNew[m] = persist.notesNew[m]
  BY <1>3, <1>6, <1>7 DEF Notes
<1>10. Mine(r)'
  <2>1. Written'
    BY <1>1, <1>3, <1>6, <1>7, <1>8 DEF Mine, Written
  <2>2. SnapOK(r)'
    <3>1. Newer(ram, snap[r].begun) /\ Newer(snap[r].begun, safe)
      <4>1. Busy(r) /\ ~At(r, "idle")
        BY <1>1 DEF At, Busy
      <4> QED
        BY <1>3, <4>1 DEF Mine, SnapOK
    <3>2. \A m \in Note \ snap[r].left : persist.notesNew[m] >= snap[r].begun[m]
      BY <1>1, <1>3 DEF Mine, SnapOK
    <3>3. \A m \in Note \ (snap[r].left \ {n}) : persist'.notesNew[m] >= snap[r].begun[m]
      BY <1>8, <3>1, <3>2 DEF Newer
    <3>4. persist'.notesNew # None
      BY <1>8, Facts
    <3> QED
      BY <1>1, <1>4, <3>1, <3>3, <3>4 DEF SnapOK, At, Busy, Swapping, Newer
  <2>3. Still' => KeepOK(r)'
    BY <1>1, <1>3, <1>4, <1>8 DEF Mine, KeepOK, Still, At
  <2> QED
    BY <1>1, <1>3, <1>4, <1>7, <2>1, <2>2, <2>3 DEF Mine, RamOK, NotesOK, DbOK,
       Still, At, Swapping, Newer
<1> QED
  BY <1>1, <1>2, <1>5, <1>10, Give

LEMMA RenameNotesKeeps ==
  ASSUME IndInv, NEW r \in Runner, RenameNotes(r)
  PROVE  Inv'
<1>1. At(r, "rename") /\ Busy(r)
  BY StepNames DEF RenameNotes
<1>2. TypeOK /\ Inv /\ Phases
  BY DEF IndInv, Inv
<1>3. Mine(r)
  BY <1>1, <1>2, Alone, Take
<1>4. persist.notesNew # None /\ persist.notes = None
  BY <1>1, <1>3 DEF Mine, SnapOK
<1>5. GoTo(r, "dbRemove") /\ UNCHANGED <<ram, phase, quiet, writes, safe, torn>>
  BY DEF RenameNotes, OnDisk
<1>6. /\ MayWork(r) /\ OnlyMine(r) /\ Mine(r) /\ persist \in Persist
      /\ snap'[r].step = "dbRemove" /\ snap'[r].left = snap[r].left
      /\ snap'[r].begun = snap[r].begun
  BY <1>1, <1>5, StepNames, Goes
<1>7. /\ persist'.notes = persist.notesNew /\ persist'.notesNew = None
      /\ persist'.db = persist.db /\ persist'.dbNew = persist.dbNew
  BY <1>4, <1>6 DEF RenameNotes, OnDisk, Persist
<1>8. Newer(snap[r].begun, safe) /\ Newer(persist.notesNew, snap[r].begun)
  BY <1>1, <1>3 DEF Mine, SnapOK
<1>9. Newer(persist.notesNew, safe)
  <2>1. snap[r].begun \in Notes /\ safe \in Notes /\ persist.notesNew \in Notes
    BY <1>2, <1>4, <1>6, TypeParts DEF Persist, Snap
  <2> QED
    <3>1. ASSUME NEW n \in Note
          PROVE  persist.notesNew[n] >= safe[n]
      <4>1. snap[r].begun[n] \in Nat /\ safe[n] \in Nat /\ persist.notesNew[n] \in Nat
        BY <2>1, Facts DEF Notes
      <4> QED
        BY <1>8, <4>1 DEF Newer
    <3> QED
      BY <3>1 DEF Newer
<1>10. Mine(r)'
  BY <1>1, <1>4, <1>5, <1>6, <1>7, <1>8, <1>9 DEF Mine, Written, RamOK, SnapOK, NotesOK, DbOK,
     KeepOK, Still, Newer, At, Busy, Swapping
<1> QED
  BY <1>2, <1>5, <1>6, <1>10, Give

LEMMA RenameNotesFailsKeeps ==
  ASSUME IndInv, NEW r \in Runner, RenameNotesFails(r)
  PROVE  Inv'
<1>1. At(r, "rename") /\ GoTo(r, "failed") /\ UNCHANGED <<ram, phase, quiet, writes>>
  BY DEF RenameNotesFails, OnDisk, Fail
<1>2. /\ MayWork(r) /\ OnlyMine(r) /\ Mine(r) /\ persist \in Persist
      /\ snap'[r].step = "failed" /\ snap'[r].left = snap[r].left /\ snap'[r].begun = snap[r].begun
  BY <1>1, StepNames, Goes
<1>3. persist'.notes = persist.notes /\ persist'.notesNew = None
      /\ persist'.db = persist.db /\ ~persist'.dbNew
  BY <1>2 DEF RenameNotesFails, OnDisk, Persist
<1>4. persist.notes = None /\ safe' = NoNotes /\ torn'
  BY <1>1, <1>2 DEF RenameNotesFails, Mine, SnapOK
<1>5. Newer(ram, NoNotes)
  <2>1. ram \in Notes
    BY TypeParts DEF IndInv
  <2>2. ASSUME NEW n \in Note PROVE ram[n] >= 0
    <3>1. ram[n] \in 0 .. MaxWrites
      BY <2>1 DEF Notes
    <3> QED
      BY <3>1, Facts
  <2> QED
    BY <2>2, Facts DEF Newer
<1>6. Mine(r)'
  BY <1>1, <1>2, <1>3, <1>4, <1>5, Facts DEF Mine, Written, RamOK, SnapOK, NotesOK, DbOK, KeepOK, Still,
     Newer, At, Busy, Swapping
<1> QED
  BY <1>1, <1>2, <1>6, Give DEF IndInv

LEMMA RenameDbFailsKeeps ==
  ASSUME IndInv, NEW r \in Runner, RenameDbFails(r)
  PROVE  Inv'
<1>1. At(r, "dbRename") /\ GoTo(r, "failed") /\ UNCHANGED <<ram, phase, quiet, writes, safe>> /\ torn'
  BY DEF RenameDbFails, OnDisk, Fail
<1>2. /\ MayWork(r) /\ OnlyMine(r) /\ Mine(r) /\ persist \in Persist
      /\ snap'[r].step = "failed" /\ snap'[r].left = snap[r].left /\ snap'[r].begun = snap[r].begun
  BY <1>1, StepNames, Goes
<1>3. persist'.notes = persist.notes /\ persist'.notesNew = persist.notesNew
      /\ persist'.db = persist.db /\ ~persist'.dbNew
  BY <1>2 DEF RenameDbFails, OnDisk, Persist
<1>4. Mine(r)'
  BY <1>1, <1>2, <1>3, Facts DEF Mine, Written, RamOK, SnapOK, NotesOK, DbOK, KeepOK, Still, Newer,
     At, Busy, Swapping
<1> QED
  BY <1>1, <1>2, <1>4, Give DEF IndInv

LEMMA RenameDbKeeps ==
  ASSUME IndInv, NEW r \in Runner, RenameDb(r)
  PROVE  Inv'
<1>1. At(r, "dbRename") /\ Busy(r) /\ UNCHANGED <<ram, phase, quiet, writes>>
  BY StepNames DEF RenameDb, OnDisk
<1>2. TypeOK /\ Inv /\ Phases
  BY DEF IndInv, Inv
<1>3. Mine(r)
  BY <1>1, <1>2, Alone, Take
<1>4. /\ persist.dbNew /\ persist.notes # None /\ Newer(persist.notes, snap[r].begun)
      /\ Newer(ram, snap[r].begun)
      /\ Still => persist.notes = ram
  BY <1>1, <1>3 DEF Mine, SnapOK, Swapping, At, KeepOK
<1>5. GoTo(r, "done") /\ safe' = snap[r].begun
  BY DEF RenameDb
<1>6. /\ MayWork(r) /\ OnlyMine(r) /\ persist \in Persist
      /\ snap'[r].step = "done" /\ snap'[r].left = snap[r].left
      /\ snap'[r].begun = snap[r].begun
  BY <1>1, <1>5, StepNames, Goes
<1>7. /\ persist'.notes = persist.notes /\ persist'.notesNew = persist.notesNew /\ persist'.db
  BY <1>4, <1>6 DEF RenameDb, OnDisk, Persist
<1>8. Mine(r)'
  BY <1>1, <1>3, <1>4, <1>5, <1>6, <1>7 DEF Mine, Written, RamOK, SnapOK, NotesOK, DbOK,
     KeepOK, Still, Newer, At, Busy, Swapping
<1> QED
  BY <1>1, <1>2, <1>6, <1>8, Give

-----------------------------------------------------------------------------
\* What the final snapshot leaves, and what the loop does to it

LEMMA NewerTrans ==
  ASSUME NEW f \in Notes, NEW g \in Notes, NEW h \in Notes, Newer(f, g), Newer(g, h)
  PROVE  Newer(f, h)
<1> SUFFICES ASSUME NEW n \in Note PROVE f[n] >= h[n]
  BY DEF Newer
<1>1. f[n] \in Nat /\ g[n] \in Nat /\ h[n] \in Nat
  BY Facts DEF Notes
<1>2. f[n] >= g[n] /\ g[n] >= h[n]
  BY DEF Newer
<1> QED
  BY <1>1, <1>2

LEMMA BeginSnapshotEnds ==
  ASSUME IndInv, NEW r \in Runner, NoSwapCrash, BeginSnapshot(r)
  PROVE  Ends'
<1>1. /\ snap'[r].step = "copy" /\ snap'[r].begun = ram
      /\ \A q \in Runner \ {r} : snap'[q] = snap[q]
      /\ persist'.notes = persist.notes
      /\ UNCHANGED <<ram, phase, quiet, torn>>
      /\ \A q \in Runner : ~Busy(q)
  <2>1. snap \in [Runner -> Snap] /\ persist \in Persist
    BY TypeParts DEF IndInv
  <2> QED
    BY <2>1 DEF BeginSnapshot, OnDisk, Snap, Persist, NoSwapCrash, Allowed
<1>2. CASE r = "final"
  BY <1>1, <1>2 DEF Ends, LoopAfter, FinalOK, At
<1>3. CASE r = "loop"
  <2>1. snap'["final"] = snap["final"] /\ "final" \in Runner
    BY <1>1, <1>3 DEF Runner
  <2>2. At("final", "done") => Newer(ram, snap["final"].begun)
    BY <2>1 DEF IndInv, Inv, SnapOK, At
  <2>3. \A q \in Runner : ~At(q, "rename")
    BY <1>1, StepNames
  <2>4. LoopAfter'
    BY <1>1, <1>3, <2>1, <2>2 DEF LoopAfter, At, Newer
  <2>5. FinalOK'
    BY <1>1, <2>1, <2>3 DEF IndInv, Ends, FinalOK, At, Still, Newer
  <2> QED
    BY <2>4, <2>5 DEF Ends
<1> QED
  BY <1>2, <1>3 DEF Runner

\* Every other step leaves begun as it was.
LEMMA LoopAfterKept ==
  ASSUME IndInv, NEW r \in Runner, Busy(r), r = "loop" => Busy("loop"),
         snap'[r].begun = snap[r].begun, \A q \in Runner \ {r} : snap'[q] = snap[q]
  PROVE  LoopAfter'
<1>1. ~Busy("loop") \/ ~Busy("final")
  BY DEF IndInv, Inv, Phases
<1>2. CASE r = "loop"
  <2>1. snap'["final"] = snap["final"]
    BY <1>2 DEF Runner
  <2> QED
    BY <1>2, <2>1 DEF IndInv, Ends, LoopAfter, At, Newer
<1>3. CASE r = "final"
  <2>1. snap'["loop"] = snap["loop"]
    BY <1>3 DEF Runner
  <2> QED
    BY <1>1, <1>3, <2>1 DEF LoopAfter, Busy
<1> QED
  BY <1>2, <1>3 DEF Runner

\* The steps that leave persistDir/notes alone and do not end in success.
LEMMA FinalKept ==
  ASSUME IndInv, NEW r \in Runner, Busy(r), ~At(r, "rename"),
         snap'[r].step # "done", snap'[r].begun = snap[r].begun,
         \A q \in Runner \ {r} : snap'[q] = snap[q],
         persist'.notes = persist.notes, UNCHANGED <<ram, phase, quiet>>, torn' = torn \/ torn'
  PROVE  FinalOK'
<1>1. \A q \in Runner : ~At(q, "rename")
  <2>1. MayWork(r)
    BY Alone DEF IndInv, Inv
  <2> QED
    BY <2>1, StepNames DEF MayWork
<1>2. At("final", "done")' => At("final", "done") /\ snap'["final"].begun = snap["final"].begun
  BY DEF Runner, At
<1>3. ~torn' => ~torn
  BY DEF IndInv, TypeOK
<1>4. Still' => Still
  BY DEF Still
<1> QED
  BY <1>1, <1>2, <1>3, <1>4 DEF IndInv, Ends, FinalOK, Newer

LEMMA SnapshotEnds ==
  ASSUME IndInv, NoSwapCrash, NEW r \in Runner, SnapshotStep(r)
  PROVE  Ends'
<1>0. snap \in [Runner -> Snap] /\ persist \in Persist /\ ram \in Notes
  BY TypeParts DEF IndInv
<1>k. {"copy", "swap", "rename", "dbRemove", "dbRename", "done", "failed"} \subseteq Step
  BY DEF Step
<1>1. CASE BeginSnapshot(r)
  BY <1>1, BeginSnapshotEnds
<1>2. ASSUME NEW n \in Note, CopyNote(r, n) PROVE Ends'
  <2>1. /\ At(r, "copy") /\ snap'[r].step = "copy" /\ snap'[r].begun = snap[r].begun
        /\ \A q \in Runner \ {r} : snap'[q] = snap[q]
        /\ persist'.notes = persist.notes /\ UNCHANGED <<ram, phase, quiet, torn>>
    BY <1>0, <1>2 DEF CopyNote, OnDisk, At, Snap, Persist
  <2>2. Busy(r) /\ ~At(r, "rename")
    BY <2>1 DEF At, Busy
  <2> QED
    BY <2>1, <2>2, LoopAfterKept, FinalKept DEF Ends
<1>3. CASE CopyFails(r) \/ BackupDb(r) \/ BackupFails(r) \/ RemoveDb(r) \/ RenameDbFails(r)
  <2>1. PICK s \in Step \ {"idle", "done"} : GoTo(r, s)
    BY <1>3, <1>k DEF CopyFails, BackupDb, BackupFails, RemoveDb, RenameDbFails, Fail
  <2>2. /\ snap'[r].step = s /\ snap'[r].begun = snap[r].begun
        /\ \A q \in Runner \ {r} : snap'[q] = snap[q]
    BY <1>0, <2>1, GoToFacts
  <2>3. /\ persist'.notes = persist.notes /\ UNCHANGED <<ram, phase, quiet>>
        /\ torn' = torn \/ torn'
    BY <1>0, <1>3 DEF CopyFails, BackupDb, BackupFails, RemoveDb, RenameDbFails, OnDisk, Persist
  <2>4. Busy(r) /\ ~At(r, "rename")
    BY <1>3 DEF CopyFails, BackupDb, BackupFails, RemoveDb, RenameDbFails, Copied, At, Busy
  <2> QED
    BY <2>2, <2>3, <2>4, LoopAfterKept, FinalKept DEF Ends
<1>4. CASE RemoveNotes(r) \/ RenameNotesFails(r)
  <2>1. PICK s \in {"rename", "failed"} : GoTo(r, s)
    BY <1>4 DEF RemoveNotes, RenameNotesFails, Fail
  <2>2. /\ snap'[r].step = s /\ snap'[r].begun = snap[r].begun
        /\ \A q \in Runner \ {r} : snap'[q] = snap[q]
    BY <1>0, <1>k, <2>1, GoToFacts
  <2>3. Busy(r)
    BY <1>4 DEF RemoveNotes, RenameNotesFails, At, Busy
  <2>4. At(r, "rename")' \/ torn'
    <3>1. CASE RemoveNotes(r)
      BY <1>0, <1>k, <3>1, GoToFacts DEF RemoveNotes, At
    <3>2. CASE RenameNotesFails(r)
      BY <3>2 DEF RenameNotesFails
    <3> QED
      BY <1>4, <3>1, <3>2
  <2> QED
    BY <2>2, <2>3, <2>4, LoopAfterKept DEF Ends, FinalOK
<1>5. CASE RenameNotes(r)
  <2>1. /\ snap'[r].step = "dbRemove" /\ snap'[r].begun = snap[r].begun
        /\ \A q \in Runner \ {r} : snap'[q] = snap[q]
    BY <1>0, <1>k, <1>5, GoToFacts DEF RenameNotes
  <2>2. /\ At(r, "rename") /\ Busy(r) /\ persist.notesNew # None
        /\ persist'.notes = persist.notesNew /\ UNCHANGED <<ram, phase, quiet, torn>>
    BY <1>0, <1>5 DEF RenameNotes, CanRename, OnDisk, Persist, At, Busy
  <2>3. FinalOK'
    <3>1. CASE ~At("final", "done")'
      BY <3>1 DEF FinalOK
    <3>2. CASE At("final", "done")'
      <4>1. r = "loop" /\ snap'["final"] = snap["final"] /\ At("final", "done")
        BY <2>1, <3>2 DEF Runner, At
      <4>2. Newer(snap["loop"].begun, snap["final"].begun)
        BY <2>2, <4>1 DEF IndInv, Ends, LoopAfter
      <4>3. Newer(persist.notesNew, snap["loop"].begun) /\ (Still => persist.notesNew = ram)
        BY <2>2, <4>1 DEF IndInv, Inv, SnapOK, KeepOK
      <4>4. /\ persist.notesNew \in Notes
            /\ snap["loop"].begun \in Notes /\ snap["final"].begun \in Notes
        BY <1>0, <2>2 DEF Persist, Snap, Runner
      <4>5. Newer(persist'.notes, snap'["final"].begun)
        BY <2>2, <4>1, <4>2, <4>3, <4>4, NewerTrans
      <4>6. Still' => persist'.notes = ram'
        BY <2>2, <4>3 DEF Still
      <4> QED
        BY <2>2, <4>5, <4>6 DEF FinalOK, Newer
    <3> QED
      BY <3>1, <3>2
  <2> QED
    BY <2>1, <2>2, <2>3, LoopAfterKept DEF Ends
<1>6. CASE RenameDb(r)
  <2>1. /\ snap'[r].step = "done" /\ snap'[r].begun = snap[r].begun
        /\ \A q \in Runner \ {r} : snap'[q] = snap[q]
    BY <1>0, <1>k, <1>6, GoToFacts DEF RenameDb
  <2>2. /\ At(r, "dbRename") /\ Busy(r)
        /\ persist'.notes = persist.notes /\ UNCHANGED <<ram, phase, quiet>>
    BY <1>0, <1>6 DEF RenameDb, OnDisk, Persist, At, Busy
  <2>3. /\ persist.notes # None /\ Newer(persist.notes, snap[r].begun)
        /\ Still => persist.notes = ram
    BY <2>2 DEF IndInv, Inv, SnapOK, KeepOK
  <2>4. FinalOK'
    <3> SUFFICES ASSUME At("final", "done")' PROVE Newer(persist.notes, snap["final"].begun)
                                                  /\ snap'["final"].begun = snap["final"].begun
      <4>1. Still' => Still
        BY <2>2 DEF Still
      <4> QED
        BY <2>2, <2>3, <4>1 DEF FinalOK, Newer
    <3>1. CASE r = "final"
      BY <2>1, <2>3, <3>1
    <3>2. CASE r = "loop"
      <4>1. snap'["final"] = snap["final"] /\ At("final", "done")
        BY <2>1, <3>2 DEF Runner, At
      <4>2. Newer(snap["loop"].begun, snap["final"].begun)
        BY <2>2, <3>2, <4>1 DEF IndInv, Ends, LoopAfter
      <4>3. /\ persist.notes \in Notes
            /\ snap["loop"].begun \in Notes /\ snap["final"].begun \in Notes
        BY <1>0, <2>3 DEF Persist, Snap, Runner
      <4> QED
        BY <2>3, <3>2, <4>1, <4>2, <4>3, NewerTrans
    <3> QED
      BY <3>1, <3>2 DEF Runner
  <2> QED
    BY <2>1, <2>2, <2>4, LoopAfterKept DEF Ends
<1> QED
  BY <1>1, <1>2, <1>3, <1>4, <1>5, <1>6 DEF SnapshotStep

-----------------------------------------------------------------------------
\* main and the writers

LEMMA WriteNoteKeeps ==
  ASSUME IndInv, NEW n \in Note, WriteNote(n)
  PROVE  Inv'
<1>1. /\ TypeOK /\ Inv /\ UNCHANGED <<persist, phase, quiet, snap, safe, torn>> /\ ~Still
      /\ writes \in Nat /\ writes' = writes + 1
  BY Facts DEF IndInv, WriteNote, Allowed, Still, TypeOK
<1>2. /\ ram \in Notes /\ ram'[n] = writes + 1
      /\ \A m \in Note \ {n} : ram'[m] = ram[m]
  BY <1>1, TypeParts DEF WriteNote, Notes
<1>3. \A m \in Note : ram[m] \in Nat /\ ram[m] <= writes
  BY <1>1, <1>2, Facts DEF Inv, Written, Notes
<1>4. \A m \in Note : ram'[m] >= ram[m] /\ ram'[m] \in Nat /\ ram'[m] <= writes'
  BY <1>1, <1>2, <1>3
<1>5. Written'
  <2>1. ASSUME NEW f \in Notes, \A m \in Note : f[m] <= writes
        PROVE  \A m \in Note : f[m] <= writes + 1
    BY <1>1, <2>1, Facts DEF Notes
  <2>2. /\ persist.notes # None => persist.notes \in Notes
        /\ persist.notesNew # None => persist.notesNew \in Notes
    BY <1>1 DEF TypeOK
  <2> QED
    BY <1>1, <1>4, <2>1, <2>2 DEF Inv, Written
<1>6. \A f \in Notes : Newer(ram, f) => Newer(ram', f)
  BY <1>3, <1>4, Facts DEF Newer, Notes
<1>7. safe \in Notes /\ \A r \in Runner : snap[r].begun \in Notes
  BY <1>1, TypeParts DEF Snap
<1>8. RamOK'
  BY <1>1, <1>6, <1>7 DEF Inv, RamOK, Newer
<1>9. ASSUME NEW r \in Runner
      PROVE  SnapOK(r)'
  <2>1. SnapOK(r)
    BY <1>1 DEF Inv
  <2>2. Newer(ram, snap[r].begun) => Newer(ram', snap[r].begun)
    BY <1>6, <1>7
  <2> QED
    BY <1>1, <2>1, <2>2 DEF SnapOK, At, Busy, Swapping, Newer
<1>10. Phases' /\ DiskOK' /\ ~Still'
  BY <1>1 DEF Inv, Phases, DiskOK, NotesOK, DbOK, Still, At, Busy, Swapping, Newer
<1> QED
  BY <1>5, <1>8, <1>9, <1>10 DEF Inv

LEMMA StartServerKeeps ==
  ASSUME IndInv, StartServer
  PROVE  Inv'
<1>1. /\ TypeOK /\ Inv /\ phase = "down" /\ phase' = "up"
      /\ UNCHANGED <<persist, quiet, snap, safe, torn, writes>>
  BY DEF IndInv, StartServer
<1>2. \A r \in Runner : At(r, "idle") /\ ~Busy(r) /\ ~At(r, "rename")
  BY <1>1 DEF Inv, Phases, At, Busy
<1>3. NotesOK
  BY <1>1, <1>2 DEF Inv, DiskOK
<1>4. Written' /\ RamOK'
  BY <1>1, <1>3, Facts DEF StartServer, Inv, Written, RamOK, NotesOK, Newer, TypeOK, Notes
<1>5. Phases' /\ DiskOK' /\ ~Still'
  BY <1>1, <1>2 DEF Inv, Phases, DiskOK, NotesOK, DbOK, Still, At, Busy, Swapping, Newer
<1>6. \A r \in Runner : SnapOK(r)'
  BY <1>1, <1>2 DEF SnapOK, Busy, At, Swapping
<1> QED
  BY <1>4, <1>5, <1>6 DEF Inv

LEMMA PhaseStepKeeps ==
  ASSUME IndInv, NoSwapCrash, Shutdown \/ StopLoop
  PROVE  Inv'
<1>1. /\ TypeOK /\ Inv /\ phase # "down" /\ phase' \in {"final", "stopping"}
      /\ UNCHANGED <<ram, persist, snap, safe, torn, writes>>
  BY DEF IndInv, Shutdown, StopLoop
<1>2. Phases'
  BY <1>1 DEF Shutdown, StopLoop, Inv, Phases, At, Busy
<1>3. Written' /\ DiskOK' /\ RamOK' /\ \A r \in Runner : SnapOK(r)'
  BY <1>1 DEF Inv, Written, DiskOK, NotesOK, DbOK, RamOK, SnapOK, At, Busy, Swapping, Newer
<1>4. Still' => \A r \in Runner : KeepOK(r)'
  <2>1. CASE Shutdown
    <3>1. At("final", "idle") /\ ~Busy("loop")
      BY <1>1, <2>1 DEF Shutdown, NoSwapCrash, Allowed, Inv, Phases
    <3>2. \A r \in Runner : ~Busy(r)
      BY <3>1 DEF Runner, At, Busy
    <3> QED
      BY <1>1, <3>2 DEF KeepOK, At, Busy
  <2>2. CASE StopLoop
    BY <1>1, <2>2 DEF StopLoop, Inv, Still, KeepOK, At
  <2> QED
    BY <2>1, <2>2
<1> QED
  BY <1>2, <1>3, <1>4 DEF Inv

\* The process ends between two swaps.
LEMMA EndKeeps ==
  ASSUME IndInv, ProcessEnds, \A r \in Runner : ~Swapping(r)
  PROVE  Inv'
<1>1. /\ TypeOK /\ Inv /\ phase' = "down" /\ UNCHANGED <<persist, safe, torn, writes>>
      /\ ram' \in {ram, NoNotes}
  BY DEF IndInv, ProcessEnds
<1>2. \A r \in Runner : snap'[r].step = "idle"
  BY DEF ProcessEnds, NoSnap
<1>3. \A r \in Runner : ~At(r, "rename")
  BY DEF Swapping, At
<1>4. Phases'
  BY <1>1, <1>2 DEF Phases, Runner, At, Busy
<1>5. Written'
  BY <1>1, Facts DEF Inv, Written, TypeOK
<1>6. DiskOK'
  BY <1>1, <1>3 DEF Inv, DiskOK, NotesOK, DbOK, Newer
<1>7. RamOK' /\ ~Still' /\ \A r \in Runner : SnapOK(r)'
  BY <1>1, <1>2 DEF RamOK, Still, SnapOK, At, Busy, Swapping
<1> QED
  BY <1>4, <1>5, <1>6, <1>7 DEF Inv

LEMMA MainEnds ==
  ASSUME IndInv, NoSwapCrash,
         \/ StartServer \/ Shutdown \/ StopLoop \/ ProcessEnds
         \/ \E n \in Note : WriteNote(n)
  PROVE  Ends'
<1>1. CASE StopLoop \/ \E n \in Note : WriteNote(n)
  <2>1. UNCHANGED <<persist, snap, torn>>
    BY <1>1 DEF StopLoop, WriteNote
  <2>2. Still' => Still /\ ram' = ram
    BY <1>1 DEF StopLoop, WriteNote, Still
  <2> QED
    BY <2>1, <2>2 DEF IndInv, Ends, LoopAfter, FinalOK, At, Busy, Newer
<1>2. CASE StartServer \/ Shutdown
  <2>1. ~At("final", "done") /\ UNCHANGED snap
    BY <1>2 DEF StartServer, Shutdown, IndInv, Inv, Phases, At
  <2> QED
    BY <2>1 DEF Ends, LoopAfter, FinalOK, At
<1>3. CASE ProcessEnds
  <2>1. ~At("final", "done")'
    BY <1>3 DEF ProcessEnds, NoSnap, At, Runner
  <2> QED
    BY <2>1 DEF Ends, LoopAfter, FinalOK
<1> QED
  BY <1>1, <1>2, <1>3

LEMMA NextKeeps ==
  ASSUME IndInv, NoSwapCrash, [Next]_vars
  PROVE  IndInv'
<1>0. TypeOK' /\ TypeOK /\ Inv
  BY NextTypeOK DEF IndInv
<1> SUFFICES Inv' /\ Ends'
  BY <1>0 DEF IndInv
<1>1. ASSUME NEW n \in Note, WriteNote(n) PROVE Inv' /\ Ends'
  BY <1>1, WriteNoteKeeps, MainEnds
<1>2. CASE StartServer
  BY <1>2, StartServerKeeps, MainEnds
<1>3. CASE Shutdown \/ StopLoop
  BY <1>3, PhaseStepKeeps, MainEnds
<1>4. CASE Exit
  <2>1. phase = "stopping" /\ ~Busy("loop") /\ ProcessEnds
    BY <1>4 DEF Exit
  <2>2. ~Busy("final")
    BY <1>0, <2>1 DEF Inv, Phases, At, Busy
  <2>3. \A r \in Runner : ~Swapping(r)
    BY <2>1, <2>2 DEF Runner, Busy, Swapping
  <2> QED
    BY <2>1, <2>3, EndKeeps, MainEnds
<1>5. CASE Crash
  <2>1. \A r \in Runner : ~Swapping(r)
    BY <1>5 DEF Crash, Swapping, NoSwapCrash, Allowed
  <2> QED
    BY <1>5, <2>1, EndKeeps, MainEnds DEF Crash
<1>6. ASSUME NEW r \in Runner, SnapshotStep(r) PROVE Inv' /\ Ends'
  <2>1. Inv'
    BY <1>6, BeginSnapshotKeeps, CopyNoteKeeps, CopyFailsKeeps, BackupDbKeeps, BackupFailsKeeps,
       RemoveNotesKeeps, RenameNotesKeeps, RenameNotesFailsKeeps, RemoveDbKeeps, RenameDbKeeps,
       RenameDbFailsKeeps DEF SnapshotStep
  <2> QED
    BY <1>6, <2>1, SnapshotEnds
<1>7. CASE UNCHANGED vars
  <2>1. Ends
    BY DEF IndInv
  <2>2. Inv'
    BY <1>0, <1>7 DEF vars, Inv, Phases, Written, DiskOK, NotesOK, DbOK, RamOK, SnapOK, Still,
       KeepOK, At, Busy, Swapping, Newer
  <2>3. Ends'
    BY <1>7, <2>1 DEF vars, Ends, LoopAfter, FinalOK, Still, At, Busy, Newer
  <2> QED
    BY <2>2, <2>3
<1> QED
  BY <1>1, <1>2, <1>3, <1>4, <1>5, <1>6, <1>7 DEF Next

LEMMA InitHolds == Init => IndInv
<1> SUFFICES ASSUME Init PROVE IndInv
  OBVIOUS
<1>1. TypeOK
  BY InitTypeOK
<1>2. \A r \in Runner : snap[r].step = "idle"
  BY DEF Init, NoSnap
<1>3. Phases
  BY <1>2 DEF Init, Phases, Runner, At, Busy
<1>4. Written /\ DiskOK /\ RamOK /\ ~Still
  BY Facts DEF Init, Written, DiskOK, NotesOK, DbOK, RamOK, Still, Newer
<1>5. \A r \in Runner : SnapOK(r)
  BY <1>2 DEF SnapOK, At, Busy, Swapping
<1>6. Ends
  BY <1>2 DEF Ends, LoopAfter, FinalOK, At, Runner
<1> QED
  BY <1>1, <1>3, <1>4, <1>5, <1>6 DEF IndInv, Inv

LEMMA Invariance ==
  ASSUME NoSwapCrash
  PROVE  Spec => []IndInv
<1>1. IndInv /\ [Next]_vars => IndInv'
  BY NextKeeps
<1> QED
  BY <1>1, InitHolds, PTL DEF Spec

-----------------------------------------------------------------------------

\* doSnapshot and RestoreFromPersist: while no crash falls into a swap and the two
\* runners do not meet, every server that starts has what the last successful
\* snapshot had, or newer, after any number of crashes, failures and restarts.
THEOREM NoSnapshotIsLost ==
  ASSUME NoSwapCrash
  PROVE  Spec => []SnapshotSurvives
<1>1. IndInv => SnapshotSurvives
  BY DEF IndInv, Inv, RamOK, SnapshotSurvives, Newer
<1> QED
  BY <1>1, Invariance, PTL

\* doSnapshot: under the same conditions the notes and meta.db are persisted both or
\* neither whenever no snapshot is in progress, whichever of the copies, backups and
\* snapshots failed, unless a renaming did and no snapshot has succeeded since.
THEOREM PersistedTogether ==
  ASSUME NoSwapCrash
  PROVE  Spec => []PersistWhole
<1>1. IndInv => PersistWhole
  <2>1. ASSUME \A r \in Runner : ~Busy(r) PROVE \A r \in Runner : ~Swapping(r)
    BY <2>1 DEF Busy, Swapping
  <2> QED
    BY <2>1 DEF IndInv, Inv, DiskOK, DbOK, PersistWhole
<1> QED
  BY <1>1, Invariance, PTL

\* FinalSnapshot: a shutdown whose last snapshot succeeded persists every note as it
\* was when that snapshot began, or newer, whatever handlers Shutdown gave up on and
\* the relay poller go on to write, and also when the loop takes one more snapshot
\* after it.  If nobody writes any more it persists the RAM.
THEOREM ShutdownLosesNothing ==
  ASSUME NoSwapCrash
  PROVE  Spec => []ShutdownKeepsAll
<1>1. IndInv => ShutdownKeepsAll
  <2> SUFFICES ASSUME IndInv, phase = "stopping",
                      At("final", "done"), ~Busy("loop"), ~torn
               PROVE  /\ persist.notes # None
                      /\ \A n \in Note : persist.notes[n] >= snap["final"].begun[n]
                      /\ quiet => persist.notes = ram
    BY DEF ShutdownKeepsAll
  <2>1. \A r \in Runner : ~At(r, "rename")
    BY DEF Runner, At, Busy
  <2> QED
    BY <2>1 DEF IndInv, Ends, Still, FinalOK, Newer
<1> QED
  BY <1>1, Invariance, PTL
=============================================================================
