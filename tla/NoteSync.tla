------------------------------ MODULE NoteSync ------------------------------
(***************************************************************************)
(* The Stonepad sync engine: the Flutter clients (NotesState, the manifest *)
(* they keep, StorageService, SyncService) and the object store the server *)
(* shows them over S3.                                                     *)
(*                                                                         *)
(* A client is one Dart isolate: code runs without interruption from one   *)
(* await to the next, and everything that is waiting may continue in any   *)
(* order.  One action is one such stretch.  A request that reaches the     *)
(* server takes effect in the action that sends it (the S3 handlers read   *)
(* or rename one file); its answer is used in a later action.              *)
(*                                                                         *)
(* A note version is known by its SHA-256: a member of Content stands both *)
(* for the text and for its hash (no collisions), and None for an absent   *)
(* file, an absent object and the empty string of lastSyncedHash.          *)
(***************************************************************************)
EXTENDS Naturals

CONSTANTS
  Device,        \* the installations of the app that share one workspace
  Cycle,         \* runSyncCycle() calls that may be in progress in one device
  Path,          \* note paths
  Content,       \* note versions
  Blank,         \* the version a new note starts with
  None,
  Refused,       \* the <<path, version>> pairs the server refuses to store
  Disturbances,  \* what the environment may do, see Disturbance
  Threshold,     \* failureBackoffThreshold: after as many failures in a row, no more cycles
  MaxSaves,      \* bound: user operations in a behaviour
  MaxFaults      \* bound: failures, restarts and remote deletions in a behaviour

(***************************************************************************)
(* "overlap"          two sync cycles, of any devices, are in progress     *)
(* "editDuringCycle"  the user edits while a sync cycle is in progress     *)
(* "loss"             a request or its answer is lost                      *)
(* "diskError"        manifest.json cannot be written                      *)
(* "slowSave"         manifest.json is replaced some time after its text   *)
(*                    is taken: saves overtake each other, or fail         *)
(* "crash"            the app is killed in the middle of an operation      *)
(* "reload"           the note list is opened anew, and loads the manifest *)
(* "earlySync"        the manifest is loaded while a cycle, an operation   *)
(*                    or a save is in progress                             *)
(* "delete"           the user deletes notes                               *)
(* "remoteDelete"     a note is deleted through the server's native API    *)
(* The code excludes none of them.  Leaving one out of Disturbances says   *)
(* what a property needs from the environment.                             *)
(***************************************************************************)
Disturbance == {"overlap", "editDuringCycle", "loss", "diskError", "slowSave", "crash",
                "reload", "earlySync", "delete", "remoteDelete"}

ASSUME ConstantsAssumption ==
  /\ Blank \in Content
  /\ None \notin Content
  /\ Disturbances \subseteq Disturbance
  /\ Threshold \in Nat \ {0}
  /\ MaxSaves \in Nat
  /\ MaxFaults \in Nat

VARIABLES
  object,         \* server: the file behind each key
  disk,           \* device: notes/default/<path>
  manifest,       \* device: NotesState._manifest, in memory
  savedManifest,  \* device: manifest.json
  writing,        \* device: the texts that are being written to manifest.json
  savePending,    \* device: a saveManifest() nobody awaits is about to take its text
  conflictFiles,  \* device: the files under conflicts/, as <<path, version>>
  loaded,         \* device: loadManifest() has run in this process
  failures,       \* device: cycles failed in a row; at Threshold it is manualOnly
  editor,         \* device: the NotesState operation in progress
  cycle,          \* device: its sync cycles
  everStored,     \* history: the versions the server has held for each path
  saves, faults   \* counters for the two bounds

clientVars == <<manifest, savedManifest, writing, savePending, conflictFiles>>
vars == <<object, disk, clientVars, loaded, failures, editor, cycle, everStored, saves, faults>>

Version == Content \union {None}

(***************************************************************************)
(* NoteEntry.  NoEntry stands for a path that is not a key of the manifest.*)
(* NoteStatus.deleted is left out: no code assigns it (deleteNote removes  *)
(* the entry), so SyncService never has deletions to send.                 *)
(***************************************************************************)
Status == {"absent", "synced", "modified", "conflictPending"}
Entry == [contentHash : Version, lastSyncedHash : Version, status : Status]
NoEntry == [contentHash |-> None, lastSyncedHash |-> None, status |-> "absent"]

Synced(h) == [contentHash |-> h, lastSyncedHash |-> h, status |-> "synced"]
Modified(h, base) == [contentHash |-> h, lastSyncedHash |-> base, status |-> "modified"]

NoOp == [op |-> "none", path |-> None, content |-> None]
EditorOp == [op : {"none", "save", "create", "delete", "persist"},
             path : Path \union {None}, content : Version]

Step == {"idle", "listed", "work", "pullWrite", "pullMark", "pullSave", "pushSend",
         "pushMark", "conflictWrite", "conflictMark", "conflictSave"}
CycleState == [step : Step, list : [Path -> Version], pulls : SUBSET Path,
               pushes : SUBSET Path, conflicts : SUBSET Path,
               path : Path \union {None}, got : Version]
NoCycle == [step |-> "idle", list |-> [p \in Path |-> None], pulls |-> {},
            pushes |-> {}, conflicts |-> {}, path |-> None, got |-> None]

\* A saveManifest() whose text is taken: who waits for it, and the text.
Save == [by : {"user", "push"} \union Cycle, text : [Path -> Entry]]

TypeOK ==
  /\ object \in [Path -> Version]
  /\ disk \in [Device -> [Path -> Version]]
  /\ manifest \in [Device -> [Path -> Entry]]
  /\ savedManifest \in [Device -> [Path -> Entry]]
  /\ writing \in [Device -> SUBSET Save]
  /\ savePending \in [Device -> BOOLEAN]
  /\ conflictFiles \in [Device -> SUBSET (Path \X Content)]
  /\ loaded \in [Device -> BOOLEAN]
  /\ failures \in [Device -> 0 .. Threshold]
  /\ editor \in [Device -> EditorOp]
  /\ cycle \in [Device -> [Cycle -> CycleState]]
  /\ everStored \in [Path -> SUBSET Content]
  /\ saves \in 0 .. MaxSaves
  /\ faults \in 0 .. MaxFaults

Init ==
  /\ object = [p \in Path |-> None]
  /\ disk = [d \in Device |-> [p \in Path |-> None]]
  /\ manifest = [d \in Device |-> [p \in Path |-> NoEntry]]
  /\ savedManifest = manifest
  /\ writing = [d \in Device |-> {}]
  /\ savePending = [d \in Device |-> FALSE]
  /\ conflictFiles = [d \in Device |-> {}]
  /\ loaded = [d \in Device |-> FALSE]
  /\ failures = [d \in Device |-> 0]
  /\ editor = [d \in Device |-> NoOp]
  /\ cycle = [d \in Device |-> [k \in Cycle |-> NoCycle]]
  /\ everStored = [p \in Path |-> {}]
  /\ saves = 0
  /\ faults = 0

-----------------------------------------------------------------------------
\* The environment

Allowed(x) == x \in Disturbances

Quiet(d) == \A k \in Cycle : cycle[d][k] = NoCycle

\* Nobody writes to manifest.json for this owner any more; the user's last operation is
\* over; and nothing at all is in progress on the device.
Saved(d, by) == \A w \in writing[d] : w.by # by
UserIdle(d) == editor[d] = NoOp /\ Saved(d, "user")
AtRest(d) == Quiet(d) /\ UserIdle(d) /\ ~savePending[d] /\ writing[d] = {}

Fault == faults < MaxFaults /\ faults' = faults + 1

\* The user may act: bounded, one operation at a time, after the list is shown.
MayEdit(d) ==
  /\ loaded[d]
  /\ UserIdle(d)
  /\ Allowed("editDuringCycle") \/ Quiet(d)
  /\ saves < MaxSaves
  /\ saves' = saves + 1

SetEntry(d, p, e) == manifest' = [manifest EXCEPT ![d][p] = e]
WriteNote(d, p, c) == disk' = [disk EXCEPT ![d][p] = c]

\* saveManifest, from the moment it takes the text.
Persist(d, by) ==
  \/ /\ savedManifest' = [savedManifest EXCEPT ![d] = manifest[d]]
     /\ UNCHANGED writing
  \/ /\ Allowed("slowSave")
     /\ writing' = [writing EXCEPT ![d] = @ \union {[by |-> by, text |-> manifest[d]]}]
     /\ UNCHANGED savedManifest

-----------------------------------------------------------------------------
\* NotesState: the user's operations.  Each writes the note file, then changes
\* the manifest in memory, then saves the manifest.

\* saveCurrentNote of a note opened from the list, up to the end of writeNote.
SaveNote(d, p, c) ==
  /\ MayEdit(d)
  /\ manifest[d][p].status # "absent"
  /\ WriteNote(d, p, c)
  /\ editor' = [editor EXCEPT ![d] = [op |-> "save", path |-> p, content |-> c]]
  /\ UNCHANGED <<object, clientVars, loaded, failures, cycle, everStored, faults>>

\* createNote, up to the end of writeNote: no test that the path is new.
CreateNote(d, p) ==
  /\ MayEdit(d)
  /\ WriteNote(d, p, Blank)
  /\ editor' = [editor EXCEPT ![d] = [op |-> "create", path |-> p, content |-> Blank]]
  /\ UNCHANGED <<object, clientVars, loaded, failures, cycle, everStored, faults>>

\* deleteNote, up to the end of the file's deletion.
DeleteNote(d, p) ==
  /\ Allowed("delete")
  /\ MayEdit(d)
  /\ manifest[d][p].status # "absent"
  /\ WriteNote(d, p, None)
  /\ editor' = [editor EXCEPT ![d] = [op |-> "delete", path |-> p, content |-> None]]
  /\ UNCHANGED <<object, clientVars, loaded, failures, cycle, everStored, faults>>

\* Mutant: the base of a save is the text it replaces.
EntryAfterRebased(op, e) ==
  CASE op.op = "save" -> Modified(op.content, e.contentHash)
    [] op.op = "create" -> Modified(op.content, None)
    [] op.op = "delete" -> NoEntry

\* The entry an operation leaves in the manifest, given the one it finds there.
EntryAfter(op, e) ==
  CASE op.op = "save" -> Modified(op.content, e.lastSyncedHash)
    [] op.op = "create" -> Modified(op.content, None)
    [] op.op = "delete" -> NoEntry

\* The manifest in memory follows the file, unless the text did not change.
UpdateEntry(d) ==
  LET op == editor[d]
      e == manifest[d][op.path]
  IN /\ op.op \in {"save", "create", "delete"}
     /\ IF op.op = "save" /\ e.contentHash = op.content
          THEN /\ editor' = [editor EXCEPT ![d] = NoOp]
               /\ UNCHANGED manifest
          ELSE /\ SetEntry(d, op.path, EntryAfter(op, e))
               /\ editor' = [editor EXCEPT ![d] = [NoOp EXCEPT !.op = "persist"]]
     /\ UNCHANGED <<object, disk, savedManifest, writing, savePending, conflictFiles,
                    loaded, failures, cycle, everStored, saves, faults>>

PersistEdit(d) ==
  /\ editor[d].op = "persist"
  /\ Persist(d, "user")
  /\ editor' = [editor EXCEPT ![d] = NoOp]
  /\ UNCHANGED <<object, disk, manifest, savePending, conflictFiles, loaded, failures,
                 cycle, everStored, saves, faults>>

\* The saveManifest() of a markSynced() that _pushNote does not await.
PersistSynced(d) ==
  /\ savePending[d]
  /\ Persist(d, "push")
  /\ savePending' = [savePending EXCEPT ![d] = FALSE]
  /\ UNCHANGED <<object, disk, manifest, conflictFiles, loaded, failures, editor, cycle,
                 everStored, saves, faults>>

\* saveManifest throws: the operation ends with the entry changed in memory only, and
\* nobody hears of the save of a markSynced().
PersistFails(d) ==
  /\ Allowed("diskError")
  /\ Fault
  /\ \/ /\ editor[d].op = "persist"
        /\ editor' = [editor EXCEPT ![d] = NoOp]
        /\ UNCHANGED savePending
     \/ /\ savePending[d]
        /\ savePending' = [savePending EXCEPT ![d] = FALSE]
        /\ UNCHANGED editor
  /\ UNCHANGED <<object, disk, manifest, savedManifest, writing, conflictFiles, loaded,
                 failures, cycle, everStored, saves>>

\* A rename to manifest.json: all saves write the same manifest.json.tmp, so the text
\* that lands is that of any of them.
SaveLands(d) ==
  /\ \E w, x \in writing[d] :
       /\ savedManifest' = [savedManifest EXCEPT ![d] = x.text]
       /\ writing' = [writing EXCEPT ![d] = @ \ {w}]
  /\ UNCHANGED <<object, disk, manifest, savePending, conflictFiles, loaded, failures,
                 editor, cycle, everStored, saves, faults>>

-----------------------------------------------------------------------------
\* Process start and end

\* NotesListScreen loads the manifest after its first frame, also when login_screen
\* has opened a new one.
LoadManifest(d) ==
  /\ \/ ~loaded[d]
     \/ Allowed("reload") /\ (Allowed("earlySync") \/ AtRest(d))
  /\ manifest' = [manifest EXCEPT ![d] = savedManifest[d]]
  /\ loaded' = [loaded EXCEPT ![d] = TRUE]
  /\ UNCHANGED <<object, disk, savedManifest, writing, savePending, conflictFiles,
                 failures, editor, cycle, everStored, saves, faults>>

\* The app ends and starts again: what is on disk stays.
Restart(d) ==
  /\ Fault
  /\ Allowed("crash") \/ AtRest(d)
  /\ manifest' = [manifest EXCEPT ![d] = [p \in Path |-> NoEntry]]
  /\ loaded' = [loaded EXCEPT ![d] = FALSE]
  /\ failures' = [failures EXCEPT ![d] = 0]
  /\ editor' = [editor EXCEPT ![d] = NoOp]
  /\ cycle' = [cycle EXCEPT ![d] = [k \in Cycle |-> NoCycle]]
  /\ writing' = [writing EXCEPT ![d] = {}]
  /\ savePending' = [savePending EXCEPT ![d] = FALSE]
  /\ UNCHANGED <<object, disk, savedManifest, conflictFiles, everStored, saves>>

\* The user turns sync off and on, or the network goes and comes back: the failures are
\* forgotten, and a device that was manualOnly is active again.
Resume(d) ==
  /\ Fault
  /\ failures[d] > 0
  /\ failures' = [failures EXCEPT ![d] = 0]
  /\ UNCHANGED <<object, disk, clientVars, loaded, editor, cycle, everStored, saves>>

-----------------------------------------------------------------------------
\* SyncService: one sync cycle

At(d, k, s) == cycle[d][k].step = s
SetCycle(d, k, c) == cycle' = [cycle EXCEPT ![d][k] = c]
GoTo(d, k, s) == SetCycle(d, k, [cycle[d][k] EXCEPT !.step = s])
Fetched(d, k, p, s) ==
  SetCycle(d, k, [cycle[d][k] EXCEPT !.step = s, !.path = p, !.got = object[p]])

\* The cycle ends: without an exception, or with one.  The last of Threshold failures in
\* a row makes the device manualOnly, which no cycle ends.
EndCycle(d, k) ==
  /\ SetCycle(d, k, NoCycle)
  /\ failures' = [failures EXCEPT ![d] = IF @ = Threshold THEN @ ELSE 0]
FailCycle(d, k) ==
  /\ SetCycle(d, k, NoCycle)
  /\ failures' = [failures EXCEPT ![d] = IF @ = Threshold THEN @ ELSE @ + 1]

\* Back to the loop of runSyncCycle or _handleConflicts, with path p dealt with.
Done(c, p) ==
  LET left == c.conflicts \ {p}
  IN [c EXCEPT !.pulls = @ \ {p}, !.pushes = @ \ {p}, !.conflicts = left,
               !.path = None, !.got = None,
               !.step = IF p \in c.conflicts /\ left = {} THEN "conflictSave" ELSE "work"]

\* _fetchServerManifest, up to the server's answer.  runSyncCycle returns when the state
\* is manualOnly, for a manual sync too.
ListObjects(d, k) ==
  /\ At(d, k, "idle")
  /\ failures[d] < Threshold
  /\ Allowed("overlap") \/ \A e \in Device : Quiet(e)
  /\ Allowed("editDuringCycle") \/ UserIdle(d)
  /\ Allowed("earlySync") \/ loaded[d]
  /\ SetCycle(d, k, [NoCycle EXCEPT !.step = "listed", !.list = object])
  /\ UNCHANGED <<object, disk, clientVars, loaded, failures, editor, everStored, saves,
                 faults>>

\* The diff's sorting of one path, given its local entry and the listed version.
\* Mutant: a changed server version is pulled over local changes.
ToPullOverEdits(e, h) == h # None /\ e.status # "conflictPending" /\ e.contentHash # h

\* Mutant: a pending conflict is treated like a synced note.
ToPullOverConflict(e, h) == h # None /\ e.status # "modified" /\ e.contentHash # h

\* Mutant: a note that is already here is never pulled again.
ToPullNewOnly(e, h) == h # None /\ e.status = "absent"

ToPull(e, h) ==
  /\ h # None
  /\ \/ e.status = "absent"
     \/ e.status = "synced" /\ e.contentHash # h

\* Mutant: a push whatever the server has.
ToPushAlways(e, h) == e.status = "modified"

ToPush(e, h) ==
  /\ e.status = "modified"
  /\ h = None \/ e.lastSyncedHash = h

ToConflict(e, h) ==
  /\ h # None
  /\ e.status = "modified"
  /\ e.contentHash # h
  /\ e.lastSyncedHash # h

ComputeDiff(d, k) ==
  LET list == cycle[d][k].list
      Sort(To(_, _)) == {p \in Path : To(manifest[d][p], list[p])}
  IN /\ At(d, k, "listed")
     /\ SetCycle(d, k, [NoCycle EXCEPT !.step = "work", !.pulls = Sort(ToPull),
                                       !.pushes = Sort(ToPush),
                                       !.conflicts = Sort(ToConflict)])
     /\ UNCHANGED <<object, disk, clientVars, loaded, failures, editor, everStored,
                    saves, faults>>

\* _pullNote.  A key that is gone throws, and the exception ends the cycle.
GetPull(d, k) ==
  /\ At(d, k, "work")
  /\ \E p \in cycle[d][k].pulls :
       IF object[p] = None THEN FailCycle(d, k)
                           ELSE Fetched(d, k, p, "pullWrite") /\ UNCHANGED failures
  /\ UNCHANGED <<object, disk, clientVars, loaded, editor, everStored, saves, faults>>

WritePull(d, k) ==
  /\ At(d, k, "pullWrite")
  /\ WriteNote(d, cycle[d][k].path, cycle[d][k].got)
  /\ GoTo(d, k, "pullMark")
  /\ UNCHANGED <<object, clientVars, loaded, failures, editor, everStored, saves, faults>>

MarkPull(d, k) ==
  /\ At(d, k, "pullMark")
  /\ SetEntry(d, cycle[d][k].path, Synced(cycle[d][k].got))
  /\ GoTo(d, k, "pullSave")
  /\ UNCHANGED <<object, disk, savedManifest, writing, savePending, conflictFiles,
                 loaded, failures, editor, everStored, saves, faults>>

SavePull(d, k) ==
  /\ At(d, k, "pullSave")
  /\ Persist(d, k)
  /\ SetCycle(d, k, Done(cycle[d][k], cycle[d][k].path))
  /\ UNCHANGED <<object, disk, manifest, savePending, conflictFiles, loaded, failures,
                 editor, everStored, saves, faults>>

\* Mutant: the file is read without the test that it is there.
ReadPushUnchecked(d, k) ==
  /\ At(d, k, "work")
  /\ cycle[d][k].pulls = {}
  /\ \E p \in cycle[d][k].pushes :
       SetCycle(d, k, [cycle[d][k] EXCEPT !.step = "pushSend", !.path = p,
                                          !.got = disk[d][p]])
  /\ UNCHANGED <<object, disk, clientVars, loaded, failures, editor, everStored, saves,
                 faults>>

\* _pushNote.  A file that is gone is skipped.  The If-Match header the client
\* adds is not in the model: the S3 PUT handler does not read it.
ReadPush(d, k) ==
  /\ At(d, k, "work")
  /\ cycle[d][k].pulls = {}
  /\ \E p \in cycle[d][k].pushes :
       IF disk[d][p] = None
         THEN SetCycle(d, k, Done(cycle[d][k], p))
         ELSE SetCycle(d, k, [cycle[d][k] EXCEPT !.step = "pushSend", !.path = p,
                                                 !.got = disk[d][p]])
  /\ UNCHANGED <<object, disk, clientVars, loaded, failures, editor, everStored, saves,
                 faults>>

Store(p, c) ==
  /\ object' = [object EXCEPT ![p] = c]
  /\ everStored' = [everStored EXCEPT ![p] = @ \union {c}]

\* PutObjectForBucketKey: a refusal throws in the client and ends its cycle.
PutObject(d, k) ==
  LET p == cycle[d][k].path
      c == cycle[d][k].got
  IN /\ At(d, k, "pushSend")
     /\ IF <<p, c>> \in Refused
          THEN FailCycle(d, k) /\ UNCHANGED <<object, everStored>>
          ELSE GoTo(d, k, "pushMark") /\ Store(p, c) /\ UNCHANGED failures
     /\ UNCHANGED <<disk, clientVars, loaded, editor, saves, faults>>

\* Mutant: markSynced with the entry's hash instead of the pushed one.
MarkPushOwnHash(d, k) ==
  LET p == cycle[d][k].path
      e == manifest[d][p]
  IN /\ At(d, k, "pushMark")
     /\ SetEntry(d, p, IF e.status = "absent" THEN e ELSE Synced(e.contentHash))
     /\ savePending' = [savePending EXCEPT ![d] = TRUE]
     /\ SetCycle(d, k, Done(cycle[d][k], p))
     /\ UNCHANGED <<object, disk, savedManifest, writing, conflictFiles, loaded,
                    failures, editor, everStored, saves, faults>>

\* markSynced, with the hash of the pushed bytes; contentHash stays as it is.
MarkPush(d, k) ==
  LET p == cycle[d][k].path
      e == manifest[d][p]
  IN /\ At(d, k, "pushMark")
     /\ IF e.status = "absent"
          THEN UNCHANGED <<manifest, savePending>>
          ELSE /\ SetEntry(d, p, [e EXCEPT !.lastSyncedHash = cycle[d][k].got,
                                           !.status = "synced"])
               /\ savePending' = [savePending EXCEPT ![d] = TRUE]
     /\ SetCycle(d, k, Done(cycle[d][k], p))
     /\ UNCHANGED <<object, disk, savedManifest, writing, conflictFiles, loaded,
                    failures, editor, everStored, saves, faults>>

\* Mutant: the entry is marked before the conflict file is written.
GetConflictMarksFirst(d, k) ==
  /\ At(d, k, "work")
  /\ cycle[d][k].pulls = {} /\ cycle[d][k].pushes = {}
  /\ \E p \in cycle[d][k].conflicts :
       /\ Fetched(d, k, p, "conflictWrite")
       /\ SetEntry(d, p, [manifest[d][p] EXCEPT !.status = "conflictPending"])
  /\ UNCHANGED <<object, disk, savedManifest, writing, savePending, conflictFiles,
                 loaded, failures, editor, everStored, saves, faults>>

\* _handleConflicts.  A key that is gone is skipped.
GetConflict(d, k) ==
  /\ At(d, k, "work")
  /\ cycle[d][k].pulls = {} /\ cycle[d][k].pushes = {}
  /\ \E p \in cycle[d][k].conflicts :
       IF object[p] = None THEN SetCycle(d, k, Done(cycle[d][k], p))
                           ELSE Fetched(d, k, p, "conflictWrite")
  /\ UNCHANGED <<object, disk, clientVars, loaded, failures, editor, everStored, saves,
                 faults>>

WriteConflict(d, k) ==
  /\ At(d, k, "conflictWrite")
  /\ conflictFiles' = [conflictFiles EXCEPT ![d] =
                         @ \union {<<cycle[d][k].path, cycle[d][k].got>>}]
  /\ GoTo(d, k, "conflictMark")
  /\ UNCHANGED <<object, disk, manifest, savedManifest, writing, savePending, loaded,
                 failures, editor, everStored, saves, faults>>

MarkConflict(d, k) ==
  LET p == cycle[d][k].path
      e == manifest[d][p]
  IN /\ At(d, k, "conflictMark")
     /\ IF e.status = "absent"
          THEN UNCHANGED manifest
          ELSE SetEntry(d, p, [e EXCEPT !.status = "conflictPending"])
     /\ SetCycle(d, k, Done(cycle[d][k], p))
     /\ UNCHANGED <<object, disk, savedManifest, writing, savePending, conflictFiles,
                    loaded, failures, editor, everStored, saves, faults>>

SaveConflicts(d, k) ==
  /\ At(d, k, "conflictSave")
  /\ Persist(d, k)
  /\ GoTo(d, k, "work")
  /\ UNCHANGED <<object, disk, manifest, savePending, conflictFiles, loaded, failures,
                 editor, everStored, saves, faults>>

FinishCycle(d, k) ==
  /\ At(d, k, "work")
  /\ cycle[d][k].pulls \union cycle[d][k].pushes \union cycle[d][k].conflicts = {}
  /\ EndCycle(d, k)
  /\ UNCHANGED <<object, disk, clientVars, loaded, editor, everStored, saves, faults>>

\* An await outside the conflict loop throws (a request or its answer is lost, or
\* manifest.json cannot be written), and the exception ends the cycle.
CycleFails(d, k) ==
  /\ Fault
  /\ Saved(d, k)
  /\ \/ /\ Allowed("loss")
        /\ \/ cycle[d][k].step \in {"listed", "pullWrite", "pushSend", "pushMark"}
           \/ At(d, k, "work") /\ cycle[d][k].pulls # {}
     \/ /\ Allowed("diskError")
        /\ cycle[d][k].step \in {"pullSave", "conflictSave"}
  /\ FailCycle(d, k)
  /\ UNCHANGED <<object, disk, clientVars, loaded, editor, everStored, saves>>

\* The disk is full, or another save has renamed manifest.json.tmp: the exception ends
\* the cycle, if it is one that waits.
SaveFails(d) ==
  /\ Fault
  /\ \E w \in writing[d] :
       /\ writing' = [writing EXCEPT ![d] = @ \ {w}]
       /\ IF w.by \in Cycle THEN FailCycle(d, w.by) ELSE UNCHANGED <<cycle, failures>>
  /\ UNCHANGED <<object, disk, manifest, savedManifest, savePending, conflictFiles,
                 loaded, editor, everStored, saves>>

\* Mutant: the entry is marked although its server version was not saved.
ConflictFailsMarked(d, k) ==
  /\ Allowed("loss")
  /\ Fault
  /\ Saved(d, k)
  /\ At(d, k, "work")
  /\ cycle[d][k].pulls \union cycle[d][k].pushes = {}
  /\ \E p \in cycle[d][k].conflicts :
       /\ SetCycle(d, k, Done(cycle[d][k], p))
       /\ SetEntry(d, p, [manifest[d][p] EXCEPT !.status = "conflictPending"])
  /\ UNCHANGED <<object, disk, savedManifest, writing, savePending, conflictFiles,
                 loaded, failures, editor, everStored, saves>>

\* An await inside the conflict loop throws: the loop catches it and goes on.
ConflictFails(d, k) ==
  /\ Allowed("loss")
  /\ Fault
  /\ Saved(d, k)
  /\ \/ At(d, k, "conflictWrite") /\ SetCycle(d, k, Done(cycle[d][k], cycle[d][k].path))
     \/ /\ At(d, k, "work")
        /\ cycle[d][k].pulls \union cycle[d][k].pushes = {}
        /\ \E p \in cycle[d][k].conflicts : SetCycle(d, k, Done(cycle[d][k], p))
  /\ UNCHANGED <<object, disk, clientVars, loaded, failures, editor, everStored, saves>>

-----------------------------------------------------------------------------

\* DELETE /api/v1/notes/<path>, from a client that is not the app.
RemoteDelete(p) ==
  /\ Allowed("remoteDelete")
  /\ object[p] # None
  /\ Fault
  /\ object' = [object EXCEPT ![p] = None]
  /\ UNCHANGED <<disk, clientVars, loaded, failures, editor, cycle, everStored, saves>>

\* A cycle waits for the saves it has begun.
CycleStep(d, k) ==
  /\ Saved(d, k)
  /\ \/ ListObjects(d, k) \/ ComputeDiff(d, k)
     \/ GetPull(d, k) \/ WritePull(d, k) \/ MarkPull(d, k) \/ SavePull(d, k)
     \/ ReadPush(d, k) \/ PutObject(d, k) \/ MarkPush(d, k)
     \/ GetConflict(d, k) \/ WriteConflict(d, k) \/ MarkConflict(d, k)
     \/ SaveConflicts(d, k) \/ FinishCycle(d, k)

UserStep(d) ==
  \/ \E p \in Path, c \in Content : SaveNote(d, p, c)
  \/ \E p \in Path : CreateNote(d, p) \/ DeleteNote(d, p)

LocalStep(d) ==
  \/ UpdateEntry(d) \/ PersistEdit(d) \/ PersistSynced(d) \/ PersistFails(d)
  \/ SaveLands(d) \/ SaveFails(d) \/ LoadManifest(d) \/ Resume(d)

Next ==
  \/ \E d \in Device : UserStep(d) \/ LocalStep(d) \/ Restart(d)
  \/ \E d \in Device, k \in Cycle : CycleStep(d, k) \/ CycleFails(d, k) \/ ConflictFails(d, k)
  \/ \E p \in Path : RemoteDelete(p)

Spec == Init /\ [][Next]_vars

\* Timer.periodic starts a cycle every 7 s and the event loop runs every
\* continuation; nothing makes the user act or the network fail.
Fairness ==
  /\ \A d \in Device : /\ WF_vars(UpdateEntry(d)) /\ WF_vars(PersistEdit(d))
                       /\ WF_vars(PersistSynced(d)) /\ WF_vars(SaveLands(d))
                       /\ WF_vars(~loaded[d] /\ LoadManifest(d))
  /\ \A d \in Device, k \in Cycle : WF_vars(CycleStep(d, k))

FairSpec == Spec /\ Fairness

-----------------------------------------------------------------------------
\* What holds whatever the environment does

\* lastSyncedHash, the base that tells a clean push from a conflict, is a version
\* the server has held for that path, in memory and in manifest.json: no
\* interleaving of edits and cycles, no failure and no crash can make it one the
\* server never had, in which case every later edit would look like a conflict.
BaseWasStored ==
  \A d \in Device, p \in Path :
    \A e \in {manifest[d][p], savedManifest[d][p]} :
      e.lastSyncedHash \in everStored[p] \union {None}

\* An entry is marked conflictPending only once a version the server held is safe
\* under conflicts/: a failure or a crash never leaves the mark without the file.
ConflictHasServerFile ==
  \A d \in Device, p \in Path :
    \A e \in {manifest[d][p], savedManifest[d][p]} :
      e.status = "conflictPending" =>
        \E c \in everStored[p] : <<p, c>> \in conflictFiles[d]

\* What makes the three invariants inductive.

\* A transfer in progress carries a version of one path, which the server has
\* held unless it is only about to be stored, and which is under conflicts/ when
\* the entry is about to be marked.
Carrying == {"pullWrite", "pullMark", "pullSave", "pushSend", "pushMark", "conflictWrite",
             "conflictMark"}
TransferOK(d, c) ==
  /\ c.step \in Carrying => c.path \in Path /\ c.got \in Content
  /\ c.step \in Carrying \ {"pullSave", "pushSend"} => c.got \in everStored[c.path]
  /\ c.step = "conflictMark" => <<c.path, c.got>> \in conflictFiles[d]

EntryOK(d, p, e) ==
  /\ e.lastSyncedHash \in everStored[p] \union {None}
  /\ e.status = "conflictPending" => \E c \in everStored[p] : <<p, c>> \in conflictFiles[d]

\* What is on its way to manifest.json is in order as well.
WritingOK ==
  \A d \in Device : \A w \in writing[d] :
    Allowed("slowSave") /\ \A p \in Path : EntryOK(d, p, w.text[p])

IndInv ==
  /\ TypeOK
  /\ \A p \in Path : object[p] \in everStored[p] \union {None}
  /\ \A d \in Device : editor[d].op \in {"save", "create", "delete"} => editor[d].path \in Path
  /\ \A d \in Device, p \in Path : EntryOK(d, p, manifest[d][p])
  /\ \A d \in Device, p \in Path : EntryOK(d, p, savedManifest[d][p])
  /\ WritingOK
  /\ \A d \in Device, k \in Cycle : TransferOK(d, cycle[d][k])

-----------------------------------------------------------------------------
\* "Nothing is silently overwritten", on the device and on the server

\* A pull replaces a note file only if the server has held the version it
\* replaces, so that an edit which was never uploaded is not lost.
PullKeepsEdits ==
  [][\A d \in Device, k \in Cycle : \A p \in Path :
       At(d, k, "pullWrite") /\ cycle'[d][k].step = "pullMark" /\ cycle[d][k].path = p =>
         disk[d][p] \in everStored[p] \union {None, disk'[d][p]}]_vars

\* A push replaces only the version its author started from (or a copy of itself):
\* what another device stored meanwhile is not overwritten.
PushReplacesItsBase ==
  [][\A d \in Device, k \in Cycle : \A p \in Path :
       At(d, k, "pushSend") /\ cycle'[d][k].step = "pushMark" /\ cycle[d][k].path = p =>
         object[p] \in {None, object'[p], manifest[d][p].lastSyncedHash}]_vars

\* Once a note is in conflict only the user changes its file: "local version
\* preserved" until the user resolves it.
ConflictKeepsLocal ==
  [][\A d \in Device, p \in Path :
       manifest[d][p].status = "conflictPending" /\ disk'[d][p] # disk[d][p] =>
         editor'[d].path = p /\ editor[d] = NoOp]_vars

-----------------------------------------------------------------------------
\* Convergence

\* A note the cycles have nothing more to do for: the same on the device and on
\* the server, left to the user, or of a version the server refuses.
Settled(d, p) ==
  \/ disk[d][p] = object[p]
  \/ manifest[d][p].status = "conflictPending"
  \/ <<p, disk[d][p]>> \in Refused

\* The diff of a device that is at rest overlooks nothing: when it finds nothing to do
\* for a note, device and server have the same, unless the note was deleted on the
\* server (the diff leaves those alone) or is left to the user.
NothingOverlooked ==
  \A d \in Device, p \in Path :
    LET e == manifest[d][p]
        h == object[p]
    IN /\ loaded[d] /\ Quiet(d) /\ editor[d] = NoOp
       /\ ~ToPull(e, h) /\ ~ToPush(e, h) /\ ~ToConflict(e, h)
       => Settled(d, p) \/ (h = None /\ e.status = "synced")

\* When the edits and the failures end, every device ends up with what the server has,
\* unless it has given up: it is manualOnly after Threshold failures in a row.
GivenUp(d) == failures[d] = Threshold
Converges == <>[](\A d \in Device, p \in Path : GivenUp(d) \/ Settled(d, p))
=============================================================================
