# Stonepad in TLA+

Stonepad keeps Markdown notes on several devices (Flutter clients) and one Go
server. A client stores notes as files and a `manifest.json`; every few seconds
a sync cycle compares the manifest with the server's S3 listing and pulls, pushes
or puts conflicts aside. The server stores notes as files, mirrors them in a
SQLite index, may keep them in RAM with periodic snapshots (tmpfs mode), may
relay them to an R2 bucket, and lets users log in.

This directory holds the specifications of that behaviour, the TLC
configurations that check them, and proofs checked by TLAPS. Paths below are
relative to the repository (`src/`).

    tlc -workers 2 -config MCNoteSync_turns.cfg MCNoteSync
    tlapm NoteSync_proofs.tla

## Inventory

| part | state it keeps | operations | modelled in |
|---|---|---|---|
| Client notes (`client/lib/state/notes_state.dart`, `services/storage_service.dart`) | manifest in memory, `manifest.json`, note files, conflict files, the current note | load, open, create, save, delete, delete folder, markSynced | NoteSync, NoteEditing |
| Client sync cycle (`services/sync_service.dart`) | nothing between cycles; in a cycle: the listing, the diff, the transfer in progress | list, diff, pull, push, conflict | NoteSync |
| Client sync scheduling (`state/sync_state_notifier.dart`, timer and entry points of SyncService, `state/connectivity_state.dart`) | sync state, failure counter, timer, connectivity | tick, manual sync, toggle, login, connectivity change, end of a cycle | SyncPolling |
| Client editor and lifecycle (editor screen, `lifecycle_service.dart`) | text in the editor, debounce timer, current path | type, debounced save, save at dispose and in the background, open another note | NoteEditing |
| Server S3 API and file storage (`server/internal/http/s3_handlers.go`, `storage`) | files under `notes/`, the index | list, GET, PUT, DELETE | NoteServer, Listing; NoteSync (one step each) |
| Server native API and index (`server/internal/http/server.go`, `sync/metadata.go`) | the same files, index, audit log | PUT with If-Match, note limit, GET, DELETE, manifest | NoteServer, Listing (audit log: no) |
| Server tmpfs snapshots (`server/internal/tmpfs`, `main.go`) | RAM directory, `notes`, `notes.new`, `meta.db`, `meta.db.new` | periodic snapshot, final snapshot, restore | TmpfsSnapshot |
| Server relay (`server/internal/relay`) | listing and hashes of one round | pull, push, poll, stop | RelayPoller |
| Listing and pagination (`server/internal/s3/listing.go`, `sync/manifest.go`) | none; a client keeps what the pages told it | walk, page, manifest | Listing |
| Path rules (`server/internal/storage/paths.go`) | none | accept, refuse, resolve | only that some keys are refused: NoteSync, RelayPoller |
| Startup, sessions and users (`main.go`, `server/internal/auth`, `sync/schema.sql`) | tables, users, sessions, `credentials.txt` | start, stop, login, expiry, logout, first administrator | ServerAccess |
| Signatures (`server/internal/s3/signature.go`) | the key in memory | verify | ServerAccess (what is compared, not the hashes) |
| Configuration, screens, widgets, build files | none that changes | | not modelled: layout, one reading of the environment |

How they interact: the user's operations and the sync cycles of one client
share `NotesState._manifest`, the note files and `manifest.json`, and meet at
every `await` (no lock anywhere). Cycles reach the server with HTTP requests;
all devices of a workspace share the server's files. SyncStateNotifier and the
timer decide when a cycle starts; nothing keeps two cycles from overlapping. On
the server, request handlers, the relay poller and the snapshot loop share the
notes directory.

What is hard: a save during a transfer; decisions on a listing that is old; a
request done whose answer is lost; the app killed between the write of a note
and the write of the manifest; a conflict that is a fetch, a file and a mark; a
failure counter fed by overlapping cycles; a save that reads the open note again
after an `await`; a screen that is left while its text waits for the timer; a poll
that compares with its own old listing; a startup cut short between two tables; a timer that is stopped in a state
only an event can leave; a snapshot swapped in with several renames; two
snapshots at once. `PROJECT.json` lists each at its line.

What makes each part correct: no version that was never uploaded is replaced by a
pull, no version another device stored is replaced by a push, a note in conflict
keeps both versions until the user decides, devices converge when edits and
failures end (NoteSync); the state, the counter and the timer agree, cycles run
exactly when the state allows (SyncPolling); each request
takes effect at one moment, a conditional write replaces only the version it names,
the index mirrors the files (NoteServer); what is typed reaches its own note and the
manifest (NoteEditing); a push of the relay replaces nothing the home server has not
had, and both sides become the same (RelayPoller); a listing tells the truth of each
note, is cut at the right place and ends (Listing); a session ends when it should and
only then, and the server always comes to serve again (ServerAccess); a snapshot that succeeded is never
lost and a graceful shutdown loses nothing (TmpfsSnapshot).

## Modules

**NoteSync.** Devices, their cycles and one object store. One action is the code
between two `await`s. The parts of an operation, in code order:

- user: `SaveNote`, `CreateNote`, `DeleteNote` (the file) then `UpdateEntry` (the
  entry in memory) then `PersistEdit` (`manifest.json`), which may fail (`PersistFails`);
- `saveManifest` (`Persist`): the text is taken at the call, and the rename to
  `manifest.json` is at once or, under "slowSave", a later step (`SaveLands`). All saves
  share `manifest.json.tmp`, so the text that lands is that of any of those in `writing`, an old
  one included, and a rename may find nothing (`SaveFails`);
- cycle: `ListObjects`, `ComputeDiff`, then every pull (`GetPull`, `WritePull`,
  `MarkPull`, `SavePull`), every push (`ReadPush`, `PutObject`, `MarkPush`; the
  save is not awaited: `PersistSynced`), every conflict (`GetConflict`,
  `WriteConflict`, `MarkConflict`, at the end `SaveConflicts`), `FinishCycle`;
- failures: `CycleFails` where an exception reaches the `catch` of
  `runSyncCycle`, `ConflictFails` where the conflict loop catches it, a refusal in
  `PutObject`. `FailCycle` counts them: after `Threshold` in a row the device is manualOnly
  and no cycle begins any more, not by hand either (`sync_service.dart:151`), until `Resume` (the
  sync switch, or a network that comes back) or `Restart`;
- `Restart` (clean, or a kill in the middle of anything), `LoadManifest` (the first list, and
  under "reload" every new one: `login_screen.dart:132`, `:188`); `RemoteDelete` is a deletion
  through the native API.

`object`, `disk`, `manifest`, `savedManifest`, `conflictFiles`, `loaded` are the
server's files, the client's files, `NotesState._manifest`, `manifest.json`,
`conflicts/` and whether `loadManifest` has run; `failures` is the counter of SyncStateNotifier,
`Threshold` when its state is manualOnly (SyncPolling has the other states). `everStored` is history.
A version stands for its text and its SHA-256. Simplifications: the text of a save is whole
when it lands; reading `manifest.json` and setting `_manifest` are one step; a listing is one
snapshot; the maps are iterated in any order; `NoteStatus.deleted` is left out
because no code assigns it; the `If-Match` header of a push is left out because
`PutObjectForBucketKey` does not read it.

**SyncPolling.** When a cycle starts. `sync` is SyncStateNotifier's state and
counter, the timer, and how many cycles are in progress; each method is a
function of that record (`RecordFailure`, `ConnectivityChanged`, `RunSyncCycle`
up to its first `await`, ...), each thing that calls them is an action (`Tick`,
`ManualSync`, `Toggle`, `Login`, `SetServerEndpoint`, `NetworkChanges`,
`CycleSucceeds`, `CycleFails`).

**TmpfsSnapshot.** The notes in RAM, the persist directory, main's phases and
two runners of `doSnapshot`. The copy is one action per note and each removal or
rename one action. A note's state is the number of the write that made it; a
deletion is a write, and a partial copy has the number 0 where a file is missing.
The end of the process keeps the RAM disk (the process died) or loses it (the
machine did). Of `meta.db` only its presence is kept. `Shutdown` may give up on requests
after 10 s, which `main.go:185-187` only logs: `quiet` says whether anybody still writes
during the final snapshot. A renaming that fails (`RenameNotesFails`, `RenameDbFails`) comes
after the removal of what it replaces; the history `torn` is true from then to the next
snapshot that succeeds.

**NoteStore** is what the server promises: a request takes effect at one moment
between its arrival and its answer, except that a GET of the S3 API is given its body at one
moment and its ETag at a later one (`Tag`). **NoteServer** is how it is done: handlers of
the native and the S3 API, each a sequence of operations on the file and on its
row in the index, without a lock (`CountNotes`, `CheckIfMatch`, `Put`, `UpsertNote`;
`RemoveFile`, `DeleteNote`; `OpenFile`, `Head`). `file`, `index` and `handler` are
the note files, `content_hash` of table `notes` and the goroutines. The refinement
maps a note to its file and a handler to the call a client sees (`Seen`): called until the
file was renamed, removed or opened, or the request refused, then answered,
or without its ETag until `Head` has read the file again. A GET whose note was written between
the two has an answer that NoteStore calls "mixed": the body of one version with the ETag and
the length of another, which cuts the text when it is shorter. Both DELETE handlers
do the same, so there is one. An error of the count in `CountNotes` lifts the limit, one of
`GetNoteHash` in `CheckIfMatch` is a refusal. PUT reads its whole body before the rename, and
what can go wrong before it (path, size, disk) is a refusal without effect.

**NoteEditing.** The way of a text from the keyboard to its file. `current` is
NotesState's one path and content, `screen` the editors (text, mark of unsaved changes,
debounce timer), `stack` the Navigator's. A save is `Type`, then `TimerFires`,
`SaveButton`, `Dispose` or `GoToBackground`, then `WriteTmp`, `Rename`, `UpdateEntry`,
`Saved`: the path of the file is read before the first `await`, that of the entry after
it. `OpenNote` sets the path, `Opened` the content and the screen. `CreateNote`,
`CreateEntry`, `Created` and `Delete`, `DeleteFile`, `RemoveEntry` (one note or a folder) are the
list's; `PullNote` is a whole pull of NoteSync. `context.read` in `dispose` may throw,
so `Dispose` saves or does not. A text is named by the note it belongs to. Kills,
failing disks and the sync state of an entry are NoteSync's.

**RelayPoller.** One poll: `ListPage` (a page per request), `Head` and, when the
hashes differ, `GetObject` and `StoreNote` for every listed key, the walk (`WalkFile`), then
`ReadNote` and `PutObject` for every file that differs from the *listed* hash.
`WriteLocal` and `WriteBucket` are the clients of the two sides, `ListFails`, `PullFails`,
`WalkFails`, `PushFails` the error paths (transient, counted by `failures`), `GetRefused` and
`PutRefused` what never works: `pullObject` and `pushObject` escape a key for the URL and sign
it unescaped (`poller.go:218`, `:293`), so that a bucket that signs the escaped path, as S3
does, refuses a key with a space at every poll (`Escaped`; empty for a bucket that signs the
decoded path, as this repository's own server does). `Stop` and `LoopEnds` the shutdown. An ETag is the hash or,
as R2 has it, something else. `everFile` and `unseen` are history. A PUT that times out
and is done later is not modelled.

**Listing** (instance: MCListing). A client asks for page after page; the server walks
all files for each (`ReadRoot`, `ReadNext`, one name at a time while `Write` goes on),
then `BuildListObjectsResult` filters, groups, cuts. The walk skips what is gone when its
turn comes. A name is its place in the order of the names, a folder one name of
its own. `AnswerManifest` is the native API's listing. `during` is history: what each note
has been since the listing began.

**ServerAccess.** `data` is the data directory (tables, users, session rows,
`credentials.txt`), `backup` the `meta.db` of the last snapshot, `phase` how far `main` has
come. The startup is one action per statement: `OpenDatabase`, `CreateTable` six times,
`InitWorkspace`, `InitUser`, in tmpfs mode `Restore`, `BuildAuthenticator`,
`LoadCredentials`, `WriteCredentials`. A request with a session is `Ask`, `ReadToken`, then
`Answer` or `InvalidateToken`; a login is `Login`, `StoreToken`; any of them may find the
database locked: `ReadFails` (401, `users.go:88-90`), `LoginFails` (401),
`InvalidateFails` (204 all the same, `server.go:334-337`). `Crash` may fall anywhere,
between two tables included, and the RAM disk may go with the process. `VerifySignature`
compares what a client signs (`Canonical`) with what the server rebuilds (`Rebuilt`). The
histories `spared` (a logout answered 204 left the row), `reset` (a lost or restored
`meta.db` took or brought back the session), `cut` (a process died within `schema.sql`) and
`failed` (the request's own SELECT) name the cases in which the code does not do what one
expects; the properties say what it does in all others.

**Disturbances.** NoteSync, NoteServer, NoteEditing, RelayPoller and TmpfsSnapshot have a constant set of things the
environment may do. The code excludes none of them. A run that leaves one out
says what a property needs; the next section says what happens otherwise.

## Runs

| run | configuration | what it checks | bounds |
|---|---|---|---|
| sync_turns | MCNoteSync_turns | `TypeOK`, `BaseWasStored`, `ConflictHasServerFile`, `PushReplacesItsBase`, `ConflictKeepsLocal` when cycles run one at a time and the user edits between them, with lost answers, full disks, saves of the manifest that overtake each other or fail, reloads, deletions on either side and kills at any moment | 2 devices, 1 note, 3 versions, 3 user operations, 1 fault |
| sync_converges | MCNoteSync_converges | `BaseWasStored`, `ConflictHasServerFile`, `NothingOverlooked`, `PullKeepsEdits`, `Converges` with overlapping cycles, lost answers and deletions, and a version the server refuses for its size | 2 devices, 1 note, 3 versions, 3 operations, 2 faults; refusals and failures count, 3 in a row |
| sync_lost_edit | MCNoteSync_lost_edit | fails: `PullKeepsEdits` when the user saves during a cycle | 1 device, 2 operations |
| polling | SyncPolling | `ActiveBelowThreshold`, `NoNetworkIsTrue`, `ActivePollsAgain` | threshold 3 as in the code, 3 cycles at once |
| tmpfs | TmpfsSnapshot | `TypeOK`, `SnapshotSurvives`, `PersistWhole`, `ShutdownKeepsAll` with crashes outside the swap, failing copies, backups and renamings, writers that go on during the shutdown | 2 notes, 3 writes, 2 faults |
| tmpfs_crash | TmpfsSnapshot_crash | fails: `SnapshotSurvives` when the process dies during the swap | 1 fault |
| server_turns | NoteServer_turns | `TypeOK`, `IndexMirrors`, `Atomic` (NoteServer implements NoteStore) when writes of one note take turns and reads come at any time | 2 requests at once, 2 notes, 2 versions, limit 2 |
| relay | RelayPoller | `TypeOK`, `PushReplacesSeen`, `RelayConverges`, `StopReturns` under every disturbance | 3 keys, one that cannot be stored and one that is escaped, 2 versions, 2 writes, 2 failures |
| editing | NoteEditing | `TypeOK`, `EntryMatchesFile`, `TextStaysInItsNote`, `NoMarkMeansSaved`, `SavesReviveNothing`, `DebounceSaves` while operations on the open note come one at a time and notes are pulled between them, the open one too | 2 notes, one of them in a folder, 1 screen, 4 texts |
| access | ServerAccess | `TypeOK`, `GoneStaysOut`, `SessionsLast`, `ServesWhole`, `KeyLasts`, `ServesAgain` in tmpfs mode, with crashes at every step of the startup, lost and restored databases, failing statements | 2 requests at once, 2 sessions, 2 keys, 3 events (signals, snapshots, crashes, failures, sessions that grow old) |
| listing | MCListing | `TypeOK`, `ListTells`, `PageIsFirst`, `ListingEnds` | 4 keys, 2 of them in a folder, pages of 1 to 3 entries, 3 writes |
| listing_tokens | MCListing_tokens | fails: `TokenContinues` when a workspace is larger than a page | 4 keys, no writes |

Why the bounds are enough: notes do not interact in a cycle but through a
failure that ends it, so one path is enough wherever pushes are not refused. Every lost update needs a base, a version that replaces it
and one that competes: three versions, two devices. Three operations are a note, and an
edit of it on each device after both have synced it. One fault is enough to leave
each operation half done, and a save that is late needs none; two allow a failed retry, or a
device that resumes after it gave up: refusals are no faults, so that the too large
version alone makes three failures in a row. Edits during cycles are in no passing run, since
they break most properties; `BaseWasStored` and `ConflictHasServerFile` are proved under them. Three cycles at once let
the counter pass the threshold after the state has changed. Two notes let a
snapshot be half copied; two faults let a restart fail. NoteServer needs no bound on
the number of requests: its state space is finite. Two handlers are a writer and whoever
meets it, and the limit of two notes is reached. Two notes are what it takes to write
one note's text into another; without "overlap" and "twoOpens" there is one screen at a time. Four keys and pages of one to three
entries have a page that ends before, at and behind the folder, exactly full pages and
pages one entry too small; three writes make and remove a note behind the walk's back.
Three events are a snapshot, a logout that fails or a session that grows old, and the crash
that brings the snapshot back; two keys show a key that was lost.
The instances with symmetry check only invariants and action properties,
which name no device and no version but `Blank`.

The violated properties say what a comment or document of the repository says:

- `src/README.md:40`, `docs/architecture.md:58`: "nothing is silently
  overwritten". sync_lost_edit: a note saved while its older version is being
  pushed is marked synced (`notes_state.dart:121`), and the next cycle pulls the
  older version over it.
- `snapshot.go:7-8`, `src/README.md:43`: the atomic swap survives a crash. tmpfs_crash:
  between the removal of `notes` and the rename of `notes.new` there is no snapshot
  that a restart would find, and the next snapshot removes `notes.new`.
- `listing.go:2-3`, `docs/api.md:153`: "continuation-token" pagination. listing_tokens: the
  token is only sent back, so the second page is the first one again.

### What the properties need

Found by enabling disturbances one at a time, or by looking at what the code always does.

- `PullKeepsEdits` holds with "overlap", two cycles of one device included, "loss",
  "delete", "remoteDelete", "reload". It fails with each of "editDuringCycle" (above), "crash" (the file is newer than
  `manifest.json`, and the diff believes the manifest), "diskError" (the same after the user's
  own save of the manifest failed and the app was started again), "slowSave" (the save that
  `_pushNote` does not await lands after the user's, with its older text, and a restart or a new list
  loads it) and "earlySync" (the
  first cycle compares with an empty manifest and pulls everything).
- `PushReplacesItsBase` holds with everything else, kills, late and failing saves and "earlySync" included (an empty
  manifest has nothing to push), but for "earlySync" and "reload" together with "diskError" or
  "slowSave": an old manifest is loaded under a cycle in progress. It fails with "overlap" (two devices push from listings
  that are both old; `PutObjectForBucketKey` has no precondition) and with
  "editDuringCycle".
- `ConflictKeepsLocal` holds with everything but "earlySync" (the mark is not loaded yet when
  the diff pulls the note) and two cycles of one device (one marks what the other is pulling).
- `NothingOverlooked` holds while each device has one cycle at a time, with "loss", "delete",
  "remoteDelete" and "reload". Two cycles of one device break it: `_pullNote` writes the file and then, after
  its `await`, the entry, so that two pulls of a note can leave the file of the one beside the
  entry of the other. Then the device shows an old version, says it is synced, and no later
  cycle looks at the file. So do "earlySync", "crash" and "editDuringCycle", and "diskError" and "slowSave" with
  a restart or a reload (file and `manifest.json` then differ).
- `Converges` holds with "overlap", "loss", "delete", "reload", and with "earlySync". It
  fails with "crash", "editDuringCycle", and "diskError" or "slowSave" followed by a restart: in
  each, the manifest calls synced a file that differs, or misses one that is there. Without
  "overlap" it says nothing: then nothing keeps one device from taking every turn.
- `Converges` excepts a device that has given up. Three failures in a row make it
  manualOnly, and neither a timer nor the sync button ends that (`sync_service.dart:151`): what its
  user saves then stays on the device until the switch, the network or a restart.
- With a lost PUT answer even a lone device can meet a conflict, with its own
  version: the entry keeps the old base. It is harmless, and no property excludes it.
- After `conflictPending` no save and no creation ever leads to a push of the
  local version: the base stays the old one. Only a deletion, which lets the server's
  version be pulled again, resolves it.
- TmpfsSnapshot: with "finalOverlap" alone (the loop's snapshot in progress when
  `FinalSnapshot` begins; both use the same `.new` names) `SnapshotSurvives`,
  `PersistWhole` and `ShutdownKeepsAll` all fail. What a handler that Shutdown gave up
  on or the relay poller (stopped last) writes after its note was copied is not in the
  final snapshot: `ShutdownKeepsAll` promises the whole RAM only if nobody writes. A
  renaming of `notes` that fails has removed the snapshot before it and its own, and one
  of `meta.db` leaves new notes without a database; `SnapshotSurvives`, `PersistWhole` and
  `ShutdownKeepsAll` promise nothing between that and the next success.

- Under `Refused` (a key the server always refuses, such as the `.folder` marker of a new
  folder, `s3_handlers.go:369-371`) with two paths, the refused push throws out of the push loop, and so
  do the next two cycles: a note behind it in the push order does not reach the server before the
  device gives up, nor after, although `docs/test-scenarios.md:9-14` expects it.
  `Converges` excepts the device, so it does not fail.
- `manualSync` only calls `runSyncCycle`, which returns at once when the state is disabled
  (`sync_service.dart:135`) or manualOnly (`:151`), the state in which "only manual button
  works" (`models/sync_state.dart:7`); the manual sync is said to work "in all states"
  (`sync_service.dart:16-17`, `:207`, `models/sync_state.dart:14`). `ManualSync` of
  SyncPolling is translated from the code and transfers in the state active only; no
  property states either side.
- NoteServer: If-Match is "optimistic concurrency" (`docs/api.md:60`) only while writes of a
  note take turns: with "overlap" a write that comes between the comparison with the row
  and the rename is replaced.
- NoteServer: with "overlap" `IndexMirrors` fails (two renames in one order, two
  rows in the other, and the row stays wrong until the next write) and so does `Atomic`
  (If-Match, above). `Atomic` promises a GET of the S3 API no more than the code gives: the
  "mixed" answer is reached in the run, beside any write of the note.
  With "crash" and with "indexFails" `IndexMirrors` fails: nothing rebuilds the index.
  The relay and an edit made by hand on the server's disk change files without
  rows as well, which the scenario of `docs/test-scenarios.md:48-56` starts with;
  they are not actions of NoteServer.

- NoteEditing: "typeDuringSave" breaks `NoMarkMeansSaved` and `DebounceSaves`
  (`_saveNow` clears the mark after its `await`, whatever was typed meanwhile). With
  "pullCurrent", which the run has, the open note may be pulled: open a note, leave it, let a
  cycle pull it, put the app into the background, and the content NotesState still has is
  written over the pulled version and marked modified. `src/README.md:40` says nothing is
  silently overwritten; no property of NoteEditing says so. "twoOpens" (a second note tapped while the first
  is being read) breaks `TextStaysInItsNote`, `NoMarkMeansSaved` and
  `DebounceSaves`; "overlap" breaks everything but `TypeOK`. The save in the background writes
  NotesState's content, not the editor's text, so what was typed in the last half second is
  not saved then, which `lifecycle_service.dart:3` and `docs/test-scenarios.md:43-49` promise.
- RelayPoller: a pull always comes first, so that an edit made on the home server to a
  note that is in the bucket is overwritten by the bucket's older version, and a deleted note
  comes back (`poller.go:125-134`; the comment at `:110` says "Push local changes not yet
  in R2"). No property forbids it: it is the only thing the code can do. A phone's version
  is overwritten in the bucket when its pull failed or it was stored during the poll: that
  is what `PushReplacesSeen` leaves out by `unseen`. R2's ETags are MD5, so every note is
  pulled and pushed at each poll. Pulls write no rows of the index. Notes whose keys a URL
  escapes are never copied in a bucket that signs the escaped path; `RelayConverges` and
  `FinishedPollsAgree` are about the others (`Copied`).
- Listing: a workspace that does not fit into one page (1000 entries) never ends a
  listing: the token is only sent back, the second page is the first one again, and both the
  sync cycle and the poller go on asking, although `docs/configuration.md:54` allows 100000
  notes. `PageIsFirst` is about requests without a token, `TokenContinues` about those with one,
  and `ListingEnds` about workspaces that fit into a page.
- ServerAccess: each statement of `schema.sql` commits, and `initSchema` looks for the first
  table only. After a crash between two of them every later start exits with 1, or serves without
  the last tables: `ServesWhole` and `ServesAgain` say nothing then (`cut`). A logout
  whose DELETE fails is answered with 204 and leaves the session open, and the restore of an older
  `meta.db` opens one again: `GoneStaysOut` is about rows that were deleted and stay so. A SELECT
  that fails is answered with 401, and a restore drops the logins since the snapshot:
  `SessionsLast` excepts the request whose own SELECT failed and the sessions that were `reset`.
  `credentials.txt` is in no snapshot, so that `KeyLasts` ends with the data directory. Each
  exception is needed: without it TLC finds a counterexample.
  The users mode never makes its administrator, because
  `InitUser` runs before the count (`main.go:97`, `:228`; `users.go:3` says it does), and the
  owner's row has no password: only someone who writes the database can make a login.
  The server rebuilds the canonical request without query, without a host and with the decoded
  path (`signature.go:190`, `:216-221`), so that a client that signs them, as aws s3, rclone and
  the project's own poller do, is refused except on localhost; `src/README.md:44` says "Works with
  rclone, mc, and aws s3 CLI", and `docs/api.md:142-153` describes such requests. `KeyLasts` is
  about the requests that get through.
  `docs/relay/cloudflare-r2.md` tells the app to use the bucket "default", the poller's is
  "stonepad-relay".

### Fairness

`Converges`, `RelayConverges`, `StopReturns`, `DebounceSaves`, `ListingEnds` and
`ServesAgain` say that something happens. `FairSpec` of NoteSync has weak fairness for the
continuations of the event loop (`UpdateEntry`, `PersistEdit`, `PersistSynced`, `SaveLands`, the
first `LoadManifest`) and for each cycle's next step (`CycleStep`): the event loop runs
every completed future, requests end (a failure is an answer), and `Timer.periodic`
starts a cycle every 7 s. There is none for the user, for failures, for restarts
or for other clients, and no strong fairness: a cycle may meet every note in the
worst order. A cycle that is refused again and again is one that fails: after `Threshold`
times no cycle is enabled, so the fairness of `CycleStep` asks for none, and `GivenUp`
excepts the device. A rename that is due lands (`SaveLands`).

RelayPoller: weak fairness for the poll's own steps (`PollStep`: the HTTP client gives
up after 30 s, the ticker ticks) and strong fairness for `LoopEnds`, because a `select` with
two ready cases does not take the tick for ever. NoteEditing: weak fairness for the
continuations of a save and of a creation or deletion, strong fairness for the timer,
which going to the background again and again does not keep from firing. Listing: weak fairness for the server's and the client's
steps of a listing. ServerAccess: weak fairness for `StartStep`, since
`docker-compose.yml:6` says `restart: unless-stopped`. There is none for users, other
clients, requests or failures.

## Proofs

`NoteSync_proofs.tla`, for any devices, cycles, paths, versions, refusals,
bounds and any subset of the disturbances, from `ConstantsAssumption` alone:

- `AlwaysIndInv`: `Spec => []IndInv`. `BaseWasStored` and `ConflictHasServerFile`
  are not inductive: they say nothing of the version a transfer carries, which
  a later step writes into the entry. `IndInv` adds that what the server holds was stored
  there, that an operation in progress names a path, that a text on its way to `manifest.json` is
  as good as the manifest (`WritingOK`), and `TransferOK`: what a
  transfer carries after the server answered was stored for that path, and is
  under `conflicts/` when the entry is about to be marked. One lemma per action
  group, one step per action.
- `TypeCorrect`, `BaseIsAlwaysStored`, `ConflictAlwaysHasServerFile` follow.

In the same module, theorems that need something of their surroundings. Each names the least
we know to be enough; drop a condition and TLC shows the loss (see "What the properties need"):

- `PullsKeepEdits`, when users wait for cycles in progress and for the manifest, no kill
  falls within a save, and every save of the manifest succeeds and lands in its turn (`UserWaits`). The property is about one step, but why a pull may replace a
  file was decided when the diff was made. `PullInv`: a file the server has not held is
  described by its entry as modified or in conflict (`EntrySafe`), on disk or about to be
  saved, or the user's operation on it is in progress (`FilesSafe`); and what is left
  to pull is a note whose file the server has held (`PullsSafe`). Nothing in it says whose
  cycle wrote what, which is why any number of them may overlap.
- `PushesReplaceTheirBase`, when one cycle is in progress at a time, its user waits for it
  and no manifest is loaded again under it (`OneCycleAtATime`). `PushInv`: the cycle is `Alone`, a manifest not yet loaded has
  nothing to push, and for what is left to push the server still has the version that the entry
  is based on, or none (`PushesBased`).
- `ConflictsKeepLocal`, when a device has one cycle at a time and loads its manifest first
  (`OneCyclePerDevice`). `ConflictInv`: no note in conflict is left to pull
  (`PullsNoConflict`). Edits during the cycle are harmless, since an edit
  leaves or removes the mark but never sets it.
- `DiffOverlooksNothing`, in the conditions of sync_converges, or with deletions through the
  native API (`InTurns`). `TurnInv`: an entry
  describes its file unless an edit or a pull is between the two (`EntriesOK`, of the manifest
  the device has or will load, `Known`), what the diff has found is still so for every note left to do
  (`PlanOK`), and `manifest.json` is behind only while something is there that saves
  it (`SavedOK`). One lemma per action; `TurnStep` and `LocalFrame` deal with the other devices.

- `FinishedCyclesSettle`, when no client is killed, out of disk space or slow to save, and cycles and users take
  turns (`TurnsOnly`); requests and answers may be lost and notes deleted on the server
  meanwhile. It is the safety half of `Converges`: when `runSyncCycle` returns
  without an exception, every note of its device is the same on the server, is left to the user, was
  deleted there, or is a conflict that could not be fetched. `HandledInv`: a note
  that is not left to do is handled (`Handled`), and what the cycle has read from the
  server is still there; `TextInv`, that a note to push has its file.
  That a cycle comes to its end, and a failed one is repeated, is left to `Converges`.

What a cycle may change is stated once for all of them: `CycleMoves` and `DiffMoves` (how a step
changes the rest of the plan), `CycleEffects` and `FileChanges` (what it changes in files and
entries), `StoredGrows`.

`SyncPolling_proofs.tla`, for any threshold and any number of cycles at once:

- `AlwaysPollInv`: the inductive invariant has `ActiveBelowThreshold` and a bound
  on the counter, failures plus cycles in progress at most Threshold + MaxCycles:
  a cycle that fails moves one unit from the second to the first, and a cycle
  starts only in the state active, where the counter is below the threshold.
- `PollingTypeCorrect` (proved only: no run repeats it), `ActiveHasFailuresLeft`, `OfflineOnlyWithoutNetwork`.
- `ActiveAlwaysPollsAgain`, of each step from that invariant:
  the timer is off in the state noNetwork, so it matters that only a network that is back
  (and then starts it) or the toggle (which starts it too) makes the device active.

`NoteEditing_proofs.tla`, for any notes, screens, folder and number of texts:

- `EditingTypeCorrect`, under every disturbance.
- `EntriesMatchFiles`, `SavesNeverRevive`, without "overlap" (`NoOverlap`). NotesState's path is
  read when a save begins and again when the entry is written. `BaseInv`: what is in
  progress is alone (`Alone`), so the path is still the same and the file and the
  temporary file are those of the save (`SavesCurrent`), the current note has a file until its
  deletion is done (`CurrentHasFile`), and an entry has the hash of its file unless a
  save, a creation or a deletion is between the two (`EntriesMatch`).
- `MarksAreWatched`, without "overlap": a screen with the mark of unsaved changes has its timer
  running or is being saved, typing during a save and taps on other notes included.
- `TextsStayInTheirNotes`, without "overlap" and "twoOpens" (`OneOpening`);
  `NoMarkAlwaysMeansSaved`, when moreover nothing is typed during a save (`Waits`). `IndInv` adds
  to `BaseInv` that an opening is alone (`OpeningAlone`), a screen has a text of the
  current note (`ScreensCurrent`), a save writes the text NotesState has (`SavesText`),
  which is of the current note (`CurrentIsRead`), and, if the user waits, that a
  screen without the mark shows that text (`ScreenShowsCurrent`). The conditions stand in the
  invariant, so that one induction serves both; TLC found each of them to be needed.
  `NoTextIsForgotten`, from the conditions of `NoMarkAlwaysMeansSaved`, is the safety half of
  `DebounceSaves`: with the mark, the timer runs or a save in progress writes the screen's text to its
  own note; without it, the text is on the disk or a pull has replaced it. That timers fire and saves
  end is left to `DebounceSaves`.
  `SaveGoesOn` is the lemma behind the steps of a save, `SaveBegins` the one behind timer,
  button, dispose and background.

`RelayPoller_proofs.tla`, for any keys, versions, bounds and disturbances:

- `AlwaysIndInv`: `PushReplacesSeen` is not inductive, because a push follows from what the
  poll did long before. `IndInv` follows one poll note by note: what is listed still speaks
  of the object that is there (`ListInv`, until the pulls are done), every listed note the
  pulls have passed by is known, that is the home server has had what the bucket holds
  (`PullInv`), and after the pulls all are (`PushInv`). A note in `unseen` is excepted throughout.
- `RelayTypeCorrect`, `PushesReplaceSeen` (an action property, from the invariant at the
  one step that writes the bucket).
- `FinishedPollsAgree`, when nothing fails and no client of the home server writes during the
  poll (`PollAlone`; with "loss" TLC finds a failed push that the poll steps over): the safety half of
  `RelayConverges`. When `poll` returns, every note of `Copied` is the same in the home server and in
  the bucket, or was written in the bucket meanwhile. `AgreeInv` goes on from `ListInv`: what is
  not left to pull agrees or is missing in the bucket, the walk has read every file as it is,
  and what is not left to push agrees.

`ServerAccess_proofs.tla`, for any requests, sessions, keys, hosts, number of events and
both storage modes, from `ConstantsAssumption` alone:

- `AccessTypeCorrect`; `GoneAlwaysStaysOut`, `SessionsAlwaysLast`, `AlwaysServesWhole` and
  `KeyAlwaysLasts`. Invariants: what a request in progress has found out about its session
  (`RequestOK`), that no request outlives the process (`Quiet`), that a session which ended or
  has not has no row or a row but for the exceptions of the properties (`EndedHasNoRow`,
  `LiveHasRow`), that the tables are none or all outside `CreateTable`, and all in a snapshot,
  unless a process died there (`SchemaWhole`), and that the file holds every key served with
  (`KeyOnDisk`).

`NoteServer_proofs.tla`, for any number of requests at once, notes, versions and
limit, from `ConstantsAssumption`; all but the first with `Disturbances = {}` (writes of
one note take turns, rows can be written, no crash between a file and its row):

- `ServerTypeCorrect`, under every disturbance: a handler is only in steps of its
  request's kind, has an answer exactly once its effect is done, and comes to
  `Head` only with an open file.
- `AlwaysIndInv`: the inductive invariant adds to `IndexMirrors` that the writes of one note
  take turns, and `HandlerKnows`: what a writer has found out about its file, the
  precondition before the rename, its own version before the row is written, is still so. `OthersKeepKnowing` is the lemma behind it.
- `IndexAlwaysMirrors`.
- `HandlersAreAtomic`: `Spec => Atomic`. The rename, the removal, the opening of
  the file, `Head` and each refusal are steps of NoteStore, the rest stutters; the invariant
  is needed for If-Match (the row read is the file).

`TmpfsSnapshot_proofs.tla`, for any notes and any number of writes, faults and
restarts, without "swapCrash" and "finalOverlap":

- `SnapshotTypeCorrect`, under every disturbance.
- `NoSnapshotIsLost`, `PersistedTogether`, `ShutdownLosesNothing`. None is inductive: they
  say nothing of a snapshot half done. `IndInv` says what each step of doSnapshot
  has on the disk (`SnapOK`: what is copied is as new as the notes were when the snapshot began),
  what a restart would find (`DiskOK`), while nobody writes that the copy is the RAM
  itself (`KeepOK`), and what is left of the final snapshot when the loop takes one after
  it (`Ends`: that one began later, so it is newer). Since the runners take turns (`Phases`,
  `Alone`), the step of one is about its own part alone: `Take` and `Give` get that part out
  and put it back, and each of its eleven steps is one lemma.

`Listing_proofs.tla`, for any finite set of names (those of files are bounded), any folder,
versions, page size and number of writes:

- `AlwaysIndInv`, then `ListAlwaysTells`: `ListTells` needs what the pages so far said
  of the names before the token, what the walk has found of those it has passed, and that `during`
  has every state since the listing began.
- `BuiltPageIsFirst`, and from it `PageIsAlwaysFirst`: the loop of `BuildListObjectsResult`
  is a recursive function on the sets of names left (`Left`), each turn of which takes the
  first of them (`Take`). The library's induction rules have an operator as a parameter,
  which the provers cannot instantiate; the induction is by the least counterexample
  instead (`WFMin` on the numbers, a rule over sets): the first turn at which the page is not
  the first names taken follows a turn at which it was.
- `ListingTypeCorrect`.

Only model-checked: every property of the form "something happens" (liveness under fairness
and ENABLED are out of this prover's reach): `Converges`, `RelayConverges`, `DebounceSaves`,
`StopReturns`, `ServesAgain`, `ListingEnds`. Of the first three the safety half is proved above.

## Not modelled

A `manifest.json.tmp` torn between the texts of two saves at once (the text that lands is one of
theirs); `loadManifest` as two steps, between which an operation could put an entry into the
manifest that is replaced; what the SQLite
connection opened before the restore sees of the restored `meta.db`, and that its pragmas
are set on one connection of the pool only (`metadata.go:34-41`); contents of the audit log;
hashes and the parsing of headers; the path rules beyond "refused"; the modes `none` and
`token`, which keep no state; screens. Logging in enables sync in the
settings but starts nothing (the action `Login`); the code promises nothing to
check that against. `createNote` on a name in use empties the note, `deleteNote`
lets the next cycle bring it back: both are in the model, no property forbids them.

## Plan

All modules of the first plan are there, but for PathRules. What is left: the path rules as
an operator on components.
