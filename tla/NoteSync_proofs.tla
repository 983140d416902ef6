--------------------------- MODULE NoteSync_proofs ---------------------------
(***************************************************************************)
(* Proofs, for every set of devices, cycles, paths and versions and for    *)
(* every Refused, of the invariants of NoteSync that hold whatever the     *)
(* environment does, and of the properties that hold when some of the      *)
(* disturbances are kept out, each from those it needs and no more; and    *)
(* that one cycle of a device, when it comes to its end, is enough.        *)
(***************************************************************************)
EXTENDS NoteSync, TLAPS

-----------------------------------------------------------------------------
\* Lemmas about the operators the actions are built from

\* The initial entry, operation and cycle state are well typed.
LEMMA EmptyStates ==
  /\ NoEntry \in Entry
  /\ NoOp \in EditorOp
  /\ NoCycle \in CycleState
  /\ NoCycle.step = "idle"
BY DEF NoEntry, Entry, Version, Status, NoOp, EditorOp, NoCycle, CycleState, Step

\* The entries that operations and transfers leave are well typed.
LEMMA EntryTypes ==
  ASSUME NEW h \in Version, NEW b \in Version
  PROVE  /\ Synced(h) \in Entry
         /\ Modified(h, b) \in Entry
BY DEF Synced, Modified, Entry, Status

\* SetEntry changes one entry of one device.
LEMMA SetEntryEffect ==
  ASSUME manifest \in [Device -> [Path -> Entry]],
         NEW d \in Device, NEW p \in Path, NEW e \in Entry, SetEntry(d, p, e)
  PROVE  /\ manifest' \in [Device -> [Path -> Entry]]
         /\ manifest'[d][p] = e
         /\ \A f \in Device, q \in Path :
              (f # d \/ q # p) => manifest'[f][q] = manifest[f][q]
BY DEF SetEntry

\* SetCycle changes the state of one cycle of one device.
LEMMA SetCycleEffect ==
  ASSUME cycle \in [Device -> [Cycle -> CycleState]],
         NEW d \in Device, NEW k \in Cycle, NEW c \in CycleState, SetCycle(d, k, c)
  PROVE  /\ cycle' \in [Device -> [Cycle -> CycleState]]
         /\ cycle'[d][k] = c
         /\ \A e \in Device, j \in Cycle :
              (e # d \/ j # k) => cycle'[e][j] = cycle[e][j]
BY DEF SetCycle

\* The loop goes on in a step that carries no version.
LEMMA DoneEffect ==
  ASSUME NEW c \in CycleState, NEW p
  PROVE  /\ Done(c, p) \in CycleState
         /\ Done(c, p).step \in {"work", "conflictSave"}
BY DEF Done, CycleState, Step, Version

\* What the server has held and what is under conflicts/ only grows.
Grows ==
  /\ \A p \in Path : everStored[p] \subseteq everStored'[p]
  /\ \A d \in Device : conflictFiles[d] \subseteq conflictFiles'[d]

\* An entry stays in order while the histories grow.
LEMMA EntryStaysOK ==
  ASSUME Grows, NEW d \in Device, NEW p \in Path, NEW e \in Entry, EntryOK(d, p, e)
  PROVE  EntryOK(d, p, e)'
BY DEF Grows, EntryOK

\* A transfer stays in order while the histories grow.
LEMMA TransferStaysOK ==
  ASSUME Grows, NEW d \in Device, NEW c \in CycleState, TransferOK(d, c)
  PROVE  TransferOK(d, c)'
BY DEF Grows, TransferOK, Carrying

\* A cycle that carries no version is in order.
LEMMA NothingCarried ==
  ASSUME NEW d \in Device, NEW c \in CycleState, c.step \notin Carrying
  PROVE  TransferOK(d, c)
BY DEF TransferOK, Carrying

\* The texts on their way to manifest.json stay in order while the histories grow.
LEMMA WritingStaysOK ==
  ASSUME IndInv, Grows, \A d \in Device : writing'[d] \subseteq writing[d]
  PROVE  WritingOK'
<1> SUFFICES ASSUME NEW d \in Device, NEW w \in writing'[d]
             PROVE  Allowed("slowSave") /\ \A p \in Path : EntryOK(d, p, w.text[p])'
  BY DEF WritingOK
<1>1. Allowed("slowSave") /\ \A p \in Path : EntryOK(d, p, w.text[p])
  BY DEF IndInv, WritingOK
<1> QED BY <1>1 DEF EntryOK, Grows

\* Nothing but the texts that are written there depends on writing.
LEMMA SameWriting ==
  ASSUME IndInv, UNCHANGED <<writing, conflictFiles, everStored>>
  PROVE  WritingOK'
<1>1. Grows
  BY DEF Grows
<1> QED BY <1>1, WritingStaysOK

\* An entry in order replaces another.
LEMMA SetEntryKeeps ==
  ASSUME IndInv, NEW d \in Device, NEW p \in Path, NEW e \in Entry,
         EntryOK(d, p, e), SetEntry(d, p, e)
  PROVE  /\ manifest' \in [Device -> [Path -> Entry]]
         /\ \A f \in Device, q \in Path : EntryOK(f, q, manifest'[f][q])
<1>1. /\ manifest' \in [Device -> [Path -> Entry]]
      /\ manifest'[d][p] = e
      /\ \A f \in Device, q \in Path : (f # d \/ q # p) => manifest'[f][q] = manifest[f][q]
  BY SetEntryEffect DEF IndInv, TypeOK
<1>2. ASSUME NEW f \in Device, NEW q \in Path
      PROVE  EntryOK(f, q, manifest'[f][q])
  <2>1. CASE f = d /\ q = p
    BY <1>1, <2>1
  <2>2. CASE f # d \/ q # p
    BY <1>1, <2>2 DEF IndInv
  <2> QED BY <2>1, <2>2
<1> QED BY <1>1, <1>2

\* What a transfer in progress carries.
LEMMA Carried ==
  ASSUME IndInv, NEW d \in Device, NEW k \in Cycle, cycle[d][k].step \in Carrying
  PROVE  /\ cycle[d][k].path \in Path
         /\ cycle[d][k].got \in Content
         /\ cycle[d][k].got \in Version
         /\ cycle[d][k].step \notin {"pullSave", "pushSend"} =>
              cycle[d][k].got \in everStored[cycle[d][k].path]
         /\ cycle[d][k].step = "conflictMark" =>
              <<cycle[d][k].path, cycle[d][k].got>> \in conflictFiles[d]
<1>1. TransferOK(d, cycle[d][k])
  BY DEF IndInv
<1> QED BY <1>1 DEF TransferOK, Version

\* GoTo changes the step of a cycle and nothing else of it.
LEMMA Relabel ==
  ASSUME NEW c \in CycleState, NEW s \in Step
  PROVE  LET n == [c EXCEPT !.step = s]
         IN n \in CycleState /\ n.step = s /\ n.path = c.path /\ n.got = c.got
BY DEF CycleState

\* Every entry of a manifest in memory is well typed and in order.
LEMMA EntryFacts ==
  ASSUME IndInv, NEW d \in Device, NEW p \in Path
  PROVE  manifest[d][p] \in Entry /\ EntryOK(d, p, manifest[d][p])
BY DEF IndInv, TypeOK

\* Every cycle state is well typed.
LEMMA CycleFacts ==
  ASSUME IndInv, NEW d \in Device, NEW k \in Cycle
  PROVE  cycle[d][k] \in CycleState
BY DEF IndInv, TypeOK

\* A cycle moves to a state that is in order.
LEMMA SetCycleKeeps ==
  ASSUME IndInv, NEW d \in Device, NEW k \in Cycle, NEW c \in CycleState,
         TransferOK(d, c), SetCycle(d, k, c)
  PROVE  /\ cycle' \in [Device -> [Cycle -> CycleState]]
         /\ \A e \in Device, j \in Cycle : TransferOK(e, cycle'[e][j])
<1>1. /\ cycle' \in [Device -> [Cycle -> CycleState]]
      /\ cycle'[d][k] = c
      /\ \A e \in Device, j \in Cycle : (e # d \/ j # k) => cycle'[e][j] = cycle[e][j]
  BY SetCycleEffect DEF IndInv, TypeOK
<1>2. ASSUME NEW e \in Device, NEW j \in Cycle
      PROVE  TransferOK(e, cycle'[e][j])
  <2>1. CASE e = d /\ j = k
    BY <1>1, <2>1
  <2>2. CASE e # d \/ j # k
    BY <1>1, <2>2 DEF IndInv
  <2> QED BY <2>1, <2>2
<1> QED BY <1>1, <1>2

\* A step that only moves one cycle to a state in order preserves the invariant.
LEMMA CycleMove ==
  ASSUME IndInv, NEW d \in Device, NEW k \in Cycle, NEW c \in CycleState,
         TransferOK(d, c), SetCycle(d, k, c), faults' \in 0 .. MaxFaults,
         failures' \in [Device -> 0 .. Threshold],
         UNCHANGED <<object, disk, clientVars, loaded, editor, everStored, saves>>
  PROVE  IndInv'
<1>1. WritingOK'
  BY SameWriting DEF clientVars
<1> QED BY <1>1, SetCycleKeeps DEF IndInv, TypeOK, EntryOK, TransferOK, clientVars

\* The end of a cycle, and what it does to the count of failures.
LEMMA CycleEnds ==
  ASSUME IndInv, NEW d \in Device, NEW k \in Cycle, EndCycle(d, k) \/ FailCycle(d, k)
  PROVE  SetCycle(d, k, NoCycle) /\ failures' \in [Device -> 0 .. Threshold]
<1>1. failures \in [Device -> 0 .. Threshold] /\ Threshold \in Nat \ {0}
  BY ConstantsAssumption DEF IndInv, TypeOK
<1>2. PICK n \in 0 .. Threshold : n = failures[d]
  BY <1>1
<1>3. n # Threshold => n + 1 \in 0 .. Threshold
  BY <1>1
<1>4. 0 \in 0 .. Threshold
  BY <1>1
<1> QED BY <1>1, <1>2, <1>3, <1>4 DEF EndCycle, FailCycle

-----------------------------------------------------------------------------
\* The steps that move more than one cycle

\* The three user operations change only the file and the operation in progress.
LEMMA UserStepKeeps ==
  ASSUME IndInv, NEW d \in Device, UserStep(d)
  PROVE  IndInv'
<1> SUFFICES ASSUME NEW p \in Path, NEW c \in Version, NEW o \in {"save", "create", "delete"},
                    WriteNote(d, p, c), MayEdit(d),
                    editor' = [editor EXCEPT ![d] = [op |-> o, path |-> p, content |-> c]],
                    UNCHANGED <<object, clientVars, loaded, failures, cycle, everStored, faults>>
             PROVE  IndInv'
  BY ConstantsAssumption DEF UserStep, SaveNote, CreateNote, DeleteNote, Version
<1>1. TypeOK'
  BY ConstantsAssumption DEF IndInv, TypeOK, clientVars, WriteNote, MayEdit, EditorOp
<1>2. \A e \in Device : editor'[e].op \in {"save", "create", "delete"} => editor'[e].path \in Path
  BY DEF IndInv, TypeOK
<1>3. WritingOK'
  BY SameWriting DEF clientVars
<1> QED
  BY <1>1, <1>2, <1>3 DEF IndInv, EntryOK, TransferOK, clientVars

\* The manifest in memory after a user operation: its base is the one it had.
LEMMA UpdateEntryKeeps ==
  ASSUME IndInv, NEW d \in Device, UpdateEntry(d)
  PROVE  IndInv'
<1> DEFINE op == editor[d]
           p == op.path
           e == manifest[d][p]
           new == EntryAfter(op, e)
<1>1. op \in EditorOp /\ p \in Path /\ e \in Entry /\ EntryOK(d, p, e)
  BY DEF UpdateEntry, IndInv, TypeOK
<1>2. [NoOp EXCEPT !.op = "persist"] \in EditorOp /\ [NoOp EXCEPT !.op = "persist"].op = "persist"
  BY DEF NoOp, EditorOp, Version
<1>3. editor' \in [Device -> EditorOp]
  BY <1>2, EmptyStates DEF UpdateEntry, IndInv, TypeOK
<1>4. \A f \in Device : editor'[f].op \in {"save", "create", "delete"} => editor'[f].path \in Path
  <2>1. \/ editor' = [editor EXCEPT ![d] = NoOp]
        \/ editor' = [editor EXCEPT ![d] = [NoOp EXCEPT !.op = "persist"]]
    BY DEF UpdateEntry
  <2>2. NoOp.op = "none"
    BY DEF NoOp
  <2> QED BY <1>2, <2>1, <2>2 DEF IndInv, TypeOK
<1>5. new \in Entry /\ EntryOK(d, p, new)
  <2>1. op.op \in {"save", "create", "delete"}
    BY DEF UpdateEntry
  <2>2. op.content \in Version /\ e.lastSyncedHash \in Version
    BY <1>1 DEF EditorOp, Entry
  <2>3. CASE op.op = "save"
    BY <1>1, <2>2, <2>3, EntryTypes DEF EntryAfter, Modified, EntryOK
  <2>4. CASE op.op = "create"
    BY <1>1, <2>2, <2>4, EntryTypes DEF EntryAfter, Modified, EntryOK, Version
  <2>5. CASE op.op = "delete"
    BY <2>5, EmptyStates DEF EntryAfter, NoEntry, EntryOK
  <2> QED BY <2>1, <2>3, <2>4, <2>5
<1>6. /\ manifest' \in [Device -> [Path -> Entry]]
      /\ \A f \in Device, q \in Path : EntryOK(f, q, manifest'[f][q])
  <2>1. CASE SetEntry(d, p, new)
    BY <1>1, <1>5, <2>1, SetEntryKeeps
  <2>2. CASE UNCHANGED manifest
    BY <2>2 DEF IndInv, TypeOK
  <2> QED BY <2>1, <2>2 DEF UpdateEntry
<1>7. TypeOK'
  BY <1>3, <1>6 DEF UpdateEntry, IndInv, TypeOK
<1>8. WritingOK'
  BY SameWriting DEF UpdateEntry
<1> QED
  BY <1>4, <1>6, <1>7, <1>8 DEF UpdateEntry, IndInv, EntryOK, TransferOK

\* Saving the manifest copies entries that are in order, at once or on their way.
LEMMA PersistKeeps ==
  ASSUME IndInv, NEW d \in Device, NEW by \in {"user", "push"} \union Cycle, Persist(d, by),
         UNCHANGED <<conflictFiles, everStored>>
  PROVE  /\ savedManifest' \in [Device -> [Path -> Entry]]
         /\ \A f \in Device, q \in Path : EntryOK(f, q, savedManifest'[f][q])
         /\ writing' \in [Device -> SUBSET Save]
         /\ WritingOK'
<1>1. CASE savedManifest' = [savedManifest EXCEPT ![d] = manifest[d]] /\ UNCHANGED writing
  BY <1>1, SameWriting DEF IndInv, TypeOK
<1>2. CASE /\ Allowed("slowSave")
           /\ writing' = [writing EXCEPT
                            ![d] = @ \union {[by |-> by, text |-> manifest[d]]}]
           /\ UNCHANGED savedManifest
  <2> DEFINE x == [by |-> by, text |-> manifest[d]]
  <2>1. x \in Save /\ x.text = manifest[d]
    BY DEF Save, IndInv, TypeOK
  <2> HIDE DEF x
  <2>2. writing' = [writing EXCEPT ![d] = writing[d] \union {x}]
    BY <1>2 DEF x
  <2>3. writing' \in [Device -> SUBSET Save]
    BY <2>1, <2>2 DEF IndInv, TypeOK
  <2>4. ASSUME NEW f \in Device, NEW w \in writing'[f]
        PROVE  \A q \in Path : EntryOK(f, q, w.text[q])'
    <3>1. CASE w \in writing[f]
      BY <3>1 DEF IndInv, WritingOK, EntryOK
    <3>2. CASE f = d /\ w = x
      BY <2>1, <3>2 DEF IndInv, EntryOK
    <3> QED BY <2>2, <3>1, <3>2 DEF IndInv, TypeOK
  <2> QED BY <1>2, <2>3, <2>4 DEF WritingOK, IndInv, TypeOK
<1> QED BY <1>1, <1>2 DEF Persist

\* A rename to manifest.json, and a save that fails: a text is on its way no more.
LEMMA SaveEndsKeeps ==
  ASSUME IndInv, NEW d \in Device, SaveLands(d) \/ SaveFails(d)
  PROVE  IndInv'
<1>1. PICK w \in writing[d] : writing' = [writing EXCEPT ![d] = @ \ {w}]
  BY DEF SaveLands, SaveFails
<1>2. writing' \in [Device -> SUBSET Save] /\ \A e \in Device : writing'[e] \subseteq writing[e]
  BY <1>1 DEF IndInv, TypeOK
<1>3. Grows /\ UNCHANGED <<object, disk, manifest, savePending, conflictFiles, loaded, editor,
                           everStored, saves>>
  BY DEF SaveLands, SaveFails, Grows
<1>4. WritingOK'
  BY <1>2, <1>3, WritingStaysOK
<1>5. CASE SaveLands(d)
  <2>1. PICK x \in writing[d] : savedManifest' = [savedManifest EXCEPT ![d] = x.text]
    BY <1>5 DEF SaveLands
  <2>2. x.text \in [Path -> Entry] /\ \A q \in Path : EntryOK(d, q, x.text[q])
    BY DEF IndInv, TypeOK, WritingOK, Save
  <2>3. /\ savedManifest' \in [Device -> [Path -> Entry]]
        /\ \A f \in Device, q \in Path : EntryOK(f, q, savedManifest'[f][q])
    BY <2>1, <2>2 DEF IndInv, TypeOK
  <2>4. UNCHANGED <<failures, cycle, faults>>
    BY <1>5 DEF SaveLands
  <2> QED BY <1>2, <1>3, <1>4, <2>3, <2>4 DEF IndInv, TypeOK, EntryOK, TransferOK
<1>6. CASE SaveFails(d)
  <2>1. faults' \in 0 .. MaxFaults /\ UNCHANGED savedManifest
    BY <1>6, ConstantsAssumption DEF SaveFails, Fault, IndInv, TypeOK
  <2>2. PICK v \in writing[d] :
          IF v.by \in Cycle THEN FailCycle(d, v.by) ELSE UNCHANGED <<cycle, failures>>
    BY <1>6 DEF SaveFails
  <2>3. /\ failures' \in [Device -> 0 .. Threshold]
        /\ cycle' \in [Device -> [Cycle -> CycleState]]
        /\ \A e \in Device, j \in Cycle : TransferOK(e, cycle'[e][j])
    <3>1. CASE v.by \in Cycle
      BY <2>2, <3>1, CycleEnds, EmptyStates, NothingCarried, SetCycleKeeps DEF Carrying
    <3>2. CASE v.by \notin Cycle
      BY <2>2, <3>2 DEF IndInv, TypeOK
    <3> QED BY <3>1, <3>2
  <2> QED BY <1>2, <1>3, <1>4, <2>1, <2>3 DEF IndInv, TypeOK, EntryOK, TransferOK
<1> QED BY <1>5, <1>6

LEMMA LocalStepKeeps ==
  ASSUME IndInv, NEW d \in Device, LocalStep(d)
  PROVE  IndInv'
<1>1. CASE UpdateEntry(d)
  BY <1>1, UpdateEntryKeeps
<1>2. CASE PersistEdit(d)
  <2>0. /\ savedManifest' \in [Device -> [Path -> Entry]]
        /\ \A f \in Device, q \in Path : EntryOK(f, q, savedManifest'[f][q])
        /\ writing' \in [Device -> SUBSET Save] /\ WritingOK'
    BY <1>2, PersistKeeps DEF PersistEdit
  <2>1. TypeOK'
    BY <1>2, <2>0, EmptyStates DEF PersistEdit, IndInv, TypeOK
  <2>2. \A f \in Device : editor'[f].op \in {"save", "create", "delete"} => editor'[f].path \in Path
    BY <1>2 DEF PersistEdit, IndInv, TypeOK, NoOp
  <2> QED
    BY <1>2, <2>0, <2>1, <2>2 DEF PersistEdit, IndInv, EntryOK, TransferOK
<1>3. CASE PersistSynced(d)
  <2>0. /\ savedManifest' \in [Device -> [Path -> Entry]]
        /\ \A f \in Device, q \in Path : EntryOK(f, q, savedManifest'[f][q])
        /\ writing' \in [Device -> SUBSET Save] /\ WritingOK'
    BY <1>3, PersistKeeps DEF PersistSynced
  <2>1. TypeOK'
    BY <1>3, <2>0 DEF PersistSynced, IndInv, TypeOK
  <2> QED
    BY <1>3, <2>0, <2>1 DEF PersistSynced, IndInv, EntryOK, TransferOK
<1>4. CASE LoadManifest(d)
  <2>1. TypeOK'
    BY <1>4 DEF LoadManifest, IndInv, TypeOK
  <2>2. \A f \in Device, q \in Path : EntryOK(f, q, manifest'[f][q])
    BY <1>4 DEF LoadManifest, IndInv, TypeOK
  <2>3. WritingOK'
    BY <1>4, SameWriting DEF LoadManifest
  <2> QED
    BY <1>4, <2>1, <2>2, <2>3 DEF LoadManifest, IndInv, EntryOK, TransferOK
<1>5. CASE PersistFails(d)
  <2>1. faults' \in 0 .. MaxFaults
    BY <1>5, ConstantsAssumption DEF PersistFails, Fault, IndInv, TypeOK
  <2>2. editor' \in [Device -> EditorOp] /\ savePending' \in [Device -> BOOLEAN]
    BY <1>5, EmptyStates DEF PersistFails, IndInv, TypeOK
  <2>3. \A f \in Device : editor'[f].op \in {"save", "create", "delete"} => editor'[f].path \in Path
    <3>1. NoOp.op = "none"
      BY DEF NoOp
    <3>2. editor' = [editor EXCEPT ![d] = NoOp] \/ UNCHANGED editor
      BY <1>5 DEF PersistFails
    <3> QED BY <3>1, <3>2 DEF IndInv, TypeOK
  <2>4. WritingOK'
    BY <1>5, SameWriting DEF PersistFails
  <2> QED
    BY <1>5, <2>1, <2>2, <2>3, <2>4 DEF PersistFails, IndInv, TypeOK, EntryOK, TransferOK
<1>6. CASE SaveLands(d) \/ SaveFails(d)
  BY <1>6, SaveEndsKeeps
<1>7. CASE Resume(d)
  <2>1. faults' \in 0 .. MaxFaults
    BY <1>7, ConstantsAssumption DEF Resume, Fault, IndInv, TypeOK
  <2>2. failures' \in [Device -> 0 .. Threshold]
    BY <1>7, ConstantsAssumption DEF Resume, IndInv, TypeOK
  <2>3. WritingOK'
    BY <1>7, SameWriting DEF Resume, clientVars
  <2> QED
    BY <1>7, <2>1, <2>2, <2>3 DEF Resume, clientVars, IndInv, TypeOK, EntryOK, TransferOK
<1> QED BY <1>1, <1>2, <1>3, <1>4, <1>5, <1>6, <1>7 DEF LocalStep

\* A restart empties the memory of a device.
LEMMA RestartKeeps ==
  ASSUME IndInv, NEW d \in Device, Restart(d)
  PROVE  IndInv'
<1>1. [q \in Path |-> NoEntry] \in [Path -> Entry] /\ [k \in Cycle |-> NoCycle] \in [Cycle -> CycleState]
  BY EmptyStates
<1>2. TypeOK'
  BY <1>1, EmptyStates, ConstantsAssumption DEF Restart, Fault, IndInv, TypeOK
<1>3. \A f \in Device, q \in Path : EntryOK(f, q, manifest'[f][q])
  BY DEF Restart, IndInv, TypeOK, EntryOK, NoEntry
<1>4. \A f \in Device, k \in Cycle : TransferOK(f, cycle'[f][k])
  BY EmptyStates, NothingCarried DEF Restart, IndInv, TypeOK, Carrying
<1>5. \A f \in Device : editor'[f].op \in {"save", "create", "delete"} => editor'[f].path \in Path
  BY DEF Restart, IndInv, TypeOK, NoOp
<1>6. WritingOK'
  <2>1. \A f \in Device : writing'[f] \subseteq writing[f]
    BY DEF Restart, IndInv, TypeOK
  <2>2. Grows
    BY DEF Restart, Grows
  <2> QED BY <2>1, <2>2, WritingStaysOK
<1> QED
  BY <1>2, <1>3, <1>4, <1>5, <1>6 DEF Restart, IndInv, EntryOK, TransferOK

-----------------------------------------------------------------------------
\* The cycle's steps that change more than the cycle

LEMMA WritePullKeeps ==
  ASSUME IndInv, NEW d \in Device, NEW k \in Cycle, WritePull(d, k)
  PROVE  IndInv'
<1> DEFINE c == [cycle[d][k] EXCEPT !.step = "pullMark"]
<1>0. /\ cycle[d][k].path \in Path /\ cycle[d][k].got \in Content
      /\ cycle[d][k].got \in everStored[cycle[d][k].path]
  BY Carried DEF WritePull, At, Carrying
<1>1. c \in CycleState /\ TransferOK(d, c)
  <2>1. "pullMark" \in Step
    BY DEF Step
  <2> HIDE DEF c
  <2>2. c \in CycleState /\ c.step = "pullMark" /\ c.path = cycle[d][k].path /\ c.got = cycle[d][k].got
    BY <2>1, Relabel, CycleFacts DEF c
  <2> QED BY <1>0, <2>2 DEF TransferOK, Carrying
<1>2. /\ cycle' \in [Device -> [Cycle -> CycleState]]
      /\ \A e \in Device, j \in Cycle : TransferOK(e, cycle'[e][j])
  BY <1>1, SetCycleKeeps DEF WritePull, GoTo
<1>3. disk' \in [Device -> [Path -> Version]]
  BY <1>0 DEF WritePull, WriteNote, IndInv, TypeOK, Version
<1>4. WritingOK'
  BY SameWriting DEF WritePull, clientVars
<1> QED
  BY <1>2, <1>3, <1>4 DEF WritePull, clientVars, IndInv, TypeOK, EntryOK, TransferOK

LEMMA MarkPullKeeps ==
  ASSUME IndInv, NEW d \in Device, NEW k \in Cycle, MarkPull(d, k)
  PROVE  IndInv'
<1> DEFINE c == [cycle[d][k] EXCEPT !.step = "pullSave"]
           p == cycle[d][k].path
           e == Synced(cycle[d][k].got)
<1>0. p \in Path /\ cycle[d][k].got \in Content /\ cycle[d][k].got \in Version
      /\ cycle[d][k].got \in everStored[p]
  BY Carried DEF MarkPull, At, Carrying
<1>1. c \in CycleState /\ TransferOK(d, c)
  <2>1. "pullSave" \in Step
    BY DEF Step
  <2> HIDE DEF c
  <2>2. c \in CycleState /\ c.step = "pullSave" /\ c.path = p /\ c.got = cycle[d][k].got
    BY <2>1, Relabel, CycleFacts DEF c
  <2> QED BY <1>0, <2>2 DEF TransferOK, Carrying
<1>2. /\ cycle' \in [Device -> [Cycle -> CycleState]]
      /\ \A f \in Device, j \in Cycle : TransferOK(f, cycle'[f][j])
  BY <1>1, SetCycleKeeps DEF MarkPull, GoTo
<1>3. e \in Entry /\ EntryOK(d, p, e)
  BY <1>0, EntryTypes DEF Synced, EntryOK
<1>4. /\ manifest' \in [Device -> [Path -> Entry]]
      /\ \A f \in Device, q \in Path : EntryOK(f, q, manifest'[f][q])
  BY <1>0, <1>3, SetEntryKeeps DEF MarkPull
<1>5. WritingOK'
  BY SameWriting DEF MarkPull
<1> QED
  BY <1>2, <1>4, <1>5 DEF MarkPull, IndInv, TypeOK, EntryOK, TransferOK

\* SavePull and SaveConflicts: the manifest is saved and the cycle moves on.
LEMMA SaveKeeps ==
  ASSUME IndInv, NEW d \in Device, NEW k \in Cycle, NEW c \in CycleState,
         TransferOK(d, c), SetCycle(d, k, c), Persist(d, k),
         UNCHANGED <<object, disk, manifest, savePending, conflictFiles, loaded, failures,
                     editor, everStored, saves, faults>>
  PROVE  IndInv'
<1>1. /\ savedManifest' \in [Device -> [Path -> Entry]]
      /\ \A f \in Device, q \in Path : EntryOK(f, q, savedManifest'[f][q])
      /\ writing' \in [Device -> SUBSET Save]
      /\ WritingOK'
  BY PersistKeeps
<1> QED BY <1>1, SetCycleKeeps DEF IndInv, TypeOK, EntryOK, TransferOK

LEMMA PutObjectKeeps ==
  ASSUME IndInv, NEW d \in Device, NEW k \in Cycle, PutObject(d, k)
  PROVE  IndInv'
<1> DEFINE p == cycle[d][k].path
           v == cycle[d][k].got
           c == [cycle[d][k] EXCEPT !.step = "pushMark"]
<1>1. p \in Path /\ v \in Content /\ c \in CycleState
  <2>1. "pushMark" \in Step
    BY DEF Step
  <2> QED BY <2>1, Relabel, CycleFacts, Carried DEF PutObject, At, Carrying
<1>2. CASE FailCycle(d, k) /\ UNCHANGED <<object, everStored>>
  <2>1. SetCycle(d, k, NoCycle) /\ failures' \in [Device -> 0 .. Threshold]
    BY <1>2, CycleEnds
  <2> QED BY <1>2, <2>1, EmptyStates, NothingCarried, CycleMove
          DEF PutObject, IndInv, TypeOK, Carrying
<1>3. CASE GoTo(d, k, "pushMark") /\ Store(p, v) /\ UNCHANGED failures
  <2>1. /\ object' \in [Path -> Version]
        /\ everStored' \in [Path -> SUBSET Content]
        /\ \A q \in Path : object'[q] \in everStored'[q] \union {None}
    BY <1>1, <1>3 DEF Store, IndInv, TypeOK, Version
  <2>2. /\ \A q \in Path : everStored[q] \subseteq everStored'[q]
        /\ v \in everStored'[p]
    BY <1>1, <1>3 DEF Store, IndInv, TypeOK
  <2>3. Grows
    BY <2>2 DEF Grows, PutObject, clientVars
  <2>4. /\ cycle' \in [Device -> [Cycle -> CycleState]]
        /\ cycle'[d][k] = c
        /\ \A e \in Device, j \in Cycle : (e # d \/ j # k) => cycle'[e][j] = cycle[e][j]
    BY <1>1, <1>3, SetCycleEffect DEF GoTo, IndInv, TypeOK
  <2>5. ASSUME NEW e \in Device, NEW j \in Cycle
        PROVE  TransferOK(e, cycle[e][j])'
    <3>1. CASE e = d /\ j = k
      <4>1. c.step = "pushMark" /\ c.path = p /\ c.got = v
        BY Relabel, CycleFacts DEF Step
      <4> QED BY <1>1, <2>2, <2>4, <3>1, <4>1 DEF TransferOK, Carrying
    <3>2. CASE e # d \/ j # k
      BY <2>3, <2>4, <3>2 DEF TransferOK, Grows, IndInv
    <3> QED BY <3>1, <3>2
  <2>6. /\ \A e \in Device, q \in Path : EntryOK(e, q, manifest[e][q])'
        /\ \A e \in Device, q \in Path : EntryOK(e, q, savedManifest[e][q])'
    BY <2>3 DEF EntryOK, Grows, IndInv, PutObject, clientVars
  <2>7. WritingOK'
    BY <2>3, WritingStaysOK DEF PutObject, clientVars
  <2> QED
    BY <1>3, <2>1, <2>4, <2>5, <2>6, <2>7 DEF PutObject, clientVars, IndInv, TypeOK
<1> QED BY <1>2, <1>3 DEF PutObject

LEMMA MarkPushKeeps ==
  ASSUME IndInv, NEW d \in Device, NEW k \in Cycle, MarkPush(d, k)
  PROVE  IndInv'
<1> DEFINE p == cycle[d][k].path
           v == cycle[d][k].got
           e == [manifest[d][p] EXCEPT !.lastSyncedHash = v, !.status = "synced"]
<1>1. p \in Path /\ v \in Version /\ v \in everStored[p] /\ cycle[d][k] \in CycleState
  BY Carried, CycleFacts DEF MarkPush, At, Carrying
<1>2. /\ cycle' \in [Device -> [Cycle -> CycleState]]
      /\ \A f \in Device, j \in Cycle : TransferOK(f, cycle'[f][j])
  BY <1>1, DoneEffect, NothingCarried, SetCycleKeeps DEF MarkPush, Carrying
<1>3. e \in Entry /\ EntryOK(d, p, e)
  <2>1. manifest[d][p] \in Entry /\ EntryOK(d, p, manifest[d][p])
    BY <1>1, EntryFacts
  <2> QED BY <1>1, <2>1 DEF Entry, Status, EntryOK
<1>4. /\ manifest' \in [Device -> [Path -> Entry]]
      /\ \A f \in Device, q \in Path : EntryOK(f, q, manifest'[f][q])
  <2>1. CASE SetEntry(d, p, e)
    BY <1>1, <1>3, <2>1, SetEntryKeeps
  <2>2. CASE UNCHANGED manifest
    BY <2>2 DEF IndInv, TypeOK
  <2> QED BY <2>1, <2>2 DEF MarkPush
<1>5. savePending' \in [Device -> BOOLEAN]
  BY DEF MarkPush, IndInv, TypeOK
<1>6. WritingOK'
  BY SameWriting DEF MarkPush
<1> QED
  BY <1>2, <1>4, <1>5, <1>6 DEF MarkPush, IndInv, TypeOK, EntryOK, TransferOK

LEMMA WriteConflictKeeps ==
  ASSUME IndInv, NEW d \in Device, NEW k \in Cycle, WriteConflict(d, k)
  PROVE  IndInv'
<1> DEFINE p == cycle[d][k].path
           v == cycle[d][k].got
           c == [cycle[d][k] EXCEPT !.step = "conflictMark"]
<1>1. p \in Path /\ v \in Content /\ v \in everStored[p] /\ c \in CycleState
      /\ c.step = "conflictMark" /\ c.path = p /\ c.got = v
  <2>1. "conflictMark" \in Step
    BY DEF Step
  <2> QED BY <2>1, Relabel, CycleFacts, Carried DEF WriteConflict, At, Carrying
<1>2. /\ conflictFiles' \in [Device -> SUBSET (Path \X Content)]
      /\ <<p, v>> \in conflictFiles'[d]
      /\ \A e \in Device : conflictFiles[e] \subseteq conflictFiles'[e]
  BY <1>1 DEF WriteConflict, IndInv, TypeOK
<1>3. Grows
  BY <1>2 DEF Grows, WriteConflict
<1>4. /\ cycle' \in [Device -> [Cycle -> CycleState]]
      /\ cycle'[d][k] = c
      /\ \A e \in Device, j \in Cycle : (e # d \/ j # k) => cycle'[e][j] = cycle[e][j]
  BY <1>1, SetCycleEffect DEF WriteConflict, GoTo, IndInv, TypeOK
<1>5. ASSUME NEW e \in Device, NEW j \in Cycle
      PROVE  TransferOK(e, cycle[e][j])'
  <2>1. CASE e = d /\ j = k
    BY <1>1, <1>2, <1>4, <2>1 DEF TransferOK, WriteConflict
  <2>2. CASE e # d \/ j # k
    BY <1>3, <1>4, <2>2 DEF TransferOK, Grows, IndInv
  <2> QED BY <2>1, <2>2
<1>6. /\ \A e \in Device, q \in Path : EntryOK(e, q, manifest[e][q])'
      /\ \A e \in Device, q \in Path : EntryOK(e, q, savedManifest[e][q])'
  BY <1>3 DEF EntryOK, Grows, IndInv, WriteConflict
<1>7. WritingOK'
  BY <1>3, WritingStaysOK DEF WriteConflict
<1> QED
  BY <1>2, <1>4, <1>5, <1>6, <1>7 DEF WriteConflict, IndInv, TypeOK

LEMMA MarkConflictKeeps ==
  ASSUME IndInv, NEW d \in Device, NEW k \in Cycle, MarkConflict(d, k)
  PROVE  IndInv'
<1> DEFINE p == cycle[d][k].path
           e == [manifest[d][p] EXCEPT !.status = "conflictPending"]
<1>1. p \in Path /\ cycle[d][k].got \in everStored[p]
      /\ <<p, cycle[d][k].got>> \in conflictFiles[d] /\ cycle[d][k] \in CycleState
  BY Carried, CycleFacts DEF MarkConflict, At, Carrying
<1>2. /\ cycle' \in [Device -> [Cycle -> CycleState]]
      /\ \A f \in Device, j \in Cycle : TransferOK(f, cycle'[f][j])
  BY <1>1, DoneEffect, NothingCarried, SetCycleKeeps DEF MarkConflict, Carrying
<1>3. e \in Entry /\ EntryOK(d, p, e)
  <2>1. manifest[d][p] \in Entry /\ EntryOK(d, p, manifest[d][p])
    BY <1>1, EntryFacts
  <2> QED BY <1>1, <2>1 DEF Entry, Status, EntryOK
<1>4. /\ manifest' \in [Device -> [Path -> Entry]]
      /\ \A f \in Device, q \in Path : EntryOK(f, q, manifest'[f][q])
  <2>1. CASE SetEntry(d, p, e)
    BY <1>1, <1>3, <2>1, SetEntryKeeps
  <2>2. CASE UNCHANGED manifest
    BY <2>2 DEF IndInv, TypeOK
  <2> QED BY <2>1, <2>2 DEF MarkConflict
<1>5. WritingOK'
  BY SameWriting DEF MarkConflict
<1> QED
  BY <1>2, <1>4, <1>5 DEF MarkConflict, IndInv, TypeOK, EntryOK, TransferOK

-----------------------------------------------------------------------------
\* All the steps

LEMMA CycleStepKeeps ==
  ASSUME IndInv, NEW d \in Device, NEW k \in Cycle, CycleStep(d, k)
  PROVE  IndInv'
<1> DEFINE s == cycle[d][k]
<1>a. s \in CycleState /\ faults \in 0 .. MaxFaults /\ failures \in [Device -> 0 .. Threshold]
  BY DEF IndInv, TypeOK
<1>b. \A p : Done(s, p) \in CycleState /\ TransferOK(d, Done(s, p))
  BY <1>a, DoneEffect, NothingCarried DEF Carrying
<1>c. NoCycle \in CycleState /\ TransferOK(d, NoCycle)
  BY EmptyStates, NothingCarried DEF Carrying
<1>d. ASSUME NEW p \in Path, object[p] # None, NEW t \in {"pullWrite", "conflictWrite"}
      PROVE  LET n == [s EXCEPT !.step = t, !.path = p, !.got = object[p]]
             IN n \in CycleState /\ TransferOK(d, n)
  <2>1. object[p] \in Content /\ object[p] \in everStored[p]
    BY <1>d DEF IndInv, TypeOK, Version
  <2> QED BY <1>a, <1>d, <2>1 DEF CycleState, Step, Version, TransferOK, Carrying
<1>1. CASE ListObjects(d, k)
  <2> DEFINE n == [NoCycle EXCEPT !.step = "listed", !.list = object]
  <2>1. n \in CycleState /\ n.step \notin Carrying
    BY EmptyStates DEF CycleState, Step, Carrying, IndInv, TypeOK
  <2> QED BY <1>a, <1>1, <2>1, NothingCarried, CycleMove DEF ListObjects
<1>2. CASE ComputeDiff(d, k)
  <2> PICK A \in SUBSET Path, B \in SUBSET Path, C \in SUBSET Path :
        SetCycle(d, k, [NoCycle EXCEPT !.step = "work", !.pulls = A, !.pushes = B,
                                       !.conflicts = C])
    <3> DEFINE Sort(To(_, _)) == {p \in Path : To(manifest[d][p], s.list[p])}
    <3> QED BY <1>2 DEF ComputeDiff
  <2> DEFINE n == [NoCycle EXCEPT !.step = "work", !.pulls = A, !.pushes = B, !.conflicts = C]
  <2>1. n \in CycleState /\ n.step \notin Carrying
    BY EmptyStates DEF CycleState, Step, Carrying
  <2> QED BY <1>a, <1>2, <2>1, NothingCarried, CycleMove DEF ComputeDiff
<1>3. CASE GetPull(d, k)
  <2>1. PICK p \in s.pulls :
          IF object[p] = None THEN FailCycle(d, k)
                              ELSE Fetched(d, k, p, "pullWrite") /\ UNCHANGED failures
    BY <1>3 DEF GetPull
  <2>2. p \in Path
    BY <1>a, <2>1 DEF CycleState
  <2>3. CASE object[p] = None
    BY <1>a, <1>c, <1>3, <2>1, <2>3, CycleEnds, CycleMove DEF GetPull
  <2>4. CASE object[p] # None
    <3> DEFINE n == [s EXCEPT !.step = "pullWrite", !.path = p, !.got = object[p]]
    <3>1. n \in CycleState /\ TransferOK(d, n)
      BY <1>d, <2>2, <2>4
    <3> QED BY <1>a, <1>3, <2>1, <2>4, <3>1, CycleMove DEF GetPull, Fetched
  <2> QED BY <2>3, <2>4
<1>4. CASE WritePull(d, k)
  BY <1>4, WritePullKeeps
<1>5. CASE MarkPull(d, k)
  BY <1>5, MarkPullKeeps
<1>6. CASE SavePull(d, k)
  BY <1>b, <1>6, SaveKeeps DEF SavePull
<1>7. CASE ReadPush(d, k)
  <2>1. PICK p \in s.pushes :
          IF disk[d][p] = None
            THEN SetCycle(d, k, Done(s, p))
            ELSE SetCycle(d, k, [s EXCEPT !.step = "pushSend", !.path = p, !.got = disk[d][p]])
    BY <1>7 DEF ReadPush
  <2>2. p \in Path
    BY <1>a, <2>1 DEF CycleState
  <2>3. CASE disk[d][p] = None
    BY <1>a, <1>b, <1>7, <2>1, <2>3, CycleMove DEF ReadPush
  <2>4. CASE disk[d][p] # None
    <3> DEFINE n == [s EXCEPT !.step = "pushSend", !.path = p, !.got = disk[d][p]]
    <3>1. disk[d][p] \in Content
      BY <2>2, <2>4 DEF IndInv, TypeOK, Version
    <3>2. n \in CycleState /\ TransferOK(d, n)
      BY <1>a, <2>2, <3>1 DEF CycleState, Step, Version, TransferOK, Carrying
    <3> QED BY <1>a, <1>7, <2>1, <2>4, <3>2, CycleMove DEF ReadPush
  <2> QED BY <2>3, <2>4
<1>8. CASE PutObject(d, k)
  BY <1>8, PutObjectKeeps
<1>9. CASE MarkPush(d, k)
  BY <1>9, MarkPushKeeps
<1>10. CASE GetConflict(d, k)
  <2>1. PICK p \in s.conflicts :
          IF object[p] = None THEN SetCycle(d, k, Done(s, p)) ELSE Fetched(d, k, p, "conflictWrite")
    BY <1>10 DEF GetConflict
  <2>2. p \in Path
    BY <1>a, <2>1 DEF CycleState
  <2>3. CASE object[p] = None
    BY <1>a, <1>b, <1>10, <2>1, <2>3, CycleMove DEF GetConflict
  <2>4. CASE object[p] # None
    <3> DEFINE n == [s EXCEPT !.step = "conflictWrite", !.path = p, !.got = object[p]]
    <3>1. n \in CycleState /\ TransferOK(d, n)
      BY <1>d, <2>2, <2>4
    <3> QED BY <1>a, <1>10, <2>1, <2>4, <3>1, CycleMove DEF GetConflict, Fetched
  <2> QED BY <2>3, <2>4
<1>11. CASE WriteConflict(d, k)
  BY <1>11, WriteConflictKeeps
<1>12. CASE MarkConflict(d, k)
  BY <1>12, MarkConflictKeeps
<1>13. CASE SaveConflicts(d, k)
  <2>1. [s EXCEPT !.step = "work"] \in CycleState /\ TransferOK(d, [s EXCEPT !.step = "work"])
    BY <1>a DEF CycleState, Step, TransferOK, Carrying
  <2> QED BY <1>13, <2>1, SaveKeeps DEF SaveConflicts, GoTo
<1>14. CASE FinishCycle(d, k)
  BY <1>a, <1>c, <1>14, CycleEnds, CycleMove DEF FinishCycle
<1> QED
  BY <1>1, <1>2, <1>3, <1>4, <1>5, <1>6, <1>7, <1>8, <1>9, <1>10, <1>11, <1>12, <1>13, <1>14
  DEF CycleStep

LEMMA FailureKeeps ==
  ASSUME IndInv, NEW d \in Device, NEW k \in Cycle, CycleFails(d, k) \/ ConflictFails(d, k)
  PROVE  IndInv'
<1>1. faults' \in 0 .. MaxFaults
  BY ConstantsAssumption DEF CycleFails, ConflictFails, Fault, IndInv, TypeOK
<1>2. \A p : Done(cycle[d][k], p) \in CycleState /\ TransferOK(d, Done(cycle[d][k], p))
  BY CycleFacts, DoneEffect, NothingCarried DEF Carrying
<1>3. NoCycle \in CycleState /\ TransferOK(d, NoCycle)
  BY EmptyStates, NothingCarried DEF Carrying
<1>4. CASE CycleFails(d, k)
  BY <1>1, <1>3, <1>4, CycleEnds, CycleMove DEF CycleFails
<1>5. CASE ConflictFails(d, k)
  BY <1>1, <1>2, <1>5, CycleMove DEF ConflictFails, IndInv, TypeOK
<1> QED BY <1>4, <1>5

LEMMA RemoteDeleteKeeps ==
  ASSUME IndInv, NEW p \in Path, RemoteDelete(p)
  PROVE  IndInv'
<1>1. object' \in [Path -> Version] /\ \A q \in Path : object'[q] \in everStored[q] \union {None}
  BY DEF RemoteDelete, IndInv, TypeOK, Version
<1>2. faults' \in 0 .. MaxFaults
  BY ConstantsAssumption DEF RemoteDelete, Fault, IndInv, TypeOK
<1>3. UNCHANGED <<disk, manifest, savedManifest, writing, savePending, conflictFiles, loaded,
                  failures, editor, cycle, everStored, saves>>
  BY DEF RemoteDelete, clientVars
<1>4. TypeOK'
  BY <1>1, <1>2, <1>3 DEF IndInv, TypeOK
<1>5. WritingOK'
  BY <1>3, SameWriting
<1> QED
  BY <1>1, <1>3, <1>4, <1>5 DEF IndInv, EntryOK, TransferOK

\* IndInv is an inductive invariant.
LEMMA InitIndInv == Init => IndInv
<1> SUFFICES ASSUME Init PROVE IndInv
  OBVIOUS
<1>1. TypeOK
  BY EmptyStates, ConstantsAssumption DEF Init, TypeOK, Version
<1>2. \A d \in Device, k \in Cycle : TransferOK(d, cycle[d][k])
  BY EmptyStates, NothingCarried DEF Init, Carrying
<1> QED
  BY <1>1, <1>2 DEF Init, IndInv, EntryOK, WritingOK, NoEntry, NoOp

LEMMA NextIndInv == IndInv /\ [Next]_vars => IndInv'
<1> SUFFICES ASSUME IndInv, [Next]_vars PROVE IndInv'
  OBVIOUS
<1>1. CASE UNCHANGED vars
  <2>1. WritingOK'
    BY <1>1, SameWriting DEF vars, clientVars
  <2> QED BY <1>1, <2>1 DEF vars, clientVars, IndInv, TypeOK, EntryOK, TransferOK
<1>2. CASE Next
  BY <1>2, UserStepKeeps, LocalStepKeeps, RestartKeeps, CycleStepKeeps, FailureKeeps,
     RemoteDeleteKeeps DEF Next
<1> QED BY <1>1, <1>2

THEOREM AlwaysIndInv == Spec => []IndInv
BY InitIndInv, NextIndInv, PTL DEF Spec

\* Every reachable state is well typed.
THEOREM TypeCorrect == Spec => []TypeOK
<1>1. IndInv => TypeOK
  BY DEF IndInv
<1> QED BY <1>1, AlwaysIndInv, PTL

\* markSynced, _pullNote and the saves keep lastSyncedHash a version the server
\* has held, whatever interleavings, failures and crashes.
THEOREM BaseIsAlwaysStored == Spec => []BaseWasStored
<1>1. IndInv => BaseWasStored
  BY DEF IndInv, EntryOK, BaseWasStored
<1> QED BY <1>1, AlwaysIndInv, PTL

\* _handleConflicts never marks a conflict whose server version is not on disk.
THEOREM ConflictAlwaysHasServerFile == Spec => []ConflictHasServerFile
<1>1. IndInv => ConflictHasServerFile
  BY DEF IndInv, EntryOK, ConflictHasServerFile
<1> QED BY <1>1, AlwaysIndInv, PTL

-----------------------------------------------------------------------------
(***************************************************************************)
(* The manifest describes the files: while a device has one sync cycle in  *)
(* progress, which takes turns with its user, no client is killed or out   *)
(* of disk space, and manifests are saved one after the other.  The cycles *)
(* of different devices overlap, requests and answers are lost, notes      *)
(* deleted on every side, clients restarted and note lists opened anew.    *)
(***************************************************************************)
InTurns ==
  /\ Disturbances \subseteq {"overlap", "loss", "delete", "remoteDelete", "reload"}
  /\ "overlap" \in Disturbances => \A j, k \in Cycle : j = k

\* saveManifest, when it replaces manifest.json at once.
SavesNow(d) == savedManifest' = [savedManifest EXCEPT ![d] = manifest[d]]

\* While saves are not slow, every one is made at once and none is on its way.
LEMMA SavesAtOnce ==
  ASSUME IndInv, "slowSave" \notin Disturbances, NEW d \in Device
  PROVE  /\ writing[d] = {}
         /\ ~SaveLands(d) /\ ~SaveFails(d)
         /\ \A by : Persist(d, by) => SavesNow(d)
<1>1. writing[d] = {}
  BY DEF IndInv, WritingOK, Allowed
<1> QED BY <1>1 DEF SaveLands, SaveFails, Persist, SavesNow, Allowed

-----------------------------------------------------------------------------
\* The inductive invariant

\* The manifest a device works with, or will after it has loaded it.
Known(d) == IF loaded[d] THEN manifest[d] ELSE savedManifest[d]

\* A device has one cycle in progress, and its user waits for it.
OneCycle(d) ==
  \A k \in Cycle : cycle[d][k] # NoCycle =>
    /\ loaded[d] /\ editor[d] = NoOp
    /\ \A j \in Cycle \ {k} : cycle[d][j] = NoCycle

\* The user's operation has written the file its entry will describe.
Editing(d, p) == editor[d].op \in {"save", "create", "delete"} /\ editor[d].path = p

EditOK(d) ==
  /\ editor[d] # NoOp \/ savePending[d] => loaded[d]
  /\ \A p \in Path : Editing(d, p) =>
       /\ disk[d][p] = editor[d].content
       /\ editor[d].op = "save" =>
            editor[d].content # None /\ manifest[d][p].status # "absent"
       /\ editor[d].op = "create" => editor[d].content # None
       /\ editor[d].op = "delete" => editor[d].content = None

\* An entry describes its file, unless an edit or a pull is between the two.
Pulling(d, p) == \E k \in Cycle : At(d, k, "pullMark") /\ cycle[d][k].path = p

FileOK(d, p) ==
  LET e == Known(d)[p]
  IN IF e.status = "absent" THEN disk[d][p] = None ELSE disk[d][p] = e.contentHash

EntriesOK(d) ==
  \A p \in Path :
    /\ ~Editing(d, p) /\ ~Pulling(d, p) => FileOK(d, p)
    /\ Known(d)[p].status = "synced" => Known(d)[p].lastSyncedHash = Known(d)[p].contentHash

\* manifest.json may be behind only while something is there that will save it.
Unsaved(c) ==
  \/ c.step \in {"pullSave", "conflictSave"}
  \/ /\ c.step \in {"work", "conflictWrite", "conflictMark"}
     /\ c.pulls = {} /\ c.pushes = {} /\ c.conflicts # {}

SavedOK(d) ==
  loaded[d] /\ editor[d].op # "persist" /\ ~savePending[d]
    /\ (\A k \in Cycle : ~Unsaved(cycle[d][k]))
  => savedManifest[d] = manifest[d]

\* What the diff has found is still so for every note that is left to do.
PlanOK(d, c) ==
  /\ \A p \in c.pulls : manifest[d][p].status \in {"absent", "synced"}
  /\ \A p \in c.pushes : manifest[d][p].status = "modified"
  /\ c.conflicts \intersect (c.pulls \union c.pushes) = {}
  /\ c.step \in {"pullWrite", "pullMark", "pullSave"} => c.path \in c.pulls
  /\ c.step = "pullMark" => disk[d][c.path] = c.got
  /\ c.step \in {"pushSend", "pushMark"} =>
       c.path \in c.pushes /\ c.pulls = {} /\ disk[d][c.path] = c.got
  /\ c.step \in {"conflictWrite", "conflictMark", "conflictSave"} => c.pulls = {} /\ c.pushes = {}
  /\ c.step \in {"conflictWrite", "conflictMark"} => c.path \in c.conflicts
  /\ c.step = "conflictSave" => c.conflicts = {}

DeviceOK(d) ==
  /\ OneCycle(d) /\ EditOK(d) /\ EntriesOK(d) /\ SavedOK(d)
  /\ \A k \in Cycle : PlanOK(d, cycle[d][k])

TurnInv == \A d \in Device : DeviceOK(d)

-----------------------------------------------------------------------------
\* Lemmas about the parts of the invariant

\* Cycle k of device d may take a step: its user and its other cycles wait.
Turn(d, k) ==
  /\ loaded[d] /\ editor[d] = NoOp
  /\ \A j \in Cycle \ {k} : cycle[d][j] = NoCycle

\* Nothing of a device changes.
Same(e) ==
  /\ disk'[e] = disk[e] /\ manifest'[e] = manifest[e] /\ savedManifest'[e] = savedManifest[e]
  /\ savePending'[e] = savePending[e] /\ loaded'[e] = loaded[e] /\ editor'[e] = editor[e]
  /\ \A k \in Cycle : cycle'[e][k] = cycle[e][k]

\* Every other cycle stays as it is.
Others(d, k) ==
  /\ cycle' \in [Device -> [Cycle -> CycleState]]
  /\ \A e \in Device, j \in Cycle : e # d \/ j # k => cycle'[e][j] = cycle[e][j]

LEMMA TurnTypes ==
  ASSUME IndInv
  PROVE  /\ object \in [Path -> Version]
         /\ disk \in [Device -> [Path -> Version]]
         /\ manifest \in [Device -> [Path -> Entry]]
         /\ savedManifest \in [Device -> [Path -> Entry]]
         /\ savePending \in [Device -> BOOLEAN]
         /\ loaded \in [Device -> BOOLEAN]
         /\ editor \in [Device -> EditorOp]
         /\ cycle \in [Device -> [Cycle -> CycleState]]
         /\ None \notin Content
BY ConstantsAssumption DEF IndInv, TypeOK

LEMMA NoCycleFacts ==
  /\ NoCycle.step = "idle" /\ NoCycle.pulls = {} /\ NoCycle.pushes = {} /\ NoCycle.conflicts = {}
  /\ \A d \in Device : PlanOK(d, NoCycle)
  /\ ~Unsaved(NoCycle)
BY DEF NoCycle, PlanOK, Unsaved

LEMMA NoOpFacts ==
  /\ NoOp.op = "none"
  /\ \A d \in Device, p \in Path : editor[d] = NoOp => ~Editing(d, p)
BY DEF NoOp, Editing

\* The device that has a cycle in progress is the one whose turn it is.
LEMMA HasTurn ==
  ASSUME TurnInv, NEW d \in Device, NEW k \in Cycle, cycle[d][k].step # "idle"
  PROVE  Turn(d, k)
BY NoCycleFacts DEF TurnInv, DeviceOK, OneCycle, Turn

LEMMA Elsewhere ==
  ASSUME NEW e \in Device, DeviceOK(e), Same(e)
  PROVE  DeviceOK(e)'
<1>1. EditOK(e)'
  BY DEF DeviceOK, EditOK, Editing, Same
<1>2. EntriesOK(e)'
  BY DEF DeviceOK, EntriesOK, Editing, Pulling, FileOK, Known, At, Same
<1>3. SavedOK(e)'
  BY DEF DeviceOK, SavedOK, Unsaved, Same
<1>4. \A j \in Cycle : PlanOK(e, cycle[e][j])'
  BY DEF DeviceOK, PlanOK, Same
<1>5. OneCycle(e)'
  BY DEF DeviceOK, OneCycle, Same
<1> QED
  BY <1>1, <1>2, <1>3, <1>4, <1>5 DEF DeviceOK

\* A step of the cycle whose turn it is, seen from the rest of the system.
LEMMA TurnStep ==
  ASSUME TurnInv, NEW d \in Device, NEW k \in Cycle, Turn(d, k), Others(d, k),
         UNCHANGED <<loaded, editor>>,
         \A e \in Device \ {d} :
           /\ disk'[e] = disk[e] /\ manifest'[e] = manifest[e]
           /\ savedManifest'[e] = savedManifest[e] /\ savePending'[e] = savePending[e],
         EntriesOK(d)', SavedOK(d)', PlanOK(d, cycle[d][k])'
  PROVE  TurnInv'
<1>1. OneCycle(d)'
  BY DEF OneCycle, Turn, Others
<1>2. ASSUME NEW e \in Device \ {d}
      PROVE  DeviceOK(e)'
  BY Elsewhere DEF TurnInv, Turn, Others, Same
<1>3. EditOK(d)'
  BY NoOpFacts DEF Turn, EditOK, Editing
<1>4. ASSUME NEW j \in Cycle
      PROVE  PlanOK(d, cycle[d][j])'
  <2>1. CASE j = k
    BY <2>1
  <2>2. CASE j # k
    BY <2>2 DEF Turn, Others, PlanOK, NoCycle
  <2> QED
    BY <2>1, <2>2
<1>5. DeviceOK(d)'
  BY <1>1, <1>3, <1>4 DEF DeviceOK
<1> QED
  BY <1>2, <1>5 DEF TurnInv

\* A step that changes nothing of the device but the cycle itself.
LEMMA CycleOnly ==
  ASSUME TurnInv, NEW d \in Device, NEW k \in Cycle, Turn(d, k), Others(d, k),
         UNCHANGED <<loaded, editor, disk, manifest, savedManifest, savePending>>,
         cycle[d][k].step # "pullMark", cycle'[d][k].step # "pullMark",
         Unsaved(cycle[d][k]) => Unsaved(cycle[d][k])',
         PlanOK(d, cycle[d][k])'
  PROVE  TurnInv'
<1>1. EntriesOK(d)'
  <2>1. \A p \in Path : ~Pulling(d, p)
    BY NoCycleFacts DEF Pulling, At, Turn
  <2> QED
    BY <2>1 DEF TurnInv, DeviceOK, EntriesOK, Editing, FileOK, Known
<1>2. SavedOK(d)'
  <2>1. (\A j \in Cycle : ~Unsaved(cycle[d][j]))' => \A j \in Cycle : ~Unsaved(cycle[d][j])
    BY NoCycleFacts DEF Turn
  <2> QED
    BY <2>1 DEF TurnInv, DeviceOK, SavedOK
<1> QED
  BY <1>1, <1>2, TurnStep

-----------------------------------------------------------------------------
\* The steps of a cycle

\* Done, field by field.
LEMMA DoneFields ==
  ASSUME NEW c \in CycleState, NEW p
  PROVE  /\ Done(c, p).pulls = c.pulls \ {p}
         /\ Done(c, p).pushes = c.pushes \ {p}
         /\ Done(c, p).conflicts = c.conflicts \ {p}
         /\ Done(c, p).step =
              IF p \in c.conflicts /\ c.conflicts \ {p} = {} THEN "conflictSave" ELSE "work"
BY DEF Done, CycleState

\* What SetCycle does to the cycle and to the others.
LEMMA SetCycleTurn ==
  ASSUME IndInv, NEW d \in Device, NEW k \in Cycle, NEW n \in CycleState, SetCycle(d, k, n)
  PROVE  Others(d, k) /\ cycle'[d][k] = n
BY TurnTypes DEF SetCycle, Others

\* A cycle that ends, by itself or by an exception, when nothing is unsaved.
LEMMA EndTurn ==
  ASSUME IndInv, TurnInv, NEW d \in Device, NEW k \in Cycle, SetCycle(d, k, NoCycle),
         cycle[d][k].step \notin {"idle", "pullMark"}, ~Unsaved(cycle[d][k]),
         UNCHANGED <<loaded, editor, disk, manifest, savedManifest, savePending>>
  PROVE  TurnInv'
<1>1. Others(d, k) /\ cycle'[d][k] = NoCycle
  BY EmptyStates, SetCycleTurn
<1>2. Turn(d, k)
  BY HasTurn
<1>3. PlanOK(d, cycle[d][k])' /\ cycle'[d][k].step # "pullMark"
  BY <1>1, NoCycleFacts DEF PlanOK
<1> QED
  BY <1>1, <1>2, <1>3, CycleOnly

LEMMA ListObjectsTurn ==
  ASSUME IndInv, TurnInv, InTurns, NEW d \in Device, NEW k \in Cycle, ListObjects(d, k)
  PROVE  TurnInv'
<1> DEFINE n == [NoCycle EXCEPT !.step = "listed", !.list = object]
<1>1. n \in CycleState
  BY TurnTypes, EmptyStates DEF CycleState, Step
<1>2. Others(d, k) /\ cycle'[d][k] = n
  BY <1>1, SetCycleTurn DEF ListObjects
<1>3. /\ n.step = "listed" /\ n.list = object /\ n.pulls = {} /\ n.pushes = {} /\ n.conflicts = {}
  BY DEF NoCycle
<1>4. Turn(d, k) /\ cycle[d][k].step = "idle" /\ ~Unsaved(cycle[d][k])
  BY DEF ListObjects, At, InTurns, Allowed, UserIdle, Quiet, Turn, Unsaved
<1>5. PlanOK(d, cycle[d][k])'
  BY <1>2, <1>3 DEF PlanOK, ListObjects
<1> QED
  BY <1>2, <1>3, <1>4, <1>5, CycleOnly DEF ListObjects, clientVars

LEMMA ComputeDiffTurn ==
  ASSUME IndInv, TurnInv, NEW d \in Device, NEW k \in Cycle, ComputeDiff(d, k)
  PROVE  TurnInv'
<1> DEFINE list == cycle[d][k].list
           pulls == {p \in Path : ToPull(manifest[d][p], list[p])}
           pushes == {p \in Path : ToPush(manifest[d][p], list[p])}
           conflicts == {p \in Path : ToConflict(manifest[d][p], list[p])}
           n == [NoCycle EXCEPT !.step = "work", !.pulls = pulls, !.pushes = pushes,
                                !.conflicts = conflicts]
<1>1. n \in CycleState
  BY EmptyStates DEF CycleState, Step
<1>2. Others(d, k) /\ cycle'[d][k] = n
  BY <1>1, SetCycleTurn DEF ComputeDiff
<1>3. n.step = "work" /\ n.pulls = pulls /\ n.pushes = pushes /\ n.conflicts = conflicts
  BY DEF NoCycle
<1>4. Turn(d, k) /\ ~Unsaved(cycle[d][k]) /\ cycle[d][k].step = "listed"
  BY HasTurn DEF ComputeDiff, At, Unsaved
<1>6. PlanOK(d, cycle[d][k])'
  <2>1. \A p \in pulls : manifest[d][p].status \in {"absent", "synced"}
    BY DEF ToPull
  <2>2. \A p \in pushes : manifest[d][p].status = "modified"
    BY DEF ToPush
  <2>3. conflicts \intersect (pulls \union pushes) = {}
    BY DEF ToPull, ToPush, ToConflict
  <2> HIDE DEF pulls, pushes, conflicts, n
  <2> QED
    BY <1>2, <1>3, <2>1, <2>2, <2>3 DEF PlanOK, ComputeDiff, clientVars
<1> HIDE DEF n
<1> QED
  BY <1>2, <1>3, <1>4, <1>6, CycleOnly DEF ComputeDiff, clientVars

\* GoTo, field by field.
LEMMA GoToTurn ==
  ASSUME IndInv, NEW d \in Device, NEW k \in Cycle, NEW s \in Step, GoTo(d, k, s)
  PROVE  /\ Others(d, k) /\ cycle'[d][k].step = s
         /\ cycle'[d][k].path = cycle[d][k].path /\ cycle'[d][k].got = cycle[d][k].got
         /\ cycle'[d][k].pulls = cycle[d][k].pulls /\ cycle'[d][k].pushes = cycle[d][k].pushes
         /\ cycle'[d][k].conflicts = cycle[d][k].conflicts
<1>1. cycle[d][k] \in CycleState
  BY CycleFacts
<1>2. [cycle[d][k] EXCEPT !.step = s] \in CycleState
  BY <1>1 DEF CycleState
<1>3. Others(d, k) /\ cycle'[d][k] = [cycle[d][k] EXCEPT !.step = s]
  BY <1>2, SetCycleTurn DEF GoTo
<1> QED
  BY <1>1, <1>3 DEF CycleState

\* The loop goes on after path p, field by field.
LEMMA DoneTurn ==
  ASSUME IndInv, NEW d \in Device, NEW k \in Cycle, NEW p \in Path,
         SetCycle(d, k, Done(cycle[d][k], p))
  PROVE  /\ Others(d, k)
         /\ cycle'[d][k].pulls = cycle[d][k].pulls \ {p}
         /\ cycle'[d][k].pushes = cycle[d][k].pushes \ {p}
         /\ cycle'[d][k].conflicts = cycle[d][k].conflicts \ {p}
         /\ cycle'[d][k].step =
              IF p \in cycle[d][k].conflicts /\ cycle[d][k].conflicts \ {p} = {}
                THEN "conflictSave" ELSE "work"
<1>1. cycle[d][k] \in CycleState
  BY CycleFacts
<1>2. Others(d, k) /\ cycle'[d][k] = Done(cycle[d][k], p)
  BY <1>1, DoneEffect, SetCycleTurn
<1> QED
  BY <1>1, <1>2, DoneFields

StepSet == {"work", "pullWrite", "pullMark", "pullSave", "pushSend", "pushMark",
            "conflictWrite", "conflictMark", "conflictSave"}

\* What the cycle whose turn it is may rely on.
LEMMA MyPlan ==
  ASSUME IndInv, TurnInv, NEW d \in Device, NEW k \in Cycle, cycle[d][k].step # "idle"
  PROVE  /\ Turn(d, k) /\ PlanOK(d, cycle[d][k]) /\ EntriesOK(d) /\ SavedOK(d)
         /\ cycle[d][k] \in CycleState /\ Known(d) = manifest[d]
         /\ StepSet \subseteq Step
<1>1. Turn(d, k)
  BY HasTurn
<1> QED
  BY <1>1, CycleFacts DEF TurnInv, DeviceOK, Turn, Known, Step, StepSet

LEMMA GetPullTurn ==
  ASSUME IndInv, TurnInv, NEW d \in Device, NEW k \in Cycle, GetPull(d, k)
  PROVE  TurnInv'
<1>1. cycle[d][k].step = "work"
  BY DEF GetPull, At
<1>2. /\ Turn(d, k) /\ PlanOK(d, cycle[d][k]) /\ cycle[d][k] \in CycleState /\ StepSet \subseteq Step
      /\ UNCHANGED <<object, disk, manifest, savedManifest, savePending, loaded, editor>>
  BY <1>1, MyPlan DEF GetPull, clientVars
<1>3. PICK p \in cycle[d][k].pulls :
        IF object[p] = None THEN SetCycle(d, k, NoCycle) ELSE Fetched(d, k, p, "pullWrite")
  BY DEF GetPull, FailCycle
<1>4. ~Unsaved(cycle[d][k]) /\ p \in Path
  BY <1>1, <1>2, <1>3 DEF Unsaved, CycleState
<1>5. CASE object[p] = None
  BY <1>1, <1>2, <1>3, <1>4, <1>5, EndTurn
<1>6. CASE object[p] # None
  <2> DEFINE n == [cycle[d][k] EXCEPT !.step = "pullWrite", !.path = p, !.got = object[p]]
  <2>1. /\ n \in CycleState /\ n.step = "pullWrite" /\ n.path = p
        /\ n.pulls = cycle[d][k].pulls /\ n.pushes = cycle[d][k].pushes
        /\ n.conflicts = cycle[d][k].conflicts
    <3>1. object[p] \in Version /\ "pullWrite" \in Step
      BY <1>2, <1>4, TurnTypes DEF StepSet
    <3> QED
      BY <1>2, <1>4, <3>1 DEF CycleState
  <2>2. Others(d, k) /\ cycle'[d][k] = n
    BY <1>3, <1>6, <2>1, SetCycleTurn DEF Fetched
  <2> HIDE DEF n
  <2>3. PlanOK(d, cycle[d][k])'
    BY <1>1, <1>2, <1>3, <2>1, <2>2 DEF PlanOK
  <2> QED
    BY <1>1, <1>2, <1>4, <2>1, <2>2, <2>3, CycleOnly
<1> QED
  BY <1>5, <1>6

LEMMA WritePullTurn ==
  ASSUME IndInv, TurnInv, NEW d \in Device, NEW k \in Cycle, WritePull(d, k)
  PROVE  TurnInv'
<1>1. cycle[d][k].step = "pullWrite"
  BY DEF WritePull, At
<1>2. /\ Turn(d, k) /\ PlanOK(d, cycle[d][k]) /\ cycle[d][k] \in CycleState /\ StepSet \subseteq Step
      /\ EntriesOK(d) /\ SavedOK(d)
      /\ UNCHANGED <<object, manifest, savedManifest, savePending, loaded, editor>>
  BY <1>1, MyPlan DEF WritePull, clientVars
<1>3. PICK p \in Path, v \in Content : p = cycle[d][k].path /\ v = cycle[d][k].got
  BY <1>1, Carried DEF Carrying
<1>4. /\ Others(d, k) /\ cycle'[d][k].step = "pullMark"
      /\ cycle'[d][k].path = p /\ cycle'[d][k].got = v
      /\ cycle'[d][k].pulls = cycle[d][k].pulls /\ cycle'[d][k].pushes = cycle[d][k].pushes
      /\ cycle'[d][k].conflicts = cycle[d][k].conflicts
  BY <1>2, <1>3, GoToTurn DEF WritePull, StepSet
<1>5. /\ disk'[d][p] = v
      /\ \A q \in Path \ {p} : disk'[d][q] = disk[d][q]
      /\ \A e \in Device \ {d} : disk'[e] = disk[e]
  BY <1>3, TurnTypes DEF WritePull, WriteNote
<1>6. PlanOK(d, cycle[d][k])'
  BY <1>1, <1>2, <1>3, <1>4, <1>5 DEF PlanOK
<1>7. EntriesOK(d)'
  <2>1. \A q \in Path : ~Editing(d, q)' /\ ~Editing(d, q)
    BY <1>2, NoOpFacts DEF Turn, Editing
  <2>2. \A q \in Path : ~Pulling(d, q)
    BY <1>1, <1>2, <1>3, NoCycleFacts DEF Pulling, Turn, At
  <2>3. Pulling(d, p)'
    BY <1>4 DEF Pulling, At
  <2> QED
    BY <1>2, <1>3, <1>5, <2>1, <2>2, <2>3 DEF EntriesOK, FileOK, Known
<1>8. SavedOK(d)'
  <2>1. ~Unsaved(cycle[d][k])
    BY <1>1 DEF Unsaved
  <2>2. \A j \in Cycle : ~Unsaved(cycle[d][j])
    BY <1>2, <2>1, NoCycleFacts DEF Turn
  <2> QED
    BY <1>2, <2>2 DEF SavedOK
<1> QED
  BY <1>2, <1>4, <1>5, <1>6, <1>7, <1>8, TurnStep

LEMMA MarkPullTurn ==
  ASSUME IndInv, TurnInv, NEW d \in Device, NEW k \in Cycle, MarkPull(d, k)
  PROVE  TurnInv'
<1>1. cycle[d][k].step = "pullMark"
  BY DEF MarkPull, At
<1>2. /\ Turn(d, k) /\ PlanOK(d, cycle[d][k]) /\ cycle[d][k] \in CycleState /\ StepSet \subseteq Step
      /\ EntriesOK(d) /\ SavedOK(d)
      /\ UNCHANGED <<object, disk, savedManifest, savePending, loaded, editor>>
  BY <1>1, MyPlan DEF MarkPull, clientVars
<1>3. PICK p \in Path, v \in Content : p = cycle[d][k].path /\ v = cycle[d][k].got
  BY <1>1, Carried DEF Carrying
<1>4. /\ Others(d, k) /\ cycle'[d][k].step = "pullSave"
      /\ cycle'[d][k].path = p /\ cycle'[d][k].pulls = cycle[d][k].pulls /\ cycle'[d][k].pushes = cycle[d][k].pushes
      /\ cycle'[d][k].conflicts = cycle[d][k].conflicts
  BY <1>2, <1>3, GoToTurn DEF MarkPull, StepSet
<1>5. /\ manifest'[d][p] = Synced(v)
      /\ \A q \in Path \ {p} : manifest'[d][q] = manifest[d][q]
      /\ \A e \in Device \ {d} : manifest'[e] = manifest[e]
  BY <1>3, TurnTypes DEF MarkPull, SetEntry
<1>6. Synced(v).status = "synced" /\ Synced(v).contentHash = v /\ Synced(v).lastSyncedHash = v
  BY DEF Synced
<1>7. p \in cycle[d][k].pulls /\ disk[d][p] = v
  BY <1>1, <1>2, <1>3 DEF PlanOK
<1>8. PlanOK(d, cycle[d][k])'
  <2>1. p \notin cycle[d][k].pushes
    BY <1>2, <1>7 DEF PlanOK
  <2>2. cycle[d][k].pulls \subseteq Path /\ cycle[d][k].pushes \subseteq Path
    BY <1>2 DEF CycleState
  <2>3. \A q \in cycle[d][k].pulls : manifest'[d][q].status \in {"absent", "synced"}
    BY <1>2, <1>5, <1>6, <2>2 DEF PlanOK
  <2>4. \A q \in cycle[d][k].pushes : manifest'[d][q].status = "modified"
    BY <1>1, <1>2, <1>5, <2>1, <2>2 DEF PlanOK
  <2> QED
    BY <1>2, <1>4, <1>7, <2>3, <2>4 DEF PlanOK
<1>9. EntriesOK(d)'
  <2>1. \A q \in Path : ~Editing(d, q)' /\ ~Editing(d, q)
    BY <1>2, NoOpFacts DEF Turn, Editing
  <2>2. \A q \in Path \ {p} : ~Pulling(d, q)
    BY <1>1, <1>2, <1>3, NoCycleFacts DEF Pulling, Turn, At
  <2>3. loaded[d] /\ loaded'[d]
    BY <1>2 DEF Turn
  <2> QED
    BY <1>2, <1>3, <1>5, <1>6, <1>7, <2>1, <2>2, <2>3, TurnTypes DEF EntriesOK, FileOK, Known
<1>10. SavedOK(d)'
  BY <1>4 DEF SavedOK, Unsaved
<1> QED
  BY <1>2, <1>4, <1>5, <1>8, <1>9, <1>10, TurnStep

\* The manifest is saved: the file is what is in memory.
LEMMA PersistTurn ==
  ASSUME IndInv, TurnInv, NEW d \in Device, NEW k \in Cycle, Turn(d, k), SavesNow(d), Others(d, k),
         UNCHANGED <<loaded, editor, disk, manifest, savePending>>,
         cycle[d][k].step # "pullMark", cycle'[d][k].step # "pullMark",
         PlanOK(d, cycle[d][k])'
  PROVE  TurnInv'
<1>1. savedManifest'[d] = manifest[d] /\ \A e \in Device \ {d} : savedManifest'[e] = savedManifest[e]
  BY TurnTypes DEF SavesNow
<1>2. EntriesOK(d)'
  <2>1. \A p \in Path : ~Pulling(d, p)
    BY NoCycleFacts DEF Pulling, At, Turn
  <2>2. loaded[d] /\ EntriesOK(d)
    BY DEF Turn, TurnInv, DeviceOK
  <2> QED
    BY <2>1, <2>2 DEF EntriesOK, Editing, FileOK, Known
<1>3. SavedOK(d)'
  BY <1>1 DEF SavedOK
<1> QED
  BY <1>1, <1>2, <1>3, TurnStep

LEMMA SavePullTurn ==
  ASSUME IndInv, TurnInv, InTurns, NEW d \in Device, NEW k \in Cycle, SavePull(d, k)
  PROVE  TurnInv'
<1>1. cycle[d][k].step = "pullSave"
  BY DEF SavePull, At
<1>2. /\ Turn(d, k) /\ PlanOK(d, cycle[d][k]) /\ cycle[d][k] \in CycleState
      /\ UNCHANGED <<object, disk, manifest, savePending, loaded, editor>>
  BY <1>1, MyPlan DEF SavePull
<1>3. PICK p \in Path : p = cycle[d][k].path
  BY <1>1, Carried DEF Carrying
<1>4. /\ Others(d, k)
      /\ cycle'[d][k].pulls = cycle[d][k].pulls \ {p}
      /\ cycle'[d][k].pushes = cycle[d][k].pushes \ {p}
      /\ cycle'[d][k].conflicts = cycle[d][k].conflicts \ {p}
      /\ cycle'[d][k].step =
           IF p \in cycle[d][k].conflicts /\ cycle[d][k].conflicts \ {p} = {}
             THEN "conflictSave" ELSE "work"
  BY <1>3, DoneTurn DEF SavePull
<1>5. p \in cycle[d][k].pulls /\ p \notin cycle[d][k].conflicts
  BY <1>1, <1>2, <1>3 DEF PlanOK
<1>6. PlanOK(d, cycle[d][k])'
  <2>1. cycle'[d][k].step = "work" /\ cycle'[d][k].conflicts \subseteq cycle[d][k].conflicts
    BY <1>4, <1>5
  <2> QED
    BY <1>1, <1>2, <1>4, <2>1 DEF PlanOK
<1>7. SavesNow(d)
  BY SavesAtOnce DEF SavePull, InTurns
<1> QED
  BY <1>1, <1>2, <1>4, <1>6, <1>7, PersistTurn

LEMMA ReadPushTurn ==
  ASSUME IndInv, TurnInv, NEW d \in Device, NEW k \in Cycle, ReadPush(d, k)
  PROVE  TurnInv'
<1>1. cycle[d][k].step = "work" /\ cycle[d][k].pulls = {}
  BY DEF ReadPush, At
<1>2. /\ Turn(d, k) /\ PlanOK(d, cycle[d][k]) /\ cycle[d][k] \in CycleState /\ StepSet \subseteq Step
      /\ UNCHANGED <<object, disk, manifest, savedManifest, savePending, loaded, editor>>
  BY <1>1, MyPlan DEF ReadPush, clientVars
<1>3. PICK p \in cycle[d][k].pushes :
        IF disk[d][p] = None
          THEN SetCycle(d, k, Done(cycle[d][k], p))
          ELSE SetCycle(d, k, [cycle[d][k] EXCEPT !.step = "pushSend", !.path = p,
                                                  !.got = disk[d][p]])
  BY DEF ReadPush
<1>4. ~Unsaved(cycle[d][k]) /\ p \in Path /\ p \notin cycle[d][k].conflicts
  BY <1>1, <1>2, <1>3 DEF Unsaved, CycleState, PlanOK
<1>5. CASE disk[d][p] = None
  <2>1. /\ Others(d, k)
        /\ cycle'[d][k].pulls = cycle[d][k].pulls \ {p}
        /\ cycle'[d][k].pushes = cycle[d][k].pushes \ {p}
        /\ cycle'[d][k].conflicts = cycle[d][k].conflicts \ {p}
        /\ cycle'[d][k].step = "work"
    BY <1>3, <1>4, <1>5, DoneTurn
  <2>2. PlanOK(d, cycle[d][k])'
    BY <1>1, <1>2, <2>1 DEF PlanOK
  <2> QED
    BY <1>1, <1>2, <1>4, <2>1, <2>2, CycleOnly
<1>6. CASE disk[d][p] # None
  <2> DEFINE n == [cycle[d][k] EXCEPT !.step = "pushSend", !.path = p, !.got = disk[d][p]]
  <2>1. /\ n \in CycleState /\ n.step = "pushSend" /\ n.path = p /\ n.got = disk[d][p]
        /\ n.pulls = cycle[d][k].pulls /\ n.pushes = cycle[d][k].pushes
        /\ n.conflicts = cycle[d][k].conflicts
    <3>1. disk[d][p] \in Version /\ "pushSend" \in Step
      BY <1>2, <1>4, TurnTypes DEF StepSet
    <3> QED
      BY <1>2, <1>4, <3>1 DEF CycleState
  <2>2. Others(d, k) /\ cycle'[d][k] = n
    BY <1>3, <1>6, <2>1, SetCycleTurn
  <2> HIDE DEF n
  <2>3. PlanOK(d, cycle[d][k])'
    BY <1>1, <1>2, <1>3, <2>1, <2>2 DEF PlanOK
  <2> QED
    BY <1>1, <1>2, <1>4, <2>1, <2>2, <2>3, CycleOnly
<1> QED
  BY <1>5, <1>6

LEMMA PutObjectTurn ==
  ASSUME IndInv, TurnInv, NEW d \in Device, NEW k \in Cycle, PutObject(d, k)
  PROVE  TurnInv'
<1>1. cycle[d][k].step = "pushSend" /\ ~Unsaved(cycle[d][k])
  BY DEF PutObject, At, Unsaved
<1>2. /\ Turn(d, k) /\ PlanOK(d, cycle[d][k]) /\ cycle[d][k] \in CycleState /\ StepSet \subseteq Step
      /\ UNCHANGED <<disk, manifest, savedManifest, savePending, loaded, editor>>
  BY <1>1, MyPlan DEF PutObject, clientVars
<1>3. PICK p \in Path, v \in Content : p = cycle[d][k].path /\ v = cycle[d][k].got
  BY <1>1, Carried DEF Carrying
<1>4. CASE <<p, v>> \in Refused
  BY <1>1, <1>2, <1>3, <1>4, EndTurn DEF PutObject, FailCycle
<1>5. CASE <<p, v>> \notin Refused
  <2>1. GoTo(d, k, "pushMark") /\ Store(p, v)
    BY <1>3, <1>5 DEF PutObject
  <2>2. /\ Others(d, k) /\ cycle'[d][k].step = "pushMark"
        /\ cycle'[d][k].path = p /\ cycle'[d][k].got = v
        /\ cycle'[d][k].pulls = cycle[d][k].pulls /\ cycle'[d][k].pushes = cycle[d][k].pushes
        /\ cycle'[d][k].conflicts = cycle[d][k].conflicts
    BY <1>2, <1>3, <2>1, GoToTurn DEF StepSet
  <2>3. PlanOK(d, cycle[d][k])'
    BY <1>1, <1>2, <1>3, <2>2 DEF PlanOK
  <2> QED
    BY <1>1, <1>2, <2>2, <2>3, CycleOnly
<1> QED
  BY <1>4, <1>5

LEMMA MarkPushTurn ==
  ASSUME IndInv, TurnInv, NEW d \in Device, NEW k \in Cycle, MarkPush(d, k)
  PROVE  TurnInv'
<1>1. cycle[d][k].step = "pushMark"
  BY DEF MarkPush, At
<1>2. /\ Turn(d, k) /\ PlanOK(d, cycle[d][k]) /\ cycle[d][k] \in CycleState
      /\ EntriesOK(d) /\ SavedOK(d)
      /\ UNCHANGED <<object, disk, savedManifest, loaded, editor>>
  BY <1>1, MyPlan DEF MarkPush, clientVars
<1>3. PICK p \in Path, v \in Content : p = cycle[d][k].path /\ v = cycle[d][k].got
  BY <1>1, Carried DEF Carrying
<1>4. /\ p \in cycle[d][k].pushes /\ cycle[d][k].pulls = {} /\ disk[d][p] = v
      /\ manifest[d][p].status = "modified" /\ p \notin cycle[d][k].conflicts
  BY <1>1, <1>2, <1>3 DEF PlanOK
<1> DEFINE n == [manifest[d][p] EXCEPT !.lastSyncedHash = v, !.status = "synced"]
<1>5. /\ n \in Entry /\ n.status = "synced" /\ n.lastSyncedHash = v
      /\ n.contentHash = manifest[d][p].contentHash
  <2>1. manifest[d][p] \in Entry /\ v \in Version
    BY TurnTypes DEF Version
  <2> QED
    BY <2>1 DEF Entry, Status
<1>6. SetEntry(d, p, n) /\ savePending' = [savePending EXCEPT ![d] = TRUE]
  BY <1>1, <1>3, <1>4 DEF MarkPush
<1> HIDE DEF n
<1>7. /\ manifest'[d][p] = n
      /\ \A q \in Path \ {p} : manifest'[d][q] = manifest[d][q]
      /\ \A e \in Device \ {d} : manifest'[e] = manifest[e]
  BY <1>6, TurnTypes DEF SetEntry
<1>8. savePending'[d] /\ \A e \in Device \ {d} : savePending'[e] = savePending[e]
  BY <1>6, TurnTypes
<1>9. /\ Others(d, k)
      /\ cycle'[d][k].pulls = cycle[d][k].pulls \ {p}
      /\ cycle'[d][k].pushes = cycle[d][k].pushes \ {p}
      /\ cycle'[d][k].conflicts = cycle[d][k].conflicts \ {p}
      /\ cycle'[d][k].step = "work"
  BY <1>3, <1>4, DoneTurn DEF MarkPush
<1>10. \A q \in Path : ~Editing(d, q)' /\ ~Editing(d, q) /\ ~Pulling(d, q)
  BY <1>1, <1>2, NoOpFacts, NoCycleFacts DEF Turn, Editing, Pulling, At
<1>11. manifest[d][p].contentHash = v /\ loaded[d] /\ loaded'[d]
  BY <1>2, <1>4, <1>10 DEF EntriesOK, FileOK, Known, Turn
<1>12. EntriesOK(d)'
  BY <1>2, <1>4, <1>5, <1>7, <1>10, <1>11 DEF EntriesOK, FileOK, Known
<1>13. SavedOK(d)'
  BY <1>8 DEF SavedOK
<1>14. PlanOK(d, cycle[d][k])'
  <2>1. cycle[d][k].pushes \subseteq Path
    BY <1>2 DEF CycleState
  <2> QED
    BY <1>1, <1>2, <1>3, <1>4, <1>7, <1>9, <2>1 DEF PlanOK
<1> QED
  BY <1>2, <1>7, <1>8, <1>9, <1>12, <1>13, <1>14, TurnStep

\* _handleConflicts has dealt with note p: the manifest is still to be saved.
LEMMA ConflictDone ==
  ASSUME IndInv, TurnInv, NEW d \in Device, NEW k \in Cycle, NEW p \in cycle[d][k].conflicts,
         cycle[d][k].step \in {"work", "conflictWrite", "conflictMark"},
         cycle[d][k].pulls = {}, cycle[d][k].pushes = {},
         SetCycle(d, k, Done(cycle[d][k], p))
  PROVE  /\ Others(d, k) /\ Unsaved(cycle[d][k])' /\ cycle'[d][k].step # "pullMark"
         /\ PlanOK(d, cycle[d][k])'
<1>1. cycle[d][k] \in CycleState /\ PlanOK(d, cycle[d][k])
  BY MyPlan
<1>2. p \in Path
  BY <1>1 DEF CycleState
<1>3. /\ Others(d, k)
      /\ cycle'[d][k].pulls = {} /\ cycle'[d][k].pushes = {}
      /\ cycle'[d][k].conflicts = cycle[d][k].conflicts \ {p}
      /\ cycle'[d][k].step =
           IF cycle[d][k].conflicts \ {p} = {} THEN "conflictSave" ELSE "work"
  BY <1>2, DoneTurn
<1>4. Unsaved(cycle[d][k])'
  BY <1>3 DEF Unsaved
<1>5. PlanOK(d, cycle[d][k])'
  BY <1>3 DEF PlanOK
<1> QED
  BY <1>3, <1>4, <1>5

LEMMA GetConflictTurn ==
  ASSUME IndInv, TurnInv, NEW d \in Device, NEW k \in Cycle, GetConflict(d, k)
  PROVE  TurnInv'
<1>1. cycle[d][k].step = "work" /\ cycle[d][k].pulls = {} /\ cycle[d][k].pushes = {}
  BY DEF GetConflict, At
<1>2. /\ Turn(d, k) /\ PlanOK(d, cycle[d][k]) /\ cycle[d][k] \in CycleState /\ StepSet \subseteq Step
      /\ UNCHANGED <<object, disk, manifest, savedManifest, savePending, loaded, editor>>
  BY <1>1, MyPlan DEF GetConflict, clientVars
<1>3. PICK p \in cycle[d][k].conflicts :
        IF object[p] = None THEN SetCycle(d, k, Done(cycle[d][k], p))
                            ELSE Fetched(d, k, p, "conflictWrite")
  BY DEF GetConflict
<1>4. CASE object[p] = None
  BY <1>1, <1>2, <1>3, <1>4, ConflictDone, CycleOnly
<1>5. CASE object[p] # None
  <2> DEFINE n == [cycle[d][k] EXCEPT !.step = "conflictWrite", !.path = p, !.got = object[p]]
  <2>1. /\ n \in CycleState /\ n.step = "conflictWrite" /\ n.path = p
        /\ n.pulls = cycle[d][k].pulls /\ n.pushes = cycle[d][k].pushes
        /\ n.conflicts = cycle[d][k].conflicts
    <3>1. p \in Path
      BY <1>2, <1>3 DEF CycleState
    <3>2. object[p] \in Version /\ "conflictWrite" \in Step
      BY <1>2, <3>1, TurnTypes DEF StepSet
    <3> QED
      BY <1>2, <3>1, <3>2 DEF CycleState
  <2>2. Others(d, k) /\ cycle'[d][k] = n
    BY <1>3, <1>5, <2>1, SetCycleTurn DEF Fetched
  <2> HIDE DEF n
  <2>3. PlanOK(d, cycle[d][k])'
    BY <1>1, <1>2, <1>3, <2>1, <2>2 DEF PlanOK
  <2>4. Unsaved(cycle[d][k])'
    BY <1>1, <1>3, <2>1, <2>2 DEF Unsaved
  <2> QED
    BY <1>1, <1>2, <2>1, <2>2, <2>3, <2>4, CycleOnly
<1> QED
  BY <1>4, <1>5

LEMMA WriteConflictTurn ==
  ASSUME IndInv, TurnInv, NEW d \in Device, NEW k \in Cycle, WriteConflict(d, k)
  PROVE  TurnInv'
<1>1. cycle[d][k].step = "conflictWrite"
  BY DEF WriteConflict, At
<1>2. /\ Turn(d, k) /\ PlanOK(d, cycle[d][k]) /\ cycle[d][k] \in CycleState /\ StepSet \subseteq Step
      /\ UNCHANGED <<object, disk, manifest, savedManifest, savePending, loaded, editor>>
  BY <1>1, MyPlan DEF WriteConflict
<1>3. /\ Others(d, k) /\ cycle'[d][k].step = "conflictMark"
      /\ cycle'[d][k].path = cycle[d][k].path
      /\ cycle'[d][k].pulls = cycle[d][k].pulls /\ cycle'[d][k].pushes = cycle[d][k].pushes
      /\ cycle'[d][k].conflicts = cycle[d][k].conflicts
  BY <1>2, GoToTurn DEF WriteConflict, StepSet
<1>4. PlanOK(d, cycle[d][k])'
  BY <1>1, <1>2, <1>3 DEF PlanOK
<1>5. Unsaved(cycle[d][k]) => Unsaved(cycle[d][k])'
  BY <1>1, <1>3 DEF Unsaved
<1> QED
  BY <1>1, <1>2, <1>3, <1>4, <1>5, CycleOnly

LEMMA MarkConflictTurn ==
  ASSUME IndInv, TurnInv, NEW d \in Device, NEW k \in Cycle, MarkConflict(d, k)
  PROVE  TurnInv'
<1>1. cycle[d][k].step = "conflictMark"
  BY DEF MarkConflict, At
<1>2. /\ Turn(d, k) /\ PlanOK(d, cycle[d][k]) /\ cycle[d][k] \in CycleState
      /\ EntriesOK(d)
      /\ UNCHANGED <<object, disk, savedManifest, savePending, loaded, editor>>
  BY <1>1, MyPlan DEF MarkConflict
<1>3. PICK p \in Path : p = cycle[d][k].path
  BY <1>1, Carried DEF Carrying
<1>4. cycle[d][k].pulls = {} /\ cycle[d][k].pushes = {} /\ p \in cycle[d][k].conflicts
  BY <1>1, <1>2, <1>3 DEF PlanOK
<1>5. /\ Others(d, k) /\ Unsaved(cycle[d][k])' /\ PlanOK(d, cycle[d][k])'
  BY <1>1, <1>2, <1>3, <1>4, ConflictDone DEF MarkConflict
<1> DEFINE n == [manifest[d][p] EXCEPT !.status = "conflictPending"]
<1>6. /\ n \in Entry /\ n.status = "conflictPending"
      /\ n.contentHash = manifest[d][p].contentHash
  <2>1. manifest[d][p] \in Entry
    BY TurnTypes
  <2> QED
    BY <2>1 DEF Entry, Status
<1>7. \/ UNCHANGED manifest
      \/ manifest[d][p].status # "absent" /\ SetEntry(d, p, n)
  BY <1>3 DEF MarkConflict
<1> HIDE DEF n
<1>8. /\ \/ manifest'[d][p] = manifest[d][p]
         \/ manifest[d][p].status # "absent" /\ manifest'[d][p] = n
      /\ \A q \in Path \ {p} : manifest'[d][q] = manifest[d][q]
      /\ \A e \in Device \ {d} : manifest'[e] = manifest[e]
  BY <1>6, <1>7, TurnTypes DEF SetEntry
<1>9. \A q \in Path : ~Editing(d, q)' /\ ~Editing(d, q) /\ ~Pulling(d, q)
  BY <1>1, <1>2, NoOpFacts, NoCycleFacts DEF Turn, Editing, Pulling, At
<1>10. EntriesOK(d)'
  <2>1. loaded[d] /\ loaded'[d]
    BY <1>2 DEF Turn
  <2> QED
    BY <1>2, <1>6, <1>8, <1>9, <2>1 DEF EntriesOK, FileOK, Known
<1>11. SavedOK(d)'
  BY <1>5 DEF SavedOK
<1> QED
  BY <1>2, <1>5, <1>8, <1>10, <1>11, TurnStep

LEMMA SaveConflictsTurn ==
  ASSUME IndInv, TurnInv, InTurns, NEW d \in Device, NEW k \in Cycle, SaveConflicts(d, k)
  PROVE  TurnInv'
<1>1. cycle[d][k].step = "conflictSave"
  BY DEF SaveConflicts, At
<1>2. /\ Turn(d, k) /\ PlanOK(d, cycle[d][k]) /\ cycle[d][k] \in CycleState /\ StepSet \subseteq Step
      /\ UNCHANGED <<object, disk, manifest, savePending, loaded, editor>>
  BY <1>1, MyPlan DEF SaveConflicts
<1>3. /\ Others(d, k) /\ cycle'[d][k].step = "work"
      /\ cycle'[d][k].pulls = cycle[d][k].pulls /\ cycle'[d][k].pushes = cycle[d][k].pushes
      /\ cycle'[d][k].conflicts = cycle[d][k].conflicts
  BY <1>2, GoToTurn DEF SaveConflicts, StepSet
<1>4. PlanOK(d, cycle[d][k])'
  BY <1>1, <1>2, <1>3 DEF PlanOK
<1>5. SavesNow(d)
  BY SavesAtOnce DEF SaveConflicts, InTurns
<1> QED
  BY <1>1, <1>2, <1>3, <1>4, <1>5, PersistTurn

LEMMA FinishCycleTurn ==
  ASSUME IndInv, TurnInv, NEW d \in Device, NEW k \in Cycle, FinishCycle(d, k)
  PROVE  TurnInv'
<1>1. cycle[d][k].step = "work" /\ ~Unsaved(cycle[d][k])
  BY DEF FinishCycle, At, Unsaved
<1> QED
  BY <1>1, EndTurn DEF FinishCycle, EndCycle, clientVars

LEMMA CycleFailsTurn ==
  ASSUME IndInv, TurnInv, InTurns, NEW d \in Device, NEW k \in Cycle, CycleFails(d, k)
  PROVE  TurnInv'
<1>1. cycle[d][k].step \notin {"idle", "pullMark"} /\ ~Unsaved(cycle[d][k])
  BY DEF CycleFails, InTurns, Allowed, At, Unsaved
<1> QED
  BY <1>1, EndTurn DEF CycleFails, FailCycle, clientVars

LEMMA ConflictFailsTurn ==
  ASSUME IndInv, TurnInv, NEW d \in Device, NEW k \in Cycle, ConflictFails(d, k)
  PROVE  TurnInv'
<1>1. PICK p \in cycle[d][k].conflicts :
        /\ SetCycle(d, k, Done(cycle[d][k], p))
        /\ cycle[d][k].step \in {"work", "conflictWrite"}
        /\ cycle[d][k].pulls = {} /\ cycle[d][k].pushes = {}
  <2>1. CASE At(d, k, "conflictWrite") /\ SetCycle(d, k, Done(cycle[d][k], cycle[d][k].path))
    BY <2>1, MyPlan DEF At, PlanOK
  <2>2. CASE /\ At(d, k, "work")
             /\ cycle[d][k].pulls \union cycle[d][k].pushes = {}
             /\ \E q \in cycle[d][k].conflicts : SetCycle(d, k, Done(cycle[d][k], q))
    BY <2>2 DEF At
  <2> QED
    BY <2>1, <2>2 DEF ConflictFails
<1>2. /\ Turn(d, k)
      /\ UNCHANGED <<object, disk, manifest, savedManifest, savePending, loaded, editor>>
  BY <1>1, MyPlan DEF ConflictFails, clientVars
<1> QED
  BY <1>1, <1>2, ConflictDone, CycleOnly

-----------------------------------------------------------------------------
\* The user, the manifest and the environment

\* A step of a device outside its sync cycles.
LEMMA LocalFrame ==
  ASSUME TurnInv, NEW d \in Device, \A e \in Device \ {d} : Same(e),
         \A k \in Cycle : cycle'[d][k] = cycle[d][k] /\ PlanOK(d, cycle[d][k])',
         (\A k \in Cycle : cycle[d][k] = NoCycle) \/ UNCHANGED <<loaded, editor>>,
         EditOK(d)', EntriesOK(d)', SavedOK(d)'
  PROVE  TurnInv'
<1>1. ASSUME NEW e \in Device \ {d}
      PROVE  DeviceOK(e)'
  BY Elsewhere DEF TurnInv
<1>2. OneCycle(d)'
  BY NoCycleFacts DEF TurnInv, DeviceOK, OneCycle
<1>3. DeviceOK(d)'
  BY <1>2 DEF DeviceOK
<1> QED
  BY <1>1, <1>3 DEF TurnInv

\* The user may act: no cycle of the device is in progress.
LEMMA MayEditFacts ==
  ASSUME TurnInv, InTurns, NEW d \in Device, MayEdit(d)
  PROVE  /\ \A k \in Cycle : cycle[d][k] = NoCycle
         /\ loaded[d] /\ editor[d] = NoOp
         /\ \A p \in Path : ~Pulling(d, p) /\ ~Editing(d, p)
<1>1. \A k \in Cycle : cycle[d][k] = NoCycle
  BY DEF MayEdit, InTurns, Allowed, Quiet
<1> QED
  BY <1>1, NoCycleFacts, NoOpFacts DEF MayEdit, UserIdle, Pulling, At

\* The user's operation writes the file of note p and becomes the one in progress.
LEMMA UserWriteTurn ==
  ASSUME IndInv, TurnInv, InTurns, NEW d \in Device, NEW p \in Path, NEW c \in Version,
         NEW o \in {"save", "create", "delete"}, MayEdit(d), WriteNote(d, p, c),
         editor' = [editor EXCEPT ![d] = [op |-> o, path |-> p, content |-> c]],
         o = "save" => manifest[d][p].status # "absent",
         o \in {"save", "create"} <=> c # None,
         UNCHANGED <<object, manifest, savedManifest, savePending, loaded, cycle>>
  PROVE  TurnInv'
<1>1. /\ \A k \in Cycle : cycle[d][k] = NoCycle
      /\ loaded[d] /\ editor[d] = NoOp
      /\ \A q \in Path : ~Pulling(d, q) /\ ~Editing(d, q)
  BY MayEditFacts
<1>2. /\ disk'[d][p] = c
      /\ \A q \in Path \ {p} : disk'[d][q] = disk[d][q]
      /\ \A e \in Device \ {d} : disk'[e] = disk[e]
  BY TurnTypes DEF WriteNote
<1>3. /\ editor'[d].op = o /\ editor'[d].path = p /\ editor'[d].content = c
      /\ \A e \in Device \ {d} : editor'[e] = editor[e]
  BY TurnTypes
<1>4. EditOK(d)'
  BY <1>1, <1>2, <1>3 DEF EditOK, Editing
<1>5. EntriesOK(d)'
  <2>1. EntriesOK(d)
    BY DEF TurnInv, DeviceOK
  <2>2. Editing(d, p)'
    BY <1>3 DEF Editing
  <2> QED
    BY <1>1, <1>2, <2>1, <2>2 DEF EntriesOK, FileOK, Known
<1>6. SavedOK(d)'
  BY <1>1, <1>3, NoOpFacts DEF TurnInv, DeviceOK, SavedOK, Unsaved
<1>7. \A k \in Cycle : cycle'[d][k] = cycle[d][k] /\ PlanOK(d, cycle[d][k])'
  BY <1>1, NoCycleFacts DEF PlanOK
<1>8. \A e \in Device \ {d} : Same(e)
  BY <1>2, <1>3 DEF Same
<1> QED
  BY <1>1, <1>4, <1>5, <1>6, <1>7, <1>8, LocalFrame

LEMMA UserTurn ==
  ASSUME IndInv, TurnInv, InTurns, NEW d \in Device, UserStep(d)
  PROVE  TurnInv'
<1>0. Blank \in Version /\ None \in Version /\ Content \subseteq Version /\ Blank # None
      /\ None \notin Content
  BY ConstantsAssumption DEF Version
<1>1. ASSUME NEW p \in Path, NEW c \in Content, SaveNote(d, p, c)
      PROVE  TurnInv'
  <2>1. c \in Version /\ c # None
    BY <1>0
  <2> QED
    BY <1>1, <2>1, UserWriteTurn DEF SaveNote, clientVars
<1>2. ASSUME NEW p \in Path, CreateNote(d, p)
      PROVE  TurnInv'
  BY <1>0, <1>2, UserWriteTurn DEF CreateNote, clientVars
<1>3. ASSUME NEW p \in Path, DeleteNote(d, p)
      PROVE  TurnInv'
  BY <1>0, <1>3, UserWriteTurn DEF DeleteNote, clientVars
<1> QED
  BY <1>1, <1>2, <1>3 DEF UserStep

\* While an operation is in progress no cycle of its device is.
LEMMA EditorBusy ==
  ASSUME TurnInv, NEW d \in Device, editor[d] # NoOp
  PROVE  /\ \A k \in Cycle : cycle[d][k] = NoCycle
         /\ loaded[d]
         /\ \A p \in Path : ~Pulling(d, p)
<1>1. \A k \in Cycle : cycle[d][k] = NoCycle
  BY DEF TurnInv, DeviceOK, OneCycle
<1> QED
  BY <1>1, NoCycleFacts DEF TurnInv, DeviceOK, EditOK, Pulling, At

LEMMA UpdateEntryTurn ==
  ASSUME IndInv, TurnInv, NEW d \in Device, UpdateEntry(d)
  PROVE  TurnInv'
<1>1. editor[d].op \in {"save", "create", "delete"} /\ editor[d] # NoOp
  BY NoOpFacts DEF UpdateEntry
<1>2. /\ \A k \in Cycle : cycle[d][k] = NoCycle
      /\ loaded[d] /\ \A q \in Path : ~Pulling(d, q)
      /\ EditOK(d) /\ EntriesOK(d) /\ SavedOK(d)
      /\ UNCHANGED <<object, disk, savedManifest, savePending, loaded, cycle>>
  BY <1>1, EditorBusy DEF TurnInv, DeviceOK, UpdateEntry
<1>3. PICK p \in Path : p = editor[d].path
  BY <1>1 DEF IndInv
<1>4. /\ Editing(d, p) /\ \A q \in Path \ {p} : ~Editing(d, q)
      /\ disk[d][p] = editor[d].content
      /\ editor[d].op = "save" => editor[d].content # None /\ manifest[d][p].status # "absent"
      /\ editor[d].op = "create" => editor[d].content # None
      /\ editor[d].op = "delete" => editor[d].content = None
  BY <1>1, <1>2, <1>3 DEF Editing, EditOK
<1>5. /\ editor'[d].op \in {"none", "persist"}
      /\ \A e \in Device \ {d} : editor'[e] = editor[e]
      /\ \A q \in Path : ~Editing(d, q)'
  BY TurnTypes, NoOpFacts DEF UpdateEntry, Editing, NoOp
<1>6. \A k \in Cycle : cycle'[d][k] = cycle[d][k] /\ PlanOK(d, cycle[d][k])'
  BY <1>2, NoCycleFacts DEF PlanOK
<1>7. EditOK(d)'
  BY <1>2, <1>5 DEF EditOK
<1>8. CASE editor[d].op = "save" /\ manifest[d][p].contentHash = editor[d].content
  <2>1. UNCHANGED manifest
    BY <1>3, <1>8 DEF UpdateEntry
  <2>2. EntriesOK(d)'
    BY <1>2, <1>4, <1>5, <1>8, <2>1 DEF EntriesOK, FileOK, Known
  <2>3. SavedOK(d)'
    BY <1>1, <1>2, <2>1 DEF SavedOK, Unsaved
  <2>4. \A e \in Device \ {d} : Same(e)
    BY <1>2, <1>5, <2>1 DEF Same
  <2> QED
    BY <1>2, <1>6, <1>7, <2>2, <2>3, <2>4, LocalFrame
<1>9. CASE ~(editor[d].op = "save" /\ manifest[d][p].contentHash = editor[d].content)
  <2>1. /\ SetEntry(d, p, EntryAfter(editor[d], manifest[d][p]))
        /\ editor'[d].op = "persist"
    <3>1. /\ SetEntry(d, p, EntryAfter(editor[d], manifest[d][p]))
          /\ editor' = [editor EXCEPT ![d] = [NoOp EXCEPT !.op = "persist"]]
      BY <1>3, <1>9 DEF UpdateEntry
    <3> QED
      BY <3>1, TurnTypes DEF NoOp
  <2>2. PICK n : n = EntryAfter(editor[d], manifest[d][p])
    OBVIOUS
  <2>3. IF n.status = "absent" THEN disk[d][p] = None
                               ELSE n.status = "modified" /\ disk[d][p] = n.contentHash
    BY <1>1, <1>4, <2>2 DEF EntryAfter, Modified, NoEntry
  <2>4. /\ manifest'[d][p] = n
        /\ \A q \in Path \ {p} : manifest'[d][q] = manifest[d][q]
        /\ \A e \in Device \ {d} : manifest'[e] = manifest[e]
    BY <2>1, <2>2, TurnTypes DEF SetEntry
  <2>5. EntriesOK(d)'
    BY <1>2, <1>4, <1>5, <2>3, <2>4 DEF EntriesOK, FileOK, Known
  <2>6. SavedOK(d)'
    BY <2>1 DEF SavedOK
  <2>7. \A e \in Device \ {d} : Same(e)
    BY <1>2, <1>5, <2>4 DEF Same
  <2> QED
    BY <1>2, <1>6, <1>7, <2>5, <2>6, <2>7, LocalFrame
<1> QED
  BY <1>8, <1>9

LEMMA PersistEditTurn ==
  ASSUME IndInv, TurnInv, InTurns, NEW d \in Device, PersistEdit(d)
  PROVE  TurnInv'
<1>1. editor[d].op = "persist" /\ editor[d] # NoOp
  BY NoOpFacts DEF PersistEdit
<1>2. /\ \A k \in Cycle : cycle[d][k] = NoCycle
      /\ loaded[d] /\ \A q \in Path : ~Pulling(d, q)
      /\ EntriesOK(d)
      /\ UNCHANGED <<object, disk, manifest, savePending, loaded, cycle>>
  BY <1>1, EditorBusy DEF TurnInv, DeviceOK, PersistEdit
<1>a. SavesNow(d)
  BY SavesAtOnce DEF PersistEdit, InTurns
<1>3. /\ editor'[d] = NoOp /\ \A e \in Device \ {d} : editor'[e] = editor[e]
      /\ savedManifest'[d] = manifest[d]
      /\ \A e \in Device \ {d} : savedManifest'[e] = savedManifest[e]
  BY <1>a, TurnTypes DEF PersistEdit, SavesNow
<1>4. \A q \in Path : ~Editing(d, q)' /\ ~Editing(d, q)
  BY <1>1, <1>3, NoOpFacts DEF Editing
<1>5. EditOK(d)' /\ SavedOK(d)'
  BY <1>2, <1>3, <1>4 DEF EditOK, SavedOK
<1>6. EntriesOK(d)'
  BY <1>2, <1>4 DEF EntriesOK, FileOK, Known
<1>7. \A k \in Cycle : cycle'[d][k] = cycle[d][k] /\ PlanOK(d, cycle[d][k])'
  BY <1>2, NoCycleFacts DEF PlanOK
<1>8. \A e \in Device \ {d} : Same(e)
  BY <1>2, <1>3 DEF Same
<1> QED
  BY <1>2, <1>5, <1>6, <1>7, <1>8, LocalFrame

LEMMA PersistSyncedTurn ==
  ASSUME IndInv, TurnInv, InTurns, NEW d \in Device, PersistSynced(d)
  PROVE  TurnInv'
<1>1. /\ savePending[d] /\ loaded[d] /\ EditOK(d) /\ EntriesOK(d)
      /\ \A k \in Cycle : PlanOK(d, cycle[d][k])
      /\ UNCHANGED <<object, disk, manifest, loaded, editor, cycle>>
  BY DEF PersistSynced, TurnInv, DeviceOK, EditOK
<1>a. SavesNow(d)
  BY SavesAtOnce DEF PersistSynced, InTurns
<1>2. /\ \A e \in Device \ {d} : savePending'[e] = savePending[e]
      /\ savedManifest'[d] = manifest[d]
      /\ \A e \in Device \ {d} : savedManifest'[e] = savedManifest[e]
  BY <1>a, TurnTypes DEF PersistSynced, SavesNow
<1>3. EditOK(d)' /\ SavedOK(d)'
  BY <1>1, <1>2 DEF EditOK, SavedOK, Editing
<1>4. EntriesOK(d)'
  BY <1>1 DEF EntriesOK, FileOK, Known, Editing, Pulling, At
<1>5. \A k \in Cycle : cycle'[d][k] = cycle[d][k] /\ PlanOK(d, cycle[d][k])'
  BY <1>1 DEF PlanOK
<1>6. \A e \in Device \ {d} : Same(e)
  BY <1>1, <1>2 DEF Same
<1> QED
  BY <1>1, <1>3, <1>4, <1>5, <1>6, LocalFrame

\* Loading is the first thing a device does, or it finds the manifest it has.
LEMMA LoadManifestTurn ==
  ASSUME IndInv, TurnInv, InTurns, NEW d \in Device, LoadManifest(d)
  PROVE  TurnInv'
<1>1. /\ loaded[d] => AtRest(d)
      /\ UNCHANGED <<object, disk, savedManifest, savePending, editor, cycle>>
      /\ EntriesOK(d) /\ SavedOK(d) /\ EditOK(d) /\ OneCycle(d)
  BY DEF LoadManifest, InTurns, Allowed, TurnInv, DeviceOK
<1>a. editor[d] = NoOp /\ \A k \in Cycle : cycle[d][k] = NoCycle
  BY <1>1 DEF AtRest, UserIdle, Quiet, EditOK, OneCycle
<1>b. loaded[d] => savedManifest[d] = manifest[d]
  BY <1>1, <1>a, NoOpFacts, NoCycleFacts DEF AtRest, SavedOK
<1>2. /\ manifest'[d] = savedManifest[d] /\ \A e \in Device \ {d} : manifest'[e] = manifest[e]
      /\ loaded'[d] /\ \A e \in Device \ {d} : loaded'[e] = loaded[e]
  BY TurnTypes DEF LoadManifest
<1>3. EditOK(d)' /\ SavedOK(d)'
  BY <1>1, <1>2, <1>a, NoOpFacts DEF EditOK, SavedOK, Editing
<1>4. EntriesOK(d)'
  <2>1. Known(d)' = Known(d)
    BY <1>1, <1>2, <1>b DEF Known
  <2> QED
    BY <1>1, <2>1 DEF EntriesOK, FileOK, Editing, Pulling, At
<1>5. \A k \in Cycle : cycle'[d][k] = cycle[d][k] /\ PlanOK(d, cycle[d][k])'
  BY <1>1, <1>a, NoCycleFacts DEF PlanOK
<1>6. \A e \in Device \ {d} : Same(e)
  BY <1>1, <1>2 DEF Same
<1> QED
  BY <1>a, <1>3, <1>4, <1>5, <1>6, LocalFrame

LEMMA RestartTurn ==
  ASSUME IndInv, TurnInv, InTurns, NEW d \in Device, Restart(d)
  PROVE  TurnInv'
<1>1. /\ \A k \in Cycle : cycle[d][k] = NoCycle
      /\ editor[d] = NoOp /\ ~savePending[d]
      /\ EntriesOK(d) /\ SavedOK(d)
      /\ UNCHANGED <<object, disk, savedManifest>>
  BY DEF Restart, InTurns, Allowed, AtRest, UserIdle, Quiet, TurnInv, DeviceOK
<1>2. /\ ~loaded'[d] /\ editor'[d] = NoOp /\ ~savePending'[d]
      /\ \A k \in Cycle : cycle'[d][k] = NoCycle
      /\ \A e \in Device \ {d} :
           /\ manifest'[e] = manifest[e] /\ loaded'[e] = loaded[e] /\ editor'[e] = editor[e]
           /\ savePending'[e] = savePending[e] /\ cycle'[e] = cycle[e]
  BY TurnTypes DEF Restart
<1>3. EditOK(d)' /\ SavedOK(d)'
  BY <1>2, NoOpFacts DEF EditOK, SavedOK, Editing
<1>4. EntriesOK(d)'
  <2>1. Known(d)' = Known(d)
    BY <1>1, <1>2, NoOpFacts, NoCycleFacts DEF Known, SavedOK
  <2>2. \A p \in Path : ~Editing(d, p) /\ ~Pulling(d, p)
    BY <1>1, NoOpFacts, NoCycleFacts DEF Pulling, At
  <2> QED
    BY <1>1, <2>1, <2>2 DEF EntriesOK, FileOK
<1>5. \A k \in Cycle : cycle'[d][k] = cycle[d][k] /\ PlanOK(d, cycle[d][k])'
  BY <1>1, <1>2, NoCycleFacts DEF PlanOK
<1>6. \A e \in Device \ {d} : Same(e)
  BY <1>1, <1>2 DEF Same
<1> QED
  BY <1>1, <1>3, <1>4, <1>5, <1>6, LocalFrame

LEMMA RemoteDeleteTurn ==
  ASSUME IndInv, TurnInv, NEW p \in Path, RemoteDelete(p)
  PROVE  TurnInv'
<1>1. \A e \in Device : Same(e)
  BY DEF RemoteDelete, clientVars, Same
<1> QED
  BY <1>1, Elsewhere DEF TurnInv

LEMMA CycleTurn ==
  ASSUME IndInv, TurnInv, InTurns, NEW d \in Device, NEW k \in Cycle,
         CycleStep(d, k) \/ CycleFails(d, k) \/ ConflictFails(d, k)
  PROVE  TurnInv'
BY ListObjectsTurn, ComputeDiffTurn, GetPullTurn, WritePullTurn, MarkPullTurn, SavePullTurn,
   ReadPushTurn, PutObjectTurn, MarkPushTurn, GetConflictTurn, WriteConflictTurn,
   MarkConflictTurn, SaveConflictsTurn, FinishCycleTurn, CycleFailsTurn, ConflictFailsTurn
   DEF CycleStep

LEMMA LocalTurn ==
  ASSUME IndInv, TurnInv, InTurns, NEW d \in Device, UserStep(d) \/ LocalStep(d) \/ Restart(d)
  PROVE  TurnInv'
<1>1. CASE Resume(d)
  <2>1. \A e \in Device : Same(e)
    BY <1>1 DEF Resume, clientVars, Same
  <2> QED
    BY <2>1, Elsewhere DEF TurnInv
<1>2. ~SaveLands(d) /\ ~SaveFails(d) /\ ~PersistFails(d)
  BY SavesAtOnce DEF InTurns, PersistFails, Allowed
<1> QED
  BY <1>1, <1>2, UserTurn, UpdateEntryTurn, PersistEditTurn, PersistSyncedTurn,
     LoadManifestTurn, RestartTurn DEF LocalStep

LEMMA StutterTurn ==
  ASSUME TurnInv, UNCHANGED vars
  PROVE  TurnInv'
<1>1. UNCHANGED <<object, disk, manifest, savedManifest, savePending, loaded, editor, cycle>>
  BY DEF vars, clientVars
<1>2. \A e \in Device : Same(e)
  BY <1>1 DEF Same
<1> QED
  BY <1>2, Elsewhere DEF TurnInv

LEMMA NextTurn ==
  ASSUME InTurns, IndInv, TurnInv, [Next]_vars
  PROVE  TurnInv'
<1>1. CASE UNCHANGED vars
  BY <1>1, StutterTurn
<1>2. CASE Next
  BY <1>2, LocalTurn, CycleTurn, RemoteDeleteTurn DEF Next
<1> QED
  BY <1>1, <1>2

LEMMA InitTurn == Init => TurnInv
<1> SUFFICES ASSUME Init PROVE TurnInv
  OBVIOUS
<1>1. ASSUME NEW d \in Device
      PROVE  /\ editor[d] = NoOp /\ ~loaded[d] /\ ~savePending[d]
             /\ \A k \in Cycle : cycle[d][k] = NoCycle
             /\ \A p \in Path : savedManifest[d][p] = NoEntry /\ disk[d][p] = None
  BY DEF Init
<1>2. ASSUME NEW d \in Device
      PROVE  DeviceOK(d)
  <2>1. \A p \in Path : ~Editing(d, p) /\ Known(d)[p] = NoEntry
    BY <1>1, NoOpFacts DEF Known
  <2>2. EditOK(d) /\ SavedOK(d)
    BY <1>1, <2>1 DEF EditOK, SavedOK
  <2>3. EntriesOK(d)
    BY <1>1, <2>1 DEF EntriesOK, FileOK, NoEntry
  <2>4. \A k \in Cycle : PlanOK(d, cycle[d][k])
    BY <1>1, NoCycleFacts
  <2>5. OneCycle(d)
    BY <1>1 DEF OneCycle
  <2> QED
    BY <2>2, <2>3, <2>4, <2>5 DEF DeviceOK
<1> QED
  BY <1>2 DEF TurnInv

\* What is in progress, what a client will find in its manifest and what it has on
\* disk fit together for as long as cycles and edits take turns (runSyncCycle,
\* NotesState, saveManifest).
THEOREM AlwaysInTurn ==
  ASSUME InTurns
  PROVE  Spec => []TurnInv
<1>1. IndInv /\ TurnInv /\ [Next]_vars => TurnInv'
  BY NextTurn
<1> QED
  BY <1>1, InitTurn, AlwaysIndInv, PTL DEF Spec

\* computeDiff overlooks nothing: a device at rest for whose note it finds nothing to do
\* has what the server has, unless the note was deleted there or is left to the user.
THEOREM DiffOverlooksNothing ==
  ASSUME InTurns
  PROVE  Spec => []NothingOverlooked
<1>1. IndInv /\ TurnInv => NothingOverlooked
  <2> SUFFICES ASSUME IndInv, TurnInv, NEW d \in Device, NEW p \in Path, loaded[d], Quiet(d),
                      editor[d] = NoOp,
                      ~ToPull(manifest[d][p], object[p]), ~ToPush(manifest[d][p], object[p]),
                      ~ToConflict(manifest[d][p], object[p])
               PROVE  \/ Settled(d, p)
                      \/ object[p] = None /\ manifest[d][p].status = "synced"
    BY DEF NothingOverlooked
  <2>1. FileOK(d, p) /\ Known(d) = manifest[d]
    BY NoOpFacts, NoCycleFacts DEF TurnInv, DeviceOK, EntriesOK, Quiet, Pulling, At, Known
  <2>2. manifest[d][p].status \in Status
    BY TurnTypes DEF Entry
  <2> QED
    BY <2>1, <2>2 DEF FileOK, Settled, ToPull, ToPush, ToConflict, Status
<1> QED
  BY <1>1, AlwaysIndInv, AlwaysInTurn, PTL

-----------------------------------------------------------------------------
\* What any step of a cycle does, whatever else is in progress

\* How a step moves a cycle of device d from c to n, but for the diff.
Moves(d, c, n) ==
  /\ n.pulls \subseteq c.pulls /\ n.pushes \subseteq c.pushes
  /\ n.step = "listed" => n.list = object
  /\ n.step = "pullWrite" => n.path \in c.pulls /\ n.pulls = c.pulls
  /\ n.step = "pullMark" => c.step = "pullWrite"
  /\ n.step = "pullSave" => c.step = "pullMark"
  /\ n.step \in {"pullMark", "pullSave"} =>
       n.path = c.path /\ n.got = c.got /\ n.pulls = c.pulls
  /\ n.step = "pushSend" => /\ n.path \in c.pushes /\ n.pushes = c.pushes
                            /\ n.got = disk[d][n.path]
  /\ n.step = "pushMark" => /\ c.step = "pushSend" /\ n.path = c.path /\ n.got = c.got
                            /\ n.pushes = c.pushes
  /\ n.step = "conflictWrite" => c.pulls = {}
  /\ n.step = "conflictMark" => c.step = "conflictWrite"

LEMMA NoCycleMoves ==
  ASSUME IndInv, NEW d \in Device, NEW k \in Cycle, SetCycle(d, k, NoCycle)
  PROVE  Others(d, k) /\ Moves(d, cycle[d][k], cycle'[d][k])
<1>1. Others(d, k) /\ cycle'[d][k] = NoCycle
  BY EmptyStates, SetCycleTurn
<1> QED
  BY <1>1, NoCycleFacts DEF Moves

LEMMA DoneMoves ==
  ASSUME IndInv, NEW d \in Device, NEW k \in Cycle, NEW p \in Path,
         SetCycle(d, k, Done(cycle[d][k], p))
  PROVE  Others(d, k) /\ Moves(d, cycle[d][k], cycle'[d][k])
BY DoneTurn DEF Moves

\* The loop takes note p up: its file is read or its object fetched.
LEMMA TakeUpMoves ==
  ASSUME IndInv, NEW d \in Device, NEW k \in Cycle, NEW p \in Path, NEW v \in Version,
         NEW s \in {"pullWrite", "pushSend", "conflictWrite"},
         SetCycle(d, k, [cycle[d][k] EXCEPT !.step = s, !.path = p, !.got = v]),
         s = "pullWrite" => p \in cycle[d][k].pulls,
         s = "pushSend" => p \in cycle[d][k].pushes /\ v = disk[d][p],
         s = "conflictWrite" => cycle[d][k].pulls = {}
  PROVE  Others(d, k) /\ Moves(d, cycle[d][k], cycle'[d][k])
<1> DEFINE n == [cycle[d][k] EXCEPT !.step = s, !.path = p, !.got = v]
<1>1. cycle[d][k] \in CycleState /\ s \in Step
  BY CycleFacts DEF Step
<1>2. /\ n \in CycleState /\ n.step = s /\ n.path = p /\ n.got = v
      /\ n.pulls = cycle[d][k].pulls /\ n.pushes = cycle[d][k].pushes
  BY <1>1 DEF CycleState
<1>3. Others(d, k) /\ cycle'[d][k] = n
  BY <1>2, SetCycleTurn
<1> HIDE DEF n
<1> QED
  BY <1>2, <1>3 DEF Moves

\* The next part of the same transfer.
LEMMA GoToMoves ==
  ASSUME IndInv, NEW d \in Device, NEW k \in Cycle,
         \/ cycle[d][k].step = "pullWrite" /\ GoTo(d, k, "pullMark")
         \/ cycle[d][k].step = "pullMark" /\ GoTo(d, k, "pullSave")
         \/ cycle[d][k].step = "pushSend" /\ GoTo(d, k, "pushMark")
         \/ cycle[d][k].step = "conflictWrite" /\ GoTo(d, k, "conflictMark")
         \/ cycle[d][k].step = "conflictSave" /\ GoTo(d, k, "work")
  PROVE  Others(d, k) /\ Moves(d, cycle[d][k], cycle'[d][k])
<1>1. PICK s \in {"pullMark", "pullSave", "pushMark", "conflictMark", "work"} :
        /\ GoTo(d, k, s)
        /\ s = "pullMark" => cycle[d][k].step = "pullWrite"
        /\ s = "pullSave" => cycle[d][k].step = "pullMark"
        /\ s = "pushMark" => cycle[d][k].step = "pushSend"
        /\ s = "conflictMark" => cycle[d][k].step = "conflictWrite"
  OBVIOUS
<1>2. s \in Step
  BY DEF Step
<1> QED
  BY <1>1, <1>2, GoToTurn DEF Moves

LEMMA CycleMoves ==
  ASSUME IndInv, NEW d \in Device, NEW k \in Cycle, ~ComputeDiff(d, k),
         CycleStep(d, k) \/ CycleFails(d, k) \/ ConflictFails(d, k)
  PROVE  /\ cycle[d][k].step # "idle" \/ ListObjects(d, k)
         /\ Others(d, k) /\ Moves(d, cycle[d][k], cycle'[d][k])
<1>0. cycle[d][k] \in CycleState
  BY CycleFacts
<1>1. CASE ListObjects(d, k)
  <2> DEFINE n == [NoCycle EXCEPT !.step = "listed", !.list = object]
  <2>1. n \in CycleState /\ n.step = "listed" /\ n.list = object /\ n.pulls = {} /\ n.pushes = {}
    BY TurnTypes, EmptyStates DEF CycleState, Step, NoCycle
  <2>2. Others(d, k) /\ cycle'[d][k] = n
    BY <1>1, <2>1, SetCycleTurn DEF ListObjects
  <2> HIDE DEF n
  <2> QED
    BY <1>1, <2>1, <2>2 DEF Moves
<1>2. CASE GetPull(d, k)
  <2>1. PICK p \in cycle[d][k].pulls :
          IF object[p] = None THEN SetCycle(d, k, NoCycle) ELSE Fetched(d, k, p, "pullWrite")
    BY <1>2 DEF GetPull, FailCycle
  <2>2. p \in Path /\ object[p] \in Version /\ cycle[d][k].step = "work"
    BY <1>0, <1>2, <2>1, TurnTypes DEF CycleState, GetPull, At
  <2> QED
    BY <2>1, <2>2, NoCycleMoves, TakeUpMoves DEF Fetched
<1>3. CASE WritePull(d, k) \/ MarkPull(d, k) \/ WriteConflict(d, k) \/ SaveConflicts(d, k)
  BY <1>3, GoToMoves DEF WritePull, MarkPull, WriteConflict, SaveConflicts, At
<1>4. CASE SavePull(d, k) \/ MarkPush(d, k) \/ MarkConflict(d, k)
  <2>1. /\ cycle[d][k].step \in Carrying
        /\ SetCycle(d, k, Done(cycle[d][k], cycle[d][k].path))
    BY <1>4 DEF SavePull, MarkPush, MarkConflict, At, Carrying
  <2>2. PICK p \in Path : p = cycle[d][k].path
    BY <2>1, Carried
  <2> QED
    BY <2>1, <2>2, DoneMoves DEF Carrying
<1>5. CASE ReadPush(d, k)
  <2>1. PICK p \in cycle[d][k].pushes :
          IF disk[d][p] = None
            THEN SetCycle(d, k, Done(cycle[d][k], p))
            ELSE SetCycle(d, k, [cycle[d][k] EXCEPT !.step = "pushSend", !.path = p,
                                                    !.got = disk[d][p]])
    BY <1>5 DEF ReadPush
  <2>2. p \in Path /\ disk[d][p] \in Version /\ cycle[d][k].step = "work"
    BY <1>0, <1>5, <2>1, TurnTypes DEF CycleState, ReadPush, At
  <2> QED
    BY <2>1, <2>2, DoneMoves, TakeUpMoves
<1>6. CASE PutObject(d, k)
  BY <1>6, NoCycleMoves, GoToMoves DEF PutObject, FailCycle, At
<1>7. CASE GetConflict(d, k)
  <2>1. PICK p \in cycle[d][k].conflicts :
          IF object[p] = None THEN SetCycle(d, k, Done(cycle[d][k], p))
                              ELSE Fetched(d, k, p, "conflictWrite")
    BY <1>7 DEF GetConflict
  <2>2. /\ p \in Path /\ object[p] \in Version
        /\ cycle[d][k].step = "work" /\ cycle[d][k].pulls = {}
    BY <1>0, <1>7, <2>1, TurnTypes DEF CycleState, GetConflict, At
  <2> QED
    BY <2>1, <2>2, DoneMoves, TakeUpMoves DEF Fetched
<1>8. CASE FinishCycle(d, k) \/ CycleFails(d, k)
  BY <1>8, NoCycleMoves DEF FinishCycle, CycleFails, EndCycle, FailCycle, At
<1>9. CASE ConflictFails(d, k)
  <2>1. CASE At(d, k, "conflictWrite") /\ SetCycle(d, k, Done(cycle[d][k], cycle[d][k].path))
    <3>1. cycle[d][k].path \in Path
      BY <2>1, Carried DEF At, Carrying
    <3> QED
      BY <2>1, <3>1, DoneMoves DEF At
  <2>2. CASE At(d, k, "work") /\ \E p \in cycle[d][k].conflicts :
                                   SetCycle(d, k, Done(cycle[d][k], p))
    BY <1>0, <2>2, DoneMoves DEF CycleState, At
  <2> QED
    BY <1>9, <2>1, <2>2 DEF ConflictFails
<1> QED
  BY <1>1, <1>2, <1>3, <1>4, <1>5, <1>6, <1>7, <1>8, <1>9 DEF CycleStep

\* The diff, field by field.
LEMMA DiffMoves ==
  ASSUME IndInv, NEW d \in Device, NEW k \in Cycle, ComputeDiff(d, k)
  PROVE  /\ cycle[d][k].step = "listed"
         /\ Others(d, k) /\ cycle'[d][k].step = "work"
         /\ \A p \in cycle'[d][k].pulls :
              p \in Path /\ ToPull(manifest[d][p], cycle[d][k].list[p])
         /\ \A p \in cycle'[d][k].pushes :
              p \in Path /\ ToPush(manifest[d][p], cycle[d][k].list[p])
<1> DEFINE list == cycle[d][k].list
           pulls == {p \in Path : ToPull(manifest[d][p], list[p])}
           pushes == {p \in Path : ToPush(manifest[d][p], list[p])}
           conflicts == {p \in Path : ToConflict(manifest[d][p], list[p])}
           n == [NoCycle EXCEPT !.step = "work", !.pulls = pulls, !.pushes = pushes,
                                !.conflicts = conflicts]
<1>1. n \in CycleState
  BY EmptyStates DEF CycleState, Step
<1>2. Others(d, k) /\ cycle'[d][k] = n
  BY <1>1, SetCycleTurn DEF ComputeDiff
<1>3. n.step = "work" /\ n.pulls = pulls /\ n.pushes = pushes
  BY DEF NoCycle
<1> HIDE DEF n
<1> QED
  BY <1>2, <1>3 DEF ComputeDiff, At

\* What a step of a cycle changes besides the cycle.
LEMMA CycleEffects ==
  ASSUME NEW d \in Device, NEW k \in Cycle,
         CycleStep(d, k) \/ CycleFails(d, k) \/ ConflictFails(d, k)
  PROVE  /\ UNCHANGED <<loaded, editor>>
         /\ \/ UNCHANGED <<disk, manifest, savedManifest, savePending>>
            \/ UNCHANGED <<disk, manifest, savePending>> /\ SavesNow(d)
            \/ WritePull(d, k) \/ MarkPull(d, k) \/ MarkPush(d, k) \/ MarkConflict(d, k)
         /\ UNCHANGED object \/ PutObject(d, k)
<1>1. CASE ListObjects(d, k) \/ ComputeDiff(d, k) \/ GetPull(d, k) \/ ReadPush(d, k)
  BY <1>1 DEF ListObjects, ComputeDiff, GetPull, ReadPush, clientVars
<1>2. CASE GetConflict(d, k) \/ FinishCycle(d, k) \/ CycleFails(d, k) \/ ConflictFails(d, k)
  BY <1>2 DEF GetConflict, FinishCycle, CycleFails, ConflictFails, clientVars
<1>3. CASE PutObject(d, k) \/ WriteConflict(d, k)
  BY <1>3 DEF PutObject, WriteConflict, clientVars
<1>4. CASE SavePull(d, k) \/ SaveConflicts(d, k)
  BY <1>4 DEF SavePull, SaveConflicts, Persist, SavesNow
<1>5. CASE WritePull(d, k) \/ MarkPull(d, k) \/ MarkPush(d, k) \/ MarkConflict(d, k)
  BY <1>5 DEF WritePull, MarkPull, MarkPush, MarkConflict, clientVars
<1> QED
  BY <1>1, <1>2, <1>3, <1>4, <1>5 DEF CycleStep

\* A save that fails ends the cycle that waits for it, or nothing.
LEMMA SaveFailsEnds ==
  ASSUME IndInv, NEW d \in Device, SaveFails(d)
  PROVE  /\ UNCHANGED <<object, disk, manifest, loaded, editor>>
         /\ \A e \in Device, j \in Cycle : cycle'[e][j] \in {cycle[e][j], NoCycle}
<1>1. PICK w \in writing[d] :
        IF w.by \in Cycle THEN SetCycle(d, w.by, NoCycle) ELSE UNCHANGED cycle
  BY DEF SaveFails, FailCycle
<1>2. CASE w.by \in Cycle
  <2>1. PICK j \in Cycle : SetCycle(d, j, NoCycle)
    BY <1>1, <1>2
  <2>2. cycle'[d][j] = NoCycle /\ Others(d, j)
    BY <2>1, EmptyStates, SetCycleTurn
  <2>3. UNCHANGED <<object, disk, manifest, loaded, editor>>
    BY DEF SaveFails
  <2> QED
    BY <2>2, <2>3 DEF Others
<1>3. CASE w.by \notin Cycle
  BY <1>1, <1>3 DEF SaveFails
<1> QED
  BY <1>2, <1>3

\* The versions the server has held are never forgotten.
LEMMA StoredGrows ==
  ASSUME IndInv, [Next]_vars
  PROVE  \A p \in Path : everStored[p] \subseteq everStored'[p]
<1>1. ASSUME NEW d \in Device, NEW k \in Cycle, PutObject(d, k)
      PROVE  \A p \in Path : everStored[p] \subseteq everStored'[p]
  <2>1. PICK q, v : UNCHANGED everStored \/ everStored' = [everStored EXCEPT ![q] = @ \union {v}]
    BY <1>1 DEF PutObject, Store
  <2>2. everStored \in [Path -> SUBSET Content]
    BY DEF IndInv, TypeOK
  <2> QED
    BY <2>1, <2>2
<1>2. ASSUME NEW d \in Device, NEW k \in Cycle, ~PutObject(d, k),
             CycleStep(d, k) \/ CycleFails(d, k) \/ ConflictFails(d, k)
      PROVE  UNCHANGED everStored
  BY <1>2 DEF CycleStep, ListObjects, ComputeDiff, GetPull, WritePull, MarkPull, SavePull,
     ReadPush, MarkPush, GetConflict, WriteConflict, MarkConflict, SaveConflicts, FinishCycle,
     CycleFails, ConflictFails
<1>3. ASSUME NEW d \in Device, UserStep(d) \/ LocalStep(d) \/ Restart(d)
      PROVE  UNCHANGED everStored
  BY <1>3 DEF UserStep, SaveNote, CreateNote, DeleteNote, LocalStep, UpdateEntry, PersistEdit,
     PersistSynced, PersistFails, SaveLands, SaveFails, LoadManifest, Resume, Restart
<1>4. ASSUME NEW p \in Path, RemoteDelete(p)
      PROVE  UNCHANGED everStored
  BY <1>4 DEF RemoteDelete
<1>5. CASE UNCHANGED vars
  BY <1>5 DEF vars
<1> QED
  BY <1>1, <1>2, <1>3, <1>4, <1>5 DEF Next

-----------------------------------------------------------------------------
(***************************************************************************)
(* A pull never replaces an edit that was not uploaded, with any number of *)
(* cycles in progress, of one device or of several, and requests lost.     *)
(* What it needs of the client is that the user waits for its cycles       *)
(* (editDuringCycle), that no operation is cut between the file and        *)
(* manifest.json (crash, diskError), that manifests are saved in the order *)
(* of their texts (slowSave), and that the manifest is loaded before the   *)
(* first cycle and between operations only (earlySync).                    *)
(***************************************************************************)
UserWaits ==
  Disturbances \intersect
    {"editDuringCycle", "crash", "diskError", "slowSave", "earlySync"} = {}

\* The server has held version v of note p.
Held(p, v) == v \in everStored[p] \union {None}

\* An entry keeps the diff from pulling over a file the server has not held: it
\* describes the file as changed here.
EntrySafe(d, p, e) ==
  \/ e.status \in {"modified", "conflictPending"} /\ e.contentHash = disk[d][p]
  \/ Held(p, disk[d][p]) /\ Held(p, e.contentHash)

\* The user's operation is about to change the entry of note p.
Changing(d, p) ==
  /\ Editing(d, p)
  /\ ~(editor[d].op = "save" /\ manifest[d][p].contentHash = editor[d].content)

\* What a cycle pulls and has pushed may be replaced.
PullsSafe(d, c) ==
  /\ \A p \in c.pulls : Held(p, disk[d][p])
  /\ c.step \in {"pullWrite", "pullMark"} => Held(c.path, disk[d][c.path])
  /\ c.step \in {"pushSend", "pushMark"} =>
       disk[d][c.path] = c.got \/ Held(c.path, disk[d][c.path])

FilesSafe(d) ==
  /\ editor[d] # NoOp \/ savePending[d] => loaded[d]
  /\ \A k \in Cycle : cycle[d][k] # NoCycle => loaded[d] /\ editor[d] = NoOp
  /\ \A p \in Path : Editing(d, p) =>
       disk[d][p] = editor[d].content /\ (editor[d].op = "delete" => editor[d].content = None)
  /\ \A p \in Path : loaded[d] /\ ~Changing(d, p) => EntrySafe(d, p, manifest[d][p])
  /\ \A p \in Path : editor[d].op # "persist" /\ ~Changing(d, p) =>
       EntrySafe(d, p, savedManifest[d][p])
  /\ \A k \in Cycle : PullsSafe(d, cycle[d][k])

PullInv == \A d \in Device : FilesSafe(d)

\* Nothing of the device changes.
LEMMA FilesStaySafe ==
  ASSUME IndInv, NEW e \in Device, FilesSafe(e), Same(e),
         \A p \in Path : everStored[p] \subseteq everStored'[p]
  PROVE  FilesSafe(e)'
<1>1. /\ editor'[e] # NoOp \/ savePending'[e] => loaded'[e]
      /\ \A k \in Cycle : cycle'[e][k] # NoCycle => loaded'[e] /\ editor'[e] = NoOp
      /\ \A p \in Path : Editing(e, p)' =>
           disk'[e][p] = editor'[e].content /\ (editor'[e].op = "delete" => editor'[e].content = None)
  BY DEF FilesSafe, Same, Editing
<1>2. \A p \in Path : loaded'[e] /\ ~Changing(e, p)' => EntrySafe(e, p, manifest[e][p])'
  BY DEF FilesSafe, Same, Changing, Editing, EntrySafe, Held
<1>3. \A p \in Path : editor'[e].op # "persist" /\ ~Changing(e, p)' =>
        EntrySafe(e, p, savedManifest[e][p])'
  BY DEF FilesSafe, Same, Changing, Editing, EntrySafe, Held
<1>4. ASSUME NEW k \in Cycle
      PROVE  PullsSafe(e, cycle[e][k])'
  <2>1. PullsSafe(e, cycle[e][k]) /\ cycle'[e][k] = cycle[e][k] /\ cycle[e][k].pulls \subseteq Path
    BY CycleFacts DEF FilesSafe, Same, CycleState
  <2>2. cycle[e][k].step \in {"pullWrite", "pullMark", "pushSend", "pushMark"} =>
          cycle[e][k].path \in Path
    BY Carried DEF Carrying
  <2> QED
    BY <2>1, <2>2 DEF PullsSafe, Same, Held
<1> QED
  BY <1>1, <1>2, <1>3, <1>4 DEF FilesSafe

\* A step of a cycle leaves every file of its device as it is, or puts a version there
\* that the server has held.
FilesKeptOrHeld(d) ==
  \A p \in Path : disk'[d][p] = disk[d][p] \/ Held(p, disk[d][p])'

LEMMA PullsStaySafe ==
  ASSUME IndInv, NEW d \in Device, NEW k \in Cycle, PullsSafe(d, cycle[d][k]),
         cycle'[d][k] = cycle[d][k], FilesKeptOrHeld(d),
         \A p \in Path : everStored[p] \subseteq everStored'[p]
  PROVE  PullsSafe(d, cycle[d][k])'
<1>1. cycle[d][k].pulls \subseteq Path
  BY CycleFacts DEF CycleState
<1>2. cycle[d][k].step \in {"pullWrite", "pullMark", "pushSend", "pushMark"} =>
        cycle[d][k].path \in Path
  BY Carried DEF Carrying
<1> QED
  BY <1>1, <1>2 DEF PullsSafe, FilesKeptOrHeld, Held

LEMMA PullsMoveSafe ==
  ASSUME IndInv, NEW d \in Device, NEW k \in Cycle, PullsSafe(d, cycle[d][k]),
         Moves(d, cycle[d][k], cycle'[d][k]), FilesKeptOrHeld(d),
         \A p \in Path : everStored[p] \subseteq everStored'[p]
  PROVE  PullsSafe(d, cycle[d][k])'
<1> PICK c, n : c = cycle[d][k] /\ n = cycle'[d][k]
  OBVIOUS
<1>1. c.pulls \subseteq Path /\ c.pushes \subseteq Path
  BY CycleFacts DEF CycleState
<1>2. c.step \in {"pullWrite", "pullMark", "pushSend", "pushMark"} => c.path \in Path
  BY Carried DEF Carrying
<1>3. \A p \in n.pulls : Held(p, disk[d][p])'
  BY <1>1 DEF PullsSafe, Moves, FilesKeptOrHeld, Held
<1>4. n.step \in {"pullWrite", "pullMark"} => Held(n.path, disk[d][n.path])'
  <2>1. CASE n.step = "pullWrite"
    BY <1>3, <2>1 DEF Moves
  <2>2. CASE n.step = "pullMark"
    BY <1>2, <2>2 DEF Moves, PullsSafe, FilesKeptOrHeld, Held
  <2> QED
    BY <2>1, <2>2
<1>5. n.step \in {"pushSend", "pushMark"} =>
        disk'[d][n.path] = n.got \/ Held(n.path, disk[d][n.path])'
  <2>1. CASE n.step = "pushSend"
    BY <1>1, <2>1 DEF Moves, FilesKeptOrHeld
  <2>2. CASE n.step = "pushMark"
    BY <1>2, <2>2 DEF Moves, PullsSafe, FilesKeptOrHeld, Held
  <2> QED
    BY <2>1, <2>2
<1> QED
  BY <1>3, <1>4, <1>5 DEF PullsSafe

\* A step of a cycle, seen from its device and from the others.
LEMMA CycleSafe ==
  ASSUME IndInv, PullInv, NEW d \in Device, NEW k \in Cycle, loaded[d], editor[d] = NoOp,
         Others(d, k), UNCHANGED <<loaded, editor>>, FilesKeptOrHeld(d),
         \A p \in Path : everStored[p] \subseteq everStored'[p],
         \A e \in Device \ {d} :
           /\ disk'[e] = disk[e] /\ manifest'[e] = manifest[e]
           /\ savedManifest'[e] = savedManifest[e] /\ savePending'[e] = savePending[e],
         \A p \in Path : EntrySafe(d, p, manifest[d][p])' /\ EntrySafe(d, p, savedManifest[d][p])',
         PullsSafe(d, cycle[d][k])'
  PROVE  PullInv'
<1>1. ASSUME NEW e \in Device \ {d}
      PROVE  FilesSafe(e)'
  <2>1. Same(e)
    BY DEF Same, Others
  <2> QED
    BY <2>1, FilesStaySafe DEF PullInv
<1>2. FilesSafe(d)'
  <2>1. ASSUME NEW j \in Cycle
        PROVE  PullsSafe(d, cycle[d][j])'
    <3>1. CASE j = k
      BY <3>1
    <3>2. CASE j # k
      BY <3>2, PullsStaySafe DEF PullInv, FilesSafe, Others
    <3> QED
      BY <3>1, <3>2
  <2>2. \A p \in Path : ~Editing(d, p)'
    BY NoOpFacts DEF Editing
  <2> QED
    BY <2>1, <2>2 DEF FilesSafe
<1> QED
  BY <1>1, <1>2 DEF PullInv

\* A device whose user waits for a cycle.
LEMMA WaitingFiles ==
  ASSUME IndInv, PullInv, NEW d \in Device, loaded[d], editor[d] = NoOp, NEW p \in Path
  PROVE  EntrySafe(d, p, manifest[d][p]) /\ EntrySafe(d, p, savedManifest[d][p])
BY NoOpFacts DEF PullInv, FilesSafe, Changing

LEMMA WritePullSafe ==
  ASSUME IndInv, PullInv, NEW d \in Device, NEW k \in Cycle, loaded[d], editor[d] = NoOp,
         WritePull(d, k), Others(d, k), Moves(d, cycle[d][k], cycle'[d][k]),
         UNCHANGED everStored
  PROVE  PullInv'
<1>1. cycle[d][k].step = "pullWrite"
  BY DEF WritePull, At
<1>2. PICK q \in Path, v \in Content :
        q = cycle[d][k].path /\ v = cycle[d][k].got /\ v \in everStored[q]
  BY <1>1, Carried DEF Carrying
<1>3. /\ disk'[d][q] = v
      /\ \A p \in Path \ {q} : disk'[d][p] = disk[d][p]
      /\ \A e \in Device \ {d} : disk'[e] = disk[e]
  BY <1>2, TurnTypes DEF WritePull, WriteNote
<1>4. Held(q, disk[d][q]) /\ PullsSafe(d, cycle[d][k])
  BY <1>1, <1>2 DEF PullInv, FilesSafe, PullsSafe
<1>5. FilesKeptOrHeld(d)
  BY <1>2, <1>3 DEF FilesKeptOrHeld, Held
<1>6. UNCHANGED <<manifest, savedManifest, savePending, loaded, editor>>
  BY DEF WritePull, clientVars
<1>7. ASSUME NEW p \in Path
      PROVE  EntrySafe(d, p, manifest[d][p])' /\ EntrySafe(d, p, savedManifest[d][p])'
  <2>1. EntrySafe(d, p, manifest[d][p]) /\ EntrySafe(d, p, savedManifest[d][p])
    BY WaitingFiles
  <2> QED
    BY <1>2, <1>3, <1>4, <1>6, <2>1 DEF EntrySafe, Held
<1>8. PullsSafe(d, cycle[d][k])'
  BY <1>4, <1>5, PullsMoveSafe
<1> QED
  BY <1>3, <1>5, <1>6, <1>7, <1>8, CycleSafe

\* A cycle replaces the entry of note q, or nothing.
LEMMA MarkSafe ==
  ASSUME IndInv, PullInv, NEW d \in Device, NEW k \in Cycle, loaded[d], editor[d] = NoOp,
         Others(d, k), Moves(d, cycle[d][k], cycle'[d][k]),
         UNCHANGED <<disk, savedManifest, everStored, loaded, editor>>,
         \A e \in Device \ {d} : savePending'[e] = savePending[e],
         NEW q \in Path, NEW x \in Entry, EntrySafe(d, q, x),
         UNCHANGED manifest \/ SetEntry(d, q, x)
  PROVE  PullInv'
<1>1. /\ manifest'[d][q] \in {x, manifest[d][q]}
      /\ \A p \in Path \ {q} : manifest'[d][p] = manifest[d][p]
      /\ \A e \in Device \ {d} : manifest'[e] = manifest[e]
  BY TurnTypes DEF SetEntry
<1>2. ASSUME NEW p \in Path
      PROVE  EntrySafe(d, p, manifest[d][p])' /\ EntrySafe(d, p, savedManifest[d][p])'
  <2>1. EntrySafe(d, p, manifest[d][p]) /\ EntrySafe(d, p, savedManifest[d][p])
    BY WaitingFiles
  <2> QED
    BY <1>1, <2>1 DEF EntrySafe, Held
<1>3. FilesKeptOrHeld(d)
  BY DEF FilesKeptOrHeld
<1>4. PullsSafe(d, cycle[d][k])'
  BY <1>3, PullsMoveSafe DEF PullInv, FilesSafe
<1> QED
  BY <1>1, <1>2, <1>3, <1>4, CycleSafe

LEMMA MarksSafe ==
  ASSUME IndInv, PullInv, NEW d \in Device, NEW k \in Cycle, loaded[d], editor[d] = NoOp,
         MarkPull(d, k) \/ MarkPush(d, k) \/ MarkConflict(d, k),
         Others(d, k), Moves(d, cycle[d][k], cycle'[d][k]), UNCHANGED everStored
  PROVE  PullInv'
<1>1. cycle[d][k].step \in {"pullMark", "pushMark", "conflictMark"}
  BY DEF MarkPull, MarkPush, MarkConflict, At
<1>2. PICK q \in Path, v \in Content :
        q = cycle[d][k].path /\ v = cycle[d][k].got /\ v \in everStored[q]
  BY <1>1, Carried DEF Carrying
<1>3. EntrySafe(d, q, manifest[d][q]) /\ PullsSafe(d, cycle[d][k]) /\ v \in Version
      /\ manifest[d][q] \in Entry
  BY WaitingFiles, TurnTypes DEF PullInv, FilesSafe, Version
<1>4. UNCHANGED <<disk, savedManifest, loaded, editor>>
      /\ \A e \in Device \ {d} : savePending'[e] = savePending[e]
  BY TurnTypes DEF MarkPull, MarkPush, MarkConflict
<1>5. CASE MarkPull(d, k)
  <2>1. SetEntry(d, q, Synced(v)) /\ cycle[d][k].step = "pullMark"
    BY <1>2, <1>5 DEF MarkPull, At
  <2>2. Synced(v) \in Entry /\ EntrySafe(d, q, Synced(v))
    BY <1>2, <1>3, <2>1, EntryTypes DEF Synced, EntrySafe, PullsSafe, Held
  <2> QED
    BY <1>4, <2>1, <2>2, MarkSafe
<1>6. CASE MarkPush(d, k)
  <2> DEFINE x == [manifest[d][q] EXCEPT !.lastSyncedHash = v, !.status = "synced"]
  <2>1. UNCHANGED manifest \/ SetEntry(d, q, x)
    BY <1>2, <1>6 DEF MarkPush
  <2>2. x \in Entry /\ x.contentHash = manifest[d][q].contentHash
    BY <1>3 DEF Entry, Status
  <2> HIDE DEF x
  <2>3. cycle[d][k].step = "pushMark"
    BY <1>6 DEF MarkPush, At
  <2>4. EntrySafe(d, q, x)
    BY <1>2, <1>3, <2>2, <2>3 DEF EntrySafe, PullsSafe, Held
  <2> QED
    BY <1>4, <2>1, <2>2, <2>4, MarkSafe
<1>7. CASE MarkConflict(d, k)
  <2> DEFINE x == [manifest[d][q] EXCEPT !.status = "conflictPending"]
  <2>1. UNCHANGED manifest \/ SetEntry(d, q, x)
    BY <1>2, <1>7 DEF MarkConflict
  <2>2. x \in Entry /\ x.contentHash = manifest[d][q].contentHash /\ x.status = "conflictPending"
    BY <1>3 DEF Entry, Status
  <2> HIDE DEF x
  <2>3. EntrySafe(d, q, x)
    BY <1>3, <2>2 DEF EntrySafe
  <2> QED
    BY <1>4, <2>1, <2>2, <2>3, MarkSafe
<1> QED
  BY <1>5, <1>6, <1>7

\* A step that leaves the device's notes and manifest alone, or saves the manifest.
LEMMA QuietStepSafe ==
  ASSUME IndInv, PullInv, NEW d \in Device, NEW k \in Cycle, loaded[d], editor[d] = NoOp,
         Others(d, k), UNCHANGED <<disk, manifest, savePending, loaded, editor>>,
         UNCHANGED savedManifest \/ SavesNow(d),
         \A p \in Path : everStored[p] \subseteq everStored'[p],
         PullsSafe(d, cycle[d][k])'
  PROVE  PullInv'
<1>1. /\ \A p \in Path : savedManifest'[d][p] \in {savedManifest[d][p], manifest[d][p]}
      /\ \A e \in Device \ {d} : savedManifest'[e] = savedManifest[e]
  BY TurnTypes DEF SavesNow
<1>2. ASSUME NEW p \in Path
      PROVE  EntrySafe(d, p, manifest[d][p])' /\ EntrySafe(d, p, savedManifest[d][p])'
  <2>1. EntrySafe(d, p, manifest[d][p]) /\ EntrySafe(d, p, savedManifest[d][p])
    BY WaitingFiles
  <2>2. EntrySafe(d, p, manifest[d][p])' /\ EntrySafe(d, p, savedManifest[d][p])'
    BY <1>1, <2>1 DEF EntrySafe, Held
  <2> QED
    BY <2>2
<1>3. FilesKeptOrHeld(d)
  BY DEF FilesKeptOrHeld
<1> QED
  BY <1>1, <1>2, <1>3, CycleSafe

LEMMA ComputeDiffSafe ==
  ASSUME IndInv, PullInv, NEW d \in Device, NEW k \in Cycle, loaded[d], editor[d] = NoOp,
         ComputeDiff(d, k)
  PROVE  PullInv'
<1>1. /\ Others(d, k) /\ cycle'[d][k].step = "work"
      /\ \A p \in cycle'[d][k].pulls :
           p \in Path /\ ToPull(manifest[d][p], cycle[d][k].list[p])
  BY DiffMoves
<1>2. UNCHANGED <<disk, manifest, savedManifest, savePending, loaded, editor, everStored>>
  BY DEF ComputeDiff, clientVars
<1>3. ASSUME NEW p \in cycle'[d][k].pulls
      PROVE  Held(p, disk[d][p])'
  <2>1. p \in Path /\ manifest[d][p].status \in {"absent", "synced"}
    BY <1>1 DEF ToPull
  <2> QED
    BY <1>2, <2>1, WaitingFiles DEF EntrySafe, Held
<1>4. PullsSafe(d, cycle[d][k])'
  BY <1>1, <1>3 DEF PullsSafe
<1> QED
  BY <1>1, <1>2, <1>4, QuietStepSafe

LEMMA CycleStepSafe ==
  ASSUME IndInv, PullInv, UserWaits, NEW d \in Device, NEW k \in Cycle,
         CycleStep(d, k) \/ CycleFails(d, k) \/ ConflictFails(d, k), [Next]_vars
  PROVE  PullInv'
<1>1. loaded[d] /\ editor[d] = NoOp
  <2>1. CASE ListObjects(d, k)
    BY <2>1 DEF ListObjects, UserWaits, UserIdle, Allowed
  <2>2. CASE cycle[d][k].step # "idle"
    BY <2>2, NoCycleFacts DEF PullInv, FilesSafe
  <2>3. CASE ComputeDiff(d, k)
    BY <2>2, <2>3 DEF ComputeDiff, At
  <2> QED
    BY <2>1, <2>2, <2>3, CycleMoves
<1>2. CASE ComputeDiff(d, k)
  BY <1>1, <1>2, ComputeDiffSafe
<1>3. CASE ~ComputeDiff(d, k)
  <2>1. Others(d, k) /\ Moves(d, cycle[d][k], cycle'[d][k])
    BY <1>3, CycleMoves
  <2>2. \A p \in Path : everStored[p] \subseteq everStored'[p]
    BY StoredGrows
  <2>3. /\ UNCHANGED <<loaded, editor>>
        /\ \/ UNCHANGED <<disk, manifest, savedManifest, savePending>>
           \/ UNCHANGED <<disk, manifest, savePending>> /\ SavesNow(d)
           \/ WritePull(d, k) \/ MarkPull(d, k) \/ MarkPush(d, k) \/ MarkConflict(d, k)
    BY CycleEffects
  <2>4. CASE WritePull(d, k)
    BY <1>1, <2>1, <2>4, WritePullSafe DEF WritePull
  <2>5. CASE MarkPull(d, k) \/ MarkPush(d, k) \/ MarkConflict(d, k)
    BY <1>1, <2>1, <2>5, MarksSafe DEF MarkPull, MarkPush, MarkConflict
  <2>6. CASE /\ UNCHANGED <<disk, manifest, savePending>>
             /\ UNCHANGED savedManifest \/ SavesNow(d)
    <3>1. FilesKeptOrHeld(d)
      BY <2>6 DEF FilesKeptOrHeld
    <3>2. PullsSafe(d, cycle[d][k])'
      BY <2>1, <2>2, <3>1, PullsMoveSafe DEF PullInv, FilesSafe
    <3> QED
      BY <1>1, <2>1, <2>2, <2>3, <2>6, <3>2, QuietStepSafe
  <2> QED
    BY <2>3, <2>4, <2>5, <2>6
<1> QED
  BY <1>2, <1>3

\* A step of a device outside its cycles.
LEMMA LocalStepSafe ==
  ASSUME IndInv, PullInv, NEW d \in Device, \A e \in Device \ {d} : Same(e),
         UNCHANGED everStored, FilesSafe(d)'
  PROVE  PullInv'
BY FilesStaySafe DEF PullInv

\* The user's operation writes the file of note q.
LEMMA UserWriteSafe ==
  ASSUME IndInv, PullInv, UserWaits, NEW d \in Device, NEW q \in Path, NEW v \in Version,
         NEW o \in {"save", "create", "delete"}, MayEdit(d), WriteNote(d, q, v),
         editor' = [editor EXCEPT ![d] = [op |-> o, path |-> q, content |-> v]],
         o = "delete" => v = None,
         UNCHANGED <<manifest, savedManifest, savePending, loaded, cycle, everStored>>
  PROVE  PullInv'
<1>1. loaded[d] /\ editor[d] = NoOp /\ \A k \in Cycle : cycle[d][k] = NoCycle
  BY DEF MayEdit, UserWaits, UserIdle, Allowed, Quiet
<1>2. /\ disk'[d][q] = v
      /\ \A p \in Path \ {q} : disk'[d][p] = disk[d][p]
      /\ \A e \in Device \ {d} : disk'[e] = disk[e]
  BY TurnTypes DEF WriteNote
<1>3. /\ editor'[d].op = o /\ editor'[d].path = q /\ editor'[d].content = v
      /\ \A e \in Device \ {d} : editor'[e] = editor[e]
  BY TurnTypes
<1>4. ASSUME NEW p \in Path, ~Changing(d, p)'
      PROVE  EntrySafe(d, p, manifest[d][p])' /\ EntrySafe(d, p, savedManifest[d][p])'
  <2>1. EntrySafe(d, p, manifest[d][p]) /\ EntrySafe(d, p, savedManifest[d][p])
    BY <1>1, WaitingFiles
  <2>2. CASE p = q
    <3>1. manifest[d][q].contentHash = v
      BY <1>3, <1>4, <2>2 DEF Changing, Editing
    <3> QED
      BY <1>2, <2>1, <2>2, <3>1 DEF EntrySafe, Held
  <2>3. CASE p # q
    BY <1>2, <2>1, <2>3 DEF EntrySafe, Held
  <2> QED
    BY <2>2, <2>3
<1>5. \A p \in Path : Editing(d, p)' =>
        disk'[d][p] = editor'[d].content /\ (editor'[d].op = "delete" => editor'[d].content = None)
  BY <1>2, <1>3 DEF Editing
<1>6. \A k \in Cycle : PullsSafe(d, cycle[d][k])'
  BY <1>1, NoCycleFacts DEF PullsSafe
<1>7. FilesSafe(d)'
  BY <1>1, <1>4, <1>5, <1>6 DEF FilesSafe
<1>8. \A e \in Device \ {d} : Same(e)
  BY <1>2, <1>3 DEF Same
<1> QED
  BY <1>7, <1>8, LocalStepSafe

LEMMA UserStepSafe ==
  ASSUME IndInv, PullInv, UserWaits, NEW d \in Device, UserStep(d)
  PROVE  PullInv'
<1>0. Blank \in Version /\ None \in Version /\ Content \subseteq Version
  BY ConstantsAssumption DEF Version
<1>1. ASSUME NEW p \in Path, NEW c \in Content, SaveNote(d, p, c)
      PROVE  PullInv'
  <2>1. c \in Version
    BY <1>0
  <2> QED
    BY <1>1, <2>1, UserWriteSafe DEF SaveNote, clientVars
<1>2. ASSUME NEW p \in Path, CreateNote(d, p)
      PROVE  PullInv'
  BY <1>0, <1>2, UserWriteSafe DEF CreateNote, clientVars
<1>3. ASSUME NEW p \in Path, DeleteNote(d, p)
      PROVE  PullInv'
  BY <1>0, <1>3, UserWriteSafe DEF DeleteNote, clientVars
<1> QED
  BY <1>1, <1>2, <1>3 DEF UserStep

LEMMA UpdateEntrySafe ==
  ASSUME IndInv, PullInv, NEW d \in Device, UpdateEntry(d)
  PROVE  PullInv'
<1>1. editor[d].op \in {"save", "create", "delete"} /\ editor[d] # NoOp
  BY NoOpFacts DEF UpdateEntry
<1>2. /\ FilesSafe(d) /\ loaded[d] /\ \A k \in Cycle : cycle[d][k] = NoCycle
      /\ UNCHANGED <<disk, savedManifest, savePending, loaded, cycle, everStored>>
  BY <1>1 DEF PullInv, FilesSafe, UpdateEntry
<1>3. PICK q \in Path : q = editor[d].path
  BY <1>1 DEF IndInv
<1>4. /\ Editing(d, q) /\ \A p \in Path \ {q} : ~Editing(d, p)
      /\ disk[d][q] = editor[d].content
      /\ editor[d].op = "delete" => editor[d].content = None
  BY <1>1, <1>2, <1>3 DEF Editing, FilesSafe
<1>5. /\ editor'[d].op \in {"none", "persist"}
      /\ \A e \in Device \ {d} : editor'[e] = editor[e]
      /\ \A p \in Path : ~Editing(d, p)'
  BY TurnTypes, NoOpFacts DEF UpdateEntry, Editing, NoOp
<1>6. \A k \in Cycle : PullsSafe(d, cycle[d][k])' /\ cycle'[d][k] = NoCycle
  BY <1>2, NoCycleFacts DEF PullsSafe
<1>7. CASE editor[d].op = "save" /\ manifest[d][q].contentHash = editor[d].content
  <2>1. UNCHANGED manifest
    BY <1>3, <1>7 DEF UpdateEntry
  <2>2. ASSUME NEW p \in Path
        PROVE  EntrySafe(d, p, manifest[d][p])' /\ EntrySafe(d, p, savedManifest[d][p])'
    <3>1. ~Changing(d, p)
      BY <1>4, <1>7 DEF Changing
    <3>2. EntrySafe(d, p, manifest[d][p]) /\ EntrySafe(d, p, savedManifest[d][p])
      BY <1>2, <1>7, <3>1 DEF FilesSafe
    <3> QED
      BY <1>2, <2>1, <3>2 DEF EntrySafe, Held
  <2>3. FilesSafe(d)'
    BY <1>2, <1>5, <1>6, <2>2 DEF FilesSafe
  <2>4. \A e \in Device \ {d} : Same(e)
    BY <1>2, <1>5, <2>1 DEF Same
  <2> QED
    BY <1>2, <2>3, <2>4, LocalStepSafe
<1>8. CASE ~(editor[d].op = "save" /\ manifest[d][q].contentHash = editor[d].content)
  <2>1. /\ SetEntry(d, q, EntryAfter(editor[d], manifest[d][q]))
        /\ editor' = [editor EXCEPT ![d] = [NoOp EXCEPT !.op = "persist"]]
    BY <1>3, <1>8 DEF UpdateEntry
  <2>2. editor'[d].op = "persist"
    BY <2>1, TurnTypes DEF NoOp
  <2>3. PICK x : x = EntryAfter(editor[d], manifest[d][q])
    OBVIOUS
  <2>4. EntrySafe(d, q, x)
    BY <1>1, <1>4, <2>3 DEF EntryAfter, Modified, NoEntry, EntrySafe, Held
  <2>5. /\ manifest'[d][q] = x
        /\ \A p \in Path \ {q} : manifest'[d][p] = manifest[d][p]
        /\ \A e \in Device \ {d} : manifest'[e] = manifest[e]
    BY <2>1, <2>3, TurnTypes DEF SetEntry
  <2>6. ASSUME NEW p \in Path
        PROVE  EntrySafe(d, p, manifest[d][p])'
    <3>1. CASE p = q
      BY <1>2, <2>4, <2>5, <3>1 DEF EntrySafe, Held
    <3>2. CASE p # q
      <4>1. EntrySafe(d, p, manifest[d][p])
        BY <1>2, <1>4, <3>2 DEF FilesSafe, Changing
      <4> QED
        BY <1>2, <2>5, <3>2, <4>1 DEF EntrySafe, Held
    <3> QED
      BY <3>1, <3>2
  <2>7. FilesSafe(d)'
    BY <1>2, <1>5, <1>6, <2>2, <2>6 DEF FilesSafe
  <2>8. \A e \in Device \ {d} : Same(e)
    BY <1>2, <1>5, <2>5 DEF Same
  <2> QED
    BY <1>2, <2>7, <2>8, LocalStepSafe
<1> QED
  BY <1>7, <1>8

\* The manifest is saved.  While an operation is about to change an entry in memory,
\* the entry it saves is the one it found.
LEMMA PersistSafe ==
  ASSUME IndInv, PullInv, UserWaits, NEW d \in Device, PersistEdit(d) \/ PersistSynced(d)
  PROVE  PullInv'
<1>a. SavesNow(d)
  BY SavesAtOnce DEF PersistEdit, PersistSynced, UserWaits
<1>1. /\ FilesSafe(d) /\ loaded[d]
      /\ UNCHANGED <<disk, manifest, loaded, cycle, everStored>>
  BY NoOpFacts DEF PullInv, FilesSafe, PersistEdit, PersistSynced
<1>2. /\ savedManifest'[d] = manifest[d]
      /\ \A e \in Device \ {d} : savedManifest'[e] = savedManifest[e]
      /\ \A e \in Device \ {d} : savePending'[e] = savePending[e] /\ editor'[e] = editor[e]
  BY <1>a, TurnTypes DEF PersistEdit, PersistSynced, SavesNow
<1>3. editor'[d] = editor[d] \/ (editor[d].op = "persist" /\ editor'[d] = NoOp)
  BY TurnTypes DEF PersistEdit, PersistSynced
<1>4. \A p \in Path : Editing(d, p)' <=> Editing(d, p)
  BY <1>3, NoOpFacts DEF Editing
<1>5. \A p \in Path : Changing(d, p)' <=> Changing(d, p)
  BY <1>1, <1>3, <1>4 DEF Changing, Editing, NoOp
<1>6. ASSUME NEW p \in Path, ~Changing(d, p)
      PROVE  EntrySafe(d, p, manifest[d][p])' /\ EntrySafe(d, p, savedManifest[d][p])'
  <2>1. EntrySafe(d, p, manifest[d][p])
    BY <1>1, <1>6 DEF FilesSafe
  <2> QED
    BY <1>1, <1>2, <2>1 DEF EntrySafe, Held
<1>7. \A p \in Path : Editing(d, p)' =>
        disk'[d][p] = editor'[d].content /\ (editor'[d].op = "delete" => editor'[d].content = None)
  BY <1>1, <1>3, <1>4 DEF FilesSafe, Editing, NoOp
<1>8. \A k \in Cycle : PullsSafe(d, cycle[d][k])'
  BY <1>1 DEF FilesSafe, PullsSafe, Held
<1>9. \A k \in Cycle : cycle'[d][k] # NoCycle => editor'[d] = NoOp
  BY <1>1, <1>3 DEF FilesSafe
<1>10. FilesSafe(d)'
  BY <1>1, <1>5, <1>6, <1>7, <1>8, <1>9 DEF FilesSafe
<1>11. \A e \in Device \ {d} : Same(e)
  BY <1>1, <1>2 DEF Same
<1> QED
  BY <1>1, <1>10, <1>11, LocalStepSafe

\* A process starts, or a note list is opened anew: it reads what was saved.
LEMMA LoadManifestSafe ==
  ASSUME IndInv, PullInv, UserWaits, NEW d \in Device, LoadManifest(d)
  PROVE  PullInv'
<1>1. /\ FilesSafe(d) /\ editor[d] = NoOp
      /\ \A k \in Cycle : cycle[d][k] = NoCycle
      /\ UNCHANGED <<disk, savedManifest, savePending, editor, cycle, everStored>>
  BY DEF PullInv, FilesSafe, LoadManifest, UserWaits, Allowed, AtRest, UserIdle, Quiet
<1>2. /\ manifest'[d] = savedManifest[d] /\ loaded'[d]
      /\ \A e \in Device \ {d} : manifest'[e] = manifest[e] /\ loaded'[e] = loaded[e]
  BY TurnTypes DEF LoadManifest
<1>3. \A p \in Path : EntrySafe(d, p, savedManifest[d][p])
  BY <1>1, NoOpFacts DEF FilesSafe, Changing
<1>4. \A p \in Path : EntrySafe(d, p, manifest[d][p])' /\ EntrySafe(d, p, savedManifest[d][p])'
  BY <1>1, <1>2, <1>3 DEF EntrySafe, Held
<1>5. \A k \in Cycle : PullsSafe(d, cycle[d][k])'
  BY <1>1, NoCycleFacts DEF PullsSafe
<1>6. FilesSafe(d)'
  BY <1>1, <1>2, <1>4, <1>5, NoOpFacts DEF FilesSafe, Editing
<1>7. \A e \in Device \ {d} : Same(e)
  BY <1>1, <1>2 DEF Same
<1> QED
  BY <1>1, <1>6, <1>7, LocalStepSafe

LEMMA RestartSafe ==
  ASSUME IndInv, PullInv, UserWaits, NEW d \in Device, Restart(d)
  PROVE  PullInv'
<1>1. /\ FilesSafe(d) /\ editor[d] = NoOp
      /\ UNCHANGED <<disk, savedManifest, everStored>>
  BY DEF PullInv, Restart, UserWaits, Allowed, AtRest, UserIdle
<1>2. /\ ~loaded'[d] /\ editor'[d] = NoOp /\ ~savePending'[d]
      /\ \A k \in Cycle : cycle'[d][k] = NoCycle
      /\ \A e \in Device \ {d} :
           /\ manifest'[e] = manifest[e] /\ loaded'[e] = loaded[e] /\ editor'[e] = editor[e]
           /\ savePending'[e] = savePending[e] /\ cycle'[e] = cycle[e]
  BY TurnTypes DEF Restart
<1>3. \A p \in Path : EntrySafe(d, p, savedManifest[d][p])
  BY <1>1, NoOpFacts DEF FilesSafe, Changing
<1>4. \A p \in Path : EntrySafe(d, p, savedManifest[d][p])'
  BY <1>1, <1>3 DEF EntrySafe, Held
<1>5. \A k \in Cycle : PullsSafe(d, cycle[d][k])'
  BY <1>2, NoCycleFacts DEF PullsSafe
<1>6. FilesSafe(d)'
  BY <1>2, <1>4, <1>5, NoOpFacts DEF FilesSafe, Editing
<1>7. \A e \in Device \ {d} : Same(e)
  BY <1>1, <1>2 DEF Same
<1> QED
  BY <1>1, <1>6, <1>7, LocalStepSafe

LEMMA NextSafe ==
  ASSUME UserWaits, IndInv, PullInv, [Next]_vars
  PROVE  PullInv'
<1>1. CASE UNCHANGED vars
  <2>1. \A e \in Device : Same(e)
    BY <1>1 DEF vars, clientVars, Same
  <2> QED
    BY <1>1, <2>1, FilesStaySafe, StoredGrows DEF PullInv
<1>2. ASSUME NEW d \in Device, UserStep(d) \/ LocalStep(d) \/ Restart(d)
      PROVE  PullInv'
  <2>1. CASE Resume(d)
    <3>1. \A e \in Device : Same(e)
      BY <2>1 DEF Resume, clientVars, Same
    <3> QED
      BY <3>1, FilesStaySafe, StoredGrows DEF PullInv
  <2>2. ~SaveLands(d) /\ ~SaveFails(d) /\ ~PersistFails(d)
    BY SavesAtOnce DEF UserWaits, PersistFails, Allowed
  <2> QED
    BY <1>2, <2>1, <2>2, UserStepSafe, UpdateEntrySafe, PersistSafe, LoadManifestSafe,
       RestartSafe DEF LocalStep
<1>3. ASSUME NEW d \in Device, NEW k \in Cycle,
             CycleStep(d, k) \/ CycleFails(d, k) \/ ConflictFails(d, k)
      PROVE  PullInv'
  BY <1>3, CycleStepSafe
<1>4. ASSUME NEW p \in Path, RemoteDelete(p)
      PROVE  PullInv'
  <2>1. \A e \in Device : Same(e)
    BY <1>4 DEF RemoteDelete, clientVars, Same
  <2> QED
    BY <2>1, FilesStaySafe, StoredGrows DEF PullInv
<1> QED
  BY <1>1, <1>2, <1>3, <1>4 DEF Next

LEMMA InitSafe == Init => PullInv
<1> SUFFICES ASSUME Init, NEW d \in Device PROVE FilesSafe(d)
  BY DEF PullInv
<1>1. /\ editor[d] = NoOp /\ ~loaded[d] /\ ~savePending[d]
      /\ \A k \in Cycle : cycle[d][k] = NoCycle
      /\ \A p \in Path : savedManifest[d][p] = NoEntry /\ disk[d][p] = None
  BY DEF Init
<1>2. \A p \in Path : EntrySafe(d, p, savedManifest[d][p])
  BY <1>1 DEF EntrySafe, Held, NoEntry
<1>3. \A k \in Cycle : PullsSafe(d, cycle[d][k])
  BY <1>1, NoCycleFacts DEF PullsSafe
<1> QED
  BY <1>1, <1>2, <1>3, NoOpFacts DEF FilesSafe

\* _pullNote: a pull never replaces a file the server has not held, whatever other
\* cycles do meanwhile and whatever was lost, deleted or restarted before: an edit that
\* was never uploaded survives, as long as manifest.json is written whenever it is saved.
THEOREM PullsKeepEdits ==
  ASSUME UserWaits
  PROVE  Spec => PullKeepsEdits
<1> DEFINE Kept == \A d \in Device, k \in Cycle : \A p \in Path :
             At(d, k, "pullWrite") /\ cycle'[d][k].step = "pullMark" /\ cycle[d][k].path = p =>
               disk[d][p] \in everStored[p] \union {None, disk'[d][p]}
<1>1. IndInv /\ PullInv /\ [Next]_vars => PullInv'
  BY NextSafe
<1>2. IndInv /\ PullInv => [Kept]_vars
  BY DEF PullInv, FilesSafe, PullsSafe, Held, At
<1>3. Spec => [][Kept]_vars
  BY <1>1, <1>2, InitSafe, AlwaysIndInv, PTL DEF Spec
<1> QED
  BY <1>3 DEF PullKeepsEdits

-----------------------------------------------------------------------------
(***************************************************************************)
(* A push replaces the version its author started from, whatever is lost,  *)
(* killed, not written or written late, and even if the first cycle starts *)
(* before the manifest has been loaded, as long as one cycle is in         *)
(* progress at a time (overlap), its user waits for it (editDuringCycle),  *)
(* and no manifest is loaded again under it (reload with earlySync).       *)
(***************************************************************************)
OneCycleAtATime ==
  /\ Disturbances \intersect {"overlap", "editDuringCycle"} = {}
  /\ ~({"reload", "earlySync"} \subseteq Disturbances)

\* The cycle in progress is the only one, and its user waits for it.
Alone ==
  \A d \in Device, k \in Cycle : cycle[d][k] # NoCycle =>
    /\ editor[d] = NoOp
    /\ \A e \in Device, j \in Cycle : e # d \/ j # k => cycle[e][j] = NoCycle

\* A note to push still has, on the server, the version its entry is based on.
PushesBased(d, c) ==
  /\ c.step = "listed" => \A p \in Path : object[p] \in {c.list[p], None}
  /\ \A p \in c.pushes :
       /\ loaded[d]
       /\ \/ c.step = "pushMark" /\ c.path = p
          \/ object[p] \in {None, manifest[d][p].lastSyncedHash}
  /\ c.pulls \intersect c.pushes = {}
  /\ c.step \in {"pullWrite", "pullMark"} => c.path \in c.pulls
  /\ c.step \in {"pushSend", "pushMark"} => c.path \in c.pushes

\* A device that has not loaded its manifest has nothing to push.
EmptyUntilLoaded(d) ==
  /\ editor[d] # NoOp => loaded[d]
  /\ ~loaded[d] => \A p \in Path : manifest[d][p].status # "modified"

PushInv ==
  /\ Alone
  /\ \A d \in Device : EmptyUntilLoaded(d)
  /\ \A d \in Device, k \in Cycle : PushesBased(d, cycle[d][k])

LEMMA NothingToPush == \A d \in Device : PushesBased(d, NoCycle)
BY NoCycleFacts DEF PushesBased

\* The cycle that takes a step is the only one.
LEMMA AloneNow ==
  ASSUME IndInv, PushInv, OneCycleAtATime, NEW d \in Device, NEW k \in Cycle,
         cycle[d][k].step # "idle" \/ ListObjects(d, k)
  PROVE  /\ editor[d] = NoOp
         /\ \A e \in Device, j \in Cycle : e # d \/ j # k => cycle[e][j] = NoCycle
<1>1. CASE cycle[d][k].step # "idle"
  BY <1>1, NoCycleFacts DEF PushInv, Alone
<1>2. CASE ListObjects(d, k)
  BY <1>2 DEF ListObjects, OneCycleAtATime, Allowed, UserIdle, Quiet
<1> QED
  BY <1>1, <1>2

\* A step of the cycle that is alone.
LEMMA AloneFrame ==
  ASSUME IndInv, PushInv, NEW d \in Device, NEW k \in Cycle, Others(d, k),
         editor[d] = NoOp, UNCHANGED <<loaded, editor>>,
         \A e \in Device, j \in Cycle : e # d \/ j # k => cycle[e][j] = NoCycle,
         \A e \in Device \ {d} : manifest'[e] = manifest[e],
         EmptyUntilLoaded(d)', PushesBased(d, cycle[d][k])'
  PROVE  PushInv'
<1>1. \A e \in Device, j \in Cycle : e # d \/ j # k => cycle'[e][j] = NoCycle
  BY DEF Others
<1>2. Alone'
  BY <1>1 DEF Alone
<1>3. \A e \in Device : EmptyUntilLoaded(e)'
  BY DEF PushInv, EmptyUntilLoaded
<1>4. ASSUME NEW e \in Device, NEW j \in Cycle
      PROVE  PushesBased(e, cycle[e][j])'
  <2>1. CASE e = d /\ j = k
    BY <2>1
  <2>2. CASE e # d \/ j # k
    BY <1>1, <2>2, NoCycleFacts DEF PushesBased
  <2> QED
    BY <2>1, <2>2
<1> QED
  BY <1>2, <1>3, <1>4 DEF PushInv

\* What a step does to the notes that are still to push.
LEMMA PushesMoveBased ==
  ASSUME IndInv, NEW d \in Device, NEW k \in Cycle, PushesBased(d, cycle[d][k]),
         Moves(d, cycle[d][k], cycle'[d][k]), UNCHANGED loaded,
         cycle'[d][k].step = "listed" => UNCHANGED object,
         \A p \in cycle'[d][k].pushes :
           \/ cycle'[d][k].step = "pushMark" /\ cycle'[d][k].path = p
           \/ object'[p] \in {None, manifest'[d][p].lastSyncedHash}
  PROVE  PushesBased(d, cycle[d][k])'
<1> PICK c, n : c = cycle[d][k] /\ n = cycle'[d][k]
  OBVIOUS
<1>1. n.step = "listed" => \A p \in Path : object'[p] \in {n.list[p], None}
  BY DEF Moves
<1>2. \A p \in n.pushes : loaded'[d]
  BY DEF PushesBased, Moves
<1>3. n.pulls \intersect n.pushes = {}
  BY DEF PushesBased, Moves
<1>4. n.step \in {"pullWrite", "pullMark"} => n.path \in n.pulls
  BY DEF PushesBased, Moves
<1>5. n.step \in {"pushSend", "pushMark"} => n.path \in n.pushes
  BY DEF PushesBased, Moves
<1> QED
  BY <1>1, <1>2, <1>3, <1>4, <1>5 DEF PushesBased

\* A step that leaves the objects alone, and the base of every note still to push.
LEMMA KeepsBased ==
  ASSUME IndInv, PushInv, OneCycleAtATime, NEW d \in Device, NEW k \in Cycle,
         cycle[d][k].step # "idle" \/ ListObjects(d, k),
         Others(d, k), Moves(d, cycle[d][k], cycle'[d][k]),
         UNCHANGED object, UNCHANGED <<loaded, editor>>,
         cycle[d][k].step = "pushMark" => cycle[d][k].path \notin cycle'[d][k].pushes,
         \A e \in Device \ {d} : manifest'[e] = manifest[e],
         \A p \in Path : manifest'[d][p].status = "modified" => manifest[d][p].status = "modified",
         \A p \in cycle'[d][k].pushes :
           manifest'[d][p].lastSyncedHash = manifest[d][p].lastSyncedHash
  PROVE  PushInv'
<1>1. /\ editor[d] = NoOp
      /\ \A e \in Device, j \in Cycle : e # d \/ j # k => cycle[e][j] = NoCycle
  BY AloneNow
<1>2. EmptyUntilLoaded(d) /\ PushesBased(d, cycle[d][k])
  BY DEF PushInv
<1>3. EmptyUntilLoaded(d)'
  BY <1>2 DEF EmptyUntilLoaded
<1>4. \A p \in cycle'[d][k].pushes : object'[p] \in {None, manifest'[d][p].lastSyncedHash}
  BY <1>2 DEF PushesBased, Moves
<1>5. PushesBased(d, cycle[d][k])'
  BY <1>2, <1>4, PushesMoveBased
<1> QED
  BY <1>1, <1>3, <1>5, AloneFrame

\* After the answer to a push, or an exception, its note is not to be pushed any more.
LEMMA PushMarkLeaves ==
  ASSUME IndInv, NEW d \in Device, NEW k \in Cycle, cycle[d][k].step = "pushMark",
         CycleStep(d, k) \/ MarkPush(d, k) \/ CycleFails(d, k) \/ ConflictFails(d, k)
  PROVE  cycle[d][k].path \notin cycle'[d][k].pushes
<1>1. MarkPush(d, k) \/ CycleFails(d, k)
  BY DEF CycleStep, ConflictFails, At, ListObjects, ComputeDiff, GetPull, WritePull,
     MarkPull, SavePull, ReadPush, PutObject, GetConflict, WriteConflict, MarkConflict,
     SaveConflicts, FinishCycle
<1>2. CASE MarkPush(d, k)
  <2>1. PICK p \in Path : p = cycle[d][k].path
    BY Carried DEF Carrying
  <2> QED
    BY <1>2, <2>1, DoneTurn DEF MarkPush
<1>3. CASE CycleFails(d, k)
  BY <1>3, EmptyStates, SetCycleTurn, NoCycleFacts DEF CycleFails, FailCycle
<1> QED
  BY <1>1, <1>2, <1>3

LEMMA PutObjectBased ==
  ASSUME IndInv, PushInv, OneCycleAtATime, NEW d \in Device, NEW k \in Cycle,
         PutObject(d, k), Others(d, k), Moves(d, cycle[d][k], cycle'[d][k])
  PROVE  PushInv'
<1>1. /\ cycle[d][k].step = "pushSend" /\ UNCHANGED manifest
      /\ UNCHANGED <<loaded, editor>> /\ cycle'[d][k].step # "listed"
  <2>1. cycle[d][k].step = "pushSend" /\ UNCHANGED <<manifest, loaded, editor>>
    BY DEF PutObject, At, clientVars
  <2>2. cycle'[d][k] = NoCycle \/ cycle'[d][k].step = "pushMark"
    <3>1. "pushMark" \in Step
      BY DEF Step
    <3> QED
      BY <3>1, EmptyStates, SetCycleTurn, GoToTurn DEF PutObject, FailCycle
  <2> QED
    BY <2>1, <2>2, NoCycleFacts
<1>2. PICK q \in Path, v \in Content : q = cycle[d][k].path /\ v = cycle[d][k].got
  BY <1>1, Carried DEF Carrying
<1>3. /\ editor[d] = NoOp
      /\ \A e \in Device, j \in Cycle : e # d \/ j # k => cycle[e][j] = NoCycle
  BY <1>1, AloneNow
<1>4. EmptyUntilLoaded(d) /\ PushesBased(d, cycle[d][k]) /\ cycle[d][k] \in CycleState
  BY CycleFacts DEF PushInv
<1>5. \A p \in cycle'[d][k].pushes :
        \/ cycle'[d][k].step = "pushMark" /\ cycle'[d][k].path = p
        \/ object'[p] \in {None, manifest'[d][p].lastSyncedHash}
  <2>1. CASE SetCycle(d, k, NoCycle)
    BY <2>1, EmptyStates, SetCycleTurn, NoCycleFacts
  <2>2. CASE GoTo(d, k, "pushMark") /\ Store(q, v)
    <3>1. "pushMark" \in Step
      BY DEF Step
    <3>2. cycle'[d][k].step = "pushMark" /\ cycle'[d][k].path = q
      BY <1>2, <2>2, <3>1, GoToTurn
    <3>3. \A p \in Path \ {q} : object'[p] = object[p]
      BY <2>2, TurnTypes DEF Store
    <3>4. cycle'[d][k].pushes \subseteq cycle[d][k].pushes /\ cycle[d][k].pushes \subseteq Path
      BY <1>4 DEF Moves, CycleState
    <3> QED
      BY <1>1, <1>4, <3>2, <3>3, <3>4 DEF PushesBased
  <2> QED
    BY <1>2, <2>1, <2>2 DEF PutObject, FailCycle
<1>6. PushesBased(d, cycle[d][k])'
  BY <1>1, <1>4, <1>5, PushesMoveBased
<1>7. EmptyUntilLoaded(d)'
  BY <1>1, <1>4 DEF EmptyUntilLoaded
<1> QED
  BY <1>1, <1>3, <1>6, <1>7, AloneFrame

\* A pull, a push or a conflict changes the entry of its note.
LEMMA MarksBased ==
  ASSUME IndInv, PushInv, OneCycleAtATime, NEW d \in Device, NEW k \in Cycle,
         MarkPull(d, k) \/ MarkPush(d, k) \/ MarkConflict(d, k),
         Others(d, k), Moves(d, cycle[d][k], cycle'[d][k])
  PROVE  PushInv'
<1>1. /\ cycle[d][k].step \in {"pullMark", "pushMark", "conflictMark"}
      /\ UNCHANGED object /\ UNCHANGED <<loaded, editor>>
  BY DEF MarkPull, MarkPush, MarkConflict, At
<1>2. PICK q \in Path, v \in Content : q = cycle[d][k].path /\ v = cycle[d][k].got
  BY <1>1, Carried DEF Carrying
<1>3. /\ manifest[d][q] \in Entry /\ v \in Version /\ PushesBased(d, cycle[d][k])
      /\ cycle'[d][k].pushes \subseteq cycle[d][k].pushes /\ cycle[d][k].pushes \subseteq Path
  BY TurnTypes, CycleFacts DEF Version, PushInv, Moves, CycleState
<1>4. cycle[d][k].step = "pushMark" => cycle[d][k].path \notin cycle'[d][k].pushes
  BY PushMarkLeaves DEF MarkPull, MarkConflict, At
<1>5. PICK x \in Entry :
        /\ UNCHANGED manifest \/ SetEntry(d, q, x)
        /\ x.status # "modified"
        /\ q \in cycle'[d][k].pushes => x.lastSyncedHash = manifest[d][q].lastSyncedHash
  <2>1. CASE MarkPull(d, k)
    <3>1. q \notin cycle[d][k].pushes
      BY <1>2, <1>3, <2>1 DEF PushesBased, MarkPull, At
    <3>2. SetEntry(d, q, Synced(v)) /\ Synced(v) \in Entry /\ Synced(v).status = "synced"
      BY <1>2, <1>3, <2>1, EntryTypes DEF MarkPull, Synced
    <3> QED
      BY <1>3, <3>1, <3>2
  <2>2. CASE MarkPush(d, k)
    <3> DEFINE y == [manifest[d][q] EXCEPT !.lastSyncedHash = v, !.status = "synced"]
    <3>1. y \in Entry /\ y.status = "synced"
      BY <1>3 DEF Entry, Status
    <3>2. UNCHANGED manifest \/ SetEntry(d, q, y)
      BY <1>2, <2>2 DEF MarkPush
    <3>3. q \notin cycle'[d][k].pushes
      BY <1>2, <1>4, <2>2 DEF MarkPush, At
    <3> HIDE DEF y
    <3> QED
      BY <3>1, <3>2, <3>3
  <2>3. CASE MarkConflict(d, k)
    <3> DEFINE y == [manifest[d][q] EXCEPT !.status = "conflictPending"]
    <3>1. /\ y \in Entry /\ y.status = "conflictPending"
          /\ y.lastSyncedHash = manifest[d][q].lastSyncedHash
      BY <1>3 DEF Entry, Status
    <3>2. UNCHANGED manifest \/ SetEntry(d, q, y)
      BY <1>2, <2>3 DEF MarkConflict
    <3> HIDE DEF y
    <3> QED
      BY <3>1, <3>2
  <2> QED
    BY <2>1, <2>2, <2>3
<1>6. /\ manifest'[d][q] \in {manifest[d][q], x}
      /\ \A p \in Path \ {q} : manifest'[d][p] = manifest[d][p]
      /\ \A e \in Device \ {d} : manifest'[e] = manifest[e]
  BY <1>5, TurnTypes DEF SetEntry
<1>7. \A p \in Path : manifest'[d][p].status = "modified" => manifest[d][p].status = "modified"
  BY <1>5, <1>6
<1>8. \A p \in cycle'[d][k].pushes :
        manifest'[d][p].lastSyncedHash = manifest[d][p].lastSyncedHash
  BY <1>3, <1>5, <1>6
<1> QED
  BY <1>1, <1>4, <1>6, <1>7, <1>8, KeepsBased

LEMMA ComputeDiffBased ==
  ASSUME IndInv, PushInv, OneCycleAtATime, NEW d \in Device, NEW k \in Cycle, ComputeDiff(d, k)
  PROVE  PushInv'
<1>1. /\ cycle[d][k].step = "listed" /\ Others(d, k) /\ cycle'[d][k].step = "work"
      /\ \A p \in cycle'[d][k].pulls :
           p \in Path /\ ToPull(manifest[d][p], cycle[d][k].list[p])
      /\ \A p \in cycle'[d][k].pushes :
           p \in Path /\ ToPush(manifest[d][p], cycle[d][k].list[p])
  BY DiffMoves
<1>2. /\ EmptyUntilLoaded(d) /\ PushesBased(d, cycle[d][k])
      /\ UNCHANGED <<object, manifest, loaded, editor>>
  BY DEF PushInv, ComputeDiff, clientVars
<1>3. /\ editor[d] = NoOp
      /\ \A e \in Device, j \in Cycle : e # d \/ j # k => cycle[e][j] = NoCycle
  BY <1>1, AloneNow
<1>4. \A p \in cycle'[d][k].pushes :
        loaded[d] /\ object[p] \in {None, manifest[d][p].lastSyncedHash}
  BY <1>1, <1>2 DEF EmptyUntilLoaded, PushesBased, ToPush
<1>5. cycle'[d][k].pulls \intersect cycle'[d][k].pushes = {}
  BY <1>1 DEF ToPull, ToPush
<1>6. PushesBased(d, cycle[d][k])'
  BY <1>1, <1>2, <1>4, <1>5 DEF PushesBased
<1>7. EmptyUntilLoaded(d)'
  BY <1>2 DEF EmptyUntilLoaded
<1> QED
  BY <1>1, <1>2, <1>3, <1>6, <1>7, AloneFrame

LEMMA CycleStepBased ==
  ASSUME IndInv, PushInv, OneCycleAtATime, NEW d \in Device, NEW k \in Cycle,
         CycleStep(d, k) \/ CycleFails(d, k) \/ ConflictFails(d, k)
  PROVE  PushInv'
<1>1. CASE ComputeDiff(d, k)
  BY <1>1, ComputeDiffBased
<1>2. CASE ~ComputeDiff(d, k)
  <2>1. /\ cycle[d][k].step # "idle" \/ ListObjects(d, k)
        /\ Others(d, k) /\ Moves(d, cycle[d][k], cycle'[d][k])
    BY <1>2, CycleMoves
  <2>2. /\ UNCHANGED <<loaded, editor>> /\ (UNCHANGED object \/ PutObject(d, k))
        /\ \/ UNCHANGED manifest
           \/ MarkPull(d, k) \/ MarkPush(d, k) \/ MarkConflict(d, k)
    BY CycleEffects DEF WritePull, clientVars
  <2>3. CASE PutObject(d, k)
    BY <2>1, <2>3, PutObjectBased
  <2>4. CASE MarkPull(d, k) \/ MarkPush(d, k) \/ MarkConflict(d, k)
    BY <2>1, <2>4, MarksBased
  <2>5. CASE UNCHANGED object /\ UNCHANGED manifest
    BY <2>1, <2>2, <2>5, PushMarkLeaves, KeepsBased
  <2> QED
    BY <2>2, <2>3, <2>4, <2>5 DEF MarkPull, MarkPush, MarkConflict
<1> QED
  BY <1>1, <1>2

\* A step of a device outside its cycles.
LEMMA LocalStepBased ==
  ASSUME IndInv, PushInv, OneCycleAtATime, NEW d \in Device,
         UserStep(d) \/ LocalStep(d) \/ Restart(d)
  PROVE  PushInv'
<1>1. UNCHANGED object
  BY DEF UserStep, SaveNote, CreateNote, DeleteNote, LocalStep, UpdateEntry, PersistEdit,
     PersistSynced, PersistFails, SaveLands, SaveFails, LoadManifest, Resume, Restart, clientVars
<1>2. CASE UserStep(d)
  <2>1. /\ MayEdit(d) /\ UNCHANGED <<manifest, loaded, cycle>>
        /\ \E o : editor' = [editor EXCEPT ![d] = o]
    BY <1>2 DEF UserStep, SaveNote, CreateNote, DeleteNote, clientVars
  <2>2. loaded[d] /\ \A k \in Cycle : cycle[d][k] = NoCycle
    BY <2>1 DEF MayEdit, OneCycleAtATime, Allowed, UserIdle, Quiet
  <2>3. \A e \in Device \ {d} : editor'[e] = editor[e]
    BY <2>1, TurnTypes
  <2>4. Alone'
    BY <2>1, <2>2, <2>3 DEF PushInv, Alone
  <2>5. \A e \in Device : EmptyUntilLoaded(e)'
    BY <2>1, <2>2, <2>3 DEF PushInv, EmptyUntilLoaded
  <2> QED
    BY <1>1, <2>1, <2>4, <2>5 DEF PushInv, PushesBased
<1>3. CASE UpdateEntry(d)
  <2>1. editor[d] # NoOp /\ editor[d].op \in {"save", "create", "delete"}
        /\ UNCHANGED <<loaded, cycle>>
    BY <1>3, NoOpFacts DEF UpdateEntry
  <2>2. loaded[d] /\ \A k \in Cycle : cycle[d][k] = NoCycle
    BY <2>1 DEF PushInv, EmptyUntilLoaded, Alone
  <2>3. \A e \in Device \ {d} : editor'[e] = editor[e] /\ manifest'[e] = manifest[e]
    BY <1>3, TurnTypes DEF UpdateEntry, SetEntry
  <2>4. Alone'
    BY <2>1, <2>2, <2>3 DEF PushInv, Alone
  <2>5. \A e \in Device : EmptyUntilLoaded(e)'
    BY <2>1, <2>2, <2>3 DEF PushInv, EmptyUntilLoaded
  <2>6. ASSUME NEW e \in Device, NEW k \in Cycle
        PROVE  PushesBased(e, cycle[e][k])'
    <3>1. CASE e = d
      BY <2>1, <2>2, <3>1, NoCycleFacts DEF PushesBased
    <3>2. CASE e # d
      BY <1>1, <2>1, <2>3, <3>2 DEF PushInv, PushesBased
    <3> QED
      BY <3>1, <3>2
  <2> QED
    BY <2>4, <2>5, <2>6 DEF PushInv
<1>4. CASE \/ PersistEdit(d) \/ PersistSynced(d) \/ PersistFails(d) \/ SaveLands(d)
         \/ Resume(d)
  <2>1. /\ UNCHANGED <<manifest, loaded, cycle>>
        /\ \A e \in Device : editor'[e] \in {editor[e], NoOp}
    BY <1>4, TurnTypes
    DEF PersistEdit, PersistSynced, PersistFails, SaveLands, Resume, clientVars
  <2>2. Alone'
    BY <2>1 DEF PushInv, Alone
  <2>3. \A e \in Device : EmptyUntilLoaded(e)'
    BY <2>1 DEF PushInv, EmptyUntilLoaded
  <2> QED
    BY <1>1, <2>1, <2>2, <2>3 DEF PushInv, PushesBased
<1>5. CASE LoadManifest(d)
  <2>1. /\ loaded[d] => AtRest(d)
        /\ UNCHANGED <<editor, cycle>> /\ loaded'[d]
        /\ \A e \in Device \ {d} : manifest'[e] = manifest[e] /\ loaded'[e] = loaded[e]
    BY <1>5, TurnTypes DEF LoadManifest, OneCycleAtATime, Allowed
  <2>2. Alone'
    BY <2>1 DEF PushInv, Alone
  <2>3. \A e \in Device : EmptyUntilLoaded(e)'
    BY <2>1 DEF PushInv, EmptyUntilLoaded
  <2>4. ASSUME NEW e \in Device, NEW k \in Cycle
        PROVE  PushesBased(e, cycle[e][k])'
    <3>1. CASE e = d
      <4>1. cycle[d][k].pushes = {}
        BY <2>1, NoCycleFacts DEF PushInv, PushesBased, AtRest, Quiet
      <4> QED
        BY <1>1, <2>1, <3>1, <4>1 DEF PushInv, PushesBased
    <3>2. CASE e # d
      BY <1>1, <2>1, <3>2 DEF PushInv, PushesBased
    <3> QED
      BY <3>1, <3>2
  <2> QED
    BY <2>2, <2>3, <2>4 DEF PushInv
<1>6. CASE Restart(d)
  <2>1. /\ ~loaded'[d] /\ editor'[d] = NoOp
        /\ \A k \in Cycle : cycle'[d][k] = NoCycle
        /\ \A p \in Path : manifest'[d][p].status = "absent"
        /\ \A e \in Device \ {d} :
             /\ manifest'[e] = manifest[e] /\ loaded'[e] = loaded[e]
             /\ editor'[e] = editor[e] /\ cycle'[e] = cycle[e]
    BY <1>6, TurnTypes DEF Restart, NoEntry
  <2>2. Alone'
    BY <2>1 DEF PushInv, Alone
  <2>3. \A e \in Device : EmptyUntilLoaded(e)'
    BY <2>1 DEF PushInv, EmptyUntilLoaded
  <2>4. ASSUME NEW e \in Device, NEW k \in Cycle
        PROVE  PushesBased(e, cycle[e][k])'
    <3>1. CASE e = d
      BY <2>1, <3>1, NoCycleFacts DEF PushesBased
    <3>2. CASE e # d
      BY <1>1, <2>1, <3>2 DEF PushInv, PushesBased
    <3> QED
      BY <3>1, <3>2
  <2> QED
    BY <2>2, <2>3, <2>4 DEF PushInv
<1>7. CASE SaveFails(d)
  <2>1. /\ UNCHANGED <<manifest, loaded, editor>>
        /\ \A e \in Device, k \in Cycle : cycle'[e][k] \in {cycle[e][k], NoCycle}
    BY <1>7, SaveFailsEnds
  <2>2. Alone'
    BY <2>1 DEF PushInv, Alone
  <2>3. \A e \in Device : EmptyUntilLoaded(e)'
    BY <2>1 DEF PushInv, EmptyUntilLoaded
  <2>4. ASSUME NEW e \in Device, NEW k \in Cycle
        PROVE  PushesBased(e, cycle[e][k])'
    BY <1>1, <2>1, NoCycleFacts DEF PushInv, PushesBased
  <2> QED
    BY <2>2, <2>3, <2>4 DEF PushInv
<1> QED
  BY <1>2, <1>3, <1>4, <1>5, <1>6, <1>7 DEF LocalStep

LEMMA NextBased ==
  ASSUME OneCycleAtATime, IndInv, PushInv, [Next]_vars
  PROVE  PushInv'
<1>1. CASE UNCHANGED vars
  BY <1>1 DEF vars, clientVars, PushInv, Alone, EmptyUntilLoaded, PushesBased
<1>2. ASSUME NEW p \in Path, RemoteDelete(p)
      PROVE  PushInv'
  <2>1. /\ object'[p] = None /\ \A q \in Path \ {p} : object'[q] = object[q]
        /\ UNCHANGED <<manifest, loaded, editor, cycle>>
    BY <1>2, TurnTypes DEF RemoteDelete, clientVars
  <2>2. Alone' /\ \A e \in Device : EmptyUntilLoaded(e)'
    BY <2>1 DEF PushInv, Alone, EmptyUntilLoaded
  <2>3. ASSUME NEW e \in Device, NEW k \in Cycle
        PROVE  PushesBased(e, cycle[e][k])'
    <3>1. PushesBased(e, cycle[e][k]) /\ cycle[e][k].pushes \subseteq Path
      BY CycleFacts DEF PushInv, CycleState
    <3> QED
      BY <2>1, <3>1 DEF PushesBased
  <2> QED
    BY <2>2, <2>3 DEF PushInv
<1> QED
  BY <1>1, <1>2, LocalStepBased, CycleStepBased DEF Next

LEMMA InitBased == Init => PushInv
<1> SUFFICES ASSUME Init PROVE PushInv
  OBVIOUS
<1>1. \A d \in Device, k \in Cycle : cycle[d][k] = NoCycle
  BY DEF Init
<1>2. \A d \in Device : EmptyUntilLoaded(d)
  BY DEF Init, EmptyUntilLoaded, NoEntry
<1> QED
  BY <1>1, <1>2, NothingToPush DEF PushInv, Alone

\* _pushNote: a push never replaces a version its author has not started from, so
\* that what another device has stored meanwhile becomes a conflict.
THEOREM PushesReplaceTheirBase ==
  ASSUME OneCycleAtATime
  PROVE  Spec => PushReplacesItsBase
<1> DEFINE Based == \A d \in Device, k \in Cycle : \A p \in Path :
             At(d, k, "pushSend") /\ cycle'[d][k].step = "pushMark" /\ cycle[d][k].path = p =>
               object[p] \in {None, object'[p], manifest[d][p].lastSyncedHash}
<1>1. IndInv /\ PushInv /\ [Next]_vars => PushInv'
  BY NextBased
<1>2. PushInv => [Based]_vars
  BY DEF PushInv, PushesBased, At
<1>3. Spec => [][Based]_vars
  BY <1>1, <1>2, InitBased, AlwaysIndInv, PTL DEF Spec
<1> QED
  BY <1>3 DEF PushReplacesItsBase

-----------------------------------------------------------------------------
(***************************************************************************)
(* Only the user changes the file of a note in conflict, even if the user  *)
(* edits while a cycle is in progress and whatever fails or is killed, as  *)
(* long as a device has one cycle in progress and its manifest is loaded.  *)
(***************************************************************************)
OneCyclePerDevice ==
  /\ "earlySync" \notin Disturbances
  /\ "overlap" \in Disturbances => \A j, k \in Cycle : j = k

\* No note in conflict is among those a cycle pulls.
PullsNoConflict(d, c) ==
  /\ \A p \in c.pulls : manifest[d][p].status # "conflictPending"
  /\ c.step \in {"pullWrite", "pullMark", "pullSave"} => c.path \in c.pulls
  /\ c.step \in {"conflictWrite", "conflictMark"} => c.pulls = {}

ConflictsLeft(d) ==
  /\ \A k \in Cycle : cycle[d][k] # NoCycle =>
       loaded[d] /\ \A j \in Cycle \ {k} : cycle[d][j] = NoCycle
  /\ \A k \in Cycle : PullsNoConflict(d, cycle[d][k])

ConflictInv == \A d \in Device : ConflictsLeft(d)

\* The file of a note changes only by its user's operation or by a pull.
LEMMA FileChanges ==
  ASSUME IndInv, [Next]_vars, NEW d \in Device, NEW p \in Path, disk'[d][p] # disk[d][p]
  PROVE  \/ editor'[d].path = p /\ editor[d] = NoOp
         \/ \E k \in Cycle : WritePull(d, k) /\ cycle[d][k].path = p
<1>1. ASSUME NEW e \in Device, UserStep(e)
      PROVE  editor'[d].path = p /\ editor[d] = NoOp
  <2>1. PICK q \in Path, c \in Version, o \in {"save", "create", "delete"} :
          /\ MayEdit(e) /\ WriteNote(e, q, c)
          /\ editor' = [editor EXCEPT ![e] = [op |-> o, path |-> q, content |-> c]]
    BY <1>1, ConstantsAssumption DEF UserStep, SaveNote, CreateNote, DeleteNote, Version
  <2>2. e = d /\ q = p
    BY <2>1, TurnTypes DEF WriteNote
  <2> QED
    BY <2>1, <2>2, TurnTypes DEF MayEdit, UserIdle
<1>2. ASSUME NEW e \in Device, NEW k \in Cycle, WritePull(e, k)
      PROVE  WritePull(d, k) /\ cycle[d][k].path = p
  <2>1. e = d /\ cycle[e][k].path = p
    BY <1>2, TurnTypes DEF WritePull, WriteNote
  <2> QED
    BY <1>2, <2>1
<1>3. ASSUME NEW e \in Device, LocalStep(e) \/ Restart(e)
      PROVE  FALSE
  BY <1>3 DEF LocalStep, UpdateEntry, PersistEdit, PersistSynced, PersistFails, SaveLands,
     SaveFails, LoadManifest, Resume, Restart
<1>4. ASSUME NEW e \in Device, NEW k \in Cycle, ~WritePull(e, k),
             CycleStep(e, k) \/ CycleFails(e, k) \/ ConflictFails(e, k)
      PROVE  FALSE
  BY <1>4 DEF CycleStep, ListObjects, ComputeDiff, GetPull, MarkPull, SavePull, ReadPush,
     PutObject, MarkPush, GetConflict, WriteConflict, MarkConflict, SaveConflicts, FinishCycle,
     CycleFails, ConflictFails
<1>5. ASSUME NEW q \in Path, RemoteDelete(q)
      PROVE  FALSE
  BY <1>5 DEF RemoteDelete
<1>6. CASE UNCHANGED vars
  BY <1>6 DEF vars
<1> QED
  BY <1>1, <1>2, <1>3, <1>4, <1>5, <1>6 DEF Next

\* Nothing of the device's manifest and cycles changes.
LEMMA ConflictsStayLeft ==
  ASSUME NEW e \in Device, ConflictsLeft(e), manifest'[e] = manifest[e],
         loaded'[e] = loaded[e], cycle'[e] = cycle[e]
  PROVE  ConflictsLeft(e)'
BY DEF ConflictsLeft, PullsNoConflict

\* A step of a cycle marks no note in conflict that it still has to pull.
LEMMA MarksLeft ==
  ASSUME IndInv, NEW d \in Device, NEW k \in Cycle, PullsNoConflict(d, cycle[d][k]),
         CycleStep(d, k) \/ CycleFails(d, k) \/ ConflictFails(d, k)
  PROVE  /\ \A e \in Device \ {d} : manifest'[e] = manifest[e]
         /\ \A p \in cycle[d][k].pulls : manifest'[d][p].status # "conflictPending"
<1>1. /\ \A p \in cycle[d][k].pulls : manifest[d][p].status # "conflictPending"
      /\ cycle[d][k].pulls \subseteq Path
  BY CycleFacts DEF PullsNoConflict, CycleState
<1>2. CASE UNCHANGED manifest
  BY <1>1, <1>2
<1>3. CASE MarkConflict(d, k)
  <2>1. cycle[d][k].pulls = {}
    BY <1>3 DEF MarkConflict, At, PullsNoConflict
  <2>2. \A e \in Device \ {d} : manifest'[e] = manifest[e]
    BY <1>3, TurnTypes DEF MarkConflict, SetEntry
  <2> QED
    BY <2>1, <2>2
<1>4. CASE MarkPull(d, k) \/ MarkPush(d, k)
  <2>1. cycle[d][k].step \in Carrying
    BY <1>4 DEF MarkPull, MarkPush, At, Carrying
  <2>2. PICK q \in Path, v \in Content : q = cycle[d][k].path /\ v = cycle[d][k].got
    BY <2>1, Carried
  <2>3. PICK x \in Entry : x.status = "synced" /\ (UNCHANGED manifest \/ SetEntry(d, q, x))
    <3>1. manifest[d][q] \in Entry /\ v \in Version
      BY TurnTypes DEF Version
    <3>2. CASE MarkPull(d, k)
      <4>1. SetEntry(d, q, Synced(v)) /\ Synced(v) \in Entry /\ Synced(v).status = "synced"
        BY <2>2, <3>1, <3>2, EntryTypes DEF MarkPull, Synced
      <4> QED
        BY <4>1
    <3>3. CASE MarkPush(d, k)
      <4> DEFINE y == [manifest[d][q] EXCEPT !.lastSyncedHash = v, !.status = "synced"]
      <4>1. y \in Entry /\ y.status = "synced"
        BY <3>1 DEF Entry, Status
      <4>2. UNCHANGED manifest \/ SetEntry(d, q, y)
        BY <2>2, <3>3 DEF MarkPush
      <4> HIDE DEF y
      <4> QED
        BY <4>1, <4>2
    <3> QED
      BY <1>4, <3>2, <3>3
  <2>4. /\ manifest'[d][q] \in {manifest[d][q], x}
        /\ \A p \in Path \ {q} : manifest'[d][p] = manifest[d][p]
        /\ \A e \in Device \ {d} : manifest'[e] = manifest[e]
    BY <2>3, TurnTypes DEF SetEntry
  <2> QED
    BY <1>1, <2>3, <2>4
<1> QED
  BY <1>2, <1>3, <1>4, CycleEffects DEF WritePull, clientVars

LEMMA CycleStepLeft ==
  ASSUME IndInv, ConflictInv, OneCyclePerDevice, NEW d \in Device, NEW k \in Cycle,
         CycleStep(d, k) \/ CycleFails(d, k) \/ ConflictFails(d, k)
  PROVE  ConflictInv'
<1>1. /\ UNCHANGED loaded /\ ConflictsLeft(d) /\ PullsNoConflict(d, cycle[d][k])
      /\ cycle[d][k] \in CycleState
  BY CycleEffects, CycleFacts DEF ConflictInv, ConflictsLeft
<1>2. /\ \A e \in Device \ {d} : manifest'[e] = manifest[e]
      /\ \A p \in cycle[d][k].pulls : manifest'[d][p].status # "conflictPending"
  BY <1>1, MarksLeft
<1>3. Others(d, k) /\ PullsNoConflict(d, cycle[d][k])'
  <2>1. CASE ComputeDiff(d, k)
    <3>1. /\ Others(d, k) /\ cycle'[d][k].step = "work"
          /\ \A p \in cycle'[d][k].pulls :
               p \in Path /\ ToPull(manifest[d][p], cycle[d][k].list[p])
      BY <2>1, DiffMoves
    <3>2. UNCHANGED manifest
      BY <2>1 DEF ComputeDiff, clientVars
    <3> QED
      BY <3>1, <3>2 DEF PullsNoConflict, ToPull
  <2>2. CASE ~ComputeDiff(d, k)
    <3>1. Others(d, k) /\ Moves(d, cycle[d][k], cycle'[d][k])
      BY <2>2, CycleMoves
    <3> QED
      BY <1>1, <1>2, <3>1 DEF PullsNoConflict, Moves
  <2> QED
    BY <2>1, <2>2
<1>4. loaded[d] /\ \A j \in Cycle \ {k} : cycle[d][j] = NoCycle
  <2>1. CASE ListObjects(d, k)
    BY <2>1 DEF ListObjects, OneCyclePerDevice, Allowed, UserIdle, Quiet
  <2>2. CASE cycle[d][k].step # "idle"
    BY <1>1, <2>2, NoCycleFacts DEF ConflictsLeft
  <2>3. CASE ComputeDiff(d, k)
    BY <2>2, <2>3 DEF ComputeDiff, At
  <2> QED
    BY <2>1, <2>2, <2>3, CycleMoves
<1>5. ConflictsLeft(d)'
  <2>1. \A j \in Cycle \ {k} : cycle'[d][j] = NoCycle
    BY <1>3, <1>4 DEF Others
  <2>2. \A j \in Cycle \ {k} : PullsNoConflict(d, cycle[d][j])'
    BY <2>1, NoCycleFacts DEF PullsNoConflict
  <2> QED
    BY <1>1, <1>3, <1>4, <2>1, <2>2 DEF ConflictsLeft
<1>6. ASSUME NEW e \in Device \ {d}
      PROVE  ConflictsLeft(e)'
  <2>1. ConflictsLeft(e) /\ manifest'[e] = manifest[e] /\ loaded'[e] = loaded[e]
        /\ \A j \in Cycle : cycle'[e][j] = cycle[e][j]
    BY <1>1, <1>2, <1>3 DEF ConflictInv, Others
  <2> QED
    BY <2>1 DEF ConflictsLeft, PullsNoConflict
<1> QED
  BY <1>5, <1>6 DEF ConflictInv

LEMMA LocalStepLeft ==
  ASSUME IndInv, ConflictInv, OneCyclePerDevice, NEW d \in Device,
         UserStep(d) \/ LocalStep(d) \/ Restart(d)
  PROVE  ConflictInv'
<1>1. CASE \/ UserStep(d) \/ PersistEdit(d) \/ PersistSynced(d) \/ PersistFails(d)
         \/ SaveLands(d) \/ Resume(d)
  <2>1. UNCHANGED <<manifest, loaded, cycle>>
    BY <1>1 DEF UserStep, SaveNote, CreateNote, DeleteNote, PersistEdit, PersistSynced,
       PersistFails, SaveLands, Resume, clientVars
  <2> QED
    BY <2>1, ConflictsStayLeft DEF ConflictInv
<1>2. CASE UpdateEntry(d)
  <2>1. UNCHANGED <<loaded, cycle>> /\ editor[d].op \in {"save", "create", "delete"}
    BY <1>2 DEF UpdateEntry
  <2>2. PICK q \in Path : q = editor[d].path
    BY <2>1 DEF IndInv
  <2>3. PICK x : x = EntryAfter(editor[d], manifest[d][q])
    OBVIOUS
  <2>4. x.status # "conflictPending"
    BY <2>1, <2>3 DEF EntryAfter, Modified, NoEntry
  <2>5. UNCHANGED manifest \/ SetEntry(d, q, x)
    BY <1>2, <2>2, <2>3 DEF UpdateEntry
  <2>6. /\ manifest'[d][q] \in {manifest[d][q], x}
        /\ \A p \in Path \ {q} : manifest'[d][p] = manifest[d][p]
        /\ \A e \in Device \ {d} : manifest'[e] = manifest[e]
    BY <2>5, TurnTypes DEF SetEntry
  <2>7. ConflictsLeft(d)'
    <3>1. \A k \in Cycle : cycle[d][k].pulls \subseteq Path
      BY CycleFacts DEF CycleState
    <3> QED
      BY <2>1, <2>4, <2>6, <3>1 DEF ConflictInv, ConflictsLeft, PullsNoConflict
  <2> QED
    BY <2>1, <2>6, <2>7, ConflictsStayLeft DEF ConflictInv
<1>3. CASE LoadManifest(d)
  <2>1. /\ loaded[d] => AtRest(d)
        /\ UNCHANGED cycle /\ loaded'[d]
        /\ \A e \in Device \ {d} : manifest'[e] = manifest[e] /\ loaded'[e] = loaded[e]
    BY <1>3, TurnTypes DEF LoadManifest, OneCyclePerDevice, Allowed
  <2>2. \A k \in Cycle : cycle[d][k] = NoCycle
    BY <2>1 DEF ConflictInv, ConflictsLeft, AtRest, Quiet
  <2>3. ConflictsLeft(d)'
    BY <2>1, <2>2, NoCycleFacts DEF ConflictsLeft, PullsNoConflict
  <2> QED
    BY <2>1, <2>3, ConflictsStayLeft DEF ConflictInv
<1>4. CASE Restart(d)
  <2>1. /\ \A k \in Cycle : cycle'[d][k] = NoCycle
        /\ \A e \in Device \ {d} :
             manifest'[e] = manifest[e] /\ loaded'[e] = loaded[e] /\ cycle'[e] = cycle[e]
    BY <1>4, TurnTypes DEF Restart
  <2>2. ConflictsLeft(d)'
    BY <2>1, NoCycleFacts DEF ConflictsLeft, PullsNoConflict
  <2> QED
    BY <2>1, <2>2, ConflictsStayLeft DEF ConflictInv
<1>5. CASE SaveFails(d)
  <2>1. /\ UNCHANGED <<manifest, loaded>>
        /\ \A e \in Device, k \in Cycle : cycle'[e][k] \in {cycle[e][k], NoCycle}
    BY <1>5, SaveFailsEnds
  <2> QED
    BY <2>1, NoCycleFacts DEF ConflictInv, ConflictsLeft, PullsNoConflict
<1> QED
  BY <1>1, <1>2, <1>3, <1>4, <1>5 DEF LocalStep

LEMMA NextLeft ==
  ASSUME OneCyclePerDevice, IndInv, ConflictInv, [Next]_vars
  PROVE  ConflictInv'
<1>1. CASE UNCHANGED vars
  BY <1>1, ConflictsStayLeft DEF vars, clientVars, ConflictInv
<1>2. ASSUME NEW p \in Path, RemoteDelete(p)
      PROVE  ConflictInv'
  BY <1>2, ConflictsStayLeft DEF RemoteDelete, clientVars, ConflictInv
<1> QED
  BY <1>1, <1>2, LocalStepLeft, CycleStepLeft DEF Next

LEMMA InitLeft == Init => ConflictInv
<1> SUFFICES ASSUME Init, NEW d \in Device PROVE ConflictsLeft(d)
  BY DEF ConflictInv
<1>1. \A k \in Cycle : cycle[d][k] = NoCycle
  BY DEF Init
<1> QED
  BY <1>1, NoCycleFacts DEF ConflictsLeft, PullsNoConflict

\* _handleConflicts: the local version of a note in conflict is preserved until its
\* user changes it, by no cycle ever.
THEOREM ConflictsKeepLocal ==
  ASSUME OneCyclePerDevice
  PROVE  Spec => ConflictKeepsLocal
<1> DEFINE Preserved == \A d \in Device, p \in Path :
             manifest[d][p].status = "conflictPending" /\ disk'[d][p] # disk[d][p] =>
               editor'[d].path = p /\ editor[d] = NoOp
<1>1. IndInv /\ ConflictInv /\ [Next]_vars => ConflictInv'
  BY NextLeft
<1>2. IndInv /\ ConflictInv /\ [Next]_vars => [Preserved]_vars
  <2> SUFFICES ASSUME IndInv, ConflictInv, [Next]_vars, NEW d \in Device, NEW p \in Path,
                      manifest[d][p].status = "conflictPending", disk'[d][p] # disk[d][p]
               PROVE  editor'[d].path = p /\ editor[d] = NoOp
    OBVIOUS
  <2>1. ASSUME NEW k \in Cycle, WritePull(d, k), cycle[d][k].path = p
        PROVE  FALSE
    <3>1. cycle[d][k].step = "pullWrite"
      BY <2>1 DEF WritePull, At
    <3> QED
      BY <2>1, <3>1 DEF ConflictInv, ConflictsLeft, PullsNoConflict
  <2> QED
    BY <2>1, FileChanges
<1>3. Spec => [][Preserved]_vars
  BY <1>1, <1>2, InitLeft, AlwaysIndInv, PTL DEF Spec
<1> QED
  BY <1>3 DEF ConflictKeepsLocal
-----------------------------------------------------------------------------
(***************************************************************************)
(* One cycle is enough: a cycle that comes to its end leaves nothing to do *)
(* on its device.  What it needs is that cycles and users take turns and   *)
(* that no client is killed, out of disk space or slow to save; requests   *)
(* and answers may be lost, notes deleted on the server, and the note list *)
(* opened anew between two operations.                                     *)
(***************************************************************************)
TurnsOnly == Disturbances \subseteq {"loss", "delete", "remoteDelete", "reload"}

\* What is left of the diff.
Todo(c) == c.pulls \union c.pushes \union c.conflicts

\* The server had the note, and it was deleted there.
Gone(p) == object[p] = None /\ everStored[p] # {}

\* Nothing is left to do for note p, or its conflict could not be fetched and the next
\* diff will find it again.
Handled(d, p) == Settled(d, p) \/ Gone(p) \/ ToConflict(manifest[d][p], object[p])

\* The state runSyncCycle returns from without an exception.
CycleSettles ==
  \A d \in Device, k \in Cycle :
    At(d, k, "work") /\ Todo(cycle[d][k]) = {} => \A p \in Path : Handled(d, p)

-----------------------------------------------------------------------------
\* The inductive invariant

\* What a cycle has dealt with is handled, and what it has read from the server is
\* what the server still has.
CycleHandles(d, c) ==
  /\ c.step = "listed" => \A p \in Path : object[p] = c.list[p] \/ Gone(p)
  /\ c.step \notin {"idle", "listed"} => \A p \in Path \ Todo(c) : Handled(d, p)
  /\ \A p \in c.conflicts :
       /\ manifest[d][p].status = "modified"
       /\ ToConflict(manifest[d][p], object[p]) \/ Gone(p)
  /\ c.step \in {"pullMark", "pullSave"} => disk[d][c.path] = c.got
  /\ c.step \in {"pullWrite", "pullMark", "pullSave", "pushMark"} =>
       object[c.path] = c.got \/ Gone(c.path)

HandledInv == \A d \in Device, k \in Cycle : CycleHandles(d, cycle[d][k])

\* Every entry and every save is of a text, so that a note to push has its file.
HasText(e) == e.status # "absent" => e.contentHash \in Content

TextInv ==
  /\ \A d \in Device : editor[d].op \in {"save", "create"} => editor[d].content \in Content
  /\ \A d \in Device, p \in Path : HasText(manifest[d][p]) /\ HasText(savedManifest[d][p])

-----------------------------------------------------------------------------
\* Entries have texts

LEMMA EntryTexts ==
  ASSUME IndInv, TextInv, NEW d \in Device, NEW p \in Path, NEW e, HasText(e),
         UNCHANGED manifest \/ SetEntry(d, p, e), UNCHANGED savedManifest,
         \A f \in Device : editor'[f] = editor[f] \/ editor'[f].op \notin {"save", "create"}
  PROVE  TextInv'
<1>1. \A f \in Device, q \in Path : manifest'[f][q] = manifest[f][q] \/ manifest'[f][q] = e
  <2>1. CASE SetEntry(d, p, e)
    BY <2>1, TurnTypes DEF SetEntry
  <2> QED
    BY <2>1
<1>2. \A f \in Device, q \in Path : HasText(manifest'[f][q]) /\ HasText(savedManifest'[f][q])
  BY <1>1 DEF TextInv, HasText
<1> QED
  BY <1>2 DEF TextInv, HasText

LEMMA PersistTexts ==
  ASSUME IndInv, TextInv, NEW d \in Device,
         UNCHANGED manifest \/ manifest' = [manifest EXCEPT ![d] = savedManifest[d]],
         UNCHANGED savedManifest \/ SavesNow(d),
         \A f \in Device : editor'[f] = editor[f] \/ editor'[f].op \notin {"save", "create"}
  PROVE  TextInv'
<1>1. \A f \in Device, q \in Path :
        /\ manifest'[f][q] \in {manifest[f][q], savedManifest[f][q]}
        /\ savedManifest'[f][q] \in {manifest[f][q], savedManifest[f][q]}
  BY TurnTypes DEF SavesNow
<1>2. \A f \in Device, q \in Path : HasText(manifest'[f][q]) /\ HasText(savedManifest'[f][q])
  BY <1>1 DEF TextInv
<1> QED
  BY <1>2 DEF TextInv, HasText

LEMMA LocalTexts ==
  ASSUME IndInv, TextInv, "slowSave" \notin Disturbances, NEW d \in Device,
         UserStep(d) \/ LocalStep(d) \/ Restart(d)
  PROVE  TextInv'
<1>1. CASE UserStep(d)
  <2>1. PICK o \in {"save", "create", "delete"}, q \in Path, v \in Version :
          /\ editor' = [editor EXCEPT ![d] = [op |-> o, path |-> q, content |-> v]]
          /\ o \in {"save", "create"} => v \in Content
          /\ UNCHANGED <<manifest, savedManifest>>
    <3>1. ASSUME NEW q \in Path, NEW v \in Content, SaveNote(d, q, v)
          PROVE  /\ editor' = [editor EXCEPT ![d] = [op |-> "save", path |-> q, content |-> v]]
                 /\ UNCHANGED <<manifest, savedManifest>>
      BY <3>1 DEF SaveNote, clientVars
    <3>2. ASSUME NEW q \in Path, CreateNote(d, q)
          PROVE  /\ editor' = [editor EXCEPT ![d] = [op |-> "create", path |-> q, content |-> Blank]]
                 /\ UNCHANGED <<manifest, savedManifest>>
      BY <3>2 DEF CreateNote, clientVars
    <3>3. ASSUME NEW q \in Path, DeleteNote(d, q)
          PROVE  /\ editor' = [editor EXCEPT ![d] = [op |-> "delete", path |-> q, content |-> None]]
                 /\ UNCHANGED <<manifest, savedManifest>>
      BY <3>3 DEF DeleteNote, clientVars
    <3> QED
      BY <1>1, <3>1, <3>2, <3>3, ConstantsAssumption DEF UserStep, Version
  <2>2. \A f \in Device : editor'[f].op \in {"save", "create"} => editor'[f].content \in Content
    BY <2>1, TurnTypes DEF TextInv
  <2> QED
    BY <2>1, <2>2 DEF TextInv, HasText
<1>2. CASE UpdateEntry(d)
  <2>1. /\ UNCHANGED savedManifest /\ editor[d].op \in {"save", "create", "delete"}
        /\ editor[d].op \in {"save", "create"} => editor[d].content \in Content
    BY <1>2 DEF UpdateEntry, TextInv
  <2>2. PICK q \in Path : q = editor[d].path
    BY <2>1 DEF IndInv
  <2>3. PICK x : x = EntryAfter(editor[d], manifest[d][q])
    OBVIOUS
  <2>4. HasText(x)
    BY <2>1, <2>3 DEF EntryAfter, Modified, NoEntry, HasText
  <2>5. UNCHANGED manifest \/ SetEntry(d, q, x)
    BY <1>2, <2>2, <2>3 DEF UpdateEntry
  <2>6. \A f \in Device : editor'[f] = editor[f] \/ editor'[f].op \notin {"save", "create"}
    BY <1>2, TurnTypes DEF UpdateEntry, NoOp
  <2> QED
    BY <2>1, <2>4, <2>5, <2>6, EntryTexts
<1>3. CASE \/ PersistEdit(d) \/ PersistSynced(d) \/ PersistFails(d) \/ LoadManifest(d)
         \/ Resume(d)
  <2>1. \A f \in Device : editor'[f] = editor[f] \/ editor'[f].op \notin {"save", "create"}
    BY <1>3, TurnTypes DEF PersistEdit, PersistSynced, PersistFails, LoadManifest, Resume, NoOp
  <2>2. UNCHANGED savedManifest \/ SavesNow(d)
    BY <1>3, SavesAtOnce
    DEF PersistEdit, PersistSynced, PersistFails, LoadManifest, Resume, clientVars
  <2>3. UNCHANGED manifest \/ manifest' = [manifest EXCEPT ![d] = savedManifest[d]]
    BY <1>3 DEF PersistEdit, PersistSynced, PersistFails, LoadManifest, Resume, clientVars
  <2> QED
    BY <2>1, <2>2, <2>3, PersistTexts
<1>4. CASE Restart(d)
  <2>1. \A f \in Device : editor'[f] = editor[f] \/ editor'[f].op \notin {"save", "create"}
    BY <1>4, TurnTypes DEF Restart, NoOp
  <2>2. /\ UNCHANGED savedManifest
        /\ \A f \in Device, q \in Path : manifest'[f][q] \in {manifest[f][q], NoEntry}
    BY <1>4, TurnTypes DEF Restart
  <2>3. HasText(NoEntry)
    BY DEF HasText, NoEntry
  <2>4. \A f \in Device, q \in Path : HasText(manifest'[f][q]) /\ HasText(savedManifest'[f][q])
    BY <2>2, <2>3 DEF TextInv
  <2> QED
    BY <2>1, <2>4 DEF TextInv, HasText
<1> QED
  BY <1>1, <1>2, <1>3, <1>4, SavesAtOnce DEF LocalStep

LEMMA CycleTexts ==
  ASSUME IndInv, TextInv, NEW d \in Device, NEW k \in Cycle,
         CycleStep(d, k) \/ CycleFails(d, k) \/ ConflictFails(d, k)
  PROVE  TextInv'
<1>1. /\ UNCHANGED editor
      /\ \/ UNCHANGED manifest /\ (UNCHANGED savedManifest \/ SavesNow(d))
         \/ MarkPull(d, k) \/ MarkPush(d, k) \/ MarkConflict(d, k)
  BY CycleEffects DEF WritePull, clientVars
<1>2. CASE UNCHANGED manifest /\ (UNCHANGED savedManifest \/ SavesNow(d))
  BY <1>1, <1>2, PersistTexts
<1>3. CASE MarkPull(d, k) \/ MarkPush(d, k) \/ MarkConflict(d, k)
  <2>1. cycle[d][k].step \in Carrying /\ UNCHANGED savedManifest
    BY <1>3 DEF MarkPull, MarkPush, MarkConflict, At, Carrying
  <2>2. PICK q \in Path, v \in Content : q = cycle[d][k].path /\ v = cycle[d][k].got
    BY <2>1, Carried
  <2>3. manifest[d][q] \in Entry /\ HasText(manifest[d][q])
    BY TurnTypes DEF TextInv
  <2>4. PICK x : HasText(x) /\ (UNCHANGED manifest \/ SetEntry(d, q, x))
    <3>1. CASE MarkPull(d, k)
      BY <2>2, <3>1 DEF MarkPull, Synced, HasText
    <3>2. CASE MarkPush(d, k)
      <4> DEFINE y == [manifest[d][q] EXCEPT !.lastSyncedHash = v, !.status = "synced"]
      <4>1. y.contentHash = manifest[d][q].contentHash
        BY <2>3 DEF Entry
      <4>2. UNCHANGED manifest \/ (manifest[d][q].status # "absent" /\ SetEntry(d, q, y))
        BY <2>2, <3>2 DEF MarkPush
      <4> HIDE DEF y
      <4> QED
        BY <2>3, <4>1, <4>2 DEF HasText
    <3>3. CASE MarkConflict(d, k)
      <4> DEFINE y == [manifest[d][q] EXCEPT !.status = "conflictPending"]
      <4>1. y.contentHash = manifest[d][q].contentHash
        BY <2>3 DEF Entry
      <4>2. UNCHANGED manifest \/ (manifest[d][q].status # "absent" /\ SetEntry(d, q, y))
        BY <2>2, <3>3 DEF MarkConflict
      <4> HIDE DEF y
      <4> QED
        BY <2>3, <4>1, <4>2 DEF HasText
    <3> QED
      BY <1>3, <3>1, <3>2, <3>3
  <2> QED
    BY <1>1, <2>1, <2>4, EntryTexts
<1> QED
  BY <1>1, <1>2, <1>3

LEMMA NextTexts ==
  ASSUME "slowSave" \notin Disturbances, IndInv, TextInv, [Next]_vars
  PROVE  TextInv'
<1>1. CASE UNCHANGED vars
  BY <1>1 DEF vars, clientVars, TextInv, HasText
<1>2. ASSUME NEW p \in Path, RemoteDelete(p)
      PROVE  TextInv'
  BY <1>2 DEF RemoteDelete, clientVars, TextInv, HasText
<1> QED
  BY <1>1, <1>2, LocalTexts, CycleTexts DEF Next

LEMMA InitTexts == Init => TextInv
BY DEF Init, TextInv, HasText, NoEntry, NoOp

-----------------------------------------------------------------------------
\* A cycle handles what its diff has found

\* The environment of TurnsOnly is one of those of the invariants used here.
LEMMA TurnsSuffice ==
  ASSUME TurnsOnly
  PROVE  InTurns /\ OneCycleAtATime
BY DEF TurnsOnly, InTurns, OneCycleAtATime

\* What an entry says of its file while its cycle has the turn.
LEMMA FileFacts ==
  ASSUME IndInv, TurnInv, TextInv, NEW d \in Device, NEW k \in Cycle, cycle[d][k].step # "idle",
         NEW p \in Path, cycle[d][k].step # "pullMark" \/ cycle[d][k].path # p
  PROVE  LET e == manifest[d][p]
         IN /\ e \in Entry /\ EntryOK(d, p, e)
            /\ e.status = "absent" => disk[d][p] = None
            /\ e.status # "absent" => disk[d][p] = e.contentHash /\ disk[d][p] # None
            /\ e.status = "synced" => e.lastSyncedHash = e.contentHash
<1>1. Turn(d, k) /\ EntriesOK(d) /\ Known(d) = manifest[d]
  BY MyPlan
<1>2. ~Editing(d, p) /\ ~Pulling(d, p)
  BY <1>1, NoOpFacts, NoCycleFacts DEF Turn, Pulling, At
<1>3. FileOK(d, p) /\ (manifest[d][p].status = "synced" =>
                         manifest[d][p].lastSyncedHash = manifest[d][p].contentHash)
  BY <1>1, <1>2 DEF EntriesOK
<1>4. HasText(manifest[d][p]) /\ None \notin Content
  BY TurnTypes DEF TextInv
<1> QED
  BY <1>1, <1>3, <1>4, EntryFacts DEF FileOK, HasText

\* A step of the cycle that is alone, seen from the invariant.
LEMMA HandledAlone ==
  ASSUME IndInv, PushInv, OneCycleAtATime, NEW d \in Device, NEW k \in Cycle,
         cycle[d][k].step # "idle" \/ ListObjects(d, k),
         Others(d, k), CycleHandles(d, cycle[d][k])'
  PROVE  HandledInv'
<1>1. \A e \in Device, j \in Cycle : e # d \/ j # k => cycle'[e][j] = NoCycle
  BY AloneNow DEF Others
<1>2. ASSUME NEW e \in Device, NEW j \in Cycle
      PROVE  CycleHandles(e, cycle[e][j])'
  <2>1. CASE e = d /\ j = k
    BY <2>1
  <2>2. CASE e # d \/ j # k
    BY <1>1, <2>2, NoCycleFacts DEF CycleHandles
  <2> QED
    BY <2>1, <2>2
<1> QED
  BY <1>2 DEF HandledInv

\* A step that is about note q alone.
LEMMA HandledStep ==
  ASSUME IndInv, NEW d \in Device, NEW k \in Cycle, CycleHandles(d, cycle[d][k]),
         cycle[d][k].step \notin {"idle", "listed"}, cycle'[d][k].step # "listed",
         NEW q \in Path,
         \A p \in Path \ {q} : /\ object'[p] = object[p] /\ disk'[d][p] = disk[d][p]
                               /\ manifest'[d][p] = manifest[d][p],
         \A p \in Path : everStored[p] \subseteq everStored'[p],
         cycle'[d][k].conflicts \subseteq cycle[d][k].conflicts,
         Todo(cycle[d][k]) \ {q} \subseteq Todo(cycle'[d][k]),
         q \notin Todo(cycle'[d][k]) => Handled(d, q)',
         q \in cycle'[d][k].conflicts =>
           manifest'[d][q] = manifest[d][q] /\ object'[q] = object[q],
         cycle'[d][k].step \in {"pullMark", "pullSave"} =>
           disk'[d][cycle'[d][k].path] = cycle'[d][k].got,
         cycle'[d][k].step \in {"pullWrite", "pullMark", "pullSave", "pushMark"} =>
           \/ object'[cycle'[d][k].path] = cycle'[d][k].got
           \/ Gone(cycle[d][k].path)'
  PROVE  CycleHandles(d, cycle[d][k])'
<1> PICK c, n : c = cycle[d][k] /\ n = cycle'[d][k]
  OBVIOUS
<1>1. c.conflicts \subseteq Path
  BY CycleFacts DEF CycleState
<1>2. ASSUME NEW p \in Path \ Todo(n)
      PROVE  Handled(d, p)'
  <2>1. CASE p = q
    BY <2>1
  <2>2. CASE p # q
    <3>1. Handled(d, p)
      BY <2>2 DEF CycleHandles
    <3> QED
      BY <2>2, <3>1 DEF Handled, Settled, Gone
  <2> QED
    BY <2>1, <2>2
<1>3. ASSUME NEW p \in n.conflicts
      PROVE  /\ manifest'[d][p].status = "modified"
             /\ ToConflict(manifest'[d][p], object'[p]) \/ Gone(p)'
  <2>1. /\ p \in Path /\ manifest'[d][p] = manifest[d][p] /\ object'[p] = object[p]
        /\ manifest[d][p].status = "modified"
        /\ ToConflict(manifest[d][p], object[p]) \/ Gone(p)
    BY <1>1 DEF CycleHandles
  <2> QED
    BY <2>1 DEF Gone
<1> QED
  BY <1>2, <1>3 DEF CycleHandles

\* A cycle that ends has nothing more to answer for.
LEMMA HandledEnd ==
  ASSUME IndInv, NEW d \in Device, NEW k \in Cycle, SetCycle(d, k, NoCycle)
  PROVE  CycleHandles(d, cycle[d][k])'
<1>1. cycle'[d][k] = NoCycle
  BY EmptyStates, SetCycleTurn
<1> QED
  BY <1>1, NoCycleFacts DEF CycleHandles

\* The diff.
LEMMA ComputeDiffHandles ==
  ASSUME IndInv, TurnInv, TextInv, NEW d \in Device, NEW k \in Cycle,
         CycleHandles(d, cycle[d][k]), ComputeDiff(d, k)
  PROVE  CycleHandles(d, cycle[d][k])'
<1> DEFINE list == cycle[d][k].list
           pulls == {p \in Path : ToPull(manifest[d][p], list[p])}
           pushes == {p \in Path : ToPush(manifest[d][p], list[p])}
           conflicts == {p \in Path : ToConflict(manifest[d][p], list[p])}
           n == [NoCycle EXCEPT !.step = "work", !.pulls = pulls, !.pushes = pushes,
                                !.conflicts = conflicts]
<1>1. n \in CycleState
  BY EmptyStates DEF CycleState, Step
<1>2. cycle'[d][k] = n
  BY <1>1, SetCycleTurn DEF ComputeDiff
<1>3. n.step = "work" /\ n.pulls = pulls /\ n.pushes = pushes /\ n.conflicts = conflicts
  BY DEF NoCycle
<1> HIDE DEF n
<1>4. cycle[d][k].step = "listed" /\ UNCHANGED <<object, disk, manifest, everStored>>
  BY DEF ComputeDiff, At, clientVars
<1>5. \A p \in Path : object[p] = list[p] \/ Gone(p)
  BY <1>4 DEF CycleHandles
<1>6. ASSUME NEW p \in Path, p \notin pulls, p \notin pushes, p \notin conflicts
      PROVE  Handled(d, p)
  <2>1. PICK e \in Entry : e = manifest[d][p]
    BY TurnTypes
  <2>2. /\ EntryOK(d, p, e)
        /\ e.status = "absent" => disk[d][p] = None
        /\ e.status # "absent" => disk[d][p] = e.contentHash /\ disk[d][p] # None
        /\ e.status = "synced" => e.lastSyncedHash = e.contentHash
    BY <1>4, <2>1, FileFacts
  <2>3. e.status \in Status
    BY <2>1 DEF Entry
  <2>4. e.status = "synced" => everStored[p] # {}
    BY <2>2 DEF EntryOK
  <2>5. CASE Gone(p)
    BY <2>5 DEF Handled
  <2>6. CASE object[p] = list[p]
    <3>1. ~ToPull(e, object[p]) /\ ~ToPush(e, object[p]) /\ ~ToConflict(e, object[p])
      BY <1>6, <2>1, <2>6
    <3>2. \/ disk[d][p] = object[p] \/ e.status = "conflictPending"
          \/ object[p] = None /\ e.status = "synced"
      BY <2>2, <2>3, <3>1 DEF ToPull, ToPush, ToConflict, Status
    <3> QED
      BY <2>1, <2>4, <3>2 DEF Handled, Settled, Gone
  <2> QED
    BY <1>5, <2>5, <2>6
<1>7. ASSUME NEW p \in conflicts
      PROVE  /\ p \in Path /\ manifest[d][p].status = "modified"
             /\ ToConflict(manifest[d][p], object[p]) \/ Gone(p)
  <2>1. p \in Path /\ ToConflict(manifest[d][p], list[p])
    OBVIOUS
  <2>2. manifest[d][p].status = "modified"
    BY <2>1 DEF ToConflict
  <2> QED
    BY <1>5, <2>1, <2>2
<1> HIDE DEF pulls, pushes, conflicts
<1>8. \A p \in Path \ Todo(n) : Handled(d, p)'
  BY <1>3, <1>4, <1>6 DEF Todo, Handled, Settled, Gone
<1>9. \A p \in n.conflicts : /\ manifest'[d][p].status = "modified"
                             /\ ToConflict(manifest'[d][p], object'[p]) \/ Gone(p)'
  BY <1>3, <1>4, <1>7 DEF Gone
<1> QED
  BY <1>2, <1>3, <1>8, <1>9 DEF CycleHandles

\* The loop takes note p up: its file is read or its object fetched.
LEMMA TakeUpHandles ==
  ASSUME IndInv, NEW d \in Device, NEW k \in Cycle, CycleHandles(d, cycle[d][k]),
         cycle[d][k].step = "work", NEW p \in Path, NEW v \in Version,
         NEW s \in {"pullWrite", "pushSend", "conflictWrite"},
         SetCycle(d, k, [cycle[d][k] EXCEPT !.step = s, !.path = p, !.got = v]),
         s = "pullWrite" => v = object[p],
         UNCHANGED <<object, disk, manifest, everStored>>
  PROVE  CycleHandles(d, cycle[d][k])'
<1> DEFINE n == [cycle[d][k] EXCEPT !.step = s, !.path = p, !.got = v]
<1>1. cycle[d][k] \in CycleState /\ s \in Step
  BY CycleFacts DEF Step
<1>2. /\ n \in CycleState /\ n.step = s /\ n.path = p /\ n.got = v
      /\ n.pulls = cycle[d][k].pulls /\ n.pushes = cycle[d][k].pushes
      /\ n.conflicts = cycle[d][k].conflicts
  BY <1>1 DEF CycleState
<1>3. cycle'[d][k] = n
  BY <1>2, SetCycleTurn
<1> HIDE DEF n
<1>4. \A q \in Path \ Todo(n) : Handled(d, q)'
  BY <1>2 DEF CycleHandles, Todo, Handled, Settled, Gone
<1>5. \A q \in n.conflicts : /\ manifest'[d][q].status = "modified"
                             /\ ToConflict(manifest'[d][q], object'[q]) \/ Gone(q)'
  BY <1>2 DEF CycleHandles, Gone
<1> QED
  BY <1>2, <1>3, <1>4, <1>5 DEF CycleHandles

\* The loop goes on after note p, which is handled.
LEMMA DoneHandles ==
  ASSUME IndInv, NEW d \in Device, NEW k \in Cycle, CycleHandles(d, cycle[d][k]),
         cycle[d][k].step \notin {"idle", "listed"}, NEW p \in Path,
         SetCycle(d, k, Done(cycle[d][k], p)), Handled(d, p)',
         UNCHANGED <<object, disk, everStored>>,
         \A q \in Path \ {p} : manifest'[d][q] = manifest[d][q]
  PROVE  CycleHandles(d, cycle[d][k])'
<1>1. /\ cycle'[d][k].pulls = cycle[d][k].pulls \ {p}
      /\ cycle'[d][k].pushes = cycle[d][k].pushes \ {p}
      /\ cycle'[d][k].conflicts = cycle[d][k].conflicts \ {p}
      /\ cycle'[d][k].step \in {"work", "conflictSave"}
  BY DoneTurn
<1>2. Todo(cycle[d][k]) \ {p} \subseteq Todo(cycle'[d][k])
  BY <1>1 DEF Todo
<1> QED
  BY <1>1, <1>2, HandledStep

\* The entry that a pull, a push or a conflict leaves.
LEMMA MarkHandles ==
  ASSUME IndInv, TurnInv, NEW d \in Device, NEW k \in Cycle, CycleHandles(d, cycle[d][k]),
         MarkPull(d, k) \/ MarkPush(d, k) \/ MarkConflict(d, k)
  PROVE  CycleHandles(d, cycle[d][k])'
<1>1. /\ cycle[d][k].step \in {"pullMark", "pushMark", "conflictMark"}
      /\ UNCHANGED <<object, disk, everStored>>
  BY DEF MarkPull, MarkPush, MarkConflict, At
<1>2. PICK q \in Path, v \in Content : q = cycle[d][k].path /\ v = cycle[d][k].got
  BY <1>1, Carried DEF Carrying
<1>3. PlanOK(d, cycle[d][k]) /\ StepSet \subseteq Step /\ manifest[d][q] \in Entry
  BY <1>1, MyPlan, TurnTypes
<1>4. \A p \in Path \ {q} : manifest'[d][p] = manifest[d][p]
  BY <1>2, TurnTypes DEF MarkPull, MarkPush, MarkConflict, SetEntry
<1>5. CASE MarkPull(d, k)
  <2>1. /\ q \in cycle[d][k].pulls /\ q \notin cycle[d][k].conflicts
        /\ disk[d][q] = v /\ (object[q] = v \/ Gone(q)) /\ cycle[d][k].step = "pullMark"
    BY <1>2, <1>3, <1>5 DEF MarkPull, At, PlanOK, CycleHandles
  <2>2. /\ cycle'[d][k].pulls = cycle[d][k].pulls /\ cycle'[d][k].pushes = cycle[d][k].pushes
        /\ cycle'[d][k].conflicts = cycle[d][k].conflicts /\ cycle'[d][k].step = "pullSave"
        /\ cycle'[d][k].path = q /\ cycle'[d][k].got = v
    BY <1>2, <1>3, <1>5, GoToTurn DEF MarkPull, StepSet
  <2>3. Todo(cycle'[d][k]) = Todo(cycle[d][k]) /\ q \in Todo(cycle'[d][k])
    BY <2>1, <2>2 DEF Todo
  <2>4. object'[q] = v \/ Gone(q)'
    BY <1>1, <2>1 DEF Gone
  <2> QED
    BY <1>1, <1>2, <1>4, <2>1, <2>2, <2>3, <2>4, HandledStep
<1>6. CASE MarkPush(d, k)
  <2>1. disk[d][q] = v /\ (object[q] = v \/ Gone(q))
    BY <1>2, <1>3, <1>6 DEF MarkPush, At, PlanOK, CycleHandles
  <2>2. Handled(d, q)'
    BY <1>1, <2>1 DEF Handled, Settled, Gone
  <2> QED
    BY <1>1, <1>2, <1>4, <1>6, <2>2, DoneHandles DEF MarkPush
<1>7. CASE MarkConflict(d, k)
  <2>1. q \in cycle[d][k].conflicts
    BY <1>2, <1>3, <1>7 DEF MarkConflict, At, PlanOK
  <2>2. manifest[d][q].status = "modified"
    BY <2>1 DEF CycleHandles
  <2> DEFINE x == [manifest[d][q] EXCEPT !.status = "conflictPending"]
  <2>3. x.status = "conflictPending" /\ SetEntry(d, q, x)
    BY <1>2, <1>3, <1>7, <2>2 DEF MarkConflict, Entry
  <2> HIDE DEF x
  <2>4. manifest'[d][q].status = "conflictPending"
    BY <2>3, TurnTypes DEF SetEntry
  <2>5. Handled(d, q)'
    BY <2>4 DEF Handled, Settled
  <2> QED
    BY <1>1, <1>2, <1>4, <1>7, <2>5, DoneHandles DEF MarkConflict
<1> QED
  BY <1>5, <1>6, <1>7

\* The other parts of a transfer.
LEMMA TransferHandles ==
  ASSUME IndInv, TurnInv, NEW d \in Device, NEW k \in Cycle, CycleHandles(d, cycle[d][k]),
         WritePull(d, k) \/ SavePull(d, k) \/ PutObject(d, k) \/ WriteConflict(d, k)
  PROVE  CycleHandles(d, cycle[d][k])'
<1>1. cycle[d][k].step \in {"pullWrite", "pullSave", "pushSend", "conflictWrite"}
  BY DEF WritePull, SavePull, PutObject, WriteConflict, At
<1>2. PICK q \in Path, v \in Content : q = cycle[d][k].path /\ v = cycle[d][k].got
  BY <1>1, Carried DEF Carrying
<1>3. PlanOK(d, cycle[d][k]) /\ StepSet \subseteq Step /\ UNCHANGED manifest
  BY <1>1, MyPlan DEF WritePull, SavePull, PutObject, WriteConflict, clientVars
<1>4. CASE WritePull(d, k)
  <2>1. /\ q \in cycle[d][k].pulls /\ q \notin cycle[d][k].conflicts
        /\ (object[q] = v \/ Gone(q)) /\ cycle[d][k].step = "pullWrite"
    BY <1>2, <1>3, <1>4 DEF WritePull, At, PlanOK, CycleHandles
  <2>2. /\ cycle'[d][k].pulls = cycle[d][k].pulls /\ cycle'[d][k].pushes = cycle[d][k].pushes
        /\ cycle'[d][k].conflicts = cycle[d][k].conflicts /\ cycle'[d][k].step = "pullMark"
        /\ cycle'[d][k].path = q /\ cycle'[d][k].got = v
    BY <1>2, <1>3, <1>4, GoToTurn DEF WritePull, StepSet
  <2>3. Todo(cycle'[d][k]) = Todo(cycle[d][k]) /\ q \in Todo(cycle'[d][k])
    BY <2>1, <2>2 DEF Todo
  <2>4. /\ disk'[d][q] = v /\ \A p \in Path \ {q} : disk'[d][p] = disk[d][p]
        /\ UNCHANGED <<object, everStored>>
    BY <1>2, <1>4, TurnTypes DEF WritePull, WriteNote
  <2>5. object'[q] = v \/ Gone(q)'
    BY <2>1, <2>4 DEF Gone
  <2> QED
    BY <1>2, <1>3, <2>1, <2>2, <2>3, <2>4, <2>5, HandledStep
<1>5. CASE SavePull(d, k)
  <2>1. disk[d][q] = v /\ (object[q] = v \/ Gone(q))
    BY <1>2, <1>5 DEF SavePull, At, CycleHandles
  <2>2. UNCHANGED <<object, disk, everStored>>
    BY <1>5 DEF SavePull
  <2>3. Handled(d, q)'
    BY <2>1, <2>2 DEF Handled, Settled, Gone
  <2> QED
    BY <1>1, <1>2, <1>3, <1>5, <2>2, <2>3, DoneHandles DEF SavePull
<1>6. CASE PutObject(d, k)
  <2>1. CASE SetCycle(d, k, NoCycle)
    BY <2>1, HandledEnd
  <2>2. CASE GoTo(d, k, "pushMark") /\ Store(q, v)
    <3>1. q \in cycle[d][k].pushes /\ q \notin cycle[d][k].conflicts
      BY <1>2, <1>3, <1>6 DEF PutObject, At, PlanOK
    <3>2. /\ cycle'[d][k].pulls = cycle[d][k].pulls /\ cycle'[d][k].pushes = cycle[d][k].pushes
          /\ cycle'[d][k].conflicts = cycle[d][k].conflicts /\ cycle'[d][k].step = "pushMark"
          /\ cycle'[d][k].path = q /\ cycle'[d][k].got = v
      BY <1>2, <1>3, <2>2, GoToTurn DEF StepSet
    <3>3. Todo(cycle'[d][k]) = Todo(cycle[d][k]) /\ q \in Todo(cycle'[d][k])
      BY <3>1, <3>2 DEF Todo
    <3>4. /\ object'[q] = v /\ \A p \in Path \ {q} : object'[p] = object[p]
          /\ UNCHANGED disk
      BY <1>6, <2>2, TurnTypes DEF PutObject, Store
    <3>5. \A p \in Path : everStored[p] \subseteq everStored'[p]
      <4>1. everStored \in [Path -> SUBSET Content]
        BY DEF IndInv, TypeOK
      <4> QED
        BY <2>2, <4>1 DEF Store
    <3> QED
      BY <1>1, <1>3, <3>1, <3>2, <3>3, <3>4, <3>5, HandledStep
  <2> QED
    BY <1>2, <1>6, <2>1, <2>2 DEF PutObject, FailCycle
<1>7. CASE WriteConflict(d, k)
  <2>1. q \in cycle[d][k].conflicts
    BY <1>2, <1>3, <1>7 DEF WriteConflict, At, PlanOK
  <2>2. /\ cycle'[d][k].pulls = cycle[d][k].pulls /\ cycle'[d][k].pushes = cycle[d][k].pushes
        /\ cycle'[d][k].conflicts = cycle[d][k].conflicts /\ cycle'[d][k].step = "conflictMark"
    BY <1>3, <1>7, GoToTurn DEF WriteConflict, StepSet
  <2>3. Todo(cycle'[d][k]) = Todo(cycle[d][k]) /\ q \in Todo(cycle'[d][k])
    BY <2>1, <2>2 DEF Todo
  <2>4. UNCHANGED <<object, disk, everStored>>
    BY <1>7 DEF WriteConflict
  <2> QED
    BY <1>1, <1>3, <2>2, <2>3, <2>4, HandledStep
<1> QED
  BY <1>4, <1>5, <1>6, <1>7

\* The loop.
LEMMA WorkHandles ==
  ASSUME IndInv, TurnInv, TextInv, NEW d \in Device, NEW k \in Cycle,
         CycleHandles(d, cycle[d][k]),
         GetPull(d, k) \/ ReadPush(d, k) \/ GetConflict(d, k)
  PROVE  CycleHandles(d, cycle[d][k])'
<1>1. /\ cycle[d][k].step = "work" /\ UNCHANGED <<object, disk, manifest, everStored>>
      /\ cycle[d][k] \in CycleState /\ PlanOK(d, cycle[d][k])
  BY MyPlan DEF GetPull, ReadPush, GetConflict, At, clientVars
<1>2. CASE GetPull(d, k)
  <2>1. PICK p \in cycle[d][k].pulls :
          IF object[p] = None THEN SetCycle(d, k, NoCycle) ELSE Fetched(d, k, p, "pullWrite")
    BY <1>2 DEF GetPull, FailCycle
  <2>2. p \in Path /\ object[p] \in Version
    BY <1>1, TurnTypes DEF CycleState
  <2> QED
    BY <1>1, <2>1, <2>2, HandledEnd, TakeUpHandles DEF Fetched
<1>3. CASE ReadPush(d, k)
  <2>1. PICK p \in cycle[d][k].pushes :
          IF disk[d][p] = None
            THEN SetCycle(d, k, Done(cycle[d][k], p))
            ELSE SetCycle(d, k, [cycle[d][k] EXCEPT !.step = "pushSend", !.path = p,
                                                    !.got = disk[d][p]])
    BY <1>3 DEF ReadPush
  <2>2. p \in Path /\ disk[d][p] \in Version /\ manifest[d][p].status = "modified"
    BY <1>1, TurnTypes DEF CycleState, PlanOK
  <2>3. disk[d][p] # None
    BY <1>1, <2>2, FileFacts
  <2> QED
    BY <1>1, <2>1, <2>2, <2>3, TakeUpHandles
<1>4. CASE GetConflict(d, k)
  <2>1. PICK p \in cycle[d][k].conflicts :
          IF object[p] = None THEN SetCycle(d, k, Done(cycle[d][k], p))
                              ELSE Fetched(d, k, p, "conflictWrite")
    BY <1>4 DEF GetConflict
  <2>2. p \in Path /\ object[p] \in Version
    BY <1>1, TurnTypes DEF CycleState
  <2>3. CASE object[p] = None
    <3>1. Gone(p)
      BY <2>3 DEF CycleHandles, ToConflict
    <3>2. Handled(d, p)'
      BY <1>1, <3>1 DEF Handled, Gone
    <3> QED
      BY <1>1, <2>1, <2>2, <2>3, <3>2, DoneHandles
  <2>4. CASE object[p] # None
    BY <1>1, <2>1, <2>2, <2>4, TakeUpHandles DEF Fetched
  <2> QED
    BY <2>3, <2>4
<1> QED
  BY <1>2, <1>3, <1>4

\* An await in the conflict loop throws: the next diff will find the conflict again.
LEMMA ConflictFailsHandles ==
  ASSUME IndInv, TurnInv, NEW d \in Device, NEW k \in Cycle, CycleHandles(d, cycle[d][k]),
         ConflictFails(d, k)
  PROVE  CycleHandles(d, cycle[d][k])'
<1>1. /\ cycle[d][k].step \in {"work", "conflictWrite"}
      /\ UNCHANGED <<object, disk, manifest, everStored>>
  BY DEF ConflictFails, At, clientVars
<1>2. cycle[d][k] \in CycleState /\ PlanOK(d, cycle[d][k])
  BY <1>1, MyPlan
<1>3. PICK p \in cycle[d][k].conflicts : SetCycle(d, k, Done(cycle[d][k], p))
  BY <1>2 DEF ConflictFails, PlanOK, At
<1>4. p \in Path /\ Handled(d, p)
  BY <1>2, <1>3 DEF CycleState, CycleHandles, Handled
<1>5. Handled(d, p)'
  BY <1>1, <1>4 DEF Handled, Settled, Gone
<1> QED
  BY <1>1, <1>3, <1>4, <1>5, DoneHandles

LEMMA CycleStepHandles ==
  ASSUME IndInv, TurnInv, PushInv, TextInv, TurnsOnly, HandledInv,
         NEW d \in Device, NEW k \in Cycle,
         CycleStep(d, k) \/ CycleFails(d, k) \/ ConflictFails(d, k)
  PROVE  HandledInv'
<1>1. CycleHandles(d, cycle[d][k])
  BY DEF HandledInv
<1>2. CASE ListObjects(d, k)
  <2> DEFINE n == [NoCycle EXCEPT !.step = "listed", !.list = object]
  <2>1. n \in CycleState /\ n.step = "listed" /\ n.list = object /\ n.conflicts = {}
    BY TurnTypes, EmptyStates DEF CycleState, Step, NoCycle
  <2>2. cycle'[d][k] = n /\ UNCHANGED object /\ Others(d, k)
    BY <1>2, <2>1, SetCycleTurn DEF ListObjects
  <2> HIDE DEF n
  <2>3. CycleHandles(d, cycle[d][k])'
    BY <2>1, <2>2 DEF CycleHandles
  <2> QED
    BY <1>2, <2>2, <2>3, TurnsSuffice, HandledAlone
<1>3. CASE SaveConflicts(d, k)
  <2>1. /\ cycle[d][k].step = "conflictSave" /\ UNCHANGED <<object, disk, manifest, everStored>>
        /\ StepSet \subseteq Step /\ Others(d, k)
    BY <1>3, MyPlan, CycleMoves DEF SaveConflicts, At, ComputeDiff
  <2>2. /\ cycle'[d][k].pulls = cycle[d][k].pulls /\ cycle'[d][k].pushes = cycle[d][k].pushes
        /\ cycle'[d][k].conflicts = cycle[d][k].conflicts /\ cycle'[d][k].step = "work"
    BY <1>3, <2>1, GoToTurn DEF SaveConflicts, StepSet
  <2>3. \A p \in Path \ Todo(cycle'[d][k]) : Handled(d, p)'
    BY <1>1, <2>1, <2>2 DEF CycleHandles, Todo, Handled, Settled, Gone
  <2>4. \A p \in cycle'[d][k].conflicts :
          /\ manifest'[d][p].status = "modified"
          /\ ToConflict(manifest'[d][p], object'[p]) \/ Gone(p)'
    BY <1>1, <2>1, <2>2 DEF CycleHandles, Gone
  <2>5. CycleHandles(d, cycle[d][k])'
    BY <2>2, <2>3, <2>4 DEF CycleHandles
  <2> QED
    BY <2>1, <2>5, TurnsSuffice, HandledAlone
<1>4. CASE ~ListObjects(d, k) /\ ~SaveConflicts(d, k)
  <2>1. CycleHandles(d, cycle[d][k])'
    BY <1>1, <1>4, ComputeDiffHandles, MarkHandles, TransferHandles, WorkHandles,
       ConflictFailsHandles, HandledEnd
    DEF CycleStep, FinishCycle, CycleFails, EndCycle, FailCycle
  <2>2. cycle[d][k].step # "idle" /\ Others(d, k)
    BY <1>4, CycleMoves, DiffMoves
  <2> QED
    BY <2>1, <2>2, TurnsSuffice, HandledAlone
<1> QED
  BY <1>2, <1>3, <1>4

\* The rest of the system leaves the notes of a device that has a cycle in progress.
LEMMA LocalHandles ==
  ASSUME IndInv, TurnInv, TurnsOnly, HandledInv, NEW d \in Device,
         UserStep(d) \/ LocalStep(d) \/ Restart(d)
  PROVE  HandledInv'
<1>1. DeviceOK(d) /\ UNCHANGED <<object, everStored>>
  BY DEF TurnInv, UserStep, SaveNote, CreateNote, DeleteNote, LocalStep, UpdateEntry,
     PersistEdit, PersistSynced, PersistFails, SaveLands, SaveFails, LoadManifest, Resume, Restart
<1>a. ~SaveLands(d) /\ ~SaveFails(d)
  BY SavesAtOnce DEF TurnsOnly
<1>2. \A e \in Device \ {d} :
        disk'[e] = disk[e] /\ manifest'[e] = manifest[e] /\ cycle'[e] = cycle[e]
  BY <1>a, TurnTypes DEF UserStep, SaveNote, CreateNote, DeleteNote, WriteNote, LocalStep,
     UpdateEntry, SetEntry, PersistEdit, PersistSynced, PersistFails, LoadManifest, Resume,
     Restart, clientVars
<1>3. \/ \A k \in Cycle : cycle'[d][k] = NoCycle
      \/ UNCHANGED <<disk, manifest, cycle>>
  <2>1. CASE UserStep(d)
    BY <2>1 DEF UserStep, SaveNote, CreateNote, DeleteNote, MayEdit, TurnsOnly, Allowed, Quiet
  <2>2. CASE UpdateEntry(d)
    <3>1. editor[d] # NoOp /\ UNCHANGED cycle
      BY <2>2, NoOpFacts DEF UpdateEntry
    <3> QED
      BY <1>1, <3>1 DEF DeviceOK, OneCycle
  <2>3. CASE PersistEdit(d) \/ PersistSynced(d) \/ PersistFails(d) \/ Resume(d)
    BY <2>3 DEF PersistEdit, PersistSynced, PersistFails, Resume, clientVars
  <2>4. CASE LoadManifest(d)
    BY <1>1, <2>4 DEF LoadManifest, DeviceOK, OneCycle, TurnsOnly, Allowed, AtRest, Quiet
  <2>5. CASE Restart(d)
    BY <2>5, TurnTypes DEF Restart
  <2> QED
    BY <1>a, <2>1, <2>2, <2>3, <2>4, <2>5 DEF LocalStep
<1>4. ASSUME NEW e \in Device, NEW k \in Cycle
      PROVE  CycleHandles(e, cycle[e][k])'
  <2>1. CASE cycle'[e][k] = NoCycle
    BY <2>1, NoCycleFacts DEF CycleHandles
  <2>2. CASE /\ disk'[e] = disk[e] /\ manifest'[e] = manifest[e] /\ cycle'[e] = cycle[e]
    <3>1. CycleHandles(e, cycle[e][k])
      BY DEF HandledInv
    <3> QED
      BY <1>1, <2>2, <3>1 DEF CycleHandles, Handled, Settled, Gone
  <2> QED
    BY <1>2, <1>3, <2>1, <2>2
<1> QED
  BY <1>4 DEF HandledInv

LEMMA RemoteDeleteHandles ==
  ASSUME IndInv, HandledInv, NEW p \in Path, RemoteDelete(p)
  PROVE  HandledInv'
<1>1. /\ object'[p] = None /\ \A q \in Path \ {p} : object'[q] = object[q]
      /\ UNCHANGED <<disk, manifest, cycle, everStored>>
  BY TurnTypes DEF RemoteDelete, clientVars
<1>2. Gone(p)'
  BY <1>1 DEF IndInv, RemoteDelete, Gone
<1>3. \A q \in Path : Gone(q) => Gone(q)'
  BY <1>1, <1>2 DEF Gone
<1>4. ASSUME NEW d \in Device, NEW k \in Cycle
      PROVE  CycleHandles(d, cycle[d][k])'
  <2> PICK c \in CycleState : c = cycle[d][k]
    BY CycleFacts
  <2>1. CycleHandles(d, c) /\ c = cycle'[d][k]
    BY <1>1 DEF HandledInv
  <2>2. \A q \in Path : object[q] = c.list[q] \/ Gone(q) => object'[q] = c.list[q] \/ Gone(q)'
    BY <1>1, <1>2, <1>3
  <2>3. \A q \in Path : Handled(d, q) => Handled(d, q)'
    BY <1>1, <1>2, <1>3 DEF Handled, Settled
  <2>4. \A q \in c.conflicts : /\ manifest'[d][q].status = "modified"
                               /\ ToConflict(manifest'[d][q], object'[q]) \/ Gone(q)'
    BY <1>1, <1>2, <1>3, <2>1 DEF CycleHandles, CycleState
  <2>5. c.step \in Carrying => c.path \in Path
    BY Carried
  <2>6. c.step \in {"pullWrite", "pullMark", "pullSave", "pushMark"} =>
          object'[c.path] = c.got \/ Gone(c.path)'
    BY <1>1, <1>2, <1>3, <2>1, <2>5 DEF CycleHandles, Carrying
  <2> QED
    BY <1>1, <2>1, <2>2, <2>3, <2>4, <2>6 DEF CycleHandles
<1> QED
  BY <1>4 DEF HandledInv

LEMMA NextHandles ==
  ASSUME TurnsOnly, IndInv, TurnInv, PushInv, TextInv, HandledInv, [Next]_vars
  PROVE  HandledInv'
<1>1. CASE UNCHANGED vars
  BY <1>1 DEF vars, clientVars, HandledInv, CycleHandles, Handled, Settled, Gone
<1> QED
  BY <1>1, LocalHandles, CycleStepHandles, RemoteDeleteHandles DEF Next

LEMMA InitHandles == Init => HandledInv
BY NoCycleFacts DEF Init, HandledInv, CycleHandles

\* runSyncCycle: when it returns without an exception, every note of its device is the
\* same on the server, is left to the user, was deleted on the server, or is a conflict
\* that could not be fetched: one cycle is enough, no note waits for a second one.
THEOREM FinishedCyclesSettle ==
  ASSUME TurnsOnly
  PROVE  Spec => []CycleSettles
<1>1. IndInv /\ TurnInv /\ PushInv /\ TextInv /\ HandledInv /\ [Next]_vars => HandledInv'
  BY NextHandles
<1>2. IndInv /\ PushInv /\ [Next]_vars => PushInv'
  BY TurnsSuffice, NextBased
<1>3. IndInv /\ TextInv /\ [Next]_vars => TextInv'
  BY NextTexts DEF TurnsOnly
<1>4. Spec => []TurnInv
  BY TurnsSuffice, AlwaysInTurn
<1>5. HandledInv => CycleSettles
  BY DEF HandledInv, CycleHandles, CycleSettles, At
<1> QED
  BY <1>1, <1>2, <1>3, <1>4, <1>5, InitHandles, InitBased, InitTexts, AlwaysIndInv, PTL
  DEF Spec

=============================================================================
