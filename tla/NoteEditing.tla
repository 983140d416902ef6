----------------------------- MODULE NoteEditing -----------------------------
(***************************************************************************)
(* The editor screens, the note that NotesState has open, and the notes    *)
(* list: what happens to a text between the keyboard and the note's file.  *)
(*                                                                         *)
(* NotesState has one current path and one current content for the whole   *)
(* app; each editor screen has its own text.  A save hands the screen's    *)
(* text to NotesState, writes it (a temporary file, then a rename) and     *)
(* reads the current path again for the entry.  One action is the code     *)
(* between two awaits; nothing keeps two operations apart.                 *)
(*                                                                         *)
(* A text is named by the note it belongs to and a number, 0 being the     *)
(* empty or first text; its hash is the text.  The sync state of an entry  *)
(* is NoteSync's.                                                          *)
(***************************************************************************)
EXTENDS Naturals, Sequences

CONSTANTS
  Path,
  Folder,        \* the notes below one folder
  Screen,        \* identities of editor screens
  Background,    \* the save that LifecycleService makes
  None,
  Disturbances,  \* what may happen, see Disturbance
  MaxTexts       \* bound: texts typed or pulled

(***************************************************************************)
(* "typeDuringSave"  the user types while the screen's text is being saved *)
(* "overlap"         a save, an opening, a creation or a deletion begins   *)
(*                   while one is in progress, or a screen is being left   *)
(* "twoOpens"        a second note is tapped while the first is being read *)
(* "pullCurrent"     a pull changes the note NotesState has as current     *)
(***************************************************************************)
Disturbance == {"typeDuringSave", "overlap", "twoOpens", "pullCurrent"}

Text == [of : Path, n : 0 .. MaxTexts]
Blank(p) == [of |-> p, n |-> 0]

\* What an editor screen keeps, its note included.
Editor == [path : Path, text : Text, unsaved : BOOLEAN, timer : BOOLEAN]

ASSUME ConstantsAssumption ==
  /\ Folder \subseteq Path
  /\ None \notin Path /\ None \notin Text /\ None \notin Editor
  /\ Background \notin Screen
  /\ Disturbances \subseteq Disturbance
  /\ MaxTexts \in Nat

VARIABLES
  file,     \* the note files
  tmp,      \* the temporary files of writeNote
  entry,    \* contentHash of each entry of the manifest
  current,  \* NotesState: _currentNotePath and _currentNoteContent
  screen,   \* the editor screens
  stack,    \* those that are open, the last one in front
  save,     \* the saves in progress
  opening,  \* openNote calls that wait for readNote
  list,     \* the creation or deletion in progress
  unread,   \* history: notes that a pull changed since NotesState read them
  texts

vars == <<file, tmp, entry, current, screen, stack, save, opening, list, unread, texts>>

Saver == Screen \union {Background}
NoSave == [step |-> "idle", path |-> None, text |-> None]
NoList == [step |-> "idle", path |-> None, left |-> {}]
Nothing == [path |-> None, text |-> None]

TypeOK ==
  /\ file \in [Path -> Text \union {None}]
  /\ tmp \in [Path -> Text \union {None}]
  /\ entry \in [Path -> Text \union {None}]
  /\ current \in [path : Path \union {None}, text : Text \union {None}]
  /\ screen \in [Screen -> Editor \union {None}]
  /\ stack \in Seq(Screen)
  /\ \A i \in DOMAIN stack : screen[stack[i]] # None
  /\ save \in [Saver -> [step : {"write", "rename", "entry", "persist"}, path : Path, text : Text]
                        \union {NoSave}]
  /\ opening \subseteq Path
  /\ list \in [step : {"idle", "created", "persist", "delete", "deleted"},
               path : Path \union {None}, left : SUBSET Path]
  /\ unread \subseteq Path
  /\ texts \in 0 .. MaxTexts

\* loadManifest is done; a note has its file, or is not there.
Init ==
  /\ \E P \in SUBSET Path : file = [p \in Path |-> IF p \in P THEN Blank(p) ELSE None]
  /\ tmp = [p \in Path |-> None]
  /\ entry = file
  /\ current = Nothing
  /\ screen = [s \in Screen |-> None]
  /\ stack = <<>>
  /\ save = [s \in Saver |-> NoSave]
  /\ opening = {}
  /\ list = NoList
  /\ unread = {}
  /\ texts = 0

Allowed(x) == x \in Disturbances
InFront(s) == stack # <<>> /\ stack[Len(stack)] = s
Leaving(s) == screen[s] # None /\ \A i \in DOMAIN stack : stack[i] # s
SaveIdle(s) == save[s] = NoSave
Quiet == (\A s \in Saver : SaveIdle(s)) /\ list = NoList
MayBegin ==
  \/ Allowed("overlap")
  \/ Quiet /\ opening = {} /\ \A s \in Screen : ~Leaving(s)

NewText(p) == [of |-> p, n |-> texts + 1]
CountText == texts < MaxTexts /\ texts' = texts + 1

-----------------------------------------------------------------------------
\* saveCurrentNote

\* Mutant: the text of the screen is not handed to NotesState.
SaveOldText(s, t) ==
  /\ save' = [save EXCEPT ![s] = [step |-> "write", path |-> current.path, text |-> current.text]]
  /\ UNCHANGED current

\* Up to the first await: updateNoteContent(t), then the arguments of writeNote.
SaveCurrent(s, t) ==
  /\ current' = [current EXCEPT !.text = t]
  /\ save' = [save EXCEPT ![s] = [step |-> "write", path |-> current.path, text |-> t]]

Step(s, x) == save[s].step = x
Go(s, x) == save' = [save EXCEPT ![s].step = x]
EndSave(s) == save' = [save EXCEPT ![s] = NoSave]

WriteTmp(s) ==
  /\ Step(s, "write")
  /\ tmp' = [tmp EXCEPT ![save[s].path] = save[s].text]
  /\ Go(s, "rename")
  /\ UNCHANGED <<file, entry, current, screen, stack, opening, list, unread, texts>>

\* rename throws when another save of the note has renamed the temporary file.
Rename(s) ==
  LET p == save[s].path
  IN /\ Step(s, "rename")
     /\ tmp' = [tmp EXCEPT ![p] = None]
     /\ IF tmp[p] = None
          THEN EndSave(s) /\ UNCHANGED file
          ELSE Go(s, "entry") /\ file' = [file EXCEPT ![p] = tmp[p]]
     /\ UNCHANGED <<entry, current, screen, stack, opening, list, unread, texts>>

\* Mutant: an entry that is there keeps its hash.
UpdateEntryNewOnly(s) ==
  /\ Step(s, "entry")
  /\ Go(s, "persist")
  /\ entry' = IF current.path = None \/ entry[current.path] # None
                THEN entry ELSE [entry EXCEPT ![current.path] = save[s].text]
  /\ UNCHANGED <<file, tmp, current, screen, stack, opening, list, unread, texts>>

\* The entry is that of the path which is current now; without one, `!` throws.
UpdateEntry(s) ==
  LET q == current.path
  IN /\ Step(s, "entry")
     /\ IF q = None
          THEN EndSave(s) /\ UNCHANGED entry
          ELSE Go(s, "persist") /\ entry' = [entry EXCEPT ![q] = save[s].text]
     /\ UNCHANGED <<file, tmp, current, screen, stack, opening, list, unread, texts>>

\* manifest.json is written, or the hash was the same.  _saveNow then says that
\* the screen has no changes.
Saved(s) ==
  /\ Step(s, "persist")
  /\ EndSave(s)
  /\ screen' = IF s = Background \/ screen[s] = None
                 THEN screen ELSE [screen EXCEPT ![s].unsaved = FALSE]
  /\ UNCHANGED <<file, tmp, entry, current, stack, opening, list, unread, texts>>

\* _onBackground: the content NotesState has, not the screen's.
GoToBackground ==
  /\ MayBegin
  /\ SaveIdle(Background)
  /\ current.path # None /\ current.text # None
  /\ SaveCurrent(Background, current.text)
  /\ UNCHANGED <<file, tmp, entry, screen, stack, opening, list, unread, texts>>

-----------------------------------------------------------------------------
\* The editor screen

\* Mutant: a timer that was running is not started again.
TypeOnce(s) ==
  /\ InFront(s)
  /\ SaveIdle(s) \/ Allowed("typeDuringSave")
  /\ CountText
  /\ screen' = [screen EXCEPT ![s].text = NewText(screen[s].path), ![s].unsaved = TRUE,
                              ![s].timer = ~screen[s].unsaved]
  /\ UNCHANGED <<file, tmp, entry, current, stack, save, opening, list, unread>>

\* _onTextChanged: the timer is cancelled and started again.
Type(s) ==
  /\ InFront(s)
  /\ SaveIdle(s) \/ Allowed("typeDuringSave")
  /\ CountText
  /\ screen' = [screen EXCEPT ![s].text = NewText(screen[s].path), ![s].unsaved = TRUE,
                              ![s].timer = TRUE]
  /\ UNCHANGED <<file, tmp, entry, current, stack, save, opening, list, unread>>

\* _saveNow up to its await.
SaveNow(s) ==
  IF screen[s].unsaved /\ current.path # None
    THEN SaveCurrent(s, screen[s].text)
    ELSE /\ current' = IF screen[s].unsaved THEN [current EXCEPT !.text = screen[s].text]
                                           ELSE current
         /\ UNCHANGED save

\* Without a current path saveCurrentNote returns, and the text counts as saved.
StillUnsaved(s) == screen[s].unsaved /\ current.path # None

\* The debounce timer, which runs until the screen is disposed of.
TimerFires(s) ==
  /\ screen[s] # None
  /\ screen[s].timer
  /\ SaveIdle(s)
  /\ Quiet \/ Allowed("overlap")
  /\ screen' = [screen EXCEPT ![s].timer = FALSE, ![s].unsaved = StillUnsaved(s)]
  /\ SaveNow(s)
  /\ UNCHANGED <<file, tmp, entry, stack, opening, list, unread, texts>>

SaveButton(s) ==
  /\ InFront(s)
  /\ SaveIdle(s)
  /\ MayBegin
  /\ screen' = [screen EXCEPT ![s].unsaved = StillUnsaved(s)]
  /\ SaveNow(s)
  /\ UNCHANGED <<file, tmp, entry, stack, opening, list, unread, texts>>

\* The route is popped; the screen stays until its animation has ended.
Leave(s) ==
  /\ InFront(s)
  /\ stack' = SubSeq(stack, 1, Len(stack) - 1)
  /\ UNCHANGED <<file, tmp, entry, current, screen, save, opening, list, unread, texts>>

\* Mutant: the screen is disposed of while it is in front.
DisposeEarly(s) ==
  /\ screen[s] # None
  /\ screen' = [screen EXCEPT ![s] = None]
  /\ UNCHANGED <<file, tmp, entry, current, stack, save, opening, list, unread, texts>>

\* dispose calls _saveNow, whose context.read either works or throws.
Dispose(s) ==
  /\ Leaving(s)
  /\ Quiet \/ Allowed("overlap")
  /\ screen' = [screen EXCEPT ![s] = None]
  /\ UNCHANGED <<current, save>> \/ (SaveIdle(s) /\ SaveNow(s))
  /\ UNCHANGED <<file, tmp, entry, stack, opening, list, unread, texts>>

-----------------------------------------------------------------------------
\* The notes list, which is in front when no screen is

\* openNote up to its await.
OpenNote(p) ==
  /\ stack = <<>>
  /\ entry[p] # None
  /\ MayBegin \/ (Allowed("twoOpens") /\ opening # {} /\ Quiet)
  /\ current' = [current EXCEPT !.path = p]
  /\ opening' = opening \union {p}
  /\ UNCHANGED <<file, tmp, entry, screen, stack, save, list, unread, texts>>

ContentOr(t, p) == IF t = None THEN Blank(p) ELSE t

\* Mutant: a content that is there is not read again.
OpenedCached(p, s) ==
  LET t == IF current.text = None THEN file[p] ELSE current.text
  IN /\ p \in opening
     /\ screen[s] = None /\ SaveIdle(s)
     /\ opening' = opening \ {p}
     /\ current' = [current EXCEPT !.text = t]
     /\ screen' = [screen EXCEPT ![s] = [path |-> p, text |-> ContentOr(t, p),
                                         unsaved |-> FALSE, timer |-> FALSE]]
     /\ stack' = Append(stack, s)
     /\ unread' = IF current.text = None THEN unread \ {p} ELSE unread
     /\ UNCHANGED <<file, tmp, entry, save, list, texts>>

\* readNote has returned; the screen is pushed with the content NotesState has.
Opened(p, s) ==
  /\ p \in opening
  /\ screen[s] = None /\ SaveIdle(s)
  /\ opening' = opening \ {p}
  /\ current' = [current EXCEPT !.text = file[p]]
  /\ screen' = [screen EXCEPT ![s] = [path |-> p, text |-> ContentOr(file[p], p),
                                      unsaved |-> FALSE, timer |-> FALSE]]
  /\ stack' = Append(stack, s)
  /\ unread' = unread \ {p}
  /\ UNCHANGED <<file, tmp, entry, save, list, texts>>

ListMayBegin == stack = <<>> /\ opening = {} /\ list = NoList /\ MayBegin
ListOnly == UNCHANGED <<tmp, screen, stack, save, unread, texts>>

\* createNote: the file, the entry, and after manifest.json the current note.
CreateNote(p) ==
  /\ ListMayBegin
  /\ file' = [file EXCEPT ![p] = Blank(p)]
  /\ list' = [step |-> "created", path |-> p, left |-> {}]
  /\ ListOnly /\ UNCHANGED <<entry, current, opening>>

CreateEntry ==
  /\ list.step = "created"
  /\ entry' = [entry EXCEPT ![list.path] = Blank(list.path)]
  /\ list' = [list EXCEPT !.step = "persist"]
  /\ ListOnly /\ UNCHANGED <<file, current, opening>>

\* The screen opens the new note.
Created ==
  /\ list.step = "persist"
  /\ current' = [path |-> list.path, text |-> Blank(list.path)]
  /\ opening' = opening \union {list.path}
  /\ list' = NoList
  /\ ListOnly /\ UNCHANGED <<file, entry>>

\* deleteNote of one note, deleteFolder of those it has found below the folder.
Delete(P) ==
  /\ ListMayBegin
  /\ P # {} /\ \A p \in P : entry[p] # None
  /\ list' = [step |-> "delete", path |-> None, left |-> P]
  /\ ListOnly /\ UNCHANGED <<file, entry, current, opening>>

DeleteFile(p) ==
  /\ list.step = "delete"
  /\ p \in list.left
  /\ file' = [file EXCEPT ![p] = None]
  /\ list' = [step |-> "deleted", path |-> p, left |-> list.left \ {p}]
  /\ ListOnly /\ UNCHANGED <<entry, current, opening>>

AfterEntry == IF list.left = {} THEN NoList ELSE [list EXCEPT !.step = "delete", !.path = None]

\* Mutant: the deleted note stays the current one.
RemoveEntryOnly ==
  /\ list.step = "deleted"
  /\ entry' = [entry EXCEPT ![list.path] = None]
  /\ list' = AfterEntry
  /\ ListOnly /\ UNCHANGED <<file, current, opening>>

RemoveEntry ==
  /\ list.step = "deleted"
  /\ entry' = [entry EXCEPT ![list.path] = None]
  /\ current' = IF current.path = list.path THEN Nothing ELSE current
  /\ list' = AfterEntry
  /\ ListOnly /\ UNCHANGED <<file, opening>>

\* A sync cycle stores another device's version; NotesState's content stays.
\* NoteSync has the steps of a pull.
PullNote(p) ==
  /\ Quiet
  /\ Allowed("pullCurrent") \/ (p # current.path /\ \A s \in Screen : ~Leaving(s))
  /\ CountText
  /\ file' = [file EXCEPT ![p] = NewText(p)]
  /\ entry' = [entry EXCEPT ![p] = NewText(p)]
  /\ unread' = unread \union {p}
  /\ UNCHANGED <<tmp, current, screen, stack, save, opening, list>>

-----------------------------------------------------------------------------

SaveStep(s) == WriteTmp(s) \/ Rename(s) \/ UpdateEntry(s) \/ Saved(s)
ListStep == CreateEntry \/ Created \/ RemoveEntry \/ \E p \in Path : DeleteFile(p)

Next ==
  \/ \E s \in Saver : SaveStep(s)
  \/ \E s \in Screen : Type(s) \/ TimerFires(s) \/ SaveButton(s) \/ Leave(s) \/ Dispose(s)
  \/ \E p \in Path : \/ OpenNote(p) \/ CreateNote(p) \/ Delete({p}) \/ PullNote(p)
                     \/ \E s \in Screen : Opened(p, s)
  \/ Delete({p \in Folder : entry[p] # None})
  \/ ListStep \/ GoToBackground

Spec == Init /\ [][Next]_vars

\* The event loop runs what awaits, and timers fire: going to the background again and
\* again does not keep one from firing.  Nothing is assumed of the user and of pulls.
FairSpec ==
  /\ Spec
  /\ \A s \in Saver : WF_vars(SaveStep(s))
  /\ \A s \in Screen : SF_vars(TimerFires(s))
  /\ WF_vars(ListStep)

-----------------------------------------------------------------------------

\* Between two operations the hash in the manifest is that of the file, which is
\* what the next sync cycle's diff relies on.
EntryMatchesFile == Quiet => entry = file

\* A text is written to no note but its own, although NotesState's path and content
\* change at different moments (openNote, saveCurrentNote).
TextStaysInItsNote == \A p \in Path : file[p] # None => file[p].of = p

\* A screen without the mark of unsaved changes shows what is on the disk.
NoMarkMeansSaved ==
  \A s \in Screen : InFront(s) /\ Quiet /\ ~screen[s].unsaved /\ screen[s].path \notin unread
    => file[screen[s].path] = screen[s].text

\* A save never brings back a note that was deleted.
SavesReviveNothing ==
  [][\A s \in Saver : Step(s, "rename") /\ save'[s].step = "entry"
       => file[save[s].path] # None]_vars

\* What was typed is on the disk after a while, unless the screen is left before.
DebounceSaves ==
  \A s \in Screen : InFront(s) /\ screen[s].unsaved
    ~> ~InFront(s) \/ file[screen[s].path] = screen[s].text
=============================================================================
