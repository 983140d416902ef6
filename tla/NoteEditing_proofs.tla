------------------------- MODULE NoteEditing_proofs -------------------------
(***************************************************************************)
(* The text of a note reaches its own file and its own entry, for any      *)
(* notes, screens and texts, while a save, an opening, a creation or a     *)
(* deletion does not begin within another.  Each theorem names what else   *)
(* must not come in between; types hold whatever does.                     *)
(***************************************************************************)
EXTENDS NoteEditing, TLAPS

Active == [step : {"write", "rename", "entry", "persist"}, path : Path, text : Text]
List == [step : {"idle", "created", "persist", "delete", "deleted"},
         path : Path \union {None}, left : SUBSET Path]

\* A creation has its note, and so has a deletion between file and entry.
ListNames == list.step \in {"created", "persist", "deleted"} => list.path \in Path

TypeInv == TypeOK /\ ListNames

-----------------------------------------------------------------------------
\* Type correctness

LEMMA Facts ==
  /\ Folder \subseteq Path
  /\ None \notin Path /\ None \notin Text /\ None \notin Editor
  /\ Background \notin Screen
  /\ MaxTexts \in Nat
  /\ \A p \in Path : Blank(p) \in Text /\ Blank(p).of = p
BY ConstantsAssumption DEF Text, Blank

LEMMA NewTextFacts ==
  ASSUME texts \in 0 .. MaxTexts, CountText, NEW p \in Path
  PROVE  /\ NewText(p) \in Text /\ NewText(p).of = p
         /\ texts' \in 0 .. MaxTexts
BY Facts DEF CountText, NewText, Text

LEMMA TypeParts ==
  ASSUME TypeOK
  PROVE  /\ file \in [Path -> Text \union {None}]
         /\ tmp \in [Path -> Text \union {None}]
         /\ entry \in [Path -> Text \union {None}]
         /\ current \in [path : Path \union {None}, text : Text \union {None}]
         /\ screen \in [Screen -> Editor \union {None}]
         /\ stack \in Seq(Screen)
         /\ \A i \in DOMAIN stack : screen[stack[i]] # None
         /\ save \in [Saver -> Active \union {NoSave}]
         /\ opening \subseteq Path
         /\ list \in List
         /\ unread \subseteq Path
         /\ texts \in 0 .. MaxTexts
BY DEF TypeOK, Active, List

LEMMA SavingHas ==
  ASSUME TypeOK, NEW s \in Saver, ~SaveIdle(s)
  PROVE  save[s] \in Active
BY TypeParts DEF SaveIdle

LEMMA StepActive ==
  ASSUME TypeOK, NEW s \in Saver, NEW x \in {"write", "rename", "entry", "persist"}, Step(s, x)
  PROVE  save[s] \in Active /\ ~SaveIdle(s)
BY TypeParts DEF Step, NoSave, SaveIdle

\* A save that goes on to its next step, or ends: the others stay where they are.
LEMMA GoFacts ==
  ASSUME TypeOK, NEW s \in Saver, save[s] \in Active,
         NEW x \in {"write", "rename", "entry", "persist"}, Go(s, x)
  PROVE  /\ save' \in [Saver -> Active \union {NoSave}]
         /\ save'[s] \in Active /\ save'[s].step = x
         /\ save'[s].path = save[s].path /\ save'[s].text = save[s].text
         /\ \A t \in Saver \ {s} : save'[t] = save[t]
<1>1. save' = [save EXCEPT ![s] = [save[s] EXCEPT !.step = x]]
  BY TypeParts DEF Go
<1>2. [save[s] EXCEPT !.step = x] \in Active
  BY DEF Active
<1>3. /\ [save[s] EXCEPT !.step = x].step = x
      /\ [save[s] EXCEPT !.step = x].path = save[s].path
      /\ [save[s] EXCEPT !.step = x].text = save[s].text
  BY DEF Active
<1>4. save'[s] = [save[s] EXCEPT !.step = x]
  BY <1>1, TypeParts
<1> QED
  BY <1>1, <1>2, <1>3, <1>4, TypeParts

LEMMA EndFacts ==
  ASSUME TypeOK, NEW s \in Saver, EndSave(s)
  PROVE  /\ save' \in [Saver -> Active \union {NoSave}]
         /\ save'[s] = NoSave
         /\ \A t \in Saver \ {s} : save'[t] = save[t]
BY TypeParts DEF EndSave

LEMMA SaveCurrentFacts ==
  ASSUME TypeOK, NEW s \in Saver, NEW t \in Text, current.path \in Path, SaveCurrent(s, t)
  PROVE  /\ save' \in [Saver -> Active \union {NoSave}]
         /\ save'[s] = [step |-> "write", path |-> current.path, text |-> t]
         /\ \A q \in Saver \ {s} : save'[q] = save[q]
         /\ current' \in [path : Path \union {None}, text : Text \union {None}]
         /\ current'.path = current.path /\ current'.text = t
<1>1. [step |-> "write", path |-> current.path, text |-> t] \in Active
  BY DEF Active
<1> QED
  BY <1>1, TypeParts DEF SaveCurrent

\* What _saveNow starts, and what it leaves alone.
LEMMA SaveNowFacts ==
  ASSUME TypeOK, NEW s \in Screen, screen[s] \in Editor, SaveNow(s)
  PROVE  /\ save' \in [Saver -> Active \union {NoSave}]
         /\ current' \in [path : Path \union {None}, text : Text \union {None}]
         /\ current'.path = current.path
         /\ current'.text = IF screen[s].unsaved THEN screen[s].text ELSE current.text
         /\ \A q \in Saver \ {s} : save'[q] = save[q]
         /\ save'[s] = IF screen[s].unsaved /\ current.path # None
                         THEN [step |-> "write", path |-> current.path, text |-> screen[s].text]
                         ELSE save[s]
<1>0. s \in Saver /\ screen[s].text \in Text
  BY DEF Saver, Editor
<1>1. CASE screen[s].unsaved /\ current.path # None
  <2>1. SaveCurrent(s, screen[s].text) /\ current.path \in Path
    BY <1>1, TypeParts DEF SaveNow
  <2> QED
    BY <1>0, <1>1, <2>1, SaveCurrentFacts
<1>2. CASE ~(screen[s].unsaved /\ current.path # None)
  BY <1>0, <1>2, TypeParts DEF SaveNow
<1> QED
  BY <1>1, <1>2

LEMMA OneScreenChanges ==
  ASSUME TypeOK, NEW s \in Screen, NEW e \in Editor, screen' = [screen EXCEPT ![s] = e]
  PROVE  /\ screen' \in [Screen -> Editor \union {None}]
         /\ screen'[s] = e
         /\ \A t \in Screen \ {s} : screen'[t] = screen[t]
         /\ \A i \in DOMAIN stack : screen'[stack[i]] # None
BY TypeParts, Facts

LEMMA InFrontHas ==
  ASSUME TypeOK, NEW s \in Screen, InFront(s)
  PROVE  /\ screen[s] \in Editor
         /\ Len(stack) \in DOMAIN stack /\ stack # <<>>
BY TypeParts DEF InFront

LEMMA HasEditor ==
  ASSUME TypeOK, NEW s \in Screen, screen[s] # None
  PROVE  screen[s] \in Editor
BY TypeParts

LEMMA TypeFacts ==
  ASSUME TypeOK, NEW s \in Screen, Type(s)
  PROVE  \E e \in Editor :
           /\ screen' = [screen EXCEPT ![s] = e]
           /\ e.path = screen[s].path /\ e.unsaved /\ e.timer
           /\ e.text.of = screen[s].path
<1>1. screen[s] \in Editor
  BY InFrontHas DEF Type
<1>2. PICK t \in Text : t = NewText(screen[s].path) /\ t.of = screen[s].path
  BY <1>1, NewTextFacts, TypeParts DEF Type, Editor
<1>3. screen' = [screen EXCEPT ![s] = [screen[s] EXCEPT !.text = t, !.unsaved = TRUE, !.timer = TRUE]]
  BY <1>2, TypeParts DEF Type
<1>4. [screen[s] EXCEPT !.text = t, !.unsaved = TRUE, !.timer = TRUE] \in Editor
  BY <1>1 DEF Editor
<1>5. LET e == [screen[s] EXCEPT !.text = t, !.unsaved = TRUE, !.timer = TRUE]
      IN e.path = screen[s].path /\ e.unsaved /\ e.timer /\ e.text = t
  BY <1>1 DEF Editor
<1> QED
  BY <1>2, <1>3, <1>4, <1>5

LEMMA UnmarkFacts ==
  ASSUME TypeOK, NEW s \in Screen, screen[s] \in Editor
  PROVE  /\ \E e \in Editor :
              /\ [screen EXCEPT ![s].timer = FALSE, ![s].unsaved = StillUnsaved(s)]
                   = [screen EXCEPT ![s] = e]
              /\ e.path = screen[s].path /\ e.text = screen[s].text
              /\ e.unsaved = StillUnsaved(s)
         /\ \E e \in Editor :
              /\ [screen EXCEPT ![s].unsaved = StillUnsaved(s)] = [screen EXCEPT ![s] = e]
              /\ e.path = screen[s].path /\ e.text = screen[s].text
              /\ e.unsaved = StillUnsaved(s)
         /\ \E e \in Editor :
              /\ [screen EXCEPT ![s].unsaved = FALSE] = [screen EXCEPT ![s] = e]
              /\ e.path = screen[s].path /\ e.text = screen[s].text
              /\ ~e.unsaved
<1>0. PICK b \in BOOLEAN : b = StillUnsaved(s)
  BY DEF StillUnsaved, Editor
<1>1. \A x \in BOOLEAN : /\ [screen[s] EXCEPT !.unsaved = x] \in Editor
                         /\ [screen[s] EXCEPT !.unsaved = x].path = screen[s].path
                         /\ [screen[s] EXCEPT !.unsaved = x].text = screen[s].text
                         /\ [screen[s] EXCEPT !.unsaved = x].unsaved = x
                         /\ [screen EXCEPT ![s].unsaved = x]
                              = [screen EXCEPT ![s] = [screen[s] EXCEPT !.unsaved = x]]
  BY TypeParts DEF Editor
<1>2. /\ [screen[s] EXCEPT !.timer = FALSE, !.unsaved = b] \in Editor
      /\ [screen[s] EXCEPT !.timer = FALSE, !.unsaved = b].path = screen[s].path
      /\ [screen[s] EXCEPT !.timer = FALSE, !.unsaved = b].text = screen[s].text
      /\ [screen[s] EXCEPT !.timer = FALSE, !.unsaved = b].unsaved = b
      /\ [screen EXCEPT ![s].timer = FALSE, ![s].unsaved = b]
           = [screen EXCEPT ![s] = [screen[s] EXCEPT !.timer = FALSE, !.unsaved = b]]
  BY TypeParts DEF Editor
<1>3. b \in BOOLEAN /\ FALSE \in BOOLEAN
  OBVIOUS
<1>4. \E e \in Editor :
        /\ [screen EXCEPT ![s].timer = FALSE, ![s].unsaved = StillUnsaved(s)]
             = [screen EXCEPT ![s] = e]
        /\ e.path = screen[s].path /\ e.text = screen[s].text
        /\ e.unsaved = StillUnsaved(s)
  BY <1>0, <1>2
<1>5. \E e \in Editor :
        /\ [screen EXCEPT ![s].unsaved = StillUnsaved(s)] = [screen EXCEPT ![s] = e]
        /\ e.path = screen[s].path /\ e.text = screen[s].text
        /\ e.unsaved = StillUnsaved(s)
  BY <1>0, <1>1
<1>6. \E e \in Editor :
        /\ [screen EXCEPT ![s].unsaved = FALSE] = [screen EXCEPT ![s] = e]
        /\ e.path = screen[s].path /\ e.text = screen[s].text
        /\ ~e.unsaved
  BY <1>1, <1>3
<1> QED
  BY <1>4, <1>5, <1>6

\* The types again, from their parts.
LEMMA TypeWhole ==
  ASSUME file' \in [Path -> Text \union {None}],
         tmp' \in [Path -> Text \union {None}],
         entry' \in [Path -> Text \union {None}],
         current' \in [path : Path \union {None}, text : Text \union {None}],
         screen' \in [Screen -> Editor \union {None}],
         stack' \in Seq(Screen),
         \A i \in DOMAIN stack' : screen'[stack'[i]] # None,
         save' \in [Saver -> Active \union {NoSave}],
         opening' \subseteq Path,
         list' \in List, list'.step \in {"created", "persist", "deleted"} => list'.path \in Path,
         unread' \subseteq Path,
         texts' \in 0 .. MaxTexts
  PROVE  TypeInv'
BY DEF TypeInv, ListNames, TypeOK, Active, List

LEMMA SaveStepTypes ==
  ASSUME TypeInv, NEW s \in Saver, SaveStep(s)
  PROVE  TypeInv'
<1>0. TypeOK /\ ListNames
  BY DEF TypeInv
<1>1. CASE WriteTmp(s)
  <2>1. save[s] \in Active
    BY <1>0, <1>1, StepActive DEF WriteTmp
  <2>2. save' \in [Saver -> Active \union {NoSave}]
    BY <1>0, <1>1, <2>1, GoFacts DEF WriteTmp
  <2>3. tmp' \in [Path -> Text \union {None}]
    BY <1>0, <1>1, <2>1, TypeParts DEF WriteTmp, Active
  <2> QED
    BY <1>0, <1>1, <2>2, <2>3, TypeParts, TypeWhole DEF WriteTmp, ListNames
<1>2. CASE Rename(s)
  <2>1. save[s] \in Active
    BY <1>0, <1>2, StepActive DEF Rename
  <2>2. save' \in [Saver -> Active \union {NoSave}]
    BY <1>0, <1>2, <2>1, GoFacts, EndFacts DEF Rename
  <2>3. /\ tmp' \in [Path -> Text \union {None}]
        /\ file' \in [Path -> Text \union {None}]
    BY <1>0, <1>2, <2>1, TypeParts DEF Rename, Active
  <2> QED
    BY <1>0, <1>2, <2>2, <2>3, TypeParts, TypeWhole DEF Rename, ListNames
<1>3. CASE UpdateEntry(s)
  <2>1. save[s] \in Active
    BY <1>0, <1>3, StepActive DEF UpdateEntry
  <2>2. save' \in [Saver -> Active \union {NoSave}]
    BY <1>0, <1>3, <2>1, GoFacts, EndFacts DEF UpdateEntry
  <2>3. entry' \in [Path -> Text \union {None}]
    BY <1>0, <1>3, <2>1, TypeParts DEF UpdateEntry, Active
  <2> QED
    BY <1>0, <1>3, <2>2, <2>3, TypeParts, TypeWhole DEF UpdateEntry, ListNames
<1>4. CASE Saved(s)
  <2>1. save' \in [Saver -> Active \union {NoSave}]
    BY <1>0, <1>4, EndFacts DEF Saved
  <2>2. /\ screen' \in [Screen -> Editor \union {None}]
        /\ \A i \in DOMAIN stack : screen'[stack[i]] # None
    <3>1. CASE s = Background \/ screen[s] = None
      BY <1>0, <1>4, <3>1, TypeParts DEF Saved
    <3>2. CASE ~(s = Background \/ screen[s] = None)
      <4>1. s \in Screen /\ screen[s] \in Editor
        BY <1>0, <3>2, HasEditor DEF Saver
      <4>2. PICK e \in Editor : screen' = [screen EXCEPT ![s] = e]
        BY <1>0, <1>4, <3>2, <4>1, UnmarkFacts DEF Saved
      <4> QED
        BY <1>0, <4>1, <4>2, OneScreenChanges
    <3> QED
      BY <3>1, <3>2
  <2> QED
    BY <1>0, <1>4, <2>1, <2>2, TypeParts, TypeWhole DEF Saved, ListNames
<1> QED
  BY <1>1, <1>2, <1>3, <1>4 DEF SaveStep

LEMMA BackgroundTypes ==
  ASSUME TypeInv, GoToBackground
  PROVE  TypeInv'
<1>0. TypeOK /\ ListNames
  BY DEF TypeInv
<1>1. Background \in Saver /\ current.path \in Path /\ current.text \in Text
  BY <1>0, TypeParts DEF GoToBackground, Saver
<1>2. /\ save' \in [Saver -> Active \union {NoSave}]
      /\ current' \in [path : Path \union {None}, text : Text \union {None}]
  BY <1>0, <1>1, SaveCurrentFacts DEF GoToBackground
<1> QED
  BY <1>0, <1>2, TypeParts, TypeWhole DEF GoToBackground, ListNames

LEMMA EditorTypes ==
  ASSUME TypeInv, NEW s \in Screen,
         Type(s) \/ TimerFires(s) \/ SaveButton(s) \/ Leave(s) \/ Dispose(s)
  PROVE  TypeInv'
<1>0. TypeOK /\ ListNames
  BY DEF TypeInv
<1>1. CASE Type(s)
  <2>1. PICK e \in Editor : screen' = [screen EXCEPT ![s] = e]
    BY <1>0, <1>1, TypeFacts
  <2>2. /\ screen' \in [Screen -> Editor \union {None}]
        /\ \A i \in DOMAIN stack : screen'[stack[i]] # None
    BY <1>0, <2>1, OneScreenChanges
  <2>3. texts' \in 0 .. MaxTexts
    BY <1>0, <1>1, Facts, TypeParts DEF Type, CountText
  <2> QED
    BY <1>0, <1>1, <2>2, <2>3, TypeParts, TypeWhole DEF Type, ListNames
<1>2. CASE TimerFires(s) \/ SaveButton(s)
  <2>1. screen[s] \in Editor /\ SaveNow(s)
    BY <1>0, <1>2, HasEditor, InFrontHas DEF TimerFires, SaveButton
  <2>2. PICK e \in Editor : screen' = [screen EXCEPT ![s] = e]
    <3>1. \/ screen' = [screen EXCEPT ![s].timer = FALSE, ![s].unsaved = StillUnsaved(s)]
          \/ screen' = [screen EXCEPT ![s].unsaved = StillUnsaved(s)]
      BY <1>2 DEF TimerFires, SaveButton
    <3>2. PICK e \in Editor : [screen EXCEPT ![s].timer = FALSE, ![s].unsaved = StillUnsaved(s)]
                              = [screen EXCEPT ![s] = e]
      BY <1>0, <2>1, UnmarkFacts
    <3>3. PICK d \in Editor : [screen EXCEPT ![s].unsaved = StillUnsaved(s)]
                              = [screen EXCEPT ![s] = d]
      BY <1>0, <2>1, UnmarkFacts
    <3> QED
      BY <3>1, <3>2, <3>3, Zenon
  <2>3. /\ screen' \in [Screen -> Editor \union {None}]
        /\ \A i \in DOMAIN stack : screen'[stack[i]] # None
    BY <1>0, <2>2, OneScreenChanges
  <2>4. /\ save' \in [Saver -> Active \union {NoSave}]
        /\ current' \in [path : Path \union {None}, text : Text \union {None}]
    BY <1>0, <2>1, SaveNowFacts
  <2>5. UNCHANGED <<file, tmp, entry, stack, opening, list, unread, texts>>
    BY <1>2 DEF TimerFires, SaveButton
  <2> QED
    BY <1>0, <2>3, <2>4, <2>5, TypeParts, TypeWhole DEF ListNames
<1>3. CASE Leave(s)
  <2>1. /\ stack' \in Seq(Screen)
        /\ \A i \in DOMAIN stack' : i \in DOMAIN stack /\ stack'[i] = stack[i]
    BY <1>0, <1>3, InFrontHas, TypeParts DEF Leave
  <2>2. \A i \in DOMAIN stack' : screen[stack'[i]] # None
    BY <1>0, <2>1, TypeParts
  <2> QED
    BY <1>0, <1>3, <2>1, <2>2, TypeParts, TypeWhole DEF Leave, ListNames
<1>4. CASE Dispose(s)
  <2>1. screen[s] \in Editor /\ \A i \in DOMAIN stack : stack[i] # s
    BY <1>0, <1>4, HasEditor DEF Dispose, Leaving
  <2>2. /\ save' \in [Saver -> Active \union {NoSave}]
        /\ current' \in [path : Path \union {None}, text : Text \union {None}]
    <3>1. CASE UNCHANGED <<current, save>>
      BY <1>0, <3>1, TypeParts
    <3>2. CASE SaveNow(s)
      BY <1>0, <2>1, <3>2, SaveNowFacts
    <3> QED
      BY <1>4, <3>1, <3>2 DEF Dispose
  <2>3. /\ screen' \in [Screen -> Editor \union {None}]
        /\ \A i \in DOMAIN stack : screen'[stack[i]] # None
    <3>1. \A i \in DOMAIN stack : stack[i] \in Screen
      BY <1>0, TypeParts
    <3>2. /\ screen' \in [Screen -> Editor \union {None}]
          /\ \A t \in Screen \ {s} : screen'[t] = screen[t]
      BY <1>0, <1>4, TypeParts DEF Dispose
    <3>3. ASSUME NEW i \in DOMAIN stack PROVE screen'[stack[i]] # None
      BY <1>0, <2>1, <3>1, <3>2, TypeParts
    <3> QED
      BY <3>2, <3>3
  <2> QED
    BY <1>0, <1>4, <2>2, <2>3, TypeParts, TypeWhole DEF Dispose, ListNames
<1> QED
  BY <1>1, <1>2, <1>3, <1>4

\* What a screen that has just been pushed looks like.
LEMMA OpenedFacts ==
  ASSUME TypeOK, NEW p \in Path, NEW s \in Screen, Opened(p, s)
  PROVE  \E e \in Editor :
           /\ screen' = [screen EXCEPT ![s] = e]
           /\ e.path = p /\ e.text = ContentOr(file[p], p) /\ ~e.unsaved
<1>1. PICK t \in Text : t = ContentOr(file[p], p)
  BY TypeParts, Facts DEF ContentOr
<1>2. [path |-> p, text |-> t, unsaved |-> FALSE, timer |-> FALSE] \in Editor
  BY DEF Editor
<1> QED
  BY <1>1, <1>2 DEF Opened

LEMMA OpenedTypes ==
  ASSUME TypeInv, NEW p \in Path, NEW s \in Screen, Opened(p, s)
  PROVE  TypeInv'
<1>0. TypeOK /\ ListNames
  BY DEF TypeInv
<1>1. PICK e \in Editor : screen' = [screen EXCEPT ![s] = e]
  BY <1>0, OpenedFacts
<1>2. /\ screen' \in [Screen -> Editor \union {None}]
      /\ screen'[s] = e
      /\ \A i \in DOMAIN stack : screen'[stack[i]] # None
  BY <1>0, <1>1, OneScreenChanges
<1>3. /\ stack' \in Seq(Screen)
      /\ \A i \in DOMAIN stack' : (i \in DOMAIN stack /\ stack'[i] = stack[i]) \/ stack'[i] = s
  BY <1>0, TypeParts DEF Opened
<1>4. \A i \in DOMAIN stack' : screen'[stack'[i]] # None
  BY <1>2, <1>3, Facts
<1>5. /\ current' \in [path : Path \union {None}, text : Text \union {None}]
      /\ opening' \subseteq Path /\ unread' \subseteq Path
  BY <1>0, TypeParts DEF Opened
<1> QED
  BY <1>0, <1>2, <1>3, <1>4, <1>5, TypeParts, TypeWhole DEF Opened, ListNames

LEMMA ListTypes ==
  ASSUME TypeInv,
         NEW p \in Path,
         \/ OpenNote(p) \/ CreateNote(p) \/ PullNote(p) \/ DeleteFile(p)
         \/ (\E P \in SUBSET Path : Delete(P))
         \/ CreateEntry \/ Created \/ RemoveEntry
  PROVE  TypeInv'
<1>0. TypeOK /\ ListNames
  BY DEF TypeInv
<1>t. Blank(p) \in Text /\ Blank(p).of = p
  BY Facts
<1>1. CASE OpenNote(p)
  <2>1. current' \in [path : Path \union {None}, text : Text \union {None}]
    BY <1>0, <1>1, TypeParts DEF OpenNote
  <2> QED
    BY <1>0, <1>1, <2>1, TypeParts, TypeWhole DEF OpenNote, ListNames
<1>2. CASE CreateNote(p)
  <2>1. list' \in List /\ list'.step = "created" /\ list'.path = p
    BY <1>2 DEF CreateNote, List
  <2>2. file' \in [Path -> Text \union {None}]
    BY <1>0, <1>2, <1>t, TypeParts DEF CreateNote
  <2> QED
    BY <1>0, <1>2, <2>1, <2>2, TypeParts, TypeWhole DEF CreateNote, ListOnly
<1>3. CASE PullNote(p)
  <2>1. NewText(p) \in Text /\ texts' \in 0 .. MaxTexts
    BY <1>0, <1>3, NewTextFacts, TypeParts DEF PullNote
  <2>2. /\ file' \in [Path -> Text \union {None}]
        /\ entry' \in [Path -> Text \union {None}]
        /\ unread' \subseteq Path
    BY <1>0, <1>3, <2>1, TypeParts DEF PullNote
  <2> QED
    BY <1>0, <1>3, <2>1, <2>2, TypeParts, TypeWhole DEF PullNote, ListNames
<1>4. CASE DeleteFile(p)
  <2>0. list.left \ {p} \in SUBSET Path
    BY <1>0, TypeParts DEF List
  <2>1. list' \in List /\ list'.path = p
    BY <1>4, <2>0 DEF DeleteFile, List
  <2>2. file' \in [Path -> Text \union {None}]
    BY <1>0, <1>4, TypeParts DEF DeleteFile
  <2> QED
    BY <1>0, <1>4, <2>1, <2>2, TypeParts, TypeWhole DEF DeleteFile, ListOnly
<1>5. ASSUME NEW P \in SUBSET Path, Delete(P) PROVE TypeInv'
  <2>1. list' \in List /\ list'.step = "delete"
    BY <1>5 DEF Delete, List
  <2> QED
    BY <1>0, <1>5, <2>1, TypeParts, TypeWhole DEF Delete, ListOnly
<1>6. CASE CreateEntry
  <2>1. list.path \in Path
    BY <1>0, <1>6 DEF CreateEntry, ListNames
  <2>2. entry' \in [Path -> Text \union {None}]
    BY <1>0, <1>6, <2>1, TypeParts, Facts DEF CreateEntry
  <2>3. list' \in List /\ list'.path = list.path
    BY <1>0, <1>6, TypeParts DEF CreateEntry, List
  <2> QED
    BY <1>0, <1>6, <2>1, <2>2, <2>3, TypeParts, TypeWhole DEF CreateEntry, ListOnly
<1>7. CASE Created
  <2>1. list.path \in Path
    BY <1>0, <1>7 DEF Created, ListNames
  <2>2. current' \in [path : Path \union {None}, text : Text \union {None}]
    BY <1>7, <2>1, Facts DEF Created
  <2>3. list' \in List /\ list'.step = "idle"
    BY <1>7 DEF Created, NoList, List
  <2> QED
    BY <1>0, <1>7, <2>1, <2>2, <2>3, TypeParts, TypeWhole DEF Created, ListOnly
<1>8. CASE RemoveEntry
  <2>1. list.path \in Path
    BY <1>0, <1>8 DEF RemoveEntry, ListNames
  <2>2. entry' \in [Path -> Text \union {None}]
    BY <1>0, <1>8, <2>1, TypeParts DEF RemoveEntry
  <2>3. list' \in List /\ list'.step \in {"idle", "delete"}
    BY <1>0, <1>8, TypeParts DEF RemoveEntry, AfterEntry, NoList, List
  <2>4. current' \in [path : Path \union {None}, text : Text \union {None}]
    BY <1>0, <1>8, TypeParts DEF RemoveEntry, Nothing
  <2> QED
    BY <1>0, <1>8, <2>2, <2>3, <2>4, TypeParts, TypeWhole DEF RemoveEntry, ListOnly
<1> QED
  BY <1>1, <1>2, <1>3, <1>4, <1>5, <1>6, <1>7, <1>8

LEMMA BelowFolder == {p \in Folder : entry[p] # None} \in SUBSET Path
BY Facts

LEMMA NextTypes == TypeInv /\ [Next]_vars => TypeInv'
<1> SUFFICES ASSUME TypeInv, [Next]_vars PROVE TypeInv'
  OBVIOUS
<1>1. CASE \E s \in Saver : SaveStep(s)
  BY <1>1, SaveStepTypes
<1>2. CASE \E s \in Screen : Type(s) \/ TimerFires(s) \/ SaveButton(s) \/ Leave(s) \/ Dispose(s)
  BY <1>2, EditorTypes
<1>3. CASE \E p \in Path : OpenNote(p) \/ CreateNote(p) \/ Delete({p}) \/ PullNote(p)
                           \/ \E s \in Screen : Opened(p, s)
  <2>1. \A p \in Path : {p} \in SUBSET Path
    OBVIOUS
  <2> QED
    BY <1>3, <2>1, ListTypes, OpenedTypes
<1>4. CASE Delete({p \in Folder : entry[p] # None})
  <2>1. PICK P \in SUBSET Path : P = {p \in Folder : entry[p] # None}
    BY BelowFolder
  <2>2. Delete(P) /\ P # {}
    BY <1>4, <2>1 DEF Delete
  <2> QED
    BY <2>1, <2>2, ListTypes
<1>5. CASE ListStep
  <2>1. CreateEntry \/ Created \/ RemoveEntry => list.path \in Path
    BY DEF TypeInv, ListNames, CreateEntry, Created, RemoveEntry
  <2> QED
    BY <1>5, <2>1, ListTypes DEF ListStep
<1>6. CASE GoToBackground
  BY <1>6, BackgroundTypes
<1>7. CASE UNCHANGED vars
  BY <1>7 DEF vars, TypeInv, TypeOK, ListNames, Step
<1> QED
  BY <1>1, <1>2, <1>3, <1>4, <1>5, <1>6, <1>7 DEF Next

LEMMA InitTypes == Init => TypeInv
<1> SUFFICES ASSUME Init PROVE TypeInv
  OBVIOUS
<1>1. file \in [Path -> Text \union {None}]
  BY Facts DEF Init
<1> QED
  BY <1>1, Facts DEF Init, TypeInv, TypeOK, ListNames, Nothing, NoSave, NoList

\* Every state of the editor screens, of NotesState and of what is in progress has its
\* type, whatever comes in between: saves, openings, deletions, pulls.
THEOREM EditingTypeCorrect == Spec => []TypeOK
<1>1. Spec => []TypeInv
  BY InitTypes, NextTypes, PTL DEF Spec
<1>2. TypeInv => TypeOK
  BY DEF TypeInv
<1> QED
  BY <1>1, <1>2, PTL

-----------------------------------------------------------------------------
\* Saves and operations of the list

\* A save, a creation, a deletion or an opening does not begin while another is in progress.
NoOverlap == "overlap" \notin Disturbances

NoScreens == stack = <<>> /\ \A s \in Screen : screen[s] = None

\* What is in progress is alone.
OneSave == \A s, t \in Saver : ~SaveIdle(s) /\ ~SaveIdle(t) => s = t
SavingAlone == (\E s \in Saver : ~SaveIdle(s)) => list = NoList
ListAlone == list # NoList => opening = {} /\ NoScreens

Alone == OneSave /\ SavingAlone /\ ListAlone

\* A save writes the note that is still the current one when it comes to the entry.
SavesCurrent ==
  \A s \in Saver : ~SaveIdle(s) =>
    /\ save[s].path = current.path
    /\ Step(s, "rename") => tmp[current.path] = save[s].text
    /\ save[s].step \in {"entry", "persist"} => file[current.path] = save[s].text

\* The current note has a file until its deletion is done.
CurrentHasFile ==
  current.path # None /\ ~(list.step = "deleted" /\ list.path = current.path)
    => file[current.path] # None

\* An entry has the hash of its file unless an operation is between the two.
EntriesMatch ==
  \A p \in Path :
    \/ entry[p] = file[p]
    \/ p = current.path /\ \E s \in Saver : Step(s, "entry")
    \/ p = list.path /\ list.step \in {"created", "deleted"}

ListFile ==
  /\ list.step \in {"created", "persist"} => file[list.path] = Blank(list.path)
  /\ list.step = "deleted" => file[list.path] = None

SaveInv == Alone /\ SavesCurrent /\ CurrentHasFile /\ EntriesMatch /\ ListFile

BaseInv == TypeInv /\ SaveInv

LEMMA Begins ==
  ASSUME NoOverlap
  PROVE  /\ ~Allowed("overlap")
         /\ MayBegin => Quiet /\ opening = {} /\ \A s \in Screen : ~Leaving(s)
         /\ MayBegin /\ stack = <<>> => NoScreens
BY DEF NoOverlap, Allowed, MayBegin, Leaving, NoScreens

LEMMA QuietMatches ==
  ASSUME BaseInv, Quiet
  PROVE  /\ list = NoList /\ list.step = "idle"
         /\ \A s \in Saver : SaveIdle(s) /\ save[s] = NoSave /\ ~Step(s, "entry")
         /\ \A p \in Path : entry[p] = file[p]
         /\ entry = file
<1>1. list = NoList /\ list.step = "idle" /\ \A s \in Saver : SaveIdle(s) /\ ~Step(s, "entry")
  BY DEF Quiet, NoList, SaveIdle, Step, NoSave
<1>2. \A p \in Path : entry[p] = file[p]
  BY <1>1 DEF BaseInv, SaveInv, EntriesMatch
<1>3. entry \in [Path -> Text \union {None}] /\ file \in [Path -> Text \union {None}]
  BY TypeParts DEF BaseInv, TypeInv
<1> QED
  BY <1>1, <1>2, <1>3 DEF SaveIdle

\* What a save in progress is about, and that it is the only one.
LEMMA Saving ==
  ASSUME BaseInv, NEW s \in Saver, ~SaveIdle(s)
  PROVE  /\ save[s] \in Active
         /\ save[s].path = current.path /\ current.path \in Path /\ current.path # None
         /\ \A t \in Saver \ {s} : save[t] = NoSave /\ ~Step(t, "entry")
         /\ list = NoList /\ list.step = "idle"
<1>1. save[s] \in Active
  BY SavingHas DEF BaseInv, TypeInv
<1>2. save[s].path = current.path
  BY DEF BaseInv, SaveInv, SavesCurrent
<1>3. \A t \in Saver \ {s} : save[t] = NoSave
  BY DEF BaseInv, SaveInv, Alone, OneSave, SaveIdle
<1>4. list = NoList /\ list.step = "idle"
  BY DEF BaseInv, SaveInv, Alone, SavingAlone, NoList
<1> QED
  BY <1>1, <1>2, <1>3, <1>4, Facts DEF Active, Step, NoSave

\* While one save goes on, no other begins.
LEMMA SavingKeepsAlone ==
  ASSUME BaseInv, NEW s \in Saver, ~SaveIdle(s), UNCHANGED list,
         \A t \in Saver \ {s} : save'[t] = save[t]
  PROVE  /\ Alone'
         /\ \A t \in Saver \ {s} : SaveIdle(t)' /\ ~Step(t, "entry")'
<1>1. list = NoList /\ \A t \in Saver \ {s} : save[t] = NoSave
  BY Saving
<1>2. \A t \in Saver \ {s} : SaveIdle(t)' /\ ~Step(t, "entry")'
  BY <1>1 DEF SaveIdle, Step, NoSave
<1> QED
  BY <1>1, <1>2 DEF Alone, OneSave, SavingAlone, ListAlone

LEMMA WriteTmpBase ==
  ASSUME BaseInv, NEW s \in Saver, WriteTmp(s)
  PROVE  SaveInv'
<1>1. TypeOK /\ ~SaveIdle(s) /\ save[s] \in Active
  BY StepActive DEF WriteTmp, BaseInv, TypeInv
<1>2. /\ save[s].path = current.path /\ current.path \in Path
      /\ \A t \in Saver \ {s} : ~Step(t, "entry")
  BY <1>1, Saving
<1>3. /\ save'[s].step = "rename"
      /\ save'[s].path = save[s].path /\ save'[s].text = save[s].text
      /\ \A t \in Saver \ {s} : save'[t] = save[t]
  BY <1>1, GoFacts DEF WriteTmp
<1>4. UNCHANGED <<file, entry, current, list>>
  BY DEF WriteTmp
<1>5. Alone' /\ \A t \in Saver \ {s} : SaveIdle(t)' /\ ~Step(t, "entry")'
  BY <1>1, <1>3, <1>4, SavingKeepsAlone
<1>6. tmp'[current.path] = save[s].text
  BY <1>1, <1>2, TypeParts DEF WriteTmp
<1>7. CurrentHasFile' /\ ListFile'
  BY <1>4 DEF BaseInv, SaveInv, CurrentHasFile, ListFile
<1>8. SavesCurrent'
  BY <1>2, <1>3, <1>4, <1>5, <1>6 DEF SavesCurrent, Step
<1>9. EntriesMatch'
  BY <1>2, <1>4 DEF EntriesMatch, BaseInv, SaveInv, Step, WriteTmp
<1> QED
  BY <1>5, <1>7, <1>8, <1>9 DEF SaveInv

\* What Rename does: the temporary file is there, and becomes the note's file.
LEMMA RenameFacts ==
  ASSUME BaseInv, NEW s \in Saver, Rename(s)
  PROVE  /\ TypeOK /\ ~SaveIdle(s) /\ save[s] \in Active
         /\ save[s].path = current.path /\ current.path \in Path
         /\ save[s].text # None
         /\ file'[current.path] = save[s].text
         /\ \A p \in Path \ {current.path} : file'[p] = file[p]
         /\ save'[s].step = "entry"
         /\ save'[s].path = save[s].path /\ save'[s].text = save[s].text
         /\ \A t \in Saver \ {s} : save'[t] = save[t]
         /\ UNCHANGED <<entry, current, screen, stack, opening, list, unread>>
<1>1. TypeOK /\ ~SaveIdle(s) /\ save[s] \in Active
  BY StepActive DEF Rename, BaseInv, TypeInv
<1>2. save[s].path = current.path /\ current.path \in Path
  BY <1>1, Saving
<1>3. tmp[current.path] = save[s].text /\ save[s].text # None
  BY <1>1, <1>2, Facts DEF Rename, BaseInv, SaveInv, SavesCurrent, Active
<1>4. /\ Go(s, "entry")
      /\ file' = [file EXCEPT ![current.path] = save[s].text]
      /\ UNCHANGED <<entry, current, screen, stack, opening, list, unread>>
  BY <1>2, <1>3 DEF Rename
<1>5. /\ file'[current.path] = save[s].text
      /\ \A p \in Path \ {current.path} : file'[p] = file[p]
  BY <1>1, <1>2, <1>4, TypeParts
<1> QED
  BY <1>1, <1>2, <1>3, <1>4, <1>5, GoFacts

LEMMA RenameBase ==
  ASSUME BaseInv, NEW s \in Saver, Rename(s)
  PROVE  SaveInv'
<1>1. /\ TypeOK /\ ~SaveIdle(s) /\ save[s] \in Active
      /\ save[s].path = current.path /\ current.path \in Path
      /\ save[s].text # None
      /\ file'[current.path] = save[s].text
      /\ \A p \in Path \ {current.path} : file'[p] = file[p]
      /\ save'[s].step = "entry"
      /\ save'[s].path = save[s].path /\ save'[s].text = save[s].text
      /\ \A t \in Saver \ {s} : save'[t] = save[t]
      /\ UNCHANGED <<entry, current, list>>
  BY RenameFacts
<1>2. /\ list.step = "idle" /\ ~Step(s, "entry")
      /\ \A t \in Saver \ {s} : ~Step(t, "entry")
  BY <1>1, Saving DEF Rename, Step
<1>3. Alone' /\ \A t \in Saver \ {s} : SaveIdle(t)' /\ ~Step(t, "entry")'
  BY <1>1, SavingKeepsAlone
<1>4. CurrentHasFile' /\ ListFile'
  BY <1>1, <1>2 DEF BaseInv, SaveInv, CurrentHasFile, ListFile
<1>5. SavesCurrent'
  BY <1>1, <1>3 DEF SavesCurrent, Step
<1>6. EntriesMatch'
  <2>1. \A p \in Path : entry[p] = file[p]
    BY <1>2 DEF BaseInv, SaveInv, EntriesMatch
  <2>2. Step(s, "entry")'
    BY <1>1 DEF Step
  <2> QED
    BY <1>1, <2>1, <2>2 DEF EntriesMatch
<1> QED
  BY <1>3, <1>4, <1>5, <1>6 DEF SaveInv

LEMMA UpdateEntryBase ==
  ASSUME BaseInv, NEW s \in Saver, UpdateEntry(s)
  PROVE  SaveInv'
<1>1. TypeOK /\ ~SaveIdle(s) /\ save[s] \in Active
  BY StepActive DEF UpdateEntry, BaseInv, TypeInv
<1>2. /\ save[s].path = current.path
      /\ current.path \in Path /\ current.path # None
      /\ list.step = "idle"
      /\ \A t \in Saver \ {s} : ~Step(t, "entry")
  BY <1>1, Saving
<1>3. file[current.path] = save[s].text
  BY <1>1 DEF UpdateEntry, BaseInv, SaveInv, SavesCurrent, Step
<1>4. /\ Go(s, "persist")
      /\ entry' = [entry EXCEPT ![current.path] = save[s].text]
      /\ UNCHANGED <<file, tmp, current, list>>
  BY <1>2 DEF UpdateEntry
<1>5. /\ save'[s].step = "persist"
      /\ save'[s].path = save[s].path /\ save'[s].text = save[s].text
      /\ \A t \in Saver \ {s} : save'[t] = save[t]
  BY <1>1, <1>4, GoFacts
<1>6. Alone' /\ \A t \in Saver \ {s} : SaveIdle(t)' /\ ~Step(t, "entry")'
  BY <1>1, <1>4, <1>5, SavingKeepsAlone
<1>7. CurrentHasFile' /\ ListFile'
  BY <1>4 DEF BaseInv, SaveInv, CurrentHasFile, ListFile
<1>8. SavesCurrent'
  BY <1>2, <1>3, <1>4, <1>5, <1>6 DEF SavesCurrent, Step
<1>9. EntriesMatch'
  BY <1>1, <1>2, <1>3, <1>4, TypeParts DEF EntriesMatch, BaseInv, SaveInv
<1> QED
  BY <1>6, <1>7, <1>8, <1>9 DEF SaveInv

LEMMA SavedBase ==
  ASSUME BaseInv, NEW s \in Saver, Saved(s)
  PROVE  SaveInv'
<1>1. TypeOK /\ ~SaveIdle(s)
  BY StepActive DEF Saved, BaseInv, TypeInv
<1>2. list = NoList /\ list.step = "idle" /\ \A t \in Saver \ {s} : save[t] = NoSave
  BY <1>1, Saving
<1>3. \A t \in Saver : SaveIdle(t)' /\ ~Step(t, "entry")' /\ ~Step(t, "entry")
  BY <1>1, <1>2, EndFacts DEF Saved, SaveIdle, Step, NoSave
<1>4. UNCHANGED <<file, tmp, entry, current, list>>
  BY DEF Saved
<1> QED
  BY <1>2, <1>3, <1>4 DEF SaveInv, Alone, OneSave, SavingAlone, ListAlone, SavesCurrent,
     CurrentHasFile, ListFile, EntriesMatch, BaseInv

\* A save that begins when nothing is in progress.
LEMMA SaveBeginsBase ==
  ASSUME BaseInv, Quiet, NEW s \in Saver,
         save'[s] = save[s] \/ (save'[s].step = "write" /\ save'[s].path = current.path),
         \A q \in Saver \ {s} : save'[q] = save[q],
         current'.path = current.path,
         UNCHANGED <<file, tmp, entry, list>>
  PROVE  SaveInv'
<1>1. /\ list = NoList /\ \A q \in Saver : save[q] = NoSave
      /\ \A p \in Path : entry[p] = file[p]
  BY QuietMatches
<1>2. \A q \in Saver \ {s} : SaveIdle(q)'
  BY <1>1 DEF SaveIdle
<1>3. Alone'
  BY <1>1, <1>2 DEF Alone, OneSave, SavingAlone, ListAlone
<1>4. CurrentHasFile' /\ ListFile' /\ EntriesMatch'
  BY <1>1 DEF CurrentHasFile, ListFile, EntriesMatch, BaseInv, SaveInv
<1>5. SavesCurrent'
  BY <1>1, <1>2 DEF SavesCurrent, SaveIdle, Step
<1> QED
  BY <1>3, <1>4, <1>5 DEF SaveInv

\* What only concerns screens and openings, when no operation of the list is in progress.
LEMMA BaseFrame ==
  ASSUME BaseInv, list = NoList, current'.path = current.path,
         UNCHANGED <<file, tmp, entry, save, list>>
  PROVE  SaveInv'
<1>1. Alone'
  BY DEF Alone, OneSave, SavingAlone, ListAlone, SaveIdle, BaseInv, SaveInv
<1>2. SavesCurrent' /\ CurrentHasFile' /\ ListFile' /\ EntriesMatch'
  BY DEF SavesCurrent, CurrentHasFile, ListFile, EntriesMatch, SaveIdle, Step, BaseInv, SaveInv
<1> QED
  BY <1>1, <1>2 DEF SaveInv

\* _saveNow starts a save of the current note, or none.
LEMMA SaveNowBase ==
  ASSUME BaseInv, Quiet, NEW s \in Screen, screen[s] # None, SaveNow(s),
         UNCHANGED <<file, tmp, entry, list>>
  PROVE  SaveInv'
<1>1. TypeOK /\ s \in Saver /\ screen[s] \in Editor
  BY HasEditor DEF BaseInv, TypeInv, Saver
<1>2. /\ current'.path = current.path
      /\ \A q \in Saver \ {s} : save'[q] = save[q]
      /\ save'[s] = IF screen[s].unsaved /\ current.path # None
                      THEN [step |-> "write", path |-> current.path, text |-> screen[s].text]
                      ELSE save[s]
  BY <1>1, SaveNowFacts
<1>3. save'[s] = save[s] \/ (save'[s].step = "write" /\ save'[s].path = current.path)
  BY <1>2
<1> QED
  BY <1>1, <1>2, <1>3, SaveBeginsBase

LEMMA EditorBase ==
  ASSUME BaseInv, NoOverlap, NEW s \in Screen,
         Type(s) \/ TimerFires(s) \/ SaveButton(s) \/ Leave(s) \/ Dispose(s)
  PROVE  SaveInv'
<1>0. TypeOK
  BY DEF BaseInv, TypeInv
<1>1. CASE Type(s) \/ Leave(s)
  <2>1. InFront(s) /\ UNCHANGED <<file, tmp, entry, current, save, list>>
    BY <1>1 DEF Type, Leave
  <2>2. list = NoList
    BY <1>0, <2>1, InFrontHas DEF BaseInv, SaveInv, Alone, ListAlone, NoScreens
  <2> QED
    BY <2>1, <2>2, BaseFrame
<1>2. CASE TimerFires(s) \/ SaveButton(s)
  <2>1. screen[s] # None /\ SaveNow(s) /\ Quiet
    BY <1>0, <1>2, Begins, InFrontHas, Facts DEF TimerFires, SaveButton
  <2>2. UNCHANGED <<file, tmp, entry, list>>
    BY <1>2 DEF TimerFires, SaveButton
  <2> QED
    BY <2>1, <2>2, SaveNowBase
<1>3. CASE Dispose(s)
  <2>1. /\ Quiet /\ screen[s] # None
        /\ UNCHANGED <<file, tmp, entry, list>>
        /\ SaveNow(s) \/ UNCHANGED <<current, save>>
    BY <1>3, Begins DEF Dispose, Leaving
  <2>2. CASE UNCHANGED <<current, save>>
    BY <2>1, <2>2, BaseFrame, QuietMatches
  <2> QED
    BY <2>1, <2>2, SaveNowBase
<1> QED
  BY <1>1, <1>2, <1>3

LEMMA BackgroundBase ==
  ASSUME BaseInv, NoOverlap, GoToBackground
  PROVE  SaveInv'
<1>1. TypeOK /\ Quiet
  BY Begins DEF GoToBackground, BaseInv, TypeInv
<1>2. Background \in Saver /\ current.path \in Path /\ current.text \in Text
  BY <1>1, TypeParts DEF GoToBackground, Saver
<1>3. PICK t \in Text : t = current.text /\ SaveCurrent(Background, t)
  BY <1>2 DEF GoToBackground
<1>4. /\ save'[Background] = [step |-> "write", path |-> current.path, text |-> t]
      /\ \A q \in Saver \ {Background} : save'[q] = save[q]
      /\ current'.path = current.path
  BY <1>1, <1>2, <1>3, SaveCurrentFacts
<1>5. UNCHANGED <<file, tmp, entry, list>>
  BY DEF GoToBackground
<1> QED
  BY <1>1, <1>2, <1>4, <1>5, SaveBeginsBase

LEMMA OpenNoteBase ==
  ASSUME BaseInv, NoOverlap, NEW p \in Path, OpenNote(p)
  PROVE  SaveInv'
<1>1. TypeOK /\ Quiet
  BY Begins DEF OpenNote, BaseInv, TypeInv
<1>2. /\ list = NoList /\ list.step = "idle" /\ \A s \in Saver : SaveIdle(s) /\ ~Step(s, "entry")
      /\ \A q \in Path : entry[q] = file[q]
  BY <1>1, QuietMatches
<1>3. current'.path = p /\ file[p] # None
  BY <1>1, <1>2, TypeParts DEF OpenNote
<1>4. UNCHANGED <<file, tmp, entry, save, list>>
  BY DEF OpenNote
<1>5. Alone' /\ SavesCurrent'
  BY <1>2, <1>4 DEF Alone, OneSave, SavingAlone, ListAlone, SavesCurrent, SaveIdle
<1>6. CurrentHasFile' /\ EntriesMatch' /\ ListFile'
  BY <1>2, <1>3, <1>4 DEF CurrentHasFile, EntriesMatch, ListFile, BaseInv, SaveInv
<1> QED
  BY <1>5, <1>6 DEF SaveInv

LEMMA OpenedBase ==
  ASSUME BaseInv, NEW p \in Path, NEW s \in Screen, Opened(p, s)
  PROVE  SaveInv'
<1>1. list = NoList
  BY DEF Opened, BaseInv, SaveInv, Alone, ListAlone
<1>2. current'.path = current.path
  BY TypeParts DEF Opened, BaseInv, TypeInv
<1>3. UNCHANGED <<file, tmp, entry, save, list>>
  BY DEF Opened
<1> QED
  BY <1>1, <1>2, <1>3, BaseFrame

\* What there is when an operation of the list begins, and while it is in progress.
LEMMA ListBegins ==
  ASSUME BaseInv, NoOverlap, ListMayBegin
  PROVE  /\ NoScreens /\ Quiet /\ opening = {} /\ list.step = "idle"
         /\ \A s \in Saver : SaveIdle(s) /\ ~Step(s, "entry")
         /\ \A p \in Path : entry[p] = file[p]
BY Begins, QuietMatches DEF ListMayBegin

LEMMA ListWorks ==
  ASSUME BaseInv, list # NoList
  PROVE  /\ NoScreens /\ opening = {}
         /\ \A s \in Saver : SaveIdle(s) /\ ~Step(s, "entry")
BY DEF BaseInv, SaveInv, Alone, ListAlone, SavingAlone, SaveIdle, Step, NoSave

\* createNote and deleteNote leave the saves alone, which are none.
LEMMA ListFrame ==
  ASSUME NoScreens, \A s \in Saver : SaveIdle(s), ListOnly, opening' = {} \/ list' = NoList
  PROVE  /\ Alone' /\ SavesCurrent'
         /\ \A s \in Saver : SaveIdle(s)' /\ ~Step(s, "entry")'
<1>1. NoScreens' /\ \A s \in Saver : SaveIdle(s)' /\ ~Step(s, "entry")'
  BY DEF ListOnly, NoScreens, SaveIdle, Step, NoSave
<1> QED
  BY <1>1 DEF Alone, OneSave, SavingAlone, ListAlone, SavesCurrent

LEMMA CreateNoteBase ==
  ASSUME BaseInv, NoOverlap, NEW p \in Path, CreateNote(p)
  PROVE  SaveInv'
<1>1. TypeOK /\ ListOnly /\ UNCHANGED <<entry, current, opening>>
  BY DEF CreateNote, BaseInv, TypeInv
<1>2. /\ NoScreens /\ opening = {} /\ list.step = "idle"
      /\ \A s \in Saver : SaveIdle(s)
      /\ \A q \in Path : entry[q] = file[q]
  BY ListBegins DEF CreateNote
<1>3. Alone' /\ SavesCurrent'
  BY <1>1, <1>2, ListFrame
<1>4. /\ file'[p] = Blank(p) /\ Blank(p) # None
      /\ \A q \in Path \ {p} : file'[q] = file[q]
      /\ list'.step = "created" /\ list'.path = p
  BY <1>1, TypeParts, Facts DEF CreateNote
<1>5. current.path \in Path \union {None}
  BY <1>1, TypeParts
<1>6. CurrentHasFile'
  BY <1>1, <1>2, <1>4, <1>5 DEF CurrentHasFile, BaseInv, SaveInv
<1>7. ListFile' /\ EntriesMatch'
  BY <1>1, <1>2, <1>4 DEF ListFile, EntriesMatch
<1> QED
  BY <1>3, <1>6, <1>7 DEF SaveInv

LEMMA DeleteBase ==
  ASSUME BaseInv, NoOverlap, NEW P \in SUBSET Path, Delete(P)
  PROVE  SaveInv'
<1>1. ListOnly /\ UNCHANGED <<file, entry, current, opening>>
  BY DEF Delete
<1>2. /\ NoScreens /\ opening = {} /\ list.step = "idle" /\ list'.step = "delete"
      /\ \A s \in Saver : SaveIdle(s)
      /\ \A q \in Path : entry[q] = file[q]
  BY ListBegins DEF Delete
<1>3. Alone' /\ SavesCurrent'
  BY <1>1, <1>2, ListFrame
<1>4. CurrentHasFile' /\ ListFile' /\ EntriesMatch'
  BY <1>1, <1>2 DEF CurrentHasFile, ListFile, EntriesMatch, BaseInv, SaveInv
<1> QED
  BY <1>3, <1>4 DEF SaveInv

LEMMA ListStepBase ==
  ASSUME BaseInv, ListStep
  PROVE  SaveInv'
<1>0. TypeOK /\ ListNames /\ ListOnly
  BY DEF BaseInv, TypeInv, ListStep, CreateEntry, Created, RemoveEntry, DeleteFile
<1>1. /\ NoScreens /\ opening = {}
      /\ \A s \in Saver : SaveIdle(s) /\ ~Step(s, "entry")
  <2>1. list # NoList
    BY DEF ListStep, CreateEntry, Created, RemoveEntry, DeleteFile, NoList
  <2> QED
    BY <2>1, ListWorks
<1>2. \A p \in Path : entry[p] = file[p] \/ (p = list.path /\ list.step \in {"created", "deleted"})
  BY <1>1 DEF BaseInv, SaveInv, EntriesMatch
<1>3. current.path \in Path \union {None}
  BY <1>0, TypeParts
<1>4. Alone' /\ SavesCurrent'
  <2>1. opening' = {} \/ list' = NoList
    BY <1>1 DEF ListStep, CreateEntry, Created, RemoveEntry, DeleteFile
  <2> QED
    BY <1>0, <1>1, <2>1, ListFrame
<1> SUFFICES CurrentHasFile' /\ ListFile' /\ EntriesMatch'
  BY <1>4 DEF SaveInv
<1>5. CASE CreateEntry
  <2>1. /\ list.step = "created" /\ list.path \in Path /\ file[list.path] = Blank(list.path)
        /\ UNCHANGED <<file, current>>
    BY <1>0, <1>5 DEF CreateEntry, ListNames, BaseInv, SaveInv, ListFile
  <2>2. list'.step = "persist" /\ list'.path = list.path
    BY <1>0, <1>5, TypeParts DEF CreateEntry, List
  <2>3. \A p \in Path : entry'[p] = file[p]
    BY <1>0, <1>2, <1>5, <2>1, TypeParts DEF CreateEntry
  <2> QED
    BY <2>1, <2>2, <2>3 DEF CurrentHasFile, ListFile, EntriesMatch, BaseInv, SaveInv
<1>6. CASE Created
  <2>1. /\ list.step = "persist" /\ list.path \in Path /\ file[list.path] = Blank(list.path)
        /\ UNCHANGED <<file, entry>>
    BY <1>0, <1>6 DEF Created, ListNames, BaseInv, SaveInv, ListFile
  <2>2. current'.path = list.path /\ list'.step = "idle"
    BY <1>6 DEF Created, NoList
  <2>3. file[list.path] # None
    BY <2>1, Facts
  <2> QED
    BY <1>2, <2>1, <2>2, <2>3 DEF CurrentHasFile, ListFile, EntriesMatch
<1>7. CASE RemoveEntry
  <2>1. /\ list.step = "deleted" /\ list.path \in Path /\ file[list.path] = None
        /\ UNCHANGED file
    BY <1>0, <1>7 DEF RemoveEntry, ListNames, BaseInv, SaveInv, ListFile
  <2>2. list'.step \in {"idle", "delete"}
    BY <1>0, <1>7, TypeParts DEF RemoveEntry, AfterEntry, NoList, List
  <2>3. \A p \in Path : entry'[p] = file[p]
    BY <1>0, <1>2, <1>7, <2>1, TypeParts DEF RemoveEntry
  <2>4. \/ current'.path = None
        \/ current' = current /\ current.path # list.path
    BY <1>7 DEF RemoveEntry, Nothing
  <2> QED
    BY <2>1, <2>2, <2>3, <2>4 DEF CurrentHasFile, ListFile, EntriesMatch, BaseInv, SaveInv
<1>8. ASSUME NEW p \in Path, DeleteFile(p) PROVE CurrentHasFile' /\ ListFile' /\ EntriesMatch'
  <2>1. list.step = "delete" /\ UNCHANGED <<entry, current>>
    BY <1>8 DEF DeleteFile
  <2>2. list'.step = "deleted" /\ list'.path = p
    BY <1>8 DEF DeleteFile
  <2>3. file'[p] = None /\ \A q \in Path \ {p} : file'[q] = file[q]
    BY <1>0, <1>8, TypeParts DEF DeleteFile
  <2>4. CurrentHasFile'
    BY <1>3, <2>1, <2>2, <2>3 DEF CurrentHasFile, BaseInv, SaveInv
  <2> QED
    BY <1>2, <2>1, <2>2, <2>3, <2>4 DEF ListFile, EntriesMatch
<1> QED
  BY <1>5, <1>6, <1>7, <1>8 DEF ListStep

LEMMA PullBase ==
  ASSUME BaseInv, NEW p \in Path, PullNote(p)
  PROVE  SaveInv'
<1>1. TypeOK /\ Quiet
  BY DEF PullNote, BaseInv, TypeInv
<1>2. /\ list = NoList /\ list.step = "idle"
      /\ \A s \in Saver : SaveIdle(s)
      /\ \A q \in Path : entry[q] = file[q]
  BY <1>1, QuietMatches
<1>3. PICK t \in Text : t = NewText(p)
  BY <1>1, NewTextFacts, TypeParts DEF PullNote
<1>4. /\ file'[p] = t /\ entry'[p] = t /\ t # None
      /\ \A q \in Path \ {p} : file'[q] = file[q] /\ entry'[q] = entry[q]
      /\ UNCHANGED <<current, save, list>>
  BY <1>1, <1>3, TypeParts, Facts DEF PullNote
<1>5. current.path \in Path \union {None}
  BY <1>1, TypeParts
<1>6. Alone' /\ SavesCurrent'
  BY <1>2, <1>4 DEF Alone, OneSave, SavingAlone, ListAlone, SavesCurrent, SaveIdle
<1>7. CurrentHasFile'
  BY <1>2, <1>4, <1>5 DEF CurrentHasFile, BaseInv, SaveInv
<1>8. ListFile' /\ EntriesMatch'
  BY <1>2, <1>4 DEF ListFile, EntriesMatch
<1> QED
  BY <1>6, <1>7, <1>8 DEF SaveInv

LEMMA NextBase ==
  ASSUME BaseInv, NoOverlap, [Next]_vars
  PROVE  BaseInv'
<1>1. TypeInv'
  BY NextTypes DEF BaseInv
<1> SUFFICES SaveInv'
  BY <1>1 DEF BaseInv
<1>2. ASSUME NEW s \in Saver, SaveStep(s) PROVE SaveInv'
  BY <1>2, WriteTmpBase, RenameBase, UpdateEntryBase, SavedBase DEF SaveStep
<1>3. ASSUME NEW s \in Screen,
             Type(s) \/ TimerFires(s) \/ SaveButton(s) \/ Leave(s) \/ Dispose(s)
      PROVE  SaveInv'
  BY <1>3, EditorBase
<1>4. ASSUME NEW p \in Path,
             OpenNote(p) \/ CreateNote(p) \/ Delete({p}) \/ PullNote(p)
             \/ \E s \in Screen : Opened(p, s)
      PROVE  SaveInv'
  <2>1. {p} \in SUBSET Path
    OBVIOUS
  <2> QED
    BY <1>4, <2>1, OpenNoteBase, CreateNoteBase, DeleteBase, PullBase, OpenedBase
<1>5. CASE Delete({p \in Folder : entry[p] # None})
  <2>1. PICK P \in SUBSET Path : P = {p \in Folder : entry[p] # None}
    BY BelowFolder
  <2>2. Delete(P)
    BY <1>5, <2>1
  <2> QED
    BY <2>1, <2>2, DeleteBase
<1>6. CASE ListStep \/ GoToBackground
  BY <1>6, ListStepBase, BackgroundBase
<1>7. CASE UNCHANGED vars
  BY <1>7 DEF vars, BaseInv, SaveInv, Alone, OneSave, SavingAlone, ListAlone, NoScreens,
     CurrentHasFile, SavesCurrent, EntriesMatch, ListFile, SaveIdle, Step
<1> QED
  BY <1>2, <1>3, <1>4, <1>5, <1>6, <1>7 DEF Next

LEMMA InitBase == Init => BaseInv
<1> SUFFICES ASSUME Init PROVE BaseInv
  OBVIOUS
<1>1. SaveInv
  BY Facts DEF Init, SaveInv, Alone, OneSave, SavingAlone, ListAlone, CurrentHasFile, SavesCurrent,
     EntriesMatch, ListFile, SaveIdle, NoSave, NoList, Nothing
<1> QED
  BY <1>1, InitTypes DEF BaseInv

\* A save in progress, and a creation or deletion, find the current note, its file and its
\* entry as they left them.
THEOREM AlwaysBaseInv ==
  ASSUME NoOverlap
  PROVE  Spec => []BaseInv
<1>1. BaseInv /\ [Next]_vars => BaseInv'
  BY NextBase
<1> QED
  BY <1>1, InitBase, PTL DEF Spec

\* The hash in the manifest is that of the file between two operations: the steps of
\* saveCurrentNote, createNote and deleteNote all end with both the same.
THEOREM EntriesMatchFiles ==
  ASSUME NoOverlap
  PROVE  Spec => []EntryMatchesFile
<1>1. BaseInv => EntryMatchesFile
  BY QuietMatches DEF EntryMatchesFile
<1> QED
  BY <1>1, AlwaysBaseInv, PTL

\* A save never brings back a deleted note: deleteNote leaves it neither a file nor the
\* place of the current note.
THEOREM SavesNeverRevive ==
  ASSUME NoOverlap
  PROVE  Spec => SavesReviveNothing
<1>1. BaseInv => \A s \in Saver : Step(s, "rename") /\ save'[s].step = "entry"
                                    => file[save[s].path] # None
  <2> SUFFICES ASSUME BaseInv, NEW s \in Saver, Step(s, "rename")
               PROVE  file[save[s].path] # None
    OBVIOUS
  <2>1. ~SaveIdle(s)
    BY StepActive DEF BaseInv, TypeInv
  <2>2. save[s].path = current.path /\ current.path # None /\ list.step = "idle"
    BY <2>1, Saving
  <2> QED
    BY <2>2 DEF BaseInv, SaveInv, CurrentHasFile
<1> QED
  BY <1>1, AlwaysBaseInv, PTL DEF SavesReviveNothing

-----------------------------------------------------------------------------
\* Screens, NotesState and pulls

\* A second note is not tapped while the first is being read.
OneOpening == NoOverlap /\ "twoOpens" \notin Disturbances

\* The user types nothing while the screen's text is being saved.
Waits == "typeDuringSave" \notin Disturbances

OneScreen == \A s, t \in Screen : screen[s] # None /\ screen[t] # None => s = t

OpeningAlone ==
  opening # {} => opening = {current.path} /\ NoScreens /\ \A s \in Saver : SaveIdle(s)

\* A screen has the current note, and a text of it.
ScreensCurrent ==
  \A s \in Screen : screen[s] # None =>
    screen[s].path = current.path /\ screen[s].text.of = current.path

\* A save writes the text NotesState has.
SavesText == \A s \in Saver : ~SaveIdle(s) => save[s].text = current.text

\* NotesState has a text of its current note, unless a note is being opened.
CurrentIsRead ==
  opening = {} /\ current.text # None => current.text.of = current.path

\* A screen without the mark shows the text NotesState has and has written, or a pull has
\* replaced; a screen that is being saved, the text that is being written.
ScreenShowsCurrent ==
  \A s \in Screen : screen[s] # None =>
    /\ ~screen[s].unsaved =>
         /\ screen[s].text = current.text
         /\ file[current.path] = current.text \/ current.path \in unread
    /\ ~SaveIdle(s) => screen[s].text = current.text

ScreenInv ==
  /\ OneScreen /\ OpeningAlone /\ ScreensCurrent /\ SavesText /\ CurrentIsRead
  /\ TextStaysInItsNote
  /\ Waits => ScreenShowsCurrent

IndInv == BaseInv /\ ScreenInv

\* The text of a save in progress is one of the note it is written to.
LEMMA SavingText ==
  ASSUME IndInv, NEW s \in Saver, ~SaveIdle(s)
  PROVE  /\ save[s].text = current.text /\ current.text \in Text
         /\ current.text.of = current.path /\ opening = {}
<1>1. save[s].text = current.text /\ opening = {}
  BY DEF IndInv, ScreenInv, SavesText, OpeningAlone
<1>2. save[s] \in Active
  BY Saving DEF IndInv
<1> QED
  BY <1>1, <1>2, Facts DEF Active, IndInv, ScreenInv, CurrentIsRead

\* A step of a save before its end changes at most the file of the current note, which
\* gets the text NotesState has.
LEMMA SaveGoesOn ==
  ASSUME IndInv, NEW s \in Saver, ~SaveIdle(s),
         UNCHANGED <<current, screen, stack, opening, unread>>,
         save'[s].text = save[s].text,
         \A t \in Saver \ {s} : save'[t] = save[t],
         file'[current.path] \in {file[current.path], current.text},
         \A p \in Path \ {current.path} : file'[p] = file[p]
  PROVE  ScreenInv'
<1>1. /\ save[s].text = current.text
      /\ current.text.of = current.path /\ opening = {}
  BY SavingText
<1>2. OneScreen' /\ OpeningAlone' /\ ScreensCurrent' /\ CurrentIsRead'
  BY <1>1 DEF OneScreen, OpeningAlone, ScreensCurrent, CurrentIsRead, IndInv, ScreenInv
<1>3. SavesText'
  BY <1>1 DEF SavesText, SaveIdle, IndInv, ScreenInv
<1>4. TextStaysInItsNote'
  BY <1>1 DEF TextStaysInItsNote, IndInv, ScreenInv
<1>5. ASSUME Waits PROVE ScreenShowsCurrent'
  <2>1. ScreenShowsCurrent
    BY <1>5 DEF IndInv, ScreenInv
  <2> QED
    BY <2>1 DEF ScreenShowsCurrent, SaveIdle, Saver
<1> QED
  BY <1>2, <1>3, <1>4, <1>5 DEF ScreenInv

LEMMA SaveStepKeeps ==
  ASSUME IndInv, NEW s \in Saver, WriteTmp(s) \/ Rename(s) \/ UpdateEntry(s)
  PROVE  ScreenInv'
<1>0. BaseInv /\ TypeOK
  BY DEF IndInv, BaseInv, TypeInv
<1>1. CASE WriteTmp(s)
  <2>1. ~SaveIdle(s) /\ save[s] \in Active
    BY <1>0, <1>1, StepActive DEF WriteTmp
  <2>2. save'[s].text = save[s].text /\ \A t \in Saver \ {s} : save'[t] = save[t]
    BY <1>0, <1>1, <2>1, GoFacts DEF WriteTmp
  <2>3. UNCHANGED <<file, current, screen, stack, opening, unread>>
    BY <1>1 DEF WriteTmp
  <2> QED
    BY <2>1, <2>2, <2>3, SaveGoesOn
<1>2. CASE Rename(s)
  <2>1. /\ ~SaveIdle(s)
        /\ file'[current.path] = save[s].text
        /\ \A p \in Path \ {current.path} : file'[p] = file[p]
        /\ save'[s].text = save[s].text /\ \A t \in Saver \ {s} : save'[t] = save[t]
        /\ UNCHANGED <<current, screen, stack, opening, unread>>
    BY <1>0, <1>2, RenameFacts
  <2>2. save[s].text = current.text
    BY <2>1, SavingText
  <2> QED
    BY <2>1, <2>2, SaveGoesOn
<1>3. CASE UpdateEntry(s)
  <2>1. ~SaveIdle(s) /\ save[s] \in Active
    BY <1>0, <1>3, StepActive DEF UpdateEntry
  <2>2. current.path # None
    BY <1>0, <2>1, Saving
  <2>3. Go(s, "persist") /\ UNCHANGED <<file, current, screen, stack, opening, unread>>
    BY <1>3, <2>2 DEF UpdateEntry
  <2>4. save'[s].text = save[s].text /\ \A t \in Saver \ {s} : save'[t] = save[t]
    BY <1>0, <2>1, <2>3, GoFacts
  <2> QED
    BY <2>1, <2>3, <2>4, SaveGoesOn
<1> QED
  BY <1>1, <1>2, <1>3

LEMMA SavedKeeps ==
  ASSUME IndInv, NEW s \in Saver, Saved(s)
  PROVE  ScreenInv'
<1>0. BaseInv /\ TypeOK
  BY DEF IndInv, BaseInv, TypeInv
<1>1. ~SaveIdle(s)
  BY <1>0, StepActive DEF Saved
<1>2. save[s].text = current.text /\ opening = {} /\ \A t \in Saver \ {s} : save[t] = NoSave
  BY <1>0, <1>1, Saving, SavingText
<1>3. file[current.path] = current.text
  BY <1>0, <1>1, <1>2 DEF Saved, BaseInv, SaveInv, SavesCurrent, Step
<1>4. \A t \in Saver : SaveIdle(t)'
  BY <1>0, <1>1, <1>2, EndFacts DEF Saved, SaveIdle
<1>5. UNCHANGED <<file, current, stack, opening, unread>>
  BY DEF Saved
<1>6. \A t \in Screen :
        /\ screen'[t] # None => screen[t] # None
        /\ screen'[t] # None => screen'[t].path = screen[t].path /\ screen'[t].text = screen[t].text
        /\ screen'[t] # None /\ ~screen'[t].unsaved => ~screen[t].unsaved \/ ~SaveIdle(t)
  <2>1. CASE s = Background \/ screen[s] = None
    BY <2>1 DEF Saved
  <2>2. CASE ~(s = Background \/ screen[s] = None)
    <3>1. s \in Screen /\ screen[s] \in Editor
      BY <1>0, <2>2, HasEditor DEF Saver
    <3>2. PICK e \in Editor : /\ [screen EXCEPT ![s].unsaved = FALSE] = [screen EXCEPT ![s] = e]
                              /\ e.path = screen[s].path /\ e.text = screen[s].text
      BY <1>0, <3>1, UnmarkFacts
    <3>3. screen' = [screen EXCEPT ![s] = e]
      BY <2>2, <3>2 DEF Saved
    <3>4. screen'[s] = e /\ \A t \in Screen \ {s} : screen'[t] = screen[t]
      BY <1>0, <3>1, <3>3, OneScreenChanges
    <3> QED
      BY <1>1, <2>2, <3>2, <3>4
  <2> QED
    BY <2>1, <2>2
<1>7. OneScreen' /\ OpeningAlone' /\ ScreensCurrent' /\ CurrentIsRead'
  BY <1>2, <1>5, <1>6 DEF OneScreen, OpeningAlone, ScreensCurrent, CurrentIsRead, IndInv, ScreenInv
<1>8. SavesText' /\ TextStaysInItsNote'
  BY <1>4, <1>5 DEF SavesText, TextStaysInItsNote, IndInv, ScreenInv
<1>9. ASSUME Waits PROVE ScreenShowsCurrent'
  <2>1. ScreenShowsCurrent
    BY <1>9 DEF IndInv, ScreenInv
  <2> QED
    BY <1>3, <1>4, <1>5, <1>6, <2>1 DEF ScreenShowsCurrent, Saver
<1> QED
  BY <1>7, <1>8, <1>9 DEF ScreenInv

\* A save that begins when nothing is in progress: it takes the text t, which is what the
\* screens without the mark show.
LEMMA SaveBegins ==
  ASSUME IndInv, Quiet, opening = {}, NEW s \in Saver, NEW t \in Text,
         save'[s] = [step |-> "write", path |-> current.path, text |-> t] \/ save'[s] = save[s],
         \A q \in Saver \ {s} : save'[q] = save[q],
         current'.path = current.path, current'.text = t, t.of = current.path,
         UNCHANGED <<file, stack, opening, unread>>,
         \A q \in Screen : screen'[q] # None => screen[q] # None,
         \A q \in Screen : screen'[q] # None =>
           /\ screen'[q].path = screen[q].path /\ screen'[q].text = screen[q].text
           /\ s = q => screen[q].text = t
           /\ ~screen'[q].unsaved => ~screen[q].unsaved /\ t = current.text
  PROVE  ScreenInv'
<1>1. \A q \in Saver : save[q] = NoSave
  BY QuietMatches DEF IndInv
<1>2. \A q \in Saver \ {s} : SaveIdle(q)'
  BY <1>1 DEF SaveIdle
<1>3. ~SaveIdle(s)' => save'[s] = [step |-> "write", path |-> current.path, text |-> t]
  BY <1>1 DEF SaveIdle
<1>4. OneScreen' /\ OpeningAlone' /\ ScreensCurrent'
  BY DEF OneScreen, OpeningAlone, ScreensCurrent, IndInv, ScreenInv
<1>5. SavesText'
  BY <1>2, <1>3 DEF SavesText
<1>6. CurrentIsRead' /\ TextStaysInItsNote'
  BY DEF CurrentIsRead, TextStaysInItsNote, IndInv, ScreenInv
<1>7. ASSUME Waits PROVE ScreenShowsCurrent'
  <2>1. ScreenShowsCurrent
    BY <1>7 DEF IndInv, ScreenInv
  <2> QED
    BY <1>2, <2>1 DEF ScreenShowsCurrent, Saver
<1> QED
  BY <1>4, <1>5, <1>6, <1>7 DEF ScreenInv

LEMMA BackgroundKeeps ==
  ASSUME IndInv, NoOverlap, GoToBackground
  PROVE  ScreenInv'
<1>1. TypeOK /\ Quiet /\ opening = {}
  BY Begins DEF GoToBackground, IndInv, BaseInv, TypeInv
<1>2. Background \in Saver /\ current.path \in Path /\ current.text \in Text
  BY <1>1, TypeParts DEF GoToBackground, Saver
<1>3. PICK t \in Text : t = current.text /\ SaveCurrent(Background, t)
  BY <1>2 DEF GoToBackground
<1>4. /\ save'[Background] = [step |-> "write", path |-> current.path, text |-> t]
      /\ \A q \in Saver \ {Background} : save'[q] = save[q]
      /\ current'.path = current.path /\ current'.text = t
  BY <1>1, <1>2, <1>3, SaveCurrentFacts
<1>5. t.of = current.path
  BY <1>1, <1>2, <1>3, Facts DEF IndInv, ScreenInv, CurrentIsRead
<1>6. UNCHANGED <<file, screen, stack, opening, unread>>
  BY DEF GoToBackground
<1> QED
  BY <1>1, <1>2, <1>3, <1>4, <1>5, <1>6, SaveBegins, Facts

\* A screen has the current note, which then has a path, and is the only one.
LEMMA ScreenFacts ==
  ASSUME IndInv, NEW s \in Screen, screen[s] # None
  PROVE  /\ screen[s] \in Editor
         /\ current.path = screen[s].path /\ current.path \in Path /\ current.path # None
         /\ screen[s].text \in Text /\ screen[s].text.of = current.path
         /\ opening = {}
         /\ \A t \in Screen \ {s} : screen[t] = None
<1>1. screen[s] \in Editor
  BY HasEditor DEF IndInv, BaseInv, TypeInv
<1>2. current.path = screen[s].path /\ screen[s].text.of = current.path
  BY DEF IndInv, ScreenInv, ScreensCurrent
<1>3. opening = {}
  BY DEF IndInv, ScreenInv, OpeningAlone, NoScreens
<1>4. \A t \in Screen \ {s} : screen[t] = None
  BY DEF IndInv, ScreenInv, OneScreen
<1> QED
  BY <1>1, <1>2, <1>3, <1>4, Facts DEF Editor

LEMMA TypeKeeps ==
  ASSUME IndInv, NEW s \in Screen, Type(s)
  PROVE  ScreenInv'
<1>1. TypeOK /\ screen[s] # None
  BY InFrontHas, Facts DEF Type, IndInv, BaseInv, TypeInv
<1>2. PICK e \in Editor : /\ screen' = [screen EXCEPT ![s] = e]
                          /\ e.path = screen[s].path /\ e.unsaved
                          /\ e.text.of = screen[s].path
  BY <1>1, TypeFacts
<1>3. /\ screen'[s] = e /\ screen'[s] # None
      /\ \A t \in Screen \ {s} : screen'[t] = screen[t]
  BY <1>1, <1>2, OneScreenChanges, Facts
<1>4. UNCHANGED <<file, current, save, opening, unread>>
  BY DEF Type
<1>5. /\ opening = {} /\ current.path = screen[s].path
      /\ \A t \in Screen \ {s} : screen[t] = None
  BY <1>1, ScreenFacts
<1>6. \A t \in Screen : screen'[t] # None => t = s
  BY <1>3, <1>5
<1>7. OneScreen' /\ OpeningAlone' /\ ScreensCurrent'
  BY <1>2, <1>3, <1>4, <1>5, <1>6 DEF OneScreen, OpeningAlone, ScreensCurrent
<1>8. SavesText' /\ CurrentIsRead' /\ TextStaysInItsNote'
  BY <1>4 DEF SavesText, SaveIdle, CurrentIsRead, TextStaysInItsNote, IndInv, ScreenInv
<1>9. ASSUME Waits PROVE ScreenShowsCurrent'
  <2>1. SaveIdle(s)
    BY <1>9 DEF Waits, Type, Allowed
  <2>2. screen'[s].unsaved /\ SaveIdle(s)'
    BY <1>2, <1>3, <1>4, <2>1 DEF SaveIdle
  <2> QED
    BY <1>6, <2>2 DEF ScreenShowsCurrent, Saver
<1> QED
  BY <1>7, <1>8, <1>9 DEF ScreenInv

\* _saveNow of the one screen there is, which then may be gone.
LEMMA SaveNowKeeps ==
  ASSUME IndInv, Quiet, NEW s \in Screen, screen[s] # None,
         SaveNow(s) \/ UNCHANGED <<current, save>>,
         UNCHANGED <<file, stack, opening, unread>>,
         \A q \in Screen \ {s} : screen'[q] = screen[q],
         screen'[s] # None =>
           /\ SaveNow(s)
           /\ screen'[s].path = screen[s].path /\ screen'[s].text = screen[s].text
           /\ screen'[s].unsaved = StillUnsaved(s)
  PROVE  ScreenInv'
<1>0. TypeOK /\ s \in Saver
  BY DEF IndInv, BaseInv, TypeInv, Saver
<1>1. /\ screen[s] \in Editor
      /\ current.path = screen[s].path /\ current.path \in Path /\ current.path # None
      /\ screen[s].text \in Text /\ screen[s].text.of = current.path
      /\ opening = {}
      /\ \A t \in Screen \ {s} : screen[t] = None
  BY ScreenFacts
<1>2. CASE SaveNow(s) /\ screen[s].unsaved
  <2>1. /\ current'.path = current.path /\ current'.text = screen[s].text
        /\ \A q \in Saver \ {s} : save'[q] = save[q]
        /\ save'[s] = [step |-> "write", path |-> current.path, text |-> screen[s].text]
    BY <1>0, <1>1, <1>2, SaveNowFacts
  <2>2. \A q \in Screen : screen'[q] # None =>
          /\ screen[q] # None
          /\ screen'[q].path = screen[q].path /\ screen'[q].text = screen[q].text
          /\ s = q => screen[q].text = screen[s].text
          /\ screen'[q].unsaved
    BY <1>1, <1>2 DEF StillUnsaved
  <2>3. PICK t \in Text : t = screen[s].text
    BY <1>1
  <2> QED
    BY <1>0, <1>1, <2>1, <2>2, <2>3, SaveBegins
<1>3. CASE UNCHANGED <<current, save>> \/ (SaveNow(s) /\ ~screen[s].unsaved)
  <2>1. UNCHANGED <<current, save>>
    BY <1>3 DEF SaveNow
  <2>2. \A q \in Screen : screen'[q] # None =>
          /\ screen[q] # None
          /\ screen'[q].path = screen[q].path /\ screen'[q].text = screen[q].text
          /\ ~screen'[q].unsaved => ~screen[q].unsaved
    BY <1>1 DEF StillUnsaved
  <2>3. OneScreen' /\ OpeningAlone' /\ ScreensCurrent'
    BY <1>1, <2>1, <2>2 DEF OneScreen, OpeningAlone, ScreensCurrent, IndInv, ScreenInv
  <2>4. SavesText' /\ CurrentIsRead' /\ TextStaysInItsNote'
    BY <2>1 DEF SavesText, SaveIdle, CurrentIsRead, TextStaysInItsNote, IndInv, ScreenInv
  <2>5. ASSUME Waits PROVE ScreenShowsCurrent'
    <3>1. ScreenShowsCurrent
      BY <2>5 DEF IndInv, ScreenInv
    <3> QED
      BY <2>1, <2>2, <3>1 DEF ScreenShowsCurrent, SaveIdle, Saver
  <2> QED
    BY <2>3, <2>4, <2>5 DEF ScreenInv
<1> QED
  BY <1>2, <1>3

LEMMA EditorKeeps ==
  ASSUME IndInv, NoOverlap, NEW s \in Screen,
         TimerFires(s) \/ SaveButton(s) \/ Leave(s) \/ Dispose(s)
  PROVE  ScreenInv'
<1>0. TypeOK
  BY DEF IndInv, BaseInv, TypeInv
<1>1. CASE TimerFires(s) \/ SaveButton(s)
  <2>1. screen[s] \in Editor /\ screen[s] # None /\ SaveNow(s) /\ Quiet
    BY <1>0, <1>1, Begins, HasEditor, InFrontHas, Facts DEF TimerFires, SaveButton
  <2>2. \/ screen' = [screen EXCEPT ![s].timer = FALSE, ![s].unsaved = StillUnsaved(s)]
        \/ screen' = [screen EXCEPT ![s].unsaved = StillUnsaved(s)]
    BY <1>1 DEF TimerFires, SaveButton
  <2>3. PICK d \in Editor : /\ [screen EXCEPT ![s].timer = FALSE, ![s].unsaved = StillUnsaved(s)]
                                 = [screen EXCEPT ![s] = d]
                            /\ d.path = screen[s].path /\ d.text = screen[s].text
                            /\ d.unsaved = StillUnsaved(s)
    BY <1>0, <2>1, UnmarkFacts
  <2>4. PICK e \in Editor : /\ [screen EXCEPT ![s].unsaved = StillUnsaved(s)]
                                 = [screen EXCEPT ![s] = e]
                            /\ e.path = screen[s].path /\ e.text = screen[s].text
                            /\ e.unsaved = StillUnsaved(s)
    BY <1>0, <2>1, UnmarkFacts
  <2>5. PICK f \in Editor : /\ screen' = [screen EXCEPT ![s] = f]
                            /\ f.path = screen[s].path /\ f.text = screen[s].text
                            /\ f.unsaved = StillUnsaved(s)
    BY <2>2, <2>3, <2>4, Zenon
  <2>6. screen'[s] = f /\ \A t \in Screen \ {s} : screen'[t] = screen[t]
    BY <1>0, <2>5, OneScreenChanges
  <2>7. UNCHANGED <<file, stack, opening, unread>>
    BY <1>1 DEF TimerFires, SaveButton
  <2> QED
    BY <2>1, <2>5, <2>6, <2>7, SaveNowKeeps
<1>2. CASE Leave(s)
  <2>1. UNCHANGED <<file, current, screen, save, opening, unread>>
    BY <1>2 DEF Leave
  <2>2. opening = {}
    BY <1>0, <1>2, InFrontHas, ScreenFacts, Facts DEF Leave
  <2> QED
    BY <2>1, <2>2 DEF IndInv, ScreenInv, OneScreen, OpeningAlone, ScreensCurrent, SavesText,
       CurrentIsRead, TextStaysInItsNote, ScreenShowsCurrent, SaveIdle
<1>3. CASE Dispose(s)
  <2>1. Quiet /\ screen[s] # None
    BY <1>3, Begins DEF Dispose, Leaving
  <2>2. screen'[s] = None /\ \A t \in Screen \ {s} : screen'[t] = screen[t]
    BY <1>0, <1>3, TypeParts DEF Dispose
  <2>3. /\ SaveNow(s) \/ UNCHANGED <<current, save>>
        /\ UNCHANGED <<file, stack, opening, unread>>
    BY <1>3 DEF Dispose
  <2> QED
    BY <2>1, <2>2, <2>3, SaveNowKeeps
<1> QED
  BY <1>1, <1>2, <1>3

\* What there is when an operation of the list is in progress, or begins: no screen, no save.
LEMMA WithoutScreens ==
  ASSUME NoScreens', \A s \in Saver : SaveIdle(s)', opening' \in {{}, {current'.path}}
  PROVE  OneScreen' /\ OpeningAlone' /\ ScreensCurrent' /\ SavesText' /\ ScreenShowsCurrent'
BY DEF OneScreen, OpeningAlone, ScreensCurrent, SavesText, ScreenShowsCurrent, NoScreens

LEMMA OpenNoteKeeps ==
  ASSUME IndInv, OneOpening, NEW p \in Path, OpenNote(p)
  PROVE  ScreenInv'
<1>1. MayBegin /\ stack = <<>>
  BY DEF OpenNote, OneOpening, Allowed
<1>2. NoScreens /\ (\A s \in Saver : SaveIdle(s)) /\ opening = {}
  BY <1>1, Begins, QuietMatches DEF OneOpening, IndInv
<1>3. current'.path = p /\ opening' = {p}
  BY <1>2, TypeParts DEF OpenNote, IndInv, BaseInv, TypeInv
<1>4. UNCHANGED <<file, screen, stack, save, unread>>
  BY DEF OpenNote
<1>5. NoScreens' /\ (\A s \in Saver : SaveIdle(s)')
  BY <1>2, <1>4 DEF NoScreens, SaveIdle
<1>6. OneScreen' /\ OpeningAlone' /\ ScreensCurrent' /\ SavesText' /\ ScreenShowsCurrent'
  BY <1>3, <1>5, WithoutScreens
<1>7. CurrentIsRead' /\ TextStaysInItsNote'
  BY <1>3, <1>4 DEF CurrentIsRead, TextStaysInItsNote, IndInv, ScreenInv
<1> QED
  BY <1>6, <1>7 DEF ScreenInv

LEMMA OpenedKeeps ==
  ASSUME IndInv, NEW p \in Path, NEW s \in Screen, Opened(p, s)
  PROVE  ScreenInv'
<1>0. TypeOK /\ BaseInv
  BY DEF IndInv, BaseInv, TypeInv
<1>1. opening = {p} /\ p = current.path /\ NoScreens /\ \A q \in Saver : SaveIdle(q)
  BY DEF Opened, IndInv, ScreenInv, OpeningAlone
<1>2. list.step = "idle"
  BY <1>0, <1>1 DEF BaseInv, SaveInv, Alone, ListAlone, NoList
<1>3. file[p] # None /\ file[p] \in Text /\ file[p].of = p
  BY <1>0, <1>1, <1>2, TypeParts, Facts DEF IndInv, ScreenInv, BaseInv, SaveInv, CurrentHasFile,
     TextStaysInItsNote
<1>4. PICK e \in Editor : /\ screen' = [screen EXCEPT ![s] = e]
                          /\ e.path = p /\ e.text = ContentOr(file[p], p) /\ ~e.unsaved
  BY <1>0, OpenedFacts
<1>5. screen'[s] = e /\ \A t \in Screen \ {s} : screen'[t] = None
  BY <1>0, <1>1, <1>4, OneScreenChanges DEF NoScreens
<1>6. e.text = file[p]
  BY <1>3, <1>4 DEF ContentOr
<1>7. /\ current'.path = p /\ current'.text = file[p]
      /\ opening' = {} /\ p \notin unread'
      /\ UNCHANGED <<file, save>>
  BY <1>0, <1>1, TypeParts DEF Opened
<1>8. OneScreen' /\ OpeningAlone' /\ SavesText'
  BY <1>1, <1>5, <1>7 DEF OneScreen, OpeningAlone, SavesText, SaveIdle
<1>9. \A t \in Screen : screen'[t] # None => screen'[t] = e
  BY <1>5
<1>10. ScreensCurrent'
  BY <1>3, <1>4, <1>6, <1>7, <1>9 DEF ScreensCurrent
<1>11. ScreenShowsCurrent'
  BY <1>6, <1>7, <1>9 DEF ScreenShowsCurrent
<1>12. CurrentIsRead' /\ TextStaysInItsNote'
  BY <1>3, <1>7 DEF CurrentIsRead, TextStaysInItsNote, IndInv, ScreenInv
<1> QED
  BY <1>8, <1>10, <1>11, <1>12 DEF ScreenInv

\* createNote and deleteNote concern no screen and no save.
LEMMA ListOnlyKeeps ==
  ASSUME NoScreens, \A s \in Saver : SaveIdle(s), ListOnly, opening' \in {{}, {current'.path}}
  PROVE  OneScreen' /\ OpeningAlone' /\ ScreensCurrent' /\ SavesText' /\ ScreenShowsCurrent'
<1>1. NoScreens' /\ (\A s \in Saver : SaveIdle(s)')
  BY DEF ListOnly, NoScreens, SaveIdle
<1> QED
  BY <1>1, WithoutScreens

LEMMA ListBeginKeeps ==
  ASSUME IndInv, NoOverlap,
         (\E p \in Path : CreateNote(p)) \/ (\E P \in SUBSET Path : Delete(P))
  PROVE  ScreenInv'
<1>1. /\ ListMayBegin /\ ListOnly /\ UNCHANGED <<current, opening>>
      /\ file' = file \/ \E p \in Path : file' = [file EXCEPT ![p] = Blank(p)]
  BY DEF CreateNote, Delete
<1>2. NoScreens /\ (\A s \in Saver : SaveIdle(s)) /\ opening = {}
  BY <1>1, ListBegins DEF IndInv
<1>3. OneScreen' /\ OpeningAlone' /\ ScreensCurrent' /\ SavesText' /\ ScreenShowsCurrent'
  BY <1>1, <1>2, ListOnlyKeeps
<1>4. CurrentIsRead'
  BY <1>1 DEF CurrentIsRead, ListOnly, IndInv, ScreenInv
<1>5. TextStaysInItsNote'
  BY <1>1, TypeParts, Facts DEF TextStaysInItsNote, IndInv, ScreenInv, BaseInv, TypeInv
<1> QED
  BY <1>3, <1>4, <1>5 DEF ScreenInv

LEMMA ListStepKeeps ==
  ASSUME IndInv, ListStep
  PROVE  ScreenInv'
<1>0. TypeOK /\ ListNames /\ ListOnly
  BY DEF IndInv, BaseInv, TypeInv, ListStep, CreateEntry, Created, RemoveEntry, DeleteFile
<1>1. NoScreens /\ opening = {} /\ (\A s \in Saver : SaveIdle(s))
  <2>1. list # NoList
    BY DEF ListStep, CreateEntry, Created, RemoveEntry, DeleteFile, NoList
  <2> QED
    BY <2>1, ListWorks DEF IndInv
<1>2. /\ CurrentIsRead'
      /\ opening' \in {{}, {current'.path}}
  <2>1. CASE CreateEntry \/ \E p \in Path : DeleteFile(p)
    BY <1>0, <1>1, <2>1 DEF CreateEntry, DeleteFile, CurrentIsRead, ListOnly, IndInv, ScreenInv
  <2>2. CASE Created
    <3>1. opening' = {current'.path}
      BY <1>1, <2>2 DEF Created
    <3> QED
      BY <3>1 DEF CurrentIsRead
  <2>3. CASE RemoveEntry
    <3>1. opening' = {} /\ UNCHANGED unread
      BY <1>0, <1>1, <2>3 DEF RemoveEntry, ListOnly
    <3>2. current' = current \/ (current'.path = None /\ current'.text = None)
      BY <2>3 DEF RemoveEntry, Nothing
    <3>3. None \notin unread
      BY <1>0, TypeParts, Facts
    <3> QED
      BY <1>1, <3>1, <3>2, <3>3 DEF CurrentIsRead, IndInv, ScreenInv
  <2> QED
    BY <2>1, <2>2, <2>3 DEF ListStep
<1>3. OneScreen' /\ OpeningAlone' /\ ScreensCurrent' /\ SavesText' /\ ScreenShowsCurrent'
  BY <1>0, <1>1, <1>2, ListOnlyKeeps
<1>4. TextStaysInItsNote'
  <2>1. file' = file \/ \E p \in Path : file' = [file EXCEPT ![p] = None]
    BY DEF ListStep, CreateEntry, Created, RemoveEntry, DeleteFile
  <2> QED
    BY <1>0, <2>1, TypeParts DEF TextStaysInItsNote, IndInv, ScreenInv
<1> QED
  BY <1>2, <1>3, <1>4 DEF ScreenInv

LEMMA PullKeeps ==
  ASSUME IndInv, NEW p \in Path, PullNote(p)
  PROVE  ScreenInv'
<1>1. TypeOK /\ Quiet
  BY DEF PullNote, IndInv, BaseInv, TypeInv
<1>2. \A s \in Saver : SaveIdle(s)
  BY <1>1, QuietMatches DEF IndInv
<1>3. PICK t \in Text : t = NewText(p) /\ t.of = p
  BY <1>1, NewTextFacts, TypeParts DEF PullNote
<1>4. /\ file'[p] = t
      /\ \A q \in Path \ {p} : file'[q] = file[q]
      /\ unread' = unread \union {p}
      /\ UNCHANGED <<current, screen, stack, save, opening>>
  BY <1>1, <1>3, TypeParts DEF PullNote
<1>5. OneScreen' /\ OpeningAlone' /\ ScreensCurrent' /\ SavesText'
  BY <1>2, <1>4 DEF OneScreen, OpeningAlone, ScreensCurrent, SavesText, NoScreens, SaveIdle,
     IndInv, ScreenInv
<1>6. CurrentIsRead'
  BY <1>4 DEF CurrentIsRead, IndInv, ScreenInv
<1>7. TextStaysInItsNote'
  BY <1>3, <1>4 DEF TextStaysInItsNote, IndInv, ScreenInv
<1>8. ASSUME Waits PROVE ScreenShowsCurrent'
  <2>1. ScreenShowsCurrent
    BY <1>8 DEF IndInv, ScreenInv
  <2>2. ASSUME NEW s \in Screen, screen[s] # None PROVE current.path \in Path
    BY <2>2, ScreenFacts
  <2> QED
    BY <1>4, <2>1, <2>2 DEF ScreenShowsCurrent, SaveIdle
<1> QED
  BY <1>5, <1>6, <1>7, <1>8 DEF ScreenInv

LEMMA NextKeeps ==
  ASSUME IndInv, OneOpening, [Next]_vars
  PROVE  IndInv'
<1>0. NoOverlap
  BY DEF OneOpening
<1>1. BaseInv'
  BY <1>0, NextBase DEF IndInv
<1> SUFFICES ScreenInv'
  BY <1>1 DEF IndInv
<1>2. ASSUME NEW s \in Saver, SaveStep(s) PROVE ScreenInv'
  BY <1>2, SaveStepKeeps, SavedKeeps DEF SaveStep
<1>3. ASSUME NEW s \in Screen,
             Type(s) \/ TimerFires(s) \/ SaveButton(s) \/ Leave(s) \/ Dispose(s)
      PROVE  ScreenInv'
  BY <1>0, <1>3, TypeKeeps, EditorKeeps
<1>4. ASSUME NEW p \in Path,
             OpenNote(p) \/ CreateNote(p) \/ Delete({p}) \/ PullNote(p)
             \/ \E s \in Screen : Opened(p, s)
      PROVE  ScreenInv'
  <2>1. {p} \in SUBSET Path
    OBVIOUS
  <2> QED
    BY <1>0, <1>4, <2>1, OpenNoteKeeps, ListBeginKeeps, PullKeeps, OpenedKeeps
<1>5. CASE Delete({p \in Folder : entry[p] # None})
  <2>1. PICK P \in SUBSET Path : P = {p \in Folder : entry[p] # None}
    BY BelowFolder
  <2>2. Delete(P)
    BY <1>5, <2>1
  <2> QED
    BY <1>0, <2>1, <2>2, ListBeginKeeps
<1>6. CASE ListStep \/ GoToBackground
  BY <1>0, <1>6, ListStepKeeps, BackgroundKeeps
<1>7. CASE UNCHANGED vars
  BY <1>7 DEF vars, IndInv, ScreenInv, OneScreen, OpeningAlone, ScreensCurrent, SavesText,
     CurrentIsRead, TextStaysInItsNote, ScreenShowsCurrent, NoScreens, SaveIdle
<1> QED
  BY <1>2, <1>3, <1>4, <1>5, <1>6, <1>7 DEF Next

LEMMA InitKeeps == Init => IndInv
<1> SUFFICES ASSUME Init PROVE IndInv
  OBVIOUS
<1>1. \A p \in Path : file[p] # None => file[p].of = p
  BY Facts DEF Init
<1>2. ScreenInv
  BY <1>1, Facts DEF Init, ScreenInv, OneScreen, OpeningAlone, ScreensCurrent, SavesText,
     CurrentIsRead, TextStaysInItsNote, ScreenShowsCurrent, SaveIdle, Nothing
<1> QED
  BY <1>2, InitBase DEF IndInv

\* The inductive invariant: screen, NotesState and the save in progress all speak of the
\* current note and its text.
THEOREM AlwaysIndInv ==
  ASSUME OneOpening
  PROVE  Spec => []IndInv
<1>1. IndInv /\ [Next]_vars => IndInv'
  BY NextKeeps
<1> QED
  BY <1>1, InitKeeps, PTL DEF Spec

\* No save, opening, creation or pull puts a text into another note's file.
THEOREM TextsStayInTheirNotes ==
  ASSUME OneOpening
  PROVE  Spec => []TextStaysInItsNote
<1>1. IndInv => TextStaysInItsNote
  BY DEF IndInv, ScreenInv
<1> QED
  BY <1>1, AlwaysIndInv, PTL

\* When an editor screen has dropped its mark of unsaved changes, its text is on the disk,
\* or a pull has replaced it there.
THEOREM NoMarkAlwaysMeansSaved ==
  ASSUME OneOpening, Waits
  PROVE  Spec => []NoMarkMeansSaved
<1>1. IndInv => NoMarkMeansSaved
  <2> SUFFICES ASSUME IndInv, NEW s \in Screen, InFront(s), ~screen[s].unsaved,
                      screen[s].path \notin unread
               PROVE  file[screen[s].path] = screen[s].text
    BY DEF NoMarkMeansSaved
  <2>1. screen[s] # None
    BY InFrontHas, Facts DEF IndInv, BaseInv, TypeInv
  <2>2. current.path = screen[s].path
    BY <2>1, ScreenFacts
  <2> QED
    BY <2>1, <2>2 DEF IndInv, ScreenInv, ScreenShowsCurrent
<1> QED
  BY <1>1, AlwaysIndInv, PTL

-----------------------------------------------------------------------------
\* What was typed is on its way to the disk

\* A screen with the mark has its timer running or is being saved.
MarkIsWatched ==
  \A s \in Screen : screen[s] # None /\ screen[s].unsaved => screen[s].timer \/ ~SaveIdle(s)

\* A screen with the mark has its timer running, or a save in progress writes its text to its
\* note; the text of one without is on the disk, or a pull has replaced it there.
NoTextForgotten ==
  \A s \in Screen : screen[s] # None =>
    LET p == screen[s].path
        t == screen[s].text
    IN IF screen[s].unsaved THEN screen[s].timer \/ (save[s].path = p /\ save[s].text = t)
                            ELSE file[p] = t \/ p \in unread

\* Screens that a step leaves as they are, and whose save it does not end, stay watched.
LEMMA WatchedStay ==
  ASSUME MarkIsWatched,
         \A t \in Screen : screen'[t] # None /\ screen'[t].unsaved =>
           \/ screen'[t].timer \/ ~SaveIdle(t)'
           \/ screen'[t] = screen[t] /\ (SaveIdle(t)' => SaveIdle(t))
  PROVE  MarkIsWatched'
BY DEF MarkIsWatched

\* A save goes on to its end, and then the mark is gone.
LEMMA SaveWatched ==
  ASSUME BaseInv, MarkIsWatched, NEW s \in Saver, SaveStep(s)
  PROVE  MarkIsWatched'
<1>0. TypeOK
  BY DEF BaseInv, TypeInv
<1>1. ASSUME NEW x \in {"write", "rename", "entry", "persist"}, save[s] \in Active, Go(s, x),
             UNCHANGED screen
      PROVE  MarkIsWatched'
  <2>1. save'[s].step = x /\ \A t \in Saver \ {s} : save'[t] = save[t]
    BY <1>0, <1>1, GoFacts
  <2>2. ~SaveIdle(s)'
    BY <2>1 DEF SaveIdle, NoSave
  <2> QED
    BY <1>1, <2>1, <2>2, WatchedStay DEF SaveIdle, Saver
<1>2. CASE WriteTmp(s)
  BY <1>0, <1>1, <1>2, StepActive DEF WriteTmp
<1>3. CASE Rename(s)
  <2>1. save'[s].step = "entry" /\ UNCHANGED screen /\ \A t \in Saver \ {s} : save'[t] = save[t]
    BY <1>3, RenameFacts
  <2>2. ~SaveIdle(s)'
    BY <2>1 DEF SaveIdle, NoSave
  <2> QED
    BY <2>1, <2>2, WatchedStay DEF SaveIdle, Saver
<1>4. CASE UpdateEntry(s)
  <2>1. save[s] \in Active /\ ~SaveIdle(s)
    BY <1>0, <1>4, StepActive DEF UpdateEntry
  <2>2. current.path # None
    BY <2>1, Saving
  <2> QED
    BY <1>1, <1>4, <2>1, <2>2 DEF UpdateEntry
<1>5. CASE Saved(s)
  <2>1. \A t \in Saver \ {s} : save'[t] = save[t]
    BY <1>0, <1>5, EndFacts DEF Saved
  <2>2. CASE s = Background \/ screen[s] = None
    <3>1. UNCHANGED screen
      BY <1>5, <2>2 DEF Saved
    <3> QED
      BY <2>1, <2>2, <3>1, WatchedStay, Facts DEF SaveIdle, Saver
  <2>3. CASE ~(s = Background \/ screen[s] = None)
    <3>1. s \in Screen /\ screen[s] \in Editor
      BY <1>0, <2>3, HasEditor DEF Saver
    <3>2. PICK e \in Editor : /\ [screen EXCEPT ![s].unsaved = FALSE] = [screen EXCEPT ![s] = e]
                              /\ ~e.unsaved
      BY <1>0, <3>1, UnmarkFacts
    <3>3. screen' = [screen EXCEPT ![s] = e]
      BY <1>5, <2>3, <3>2 DEF Saved
    <3>4. screen'[s] = e /\ \A t \in Screen \ {s} : screen'[t] = screen[t]
      BY <1>0, <3>1, <3>3, OneScreenChanges
    <3> QED
      BY <2>1, <3>2, <3>4, WatchedStay DEF SaveIdle, Saver
  <2> QED
    BY <2>2, <2>3
<1> QED
  BY <1>2, <1>3, <1>4, <1>5 DEF SaveStep

\* Typing starts the timer; timer, button and dispose save what they unwatch.
LEMMA EditorWatched ==
  ASSUME BaseInv, NoOverlap, MarkIsWatched, NEW s \in Screen,
         Type(s) \/ TimerFires(s) \/ SaveButton(s) \/ Leave(s) \/ Dispose(s)
  PROVE  MarkIsWatched'
<1>0. TypeOK /\ s \in Saver
  BY DEF BaseInv, TypeInv, Saver
<1>1. CASE Type(s)
  <2>1. PICK e \in Editor : screen' = [screen EXCEPT ![s] = e] /\ e.timer
    BY <1>0, <1>1, TypeFacts
  <2>2. screen'[s] = e /\ \A t \in Screen \ {s} : screen'[t] = screen[t]
    BY <1>0, <2>1, OneScreenChanges
  <2>3. UNCHANGED save
    BY <1>1 DEF Type
  <2> QED
    BY <2>1, <2>2, <2>3, WatchedStay DEF SaveIdle
<1>2. CASE TimerFires(s) \/ SaveButton(s)
  <2>1. screen[s] \in Editor /\ SaveNow(s)
    BY <1>0, <1>2, HasEditor, InFrontHas DEF TimerFires, SaveButton
  <2>2. \/ screen' = [screen EXCEPT ![s].timer = FALSE, ![s].unsaved = StillUnsaved(s)]
        \/ screen' = [screen EXCEPT ![s].unsaved = StillUnsaved(s)]
    BY <1>2 DEF TimerFires, SaveButton
  <2>3. PICK d \in Editor : /\ [screen EXCEPT ![s].timer = FALSE, ![s].unsaved = StillUnsaved(s)]
                                 = [screen EXCEPT ![s] = d]
                            /\ d.unsaved = StillUnsaved(s)
    BY <1>0, <2>1, UnmarkFacts
  <2>4. PICK e \in Editor : /\ [screen EXCEPT ![s].unsaved = StillUnsaved(s)]
                                 = [screen EXCEPT ![s] = e]
                            /\ e.unsaved = StillUnsaved(s)
    BY <1>0, <2>1, UnmarkFacts
  <2>5. PICK f \in Editor : screen' = [screen EXCEPT ![s] = f] /\ f.unsaved = StillUnsaved(s)
    BY <2>2, <2>3, <2>4, Zenon
  <2>6. screen'[s] = f /\ \A t \in Screen \ {s} : screen'[t] = screen[t]
    BY <1>0, <2>5, OneScreenChanges
  <2>7. /\ \A q \in Saver \ {s} : save'[q] = save[q]
        /\ StillUnsaved(s) => save'[s].step = "write"
    <3>1. /\ \A q \in Saver \ {s} : save'[q] = save[q]
          /\ screen[s].unsaved /\ current.path # None =>
               save'[s] = [step |-> "write", path |-> current.path, text |-> screen[s].text]
      BY <1>0, <2>1, SaveNowFacts
    <3> QED
      BY <3>1 DEF StillUnsaved
  <2>8. f.unsaved => ~SaveIdle(s)'
    BY <2>5, <2>7 DEF SaveIdle, NoSave
  <2> QED
    BY <2>6, <2>7, <2>8, WatchedStay DEF SaveIdle, Saver
<1>3. CASE Leave(s)
  BY <1>3 DEF Leave, MarkIsWatched, SaveIdle
<1>4. CASE Dispose(s)
  <2>1. screen'[s] = None /\ \A t \in Screen \ {s} : screen'[t] = screen[t]
    BY <1>0, <1>4, TypeParts DEF Dispose
  <2>2. \A q \in Saver \ {s} : save'[q] = save[q]
    BY <1>0, <1>4, HasEditor, SaveNowFacts DEF Dispose, Leaving
  <2> QED
    BY <2>1, <2>2, WatchedStay DEF SaveIdle, Saver
<1> QED
  BY <1>1, <1>2, <1>3, <1>4

LEMMA NextWatched ==
  ASSUME BaseInv, NoOverlap, MarkIsWatched, [Next]_vars
  PROVE  MarkIsWatched'
<1>0. TypeOK
  BY DEF BaseInv, TypeInv
<1>1. CASE \E s \in Saver : SaveStep(s)
  BY <1>1, SaveWatched
<1>2. CASE \E s \in Screen : Type(s) \/ TimerFires(s) \/ SaveButton(s) \/ Leave(s) \/ Dispose(s)
  BY <1>2, EditorWatched
<1>3. ASSUME NEW p \in Path, NEW s \in Screen, Opened(p, s) PROVE MarkIsWatched'
  <2>1. PICK e \in Editor : screen' = [screen EXCEPT ![s] = e] /\ ~e.unsaved
    BY <1>0, <1>3, OpenedFacts
  <2>2. screen'[s] = e /\ \A t \in Screen \ {s} : screen'[t] = screen[t]
    BY <1>0, <2>1, OneScreenChanges
  <2>3. UNCHANGED save
    BY <1>3 DEF Opened
  <2> QED
    BY <2>1, <2>2, <2>3, WatchedStay DEF SaveIdle
<1>4. CASE \/ \E p \in Path : OpenNote(p) \/ CreateNote(p) \/ Delete({p}) \/ PullNote(p)
           \/ Delete({p \in Folder : entry[p] # None}) \/ ListStep \/ UNCHANGED vars
  <2>1. UNCHANGED <<screen, save>>
    BY <1>4 DEF OpenNote, CreateNote, Delete, PullNote, ListStep, CreateEntry, Created, RemoveEntry,
       DeleteFile, ListOnly, vars
  <2> QED
    BY <2>1 DEF MarkIsWatched, SaveIdle
<1>5. CASE GoToBackground
  <2>1. UNCHANGED screen /\ \A t \in Screen : save'[t] = save[t]
    BY <1>0, <1>5, TypeParts, Facts DEF GoToBackground, SaveCurrent, Saver
  <2> QED
    BY <2>1 DEF MarkIsWatched, SaveIdle
<1> QED
  BY <1>1, <1>2, <1>3, <1>4, <1>5 DEF Next

\* _onTextChanged, _saveNow: a screen that shows unsaved changes has its timer running or is
\* being saved; no other operation makes it forget, typing during the save neither.
THEOREM MarksAreWatched ==
  ASSUME NoOverlap
  PROVE  Spec => []MarkIsWatched
<1>1. BaseInv /\ MarkIsWatched /\ [Next]_vars => MarkIsWatched'
  BY NextWatched
<1>2. Init => MarkIsWatched
  BY DEF Init, MarkIsWatched
<1> QED
  BY <1>1, <1>2, AlwaysBaseInv, PTL DEF Spec

\* The safety half of DebounceSaves: at no moment is the text of a screen neither on the disk
\* nor on its way there, whatever is pulled.
THEOREM NoTextIsForgotten ==
  ASSUME OneOpening, Waits
  PROVE  Spec => []NoTextForgotten
<1>1. IndInv /\ MarkIsWatched => NoTextForgotten
  <2> SUFFICES ASSUME IndInv, MarkIsWatched, NEW s \in Screen, screen[s] # None
               PROVE  IF screen[s].unsaved
                        THEN \/ screen[s].timer
                             \/ save[s].path = screen[s].path /\ save[s].text = screen[s].text
                        ELSE file[screen[s].path] = screen[s].text \/ screen[s].path \in unread
    BY DEF NoTextForgotten
  <2>1. current.path = screen[s].path /\ ScreenShowsCurrent
    BY ScreenFacts DEF IndInv, ScreenInv
  <2>2. CASE ~screen[s].unsaved
    BY <2>1, <2>2 DEF ScreenShowsCurrent
  <2>3. CASE screen[s].unsaved /\ ~SaveIdle(s)
    <3>1. save[s].path = current.path /\ save[s].text = current.text
      BY <2>3, Saving, SavingText DEF IndInv, Saver
    <3> QED
      BY <2>1, <2>3, <3>1 DEF ScreenShowsCurrent
  <2>4. CASE screen[s].unsaved /\ SaveIdle(s)
    BY <2>4 DEF MarkIsWatched
  <2> QED
    BY <2>2, <2>3, <2>4
<1>2. NoOverlap
  BY DEF OneOpening
<1> QED
  BY <1>1, <1>2, AlwaysIndInv, MarksAreWatched, PTL
=============================================================================
