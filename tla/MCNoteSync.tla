----------------------------- MODULE MCNoteSync -----------------------------
(* Instances of NoteSync for TLC. *)
EXTENDS NoteSync, TLC

CONSTANTS n1, n2, blank, v1, v2

NothingRefused == {}
LargeRefused == {<<n1, v2>>}      \* v2 is larger than maxNoteSize

\* Devices are interchangeable, and so are the versions but Blank.
Symmetry == Permutations(Device) \union Permutations(Content \ {blank})
=============================================================================
