----------------------------- MODULE MCListing -----------------------------
(* An instance of Listing for TLC. *)
EXTENDS Listing

\* a.md, b/, b/x.md, b/y.md, c.md
Keys == {1, 3, 4, 5}
Folders == {2}
Parents == [k \in Keys |-> IF k \in {3, 4} THEN 2 ELSE None]
=============================================================================
