--------------------------- MODULE Listing_proofs ---------------------------
(***************************************************************************)
(* Proofs, for every finite set of names and every bound, that a page is   *)
(* the first part of the list and that a list tells the truth about every  *)
(* note.                                                                   *)
(*                                                                         *)
(* The page is computed by a loop, so its lemmas need an induction.  It    *)
(* is written as the search for a least counterexample (LeastNat), since   *)
(* the provers cannot instantiate the predicate of an induction theorem.   *)
(***************************************************************************)
EXTENDS Listing, FiniteSetTheorems, WellFoundedInduction, TLAPS

-----------------------------------------------------------------------------
\* Numbers

\* A set of numbers that has elements has a least one.
LEMMA LeastNat ==
  ASSUME NEW T, T \subseteq Nat, T # {}
  PROVE  \E n \in T : \A m \in T : n <= m
<1>1. PICK n \in T : \A m \in T : ~(<<m, n>> \in OpToRel(<, Nat))
  BY WFMin, NatLessThanWellFounded
<1>2. \A m \in T : ~(m < n)
  BY <1>1 DEF OpToRel
<1> QED BY <1>2

\* Min is that element.
LEMMA MinIsLeast ==
  ASSUME NEW T, T \subseteq Nat, T # {}
  PROVE  /\ Min(T) \in T
         /\ \A m \in T : Min(T) <= m
BY LeastNat DEF Min

-----------------------------------------------------------------------------
\* The loop of the pagination

\* The function f goes through what the loop has left, up to its n-th turn.
Loops(f, all, n) ==
  f = [i \in 0 .. n |-> IF i = 0 THEN all ELSE Take(f[i - 1])]

\* A loop can go on for one more turn.
LEMMA LoopGoesOn ==
  ASSUME NEW all, NEW n \in Nat, NEW f, Loops(f, all, n)
  PROVE  \E h : Loops(h, all, n + 1)
<1> DEFINE h == [i \in 0 .. n + 1 |-> IF i = n + 1 THEN Take(f[n]) ELSE f[i]]
<1>1. \A i \in 0 .. n : f[i] = IF i = 0 THEN all ELSE Take(f[i - 1])
  BY DEF Loops
<1>2. \A i \in 0 .. n + 1 : h[i] = IF i = 0 THEN all ELSE Take(h[i - 1])
  <2> SUFFICES ASSUME NEW i \in 0 .. n + 1
               PROVE  h[i] = IF i = 0 THEN all ELSE Take(h[i - 1])
    OBVIOUS
  <2>1. CASE i = 0
    BY <2>1, <1>1
  <2>2. CASE i \in 1 .. n
    <3>1. h[i] = f[i] /\ h[i - 1] = f[i - 1]
      BY <2>2
    <3> QED BY <3>1, <2>2, <1>1
  <2>3. CASE i = n + 1
    <3>1. h[i] = Take(f[n]) /\ h[n] = f[n] /\ i - 1 = n
      BY <2>3
    <3> QED BY <3>1, <2>3
  <2> QED BY <2>1, <2>2, <2>3
<1>3. h = [i \in 0 .. n + 1 |-> h[i]]
  OBVIOUS
<1>4. \A g : g = h => g = [i \in 0 .. n + 1 |-> IF i = 0 THEN all ELSE Take(g[i - 1])]
  <2>1. PICK g : g = h
    OBVIOUS
  <2>2. g = [i \in 0 .. n + 1 |-> g[i]]
    BY <2>1, <1>3
  <2>3. \A i \in 0 .. n + 1 : g[i] = IF i = 0 THEN all ELSE Take(g[i - 1])
    BY <2>1, <1>2
  <2> HIDE DEF h
  <2>4. g = [i \in 0 .. n + 1 |-> IF i = 0 THEN all ELSE Take(g[i - 1])]
    BY <2>2, <2>3
  <2> QED BY <2>1, <2>4
<1> QED BY <1>4 DEF Loops

\* The loop is defined for any number of turns.
LEMMA LoopExists ==
  ASSUME NEW all, NEW n \in Nat
  PROVE  \E f : Loops(f, all, n)
<1> DEFINE Bad == {k \in Nat : ~\E f : Loops(f, all, k)}
<1> SUFFICES ASSUME Bad # {} PROVE FALSE
  OBVIOUS
<1>1. PICK k \in Bad : \A m \in Bad : k <= m
  BY LeastNat
<1>2. k # 0
  <2>1. [i \in 0 .. 0 |-> all]
          = [i \in 0 .. 0 |-> IF i = 0 THEN all ELSE Take([j \in 0 .. 0 |-> all][i - 1])]
    OBVIOUS
  <2> QED BY <2>1 DEF Loops
<1>3. k - 1 \in Nat /\ k - 1 \notin Bad /\ (k - 1) + 1 = k
  BY <1>1, <1>2
<1>4. PICK f : Loops(f, all, k - 1)
  BY <1>3
<1> QED BY <1>3, <1>4, LoopGoesOn

\* Left is the last turn of such a loop.
LEMMA LeftIsLoop ==
  ASSUME NEW all, NEW n \in Nat
  PROVE  \E f : Loops(f, all, n) /\ Left(all, n) = f[n]
<1> DEFINE f == CHOOSE f : Loops(f, all, n)
<1>1. Loops(f, all, n)
  BY LoopExists
<1>2. Left(all, n) = f[n]
  BY DEF Left, Loops
<1> HIDE DEF f
<1> QED BY <1>1, <1>2

-----------------------------------------------------------------------------
\* What the loop leaves

List == [objects : SUBSET Key, prefixes : SUBSET Folder]
Entries(list) == list.objects \union list.prefixes

\* Names are finitely many numbers, so what a list has can be counted.
LEMMA EntriesCount ==
  ASSUME NEW list \in List
  PROVE  /\ Entries(list) \subseteq Nat
         /\ IsFiniteSet(Entries(list))
         /\ Cardinality(Entries(list)) \in Nat
         /\ Total(list) = Cardinality(Entries(list))
<1>1. /\ list.objects \subseteq Key /\ list.prefixes \subseteq Folder
      /\ list.objects \intersect list.prefixes = {}
  BY ConstantsAssumption DEF List
<1>2. IsFiniteSet(list.objects) /\ IsFiniteSet(list.prefixes)
  <2>1. list.objects \in SUBSET (Key \union Folder) /\ list.prefixes \in SUBSET (Key \union Folder)
    BY <1>1
  <2> QED BY <2>1, FS_Subset, ConstantsAssumption
<1>3. /\ IsFiniteSet(list.objects \union list.prefixes)
      /\ Cardinality(list.objects \union list.prefixes)
           = Cardinality(list.objects) + Cardinality(list.prefixes)
             - Cardinality(list.objects \intersect list.prefixes)
  BY <1>2, FS_Union
<1>4. Cardinality(list.objects \intersect list.prefixes) = 0
  BY <1>1, FS_EmptySet
<1>5. Cardinality(list.objects) \in Nat /\ Cardinality(list.prefixes) \in Nat
  BY <1>2, FS_CardinalityType
<1> QED BY <1>1, <1>3, <1>4, <1>5, ConstantsAssumption DEF Entries, Total

\* Take takes the least of all entries, be it an object or a prefix.
LEMMA TakeTakesLeast ==
  ASSUME NEW list \in List, Entries(list) # {}
  PROVE  /\ Take(list) \in List
         /\ \E x \in Entries(list) :
              /\ Entries(Take(list)) = Entries(list) \ {x}
              /\ \A y \in Entries(list) : x <= y
<1> USE ConstantsAssumption
<1>1. PICK O \in SUBSET Key, P \in SUBSET Folder : list = [objects |-> O, prefixes |-> P]
  BY DEF List
<1>2. O \union P # {} /\ O \intersect P = {} /\ O \subseteq Nat /\ P \subseteq Nat
  BY <1>1 DEF Entries
<1>3. O # {} => Min(O) \in O /\ \A y \in O : Min(O) <= y
  BY <1>2, MinIsLeast
<1>4. P # {} => Min(P) \in P /\ \A y \in P : Min(P) <= y
  BY <1>2, MinIsLeast
<1>5. CASE O # {} /\ (P = {} \/ Min(O) < Min(P))
  <2>1. Take(list) = [objects |-> O \ {Min(O)}, prefixes |-> P]
    <3>1. list.objects = O /\ list.prefixes = P
      BY <1>1
    <3>2. Take(list) = [list EXCEPT !.objects = @ \ {Min(@)}]
      BY <1>5, <3>1 DEF Take
    <3>3. PICK m : m = Min(O)
      OBVIOUS
    <3>4. Take(list) = [list EXCEPT !.objects = O \ {m}]
      BY <3>1, <3>2, <3>3
    <3>5. Take(list) = [objects |-> O \ {m}, prefixes |-> P]
      BY <1>1, <3>4
    <3> QED BY <3>3, <3>5
  <2>2. \A y \in O \union P : Min(O) <= y
    <3>1. PICK o, p : o = Min(O) /\ p = Min(P)
      OBVIOUS
    <3>2. \A y \in O : o <= y
      BY <1>3, <1>5, <3>1
    <3>3. o \in Nat /\ (P # {} => p \in Nat /\ o < p /\ \A y \in P : p <= y)
      BY <1>2, <1>3, <1>4, <1>5, <3>1
    <3>4. \A y \in P : o <= y
      BY <1>2, <3>3
    <3> QED BY <3>1, <3>2, <3>4
  <2>3. Min(O) \in O \union P /\ (O \ {Min(O)}) \union P = (O \union P) \ {Min(O)}
    BY <1>2, <1>3, <1>5
  <2>4. Take(list) \in List
    BY <2>1 DEF List
  <2> QED BY <1>1, <2>1, <2>2, <2>3, <2>4 DEF Entries
<1>6. CASE ~(O # {} /\ (P = {} \/ Min(O) < Min(P)))
  <2>1. Take(list) = [objects |-> O, prefixes |-> P \ {Min(P)}]
    <3>1. list.objects = O /\ list.prefixes = P
      BY <1>1
    <3>2. Take(list) = [list EXCEPT !.prefixes = @ \ {Min(@)}]
      BY <1>6, <3>1 DEF Take
    <3>3. PICK m : m = Min(P)
      OBVIOUS
    <3>4. Take(list) = [list EXCEPT !.prefixes = P \ {m}]
      BY <3>1, <3>2, <3>3
    <3>5. Take(list) = [objects |-> O, prefixes |-> P \ {m}]
      BY <1>1, <3>4
    <3> QED BY <3>3, <3>5
  <2>2. P # {}
    BY <1>2, <1>6
  <2>3. \A y \in O \union P : Min(P) <= y
    <3>1. PICK o, p : o = Min(O) /\ p = Min(P)
      OBVIOUS
    <3>2. \A y \in P : p <= y
      BY <1>4, <2>2, <3>1
    <3>3. p \in Nat /\ (O # {} => o \in Nat /\ ~(o < p) /\ \A y \in O : o <= y)
      BY <1>2, <1>3, <1>4, <1>6, <2>2, <3>1
    <3>4. \A y \in O : p <= y
      BY <1>2, <3>3
    <3> QED BY <3>1, <3>2, <3>4
  <2>4. Min(P) \in O \union P /\ O \union (P \ {Min(P)}) = (O \union P) \ {Min(P)}
    BY <1>2, <1>4, <2>2
  <2>5. Take(list) \in List
    BY <2>1 DEF List
  <2> QED BY <1>1, <2>1, <2>3, <2>4, <2>5 DEF Entries
<1> QED BY <1>5, <1>6

\* What left says when n entries have been taken from all, the least ones.
IsRest(left, all, n) ==
  /\ left \in List
  /\ Entries(left) \subseteq Entries(all)
  /\ Cardinality(Entries(left)) = Cardinality(Entries(all)) - n
  /\ \A x \in Entries(all) \ Entries(left), y \in Entries(left) : x < y

LEMMA TakeLeavesRest ==
  ASSUME NEW all \in List, NEW n \in Nat, NEW left, IsRest(left, all, n),
         n < Cardinality(Entries(all))
  PROVE  IsRest(Take(left), all, n + 1)
<1>1. left \in List /\ IsFiniteSet(Entries(left)) /\ Entries(left) \subseteq Nat
  BY EntriesCount DEF IsRest
<1>2. Cardinality(Entries(all)) \in Nat /\ Entries(all) \subseteq Nat
  BY EntriesCount
<1>3. Cardinality(Entries(left)) = Cardinality(Entries(all)) - n
  BY DEF IsRest
<1>4. Entries(left) # {}
  BY <1>1, <1>2, <1>3, FS_EmptySet
<1>5. PICK x \in Entries(left) :
        /\ Entries(Take(left)) = Entries(left) \ {x}
        /\ \A y \in Entries(left) : x <= y
  BY <1>1, <1>4, TakeTakesLeast
<1>6. Cardinality(Entries(Take(left))) = Cardinality(Entries(left)) - 1
  BY <1>1, <1>5, FS_RemoveElement
<1>7. Cardinality(Entries(Take(left))) = Cardinality(Entries(all)) - (n + 1)
  BY <1>2, <1>3, <1>6
<1>8. Take(left) \in List /\ Entries(Take(left)) \subseteq Entries(all)
  BY <1>1, <1>4, <1>5, TakeTakesLeast DEF IsRest
<1>9. ASSUME NEW a \in Entries(all) \ Entries(Take(left)), NEW y \in Entries(Take(left))
      PROVE  a < y
  <2>1. CASE a = x
    <3>1. y \in Nat /\ x \in Nat /\ y # x /\ x <= y
      BY <1>1, <1>5
    <3> QED BY <2>1, <3>1
  <2>2. CASE a # x
    <3>1. a \in Entries(all) \ Entries(left) /\ y \in Entries(left)
      BY <1>5, <2>2
    <3> QED BY <3>1 DEF IsRest
  <2> QED BY <2>1, <2>2
<1> QED BY <1>7, <1>8, <1>9 DEF IsRest

\* The loop of BuildListObjectsResult takes the first n entries.
LEMMA LeftIsRest ==
  ASSUME NEW all \in List, NEW n \in Nat, n <= Cardinality(Entries(all))
  PROVE  IsRest(Left(all, n), all, n)
<1>1. Cardinality(Entries(all)) \in Nat
  BY EntriesCount
<1>2. PICK f : Loops(f, all, n) /\ Left(all, n) = f[n]
  BY LeftIsLoop
<1>3. \A i \in 0 .. n : f[i] = IF i = 0 THEN all ELSE Take(f[i - 1])
  BY <1>2 DEF Loops
<1> DEFINE Bad == {i \in 0 .. n : ~IsRest(f[i], all, i)}
<1> SUFFICES ASSUME Bad # {} PROVE FALSE
  BY <1>2
<1>a. Bad \subseteq Nat
  OBVIOUS
<1>b. ASSUME NEW B, B = Bad
      PROVE  \E i \in B : \A j \in B : i <= j
  BY <1>a, <1>b, LeastNat
<1>4. PICK i \in Bad : \A j \in Bad : i <= j
  BY <1>b
<1>5. i # 0
  <2>1. IsRest(all, all, 0)
    BY <1>1 DEF IsRest
  <2>2. f[0] = all
    BY <1>3
  <2> QED BY <2>1, <2>2
<1>6. i - 1 \in 0 .. n /\ i - 1 \in Nat /\ i - 1 < n /\ (i - 1) + 1 = i
  BY <1>4, <1>5
<1>7. IsRest(f[i - 1], all, i - 1)
  BY <1>4, <1>6
<1>8. IsRest(Take(f[i - 1]), all, (i - 1) + 1)
  BY <1>1, <1>6, <1>7, TakeLeavesRest
<1>9. f[i] = Take(f[i - 1])
  BY <1>3, <1>4, <1>5
<1> QED BY <1>4, <1>6, <1>8, <1>9

-----------------------------------------------------------------------------
\* The page

Parts(page) == page.contents \union page.prefixes

\* The page is the first part of what was found.
FirstOf(page, all, n) ==
  /\ page \in Page
  /\ Parts(page) \subseteq Entries(all)
  /\ Cardinality(Parts(page)) <= n
  /\ \A x \in Parts(page), y \in Entries(all) \ Parts(page) : x < y
  /\ page.truncated <=> Parts(page) # Entries(all)
  /\ page.truncated => Cardinality(Parts(page)) = n

\* The prefix and the delimiter choose among the notes and among their folders.
LEMMA ListedIsList ==
  ASSUME NEW q \in Query, NEW keys \in SUBSET Key
  PROVE  Listed(q, keys) \in List
<1>1. Objects(q, keys) \in SUBSET Key
  BY DEF Objects, Filtered
<1>2. PrefixGroups(q, keys) \in SUBSET Folder
  BY ConstantsAssumption DEF PrefixGroups, Filtered, Top
<1> QED BY <1>1, <1>2 DEF Listed, List

\* A page is what the loop has taken.
LEMMA PageParts ==
  ASSUME NEW all \in List, NEW left \in List, Entries(left) \subseteq Entries(all),
         NEW truncated \in BOOLEAN
  PROVE  /\ PageOf(all, left, truncated) \in Page
         /\ Parts(PageOf(all, left, truncated)) = Entries(all) \ Entries(left)
         /\ PageOf(all, left, truncated).truncated = truncated
BY ConstantsAssumption DEF List, Entries, PageOf, Page, Parts

LEMMA BuiltPageIsFirst ==
  ASSUME NEW q \in Query, NEW keys \in SUBSET Key
  PROVE  FirstOf(BuildListObjectsResult(q, keys), Listed(q, keys), q.maxKeys)
<1> DEFINE all == Listed(q, keys)
           n == q.maxKeys
<1>1. all \in List /\ n \in Nat /\ n > 0
  <2>1. q \in S3Query => q.maxKeys \in 1 .. MaxKeys
    BY DEF S3Query
  <2>2. ManifestQuery.maxKeys = 1
    BY DEF ManifestQuery
  <2>3. q \in S3Query \/ q = ManifestQuery
    BY DEF Query
  <2>4. q.maxKeys \in Nat /\ q.maxKeys > 0
    BY <2>1, <2>2, <2>3, ConstantsAssumption
  <2> QED BY <2>4, ListedIsList
<1>2. BuildListObjectsResult(q, keys) =
        IF Total(all) > n THEN PageOf(all, Left(all, n), TRUE) ELSE PageOf(all, Nothing, FALSE)
  BY DEF BuildListObjectsResult
<1> HIDE DEF all, n
<1>3. Total(all) = Cardinality(Entries(all)) /\ Cardinality(Entries(all)) \in Nat
      /\ IsFiniteSet(Entries(all))
  BY <1>1, EntriesCount
<1>4. CASE Total(all) > n
  <2>1. PICK left : left = Left(all, n)
    OBVIOUS
  <2>2. IsRest(left, all, n)
    BY <1>1, <1>3, <1>4, <2>1, LeftIsRest
  <2>3. left \in List /\ Entries(left) \subseteq Entries(all)
    BY <2>2 DEF IsRest
  <2>4. PICK page : page = PageOf(all, left, TRUE)
    OBVIOUS
  <2>5. /\ page \in Page
        /\ Parts(page) = Entries(all) \ Entries(left)
        /\ page.truncated = TRUE
    BY <1>1, <2>3, <2>4, PageParts
  <2>6. Cardinality(Parts(page)) = n
    <3>1. Cardinality(Entries(all) \ Entries(left))
            = Cardinality(Entries(all)) - Cardinality(Entries(all) \intersect Entries(left))
      BY <1>3, FS_Difference
    <3>2. Entries(all) \intersect Entries(left) = Entries(left)
      BY <2>3
    <3>3. Cardinality(Entries(left)) = Cardinality(Entries(all)) - n
      BY <2>2 DEF IsRest
    <3>4. Cardinality(Parts(page)) = Cardinality(Entries(all)) - Cardinality(Entries(left))
      BY <2>5, <3>1, <3>2
    <3> QED BY <1>1, <1>3, <3>3, <3>4
  <2>7. Parts(page) # Entries(all)
    BY <1>1, <1>3, <1>4, <2>6
  <2>8. \A x \in Parts(page), y \in Entries(all) \ Parts(page) : x < y
    BY <2>2, <2>5 DEF IsRest
  <2>9. FirstOf(page, all, n)
    BY <1>1, <2>5, <2>6, <2>7, <2>8 DEF FirstOf
  <2> QED BY <1>2, <1>4, <2>1, <2>4, <2>9 DEF all, n
<1>5. CASE ~(Total(all) > n)
  <2>1. Nothing \in List /\ Entries(Nothing) = {}
    BY DEF Nothing, List, Entries
  <2>2. PICK page : page = PageOf(all, Nothing, FALSE)
    OBVIOUS
  <2>3. page \in Page /\ Parts(page) = Entries(all) /\ page.truncated = FALSE
    <3>1. PICK left : left = Nothing
      OBVIOUS
    <3>2. left \in List /\ Entries(left) = {} /\ Entries(left) \subseteq Entries(all)
      BY <2>1, <3>1
    <3>3. page = PageOf(all, left, FALSE)
      BY <2>2, <3>1
    <3>4. /\ page \in Page
          /\ Parts(page) = Entries(all) \ Entries(left)
          /\ page.truncated = FALSE
      BY <1>1, <3>2, <3>3, PageParts
    <3> QED BY <3>2, <3>4
  <2>4. FirstOf(page, all, n)
    BY <1>1, <1>3, <1>5, <2>3 DEF FirstOf
  <2> QED BY <1>2, <1>5, <2>2, <2>4 DEF all, n
<1> QED BY <1>4, <1>5

-----------------------------------------------------------------------------
\* The inductive invariant

\* Whatever a file is during a listing goes into the history.
HistoryOK == Listing => \A k \in Key : file[k] \in during[k]

\* What the walk says of a note was so, unless the turn of the note or of its folder
\* is still to come.
WalkOK ==
  At("walk") \/ At("answer") =>
    \A k \in Key :
      \/ request.metas[k] \in during[k]
      \/ request.metas[k] = None /\ (k \in request.left \/ ParentOf[k] \in request.left)

\* What the client has from the pages before was so.
ClientOK ==
  Listing =>
    /\ \A k \in Key : request.got[k] \in during[k] \union {None}
    /\ \A g \in request.below : \E k \in Below(g) : during[k] # {None}

\* The page is made of the whole walk.
AnswerOK ==
  At("answer") =>
    /\ request.left = {}
    /\ request.page = BuildListObjectsResult(request.query, Walked)

IndInv == TypeOK /\ HistoryOK /\ WalkOK /\ ClientOK /\ AnswerOK /\ ListTells

-----------------------------------------------------------------------------
\* Lemmas about the state

\* None is no name.
LEMMA NamesAreNumbers ==
  /\ Key \subseteq Nat /\ Folder \subseteq Nat /\ Key \intersect Folder = {}
  /\ None \notin Key /\ None \notin Folder /\ None \notin Version
  /\ \A k \in Key : ParentOf[k] \in Folder \union {None}
BY ConstantsAssumption

\* The parts of a request.
LEMMA RequestParts ==
  ASSUME NEW r \in Request
  PROVE  /\ r.step \in {"idle", "ask", "walk", "answer", "done"}
         /\ r.query \in Query /\ r.left \in SUBSET (Key \union Folder)
         /\ r.metas \in Metas /\ r.page \in Page /\ r.got \in Metas
         /\ r.below \in SUBSET Folder
         /\ r = [step |-> r.step, query |-> r.query, token |-> r.token, left |-> r.left,
                 metas |-> r.metas, page |-> r.page, got |-> r.got, below |-> r.below]
BY DEF Request

\* The request of a client that has asked for nothing yet.
LEMMA EmptyRequest ==
  /\ NoMetas \in Metas /\ \A k \in Key : NoMetas[k] = None
  /\ NoPage \in Page
  /\ ManifestQuery \in Query
  /\ Idle \in Request
  /\ Idle.step = "idle" /\ Idle.page = NoPage
<1>1. NoMetas \in Metas /\ (\A k \in Key : NoMetas[k] = None)
  BY DEF NoMetas, Metas
<1>2. NoPage \in Page
  BY DEF NoPage, Page
<1>3. ManifestQuery \in Query
  BY DEF Query
<1> QED BY <1>1, <1>2, <1>3 DEF Idle, Request

\* What a listing of everything asks for, and what is in no folder asked for.
LEMMA ListedOf ==
  ASSUME NEW q \in Query, NEW keys \in SUBSET Key
  PROVE  /\ Objects(q, keys) = Objects(q, Key) \intersect keys
         /\ PrefixGroups(q, keys) \subseteq PrefixGroups(q, Key)
         /\ PrefixGroups(q, keys) \subseteq Folder
         /\ \A g \in PrefixGroups(q, keys) : \E k \in keys : k \in Below(g)
         /\ \A g \in PrefixGroups(q, Key) \ PrefixGroups(q, keys) :
              Below(g) \intersect keys = {}
BY NamesAreNumbers DEF Objects, PrefixGroups, Filtered, Grouped, Top, Below

-----------------------------------------------------------------------------
\* The steps keep the invariant

LEMMA InitHolds == Init => IndInv
<1> SUFFICES ASSUME Init PROVE IndInv
  OBVIOUS
<1>1. At("idle") /\ request \in Request /\ request.page = NoPage
  BY EmptyRequest DEF Init, At
<1>2. folders \subseteq Folder /\ \A k \in Present : ParentOf[k] \in folders \union {None}
  BY NamesAreNumbers DEF Init, Present, Top
<1>3. TypeOK
  BY <1>1, <1>2, ConstantsAssumption DEF Init, TypeOK
<1> QED BY <1>1, <1>3
     DEF IndInv, At, Listing, HistoryOK, WalkOK, ClientOK, AnswerOK, ListTells

LEMMA StutterKeeps == IndInv /\ UNCHANGED vars => IndInv'
BY DEF IndInv, vars, TypeOK, At, Listing, HistoryOK, WalkOK, ClientOK, AnswerOK, ListTells,
       Present, Walked, Top

LEMMA WriteKeeps ==
  ASSUME IndInv, NEW k \in Key, NEW v \in Version \union {None}, Write(k, v)
  PROVE  IndInv'
<1> USE NamesAreNumbers DEF IndInv
<1>1. request' = request /\ file \in Metas /\ file' = [file EXCEPT ![k] = v]
  BY DEF Write, TypeOK
<1>2. file'[k] = v /\ \A j \in Key : j # k => file'[j] = file[j]
  BY <1>1 DEF Metas
<1>3. during \in [Key -> SUBSET (Version \union {None})]
  BY DEF TypeOK
<1>4. /\ during' \in [Key -> SUBSET (Version \union {None})]
      /\ \A j \in Key : during[j] \subseteq during'[j]
      /\ Listing => v \in during'[k]
      /\ ~Listing => during' = during
  BY <1>3 DEF Write
<1>5. TypeOK'
  <2>1. file' \in Metas
    BY <1>1 DEF Metas
  <2>2. folders' \subseteq Folder /\ folders \subseteq folders'
        /\ (v # None => ParentOf[k] \in folders' \union {None})
    BY DEF Write, TypeOK
  <2>3. \A j \in Present' : ParentOf[j] \in folders' \union {None}
    BY <1>2, <2>2 DEF TypeOK, Present
  <2>4. writes' \in 0 .. MaxWrites
    BY ConstantsAssumption DEF Write, TypeOK
  <2>5. request' \in Request /\ (request'.query.manifest => request'.page = NoPage)
    BY <1>1 DEF TypeOK
  <2> QED BY <1>4, <2>1, <2>2, <2>3, <2>4, <2>5 DEF TypeOK
<1>6. HistoryOK'
  BY <1>1, <1>2, <1>4 DEF HistoryOK, Listing
<1>7. WalkOK'
  BY <1>1, <1>4 DEF WalkOK, At
<1>8. ClientOK'
  <2> SUFFICES ASSUME Listing PROVE ClientOK!2'
    BY <1>1 DEF ClientOK, Listing
  <2>1. \A j \in Key : request'.got[j] \in during'[j] \union {None}
    BY <1>1, <1>4 DEF ClientOK
  <2>2. ASSUME NEW g \in request.below
        PROVE  \E j \in Below(g) : during'[j] # {None}
    <3>1. PICK j \in Below(g) : during[j] # {None}
      BY DEF ClientOK
    <3>2. j \in Key /\ file[j] \in during[j] /\ during[j] \subseteq during'[j]
      BY <1>4 DEF HistoryOK, Below
    <3> QED BY <3>1, <3>2
  <2> QED BY <1>1, <2>1, <2>2 DEF ClientOK
<1>9. AnswerOK'
  BY <1>1 DEF AnswerOK, At, Walked
<1>10. ListTells'
  BY <1>1, <1>4 DEF ListTells, At, Listing
<1> QED BY <1>5, <1>6, <1>7, <1>8, <1>9, <1>10

\* A step of the listing leaves the files alone, and the history.
LEMMA ListingFrame ==
  ASSUME TypeOK, UNCHANGED <<file, folders, writes>>, request' \in Request,
         request'.query.manifest => request'.page = NoPage,
         during' \in [Key -> SUBSET (Version \union {None})]
  PROVE  TypeOK'
BY DEF TypeOK, Present

LEMMA StartListingKeeps ==
  ASSUME IndInv, NEW q \in Query, StartListing(q)
  PROVE  IndInv'
<1> USE DEF IndInv
<1>1. request' = [Idle EXCEPT !.step = "ask", !.query = q]
      /\ during' = [k \in Key |-> {file[k]}] /\ file' = file
  BY DEF StartListing, Files
<1>2. /\ request' \in Request /\ request'.page = NoPage
      /\ request'.step = "ask" /\ request'.got = NoMetas /\ request'.below = {}
  BY <1>1, EmptyRequest DEF Idle, Request
<1>3. during' \in [Key -> SUBSET (Version \union {None})]
  BY <1>1 DEF TypeOK, Metas
<1>4. TypeOK'
  BY <1>2, <1>3, ListingFrame DEF StartListing, Files
<1>5. HistoryOK'
  BY <1>1 DEF HistoryOK
<1>6. ClientOK'
  BY <1>2, EmptyRequest DEF ClientOK
<1> QED BY <1>2, <1>4, <1>5, <1>6 DEF WalkOK, AnswerOK, ListTells, At

LEMMA ReadRootKeeps ==
  ASSUME IndInv, ReadRoot
  PROVE  IndInv'
<1> USE NamesAreNumbers DEF IndInv
<1>1. PICK root : root = (Present \intersect Top) \union folders
  OBVIOUS
<1>2. /\ request.step = "ask" /\ request \in Request
      /\ request' = [request EXCEPT !.step = "walk", !.metas = NoMetas, !.left = root]
      /\ file' = file /\ during' = during
  BY <1>1 DEF ReadRoot, Files, At, TypeOK
<1>3. root \in SUBSET (Key \union Folder)
  BY <1>1 DEF TypeOK, Present
<1>4. /\ request' \in Request /\ request'.query = request.query /\ request'.page = request.page
      /\ request'.step = "walk" /\ request'.got = request.got /\ request'.below = request.below
      /\ request'.left = root /\ request'.metas = NoMetas
  BY <1>2, <1>3, EmptyRequest DEF Request
<1>5. TypeOK'
  BY <1>2, <1>4, ListingFrame DEF ReadRoot, Files, TypeOK
<1>6. HistoryOK'
  BY <1>2 DEF HistoryOK, Listing
<1>7. ClientOK'
  BY <1>2, <1>4 DEF ClientOK, Listing
<1>8. ASSUME NEW k \in Key
      PROVE  \/ NoMetas[k] \in during[k]
             \/ NoMetas[k] = None /\ (k \in root \/ ParentOf[k] \in root)
  <2>1. NoMetas[k] = None /\ file[k] \in during[k]
    BY <1>2, EmptyRequest DEF HistoryOK, Listing
  <2>2. CASE file[k] = None
    BY <2>1, <2>2
  <2>3. CASE file[k] # None
    <3>1. k \in Present /\ ParentOf[k] \in folders \union {None}
      BY <2>3 DEF TypeOK, Present
    <3> QED BY <1>1, <2>1, <3>1 DEF Top
  <2> QED BY <2>2, <2>3
<1>9. WalkOK'
  BY <1>2, <1>4, <1>8 DEF WalkOK
<1> QED BY <1>4, <1>5, <1>6, <1>7, <1>9 DEF AnswerOK, ListTells, At

\* ReadNext reads the names of a folder, or what is left of a note.
LEMMA ReadNextEffect ==
  ASSUME TypeOK, ReadNext
  PROVE  \E n \in request.left, left \in SUBSET (Key \union Folder), metas \in Metas :
           /\ request' = [request EXCEPT !.left = left, !.metas = metas]
           /\ \/ /\ n \in Folder /\ metas = request.metas
                 /\ left = (request.left \ {n}) \union (Below(n) \intersect Present)
              \/ /\ n \in Key /\ metas = [request.metas EXCEPT ![n] = file[n]]
                 /\ left = request.left \ {n}
<1> USE NamesAreNumbers
<1>1. request \in Request /\ request.left \in SUBSET (Key \union Folder)
      /\ request.metas \in Metas
  BY RequestParts DEF TypeOK
<1>2. request.left # {} /\ request.left \subseteq Nat
  BY <1>1 DEF ReadNext
<1>3. PICK n : n = Min(request.left) /\ n \in request.left
  BY <1>2, MinIsLeast
<1>4. CASE n \in Folder
  <2>1. PICK left : left = (request.left \ {n}) \union (Below(n) \intersect Present)
    OBVIOUS
  <2>2. request' = [request EXCEPT !.left = left]
    BY <1>3, <1>4, <2>1 DEF ReadNext
  <2>3. request' = [request EXCEPT !.left = left, !.metas = request.metas]
    BY <1>1, <2>2 DEF Request
  <2>4. left \in SUBSET (Key \union Folder)
    BY <1>1, <2>1 DEF Below
  <2> QED BY <1>1, <1>3, <1>4, <2>1, <2>3, <2>4
<1>5. CASE n \in Key
  <2>1. PICK left, metas : left = request.left \ {n} /\ metas = [request.metas EXCEPT ![n] = file[n]]
    OBVIOUS
  <2>2. n \notin Folder
    BY <1>5
  <2>3. request' = [request EXCEPT !.left = left, !.metas = metas]
    BY <1>3, <2>1, <2>2 DEF ReadNext
  <2>4. left \in SUBSET (Key \union Folder) /\ metas \in Metas
    BY <1>1, <1>5, <2>1 DEF TypeOK, Metas
  <2> QED BY <1>3, <1>5, <2>1, <2>3, <2>4
<1> QED BY <1>1, <1>3, <1>4, <1>5

LEMMA ReadNextKeeps ==
  ASSUME IndInv, ReadNext
  PROVE  IndInv'
<1> USE NamesAreNumbers DEF IndInv
<1>1. PICK n \in request.left, left \in SUBSET (Key \union Folder), metas \in Metas :
        /\ request' = [request EXCEPT !.left = left, !.metas = metas]
        /\ \/ /\ n \in Folder /\ metas = request.metas
              /\ left = (request.left \ {n}) \union (Below(n) \intersect Present)
           \/ /\ n \in Key /\ metas = [request.metas EXCEPT ![n] = file[n]]
              /\ left = request.left \ {n}
  BY ReadNextEffect
<1>2. request.step = "walk" /\ request \in Request /\ file' = file /\ during' = during
      /\ request.metas \in Metas
  BY RequestParts DEF ReadNext, Files, At, TypeOK
<1>3. /\ request' \in Request /\ request'.query = request.query /\ request'.page = request.page
      /\ request'.step = "walk" /\ request'.got = request.got /\ request'.below = request.below
      /\ request'.left = left /\ request'.metas = metas
  BY <1>1, <1>2 DEF Request
<1>4. TypeOK'
  BY <1>2, <1>3, ListingFrame DEF ReadNext, Files, TypeOK
<1>5. HistoryOK'
  BY <1>2 DEF HistoryOK, Listing
<1>6. ClientOK'
  BY <1>2, <1>3 DEF ClientOK, Listing
<1>7. ASSUME NEW k \in Key
      PROVE  \/ metas[k] \in during[k]
             \/ metas[k] = None /\ (k \in left \/ ParentOf[k] \in left)
  <2>1. /\ file[k] \in during[k]
        /\ \/ request.metas[k] \in during[k]
           \/ request.metas[k] = None /\ (k \in request.left \/ ParentOf[k] \in request.left)
    BY <1>2 DEF HistoryOK, Listing, WalkOK, At
  <2>2. CASE /\ n \in Folder /\ metas = request.metas
             /\ left = (request.left \ {n}) \union (Below(n) \intersect Present)
    <3>1. CASE file[k] = None
      BY <2>1, <2>2, <3>1
    <3>2. CASE file[k] # None
      <4>1. ParentOf[k] = n => k \in left
        BY <2>2, <3>2 DEF Below, Present
      <4>2. k # n
        BY <2>2
      <4> QED BY <2>1, <2>2, <4>1, <4>2
    <3> QED BY <3>1, <3>2
  <2>3. CASE /\ n \in Key /\ metas = [request.metas EXCEPT ![n] = file[n]]
             /\ left = request.left \ {n}
    <3>1. CASE k = n
      BY <1>2, <2>1, <2>3, <3>1 DEF Metas
    <3>2. CASE k # n
      <4>1. metas[k] = request.metas[k] /\ ParentOf[k] # n
        BY <1>2, <2>3, <3>2 DEF Metas
      <4> QED BY <2>1, <2>3, <3>2, <4>1
    <3> QED BY <3>1, <3>2
  <2> QED BY <1>1, <2>2, <2>3
<1>8. WalkOK'
  BY <1>2, <1>3, <1>7 DEF WalkOK
<1> QED BY <1>3, <1>4, <1>5, <1>6, <1>8 DEF AnswerOK, ListTells, At

LEMMA AnswerPageKeeps ==
  ASSUME IndInv, AnswerPage
  PROVE  IndInv'
<1> USE DEF IndInv
<1>1. /\ request.step = "walk" /\ request.left = {} /\ ~request.query.manifest
      /\ request \in Request /\ file' = file /\ during' = during
  BY DEF AnswerPage, Files, At, TypeOK
<1>2. PICK page : page = BuildListObjectsResult(request.query, Walked)
  OBVIOUS
<1>3. request.query \in Query /\ Walked \in SUBSET Key
  BY <1>1, RequestParts DEF Walked
<1>4. page \in Page
  BY <1>2, <1>3, BuiltPageIsFirst DEF FirstOf
<1>5. request' = [request EXCEPT !.step = "answer", !.page = page]
  BY <1>2 DEF AnswerPage
<1>6. /\ request' \in Request /\ request'.query = request.query /\ request'.page = page
      /\ request'.step = "answer" /\ request'.got = request.got /\ request'.below = request.below
      /\ request'.left = request.left /\ request'.metas = request.metas
  BY <1>1, <1>4, <1>5 DEF Request
<1>7. TypeOK'
  BY <1>1, <1>6, ListingFrame DEF AnswerPage, Files, TypeOK
<1>8. HistoryOK' /\ ClientOK'
  BY <1>1, <1>6 DEF HistoryOK, ClientOK, Listing
<1>9. WalkOK'
  BY <1>1, <1>6 DEF WalkOK, At
<1>10. AnswerOK'
  BY <1>1, <1>2, <1>6 DEF AnswerOK, Walked
<1> QED BY <1>6, <1>7, <1>8, <1>9, <1>10 DEF ListTells, At

\* A walk that is over has found of every note something that was so.
LEMMA WalkOver ==
  ASSUME IndInv, At("walk") \/ At("answer"), request.left = {}
  PROVE  \A k \in Key : request.metas[k] \in during[k]
BY DEF IndInv, WalkOK

LEMMA AnswerManifestKeeps ==
  ASSUME IndInv, AnswerManifest
  PROVE  IndInv'
<1> USE DEF IndInv
<1>1. /\ request.step = "walk" /\ request.left = {} /\ request.query.manifest
      /\ request \in Request /\ file' = file /\ during' = during
      /\ request' = [request EXCEPT !.step = "done", !.got = request.metas]
  BY DEF AnswerManifest, Files, At, TypeOK
<1>2. request.metas \in Metas /\ request.query \in Query
  BY <1>1, RequestParts
<1>3. /\ request' \in Request /\ request'.query = request.query /\ request'.page = request.page
      /\ request'.step = "done" /\ request'.got = request.metas
  BY <1>1, <1>2 DEF Request
<1>4. TypeOK'
  BY <1>1, <1>3, ListingFrame DEF AnswerManifest, Files, TypeOK
<1>5. \A k \in Key : request.metas[k] \in during[k]
  BY <1>1, WalkOver DEF At
<1>6. PrefixGroups(request.query, Key) = {}
  <2>1. request.query = ManifestQuery
    BY <1>1, <1>2 DEF Query, S3Query
  <2> QED BY <2>1 DEF ManifestQuery, PrefixGroups, Grouped
<1>7. Objects(request.query, Key) \subseteq Key
  BY DEF Objects, Filtered
<1>8. ListTells'
  BY <1>1, <1>3, <1>5, <1>6, <1>7 DEF ListTells
<1> QED BY <1>3, <1>4, <1>8 DEF HistoryOK, WalkOK, ClientOK, AnswerOK, Listing, At

LEMMA EndKeeps ==
  ASSUME IndInv, End
  PROVE  IndInv'
<1> USE DEF IndInv
<1>1. request' = Idle /\ during' = [k \in Key |-> {}]
  BY DEF End
<1>2. request'.step = "idle" /\ request' \in Request /\ request'.page = NoPage
  BY <1>1, EmptyRequest
<1>3. TypeOK'
  BY <1>1, <1>2, ListingFrame DEF End, Files
<1> QED BY <1>2, <1>3 DEF HistoryOK, WalkOK, ClientOK, AnswerOK, ListTells, Listing, At

\* A page that leaves nothing out has all that was walked.
LEMMA WholePage ==
  ASSUME NEW q \in Query, NEW keys \in SUBSET Key, NEW page,
         page = BuildListObjectsResult(q, keys)
  PROVE  /\ page.contents \subseteq Objects(q, keys)
         /\ page.prefixes \subseteq PrefixGroups(q, keys)
         /\ ~page.truncated => page.contents = Objects(q, keys)
                            /\ page.prefixes = PrefixGroups(q, keys)
<1>1. FirstOf(page, Listed(q, keys), q.maxKeys) /\ Listed(q, keys) \in List
  BY BuiltPageIsFirst, ListedIsList
<1>2. page.contents \in SUBSET Key /\ page.prefixes \in SUBSET Folder
  BY <1>1 DEF FirstOf, Page
<1>3. Objects(q, keys) \in SUBSET Key /\ PrefixGroups(q, keys) \in SUBSET Folder
  BY <1>1 DEF List, Listed
<1>4. /\ page.contents \union page.prefixes \subseteq Objects(q, keys) \union PrefixGroups(q, keys)
      /\ ~page.truncated => page.contents \union page.prefixes
                              = Objects(q, keys) \union PrefixGroups(q, keys)
  BY <1>1 DEF FirstOf, Parts, Entries, Listed
<1> QED BY <1>2, <1>3, <1>4, NamesAreNumbers

LEMMA TakePageKeeps ==
  ASSUME IndInv, TakePage
  PROVE  IndInv'
<1> USE NamesAreNumbers DEF IndInv
<1>1. /\ request.step = "answer" /\ request.left = {} /\ request \in Request
      /\ file' = file /\ during' = during
      /\ request.page = BuildListObjectsResult(request.query, Walked)
  BY DEF TakePage, Files, At, TypeOK, AnswerOK
<1>2. /\ request.metas \in Metas /\ request.query \in Query /\ request.page \in Page
      /\ request.got \in Metas /\ request.below \in SUBSET Folder
      /\ Walked \in SUBSET Key
  BY <1>1, RequestParts DEF Walked
<1>3. PICK contents, prefixes :
        contents = request.page.contents /\ prefixes = request.page.prefixes
  OBVIOUS
<1>4. contents \in SUBSET Key /\ prefixes \in SUBSET Folder
  BY <1>2, <1>3 DEF Page
<1>5. PICK step, token, got, below :
        /\ token = request.page.truncated
        /\ step = IF request.page.truncated THEN "ask" ELSE "done"
        /\ got = [k \in Key |-> IF k \in contents THEN request.metas[k] ELSE request.got[k]]
        /\ below = request.below \union prefixes
  OBVIOUS
<1>6. /\ got \in Metas /\ below \in SUBSET Folder /\ step \in {"ask", "done"}
      /\ token \in BOOLEAN
  <2>1. request.page.truncated \in BOOLEAN
    BY <1>2 DEF Page
  <2> QED BY <1>2, <1>4, <1>5, <2>1 DEF Metas
<1>7. request' = [request EXCEPT !.step = step, !.token = token, !.got = got, !.below = below,
                                 !.metas = NoMetas, !.page = NoPage]
  BY <1>3, <1>5 DEF TakePage
<1>8. /\ request' \in Request /\ request'.query = request.query /\ request'.page = NoPage
      /\ request'.step = step /\ request'.got = got /\ request'.below = below
  BY <1>1, <1>6, <1>7, EmptyRequest DEF Request
<1>9. TypeOK'
  BY <1>1, <1>8, ListingFrame DEF TakePage, Files, TypeOK
<1>10. \A k \in Key : request.metas[k] \in during[k] /\ file[k] \in during[k]
  BY <1>1, WalkOver DEF At, HistoryOK, Listing
<1>11. /\ \A k \in Key : request.got[k] \in during[k] \union {None}
       /\ \A g \in request.below : \E k \in Below(g) : during[k] # {None}
  BY <1>1 DEF ClientOK, Listing
<1>12. contents \subseteq Objects(request.query, Walked)
       /\ prefixes \subseteq PrefixGroups(request.query, Walked)
  BY <1>1, <1>2, <1>3, WholePage
<1>13. ASSUME NEW g \in below
       PROVE  \E k \in Below(g) : during[k] # {None}
  <2>1. CASE g \in request.below
    BY <1>11, <2>1
  <2>2. CASE g \in prefixes
    <3>1. PICK k \in Walked : k \in Below(g)
      BY <1>2, <1>12, <2>2, ListedOf
    <3>2. request.metas[k] # None /\ request.metas[k] \in during[k]
      BY <1>10 DEF Walked
    <3> QED BY <3>1, <3>2
  <2> QED BY <1>5, <2>1, <2>2
<1>14. \A k \in Key : got[k] \in during[k] \union {None}
  BY <1>5, <1>10, <1>11
<1>15. HistoryOK' /\ ClientOK'
  <2>1. HistoryOK'
    BY <1>1, <1>10 DEF HistoryOK
  <2>2. ClientOK'
    BY <1>1, <1>8, <1>13, <1>14 DEF ClientOK
  <2> QED BY <2>1, <2>2
<1>16. ListTells'
  <2> SUFFICES ASSUME step = "done" PROVE ListTells'
    BY <1>8 DEF ListTells, At
  <2>1. ~request.page.truncated
    BY <1>5
  <2>2. contents = Objects(request.query, Walked) /\ prefixes = PrefixGroups(request.query, Walked)
    BY <1>1, <1>2, <1>3, <2>1, WholePage
  <2>3. ASSUME NEW k \in Objects(request.query, Key)
        PROVE  got[k] \in during[k]
    <3>1. k \in Key
      BY DEF Objects, Filtered
    <3>2. CASE k \in Walked
      <4>1. k \in contents
        BY <1>2, <2>2, <3>2, ListedOf
      <4> QED BY <1>5, <1>10, <3>1, <4>1
    <3>3. CASE k \notin Walked
      <4>1. request.metas[k] = None
        BY <3>1, <3>3 DEF Walked
      <4> QED BY <1>10, <1>14, <3>1, <4>1
    <3> QED BY <3>2, <3>3
  <2>4. ASSUME NEW g \in PrefixGroups(request.query, Key), g \notin below
        PROVE  \A k \in Below(g) : None \in during[k]
    <3>1. g \notin prefixes
      BY <1>5, <2>4
    <3>2. Below(g) \intersect Walked = {}
      BY <1>2, <2>2, <2>4, <3>1, ListedOf
    <3>3. \A k \in Below(g) : k \in Key /\ request.metas[k] = None
      BY <3>2 DEF Walked, Below
    <3> QED BY <1>10, <3>3
  <2> QED BY <1>1, <1>8, <1>13, <2>3, <2>4 DEF ListTells
<1>17. WalkOK' /\ AnswerOK'
  BY <1>6, <1>8 DEF WalkOK, AnswerOK, At
<1> QED BY <1>9, <1>15, <1>16, <1>17

-----------------------------------------------------------------------------
\* Theorems

\* The walk, the pages and the client keep the invariant, whoever writes meanwhile.
THEOREM AlwaysIndInv == Spec => []IndInv
<1>1. IndInv /\ [Next]_vars => IndInv'
  BY StutterKeeps, WriteKeeps, StartListingKeeps, ReadRootKeeps, ReadNextKeeps,
     AnswerPageKeeps, AnswerManifestKeeps, TakePageKeeps, EndKeeps DEF Next, ListStep
<1> QED BY InitHolds, <1>1, PTL DEF Spec

\* FilesystemStorage.List, BuildListObjectsResult and the client pass each other what
\* they should, and the directory of every note is there.
THEOREM ListingTypeCorrect == Spec => []TypeOK
<1>1. IndInv => TypeOK
  BY DEF IndInv
<1> QED BY <1>1, AlwaysIndInv, PTL

\* A list says of every note it was asked for something that was so while it was made,
\* although neither the walk nor the pages are a snapshot.
THEOREM ListAlwaysTells == Spec => []ListTells
<1>1. IndInv => ListTells
  BY DEF IndInv
<1> QED BY <1>1, AlwaysIndInv, PTL

\* Asked without a token, BuildListObjectsResult cuts the list after the first names,
\* objects and prefixes alike, and says truncated exactly when something is left out.
THEOREM PageIsAlwaysFirst == Spec => []PageIsFirst
<1>1. IndInv => PageIsFirst
  <2> SUFFICES ASSUME IndInv, At("answer") PROVE PageIsFirst
    BY DEF PageIsFirst
  <2>1. request.query \in Query /\ Walked \in SUBSET Key
    BY RequestParts DEF IndInv, TypeOK, Walked
  <2>2. FirstOf(request.page, Listed(request.query, Walked), request.query.maxKeys)
    BY <2>1, BuiltPageIsFirst DEF IndInv, AnswerOK
  <2> QED BY <2>2 DEF FirstOf, Parts, Entries, Listed, PageIsFirst
<1> QED BY <1>1, AlwaysIndInv, PTL
=============================================================================
