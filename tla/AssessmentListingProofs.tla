---------------------- MODULE AssessmentListingProofs ----------------------
(***************************************************************************)
(* A theorem about AssessmentListing, for any identifiers, page size and   *)
(* time bound.                                                             *)
(*                                                                         *)
(* A walk stands at a position of the order.  What it has listed is not    *)
(* older than that position, so no later page selects it again; what was   *)
(* there from the start, has not moved and is not older has been listed.   *)
(* A page takes the newest of what is selected and the next position is    *)
(* its oldest row, which keeps both.                                       *)
(***************************************************************************)
EXTENDS AssessmentListing, FiniteSetTheorems, WellFoundedInduction, TLAPS

UniqueIds == \A r, s \in open \cup rows : r.id = s.id => r = s

(* The walk stands at c, and st are its steady rows.                       *)
Past(r, c) == ~OlderThan(r, c)
WalkAt(c, st) ==
    /\ \A i \in Ids : listed[i] = 0 \/ (listed[i] = 1 /\ \E r \in rows : r.id = i /\ Past(r, c))
    /\ \A r \in st : Matches(r) /\ Past(r, c) => listed[r.id] = 1

WalkInv ==
    /\ \A i \in Ids : listed[i] <= 1
    /\ walk = "idle" => \A i \in Ids : listed[i] = 0
    /\ walk = "reading" => cursor \in Row /\ WalkAt(cursor, steady)
    /\ walk = "ended" => \A r \in steady : Matches(r) => listed[r.id] = 1

IInv == TypeOK /\ UniqueIds /\ WalkInv

(***************************************************************************)
(* The order of the list                                                   *)
(***************************************************************************)
Positions == Row \cup {Top}

LEMMA PositionType ==
  ASSUME NEW r \in Positions
  PROVE  r.at \in Int /\ r.id \in Int
<1>1. CASE r \in Row
  <2>1. r.at \in Times /\ r.id \in Ids
    BY <1>1 DEF Row
  <2>2. Times \subseteq Int /\ Ids \subseteq Int
    BY ListingAssumption DEF Times
  <2> QED
    BY <2>1, <2>2
<1>2. CASE r = Top
  <2>1. r.at = MaxTime + 1 /\ r.id = 0
    BY <1>2 DEF Top
  <2> QED
    BY <2>1, ListingAssumption
<1> QED
  BY <1>1, <1>2 DEF Positions

LEMMA OlderIsOrder ==
  /\ \A r \in Positions : ~OlderThan(r, r)
  /\ \A r, s, t \in Positions : OlderThan(r, s) /\ OlderThan(s, t) => OlderThan(r, t)
  /\ \A r, s \in Positions : OlderThan(r, s) => ~OlderThan(s, r)
  /\ \A r, s \in Row : r = s \/ OlderThan(r, s) \/ OlderThan(s, r)
  /\ \A r \in Row : OlderThan(r, Top)
<1>1. \A r \in Positions : r.at \in Int /\ r.id \in Int
  BY PositionType
<1>2. \A r, s \in Row : r.at = s.at /\ r.id = s.id => r = s
  BY DEF Row
<1>3. \A r \in Row : r \in Positions /\ r.at <= MaxTime
  BY ListingAssumption DEF Positions, Row, Times
<1>4. \A r \in Positions : ~OlderThan(r, r)
  BY <1>1 DEF OlderThan
<1>5. \A r, s, t \in Positions : OlderThan(r, s) /\ OlderThan(s, t) => OlderThan(r, t)
  BY <1>1 DEF OlderThan
<1>6. \A r, s \in Positions : OlderThan(r, s) => ~OlderThan(s, r)
  BY <1>1 DEF OlderThan
<1>7. \A r, s \in Row : r = s \/ OlderThan(r, s) \/ OlderThan(s, r)
  BY <1>1, <1>2, <1>3 DEF OlderThan
<1>8. \A r \in Row : OlderThan(r, Top)
  BY <1>1, <1>3, ListingAssumption DEF OlderThan, Top
<1> QED
  BY <1>4, <1>5, <1>6, <1>7, <1>8

(* A strict total order R on S, as a set of pairs, the smaller one first.  *)
IsOrderOn(R, S) ==
    /\ \A x \in S : <<x, x>> \notin R
    /\ \A x, y, z \in S : <<x, y>> \in R /\ <<y, z>> \in R => <<x, z>> \in R
    /\ \A x, y \in S : x = y \/ <<x, y>> \in R \/ <<y, x>> \in R

(* A finite set that is not empty has a least element: one below which     *)
(* there is least, finite sets being well-founded under inclusion.         *)
LEMMA LeastElement ==
  ASSUME NEW S, IsFiniteSet(S), S # {}, NEW R, IsOrderOn(R, S)
  PROVE  \E x \in S : \A y \in S : y = x \/ <<x, y>> \in R
<1> DEFINE below(x) == {y \in S : <<y, x>> \in R}
           T == {below(x) : x \in S}
<1>1. PICK x \in S : \A y \in S : <<below(y), below(x)>> \notin StrictSubsetOrdering(S)
  <2>1. IsWellFoundedOn(StrictSubsetOrdering(S), SUBSET S)
    BY FS_StrictSubsetOrderingWellFounded, FS_FiniteSubsetsOfFinite
  <2>2. T \subseteq SUBSET S /\ T # {}
    OBVIOUS
  <2> HIDE DEF T
  <2>3. \E t \in T : \A u \in T : <<u, t>> \notin StrictSubsetOrdering(S)
    BY <2>1, <2>2, WFMin
  <2> QED BY <2>3 DEF T
<1>2. ASSUME NEW y \in S, y # x, <<x, y>> \notin R PROVE FALSE
  <2>1. /\ y \in below(x) /\ y \notin below(y)
        /\ below(y) \subseteq below(x)
    BY <1>2 DEF IsOrderOn
  <2>2. <<below(y), below(x)>> \in StrictSubsetOrdering(S)
    BY <2>1 DEF StrictSubsetOrdering
  <2> QED BY <1>1, <2>2
<1> QED BY <1>2

(* A finite set of rows that is not empty has an oldest and a newest one.  *)
LEMMA EndsOfASet ==
  ASSUME NEW S \in SUBSET Row, IsFiniteSet(S), S # {}
  PROVE  /\ \E r \in S : \A s \in S : s = r \/ OlderThan(r, s)
         /\ \E r \in S : \A s \in S : s = r \/ OlderThan(s, r)
<1> DEFINE Up == {p \in S \X S : OlderThan(p[1], p[2])}
           Down == {p \in S \X S : OlderThan(p[2], p[1])}
<1>1. \A r, s \in S : /\ <<r, s>> \in Up <=> OlderThan(r, s)
                      /\ <<r, s>> \in Down <=> OlderThan(s, r)
  OBVIOUS
<1>2. \A r \in S : r \in Row /\ r \in Positions
  BY DEF Positions
<1> HIDE DEF Up, Down
<1>3. IsOrderOn(Up, S)
  BY <1>1, <1>2, OlderIsOrder, Zenon DEF IsOrderOn
<1>4. IsOrderOn(Down, S)
  BY <1>1, <1>2, OlderIsOrder, Zenon DEF IsOrderOn
<1>5. \E r \in S : \A s \in S : s = r \/ <<r, s>> \in Up
  BY <1>3, LeastElement, Zenon
<1>6. \E r \in S : \A s \in S : s = r \/ <<r, s>> \in Down
  BY <1>4, LeastElement, Zenon
<1> QED
  BY <1>1, <1>5, <1>6

(***************************************************************************)
(* A page                                                                  *)
(***************************************************************************)
Newer(r, c) == {s \in Selected(c) : OlderThan(r, s)}

LEMMA SelectedIsFinite ==
  ASSUME TypeOK, NEW c
  PROVE  /\ Selected(c) \in SUBSET rows /\ rows \in SUBSET Row
         /\ IsFiniteSet(Selected(c)) /\ Cardinality(Selected(c)) \in Nat
         /\ \A r \in Selected(c) : /\ IsFiniteSet(Newer(r, c))
                                   /\ Cardinality(Newer(r, c)) \in Nat
                                   /\ Cardinality(Newer(r, c)) <= Cardinality(Selected(c)) - 1
<1>1. Selected(c) \in SUBSET rows /\ rows \in SUBSET Row /\ IsFiniteSet(rows)
  BY DEF Selected, TypeOK
<1>2. IsFiniteSet(Selected(c)) /\ Cardinality(Selected(c)) \in Nat
  BY <1>1, FS_Subset, FS_CardinalityType
<1>3. ASSUME NEW r \in Selected(c)
      PROVE  /\ IsFiniteSet(Newer(r, c))
             /\ Cardinality(Newer(r, c)) \in Nat
             /\ Cardinality(Newer(r, c)) <= Cardinality(Selected(c)) - 1
  <2>1. ~OlderThan(r, r)
    BY <1>1, OlderIsOrder DEF Positions
  <2>2. Newer(r, c) \in SUBSET (Selected(c) \ {r})
    BY <2>1 DEF Newer
  <2>3. IsFiniteSet(Selected(c) \ {r}) /\ Cardinality(Selected(c) \ {r}) = Cardinality(Selected(c)) - 1
    BY <1>2, FS_RemoveElement
  <2> QED
    BY <2>2, <2>3, FS_Subset, FS_CardinalityType
<1> QED
  BY <1>1, <1>2, <1>3

(* Nothing of a last page is left over.                                    *)
LEMMA LastPageIsAll ==
  ASSUME TypeOK, NEW c, ~Trailing(c)
  PROVE  Page(c) = Selected(c)
<1>1. Cardinality(Selected(c)) <= Limit
  BY SelectedIsFinite, ListingAssumption DEF Trailing
<1>2. ASSUME NEW r \in Selected(c) PROVE Cardinality(Newer(r, c)) < Limit
  BY <1>1, SelectedIsFinite, ListingAssumption
<1> QED
  BY <1>2 DEF Page, Newer

(* What is as new as a row of a page, and selected, is on the page.        *)
LEMMA PageIsUpwardClosed ==
  ASSUME TypeOK, NEW c, NEW l \in Page(c), NEW r \in Selected(c), OlderThan(l, r)
  PROVE  r \in Page(c)
<1>1. l \in Selected(c) /\ Cardinality(Newer(l, c)) < Limit
  BY DEF Page, Newer
<1>2. Newer(r, c) \in SUBSET Newer(l, c)
  BY <1>1, SelectedIsFinite, OlderIsOrder DEF Newer, Positions
<1>3. Cardinality(Newer(r, c)) <= Cardinality(Newer(l, c))
  BY <1>1, <1>2, SelectedIsFinite, FS_Subset
<1>4. Cardinality(Newer(r, c)) < Limit
  BY <1>1, <1>3, SelectedIsFinite, ListingAssumption
<1> QED
  BY <1>4 DEF Page, Newer

(* The last row of a page that has a next one.                             *)
LEMMA LastRow ==
  ASSUME TypeOK, NEW c, Trailing(c)
  PROVE  /\ Last(Page(c)) \in Page(c)
         /\ \A s \in Page(c) : s = Last(Page(c)) \/ OlderThan(Last(Page(c)), s)
<1>1. Selected(c) # {}
  BY SelectedIsFinite, FS_EmptySet, ListingAssumption DEF Trailing
<1>2. PICK r \in Selected(c) : \A s \in Selected(c) : s = r \/ OlderThan(s, r)
  BY <1>1, SelectedIsFinite, EndsOfASet
<1>3. Newer(r, c) = {}
  BY <1>2, SelectedIsFinite, OlderIsOrder DEF Newer, Positions
<1>4. Cardinality(Newer(r, c)) = 0
  BY <1>3, FS_EmptySet
<1>5. r \in Page(c)
  BY <1>4, ListingAssumption DEF Page, Newer
<1>6. Page(c) \in SUBSET Selected(c)
  BY DEF Page
<1>7. Page(c) \in SUBSET Row /\ IsFiniteSet(Page(c))
  BY <1>6, SelectedIsFinite, FS_Subset
<1>8. \E l \in Page(c) : \A s \in Page(c) : s = l \/ OlderThan(l, s)
  BY <1>5, <1>7, EndsOfASet
<1> QED
  BY <1>8 DEF Last

(* One identifier is on a page once or not at all.                         *)
LEMMA CountOnPage ==
  ASSUME TypeOK, UniqueIds, NEW c, NEW i \in Ids
  PROVE  /\ (\A r \in Page(c) : r.id # i) => Cardinality({r \in Page(c) : r.id = i}) = 0
         /\ (\E r \in Page(c) : r.id = i) => Cardinality({r \in Page(c) : r.id = i}) = 1
<1> DEFINE S == {r \in Page(c) : r.id = i}
<1>1. ASSUME \A r \in Page(c) : r.id # i
      PROVE  Cardinality(S) = 0
  <2>1. S = {}
    BY <1>1
  <2> QED
    BY <2>1, FS_EmptySet
<1>2. ASSUME NEW r \in Page(c), r.id = i
      PROVE  Cardinality(S) = 1
  <2>1. \A s \in Page(c) : s \in rows
    BY DEF Page, Selected
  <2>2. S = {r}
    BY <1>2, <2>1 DEF UniqueIds
  <2> QED
    BY <2>2, FS_Singleton
<1> QED
  BY <1>1, <1>2

(* A page read where the walk stands keeps the walk sound.                 *)
LEMMA ReadKeepsWalk ==
  ASSUME TypeOK, UniqueIds, NEW c \in Positions, NEW st \in SUBSET rows,
         WalkAt(c, st), Read(c)
  PROVE  /\ listed' \in [Ids -> Nat]
         /\ \A i \in Ids : listed'[i] <= 1
         /\ walk' \in {"reading", "ended"}
         /\ walk' = "reading" =>
               /\ cursor' \in Row
               /\ \A i \in Ids : listed'[i] = 0 \/ \E r \in rows : r.id = i /\ Past(r, cursor')
               /\ \A r \in st : Matches(r) /\ Past(r, cursor') => listed'[r.id] = 1
         /\ walk' = "ended" => cursor' = cursor /\ \A r \in st : Matches(r) => listed'[r.id] = 1
<1>1. /\ rows \in SUBSET Row /\ \A r \in rows : r \in Positions /\ r.id \in Ids
      /\ listed \in [Ids -> Nat]
  BY DEF TypeOK, Positions, Row
<1>2. \A r \in Page(c) : r \in rows /\ r \in Selected(c) /\ Matches(r) /\ OlderThan(r, c)
  BY DEF Page, Selected
<1>3. \A r, s \in rows : r.id = s.id => r = s
  BY DEF UniqueIds
<1>4. listed' = [i \in Ids |-> listed[i] + Cardinality({r \in Page(c) : r.id = i})]
  BY DEF Read
<1>5. ASSUME NEW i \in Ids, NEW r \in Page(c), r.id = i
      PROVE  listed'[i] = 1
  <2>1. listed[i] = 0
    <3> SUFFICES ASSUME NEW s \in rows, s.id = i, Past(s, c) PROVE FALSE
      BY DEF WalkAt
    <3>1. s = r
      BY <1>2, <1>3, <1>5
    <3> QED
      BY <1>2, <3>1 DEF Past
  <2>2. Cardinality({s \in Page(c) : s.id = i}) = 1
    BY <1>5, CountOnPage
  <2> QED
    BY <1>4, <2>1, <2>2
<1>6. ASSUME NEW i \in Ids, \A r \in Page(c) : r.id # i
      PROVE  listed'[i] = listed[i]
  <2>1. Cardinality({s \in Page(c) : s.id = i}) = 0
    BY <1>6, CountOnPage
  <2> QED
    BY <1>1, <1>4, <2>1
<1>7. ASSUME NEW i \in Ids
      PROVE  /\ listed'[i] \in Nat /\ listed'[i] <= 1
             /\ listed'[i] = 0 \/ (\E r \in Page(c) : r.id = i)
                  \/ \E r \in rows : r.id = i /\ Past(r, c)
  <2>1. CASE \E r \in Page(c) : r.id = i
    BY <1>5, <2>1
  <2>2. CASE \A r \in Page(c) : r.id # i
    BY <1>1, <1>6, <2>2 DEF WalkAt
  <2> QED
    BY <2>1, <2>2
<1>8. listed' \in [Ids -> Nat]
  BY <1>4, <1>7
<1>9. ASSUME NEW r \in st, Matches(r), Past(r, c)
      PROVE  listed'[r.id] = 1
  <2>1. r \in rows /\ r.id \in Ids /\ listed[r.id] = 1
    BY <1>1, <1>9 DEF WalkAt
  <2>2. \A s \in Page(c) : s.id # r.id
    BY <1>2, <1>3, <1>9, <2>1 DEF Past
  <2> QED
    BY <1>6, <2>1, <2>2
<1>10. CASE Trailing(c)
  <2> DEFINE l == Last(Page(c))
  <2>1. walk' = "reading" /\ cursor' = l
    BY <1>10 DEF Read
  <2>2. l \in Page(c) /\ \A s \in Page(c) : s = l \/ OlderThan(l, s)
    BY <1>10, LastRow
  <2> HIDE DEF l
  <2>3. l \in Row /\ l \in Positions /\ OlderThan(l, c)
    BY <1>1, <1>2, <2>2
  <2>4. ASSUME NEW r \in rows, Past(r, c) PROVE Past(r, l)
    BY <1>1, <2>3, <2>4, OlderIsOrder DEF Past
  <2>5. ASSUME NEW r \in Page(c) PROVE Past(r, l)
    BY <1>1, <1>2, <2>2, <2>3, OlderIsOrder DEF Past
  <2>6. ASSUME NEW i \in Ids
        PROVE  listed'[i] = 0 \/ \E r \in rows : r.id = i /\ Past(r, l)
    BY <1>2, <1>7, <2>4, <2>5
  <2>7. ASSUME NEW r \in st, Matches(r), Past(r, l)
        PROVE  listed'[r.id] = 1
    <3>1. CASE Past(r, c)
      BY <1>9, <2>7, <3>1
    <3>2. CASE ~Past(r, c)
      <4>1. r \in Selected(c)
        BY <2>7, <3>2 DEF Selected, Past
      <4>2. r = l \/ OlderThan(l, r)
        BY <1>1, <2>3, <2>7, OlderIsOrder DEF Past
      <4>3. r \in Page(c)
        BY <2>2, <4>1, <4>2, PageIsUpwardClosed
      <4> QED
        BY <1>1, <1>5, <4>3
    <3> QED
      BY <3>1, <3>2
  <2> QED
    BY <1>7, <1>8, <2>1, <2>3, <2>6, <2>7
<1>11. CASE ~Trailing(c)
  <2>1. walk' = "ended" /\ cursor' = cursor
    BY <1>11 DEF Read
  <2>2. ASSUME NEW r \in st, Matches(r)
        PROVE  listed'[r.id] = 1
    <3>1. CASE Past(r, c)
      BY <1>9, <2>2, <3>1
    <3>2. CASE ~Past(r, c)
      <4>1. r \in Selected(c)
        BY <2>2, <3>2 DEF Selected, Past
      <4>2. r \in Page(c)
        BY <1>11, <4>1, LastPageIsAll
      <4> QED
        BY <1>1, <1>5, <4>2
    <3> QED
      BY <3>1, <3>2
  <2> QED
    BY <1>7, <1>8, <2>1, <2>2
<1> QED
  BY <1>10, <1>11

(***************************************************************************)
(* The invariant                                                           *)
(***************************************************************************)
LEMMA InitInv == Init => IInv
<1> SUFFICES ASSUME Init PROVE IInv
  OBVIOUS
<1>1. TypeOK
  BY ListingAssumption, FS_EmptySet DEF Init, TypeOK, Times, Statuses
<1> QED
  BY <1>1 DEF Init, IInv, UniqueIds, WalkInv

(* The rest of the service leaves the walk where it stands.                *)
LEMMA TickKeepsInv ==
  ASSUME IInv, Tick
  PROVE  IInv'
<1>1. now' \in Times
  BY ListingAssumption DEF IInv, TypeOK, Tick, Times
<1>2. UNCHANGED <<open, rows, status, walk, filter, cursor, listed, steady>>
  BY DEF Tick
<1> QED
  BY <1>1, <1>2 DEF IInv, TypeOK, UniqueIds, WalkInv, WalkAt, Past, Matches

LEMMA BeginKeepsInv ==
  ASSUME IInv, NEW i \in Ids, Begin(i)
  PROVE  IInv'
<1> DEFINE row == [at |-> now, id |-> i]
<1>1. /\ \A r \in open \cup rows : r.id # i
      /\ open' = open \cup {row}
      /\ UNCHANGED <<now, rows, status, walk, filter, cursor, listed, steady>>
  BY DEF Begin
<1>2. row \in Row /\ row.id = i
  BY DEF Row, IInv, TypeOK
<1> HIDE DEF row
<1>3. TypeOK'
  BY <1>1, <1>2 DEF IInv, TypeOK
<1>4. UniqueIds'
  BY <1>1, <1>2 DEF IInv, UniqueIds
<1>5. WalkInv'
  BY <1>1 DEF IInv, WalkInv, WalkAt, Past, Matches
<1> QED
  BY <1>3, <1>4, <1>5 DEF IInv

LEMMA CommitKeepsInv ==
  ASSUME IInv, NEW r \in open, Commit(r)
  PROVE  IInv'
<1>1. /\ open' = open \ {r} /\ rows' = rows \cup {r}
      /\ UNCHANGED <<now, status, walk, filter, cursor, listed, steady>>
  BY DEF Commit
<1>2. TypeOK'
  <2>1. IsFiniteSet(rows') /\ rows' \subseteq Row
    BY <1>1, FS_AddElement DEF IInv, TypeOK
  <2> QED
    BY <1>1, <2>1 DEF IInv, TypeOK
<1>3. UniqueIds'
  BY <1>1 DEF IInv, UniqueIds
<1>4. WalkInv'
  <2>1. WalkAt(cursor, steady) => WalkAt(cursor, steady)'
    BY <1>1 DEF WalkAt, Past, Matches
  <2> QED
    BY <1>1, <2>1 DEF IInv, WalkInv, Matches
<1> QED
  BY <1>2, <1>3, <1>4 DEF IInv

LEMMA RollbackKeepsInv ==
  ASSUME IInv, NEW r \in open, Rollback(r)
  PROVE  IInv'
<1>1. open' \subseteq open
      /\ UNCHANGED <<now, rows, status, walk, filter, cursor, listed, steady>>
  BY DEF Rollback
<1>2. TypeOK'
  BY <1>1 DEF IInv, TypeOK
<1>3. UniqueIds'
  BY <1>1 DEF IInv, UniqueIds
<1>4. WalkInv'
  BY <1>1 DEF IInv, WalkInv, WalkAt, Past, Matches
<1> QED
  BY <1>2, <1>3, <1>4 DEF IInv

LEMMA MoveKeepsInv ==
  ASSUME IInv, NEW r \in rows, NEW s \in Statuses, Move(r, s)
  PROVE  IInv'
<1>1. /\ status' = [status EXCEPT ![r.id] = s] /\ steady' = steady \ {r}
      /\ UNCHANGED <<now, open, rows, walk, filter, cursor, listed>>
  BY DEF Move
<1>2. r.id \in Ids
  BY DEF IInv, TypeOK, Row
<1>3. TypeOK'
  BY <1>1, <1>2 DEF IInv, TypeOK
<1>4. ASSUME NEW q \in steady' PROVE q \in steady /\ (Matches(q)' <=> Matches(q))
  <2>1. q \in steady /\ q \in rows /\ q.id # r.id
    BY <1>1, <1>4 DEF IInv, TypeOK, UniqueIds
  <2>2. q.id \in Ids
    BY <2>1 DEF IInv, TypeOK, Row
  <2>3. status'[q.id] = status[q.id]
    BY <1>1, <2>1, <2>2 DEF IInv, TypeOK
  <2> QED
    BY <1>1, <2>1, <2>3 DEF Matches
<1>5. WalkInv'
  <2>1. WalkAt(cursor, steady) => WalkAt(cursor, steady)'
    BY <1>1, <1>4 DEF WalkAt, Past
  <2> QED
    BY <1>1, <1>4, <2>1 DEF IInv, WalkInv
<1> QED
  BY <1>1, <1>3, <1>5 DEF IInv, UniqueIds

(* A page, the first or a later one.                                       *)
LEMMA ReadKeepsInv ==
  ASSUME IInv, FirstPage \/ NextPage
  PROVE  IInv'
<1> DEFINE c == IF walk = "idle" THEN Top ELSE cursor
<1>1. c \in Positions /\ steady' \in SUBSET rows /\ Read(c)
  BY DEF FirstPage, NextPage, Positions, IInv, TypeOK, WalkInv
<1>2. WalkAt(c, steady')
  <2>1. CASE FirstPage
    <3>1. c = Top /\ steady' = rows /\ \A i \in Ids : listed[i] = 0
      BY <2>1 DEF FirstPage, IInv, WalkInv
    <3>2. \A r \in rows : ~Past(r, Top)
      BY OlderIsOrder DEF Past, IInv, TypeOK
    <3> QED
      BY <3>1, <3>2 DEF WalkAt
  <2>2. CASE NextPage
    BY <2>2 DEF NextPage, IInv, WalkInv
  <2> QED
    BY <2>1, <2>2
<1>3. UNCHANGED <<now, open, rows, status, filter>>
  BY DEF FirstPage, NextPage, Read, store
<1> HIDE DEF c
<1>4. /\ listed' \in [Ids -> Nat]
      /\ \A i \in Ids : listed'[i] <= 1
      /\ walk' \in {"reading", "ended"}
      /\ walk' = "reading" =>
            /\ cursor' \in Row
            /\ \A i \in Ids : listed'[i] = 0 \/ \E r \in rows : r.id = i /\ Past(r, cursor')
            /\ \A r \in steady' : Matches(r) /\ Past(r, cursor') => listed'[r.id] = 1
      /\ walk' = "ended" => cursor' = cursor /\ \A r \in steady' : Matches(r) => listed'[r.id] = 1
  BY <1>1, <1>2, ReadKeepsWalk DEF IInv
<1>5. TypeOK'
  BY <1>1, <1>3, <1>4 DEF IInv, TypeOK
<1>6. WalkInv'
  <2>1. ASSUME walk' = "reading" PROVE WalkAt(cursor, steady)'
    <3>1. \A i \in Ids : listed'[i] = 0 \/ listed'[i] = 1
      BY <1>4
    <3> QED
      BY <1>3, <1>4, <2>1, <3>1 DEF WalkAt, Past, Matches
  <2> QED
    BY <1>3, <1>4, <2>1 DEF WalkInv, Matches
<1> QED
  BY <1>3, <1>5, <1>6 DEF IInv, UniqueIds

LEMMA Invariance == Spec => []IInv
<1>1. ASSUME IInv, [Next]_vars
      PROVE  IInv'
  <2>1. CASE Tick
    BY <1>1, <2>1, TickKeepsInv
  <2>2. ASSUME NEW i \in Ids, Begin(i) PROVE IInv'
    BY <1>1, <2>2, BeginKeepsInv
  <2>3. ASSUME NEW r \in open, Commit(r) PROVE IInv'
    BY <1>1, <2>3, CommitKeepsInv
  <2>4. ASSUME NEW r \in open, Rollback(r) PROVE IInv'
    BY <1>1, <2>4, RollbackKeepsInv
  <2>5. ASSUME NEW r \in rows, NEW s \in Statuses, Move(r, s) PROVE IInv'
    BY <1>1, <2>5, MoveKeepsInv
  <2>6. CASE FirstPage \/ NextPage
    BY <1>1, <2>6, ReadKeepsInv
  <2>7. CASE BadCursor
    BY <1>1, <2>7 DEF BadCursor, IInv, TypeOK, UniqueIds, WalkInv, WalkAt, Past, Matches
  <2>8. CASE UNCHANGED vars
    BY <1>1, <2>8 DEF vars, store, IInv, TypeOK, UniqueIds, WalkInv, WalkAt, Past, Matches
  <2> QED
    BY <1>1, <2>1, <2>2, <2>3, <2>4, <2>5, <2>6, <2>7, <2>8 DEF Next
<1> QED
  BY <1>1, InitInv, PTL DEF Spec

(* However rows arrive, move and tie on created_at, a walk through the     *)
(* pages of list_assessments lists no assessment twice and, when it ends,  *)
(* has listed every steady row it asked for.                               *)
THEOREM WalkIsSound == Spec => []WalkSound
<1>1. IInv => WalkSound
  BY DEF IInv, WalkInv, WalkSound, NeverTwice, SteadyRowsListed
<1> QED
  BY <1>1, Invariance, PTL
=============================================================================
