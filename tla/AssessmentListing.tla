------------------------- MODULE AssessmentListing -------------------------
(***************************************************************************)
(* Reading the list of assessments page by page while assessments keep     *)
(* arriving: list_assessments in loan_agent/api/assessments.py.            *)
(*                                                                         *)
(* A row is created_at and id.  created_at is the start of the inserting   *)
(* transaction (server_default now()), the row is visible from the commit: *)
(* rows appear out of the order they are listed in.  One request is one    *)
(* query and one action; the cursor is the position of the last row shown, *)
(* and the client sends it back with the filter unchanged.                 *)
(***************************************************************************)
EXTENDS Integers, FiniteSets

CONSTANTS
    Ids,        \* identifiers of assessments, drawn at random and ordered
    Limit,      \* rows of a page
    MaxTime     \* bound: the clock stops here

ASSUME ListingAssumption ==
    /\ Ids \subseteq Nat
    /\ Limit \in Nat \ {0}
    /\ MaxTime \in Nat

Statuses == {"SCREENED", "COMPLETED", "EXPLANATION_FAILED", "REVIEW_REQUIRED"}
Times    == 0..MaxTime

VARIABLES
    now,
    open,       \* rows of transactions that have begun and not committed
    rows,       \* committed rows
    status,     \* the status column of each
    walk,       \* "idle", "reading", "ended", or "refused" for a bad cursor
    filter,     \* status (or "any"), from and to of the requests of this walk
    cursor,     \* position of the last row of the last page
    listed,     \* how often each assessment was listed
    steady      \* rows there before the walk that have not moved since

store == <<now, open, rows, status>>
vars  == <<now, open, rows, status, walk, filter, cursor, listed, steady>>

Row     == [at : Times, id : Ids]
Top     == [at |-> MaxTime + 1, id |-> 0]      \* no cursor: above every row
Filters == [status : Statuses \cup {"any"}, from : Times, to : Times]

(* The order of the list: newest first, and by id among equals.            *)
OlderThan(r, s) == r.at < s.at \/ (r.at = s.at /\ r.id < s.id)

Matches(r) ==
    /\ filter.status = "any" \/ status[r.id] = filter.status
    /\ filter.from <= r.at /\ r.at <= filter.to

TypeOK ==
    /\ now \in Times
    /\ open \subseteq Row /\ rows \subseteq Row /\ IsFiniteSet(rows)
    /\ status \in [Ids -> Statuses]
    /\ walk \in {"idle", "reading", "ended", "refused"}
    /\ filter \in Filters
    /\ cursor \in Row \cup {Top}
    /\ listed \in [Ids -> Nat]
    /\ steady \subseteq rows

Init ==
    /\ now = 0
    /\ open = {} /\ rows = {}
    /\ status = [i \in Ids |-> "SCREENED"]
    /\ walk = "idle"
    /\ filter \in Filters
    /\ cursor = Top
    /\ listed = [i \in Ids |-> 0]
    /\ steady = {}

(***************************************************************************)
(* The rest of the service                                                 *)
(***************************************************************************)
Tick ==
    /\ now < MaxTime
    /\ now' = now + 1
    /\ UNCHANGED <<open, rows, status, walk, filter, cursor, listed, steady>>

(* create_assessment: a fresh id, and the time of the transaction.         *)
Begin(i) ==
    /\ \A r \in open \cup rows : r.id # i
    /\ open' = open \cup {[at |-> now, id |-> i]}
    /\ UNCHANGED <<now, rows, status, walk, filter, cursor, listed, steady>>

Commit(r) ==
    /\ r \in open
    /\ open' = open \ {r}
    /\ rows' = rows \cup {r}
    /\ UNCHANGED <<now, status, walk, filter, cursor, listed, steady>>

Rollback(r) ==
    /\ r \in open
    /\ open' = open \ {r}
    /\ UNCHANGED <<now, rows, status, walk, filter, cursor, listed, steady>>

(* Runs and reviews move the status of an assessment.                      *)
Move(r, s) ==
    /\ r \in rows
    /\ status[r.id] # s
    /\ status' = [status EXCEPT ![r.id] = s]
    /\ steady' = steady \ {r}
    /\ UNCHANGED <<now, open, rows, walk, filter, cursor, listed>>

(***************************************************************************)
(* list_assessments                                                        *)
(***************************************************************************)
SelectedByTimeOnly(c) == {r \in rows : Matches(r) /\ r.at < c.at}

Selected(c) == {r \in rows : Matches(r) /\ OlderThan(r, c)}

(* ORDER BY ... LIMIT: the newest Limit rows of what is selected.          *)
Page(c) == {r \in Selected(c) :
                Cardinality({s \in Selected(c) : OlderThan(r, s)}) < Limit}

(* One row more than a page was asked for, to see whether there is one.    *)
Trailing(c) == Cardinality(Selected(c)) > Limit

(* _encode_cursor: the position of the last row of the page.               *)
Last(page) == CHOOSE r \in page : \A s \in page : s = r \/ OlderThan(r, s)

(* A page and the cursor that goes with it, for a walk standing at c.      *)
Read(c) ==
    /\ listed' = [i \in Ids |-> listed[i] + Cardinality({r \in Page(c) : r.id = i})]
    /\ IF Trailing(c)
         THEN walk' = "reading" /\ cursor' = Last(Page(c))
         ELSE walk' = "ended" /\ UNCHANGED cursor
    /\ UNCHANGED store
    /\ UNCHANGED filter

FirstPage ==
    /\ walk = "idle"
    /\ steady' = rows
    /\ Read(Top)

NextPage ==
    /\ walk = "reading"
    /\ Read(cursor)
    /\ UNCHANGED steady

(* _decode_cursor: a cursor that cannot be read is refused with 422.       *)
BadCursor ==
    /\ walk \in {"idle", "reading"}
    /\ walk' = "refused"
    /\ UNCHANGED <<now, open, rows, status, filter, cursor, listed, steady>>

Next ==
    \/ Tick
    \/ \E i \in Ids : Begin(i)
    \/ \E r \in open : Commit(r) \/ Rollback(r)
    \/ \E r \in rows, s \in Statuses : Move(r, s)
    \/ FirstPage
    \/ NextPage
    \/ BadCursor

Spec == Init /\ [][Next]_vars

(***************************************************************************)
(* Properties                                                              *)
(***************************************************************************)
(* Rows committed behind the cursor, with equal or earlier times, never    *)
(* make list_assessments show an assessment twice in one walk.             *)
NeverTwice == \A i \in Ids : listed[i] <= 1

(* A walk that has ended showed, exactly once, every matching row that was *)
(* committed before its first page and whose status stayed as it was:      *)
(* neither ties on created_at nor rows arriving meanwhile cost one.        *)
SteadyRowsListed ==
    walk = "ended" => \A r \in steady : Matches(r) => listed[r.id] = 1

(* Both, with the types they are stated over: a walk lists what it should, *)
(* once.                                                                   *)
WalkSound == TypeOK /\ NeverTwice /\ SteadyRowsListed
=============================================================================
