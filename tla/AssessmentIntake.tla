-------------------------- MODULE AssessmentIntake --------------------------
(***************************************************************************)
(* POST /api/v1/assessments (loan_agent/api/assessments.py): the look-up   *)
(* by idempotency key, the insert that the unique constraint of            *)
(* assessment_case guards, and the recovery when the constraint refuses.   *)
(*                                                                         *)
(* A request is one HTTP request whose body passed validation; a client    *)
(* that sends a submission again is another request with the same key.     *)
(* The row a request may insert is named after the request, so its key and *)
(* request hash are key[r] and RequestHash(body[r]), which never change.   *)
(*                                                                         *)
(* Grain.  Under READ COMMITTED an insert is not seen by others before its *)
(* commit, but it holds its entry of the unique index: another insert of   *)
(* the same key waits for that transaction to end, then fails if it        *)
(* committed.  The look-up, the insert, the commit and the look-up of the  *)
(* recovery are therefore steps of their own.                              *)
(***************************************************************************)
CONSTANTS
    Requests,       \* HTTP requests
    Keys,           \* idempotency keys
    Bodies,         \* bodies as they are written by clients
    Contents,       \* what a body means once validated: defaults filled, numbers read
    ContentOf,      \* [Bodies -> Contents]
    Rules,          \* releases of the screening rules and the product table
    None

ASSUME IntakeAssumption ==
    /\ ContentOf \in [Bodies -> Contents]
    /\ None \notin Requests \cup Keys \cup Bodies \cup Contents \cup Rules

VARIABLES
    release,    \* the rules the running application has loaded
    pc, key, body,
    row,        \* state of the assessment_case row that a request inserts
    decidedBy,  \* decision_result.rule_version and product_dataset_version of that row
    answer      \* status code and assessment the handler answers with

vars == <<release, pc, key, body, row, decidedBy, answer>>

Steps    == {"new", "looking", "inserting", "persisting", "recovering", "done"}
RowStates == {"ABSENT", "INSERTED", "COMMITTED"}
NoAnswer == [code |-> "none", of |-> None, rules |-> None]
Answers  == [code : {"none", "200", "201", "409", "500", "lost"},
             of : Requests \cup {None}, rules : Rules \cup {None}]

TypeOK ==
    /\ release \in Rules
    /\ pc \in [Requests -> Steps]
    /\ key \in [Requests -> Keys \cup {None}]
    /\ body \in [Requests -> Bodies \cup {None}]
    /\ row \in [Requests -> RowStates]
    /\ decidedBy \in [Requests -> Rules \cup {None}]
    /\ answer \in [Requests -> Answers]
    /\ \A r \in Requests :
        /\ pc[r] # "new" => key[r] \in Keys /\ body[r] \in Bodies
        /\ row[r] = "INSERTED" <=> pc[r] = "persisting"

Init ==
    /\ release \in Rules
    /\ pc = [r \in Requests |-> "new"]
    /\ key = [r \in Requests |-> None]
    /\ body = [r \in Requests |-> None]
    /\ row = [r \in Requests |-> "ABSENT"]
    /\ decidedBy = [r \in Requests |-> None]
    /\ answer = [r \in Requests |-> NoAnswer]

(* The hash is taken of the validated values, so bodies of one meaning     *)
(* have one hash; two contents never share one.                            *)
RequestHash(b) == ContentOf[b]

(* The rows a session sees under the key of r.                             *)
Existing(r) == {i \in Requests : row[i] = "COMMITTED" /\ key[i] = key[r]}
(* The rows that keep r's insert waiting at the unique index.              *)
Pending(r)  == {i \in Requests \ {r} : row[i] = "INSERTED" /\ key[i] = key[r]}

(* uq_assessment_idempotency_key lets the row of r in, or refuses it.      *)
NoUniqueKey(r) == TRUE
Admits(r)  == Existing(r) = {} /\ Pending(r) = {}
RefusesUncommitted(r) == Existing(r) \cup Pending(r) # {}
Refuses(r) == Existing(r) # {}

Answer(r, a) ==
    /\ pc' = [pc EXCEPT ![r] = "done"]
    /\ answer' = [answer EXCEPT ![r] = a]
Bare(code)     == [NoAnswer EXCEPT !.code = code]
Shown(code, i, rules) == [code |-> code, of |-> i, rules |-> rules]

(* _replay: the stored assessment as it was decided, or a conflict.        *)
SameHash(r, i) == RequestHash(body[i]) = RequestHash(body[r])
DecidedAgain(r, i) ==
    Answer(r, IF SameHash(r, i) THEN Shown("200", i, release) ELSE Bare("409"))
HashIgnored(r, i) == Answer(r, Shown("200", i, decidedBy[i]))
Replay(r, i) ==
    Answer(r, IF SameHash(r, i) THEN Shown("200", i, decidedBy[i]) ELSE Bare("409"))

Send(r, k, b) ==
    /\ pc[r] = "new"
    /\ pc' = [pc EXCEPT ![r] = "looking"]
    /\ key' = [key EXCEPT ![r] = k]
    /\ body' = [body EXCEPT ![r] = b]
    /\ UNCHANGED <<release, row, decidedBy, answer>>

LookUp(r) ==
    /\ pc[r] = "looking"
    /\ \/ \E i \in Existing(r) : Replay(r, i)
       \/ /\ Existing(r) = {}
          /\ pc' = [pc EXCEPT ![r] = "inserting"]
          /\ UNCHANGED answer
    /\ UNCHANGED <<release, key, body, row, decidedBy>>

(* _persist decides with the rules that are loaded and flushes the row.    *)
Insert(r) ==
    /\ pc[r] = "inserting"
    /\ Admits(r)
    /\ row' = [row EXCEPT ![r] = "INSERTED"]
    /\ decidedBy' = [decidedBy EXCEPT ![r] = release]
    /\ pc' = [pc EXCEPT ![r] = "persisting"]
    /\ UNCHANGED <<release, key, body, answer>>

(* IntegrityError: the transaction is rolled back.                         *)
InsertRefused(r) ==
    /\ pc[r] = "inserting"
    /\ Refuses(r)
    /\ pc' = [pc EXCEPT ![r] = "recovering"]
    /\ UNCHANGED <<release, key, body, row, decidedBy, answer>>

(* The other rows of the assessment are written and all of it commits.     *)
(* The answer was built before.  If the acknowledgement is lost on the     *)
(* connection, or the application with it, the rows are there although the *)
(* client hears of an error or of nothing.                                 *)
AnsweredEarly(r) == UNCHANGED row
Committed(r) == row' = [row EXCEPT ![r] = "COMMITTED"]
Commit(r) ==
    /\ pc[r] = "persisting"
    /\ Committed(r)
    /\ \/ Answer(r, Shown("201", r, decidedBy[r]))
       \/ \E code \in {"500", "lost"} : Answer(r, Bare(code))
    /\ UNCHANGED <<release, key, body, decidedBy>>

(* The unique key that refused the insert must now be found; if it is not, *)
(* the IntegrityError is raised again.                                     *)
Recover(r) ==
    /\ pc[r] = "recovering"
    /\ \/ \E i \in Existing(r) : Replay(r, i)
       \/ Existing(r) = {} /\ Answer(r, Bare("500"))
    /\ UNCHANGED <<release, key, body, row, decidedBy>>

(* What a transaction that ends without a commit leaves of a row.          *)
StaysInserted(r) == row[r]
RolledBack(r) == IF row[r] = "INSERTED" THEN "ABSENT" ELSE row[r]

(* A statement fails: no connection, five seconds of waiting for the index *)
(* entry, a value the columns cannot hold.  The transaction rolls back.    *)
Fail(r) ==
    /\ pc[r] \in {"looking", "inserting", "persisting", "recovering"}
    /\ row' = [row EXCEPT ![r] = RolledBack(r)]
    /\ Answer(r, Bare("500"))
    /\ UNCHANGED <<release, key, body, decidedBy>>

(* The application dies or is replaced, maybe by another release; its      *)
(* requests get no answer and what they had not committed is gone.         *)
Restart ==
    LET open == {r \in Requests : pc[r] \notin {"new", "done"}} IN
    /\ release' \in Rules
    /\ pc' = [r \in Requests |-> IF r \in open THEN "done" ELSE pc[r]]
    /\ answer' = [r \in Requests |-> IF r \in open THEN Bare("lost") ELSE answer[r]]
    /\ row' = [r \in Requests |-> RolledBack(r)]
    /\ UNCHANGED <<key, body, decidedBy>>

Handle(r) == LookUp(r) \/ Insert(r) \/ InsertRefused(r) \/ Commit(r) \/ Recover(r)

Next ==
    \/ \E r \in Requests, k \in Keys, b \in Bodies : Send(r, k, b)
    \/ \E r \in Requests : Handle(r) \/ Fail(r)
    \/ Restart

Spec == Init /\ [][Next]_vars

(***************************************************************************)
(* Properties                                                              *)
(***************************************************************************)

(* Whatever requests race with one key, at most one assessment of it is    *)
(* stored or about to be (ADR-004; create_assessment).                     *)
OneAssessmentPerKey ==
    \A i, j \in Requests :
        row[i] # "ABSENT" /\ row[j] # "ABSENT" /\ key[i] = key[j] => i = j

(* All clients that were shown an assessment for a key were shown the same *)
(* one, as the same release decided it, and each had asked for its         *)
(* content, also across restarts into another release (_replay).           *)
AnswersAgree ==
    \A r, q \in Requests :
        /\ {answer[r].code, answer[q].code} \subseteq {"200", "201"}
        /\ key[r] = key[q]
        => /\ answer[r].of = answer[q].of
           /\ answer[r].rules = answer[q].rules
           /\ ContentOf[body[r]] = ContentOf[body[q]]

(* What a client was shown is stored, although the answer is built before  *)
(* the commit.                                                             *)
AnsweredIsStored ==
    \A r \in Requests : answer[r].code \in {"200", "201"} =>
        row[answer[r].of] = "COMMITTED"

(* A conflict is real: another request has stored something of a different *)
(* meaning under the key; spelling the same content differently is none.   *)
ConflictIsReal ==
    \A r \in Requests : answer[r].code = "409" =>
        \E i \in Existing(r) : ContentOf[body[i]] # ContentOf[body[r]]

(* The recovery always finds the assessment that the constraint defended,  *)
(* so its `raise' is never reached.                                        *)
RecoveryFinds ==
    \A r \in Requests : pc[r] = "recovering" => Existing(r) # {}

(* Each step of a request finds what the step before left to it: its row   *)
(* while it persists, the defended assessment when it recovers.            *)
IntakeSound == TypeOK /\ RecoveryFinds

(* What a client hears is true when it hears it and stays so.              *)
RepliesSound == AnsweredIsStored /\ ConflictIsReal

(* The handler implements the keyed store.                                 *)
Asked == [r \in Requests |->
            IF pc[r] = "new" THEN [key |-> None, content |-> None]
                             ELSE [key |-> key[r], content |-> ContentOf[body[r]]]]
Entry(i) == [id |-> i, key |-> key[i], content |-> ContentOf[body[i]], rules |-> decidedBy[i]]
Stored == {Entry(i) : i \in {j \in Requests : row[j] = "COMMITTED"}}

S == INSTANCE KeyedStore WITH asked <- Asked, store <- Stored, reply <- answer
StoreRefined == S!Spec

(* Fairness: the handler of a request that was sent runs on a thread of    *)
(* its own.                                                                *)
FairSpec == Spec /\ \A r \in Requests : WF_vars(Handle(r))

(* No request waits for ever, in particular not for the index entry of a   *)
(* transaction that fails.                                                 *)
RequestsEnd == \A r \in Requests : pc[r] # "new" ~> pc[r] = "done"

=============================================================================
