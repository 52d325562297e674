---------------------------- MODULE Publication ----------------------------
(***************************************************************************)
(* What the explanation part of the service promises its readers, without  *)
(* executors, claims, clocks or transactions: an assessment is screened    *)
(* once; after that each explanation attempt ends in one of three ways, a  *)
(* failure that says nothing, a scored text that is withheld, or a scored  *)
(* text that is published and becomes the valid one of its assessment.     *)
(* An attempt is scored at most once, so a text that a reader has seen is  *)
(* never replaced under the same attempt.                                  *)
(***************************************************************************)
CONSTANTS Cases, Runs, NoCase, NoRun, Texts, NoText

VARIABLES
    caseStatus,   \* assessment_case.status
    current,      \* assessment_case.current_explanation_run_id
    owner,        \* explanation_run.assessment_id
    verdict,      \* eval_result.passed, "NONE" while there is no row
    text          \* explanation_run.explanation_text

vars == <<caseStatus, current, owner, verdict, text>>

Init ==
    /\ caseStatus = [c \in Cases |-> "ABSENT"]
    /\ current = [c \in Cases |-> NoRun]
    /\ owner = [r \in Runs |-> NoCase]
    /\ verdict = [r \in Runs |-> "NONE"]
    /\ text = [r \in Runs |-> NoText]

(* A screened assessment always comes with its first attempt.              *)
Screen(c, r) ==
    /\ caseStatus[c] = "ABSENT"
    /\ owner[r] = NoCase
    /\ caseStatus' = [caseStatus EXCEPT ![c] = "SCREENED"]
    /\ owner' = [owner EXCEPT ![r] = c]
    /\ UNCHANGED <<current, verdict, text>>

Request(c, r) ==
    /\ caseStatus[c] # "ABSENT"
    /\ owner[r] = NoCase
    /\ owner' = [owner EXCEPT ![r] = c]
    /\ UNCHANGED <<caseStatus, current, verdict, text>>

Publish(c, r, t) ==
    /\ owner[r] = c
    /\ verdict[r] = "NONE"
    /\ verdict' = [verdict EXCEPT ![r] = "PASSED"]
    /\ text' = [text EXCEPT ![r] = t]
    /\ current' = [current EXCEPT ![c] = r]
    /\ caseStatus' = [caseStatus EXCEPT ![c] = "COMPLETED"]
    /\ UNCHANGED owner

Withhold(c, r) ==
    /\ owner[r] = c
    /\ verdict[r] = "NONE"
    /\ verdict' = [verdict EXCEPT ![r] = "REJECTED"]
    /\ caseStatus' = [caseStatus EXCEPT ![c] = "REVIEW_REQUIRED"]
    /\ UNCHANGED <<current, owner, text>>

Fail(c, r) ==
    /\ owner[r] = c
    /\ caseStatus' = [caseStatus EXCEPT ![c] = "EXPLANATION_FAILED"]
    /\ UNCHANGED <<current, owner, verdict, text>>

Next ==
    \E c \in Cases, r \in Runs :
        \/ Screen(c, r)
        \/ Request(c, r)
        \/ \E t \in Texts : Publish(c, r, t)
        \/ Withhold(c, r)
        \/ Fail(c, r)

Spec == Init /\ [][Next]_vars

=============================================================================
