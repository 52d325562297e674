----------------------- MODULE AssessmentIntakeProofs -----------------------
(***************************************************************************)
(* Theorems about AssessmentIntake, for any requests, keys, bodies and     *)
(* releases.                                                               *)
(*                                                                         *)
(* IInv is inductive.  Beside the properties it says what a row and an     *)
(* answer owe the step their request is in: only a request that is done    *)
(* has a committed row or an answer, and an answer tells the truth about   *)
(* the committed rows (AnswerOf), which no later step takes back.          *)
(***************************************************************************)
EXTENDS AssessmentIntake, TLAPS

StepInv ==
    \A r \in Requests :
        /\ row[r] = "COMMITTED" => pc[r] = "done"
        /\ row[r] # "ABSENT" => decidedBy[r] \in Rules
        /\ pc[r] # "done" => answer[r] = NoAnswer
        /\ pc[r] = "new" => row[r] = "ABSENT"

AnswerOf(r) ==
    /\ answer[r].code \in {"200", "201"} =>
        /\ answer[r].of \in Requests
        /\ row[answer[r].of] = "COMMITTED"
        /\ key[answer[r].of] = key[r]
        /\ answer[r].rules = decidedBy[answer[r].of]
        /\ ContentOf[body[answer[r].of]] = ContentOf[body[r]]
    /\ answer[r].code = "409" =>
        \E i \in Existing(r) : ContentOf[body[i]] # ContentOf[body[r]]
AnswerInv == \A r \in Requests : pc[r] = "done" => AnswerOf(r)

IInv ==
    /\ TypeOK /\ StepInv
    /\ OneAssessmentPerKey /\ AnswerInv /\ RecoveryFinds

(***************************************************************************)
(* Types                                                                   *)
(***************************************************************************)

LEMMA AnswerTypes ==
    /\ NoAnswer \in Answers
    /\ \A code \in {"none", "200", "201", "409", "500", "lost"} : Bare(code) \in Answers
    /\ \A code \in {"200", "201"}, i \in Requests, rules \in Rules \cup {None} :
            Shown(code, i, rules) \in Answers
  BY DEF NoAnswer, Answers, Bare, Shown

(* The answer of a replay.                                                 *)
LEMMA ReplayAnswers ==
  ASSUME NEW r \in Requests, NEW i \in Requests, Replay(r, i)
  PROVE  \/ SameHash(r, i) /\ Answer(r, Shown("200", i, decidedBy[i]))
         \/ ~SameHash(r, i) /\ Answer(r, Bare("409"))
  BY DEF Replay

LEMMA TypeStep == ASSUME TypeOK, [Next]_vars PROVE TypeOK'
<1> USE DEF TypeOK
<1>1. ASSUME NEW r \in Requests, NEW k \in Keys, NEW b \in Bodies, Send(r, k, b) PROVE TypeOK'
  BY <1>1 DEF Send, Steps
<1>2. ASSUME NEW r \in Requests, NEW a \in Answers, Answer(r, a), pc[r] # "persisting", pc[r] # "new",
             UNCHANGED <<release, key, body, row, decidedBy>>
      PROVE TypeOK'
  BY <1>2 DEF Answer, Steps
<1>3. ASSUME NEW r \in Requests, NEW i \in Existing(r), Replay(r, i),
             pc[r] # "persisting", pc[r] # "new",
             UNCHANGED <<release, key, body, row, decidedBy>>
      PROVE TypeOK'
  <2>1. i \in Requests /\ decidedBy[i] \in Rules \cup {None}
    BY DEF Existing
  <2>2. PICK a \in Answers : Answer(r, a)
    BY <1>3, <2>1, ReplayAnswers, AnswerTypes
  <2> QED BY <1>2, <1>3, <2>2
<1>4. ASSUME NEW r \in Requests, LookUp(r) PROVE TypeOK'
  <2>1. CASE \E i \in Existing(r) : Replay(r, i)
    BY <2>1, <1>3, <1>4 DEF LookUp
  <2>2. CASE pc' = [pc EXCEPT ![r] = "inserting"] /\ UNCHANGED answer
    BY <2>2, <1>4 DEF LookUp, Steps
  <2> QED BY <1>4, <2>1, <2>2 DEF LookUp
<1>5. ASSUME NEW r \in Requests, Insert(r) PROVE TypeOK'
  BY <1>5 DEF Insert, Steps, RowStates
<1>6. ASSUME NEW r \in Requests, InsertRefused(r) PROVE TypeOK'
  BY <1>6 DEF InsertRefused, Steps
<1>7. ASSUME NEW r \in Requests, Commit(r) PROVE TypeOK'
  <2>1. PICK a \in Answers : Answer(r, a)
    BY <1>7, AnswerTypes DEF Commit
  <2> QED BY <1>7, <2>1 DEF Commit, Committed, Answer, Steps, RowStates
<1>8. ASSUME NEW r \in Requests, Recover(r) PROVE TypeOK'
  <2>1. CASE \E i \in Existing(r) : Replay(r, i)
    BY <2>1, <1>3, <1>8 DEF Recover
  <2>2. CASE Answer(r, Bare("500"))
    BY <2>2, <1>2, <1>8, AnswerTypes DEF Recover
  <2> QED BY <1>8, <2>1, <2>2 DEF Recover
<1>9. ASSUME NEW r \in Requests, Fail(r) PROVE TypeOK'
  <2>1. Bare("500") \in Answers
    BY AnswerTypes
  <2>2. row' \in [Requests -> RowStates]
    BY <1>9 DEF Fail, RolledBack, RowStates
  <2> QED BY <1>9, <2>1, <2>2 DEF Fail, Answer, RolledBack, Steps
<1>10. ASSUME Restart PROVE TypeOK'
  <2>1. Bare("lost") \in Answers
    BY AnswerTypes
  <2>2. row' \in [Requests -> RowStates]
    BY <1>10 DEF Restart, RolledBack, RowStates
  <2>3. pc' \in [Requests -> Steps] /\ answer' \in [Requests -> Answers]
    BY <1>10, <2>1 DEF Restart, Steps
  <2>4. ASSUME NEW r \in Requests
        PROVE  /\ pc'[r] # "new" => key'[r] \in Keys /\ body'[r] \in Bodies
               /\ row'[r] = "INSERTED" <=> pc'[r] = "persisting"
    BY <1>10 DEF Restart, RolledBack
  <2> QED BY <1>10, <2>2, <2>3, <2>4 DEF Restart
<1>11. CASE UNCHANGED vars
  BY <1>11 DEF vars
<1> HIDE DEF TypeOK
<1> QED BY <1>1, <1>4, <1>5, <1>6, <1>7, <1>8, <1>9, <1>10, <1>11 DEF Next, Handle

(***************************************************************************)
(* What a step leaves alone                                                *)
(***************************************************************************)

(* Committed rows are for good, a request that was sent keeps what it      *)
(* asked for, and one that is done keeps its answer.                       *)
LEMMA Stable ==
  ASSUME TypeOK, StepInv, [Next]_vars, NEW r \in Requests
  PROVE  /\ row[r] = "COMMITTED" => row'[r] = "COMMITTED" /\ decidedBy'[r] = decidedBy[r]
         /\ pc[r] # "new" => pc'[r] # "new" /\ key'[r] = key[r] /\ body'[r] = body[r]
         /\ pc[r] = "done" => pc'[r] = "done" /\ answer'[r] = answer[r]
<1> DEFINE Goal == /\ row[r] = "COMMITTED" => row'[r] = "COMMITTED" /\ decidedBy'[r] = decidedBy[r]
                   /\ pc[r] # "new" => pc'[r] # "new" /\ key'[r] = key[r] /\ body'[r] = body[r]
                   /\ pc[r] = "done" => pc'[r] = "done" /\ answer'[r] = answer[r]
<1> USE DEF TypeOK
<1>1. ASSUME NEW q \in Requests, NEW k \in Keys, NEW b \in Bodies, Send(q, k, b) PROVE Goal
  BY <1>1 DEF Send, StepInv
<1>2. ASSUME NEW q \in Requests, LookUp(q) PROVE Goal
  BY <1>2 DEF LookUp, Replay, Answer
<1>3. ASSUME NEW q \in Requests, Insert(q) PROVE Goal
  BY <1>3 DEF Insert, StepInv
<1>4. ASSUME NEW q \in Requests, InsertRefused(q) PROVE Goal
  BY <1>4 DEF InsertRefused
<1>5. ASSUME NEW q \in Requests, Commit(q) PROVE Goal
  BY <1>5 DEF Commit, Committed, Answer
<1>6. ASSUME NEW q \in Requests, Recover(q) PROVE Goal
  BY <1>6 DEF Recover, Replay, Answer
<1>7. ASSUME NEW q \in Requests, Fail(q) PROVE Goal
  BY <1>7 DEF Fail, Answer, RolledBack
<1>8. ASSUME Restart PROVE Goal
  BY <1>8 DEF Restart, RolledBack
<1>9. ASSUME UNCHANGED vars PROVE Goal
  BY <1>9 DEF vars
<1> HIDE DEF Goal, TypeOK
<1>10. Goal
  BY <1>1, <1>2, <1>3, <1>4, <1>5, <1>6, <1>7, <1>8, <1>9 DEF Next, Handle
<1> QED BY <1>10 DEF Goal

LEMMA StepInvStep == ASSUME TypeOK, StepInv, [Next]_vars PROVE StepInv'
<1> USE DEF TypeOK, StepInv
<1>1. ASSUME NEW q \in Requests, NEW k \in Keys, NEW b \in Bodies, Send(q, k, b) PROVE StepInv'
  BY <1>1 DEF Send
<1>2. ASSUME NEW q \in Requests, pc[q] \in {"looking", "recovering"},
             pc' = [pc EXCEPT ![q] = "done"], answer' = [answer EXCEPT ![q] = answer'[q]],
             UNCHANGED <<key, body, row, decidedBy>>
      PROVE StepInv'
  BY <1>2
<1>3. ASSUME NEW q \in Requests, NEW i \in Existing(q), Replay(q, i)
      PROVE  pc' = [pc EXCEPT ![q] = "done"] /\ answer' = [answer EXCEPT ![q] = answer'[q]]
  BY <1>3 DEF Replay, Answer
<1>4. ASSUME NEW q \in Requests, LookUp(q) PROVE StepInv'
  <2>1. CASE \E i \in Existing(q) : Replay(q, i)
    BY <2>1, <1>2, <1>3, <1>4 DEF LookUp
  <2>2. CASE pc' = [pc EXCEPT ![q] = "inserting"] /\ UNCHANGED answer
    BY <2>2, <1>4 DEF LookUp
  <2> QED BY <1>4, <2>1, <2>2 DEF LookUp
<1>5. ASSUME NEW q \in Requests, Insert(q) PROVE StepInv'
  BY <1>5 DEF Insert
<1>6. ASSUME NEW q \in Requests, InsertRefused(q) PROVE StepInv'
  BY <1>6 DEF InsertRefused
<1>7. ASSUME NEW q \in Requests, Commit(q) PROVE StepInv'
  <2>1. /\ pc[q] = "persisting"
        /\ pc' = [pc EXCEPT ![q] = "done"] /\ answer' = [answer EXCEPT ![q] = answer'[q]]
        /\ row' = [row EXCEPT ![q] = "COMMITTED"] /\ UNCHANGED decidedBy
    BY <1>7 DEF Commit, Committed, Answer
  <2>2. decidedBy[q] \in Rules
    BY <2>1
  <2> QED BY <2>1, <2>2
<1>8. ASSUME NEW q \in Requests, Recover(q) PROVE StepInv'
  <2>1. CASE \E i \in Existing(q) : Replay(q, i)
    BY <2>1, <1>2, <1>3, <1>8 DEF Recover
  <2>2. CASE Answer(q, Bare("500"))
    BY <2>2, <1>2, <1>8 DEF Recover, Answer
  <2> QED BY <1>8, <2>1, <2>2 DEF Recover
<1>9. ASSUME NEW q \in Requests, Fail(q) PROVE StepInv'
  BY <1>9 DEF Fail, Answer, RolledBack
<1>10. ASSUME Restart PROVE StepInv'
  BY <1>10 DEF Restart, RolledBack
<1>11. CASE UNCHANGED vars
  BY <1>11 DEF vars
<1> HIDE DEF TypeOK, StepInv
<1> QED BY <1>1, <1>4, <1>5, <1>6, <1>7, <1>8, <1>9, <1>10, <1>11 DEF Next, Handle

(***************************************************************************)
(* The unique key                                                          *)
(***************************************************************************)

(* A row appears only where the constraint admits it.                      *)
LEMMA RowsAppear ==
  ASSUME TypeOK, StepInv, [Next]_vars, NEW i \in Requests, row'[i] # "ABSENT"
  PROVE  /\ pc[i] # "new"
         /\ row[i] = "ABSENT" =>
                /\ Admits(i)
                /\ \A j \in Requests \ {i} : row'[j] = row[j] /\ key'[j] = key[j]
<1> DEFINE Goal == /\ pc[i] # "new"
                   /\ row[i] = "ABSENT" =>
                        /\ Admits(i)
                        /\ \A j \in Requests \ {i} : row'[j] = row[j] /\ key'[j] = key[j]
<1> USE DEF TypeOK, StepInv
<1>1. CASE row[i] # "ABSENT"
  BY <1>1
<1>2. CASE row[i] = "ABSENT" /\ Insert(i)
  BY <1>2 DEF Insert
<1>3. CASE row[i] = "ABSENT" /\ ~Insert(i)
  <2>1. ASSUME NEW q \in Requests, q # i \/ ~Insert(q), Handle(q) \/ Fail(q) PROVE FALSE
    BY <2>1, <1>3 DEF Handle, LookUp, Insert, InsertRefused, Commit, Committed, Recover, Fail,
                      RolledBack
  <2>2. ASSUME NEW q \in Requests, NEW k \in Keys, NEW b \in Bodies, Send(q, k, b) PROVE FALSE
    BY <2>2, <1>3 DEF Send
  <2>3. CASE Restart
    BY <2>3, <1>3 DEF Restart, RolledBack
  <2>4. CASE UNCHANGED vars
    BY <2>4, <1>3 DEF vars
  <2> QED BY <1>3, <2>1, <2>2, <2>3, <2>4 DEF Next
<1> QED BY <1>1, <1>2, <1>3

LEMMA OneStep ==
  ASSUME TypeOK, StepInv, OneAssessmentPerKey, [Next]_vars
  PROVE  OneAssessmentPerKey'
<1> SUFFICES ASSUME NEW i \in Requests, NEW j \in Requests,
                    row'[i] # "ABSENT", row'[j] # "ABSENT", key'[i] = key'[j]
             PROVE  i = j
  BY DEF OneAssessmentPerKey
<1>1. pc[i] # "new" /\ pc[j] # "new"
  BY RowsAppear
<1>2. key[i] = key[j]
  BY <1>1, Stable
<1>3. ASSUME NEW a \in Requests, NEW b \in Requests, key[a] = key[b], a # b,
             row'[a] # "ABSENT", row'[b] # "ABSENT", row[a] = "ABSENT"
      PROVE  FALSE
  <2>1. Admits(a) /\ row'[b] = row[b]
    BY <1>3, RowsAppear
  <2> QED BY <1>3, <2>1 DEF Admits, Existing, Pending, TypeOK, RowStates
<1> QED BY <1>2, <1>3 DEF OneAssessmentPerKey

(* What exists under the key of a request that was sent keeps existing.    *)
LEMMA ExistingStays ==
  ASSUME TypeOK, StepInv, [Next]_vars, NEW r \in Requests, pc[r] # "new",
         NEW i \in Existing(r)
  PROVE  /\ i \in Existing(r)'
         /\ decidedBy'[i] = decidedBy[i] /\ body'[i] = body[i] /\ body'[r] = body[r]
<1>1. i \in Requests /\ row[i] = "COMMITTED" /\ key[i] = key[r]
  BY DEF Existing
<1>2. pc[i] # "new"
  BY <1>1 DEF StepInv
<1> QED BY <1>1, <1>2, Stable DEF Existing

LEMMA RecoveryStep ==
  ASSUME TypeOK, StepInv, RecoveryFinds, [Next]_vars
  PROVE  RecoveryFinds'
<1> SUFFICES ASSUME NEW r \in Requests, pc'[r] = "recovering" PROVE Existing(r)' # {}
  BY DEF RecoveryFinds
<1>1. CASE pc[r] = "recovering"
  BY <1>1, ExistingStays DEF RecoveryFinds
<1>2. CASE pc[r] # "recovering"
  <2>1. InsertRefused(r)
    BY <1>2 DEF TypeOK, Next, Handle, Send, LookUp, Insert, InsertRefused, Commit, Recover, Fail,
                Restart, Replay, Answer, vars
  <2> QED BY <2>1, ExistingStays DEF InsertRefused, Refuses
<1> QED BY <1>1, <1>2

(***************************************************************************)
(* Answers                                                                 *)
(***************************************************************************)

(* The answers a step gives.                                               *)
LEMMA NewAnswers ==
  ASSUME TypeOK, [Next]_vars, NEW r \in Requests, pc[r] # "done", pc'[r] = "done"
  PROVE  /\ pc[r] # "new"
         /\ \/ \E i \in Existing(r) :
                \/ SameHash(r, i) /\ answer'[r] = Shown("200", i, decidedBy[i])
                \/ ~SameHash(r, i) /\ answer'[r] = Bare("409")
            \/ row'[r] = "COMMITTED" /\ answer'[r] = Shown("201", r, decidedBy'[r])
            \/ answer'[r] \in {Bare("500"), Bare("lost")}
<1> DEFINE Goal ==
         /\ pc[r] # "new"
         /\ \/ \E i \in Existing(r) :
                \/ SameHash(r, i) /\ answer'[r] = Shown("200", i, decidedBy[i])
                \/ ~SameHash(r, i) /\ answer'[r] = Bare("409")
            \/ row'[r] = "COMMITTED" /\ answer'[r] = Shown("201", r, decidedBy'[r])
            \/ answer'[r] \in {Bare("500"), Bare("lost")}
<1> USE DEF TypeOK
<1>1. ASSUME NEW q \in Requests, NEW k \in Keys, NEW b \in Bodies, Send(q, k, b) PROVE Goal
  BY <1>1 DEF Send
<1>2. ASSUME NEW q \in Requests, LookUp(q) \/ Recover(q) PROVE Goal
  <2>1. q = r
    BY <1>2 DEF LookUp, Recover, Replay, Answer
  <2>2. CASE \E i \in Existing(q) : Replay(q, i)
    <3>1. PICK i \in Existing(r) : Replay(r, i)
      BY <2>1, <2>2
    <3>2. i \in Requests
      BY DEF Existing
    <3>3. \/ SameHash(r, i) /\ answer'[r] = Shown("200", i, decidedBy[i])
          \/ ~SameHash(r, i) /\ answer'[r] = Bare("409")
      BY <3>1, <3>2, ReplayAnswers DEF Answer
    <3> QED BY <2>1, <1>2, <3>1, <3>3 DEF LookUp, Recover
  <2>3. CASE ~\E i \in Existing(q) : Replay(q, i)
    BY <2>1, <2>3, <1>2 DEF LookUp, Recover, Answer
  <2> QED BY <2>2, <2>3
<1>3. ASSUME NEW q \in Requests, Insert(q) \/ InsertRefused(q) PROVE Goal
  BY <1>3 DEF Insert, InsertRefused
<1>4. ASSUME NEW q \in Requests, Commit(q) PROVE Goal
  BY <1>4 DEF Commit, Committed, Answer
<1>5. ASSUME NEW q \in Requests, Fail(q) PROVE Goal
  BY <1>5 DEF Fail, Answer
<1>6. ASSUME Restart PROVE Goal
  BY <1>6 DEF Restart
<1>7. ASSUME UNCHANGED vars PROVE Goal
  BY <1>7 DEF vars
<1> HIDE DEF Goal, TypeOK
<1>8. Goal
  BY <1>1, <1>2, <1>3, <1>4, <1>5, <1>6, <1>7 DEF Next, Handle
<1> QED BY <1>8 DEF Goal

LEMMA AnswerStep ==
  ASSUME TypeOK, StepInv, AnswerInv, [Next]_vars
  PROVE  AnswerInv'
<1> SUFFICES ASSUME NEW r \in Requests, pc'[r] = "done" PROVE AnswerOf(r)'
  BY DEF AnswerInv
<1>1. CASE pc[r] = "done"
  <2>1. AnswerOf(r) /\ answer'[r] = answer[r] /\ body'[r] = body[r] /\ key'[r] = key[r]
    BY <1>1, Stable DEF AnswerInv
  <2>2. ASSUME answer[r].code \in {"200", "201"} PROVE AnswerOf(r)'
    <3> DEFINE i == answer[r].of
    <3>1. i \in Existing(r)
      BY <2>1, <2>2 DEF AnswerOf, Existing
    <3>2. /\ i \in Existing(r)' /\ decidedBy'[i] = decidedBy[i] /\ body'[i] = body[i]
      BY <3>1, <1>1, ExistingStays
    <3> QED BY <2>1, <2>2, <3>1, <3>2 DEF AnswerOf, Existing
  <2>3. ASSUME answer[r].code = "409" PROVE AnswerOf(r)'
    <3>1. PICK i \in Existing(r) : ContentOf[body[i]] # ContentOf[body[r]]
      BY <2>1, <2>3 DEF AnswerOf
    <3>2. /\ i \in Existing(r)' /\ body'[i] = body[i]
      BY <1>1, ExistingStays
    <3> QED BY <2>1, <2>3, <3>1, <3>2 DEF AnswerOf
  <2> QED BY <2>1, <2>2, <2>3 DEF AnswerOf
<1>2. CASE pc[r] # "done"
  <2>1. pc[r] # "new"
    BY <1>2, NewAnswers
  <2>2. ASSUME NEW i \in Existing(r), SameHash(r, i), answer'[r] = Shown("200", i, decidedBy[i])
        PROVE AnswerOf(r)'
    <3>1. /\ i \in Existing(r)' /\ decidedBy'[i] = decidedBy[i]
          /\ body'[i] = body[i] /\ body'[r] = body[r]
      BY <2>1, ExistingStays
    <3> QED BY <2>2, <3>1 DEF AnswerOf, Shown, Existing, SameHash, RequestHash
  <2>3. ASSUME NEW i \in Existing(r), ~SameHash(r, i), answer'[r] = Bare("409")
        PROVE AnswerOf(r)'
    <3>1. /\ i \in Existing(r)'
          /\ body'[i] = body[i] /\ body'[r] = body[r]
      BY <2>1, ExistingStays
    <3> QED BY <2>3, <3>1 DEF AnswerOf, Bare, NoAnswer, SameHash, RequestHash
  <2>4. CASE row'[r] = "COMMITTED" /\ answer'[r] = Shown("201", r, decidedBy'[r])
    BY <2>4 DEF AnswerOf, Shown
  <2>5. CASE answer'[r] \in {Bare("500"), Bare("lost")}
    BY <2>5 DEF AnswerOf, Bare, NoAnswer
  <2> QED BY <1>2, <2>2, <2>3, <2>4, <2>5, NewAnswers
<1> QED BY <1>1, <1>2

(***************************************************************************)
(* The invariant                                                           *)
(***************************************************************************)

LEMMA InvInit == Init => IInv
<1> SUFFICES ASSUME Init PROVE IInv
  OBVIOUS
<1>1. TypeOK
  BY AnswerTypes DEF Init, TypeOK, Steps, RowStates
<1>2. StepInv /\ OneAssessmentPerKey /\ AnswerInv /\ RecoveryFinds
  BY DEF Init, StepInv, OneAssessmentPerKey, AnswerInv, RecoveryFinds
<1> QED BY <1>1, <1>2 DEF IInv

LEMMA InvStep == IInv /\ [Next]_vars => IInv'
  BY TypeStep, StepInvStep, OneStep, AnswerStep, RecoveryStep DEF IInv

THEOREM IntakeInvariant == Spec => []IInv
<1> QED BY InvInit, InvStep, PTL DEF Spec

(* Every variable keeps its type, and a row waits for its commit exactly   *)
(* while its request persists it.                                          *)
THEOREM IntakeTypeCorrect == Spec => []TypeOK
<1>1. IInv => TypeOK
  BY DEF IInv
<1> QED BY <1>1, IntakeInvariant, PTL

(* One idempotency key never yields two assessments, however many requests *)
(* race with it and fail (create_assessment).                              *)
THEOREM OneAssessmentEach == Spec => []OneAssessmentPerKey
<1>1. IInv => OneAssessmentPerKey
  BY DEF IInv
<1> QED BY <1>1, IntakeInvariant, PTL

(* Everyone who was shown an assessment for a key was shown the same one,  *)
(* decided by the same release (_replay).                                  *)
THEOREM AnswersAlwaysAgree == Spec => []AnswersAgree
<1>1. ASSUME IInv PROVE AnswersAgree
  <2> SUFFICES ASSUME NEW r \in Requests, NEW q \in Requests,
                      answer[r].code \in {"200", "201"}, answer[q].code \in {"200", "201"},
                      key[r] = key[q]
               PROVE  /\ answer[r].of = answer[q].of
                      /\ answer[r].rules = answer[q].rules
                      /\ ContentOf[body[r]] = ContentOf[body[q]]
    BY DEF AnswersAgree
  <2>1. pc[r] = "done" /\ pc[q] = "done"
    BY <1>1 DEF IInv, StepInv, NoAnswer
  <2>2. AnswerOf(r) /\ AnswerOf(q)
    BY <1>1, <2>1 DEF IInv, AnswerInv
  <2>3. answer[r].of = answer[q].of
    BY <1>1, <2>2 DEF IInv, OneAssessmentPerKey, AnswerOf
  <2> QED BY <2>2, <2>3 DEF AnswerOf
<1> QED BY <1>1, IntakeInvariant, PTL

(* What a client was shown is committed (the answer is built before).      *)
THEOREM ShownIsStored == Spec => []AnsweredIsStored
<1>1. ASSUME IInv PROVE AnsweredIsStored
  BY <1>1 DEF IInv, StepInv, NoAnswer, AnswerInv, AnswerOf, AnsweredIsStored
<1> QED BY <1>1, IntakeInvariant, PTL

(* A 409 means that the key is taken by a request of another meaning.      *)
THEOREM ConflictsAreReal == Spec => []ConflictIsReal
<1>1. ASSUME IInv PROVE ConflictIsReal
  BY <1>1 DEF IInv, StepInv, NoAnswer, AnswerInv, AnswerOf, ConflictIsReal
<1> QED BY <1>1, IntakeInvariant, PTL

(* The recovery after an IntegrityError always finds its assessment.       *)
THEOREM RecoverySucceeds == Spec => []RecoveryFinds
<1>1. IInv => RecoveryFinds
  BY DEF IInv
<1> QED BY <1>1, IntakeInvariant, PTL

(* Both together, as the run of the handler checks them.                   *)
THEOREM StepsFitTogether == Spec => []IntakeSound
<1>1. TypeOK /\ RecoveryFinds => IntakeSound
  BY DEF IntakeSound
<1> QED BY <1>1, IntakeTypeCorrect, RecoverySucceeds, PTL

(* What any client heard of create_assessment is true.                     *)
THEOREM RepliesAreTrue == Spec => []RepliesSound
<1>1. AnsweredIsStored /\ ConflictIsReal => RepliesSound
  BY DEF RepliesSound
<1> QED BY <1>1, ShownIsStored, ConflictsAreReal, PTL

(***************************************************************************)
(* The keyed store                                                         *)
(***************************************************************************)

LEMMA StoreInit == Init => S!Init
<1> SUFFICES ASSUME Init PROVE S!Init
  OBVIOUS
<1>1. Asked = [r \in Requests |-> S!NotAsked]
  BY DEF Init, Asked, S!NotAsked
<1>2. Stored = {}
  BY DEF Init, Stored
<1>3. answer = [r \in Requests |-> S!NoReply]
  BY DEF Init, NoAnswer, S!NoReply
<1> QED BY <1>1, <1>2, <1>3 DEF S!Init

(* Requests that were sent are asked for good.                             *)
LEMMA AskedStays ==
  ASSUME TypeOK, UNCHANGED <<key, body>>,
         \A r \in Requests : pc'[r] = "new" <=> pc[r] = "new"
  PROVE  Asked' = Asked
  BY DEF Asked

LEMMA StoredStays ==
  ASSUME TypeOK, StepInv, [Next]_vars,
         \A i \in Requests : row'[i] = "COMMITTED" => row[i] = "COMMITTED"
  PROVE  Stored' = Stored
<1>1. \A i \in Requests : row[i] = "COMMITTED" =>
        row'[i] = "COMMITTED" /\ Entry(i)' = Entry(i)
  BY Stable DEF Entry, StepInv
<1> QED BY <1>1 DEF Stored

LEMMA OpenRequest ==
  ASSUME TypeOK, StepInv, NEW r \in Requests, pc[r] \notin {"new", "done"}
  PROVE  /\ S!Open(r)
         /\ Asked[r].key = key[r] /\ Asked[r].content = ContentOf[body[r]]
<1>1. Asked[r] = [key |-> key[r], content |-> ContentOf[body[r]]]
  BY DEF Asked
<1>2. Asked[r] \in S!Asks
  BY <1>1, IntakeAssumption DEF TypeOK, S!Asks
<1>3. answer[r] = S!NoReply
  BY DEF StepInv, NoAnswer, S!NoReply
<1> QED BY <1>1, <1>2, <1>3 DEF S!Open

(* A replay shows the stored entry or refuses because of it.               *)
LEMMA ReplayShows ==
  ASSUME TypeOK, StepInv, [Next]_vars, NEW r \in Requests, NEW i \in Existing(r), Replay(r, i),
         pc[r] \in {"looking", "recovering"}, UNCHANGED <<key, body, row>>
  PROVE  S!Next
<1>1. i \in Requests /\ Entry(i) \in Stored /\ key[i] = key[r]
  BY DEF Existing, Stored
<1>2. Asked' = Asked
  BY AskedStays DEF Replay, Answer, TypeOK
<1>3. Stored' = Stored
  BY StoredStays
<1>4. /\ S!Open(r)
      /\ Asked[r].key = key[r] /\ Asked[r].content = ContentOf[body[r]]
  BY OpenRequest
<1>5. CASE SameHash(r, i)
  <2>1. answer' = [answer EXCEPT ![r] = S!Shown("200", Entry(i))]
    BY <1>1, <1>5, ReplayAnswers DEF Answer, Shown, S!Shown, Entry
  <2>2. S!Show(r, Entry(i))
    BY <1>1, <1>2, <1>3, <1>4, <1>5, <2>1 DEF S!Show, Entry, SameHash, RequestHash
  <2> QED BY <1>1, <2>2 DEF S!Next
<1>6. CASE ~SameHash(r, i)
  <2>1. answer' = [answer EXCEPT ![r] = S!Bare("409")]
    BY <1>1, <1>6, ReplayAnswers DEF Answer, Bare, NoAnswer, S!Bare, S!NoReply
  <2>2. S!Refuse(r, Entry(i))
    BY <1>1, <1>2, <1>3, <1>4, <1>6, <2>1 DEF S!Refuse, Entry, SameHash, RequestHash
  <2> QED BY <1>1, <2>2 DEF S!Next
<1> QED BY <1>5, <1>6

(* Requests that end together without a commit.                            *)
LEMMA FailShows ==
  ASSUME TypeOK, StepInv, [Next]_vars, NEW R \in SUBSET Requests, NEW code \in {"500", "lost"},
         \A r \in R : pc[r] \notin {"new", "done"},
         \A r \in Requests : pc'[r] = IF r \in R THEN "done" ELSE pc[r],
         answer' = [r \in Requests |-> IF r \in R THEN Bare(code) ELSE answer[r]],
         \A r \in Requests : row'[r] = "COMMITTED" => row[r] = "COMMITTED",
         UNCHANGED <<key, body>>
  PROVE  S!Next
<1>1. Asked' = Asked
  BY AskedStays
<1>2. Stored' = Stored
  BY StoredStays
<1>3. \A r \in R : S!Open(r)
  BY OpenRequest
<1>4. Bare(code) = S!Bare(code)
  BY DEF Bare, NoAnswer, S!Bare, S!NoReply
<1>5. S!Fail(R, code)
  BY <1>1, <1>2, <1>3, <1>4 DEF S!Fail
<1> QED BY <1>5 DEF S!Next

LEMMA CommitCreates ==
  ASSUME TypeOK, StepInv, OneAssessmentPerKey, [Next]_vars, NEW r \in Requests, Commit(r)
  PROVE  S!Next
<1> DEFINE e == [id |-> r, key |-> Asked[r].key, content |-> Asked[r].content,
                 rules |-> decidedBy[r]]
<1>1. /\ pc[r] = "persisting"
      /\ row' = [row EXCEPT ![r] = "COMMITTED"]
      /\ pc' = [pc EXCEPT ![r] = "done"]
      /\ UNCHANGED <<key, body, decidedBy>>
  BY DEF Commit, Committed, Answer
<1>2. row[r] = "INSERTED" /\ decidedBy[r] \in Rules
  BY <1>1 DEF TypeOK, StepInv
<1>3. /\ S!Open(r)
      /\ Asked[r].key = key[r] /\ Asked[r].content = ContentOf[body[r]]
  BY <1>1, OpenRequest
<1>4. e = Entry(r)
  BY <1>3 DEF Entry
<1>5. Asked' = Asked
  BY <1>1, AskedStays DEF TypeOK
<1>6. Stored' = Stored \cup {e}
  <2>1. \A i \in Requests : Entry(i)' = Entry(i)
    BY <1>1 DEF Entry
  <2>2. \A i \in Requests : row'[i] = "COMMITTED" <=> row[i] = "COMMITTED" \/ i = r
    BY <1>1 DEF TypeOK
  <2> QED BY <1>4, <2>1, <2>2 DEF Stored
<1>7. ASSUME NEW f \in Stored PROVE f.key # e.key
  <2>1. PICK i \in Requests : row[i] = "COMMITTED" /\ f = Entry(i)
    BY DEF Stored
  <2>2. key[i] # key[r]
    BY <1>2, <2>1 DEF OneAssessmentPerKey
  <2> QED BY <1>3, <2>1, <2>2 DEF Entry
<1>8. \/ answer' = [answer EXCEPT ![r] = S!Shown("201", e)]
      \/ \E code \in {"500", "lost"} : answer' = [answer EXCEPT ![r] = S!Bare(code)]
  BY DEF Commit, Answer, Shown, S!Shown, Bare, NoAnswer, S!Bare, S!NoReply
<1>9. S!Create(r, decidedBy[r])
  BY <1>3, <1>5, <1>6, <1>7, <1>8 DEF S!Create
<1> QED BY <1>2, <1>9 DEF S!Next

LEMMA StoreStep ==
  ASSUME IInv, [Next]_vars
  PROVE  [S!Next]_(S!vars)
<1> DEFINE Stutter == UNCHANGED S!vars
<1>a. TypeOK /\ StepInv /\ OneAssessmentPerKey
  BY DEF IInv
<1>1. ASSUME NEW r \in Requests, NEW k \in Keys, NEW b \in Bodies, Send(r, k, b) PROVE S!Next
  <2> DEFINE a == [key |-> k, content |-> ContentOf[b]]
  <2>1. a \in S!Asks
    BY IntakeAssumption DEF S!Asks
  <2>2. Asked' = [Asked EXCEPT ![r] = a]
    BY <1>1, <1>a DEF Send, Asked, TypeOK
  <2>3. Asked[r] = S!NotAsked
    BY <1>1 DEF Send, Asked, S!NotAsked
  <2>4. Stored' = Stored
    BY <1>1, <1>a, StoredStays DEF Send
  <2>5. S!Ask(r, a)
    BY <1>1, <2>2, <2>3, <2>4 DEF S!Ask, Send
  <2> QED BY <2>1, <2>5 DEF S!Next
<1>2. ASSUME NEW r \in Requests, pc[r] # "new", pc'[r] # "new",
             pc' = [pc EXCEPT ![r] = pc'[r]], UNCHANGED <<key, body, answer>>,
             \A i \in Requests : row'[i] = "COMMITTED" => row[i] = "COMMITTED"
      PROVE Stutter
  <2>1. Asked' = Asked
    BY <1>2, <1>a, AskedStays DEF TypeOK
  <2>2. Stored' = Stored
    BY <1>2, <1>a, StoredStays
  <2> QED BY <1>2, <2>1, <2>2 DEF S!vars
<1>3. ASSUME NEW r \in Requests, LookUp(r) PROVE S!Next \/ Stutter
  <2>1. CASE \E i \in Existing(r) : Replay(r, i)
    BY <1>3, <1>a, <2>1, ReplayShows DEF LookUp
  <2>2. CASE pc' = [pc EXCEPT ![r] = "inserting"] /\ UNCHANGED answer
    BY <1>3, <1>2, <1>a, <2>2 DEF LookUp, TypeOK
  <2> QED BY <1>3, <2>1, <2>2 DEF LookUp
<1>4. ASSUME NEW r \in Requests, Insert(r) \/ InsertRefused(r) PROVE Stutter
  BY <1>4, <1>2, <1>a DEF Insert, InsertRefused, TypeOK
<1>5. ASSUME NEW r \in Requests, Commit(r) PROVE S!Next
  BY <1>5, <1>a, CommitCreates
<1>6. ASSUME NEW r \in Requests, pc[r] \notin {"new", "done"}, Answer(r, Bare("500")),
             UNCHANGED <<key, body>>,
             \A i \in Requests : row'[i] = "COMMITTED" => row[i] = "COMMITTED"
      PROVE S!Next
  <2>1. \A q \in Requests : pc'[q] = IF q \in {r} THEN "done" ELSE pc[q]
    BY <1>6, <1>a DEF Answer, TypeOK
  <2>2. answer' = [q \in Requests |-> IF q \in {r} THEN Bare("500") ELSE answer[q]]
    BY <1>6, <1>a DEF Answer, TypeOK
  <2> QED BY <1>6, <1>a, <2>1, <2>2, FailShows
<1>7. ASSUME NEW r \in Requests, Recover(r) PROVE S!Next
  <2>1. CASE \E i \in Existing(r) : Replay(r, i)
    BY <1>7, <1>a, <2>1, ReplayShows DEF Recover
  <2>2. CASE Answer(r, Bare("500"))
    BY <1>7, <1>6, <2>2 DEF Recover
  <2> QED BY <1>7, <2>1, <2>2 DEF Recover
<1>8. ASSUME NEW r \in Requests, Fail(r) PROVE S!Next
  BY <1>8, <1>6, <1>a DEF Fail, RolledBack, TypeOK
<1>9. ASSUME Restart PROVE S!Next
  <2> DEFINE open == {r \in Requests : pc[r] \notin {"new", "done"}}
  <2>1. /\ \A r \in Requests : pc'[r] = IF r \in open THEN "done" ELSE pc[r]
        /\ answer' = [r \in Requests |-> IF r \in open THEN Bare("lost") ELSE answer[r]]
        /\ \A r \in Requests : row'[r] = "COMMITTED" => row[r] = "COMMITTED"
        /\ UNCHANGED <<key, body>>
    BY <1>9 DEF Restart, RolledBack
  <2> HIDE DEF open
  <2>2. open \in SUBSET Requests /\ \A r \in open : pc[r] \notin {"new", "done"}
    BY DEF open
  <2> QED BY <1>a, <2>1, <2>2, FailShows
<1>10. ASSUME UNCHANGED vars PROVE Stutter
  BY <1>10 DEF vars, S!vars, Asked, Stored, Entry
<1> HIDE DEF Stutter
<1>11. S!Next \/ Stutter
  BY <1>1, <1>3, <1>4, <1>5, <1>7, <1>8, <1>9, <1>10 DEF Next, Handle
<1> QED BY <1>11 DEF Stutter

(* POST /assessments is a keyed store: the first success of a key stores   *)
(* its entry, later requests are shown it or refused.                      *)
THEOREM IntakeImplementsStore == Spec => StoreRefined
<1>1. Init => S!Init
  BY StoreInit
<1>2. IInv /\ [Next]_vars => [S!Next]_(S!vars)
  BY StoreStep
<1> QED BY <1>1, <1>2, IntakeInvariant, PTL DEF Spec, StoreRefined, S!Spec

=============================================================================
