------------------------ MODULE ExplanationRunsProofs ------------------------
(***************************************************************************)
(* Theorems about ExplanationRuns, for any sets of workers, callers,       *)
(* assessments and runs and any bound on claims; EndedForGood and          *)
(* AnswersShowEndedRuns are about deployments without a worker.            *)
(*                                                                         *)
(* The invariant IInv is inductive.  Its parts: what the rows owe one      *)
(* another (RowInv), what started_at marks tell (StampInv), where an       *)
(* executor's locals point (JobInv), what a caller's request has recorded  *)
(* so far (CallerInv), and the properties themselves.  StampInv is the     *)
(* heart: the mark of a RUNNING row is nobody else's and nothing has been  *)
(* recorded under it, so the fence of _finish admits one result per claim  *)
(* whichever executor passes it.                                           *)
(***************************************************************************)
EXTENDS ExplanationRuns, TLAPS

RowInv ==
    \A r \in Runs :
        /\ runStatus[r] = "ABSENT" <=> owner[r] = NoCase
        /\ owner[r] = NoCase =>
            /\ evalResult[r] = "NONE" /\ errorCode[r] = "NONE" /\ startedAt[r] = 0
            /\ requested[r] = 0
        /\ owner[r] # NoCase => caseStatus[owner[r]] # "ABSENT"
        /\ evalResult[r] = "NONE" => explanationText[r] = 0

StampInv ==
    /\ \A r \in Runs : startedAt[r] <= lastStamp
    /\ \A r, q \in Runs : startedAt[r] = startedAt[q] => startedAt[r] = 0 \/ r = q
    /\ \A s \in Stamps : s > lastStamp => recordedBy[s] = {}
    /\ \A r \in Runs : runStatus[r] = "RUNNING" =>
        startedAt[r] \in Stamps /\ recordedBy[startedAt[r]] = {}

LocalsOf(p) ==
    /\ pc[p] \in {"claimed", "generating", "rereading"} =>
        job[p] \in Runs /\ stamp[p] \in Stamps /\ owner[job[p]] # NoCase
    /\ pc[p] \in {"inserting", "enqueuing"} =>
        target[p] \in Cases /\ caseStatus[target[p]] # "ABSENT"
    /\ \A r \in snapshot[p] : owner[r] # NoCase
JobInv == \A p \in Procs : LocalsOf(p)

(* v has recorded a result under the mark it holds.                        *)
Recorded(v) == mark[v] # 0 /\ v \in recordedBy[mark[v]]

CallerOf(v) ==
    /\ stamp[v] <= lastStamp
    /\ pc[v] # "idle" => answer[v].code = "none"
    /\ pc[v] \in {"inserting", "enqueuing"} => mark[v] = 0
    /\ pc[v] \in {"claimed", "generating"} =>
        \A s \in Stamps : s >= stamp[v] => v \notin recordedBy[s]
    /\ pc[v] = "claimed" => startedAt[job[v]] = 0 \/ startedAt[job[v]] >= stamp[v]
    /\ pc[v] = "generating" => mark[v] = 0 \/ mark[v] >= stamp[v]
    /\ pc[v] = "rereading" => Recorded(v)
    /\ answer[v].code \in {"200", "503"} => Recorded(v)
    /\ answer[v].code \in {"404", "409"} => ~Recorded(v)
CallerInv == \A v \in Callers : CallerOf(v)

TableInv ==
    /\ TypeOK /\ RowInv /\ StampInv /\ JobInv
    /\ PublicationGate /\ OneInFlightPerCase /\ OneRecordPerClaim
    /\ EndedByLatestClaim /\ EveryClaimAccounted /\ CaseStatusWitnessed

IInv == TableInv /\ CallerInv

(***************************************************************************)
(* What a step does to the tables, whoever takes it                        *)
(***************************************************************************)

Quiet == UNCHANGED <<caseVars, runVars, evalResult, auditVars, lastStamp, history>>

(* The keyless POST inserts a row.                                         *)
EnqueueRow(v, r) ==
    /\ pc[v] = "enqueuing"
    /\ runStatus[r] = "ABSENT"
    /\ UniqueInFlight([runStatus EXCEPT ![r] = "PENDING"], [owner EXCEPT ![r] = target[v]])
    /\ InsertRow(r, target[v])
    /\ runStatus' = [runStatus EXCEPT ![r] = "PENDING"]
    /\ UNCHANGED <<caseVars, startedAt, errorCode, explanationText, evalResult, reclaimed,
                   finished, lastStamp, history>>

(* A visitor inserts a row and claims it.                                  *)
InsertRun(v, r) ==
    /\ pc[v] = "inserting"
    /\ runStatus[r] = "ABSENT"
    /\ UniqueInFlight([runStatus EXCEPT ![r] = "PENDING"], [owner EXCEPT ![r] = target[v]])
    /\ InsertRow(r, target[v])
    /\ Claim(v, r)
    /\ UNCHANGED <<caseVars, errorCode, explanationText, evalResult, reclaimed, finished>>

(* A worker or a visitor claims a row that is in flight.                   *)
TakeUp(p, r) ==
    /\ runStatus[r] \in {"PENDING", "RUNNING"}
    /\ Claim(p, r)
    /\ TakeoverEvent(r)
    /\ UNCHANGED <<caseVars, owner, errorCode, explanationText, evalResult>>

(* reclaim_stale commits.                                                  *)
Reopen(w) ==
    /\ UniqueInFlight(Reopened(w), owner)
    /\ runStatus' = Reopened(w)
    /\ startedAt' = [r \in Runs |-> IF r \in snapshot[w] THEN 0 ELSE startedAt[r]]
    /\ reclaimed' = [r \in Runs |->
                       IF r \in snapshot[w] THEN reclaimed[r] + 1 ELSE reclaimed[r]]
    /\ UNCHANGED <<caseVars, owner, errorCode, explanationText, evalResult, requested,
                   finished, lastStamp, history>>

(* Every step has one of these effects on the tables.                      *)
LEMMA StepEffects ==
  ASSUME TypeOK, [Next]_vars
  PROVE  \/ Quiet
         \/ \E c \in Cases : CreateAssessment(c)
         \/ \E v \in Callers, r \in Runs : EnqueueRow(v, r) \/ InsertRun(v, r)
         \/ \E p \in Procs, r \in Runs : TakeUp(p, r)
         \/ \E w \in Workers : Reopen(w)
         \/ \E p \in Procs, code \in ErrorCodes : FinishFailed(p, code)
         \/ \E p \in Procs, outcome \in {"PASSED", "REJECTED"} : FinishScored(p, outcome)
<1> DEFINE Goal ==
         \/ Quiet
         \/ \E c \in Cases : CreateAssessment(c)
         \/ \E v \in Callers, r \in Runs : EnqueueRow(v, r) \/ InsertRun(v, r)
         \/ \E p \in Procs, r \in Runs : TakeUp(p, r)
         \/ \E w \in Workers : Reopen(w)
         \/ \E p \in Procs, code \in ErrorCodes : FinishFailed(p, code)
         \/ \E p \in Procs, outcome \in {"PASSED", "REJECTED"} : FinishScored(p, outcome)
<1> USE DEF caseVars, runVars, auditVars, clockVars, procVars, history
<1>1. ASSUME NEW w \in Workers, ReclaimSelect(w) \/ NothingPending(w) \/ Crash(w) \/ StartWorker(w)
      PROVE Quiet
  BY <1>1 DEF Quiet, ReclaimSelect, NothingPending, Crash, StartWorker
<1>2. ASSUME NEW w \in Workers, ReclaimCommit(w) PROVE Goal
  BY <1>2 DEF Quiet, ReclaimCommit, Reopen
<1>3. ASSUME NEW w \in Workers, ClaimOne(w) PROVE Goal
  <2>1. PICK r \in Runs : runStatus[r] = "PENDING" /\ Claim(w, r)
    BY <1>3 DEF ClaimOne
  <2>2. TakeUp(w, r)
    BY <1>3, <2>1 DEF ClaimOne, TakeUp, TakeoverEvent
  <2> QED BY <2>2 DEF Procs
<1>4. ASSUME NEW v \in Callers, NEW c \in Cases, VisitorClaim(v, c) PROVE Goal
  <2>1. CASE UNCHANGED <<caseVars, runVars, evalResult, auditVars, clockVars, history>>
    BY <2>1 DEF Quiet
  <2>2. ASSUME NEW r \in InFlightOf(c), Claim(v, r), TakeoverEvent(r),
               UNCHANGED <<caseVars, owner, errorCode, explanationText, evalResult>>
        PROVE Goal
    <3>1. r \in Runs /\ TakeUp(v, r)
      BY <2>2 DEF TakeUp, InFlightOf, InFlightStatuses
    <3> QED BY <3>1 DEF Procs
  <2> QED BY <1>4, <2>1, <2>2 DEF VisitorClaim, Refuse, Begin
<1>5. ASSUME NEW v \in Callers, VisitorInsert(v) PROVE Goal
  <2>1. PICK r \in Runs : InsertRun(v, r) \/ Quiet
    BY <1>5 DEF VisitorInsert, InsertRun, Quiet
  <2> QED BY <2>1
<1>6. ASSUME NEW v \in Callers, NEW c \in Cases, EnqueueCheck(v, c) PROVE Quiet
  BY <1>6 DEF EnqueueCheck, Refuse, Quiet
<1>7. ASSUME NEW v \in Callers, EnqueueInsert(v) PROVE Goal
  <2>1. PICK r \in Runs : EnqueueRow(v, r) \/ Quiet
    BY <1>7 DEF EnqueueInsert, EnqueueRow, Quiet
  <2> QED BY <2>1
<1>8. ASSUME NEW p \in Procs, ReadMark(p) \/ FinishDuplicate(p) \/ FinishDiscarded(p) PROVE Quiet
  BY <1>8 DEF ReadMark, FinishDuplicate, FinishDiscarded, Quiet
<1>9. ASSUME NEW v \in Callers, Respond(v) \/ LoseRequest(v) \/ DatabaseFails(v) PROVE Quiet
  BY <1>9 DEF Respond, LoseRequest, DatabaseFails, Quiet, clockVars
<1>10. ASSUME Tick \/ UNCHANGED vars PROVE Quiet
  BY <1>10 DEF Tick, Quiet, vars
<1> HIDE DEF Goal
<1>11. Goal
  <2>1. \A w \in Workers : w \in Procs
    BY DEF Procs
  <2>2. \A v \in Callers : v \in Procs
    BY DEF Procs
  <2>3. ASSUME NEW p \in Procs, Finish(p) PROVE Goal
    BY <2>3, <1>8 DEF Finish, Goal
  <2>4. Quiet => Goal
    BY DEF Goal
  <2>5. \A c \in Cases : CreateAssessment(c) => Goal
    BY DEF Goal
  <2>6. ASSUME NEW w \in Workers, WorkerStep(w) \/ Crash(w) \/ StartWorker(w) PROVE Goal
    BY <2>6, <2>1, <2>3, <2>4, <1>1, <1>2, <1>3, <1>8 DEF WorkerStep
  <2>7. ASSUME NEW v \in Callers, NewRequest(v) \/ CallerStep(v) \/ LoseRequest(v)
                                   \/ DatabaseFails(v) PROVE Goal
    BY <2>7, <2>2, <2>3, <2>4, <1>4, <1>5, <1>6, <1>7, <1>8, <1>9 DEF NewRequest, CallerStep
  <2> QED
    BY <2>4, <2>5, <2>6, <2>7, <1>10 DEF Next
<1> QED BY <1>11 DEF Goal

(***************************************************************************)
(* Types                                                                   *)
(***************************************************************************)

(* Counting up at any index leaves a function into Nat.                    *)
LEMMA CountUp ==
  ASSUME NEW S, NEW f \in [S -> Nat], NEW x
  PROVE  [f EXCEPT ![x] = @ + 1] \in [S -> Nat]
<1>1. CASE x \in S
  BY <1>1
<1>2. CASE x \notin S
  <2>1. [f EXCEPT ![x] = @ + 1] = f
    BY <1>2
  <2> QED BY <2>1
<1> QED BY <1>1, <1>2

LEMMA TypeInit == Init => TypeOK
<1> SUFFICES ASSUME Init PROVE TypeOK
  OBVIOUS
<1>1. TableTypes
  BY ConstantsAssumption DEF Init, TableTypes, CaseStatuses, RunStatuses
<1>2. AuditTypes
  BY DEF Init, AuditTypes
<1>3. ProcTypes
  <2>1. pc \in [Procs -> WorkerSteps \cup CallerSteps]
    BY DEF Init, WorkerSteps, CallerSteps
  <2>2. NoAnswer \in Answers
    BY DEF Answers, NoAnswer, RunStatuses
  <2> QED BY <2>1, <2>2, ConstantsAssumption DEF Init, ProcTypes
<1>4. HistoryTypes
  BY ConstantsAssumption DEF Init, HistoryTypes, Stamps
<1> QED BY <1>1, <1>2, <1>3, <1>4 DEF TypeOK

(* The columns a claim writes.                                             *)
LEMMA ClaimTypes ==
  ASSUME TypeOK, NEW p \in Procs, NEW r \in Runs, Claim(p, r)
  PROVE  /\ runStatus' \in [Runs -> RunStatuses]
         /\ startedAt' \in [Runs -> 0..MaxClaims]
         /\ lastStamp' \in 0..MaxClaims
         /\ claims' \in [Runs -> Nat]
         /\ claimant' \in [Stamps -> SUBSET Procs]
         /\ recordedBy' \in [Stamps -> SUBSET Procs]
         /\ pc' \in [Procs -> WorkerSteps \cup CallerSteps]
         /\ job' \in [Procs -> Runs \cup {NoRun}]
         /\ stamp' \in [Procs -> 0..MaxClaims]
         /\ mark' \in [Procs -> 0..MaxClaims]
<1>1. lastStamp' \in 0..MaxClaims
  BY ConstantsAssumption DEF Claim, TypeOK, HistoryTypes
<1>2. runStatus' \in [Runs -> RunStatuses] /\ startedAt' \in [Runs -> 0..MaxClaims]
  BY <1>1 DEF Claim, TypeOK, TableTypes, RunStatuses, InFlightStatuses
<1>3. /\ claims' \in [Runs -> Nat]
      /\ claimant' \in [Stamps -> SUBSET Procs]
      /\ recordedBy' \in [Stamps -> SUBSET Procs]
  <2>1. claims' \in [Runs -> Nat]
    BY DEF Claim, TypeOK, HistoryTypes
  <2>2. {p} \in SUBSET Procs
    OBVIOUS
  <2> QED BY <2>1, <2>2 DEF Claim, TypeOK, HistoryTypes
<1>4. /\ pc' \in [Procs -> WorkerSteps \cup CallerSteps]
      /\ job' \in [Procs -> Runs \cup {NoRun}]
      /\ stamp' \in [Procs -> 0..MaxClaims]
      /\ mark' \in [Procs -> 0..MaxClaims]
  BY <1>1, ConstantsAssumption DEF Claim, TypeOK, ProcTypes, WorkerSteps
<1> QED BY <1>1, <1>2, <1>3, <1>4

LEMMA TableTypesStep ==
  ASSUME TypeOK, [Next]_vars
  PROVE  TableTypes' /\ AuditTypes' /\ (lastStamp \in 0..MaxClaims)'
         /\ (claims \in [Runs -> Nat])' /\ (claimant \in [Stamps -> SUBSET Procs])'
         /\ (recordedBy \in [Stamps -> SUBSET Procs])'
<1> DEFINE Goal == /\ TableTypes /\ AuditTypes /\ lastStamp \in 0..MaxClaims
                   /\ claims \in [Runs -> Nat] /\ claimant \in [Stamps -> SUBSET Procs]
                   /\ recordedBy \in [Stamps -> SUBSET Procs]
<1> USE DEF TypeOK, TableTypes, AuditTypes, HistoryTypes, caseVars, runVars, auditVars,
        clockVars, history
<1>1. CASE Quiet
  BY <1>1 DEF Quiet
<1>2. ASSUME NEW c \in Cases, CreateAssessment(c) PROVE Goal'
  BY <1>2 DEF CreateAssessment, InsertRow, RunStatuses, InFlightStatuses, CaseStatuses
<1>3. ASSUME NEW v \in Callers, NEW r \in Runs, EnqueueRow(v, r) PROVE Goal'
  BY <1>3 DEF EnqueueRow, InsertRow, RunStatuses, InFlightStatuses, ProcTypes, Procs
<1>4. ASSUME NEW v \in Callers, NEW r \in Runs, InsertRun(v, r) PROVE Goal'
  <2>1. v \in Procs /\ Claim(v, r)
    BY <1>4 DEF InsertRun, Procs
  <2> QED BY <1>4, <2>1, ClaimTypes DEF InsertRun, InsertRow, ProcTypes
<1>5. ASSUME NEW p \in Procs, NEW r \in Runs, TakeUp(p, r) PROVE Goal'
  <2>1. Claim(p, r)
    BY <1>5 DEF TakeUp
  <2> QED BY <1>5, <2>1, ClaimTypes DEF TakeUp, TakeoverEvent
<1>6. ASSUME NEW w \in Workers, Reopen(w) PROVE Goal'
  BY <1>6, ConstantsAssumption DEF Reopen, Reopened, RunStatuses, InFlightStatuses
<1>7. ASSUME NEW p \in Procs, NEW code \in ErrorCodes, FinishFailed(p, code) PROVE Goal'
  <2>1. RunStatusAfter(code) \in RunStatuses /\ CaseStatusAfter(code) \in CaseStatuses
    BY DEF RunStatusAfter, CaseStatusAfter, RunStatuses, FinalStatuses, CaseStatuses, ErrorCodes
  <2>2. recordedBy' \in [Stamps -> SUBSET Procs]
    BY <1>7 DEF FinishFailed, Record
  <2>3. finished' \in [Runs -> Nat]
    BY <1>7, CountUp DEF FinishFailed, Record
  <2>4. /\ runStatus' \in [Runs -> RunStatuses]
        /\ caseStatus' \in [Cases -> CaseStatuses]
    BY <1>7, <2>1 DEF FinishFailed, Record
  <2>5. errorCode' \in [Runs -> ErrorCodes \cup {"NONE"}]
    BY <1>7 DEF FinishFailed
  <2> QED BY <1>7, <2>2, <2>3, <2>4, <2>5 DEF FinishFailed, Record
<1>8. ASSUME NEW p \in Procs, NEW outcome \in {"PASSED", "REJECTED"}, FinishScored(p, outcome)
      PROVE Goal'
  <2>1. RunStatusAfter(outcome) \in RunStatuses /\ CaseStatusAfter(outcome) \in CaseStatuses
    BY DEF RunStatusAfter, CaseStatusAfter, RunStatuses, FinalStatuses, CaseStatuses
  <2>2. recordedBy' \in [Stamps -> SUBSET Procs]
    BY <1>8 DEF FinishScored, Record
  <2>3. /\ explanationText' \in [Runs -> 0..MaxClaims]
        /\ current' \in [Cases -> Runs \cup {NoRun}]
    <3>1. job[p] \in Runs \cup {NoRun} /\ stamp[p] \in 0..MaxClaims
      BY DEF ProcTypes
    <3>2. CASE Publishable(outcome)
      BY <1>8, <3>1, <3>2 DEF FinishScored
    <3>3. CASE ~Publishable(outcome)
      BY <1>8, <3>3 DEF FinishScored
    <3> QED BY <3>2, <3>3
  <2>4. /\ evalResult' \in [Runs -> {"NONE", "PASSED", "REJECTED"}]
        /\ runStatus' \in [Runs -> RunStatuses]
        /\ caseStatus' \in [Cases -> CaseStatuses]
    BY <1>8, <2>1 DEF FinishScored, Record
  <2>5. finished' \in [Runs -> Nat]
    BY <1>8, CountUp DEF FinishScored, Record
  <2> QED BY <1>8, <2>2, <2>3, <2>4, <2>5 DEF FinishScored, Record
<1> HIDE DEF TypeOK
<1>9. Goal'
  BY StepEffects, <1>1, <1>2, <1>3, <1>4, <1>5, <1>6, <1>7, <1>8
<1> QED BY <1>9

LEMMA ProcTypesStep ==
  ASSUME TypeOK, JobInv, [Next]_vars
  PROVE  ProcTypes' /\ (cutoff \in Nat)'
<1> DEFINE Goal == ProcTypes /\ cutoff \in Nat
<1>a. /\ pc \in [Procs -> WorkerSteps \cup CallerSteps]
      /\ target \in [Procs -> Cases \cup {NoCase}]
      /\ job \in [Procs -> Runs \cup {NoRun}]
      /\ stamp \in [Procs -> 0..MaxClaims]
      /\ mark \in [Procs -> 0..MaxClaims]
      /\ snapshot \in [Procs -> SUBSET Runs]
      /\ answer \in [Procs -> Answers]
      /\ cutoff \in Nat
      /\ MaxClaims \in Nat
  BY ConstantsAssumption DEF TypeOK, ProcTypes, HistoryTypes
<1>b. \A code \in {"none", "200", "201", "404", "409", "500", "503"} :
        [NoAnswer EXCEPT !.code = code] \in Answers
  BY DEF NoAnswer, Answers, RunStatuses
<1>c. NoAnswer \in Answers
  BY DEF NoAnswer, Answers, RunStatuses
<1>d. ASSUME NEW p \in Procs, NEW step \in WorkerSteps \cup CallerSteps,
             NEW code \in {"none", "200", "201", "404", "409", "500", "503"},
             Leave(p, step, code)
      PROVE  /\ pc' \in [Procs -> WorkerSteps \cup CallerSteps]
             /\ job' \in [Procs -> Runs \cup {NoRun}]
             /\ stamp' \in [Procs -> 0..MaxClaims]
             /\ mark' \in [Procs -> 0..MaxClaims]
             /\ answer' \in [Procs -> Answers]
  BY <1>a, <1>b, <1>d DEF Leave, Reply, CallerSteps
<1>e. ASSUME NEW p \in Procs, NEW outcome, Proceed(p, outcome)
      PROVE  /\ pc' \in [Procs -> WorkerSteps \cup CallerSteps]
             /\ job' \in [Procs -> Runs \cup {NoRun}]
             /\ stamp' \in [Procs -> 0..MaxClaims]
             /\ mark' \in [Procs -> 0..MaxClaims]
             /\ answer' \in [Procs -> Answers]
  <2>1. CASE ReadAgain(p)
    BY <2>1, <1>a DEF ReadAgain, CallerSteps
  <2>2. CASE \E code \in {"503", "500"} : Leave(p, "reclaim", code)
    BY <2>2, <1>d DEF WorkerSteps
  <2> QED BY <1>e, <2>1, <2>2 DEF Proceed
<1> USE DEF ProcTypes, caseVars, runVars, auditVars, clockVars, procVars, history
<1>1. ASSUME NEW c \in Cases, CreateAssessment(c) PROVE Goal'
  BY <1>a, <1>1 DEF CreateAssessment
<1>2. ASSUME NEW w \in Workers, ReclaimSelect(w) \/ NothingPending(w) \/ StartWorker(w)
      PROVE Goal'
  BY <1>a, <1>2 DEF ReclaimSelect, NothingPending, StartWorker, WorkerSteps, Procs
<1>3. ASSUME NEW w \in Workers, ReclaimCommit(w) PROVE Goal'
  BY <1>a, <1>3 DEF ReclaimCommit, WorkerSteps
<1>4. ASSUME NEW w \in Workers, ClaimOne(w) PROVE Goal'
  <2>1. PICK r \in Runs : Claim(w, r)
    BY <1>4 DEF ClaimOne
  <2>2. w \in Procs
    BY DEF Procs
  <2> QED BY <1>a, <1>4, <2>1, <2>2, ClaimTypes DEF ClaimOne
<1>5. ASSUME NEW v \in Callers, NEW c \in Cases, VisitorClaim(v, c) PROVE Goal'
  <2>1. v \in Procs
    BY DEF Procs
  <2>2. CASE Refuse(v, c)
    BY <1>a, <1>b, <2>1, <2>2, ConstantsAssumption DEF Refuse, Reply, CallerSteps
  <2>3. CASE Begin(v, c, "inserting") /\ UNCHANGED <<stamp, snapshot, clockVars>>
    BY <1>a, <1>c, <2>1, <2>3 DEF Begin, CallerSteps
  <2>4. ASSUME NEW r \in Runs, Claim(v, r), target' = [target EXCEPT ![v] = c],
               answer' = [answer EXCEPT ![v] = NoAnswer], UNCHANGED <<cutoff, snapshot>>
        PROVE Goal'
    BY <1>a, <1>c, <2>1, <2>4, ClaimTypes
  <2> QED BY <1>5, <2>2, <2>3, <2>4 DEF VisitorClaim, InFlightOf
<1>6. ASSUME NEW v \in Callers, VisitorInsert(v) PROVE Goal'
  <2>1. v \in Procs
    BY DEF Procs
  <2>2. CASE Reply(v, "500") /\ UNCHANGED <<clockVars, target, job, stamp, mark, snapshot>>
    BY <1>a, <1>b, <2>1, <2>2 DEF Reply, CallerSteps
  <2>3. ASSUME NEW r \in Runs, Claim(v, r), UNCHANGED <<cutoff, answer, target, snapshot>>
        PROVE Goal'
    BY <1>a, <2>1, <2>3, ClaimTypes
  <2> QED BY <1>6, <2>2, <2>3 DEF VisitorInsert
<1>7. ASSUME NEW v \in Callers, NEW c \in Cases, EnqueueCheck(v, c) PROVE Goal'
  <2>1. v \in Procs
    BY DEF Procs
  <2>2. CASE Refuse(v, c)
    BY <1>a, <1>b, <2>1, <2>2, ConstantsAssumption DEF Refuse, Reply, CallerSteps
  <2>3. CASE Begin(v, c, "enqueuing") /\ UNCHANGED <<stamp, snapshot, clockVars>>
    BY <1>a, <1>c, <2>1, <2>3 DEF Begin, CallerSteps
  <2> QED BY <1>7, <2>2, <2>3 DEF EnqueueCheck
<1>8. ASSUME NEW v \in Callers, EnqueueInsert(v) PROVE Goal'
  BY <1>a, <1>b, <1>8 DEF EnqueueInsert, Reply, CallerSteps
<1>9. ASSUME NEW w \in Workers, Crash(w) PROVE Goal'
  <2>1. Leave(w, "down", "none") /\ w \in Procs
    BY <1>9 DEF Crash, Procs
  <2> QED BY <1>a, <1>d, <1>9, <2>1 DEF Crash, WorkerSteps
<1>10. ASSUME NEW p \in Procs, ReadMark(p) PROVE Goal'
  <2>1. job[p] \in Runs
    BY <1>10 DEF ReadMark, JobInv, LocalsOf
  <2>2. startedAt[job[p]] \in 0..MaxClaims
    BY <2>1 DEF TypeOK, TableTypes
  <2> QED BY <1>a, <1>10, <2>2 DEF ReadMark, WorkerSteps
<1>11. ASSUME NEW p \in Procs, FinishDuplicate(p) \/ FinishDiscarded(p) PROVE Goal'
  <2>1. Leave(p, "down", "500") \/ Leave(p, "reclaim", "409")
    BY <1>11 DEF FinishDuplicate, FinishDiscarded, Dropped
  <2> QED BY <1>a, <1>d, <1>11, <2>1 DEF FinishDuplicate, FinishDiscarded, WorkerSteps
<1>12. ASSUME NEW p \in Procs, NEW code \in ErrorCodes, FinishFailed(p, code) PROVE Goal'
  BY <1>a, <1>e, <1>12 DEF FinishFailed, Record
<1>13. ASSUME NEW p \in Procs, NEW outcome \in {"PASSED", "REJECTED"}, FinishScored(p, outcome)
       PROVE Goal'
  BY <1>a, <1>e, <1>13 DEF FinishScored, Record
<1>14. ASSUME NEW v \in Callers, Respond(v) PROVE Goal'
  <2>1. v \in Procs
    BY DEF Procs
  <2>2. job[v] \in Runs
    BY <1>14, <2>1 DEF Respond, JobInv, LocalsOf
  <2>3. [code |-> "200", shows |-> runStatus[job[v]]] \in Answers
    BY <2>2 DEF TypeOK, TableTypes, Answers
  <2> QED BY <1>a, <1>14, <2>1, <2>3 DEF Respond, CallerSteps
<1>15. ASSUME NEW v \in Callers, LoseRequest(v) PROVE Goal'
  BY <1>a, <1>15 DEF LoseRequest, CallerSteps
<1>19. ASSUME NEW v \in Callers, DatabaseFails(v) PROVE Goal'
  <2>1. v \in Procs
    BY DEF Procs
  <2> QED BY <1>a, <1>b, <1>19, <2>1 DEF DatabaseFails, Reply, CallerSteps
<1>16. ASSUME Tick PROVE Goal'
  BY <1>a, <1>16 DEF Tick
<1>17. ASSUME UNCHANGED vars PROVE Goal'
  BY <1>a, <1>17 DEF vars
<1> HIDE DEF Goal, ProcTypes
<1>18. Goal'
  <2>1. \A w \in Workers : w \in Procs
    BY DEF Procs
  <2>2. \A v \in Callers : v \in Procs
    BY DEF Procs
  <2>3. ASSUME NEW p \in Procs, ReadMark(p) \/ Finish(p) PROVE Goal'
    BY <2>3, <1>10, <1>11, <1>12, <1>13 DEF Finish
  <2>4. ASSUME NEW w \in Workers, WorkerStep(w) \/ Crash(w) \/ StartWorker(w) PROVE Goal'
    BY <2>4, <2>1, <2>3, <1>2, <1>3, <1>4, <1>9 DEF WorkerStep
  <2>5. ASSUME NEW v \in Callers, NewRequest(v) \/ CallerStep(v) \/ LoseRequest(v)
                                   \/ DatabaseFails(v) PROVE Goal'
    BY <2>5, <2>2, <2>3, <1>5, <1>6, <1>7, <1>8, <1>14, <1>15, <1>19
    DEF NewRequest, CallerStep
  <2>6. CASE Next
    BY <2>6, <2>4, <2>5, <1>1, <1>16 DEF Next
  <2> QED BY <2>6, <1>17
<1> QED BY <1>18 DEF Goal

LEMMA TypeStep == ASSUME TypeOK, JobInv, [Next]_vars PROVE TypeOK'
  BY TableTypesStep, ProcTypesStep DEF TypeOK, HistoryTypes

(***************************************************************************)
(* Facts about the steps that write rows                                   *)
(***************************************************************************)

(* What an executor that passes the fence of _finish knows.                *)
LEMMA HeldFacts ==
  ASSUME TypeOK, StampInv, JobInv, NEW p \in Procs, pc[p] = "generating", StillHeld(p)
  PROVE  /\ job[p] \in Runs
         /\ owner[job[p]] \in Cases
         /\ runStatus[job[p]] = "RUNNING"
         /\ mark[p] = startedAt[job[p]]
         /\ mark[p] \in Stamps
         /\ recordedBy[mark[p]] = {}
         /\ stamp[p] \in Stamps
<1>1. job[p] \in Runs /\ stamp[p] \in Stamps /\ owner[job[p]] # NoCase
  BY DEF JobInv, LocalsOf
<1>2. owner[job[p]] \in Cases
  BY <1>1 DEF TypeOK, TableTypes
<1> QED BY <1>1, <1>2 DEF StillHeld, StampInv

(* A claim's stamp is new.                                                 *)
LEMMA ClaimFacts ==
  ASSUME TypeOK, NEW p \in Procs, NEW r \in Runs, Claim(p, r)
  PROVE  /\ lastStamp \in Nat /\ lastStamp' = lastStamp + 1 /\ lastStamp' \in Stamps
         /\ runStatus' = [runStatus EXCEPT ![r] = "RUNNING"]
         /\ startedAt' = [startedAt EXCEPT ![r] = lastStamp']
         /\ UNCHANGED recordedBy
  BY ConstantsAssumption DEF Claim, TypeOK, HistoryTypes, Stamps

LEMMA RowInvStep ==
  ASSUME TypeOK, RowInv, StampInv, JobInv, [Next]_vars
  PROVE  RowInv'
<1>a. /\ caseStatus \in [Cases -> CaseStatuses]
      /\ owner \in [Runs -> Cases \cup {NoCase}]
      /\ runStatus \in [Runs -> RunStatuses]
      /\ startedAt \in [Runs -> 0..MaxClaims]
      /\ errorCode \in [Runs -> ErrorCodes \cup {"NONE"}]
      /\ explanationText \in [Runs -> 0..MaxClaims]
      /\ evalResult \in [Runs -> {"NONE", "PASSED", "REJECTED"}]
      /\ requested \in [Runs -> Nat]
      /\ NoCase \notin Cases
  BY ConstantsAssumption DEF TypeOK, TableTypes, AuditTypes
<1> USE <1>a DEF caseVars, runVars, auditVars, clockVars, history
<1>1. ASSUME Quiet PROVE RowInv'
  BY <1>1 DEF Quiet, RowInv
<1>2. ASSUME NEW c \in Cases, CreateAssessment(c) PROVE RowInv'
  BY <1>2 DEF CreateAssessment, InsertRow, RowInv
<1>3. ASSUME NEW v \in Callers, NEW r \in Runs, EnqueueRow(v, r) PROVE RowInv'
  <2>1. target[v] \in Cases /\ caseStatus[target[v]] # "ABSENT"
    BY <1>3 DEF EnqueueRow, JobInv, LocalsOf, Procs
  <2> QED BY <1>3, <2>1 DEF EnqueueRow, InsertRow, RowInv
<1>4. ASSUME NEW v \in Callers, NEW r \in Runs, InsertRun(v, r) PROVE RowInv'
  <2>1. target[v] \in Cases /\ caseStatus[target[v]] # "ABSENT"
    BY <1>4 DEF InsertRun, JobInv, LocalsOf, Procs
  <2> QED BY <1>4, <2>1 DEF InsertRun, InsertRow, Claim, RowInv
<1>5. ASSUME NEW p \in Procs, NEW r \in Runs, TakeUp(p, r) PROVE RowInv'
  BY <1>5 DEF TakeUp, TakeoverEvent, Claim, RowInv
<1>6. ASSUME NEW w \in Workers, Reopen(w) PROVE RowInv'
  <2>1. \A r \in snapshot[w] : owner[r] # NoCase
    BY DEF JobInv, LocalsOf, Procs
  <2> QED BY <1>6, <2>1 DEF Reopen, Reopened, RowInv
<1>7. ASSUME NEW p \in Procs, NEW code \in ErrorCodes, FinishFailed(p, code) PROVE RowInv'
  <2>1. job[p] \in Runs /\ owner[job[p]] \in Cases /\ runStatus[job[p]] = "RUNNING"
    BY <1>7, HeldFacts DEF FinishFailed
  <2> QED BY <1>7, <2>1 DEF FinishFailed, Record, RunStatusAfter, CaseStatusAfter, RowInv,
                            ErrorCodes
<1>8. ASSUME NEW p \in Procs, NEW outcome \in {"PASSED", "REJECTED"}, FinishScored(p, outcome)
      PROVE RowInv'
  <2>1. job[p] \in Runs /\ owner[job[p]] \in Cases /\ runStatus[job[p]] = "RUNNING"
    BY <1>8, HeldFacts DEF FinishScored
  <2> QED BY <1>8, <2>1 DEF FinishScored, Record, RunStatusAfter, CaseStatusAfter, RowInv
<1> QED BY StepEffects, <1>1, <1>2, <1>3, <1>4, <1>5, <1>6, <1>7, <1>8

(* The final statuses an outcome leads to.                                 *)
LEMMA OutcomeFinal ==
  \A outcome : RunStatusAfter(outcome) \in FinalStatuses
               /\ RunStatusAfter(outcome) \notin InFlightStatuses \cup {"ABSENT"}
  BY DEF RunStatusAfter, FinalStatuses, InFlightStatuses

LEMMA RecordStamps ==
  ASSUME TypeOK, StampInv, JobInv, NEW p \in Procs, pc[p] = "generating", StillHeld(p),
         NEW outcome, Record(p, outcome)
  PROVE  StampInv'
<1>a. /\ startedAt \in [Runs -> 0..MaxClaims]
      /\ runStatus \in [Runs -> RunStatuses]
      /\ recordedBy \in [Stamps -> SUBSET Procs]
      /\ lastStamp \in 0..MaxClaims
      /\ MaxClaims \in Nat
  BY ConstantsAssumption DEF TypeOK, TableTypes, HistoryTypes
<1>b. /\ job[p] \in Runs /\ runStatus[job[p]] = "RUNNING"
      /\ mark[p] = startedAt[job[p]] /\ mark[p] \in Stamps
  BY HeldFacts
<1>c. /\ startedAt' = startedAt /\ lastStamp' = lastStamp
      /\ recordedBy' = [recordedBy EXCEPT ![mark[p]] = @ \cup {p}]
      /\ runStatus' = [runStatus EXCEPT ![job[p]] = RunStatusAfter(outcome)]
      /\ RunStatusAfter(outcome) # "RUNNING"
  BY OutcomeFinal DEF Record, clockVars, InFlightStatuses
<1>1. \A r \in Runs : startedAt'[r] <= lastStamp'
  BY <1>c DEF StampInv
<1>2. \A r, q \in Runs : startedAt'[r] = startedAt'[q] => startedAt'[r] = 0 \/ r = q
  BY <1>c DEF StampInv
<1>3. mark[p] <= lastStamp
  BY <1>b DEF StampInv
<1>4. \A s \in Stamps : s > lastStamp' => recordedBy'[s] = {}
  BY <1>a, <1>c, <1>3 DEF StampInv, Stamps
<1>5. ASSUME NEW r \in Runs, runStatus'[r] = "RUNNING"
      PROVE  startedAt'[r] \in Stamps /\ recordedBy'[startedAt'[r]] = {}
  <2>1. r # job[p] /\ runStatus[r] = "RUNNING"
    BY <1>a, <1>b, <1>c, <1>5
  <2>2. startedAt[r] \in Stamps /\ recordedBy[startedAt[r]] = {}
    BY <2>1 DEF StampInv
  <2>3. startedAt[r] # mark[p]
    BY <1>b, <2>1, <2>2 DEF StampInv, Stamps
  <2> QED BY <1>a, <1>c, <2>2, <2>3
<1> QED BY <1>1, <1>2, <1>4, <1>5 DEF StampInv

(* A new claim writes a mark of its own.                                   *)
LEMMA ClaimStamps ==
  ASSUME TypeOK, StampInv, NEW p \in Procs, NEW r \in Runs, Claim(p, r)
  PROVE  StampInv'
<1>a. /\ startedAt \in [Runs -> 0..MaxClaims]
      /\ runStatus \in [Runs -> RunStatuses]
      /\ recordedBy \in [Stamps -> SUBSET Procs]
      /\ lastStamp \in 0..MaxClaims
      /\ MaxClaims \in Nat
  BY ConstantsAssumption DEF TypeOK, TableTypes, HistoryTypes
<1>b. /\ lastStamp \in Nat /\ lastStamp' = lastStamp + 1 /\ lastStamp' \in Stamps
      /\ runStatus' = [runStatus EXCEPT ![r] = "RUNNING"]
      /\ startedAt' = [startedAt EXCEPT ![r] = lastStamp']
      /\ recordedBy' = recordedBy
  BY ClaimFacts
<1>1. \A q \in Runs : startedAt'[q] <= lastStamp'
  BY <1>a, <1>b DEF StampInv
<1>2. \A q \in Runs : startedAt[q] # lastStamp'
  BY <1>a, <1>b DEF StampInv
<1>3. \A q, o \in Runs : startedAt'[q] = startedAt'[o] => startedAt'[q] = 0 \/ q = o
  BY <1>a, <1>b, <1>2 DEF StampInv
<1>4. \A s \in Stamps : s > lastStamp' => recordedBy'[s] = {}
  BY <1>b DEF StampInv, Stamps
<1>5. recordedBy[lastStamp'] = {}
  BY <1>b DEF StampInv
<1>6. \A q \in Runs : runStatus'[q] = "RUNNING" =>
        startedAt'[q] \in Stamps /\ recordedBy'[startedAt'[q]] = {}
  BY <1>a, <1>b, <1>5 DEF StampInv
<1> QED BY <1>1, <1>3, <1>4, <1>6 DEF StampInv

LEMMA StampInvStep ==
  ASSUME TypeOK, RowInv, StampInv, JobInv, [Next]_vars
  PROVE  StampInv'
<1>a. /\ startedAt \in [Runs -> 0..MaxClaims]
      /\ runStatus \in [Runs -> RunStatuses]
      /\ lastStamp \in 0..MaxClaims
      /\ MaxClaims \in Nat
  BY ConstantsAssumption DEF TypeOK, TableTypes, HistoryTypes
<1> USE DEF runVars, clockVars, history
<1>1. ASSUME Quiet PROVE StampInv'
  BY <1>1 DEF Quiet, StampInv
<1>2. ASSUME NEW c \in Cases, CreateAssessment(c) PROVE StampInv'
  BY <1>a, <1>2 DEF CreateAssessment, StampInv
<1>3. ASSUME NEW v \in Callers, NEW r \in Runs, EnqueueRow(v, r) PROVE StampInv'
  BY <1>a, <1>3 DEF EnqueueRow, StampInv
<1>4. ASSUME NEW v \in Callers, NEW r \in Runs, InsertRun(v, r) PROVE StampInv'
  BY <1>4, ClaimStamps DEF InsertRun, Procs
<1>5. ASSUME NEW p \in Procs, NEW r \in Runs, TakeUp(p, r) PROVE StampInv'
  BY <1>5, ClaimStamps DEF TakeUp
<1>6. ASSUME NEW w \in Workers, Reopen(w) PROVE StampInv'
  <2>1. /\ startedAt' = [r \in Runs |-> IF r \in snapshot[w] THEN 0 ELSE startedAt[r]]
        /\ runStatus' = [r \in Runs |-> IF r \in snapshot[w] THEN "PENDING" ELSE runStatus[r]]
        /\ lastStamp' = lastStamp /\ recordedBy' = recordedBy
    BY <1>6 DEF Reopen, Reopened
  <2>2. \A r \in Runs : startedAt'[r] <= lastStamp'
    BY <1>a, <2>1 DEF StampInv
  <2>3. \A r, q \in Runs : startedAt'[r] = startedAt'[q] => startedAt'[r] = 0 \/ r = q
    BY <1>a, <2>1 DEF StampInv
  <2>4. \A r \in Runs : runStatus'[r] = "RUNNING" =>
          startedAt'[r] \in Stamps /\ recordedBy'[startedAt'[r]] = {}
    BY <1>a, <2>1 DEF StampInv
  <2> QED BY <2>1, <2>2, <2>3, <2>4 DEF StampInv
<1>7. ASSUME NEW p \in Procs, NEW code \in ErrorCodes, FinishFailed(p, code) PROVE StampInv'
  BY <1>7, RecordStamps DEF FinishFailed
<1>8. ASSUME NEW p \in Procs, NEW outcome \in {"PASSED", "REJECTED"}, FinishScored(p, outcome)
      PROVE StampInv'
  BY <1>8, RecordStamps DEF FinishScored
<1> QED BY StepEffects, <1>1, <1>2, <1>3, <1>4, <1>5, <1>6, <1>7, <1>8

(***************************************************************************)
(* Where the executors' locals point                                       *)
(***************************************************************************)

(* Rows and assessments only appear, and a row keeps its assessment.       *)
Grows ==
    /\ \A r \in Runs : owner[r] # NoCase => owner'[r] = owner[r]
    /\ \A c \in Cases : caseStatus[c] # "ABSENT" => caseStatus'[c] # "ABSENT"

LEMMA TablesGrow ==
  ASSUME TypeOK, RowInv, StampInv, JobInv, [Next]_vars
  PROVE  Grows
<1>a. /\ caseStatus \in [Cases -> CaseStatuses]
      /\ owner \in [Runs -> Cases \cup {NoCase}]
      /\ \A r \in Runs : runStatus[r] = "ABSENT" => owner[r] = NoCase
  BY DEF TypeOK, TableTypes, RowInv
<1> USE <1>a DEF Grows, caseVars, runVars
<1>1. ASSUME Quiet PROVE Grows
  BY <1>1 DEF Quiet
<1>2. ASSUME NEW c \in Cases, CreateAssessment(c) PROVE Grows
  BY <1>2 DEF CreateAssessment, InsertRow
<1>3. ASSUME NEW v \in Callers, NEW r \in Runs, EnqueueRow(v, r) PROVE Grows
  BY <1>3 DEF EnqueueRow, InsertRow
<1>4. ASSUME NEW v \in Callers, NEW r \in Runs, InsertRun(v, r) PROVE Grows
  BY <1>4 DEF InsertRun, InsertRow
<1>5. ASSUME NEW p \in Procs, NEW r \in Runs, TakeUp(p, r) PROVE Grows
  BY <1>5 DEF TakeUp
<1>6. ASSUME NEW w \in Workers, Reopen(w) PROVE Grows
  BY <1>6 DEF Reopen
<1>7. ASSUME NEW p \in Procs, NEW code \in ErrorCodes, FinishFailed(p, code) PROVE Grows
  BY <1>7 DEF FinishFailed, Record, CaseStatusAfter
<1>8. ASSUME NEW p \in Procs, NEW outcome \in {"PASSED", "REJECTED"}, FinishScored(p, outcome)
      PROVE Grows
  BY <1>8 DEF FinishScored, Record, CaseStatusAfter
<1> QED BY StepEffects, <1>1, <1>2, <1>3, <1>4, <1>5, <1>6, <1>7, <1>8

(* A process that does not move keeps its part of JobInv.                  *)
SameLocals(p) ==
    /\ pc'[p] = pc[p] /\ target'[p] = target[p] /\ job'[p] = job[p]
    /\ stamp'[p] = stamp[p] /\ snapshot'[p] = snapshot[p]

LEMMA UnmovedLocals ==
  ASSUME TypeOK, Grows, NEW p \in Procs, LocalsOf(p), SameLocals(p)
  PROVE  LocalsOf(p)'
<1>1. snapshot[p] \subseteq Runs
  BY DEF TypeOK, ProcTypes
<1> QED BY <1>1 DEF Grows, LocalsOf, SameLocals

LEMMA OneMoves ==
  ASSUME TypeOK, JobInv, Grows, NEW p \in Procs,
         \A q \in Procs \ {p} : SameLocals(q),
         LocalsOf(p)'
  PROVE  JobInv'
  BY UnmovedLocals DEF JobInv

(* Steps of a process to a place where it has no run and no target.        *)
Unbound == {"down", "reclaim", "reclaiming", "poll", "idle"}

LEMMA UnboundLocals ==
  ASSUME TypeOK, Grows, NEW p \in Procs, LocalsOf(p), pc'[p] \in Unbound,
         snapshot'[p] = snapshot[p] \/ snapshot'[p] = {}
  PROVE  LocalsOf(p)'
<1>1. snapshot[p] \subseteq Runs
  BY DEF TypeOK, ProcTypes
<1> QED BY <1>1 DEF Grows, LocalsOf, Unbound

LEMMA ClaimLocals ==
  ASSUME TypeOK, JobInv, Grows, NEW p \in Procs, NEW r \in Runs, Claim(p, r),
         owner'[r] # NoCase, snapshot' = snapshot,
         \A q \in Procs \ {p} : target'[q] = target[q]
  PROVE  JobInv'
<1>a. /\ pc \in [Procs -> WorkerSteps \cup CallerSteps]
      /\ job \in [Procs -> Runs \cup {NoRun}]
      /\ stamp \in [Procs -> 0..MaxClaims]
      /\ snapshot[p] \subseteq Runs
  BY DEF TypeOK, ProcTypes
<1>1. lastStamp' \in Stamps
  BY ClaimFacts
<1>2. \A q \in Procs \ {p} : SameLocals(q)
  BY <1>a DEF Claim, SameLocals
<1>3. LocalsOf(p)'
  <2>1. pc'[p] = "claimed" /\ job'[p] = r /\ stamp'[p] \in Stamps
    BY <1>a, <1>1 DEF Claim
  <2>2. \A q \in snapshot'[p] : owner'[q] # NoCase
    BY <1>a DEF JobInv, LocalsOf, Grows
  <2> QED BY <2>1, <2>2 DEF LocalsOf
<1> QED BY <1>2, <1>3, OneMoves

LEMMA LeaveLocals ==
  ASSUME TypeOK, JobInv, Grows, NEW p \in Procs, NEW step \in {"down", "reclaim"}, NEW code,
         Leave(p, step, code), target' = target,
         snapshot' = snapshot \/ snapshot' = [snapshot EXCEPT ![p] = {}]
  PROVE  JobInv'
<1>a. /\ pc \in [Procs -> WorkerSteps \cup CallerSteps]
      /\ job \in [Procs -> Runs \cup {NoRun}]
      /\ stamp \in [Procs -> 0..MaxClaims]
      /\ snapshot \in [Procs -> SUBSET Runs]
  BY DEF TypeOK, ProcTypes
<1>1. \A q \in Procs \ {p} : SameLocals(q)
  BY <1>a DEF Leave, Reply, SameLocals
<1>2. pc'[p] \in Unbound
  BY <1>a DEF Leave, Reply, Unbound
<1>3. snapshot'[p] = snapshot[p] \/ snapshot'[p] = {}
  BY <1>a
<1>4. LocalsOf(p)'
  BY <1>2, <1>3, UnboundLocals DEF JobInv
<1> QED BY <1>1, <1>4, OneMoves

LEMMA JobInvStep ==
  ASSUME TypeOK, RowInv, StampInv, JobInv, [Next]_vars
  PROVE  JobInv'
<1>a. /\ pc \in [Procs -> WorkerSteps \cup CallerSteps]
      /\ target \in [Procs -> Cases \cup {NoCase}]
      /\ job \in [Procs -> Runs \cup {NoRun}]
      /\ stamp \in [Procs -> 0..MaxClaims]
      /\ snapshot \in [Procs -> SUBSET Runs]
  BY DEF TypeOK, ProcTypes
<1>b. Grows
  BY TablesGrow
<1>c. \A r \in Runs : runStatus[r] # "ABSENT" => owner[r] # NoCase
  BY DEF RowInv
<1>d. \A w \in Workers : w \in Procs
  BY DEF Procs
<1>e. \A v \in Callers : v \in Procs
  BY DEF Procs
<1>f. \A p \in Procs : LocalsOf(p)
  BY DEF JobInv
<1> USE <1>a, <1>b DEF caseVars, runVars, auditVars, clockVars, procVars
<1>1. ASSUME UNCHANGED procVars PROVE JobInv'
  <2>1. \A p \in Procs : SameLocals(p)
    BY <1>1 DEF SameLocals
  <2> QED BY <1>f, <2>1, UnmovedLocals DEF JobInv
<1>2. ASSUME NEW w \in Workers, ReclaimSelect(w) PROVE JobInv'
  <2>1. \A q \in Procs \ {w} : SameLocals(q)
    BY <1>2 DEF ReclaimSelect, SameLocals
  <2>2. \A r \in snapshot'[w] : owner'[r] # NoCase
    BY <1>2, <1>c, <1>d DEF ReclaimSelect, Overdue
  <2>3. pc'[w] \in {"poll", "reclaiming"}
    BY <1>2, <1>d DEF ReclaimSelect
  <2>4. LocalsOf(w)'
    BY <2>2, <2>3 DEF LocalsOf
  <2> QED BY <1>d, <2>1, <2>4, OneMoves
<1>3. ASSUME NEW w \in Workers, ReclaimCommit(w) PROVE JobInv'
  <2>1. \A q \in Procs \ {w} : SameLocals(q)
    BY <1>3 DEF ReclaimCommit, SameLocals
  <2>2. snapshot'[w] = {} /\ pc'[w] \in Unbound
    BY <1>3, <1>d DEF ReclaimCommit, Unbound
  <2>3. LocalsOf(w)'
    BY <1>d, <1>f, <2>2, UnboundLocals
  <2> QED BY <1>d, <2>1, <2>3, OneMoves
<1>4. ASSUME NEW w \in Workers, ClaimOne(w) PROVE JobInv'
  <2>1. PICK r \in Runs : runStatus[r] = "PENDING" /\ Claim(w, r)
    BY <1>4 DEF ClaimOne
  <2>2. owner'[r] # NoCase
    BY <1>4, <1>c, <2>1 DEF ClaimOne
  <2>3. snapshot' = snapshot /\ target' = target
    BY <1>4 DEF ClaimOne
  <2> QED BY <1>d, <2>1, <2>2, <2>3, ClaimLocals
<1>5. ASSUME NEW w \in Workers, NothingPending(w) \/ StartWorker(w) PROVE JobInv'
  <2>1. \A q \in Procs \ {w} : SameLocals(q)
    BY <1>5 DEF NothingPending, StartWorker, SameLocals
  <2>2. snapshot'[w] = snapshot[w] /\ pc'[w] \in Unbound
    BY <1>5, <1>d DEF NothingPending, StartWorker, Unbound
  <2>3. LocalsOf(w)'
    BY <1>d, <1>f, <2>2, UnboundLocals
  <2> QED BY <1>d, <2>1, <2>3, OneMoves
<1>6. ASSUME NEW w \in Workers, Crash(w) PROVE JobInv'
  BY <1>6, <1>d, LeaveLocals DEF Crash
<1>7. ASSUME NEW p \in Procs, FinishDuplicate(p) \/ FinishDiscarded(p) PROVE JobInv'
  <2>1. Leave(p, "down", "500") \/ Leave(p, "reclaim", "409")
    BY <1>7 DEF FinishDuplicate, FinishDiscarded, Dropped
  <2>2. target' = target /\ snapshot' = snapshot
    BY <1>7 DEF FinishDuplicate, FinishDiscarded
  <2> QED BY <2>1, <2>2, LeaveLocals
<1>8. ASSUME NEW p \in Procs, NEW outcome, Proceed(p, outcome), pc[p] = "generating",
             UNCHANGED <<target, snapshot>>
      PROVE  JobInv'
  <2>1. CASE ReadAgain(p)
    <3>1. \A q \in Procs \ {p} : SameLocals(q)
      BY <1>8, <2>1 DEF ReadAgain, SameLocals
    <3>2. /\ pc'[p] = "rereading" /\ job'[p] = job[p] /\ stamp'[p] = stamp[p]
          /\ snapshot'[p] = snapshot[p]
      BY <1>8, <2>1 DEF ReadAgain
    <3>3. job[p] \in Runs /\ stamp[p] \in Stamps /\ owner[job[p]] # NoCase
      BY <1>8, <1>f DEF LocalsOf
    <3>4. \A r \in snapshot[p] : r \in Runs /\ owner[r] # NoCase
      BY <1>f DEF LocalsOf
    <3>5. LocalsOf(p)'
      BY <3>2, <3>3, <3>4 DEF LocalsOf, Grows
    <3> QED BY <3>1, <3>5, OneMoves
  <2>2. CASE \E code \in {"503", "500"} : Leave(p, "reclaim", code)
    BY <1>8, <2>2, LeaveLocals
  <2> QED BY <1>8, <2>1, <2>2 DEF Proceed
<1>9. ASSUME NEW p \in Procs, NEW code \in ErrorCodes, FinishFailed(p, code) PROVE JobInv'
  BY <1>8, <1>9 DEF FinishFailed
<1>10. ASSUME NEW p \in Procs, NEW outcome \in {"PASSED", "REJECTED"}, FinishScored(p, outcome)
       PROVE JobInv'
  BY <1>8, <1>10 DEF FinishScored
<1>11. ASSUME NEW p \in Procs, ReadMark(p) PROVE JobInv'
  <2>1. \A q \in Procs \ {p} : SameLocals(q)
    BY <1>11 DEF ReadMark, SameLocals
  <2>2. /\ pc[p] = "claimed" /\ pc'[p] = "generating" /\ job' = job /\ stamp' = stamp
        /\ snapshot' = snapshot /\ owner' = owner
    BY <1>11 DEF ReadMark
  <2>3. LocalsOf(p)'
    BY <1>f, <2>2 DEF LocalsOf
  <2> QED BY <2>1, <2>3, OneMoves
<1>12. ASSUME NEW v \in Callers, Respond(v) \/ LoseRequest(v) PROVE JobInv'
  <2>1. \A q \in Procs \ {v} : SameLocals(q)
    BY <1>12 DEF Respond, LoseRequest, SameLocals
  <2>2. snapshot'[v] = snapshot[v] /\ pc'[v] \in Unbound
    BY <1>12, <1>e DEF Respond, LoseRequest, Unbound
  <2>3. LocalsOf(v)'
    BY <1>e, <1>f, <2>2, UnboundLocals
  <2> QED BY <1>e, <2>1, <2>3, OneMoves
<1>13. ASSUME NEW v \in Callers, NEW code, Reply(v, code), UNCHANGED <<target, stamp, snapshot>>,
              job' = job \/ job' = [job EXCEPT ![v] = NoRun]
       PROVE  JobInv'
  <2>1. \A q \in Procs \ {v} : SameLocals(q)
    BY <1>13 DEF Reply, SameLocals
  <2>2. snapshot'[v] = snapshot[v] /\ pc'[v] \in Unbound
    BY <1>13, <1>e DEF Reply, Unbound
  <2>3. LocalsOf(v)'
    BY <1>e, <1>f, <2>2, UnboundLocals
  <2> QED BY <1>e, <2>1, <2>3, OneMoves
<1>14. ASSUME NEW v \in Callers, NEW c \in Cases, NEW step \in {"inserting", "enqueuing"},
              Begin(v, c, step), caseStatus[c] # "ABSENT", UNCHANGED <<stamp, snapshot>>
       PROVE  JobInv'
  <2>1. \A q \in Procs \ {v} : SameLocals(q)
    BY <1>14 DEF Begin, SameLocals
  <2>2. pc'[v] = step /\ target'[v] = c /\ snapshot'[v] = snapshot[v]
    BY <1>14, <1>e DEF Begin
  <2>3. caseStatus'[c] # "ABSENT"
    BY <1>14 DEF Grows
  <2>4. \A r \in snapshot[v] : r \in Runs /\ owner[r] # NoCase
    BY <1>e, <1>f DEF LocalsOf
  <2>5. LocalsOf(v)'
    BY <2>2, <2>3, <2>4 DEF LocalsOf, Grows
  <2> QED BY <1>e, <2>1, <2>5, OneMoves
<1>15. ASSUME NEW v \in Callers, NEW c \in Cases, EnqueueCheck(v, c) PROVE JobInv'
  BY <1>13, <1>14, <1>15 DEF EnqueueCheck, Refuse
<1>16. ASSUME NEW v \in Callers, EnqueueInsert(v) PROVE JobInv'
  BY <1>13, <1>16 DEF EnqueueInsert
<1>17. ASSUME NEW v \in Callers, NEW c \in Cases, VisitorClaim(v, c) PROVE JobInv'
  <2>1. ASSUME NEW r \in InFlightOf(c), Claim(v, r), owner' = owner, snapshot' = snapshot,
               target' = [target EXCEPT ![v] = c]
        PROVE  JobInv'
    <3>1. r \in Runs /\ owner'[r] # NoCase
      BY <1>c, <2>1 DEF InFlightOf, InFlightStatuses
    <3>2. \A q \in Procs \ {v} : target'[q] = target[q]
      BY <2>1
    <3> QED BY <1>e, <2>1, <3>1, <3>2, ClaimLocals
  <2> QED BY <1>13, <1>14, <1>17, <2>1 DEF VisitorClaim, Refuse
<1>18. ASSUME NEW v \in Callers, VisitorInsert(v) PROVE JobInv'
  <2>1. target[v] \in Cases /\ NoCase \notin Cases
    BY <1>18, <1>e, <1>f, ConstantsAssumption DEF VisitorInsert, LocalsOf
  <2>2. ASSUME NEW r \in Runs, InsertRow(r, target[v]), Claim(v, r), UNCHANGED <<target, snapshot>>
        PROVE  JobInv'
    <3>1. owner'[r] # NoCase
      BY <2>1, <2>2 DEF InsertRow, TypeOK, TableTypes
    <3> QED BY <1>e, <2>2, <3>1, ClaimLocals
  <2> QED BY <1>13, <1>18, <2>2 DEF VisitorInsert
<1>20. ASSUME NEW v \in Callers, DatabaseFails(v) PROVE JobInv'
  BY <1>13, <1>20 DEF DatabaseFails
<1>19. JobInv'
  <2>1. ASSUME NEW p \in Procs, Finish(p) PROVE JobInv'
    BY <2>1, <1>7, <1>9, <1>10 DEF Finish
  <2>2. ASSUME NEW w \in Workers, WorkerStep(w) \/ Crash(w) \/ StartWorker(w) PROVE JobInv'
    BY <2>1, <2>2, <1>d, <1>2, <1>3, <1>4, <1>5, <1>6, <1>11 DEF WorkerStep
  <2>3. ASSUME NEW v \in Callers, NewRequest(v) \/ CallerStep(v) \/ LoseRequest(v)
                                   \/ DatabaseFails(v) PROVE JobInv'
    BY <2>1, <2>3, <1>e, <1>11, <1>12, <1>15, <1>16, <1>17, <1>18, <1>20
    DEF NewRequest, CallerStep
  <2>4. ASSUME NEW c \in Cases, CreateAssessment(c) PROVE JobInv'
    BY <2>4, <1>1 DEF CreateAssessment
  <2>5. ASSUME Tick \/ UNCHANGED vars PROVE JobInv'
    BY <2>5, <1>1 DEF Tick, vars
  <2> QED BY <2>2, <2>3, <2>4, <2>5 DEF Next
<1> QED BY <1>19

(***************************************************************************)
(* The properties, step by step                                            *)
(***************************************************************************)

LEMMA GateStep ==
  ASSUME TypeOK, RowInv, StampInv, JobInv, PublicationGate, [Next]_vars
  PROVE  PublicationGate'
<1>a. /\ current \in [Cases -> Runs \cup {NoRun}]
      /\ owner \in [Runs -> Cases \cup {NoCase}]
      /\ explanationText \in [Runs -> 0..MaxClaims]
      /\ evalResult \in [Runs -> {"NONE", "PASSED", "REJECTED"}]
      /\ NoCase \notin Cases
      /\ \A r \in Runs : owner[r] # NoCase => owner'[r] = owner[r]
  BY ConstantsAssumption, TablesGrow DEF TypeOK, TableTypes, Grows
<1> USE <1>a DEF caseVars, runVars
<1>1. ASSUME UNCHANGED <<current, explanationText, evalResult>> PROVE PublicationGate'
  BY <1>1 DEF PublicationGate
<1>2. ASSUME NEW p \in Procs, NEW outcome \in {"PASSED", "REJECTED"}, FinishScored(p, outcome)
      PROVE PublicationGate'
  <2>1. /\ job[p] \in Runs /\ owner[job[p]] \in Cases /\ stamp[p] \in Stamps
        /\ evalResult[job[p]] = "NONE" /\ explanationText[job[p]] = 0
    BY <1>2, HeldFacts DEF FinishScored, Scored, RowInv
  <2>2. owner' = owner /\ evalResult' = [evalResult EXCEPT ![job[p]] = outcome]
    BY <1>2 DEF FinishScored, Record
  <2>3. CASE outcome = "PASSED"
    <3>1. /\ explanationText' = [explanationText EXCEPT ![job[p]] = stamp[p]]
          /\ current' = [current EXCEPT ![owner[job[p]]] = job[p]]
      BY <1>2, <2>3 DEF FinishScored, Publishable
    <3>2. stamp[p] # 0
      BY <2>1 DEF Stamps
    <3>3. \A r \in Runs : explanationText'[r] # 0 => evalResult'[r] = "PASSED"
      BY <2>1, <2>2, <2>3, <3>1 DEF PublicationGate
    <3>4. \A c \in Cases : current'[c] # NoRun => current'[c] \in Runs
      BY <2>1, <3>1
    <3>5. \A c \in Cases : current'[c] # NoRun =>
            owner'[current'[c]] = c /\ explanationText'[current'[c]] # 0
      BY <2>1, <2>2, <3>1, <3>2 DEF PublicationGate
    <3> QED BY <3>3, <3>5 DEF PublicationGate
  <2>4. CASE outcome = "REJECTED"
    <3>1. UNCHANGED <<explanationText, current>>
      BY <1>2, <2>4 DEF FinishScored, Publishable
    <3> QED BY <2>1, <2>2, <3>1 DEF PublicationGate
  <2> QED BY <2>3, <2>4
<1> QED
  <2>1. CASE UNCHANGED <<current, explanationText, evalResult>>
    BY <2>1, <1>1
  <2>2. ASSUME ~UNCHANGED <<current, explanationText, evalResult>>
        PROVE \E p \in Procs, outcome \in {"PASSED", "REJECTED"} : FinishScored(p, outcome)
    BY <2>2, StepEffects DEF Quiet, CreateAssessment, EnqueueRow, InsertRun, TakeUp, Reopen,
                             FinishFailed
  <2> QED BY <1>2, <2>1, <2>2

LEMMA OneInFlightStep ==
  ASSUME TypeOK, RowInv, StampInv, JobInv, OneInFlightPerCase, [Next]_vars
  PROVE  OneInFlightPerCase'
<1>a. /\ owner \in [Runs -> Cases \cup {NoCase}]
      /\ runStatus \in [Runs -> RunStatuses]
      /\ NoCase \notin Cases
  BY ConstantsAssumption DEF TypeOK, TableTypes
<1> USE <1>a DEF caseVars, runVars
<1>1. ASSUME UNCHANGED <<owner, runStatus>> PROVE OneInFlightPerCase'
  BY <1>1 DEF OneInFlightPerCase
<1>2. ASSUME NEW c \in Cases, CreateAssessment(c) PROVE OneInFlightPerCase'
  <2>1. \A r \in Runs : owner[r] # c
    BY <1>2 DEF CreateAssessment, RowInv
  <2> QED BY <1>2, <2>1 DEF CreateAssessment, InsertRow, OneInFlightPerCase
<1>3. ASSUME NEW v \in Callers, NEW r \in Runs, EnqueueRow(v, r) PROVE OneInFlightPerCase'
  BY <1>3 DEF EnqueueRow, InsertRow, UniqueInFlight, OneInFlightPerCase
<1>4. ASSUME NEW v \in Callers, NEW r \in Runs, InsertRun(v, r) PROVE OneInFlightPerCase'
  <2>1. /\ runStatus' = [runStatus EXCEPT ![r] = "RUNNING"]
        /\ owner' = [owner EXCEPT ![r] = target[v]]
    BY <1>4 DEF InsertRun, InsertRow, Claim
  <2>2. \A q \in Runs : runStatus'[q] \in InFlightStatuses =>
          [runStatus EXCEPT ![r] = "PENDING"][q] \in InFlightStatuses
    BY <2>1 DEF InFlightStatuses
  <2> QED BY <1>4, <2>1, <2>2 DEF InsertRun, UniqueInFlight, OneInFlightPerCase
<1>5. ASSUME NEW p \in Procs, NEW r \in Runs, TakeUp(p, r) PROVE OneInFlightPerCase'
  <2>1. owner' = owner /\ runStatus' = [runStatus EXCEPT ![r] = "RUNNING"]
    BY <1>5 DEF TakeUp, Claim
  <2>2. \A q \in Runs : runStatus'[q] \in InFlightStatuses => runStatus[q] \in InFlightStatuses
    BY <1>5, <2>1 DEF TakeUp, InFlightStatuses
  <2> QED BY <2>1, <2>2 DEF OneInFlightPerCase
<1>6. ASSUME NEW w \in Workers, Reopen(w) PROVE OneInFlightPerCase'
  BY <1>6 DEF Reopen, UniqueInFlight, OneInFlightPerCase
<1>7. ASSUME NEW p \in Procs, NEW outcome, Record(p, outcome) PROVE OneInFlightPerCase'
  <2>1. /\ owner' = owner
        /\ \A q \in Runs : runStatus'[q] \in InFlightStatuses => runStatus[q] \in InFlightStatuses
    BY <1>7, OutcomeFinal DEF Record
  <2> QED BY <2>1 DEF OneInFlightPerCase
<1>8. ASSUME NEW p \in Procs, NEW code \in ErrorCodes, FinishFailed(p, code)
      PROVE OneInFlightPerCase'
  BY <1>7, <1>8 DEF FinishFailed
<1>9. ASSUME NEW p \in Procs, NEW outcome \in {"PASSED", "REJECTED"}, FinishScored(p, outcome)
      PROVE OneInFlightPerCase'
  BY <1>7, <1>9 DEF FinishScored
<1> QED BY StepEffects, <1>1, <1>2, <1>3, <1>4, <1>5, <1>6, <1>8, <1>9 DEF Quiet

(* What a step does to the record of who wrote which result.               *)
LEMMA RecordEffects ==
  ASSUME TypeOK, StampInv, JobInv, [Next]_vars
  PROVE  \/ UNCHANGED recordedBy
         \/ \E p \in Procs : /\ mark[p] \in Stamps /\ recordedBy[mark[p]] = {}
                             /\ recordedBy' = [recordedBy EXCEPT ![mark[p]] = {p}]
<1>1. ASSUME NEW p \in Procs, NEW outcome, pc[p] = "generating", StillHeld(p), Record(p, outcome)
      PROVE  /\ mark[p] \in Stamps /\ recordedBy[mark[p]] = {}
             /\ recordedBy' = [recordedBy EXCEPT ![mark[p]] = {p}]
  BY <1>1, HeldFacts DEF Record, TypeOK, HistoryTypes
<1>2. ASSUME NEW p \in Procs, NEW code \in ErrorCodes, FinishFailed(p, code)
      PROVE  \E q \in Procs : /\ mark[q] \in Stamps /\ recordedBy[mark[q]] = {}
                              /\ recordedBy' = [recordedBy EXCEPT ![mark[q]] = {q}]
  BY <1>1, <1>2 DEF FinishFailed
<1>3. ASSUME NEW p \in Procs, NEW outcome \in {"PASSED", "REJECTED"}, FinishScored(p, outcome)
      PROVE  \E q \in Procs : /\ mark[q] \in Stamps /\ recordedBy[mark[q]] = {}
                              /\ recordedBy' = [recordedBy EXCEPT ![mark[q]] = {q}]
  BY <1>1, <1>3 DEF FinishScored
<1>4. ASSUME ~UNCHANGED recordedBy
      PROVE  \/ \E p \in Procs, code \in ErrorCodes : FinishFailed(p, code)
             \/ \E p \in Procs, outcome \in {"PASSED", "REJECTED"} : FinishScored(p, outcome)
  BY <1>4, StepEffects DEF Quiet, CreateAssessment, EnqueueRow, InsertRun, TakeUp, Reopen,
                           Claim, history
<1> QED BY <1>2, <1>3, <1>4

LEMMA OneRecordStep ==
  ASSUME TypeOK, StampInv, JobInv, OneRecordPerClaim, [Next]_vars
  PROVE  OneRecordPerClaim'
<1>1. recordedBy \in [Stamps -> SUBSET Procs]
  BY DEF TypeOK, HistoryTypes
<1> QED BY <1>1, RecordEffects DEF OneRecordPerClaim

LEMMA EndedStep ==
  ASSUME TypeOK, RowInv, StampInv, JobInv, EndedByLatestClaim, [Next]_vars
  PROVE  EndedByLatestClaim'
<1>a. /\ runStatus \in [Runs -> RunStatuses]
      /\ startedAt \in [Runs -> 0..MaxClaims]
      /\ recordedBy \in [Stamps -> SUBSET Procs]
  BY DEF TypeOK, TableTypes, HistoryTypes
<1>b. \A s \in Stamps : recordedBy[s] # {} => recordedBy'[s] # {}
  BY <1>a, RecordEffects
<1> USE <1>a, <1>b DEF runVars
<1>1. ASSUME \A r \in Runs : runStatus'[r] \in FinalStatuses =>
               runStatus[r] = runStatus'[r] /\ startedAt'[r] = startedAt[r]
      PROVE EndedByLatestClaim'
  BY <1>1 DEF EndedByLatestClaim
<1>2. ASSUME Quiet PROVE EndedByLatestClaim'
  BY <1>1, <1>2 DEF Quiet
<1>3. ASSUME NEW c \in Cases, CreateAssessment(c) PROVE EndedByLatestClaim'
  BY <1>1, <1>3 DEF CreateAssessment, FinalStatuses
<1>4. ASSUME NEW v \in Callers, NEW r \in Runs, EnqueueRow(v, r) PROVE EndedByLatestClaim'
  BY <1>1, <1>4 DEF EnqueueRow, FinalStatuses
<1>5. ASSUME NEW p \in Procs, NEW r \in Runs, Claim(p, r) PROVE EndedByLatestClaim'
  BY <1>1, <1>5 DEF Claim, FinalStatuses
<1>6. ASSUME NEW w \in Workers, Reopen(w) PROVE EndedByLatestClaim'
  BY <1>1, <1>6 DEF Reopen, Reopened, FinalStatuses
<1>7. ASSUME NEW p \in Procs, NEW outcome, pc[p] = "generating", StillHeld(p), Record(p, outcome)
      PROVE EndedByLatestClaim'
  <2>1. /\ job[p] \in Runs /\ mark[p] = startedAt[job[p]] /\ mark[p] \in Stamps
    BY <1>7, HeldFacts
  <2>2. /\ startedAt' = startedAt /\ p \in recordedBy'[mark[p]]
        /\ \A q \in Runs \ {job[p]} : runStatus'[q] = runStatus[q]
    BY <1>7, <2>1 DEF Record
  <2> QED BY <2>1, <2>2 DEF EndedByLatestClaim
<1>8. ASSUME NEW p \in Procs, NEW code \in ErrorCodes, FinishFailed(p, code)
      PROVE EndedByLatestClaim'
  BY <1>7, <1>8 DEF FinishFailed
<1>9. ASSUME NEW p \in Procs, NEW outcome \in {"PASSED", "REJECTED"}, FinishScored(p, outcome)
      PROVE EndedByLatestClaim'
  BY <1>7, <1>9 DEF FinishScored
<1>10. ASSUME NEW v \in Callers, NEW r \in Runs, InsertRun(v, r) PROVE EndedByLatestClaim'
  BY <1>5, <1>10 DEF InsertRun, Procs
<1>11. ASSUME NEW p \in Procs, NEW r \in Runs, TakeUp(p, r) PROVE EndedByLatestClaim'
  BY <1>5, <1>11 DEF TakeUp
<1> QED BY StepEffects, <1>2, <1>3, <1>4, <1>6, <1>8, <1>9, <1>10, <1>11

LEMMA AccountedStep ==
  ASSUME TypeOK, RowInv, StampInv, JobInv, EveryClaimAccounted, [Next]_vars
  PROVE  EveryClaimAccounted'
<1>a. /\ owner \in [Runs -> Cases \cup {NoCase}]
      /\ runStatus \in [Runs -> RunStatuses]
      /\ requested \in [Runs -> Nat]
      /\ reclaimed \in [Runs -> Nat]
      /\ finished \in [Runs -> Nat]
      /\ claims \in [Runs -> Nat]
  BY DEF TypeOK, TableTypes, AuditTypes, HistoryTypes
<1> DEFINE Running(r) == IF runStatus[r] = "RUNNING" THEN 1 ELSE 0
           Claimed(r) == claims[r] <= finished[r] + reclaimed[r] + Running(r)
           Wanted(r) == requested[r] = IF runStatus[r] = "ABSENT" THEN 0 ELSE 1
<1>b. \A r \in Runs : Claimed(r) /\ Wanted(r)
  BY DEF EveryClaimAccounted
<1>c. ASSUME \A r \in Runs : Claimed(r)' /\ Wanted(r)' PROVE EveryClaimAccounted'
  BY <1>c DEF EveryClaimAccounted
<1> USE <1>a DEF caseVars, runVars, auditVars, history
<1>1. ASSUME Quiet PROVE EveryClaimAccounted'
  BY <1>1 DEF Quiet, EveryClaimAccounted
<1>2. ASSUME NEW r \in Runs, NEW c, runStatus[r] = "ABSENT", InsertRow(r, c),
             runStatus' = [runStatus EXCEPT ![r] = "PENDING"],
             UNCHANGED <<claims, finished, reclaimed>>
      PROVE  EveryClaimAccounted'
  BY <1>b, <1>c, <1>2 DEF InsertRow
<1>3. ASSUME NEW c \in Cases, CreateAssessment(c) PROVE EveryClaimAccounted'
  BY <1>2, <1>3 DEF CreateAssessment
<1>4. ASSUME NEW v \in Callers, NEW r \in Runs, EnqueueRow(v, r) PROVE EveryClaimAccounted'
  BY <1>2, <1>4 DEF EnqueueRow
<1>5. ASSUME NEW v \in Callers, NEW r \in Runs, InsertRun(v, r) PROVE EveryClaimAccounted'
  <2>1. /\ runStatus[r] = "ABSENT"
        /\ runStatus' = [runStatus EXCEPT ![r] = "RUNNING"]
        /\ requested' = [requested EXCEPT ![r] = @ + 1]
        /\ claims' = [claims EXCEPT ![r] = @ + 1]
        /\ UNCHANGED <<finished, reclaimed>>
    BY <1>5 DEF InsertRun, InsertRow, Claim
  <2> QED BY <1>b, <1>c, <2>1
<1>6. ASSUME NEW p \in Procs, NEW r \in Runs, TakeUp(p, r) PROVE EveryClaimAccounted'
  <2>1. /\ runStatus[r] \in {"PENDING", "RUNNING"}
        /\ runStatus' = [runStatus EXCEPT ![r] = "RUNNING"]
        /\ claims' = [claims EXCEPT ![r] = @ + 1]
        /\ reclaimed' = IF runStatus[r] = "RUNNING" THEN [reclaimed EXCEPT ![r] = @ + 1]
                                                    ELSE reclaimed
        /\ UNCHANGED <<finished, requested>>
    BY <1>6 DEF TakeUp, TakeoverEvent, Claim
  <2> QED BY <1>b, <1>c, <2>1
<1>7. ASSUME NEW w \in Workers, Reopen(w) PROVE EveryClaimAccounted'
  <2>1. /\ runStatus' = [r \in Runs |-> IF r \in snapshot[w] THEN "PENDING" ELSE runStatus[r]]
        /\ reclaimed' = [r \in Runs |->
                           IF r \in snapshot[w] THEN reclaimed[r] + 1 ELSE reclaimed[r]]
        /\ UNCHANGED <<finished, requested, claims>>
    BY <1>7 DEF Reopen, Reopened
  <2>2. \A r \in Runs : r \in snapshot[w] => runStatus[r] # "ABSENT"
    BY DEF JobInv, LocalsOf, RowInv, Procs
  <2> QED BY <1>b, <1>c, <2>1, <2>2
<1>8. ASSUME NEW p \in Procs, NEW outcome, pc[p] = "generating", StillHeld(p), Record(p, outcome)
      PROVE  EveryClaimAccounted'
  <2>1. /\ job[p] \in Runs /\ runStatus[job[p]] = "RUNNING"
        /\ runStatus' = [runStatus EXCEPT ![job[p]] = RunStatusAfter(outcome)]
        /\ RunStatusAfter(outcome) # "ABSENT"
        /\ finished' = [finished EXCEPT ![job[p]] = @ + 1]
        /\ UNCHANGED <<requested, reclaimed, claims>>
    BY <1>8, HeldFacts, OutcomeFinal DEF Record
  <2> QED BY <1>b, <1>c, <2>1
<1>9. ASSUME NEW p \in Procs, NEW code \in ErrorCodes, FinishFailed(p, code)
      PROVE EveryClaimAccounted'
  BY <1>8, <1>9 DEF FinishFailed
<1>10. ASSUME NEW p \in Procs, NEW outcome \in {"PASSED", "REJECTED"}, FinishScored(p, outcome)
       PROVE EveryClaimAccounted'
  BY <1>8, <1>10 DEF FinishScored
<1> QED BY StepEffects, <1>1, <1>3, <1>4, <1>5, <1>6, <1>7, <1>9, <1>10

LEMMA CaseStatusStep ==
  ASSUME TypeOK, RowInv, StampInv, JobInv, CaseStatusWitnessed, [Next]_vars
  PROVE  CaseStatusWitnessed'
<1>a. /\ caseStatus \in [Cases -> CaseStatuses]
      /\ current \in [Cases -> Runs \cup {NoRun}]
      /\ owner \in [Runs -> Cases \cup {NoCase}]
      /\ errorCode \in [Runs -> ErrorCodes \cup {"NONE"}]
      /\ evalResult \in [Runs -> {"NONE", "PASSED", "REJECTED"}]
      /\ NoCase \notin Cases /\ NoRun \notin Runs
  BY ConstantsAssumption DEF TypeOK, TableTypes
<1> USE <1>a DEF caseVars, runVars
<1>1. ASSUME UNCHANGED <<caseStatus, current, owner, errorCode, evalResult>>
      PROVE CaseStatusWitnessed'
  BY <1>1 DEF CaseStatusWitnessed
<1>2. ASSUME NEW r \in Runs, NEW c \in Cases, owner[r] = NoCase, InsertRow(r, c),
             UNCHANGED <<caseStatus, current, errorCode, evalResult>>
      PROVE  CaseStatusWitnessed'
  <2>1. evalResult[r] = "NONE" /\ errorCode[r] = "NONE"
    BY <1>2 DEF RowInv
  <2> QED BY <1>2, <2>1 DEF InsertRow, CaseStatusWitnessed
<1>3. ASSUME NEW c \in Cases, CreateAssessment(c) PROVE CaseStatusWitnessed'
  <2>1. PICK r \in Runs : runStatus[r] = "ABSENT" /\ InsertRow(r, c)
    BY <1>3 DEF CreateAssessment
  <2>2. owner[r] = NoCase /\ evalResult[r] = "NONE" /\ errorCode[r] = "NONE"
    BY <2>1 DEF RowInv
  <2>3. \A q \in Runs : owner[q] # c
    BY <1>3 DEF CreateAssessment, RowInv
  <2>4. /\ caseStatus' = [caseStatus EXCEPT ![c] = "SCREENED"]
        /\ UNCHANGED <<current, errorCode, evalResult>>
    BY <1>3 DEF CreateAssessment
  <2> QED BY <2>1, <2>2, <2>3, <2>4 DEF InsertRow, CaseStatusWitnessed
<1>4. ASSUME NEW v \in Callers, NEW r \in Runs, EnqueueRow(v, r) PROVE CaseStatusWitnessed'
  <2>1. target[v] \in Cases /\ owner[r] = NoCase
    BY <1>4 DEF EnqueueRow, JobInv, LocalsOf, RowInv, Procs
  <2> QED BY <1>2, <1>4, <2>1 DEF EnqueueRow
<1>5. ASSUME NEW v \in Callers, NEW r \in Runs, InsertRun(v, r) PROVE CaseStatusWitnessed'
  <2>1. target[v] \in Cases /\ owner[r] = NoCase
    BY <1>5 DEF InsertRun, JobInv, LocalsOf, RowInv, Procs
  <2> QED BY <1>2, <1>5, <2>1 DEF InsertRun
<1>6. ASSUME NEW p \in Procs, NEW code \in ErrorCodes, FinishFailed(p, code)
      PROVE CaseStatusWitnessed'
  <2>1. job[p] \in Runs /\ owner[job[p]] \in Cases
    BY <1>6, HeldFacts DEF FinishFailed
  <2>2. CaseStatusAfter(code) = "EXPLANATION_FAILED" /\ code # "NONE"
    BY DEF CaseStatusAfter, ErrorCodes
  <2>3. /\ caseStatus' = [caseStatus EXCEPT ![owner[job[p]]] = "EXPLANATION_FAILED"]
        /\ errorCode' = [errorCode EXCEPT ![job[p]] = code]
        /\ UNCHANGED <<current, owner, evalResult>>
    BY <1>6, <2>2 DEF FinishFailed, Record
  <2> QED BY <2>1, <2>2, <2>3 DEF CaseStatusWitnessed
<1>7. ASSUME NEW p \in Procs, NEW outcome \in {"PASSED", "REJECTED"}, FinishScored(p, outcome)
      PROVE CaseStatusWitnessed'
  <2>1. job[p] \in Runs /\ owner[job[p]] \in Cases /\ evalResult[job[p]] = "NONE"
    BY <1>7, HeldFacts DEF FinishScored, Scored
  <2>2. /\ caseStatus' = [caseStatus EXCEPT ![owner[job[p]]] = CaseStatusAfter(outcome)]
        /\ evalResult' = [evalResult EXCEPT ![job[p]] = outcome]
        /\ UNCHANGED <<owner, errorCode>>
    BY <1>7 DEF FinishScored, Record
  <2>3. CASE outcome = "PASSED"
    <3>1. /\ CaseStatusAfter(outcome) = "COMPLETED"
          /\ current' = [current EXCEPT ![owner[job[p]]] = job[p]]
      BY <1>7, <2>3 DEF FinishScored, Publishable, CaseStatusAfter
    <3> QED BY <2>1, <2>2, <2>3, <3>1 DEF CaseStatusWitnessed
  <2>4. CASE outcome = "REJECTED"
    <3>1. CaseStatusAfter(outcome) = "REVIEW_REQUIRED" /\ current' = current
      BY <1>7, <2>4 DEF FinishScored, Publishable, CaseStatusAfter
    <3> QED BY <2>1, <2>2, <2>4, <3>1 DEF CaseStatusWitnessed
  <2> QED BY <2>3, <2>4
<1> QED
  BY StepEffects, <1>1, <1>3, <1>4, <1>5, <1>6, <1>7 DEF Quiet, TakeUp, Reopen

(***************************************************************************)
(* The theorems                                                            *)
(***************************************************************************)

LEMMA TableInvInit == Init => TableInv
<1> SUFFICES ASSUME Init PROVE TableInv
  OBVIOUS
<1>1. TypeOK
  BY TypeInit
<1>2. RowInv /\ StampInv
  BY ConstantsAssumption DEF Init, RowInv, StampInv
<1>3. JobInv
  BY DEF Init, JobInv, LocalsOf
<1>4. PublicationGate /\ OneInFlightPerCase /\ OneRecordPerClaim
  BY DEF Init, PublicationGate, OneInFlightPerCase, OneRecordPerClaim, InFlightStatuses
<1>5. EndedByLatestClaim /\ EveryClaimAccounted /\ CaseStatusWitnessed
  BY DEF Init, EndedByLatestClaim, EveryClaimAccounted, CaseStatusWitnessed, FinalStatuses
<1> QED BY <1>1, <1>2, <1>3, <1>4, <1>5 DEF TableInv

LEMMA TableInvStep == TableInv /\ [Next]_vars => TableInv'
<1> SUFFICES ASSUME TableInv, [Next]_vars PROVE TableInv'
  OBVIOUS
<1> USE DEF TableInv
<1>1. TypeOK' /\ RowInv' /\ StampInv' /\ JobInv'
  BY TypeStep, RowInvStep, StampInvStep, JobInvStep
<1>2. PublicationGate' /\ OneInFlightPerCase' /\ OneRecordPerClaim'
  BY GateStep, OneInFlightStep, OneRecordStep
<1>3. EndedByLatestClaim' /\ EveryClaimAccounted' /\ CaseStatusWitnessed'
  BY EndedStep, AccountedStep, CaseStatusStep
<1> QED BY <1>1, <1>2, <1>3

(* The tables' invariant holds throughout.                                 *)
THEOREM TablesInvariant == Spec => []TableInv
  BY TableInvInit, TableInvStep, PTL DEF Spec

(* Every column, local variable and counter keeps its type, whatever the   *)
(* order of claims, reclaims, inserts and late results.                    *)
THEOREM TypeCorrect == Spec => []TypeOK
<1>1. TableInv => TypeOK
  BY DEF TableInv
<1> QED BY <1>1, TablesInvariant, PTL

(* What is stored and pointed to as an explanation has passed its score:   *)
(* _finish never publishes anything else.                                  *)
THEOREM OnlyPassedIsPublished == Spec => []PublicationGate
<1>1. TableInv => PublicationGate
  BY DEF TableInv
<1> QED BY <1>1, TablesInvariant, PTL

(* Two attempts of one assessment are never in flight together, for any    *)
(* number of visitors, keyless requests and workers.                       *)
THEOREM AtMostOneInFlight == Spec => []OneInFlightPerCase
<1>1. TableInv => OneInFlightPerCase
  BY DEF TableInv
<1> QED BY <1>1, TablesInvariant, PTL

(* The fence of _finish lets at most one executor record under one claim.  *)
THEOREM ClaimRecordedOnce == Spec => []OneRecordPerClaim
<1>1. TableInv => OneRecordPerClaim
  BY DEF TableInv
<1> QED BY <1>1, TablesInvariant, PTL

(* An ended run was ended under the claim its started_at still shows.      *)
THEOREM LateResultsDropped == Spec => []EndedByLatestClaim
<1>1. TableInv => EndedByLatestClaim
  BY DEF TableInv
<1> QED BY <1>1, TablesInvariant, PTL

(* Every claim is accounted for by a finished or a reclaimed audit event,  *)
(* or is the one that runs.                                                *)
THEOREM ClaimsAccounted == Spec => []EveryClaimAccounted
<1>1. TableInv => EveryClaimAccounted
  BY DEF TableInv
<1> QED BY <1>1, TablesInvariant, PTL

(* An assessment's status rests on what its attempts left behind.          *)
THEOREM CaseStatusBacked == Spec => []CaseStatusWitnessed
<1>1. TableInv => CaseStatusWitnessed
  BY DEF TableInv
<1> QED BY <1>1, TablesInvariant, PTL

(***************************************************************************)
(* The tables implement Publication                                        *)
(***************************************************************************)

LEMMA PublicationInit == Init => P!Init
  BY DEF Init, P!Init

LEMMA PublicationStep ==
  ASSUME TableInv, [Next]_vars
  PROVE  [P!Next]_P!vars
<1>a. TypeOK /\ RowInv /\ StampInv /\ JobInv
  BY DEF TableInv
<1>b. \A r \in Runs : runStatus[r] = "ABSENT" => owner[r] = NoCase
  BY <1>a DEF RowInv
<1> USE DEF caseVars, runVars
<1>1. ASSUME UNCHANGED <<caseVars, owner, evalResult, explanationText>>
      PROVE UNCHANGED P!vars
  BY <1>1 DEF P!vars
<1>2. ASSUME NEW c \in Cases, CreateAssessment(c) PROVE P!Next
  <2>1. PICK r \in Runs : runStatus[r] = "ABSENT" /\ InsertRow(r, c)
    BY <1>2 DEF CreateAssessment
  <2>2. P!Screen(c, r)
    BY <1>2, <1>b, <2>1 DEF CreateAssessment, InsertRow, P!Screen
  <2> QED BY <2>2 DEF P!Next
<1>3. ASSUME NEW v \in Callers, NEW r \in Runs, EnqueueRow(v, r) PROVE P!Next
  <2>1. target[v] \in Cases /\ caseStatus[target[v]] # "ABSENT"
    BY <1>3, <1>a DEF EnqueueRow, JobInv, LocalsOf, Procs
  <2>2. P!Request(target[v], r)
    BY <1>3, <1>b, <2>1 DEF EnqueueRow, InsertRow, P!Request
  <2> QED BY <2>1, <2>2 DEF P!Next
<1>4. ASSUME NEW v \in Callers, NEW r \in Runs, InsertRun(v, r) PROVE P!Next
  <2>1. target[v] \in Cases /\ caseStatus[target[v]] # "ABSENT"
    BY <1>4, <1>a DEF InsertRun, JobInv, LocalsOf, Procs
  <2>2. P!Request(target[v], r)
    BY <1>4, <1>b, <2>1 DEF InsertRun, InsertRow, P!Request
  <2> QED BY <2>1, <2>2 DEF P!Next
<1>5. ASSUME NEW p \in Procs, NEW code \in ErrorCodes, FinishFailed(p, code) PROVE P!Next
  <2>1. job[p] \in Runs /\ owner[job[p]] \in Cases
    BY <1>5, <1>a, HeldFacts DEF FinishFailed
  <2>2. CaseStatusAfter(code) = "EXPLANATION_FAILED"
    BY DEF CaseStatusAfter, ErrorCodes
  <2>3. P!Fail(owner[job[p]], job[p])
    BY <1>5, <2>2 DEF FinishFailed, Record, P!Fail
  <2> QED BY <2>1, <2>3 DEF P!Next
<1>6. ASSUME NEW p \in Procs, NEW outcome \in {"PASSED", "REJECTED"}, FinishScored(p, outcome)
      PROVE P!Next
  <2>1. /\ job[p] \in Runs /\ owner[job[p]] \in Cases /\ stamp[p] \in Stamps
        /\ evalResult[job[p]] = "NONE"
    BY <1>6, <1>a, HeldFacts DEF FinishScored, Scored
  <2>2. CASE outcome = "PASSED"
    <3>1. Publishable(outcome) /\ CaseStatusAfter(outcome) = "COMPLETED"
      BY <2>2 DEF Publishable, CaseStatusAfter
    <3>2. P!Publish(owner[job[p]], job[p], stamp[p])
      BY <1>6, <2>1, <2>2, <3>1 DEF FinishScored, Record, P!Publish
    <3> QED BY <2>1, <3>2 DEF P!Next
  <2>3. CASE outcome = "REJECTED"
    <3>1. ~Publishable(outcome) /\ CaseStatusAfter(outcome) = "REVIEW_REQUIRED"
      BY <2>3 DEF Publishable, CaseStatusAfter
    <3>2. P!Withhold(owner[job[p]], job[p])
      BY <1>6, <2>1, <2>3, <3>1 DEF FinishScored, Record, P!Withhold
    <3> QED BY <2>1, <3>2 DEF P!Next
  <2> QED BY <2>2, <2>3
<1>7. \/ UNCHANGED <<caseVars, owner, evalResult, explanationText>>
      \/ P!Next
  BY <1>a, StepEffects, <1>2, <1>3, <1>4, <1>5, <1>6 DEF Quiet, TakeUp, Reopen
<1> QED BY <1>1, <1>7

(* Whatever executors, claims and reclaims do, readers of the tables see   *)
(* the promise of Publication: a text, once published, stays as it is.     *)
THEOREM RunsImplementPublication == Spec => PublicationRefined
<1>1. Init => P!Init
  BY PublicationInit
<1>2. TableInv /\ [Next]_vars => [P!Next]_P!vars
  BY PublicationStep
<1> QED BY <1>1, <1>2, TablesInvariant, PTL DEF Spec, PublicationRefined, P!Spec

(***************************************************************************)
(* What a caller is told                                                   *)
(***************************************************************************)

(* Marks only move forward, or are wiped by a reclaim.                     *)
LEMMA MarkEffects ==
  ASSUME TypeOK, [Next]_vars
  PROVE  /\ lastStamp' \in Nat /\ lastStamp' >= lastStamp
         /\ \A r \in Runs : startedAt'[r] \in {startedAt[r], 0, lastStamp'}
<1>a. /\ startedAt \in [Runs -> 0..MaxClaims]
      /\ lastStamp \in Nat
  BY DEF TypeOK, TableTypes, HistoryTypes
<1> DEFINE Goal == /\ lastStamp' \in Nat /\ lastStamp' >= lastStamp
                   /\ \A r \in Runs : startedAt'[r] \in {startedAt[r], 0, lastStamp'}
<1> USE <1>a DEF runVars, clockVars
<1>1. ASSUME UNCHANGED <<startedAt, lastStamp>> PROVE Goal
  BY <1>1
<1>2. ASSUME NEW p \in Procs, NEW r \in Runs, Claim(p, r) PROVE Goal
  BY <1>2 DEF Claim
<1>3. ASSUME NEW w \in Workers, Reopen(w) PROVE Goal
  BY <1>3 DEF Reopen
<1>4. ASSUME ~UNCHANGED <<startedAt, lastStamp>>
      PROVE  \/ \E p \in Procs, r \in Runs : Claim(p, r)
             \/ \E w \in Workers : Reopen(w)
  BY <1>4, StepEffects DEF Quiet, CreateAssessment, EnqueueRow, InsertRun, TakeUp, FinishFailed,
                           FinishScored, Record, Procs
<1> HIDE DEF Goal
<1>5. Goal
  BY <1>1, <1>2, <1>3, <1>4
<1> QED BY <1>5 DEF Goal

(* A process that does not move keeps its part of CallerInv.               *)
SameRequest(v) ==
    /\ pc'[v] = pc[v] /\ answer'[v] = answer[v] /\ mark'[v] = mark[v]
    /\ stamp'[v] = stamp[v] /\ job'[v] = job[v]

(* Nothing is newly recorded by v.                                         *)
NoNewRecord(v) == \A s \in Stamps : v \in recordedBy'[s] <=> v \in recordedBy[s]

LEMMA UnmovedCaller ==
  ASSUME TypeOK, JobInv, NEW v \in Callers, CallerOf(v), SameRequest(v), NoNewRecord(v),
         lastStamp' \in Nat, lastStamp' >= lastStamp,
         \A r \in Runs : startedAt'[r] \in {startedAt[r], 0, lastStamp'}
  PROVE  CallerOf(v)'
<1>a. /\ v \in Procs
      /\ lastStamp \in Nat
      /\ MaxClaims \in Nat
      /\ startedAt \in [Runs -> 0..MaxClaims]
      /\ stamp[v] \in 0..MaxClaims
      /\ mark[v] \in 0..MaxClaims
  BY ConstantsAssumption DEF TypeOK, TableTypes, ProcTypes, HistoryTypes, Procs
<1>1. stamp'[v] <= lastStamp'
  BY <1>a DEF CallerOf, SameRequest
<1>2. Recorded(v)' <=> Recorded(v)
  <2>1. mark[v] # 0 => mark[v] \in Stamps
    BY <1>a DEF Stamps
  <2> QED BY <2>1 DEF Recorded, SameRequest, NoNewRecord
<1>3. pc'[v] \in {"claimed", "generating"} =>
        \A s \in Stamps : s >= stamp'[v] => v \notin recordedBy'[s]
  BY DEF CallerOf, SameRequest, NoNewRecord
<1>4. pc'[v] = "claimed" => startedAt'[job'[v]] = 0 \/ startedAt'[job'[v]] >= stamp'[v]
  <2>1. pc[v] = "claimed" => job[v] \in Runs
    BY <1>a DEF JobInv, LocalsOf
  <2> QED BY <1>a, <1>1, <2>1 DEF CallerOf, SameRequest
<1> QED BY <1>1, <1>2, <1>3, <1>4 DEF CallerOf, SameRequest

LEMMA OneRequestMoves ==
  ASSUME TypeOK, JobInv, CallerInv, [Next]_vars, NEW p \in Procs,
         \A v \in Callers \ {p} : SameRequest(v) /\ NoNewRecord(v),
         p \in Callers => CallerOf(p)'
  PROVE  CallerInv'
  BY UnmovedCaller, MarkEffects DEF CallerInv

LEMMA ClaimCaller ==
  ASSUME TypeOK, StampInv, NEW v \in Callers, NEW r \in Runs, Claim(v, r),
         answer'[v].code = "none"
  PROVE  CallerOf(v)'
<1>a. /\ v \in Procs
      /\ pc \in [Procs -> WorkerSteps \cup CallerSteps]
      /\ job \in [Procs -> Runs \cup {NoRun}]
      /\ stamp \in [Procs -> 0..MaxClaims]
      /\ mark \in [Procs -> 0..MaxClaims]
      /\ startedAt \in [Runs -> 0..MaxClaims]
  BY DEF TypeOK, TableTypes, ProcTypes, Procs
<1>1. /\ lastStamp \in Nat /\ lastStamp' = lastStamp + 1
      /\ recordedBy' = recordedBy
      /\ startedAt' = [startedAt EXCEPT ![r] = lastStamp']
  BY <1>a, ClaimFacts
<1>2. pc'[v] = "claimed" /\ job'[v] = r /\ stamp'[v] = lastStamp' /\ mark'[v] = 0
  BY <1>a DEF Claim
<1>3. startedAt'[r] = lastStamp'
  BY <1>a, <1>1
<1>4. \A s \in Stamps : s >= stamp'[v] => v \notin recordedBy'[s]
  BY <1>1, <1>2 DEF StampInv, Stamps
<1> QED BY <1>1, <1>2, <1>3, <1>4 DEF CallerOf, Recorded

(* A request that ends, with an answer that fits what it recorded.         *)
LEMMA RepliedCaller ==
  ASSUME TypeOK, NEW v \in Callers, CallerOf(v), NEW code, Reply(v, code),
         UNCHANGED <<stamp, lastStamp>>,
         code \in {"200", "503"} => Recorded(v)',
         code \in {"404", "409"} => ~Recorded(v)'
  PROVE  CallerOf(v)'
<1>a. /\ v \in Procs
      /\ pc \in [Procs -> WorkerSteps \cup CallerSteps]
      /\ answer \in [Procs -> Answers]
  BY DEF TypeOK, ProcTypes, Procs
<1>1. pc'[v] = "idle" /\ answer'[v].code = code
  BY <1>a DEF Reply, NoAnswer
<1> QED BY <1>1 DEF CallerOf

(* A caller that records goes on knowing that it did.                      *)
LEMMA RecordCaller ==
  ASSUME TypeOK, StampInv, JobInv, NEW v \in Callers, CallerOf(v), NEW outcome,
         pc[v] = "generating", StillHeld(v), Record(v, outcome), Proceed(v, outcome)
  PROVE  CallerOf(v)'
<1>a. /\ v \in Procs
      /\ pc \in [Procs -> WorkerSteps \cup CallerSteps]
      /\ recordedBy \in [Stamps -> SUBSET Procs]
      /\ MaxClaims \in Nat
  BY ConstantsAssumption DEF TypeOK, ProcTypes, HistoryTypes, Procs
<1>b. v \notin Workers
  BY ConstantsAssumption
<1>1. mark[v] \in Stamps
  BY <1>a, HeldFacts
<1>2. /\ recordedBy' = [recordedBy EXCEPT ![mark[v]] = @ \cup {v}]
      /\ lastStamp' = lastStamp
  BY DEF Record, clockVars
<1>3. mark' = mark /\ stamp' = stamp
  BY <1>b DEF Proceed, ReadAgain, Leave
<1>4. Recorded(v)'
  BY <1>a, <1>1, <1>2, <1>3 DEF Recorded, Stamps
<1>5. CASE ReadAgain(v)
  BY <1>a, <1>2, <1>3, <1>4, <1>5 DEF ReadAgain, CallerOf
<1>6. CASE \E code \in {"503", "500"} : Leave(v, "reclaim", code)
  <2>1. PICK code \in {"503", "500"} : Reply(v, code)
    BY <1>6, <1>b DEF Leave
  <2> QED BY <1>2, <1>3, <1>4, <2>1, RepliedCaller
<1> QED BY <1>5, <1>6 DEF Proceed

LEMMA CallerInvStep ==
  ASSUME TypeOK, StampInv, JobInv, CallerInv, [Next]_vars
  PROVE  CallerInv'
<1>a. /\ pc \in [Procs -> WorkerSteps \cup CallerSteps]
      /\ target \in [Procs -> Cases \cup {NoCase}]
      /\ job \in [Procs -> Runs \cup {NoRun}]
      /\ stamp \in [Procs -> 0..MaxClaims]
      /\ mark \in [Procs -> 0..MaxClaims]
      /\ answer \in [Procs -> Answers]
      /\ recordedBy \in [Stamps -> SUBSET Procs]
      /\ startedAt \in [Runs -> 0..MaxClaims]
      /\ lastStamp \in Nat /\ MaxClaims \in Nat
  BY ConstantsAssumption DEF TypeOK, TableTypes, ProcTypes, HistoryTypes
<1>b. \A w \in Workers : w \in Procs /\ w \notin Callers
  BY ConstantsAssumption DEF Procs
<1>c. \A v \in Callers : v \in Procs /\ v \notin Workers
  BY ConstantsAssumption DEF Procs
<1>d. \A v \in Callers : CallerOf(v)
  BY DEF CallerInv
<1>e. \A v \in Callers : ~Recorded(v) <=> mark[v] = 0 \/ v \notin recordedBy[mark[v]]
  BY DEF Recorded
<1> USE <1>a DEF caseVars, runVars, auditVars, clockVars, procVars, history
<1>1. ASSUME UNCHANGED <<procVars, recordedBy>> PROVE CallerInv'
  <2>1. \A v \in Callers : SameRequest(v) /\ NoNewRecord(v)
    BY <1>1 DEF SameRequest, NoNewRecord
  <2> QED BY <1>c, <1>d, <2>1, UnmovedCaller, MarkEffects DEF CallerInv
<1>2. ASSUME NEW p \in Procs, UNCHANGED recordedBy,
             \A q \in Procs \ {p} :
                /\ pc'[q] = pc[q] /\ answer'[q] = answer[q] /\ mark'[q] = mark[q]
                /\ stamp'[q] = stamp[q] /\ job'[q] = job[q],
             p \in Callers => CallerOf(p)'
      PROVE  CallerInv'
  <2>1. \A v \in Callers \ {p} : SameRequest(v) /\ NoNewRecord(v)
    BY <1>2, <1>c DEF SameRequest, NoNewRecord
  <2> QED BY <1>2, <2>1, OneRequestMoves
<1>3. ASSUME NEW w \in Workers,
             ReclaimSelect(w) \/ ReclaimCommit(w) \/ NothingPending(w) \/ Crash(w) \/ StartWorker(w)
      PROVE  CallerInv'
  <2>1. UNCHANGED recordedBy
    BY <1>3 DEF ReclaimSelect, ReclaimCommit, NothingPending, Crash, StartWorker
  <2>2. \A q \in Procs \ {w} :
                /\ pc'[q] = pc[q] /\ answer'[q] = answer[q] /\ mark'[q] = mark[q]
                /\ stamp'[q] = stamp[q] /\ job'[q] = job[q]
    BY <1>3 DEF ReclaimSelect, ReclaimCommit, NothingPending, Crash, StartWorker, Leave
  <2> QED BY <1>2, <1>b, <2>1, <2>2
<1>4. ASSUME NEW p \in Procs, NEW r \in Runs, Claim(p, r),
             \A q \in Procs \ {p} : answer'[q] = answer[q],
             p \in Callers => answer'[p].code = "none"
      PROVE  CallerInv'
  <2>1. UNCHANGED recordedBy
    BY <1>4 DEF Claim
  <2>2. \A q \in Procs \ {p} :
                /\ pc'[q] = pc[q] /\ answer'[q] = answer[q] /\ mark'[q] = mark[q]
                /\ stamp'[q] = stamp[q] /\ job'[q] = job[q]
    BY <1>4 DEF Claim
  <2>3. p \in Callers => CallerOf(p)'
    BY <1>4, ClaimCaller
  <2> QED BY <1>2, <2>1, <2>2, <2>3
<1>5. ASSUME NEW w \in Workers, ClaimOne(w) PROVE CallerInv'
  <2>1. PICK r \in Runs : Claim(w, r)
    BY <1>5 DEF ClaimOne
  <2> QED BY <1>4, <1>5, <1>b, <2>1 DEF ClaimOne
<1>6. ASSUME NEW v \in Callers, NEW code, Reply(v, code), UNCHANGED <<stamp, lastStamp, recordedBy>>,
             \/ UNCHANGED <<job, mark>>
             \/ job' = [job EXCEPT ![v] = NoRun] /\ mark' = [mark EXCEPT ![v] = 0],
             code \in {"200", "503"} => Recorded(v)',
             code \in {"404", "409"} => ~Recorded(v)'
      PROVE  CallerInv'
  <2>1. CallerOf(v)'
    BY <1>6, <1>d, RepliedCaller
  <2>2. \A q \in Procs \ {v} :
                /\ pc'[q] = pc[q] /\ answer'[q] = answer[q] /\ mark'[q] = mark[q]
                /\ stamp'[q] = stamp[q] /\ job'[q] = job[q]
    BY <1>6 DEF Reply
  <2> QED BY <1>2, <1>6, <1>c, <2>1, <2>2
<1>7. ASSUME NEW v \in Callers, NEW c \in Cases, Refuse(v, c) PROVE CallerInv'
  <2>1. mark'[v] = 0
    BY <1>7, <1>c DEF Refuse
  <2>2. ~Recorded(v)'
    BY <2>1 DEF Recorded
  <2>3. PICK code \in {"404", "409"} : Reply(v, code)
    BY <1>7 DEF Refuse
  <2> QED BY <1>6, <1>7, <2>2, <2>3 DEF Refuse
<1>8. ASSUME NEW v \in Callers, NEW c, NEW step \in {"inserting", "enqueuing"},
             Begin(v, c, step), UNCHANGED <<stamp, lastStamp, recordedBy>>
      PROVE  CallerInv'
  <2>1. /\ pc'[v] = step /\ answer'[v].code = "none" /\ mark'[v] = 0 /\ stamp'[v] = stamp[v]
    BY <1>8, <1>c DEF Begin, NoAnswer
  <2>2. CallerOf(v)'
    BY <1>8, <1>d, <2>1 DEF CallerOf
  <2>3. \A q \in Procs \ {v} :
                /\ pc'[q] = pc[q] /\ answer'[q] = answer[q] /\ mark'[q] = mark[q]
                /\ stamp'[q] = stamp[q] /\ job'[q] = job[q]
    BY <1>8 DEF Begin
  <2> QED BY <1>2, <1>8, <1>c, <2>2, <2>3
<1>9. ASSUME NEW v \in Callers, NEW c \in Cases, EnqueueCheck(v, c) PROVE CallerInv'
  BY <1>7, <1>8, <1>9 DEF EnqueueCheck
<1>10. ASSUME NEW v \in Callers, NEW c \in Cases, VisitorClaim(v, c) PROVE CallerInv'
  <2>1. ASSUME NEW r \in Runs, Claim(v, r), answer' = [answer EXCEPT ![v] = NoAnswer]
        PROVE  CallerInv'
    BY <1>4, <1>c, <2>1 DEF NoAnswer
  <2> QED BY <1>7, <1>8, <1>10, <2>1 DEF VisitorClaim, InFlightOf
<1>11. ASSUME NEW v \in Callers, EnqueueInsert(v) PROVE CallerInv'
  <2>1. mark[v] = 0
    BY <1>11, <1>d DEF EnqueueInsert, CallerOf
  <2>2. UNCHANGED <<mark, job, stamp, lastStamp, recordedBy>>
    BY <1>11 DEF EnqueueInsert
  <2>3. ~Recorded(v)'
    BY <2>1, <2>2 DEF Recorded
  <2>4. PICK code \in {"201", "409", "500"} : Reply(v, code)
    BY <1>11 DEF EnqueueInsert
  <2> QED BY <1>6, <2>2, <2>3, <2>4
<1>12. ASSUME NEW v \in Callers, VisitorInsert(v) PROVE CallerInv'
  <2>1. mark[v] = 0 /\ answer[v].code = "none"
    BY <1>12, <1>d DEF VisitorInsert, CallerOf
  <2>2. ASSUME NEW r \in Runs, Claim(v, r), UNCHANGED answer PROVE CallerInv'
    BY <1>4, <1>c, <2>1, <2>2
  <2>3. ASSUME Reply(v, "500"), UNCHANGED <<job, mark, stamp, lastStamp, recordedBy>>
        PROVE  CallerInv'
    BY <1>6, <2>3
  <2> QED BY <1>12, <2>2, <2>3 DEF VisitorInsert
<1>13. ASSUME NEW p \in Procs, ReadMark(p) PROVE CallerInv'
  <2>1. UNCHANGED recordedBy
    BY <1>13 DEF ReadMark
  <2>2. \A q \in Procs \ {p} :
                /\ pc'[q] = pc[q] /\ answer'[q] = answer[q] /\ mark'[q] = mark[q]
                /\ stamp'[q] = stamp[q] /\ job'[q] = job[q]
    BY <1>13 DEF ReadMark
  <2>3. ASSUME p \in Callers PROVE CallerOf(p)'
    <3>1. /\ pc[p] = "claimed" /\ pc'[p] = "generating" /\ mark'[p] = startedAt[job[p]]
          /\ UNCHANGED <<stamp, answer, lastStamp>>
      BY <1>13 DEF ReadMark
    <3>2. startedAt[job[p]] = 0 \/ startedAt[job[p]] >= stamp[p]
      BY <1>d, <2>3, <3>1 DEF CallerOf
    <3> QED BY <1>d, <2>1, <2>3, <3>1, <3>2 DEF CallerOf
  <2> QED BY <1>2, <2>1, <2>2, <2>3
<1>14. ASSUME NEW p \in Procs, NEW outcome, pc[p] = "generating", StillHeld(p),
              Record(p, outcome), Proceed(p, outcome)
       PROVE  CallerInv'
  <2>1. \A q \in Procs \ {p} : SameRequest(q)
    BY <1>14 DEF Proceed, ReadAgain, Leave, Reply, SameRequest
  <2>2. \A q \in Procs \ {p} : NoNewRecord(q)
    BY <1>14 DEF Record, NoNewRecord
  <2>3. p \in Callers => CallerOf(p)'
    BY <1>14, <1>d, RecordCaller
  <2> QED BY <1>c, <2>1, <2>2, <2>3, OneRequestMoves
<1>15. ASSUME NEW p \in Procs, NEW code \in ErrorCodes, FinishFailed(p, code) PROVE CallerInv'
  BY <1>14, <1>15 DEF FinishFailed
<1>16. ASSUME NEW p \in Procs, NEW outcome \in {"PASSED", "REJECTED"}, FinishScored(p, outcome)
       PROVE CallerInv'
  BY <1>14, <1>16 DEF FinishScored
<1>17. ASSUME NEW p \in Procs, NEW step, NEW code \in {"409", "500"}, Leave(p, step, code),
              UNCHANGED <<lastStamp, recordedBy>>,
              p \in Callers /\ code = "409" => ~Recorded(p)
       PROVE  CallerInv'
  <2>1. CASE p \in Workers
    <3>1. \A q \in Procs \ {p} :
                /\ pc'[q] = pc[q] /\ answer'[q] = answer[q] /\ mark'[q] = mark[q]
                /\ stamp'[q] = stamp[q] /\ job'[q] = job[q]
      BY <1>17, <2>1 DEF Leave
    <3> QED BY <1>2, <1>17, <1>b, <2>1, <3>1
  <2>2. CASE p \in Callers
    <3>1. Reply(p, code) /\ UNCHANGED <<job, stamp, mark>>
      BY <1>17, <1>c, <2>2 DEF Leave
    <3>2. code = "409" => ~Recorded(p)'
      BY <1>17, <2>2, <3>1 DEF Recorded
    <3> QED BY <1>6, <1>17, <2>2, <3>1, <3>2
  <2> QED BY <2>1, <2>2 DEF Procs
<1>18. ASSUME NEW p \in Procs, FinishDuplicate(p) PROVE CallerInv'
  BY <1>17, <1>18 DEF FinishDuplicate
<1>19. ASSUME NEW p \in Procs, FinishDiscarded(p) PROVE CallerInv'
  <2>1. p \in Callers => ~Recorded(p)
    BY <1>19, <1>d DEF FinishDiscarded, CallerOf, Recorded, Stamps
  <2> QED BY <1>17, <1>19, <2>1 DEF FinishDiscarded, Dropped
<1>20. ASSUME NEW v \in Callers, Respond(v) \/ LoseRequest(v) PROVE CallerInv'
  <2>1. UNCHANGED <<recordedBy, mark, stamp, job, lastStamp>>
    BY <1>20 DEF Respond, LoseRequest
  <2>2. \A q \in Procs \ {v} : pc'[q] = pc[q] /\ answer'[q] = answer[q]
    BY <1>20 DEF Respond, LoseRequest
  <2>3. CallerOf(v)'
    <3>1. Recorded(v)' <=> Recorded(v)
      BY <2>1 DEF Recorded
    <3>2. CASE Respond(v)
      <4>1. pc'[v] = "idle" /\ answer'[v].code = "200" /\ Recorded(v)
        BY <1>c, <1>d, <3>2 DEF Respond, CallerOf
      <4> QED BY <1>d, <2>1, <3>1, <4>1 DEF CallerOf
    <3>3. CASE LoseRequest(v)
      <4>1. pc'[v] = "idle" /\ answer'[v] = answer[v]
        BY <1>c, <3>3 DEF LoseRequest
      <4> QED BY <1>d, <2>1, <3>1, <4>1 DEF CallerOf
    <3> QED BY <1>20, <3>2, <3>3
  <2> QED BY <1>2, <1>c, <2>1, <2>2, <2>3
<1>22. ASSUME NEW v \in Callers, DatabaseFails(v) PROVE CallerInv'
  <2>1. PICK code \in {"500"} : Reply(v, code)
    BY <1>22 DEF DatabaseFails
  <2> QED BY <1>6, <1>22, <2>1 DEF DatabaseFails
<1>21. CallerInv'
  <2>1. ASSUME NEW p \in Procs, Finish(p) PROVE CallerInv'
    BY <2>1, <1>15, <1>16, <1>18, <1>19 DEF Finish
  <2>2. ASSUME NEW w \in Workers, WorkerStep(w) \/ Crash(w) \/ StartWorker(w) PROVE CallerInv'
    BY <2>1, <2>2, <1>b, <1>3, <1>5, <1>13 DEF WorkerStep
  <2>3. ASSUME NEW v \in Callers, NewRequest(v) \/ CallerStep(v) \/ LoseRequest(v)
                                   \/ DatabaseFails(v) PROVE CallerInv'
    BY <2>1, <2>3, <1>c, <1>9, <1>10, <1>11, <1>12, <1>13, <1>20, <1>22
    DEF NewRequest, CallerStep
  <2>4. ASSUME NEW c \in Cases, CreateAssessment(c) PROVE CallerInv'
    BY <2>4, <1>1 DEF CreateAssessment
  <2>5. ASSUME Tick \/ UNCHANGED vars PROVE CallerInv'
    BY <2>5, <1>1 DEF Tick, vars
  <2> QED BY <2>2, <2>3, <2>4, <2>5 DEF Next
<1> QED BY <1>21

(* The whole of the inductive invariant holds: the tables and, beside them, *)
(* what each open request has recorded so far.                             *)
THEOREM Invariant == Spec => []IInv
<1>1. Init => CallerInv
  BY ConstantsAssumption DEF Init, CallerInv, CallerOf, Recorded, NoAnswer, Procs
<1>2. TableInv /\ CallerInv /\ [Next]_vars => CallerInv'
  BY CallerInvStep DEF TableInv
<1> QED BY <1>1, <1>2, TableInvInit, TableInvStep, PTL DEF Spec, IInv

(* A caller hears 200 or 503 only about what its own request recorded, and *)
(* of a missing assessment or a conflict only if it recorded nothing, also *)
(* when sessions fail under the requests at any point.                     *)
THEOREM AnswersAreTrue == Spec => []AnswersMatchRecords
<1>1. IInv => AnswersMatchRecords
  BY DEF IInv, CallerInv, CallerOf, Recorded, AnswersMatchRecords
<1> QED BY <1>1, Invariant, PTL

(***************************************************************************)
(* How an ended run may come back                                          *)
(***************************************************************************)

(* A row leaves a final status only where a reclaim commits that had read  *)
(* it earlier, when it was still overdue: no other step of anybody reopens *)
(* what has ended.                                                         *)
ReopenedByReclaim ==
    \A r \in Runs :
        runStatus[r] \in FinalStatuses =>
            \/ runStatus'[r] = runStatus[r]
            \/ \E w \in Workers : r \in snapshot[w] /\ runStatus'[r] = "PENDING"

LEMMA ReopenStep == TableInv /\ [Next]_vars => ReopenedByReclaim
<1> SUFFICES ASSUME TableInv, [Next]_vars PROVE ReopenedByReclaim
  OBVIOUS
<1>a. TypeOK /\ StampInv /\ JobInv /\ runStatus \in [Runs -> RunStatuses]
  BY DEF TableInv, TypeOK, TableTypes
<1> USE <1>a DEF ReopenedByReclaim
<1>1. ASSUME NEW q \in Runs, runStatus[q] \notin FinalStatuses,
             \A r \in Runs \ {q} : runStatus'[r] = runStatus[r]
      PROVE ReopenedByReclaim
  BY <1>1
<1>2. ASSUME Quiet PROVE ReopenedByReclaim
  BY <1>2 DEF Quiet, runVars
<1>3. ASSUME NEW c \in Cases, CreateAssessment(c) PROVE ReopenedByReclaim
  BY <1>1, <1>3 DEF CreateAssessment, FinalStatuses
<1>4. ASSUME NEW v \in Callers, NEW r \in Runs, EnqueueRow(v, r) \/ InsertRun(v, r)
      PROVE ReopenedByReclaim
  BY <1>1, <1>4 DEF EnqueueRow, InsertRun, Claim, FinalStatuses
<1>5. ASSUME NEW p \in Procs, NEW r \in Runs, TakeUp(p, r) PROVE ReopenedByReclaim
  BY <1>1, <1>5 DEF TakeUp, Claim, FinalStatuses
<1>6. ASSUME NEW w \in Workers, Reopen(w) PROVE ReopenedByReclaim
  BY <1>6 DEF Reopen, Reopened
<1>7. ASSUME NEW p \in Procs, NEW outcome, pc[p] = "generating", StillHeld(p), Record(p, outcome)
      PROVE ReopenedByReclaim
  BY <1>1, <1>7, HeldFacts DEF Record, FinalStatuses
<1>8. ASSUME NEW p \in Procs, NEW code \in ErrorCodes, FinishFailed(p, code)
      PROVE ReopenedByReclaim
  BY <1>7, <1>8 DEF FinishFailed
<1>9. ASSUME NEW p \in Procs, NEW outcome \in {"PASSED", "REJECTED"}, FinishScored(p, outcome)
      PROVE ReopenedByReclaim
  BY <1>7, <1>9 DEF FinishScored
<1> QED BY StepEffects, <1>2, <1>3, <1>4, <1>5, <1>6, <1>8, <1>9

(* Whatever workers and callers do, an ended run is reopened by nothing    *)
(* but the commit of a reclaim whose snapshot still names it.              *)
THEOREM OnlyReclaimsReopen == Spec => [][ReopenedByReclaim]_vars
<1>1. TableInv /\ [Next]_vars => [ReopenedByReclaim]_vars
  BY ReopenStep
<1> QED BY <1>1, TablesInvariant, PTL DEF Spec

(* In the public deployment, which starts no worker, an ended run never    *)
(* changes its status again.                                               *)
THEOREM EndedForGood ==
  ASSUME Workers = {}
  PROVE  Spec => EndedRunsStayEnded
<1>1. TableInv /\ [Next]_vars =>
        [\A r \in Runs : runStatus[r] \in FinalStatuses => runStatus'[r] = runStatus[r]]_vars
  BY ReopenStep DEF ReopenedByReclaim
<1> QED BY <1>1, TablesInvariant, PTL DEF Spec, EndedRunsStayEnded

(* Between its record and its answer a caller's run has ended.             *)
ShownInv ==
    \A v \in Callers :
        /\ pc[v] = "rereading" => runStatus[job[v]] \in FinalStatuses
        /\ answer[v].code = "200" => answer[v].shows \in FinalStatuses

(* What a step may do to a caller: nothing that is shown changes, the      *)
(* caller turns to rereading a run whose result it just recorded, or it    *)
(* answers with what it reads.                                             *)
Unshown(v) ==
    /\ pc'[v] = "rereading" => pc[v] = "rereading" /\ job'[v] = job[v]
    /\ answer'[v].code = "200" => answer'[v] = answer[v]
Recording(v) ==
    /\ runStatus'[job'[v]] \in FinalStatuses
    /\ answer'[v] = answer[v]
Showing(v) ==
    /\ pc[v] = "rereading" /\ pc'[v] # "rereading"
    /\ answer'[v].shows = runStatus[job[v]]
ShownAfter(v) == Unshown(v) \/ Recording(v) \/ Showing(v)

LEMMA ShownMoves ==
  ASSUME Workers = {}, TableInv, [Next]_vars, NEW v \in Callers
  PROVE  ShownAfter(v)
<1>a. /\ TypeOK /\ StampInv /\ JobInv
      /\ v \in Procs /\ Procs = Callers
      /\ pc \in [Procs -> WorkerSteps \cup CallerSteps]
      /\ job \in [Procs -> Runs \cup {NoRun}]
      /\ answer \in [Procs -> Answers]
      /\ runStatus \in [Runs -> RunStatuses]
  BY DEF TableInv, TypeOK, TableTypes, ProcTypes, Procs
<1> USE <1>a DEF ShownAfter
<1>1. ASSUME UNCHANGED procVars PROVE ShownAfter(v)
  BY <1>1 DEF procVars, Unshown
<1>2. ASSUME NEW u \in Callers, NEW code \in {"201", "404", "409", "500", "503"}, Reply(u, code),
             u # v => job'[v] = job[v]
      PROVE Unshown(v)
  <2>1. CASE u = v
    <3>1. pc'[v] = "idle" /\ answer'[v].code = code
      BY <1>2, <2>1 DEF Reply, NoAnswer
    <3> QED BY <1>2, <3>1 DEF Unshown
  <2>2. CASE u # v
    BY <1>2, <2>2 DEF Reply, Unshown
  <2> QED BY <2>1, <2>2
<1>3. ASSUME NEW u \in Callers, NEW c \in Cases, VisitorClaim(u, c) PROVE Unshown(v)
  <2>1. CASE Refuse(u, c)
    BY <1>2, <2>1 DEF Refuse
  <2>2. CASE Begin(u, c, "inserting")
    BY <2>2 DEF Begin, NoAnswer, Unshown
  <2>3. ASSUME NEW r \in Runs, Claim(u, r), answer' = [answer EXCEPT ![u] = NoAnswer]
        PROVE Unshown(v)
    BY <2>3 DEF Claim, NoAnswer, Unshown
  <2> QED BY <1>3, <2>1, <2>2, <2>3 DEF VisitorClaim, InFlightOf
<1>4. ASSUME NEW u \in Callers, NEW c \in Cases, EnqueueCheck(u, c) PROVE Unshown(v)
  <2>1. CASE Refuse(u, c)
    BY <1>2, <2>1 DEF Refuse
  <2>2. CASE Begin(u, c, "enqueuing")
    BY <2>2 DEF Begin, NoAnswer, Unshown
  <2> QED BY <1>4, <2>1, <2>2 DEF EnqueueCheck
<1>5. ASSUME NEW u \in Callers, VisitorInsert(u) PROVE Unshown(v)
  <2>1. ASSUME NEW r \in Runs, Claim(u, r), UNCHANGED answer PROVE Unshown(v)
    BY <2>1 DEF Claim, Unshown
  <2> QED BY <1>2, <1>5, <2>1 DEF VisitorInsert
<1>6. ASSUME NEW u \in Callers, EnqueueInsert(u) PROVE Unshown(v)
  BY <1>2, <1>6 DEF EnqueueInsert
<1>7. ASSUME NEW u \in Callers, ReadMark(u) \/ LoseRequest(u) PROVE Unshown(v)
  BY <1>7 DEF ReadMark, LoseRequest, Unshown
<1>8. ASSUME NEW u \in Callers, FinishDuplicate(u) \/ FinishDiscarded(u) PROVE Unshown(v)
  BY <1>2, <1>8 DEF FinishDuplicate, FinishDiscarded, Dropped, Leave
<1>9. ASSUME NEW u \in Callers, NEW outcome, pc[u] = "generating", StillHeld(u),
             Record(u, outcome), Proceed(u, outcome)
      PROVE ShownAfter(v)
  <2>1. job[u] \in Runs /\ runStatus' = [runStatus EXCEPT ![job[u]] = RunStatusAfter(outcome)]
    BY <1>9, HeldFacts DEF Record
  <2>2. CASE ReadAgain(u) /\ u = v
    <3>1. job' = job /\ answer' = answer
      BY <2>2 DEF ReadAgain
    <3>2. runStatus'[job[v]] = RunStatusAfter(outcome)
      BY <2>1, <2>2
    <3>3. Recording(v)
      BY <3>1, <3>2, OutcomeFinal DEF Recording
    <3> QED BY <3>3
  <2>3. CASE ReadAgain(u) /\ u # v
    BY <2>3 DEF ReadAgain, Unshown
  <2>4. CASE \E code \in {"503", "500"} : Leave(u, "reclaim", code)
    BY <1>2, <2>4 DEF Leave
  <2> QED BY <1>9, <2>2, <2>3, <2>4 DEF Proceed
<1>10. ASSUME NEW u \in Callers, Respond(u) PROVE ShownAfter(v)
  <2>1. CASE u = v
    BY <1>10, <2>1 DEF Respond, Showing
  <2>2. CASE u # v
    BY <1>10, <2>2 DEF Respond, Unshown
  <2> QED BY <2>1, <2>2
<1>11. ASSUME NEW u \in Callers, Finish(u) PROVE ShownAfter(v)
  BY <1>8, <1>9, <1>11 DEF Finish, FinishFailed, FinishScored
<1>14. ASSUME NEW u \in Callers, DatabaseFails(u) PROVE Unshown(v)
  BY <1>2, <1>14 DEF DatabaseFails
<1>12. ASSUME NEW u \in Callers, NewRequest(u) \/ CallerStep(u) \/ LoseRequest(u)
                                 \/ DatabaseFails(u)
       PROVE ShownAfter(v)
  BY <1>3, <1>4, <1>5, <1>6, <1>7, <1>10, <1>11, <1>12, <1>14
  DEF NewRequest, CallerStep
<1>13. ASSUME \/ UNCHANGED vars
              \/ Tick
              \/ \E c \in Cases : CreateAssessment(c)
       PROVE UNCHANGED procVars
  BY <1>13 DEF vars, Tick, CreateAssessment
<1> QED BY <1>1, <1>12, <1>13 DEF Next

LEMMA ShownStep ==
  ASSUME Workers = {}
  PROVE  TableInv /\ ShownInv /\ [Next]_vars => ShownInv'
<1> SUFFICES ASSUME TableInv, ShownInv, [Next]_vars, NEW v \in Callers
             PROVE  /\ pc'[v] = "rereading" => runStatus'[job'[v]] \in FinalStatuses
                    /\ answer'[v].code = "200" => answer'[v].shows \in FinalStatuses
  BY DEF ShownInv
<1>1. ShownAfter(v)
  BY ShownMoves
<1>2. pc[v] = "rereading" => job[v] \in Runs
  BY DEF TableInv, JobInv, LocalsOf, Procs
<1>3. \A r \in Runs : runStatus[r] \in FinalStatuses => runStatus'[r] = runStatus[r]
  BY ReopenStep DEF ReopenedByReclaim
<1>4. /\ pc[v] = "rereading" => runStatus[job[v]] \in FinalStatuses
      /\ answer[v].code = "200" => answer[v].shows \in FinalStatuses
  BY DEF ShownInv
<1>5. CASE Unshown(v)
  BY <1>2, <1>3, <1>4, <1>5 DEF Unshown
<1>6. CASE Recording(v)
  BY <1>4, <1>6 DEF Recording
<1>7. CASE Showing(v)
  BY <1>4, <1>7 DEF Showing
<1> QED BY <1>1, <1>5, <1>6, <1>7 DEF ShownAfter

(* In the public deployment a 200 never shows a run that somebody is still *)
(* executing, although the row is read again after the recording commit.   *)
THEOREM AnswersShowEndedRuns ==
  ASSUME Workers = {}
  PROVE  Spec => []AnswerShowsEndedRun
<1>1. Init => ShownInv
  BY DEF Init, ShownInv, Procs, NoAnswer
<1>2. TableInv /\ ShownInv /\ [Next]_vars => ShownInv'
  BY ShownStep
<1>3. ShownInv => AnswerShowsEndedRun
  BY DEF ShownInv, AnswerShowsEndedRun
<1> QED BY <1>1, <1>2, <1>3, TablesInvariant, PTL DEF Spec

=============================================================================
