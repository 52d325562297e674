-------------------------- MODULE ExplanationRuns --------------------------
(***************************************************************************)
(* The life of explanation runs in PostgreSQL: loan_agent/worker.py and    *)
(* the POST handler of loan_agent/api/explanations.py, with the rows of    *)
(* loan_agent/db/models.py they write.                                     *)
(*                                                                         *)
(* Processes.  A worker is one process of `python -m loan_agent.worker`,   *)
(* looping reclaim_stale; run_once.  A caller is one HTTP client of the    *)
(* explanation-runs endpoint, with or without a visitor key; it has one    *)
(* request in progress at a time.                                          *)
(*                                                                         *)
(* Grain.  One action is one committed transaction, except where a         *)
(* transaction reads without a lock and writes later: there the read and   *)
(* the commit are two actions, since READ COMMITTED lets other commits in  *)
(* between.  A row lock taken by FOR UPDATE is held to the commit, so a    *)
(* transaction that locks what it reads stays one action.                  *)
(*                                                                         *)
(* Time.  started_at is the serial number of the claim that wrote it (two  *)
(* claims never write the same microsecond, and the clock does not run     *)
(* backwards); 0 is NULL.  `cutoff' is now minus RUN_TIMEOUT_SECONDS on    *)
(* that scale: a claim s is overdue when s < cutoff.                       *)
(***************************************************************************)
EXTENDS Naturals

CONSTANTS
    Workers,    \* worker processes
    Callers,    \* clients of POST .../explanation-runs
    Cases,      \* assessments
    Runs,       \* ids the explanation_run table may come to hold
    NoCase, NoRun,
    MaxClaims   \* bound: claims in one behaviour

ASSUME ConstantsAssumption ==
    /\ Workers \cap Callers = {}
    /\ NoCase \notin Cases
    /\ NoRun \notin Runs
    /\ MaxClaims \in Nat

VARIABLES
    (* assessment_case *)
    caseStatus, current,
    (* explanation_run *)
    owner, runStatus, startedAt, errorCode, explanationText,
    (* eval_result: passed, "NONE" while the run has no row *)
    evalResult,
    (* audit_event: rows per target run, by action *)
    requested, reclaimed, finished,
    (* wall clock *)
    cutoff, lastStamp,
    (* a process's locals *)
    pc, target, job, stamp, mark, snapshot, answer,
    (* history of the behaviour, read by no action *)
    claims, claimant, recordedBy

caseVars  == <<caseStatus, current>>
runVars   == <<owner, runStatus, startedAt, errorCode, explanationText>>
auditVars == <<requested, reclaimed, finished>>
clockVars == <<cutoff, lastStamp>>
procVars  == <<pc, target, job, stamp, mark, snapshot, answer>>
history   == <<claims, claimant, recordedBy>>
vars == <<caseVars, runVars, evalResult, auditVars, clockVars, procVars, history>>

Procs  == Workers \cup Callers
Stamps == 1..MaxClaims

InFlightStatuses == {"PENDING", "RUNNING"}
FinalStatuses    == {"COMPLETED", "FAILED", "REVIEW_REQUIRED"}
RunStatuses      == {"ABSENT"} \cup InFlightStatuses \cup FinalStatuses
CaseStatuses     == {"ABSENT", "SCREENED", "COMPLETED", "EXPLANATION_FAILED",
                     "REVIEW_REQUIRED"}
ErrorCodes       == {"PROVIDER_TIMEOUT", "PROVIDER_ERROR"}
WorkerSteps      == {"down", "reclaim", "reclaiming", "poll", "claimed", "generating"}
CallerSteps      == {"idle", "inserting", "enqueuing", "claimed", "generating", "rereading"}
(* HTTP status of the last answer; a 200 carries the run as re-read.       *)
NoAnswer         == [code |-> "none", shows |-> "ABSENT"]
Answers          == [code : {"none", "200", "201", "404", "409", "500", "503"},
                     shows : RunStatuses]

TableTypes ==
    /\ caseStatus \in [Cases -> CaseStatuses]
    /\ current \in [Cases -> Runs \cup {NoRun}]
    /\ owner \in [Runs -> Cases \cup {NoCase}]
    /\ runStatus \in [Runs -> RunStatuses]
    /\ startedAt \in [Runs -> 0..MaxClaims]
    /\ errorCode \in [Runs -> ErrorCodes \cup {"NONE"}]
    /\ explanationText \in [Runs -> 0..MaxClaims]
    /\ evalResult \in [Runs -> {"NONE", "PASSED", "REJECTED"}]

AuditTypes ==
    /\ requested \in [Runs -> Nat]
    /\ reclaimed \in [Runs -> Nat]
    /\ finished \in [Runs -> Nat]

ProcTypes ==
    /\ pc \in [Procs -> WorkerSteps \cup CallerSteps]
    /\ target \in [Procs -> Cases \cup {NoCase}]
    /\ job \in [Procs -> Runs \cup {NoRun}]
    /\ stamp \in [Procs -> 0..MaxClaims]
    /\ mark \in [Procs -> 0..MaxClaims]
    /\ snapshot \in [Procs -> SUBSET Runs]
    /\ answer \in [Procs -> Answers]

HistoryTypes ==
    /\ cutoff \in Nat
    /\ lastStamp \in 0..MaxClaims
    /\ claims \in [Runs -> Nat]
    /\ claimant \in [Stamps -> SUBSET Procs]
    /\ recordedBy \in [Stamps -> SUBSET Procs]

TypeOK == TableTypes /\ AuditTypes /\ ProcTypes /\ HistoryTypes

Init ==
    /\ caseStatus = [c \in Cases |-> "ABSENT"]
    /\ current = [c \in Cases |-> NoRun]
    /\ owner = [r \in Runs |-> NoCase]
    /\ runStatus = [r \in Runs |-> "ABSENT"]
    /\ startedAt = [r \in Runs |-> 0]
    /\ errorCode = [r \in Runs |-> "NONE"]
    /\ explanationText = [r \in Runs |-> 0]
    /\ evalResult = [r \in Runs |-> "NONE"]
    /\ requested = [r \in Runs |-> 0]
    /\ reclaimed = [r \in Runs |-> 0]
    /\ finished = [r \in Runs |-> 0]
    /\ cutoff = 0
    /\ lastStamp = 0
    /\ pc = [p \in Procs |-> IF p \in Workers THEN "reclaim" ELSE "idle"]
    /\ target = [p \in Procs |-> NoCase]
    /\ job = [p \in Procs |-> NoRun]
    /\ stamp = [p \in Procs |-> 0]
    /\ mark = [p \in Procs |-> 0]
    /\ snapshot = [p \in Procs |-> {}]
    /\ answer = [p \in Procs |-> NoAnswer]
    /\ claims = [r \in Runs |-> 0]
    /\ claimant = [s \in Stamps |-> {}]
    /\ recordedBy = [s \in Stamps |-> {}]

(***************************************************************************)
(* Rows and constraints                                                    *)
(***************************************************************************)
InFlightOf(c) == {r \in Runs : owner[r] = c /\ runStatus[r] \in InFlightStatuses}
NeverOverdue(r) == FALSE
Overdue(r)    == runStatus[r] = "RUNNING" /\ startedAt[r] < cutoff

(* uq_explanation_run_in_flight, on the run table as a statement would     *)
(* leave it: at most one in-flight run for each assessment.                *)
IndexDropped(status, of) == TRUE
UniqueInFlight(status, of) ==
    \A r, q \in Runs :
        /\ status[r] \in InFlightStatuses /\ status[q] \in InFlightStatuses
        /\ of[r] = of[q]
        => r = q

(* INSERT of run r for assessment c with its "requested" audit event.      *)
InsertRow(r, c) ==
    /\ owner' = [owner EXCEPT ![r] = c]
    /\ requested' = [requested EXCEPT ![r] = @ + 1]

(* The common end of both claims: RUNNING, started_at = now, commit.       *)
Claim(p, r) ==
    /\ lastStamp < MaxClaims
    /\ lastStamp' = lastStamp + 1
    /\ runStatus' = [runStatus EXCEPT ![r] = "RUNNING"]
    /\ startedAt' = [startedAt EXCEPT ![r] = lastStamp']
    /\ pc' = [pc EXCEPT ![p] = "claimed"]
    /\ job' = [job EXCEPT ![p] = r]
    /\ stamp' = [stamp EXCEPT ![p] = lastStamp']
    /\ mark' = [mark EXCEPT ![p] = 0]
    /\ claims' = [claims EXCEPT ![r] = @ + 1]
    /\ claimant' = [claimant EXCEPT ![lastStamp'] = {p}]
    /\ UNCHANGED recordedBy

(* The end of a request that did not reach a run of its own.               *)
Reply(v, code) ==
    /\ pc' = [pc EXCEPT ![v] = "idle"]
    /\ answer' = [answer EXCEPT ![v] = [NoAnswer EXCEPT !.code = code]]

(***************************************************************************)
(* Rows that appear: the assessment itself and the keyless POST            *)
(***************************************************************************)

(* _persist commits the assessment, its first PENDING run and the audit    *)
(* event of that run together.                                             *)
CreateAssessment(c) ==
    /\ caseStatus[c] = "ABSENT"
    /\ \E r \in Runs :
        /\ runStatus[r] = "ABSENT"
        /\ InsertRow(r, c)
        /\ runStatus' = [runStatus EXCEPT ![r] = "PENDING"]
    /\ caseStatus' = [caseStatus EXCEPT ![c] = "SCREENED"]
    /\ UNCHANGED <<current, startedAt, errorCode, explanationText, evalResult,
                   reclaimed, finished, clockVars, procVars, history>>

(* A request starts over with no run, no mark and no answer.               *)
Begin(v, c, step) ==
    /\ pc' = [pc EXCEPT ![v] = step]
    /\ target' = [target EXCEPT ![v] = c]
    /\ answer' = [answer EXCEPT ![v] = NoAnswer]
    /\ mark' = [mark EXCEPT ![v] = 0]
    /\ job' = [job EXCEPT ![v] = NoRun]

(* A request that is refused on the rows it reads first.                   *)
Refuse(v, c) ==
    /\ Reply(v, IF caseStatus[c] = "ABSENT" THEN "404" ELSE "409")
    /\ mark' = [mark EXCEPT ![v] = 0]
    /\ job' = [job EXCEPT ![v] = NoRun]
    /\ UNCHANGED <<target, stamp, snapshot, caseVars, runVars, evalResult, auditVars,
                   clockVars, history>>

(* regenerate_explanation without a key: SELECT, then INSERT.              *)
EnqueueCheck(v, c) ==
    /\ pc[v] = "idle"
    /\ \/ /\ caseStatus[c] = "ABSENT" \/ InFlightOf(c) # {}
          /\ Refuse(v, c)
       \/ /\ caseStatus[c] # "ABSENT" /\ InFlightOf(c) = {}
          /\ Begin(v, c, "enqueuing")
          /\ UNCHANGED <<stamp, snapshot, caseVars, runVars, evalResult, auditVars,
                         clockVars, history>>

(* A commit that took effect may yet be reported to the handler as failed, *)
(* when the connection breaks before the acknowledgement: then 500.        *)
EnqueueInsert(v) ==
    /\ pc[v] = "enqueuing"
    /\ \E r \in Runs :
        /\ runStatus[r] = "ABSENT"
        /\ \/ /\ UniqueInFlight([runStatus EXCEPT ![r] = "PENDING"],
                                [owner EXCEPT ![r] = target[v]])
              /\ InsertRow(r, target[v])
              /\ runStatus' = [runStatus EXCEPT ![r] = "PENDING"]
              /\ \E code \in {"201", "500"} : Reply(v, code)
           \/ /\ ~UniqueInFlight([runStatus EXCEPT ![r] = "PENDING"],
                                 [owner EXCEPT ![r] = target[v]])
              /\ Reply(v, "409")
              /\ UNCHANGED <<owner, requested, runStatus>>
    /\ UNCHANGED <<caseVars, startedAt, errorCode, explanationText, evalResult, reclaimed,
                   finished, clockVars, target, job, stamp, mark, snapshot, history>>

(***************************************************************************)
(* Claims                                                                  *)
(***************************************************************************)

(* reclaim_stale reads the overdue rows without locking them ...           *)
ReclaimSelect(w) ==
    /\ pc[w] = "reclaim"
    /\ snapshot' = [snapshot EXCEPT ![w] = {r \in Runs : Overdue(r)}]
    /\ pc' = [pc EXCEPT ![w] = IF snapshot'[w] = {} THEN "poll" ELSE "reclaiming"]
    /\ UNCHANGED <<caseVars, runVars, evalResult, auditVars, clockVars, target, job,
                   stamp, mark, answer, history>>

(* ... and its commit updates them by id, whatever they hold by then.  If  *)
(* the index refuses, the transaction rolls back and the exception leaves  *)
(* main(): the process ends.                                               *)
Reopened(w) == [r \in Runs |-> IF r \in snapshot[w] THEN "PENDING" ELSE runStatus[r]]

ReclaimCommit(w) ==
    /\ pc[w] = "reclaiming"
    /\ snapshot' = [snapshot EXCEPT ![w] = {}]
    /\ \/ /\ UniqueInFlight(Reopened(w), owner)
          /\ runStatus' = Reopened(w)
          /\ startedAt' = [r \in Runs |-> IF r \in snapshot[w] THEN 0 ELSE startedAt[r]]
          /\ reclaimed' = [r \in Runs |->
                             IF r \in snapshot[w] THEN reclaimed[r] + 1 ELSE reclaimed[r]]
          /\ pc' = [pc EXCEPT ![w] = "poll"]
       \/ /\ ~UniqueInFlight(Reopened(w), owner)
          /\ pc' = [pc EXCEPT ![w] = "down"]
          /\ UNCHANGED <<runStatus, startedAt, reclaimed>>
    /\ UNCHANGED <<caseVars, owner, errorCode, explanationText, evalResult, requested,
                   finished, clockVars, target, job, stamp, mark, answer, history>>

(* claim_one: some PENDING row under FOR UPDATE SKIP LOCKED.  The ids are  *)
(* random, so ORDER BY id picks any of them.                               *)
ClaimOne(w) ==
    /\ pc[w] = "poll"
    /\ \E r \in Runs : runStatus[r] = "PENDING" /\ Claim(w, r)
    /\ UNCHANGED <<caseVars, owner, errorCode, explanationText, evalResult, auditVars,
                   cutoff, target, snapshot, answer>>

NothingPending(w) ==
    /\ pc[w] = "poll"
    /\ \A r \in Runs : runStatus[r] # "PENDING"
    /\ pc' = [pc EXCEPT ![w] = "reclaim"]
    /\ UNCHANGED <<caseVars, runVars, evalResult, auditVars, clockVars, target, job,
                   stamp, mark, snapshot, answer, history>>

(* The audit events of a visitor's claim of an existing row: taking over a *)
(* RUNNING row records that its execution was given up.                    *)
NoTakeoverEvent(r) == UNCHANGED auditVars
TakeoverEvent(r) ==
    /\ reclaimed' = IF runStatus[r] = "RUNNING" THEN [reclaimed EXCEPT ![r] = @ + 1]
                                                ELSE reclaimed
    /\ UNCHANGED <<requested, finished>>

(* claim_for_visitor: the in-flight row is locked as it is read; when      *)
(* there is none, nothing is locked and the INSERT comes later.            *)
VisitorClaim(v, c) ==
    /\ pc[v] = "idle"
    /\ \/ /\ \/ caseStatus[c] = "ABSENT"
             \/ \E r \in InFlightOf(c) : runStatus[r] = "RUNNING" /\ ~Overdue(r)
          /\ Refuse(v, c)
       \/ /\ caseStatus[c] # "ABSENT" /\ InFlightOf(c) = {}
          /\ Begin(v, c, "inserting")
          /\ UNCHANGED <<stamp, snapshot, caseVars, runVars, evalResult, auditVars,
                         clockVars, history>>
       \/ /\ caseStatus[c] # "ABSENT"
          /\ \E r \in InFlightOf(c) :
              /\ runStatus[r] = "PENDING" \/ Overdue(r)
              /\ Claim(v, r)
              /\ TakeoverEvent(r)
          /\ target' = [target EXCEPT ![v] = c]
          /\ answer' = [answer EXCEPT ![v] = NoAnswer]
          /\ UNCHANGED <<caseVars, owner, errorCode, explanationText, evalResult, cutoff,
                         snapshot>>

(* The INSERT of claim_for_visitor; the row is RUNNING when it commits.    *)
(* An IntegrityError is caught nowhere on this path.                       *)
VisitorInsert(v) ==
    /\ pc[v] = "inserting"
    /\ \E r \in Runs :
        /\ runStatus[r] = "ABSENT"
        /\ \/ /\ UniqueInFlight([runStatus EXCEPT ![r] = "PENDING"],
                                [owner EXCEPT ![r] = target[v]])
              /\ InsertRow(r, target[v])
              /\ Claim(v, r)
              /\ UNCHANGED <<cutoff, answer>>
           \/ /\ ~UniqueInFlight([runStatus EXCEPT ![r] = "PENDING"],
                                 [owner EXCEPT ![r] = target[v]])
              /\ Reply(v, "500")
              /\ UNCHANGED <<owner, requested, runStatus, startedAt, clockVars, job,
                             stamp, mark, history>>
    /\ UNCHANGED <<caseVars, errorCode, explanationText, evalResult, reclaimed, finished,
                   target, snapshot>>

(***************************************************************************)
(* Execution of a claimed run                                              *)
(***************************************************************************)

(* _run_claimed reads the mark in a new session, after the claim has been  *)
(* committed and its lock released.                                        *)
ReadMark(p) ==
    /\ pc[p] = "claimed"
    /\ mark' = [mark EXCEPT ![p] = startedAt[job[p]]]
    /\ pc' = [pc EXCEPT ![p] = "generating"]
    /\ UNCHANGED <<caseVars, runVars, evalResult, auditVars, clockVars, target, job,
                   stamp, snapshot, answer, history>>

(* The fence of _finish, on the row it has just locked.                    *)
HeldByMark(p)   == startedAt[job[p]] = mark[p]
HeldByStatus(p) == runStatus[job[p]] = "RUNNING"
StillHeld(p) ==
    /\ runStatus[job[p]] = "RUNNING"
    /\ startedAt[job[p]] = mark[p]

(* eval_result has the run as its primary key.                             *)
NeverScored(r) == FALSE
Scored(r) == evalResult[r] # "NONE"

(* The statuses one outcome leaves on the run and on its assessment.       *)
OneVocabulary(outcome) ==
    CASE outcome = "PASSED"   -> "COMPLETED"
      [] outcome = "REJECTED" -> "REVIEW_REQUIRED"
      [] OTHER                -> "EXPLANATION_FAILED"
RunStatusAfter(outcome) ==
    CASE outcome = "PASSED"   -> "COMPLETED"
      [] outcome = "REJECTED" -> "REVIEW_REQUIRED"
      [] OTHER                -> "FAILED"
SettledAnyway(outcome) == IF outcome = "REJECTED" THEN "REVIEW_REQUIRED" ELSE "COMPLETED"
CaseStatusAfter(outcome) ==
    CASE outcome = "PASSED"   -> "COMPLETED"
      [] outcome = "REJECTED" -> "REVIEW_REQUIRED"
      [] OTHER                -> "EXPLANATION_FAILED"

(* Only a text that passed every scored metric is stored and pointed to.   *)
PublishAny(outcome) == TRUE
Publishable(outcome) == outcome = "PASSED"

(* The part of _finish that every recorded outcome shares.                 *)
Record(p, outcome) ==
    /\ runStatus' = [runStatus EXCEPT ![job[p]] = RunStatusAfter(outcome)]
    /\ caseStatus' = [caseStatus EXCEPT ![owner[job[p]]] = CaseStatusAfter(outcome)]
    /\ finished' = [finished EXCEPT ![job[p]] = @ + 1]
    /\ recordedBy' = [recordedBy EXCEPT ![mark[p]] = @ \cup {p}]
    /\ UNCHANGED <<owner, startedAt, requested, reclaimed, clockVars, claims, claimant>>

(* The end of an execution: a worker goes to `step' without its locals, a  *)
(* caller's request ends with `code'.                                      *)
Leave(p, step, code) ==
    IF p \in Workers
    THEN /\ pc' = [pc EXCEPT ![p] = step]
         /\ job' = [job EXCEPT ![p] = NoRun]
         /\ stamp' = [stamp EXCEPT ![p] = 0]
         /\ mark' = [mark EXCEPT ![p] = 0]
         /\ UNCHANGED answer
    ELSE Reply(p, code) /\ UNCHANGED <<job, stamp, mark>>

ReadAgain(p) ==
    /\ pc' = [pc EXCEPT ![p] = "rereading"]
    /\ UNCHANGED <<answer, job, stamp, mark>>

(* Where a process goes after _finish committed.  If the acknowledgement   *)
(* of that commit is lost, a timed-out caller hears 500 instead of 503.    *)
Proceed(p, outcome) ==
    IF p \in Callers /\ outcome # "PROVIDER_TIMEOUT"
    THEN ReadAgain(p)
    ELSE \E code \in {"503", "500"} : Leave(p, "reclaim", code)

(* The provider call ended in an error, or ran out of its 200 seconds.     *)
FinishFailed(p, code) ==
    /\ pc[p] = "generating"
    /\ StillHeld(p)
    /\ code = "PROVIDER_TIMEOUT" => stamp[p] < cutoff
    /\ Record(p, code)
    /\ errorCode' = [errorCode EXCEPT ![job[p]] = code]
    /\ Proceed(p, code)
    /\ UNCHANGED <<current, explanationText, evalResult, target, snapshot>>

(* The provider answered and the text was scored.                          *)
FinishScored(p, outcome) ==
    /\ pc[p] = "generating"
    /\ StillHeld(p)
    /\ ~Scored(job[p])
    /\ evalResult' = [evalResult EXCEPT ![job[p]] = outcome]
    /\ Record(p, outcome)
    /\ IF Publishable(outcome)
       THEN /\ explanationText' = [explanationText EXCEPT ![job[p]] = stamp[p]]
            /\ current' = [current EXCEPT ![owner[job[p]]] = job[p]]
       ELSE UNCHANGED <<explanationText, current>>
    /\ Proceed(p, outcome)
    /\ UNCHANGED <<errorCode, target, snapshot>>

(* A second score of one run breaks the primary key: the transaction rolls *)
(* back and the exception ends the worker, or the request with a 500.      *)
FinishDuplicate(p) ==
    /\ pc[p] = "generating"
    /\ StillHeld(p)
    /\ Scored(job[p])
    /\ Leave(p, "down", "500")
    /\ UNCHANGED <<caseVars, runVars, evalResult, auditVars, clockVars, target, snapshot,
                   history>>

(* The row is no longer this executor's: the result is dropped, a worker   *)
(* goes on and a caller hears of a conflict.                               *)
ReturnsNormally(p) == IF p \in Callers THEN ReadAgain(p) ELSE Leave(p, "reclaim", "409")
Dropped(p) == Leave(p, "reclaim", "409")

FinishDiscarded(p) ==
    /\ pc[p] = "generating"
    /\ ~StillHeld(p)
    /\ Dropped(p)
    /\ UNCHANGED <<caseVars, runVars, evalResult, auditVars, clockVars, target, snapshot,
                   history>>

(* The 200 answer shows the row as a further session reads it.             *)
Respond(v) ==
    /\ pc[v] = "rereading"
    /\ pc' = [pc EXCEPT ![v] = "idle"]
    /\ answer' = [answer EXCEPT ![v] = [code |-> "200", shows |-> runStatus[job[v]]]]
    /\ UNCHANGED <<caseVars, runVars, evalResult, auditVars, clockVars, target, job,
                   stamp, mark, snapshot, history>>

(***************************************************************************)
(* Environment                                                             *)
(***************************************************************************)

(* A worker process dies wherever it is; nothing but its memory is lost.   *)
Crash(w) ==
    /\ pc[w] # "down"
    /\ Leave(w, "down", "none")
    /\ snapshot' = [snapshot EXCEPT ![w] = {}]
    /\ UNCHANGED <<caseVars, runVars, evalResult, auditVars, clockVars, target, history>>

StartWorker(w) ==
    /\ pc[w] = "down"
    /\ pc' = [pc EXCEPT ![w] = "reclaim"]
    /\ UNCHANGED <<caseVars, runVars, evalResult, auditVars, clockVars, target, job,
                   stamp, mark, snapshot, answer, history>>

(* The app process dies under a request: the client gets no answer.        *)
LoseRequest(v) ==
    /\ pc[v] # "idle"
    /\ pc' = [pc EXCEPT ![v] = "idle"]
    /\ UNCHANGED <<caseVars, runVars, evalResult, auditVars, clockVars, target, job,
                   stamp, mark, snapshot, answer, history>>

(* A database session raises under a request: its first one, so that the   *)
(* request has no run and no mark of its own yet, or a later one.  A       *)
(* session that had not committed is rolled back; one that had leaves its  *)
(* commit (the step before).  Nothing on the path catches the exception.   *)
DatabaseFails(v) ==
    /\ Reply(v, "500")
    /\ \/ pc[v] # "idle" /\ UNCHANGED <<job, mark>>
       \/ /\ pc[v] = "idle"
          /\ mark' = [mark EXCEPT ![v] = 0]
          /\ job' = [job EXCEPT ![v] = NoRun]
    /\ UNCHANGED <<caseVars, runVars, evalResult, auditVars, clockVars, target, stamp,
                   snapshot, history>>

(* Time passes until one more claim is overdue.                            *)
Tick ==
    /\ cutoff <= lastStamp
    /\ cutoff' = cutoff + 1
    /\ UNCHANGED <<caseVars, runVars, evalResult, auditVars, lastStamp, procVars, history>>

Finish(p) ==
    \/ \E code \in ErrorCodes : FinishFailed(p, code)
    \/ \E outcome \in {"PASSED", "REJECTED"} : FinishScored(p, outcome)
    \/ FinishDuplicate(p)
    \/ FinishDiscarded(p)

WorkerStep(w) ==
    \/ ReclaimSelect(w) \/ ReclaimCommit(w)
    \/ ClaimOne(w) \/ NothingPending(w)
    \/ ReadMark(w) \/ Finish(w)

CallerStep(v) ==
    \/ VisitorInsert(v) \/ EnqueueInsert(v)
    \/ ReadMark(v) \/ Finish(v) \/ Respond(v)

NewRequest(v) ==
    \E c \in Cases : VisitorClaim(v, c) \/ EnqueueCheck(v, c)

Next ==
    \/ \E c \in Cases : CreateAssessment(c)
    \/ \E w \in Workers : WorkerStep(w) \/ Crash(w) \/ StartWorker(w)
    \/ \E v \in Callers : NewRequest(v) \/ CallerStep(v) \/ LoseRequest(v) \/ DatabaseFails(v)
    \/ Tick

Spec == Init /\ [][Next]_vars

(***************************************************************************)
(* Safety                                                                  *)
(***************************************************************************)

(* A text is stored only for a run whose one score is PASSED, and the      *)
(* valid-version pointer of an assessment names such a run of the same     *)
(* assessment, whatever executors, take-overs and reclaims went before     *)
(* (_finish: what did not pass is neither stored nor pointed to).          *)
PublicationGate ==
    /\ \A r \in Runs : explanationText[r] # 0 => evalResult[r] = "PASSED"
    /\ \A c \in Cases : current[c] # NoRun =>
        /\ owner[current[c]] = c
        /\ explanationText[current[c]] # 0

(* No assessment ever has two attempts in flight, although both inserting  *)
(* paths check first and insert later (claim_for_visitor, the keyless      *)
(* POST) and reclaims reopen rows in between.                              *)
OneInFlightPerCase ==
    \A r, q \in Runs :
        /\ runStatus[r] \in InFlightStatuses
        /\ runStatus[q] \in InFlightStatuses
        /\ owner[r] = owner[q]
        => r = q

(* The fence of _finish: one claim yields at most one recorded result,     *)
(* even when two executors hold the same mark because one of them read it  *)
(* only after the other had claimed the run again.                         *)
OneRecordPerClaim ==
    \A s \in Stamps : \A p, q \in recordedBy[s] : p = q

(* Late results are dropped: the claim that a run shows in started_at is   *)
(* the one that ended it, although the row may have been reclaimed or      *)
(* taken over while earlier executors were still at work.                  *)
EndedByLatestClaim ==
    \A r \in Runs : runStatus[r] \in FinalStatuses =>
        startedAt[r] \in Stamps /\ recordedBy[startedAt[r]] # {}

(* The audit trail loses no execution: each claim of a run has ended in a  *)
(* "finished" event, has been given up in a "reclaimed" event, or is the   *)
(* one still running; and each row was requested exactly once              *)
(* (the comments of reclaim_stale and claim_for_visitor on audit.record).  *)
EveryClaimAccounted ==
    \A r \in Runs :
        /\ claims[r] <= finished[r] + reclaimed[r] + (IF runStatus[r] = "RUNNING" THEN 1 ELSE 0)
        /\ requested[r] = IF runStatus[r] = "ABSENT" THEN 0 ELSE 1

(* An assessment's status is backed by what its attempts left behind; the  *)
(* runs' own statuses cannot serve, since a reclaim may have reopened one. *)
CaseStatusWitnessed ==
    \A c \in Cases :
        LET own == {r \in Runs : owner[r] = c} IN
        /\ caseStatus[c] \in {"ABSENT", "SCREENED"} =>
            \A r \in own : evalResult[r] = "NONE" /\ errorCode[r] = "NONE"
        /\ caseStatus[c] = "COMPLETED" => current[c] # NoRun
        /\ caseStatus[c] = "REVIEW_REQUIRED" => \E r \in own : evalResult[r] = "REJECTED"
        /\ caseStatus[c] = "EXPLANATION_FAILED" => \E r \in own : errorCode[r] # "NONE"

(* A caller is told 200 or 503 only if its own request recorded that       *)
(* result, and told 404 or 409 only if it recorded none                    *)
(* (execute_claimed_run: a discarded result must not return normally).  A  *)
(* 500 says neither: a session may fail before the result is committed, or *)
(* after it, when the answer is read.                                      *)
AnswersMatchRecords ==
    \A v \in Callers :
        LET recorded == mark[v] # 0 /\ v \in recordedBy[mark[v]] IN
        /\ answer[v].code \in {"200", "503"} => recorded
        /\ answer[v].code \in {"404", "409"} => ~recorded

(* The run, assessment and score tables implement the publication promise: *)
(* in particular a published text is never replaced under the same run.    *)
P == INSTANCE Publication WITH
        verdict <- evalResult, text <- explanationText,
        Texts <- Stamps, NoText <- 0
PublicationRefined == P!Spec

(***************************************************************************)
(* What the repository says of the program and the program does not keep   *)
(***************************************************************************)

(* reclaim_stale: within the limit another worker is at work, so the row   *)
(* is left alone (worker.py:104).                                          *)
ReclaimLeavesFreshClaims ==
    [][\A r \in Runs :
        runStatus[r] = "RUNNING" /\ runStatus'[r] = "PENDING" => startedAt[r] < cutoff]_vars

(* A retry of an ended run makes a new row: an ended run never changes its *)
(* status again (docs/데이터모델.md:155).                                  *)
EndedRunsStayEnded ==
    [][\A r \in Runs :
        runStatus[r] \in FinalStatuses => runStatus'[r] = runStatus[r]]_vars

(* A result is recorded only by the executor that claimed the row, while   *)
(* the row is as it claimed it (worker.py:301).                            *)
RecordedByClaimant ==
    \A s \in Stamps : recordedBy[s] \subseteq claimant[s]

(* A synchronous caller never receives a row that somebody else is         *)
(* executing (worker.py:369-370): a 200 shows an ended run.                *)
AnswerShowsEndedRun ==
    \A v \in Callers : answer[v].code = "200" => answer[v].shows \in FinalStatuses

(***************************************************************************)
(* Liveness                                                                *)
(***************************************************************************)

(* Fairness.  A worker that is up keeps looping and the provider call is   *)
(* cut off after 200 seconds, so each of its steps eventually happens; a   *)
(* request that has begun runs on a thread of its own; time passes.        *)
(* Nothing is assumed of crashes, of restarts (docker-compose.yml gives    *)
(* the worker no restart policy) or of the arrival of requests.            *)
FairSpec ==
    /\ Spec
    /\ \A w \in Workers : WF_vars(WorkerStep(w))
    /\ \A v \in Callers : WF_vars(CallerStep(v))
    /\ WF_vars(Tick)

(* If some worker eventually stays up, no run stays in flight: what a dead *)
(* worker or a lost request left RUNNING is reclaimed and executed again.  *)
(* (Up to the bound on claims, which stops every executor.)                *)
InFlightRunsEnd ==
    (\E w \in Workers : <>[](pc[w] # "down")) =>
        \A r \in Runs :
            runStatus[r] \in InFlightStatuses ~>
                (runStatus[r] \notin InFlightStatuses \/ lastStamp = MaxClaims)

=============================================================================
