------------------------------- MODULE Rollout -------------------------------
(***************************************************************************)
(* Schema migrations under running processes: alembic/versions/0001 to    *)
(* 0004 applied by alembic/env.py, the one-off `migrate` service of        *)
(* docker-compose.yml, the app and worker containers that wait for it, and *)
(* loan_agent/db/readiness.py behind GET /health/ready.                     *)
(*                                                                         *)
(* `alembic upgrade` and `alembic downgrade` run every migration they need *)
(* in one transaction (env.py), so the grain is one statement of a         *)
(* migration: other sessions see nothing before the commit, but they keep  *)
(* writing to every table the transaction has not locked yet.  A release is*)
(* named by the number of the last migration its image carries; the ones   *)
(* before 0004 store a passing parse_accuracy, the later ones store NULL.  *)
(***************************************************************************)
EXTENDS Integers, Sequences, Functions

CONSTANTS
    Processes,   \* containers that write: app, worker
    Releases,    \* images that can be deployed, a set of migration numbers
    Runs,        \* explanation runs, the primary keys of eval_result
    MaxJobs      \* bound: migration jobs started

Newest == 4        \* 0004_eval_parse_accuracy_null

ASSUME RolloutAssumption == /\ Releases \subseteq 1..Newest
                            /\ MaxJobs \in Nat

VARIABLES
    reachable,   \* does PostgreSQL answer
    revision,    \* alembic_version, 0 when nothing is applied
    schema,      \* tables, constraints, indexes and column shapes, committed
    evals,       \* eval_result rows, by run
    wide,        \* does decision_result hold a ratio of 10^6 or more
    job,         \* the migration transaction in progress
    release,     \* release each process runs, 0 when it is not started
    deploying,   \* release `docker compose up` is bringing in, 0 when none
    jobs         \* migration jobs started so far

vars == <<reachable, revision, schema, evals, wide, job, release, deploying, jobs>>

-----------------------------------------------------------------------------
(* The migrations as sequences of statements                               *)

Create(obj) == [do |-> "create", obj |-> obj]
Drop(obj)   == [do |-> "drop", obj |-> obj]
Store(score) == [do |-> "update", obj |-> score]   \* UPDATE eval_result SET parse_accuracy

\* 0001, up and down: the pointer to the current run comes after both tables
\* and goes before them.
CreateCore ==
    <<Create("assessment_case"), Create("explanation_run"), Create("fk_case_current_run"),
      Create("uq_explanation_run_in_flight"), Create("decision_result"),
      Create("recommendation"), Create("uq_recommendation_rank"), Create("eval_result"),
      Create("audit_event")>>

DropCore ==
    <<Drop("audit_event"), Drop("eval_result"), Drop("uq_recommendation_rank"),
      Drop("recommendation"), Drop("decision_result"), Drop("fk_case_current_run"),
      Drop("uq_explanation_run_in_flight"), Drop("explanation_run"), Drop("assessment_case")>>

\* 0002.
CreateCursorIndexes ==
    <<Create("ix_assessment_case_cursor"), Create("ix_assessment_case_status_cursor"),
      Create("ix_explanation_run_history"), Create("ix_audit_event_trace")>>

DropCursorIndexes ==
    <<Drop("ix_audit_event_trace"), Drop("ix_explanation_run_history"),
      Drop("ix_assessment_case_status_cursor"), Drop("ix_assessment_case_cursor")>>

\* 0003 changes the shape of a column.
BoundDsr   == <<Create("dsr_bounded")>>
UnboundDsr == <<Drop("dsr_bounded")>>

\* 0004 upgrade, and its mutant that loosens the column and keeps the passes.
LoosenOnly  == <<Create("parse_accuracy_nullable")>>
LoosenScore == <<Create("parse_accuracy_nullable"), Store("unscored")>>

\* 0004 downgrade, and its mutant that never fills the NULLs.
TightenUnfilled == <<Drop("parse_accuracy_nullable")>>
TightenScore    == <<Store("pass"), Drop("parse_accuracy_nullable")>>

Upgrade   == <<CreateCore, CreateCursorIndexes, BoundDsr, LoosenScore>>
Downgrade == <<DropCore, DropCursorIndexes, UnboundDsr, TightenScore>>

\* What each object stands on.  The last two are shapes of a column.
Needs(obj) ==
    CASE obj \in {"explanation_run", "decision_result", "recommendation",
                  "ix_assessment_case_cursor", "ix_assessment_case_status_cursor"}
           -> {"assessment_case"}
      [] obj = "fk_case_current_run" -> {"assessment_case", "explanation_run"}
      [] obj \in {"eval_result", "uq_explanation_run_in_flight", "ix_explanation_run_history"}
           -> {"explanation_run"}
      [] obj = "uq_recommendation_rank" -> {"recommendation"}
      [] obj = "ix_audit_event_trace" -> {"audit_event"}
      [] obj = "dsr_bounded" -> {"decision_result"}
      [] obj = "parse_accuracy_nullable" -> {"eval_result"}
      [] OTHER -> {}

\* Of the objects that stand on another, the ones that do not go with it.
Referencing == {"explanation_run", "fk_case_current_run", "decision_result", "recommendation",
                "eval_result"}

\* The objects migration n makes, and the schema that 1..n describe together.
Made(n)    == {op.obj : op \in {o \in Range(Upgrade[n]) : o.do = "create"}}
ShapeOf(n) == UNION {Made(i) : i \in 1..n}

-----------------------------------------------------------------------------
(* One statement inside the transaction                                    *)

\* A row: its parse_accuracy and, for the properties, the revision it was
\* written under and the migration job that was running then, 0 for none.
NoRow == [score |-> "absent", under |-> 0, during |-> 0]
Rows  == [score : {"pass", "unscored"}, under : 1..Newest, during : 0..MaxJobs]

\* The transaction stands at a revision, `pos' statements into the script
\* that leads from there towards `to'.
Idle == [kind |-> "idle", to |-> 0, at |-> 0, pos |-> 0, schema |-> {}, touched |-> {},
         score |-> "absent", locked |-> {}]

Unfinished == job.kind # "idle" /\ job.at # job.to
Script     == IF job.kind = "up" THEN Upgrade[job.at + 1] ELSE Downgrade[job.at]
Following  == IF job.kind = "up" THEN job.at + 1 ELSE job.at - 1
Statement  == Script[job.pos + 1]

Stored(e) == evals[e] # NoRow
\* parse_accuracy of a row as the transaction sees it.
Seen(e) == IF e \in job.touched THEN job.score ELSE evals[e].score

\* Constraints and indexes go with their table; a table or constraint that
\* another table points at does not.
Dependent(obj) == {o \in job.schema \cap Referencing : obj \in Needs(o)}

\* Does the database accept the statement?
Applies(op) ==
    CASE op.do = "create" -> /\ op.obj \notin job.schema
                             /\ Needs(op.obj) \subseteq job.schema
                             /\ op.obj = "dsr_bounded" => ~wide
      [] op.do = "drop"   -> /\ op.obj \in job.schema
                             /\ Dependent(op.obj) = {}
                             /\ op.obj = "parse_accuracy_nullable" =>
                                    \A e \in Runs : Seen(e) # "unscored"
      [] op.do = "update" -> "eval_result" \in job.schema

\* DDL locks the tables it touches against writers until the transaction
\* ends; an UPDATE only locks the rows it changes.
Locks(op) == IF op.do = "update" THEN {} ELSE {op.obj} \cup Needs(op.obj)

Effect(op) ==
    CASE op.do = "create" -> [job EXCEPT !.schema = @ \cup {op.obj}]
      [] op.do = "drop"   -> [job EXCEPT !.schema = @ \ {op.obj}]
      [] op.do = "update" -> [job EXCEPT !.touched = {e \in Runs : Stored(e)}, !.score = op.obj]

-----------------------------------------------------------------------------
TypeOK ==
    /\ reachable \in BOOLEAN
    /\ revision \in 0..Newest
    /\ schema \subseteq ShapeOf(Newest)
    /\ evals \in [Runs -> Rows \cup {NoRow}]
    /\ wide \in BOOLEAN
    /\ job \in [kind : {"idle", "up", "down"}, to : 0..Newest, at : 0..Newest, pos : Nat,
               schema : SUBSET ShapeOf(Newest), touched : SUBSET Runs,
               score : {"absent", "pass", "unscored"}, locked : SUBSET ShapeOf(Newest)]
    /\ release \in [Processes -> Releases \cup {0}]
    /\ deploying \in Releases \cup {0}
    /\ jobs \in 0..MaxJobs

Init ==
    /\ reachable = TRUE
    /\ revision = 0
    /\ schema = {}
    /\ evals = [e \in Runs |-> NoRow]
    /\ wide = FALSE
    /\ job = Idle
    /\ release = [p \in Processes |-> 0]
    /\ deploying = 0
    /\ jobs = 0

Start(kind, to) ==
    job' = [Idle EXCEPT !.kind = kind, !.to = to, !.at = revision, !.schema = schema]

\* `docker compose up` with a new image: the migrate service runs
\* `alembic upgrade head`.  An image that does not know the applied revision
\* fails at once and nothing else changes.
Deploy(r) ==
    /\ reachable
    /\ deploying = 0
    /\ job = Idle
    /\ jobs < MaxJobs
    /\ revision <= r
    /\ Start("up", r)
    /\ deploying' = r
    /\ jobs' = jobs + 1
    /\ UNCHANGED <<reachable, revision, schema, evals, wide, release>>

\* An operator runs `alembic downgrade -1` or `downgrade base` by hand, from
\* an image that knows the applied revision.
RunDowngrade(to) ==
    /\ reachable
    /\ deploying = 0
    /\ job = Idle
    /\ jobs < MaxJobs
    /\ to < revision
    /\ \E r \in Releases : revision <= r
    /\ Start("down", to)
    /\ jobs' = jobs + 1
    /\ UNCHANGED <<reachable, revision, schema, evals, wide, release, deploying>>

Execute ==
    /\ Unfinished
    /\ Applies(Statement)
    /\ LET last == job.pos + 1 = Len(Script)
       IN  job' = [Effect(Statement) EXCEPT !.at = IF last THEN Following ELSE @,
                                            !.pos = IF last THEN 0 ELSE @ + 1,
                                            !.locked = @ \cup Locks(Statement)]
    /\ UNCHANGED <<reachable, revision, schema, evals, wide, release, deploying, jobs>>

\* A failed statement or a dead container rolls the whole transaction back.
\* `migrate` then exits non-zero and no container is recreated.
RollBack ==
    /\ job' = Idle
    /\ deploying' = 0

Fail ==
    /\ Unfinished
    /\ ~Applies(Statement)
    /\ RollBack
    /\ UNCHANGED <<reachable, revision, schema, evals, wide, release, jobs>>

\* The rows after the commit; a dropped table takes its rows with it.
Committed ==
    [e \in Runs |->
        IF "eval_result" \notin job.schema \/ ~Stored(e) THEN NoRow
        ELSE [evals[e] EXCEPT !.score = Seen(e)]]

Commit ==
    /\ job.kind # "idle"
    /\ job.at = job.to
    /\ revision' = job.to
    /\ schema' = job.schema
    /\ evals' = Committed
    /\ wide' = (wide /\ "decision_result" \in job.schema)
    /\ job' = Idle
    /\ UNCHANGED <<reachable, release, deploying, jobs>>

\* depends_on migrate: service_completed_successfully.
Recreate(p) ==
    /\ deploying # 0
    /\ job = Idle
    /\ release[p] # deploying
    /\ release' = [release EXCEPT ![p] = deploying]
    /\ UNCHANGED <<reachable, revision, schema, evals, wide, job, deploying, jobs>>

Deployed ==
    /\ deploying # 0
    /\ job = Idle
    /\ \A p \in Processes : release[p] = deploying
    /\ deploying' = 0
    /\ UNCHANGED <<reachable, revision, schema, evals, wide, job, release, jobs>>

DatabaseDown ==
    /\ reachable
    /\ reachable' = FALSE
    /\ IF job = Idle THEN UNCHANGED <<job, deploying>> ELSE RollBack
    /\ UNCHANGED <<revision, schema, evals, wide, release, jobs>>

DatabaseUp ==
    /\ ~reachable
    /\ reachable' = TRUE
    /\ UNCHANGED <<revision, schema, evals, wide, job, release, deploying, jobs>>

-----------------------------------------------------------------------------
(* The processes                                                           *)

ScoreBy(r) == IF r < 4 THEN "pass" ELSE "unscored"

\* Does the committed schema take the row _finish writes in release r?
TakesScore(r) ==
    /\ "eval_result" \in schema
    /\ ScoreBy(r) = "unscored" => "parse_accuracy_nullable" \in schema

\* Mutant of Ready: SELECT 1 is enough.
ReadyWhenConnected(p) == reachable /\ release[p] # 0

\* readiness.check behind GET /health/ready: `head` is the last migration in
\* the process's own image, so a process is also unready on a newer schema.
Ready(p) == reachable /\ release[p] # 0 /\ revision = release[p]

\* A process commits the result of a run; a locked table makes it wait.
WriteEval(p, e) ==
    /\ reachable
    /\ release[p] # 0
    /\ ~Stored(e)
    /\ TakesScore(release[p])
    /\ "eval_result" \notin job.locked
    /\ evals' = [evals EXCEPT ![e] = [score |-> ScoreBy(release[p]), under |-> revision,
                                      during |-> IF job = Idle THEN 0 ELSE jobs]]
    /\ UNCHANGED <<reachable, revision, schema, wide, job, release, deploying, jobs>>

\* A process stores the ratio of a tiny income; NUMERIC(18, 12) refuses it.
WriteWideDsr(p) ==
    /\ reachable
    /\ release[p] # 0
    /\ ~wide
    /\ "decision_result" \in schema
    /\ "dsr_bounded" \notin schema
    /\ "decision_result" \notin job.locked
    /\ wide' = TRUE
    /\ UNCHANGED <<reachable, revision, schema, evals, job, release, deploying, jobs>>

Next ==
    \/ \E r \in Releases : Deploy(r)
    \/ \E to \in {revision - 1, 0} \cap Nat : RunDowngrade(to)
    \/ Execute
    \/ Fail
    \/ Commit
    \/ \E p \in Processes : Recreate(p)
    \/ Deployed
    \/ DatabaseDown
    \/ DatabaseUp
    \/ \E p \in Processes, e \in Runs : WriteEval(p, e)
    \/ \E p \in Processes : WriteWideDsr(p)

Spec == Init /\ [][Next]_vars

-----------------------------------------------------------------------------
(* Properties                                                              *)

\* Whatever was upgraded, downgraded, refused half-way or cut off, the
\* committed objects are the ones the applied revision describes: env.py runs
\* all statements in one transaction and each downgrade undoes its upgrade.
SchemaOfRevision == schema = ShapeOf(revision)

\* A process that answers ready can commit its result rows: the reason
\* readiness.py gives for comparing the revision besides the connection.
ReadyMeansWritable == \A p \in Processes : Ready(p) => TakesScore(release[p])

\* Under 0004 a stored pass was written by an older process after the
\* migration committed; every earlier row has become NULL (0004 upgrade).
\* Before 0004 there is no NULL to be met by code that does not expect one.
PassOnlyFromLateWriter ==
    \A e \in Runs : Stored(e) =>
        IF revision = Newest THEN evals[e].score = "pass" => evals[e].under = Newest
                           ELSE evals[e].score = "pass"

\* No statement of a migration is refused because of the order the migrations
\* put it in: an upgrade stops only at a ratio 0003 cannot hold, a downgrade
\* only at a NULL that a newer process committed while it was running.
BlockedOnlyByData ==
    Unfinished /\ ~Applies(Statement) =>
        \/ job.kind = "up" /\ Statement = Create("dsr_bounded") /\ wide
        \/ job.kind = "down" /\ \E e \in Runs : Stored(e) /\ evals[e].during = jobs
                                                /\ evals[e].score = "unscored"

\* Schema, revision and readiness together: a committed schema is that of its
\* revision, and a process that answers ready can write to it.
SchemaSound == TypeOK /\ SchemaOfRevision /\ ReadyMeansWritable
=============================================================================
