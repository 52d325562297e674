# Verification of the loan suitability agent

TLA+ models of the service in `src/loan_agent`, of its migrations and of the gate that guards its
repository, TLC runs over small instances of them, and TLAPS proofs of the theorems that matter
most. The service screens a loan application by fixed rules, stores the decision, and lets a
language model explain it. The decision is pure arithmetic; the hard part is everything around it:
the explanation is slow, fails, is asked for twice and is executed by several processes over one
PostgreSQL database; releases with other rules and other schemas come and go; and a consultant's
screen reruns from the top at every click.

Sections: 1 the system, 2 the modules, 3 the runs, 4 where code and documents part, 5 the proofs,
6 what is not modelled, 7 what could come next. The line-by-line correspondence of definitions and
code is in `PROJECT.json` (`map`), with the list of hazards and the properties that watch them.

## 1. The system

| component | source | state it keeps | operations | module |
|---|---|---|---|---|
| explanation runs | `worker.py`, `api/explanations.py`, `db/models.py` | `explanation_run`, `eval_result`, `assessment_case.status` and `.current_explanation_run_id`, run events in `audit_event` | `claim_one`, `reclaim_stale`, `claim_for_visitor`, `regenerate_explanation` (POST with and without a key), `_run_claimed`, `_finish` | `ExplanationRuns` |
| assessment intake | `api/assessments.py` | `assessment_case` with its idempotency key and request hash, `decision_result`, `recommendation`, the first run | `create_assessment`, `_persist`, `_replay`; `list_assessments` page by page | `AssessmentIntake`, `AssessmentListing` |
| decision and screening | `decision.py`, `screening.py`, `products.py` | none; the product list is read once at import | `monthly_payment`, `screen_loan`, `decide` | `Screening` |
| explanation scoring | `eval.py`, `worker.py` | none | `score_case`, `score_explanation`, `generate_explanation` | `GuidanceScoring` |
| provider client | `llm.py`, `core.py` | none; an external model behind a 200 s limit | `generate_guidance` | a free choice in `ExplanationRuns` and `GuidanceScoring` |
| parser, parsing preview | `parser.py`, `api/parsing.py` | none | `rule_based_parse` | a set of readings in `ConsultSession` |
| request limits | `api/limits.py` | per-address deque of hit times in process memory | body size, media type, sliding window | `RequestLimits` |
| request log, correlation ids, error bodies | `logs.py`, `api/request_log.py`, `api/errors.py`, `audit.py` | one context variable per task, log handlers | `bind`, `unbind`, the middleware, the exception handlers, `configure` | `RequestLog` |
| consult screen | `app.py`, `demo.py` | Streamlit session state | edit, fill, confirm, screen, explain, demo, reset | `ConsultSession` |
| engine, readiness | `db/engine.py`, `db/readiness.py`, `api/health.py` | connection pool | sessions, probes | `Rollout` (readiness) |
| migrations | `alembic/`, `docker-compose.yml` | schema and its revision | four revisions, up and down | `Rollout` |
| repository gate | `tools/gate.py` | findings of one call | the checks and the verdict | `RepositoryGate` |
| image plan, fixtures, load measurements, deployment files, site, reference documents | `tools/image_plan.py`, `scripts/`, `docker-compose*.yml`, `site/` | files | offline | none |

How they interact. The consult screen calls the API over HTTP. `POST /assessments`
writes the assessment, its decision, its recommendations, **the first PENDING run**
and two audit events in one transaction: the table of runs is the queue. A run is
executed either by a worker process (local profile of `docker-compose.yml` only,
line 106: it is not deployed in production and has no restart policy) or inside the request
of a visitor who brought a key (`X-OpenAI-API-Key`). All of them coordinate through rows: row locks (`FOR
UPDATE`, `SKIP LOCKED`), a partial unique index (one run in flight per assessment), and
a fence, the `started_at` mark a claim leaves on its row. The provider is called
outside every transaction. Migrations run as a one-off container before app and worker are recreated, while the old containers still write.

What is hard here:

- several executors of one run: a run is given up after 200 seconds, by `reclaim_stale`
  or by a visitor's take-over, while its first executor may still be at work and come back late;
- reads without a lock that are written back later (`reclaim_stale`, the keyless POST,
  the mark in `_run_claimed`), under READ COMMITTED;
- a crash of a worker or of the app between claim and result;
- five columns in three tables (status of the run, status of the assessment, score,
  stored text, valid-version pointer) and the audit trail that must agree whichever executor ends a run;
- a decision that is stored once and computed again by whoever scores a text, perhaps in another release;
- the idempotency race of the intake, and pages of a list whose order is not the order of commits;
- the edges of the rate limiter's window and its advice;
- a screen whose script is abandoned wherever it stands by the next click;
- migrations of several statements while older and newer releases write;
- a correlation id in a context variable that requests, threads and a long-lived worker share;
- a gate that must not take "was not checked" for "passed".

What correct means, per component, is what the properties of section 3 say.

## 2. Modules

### `ExplanationRuns`

Rows are functions over `Runs` and `Cases` with one variable per column that the code's
decisions depend on; `ABSENT` stands for a row that has not been inserted.

| variables | in the code |
|---|---|
| `caseStatus`, `current` | `assessment_case.status`, `.current_explanation_run_id` |
| `owner`, `runStatus`, `startedAt`, `errorCode`, `explanationText` | columns of `explanation_run`; a text is identified by the claim whose execution wrote it |
| `evalResult` | `eval_result.passed` |
| `requested`, `reclaimed`, `finished` | number of `audit_event` rows of a run, by action |
| `cutoff`, `lastStamp` | the clock, see below |
| `pc`, `target`, `job`, `stamp`, `mark`, `snapshot`, `answer` | where a process is, and the locals of the function it is in |
| `claims`, `claimant`, `recordedBy` | history: read by no action, only by properties |

**Grain.** An action is one committed transaction. `FOR UPDATE` holds its lock to the
commit, so a transaction that locks what it reads is one action (`ClaimOne`,
`VisitorClaim`, the `Finish...` family). Where a transaction reads without a lock and
writes later it is two actions with everything in between allowed: `ReclaimSelect` /
`ReclaimCommit`, `EnqueueCheck` / `EnqueueInsert`, `VisitorClaim` (nothing found) /
`VisitorInsert`. A new session after a commit is an action of its own: `ReadMark`,
`Respond`. Two inserts of the same index entry serialise in PostgreSQL: the second
waits and then fails or succeeds, which is what the check in the two insert actions does.

**Time.** `started_at` is the serial number of the claim that wrote it; `cutoff` is now
minus 200 seconds on that scale and moves one claim at a time. It is read in the step
that uses it, although the code computes it a moment earlier, which only makes a run overdue later.
A provider timeout needs the 200 seconds to have passed for its claim; any other
error and any result may come at any time, also late.

**Actions and code.** `CreateAssessment` is the commit of `_persist`. `EnqueueCheck`,
`EnqueueInsert` are the keyless POST, `VisitorClaim`, `VisitorInsert` are
`claim_for_visitor`, `ReclaimSelect`, `ReclaimCommit` are `reclaim_stale`, `ClaimOne`,
`NothingPending` are `claim_one` as `run_once` calls it. `ReadMark` is the first session of
`_run_claimed`; `FinishFailed`, `FinishScored`, `FinishDuplicate`, `FinishDiscarded` are
`_finish` with its fence (`StillHeld`), its two outcomes, the primary key of `eval_result` and the
dropped result, together with how `execute_claimed_run` and `main` go on; `Respond` is the
second read that the 200 is built from. `Crash`, `StartWorker`, `LoseRequest`, `DatabaseFails`, `Tick` are
the environment: a database session may raise under a request at any point, before its commit, after a commit whose
acknowledgement is lost, or when the answer is read (`api/explanations.py:86-90`), and the client gets a 500. A worker whose reclaim or score hits a constraint leaves
`main()` with the exception: it is `down`.

`_finish` locks the run but not the assessment, whatever ADR-019 says of its decision 3
(`docs/설계결정.md:304`). It is still one action: two `_finish` of one assessment would need two
of its runs RUNNING, which the index excludes (and `OneInFlightPerCase` shows), and two of one run are
ordered by the run's lock.

### `Publication`

The abstract specification: assessments, attempts, scores and texts without executors,
claims, clocks or transactions. An attempt is scored at most once and a published text is
never replaced. `PublicationRefined` says that `ExplanationRuns` implements it, under the
mapping in the `INSTANCE`; a reclaim, a claim, a dropped result and a take-over are all stutters.

### `AssessmentIntake`

`POST /assessments`. One HTTP request is one element of `Requests`, whose body has passed validation (a 422 never reaches
the handler); a client that sends a submission again is another request with the same key.

| variables | in the code |
|---|---|
| `key`, `body` | the request; they are also the columns `idempotency_key` and (through `RequestHash`) `request_hash` of the row the request inserts |
| `row` | that row of `assessment_case`: absent, inserted but not committed, committed |
| `decidedBy` | `rule_version`, `product_dataset_version` of its `decision_result` |
| `release` | the rules the running application has loaded |
| `pc`, `answer` | the handler's position and its answer |

`LookUp` is the first session of `create_assessment`; `Insert` the flush of the case in `_persist`, `InsertRefused` its
`IntegrityError`; `Commit` the rest of `_persist` and the end of `sessionmaker.begin()`; `Recover` the session in the
`except`; `Replay` is `_replay`. An insert that is not committed holds its entry of the unique index: `Admits` and `Refuses`
are both false while it does, which is PostgreSQL making the second insert wait. `Commit` may succeed without the client
hearing of it. `Fail` is any database error (no connection, the five seconds of `statement_timeout`, a value too wide
for its column), `Restart` a crash or a deployment, which may change the rules. What `Commit` makes visible is the
transaction that `ExplanationRuns` calls `CreateAssessment`: the assessment with its first PENDING run.

Bodies are spellings (`ContentOf` maps them to what they mean once validated), because the hash is taken of validated values; two
contents never share a hash.

### `KeyedStore`

The abstract specification of the intake: a set of entries, one for a key; `Create`, `Show`, `Refuse` and `Fail`, each in one step. `StoreRefined`
says that `AssessmentIntake` implements it: creation maps to the commit, a replay to `Show` or `Refuse`, and a waiting or refused insert to nothing.

### `RequestLimits`

The middleware in front of the API. A request is what its checks look at: which length it declares, whether it is JSON, whether it is a
POST to a path that spends tokens. `Object` is `_body_too_large` and `_unsupported_media_type` in their order, `Admit` and `Refuse` are `_rate_limited`.
The middleware awaits nothing between reading the clock and appending the hit, so a request is one action.

| variables | in the code |
|---|---|
| `now` | `time.monotonic()`, in ticks; `Second` ticks are a second, because the code computes in fractions and answers in whole seconds |
| `log`, `head` | `_hits[address]` is `log[address]` from `head[address]` on: `popleft` moves the head, `append` extends the log; what lies before the head is history that only properties read |
| `answer` | what the last request met |
| `advice` | history: when and after how many admissions the last 429 of an address was, and its `Retry-After` |

### `WindowLimit`

The abstract specification of the limit: a log per address that forgets nothing; a request is admitted if fewer than `MaxRequests` of its entries fall in the
last `Window`, both ends counted, and refused otherwise. `LimitRefined` says that the deque with its lazy clean-up decides the same.

### `Screening`, `GuidanceScoring`

`Screening` is the pure decision over exact integers: `Band` and `Dsr` are the ratio of `screen_loan` (the annuity is one multiple of any
principal, `Factor`; the code's floats and its rounding to a stored ratio become an exact comparison and a rounding to thousandths), `Eligible` the filter over the product
table, `Before` its sort key with the table's order as the last tie-break (Python's sort is stable), `Shortlist` the cut at three, `Decision` the record `decide` returns,
stamped with the table it came from. `Products` and `Accepted` are what the CSV reader and the API's validation let through.

`GuidanceScoring` follows one assessment from decision to published text. The code decides once, writes the text from the **stored** decision and scores it against a decision it computes
**again** (`worker.py:257`, `eval.py`) with the table the scoring process has loaded.

| variables | in the code |
|---|---|
| `loaded` | the product table each process imported when it started |
| `application`, `decision` | the stored case and its `decision_result` with recommendations |
| `run` | the text, the checks it passed, `eval_result.passed`, and (history) the table it was scored with |

`Deploy` replaces the release of one process, `Decide` is `_persist`, `Explain` is `generate_explanation` and `score_explanation` of one run; a second run reads nothing of the first.
A text is what the scorer can tell of it: conclusions worded, codes, percentages and amounts cited, promise, disclaimer. Finding those in Korean prose is string matching and is not modelled.

### `AssessmentListing`

A client pages through `list_assessments` while assessments arrive. `created_at` is the start of the inserting transaction and a row becomes visible at its commit, so `Begin` and `Commit` are two
actions and rows appear behind a cursor that was already handed out. `FirstPage`, `NextPage` are one query each (`Selected`, `Page`, one row more than the page to see whether there is another), `BadCursor` is the 422 of
`_decode_cursor`, `Move` any change of an assessment's status. `listed` counts how often each was shown; `steady` are the rows that were committed before the walk and have kept their status.

### `ConsultSession`

One visitor's Streamlit session. An interaction runs its widget's callback and then `main()` from the top, and abandons a script that is not through. The browser shows what was drawn last, by however many scripts.

| variables | in the code |
|---|---|
| `form`, `unread` | the four fields, `debt_unread` |
| `confirmed`, `sig` | `amount_confirmed`, `_amount_sig` |
| `page` | what the browser shows: form, box, the warning of 703-705, which of the two buttons are enabled |
| `key` | a visitor key in the sidebar |
| `runCount`, `lastRun` | `run_count`, `last_run_ts` |
| `shown` | `last_result`, `last_screen`, `last_input`, `is_demo` |
| `phase`, `click`, `job`, `left` | the script that is not through, the button it was started by, what the handler submitted, the entries of `shown` it still has to assign |
| `notice` | the message shown last |
| `torn`, `sent`, `spentAt`, `ticked` | history: was a script stopped between two of those assignments; explanation requests that left and the click of the last one; what the box was ticked beside |

`Edit`, `EnterKey`, `TickBox`, `UntickBox`, `Fill`, `Reset`, `LoadDemo`, `Click` are the interactions. A script draws the form (`DrawForm`), notes other amounts (`Compare`, 712-713) and then clears the box (`ClearBox`, 714), draws
the box and the buttons (`DrawBox`, `DrawButtons`), and handles the click that started it (`Handle`, then `SubmitFails`, `ScreenAnswered`, `Submitted`, `Dated`, `SendExplanation`, `ExplanationAnswered`, `ExplanationFails`, `Store`);
it may be abandoned between any two of them. `Click` is on a button as the page shows it: a run button drawn before the last attempt was counted is still enabled, and it is `Refusal` (745, 747) that must say no. It carries an edit
that the browser delivers together with it.
Assumed of Streamlit (external): a callback is not interrupted; a script may be stopped at each of its calls and between two assignments to `session_state`; every interaction sends the values of the page's widgets, and they overrule
what a script or callback has assigned to a widget and no script has drawn yet.

### `Rollout`

The four migrations as the scripts they are: sequences of statements (`Create`, `Drop`, `Store`) over objects (tables, constraints, indexes, two column shapes) with what each stands on; `alembic upgrade` and `downgrade`
in one transaction (`env.py`); containers of two releases that write meanwhile; `readiness.check`.

| variables | in the code |
|---|---|
| `revision`, `schema` | `alembic_version` and what is committed |
| `evals`, `wide` | the rows a migration rewrites or trips over: `eval_result.parse_accuracy`, a `decision_result.dsr` too wide for `NUMERIC(18, 12)` |
| `job` | the migration's transaction: the revision it has reached and its place in the script from there (`Statement` is the next one), the revision it goes to, its view of the schema, the rows it has touched with the score it stores, the tables it locks |
| `release`, `deploying`, `jobs` | what each container runs, what `docker compose up` is bringing in, jobs so far |
| `reachable` | does PostgreSQL answer |

`Deploy`, `RunDowngrade` begin a job, `Execute`, `Fail`, `Commit` are one statement, its refusal, the end; `Recreate` waits for `migrate` as `depends_on` says; `WriteEval`, `WriteWideDsr` are the containers at work.
Statements lock the tables they touch; an `UPDATE` does not, which is how a row slips in before 0004's downgrade forbids NULLs.

### `RequestLog`

Where an id is bound, carried, and taken off. Requests are tasks with their own copy of the context, the worker is one thread. `Arrive` .. `Leave` are
`RequestLogMiddleware`, `Refuse` and `Admit` the limits inside it (`Installed` is the order of the install calls in `api/__init__.py`), `Audit` is `audit.record` from a handler, `Raise`, `HandleError`, `ServerLogs`
an exception on its way through the middleware, the unhandled-exception handler and uvicorn; `Reclaim`, `BeginRun`, `EndRun` are the worker. `Configure` and `AttachForeign` are `logs.configure` and somebody else's handlers.
`ctx`, `token`, `scopeId` are the context variable, what `unbind` puts back, and the id kept in the request's scope; `trail` collects the records, `printed` where a key-shaped text was printed.

### `RepositoryGate`

`tools/gate.py` as the sequence of its checks over a repository (`world`): one action is one check, adding findings; a check that raises adds one of its own. Files, `SPEC.yaml`, manifests and git are what the checks
can tell of them; git, the test command, semgrep, npm and pip-audit are external and may answer, answer badly, or not at all. The checks that count words, comments and layout are one, with a free outcome.

The code has several notions of one thing, and so has the model. A root of SPEC.yaml is a directory that is there for `check_spec` (`RootsExist`) and a prefix of what a file is called for the comparison (`UnderRoots`): it has a directory and a spelling.
A test is `named` for T1 and T2, or `other` and one for T2 only. A path has literal parts (`FragmentsOf`), possibly none, and then T2 asks nobody about it. An X3 finding names its tool in its text, so the model has one code for each, and `check_deps` may raise after npm's finding and before pip's (`FoundBefore`).

### The `...Proofs` modules, `MC...`

Theorems and proofs (section 5), and instances for TLC. A `...Proofs` module is about the module it is named after, `DeliveryProofs` about two: `Rollout` and `RepositoryGate`, which
stand one after the other between a change and the running system and share no state; the names of the gate's specification begin with `Gate` so that both can be extended there.

## 3. Runs

| run | instance | shows |
|---|---|---|
| `runs_safety` | 2 workers, 1 caller, 1 assessment, 2 run rows, 3 claims | the publication gate, one attempt in flight, one result per claim, late results dropped, a complete audit trail, statuses backed by runs, answers other than 500 true of what was recorded, and the refinement of `Publication`, under reclaims, take-overs, crashes, restarts, late results |
| `runs_public` | no worker, 3 callers, 1 assessment, 2 rows, 3 claims | the deployment without a worker: a 200 shows an ended run, ended runs stay ended |
| `runs_liveness` | 1 worker, 1 caller, 2 rows, 3 claims, fair | in-flight runs end |
| `runs_reopened` | 1 worker, 1 caller, 1 row, 2 claims | **violation**: with a worker an ended run can be reopened (section 4) |
| `intake` | 3 requests, 2 keys, 3 bodies of 2 meanings, 2 releases, fair | one assessment per key, agreeing and true answers, the recovery finds its row, no request waits for ever, and the refinement of `KeyedStore` |
| `limits_window` | 2 addresses, 2 requests in 3 ticks, 2 ticks a second, time up to 6, restarts | no window is overfull, the deque decides as the whole history would (`WindowLimit`), a wait falls short by less than a second |
| `guidance` | 24 applications around the limits 0.30 and 0.40, 2 product tables cut from the shipped one, 2 processes, 480 texts | a published text agrees with the stored decision while the table is the same, is cautious under any table, a faithful text passes; band, verdict and shortlist are monotone, best and about the burden |
| `listing` | 4 assessments, pages of 2, 2 times (ties), all filters | nothing listed twice, nothing steady missed |
| `session` | 3 forms (the empty one, two complete ones that differ in an amount), 2 texts (one whose debt is unread), 1 demo, 3 attempts, cool-down 1, time 1 (three attempts let one be counted and never dated between two that are sent; time 0 and 1 lie on either side of the cool-down) | attempts counted before they cost and kept to the limit on stale pages, cool-down between requests, a tick that stands for the form beside it, a result of one input |
| `rollout` | releases 2 to 4, 2 containers, 2 runs, 4 migration jobs | schema and revision agree, ready means writable, a stored pass under 0004 comes from a late writer, only data stops a migration |
| `requestlog` | 2 requests, refusal 413, 2 worker steps, 1 audit event a request, 1 reconfiguration | one id for one origin, one true line per request, keys masked once |
| `gate` | some 1700 repositories, with and without `--commit`: specification, code and tests that drift apart under roots plain, dotted or naming nothing, paths without a literal part, small repositories without tests, blemished files, manifests and files that are not UTF-8, a git that fails or hangs | a commit is forgiven only what is to come, the exposed surface is specified, what was not checked is said |

Bounds. `MaxClaims` bounds the claims of a behaviour, `Runs` the rows. Three claims give a run that is
claimed, given up, claimed again, given up and claimed by a third executor, and
a late result of any of them; two rows give one attempt after another of one assessment, which is all that the
index allows. Assessments do not interact except through the worker's choice of a row, so one is enough
for the runs; the proofs hold for any number. In the intake three requests of one key are the holder of the index entry, one that waits for it and one that looks up late; a
second key shows that keys do not disturb each other. For the limits, six ticks are two windows: the deque fills, is cut, partly and wholly, and fills again; two ticks a second make the rounding of `Retry-After`
visible. The applications of `guidance` lie on both sides of each limit within the rounding of the stored ratio, and the tables tie on rate and grade; the second table makes one product dearer than another, which changes the first of the shortlist.
Four assessments and pages of two let the first page be cut from three rows while the fourth begins or commits between the pages, at a time before, at or after the cursor's and with an id on either side of it. Two attempts and a clock of four give an attempt, a refusal by the cool-down, a second attempt, and the quota's refusal. Three releases around 0004 give containers that lag behind or run ahead; four jobs give up, down and up again.
Two requests and two worker steps give every overlap of ids in which one flow could take another's. `Symmetry` is used where no liveness is checked and no value is distinguished.

Deadlock is checked except in three runs, where the modelled activity ends: a walk over the list (`listing`), a finite number of requests and worker steps (`requestlog`), one call of the gate (`gate`).

Fairness of the intake: weak fairness of each handler's own steps, nothing of failures and restarts. An insert that waits is not enabled, so what
`RequestsEnd` shows is that whoever holds the index entry lets go of it.

Fairness of the runs (`FairSpec`). Weak fairness of each worker's own steps (its loop never blocks: locks are skipped or held for
one short transaction, and the provider call is cut off after 200 seconds), of the steps of a request that has begun (it runs on a
thread of its own), and of time. None of crashes, restarts and new requests. `InFlightRunsEnd` therefore assumes a worker
that eventually stays up; with the public deployment there is none, and a run there waits until somebody asks.
`claim_one` orders by a random id: with an unbounded supply of rows a run could be passed over for ever, which the finite `Runs` cannot show.

## 4. Where code and documents part

`runs_reopened` shows the one disagreement that is kept as a run: `reclaim_stale` reads overdue rows without a lock and updates them by id, so a run that ended in between is reopened (`EndedRunsStayEnded`).
If it had been scored, its next execution breaks the primary key of `eval_result` and ends the worker, or the request with a 500. The tables keep every safety property meanwhile (`runs_safety`).

The others are stated in the modules as properties that the code does not keep (so no passing run checks them), or were met while reading:

- `ExplanationRuns`: for the same reason a visitor who took a run over in between loses a fresh claim (`ReclaimLeavesFreshClaims`); the mark is read after the claim's transaction,
  so a slow executor may record under the mark of the claim that replaced its own (`RecordedByClaimant`; one result per claim still holds); the loser of two visitors who both insert gets a 500 instead of the documented 409
  (`VisitorInsert`); the 200 is built from a second read, so with a worker it may show a run in flight (`AnswerShowsEndedRun`, which holds without one).
- `RequestLimits`: `Retry-After` (`limits.py:134`) counts, rounded down, to the moment at which the oldest hit is exactly one window old, but that hit is dropped only when it is older: a client that waits as told
  (`API_명세서.md:259`) may hear 429 again (`WaitSuffices`); one second more is enough (`WaitPlusASecond`).
- `GuidanceScoring`: `decision.py:10-12` has a past decision read by the table of its time, the scorer recomputes it with today's (`eval.py:90-91`, `worker.py:257`): after a change of the table a text that follows the stored decision to the letter may be withheld (`FaithfulPassesUnderAnyTable`).
  `product_dataset_version` hashes the file at the time of the decision, `PRODUCTS` was loaded at import.
- `ConsultSession`: the comment at `app.py:707-710` has the confirmation fall when an amount changes, by clearing the box before it is drawn. The new amounts are noted first (713): a script stopped before it has cleared the box (714) and drawn it (715)
  leaves the old tick beside new amounts, and the next script finds nothing to compare. A tick that reaches the server while the page still shows earlier amounts or lacks the warning is the same. `ConfirmationIsFresh` excepts both (`ticked = None`);
  an edit delivered together with a click can submit amounts nobody confirmed (730 and 742 ask for `missing` only); a reset drops `debt_unread` but not the confirmation (489). An attempt stopped between its count (559) and its date (560) is counted and holds up nobody:
  the cool-down is between requests that were sent, not between counted attempts. A script abandoned between its assignments leaves a mixed result (734-737, 757-768): this is why `ShownBelongsTogether` excepts `Torn`.
- `RepositoryGate`: an npm answer that cannot be read leaves no finding (1526-1542); a `git ls-files` that exits non-zero tracks nothing (79-90), so nothing is scanned; semgrep's exit code is not looked at; once one test lies beside the sources,
  the root's `tests/` no longer counts for T2; a source that cannot be read ends `check_spec` with a warning only: `SurfaceIsSpecified` and `UntestedIsSaid` are stated for the other runs.
  The comment at `gate.py:854-856` has a mistaken root named as such instead of emptying the comparison; `.` and `./service` are directories (861) and match no file (785-787). If they leave no endpoint, `--commit` says S3 as information only and never comes to S4, so that unspecified endpoints pass;
  if other roots leave some, nothing is said at all. `SurfaceIsSpecified` is about the sources that the roots match, and asks for that S3 (`Meant`).
  A lock file or a list of exceptions that is not UTF-8 (1431, 1470), counts of npm that are null (1531-1535) and advisories of another shape end `check_deps` with `!!` and no X3: blocked, but not said of whom. A path without a literal part is asked of no test (966-967);
  up to 400 lines without any test file fall between T1 (344) and T2 (927): `UntestedIsSaid` excepts them by name. A file named for a spec, or written in a language T1 does not look for, satisfies T2 and not T1. `UnauditedIsSaid` is about Python dependencies.

## 5. Proofs

All theorems hold for any values of the constants that satisfy the named assumptions of their modules. Each proof is of the form Init => IInv, IInv /\ [Next]_vars => IInv', IInv => property.

`ExplanationRunsProofs`: all safety properties that `runs_safety` checks, the refinement included. Assumed (`ConstantsAssumption`): workers and callers are different processes,
`NoCase` and `NoRun` are no rows, the bound is a natural number. `IInv` adds

- `RowInv`: what rows owe one another (a row that does not exist is blank, a run's assessment exists, an unscored run has no text);
- `StampInv`: a mark is on at most one row, marks are not ahead of the clock, and **nothing has been recorded under the mark of a RUNNING row**.
  This is what makes the fence work whoever passes it: recording ends the RUNNING state, a new claim writes a new mark, and
  so an executor with a borrowed mark may record in place of the claimant but never in addition;
- `JobInv`: an executor's locals point at existing rows;
- `CallerInv`: what a caller's request has recorded so far, step by step. A caller that is still generating has recorded nothing under
  its own claim or a later one, so a conflict it hears is true. A 500 is evidence of nothing: the session that answers may fail after the result is committed.

The argument goes by effects rather than by actions: `StepEffects` shows that every step, whoever takes it, is quiet for the tables or is one of
six effects (assessment created, row inserted, row inserted and claimed, row claimed, rows reopened, result recorded); each conjunct is
then preserved effect by effect. The refinement maps each effect to one abstract action or a stutter.

`AssessmentIntakeProofs`: every safety property of `intake` and the refinement, for any requests, keys, bodies, contents and releases (assumed: `ContentOf` is a function
into the contents, `None` is none of the values). `IInv` adds `StepInv` (only a request that is
done has a committed row or an answer) and `AnswerInv` (an answer tells the truth about the committed rows). `Stable` says
what no step takes back: committed rows, what was asked, what was answered; so an answer that is true when it is given stays true.

`RequestLimitsProofs`: everything that `limits_window` checks, for any addresses, window, maximum and resolution of the clock (assumed: natural numbers, the maximum and a second not zero).
The bound is not inductive without the deque: `IInv` adds that the log is in the order of time, that all before the head has
expired, that a deque holds at most `MaxRequests`, and what an advice still owes. Then the entry `MaxRequests` from the end of the log lies before the
place where popping stops exactly when one more may pass (`DequeDecides`), which gives the bound and the refinement at once.

`GuidanceScoringProofs`: everything that `guidance` checks, for any applications the API accepts, any tables, any annuity factor and any texts (assumed: types, and that `NoValue` is neither an application nor a decision). Most of it is about one decision: rounding to the nearest
thousandth keeps the side of every limit but the limit itself (`RoundingKeepsSide`), a heavier burden on a smaller income is no lighter ratio, which
makes the verdict monotone, and the rank of a product is a numbering of the eligible ones without gaps or ties because `Before` is a strict order (`RankIsBijective`), which makes the shortlist the best and its ranks 1 to n.
`RunInv` says that the stored score is the score of the stored text, from which the publication properties follow.

`AssessmentListingProofs`: `WalkSound`, for any identifiers, page size and time bound. A walk stands at a position of the order (`WalkAt`): what it has listed is not older than the position, so no later page selects it again; every steady row
that is not older has been listed. A page takes the newest of what is selected and its oldest row is the next position (`LeastElement`), which keeps both, whatever was committed in between.

`ConsultSessionProofs`: everything that `session` checks, for any forms, texts, demos, limit and cool-down. `QuotaInv` follows a click: while it is submitted the count is the one it found, below the limit, whatever the page showed; while it is counted and dated
every request sent before lies a cool-down back (`spentAt <= lastRun`); what is counted has not left yet. `FreshInv` says at which points of the script page, form, comparison and tick agree: only the box lags behind the comparison, in `clearing`. `ShownInv` says which entries
a script has assigned so far (`AssignedAre`) and that they are its own.

`RequestLogProofs`: everything that `requestlog` checks, for any requests, refusals and bounds (assumed: the worker is no request). `ScopeInv` ties a request's place to the id in its context, `WorkerInv` says that the worker's id is nobody else's, `TrailInv` that every record
carries the id of its origin, `StatusInv` and `LineInv` that what the middleware saw is what was sent and that a line appears exactly at `Leave`, `MaskInv` that a handler present at the last `Configure` masks.

`DeliveryProofs`, about `Rollout`: everything that `rollout` checks, for any containers, releases, rows and number of migration jobs. The invariant has to say what schema a transaction sees in the middle of a script.
`Placed` says it by two numbers, the revision reached and the place in the script there, over a table of the objects (`By`, `Up`, `Down`: the migration that makes an object and its place in both scripts); that the scripts
agree with the table is proved from them (`UpgradeSteps`, `DowngradeSteps`, `ObjectSteps`), and so is that they make each object after what it stands on and drop it before (`NeedsPrecede`). So every statement finds its objects, a script that ends has
reached exactly the schema of its revision, whatever the path, and only data can stop one (`OnlyDataBlocks`). `ScoreInv` follows the rows that 0004 rewrites: upwards nobody writes between its ALTER and the commit and its UPDATE has reached every row (`LoosenInv`);
downwards a row may slip in between its UPDATE and its ALTER, and is then the one that stops it (`TightenInv`).

`DeliveryProofs`, about `RepositoryGate`: everything that `gate` checks, for any endpoints and any repositories of the shape `GateAssumption` gives, whatever the external tools answer. `Answered` is the invariant: each check called so far has left all
that it finds, under some answer of its tools, and the answers that are noted are the ones it was given. Once the gate is through, that nothing blocks is a statement about all checks at once (`Ran`), and each property is an argument about the one or two checks it
concerns: what blocks the plain gate is found by the same check of a commit (`PlainBlockers`); roots that pass exist and entries that pass are formed, so what is exposed in the sources they match has been compared, and roots that match none leave no endpoint, which is said (`SurfaceHolds`); T2 asks for every literal part, unless no file counts as a test for it, which T1 says of a large repository; a check that raised has left `!!`.

Deployment without a worker. `EndedRunsStayEnded` and `AnswerShowsEndedRun` are false with a worker (section 4) and are proved for `Workers = {}`, which is what the public deployment runs: docker-compose.yml starts the worker in the local profile only.
With any number of workers `OnlyReclaimsReopen` bounds the defect: a run leaves COMPLETED or FAILED only by the commit of a reclaim whose snapshot still names it. With no worker there is no such commit; and a
request that rereads its run rereads one it has just ended (`ShownInv`).

`InFlightRunsEnd` and `RequestsEnd` are liveness under fairness, out of the prover's reach, and only model-checked. Everything else that a passing run checks is a theorem.

## 6. Not modelled

- Wording, layout and the provider itself (its outcome and its text are free choices).
- The parser's amount grammar (`parser.py`) and how the scorer finds words, figures and negations in a text (`eval.py`): matching of Korean strings by patterns, sequential, and better served by the repository's tests; the models take the readings they can give from a set. The parsing preview forwards them. The batch report of `eval.py` over recorded cases computes averages and writes a file.
- Of the gate, the checks that count words, comments, layout, documents, decks and compose files (one check with a free outcome), and `--changeset`, which only prints.
- Of the screen, what is drawn, and the read-only demo endpoint.
- Reads that change nothing (`GET` of one assessment, of runs, of events).
- Clocks that step back (`started_at` is the wall clock): the claims are numbered, which is the clock's good case. Starvation by the random order of `claim_one`.
- Connection pool and thread pool: the framework's queues, which nothing here orders or bounds.
- `tools/image_plan.py`, `scripts/`, `site/`, `reference/`, deployment files: offline text transformations, measurements, static pages and configuration.

## 7. What could come next

A variant of `ExplanationRuns` whose marks come from a clock that may repeat; a composition of `AssessmentIntake` with `ExplanationRuns` for the first run of an
assessment, which today share one transaction by agreement of the two modules (`Commit` of the one is `CreateAssessment` of the other).
