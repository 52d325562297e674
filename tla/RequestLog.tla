----------------------------- MODULE RequestLog -----------------------------
(***************************************************************************)
(* The trail a request leaves: loan_agent/logs.py, api/request_log.py, the *)
(* unhandled-exception handler of api/errors.py, the order in which        *)
(* api/__init__.py installs the middlewares, audit.record, and the place   *)
(* worker.py binds an id of its own.                                       *)
(*                                                                         *)
(* Requests are asyncio tasks, each with its own copy of the context; the  *)
(* worker is one thread that lives through many executions.  An action is  *)
(* what a flow does between two points where another flow may run.  Ids    *)
(* drawn from uuid4 never repeat, so they are counted.                      *)
(***************************************************************************)
EXTENDS Integers, Sequences, FiniteSets

CONSTANTS
    Requests,     \* HTTP requests
    Refusals,     \* statuses the limits refuse with, of 413, 415 and 429
    Worker,       \* the flow of the worker's main loop
    MaxLoops,     \* bound: what the worker does, reclaims and executions
    MaxAudits,    \* bound: audit events per request
    MaxConfigure  \* bound: calls of logs.configure after the first

ASSUME RequestLogAssumption ==
    /\ Worker \notin Requests
    /\ Refusals \subseteq {413, 415, 429}
    /\ MaxLoops \in Nat /\ MaxAudits \in Nat /\ MaxConfigure \in Nat

VARIABLES
    fresh,      \* ids drawn so far
    ctx,        \* the contextvar, per flow
    token,      \* what unbind puts back, per flow
    scopeId,    \* scope["state"]["correlation_id"], per request
    phase,      \* where a flow is
    status,     \* the status the middleware has seen, per request
    answer,     \* the status the client was sent, 0 when none
    raised,     \* requests whose handler let an exception out
    trail,      \* records written: request lines, exceptions, audit events
    loops,      \* what the worker has done, counted
    foreign,    \* handlers on loggers this code does not own
    own,        \* marked JSON handlers on the loan_agent logger
    configured, \* calls of configure
    printed     \* key-shaped texts written out, by handler

flowVars == <<fresh, ctx, token, scopeId, phase, status, answer, raised, trail, loops>>
logVars  == <<foreign, own, configured, printed>>
vars     == <<flowVars, logVars>>

NoId  == 0
Flows == Requests \cup {Worker}

-----------------------------------------------------------------------------
(* The context variable                                                    *)

\* Mutant of Bound: a module global instead of a context variable.
BoundEverywhere(f, id) == [g \in Flows |-> id]

\* logs.bind sets the flow's own copy and returns the old value as a token.
Bound(f, id) == [ctx EXCEPT ![f] = id]

\* logs.unbind
Unbound(f) == [ctx EXCEPT ![f] = token[f]]

Record(kind, origin, id, code) == [kind |-> kind, origin |-> origin, id |-> id, status |-> code]

\* audit.record: the bound id, or one that belongs to no request.
AuditId(f) == IF ctx[f] # NoId THEN ctx[f] ELSE fresh + 1
DrawnBy(f) == IF ctx[f] # NoId THEN fresh ELSE fresh + 1

-----------------------------------------------------------------------------
(* The middleware stack                                                    *)

\* Mutant of Installed: the request log is added before the limits.
LogInstalledFirst == <<"request_log", "limits">>

\* Order of the install calls; what is added later lies further out.
Installed == <<"limits", "request_log">>

Outside(a, b) == \E i, j \in DOMAIN Installed : Installed[i] = a /\ Installed[j] = b /\ i > j

\* Where a request stands when the limits look at it.
AtTheLimits == IF Outside("request_log", "limits") THEN "logged" ELSE "new"

-----------------------------------------------------------------------------
Codes   == {200, 409, 413, 415, 429, 500}
Places  == {"uvicorn", "root"}
Handler == [there : BOOLEAN, masked : BOOLEAN, before : BOOLEAN]

TypeOK ==
    /\ fresh \in Nat
    /\ ctx \in [Flows -> 0..fresh]
    /\ token \in [Flows -> 0..fresh]
    /\ scopeId \in [Requests -> 0..fresh]
    /\ phase \in [Flows -> {"new", "logged", "handling", "leaving", "raising", "reraised", "done"}]
    /\ status \in [Requests -> Codes]
    /\ answer \in [Requests -> Codes \cup {0}]
    /\ raised \subseteq Requests
    /\ \A x \in trail : x.kind \in {"line", "exception", "audit"} /\ x.id \in 0..fresh
    /\ loops \in 0..MaxLoops
    /\ foreign \in [Places -> Handler]
    /\ own \in Nat
    /\ configured \in 0..(MaxConfigure + 1)

\* uvicorn sets up its own handlers before it imports the app.
Init ==
    /\ fresh = 0
    /\ ctx = [f \in Flows |-> NoId]
    /\ token = [f \in Flows |-> NoId]
    /\ scopeId = [r \in Requests |-> NoId]
    /\ phase = [f \in Flows |-> "new"]
    /\ status = [r \in Requests |-> 500]
    /\ answer = [r \in Requests |-> 0]
    /\ raised = {}
    /\ trail = {}
    /\ loops = 0
    /\ \E t \in BOOLEAN :
           foreign = [p \in Places |-> [there |-> p = "uvicorn" \/ t, masked |-> FALSE, before |-> FALSE]]
    /\ own = 0
    /\ configured = 0
    /\ printed = {}

Serving == configured > 0

\* RequestLogMiddleware.__call__ up to the call of the inner app.
Arrive(r) ==
    /\ Serving
    /\ phase[r] = "new"
    /\ fresh' = fresh + 1
    /\ scopeId' = [scopeId EXCEPT ![r] = fresh + 1]
    /\ token' = [token EXCEPT ![r] = ctx[r]]
    /\ ctx' = Bound(r, fresh + 1)
    /\ phase' = [phase EXCEPT ![r] = "logged"]
    /\ UNCHANGED <<status, answer, raised, trail, loops, logVars>>

\* A response start passes through send_with_status on its way out.
Started(r, code) ==
    /\ answer' = [answer EXCEPT ![r] = code]
    /\ status' = IF phase[r] = "new" THEN status ELSE [status EXCEPT ![r] = code]

\* RequestLimitMiddleware refuses; what lies inside it never runs.
Refuse(r, code) ==
    /\ Serving
    /\ phase[r] = AtTheLimits
    /\ Started(r, code)
    /\ phase' = [phase EXCEPT ![r] = IF phase[r] = "new" THEN "done" ELSE "leaving"]
    /\ UNCHANGED <<fresh, ctx, token, scopeId, raised, trail, loops, logVars>>

Admit(r) ==
    /\ phase[r] = "logged"
    /\ phase' = [phase EXCEPT ![r] = "handling"]
    /\ UNCHANGED <<fresh, ctx, token, scopeId, status, answer, raised, trail, loops, logVars>>

Audits(r) == {x \in trail : x.kind = "audit" /\ x.origin = <<r, 0>>}

\* A handler, in its own thread but with a copy of the task's context, commits
\* an audit event: assessment created, execution requested or, because a
\* visitor's execution runs inside the request, execution finished.
Audit(r) ==
    /\ phase[r] = "handling"
    /\ answer[r] = 0
    /\ Cardinality(Audits(r)) < MaxAudits
    /\ trail' = trail \cup {Record("audit", <<r, 0>>, AuditId(r), Cardinality(Audits(r)))}
    /\ fresh' = DrawnBy(r)
    /\ UNCHANGED <<ctx, token, scopeId, phase, status, answer, raised, loops, logVars>>

Answer(r, code) ==
    /\ phase[r] = "handling"
    /\ answer[r] = 0
    /\ Started(r, code)
    /\ phase' = [phase EXCEPT ![r] = "leaving"]
    /\ UNCHANGED <<fresh, ctx, token, scopeId, raised, trail, loops, logVars>>

\* An exception no handler inside the middlewares turns into an answer,
\* before or after the response has started.
Raise(r) ==
    /\ phase[r] \in {"handling", "leaving"}
    /\ r \notin raised
    /\ raised' = raised \cup {r}
    /\ phase' = [phase EXCEPT ![r] = "leaving"]
    /\ UNCHANGED <<fresh, ctx, token, scopeId, status, answer, trail, loops, logVars>>

\* The finally block of the middleware: the line, then unbind.
Leave(r) ==
    /\ phase[r] = "leaving"
    /\ trail' = trail \cup {Record("line", <<r, 0>>, ctx[r], status[r])}
    /\ ctx' = Unbound(r)
    /\ phase' = [phase EXCEPT ![r] = IF r \in raised THEN "raising" ELSE "done"]
    /\ UNCHANGED <<fresh, token, scopeId, status, answer, raised, loops, logVars>>

\* unhandled_exception_handler binds again what the middleware left behind.
HandlerId(r) == scopeId[r]

\* Where a record of a logger is printed, and whether a key in it is masked.
Prints(place) ==
    IF place = "loan_agent"
    THEN {[at |-> "loan_agent", masked |-> own > 0, late |-> FALSE]}
    ELSE {[at |-> place, masked |-> foreign[place].masked, late |-> ~foreign[place].before] :
             t \in {foreign[place].there} \cap {TRUE}}

\* Starlette runs the handler outside all middlewares, sends its 500 unless
\* the response has started, and raises the exception again.  The record goes
\* to the loan_agent handler and on to the root logger's.
HandleError(r) ==
    /\ phase[r] = "raising"
    /\ trail' = trail \cup {Record("exception", <<r, 0>>, HandlerId(r), 500)}
    /\ printed' = printed \cup Prints("loan_agent") \cup Prints("root")
    /\ answer' = [answer EXCEPT ![r] = IF @ = 0 THEN 500 ELSE @]
    /\ phase' = [phase EXCEPT ![r] = "reraised"]
    /\ UNCHANGED <<fresh, ctx, token, scopeId, status, raised, loops, foreign, own, configured>>

\* uvicorn writes the traceback a second time, to its own handler, without id.
ServerLogs(r) ==
    /\ phase[r] = "reraised"
    /\ printed' = printed \cup Prints("uvicorn")
    /\ phase' = [phase EXCEPT ![r] = "done"]
    /\ UNCHANGED <<fresh, ctx, token, scopeId, status, answer, raised, trail, loops, foreign, own, configured>>

\* worker.main: reclaim_stale records outside any execution.
Reclaim ==
    /\ phase[Worker] = "new"
    /\ loops < MaxLoops
    /\ trail' = trail \cup {Record("audit", <<Worker, loops>>, AuditId(Worker), 0)}
    /\ fresh' = DrawnBy(Worker)
    /\ loops' = loops + 1
    /\ UNCHANGED <<ctx, token, scopeId, phase, status, answer, raised, logVars>>

\* execute_claimed_run in the worker: nothing is bound, so it binds an id.
BeginRun ==
    /\ phase[Worker] = "new"
    /\ loops < MaxLoops
    /\ IF ctx[Worker] = NoId
       THEN /\ fresh' = fresh + 1
            /\ token' = [token EXCEPT ![Worker] = ctx[Worker]]
            /\ ctx' = Bound(Worker, fresh + 1)
       ELSE UNCHANGED <<fresh, token, ctx>>
    /\ phase' = [phase EXCEPT ![Worker] = "handling"]
    /\ UNCHANGED <<scopeId, status, answer, raised, trail, loops, logVars>>

\* The execution ends: an outcome event and a log line, the event alone after
\* a timeout, the line alone when the result was discarded, or neither when
\* the database failed.  The finally block unbinds in every case.
EndRun(kinds) ==
    /\ phase[Worker] = "handling"
    /\ trail' = trail \cup {Record(k, <<Worker, loops>>, AuditId(Worker), 0) : k \in kinds}
    /\ fresh' = IF "audit" \in kinds THEN DrawnBy(Worker) ELSE fresh
    /\ ctx' = Unbound(Worker)
    /\ phase' = [phase EXCEPT ![Worker] = "new"]
    /\ loops' = loops + 1
    /\ UNCHANGED <<token, scopeId, status, answer, raised, logVars>>

-----------------------------------------------------------------------------
(* Log handlers                                                            *)

\* Mutant of Masked: only the server's handlers are visited.
MaskedServerOnly(place) == foreign[place].there /\ place = "uvicorn"

\* _attach_mask reaches every handler the foreign loggers have right now.
Masked(place) == foreign[place].there

\* configure first takes its earlier handler off the loan_agent logger.
OwnAfter == 1

Configure ==
    /\ configured <= MaxConfigure
    /\ configured' = configured + 1
    /\ own' = OwnAfter
    /\ foreign' = [p \in Places |-> [there  |-> foreign[p].there,
                                   masked |-> foreign[p].masked \/ Masked(p),
                                   before |-> foreign[p].before \/ foreign[p].there]]
    /\ UNCHANGED <<flowVars, printed>>

\* Somebody else attaches a handler later on; nothing masks it yet.
AttachForeign(place) ==
    /\ ~foreign[place].there
    /\ foreign' = [foreign EXCEPT ![place] = [there |-> TRUE, masked |-> FALSE, before |-> FALSE]]
    /\ UNCHANGED <<flowVars, own, configured, printed>>

Next ==
    \/ \E r \in Requests : \/ Arrive(r)
                           \/ \E code \in Refusals : Refuse(r, code)
                           \/ Admit(r)
                           \/ Audit(r)
                           \/ \E code \in {200, 409} : Answer(r, code)
                           \/ Raise(r)
                           \/ Leave(r)
                           \/ HandleError(r)
                           \/ ServerLogs(r)
    \/ Reclaim
    \/ BeginRun
    \/ \E kinds \in SUBSET {"audit", "line"} : EndRun(kinds)
    \/ Configure
    \/ \E place \in Places : AttachForeign(place)

Spec == Init /\ [][Next]_vars

-----------------------------------------------------------------------------
(* Properties                                                              *)

\* Every record of this code carries an id, and two records share it exactly
\* when they come from the same request or from the same worker execution:
\* the index on (correlation_id, occurred_at) follows one request and only it,
\* and the exception record finds its request line.
OneIdPerOrigin ==
    \A x, y \in trail : x.id # NoId /\ (x.id = y.id <=> x.origin = y.origin)

\* A request that is over, refused ones and failed ones included, has left
\* exactly one line, and the line shows the status the client was sent.
LineTellsAnswer ==
    \A r \in Requests : phase[r] = "done" =>
        LET lines == {x \in trail : x.kind = "line" /\ x.origin = <<r, 0>>}
        IN  \E x \in lines : lines = {x} /\ x.status = answer[r]

\* A traceback that holds a key is printed with the key masked, by every
\* handler that existed when the logging was last configured, and the
\* loan_agent logger never has two JSON handlers that print a record twice.
KeysMaskedOnce ==
    /\ \A p \in printed : p.masked \/ p.late
    /\ own <= 1

\* The trail as a reader of the logs relies on it: well-formed, and one id for
\* one origin.
TrailSound == TypeOK /\ OneIdPerOrigin
=============================================================================
