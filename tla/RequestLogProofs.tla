-------------------------- MODULE RequestLogProofs --------------------------
(***************************************************************************)
(* Theorems about RequestLog, for any requests and refusals and any bounds.*)
(*                                                                         *)
(* A request carries the id of its scope in its context between arriving   *)
(* and leaving and nothing before and after, so every record of it shows   *)
(* that id; the worker's id is nobody else's while it is bound.  A request *)
(* has no line before it leaves and one after, and what the middleware saw *)
(* is what was sent unless nothing was sent yet.                           *)
(***************************************************************************)
EXTENDS RequestLog, TLAPS

Inside == {"logged", "handling", "leaving"}
Left   == {"raising", "reraised", "done"}

ScopeInv ==
    /\ Serving \/ \A r \in Requests : phase[r] = "new"
    /\ \A r \in Requests :
          /\ phase[r] \in {"new"} \cup Inside \cup Left
          /\ scopeId[r] # NoId <=> phase[r] # "new"
          /\ token[r] = NoId
          /\ ctx[r] = IF phase[r] \in Inside THEN scopeId[r] ELSE NoId
    /\ \A r, s \in Requests : scopeId[r] = scopeId[s] /\ scopeId[r] # NoId => r = s

WorkerInv ==
    /\ phase[Worker] \in {"new", "handling"}
    /\ token[Worker] = NoId
    /\ phase[Worker] = "new" => ctx[Worker] = NoId
    /\ phase[Worker] = "handling" =>
          /\ ctx[Worker] # NoId
          /\ loops < MaxLoops
          /\ \A r \in Requests : scopeId[r] # ctx[Worker]
          /\ \A x \in trail : x.id # ctx[Worker]

OfRequest(x, r) == x.origin = <<r, 0>> /\ x.id = scopeId[r] /\ x.id # NoId
OfWorker(x) ==
    /\ \E n \in Nat : n < loops /\ x.origin = <<Worker, n>>
    /\ x.id # NoId
    /\ \A r \in Requests : x.id # scopeId[r]

TrailInv ==
    /\ \A x \in trail : OfWorker(x) \/ \E r \in Requests : OfRequest(x, r)
    /\ OneIdPerOrigin

Lines(r) == {x \in trail : x.kind = "line" /\ x.origin = <<r, 0>>}

StatusInv ==
    \A r \in Requests :
        /\ answer[r] = status[r] \/ (answer[r] = 0 /\ status[r] = 500)
        /\ phase[r] \in {"reraised", "done"} => answer[r] # 0
        /\ phase[r] = "leaving" /\ r \notin raised => answer[r] # 0

LineInv ==
    \A r \in Requests :
        /\ phase[r] \in {"new"} \cup Inside => Lines(r) = {}
        /\ phase[r] \in Left => \E x : Lines(r) = {x} /\ x.status = status[r]

MaskInv ==
    /\ Serving => own = 1
    /\ own <= 1
    /\ \A p \in Places : foreign[p].before => foreign[p].masked
    /\ \A p \in printed : p.masked \/ p.late

IInv == TypeOK /\ ScopeInv /\ WorkerInv /\ TrailInv /\ StatusInv /\ LineInv /\ MaskInv

(***************************************************************************)
(* Facts about one step                                                    *)
(***************************************************************************)

(* The log lies outside the limits, so they see a request that has arrived.*)
LEMMA LimitsInside == AtTheLimits = "logged"
<1>1. Installed = <<"limits", "request_log">>
  BY DEF Installed
<1>2. Outside("request_log", "limits")
  <2>1. 2 \in DOMAIN Installed /\ 1 \in DOMAIN Installed /\ 2 > 1
    BY <1>1
  <2>2. Installed[2] = "request_log" /\ Installed[1] = "limits"
    BY <1>1
  <2> QED
    BY <2>1, <2>2 DEF Outside
<1> QED
  BY <1>2 DEF AtTheLimits

(* Records of one request that show the id of its scope keep the trail.    *)
LEMMA RequestRecordKeepsTrail ==
  ASSUME TypeOK, ScopeInv, TrailInv, NEW r \in Requests, NEW x,
         OfRequest(x, r), trail' = trail \cup {x}, UNCHANGED <<scopeId, loops>>
  PROVE  TrailInv'
<1>1. \A y \in trail' : OfWorker(y)' \/ \E s \in Requests : OfRequest(y, s)'
  BY DEF TrailInv, OfWorker, OfRequest
<1>2. ASSUME NEW y \in trail
      PROVE  y.id = x.id <=> y.origin = x.origin
  <2>1. CASE OfWorker(y)
    BY <2>1, RequestLogAssumption DEF OfWorker, OfRequest
  <2>2. CASE \E s \in Requests : OfRequest(y, s)
    BY <2>2 DEF OfRequest, ScopeInv
  <2> QED
    BY <2>1, <2>2 DEF TrailInv
<1>3. x.id # NoId
  BY DEF OfRequest
<1>4. OneIdPerOrigin'
  BY <1>2, <1>3 DEF TrailInv, OneIdPerOrigin
<1> QED
  BY <1>1, <1>4 DEF TrailInv

(* So do records of what the worker is doing, with an id nobody has.       *)
LEMMA WorkerRecordsKeepTrail ==
  ASSUME TypeOK, ScopeInv, TrailInv, NEW R, NEW id, id # NoId,
         \A x \in R : x.id = id /\ x.origin = <<Worker, loops>>,
         \A r \in Requests : scopeId[r] # id,
         \A x \in trail : x.id # id,
         trail' = trail \cup R, loops' = loops + 1, UNCHANGED scopeId
  PROVE  TrailInv'
<1>1. loops \in Nat
  BY RequestLogAssumption DEF TypeOK
<1>2. ASSUME NEW x \in R PROVE OfWorker(x)'
  BY <1>1 DEF OfWorker
<1>3. ASSUME NEW x \in trail
      PROVE  OfWorker(x)' \/ \E r \in Requests : OfRequest(x, r)'
  <2>1. OfWorker(x) => OfWorker(x)'
    BY <1>1 DEF OfWorker
  <2>2. \A r \in Requests : OfRequest(x, r) => OfRequest(x, r)'
    BY DEF OfRequest
  <2> QED
    BY <2>1, <2>2 DEF TrailInv
<1>4. ASSUME NEW x \in R, NEW y \in trail
      PROVE  x.id # y.id /\ x.origin # y.origin
  <2>1. CASE OfWorker(y)
    BY <1>1, <2>1 DEF OfWorker
  <2>2. CASE \E r \in Requests : OfRequest(y, r)
    BY <2>2, RequestLogAssumption DEF OfRequest
  <2> QED
    BY <2>1, <2>2 DEF TrailInv
<1>5. \A x, y \in trail' : x.id # NoId /\ (x.id = y.id <=> x.origin = y.origin)
  BY <1>4 DEF TrailInv, OneIdPerOrigin
<1> QED
  BY <1>2, <1>3, <1>5 DEF TrailInv, OneIdPerOrigin

(* Records that are no line of a request leave its lines as they are.      *)
LEMMA OtherRecordsKeepLines ==
  ASSUME NEW R, trail' = trail \cup R,
         \A x \in R, s \in Requests : ~(x.kind = "line" /\ x.origin = <<s, 0>>)
  PROVE  \A s \in Requests : Lines(s)' = Lines(s)
  BY DEF Lines

(***************************************************************************)
(* The invariant, step by step                                             *)
(***************************************************************************)
LEMMA InitInv == Init => IInv
<1> SUFFICES ASSUME Init PROVE IInv
  OBVIOUS
<1>1. TypeOK
  BY RequestLogAssumption DEF Init, TypeOK, Codes, Places, Handler, NoId
<1>2. ScopeInv
  BY DEF Init, ScopeInv, Flows, Inside
<1>3. WorkerInv
  BY DEF Init, WorkerInv, Flows
<1>4. TrailInv
  BY DEF Init, TrailInv, OneIdPerOrigin
<1>5. StatusInv /\ LineInv
  BY DEF Init, StatusInv, LineInv, Lines, Inside, Left, Flows
<1>6. MaskInv
  BY DEF Init, MaskInv, Serving
<1> QED
  BY <1>1, <1>2, <1>3, <1>4, <1>5, <1>6 DEF IInv

LEMMA StepType ==
  ASSUME TypeOK, WorkerInv, [Next]_vars
  PROVE  TypeOK'
<1>1. ASSUME NEW r \in Requests, Arrive(r)
      PROVE  TypeOK'
  BY <1>1, RequestLogAssumption DEF TypeOK, Flows, NoId, Arrive, logVars, Bound
<1>2. ASSUME NEW r \in Requests, NEW code \in Refusals, Refuse(r, code)
      PROVE  TypeOK'
  BY <1>2, RequestLogAssumption DEF TypeOK, Flows, NoId, Refuse, logVars, Started, Codes
<1>3. ASSUME NEW r \in Requests, Admit(r)
      PROVE  TypeOK'
  BY <1>3, RequestLogAssumption DEF TypeOK, Flows, NoId, Admit, logVars
<1>4. ASSUME NEW r \in Requests, Audit(r)
      PROVE  TypeOK'
  BY <1>4, RequestLogAssumption DEF TypeOK, Flows, NoId, Audit, logVars, AuditId, DrawnBy, Record
<1>5. ASSUME NEW r \in Requests, NEW code \in {200, 409}, Answer(r, code)
      PROVE  TypeOK'
  BY <1>5, RequestLogAssumption DEF TypeOK, Flows, NoId, Answer, logVars, Started, Codes
<1>6. ASSUME NEW r \in Requests, Raise(r)
      PROVE  TypeOK'
  BY <1>6, RequestLogAssumption DEF TypeOK, Flows, NoId, Raise, logVars
<1>7. ASSUME NEW r \in Requests, Leave(r)
      PROVE  TypeOK'
  BY <1>7, RequestLogAssumption DEF TypeOK, Flows, NoId, Leave, logVars, Unbound, Record
<1>8. ASSUME NEW r \in Requests, HandleError(r)
      PROVE  TypeOK'
  BY <1>8, RequestLogAssumption DEF TypeOK, Flows, NoId, HandleError, HandlerId, Record, Codes
<1>9. ASSUME NEW r \in Requests, ServerLogs(r)
      PROVE  TypeOK'
  BY <1>9, RequestLogAssumption DEF TypeOK, Flows, NoId, ServerLogs
<1>10. ASSUME Reclaim PROVE TypeOK'
  BY <1>10, RequestLogAssumption DEF TypeOK, Flows, NoId, Reclaim, logVars, AuditId, DrawnBy, Record
<1>11. ASSUME BeginRun PROVE TypeOK'
  BY <1>11, RequestLogAssumption DEF TypeOK, Flows, NoId, BeginRun, logVars, Bound
<1>12. ASSUME NEW kinds \in SUBSET {"audit", "line"}, EndRun(kinds)
      PROVE  TypeOK'
  <2> DEFINE id == AuditId(Worker)
             R == {Record(k, <<Worker, loops>>, id, 0) : k \in kinds}
  <2>2. fresh' \in Nat /\ fresh <= fresh'
    BY <1>12 DEF TypeOK, Flows, NoId, EndRun, AuditId, DrawnBy
  <2>3. loops' \in 0..MaxLoops
    BY <1>12, RequestLogAssumption DEF TypeOK, WorkerInv, EndRun
  <2>4. trail' = trail \cup R /\ \A x \in R : x.kind \in {"audit", "line"} /\ x.id = id
    BY <1>12 DEF EndRun, Record
  <2>5. \A x \in R : x.id \in 0..fresh'
    <3>1. id \in 0..fresh'
      BY <1>12 DEF TypeOK, WorkerInv, Flows, EndRun, AuditId, DrawnBy
    <3> QED
      BY <2>4, <3>1
  <2> HIDE DEF R, id
  <2>6. \A x \in trail' : x.kind \in {"line", "exception", "audit"} /\ x.id \in 0..fresh'
    BY <2>2, <2>4, <2>5 DEF TypeOK
  <2>7. ctx' \in [Flows -> 0..fresh'] /\ token' \in [Flows -> 0..fresh']
        /\ scopeId' \in [Requests -> 0..fresh']
    BY <1>12, <2>2 DEF TypeOK, Flows, EndRun, Unbound
  <2>8. phase' = [phase EXCEPT ![Worker] = "new"]
        /\ UNCHANGED <<status, answer, raised, logVars>>
    BY <1>12 DEF EndRun
  <2> QED
    BY <2>2, <2>3, <2>6, <2>7, <2>8 DEF TypeOK, Flows, logVars
<1>13. ASSUME Configure PROVE TypeOK'
  BY <1>13, RequestLogAssumption DEF TypeOK, Flows, NoId, Configure, flowVars, Handler, Masked, OwnAfter
<1>14. ASSUME NEW place \in Places, AttachForeign(place)
      PROVE  TypeOK'
  BY <1>14, RequestLogAssumption DEF TypeOK, Flows, NoId, AttachForeign, flowVars, Handler
<1>15. ASSUME UNCHANGED vars PROVE TypeOK'
  BY <1>15, RequestLogAssumption DEF TypeOK, Flows, NoId, vars, flowVars, logVars
<1> QED
  BY <1>1, <1>2, <1>3, <1>4, <1>5, <1>6, <1>7, <1>8, <1>9, <1>10, <1>11, <1>12, <1>13, <1>14, <1>15 DEF Next

(* An id drawn for a request is new, and its context is its own.           *)
LEMMA StepScope ==
  ASSUME TypeOK, ScopeInv, WorkerInv, [Next]_vars
  PROVE  ScopeInv'
<1>1. ASSUME NEW r \in Requests, Arrive(r)
      PROVE  ScopeInv'
  BY <1>1, RequestLogAssumption DEF TypeOK, ScopeInv, Serving, Inside, Left, Flows, NoId, Arrive, logVars, Bound
<1>2. ASSUME NEW r \in Requests, NEW code \in Refusals, Refuse(r, code)
      PROVE  ScopeInv'
  BY <1>2, RequestLogAssumption, LimitsInside DEF TypeOK, ScopeInv, Serving, Inside, Left, Flows, NoId, Refuse, logVars, Started
<1>3. ASSUME NEW r \in Requests, Admit(r)
      PROVE  ScopeInv'
  BY <1>3, RequestLogAssumption DEF TypeOK, ScopeInv, Serving, Inside, Left, Flows, NoId, Admit, logVars
<1>4. ASSUME NEW r \in Requests, Audit(r)
      PROVE  ScopeInv'
  BY <1>4, RequestLogAssumption DEF TypeOK, ScopeInv, Serving, Inside, Left, Flows, NoId, Audit, logVars
<1>5. ASSUME NEW r \in Requests, NEW code \in {200, 409}, Answer(r, code)
      PROVE  ScopeInv'
  BY <1>5, RequestLogAssumption DEF TypeOK, ScopeInv, Serving, Inside, Left, Flows, NoId, Answer, logVars, Started
<1>6. ASSUME NEW r \in Requests, Raise(r)
      PROVE  ScopeInv'
  BY <1>6, RequestLogAssumption DEF TypeOK, ScopeInv, Serving, Inside, Left, Flows, NoId, Raise, logVars
<1>7. ASSUME NEW r \in Requests, Leave(r)
      PROVE  ScopeInv'
  BY <1>7, RequestLogAssumption DEF TypeOK, ScopeInv, Serving, Inside, Left, Flows, NoId, Leave, logVars, Unbound
<1>8. ASSUME NEW r \in Requests, HandleError(r)
      PROVE  ScopeInv'
  BY <1>8, RequestLogAssumption DEF TypeOK, ScopeInv, Serving, Inside, Left, Flows, NoId, HandleError
<1>9. ASSUME NEW r \in Requests, ServerLogs(r)
      PROVE  ScopeInv'
  BY <1>9, RequestLogAssumption DEF TypeOK, ScopeInv, Serving, Inside, Left, Flows, NoId, ServerLogs
<1>10. ASSUME Reclaim PROVE ScopeInv'
  BY <1>10, RequestLogAssumption DEF TypeOK, ScopeInv, Serving, Inside, Left, Flows, NoId, Reclaim, logVars
<1>11. ASSUME BeginRun PROVE ScopeInv'
  BY <1>11, RequestLogAssumption DEF TypeOK, ScopeInv, Serving, Inside, Left, Flows, NoId, BeginRun, logVars, Bound
<1>12. ASSUME NEW kinds \in SUBSET {"audit", "line"}, EndRun(kinds)
      PROVE  ScopeInv'
  BY <1>12, RequestLogAssumption DEF TypeOK, ScopeInv, Serving, Inside, Left, Flows, NoId, EndRun, logVars, Unbound
<1>13. ASSUME Configure PROVE ScopeInv'
  BY <1>13, RequestLogAssumption DEF TypeOK, ScopeInv, Serving, Inside, Left, Flows, NoId, Configure, flowVars, OwnAfter
<1>14. ASSUME NEW place \in Places, AttachForeign(place)
      PROVE  ScopeInv'
  BY <1>14, RequestLogAssumption DEF TypeOK, ScopeInv, Serving, Inside, Left, Flows, NoId, AttachForeign, flowVars
<1>15. ASSUME UNCHANGED vars PROVE ScopeInv'
  BY <1>15, RequestLogAssumption DEF TypeOK, ScopeInv, Serving, Inside, Left, Flows, NoId, vars, flowVars, logVars
<1> QED
  BY <1>1, <1>2, <1>3, <1>4, <1>5, <1>6, <1>7, <1>8, <1>9, <1>10, <1>11, <1>12, <1>13, <1>14, <1>15 DEF Next

(* The worker starts every execution with nothing bound and ends it so.    *)
LEMMA StepWorker ==
  ASSUME TypeOK, ScopeInv, WorkerInv, [Next]_vars
  PROVE  WorkerInv'
<1>1. ASSUME NEW r \in Requests, Arrive(r)
      PROVE  WorkerInv'
  BY <1>1, RequestLogAssumption DEF TypeOK, ScopeInv, WorkerInv, Inside, Flows, NoId, Arrive, logVars, Bound
<1>2. ASSUME NEW r \in Requests, NEW code \in Refusals, Refuse(r, code)
      PROVE  WorkerInv'
  BY <1>2, RequestLogAssumption, LimitsInside DEF TypeOK, ScopeInv, WorkerInv, Inside, Flows, NoId, Refuse, logVars, Started
<1>3. ASSUME NEW r \in Requests, Admit(r)
      PROVE  WorkerInv'
  BY <1>3, RequestLogAssumption DEF TypeOK, ScopeInv, WorkerInv, Inside, Flows, NoId, Admit, logVars
<1>4. ASSUME NEW r \in Requests, Audit(r)
      PROVE  WorkerInv'
  BY <1>4, RequestLogAssumption DEF TypeOK, ScopeInv, WorkerInv, Inside, Flows, NoId, Audit, logVars, Record, AuditId
<1>5. ASSUME NEW r \in Requests, NEW code \in {200, 409}, Answer(r, code)
      PROVE  WorkerInv'
  BY <1>5, RequestLogAssumption DEF TypeOK, ScopeInv, WorkerInv, Inside, Flows, NoId, Answer, logVars, Started
<1>6. ASSUME NEW r \in Requests, Raise(r)
      PROVE  WorkerInv'
  BY <1>6, RequestLogAssumption DEF TypeOK, ScopeInv, WorkerInv, Inside, Flows, NoId, Raise, logVars
<1>7. ASSUME NEW r \in Requests, Leave(r)
      PROVE  WorkerInv'
  BY <1>7, RequestLogAssumption DEF TypeOK, ScopeInv, WorkerInv, Inside, Flows, NoId, Leave, logVars, Unbound, Record
<1>8. ASSUME NEW r \in Requests, HandleError(r)
      PROVE  WorkerInv'
  BY <1>8, RequestLogAssumption DEF TypeOK, ScopeInv, WorkerInv, Inside, Flows, NoId, HandleError, HandlerId, Record
<1>9. ASSUME NEW r \in Requests, ServerLogs(r)
      PROVE  WorkerInv'
  BY <1>9, RequestLogAssumption DEF TypeOK, ScopeInv, WorkerInv, Inside, Flows, NoId, ServerLogs
<1>10. ASSUME Reclaim PROVE WorkerInv'
  BY <1>10, RequestLogAssumption DEF TypeOK, ScopeInv, WorkerInv, Inside, Flows, NoId, Reclaim, logVars
<1>11. ASSUME BeginRun PROVE WorkerInv'
  BY <1>11, RequestLogAssumption DEF TypeOK, ScopeInv, WorkerInv, Inside, Flows, NoId, BeginRun, logVars, Bound
<1>12. ASSUME NEW kinds \in SUBSET {"audit", "line"}, EndRun(kinds)
      PROVE  WorkerInv'
  BY <1>12, RequestLogAssumption DEF TypeOK, ScopeInv, WorkerInv, Inside, Flows, NoId, EndRun, logVars, Unbound
<1>13. ASSUME Configure PROVE WorkerInv'
  BY <1>13, RequestLogAssumption DEF TypeOK, ScopeInv, WorkerInv, Inside, Flows, NoId, Configure, flowVars
<1>14. ASSUME NEW place \in Places, AttachForeign(place)
      PROVE  WorkerInv'
  BY <1>14, RequestLogAssumption DEF TypeOK, ScopeInv, WorkerInv, Inside, Flows, NoId, AttachForeign, flowVars
<1>15. ASSUME UNCHANGED vars PROVE WorkerInv'
  BY <1>15, RequestLogAssumption DEF TypeOK, ScopeInv, WorkerInv, Inside, Flows, NoId, vars, flowVars, logVars
<1> QED
  BY <1>1, <1>2, <1>3, <1>4, <1>5, <1>6, <1>7, <1>8, <1>9, <1>10, <1>11, <1>12, <1>13, <1>14, <1>15 DEF Next

LEMMA StepTrail ==
  ASSUME TypeOK, ScopeInv, WorkerInv, TrailInv, [Next]_vars
  PROVE  TrailInv'
<1>1. ASSUME NEW r \in Requests, Arrive(r)
      PROVE  TrailInv'
  <2>1. scopeId' = [scopeId EXCEPT ![r] = fresh + 1] /\ scopeId[r] = NoId
        /\ UNCHANGED <<trail, loops>>
    BY <1>1 DEF Arrive, ScopeInv
  <2>2. ASSUME NEW x \in trail
        PROVE  OfWorker(x)' \/ \E s \in Requests : OfRequest(x, s)'
    <3>1. x.id \in 0..fresh
      BY DEF TypeOK
    <3>2. OfWorker(x) => OfWorker(x)'
      BY <2>1, <3>1 DEF TypeOK, OfWorker
    <3>3. ASSUME NEW s \in Requests, OfRequest(x, s) PROVE OfRequest(x, s)'
      BY <2>1, <3>3 DEF TypeOK, OfRequest
    <3> QED
      BY <3>2, <3>3 DEF TrailInv
  <2> QED
    BY <2>1, <2>2 DEF TrailInv, OneIdPerOrigin
<1>2. ASSUME NEW r \in Requests, NEW code \in Refusals, Refuse(r, code)
      PROVE  TrailInv'
  BY <1>2 DEF TrailInv, OneIdPerOrigin, OfRequest, OfWorker, Refuse
<1>3. ASSUME NEW r \in Requests, Admit(r)
      PROVE  TrailInv'
  BY <1>3 DEF TrailInv, OneIdPerOrigin, OfRequest, OfWorker, Admit
<1>4. ASSUME NEW r \in Requests, Audit(r)
      PROVE  TrailInv'
  <2> DEFINE x == Record("audit", <<r, 0>>, AuditId(r), Cardinality(Audits(r)))
  <2>1. trail' = trail \cup {x} /\ UNCHANGED <<scopeId, loops>>
    BY <1>4 DEF Audit
  <2>2. scopeId[r] # NoId /\ AuditId(r) = scopeId[r]
    BY <1>4 DEF Audit, ScopeInv, Inside, AuditId
  <2>3. OfRequest(x, r)
    BY <2>2 DEF Record, OfRequest
  <2> HIDE DEF x
  <2> QED
    BY <2>1, <2>3, RequestRecordKeepsTrail
<1>5. ASSUME NEW r \in Requests, NEW code \in {200, 409}, Answer(r, code)
      PROVE  TrailInv'
  BY <1>5 DEF TrailInv, OneIdPerOrigin, OfRequest, OfWorker, Answer
<1>6. ASSUME NEW r \in Requests, Raise(r)
      PROVE  TrailInv'
  BY <1>6 DEF TrailInv, OneIdPerOrigin, OfRequest, OfWorker, Raise
<1>7. ASSUME NEW r \in Requests, Leave(r)
      PROVE  TrailInv'
  <2> DEFINE x == Record("line", <<r, 0>>, ctx[r], status[r])
  <2>1. trail' = trail \cup {x} /\ UNCHANGED <<scopeId, loops>>
    BY <1>7 DEF Leave
  <2>2. scopeId[r] # NoId /\ ctx[r] = scopeId[r]
    BY <1>7 DEF Leave, ScopeInv, Inside
  <2>3. OfRequest(x, r)
    BY <2>2 DEF Record, OfRequest
  <2> HIDE DEF x
  <2> QED
    BY <2>1, <2>3, RequestRecordKeepsTrail
<1>8. ASSUME NEW r \in Requests, HandleError(r)
      PROVE  TrailInv'
  <2> DEFINE x == Record("exception", <<r, 0>>, HandlerId(r), 500)
  <2>1. trail' = trail \cup {x} /\ UNCHANGED <<scopeId, loops>>
    BY <1>8 DEF HandleError
  <2>2. scopeId[r] # NoId /\ HandlerId(r) = scopeId[r]
    BY <1>8 DEF HandleError, ScopeInv, Inside, HandlerId
  <2>3. OfRequest(x, r)
    BY <2>2 DEF Record, OfRequest
  <2> HIDE DEF x
  <2> QED
    BY <2>1, <2>3, RequestRecordKeepsTrail
<1>9. ASSUME NEW r \in Requests, ServerLogs(r)
      PROVE  TrailInv'
  BY <1>9 DEF TrailInv, OneIdPerOrigin, OfRequest, OfWorker, ServerLogs
<1>10. ASSUME Reclaim PROVE TrailInv'
  <2> DEFINE id == AuditId(Worker)
             R == {Record("audit", <<Worker, loops>>, id, 0)}
  <2>1. id = fresh + 1
    BY <1>10 DEF Reclaim, WorkerInv, AuditId
  <2>2. id # NoId /\ (\A r \in Requests : scopeId[r] # id) /\ (\A x \in trail : x.id # id)
    BY <2>1 DEF TypeOK, NoId
  <2>3. trail' = trail \cup R /\ loops' = loops + 1 /\ UNCHANGED scopeId
    BY <1>10 DEF Reclaim
  <2> HIDE DEF id
  <2>4. \A x \in R : x.id = id /\ x.origin = <<Worker, loops>>
    BY DEF Record
  <2> HIDE DEF R
  <2> QED
    BY <2>2, <2>3, <2>4, WorkerRecordsKeepTrail
<1>11. ASSUME BeginRun PROVE TrailInv'
  BY <1>11 DEF TrailInv, OneIdPerOrigin, OfRequest, OfWorker, BeginRun
<1>12. ASSUME NEW kinds \in SUBSET {"audit", "line"}, EndRun(kinds)
      PROVE  TrailInv'
  <2> DEFINE id == AuditId(Worker)
             R == {Record(k, <<Worker, loops>>, id, 0) : k \in kinds}
  <2>1. id = ctx[Worker] /\ id # NoId
    BY <1>12 DEF EndRun, WorkerInv, AuditId
  <2>2. (\A r \in Requests : scopeId[r] # id) /\ (\A x \in trail : x.id # id)
    BY <1>12, <2>1 DEF EndRun, WorkerInv
  <2>3. trail' = trail \cup R /\ loops' = loops + 1 /\ UNCHANGED scopeId
    BY <1>12 DEF EndRun
  <2> HIDE DEF id
  <2>4. \A x \in R : x.id = id /\ x.origin = <<Worker, loops>>
    BY DEF Record
  <2> HIDE DEF R
  <2> QED
    BY <2>1, <2>2, <2>3, <2>4, WorkerRecordsKeepTrail
<1>13. ASSUME Configure PROVE TrailInv'
  BY <1>13 DEF TrailInv, OneIdPerOrigin, OfRequest, OfWorker, Configure, flowVars
<1>14. ASSUME NEW place \in Places, AttachForeign(place)
      PROVE  TrailInv'
  BY <1>14 DEF TrailInv, OneIdPerOrigin, OfRequest, OfWorker, AttachForeign, flowVars
<1>15. ASSUME UNCHANGED vars PROVE TrailInv'
  BY <1>15 DEF TrailInv, OneIdPerOrigin, OfRequest, OfWorker, vars, flowVars, logVars
<1> QED
  BY <1>1, <1>2, <1>3, <1>4, <1>5, <1>6, <1>7, <1>8, <1>9, <1>10, <1>11, <1>12, <1>13, <1>14, <1>15 DEF Next

LEMMA StepStatus ==
  ASSUME TypeOK, StatusInv, [Next]_vars
  PROVE  StatusInv'
<1>1. ASSUME NEW r \in Requests, Arrive(r)
      PROVE  StatusInv'
  BY <1>1, RequestLogAssumption DEF TypeOK, StatusInv, Inside, Flows, Arrive
<1>2. ASSUME NEW r \in Requests, NEW code \in Refusals, Refuse(r, code)
      PROVE  StatusInv'
  BY <1>2, RequestLogAssumption, LimitsInside DEF TypeOK, StatusInv, Inside, Flows, Refuse, Started, Codes
<1>3. ASSUME NEW r \in Requests, Admit(r)
      PROVE  StatusInv'
  BY <1>3, RequestLogAssumption DEF TypeOK, StatusInv, Inside, Flows, Admit
<1>4. ASSUME NEW r \in Requests, Audit(r)
      PROVE  StatusInv'
  BY <1>4, RequestLogAssumption DEF TypeOK, StatusInv, Inside, Flows, Audit
<1>5. ASSUME NEW r \in Requests, NEW code \in {200, 409}, Answer(r, code)
      PROVE  StatusInv'
  BY <1>5, RequestLogAssumption DEF TypeOK, StatusInv, Inside, Flows, Answer, Started, Codes
<1>6. ASSUME NEW r \in Requests, Raise(r)
      PROVE  StatusInv'
  BY <1>6, RequestLogAssumption DEF TypeOK, StatusInv, Inside, Flows, Raise
<1>7. ASSUME NEW r \in Requests, Leave(r)
      PROVE  StatusInv'
  BY <1>7, RequestLogAssumption DEF TypeOK, StatusInv, Inside, Flows, Leave
<1>8. ASSUME NEW r \in Requests, HandleError(r)
      PROVE  StatusInv'
  <2>1. /\ phase[r] = "raising" /\ phase' = [phase EXCEPT ![r] = "reraised"]
        /\ answer' = [answer EXCEPT ![r] = IF answer[r] = 0 THEN 500 ELSE answer[r]]
        /\ UNCHANGED <<status, raised>>
    BY <1>8 DEF HandleError
  <2>2. answer'[r] # 0 /\ answer'[r] = status[r]
    <3>1. answer'[r] = IF answer[r] = 0 THEN 500 ELSE answer[r]
      BY <2>1 DEF TypeOK
    <3>2. answer[r] = status[r] \/ (answer[r] = 0 /\ status[r] = 500)
      BY DEF StatusInv
    <3>3. status[r] # 0
      BY DEF TypeOK, Codes
    <3> QED
      BY <3>1, <3>2, <3>3
  <2>3. \A s \in Requests \ {r} : answer'[s] = answer[s] /\ phase'[s] = phase[s]
    BY <2>1 DEF TypeOK, Flows
  <2>4. phase'[r] = "reraised"
    BY <2>1 DEF TypeOK, Flows
  <2> QED
    BY <2>1, <2>2, <2>3, <2>4 DEF StatusInv
<1>9. ASSUME NEW r \in Requests, ServerLogs(r)
      PROVE  StatusInv'
  BY <1>9, RequestLogAssumption DEF TypeOK, StatusInv, Inside, Flows, ServerLogs
<1>10. ASSUME Reclaim PROVE StatusInv'
  BY <1>10, RequestLogAssumption DEF TypeOK, StatusInv, Inside, Flows, Reclaim
<1>11. ASSUME BeginRun PROVE StatusInv'
  BY <1>11, RequestLogAssumption DEF TypeOK, StatusInv, Inside, Flows, BeginRun
<1>12. ASSUME NEW kinds \in SUBSET {"audit", "line"}, EndRun(kinds)
      PROVE  StatusInv'
  BY <1>12, RequestLogAssumption DEF TypeOK, StatusInv, Inside, Flows, EndRun
<1>13. ASSUME Configure PROVE StatusInv'
  BY <1>13, RequestLogAssumption DEF TypeOK, StatusInv, Inside, Flows, Configure, flowVars
<1>14. ASSUME NEW place \in Places, AttachForeign(place)
      PROVE  StatusInv'
  BY <1>14, RequestLogAssumption DEF TypeOK, StatusInv, Inside, Flows, AttachForeign, flowVars
<1>15. ASSUME UNCHANGED vars PROVE StatusInv'
  BY <1>15, RequestLogAssumption DEF TypeOK, StatusInv, Inside, Flows, vars, flowVars, logVars
<1> QED
  BY <1>1, <1>2, <1>3, <1>4, <1>5, <1>6, <1>7, <1>8, <1>9, <1>10, <1>11, <1>12, <1>13, <1>14, <1>15 DEF Next

(* The line is written once, on the way out, with the last status.         *)
LEMMA StepLine ==
  ASSUME TypeOK, LineInv, [Next]_vars
  PROVE  LineInv'
<1>1. ASSUME NEW r \in Requests, Arrive(r)
      PROVE  LineInv'
  <2>1. UNCHANGED trail
    BY <1>1 DEF Arrive
  <2>2. \A s \in Requests : Lines(s)' = Lines(s)
    BY <2>1 DEF Lines
  <2> QED
    BY <1>1, <2>2, RequestLogAssumption DEF TypeOK, LineInv, Inside, Left, Flows, Arrive
<1>2. ASSUME NEW r \in Requests, NEW code \in Refusals, Refuse(r, code)
      PROVE  LineInv'
  <2>1. UNCHANGED trail
    BY <1>2 DEF Refuse
  <2>2. \A s \in Requests : Lines(s)' = Lines(s)
    BY <2>1 DEF Lines
  <2> QED
    BY <1>2, <2>2, RequestLogAssumption, LimitsInside DEF TypeOK, LineInv, Inside, Left, Flows, Refuse, Started
<1>3. ASSUME NEW r \in Requests, Admit(r)
      PROVE  LineInv'
  <2>1. UNCHANGED trail
    BY <1>3 DEF Admit
  <2>2. \A s \in Requests : Lines(s)' = Lines(s)
    BY <2>1 DEF Lines
  <2> QED
    BY <1>3, <2>2, RequestLogAssumption DEF TypeOK, LineInv, Inside, Left, Flows, Admit
<1>4. ASSUME NEW r \in Requests, Audit(r)
      PROVE  LineInv'
  <2> DEFINE R == {Record("audit", <<r, 0>>, AuditId(r), Cardinality(Audits(r)))}
  <2>1. trail' = trail \cup R
    BY <1>4 DEF Audit
  <2>2. \A s \in Requests : Lines(s)' = Lines(s)
    <3>1. \A x \in R, s \in Requests : ~(x.kind = "line" /\ x.origin = <<s, 0>>)
      BY RequestLogAssumption DEF Record
    <3> HIDE DEF R
    <3> QED
      BY <2>1, <3>1, OtherRecordsKeepLines
  <2> QED
    BY <1>4, <2>2, RequestLogAssumption DEF TypeOK, LineInv, Inside, Left, Flows, Audit
<1>5. ASSUME NEW r \in Requests, NEW code \in {200, 409}, Answer(r, code)
      PROVE  LineInv'
  <2>1. UNCHANGED trail
    BY <1>5 DEF Answer
  <2>2. \A s \in Requests : Lines(s)' = Lines(s)
    BY <2>1 DEF Lines
  <2> QED
    BY <1>5, <2>2, RequestLogAssumption DEF TypeOK, LineInv, Inside, Left, Flows, Answer, Started
<1>6. ASSUME NEW r \in Requests, Raise(r)
      PROVE  LineInv'
  <2>1. UNCHANGED trail
    BY <1>6 DEF Raise
  <2>2. \A s \in Requests : Lines(s)' = Lines(s)
    BY <2>1 DEF Lines
  <2> QED
    BY <1>6, <2>2, RequestLogAssumption DEF TypeOK, LineInv, Inside, Left, Flows, Raise
<1>7. ASSUME NEW r \in Requests, Leave(r)
      PROVE  LineInv'
  <2> DEFINE x == Record("line", <<r, 0>>, ctx[r], status[r])
  <2>1. x.kind = "line" /\ x.origin = <<r, 0>> /\ x.status = status[r]
    BY DEF Record
  <2>2. trail' = trail \cup {x} /\ UNCHANGED status /\ phase[r] = "leaving"
        /\ phase' = [phase EXCEPT ![r] = IF r \in raised THEN "raising" ELSE "done"]
    BY <1>7 DEF Leave
  <2> HIDE DEF x
  <2>3. Lines(r)' = {x}
    <3>1. Lines(r) = {}
      BY <2>2 DEF LineInv, Inside
    <3> QED
      BY <2>1, <2>2, <3>1 DEF Lines
  <2>4. \A s \in Requests \ {r} : Lines(s)' = Lines(s)
    BY <2>1, <2>2 DEF Lines
  <2> HIDE DEF Lines
  <2>5. phase'[r] \in Left
    BY <2>2 DEF TypeOK, Flows, Left
  <2>6. \A s \in Requests \ {r} : phase'[s] = phase[s]
    BY <2>2 DEF TypeOK, Flows
  <2> QED
    BY <2>1, <2>2, <2>3, <2>4, <2>5, <2>6 DEF LineInv, Inside, Left
<1>8. ASSUME NEW r \in Requests, HandleError(r)
      PROVE  LineInv'
  <2> DEFINE R == {Record("exception", <<r, 0>>, HandlerId(r), 500)}
  <2>1. trail' = trail \cup R
    BY <1>8 DEF HandleError
  <2>2. \A s \in Requests : Lines(s)' = Lines(s)
    <3>1. \A x \in R, s \in Requests : ~(x.kind = "line" /\ x.origin = <<s, 0>>)
      BY RequestLogAssumption DEF Record
    <3> HIDE DEF R
    <3> QED
      BY <2>1, <3>1, OtherRecordsKeepLines
  <2> QED
    BY <1>8, <2>2, RequestLogAssumption DEF TypeOK, LineInv, Inside, Left, Flows, HandleError
<1>9. ASSUME NEW r \in Requests, ServerLogs(r)
      PROVE  LineInv'
  <2>1. UNCHANGED trail
    BY <1>9 DEF ServerLogs
  <2>2. \A s \in Requests : Lines(s)' = Lines(s)
    BY <2>1 DEF Lines
  <2> QED
    BY <1>9, <2>2, RequestLogAssumption DEF TypeOK, LineInv, Inside, Left, Flows, ServerLogs
<1>10. ASSUME Reclaim PROVE LineInv'
  <2> DEFINE R == {Record("audit", <<Worker, loops>>, AuditId(Worker), 0)}
  <2>1. trail' = trail \cup R
    BY <1>10 DEF Reclaim
  <2>2. \A s \in Requests : Lines(s)' = Lines(s)
    <3>1. \A x \in R, s \in Requests : ~(x.kind = "line" /\ x.origin = <<s, 0>>)
      BY RequestLogAssumption DEF Record
    <3> HIDE DEF R
    <3> QED
      BY <2>1, <3>1, OtherRecordsKeepLines
  <2> QED
    BY <1>10, <2>2, RequestLogAssumption DEF TypeOK, LineInv, Inside, Left, Flows, Reclaim
<1>11. ASSUME BeginRun PROVE LineInv'
  <2>1. UNCHANGED trail
    BY <1>11 DEF BeginRun
  <2>2. \A s \in Requests : Lines(s)' = Lines(s)
    BY <2>1 DEF Lines
  <2> QED
    BY <1>11, <2>2, RequestLogAssumption DEF TypeOK, LineInv, Inside, Left, Flows, BeginRun
<1>12. ASSUME NEW kinds \in SUBSET {"audit", "line"}, EndRun(kinds)
      PROVE  LineInv'
  <2> DEFINE R == {Record(k, <<Worker, loops>>, AuditId(Worker), 0) : k \in kinds}
  <2>1. trail' = trail \cup R
    BY <1>12 DEF EndRun
  <2>2. \A s \in Requests : Lines(s)' = Lines(s)
    <3>1. \A x \in R, s \in Requests : ~(x.kind = "line" /\ x.origin = <<s, 0>>)
      BY RequestLogAssumption DEF Record
    <3> HIDE DEF R
    <3> QED
      BY <2>1, <3>1, OtherRecordsKeepLines
  <2> QED
    BY <1>12, <2>2, RequestLogAssumption DEF TypeOK, LineInv, Inside, Left, Flows, EndRun
<1>13. ASSUME Configure PROVE LineInv'
  <2>1. UNCHANGED trail
    BY <1>13 DEF Configure, flowVars
  <2>2. \A s \in Requests : Lines(s)' = Lines(s)
    BY <2>1 DEF Lines
  <2> QED
    BY <1>13, <2>2, RequestLogAssumption DEF TypeOK, LineInv, Inside, Left, Flows, Configure, flowVars
<1>14. ASSUME NEW place \in Places, AttachForeign(place)
      PROVE  LineInv'
  <2>1. UNCHANGED trail
    BY <1>14 DEF AttachForeign, flowVars
  <2>2. \A s \in Requests : Lines(s)' = Lines(s)
    BY <2>1 DEF Lines
  <2> QED
    BY <1>14, <2>2, RequestLogAssumption DEF TypeOK, LineInv, Inside, Left, Flows, AttachForeign, flowVars
<1>15. ASSUME UNCHANGED vars PROVE LineInv'
  <2>1. UNCHANGED trail
    BY <1>15 DEF vars, flowVars, logVars
  <2>2. \A s \in Requests : Lines(s)' = Lines(s)
    BY <2>1 DEF Lines
  <2> QED
    BY <1>15, <2>2, RequestLogAssumption DEF TypeOK, LineInv, Inside, Left, Flows, vars, flowVars, logVars
<1> QED
  BY <1>1, <1>2, <1>3, <1>4, <1>5, <1>6, <1>7, <1>8, <1>9, <1>10, <1>11, <1>12, <1>13, <1>14, <1>15 DEF Next

(* A handler that was there when configure ran is masked from then on.     *)
LEMMA StepMask ==
  ASSUME TypeOK, ScopeInv, MaskInv, [Next]_vars
  PROVE  MaskInv'
<1>1. ASSUME NEW r \in Requests, Arrive(r)
      PROVE  MaskInv'
  BY <1>1 DEF MaskInv, Serving, logVars, Arrive
<1>2. ASSUME NEW r \in Requests, NEW code \in Refusals, Refuse(r, code)
      PROVE  MaskInv'
  BY <1>2 DEF MaskInv, Serving, logVars, Refuse
<1>3. ASSUME NEW r \in Requests, Admit(r)
      PROVE  MaskInv'
  BY <1>3 DEF MaskInv, Serving, logVars, Admit
<1>4. ASSUME NEW r \in Requests, Audit(r)
      PROVE  MaskInv'
  BY <1>4 DEF MaskInv, Serving, logVars, Audit
<1>5. ASSUME NEW r \in Requests, NEW code \in {200, 409}, Answer(r, code)
      PROVE  MaskInv'
  BY <1>5 DEF MaskInv, Serving, logVars, Answer
<1>6. ASSUME NEW r \in Requests, Raise(r)
      PROVE  MaskInv'
  BY <1>6 DEF MaskInv, Serving, logVars, Raise
<1>7. ASSUME NEW r \in Requests, Leave(r)
      PROVE  MaskInv'
  BY <1>7 DEF MaskInv, Serving, logVars, Leave
<1>8. ASSUME NEW r \in Requests, HandleError(r)
      PROVE  MaskInv'
  <2>1. own = 1
    BY <1>8 DEF HandleError, ScopeInv, MaskInv
  <2>2. \A p \in Prints("loan_agent") : p.masked
    <3>1. own > 0
      BY <2>1
    <3>2. (own > 0) = TRUE
      BY <3>1
    <3>3. Prints("loan_agent") = {[at |-> "loan_agent", masked |-> own > 0, late |-> FALSE]}
      BY DEF Prints
    <3>4. Prints("loan_agent") = {[at |-> "loan_agent", masked |-> TRUE, late |-> FALSE]}
      BY <3>2, <3>3, Zenon
    <3> QED
      BY <3>4
  <2>3. \A p \in Prints("root") : p.masked \/ p.late
    BY DEF Prints, MaskInv, Places
  <2> QED
    BY <1>8, <2>2, <2>3 DEF MaskInv, Serving, HandleError
<1>9. ASSUME NEW r \in Requests, ServerLogs(r)
      PROVE  MaskInv'
  BY <1>9 DEF TypeOK, MaskInv, Serving, Prints, Places, ServerLogs
<1>10. ASSUME Reclaim PROVE MaskInv'
  BY <1>10 DEF MaskInv, Serving, logVars, Reclaim
<1>11. ASSUME BeginRun PROVE MaskInv'
  BY <1>11 DEF MaskInv, Serving, logVars, BeginRun
<1>12. ASSUME NEW kinds \in SUBSET {"audit", "line"}, EndRun(kinds)
      PROVE  MaskInv'
  BY <1>12 DEF MaskInv, Serving, logVars, EndRun
<1>13. ASSUME Configure PROVE MaskInv'
  <2>1. own' = 1 /\ UNCHANGED printed
    BY <1>13 DEF Configure, OwnAfter
  <2>2. ASSUME NEW p \in Places, foreign'[p].before PROVE foreign'[p].masked
    BY <1>13, <2>2 DEF MaskInv, Configure, Masked
  <2> QED
    BY <2>1, <2>2 DEF MaskInv
<1>14. ASSUME NEW place \in Places, AttachForeign(place)
      PROVE  MaskInv'
  BY <1>14 DEF TypeOK, MaskInv, Serving, AttachForeign
<1>15. ASSUME UNCHANGED vars PROVE MaskInv'
  BY <1>15 DEF MaskInv, Serving, logVars, vars
<1> QED
  BY <1>1, <1>2, <1>3, <1>4, <1>5, <1>6, <1>7, <1>8, <1>9, <1>10, <1>11, <1>12, <1>13, <1>14, <1>15 DEF Next

LEMMA Invariance == Spec => []IInv
<1>1. IInv /\ [Next]_vars => IInv'
  BY StepType, StepScope, StepWorker, StepTrail, StepStatus, StepLine, StepMask DEF IInv
<1> QED
  BY <1>1, InitInv, PTL DEF Spec

(***************************************************************************)
(* The theorems                                                            *)
(***************************************************************************)

(* Two records carry one correlation id exactly when one request, or one   *)
(* execution of the worker, wrote them both.                               *)
THEOREM TrailIsSound == Spec => []TrailSound
<1>1. IInv => TrailSound
  BY DEF IInv, TrailInv, TrailSound
<1> QED
  BY <1>1, Invariance, PTL

(* The middleware's one line shows the status the client was sent.         *)
THEOREM LinesTellAnswers == Spec => []LineTellsAnswer
<1>1. IInv => LineTellsAnswer
  BY DEF IInv, StatusInv, LineInv, Lines, Left, LineTellsAnswer
<1> QED
  BY <1>1, Invariance, PTL

(* Handlers configure reached print keys masked, and it leaves one own.    *)
THEOREM KeysAreMasked == Spec => []KeysMaskedOnce
<1>1. IInv => KeysMaskedOnce
  BY DEF IInv, MaskInv, KeysMaskedOnce
<1> QED
  BY <1>1, Invariance, PTL
=============================================================================
