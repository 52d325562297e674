--------------------------- MODULE DeliveryProofs ---------------------------
(***************************************************************************)
(* Theorems about what stands between a change and the running system: the *)
(* repository gate a change must pass (RepositoryGate) and the migrations  *)
(* that bring it to a database in use (Rollout).                           *)
(*                                                                         *)
(* Rollout: for any processes, releases, runs and any bound on migration   *)
(* jobs.  The schema a transaction has reached is told by two numbers, the *)
(* revision it stands at and its place in the script there (Placed).  The  *)
(* scripts enter only through a table that says where each object is made  *)
(* and dropped and three facts about it: a script holds just its objects,  *)
(* each once (UpgradeSteps, DowngradeSteps, ObjectSteps), and makes them   *)
(* after what they stand on and drops them before it (NeedsPrecede).       *)
(* ScoreInv follows what the two UPDATEs of 0004 have touched and what was *)
(* written beside them.                                                    *)
(*                                                                         *)
(* RepositoryGate: for any endpoints and any repositories that             *)
(* GateAssumption admits, whatever git, the tests and the auditing tools   *)
(* answer.  Answered says that each check called so far has left all its   *)
(* findings, for some answer of its tools; the rest is about single        *)
(* checks.                                                                 *)
(***************************************************************************)
EXTENDS Rollout, RepositoryGate, TLAPS

Objects ==
    {"assessment_case", "explanation_run", "fk_case_current_run",
     "uq_explanation_run_in_flight", "decision_result", "recommendation",
     "uq_recommendation_rank", "eval_result", "audit_event", "ix_assessment_case_cursor",
     "ix_assessment_case_status_cursor", "ix_explanation_run_history", "ix_audit_event_trace",
     "dsr_bounded", "parse_accuracy_nullable"}

(* The migration of an object, and its place in that migration's scripts.  *)
By(x) == CASE x \in {"ix_assessment_case_cursor", "ix_assessment_case_status_cursor",
                     "ix_explanation_run_history", "ix_audit_event_trace"} -> 2
           [] x = "dsr_bounded" -> 3
           [] x = "parse_accuracy_nullable" -> 4
           [] OTHER -> 1
Up(x) == CASE x \in {"assessment_case", "ix_assessment_case_cursor", "dsr_bounded",
                     "parse_accuracy_nullable"} -> 1
           [] x \in {"explanation_run", "ix_assessment_case_status_cursor"} -> 2
           [] x \in {"fk_case_current_run", "ix_explanation_run_history"} -> 3
           [] x \in {"uq_explanation_run_in_flight", "ix_audit_event_trace"} -> 4
           [] x = "decision_result" -> 5
           [] x = "recommendation" -> 6
           [] x = "uq_recommendation_rank" -> 7
           [] x = "eval_result" -> 8
           [] OTHER -> 9
Down(x) == CASE x \in {"audit_event", "ix_audit_event_trace", "dsr_bounded"} -> 1
             [] x \in {"eval_result", "ix_explanation_run_history",
                       "parse_accuracy_nullable"} -> 2
             [] x \in {"uq_recommendation_rank", "ix_assessment_case_status_cursor"} -> 3
             [] x \in {"recommendation", "ix_assessment_case_cursor"} -> 4
             [] x = "decision_result" -> 5
             [] x = "fk_case_current_run" -> 6
             [] x = "uq_explanation_run_in_flight" -> 7
             [] x = "explanation_run" -> 8
             [] OTHER -> 9

Steps(n) == CASE n = 1 -> 9 [] n = 2 -> 4 [] n = 3 -> 1 [] OTHER -> 2

-----------------------------------------------------------------------------
(* The inductive invariant                                                 *)

Placed ==
    IF job.kind = "up"
    THEN {x \in Objects : By(x) <= job.at \/ (By(x) = job.at + 1 /\ Up(x) <= job.pos)}
    ELSE {x \in Objects : By(x) < job.at \/ (By(x) = job.at /\ Down(x) > job.pos)}

JobInv ==
    /\ job.kind = "idle" => job = Idle
    /\ job.kind # "idle" => job.schema = Placed
    /\ job.score = "absent" => job.touched = {}
    /\ job.kind = "up" => /\ revision <= job.at /\ job.at <= job.to
                          /\ job.at < job.to => job.pos < Steps(job.at + 1)
                          /\ job.at = job.to => job.pos = 0
    /\ job.kind = "down" => /\ job.to <= job.at /\ job.at <= revision /\ job.to < revision
                            /\ job.to < job.at => job.pos < Steps(job.at)
                            /\ job.at = job.to => job.pos = 0

(* The rows the transaction has rewritten were there when it did.          *)
TouchedInv ==
    /\ \A e \in job.touched : Stored(e)
    /\ job.kind = "up" /\ (job.at < 4 \/ revision = 4) => job.touched = {}
    /\ job.kind = "down" /\ (revision < 4 \/ (job.at = 4 /\ job.pos = 0)) => job.touched = {}

(* Up: from the ALTER of 0004 to the commit nobody writes, and its UPDATE  *)
(* has rewritten every row.                                                *)
LoosenInv ==
    job.kind = "up" /\ revision < 4 =>
        /\ (job.at = 3 /\ job.pos > 0) \/ job.at = 4 => "eval_result" \in job.locked
        /\ job.at = 4 => /\ job.score = "unscored"
                         /\ \A e \in Runs : Stored(e) => e \in job.touched

(* Down: rows may be written between the UPDATE and the ALTER of 0004, and *)
(* once the ALTER has been accepted no row is NULL any more.               *)
TightenInv ==
    job.kind = "down" /\ revision = 4 =>
        /\ job.at = 4 /\ job.pos = 1 =>
            /\ job.score = "pass"
            /\ \A e \in Runs : Stored(e) /\ e \notin job.touched => evals[e].during = jobs
        /\ job.at < 4 =>
            /\ "eval_result" \in job.locked
            /\ \A e \in Runs : Stored(e) => Seen(e) = "pass"

ScoreInv == TouchedInv /\ LoosenInv /\ TightenInv

IInv == TypeOK /\ SchemaOfRevision /\ JobInv /\ ScoreInv /\ PassOnlyFromLateWriter

-----------------------------------------------------------------------------
(* The scripts                                                             *)

LEMMA ScriptLengths ==
  ASSUME NEW n \in 1..4
  PROVE  Len(Upgrade[n]) = Steps(n) /\ Len(Downgrade[n]) = Steps(n)
<1>1. CASE n = 1
  BY <1>1 DEF Steps, Upgrade, Downgrade, CreateCore, DropCore
<1>2. CASE n = 2
  BY <1>2 DEF Steps, Upgrade, Downgrade, CreateCursorIndexes, DropCursorIndexes
<1>3. CASE n = 3
  BY <1>3 DEF Steps, Upgrade, Downgrade, BoundDsr, UnboundDsr
<1>4. CASE n = 4
  BY <1>4 DEF Steps, Upgrade, Downgrade, LoosenScore, TightenScore
<1> QED BY <1>1, <1>2, <1>3, <1>4

(* A migration makes what the table says it makes, in that order.          *)
LEMMA UpgradeSteps ==
  ASSUME NEW n \in 1..4, NEW k \in 1..Steps(n)
  PROVE  \/ \E x \in Objects : Upgrade[n][k] = Create(x) /\ By(x) = n /\ Up(x) = k
         \/ n = 4 /\ k = 2 /\ Upgrade[n][k] = Store("unscored")
<1>1. CASE n = 1
  <2>1. k \in 1..9 /\ Upgrade[n][k] = CreateCore[k]
    BY <1>1 DEF Steps, Upgrade
  <2> QED BY <1>1, <2>1 DEF CreateCore, Objects, By, Up
<1>2. CASE n = 2
  <2>1. k \in 1..4 /\ Upgrade[n][k] = CreateCursorIndexes[k]
    BY <1>2 DEF Steps, Upgrade
  <2> QED BY <1>2, <2>1 DEF CreateCursorIndexes, Objects, By, Up
<1>3. CASE n = 3
  BY <1>3 DEF Steps, Upgrade, BoundDsr, Objects, By, Up
<1>4. CASE n = 4
  BY <1>4 DEF Steps, Upgrade, LoosenScore, Objects, By, Up
<1> QED BY <1>1, <1>2, <1>3, <1>4

LEMMA DowngradeSteps ==
  ASSUME NEW n \in 1..4, NEW k \in 1..Steps(n)
  PROVE  \/ \E x \in Objects : Downgrade[n][k] = Drop(x) /\ By(x) = n /\ Down(x) = k
         \/ n = 4 /\ k = 1 /\ Downgrade[n][k] = Store("pass")
<1>1. CASE n = 1
  <2>1. k \in 1..9 /\ Downgrade[n][k] = DropCore[k]
    BY <1>1 DEF Steps, Downgrade
  <2> QED BY <1>1, <2>1 DEF DropCore, Objects, By, Down
<1>2. CASE n = 2
  <2>1. k \in 1..4 /\ Downgrade[n][k] = DropCursorIndexes[k]
    BY <1>2 DEF Steps, Downgrade
  <2> QED BY <1>2, <2>1 DEF DropCursorIndexes, Objects, By, Down
<1>3. CASE n = 3
  BY <1>3 DEF Steps, Downgrade, UnboundDsr, Objects, By, Down
<1>4. CASE n = 4
  BY <1>4 DEF Steps, Downgrade, TightenScore, Objects, By, Down
<1> QED BY <1>1, <1>2, <1>3, <1>4

(* Every object has its statements where the table puts them.              *)
LEMMA ObjectSteps ==
  ASSUME NEW x \in Objects
  PROVE  /\ By(x) \in 1..4
         /\ Up(x) \in 1..Steps(By(x)) /\ Upgrade[By(x)][Up(x)] = Create(x)
         /\ Down(x) \in 1..Steps(By(x)) /\ Downgrade[By(x)][Down(x)] = Drop(x)
<1>1. CASE By(x) = 1
  <2>1. Upgrade[By(x)] = CreateCore /\ Downgrade[By(x)] = DropCore /\ Steps(By(x)) = 9
    BY <1>1 DEF Upgrade, Downgrade, Steps
  <2>2. Up(x) \in 1..9 /\ CreateCore[Up(x)] = Create(x)
    BY <1>1 DEF Objects, By, Up, CreateCore
  <2>3. Down(x) \in 1..9 /\ DropCore[Down(x)] = Drop(x)
    BY <1>1 DEF Objects, By, Down, DropCore
  <2> QED BY <1>1, <2>1, <2>2, <2>3
<1>2. CASE By(x) = 2
  <2>1. Upgrade[By(x)] = CreateCursorIndexes /\ Downgrade[By(x)] = DropCursorIndexes
        /\ Steps(By(x)) = 4
    BY <1>2 DEF Upgrade, Downgrade, Steps
  <2>2. Up(x) \in 1..4 /\ CreateCursorIndexes[Up(x)] = Create(x)
    BY <1>2 DEF Objects, By, Up, CreateCursorIndexes
  <2>3. Down(x) \in 1..4 /\ DropCursorIndexes[Down(x)] = Drop(x)
    BY <1>2 DEF Objects, By, Down, DropCursorIndexes
  <2> QED BY <1>2, <2>1, <2>2, <2>3
<1>3. CASE x = "dsr_bounded"
  BY <1>3 DEF By, Up, Down, Steps, Upgrade, Downgrade, BoundDsr, UnboundDsr
<1>4. CASE x = "parse_accuracy_nullable"
  BY <1>4 DEF By, Up, Down, Steps, Upgrade, Downgrade, LoosenScore, TightenScore
<1> QED BY <1>1, <1>2, <1>3, <1>4 DEF By

(* An object is made after what it stands on, and dropped before it when   *)
(* it would not go with it.                                                *)
LEMMA NeedsPrecede ==
  ASSUME NEW x \in Objects, NEW y \in Needs(x)
  PROVE  /\ y \in Objects
         /\ By(y) < By(x) \/ (By(y) = By(x) /\ Up(y) < Up(x))
         /\ x \in Referencing => By(y) < By(x) \/ Down(x) < Down(y)
<1>1. y \in Objects
  BY DEF Objects, Needs
<1>2. By(y) < By(x) \/ (By(y) = By(x) /\ Up(y) < Up(x))
  BY DEF Objects, Needs, By, Up
<1>3. x \in Referencing => By(y) < By(x) \/ Down(x) < Down(y)
  BY DEF Objects, Needs, By, Down, Referencing
<1> QED BY <1>1, <1>2, <1>3

LEMMA MadeBy ==
  ASSUME NEW n \in 1..4
  PROVE  Made(n) = {x \in Objects : By(x) = n}
<1>1. DOMAIN Upgrade[n] = 1..Steps(n)
  <2>1. CASE n = 1
    BY <2>1 DEF Steps, Upgrade, CreateCore
  <2>2. CASE n = 2
    BY <2>2 DEF Steps, Upgrade, CreateCursorIndexes
  <2>3. CASE n = 3
    BY <2>3 DEF Steps, Upgrade, BoundDsr
  <2>4. CASE n = 4
    BY <2>4 DEF Steps, Upgrade, LoosenScore
  <2> QED BY <2>1, <2>2, <2>3, <2>4
<1>2. \A x : x \in Made(n) <=> \E k \in 1..Steps(n) : /\ Upgrade[n][k].do = "create"
                                                      /\ x = Upgrade[n][k].obj
  BY <1>1 DEF Made, Range
<1>3. \A x : Create(x).do = "create" /\ Create(x).obj = x
  BY DEF Create
<1>4. Store("unscored").do # "create"
  BY DEF Store
<1>5. ASSUME NEW x \in Made(n) PROVE x \in Objects /\ By(x) = n
  BY <1>2, <1>3, <1>4, <1>5, UpgradeSteps
<1>6. ASSUME NEW x \in Objects, By(x) = n PROVE x \in Made(n)
  BY <1>2, <1>3, <1>6, ObjectSteps
<1> QED BY <1>5, <1>6

(* The schema of a revision is what the migrations up to it make.          *)
LEMMA SchemaAt ==
  ASSUME NEW n \in 0..4
  PROVE  ShapeOf(n) = {x \in Objects : By(x) <= n}
<1>1. \A i \in 1..n : Made(i) = {x \in Objects : By(x) = i}
  BY MadeBy
<1>2. \A x \in Objects : By(x) \in 1..4
  BY ObjectSteps
<1> QED BY <1>1, <1>2 DEF ShapeOf

-----------------------------------------------------------------------------
(* A statement of a transaction                                            *)

JobRecords ==
    [kind : {"idle", "up", "down"}, to : 0..4, at : 0..4, pos : Nat,
     schema : SUBSET Objects, touched : SUBSET Runs,
     score : {"absent", "pass", "unscored"}, locked : SUBSET Objects]

LEMMA AllObjects == ShapeOf(Newest) = Objects
<1>1. ShapeOf(Newest) = {x \in Objects : By(x) <= 4}
  BY SchemaAt DEF Newest
<1>2. {x \in Objects : By(x) <= 4} = Objects
  BY ObjectSteps
<1> QED BY <1>1, <1>2

LEMMA Types ==
  TypeOK <=> /\ reachable \in BOOLEAN /\ revision \in 0..4 /\ schema \subseteq Objects
             /\ evals \in [Runs -> Rows \cup {NoRow}] /\ wide \in BOOLEAN
             /\ job \in JobRecords
             /\ release \in [Processes -> Releases \cup {0}]
             /\ deploying \in Releases \cup {0} /\ jobs \in 0..MaxJobs
  BY AllObjects, Zenon DEF TypeOK, JobRecords, Newest

LEMMA IdleType == Idle \in JobRecords /\ Idle.kind = "idle"
  BY DEF Idle, JobRecords

(* Where the transaction stands, and the statement that is next.           *)
NextUp ==
    /\ job.at \in 0..3 /\ job.pos + 1 \in 1..Steps(job.at + 1)
    /\ Len(Script) = Steps(job.at + 1) /\ Following = job.at + 1
    /\ \/ \E x \in Objects : Statement = Create(x) /\ By(x) = job.at + 1 /\ Up(x) = job.pos + 1
       \/ job.at = 3 /\ job.pos = 1 /\ Statement = Store("unscored")
NextDown ==
    /\ job.at \in 1..4 /\ job.pos + 1 \in 1..Steps(job.at)
    /\ Len(Script) = Steps(job.at) /\ Following = job.at - 1
    /\ \/ \E x \in Objects : Statement = Drop(x) /\ By(x) = job.at /\ Down(x) = job.pos + 1
       \/ job.at = 4 /\ job.pos = 0 /\ Statement = Store("pass")

LEMMA NextStatement ==
  ASSUME TypeOK, JobInv, Unfinished
  PROVE  /\ job.kind \in {"up", "down"}
         /\ job.kind = "up" => NextUp
         /\ job.kind = "down" => NextDown
<1>1. job \in JobRecords /\ job.at # job.to /\ job.kind \in {"up", "down"}
  BY Types DEF Unfinished, JobRecords
<1>2. \A n \in 1..4 : Steps(n) \in 1..9
  BY DEF Steps
<1>3. CASE job.kind = "up"
  <2>1. job.at \in 0..3 /\ job.pos + 1 \in 1..Steps(job.at + 1)
    BY <1>1, <1>2, <1>3 DEF JobInv, JobRecords
  <2>2. Script = Upgrade[job.at + 1] /\ Following = job.at + 1
    BY <1>3 DEF Script, Following
  <2>3. Statement = Upgrade[job.at + 1][job.pos + 1]
    BY <2>2 DEF Statement
  <2>4. \/ \E x \in Objects : Statement = Create(x) /\ By(x) = job.at + 1 /\ Up(x) = job.pos + 1
        \/ job.at + 1 = 4 /\ job.pos + 1 = 2 /\ Statement = Store("unscored")
    BY <2>1, <2>3, UpgradeSteps
  <2>5. Len(Script) = Steps(job.at + 1)
    BY <2>1, <2>2, ScriptLengths
  <2> QED BY <1>1, <1>3, <2>1, <2>2, <2>4, <2>5 DEF NextUp, JobRecords
<1>4. CASE job.kind = "down"
  <2>1. job.at \in 1..4 /\ job.pos + 1 \in 1..Steps(job.at)
    BY <1>1, <1>2, <1>4 DEF JobInv, JobRecords
  <2>2. Script = Downgrade[job.at] /\ Following = job.at - 1
    BY <1>4 DEF Script, Following
  <2>3. Statement = Downgrade[job.at][job.pos + 1]
    BY <2>2 DEF Statement
  <2>4. \/ \E x \in Objects : Statement = Drop(x) /\ By(x) = job.at /\ Down(x) = job.pos + 1
        \/ job.at = 4 /\ job.pos + 1 = 1 /\ Statement = Store("pass")
    BY <2>1, <2>3, DowngradeSteps
  <2>5. Len(Script) = Steps(job.at)
    BY <2>1, <2>2, ScriptLengths
  <2> QED BY <1>1, <1>4, <2>1, <2>2, <2>4, <2>5 DEF NextDown, JobRecords
<1> QED BY <1>1, <1>3, <1>4

(* The fields of the transaction after a statement.                        *)
LEMMA ExecuteFields ==
  ASSUME TypeOK, Execute, Statement.do \in {"create", "drop", "update"}
  PROVE  /\ DOMAIN job' = DOMAIN job
         /\ job'.kind = job.kind /\ job'.to = job.to
         /\ job'.at = IF job.pos + 1 = Len(Script) THEN Following ELSE job.at
         /\ job'.pos = IF job.pos + 1 = Len(Script) THEN 0 ELSE job.pos + 1
         /\ job'.locked = job.locked \cup Locks(Statement)
         /\ job'.schema = CASE Statement.do = "create" -> job.schema \cup {Statement.obj}
                            [] Statement.do = "drop" -> job.schema \ {Statement.obj}
                            [] OTHER -> job.schema
         /\ Statement.do = "update" => /\ job'.touched = {e \in Runs : Stored(e)}
                                       /\ job'.score = Statement.obj
         /\ Statement.do # "update" => job'.touched = job.touched /\ job'.score = job.score
<1>1. job \in JobRecords
  BY Types
<1>2. CASE Statement.do = "create"
  BY <1>1, <1>2 DEF Execute, Effect, JobRecords
<1>3. CASE Statement.do = "drop"
  BY <1>1, <1>3 DEF Execute, Effect, JobRecords
<1>4. CASE Statement.do = "update"
  BY <1>1, <1>4 DEF Execute, Effect, JobRecords
<1> QED BY <1>2, <1>3, <1>4

(* What the next statement is, in the terms of ExecuteFields.              *)
LEMMA StatementKinds ==
  ASSUME TypeOK, JobInv, Unfinished
  PROVE  /\ Statement.do \in {"create", "drop", "update"}
         /\ Statement.do # "update" => Statement.obj \in Objects
         /\ Statement.do = "update" => Statement.obj \in {"pass", "unscored"}
         /\ Locks(Statement) \subseteq Objects
<1>1. \/ \E x \in Objects : Statement = Create(x) \/ Statement = Drop(x)
      \/ \E v \in {"pass", "unscored"} : Statement = Store(v)
  BY NextStatement DEF NextUp, NextDown
<1>2. ASSUME NEW x \in Objects, Statement = Create(x) \/ Statement = Drop(x)
      PROVE  /\ Statement.do \in {"create", "drop"} /\ Statement.obj = x
             /\ Locks(Statement) \subseteq Objects
  <2>1. Statement.do \in {"create", "drop"} /\ Statement.obj = x
    BY <1>2 DEF Create, Drop
  <2>2. Locks(Statement) = {x} \cup Needs(x)
    BY <2>1 DEF Locks
  <2> QED BY <2>1, <2>2, NeedsPrecede
<1>3. ASSUME NEW v \in {"pass", "unscored"}, Statement = Store(v)
      PROVE  /\ Statement.do = "update" /\ Statement.obj = v
             /\ Locks(Statement) \subseteq Objects
  <2>1. Statement.do = "update" /\ Statement.obj = v
    BY <1>3 DEF Store
  <2> QED BY <2>1 DEF Locks
<1> QED BY <1>1, <1>2, <1>3

LEMMA ExecuteType ==
  ASSUME TypeOK, JobInv, Execute
  PROVE  job' \in JobRecords
<1>a. Unfinished /\ job \in JobRecords
  BY Types DEF Execute
<1>b. /\ Statement.do \in {"create", "drop", "update"}
      /\ Statement.do # "update" => Statement.obj \in Objects
      /\ Statement.do = "update" => Statement.obj \in {"pass", "unscored"}
      /\ Locks(Statement) \subseteq Objects
  BY <1>a, StatementKinds
<1>c. Following \in 0..4
  BY <1>a, NextStatement DEF NextUp, NextDown
<1>1. Effect(Statement) \in JobRecords
  <2>1. CASE Statement.do = "create"
    BY <1>a, <1>b, <2>1 DEF Effect, JobRecords
  <2>2. CASE Statement.do = "drop"
    BY <1>a, <1>b, <2>2 DEF Effect, JobRecords
  <2>3. CASE Statement.do = "update"
    BY <1>a, <1>b, <2>3 DEF Effect, JobRecords
  <2> QED BY <1>b, <2>1, <2>2, <2>3
<1>2. ASSUME NEW j \in JobRecords, NEW a \in 0..4, NEW k \in Nat, NEW L \in SUBSET Objects
      PROVE  [j EXCEPT !.at = a, !.pos = k, !.locked = L] \in JobRecords
  BY <1>2 DEF JobRecords
<1> DEFINE j == Effect(Statement)
           last == job.pos + 1 = Len(Script)
<1>3. job' = [j EXCEPT !.at = IF last THEN Following ELSE j.at,
                       !.pos = IF last THEN 0 ELSE j.pos + 1,
                       !.locked = j.locked \cup Locks(Statement)]
  BY DEF Execute
<1> HIDE DEF j, last
<1>4. /\ (IF last THEN Following ELSE j.at) \in 0..4
      /\ (IF last THEN 0 ELSE j.pos + 1) \in Nat
      /\ j.locked \cup Locks(Statement) \in SUBSET Objects
  BY <1>1, <1>b, <1>c DEF JobRecords, j
<1> QED BY <1>1, <1>2, <1>3, <1>4 DEF j

(* No two objects share a place, and the UPDATE is in nobody's.            *)
LEMMA OwnPlace ==
  ASSUME NEW x \in Objects, NEW y \in Objects, By(x) = By(y)
  PROVE  /\ Up(x) = Up(y) => x = y
         /\ Down(x) = Down(y) => x = y
         /\ By(x) = 4 => Up(x) = 1 /\ Down(x) = 2
<1>1. Create(x) = Create(y) => x = y
  BY DEF Create
<1>2. Drop(x) = Drop(y) => x = y
  BY DEF Drop
<1>3. By(x) = 4 => x = "parse_accuracy_nullable"
  BY DEF By
<1> QED BY <1>1, <1>2, <1>3, ObjectSteps DEF Up, Down

(* A statement moves the transaction on to the next place of the chart.    *)
LEMMA ExecutePlaced ==
  ASSUME TypeOK, JobInv, Execute
  PROVE  job'.schema = Placed'
<1>a. Unfinished /\ job \in JobRecords /\ job.kind # "idle"
  BY Types DEF Execute, Unfinished
<1>b. /\ job'.kind = job.kind
      /\ job'.at = IF job.pos + 1 = Len(Script) THEN Following ELSE job.at
      /\ job'.pos = IF job.pos + 1 = Len(Script) THEN 0 ELSE job.pos + 1
      /\ Statement.do = "create" => job'.schema = job.schema \cup {Statement.obj}
      /\ Statement.do = "drop" => job'.schema = job.schema \ {Statement.obj}
      /\ Statement.do = "update" => job'.schema = job.schema
  BY <1>a, StatementKinds, ExecuteFields
<1>c. \A x \in Objects : By(x) \in 1..4 /\ Up(x) \in 1..Steps(By(x)) /\ Down(x) \in 1..Steps(By(x))
  BY ObjectSteps
<1>d. job.pos \in Nat /\ job.at \in 0..4
  BY <1>a DEF JobRecords
<1>e. \A n \in 1..4 : Steps(n) \in 1..9
  BY DEF Steps
<1>1. CASE job.kind = "up"
  <2>a. NextUp
    BY <1>a, <1>1, NextStatement
  <2>b. job.schema = {y \in Objects : By(y) <= job.at \/ (By(y) = job.at + 1 /\ Up(y) <= job.pos)}
    BY <1>1, <1>a DEF JobInv, Placed
  <2>c. Placed' = {y \in Objects : By(y) <= job'.at \/ (By(y) = job'.at + 1 /\ Up(y) <= job'.pos)}
    BY <1>1, <1>b DEF Placed
  <2>d. /\ job'.at = IF job.pos + 1 = Steps(job.at + 1) THEN job.at + 1 ELSE job.at
        /\ job'.pos = IF job.pos + 1 = Steps(job.at + 1) THEN 0 ELSE job.pos + 1
    BY <1>b, <2>a DEF NextUp
  <2>e. Placed' = {y \in Objects : By(y) <= job.at \/ (By(y) = job.at + 1 /\ Up(y) <= job.pos + 1)}
    BY <2>c, <2>d, <1>c, <1>d, <1>e
  <2>1. ASSUME NEW x \in Objects, Statement = Create(x), By(x) = job.at + 1, Up(x) = job.pos + 1
        PROVE  job'.schema = Placed'
    <3>1. job'.schema = job.schema \cup {x}
      BY <1>b, <2>1 DEF Create
    <3>2. \A y \in Objects : By(y) = job.at + 1 /\ Up(y) = job.pos + 1 <=> y = x
      BY <2>1, OwnPlace
    <3> QED BY <1>c, <1>d, <2>b, <2>e, <3>1, <3>2
  <2>2. CASE job.at = 3 /\ job.pos = 1 /\ Statement = Store("unscored")
    <3>1. job'.schema = job.schema
      BY <1>b, <2>2 DEF Store
    <3>2. \A y \in Objects : By(y) = 4 => Up(y) = 1
      BY OwnPlace
    <3> QED BY <1>c, <2>2, <2>b, <2>e, <3>1, <3>2
  <2> QED BY <2>a, <2>1, <2>2 DEF NextUp
<1>2. CASE job.kind = "down"
  <2>a. NextDown
    BY <1>a, <1>2, NextStatement
  <2>b. job.schema = {y \in Objects : By(y) < job.at \/ (By(y) = job.at /\ Down(y) > job.pos)}
    BY <1>2, <1>a DEF JobInv, Placed
  <2>c. Placed' = {y \in Objects : By(y) < job'.at \/ (By(y) = job'.at /\ Down(y) > job'.pos)}
    BY <1>2, <1>b DEF Placed
  <2>d. /\ job'.at = IF job.pos + 1 = Steps(job.at) THEN job.at - 1 ELSE job.at
        /\ job'.pos = IF job.pos + 1 = Steps(job.at) THEN 0 ELSE job.pos + 1
    BY <1>b, <2>a DEF NextDown
  <2>e. Placed' = {y \in Objects : By(y) < job.at \/ (By(y) = job.at /\ Down(y) > job.pos + 1)}
    BY <2>c, <2>d, <1>c, <1>d, <1>e
  <2>1. ASSUME NEW x \in Objects, Statement = Drop(x), By(x) = job.at, Down(x) = job.pos + 1
        PROVE  job'.schema = Placed'
    <3>1. job'.schema = job.schema \ {x}
      BY <1>b, <2>1 DEF Drop
    <3>2. \A y \in Objects : By(y) = job.at /\ Down(y) = job.pos + 1 <=> y = x
      BY <2>1, OwnPlace
    <3> QED BY <1>c, <1>d, <2>b, <2>e, <3>1, <3>2
  <2>2. CASE job.at = 4 /\ job.pos = 0 /\ Statement = Store("pass")
    <3>1. job'.schema = job.schema
      BY <1>b, <2>2 DEF Store
    <3>2. \A y \in Objects : By(y) = 4 => Down(y) = 2
      BY OwnPlace
    <3> QED BY <1>c, <2>2, <2>b, <2>e, <3>1, <3>2
  <2> QED BY <2>a, <2>1, <2>2 DEF NextDown
<1> QED BY <1>1, <1>2, <1>a DEF JobRecords

-----------------------------------------------------------------------------
(* Types, schema and position                                              *)

(* A transaction that has just begun.                                      *)
LEMMA StartFields ==
  ASSUME NEW kind \in {"up", "down"}, NEW to \in 0..4, TypeOK, Start(kind, to)
  PROVE  /\ job' \in JobRecords
         /\ job'.kind = kind /\ job'.to = to /\ job'.at = revision /\ job'.pos = 0
         /\ job'.schema = schema /\ job'.touched = {}
  BY Types DEF Start, Idle, JobRecords

(* What every step leaves of the transaction, the revision and the schema. *)
StartStep ==
    \/ \E r \in Releases : revision <= r /\ Start("up", r)
    \/ \E to \in 0..4 : to < revision /\ Start("down", to)
Began   == job = Idle /\ StartStep /\ UNCHANGED <<revision, schema, evals>>
Settled == job' = Idle /\ UNCHANGED <<revision, schema, evals>>
Writes  == /\ \E p \in Processes, e \in Runs : WriteEval(p, e)
           /\ UNCHANGED <<revision, schema, job, jobs>>
Still   == UNCHANGED <<revision, schema, evals, job, jobs>>

LEMMA StepEffects ==
  ASSUME TypeOK, [Next]_vars
  PROVE  Began \/ Execute \/ Settled \/ Commit \/ Writes \/ Still
<1>1. ASSUME NEW r \in Releases, Deploy(r) PROVE Began
  BY <1>1 DEF Deploy, Began, StartStep
<1>2. ASSUME NEW to \in {revision - 1, 0} \cap Nat, RunDowngrade(to) PROVE Began
  <2>1. to \in 0..4
    BY <1>2, Types
  <2> QED BY <1>2, <2>1 DEF RunDowngrade, Began, StartStep
<1>3. ASSUME Fail PROVE Settled
  BY <1>3 DEF Fail, RollBack, Settled
<1>4. ASSUME DatabaseDown PROVE Settled
  BY <1>4 DEF DatabaseDown, RollBack, Settled
<1>5. ASSUME NEW p \in Processes, Recreate(p) \/ WriteWideDsr(p) PROVE Still
  BY <1>5 DEF Recreate, WriteWideDsr, Still
<1>6. ASSUME Deployed \/ DatabaseUp \/ UNCHANGED vars PROVE Still
  BY <1>6 DEF Deployed, DatabaseUp, vars, Still
<1>7. ASSUME NEW p \in Processes, NEW e \in Runs, WriteEval(p, e) PROVE Writes
  BY <1>7 DEF WriteEval, Writes
<1> QED BY <1>1, <1>2, <1>3, <1>4, <1>5, <1>6, <1>7 DEF Next

LEMMA TypeStep ==
  ASSUME TypeOK, SchemaOfRevision, JobInv, [Next]_vars
  PROVE  TypeOK'
<1>a. /\ reachable \in BOOLEAN /\ revision \in 0..4 /\ schema \subseteq Objects
      /\ evals \in [Runs -> Rows \cup {NoRow}] /\ wide \in BOOLEAN
      /\ job \in JobRecords
      /\ release \in [Processes -> Releases \cup {0}]
      /\ deploying \in Releases \cup {0} /\ jobs \in 0..MaxJobs
  BY Types
<1>b. Releases \subseteq 1..4 /\ MaxJobs \in Nat
  BY RolloutAssumption DEF Newest
<1> DEFINE Typed ==
      /\ reachable' \in BOOLEAN /\ revision' \in 0..4 /\ schema' \subseteq Objects
      /\ evals' \in [Runs -> Rows \cup {NoRow}] /\ wide' \in BOOLEAN
      /\ job' \in JobRecords
      /\ release' \in [Processes -> Releases \cup {0}]
      /\ deploying' \in Releases \cup {0} /\ jobs' \in 0..MaxJobs
<1> USE <1>a, <1>b, IdleType
<1>1. ASSUME NEW r \in Releases, Deploy(r) PROVE Typed
  <2>1. job' \in JobRecords
    BY <1>1, StartFields DEF Deploy
  <2> QED BY <1>1, <2>1 DEF Deploy
<1>2. ASSUME NEW to \in {revision - 1, 0} \cap Nat, RunDowngrade(to) PROVE Typed
  <2>1. to \in 0..4
    OBVIOUS
  <2>2. job' \in JobRecords
    BY <1>2, <2>1, StartFields DEF RunDowngrade
  <2> QED BY <1>2, <2>2 DEF RunDowngrade
<1>3. ASSUME Execute PROVE Typed
  <2>1. job' \in JobRecords
    BY <1>3, ExecuteType
  <2> QED BY <1>3, <2>1 DEF Execute
<1>4. ASSUME Commit PROVE Typed
  <2>1. job.to \in 0..4 /\ job.schema \subseteq Objects
    BY DEF JobRecords
  <2>2. ASSUME NEW e \in Runs, Stored(e) PROVE [evals[e] EXCEPT !.score = Seen(e)] \in Rows
    <3>1. evals[e] \in Rows
      BY <2>2 DEF Stored
    <3>2. Seen(e) \in {"pass", "unscored"}
      BY <3>1 DEF Seen, JobInv, JobRecords, Rows
    <3> QED BY <3>1, <3>2 DEF Rows
  <2>3. Committed \in [Runs -> Rows \cup {NoRow}]
    BY <2>2 DEF Committed
  <2> QED BY <1>4, <2>1, <2>3 DEF Commit
<1>5. ASSUME NEW p \in Processes, NEW e \in Runs, WriteEval(p, e) PROVE Typed
  <2>1. revision \in 1..4
    BY <1>5, SchemaAt, ObjectSteps DEF WriteEval, TakesScore, SchemaOfRevision
  <2>2. [score |-> ScoreBy(release[p]), under |-> revision,
         during |-> IF job = Idle THEN 0 ELSE jobs] \in Rows
    BY <2>1 DEF Rows, ScoreBy, Newest
  <2> QED BY <1>5, <2>2 DEF WriteEval
<1>6. ASSUME Fail \/ DatabaseDown PROVE Typed
  BY <1>6 DEF Fail, DatabaseDown, RollBack
<1>7. ASSUME NEW p \in Processes, Recreate(p) \/ WriteWideDsr(p) PROVE Typed
  BY <1>7 DEF Recreate, WriteWideDsr
<1>8. ASSUME Deployed \/ DatabaseUp \/ UNCHANGED vars PROVE Typed
  BY <1>8 DEF Deployed, DatabaseUp, vars
<1>9. Typed
  BY <1>1, <1>2, <1>3, <1>4, <1>5, <1>6, <1>7, <1>8 DEF Next
<1> HIDE DEF Typed
<1>10. Typed => TypeOK'
  BY AllObjects, Zenon DEF Typed, TypeOK, JobRecords, Newest
<1> QED BY <1>9, <1>10

LEMMA JobInvStep ==
  ASSUME TypeOK, SchemaOfRevision, JobInv, [Next]_vars
  PROVE  JobInv'
<1>a. job \in JobRecords /\ revision \in 0..4
  BY Types
<1>b. \A n \in 1..4 : Steps(n) \in 1..9
  BY DEF Steps
<1>c. \A x \in Objects : By(x) \in 1..4 /\ Up(x) \in 1..9 /\ Down(x) \in 1..9
  BY <1>b, ObjectSteps
<1>d. Releases \subseteq 1..4
  BY RolloutAssumption DEF Newest
<1>1. ASSUME Began PROVE JobInv'
  <2>1. PICK kind \in {"up", "down"}, to \in 0..4 :
            /\ Start(kind, to)
            /\ kind = "up" => revision <= to
            /\ kind = "down" => to < revision
    BY <1>1, <1>d DEF Began, StartStep
  <2>2. /\ job'.kind = kind /\ job'.to = to /\ job'.at = revision /\ job'.pos = 0
        /\ job'.schema = schema /\ job'.touched = {}
    BY <2>1, StartFields
  <2>3. Placed' = {x \in Objects : By(x) <= revision}
    BY <1>a, <1>c, <2>2 DEF Placed
  <2>4. job'.schema = Placed' /\ revision' = revision
    BY <1>1, <1>a, <2>2, <2>3, SchemaAt DEF Began, SchemaOfRevision
  <2> QED BY <1>a, <1>b, <2>1, <2>2, <2>4 DEF JobInv
<1>2. ASSUME Execute PROVE JobInv'
  <2>1. Unfinished /\ revision' = revision
    BY <1>2 DEF Execute
  <2>2. /\ job'.kind = job.kind /\ job'.to = job.to
        /\ job'.at = IF job.pos + 1 = Len(Script) THEN Following ELSE job.at
        /\ job'.pos = IF job.pos + 1 = Len(Script) THEN 0 ELSE job.pos + 1
        /\ job'.score = "absent" => job'.touched = {}
    BY <1>2, <2>1, StatementKinds, ExecuteFields DEF JobInv
  <2>3. CASE job.kind = "up"
    <3>1. NextUp
      BY <2>1, <2>3, NextStatement
    <3>2. revision <= job.at /\ job.at < job.to
      BY <1>a, <2>1, <2>3 DEF JobInv, Unfinished, JobRecords
    <3>3. \/ job'.at = job.at + 1 /\ job'.pos = 0
          \/ job'.at = job.at /\ job'.pos = job.pos + 1 /\ job.pos + 1 < Steps(job.at + 1)
      BY <1>b, <2>2, <3>1 DEF NextUp
    <3> QED
      BY <1>a, <1>b, <1>2, <2>1, <2>2, <2>3, <3>1, <3>2, <3>3, ExecutePlaced
      DEF JobInv, JobRecords, NextUp
  <2>4. CASE job.kind = "down"
    <3>1. NextDown
      BY <2>1, <2>4, NextStatement
    <3>2. job.at <= revision /\ job.to < job.at /\ job.to < revision
      BY <1>a, <2>1, <2>4 DEF JobInv, Unfinished, JobRecords
    <3>3. \/ job'.at = job.at - 1 /\ job'.pos = 0
          \/ job'.at = job.at /\ job'.pos = job.pos + 1 /\ job.pos + 1 < Steps(job.at)
      BY <1>b, <2>2, <3>1 DEF NextDown
    <3> QED
      BY <1>a, <1>b, <1>2, <2>1, <2>2, <2>4, <3>1, <3>2, <3>3, ExecutePlaced
      DEF JobInv, JobRecords, NextDown
  <2> QED BY <2>1, <2>3, <2>4, NextStatement
<1>3. ASSUME job' = Idle PROVE JobInv'
  BY <1>3 DEF JobInv, Idle
<1>4. ASSUME UNCHANGED <<job, revision>> PROVE JobInv'
  BY <1>4 DEF JobInv, Placed
<1> QED BY StepEffects, <1>1, <1>2, <1>3, <1>4 DEF Settled, Commit, Writes, Still

(* A transaction that has reached its target holds that revision's schema. *)
LEMMA SchemaStep ==
  ASSUME TypeOK, SchemaOfRevision, JobInv, [Next]_vars
  PROVE  SchemaOfRevision'
<1>1. ASSUME Commit PROVE SchemaOfRevision'
  <2>1. job \in JobRecords /\ job.kind # "idle" /\ job.at = job.to
    BY <1>1, Types DEF Commit
  <2>2. job.schema = Placed /\ job.pos = 0
    BY <2>1 DEF JobInv, JobRecords
  <2>3. \A x \in Objects : By(x) \in 1..4 /\ Up(x) \in 1..9 /\ Down(x) \in 1..9
    BY ObjectSteps DEF Steps
  <2>4. Placed = {x \in Objects : By(x) <= job.to}
    BY <2>1, <2>2, <2>3 DEF Placed, JobRecords
  <2> QED BY <1>1, <2>1, <2>2, <2>4, SchemaAt DEF Commit, SchemaOfRevision, JobRecords
<1>2. ASSUME UNCHANGED <<revision, schema>> PROVE SchemaOfRevision'
  BY <1>2 DEF SchemaOfRevision
<1> QED BY StepEffects, <1>1, <1>2 DEF Began, Execute, Settled, Writes, Still

-----------------------------------------------------------------------------
(* The rows                                                                *)

LEMMA ExecuteScores ==
  ASSUME TypeOK, JobInv, ScoreInv, Execute
  PROVE  ScoreInv'
<1>a. job \in JobRecords /\ revision \in 0..4 /\ evals \in [Runs -> Rows \cup {NoRow}]
  BY Types
<1>b. /\ Unfinished /\ Applies(Statement)
      /\ revision' = revision /\ evals' = evals /\ jobs' = jobs
  BY DEF Execute
<1>c. /\ job'.kind = job.kind
      /\ job'.at = IF job.pos + 1 = Len(Script) THEN Following ELSE job.at
      /\ job'.pos = IF job.pos + 1 = Len(Script) THEN 0 ELSE job.pos + 1
      /\ job'.locked = job.locked \cup Locks(Statement)
      /\ Statement.do = "update" => /\ job'.touched = {e \in Runs : Stored(e)}
                                    /\ job'.score = Statement.obj
      /\ Statement.do # "update" => job'.touched = job.touched /\ job'.score = job.score
  BY <1>b, StatementKinds, ExecuteFields
<1>d. \A e : Stored(e)' <=> Stored(e)
  BY <1>b DEF Stored
<1>e. \A x \in Objects : By(x) = 4 => x = "parse_accuracy_nullable" /\ Up(x) = 1 /\ Down(x) = 2
  BY DEF By, Up, Down
<1>f. Steps(4) = 2
  BY DEF Steps
<1>g. Needs("parse_accuracy_nullable") = {"eval_result"}
  BY DEF Needs
<1>h. \A x : /\ Create(x).do = "create" /\ Create(x).obj = x
             /\ Drop(x).do = "drop" /\ Drop(x).obj = x
             /\ Store(x).do = "update" /\ Store(x).obj = x
  BY DEF Create, Drop, Store
<1>i. \A e \in job.touched : Stored(e)
  BY DEF ScoreInv, TouchedInv
<1>1. CASE job.kind = "up"
  <2>1. NextUp /\ revision <= job.at
    BY <1>b, <1>1, NextStatement DEF JobInv
  <2>2. job.touched = {}
    BY <1>1, <2>1 DEF ScoreInv, TouchedInv, NextUp
  <2>3. CASE Statement.do = "update"
    <3>1. job.at = 3 /\ job.pos = 1 /\ Statement.obj = "unscored"
      BY <1>h, <2>1, <2>3 DEF NextUp
    <3>2. job'.at = 4 /\ revision < 4
      BY <1>a, <1>c, <1>f, <2>1, <3>1 DEF NextUp
    <3>3. "eval_result" \in job.locked
      BY <1>1, <3>1, <3>2 DEF ScoreInv, LoosenInv
    <3> QED BY <1>1, <1>b, <1>c, <1>d, <2>3, <3>1, <3>2, <3>3
            DEF ScoreInv, TouchedInv, LoosenInv, TightenInv
  <2>4. CASE Statement.do # "update"
    <3>1. PICK x \in Objects : Statement = Create(x) /\ By(x) = job.at + 1 /\ Up(x) = job.pos + 1
      BY <1>h, <2>1, <2>4 DEF NextUp
    <3>2. job.at = 3 => /\ job'.at = 3 /\ job'.pos = 1
                        /\ "eval_result" \in job'.locked
      <4>1. ASSUME job.at = 3 PROVE job.pos = 0 /\ x = "parse_accuracy_nullable"
        BY <1>a, <1>e, <3>1, <4>1 DEF JobRecords
      <4>2. ASSUME job.at = 3 PROVE "eval_result" \in Locks(Statement)
        BY <1>g, <1>h, <3>1, <4>1, <4>2 DEF Locks
      <4> QED BY <1>c, <1>f, <2>1, <4>1, <4>2 DEF NextUp
    <3>3. job.at < 3 => job'.at < 3 \/ (job'.at = 3 /\ job'.pos = 0)
      BY <1>c, <2>1 DEF NextUp
    <3>4. job'.touched = {} /\ job'.at < 4
      BY <1>c, <2>1, <2>2, <2>4, <3>2, <3>3 DEF NextUp
    <3> QED BY <1>1, <1>b, <1>c, <2>1, <3>2, <3>3, <3>4
            DEF ScoreInv, TouchedInv, LoosenInv, TightenInv, NextUp
  <2> QED BY <2>3, <2>4
<1>2. CASE job.kind = "down"
  <2>1. NextDown /\ job.at <= revision
    BY <1>b, <1>2, NextStatement DEF JobInv
  <2>2. CASE Statement.do = "update"
    <3>1. job.at = 4 /\ job.pos = 0 /\ Statement.obj = "pass" /\ revision = 4
      BY <1>a, <1>h, <2>1, <2>2 DEF NextDown
    <3>2. job'.at = 4 /\ job'.pos = 1
      BY <1>c, <1>f, <2>1, <3>1 DEF NextDown
    <3> QED BY <1>2, <1>b, <1>c, <1>d, <2>2, <3>1, <3>2
            DEF ScoreInv, TouchedInv, LoosenInv, TightenInv
  <2>3. CASE Statement.do # "update"
    <3>1. PICK x \in Objects : Statement = Drop(x) /\ By(x) = job.at /\ Down(x) = job.pos + 1
      BY <1>h, <2>1, <2>3 DEF NextDown
    <3>2. job'.at < 4
      BY <1>a, <1>c, <1>e, <1>f, <2>1, <3>1 DEF NextDown, JobRecords
    <3>3. /\ job'.touched = job.touched /\ job'.score = job.score
          /\ \A e : Seen(e)' = Seen(e)
      BY <1>b, <1>c, <2>3 DEF Seen
    <3>4. ASSUME job.at = 4
          PROVE  /\ "eval_result" \in job'.locked
                 /\ \A e \in Runs : Stored(e) => Seen(e) = "pass"
      <4>1. job.pos = 1 /\ x = "parse_accuracy_nullable" /\ revision = 4
        BY <1>a, <1>e, <2>1, <3>1, <3>4 DEF JobRecords
      <4>2. "eval_result" \in job'.locked
        BY <1>c, <1>g, <1>h, <3>1, <4>1 DEF Locks
      <4>3. job.score = "pass"
        BY <1>2, <3>4, <4>1 DEF ScoreInv, TightenInv
      <4>4. \A e \in Runs : Seen(e) # "unscored"
        BY <1>b, <1>h, <3>1, <4>1 DEF Applies
      <4>5. \A e \in Runs : Stored(e) => evals[e].score \in {"pass", "unscored"}
        BY <1>a DEF Stored, Rows
      <4> QED BY <4>2, <4>3, <4>4, <4>5 DEF Seen
    <3>5. ASSUME job.at # 4, revision = 4
          PROVE  /\ "eval_result" \in job'.locked
                 /\ \A e \in Runs : Stored(e) => Seen(e) = "pass"
      BY <1>2, <1>c, <2>1, <3>5 DEF ScoreInv, TightenInv, NextDown
    <3>6. revision = 4 => /\ "eval_result" \in job'.locked
                          /\ \A e \in Runs : Stored(e)' => Seen(e)' = "pass"
      BY <1>d, <3>3, <3>4, <3>5
    <3>7. revision < 4 => job.touched = {}
      BY <1>2 DEF ScoreInv, TouchedInv
    <3> QED BY <1>2, <1>b, <1>c, <1>d, <1>i, <3>2, <3>3, <3>6, <3>7
            DEF ScoreInv, TouchedInv, LoosenInv, TightenInv
  <2> QED BY <2>2, <2>3
<1> QED BY <1>b, <1>1, <1>2, NextStatement

LEMMA WriteScores ==
  ASSUME TypeOK, ScoreInv, NEW p \in Processes, NEW f \in Runs, WriteEval(p, f)
  PROVE  ScoreInv'
<1>a. evals \in [Runs -> Rows \cup {NoRow}]
  BY Types
<1>b. /\ job' = job /\ revision' = revision /\ jobs' = jobs
      /\ ~Stored(f) /\ "eval_result" \notin job.locked
  BY DEF WriteEval
<1>c. \A e \in Runs \ {f} : evals'[e] = evals[e]
  BY <1>a DEF WriteEval
<1>d. job # Idle => evals'[f].during = jobs
  BY <1>a DEF WriteEval
<1>1. TouchedInv'
  <2>1. \A e \in job.touched : e \in Runs /\ e # f
    BY <1>b, Types DEF ScoreInv, TouchedInv, JobRecords
  <2> QED BY <1>b, <1>c, <2>1 DEF ScoreInv, TouchedInv, Stored
<1>2. LoosenInv'
  BY <1>b, <1>c DEF ScoreInv, LoosenInv, Stored
<1>3. TightenInv'
  <2>1. job.kind = "down" => job # Idle
    BY DEF Idle
  <2> QED BY <1>b, <1>c, <1>d, <2>1 DEF ScoreInv, TightenInv, Stored
<1> QED BY <1>1, <1>2, <1>3 DEF ScoreInv

LEMMA ScoreStep ==
  ASSUME TypeOK, SchemaOfRevision, JobInv, ScoreInv, [Next]_vars
  PROVE  ScoreInv'
<1>1. ASSUME Began PROVE ScoreInv'
  <2>1. \E kind \in {"up", "down"}, to \in 0..4 : Start(kind, to)
    BY <1>1, RolloutAssumption DEF Began, StartStep, Newest
  <2>2. job'.at = revision /\ job'.pos = 0 /\ job'.touched = {}
    BY <2>1, StartFields
  <2>3. revision' = revision /\ revision \in 0..4
    BY <1>1, Types DEF Began
  <2> QED BY <2>2, <2>3 DEF ScoreInv, TouchedInv, LoosenInv, TightenInv
<1>2. ASSUME job' = Idle PROVE ScoreInv'
  BY <1>2 DEF Idle, ScoreInv, TouchedInv, LoosenInv, TightenInv
<1>3. ASSUME Still PROVE ScoreInv'
  BY <1>3 DEF Still, ScoreInv, TouchedInv, LoosenInv, TightenInv, Stored, Seen
<1> QED BY StepEffects, ExecuteScores, WriteScores, <1>1, <1>2, <1>3 DEF Settled, Commit, Writes

LEMMA PassStep ==
  ASSUME TypeOK, SchemaOfRevision, JobInv, ScoreInv, PassOnlyFromLateWriter, [Next]_vars
  PROVE  PassOnlyFromLateWriter'
<1>a. /\ job \in JobRecords /\ revision \in 0..4
      /\ evals \in [Runs -> Rows \cup {NoRow}]
  BY Types
<1>1. ASSUME NEW p \in Processes, NEW f \in Runs, WriteEval(p, f) PROVE PassOnlyFromLateWriter'
  <2>1. /\ revision' = revision
        /\ \A e \in Runs \ {f} : evals'[e] = evals[e]
        /\ evals'[f].score = ScoreBy(release[p]) /\ evals'[f].under = revision
    BY <1>1, <1>a DEF WriteEval
  <2>2. revision < 4 => ScoreBy(release[p]) = "pass"
    <3>1. revision < 4 => "parse_accuracy_nullable" \notin schema
      BY <1>a, SchemaAt DEF SchemaOfRevision, By
    <3> QED BY <1>1, <3>1 DEF WriteEval, TakesScore, ScoreBy
  <2> QED BY <1>a, <2>1, <2>2 DEF PassOnlyFromLateWriter, Stored, Newest
<1>2. ASSUME Commit PROVE PassOnlyFromLateWriter'
  <2> SUFFICES ASSUME NEW e \in Runs, evals'[e] # NoRow
               PROVE  IF job.to = 4 THEN evals'[e].score = "pass" => evals'[e].under = 4
                                    ELSE evals'[e].score = "pass"
    BY <1>2 DEF Commit, PassOnlyFromLateWriter, Stored, Newest
  <2>1. Stored(e) /\ evals'[e] = [evals[e] EXCEPT !.score = Seen(e)]
    BY <1>2 DEF Commit, Committed
  <2>2. evals[e] \in Rows
    BY <1>a, <2>1 DEF Stored
  <2>3. evals'[e].score = Seen(e) /\ evals'[e].under = evals[e].under
    BY <2>1, <2>2 DEF Rows
  <2>4. job.kind \in {"up", "down"} /\ job.at = job.to /\ job.pos = 0
    BY <1>2, <1>a DEF Commit, JobInv, JobRecords
  <2>5. IF revision = 4 THEN evals[e].score = "pass" => evals[e].under = 4
                        ELSE evals[e].score = "pass"
    BY <2>1 DEF PassOnlyFromLateWriter, Newest
  <2>6. CASE job.kind = "up"
    <3>1. revision <= job.to
      BY <2>4, <2>6 DEF JobInv
    <3>2. CASE job.to = 4 /\ revision < 4
      BY <2>1, <2>3, <2>4, <2>6, <3>2 DEF ScoreInv, LoosenInv, Seen
    <3>3. CASE job.to < 4 \/ revision = 4
      <4>1. Seen(e) = evals[e].score
        BY <2>4, <2>6, <3>3 DEF ScoreInv, TouchedInv, Seen
      <4> QED BY <1>a, <2>3, <2>5, <3>1, <3>3, <4>1 DEF JobRecords
    <3> QED BY <1>a, <3>2, <3>3 DEF JobRecords
  <2>7. CASE job.kind = "down"
    <3>1. job.to < revision /\ job.to < 4
      BY <1>a, <2>7 DEF JobInv, JobRecords
    <3>2. CASE revision = 4
      BY <2>1, <2>3, <2>4, <2>7, <3>1, <3>2 DEF ScoreInv, TightenInv
    <3>3. CASE revision < 4
      BY <2>3, <2>5, <2>7, <3>1, <3>3 DEF ScoreInv, TouchedInv, Seen
    <3> QED BY <1>a, <3>2, <3>3
  <2> QED BY <2>4, <2>6, <2>7
<1>3. ASSUME UNCHANGED <<revision, evals>> PROVE PassOnlyFromLateWriter'
  BY <1>3 DEF PassOnlyFromLateWriter, Stored
<1> QED BY StepEffects, <1>1, <1>2, <1>3 DEF Began, Execute, Settled, Writes, Still

-----------------------------------------------------------------------------
(* The theorems                                                            *)

LEMMA InitInv == Init => IInv
<1> SUFFICES ASSUME Init PROVE IInv
  OBVIOUS
<1>1. TypeOK
  <2>1. evals \in [Runs -> Rows \cup {NoRow}] /\ job \in JobRecords
    BY IdleType DEF Init
  <2>2. reachable \in BOOLEAN /\ wide \in BOOLEAN
    BY Zenon DEF Init
  <2>3. revision \in 0..4 /\ schema \subseteq Objects /\ jobs \in 0..MaxJobs
    BY RolloutAssumption DEF Init
  <2>4. release \in [Processes -> Releases \cup {0}] /\ deploying \in Releases \cup {0}
    BY DEF Init
  <2> QED BY <2>1, <2>2, <2>3, <2>4, Types, Zenon
<1>2. SchemaOfRevision
  BY SchemaAt, ObjectSteps DEF Init, SchemaOfRevision
<1>3. JobInv /\ ScoreInv
  BY DEF Init, Idle, JobInv, ScoreInv, TouchedInv, LoosenInv, TightenInv
<1>4. PassOnlyFromLateWriter
  BY DEF Init, PassOnlyFromLateWriter, Stored
<1> QED BY <1>1, <1>2, <1>3, <1>4 DEF IInv

(* The inductive invariant holds throughout.                               *)
THEOREM RolloutInvariant == Spec => []IInv
<1>1. IInv /\ [Next]_vars => IInv'
  BY TypeStep, SchemaStep, JobInvStep, ScoreStep, PassStep DEF IInv
<1> QED BY InitInv, <1>1, PTL DEF Spec

(* Types hold, the committed schema is always the one its revision         *)
(* describes, however many migrations were applied, undone, refused half-  *)
(* way or cut off, and a process that answers ready can write its rows.    *)
THEOREM SchemaIsSound == Spec => []SchemaSound
<1>1. IInv => SchemaSound
  <2> SUFFICES ASSUME IInv PROVE SchemaSound
    OBVIOUS
  <2>1. TypeOK /\ SchemaOfRevision
    BY DEF IInv
  <2>2. ASSUME NEW p \in Processes, Ready(p) PROVE TakesScore(release[p])
    <3>1. revision \in 1..4 /\ release[p] = revision
      BY <2>1, <2>2, Types DEF Ready
    <3>2. "eval_result" \in schema
      BY <2>1, <3>1, SchemaAt DEF SchemaOfRevision, Objects, By
    <3>3. revision = 4 => "parse_accuracy_nullable" \in schema
      BY <2>1, <3>1, SchemaAt DEF SchemaOfRevision, Objects, By
    <3> QED BY <3>1, <3>2, <3>3 DEF TakesScore, ScoreBy
  <2> QED BY <2>1, <2>2 DEF SchemaSound, ReadyMeansWritable
<1> QED BY <1>1, RolloutInvariant, PTL

(* Under 0004 a pass can only come from an older process that wrote after  *)
(* the migration had committed, and before 0004 every row is a pass.       *)
THEOREM PassesAreLate == Spec => []PassOnlyFromLateWriter
<1>1. IInv => PassOnlyFromLateWriter
  BY DEF IInv
<1> QED BY <1>1, RolloutInvariant, PTL

(* The order of the statements never stops a migration, in any schema it   *)
(* can meet: only a ratio that does not fit, or a NULL committed while the *)
(* downgrade of 0004 was running.                                          *)
THEOREM OnlyDataBlocks == Spec => []BlockedOnlyByData
<1>1. IInv => BlockedOnlyByData
  <2> SUFFICES ASSUME IInv, Unfinished, ~Applies(Statement)
               PROVE  \/ job.kind = "up" /\ Statement = Create("dsr_bounded") /\ wide
                      \/ job.kind = "down" /\ \E e \in Runs : Stored(e) /\ evals[e].during = jobs
                                                              /\ evals[e].score = "unscored"
    BY DEF BlockedOnlyByData
  <2>a. /\ TypeOK /\ JobInv /\ ScoreInv /\ job \in JobRecords /\ revision \in 0..4
        /\ job.kind \in {"up", "down"} /\ job.schema = Placed
        /\ evals \in [Runs -> Rows \cup {NoRow}]
    BY Types DEF IInv, Unfinished, JobInv, JobRecords
  <2>b. \A x \in Objects : By(x) \in 1..4 /\ Up(x) \in 1..9 /\ Down(x) \in 1..9
    BY ObjectSteps DEF Steps
  <2>1. CASE job.kind = "up"
    <3>1. NextUp
      BY <2>a, <2>1, NextStatement
    <3>2. job.schema = {y \in Objects : By(y) <= job.at \/ (By(y) = job.at + 1 /\ Up(y) <= job.pos)}
      BY <2>a, <2>1 DEF Placed
    <3>3. ASSUME NEW x \in Objects, Statement = Create(x), By(x) = job.at + 1, Up(x) = job.pos + 1
          PROVE  x = "dsr_bounded" /\ wide
      <4>1. x \notin job.schema
        BY <2>a, <2>b, <3>2, <3>3 DEF JobRecords
      <4>2. Needs(x) \subseteq job.schema
        BY <2>a, <2>b, <3>2, <3>3, NeedsPrecede DEF JobRecords
      <4> QED BY <3>3, <4>1, <4>2 DEF Applies, Create
    <3>4. CASE job.at = 3 /\ job.pos = 1 /\ Statement = Store("unscored")
      <4>1. "eval_result" \in job.schema
        BY <3>2, <3>4 DEF Objects, By
      <4> QED BY <3>4, <4>1 DEF Applies, Store
    <3> QED BY <2>1, <3>1, <3>3, <3>4 DEF NextUp
  <2>2. CASE job.kind = "down"
    <3>1. NextDown
      BY <2>a, <2>2, NextStatement
    <3>2. job.schema = {y \in Objects : By(y) < job.at \/ (By(y) = job.at /\ Down(y) > job.pos)}
      BY <2>a, <2>2 DEF Placed
    <3>3. ASSUME NEW x \in Objects, Statement = Drop(x), By(x) = job.at, Down(x) = job.pos + 1
          PROVE  \E e \in Runs : Stored(e) /\ evals[e].during = jobs
                                 /\ evals[e].score = "unscored"
      <4>1. x \in job.schema
        BY <2>a, <2>b, <3>2, <3>3 DEF JobRecords
      <4>2. Dependent(x) = {}
        <5>1. ASSUME NEW o \in job.schema \cap Referencing, x \in Needs(o) PROVE FALSE
          <6>1. o \in Objects /\ (By(x) < By(o) \/ Down(o) < Down(x)) /\ By(x) <= By(o)
            BY <2>b, <3>2, <5>1, NeedsPrecede
          <6> QED BY <2>a, <2>b, <3>2, <3>3, <5>1, <6>1 DEF JobRecords
        <5> QED BY <5>1 DEF Dependent
      <4>3. x = "parse_accuracy_nullable" /\ \E e \in Runs : Seen(e) = "unscored"
        BY <3>3, <4>1, <4>2 DEF Applies, Drop
      <4>4. job.at = 4 /\ job.pos = 1 /\ revision = 4
        BY <2>a, <2>2, <3>3, <4>3 DEF By, Down, JobInv, JobRecords
      <4>5. PICK e \in Runs : Seen(e) = "unscored"
        BY <4>3
      <4>6. /\ job.score = "pass"
            /\ Stored(e) /\ e \notin job.touched => evals[e].during = jobs
        BY <2>a, <2>2, <4>4 DEF ScoreInv, TightenInv
      <4>7. e \notin job.touched /\ evals[e].score = "unscored"
        BY <4>5, <4>6 DEF Seen
      <4>8. Stored(e)
        BY <4>7 DEF Stored, NoRow
      <4> QED BY <4>6, <4>7, <4>8
    <3>4. CASE job.at = 4 /\ job.pos = 0 /\ Statement = Store("pass")
      <4>1. "eval_result" \in job.schema
        BY <3>2, <3>4 DEF Objects, By
      <4> QED BY <3>4, <4>1 DEF Applies, Store
    <3> QED BY <2>2, <3>1, <3>3, <3>4 DEF NextDown
  <2> QED BY <2>a, <2>1, <2>2
<1> QED BY <1>1, RolloutInvariant, PTL

-----------------------------------------------------------------------------
(* The repository gate                                                     *)

CheckNames ==
    {"check_hygiene", "check_history", "text_counts", "check_history_comments", "check_spec",
     "check_spec_test_coverage", "check_api_design", "check_internal_leak", "check_tests_run",
     "check_secrets", "check_sast", "check_deps"}

Levels == {"BLOCK", "WARN", "INFO"}

(* Every check called so far has left what it found.                       *)
Answered ==
    \A k \in 1..step :
        \E a \in AnswersTo(world, commit, Checks[k]) :
            /\ Result(world, commit, Checks[k], a) \subseteq findings
            /\ k = 3 => a = counts
            /\ k = 12 => a = audit

GateInv ==
    /\ world \in Repositories /\ commit \in BOOLEAN /\ step \in 0..12
    /\ \A f \in findings : f.level \in Levels
    /\ counts \in {"none", "WARN", "BLOCK"}
    /\ Answered

LEMMA ChecksInOrder ==
  /\ Len(Checks) = 12
  /\ \A k \in 1..12 : /\ Checks[k] \in CheckNames
                      /\ Checks[k] = "text_counts" <=> k = 3
                      /\ Checks[k] = "check_deps" <=> k = 12
  /\ \A check \in CheckNames : \E k \in 1..12 : Checks[k] = check
<1>1. Len(Checks) = 12
  BY DEF Checks
<1>2. \A k \in 1..12 : /\ Checks[k] \in CheckNames
                       /\ Checks[k] = "text_counts" <=> k = 3
                       /\ Checks[k] = "check_deps" <=> k = 12
  BY DEF Checks, CheckNames
<1>3. \A check \in CheckNames : \E k \in 1..12 : Checks[k] = check
  BY DEF Checks, CheckNames
<1> QED BY <1>1, <1>2, <1>3

(* When the gate is done, a check has left its findings, under the answers *)
(* that were noted of it.                                                  *)
LEMMA Ran ==
  ASSUME GateInv, Done, NEW check \in CheckNames
  PROVE  \E a \in AnswersTo(world, commit, check) :
            /\ Result(world, commit, check, a) \subseteq findings
            /\ check = "text_counts" => a = counts
            /\ check = "check_deps" => a = audit
<1>1. PICK k \in 1..12 : Checks[k] = check
  BY ChecksInOrder
<1>2. step = 12
  BY ChecksInOrder DEF Done
<1> QED BY <1>1, <1>2, ChecksInOrder DEF GateInv, Answered

LEMMA OfIf ==
  ASSUME NEW cond \in BOOLEAN, NEW level, NEW code
  PROVE  /\ \A f \in If(cond, level, code) :
               cond /\ f = Found(level, code) /\ f.level = level /\ f.code = code
         /\ cond => If(cond, level, code) = {Found(level, code)}
  BY DEF If, Found

LEMMA NpmLevels ==
  ASSUME NEW w, NEW a \in AnswersTo(w, TRUE, "check_deps"), ~NpmRaises(w, a),
         NEW f \in NpmFindings(w, a)
  PROVE  f.level \in Levels
<1>1. "npm" \in w.manifests /\ f \in Npm(a.npm)
  BY DEF NpmFindings
<1>2. a.npm \in NpmAudits \ {"malformed"}
  BY <1>1 DEF AnswersTo, NpmRaises
<1> QED BY <1>1, <1>2 DEF Npm, NpmAudits, Found, Levels

LEMMA DepsLevels ==
  ASSUME NEW w, NEW c \in BOOLEAN, NEW a \in AnswersTo(w, c, "check_deps"),
         ~Raises(w, c, "check_deps", a), NEW f \in Deps(w, c, a)
  PROVE  f.level \in Levels
<1>1. c = TRUE
  BY DEF Deps
<1>2. CASE f \in NpmFindings(w, a)
  <2>1. ~NpmRaises(w, a)
    BY <1>1 DEF Raises, NpmRaises
  <2> QED BY <1>1, <1>2, <2>1, NpmLevels
<1>3. CASE f \in Pip(w, a.pip)
  BY <1>3 DEF Pip, If, Found, Levels
<1>4. CASE f \in If("jvm" \in w.manifests, "WARN", "X3_jvm")
  BY <1>4 DEF If, Found, Levels
<1> QED BY <1>1, <1>2, <1>3, <1>4 DEF Deps

LEMMA ResultLevels ==
  ASSUME NEW w, w.spec \in Specs, NEW c \in BOOLEAN, NEW check \in CheckNames,
         NEW a \in AnswersTo(w, c, check), NEW f \in Result(w, c, check, a)
  PROVE  f.level \in Levels
<1>1. CASE Raises(w, c, check, a)
  <2>1. f \in FoundBefore(w, check, a) \/ f = Unrun(check)
    BY <1>1 DEF Result
  <2>2. CASE f \in FoundBefore(w, check, a)
    <3>1. check = "check_deps" /\ c = TRUE /\ ~NpmRaises(w, a) /\ f \in NpmFindings(w, a)
      BY <1>1, <2>2 DEF FoundBefore, Raises
    <3> QED BY <3>1, NpmLevels
  <2>3. CASE f = Unrun(check)
    BY <2>3 DEF Unrun, Found, Levels
  <2> QED BY <2>1, <2>2, <2>3
<1> SUFFICES ASSUME ~Raises(w, c, check, a)
             PROVE  f.level \in Levels
  BY <1>1
<1>2. CASE check = "check_hygiene"
  BY <1>2 DEF Result, Hygiene, If, Found, Levels
<1>3. CASE check = "check_history"
  BY <1>3 DEF Result, History, PastLevel, If, Found, Levels
<1>4. CASE check = "text_counts"
  BY <1>4 DEF Result, AnswersTo, If, Found, Levels
<1>5. CASE check = "check_history_comments"
  BY <1>5 DEF Result, HistoryComments, If, Found, Levels
<1>6. CASE check = "check_spec"
  BY <1>6 DEF Result, CheckSpec, PendingLevel, ExcessLevel, If, Found, Levels
<1>7. CASE check = "check_spec_test_coverage"
  BY <1>7 DEF Result, SpecTestCoverage, If, Found, Levels
<1>8. CASE check = "check_api_design"
  BY <1>8 DEF Result, ApiDesign, If, Found, Levels
<1>9. CASE check = "check_internal_leak"
  BY <1>9 DEF Result, InternalLeak, If, Found, Levels
<1>10. CASE check = "check_tests_run"
  <2>1. f \in TestsRun(w, c, a)
    BY <1>10 DEF Result
  <2>2. w.spec.command \in {"none", "unparsable", "shell", "plain"}
    BY DEF Specs
  <2> QED BY <2>1, <2>2 DEF TestsRun, Found, Levels
<1>11. CASE check = "check_secrets"
  BY <1>11 DEF Result, Secrets, If, Found, Levels
<1>12. CASE check = "check_sast"
  <2>1. f \in Sast(w, c, a)
    BY <1>12 DEF Result
  <2>2. c /\ a \in {"absent", "silent", "garbled", "errors", "warnings", "clean"}
    BY <2>1, <1>12 DEF Sast, AnswersTo
  <2> QED BY <2>1, <2>2 DEF Sast, Found, Levels
<1>13. CASE check = "check_deps"
  BY <1>13, DepsLevels DEF Result
<1> QED BY <1>2, <1>3, <1>4, <1>5, <1>6, <1>7, <1>8, <1>9, <1>10, <1>11, <1>12, <1>13 DEF CheckNames

LEMMA SpecsAreRead ==
  ASSUME world \in Repositories
  PROVE  world.spec \in Specs
  BY GateAssumption

LEMMA GateStarts ==
  ASSUME GateInit
  PROVE  GateInv
  BY DEF GateInit, GateInv, Answered

LEMMA GateStep ==
  ASSUME GateInv, [GateNext]_gateVars
  PROVE  GateInv'
<1>1. CASE UNCHANGED gateVars
  BY <1>1 DEF gateVars, GateInv, Answered
<1>2. CASE RunCheck
  <2> DEFINE check == Checks[step + 1]
  <2>1. step \in 0..11 /\ step' = step + 1 /\ world' = world /\ commit' = commit
    BY <1>2, ChecksInOrder DEF RunCheck, GateInv
  <2>2. PICK a \in AnswersTo(world, commit, check) :
            /\ counts' = IF check = "text_counts" THEN a ELSE counts
            /\ audit' = IF check = "check_deps" THEN a ELSE audit
            /\ findings' = findings \cup Result(world, commit, check, a)
    BY <1>2 DEF RunCheck
  <2>3. check \in CheckNames /\ (check = "text_counts" <=> step + 1 = 3)
        /\ (check = "check_deps" <=> step + 1 = 12)
    BY <2>1, ChecksInOrder
  <2>4. \A f \in findings' : f.level \in Levels
    <3>1. \A f \in Result(world, commit, check, a) : f.level \in Levels
      BY <2>3, ResultLevels, SpecsAreRead DEF GateInv
    <3> QED BY <3>1, <2>2 DEF GateInv
  <2>5. counts' \in {"none", "WARN", "BLOCK"}
    <3>1. CASE check = "text_counts"
      BY <3>1, <2>2 DEF AnswersTo
    <3>2. CASE check # "text_counts"
      BY <3>2, <2>2 DEF GateInv
    <3> QED BY <3>1, <3>2
  <2>6. ASSUME NEW k \in 1..step'
        PROVE  \E b \in AnswersTo(world, commit, Checks[k]) :
                  /\ Result(world, commit, Checks[k], b) \subseteq findings'
                  /\ k = 3 => b = counts'
                  /\ k = 12 => b = audit'
    <3>1. CASE k = step + 1
      <4>1. /\ Result(world, commit, Checks[k], a) \subseteq findings'
            /\ k = 3 => a = counts'
            /\ k = 12 => a = audit'
        BY <3>1, <2>2, <2>3
      <4> QED BY <4>1, <2>2, <3>1
    <3>2. CASE k # step + 1
      <4>1. k \in 1..step
        BY <3>2, <2>1
      <4>2. PICK b \in AnswersTo(world, commit, Checks[k]) :
                /\ Result(world, commit, Checks[k], b) \subseteq findings
                /\ k = 3 => b = counts
                /\ k = 12 => b = audit
        BY <4>1 DEF GateInv, Answered
      <4>3. k = 3 => counts' = counts
        BY <2>2, <2>3, <3>2, <2>1
      <4>4. k = 12 => audit' = audit
        BY <2>1, <4>1
      <4>5. Result(world, commit, Checks[k], b) \subseteq findings'
        BY <4>2, <2>2
      <4> QED BY <4>2, <4>3, <4>4, <4>5
    <3> QED BY <3>1, <3>2
  <2>7. Answered'
    BY <2>1, <2>6 DEF Answered
  <2> QED BY <2>1, <2>4, <2>5, <2>7 DEF GateInv
<1> QED BY <1>1, <1>2 DEF GateNext

(* The inductive invariant of the gate holds throughout.                   *)
THEOREM GateInvariant == GateSpec => []GateInv
<1>1. GateInit => GateInv
  BY GateStarts
<1>2. GateInv /\ [GateNext]_gateVars => GateInv'
  BY GateStep
<1> QED BY <1>1, <1>2, PTL DEF GateSpec

LEMMA TypesHold == GateInv => GateTypeOK
<1> SUFFICES ASSUME GateInv PROVE GateTypeOK
  OBVIOUS
<1>1. step = Len(Checks) => audit \in AnswersTo(world, commit, "check_deps")
  BY Ran DEF Done, CheckNames
<1>2. step \in 0..Len(Checks)
  BY ChecksInOrder DEF GateInv
<1> QED BY <1>1, <1>2 DEF GateInv, GateTypeOK, Levels

LEMMA NothingBlocks ==
  ASSUME Passed, NEW f \in findings
  PROVE  f.level # "BLOCK"
  BY DEF Passed, Blocks

(* What blocks the plain gate and is no endpoint to come and no history is *)
(* found by the same check under --commit.                                 *)
LEMMA PlainBlockers ==
  ASSUME NEW w, NEW check \in CheckNames, NEW a, NEW b, check = "text_counts" => a = b,
         NEW f \in Result(w, FALSE, check, b), f.level = "BLOCK", f.code \notin {"S3", "G3"}
  PROVE  f \in Result(w, TRUE, check, a)
<1>1. CASE check \in {"check_tests_run", "check_sast", "check_deps"}
  <2>1. ~Raises(w, FALSE, check, b)
    BY <1>1 DEF Raises
  <2>2. Result(w, FALSE, check, b) = {}
    BY <1>1, <2>1 DEF Result, TestsRun, Sast, Deps
  <2> QED BY <2>2
<1>2. CASE check \notin {"check_tests_run", "check_sast", "check_deps"}
  <2>1. Raises(w, TRUE, check, a) <=> Raises(w, FALSE, check, b)
    BY <1>2 DEF Raises
  <2>2. CASE Raises(w, FALSE, check, b)
    <3>1. FoundBefore(w, check, a) = {} /\ FoundBefore(w, check, b) = {}
      BY <1>2 DEF FoundBefore
    <3> QED BY <2>1, <2>2, <3>1 DEF Result
  <2>3. CASE ~Raises(w, FALSE, check, b) /\ check = "check_history"
    BY <2>3 DEF Result, History, If, Found
  <2>4. CASE ~Raises(w, FALSE, check, b) /\ check = "check_spec"
    <3>1. f \in CheckSpec(w, FALSE)
      BY <2>4 DEF Result
    <3>2. f \in CheckSpec(w, TRUE)
      <4> DEFINE S == w.spec
                 excess == ~(Exposed(w, S) \subseteq Specified(S) \cup Excluded(S))
      <4>1. CASE w.spec.file = "broken" \/ ~HasSpec(w) \/ ~ValidSpec(w, S) \/ S.endpoints = {}
        BY <3>1, <4>1 DEF CheckSpec
      <4>2. CASE ~(w.spec.file = "broken" \/ ~HasSpec(w) \/ ~ValidSpec(w, S) \/ S.endpoints = {})
        <5>1. Exposed(w, S) # {}
          <6> SUFFICES ASSUME Exposed(w, S) = {} PROVE FALSE
            OBVIOUS
          <6>1. CheckSpec(w, FALSE) = {Found(PendingLevel(FALSE), "S3")}
            BY <4>2 DEF CheckSpec
          <6>2. f = Found(PendingLevel(FALSE), "S3")
            BY <6>1, <3>1
          <6> QED BY <6>2 DEF Found
        <5>2. f \in If(excess, ExcessLevel(FALSE), "S4")
          <6>1. CheckSpec(w, FALSE) =
                    If(~(Specified(S) \subseteq Exposed(w, S) \cup Excluded(S)), PendingLevel(FALSE), "S3")
                        \cup If(excess, ExcessLevel(FALSE), "S4")
            BY <4>2, <5>1 DEF CheckSpec
          <6>2. \A g \in If(~(Specified(S) \subseteq Exposed(w, S) \cup Excluded(S)),
                            PendingLevel(FALSE), "S3") : g.code = "S3"
            BY DEF If, Found
          <6> QED BY <6>1, <6>2, <3>1
        <5>3. If(excess, ExcessLevel(TRUE), "S4") \subseteq CheckSpec(w, TRUE)
          BY <4>2, <5>1 DEF CheckSpec
        <5> QED BY <5>2, <5>3 DEF ExcessLevel
      <4> QED BY <4>1, <4>2
    <3> QED BY <3>2, <2>1, <2>4 DEF Result
  <2>5. CASE ~Raises(w, FALSE, check, b) /\ check \notin {"check_history", "check_spec"}
    <3>1. Result(w, TRUE, check, a) = Result(w, FALSE, check, b)
      BY <1>2, <2>1, <2>5 DEF Result, CheckNames
    <3> QED BY <3>1
  <2> QED BY <2>2, <2>3, <2>4, <2>5
<1> QED BY <1>1, <1>2

LEMMA OnlyPendingForgiven ==
  ASSUME GateInv
  PROVE  CommitForgivesOnlyPending
<1> SUFFICES ASSUME commit, Passed, NEW f \in PlainFindings, f.level = "BLOCK"
             PROVE  f.code \in {"S3", "G3"}
  BY DEF CommitForgivesOnlyPending, Blocks
<1>1. PICK check \in Range(Checks) :
         f \in Result(world, FALSE, check, IF check = "text_counts" THEN counts ELSE "none")
  BY DEF PlainFindings
<1>2. check \in CheckNames
  BY <1>1 DEF Range, Checks, CheckNames
<1>3. PICK a \in AnswersTo(world, commit, check) :
         Result(world, commit, check, a) \subseteq findings /\ (check = "text_counts" => a = counts)
  BY <1>2, Ran DEF Passed
<1>4. commit = TRUE
  BY DEF GateInv
<1>5. SUFFICES ASSUME f.code \notin {"S3", "G3"} PROVE FALSE
  OBVIOUS
<1>6. f \in Result(world, TRUE, check, a)
  BY <1>1, <1>2, <1>3, <1>5, PlainBlockers
<1> QED BY <1>3, <1>4, <1>6, NothingBlocks

(* The verdict of the gate, for any repositories: a commit that passes is  *)
(* one that the plain gate would block for endpoints still to come and a   *)
(* history that cannot be changed, and for nothing else.                   *)
THEOREM VerdictIsSound == GateSpec => []VerdictSound
<1>1. GateInv => VerdictSound
  BY TypesHold, OnlyPendingForgiven DEF VerdictSound
<1> QED BY <1>1, GateInvariant, PTL

-----------------------------------------------------------------------------
LEMMA SurfaceHolds ==
  ASSUME GateInv
  PROVE  SurfaceIsSpecified
<1> SUFFICES ASSUME Passed, HasSpec(world), world.spec.endpoints # {}, ~Reported("WARN", "!!")
             PROVE  /\ \A x \in Meant(world, world.spec) : \A ep \in x.exposes :
                         \/ ep \in Specified(world.spec)
                         \/ \E e \in world.spec.exclude : e.endpoint = ep /\ e.reason
                    /\ Exposed(world, world.spec) = {} => Reported("INFO", "S3")
  BY DEF SurfaceIsSpecified
<1> DEFINE s == world.spec
<1>1. PICK a : Result(world, commit, "check_spec", a) \subseteq findings
  BY Ran DEF Passed, CheckNames
<1>2. ~Raises(world, commit, "check_spec", a)
  <2>1. Unrun("check_spec") = Found("WARN", "!!")
    BY DEF Unrun, SecurityChecks
  <2> QED BY <1>1, <2>1 DEF Result, Reported
<1>3. CheckSpec(world, commit) \subseteq findings
  BY <1>1, <1>2 DEF Result
<1>4. \A code : Found("BLOCK", code) \notin findings
  BY NothingBlocks DEF Found
<1>5. ValidSpec(world, s)
  BY <1>3, <1>4 DEF CheckSpec, HasSpec
<1>6. ASSUME NEW x \in Meant(world, s), NEW ep \in x.exposes
      PROVE  ep \in Specified(s) \/ \E e \in s.exclude : e.endpoint = ep /\ e.reason
  <2>1. UnderRoots(x, s) /\ x \in Sources(world)
    <3>1. \A r \in s.roots : r.names # "nowhere"
      <4>1. \A y \in world.files : y.dir # "nowhere"
        BY GateAssumption DEF GateInv, Files, Dirs
      <4> QED BY <1>5, <4>1 DEF ValidSpec, RootsExist
    <3> QED BY <3>1 DEF Meant, UnderRoots
  <2>2. ep \in Exposed(world, s)
    BY <2>1 DEF Exposed
  <2>3. Exposed(world, s) \subseteq Specified(s) \cup Excluded(s)
    <3>1. Exposed(world, s) # {} /\ world.spec.file = "read"
      BY <2>2 DEF HasSpec
    <3>2. If(~(Exposed(world, s) \subseteq Specified(s) \cup Excluded(s)), "BLOCK", "S4")
             \subseteq findings
      BY <1>3, <1>5, <3>1 DEF CheckSpec, HasSpec, ExcessLevel
    <3> QED BY <3>2, <1>4 DEF If
  <2>4. CASE ep \in Excluded(s)
    BY <2>4, <1>5 DEF Excluded, ValidSpec
  <2> QED BY <2>2, <2>3, <2>4
<1>7. ASSUME Exposed(world, s) = {}
      PROVE  Reported("INFO", "S3")
  <2>1. Found(PendingLevel(commit), "S3") \in findings
    BY <1>3, <1>5, <1>7 DEF CheckSpec, HasSpec
  <2> QED BY <2>1, <1>4 DEF PendingLevel, Reported
<1> QED BY <1>6, <1>7

(* What the gate passes exposes, in the sources that the roots match, no   *)
(* endpoint that SPEC.yaml does not list or except with a reason, for any  *)
(* repository: roots that name nothing and entries that cannot be read are *)
(* blockers, not ways around; and no endpoint at all is said with S3.      *)
THEOREM PassedSurfaceIsSpecified == GateSpec => []SurfaceIsSpecified
<1>1. GateInv => SurfaceIsSpecified
  BY SurfaceHolds
<1> QED BY <1>1, GateInvariant, PTL

LEMMA UntestedHolds ==
  ASSUME GateInv
  PROVE  UntestedIsSaid
<1> SUFFICES ASSUME Done, HasSpec(world), ~Reported("WARN", "!!"),
                    ~Reported("WARN", "T2"), ~Reported("BLOCK", "T1"),
                    world.large \/ Tests(world) # {}
             PROVE  \A ep \in Specified(world.spec) :
                       FragmentsOf[ep] \subseteq UNION {x.mentions : x \in Tests(world)}
  BY DEF UntestedIsSaid
<1>1. \A check \in CheckNames \ SecurityChecks :
         \E a : ~Raises(world, commit, check, a) /\ Result(world, commit, check, a) \subseteq findings
  <2> SUFFICES ASSUME NEW check \in CheckNames \ SecurityChecks
               PROVE  \E a : /\ ~Raises(world, commit, check, a)
                            /\ Result(world, commit, check, a) \subseteq findings
    OBVIOUS
  <2>1. PICK a : Result(world, commit, check, a) \subseteq findings
    BY Ran
  <2>2. Unrun(check) = Found("WARN", "!!")
    BY DEF Unrun
  <2> QED BY <2>1, <2>2 DEF Result, Reported
<1>2. HistoryComments(world) \subseteq findings
  BY <1>1 DEF Result, CheckNames, SecurityChecks
<1>3. SpecTestCoverage(world) \subseteq findings
  BY <1>1 DEF Result, CheckNames, SecurityChecks
<1>4. Tests(world) # {}
  <2>1. Named(world) \subseteq Tests(world)
    BY DEF Named, Tests
  <2> QED BY <1>2, <2>1 DEF HistoryComments, If, Reported
<1>5. Untested(world, world.spec) = {}
  BY <1>3, <1>4 DEF SpecTestCoverage, NothingToAsk, If, Reported
<1>6. TestsInScope(world, world.spec) \subseteq Tests(world)
  BY DEF TestsInScope, TestsUnderRoots
<1>7. Mentioned(world, world.spec) \subseteq UNION {x.mentions : x \in Tests(world)}
  BY <1>6 DEF Mentioned
<1> QED BY <1>5, <1>7 DEF Untested

LEMMA UnauditedHolds ==
  ASSUME GateInv
  PROVE  UnauditedIsSaid
<1> SUFFICES ASSUME Done, commit, HasPython(world),
                    ~Reported("WARN", "X3_pip"), ~Reported("BLOCK", "X3_pip"),
                    ~(Raises(world, commit, "check_deps", audit) /\ Reported("BLOCK", "!!"))
             PROVE  LET pip == audit.pip
                    IN  /\ pip.installed /\ pip.exit = 0 /\ pip.printed = "read" /\ ~pip.skipped
                        /\ "lock" \in world.manifests \/ "requirements" \in world.manifests
                        /\ world.exceptions = {}
  BY DEF UnauditedIsSaid
<1>1. audit \in AnswersTo(world, commit, "check_deps")
      /\ Result(world, commit, "check_deps", audit) \subseteq findings
  BY Ran DEF CheckNames
<1>2. audit.pip \in PipAudits
  BY <1>1 DEF AnswersTo, HasPython
<1>3. ~Raises(world, commit, "check_deps", audit)
  BY <1>1 DEF Result, Unrun, SecurityChecks, Reported
<1>4. Pip(world, audit.pip) \subseteq findings
  BY <1>1, <1>3 DEF Result, Deps
<1>5. Target(world) # "none" /\ audit.pip.installed
  BY <1>4 DEF Pip, Audited, Reported
<1>6. Completed(audit.pip) /\ ~(audit.pip.skipped \/ world.exceptions # {})
  BY <1>4, <1>5 DEF Pip, Audited, If, Reported
<1> QED BY <1>2, <1>5, <1>6 DEF Completed, Target, PipAudits

LEMMA DeadHolds ==
  ASSUME GateInv
  PROVE  DeadCheckBlocks
<1> SUFFICES ASSUME Done, NEW check \in SecurityChecks, Raises(world, commit, check, audit)
             PROVE  Reported("BLOCK", "!!")
  BY DEF DeadCheckBlocks
<1>1. PICK a : /\ Result(world, commit, check, a) \subseteq findings
               /\ check = "check_deps" => a = audit
  BY Ran DEF SecurityChecks, CheckNames
<1>2. Raises(world, commit, check, a)
  BY <1>1 DEF Raises, SecurityChecks
<1> QED BY <1>1, <1>2 DEF Result, Unrun, Reported

(* What was not checked is said, for any repository and whatever the tools *)
(* answer: tests that lack a literal part of a path, Python dependencies   *)
(* not audited to the end, security checks that raise.                     *)
THEOREM UncheckedIsSaid == GateSpec => []NothingUncheckedPasses
<1>1. GateInv => NothingUncheckedPasses
  BY UntestedHolds, UnauditedHolds, DeadHolds DEF NothingUncheckedPasses
<1> QED BY <1>1, GateInvariant, PTL
=============================================================================
