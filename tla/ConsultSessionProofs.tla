------------------------- MODULE ConsultSessionProofs -------------------------
(***************************************************************************)
(* Theorems about ConsultSession, for any forms, texts and demos and any   *)
(* limit, cooldown and bound of the clock.                                 *)
(*                                                                         *)
(* QuotaInv follows one click: while its assessment is submitted the count *)
(* is the one the click found, below the limit; while it is counted and    *)
(* dated the attempts before it are a cooldown older; what is counted has  *)
(* not left yet.  FreshInv follows the amounts from session_state to the   *)
(* page: which of form, comparison and tick agree at each point where the  *)
(* script may be abandoned.  ShownInv: while results are being assigned,   *)
(* those already assigned are the job's.                                   *)
(***************************************************************************)
EXTENDS ConsultSession, TLAPS

QuotaInv ==
    /\ sent <= runCount /\ spentAt <= lastRun
    /\ phase \notin {"storing", "idle"} => notice = "none"
    /\ phase = "submitting" =>
          /\ job.count = runCount
          /\ click = "run" => runCount < MaxRuns /\ job.at - lastRun >= Cooldown
    /\ phase \in {"counting", "counted"} => sent < runCount
    /\ phase = "counting" => job.at - lastRun >= Cooldown
    /\ phase = "counted" => lastRun = job.at /\ job.at - spentAt >= Cooldown
    /\ notice = "unavailable" => phase = "idle" /\ runCount = job.count

FreshInv ==
    /\ phase # "drawing" => page.form = form /\ page.warned = Warning(form)
    /\ phase \notin {"drawing", "comparing"} => sig = Amounts(form)
    /\ phase \notin Top => confirmed = page.box
    /\ ticked # None /\ confirmed /\ phase # "clearing" =>
          /\ ticked[1] = sig
          /\ unread /\ sig[2] = 0 => ticked[2]

Together ==
    /\ shown.input = shown.result
    /\ shown.screen # None => shown.screen = shown.result
    /\ shown.demo => shown.screen = None
    /\ shown.result # None => (shown.demo <=> DOMAIN shown.result = {"demo"})

(* The slots a script has assigned hold its job's form.                    *)
AssignedAre(v) ==
    \/ left = Slots
    \/ left = <<"screen", "input", "demo">> /\ shown.result = v
    \/ left = <<"input", "demo">> /\ shown.result = v /\ shown.screen = v
    \/ left = <<"demo">> /\ shown.result = v /\ shown.screen = v /\ shown.input = v

ShownInv ==
    /\ shown = [result |-> shown.result, screen |-> shown.screen,
                input |-> shown.input, demo |-> shown.demo]
    /\ ~torn /\ (phase = "storing" => left = Slots) => Together
    /\ phase = "storing" => AssignedAre(FromForm(job.form))

IInv == TypeOK /\ QuotaInv /\ FreshInv /\ ShownInv

LEMMA InitInv == Init => IInv
<1> SUFFICES ASSUME Init PROVE IInv
  OBVIOUS
<1>1. TypeOK
  <2>1. lastRun \in (-Cooldown)..MaxTime /\ spentAt \in (-Cooldown)..MaxTime
        /\ now \in 0..MaxTime /\ runCount \in 0..MaxRuns
    BY SessionAssumption DEF Init
  <2>2. job \in [form : Forms, at : 0..MaxTime, count : 0..MaxRuns]
    BY SessionAssumption DEF Init, NoJob
  <2>3. page \in [form : Forms, box : BOOLEAN, warned : BOOLEAN, screen : BOOLEAN, run : BOOLEAN]
    BY SessionAssumption DEF Init
  <2> QED
    BY <2>1, <2>2, <2>3, SessionAssumption DEF Init, TypeOK, Nothing, Notices, Phases
<1>2. QuotaInv
  BY SessionAssumption DEF Init, QuotaInv
<1>3. FreshInv
  BY DEF Init, FreshInv, Warning
<1>4. ShownInv
  BY DEF Init, ShownInv, Together, Nothing
<1> QED
  BY <1>1, <1>2, <1>3, <1>4 DEF IInv

(* What an assignment does to everything but the slots.                    *)
LEMMA StoreKeepsTypes ==
  ASSUME TypeOK, Store, (left' # <<>>) <=> (phase' = "storing"), shown'.demo \in BOOLEAN,
         phase' = "storing" \/ phase' = "idle", torn' = torn \/ torn' = FALSE
  PROVE  TypeOK'
<1>1. phase' \in Phases
  BY DEF Phases
<1>2. torn' \in BOOLEAN
  BY DEF TypeOK
<1> QED
  BY <1>1, <1>2 DEF TypeOK, Store, fields, quota, spent

(* One assignment moves one slot from what is left to what is assigned.    *)
LEMMA StoreKeepsShown ==
  ASSUME TypeOK, ShownInv, Store
  PROVE  TypeOK' /\ ShownInv'
<1> DEFINE v == FromForm(job.form)
           put(slot) == IF slot = "demo" THEN FALSE ELSE v
<1>1. /\ shown' = [shown EXCEPT ![Head(left)] = put(Head(left))]
      /\ left' = Tail(left) /\ UNCHANGED job
      /\ phase = "storing"
  BY DEF Store
<1>2. shown = [result |-> shown.result, screen |-> shown.screen,
               input |-> shown.input, demo |-> shown.demo]
  BY DEF ShownInv
<1>3. AssignedAre(v)
  BY <1>1 DEF ShownInv
<1>4. DOMAIN v = {"form"}
  BY DEF FromForm
<1>5. v' = v
  BY <1>1
<1> HIDE DEF v
<1>6. CASE left = Slots
  <2>1. left' = <<"screen", "input", "demo">> /\ Head(left) = "result"
    BY <1>1, <1>6 DEF Slots
  <2>2. shown' = [result |-> v, screen |-> shown.screen, input |-> shown.input, demo |-> shown.demo]
    BY <1>1, <1>2, <2>1
  <2>3. Len(left') = 3 /\ Len(Slots) = 4
    BY <2>1 DEF Slots
  <2>4. left' # <<>> /\ left' # Slots
    BY <2>1, <2>3
  <2>5. UNCHANGED <<phase, torn>>
    BY <2>4 DEF Store
  <2>6. shown'.result = v
    BY <2>2
  <2>7. AssignedAre(v)'
    BY <1>5, <2>1, <2>6 DEF AssignedAre
  <2>8. shown' = [result |-> shown.result, screen |-> shown.screen,
                  input |-> shown.input, demo |-> shown.demo]'
        /\ shown'.demo \in BOOLEAN
    BY <2>2 DEF TypeOK
  <2>9. ShownInv'
    BY <1>1, <2>4, <2>5, <2>7, <2>8 DEF ShownInv, v
  <2> QED
    BY <1>1, <2>4, <2>5, <2>8, <2>9, StoreKeepsTypes
<1>7. CASE left = <<"screen", "input", "demo">>
  <2>1. left' = <<"input", "demo">> /\ Head(left) = "screen"
    BY <1>1, <1>7
  <2>2. shown' = [result |-> v, screen |-> v, input |-> shown.input, demo |-> shown.demo]
    BY <1>1, <1>2, <1>3, <1>7, <2>1 DEF AssignedAre, Slots
  <2>3. Len(left') = 2 /\ Len(Slots) = 4
    BY <2>1 DEF Slots
  <2>4. left' # <<>> /\ left' # Slots
    BY <2>1, <2>3
  <2>5. UNCHANGED <<phase, torn>>
    BY <2>4 DEF Store
  <2>6. shown'.result = v /\ shown'.screen = v
    BY <2>2
  <2>7. AssignedAre(v)'
    BY <1>5, <2>1, <2>6 DEF AssignedAre
  <2>8. shown' = [result |-> shown.result, screen |-> shown.screen,
                  input |-> shown.input, demo |-> shown.demo]'
        /\ shown'.demo \in BOOLEAN
    BY <2>2 DEF TypeOK
  <2>9. ShownInv'
    BY <1>1, <2>4, <2>5, <2>7, <2>8 DEF ShownInv, v
  <2> QED
    BY <1>1, <2>4, <2>5, <2>8, <2>9, StoreKeepsTypes
<1>8. CASE left = <<"input", "demo">>
  <2>1. left' = <<"demo">> /\ Head(left) = "input"
    BY <1>1, <1>8
  <2>2. shown' = [result |-> v, screen |-> v, input |-> v, demo |-> shown.demo]
    BY <1>1, <1>2, <1>3, <1>8, <2>1 DEF AssignedAre, Slots
  <2>3. Len(left') = 1 /\ Len(Slots) = 4
    BY <2>1 DEF Slots
  <2>4. left' # <<>> /\ left' # Slots
    BY <2>1, <2>3
  <2>5. UNCHANGED <<phase, torn>>
    BY <2>4 DEF Store
  <2>6. shown'.result = v /\ shown'.screen = v /\ shown'.input = v
    BY <2>2
  <2>7. AssignedAre(v)'
    BY <1>5, <2>1, <2>6 DEF AssignedAre
  <2>8. shown' = [result |-> shown.result, screen |-> shown.screen,
                  input |-> shown.input, demo |-> shown.demo]'
        /\ shown'.demo \in BOOLEAN
    BY <2>2 DEF TypeOK
  <2>9. ShownInv'
    BY <1>1, <2>4, <2>5, <2>7, <2>8 DEF ShownInv, v
  <2> QED
    BY <1>1, <2>4, <2>5, <2>8, <2>9, StoreKeepsTypes
<1>9. CASE left = <<"demo">>
  <2>1. left' = <<>> /\ Head(left) = "demo"
    BY <1>1, <1>9
  <2>2. shown' = [result |-> v, screen |-> v, input |-> v, demo |-> FALSE]
    BY <1>1, <1>2, <1>3, <1>9, <2>1 DEF AssignedAre, Slots
  <2>3. phase' = "idle" /\ torn' = FALSE
    BY <2>1 DEF Store
  <2>4. DOMAIN shown'.result # {"demo"}
    <3>1. "form" # "demo"
      OBVIOUS
    <3> QED
      BY <1>4, <2>2, <3>1
  <2>5. Together'
    BY <2>2, <2>4 DEF Together
  <2>6. shown' = [result |-> shown.result, screen |-> shown.screen,
                  input |-> shown.input, demo |-> shown.demo]'
    BY <2>2
  <2> QED
    BY <2>1, <2>2, <2>3, <2>5, <2>6, StoreKeepsTypes DEF ShownInv
<1> QED
  BY <1>3, <1>6, <1>7, <1>8, <1>9 DEF AssignedAre

(* What the script that an interaction starts begins with.                 *)
LEMMA RerunKeepsTypes ==
  ASSUME TypeOK, NEW f \in Forms, NEW box \in BOOLEAN, NEW c \in {"none", "screen", "run"},
         Rerun(f, box, c), unread' \in BOOLEAN, key' \in BOOLEAN,
         page' \in [form : Forms, box : BOOLEAN, warned : BOOLEAN, screen : BOOLEAN, run : BOOLEAN],
         shown'.demo \in BOOLEAN, left' = <<>>, torn' \in BOOLEAN
  PROVE  TypeOK'
<1>1. job' \in [form : Forms, at : 0..MaxTime, count : 0..MaxRuns]
  BY SessionAssumption DEF Rerun, NoJob
<1>2. phase' \in Phases /\ phase' # "storing" /\ notice' \in Notices
  BY DEF Rerun, Phases, Top, Notices
<1>3. UNCHANGED <<now, runCount, lastRun, sent, spentAt>> /\ form' = f /\ confirmed' = box /\ click' = c
  BY DEF Rerun, quota, spent
<1> QED
  BY <1>1, <1>2, <1>3 DEF TypeOK

LEMMA DeliverIsRerun ==
  ASSUME TypeOK, NEW f \in Forms, NEW box \in BOOLEAN, NEW c, Deliver(f, box, c)
  PROVE  /\ Rerun(f, box, c)
         /\ page' \in [form : Forms, box : BOOLEAN, warned : BOOLEAN, screen : BOOLEAN, run : BOOLEAN]
  BY DEF TypeOK, Deliver

LEMMA AbandonKeepsTypes ==
  ASSUME TypeOK, Abandon
  PROVE  left' = <<>> /\ torn' \in BOOLEAN /\ shown'.demo \in BOOLEAN
  BY DEF TypeOK, Abandon, Torn

(* Every step is typed: what is counted stays within the session's limit,  *)
(* because the handler starts no attempt beyond it.                        *)
LEMMA StepType ==
  ASSUME TypeOK, QuotaInv, ShownInv, [Next]_vars
  PROVE  TypeOK'
<1>1. ASSUME Tick PROVE TypeOK'
  BY <1>1, SessionAssumption DEF TypeOK, QuotaInv, Tick, fields, quota, slots, spent, NoJob, Notices, Phases
<1>2. ASSUME NEW f \in Forms, Edit(f)
      PROVE  TypeOK'
  <2>1. page.form \in Forms /\ page.box \in BOOLEAN
    BY DEF TypeOK
  <2>2. left' = <<>> /\ torn' \in BOOLEAN /\ shown'.demo \in BOOLEAN
    BY <1>2, AbandonKeepsTypes DEF Edit
  <2>3. unread' \in BOOLEAN /\ key' \in BOOLEAN
    BY <1>2 DEF TypeOK, Edit
  <2>4. Deliver(f, page.box, "none")
    BY <1>2 DEF Edit
  <2> QED
    BY <2>1, <2>2, <2>3, <2>4, DeliverIsRerun, RerunKeepsTypes
<1>3. ASSUME NEW k \in BOOLEAN, EnterKey(k)
      PROVE  TypeOK'
  <2>1. page.form \in Forms /\ page.box \in BOOLEAN
    BY DEF TypeOK
  <2>2. left' = <<>> /\ torn' \in BOOLEAN /\ shown'.demo \in BOOLEAN
    BY <1>3, AbandonKeepsTypes DEF EnterKey
  <2>3. unread' \in BOOLEAN /\ key' \in BOOLEAN
    BY <1>3 DEF TypeOK, EnterKey
  <2>4. Deliver(page.form, page.box, "none")
    BY <1>3 DEF EnterKey
  <2> QED
    BY <2>1, <2>2, <2>3, <2>4, DeliverIsRerun, RerunKeepsTypes
<1>4. ASSUME TickBox PROVE TypeOK'
  <2>1. page.form \in Forms /\ page.box \in BOOLEAN
    BY DEF TypeOK
  <2>2. left' = <<>> /\ torn' \in BOOLEAN /\ shown'.demo \in BOOLEAN
    BY <1>4, AbandonKeepsTypes DEF TickBox
  <2>3. unread' \in BOOLEAN /\ key' \in BOOLEAN
    BY <1>4 DEF TypeOK, TickBox
  <2>4. Deliver(page.form, TRUE, "none")
    BY <1>4 DEF TickBox
  <2> QED
    BY <2>1, <2>2, <2>3, <2>4, DeliverIsRerun, RerunKeepsTypes
<1>5. ASSUME UntickBox PROVE TypeOK'
  <2>1. page.form \in Forms /\ page.box \in BOOLEAN
    BY DEF TypeOK
  <2>2. left' = <<>> /\ torn' \in BOOLEAN /\ shown'.demo \in BOOLEAN
    BY <1>5, AbandonKeepsTypes DEF UntickBox
  <2>3. unread' \in BOOLEAN /\ key' \in BOOLEAN
    BY <1>5 DEF TypeOK, UntickBox
  <2>4. Deliver(page.form, FALSE, "none")
    BY <1>5 DEF UntickBox
  <2> QED
    BY <2>1, <2>2, <2>3, <2>4, DeliverIsRerun, RerunKeepsTypes
<1>6. ASSUME NEW p \in Texts, Fill(p)
      PROVE  TypeOK'
  <2>1. AsForm(p) \in Forms
    BY SessionAssumption
  <2>2. left' = <<>> /\ torn' \in BOOLEAN /\ shown'.demo \in BOOLEAN
    BY <1>6, AbandonKeepsTypes DEF Fill
  <2>3. unread' \in BOOLEAN /\ UNCHANGED <<page, key>> /\ Rerun(AsForm(p), FALSE, "none")
    BY <1>6 DEF Fill
  <2>4. page' \in [form : Forms, box : BOOLEAN, warned : BOOLEAN, screen : BOOLEAN, run : BOOLEAN]
        /\ key' \in BOOLEAN
    BY <2>3 DEF TypeOK
  <2> QED
    BY <2>1, <2>2, <2>3, <2>4, RerunKeepsTypes
<1>7. ASSUME Reset PROVE TypeOK'
  <2>1. page.form \in Forms /\ page.box \in BOOLEAN
    BY DEF TypeOK
  <2>2. left' = <<>> /\ torn' \in BOOLEAN /\ shown'.demo \in BOOLEAN
    BY <1>7 DEF TypeOK, Reset, Replace, Nothing
  <2>3. unread' \in BOOLEAN /\ key' \in BOOLEAN
    BY <1>7 DEF TypeOK, Reset
  <2>4. Deliver(page.form, page.box, "none")
    BY <1>7 DEF Reset
  <2> QED
    BY <2>1, <2>2, <2>3, <2>4, DeliverIsRerun, RerunKeepsTypes
<1>8. ASSUME NEW d \in Demos, LoadDemo(d)
      PROVE  TypeOK'
  <2>1. page.form \in Forms /\ page.box \in BOOLEAN
    BY DEF TypeOK
  <2>2. left' = <<>> /\ torn' \in BOOLEAN /\ shown'.demo \in BOOLEAN
    BY <1>8 DEF TypeOK, LoadDemo, Replace, Nothing
  <2>3. unread' \in BOOLEAN /\ key' \in BOOLEAN
    BY <1>8 DEF TypeOK, LoadDemo
  <2>4. Deliver(page.form, page.box, "none")
    BY <1>8 DEF LoadDemo
  <2> QED
    BY <2>1, <2>2, <2>3, <2>4, DeliverIsRerun, RerunKeepsTypes
<1>9. ASSUME NEW c \in {"screen", "run"}, NEW f \in Forms, Click(c, f)
      PROVE  TypeOK'
  <2>1. page.form \in Forms /\ page.box \in BOOLEAN
    BY DEF TypeOK
  <2>2. left' = <<>> /\ torn' \in BOOLEAN /\ shown'.demo \in BOOLEAN
    BY <1>9, AbandonKeepsTypes DEF Click
  <2>3. unread' \in BOOLEAN /\ key' \in BOOLEAN
    BY <1>9 DEF TypeOK, Click
  <2>4. Deliver(f, page.box, c)
    BY <1>9 DEF Click
  <2> QED
    BY <2>1, <2>2, <2>3, <2>4, DeliverIsRerun, RerunKeepsTypes
<1>10. ASSUME DrawForm PROVE TypeOK'
  <2>1. page' \in [form : Forms, box : BOOLEAN, warned : BOOLEAN, screen : BOOLEAN, run : BOOLEAN]
    BY <1>10 DEF TypeOK, DrawForm, fields, Warning
  <2>2. phase # "storing" /\ phase' # "storing" /\ phase' \in Phases
    BY <1>10 DEF DrawForm, Phases, Top
  <2> QED
    BY <1>10, <2>1, <2>2 DEF TypeOK, DrawForm, fields, quota, slots, spent
<1>11. ASSUME Compare PROVE TypeOK'
  <2>1. page' \in [form : Forms, box : BOOLEAN, warned : BOOLEAN, screen : BOOLEAN, run : BOOLEAN]
    BY <1>11 DEF TypeOK, Compare
  <2>2. phase # "storing" /\ phase' # "storing" /\ phase' \in Phases
    BY <1>11 DEF Compare, Phases, Top
  <2> QED
    BY <1>11, <2>1, <2>2 DEF TypeOK, Compare, quota, slots, spent
<1>12. ASSUME ClearBox PROVE TypeOK'
  <2>1. page' \in [form : Forms, box : BOOLEAN, warned : BOOLEAN, screen : BOOLEAN, run : BOOLEAN]
    BY <1>12 DEF TypeOK, ClearBox
  <2>2. phase # "storing" /\ phase' # "storing" /\ phase' \in Phases
    BY <1>12 DEF ClearBox, Phases, Top
  <2> QED
    BY <1>12, <2>1, <2>2 DEF TypeOK, ClearBox, quota, slots, spent
<1>13. ASSUME DrawBox PROVE TypeOK'
  BY <1>13, SessionAssumption DEF TypeOK, QuotaInv, DrawBox, quota, slots, spent, NoJob, Notices, Phases
<1>14. ASSUME DrawButtons PROVE TypeOK'
  BY <1>14, SessionAssumption DEF TypeOK, QuotaInv, DrawButtons, fields, quota, slots, spent, NoJob, Notices, Phases
<1>15. ASSUME Handle PROVE TypeOK'
  BY <1>15, SessionAssumption DEF TypeOK, QuotaInv, Handle, Refusal, fields, quota, slots, spent, NoJob, Notices, Phases
<1>16. ASSUME SubmitFails PROVE TypeOK'
  BY <1>16, SessionAssumption DEF TypeOK, QuotaInv, SubmitFails, fields, quota, slots, spent, NoJob, Notices, Phases
<1>17. ASSUME ScreenAnswered PROVE TypeOK'
  BY <1>17, SessionAssumption DEF TypeOK, QuotaInv, ScreenAnswered, StartStoring, fields, quota, spent, Slots, NoJob, Notices, Phases
<1>18. ASSUME Store PROVE TypeOK'
  BY <1>18, StoreKeepsShown
<1>19. ASSUME Submitted PROVE TypeOK'
  BY <1>19, SessionAssumption DEF TypeOK, QuotaInv, Submitted, fields, slots, spent, NoJob, Notices, Phases
<1>20. ASSUME Dated PROVE TypeOK'
  BY <1>20, SessionAssumption DEF TypeOK, QuotaInv, Dated, fields, slots, spent, NoJob, Notices, Phases
<1>21. ASSUME SendExplanation PROVE TypeOK'
  BY <1>21, SessionAssumption DEF TypeOK, QuotaInv, SendExplanation, fields, quota, slots, NoJob, Notices, Phases
<1>22. ASSUME ExplanationAnswered PROVE TypeOK'
  BY <1>22, SessionAssumption DEF TypeOK, QuotaInv, ExplanationAnswered, StartStoring, fields, quota, spent, Slots, NoJob, Notices, Phases
<1>23. ASSUME ExplanationFails PROVE TypeOK'
  BY <1>23, SessionAssumption DEF TypeOK, QuotaInv, ExplanationFails, fields, quota, slots, spent, NoJob, Notices, Phases
<1>24. ASSUME UNCHANGED vars PROVE TypeOK'
  BY <1>24, SessionAssumption DEF TypeOK, QuotaInv, vars, fields, quota, slots, spent, NoJob, Notices, Phases
<1> QED
  BY <1>1, <1>2, <1>3, <1>4, <1>5, <1>6, <1>7, <1>8, <1>9, <1>10, <1>11, <1>12, <1>13, <1>14, <1>15, <1>16, <1>17, <1>18, <1>19, <1>20, <1>21, <1>22, <1>23, <1>24 DEF Next, Interaction, Script

LEMMA StepQuota ==
  ASSUME TypeOK, QuotaInv, [Next]_vars
  PROVE  QuotaInv'
<1>1. ASSUME Tick PROVE QuotaInv'
  BY <1>1, SessionAssumption DEF TypeOK, QuotaInv, Tick, fields, quota, slots, spent
<1>2. ASSUME NEW f \in Forms, Edit(f)
      PROVE  QuotaInv'
  BY <1>2, SessionAssumption DEF TypeOK, QuotaInv, Edit, Deliver, Rerun, Overlook, Abandon, Torn, quota, spent
<1>3. ASSUME NEW k \in BOOLEAN, EnterKey(k)
      PROVE  QuotaInv'
  BY <1>3, SessionAssumption DEF TypeOK, QuotaInv, EnterKey, Deliver, Rerun, Overlook, Abandon, Torn, quota, spent
<1>4. ASSUME TickBox PROVE QuotaInv'
  BY <1>4, SessionAssumption DEF TypeOK, QuotaInv, TickBox, Deliver, Rerun, Overlook, Abandon, Torn, quota, spent
<1>5. ASSUME UntickBox PROVE QuotaInv'
  BY <1>5, SessionAssumption DEF TypeOK, QuotaInv, UntickBox, Deliver, Rerun, Overlook, Abandon, Torn, quota, spent
<1>6. ASSUME NEW p \in Texts, Fill(p)
      PROVE  QuotaInv'
  BY <1>6, SessionAssumption DEF TypeOK, QuotaInv, Fill, Rerun, Overlook, Abandon, Torn, quota, spent
<1>7. ASSUME Reset PROVE QuotaInv'
  BY <1>7, SessionAssumption DEF TypeOK, QuotaInv, Reset, Deliver, Rerun, Overlook, Replace, Nothing, quota, spent
<1>8. ASSUME NEW d \in Demos, LoadDemo(d)
      PROVE  QuotaInv'
  BY <1>8, SessionAssumption DEF TypeOK, QuotaInv, LoadDemo, Deliver, Rerun, Overlook, Replace, Nothing, quota, spent
<1>9. ASSUME NEW c \in {"screen", "run"}, NEW f \in Forms, Click(c, f)
      PROVE  QuotaInv'
  BY <1>9, SessionAssumption DEF TypeOK, QuotaInv, Click, Deliver, Rerun, Overlook, Abandon, Torn, quota, spent
<1>10. ASSUME DrawForm PROVE QuotaInv'
  BY <1>10, SessionAssumption DEF TypeOK, QuotaInv, DrawForm, fields, quota, slots, spent
<1>11. ASSUME Compare PROVE QuotaInv'
  BY <1>11, SessionAssumption DEF TypeOK, QuotaInv, Compare, quota, slots, spent
<1>12. ASSUME ClearBox PROVE QuotaInv'
  BY <1>12, SessionAssumption DEF TypeOK, QuotaInv, ClearBox, quota, slots, spent
<1>13. ASSUME DrawBox PROVE QuotaInv'
  BY <1>13, SessionAssumption DEF TypeOK, QuotaInv, DrawBox, quota, slots, spent
<1>14. ASSUME DrawButtons PROVE QuotaInv'
  BY <1>14, SessionAssumption DEF TypeOK, QuotaInv, DrawButtons, fields, quota, slots, spent
<1>15. ASSUME Handle PROVE QuotaInv'
  <2>1. CASE Complete(form) /\ Refusal = "none"
    <3>1. click = "run" => runCount < MaxRuns /\ now - lastRun >= Cooldown
      BY <2>1, SessionAssumption DEF Refusal, TypeOK
    <3>2. /\ phase' = "submitting" /\ notice' = notice /\ click' = click
          /\ job'.at = now /\ job'.count = runCount
      BY <1>15, <2>1 DEF Handle
    <3> QED
      BY <1>15, <3>1, <3>2 DEF QuotaInv, Handle, quota, spent
  <2>2. CASE ~(Complete(form) /\ Refusal = "none")
    <3>1. notice' # "unavailable"
      BY <1>15, <2>2 DEF Handle, Refusal
    <3> QED
      BY <1>15, <2>2, <3>1 DEF QuotaInv, Handle, quota, spent
  <2> QED
    BY <2>1, <2>2
<1>16. ASSUME SubmitFails PROVE QuotaInv'
  BY <1>16, SessionAssumption DEF TypeOK, QuotaInv, SubmitFails, fields, quota, slots, spent
<1>17. ASSUME ScreenAnswered PROVE QuotaInv'
  BY <1>17, SessionAssumption DEF TypeOK, QuotaInv, ScreenAnswered, StartStoring, fields, quota, spent, Slots
<1>18. ASSUME Store PROVE QuotaInv'
  BY <1>18, SessionAssumption DEF TypeOK, QuotaInv, Store, fields, quota, spent
<1>19. ASSUME Submitted PROVE QuotaInv'
  BY <1>19, SessionAssumption DEF TypeOK, QuotaInv, Submitted, fields, slots, spent
<1>20. ASSUME Dated PROVE QuotaInv'
  <2>1. job.at \in Int /\ lastRun \in Int /\ spentAt \in Int /\ Cooldown \in Nat
    BY SessionAssumption DEF TypeOK
  <2>2. spentAt <= lastRun /\ job.at - lastRun >= Cooldown /\ sent <= runCount /\ sent < runCount
    BY <1>20 DEF QuotaInv, Dated
  <2>3. spentAt <= job.at /\ job.at - spentAt >= Cooldown
    BY <2>1, <2>2
  <2>4. notice = "none"
    BY <1>20 DEF QuotaInv, Dated
  <2> QED
    BY <1>20, <2>2, <2>3, <2>4 DEF QuotaInv, Dated, fields, slots, spent
<1>21. ASSUME SendExplanation PROVE QuotaInv'
  BY <1>21, SessionAssumption DEF TypeOK, QuotaInv, SendExplanation, fields, quota, slots
<1>22. ASSUME ExplanationAnswered PROVE QuotaInv'
  BY <1>22, SessionAssumption DEF TypeOK, QuotaInv, ExplanationAnswered, StartStoring, fields, quota, spent, Slots
<1>23. ASSUME ExplanationFails PROVE QuotaInv'
  BY <1>23, SessionAssumption DEF TypeOK, QuotaInv, ExplanationFails, fields, quota, slots, spent
<1>24. ASSUME UNCHANGED vars PROVE QuotaInv'
  BY <1>24, SessionAssumption DEF TypeOK, QuotaInv, vars, fields, quota, slots, spent
<1> QED
  BY <1>1, <1>2, <1>3, <1>4, <1>5, <1>6, <1>7, <1>8, <1>9, <1>10, <1>11, <1>12, <1>13, <1>14, <1>15, <1>16, <1>17, <1>18, <1>19, <1>20, <1>21, <1>22, <1>23, <1>24 DEF Next, Interaction, Script

LEMMA StepFresh ==
  ASSUME TypeOK, FreshInv, [Next]_vars
  PROVE  FreshInv'
<1>1. ASSUME Tick PROVE FreshInv'
  BY <1>1 DEF TypeOK, FreshInv, Tick, fields, quota, slots, spent, Warning, Amounts, Top
<1>2. ASSUME NEW f \in Forms, Edit(f)
      PROVE  FreshInv'
  BY <1>2 DEF TypeOK, FreshInv, Edit, Deliver, Rerun, Overlook, Abandon, Torn, quota, spent, Warning, Amounts, Top, ClearingUnseen
<1>3. ASSUME NEW k \in BOOLEAN, EnterKey(k)
      PROVE  FreshInv'
  BY <1>3 DEF TypeOK, FreshInv, EnterKey, Deliver, Rerun, Overlook, Abandon, Torn, quota, spent, Warning, Amounts, Top, ClearingUnseen
<1>4. ASSUME TickBox PROVE FreshInv'
  BY <1>4 DEF TypeOK, FreshInv, TickBox, Deliver, Rerun, Overlook, Abandon, Torn, quota, spent, Warning, Amounts, Top, ClearingUnseen
<1>5. ASSUME UntickBox PROVE FreshInv'
  BY <1>5 DEF TypeOK, FreshInv, UntickBox, Deliver, Rerun, Overlook, Abandon, Torn, quota, spent, Warning, Amounts, Top, ClearingUnseen
<1>6. ASSUME NEW p \in Texts, Fill(p)
      PROVE  FreshInv'
  BY <1>6 DEF TypeOK, FreshInv, Fill, Rerun, Overlook, Abandon, Torn, quota, spent, Warning, Amounts, Top, ClearingUnseen
<1>7. ASSUME Reset PROVE FreshInv'
  BY <1>7 DEF TypeOK, FreshInv, Reset, Deliver, Rerun, Overlook, Replace, Nothing, quota, spent, Warning, Amounts, Top, ClearingUnseen
<1>8. ASSUME NEW d \in Demos, LoadDemo(d)
      PROVE  FreshInv'
  BY <1>8 DEF TypeOK, FreshInv, LoadDemo, Deliver, Rerun, Overlook, Replace, Nothing, quota, spent, Warning, Amounts, Top, ClearingUnseen
<1>9. ASSUME NEW c \in {"screen", "run"}, NEW f \in Forms, Click(c, f)
      PROVE  FreshInv'
  BY <1>9 DEF TypeOK, FreshInv, Click, Deliver, Rerun, Overlook, Abandon, Torn, quota, spent, Warning, Amounts, Top, ClearingUnseen
<1>10. ASSUME DrawForm PROVE FreshInv'
  BY <1>10 DEF TypeOK, FreshInv, DrawForm, fields, quota, slots, spent, Warning, Amounts, Top
<1>11. ASSUME Compare PROVE FreshInv'
  BY <1>11 DEF TypeOK, FreshInv, Compare, quota, slots, spent, Warning, Amounts, Top
<1>12. ASSUME ClearBox PROVE FreshInv'
  BY <1>12 DEF TypeOK, FreshInv, ClearBox, quota, slots, spent, Warning, Amounts, Top
<1>13. ASSUME DrawBox PROVE FreshInv'
  BY <1>13 DEF TypeOK, FreshInv, DrawBox, quota, slots, spent, Warning, Amounts, Top
<1>14. ASSUME DrawButtons PROVE FreshInv'
  BY <1>14 DEF TypeOK, FreshInv, DrawButtons, fields, quota, slots, spent, Warning, Amounts, Top
<1>15. ASSUME Handle PROVE FreshInv'
  BY <1>15 DEF TypeOK, FreshInv, Handle, Refusal, fields, quota, slots, spent, Warning, Amounts, Top
<1>16. ASSUME SubmitFails PROVE FreshInv'
  BY <1>16 DEF TypeOK, FreshInv, SubmitFails, fields, quota, slots, spent, Warning, Amounts, Top
<1>17. ASSUME ScreenAnswered PROVE FreshInv'
  BY <1>17 DEF TypeOK, FreshInv, ScreenAnswered, StartStoring, fields, quota, spent, Slots, Warning, Amounts, Top
<1>18. ASSUME Store PROVE FreshInv'
  BY <1>18 DEF TypeOK, FreshInv, Store, fields, quota, spent, Warning, Amounts, Top
<1>19. ASSUME Submitted PROVE FreshInv'
  BY <1>19 DEF TypeOK, FreshInv, Submitted, fields, slots, spent, Warning, Amounts, Top
<1>20. ASSUME Dated PROVE FreshInv'
  BY <1>20 DEF TypeOK, FreshInv, Dated, fields, slots, spent, Warning, Amounts, Top
<1>21. ASSUME SendExplanation PROVE FreshInv'
  BY <1>21 DEF TypeOK, FreshInv, SendExplanation, fields, quota, slots, Warning, Amounts, Top
<1>22. ASSUME ExplanationAnswered PROVE FreshInv'
  BY <1>22 DEF TypeOK, FreshInv, ExplanationAnswered, StartStoring, fields, quota, spent, Slots, Warning, Amounts, Top
<1>23. ASSUME ExplanationFails PROVE FreshInv'
  BY <1>23 DEF TypeOK, FreshInv, ExplanationFails, fields, quota, slots, spent, Warning, Amounts, Top
<1>24. ASSUME UNCHANGED vars PROVE FreshInv'
  BY <1>24 DEF TypeOK, FreshInv, vars, fields, quota, slots, spent, Warning, Amounts, Top
<1> QED
  BY <1>1, <1>2, <1>3, <1>4, <1>5, <1>6, <1>7, <1>8, <1>9, <1>10, <1>11, <1>12, <1>13, <1>14, <1>15, <1>16, <1>17, <1>18, <1>19, <1>20, <1>21, <1>22, <1>23, <1>24 DEF Next, Interaction, Script

LEMMA StepShown ==
  ASSUME TypeOK, ShownInv, [Next]_vars
  PROVE  ShownInv'
<1>1. ASSUME Tick PROVE ShownInv'
  BY <1>1 DEF TypeOK, ShownInv, Together, AssignedAre, FromForm, Tick, fields, quota, slots, spent
<1>2. ASSUME NEW f \in Forms, Edit(f)
      PROVE  ShownInv'
  BY <1>2 DEF TypeOK, ShownInv, Together, AssignedAre, FromForm, Edit, Deliver, Rerun, Overlook, Abandon, Torn, quota, spent
<1>3. ASSUME NEW k \in BOOLEAN, EnterKey(k)
      PROVE  ShownInv'
  BY <1>3 DEF TypeOK, ShownInv, Together, AssignedAre, FromForm, EnterKey, Deliver, Rerun, Overlook, Abandon, Torn, quota, spent
<1>4. ASSUME TickBox PROVE ShownInv'
  BY <1>4 DEF TypeOK, ShownInv, Together, AssignedAre, FromForm, TickBox, Deliver, Rerun, Overlook, Abandon, Torn, quota, spent
<1>5. ASSUME UntickBox PROVE ShownInv'
  BY <1>5 DEF TypeOK, ShownInv, Together, AssignedAre, FromForm, UntickBox, Deliver, Rerun, Overlook, Abandon, Torn, quota, spent
<1>6. ASSUME NEW p \in Texts, Fill(p)
      PROVE  ShownInv'
  BY <1>6 DEF TypeOK, ShownInv, Together, AssignedAre, FromForm, Fill, Rerun, Overlook, Abandon, Torn, quota, spent
<1>7. ASSUME Reset PROVE ShownInv'
  BY <1>7 DEF TypeOK, ShownInv, Together, AssignedAre, FromForm, Reset, Deliver, Rerun, Overlook, Replace, Nothing, quota, spent
<1>8. ASSUME NEW d \in Demos, LoadDemo(d)
      PROVE  ShownInv'
  BY <1>8 DEF TypeOK, ShownInv, Together, AssignedAre, FromForm, LoadDemo, Deliver, Rerun, Overlook, Replace, Nothing, quota, spent, FromDemo
<1>9. ASSUME NEW c \in {"screen", "run"}, NEW f \in Forms, Click(c, f)
      PROVE  ShownInv'
  BY <1>9 DEF TypeOK, ShownInv, Together, AssignedAre, FromForm, Click, Deliver, Rerun, Overlook, Abandon, Torn, quota, spent
<1>10. ASSUME DrawForm PROVE ShownInv'
  BY <1>10 DEF TypeOK, ShownInv, Together, AssignedAre, FromForm, DrawForm, fields, quota, slots, spent
<1>11. ASSUME Compare PROVE ShownInv'
  BY <1>11 DEF TypeOK, ShownInv, Together, AssignedAre, FromForm, Compare, quota, slots, spent
<1>12. ASSUME ClearBox PROVE ShownInv'
  BY <1>12 DEF TypeOK, ShownInv, Together, AssignedAre, FromForm, ClearBox, quota, slots, spent
<1>13. ASSUME DrawBox PROVE ShownInv'
  BY <1>13 DEF TypeOK, ShownInv, Together, AssignedAre, FromForm, DrawBox, quota, slots, spent
<1>14. ASSUME DrawButtons PROVE ShownInv'
  BY <1>14 DEF TypeOK, ShownInv, Together, AssignedAre, FromForm, DrawButtons, fields, quota, slots, spent
<1>15. ASSUME Handle PROVE ShownInv'
  BY <1>15 DEF TypeOK, ShownInv, Together, AssignedAre, FromForm, Handle, Refusal, fields, quota, slots, spent
<1>16. ASSUME SubmitFails PROVE ShownInv'
  BY <1>16 DEF TypeOK, ShownInv, Together, AssignedAre, FromForm, SubmitFails, fields, quota, slots, spent
<1>17. ASSUME ScreenAnswered PROVE ShownInv'
  BY <1>17 DEF TypeOK, ShownInv, Together, AssignedAre, FromForm, ScreenAnswered, StartStoring, fields, quota, spent, Slots
<1>18. ASSUME Store PROVE ShownInv'
  BY <1>18, StoreKeepsShown
<1>19. ASSUME Submitted PROVE ShownInv'
  BY <1>19 DEF TypeOK, ShownInv, Together, AssignedAre, FromForm, Submitted, fields, slots, spent
<1>20. ASSUME Dated PROVE ShownInv'
  BY <1>20 DEF TypeOK, ShownInv, Together, AssignedAre, FromForm, Dated, fields, slots, spent
<1>21. ASSUME SendExplanation PROVE ShownInv'
  BY <1>21 DEF TypeOK, ShownInv, Together, AssignedAre, FromForm, SendExplanation, fields, quota, slots
<1>22. ASSUME ExplanationAnswered PROVE ShownInv'
  BY <1>22 DEF TypeOK, ShownInv, Together, AssignedAre, FromForm, ExplanationAnswered, StartStoring, fields, quota, spent, Slots
<1>23. ASSUME ExplanationFails PROVE ShownInv'
  BY <1>23 DEF TypeOK, ShownInv, Together, AssignedAre, FromForm, ExplanationFails, fields, quota, slots, spent
<1>24. ASSUME UNCHANGED vars PROVE ShownInv'
  BY <1>24 DEF TypeOK, ShownInv, Together, AssignedAre, FromForm, vars, fields, quota, slots, spent
<1> QED
  BY <1>1, <1>2, <1>3, <1>4, <1>5, <1>6, <1>7, <1>8, <1>9, <1>10, <1>11, <1>12, <1>13, <1>14, <1>15, <1>16, <1>17, <1>18, <1>19, <1>20, <1>21, <1>22, <1>23, <1>24 DEF Next, Interaction, Script

LEMMA Invariance == Spec => []IInv
<1>1. IInv /\ [Next]_vars => IInv'
  BY StepType, StepQuota, StepFresh, StepShown DEF IInv
<1> QED
  BY <1>1, InitInv, PTL DEF Spec

(***************************************************************************)
(* The theorems                                                            *)
(***************************************************************************)

(* _run_explanation counts an attempt before its request leaves, the       *)
(* handler keeps to the session's limit whatever the page still offers,    *)
(* and a service that is away costs nothing.                               *)
THEOREM AttemptsAreAccounted == Spec => []AttemptsAccounted
<1>1. IInv => AttemptsAccounted
  BY DEF IInv, TypeOK, QuotaInv, AttemptsAccounted, CountedBeforeSent, UnavailableCostsNothing
<1> QED
  BY <1>1, Invariance, PTL

(* A tick shown beside a form stands for its amounts, and for the warning  *)
(* that a debt was not read, however the form was edited, filled from a    *)
(* text and redrawn since; the exceptions are the ticks that a script      *)
(* stopped before its box should have taken, and ticks on a page still     *)
(* being drawn.                                                            *)
THEOREM ConfirmationStaysFresh == Spec => []ConfirmationIsFresh
<1>1. IInv => ConfirmationIsFresh
  BY DEF IInv, TypeOK, FreshInv, ConfirmationIsFresh, Top, Warning, Amounts
<1> QED
  BY <1>1, Invariance, PTL

(* What is drawn belongs to one submission or one recorded case, unless a  *)
(* script was abandoned between two of its assignments.                    *)
THEOREM ShownStaysTogether == Spec => []ShownBelongsTogether
<1>1. IInv => ShownBelongsTogether
  BY DEF IInv, TypeOK, ShownInv, Together, ShownBelongsTogether, Torn
<1> QED
  BY <1>1, Invariance, PTL

(* Requests that spend tokens were clicked a cooldown apart: the attempts  *)
(* that have left are no younger than the date the handler checks.         *)
THEOREM AttemptsKeepCooldown == Spec => CooldownBetweenAttempts
<1>1. ASSUME IInv, [Next]_vars
      PROVE  [sent' # sent => job.at - spentAt >= Cooldown]_vars
  <2> SUFFICES ASSUME sent' # sent
               PROVE  job.at - spentAt >= Cooldown
    OBVIOUS
  <2>1. SendExplanation
    BY <1>1 DEF Next, Interaction, Script, Tick, Edit, EnterKey, TickBox, UntickBox, Fill, Reset,
        LoadDemo, Click, Deliver, Rerun, DrawForm, Compare, ClearBox, DrawBox, DrawButtons, Handle,
        SubmitFails, ScreenAnswered, Store, Submitted, Dated, ExplanationAnswered,
        ExplanationFails, spent, vars
  <2> QED
    BY <1>1, <2>1 DEF IInv, QuotaInv, SendExplanation
<1> QED
  BY <1>1, Invariance, PTL DEF Spec, CooldownBetweenAttempts
=============================================================================
