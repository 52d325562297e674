--------------------------- MODULE ConsultSession ---------------------------
(***************************************************************************)
(* One visitor's session of the consult screen: loan_agent/app.py.         *)
(*                                                                         *)
(* Streamlit (external) runs the script from the top at every interaction: *)
(* first the callback of the widget, then main().  An interaction while a  *)
(* script is not through abandons it, at one of its calls or before one of *)
(* its assignments to session_state; what it had sent goes on at the       *)
(* server.  The browser keeps showing what was drawn last (page): a click  *)
(* is on a button of that page, it may be delivered together with an edit  *)
(* that the page does not reflect yet, and every interaction sends the     *)
(* values of the page's widgets, which overrule what a script or callback  *)
(* has assigned to them and not drawn.                                     *)
(*                                                                         *)
(* One interaction with its callback is one action.  The script it starts  *)
(* draws the form, compares the amounts, clears and draws the box, draws   *)
(* the buttons and handles a click, in actions of their own wherever       *)
(* session_state or the page changes between two points where it may be    *)
(* abandoned.                                                              *)
(***************************************************************************)
EXTENDS Integers, Sequences

CONSTANTS
    Forms,          \* values of the form: income, debt, grade, amount
    Texts,          \* what the parser reads from a text: a form, or one whose debt is Unread
    Demos,          \* recorded cases
    Unread, None,
    MaxRuns,        \* MAX_RUNS_PER_SESSION
    Cooldown,       \* COOLDOWN_SEC
    MaxTime         \* bound: the clock stops here

EmptyForm == [income |-> 0, debt |-> 0, grade |-> 0, amount |-> 0]

(* _fill_form_from_text: what could not be read becomes 0.                 *)
AsForm(p) == IF p.debt = Unread THEN [p EXCEPT !.debt = 0] ELSE p

ASSUME SessionAssumption ==
    /\ Forms \subseteq [income : Nat, debt : Nat, grade : 0..10, amount : Nat]
    /\ EmptyForm \in Forms
    /\ \A p \in Texts : AsForm(p) \in Forms
    /\ MaxRuns \in Nat \ {0} /\ Cooldown \in Nat /\ MaxTime \in Nat

VARIABLES
    now,
    form, unread,       \* the form as session_state holds it, and debt_unread
    confirmed, sig,     \* amount_confirmed and _amount_sig
    page,               \* what the browser shows
    key,                \* is a visitor key in the sidebar?
    runCount, lastRun,  \* run_count and last_run_ts
    shown,              \* last_result, last_screen, last_input, is_demo
    phase, click, job,  \* the script that is not through, and its click
    left,               \* the slots of shown it has still to assign
    notice,             \* what the visitor was told last
    (* history of the session *)
    torn,               \* was a script abandoned between two of those slots?
    sent, spentAt,      \* explanation requests that have left, and the last one's click
    ticked              \* the amounts and the warning beside which the box was ticked;
                        \* None: not ticked, or a tick that should have been lost

fields == <<form, unread, confirmed, sig, ticked>>
quota  == <<runCount, lastRun>>
slots  == <<shown, left, torn>>
spent  == <<sent, spentAt>>
vars   == <<now, fields, page, key, quota, slots, phase, click, job, notice, spent>>

Amounts(f) == <<f.income, f.debt, f.amount>>

(* screening.missing_required_fields over _form_customer: a form has a debt*)
(* always, and the other fields at 0 are not filled in.                    *)
Complete(f) == f.income > 0 /\ f.grade > 0 /\ f.amount > 0

(* The warning that the debt of this form was not read but is 0.           *)
Warning(f) == unread /\ f.debt = 0

FromForm(f) == [form |-> f]
FromDemo(d) == [demo |-> d]
Slots       == <<"result", "screen", "input", "demo">>
Nothing     == [result |-> None, screen |-> None, input |-> None, demo |-> FALSE]

NoJob == [form |-> EmptyForm, at |-> 0, count |-> 0]

Notices == {"none", "unavailable", "quota", "cooldown", "withheld", "failed"}

(* Where a script is before it has drawn the box, and after.               *)
Top    == {"drawing", "comparing", "clearing", "boxing"}
Phases == Top \cup {"enabling", "handling", "submitting", "counting", "counted", "explaining",
                    "storing", "idle"}

TypeOK ==
    /\ now \in 0..MaxTime
    /\ form \in Forms /\ unread \in BOOLEAN
    /\ confirmed \in BOOLEAN
    /\ page \in [form : Forms, box : BOOLEAN, warned : BOOLEAN, screen : BOOLEAN, run : BOOLEAN]
    /\ key \in BOOLEAN
    /\ runCount \in 0..MaxRuns /\ lastRun \in (-Cooldown)..MaxTime
    /\ shown.demo \in BOOLEAN
    /\ phase \in Phases /\ click \in {"none", "screen", "run"}
    /\ (left # <<>>) <=> (phase = "storing")
    /\ torn \in BOOLEAN
    /\ job \in [form : Forms, at : 0..MaxTime, count : 0..MaxRuns]
    /\ notice \in Notices
    /\ sent \in Nat /\ spentAt \in (-Cooldown)..MaxTime

(* The first script has drawn the empty form.                              *)
Init ==
    /\ now = 0
    /\ form = EmptyForm /\ unread = FALSE
    /\ confirmed = FALSE /\ sig = Amounts(EmptyForm)
    /\ page = [form |-> EmptyForm, box |-> FALSE, warned |-> FALSE, screen |-> FALSE, run |-> FALSE]
    /\ key = FALSE
    /\ runCount = 0 /\ lastRun = -Cooldown     \* the clock is older than the cooldown
    /\ shown = Nothing
    /\ phase = "idle" /\ click = "none" /\ left = <<>> /\ torn = FALSE
    /\ job = NoJob
    /\ notice = "none"
    /\ sent = 0 /\ spentAt = -Cooldown
    /\ ticked = None

Tick ==
    /\ now < MaxTime
    /\ now' = now + 1
    /\ UNCHANGED <<fields, page, key, quota, slots, phase, click, job, notice, spent>>

(***************************************************************************)
(* Interactions                                                            *)
(***************************************************************************)

(* main() begins again over this form and this box, for click c.           *)
Rerun(f, box, c) ==
    /\ form' = f /\ confirmed' = box
    /\ phase' = "drawing" /\ click' = c
    /\ notice' = "none" /\ job' = NoJob
    /\ UNCHANGED <<now, sig, quota, spent>>

(* The widgets of the page as the browser sends them with an interaction.  *)
Deliver(f, box, c) ==
    /\ page' = [page EXCEPT !.form = f, !.box = box]
    /\ Rerun(f, box, c)

(* The results: whatever script there was is abandoned, with some slots    *)
(* assigned, none or all of them.                                          *)
Torn == torn \/ (phase = "storing" /\ left # Slots)

Abandon ==
    /\ left' = <<>>
    /\ torn' = Torn
    /\ UNCHANGED shown

(* The same by a callback that assigns every slot itself.                  *)
Replace ==
    /\ left' = <<>>
    /\ torn' = FALSE

(* The box: a script abandoned between the comparison and the box, or one  *)
(* whose callback had cleared it, leaves the page's tick in force.         *)
ClearingUnseen ==
    /\ page.box
    /\ phase = "clearing" \/ (phase \in Top /\ ~confirmed)
Overlook == ticked' = IF ClearingUnseen THEN None ELSE ticked

Edit(f) ==
    /\ Deliver(f, page.box, "none")
    /\ Overlook /\ Abandon
    /\ UNCHANGED <<unread, key>>

EnterKey(k) ==
    /\ key' = k
    /\ Deliver(page.form, page.box, "none")
    /\ Overlook /\ Abandon
    /\ UNCHANGED unread

(* A tick on a page that does not show yet what session_state holds (other *)
(* amounts than the compared ones, or a warning still to be drawn) is not  *)
(* a tick for what will be shown.                                          *)
TickBox ==
    /\ ~page.box
    /\ Deliver(page.form, TRUE, "none")
    /\ ticked' = IF sig = Amounts(page.form) /\ (Warning(page.form) => page.warned)
                    THEN <<sig, page.warned>> ELSE None
    /\ Abandon
    /\ UNCHANGED <<unread, key>>

UntickBox ==
    /\ page.box
    /\ Deliver(page.form, FALSE, "none")
    /\ ticked' = None
    /\ Abandon
    /\ UNCHANGED <<unread, key>>

FillKeepingBox(p) ==
    /\ unread' = (p.debt = Unread)
    /\ Rerun(AsForm(p), page.box, "none")
    /\ Overlook /\ Abandon
    /\ UNCHANGED <<page, key>>

(* _fill_form_from_text, from the button or from an example (_fill_input): *)
(* form and box are the callback's, and the page's only once drawn.        *)
Fill(p) ==
    /\ unread' = (p.debt = Unread)
    /\ Rerun(AsForm(p), FALSE, "none")
    /\ Overlook /\ Abandon
    /\ UNCHANGED <<page, key>>

(* _reset_input empties the text, the mark and the result, not the form.   *)
Reset ==
    /\ shown.result # None
    /\ unread' = FALSE
    /\ shown' = Nothing
    /\ Deliver(page.form, page.box, "none")
    /\ Overlook /\ Replace
    /\ UNCHANGED key

DemoOverScreen(d) ==
    /\ shown' = [shown EXCEPT !.result = FromDemo(d), !.input = FromDemo(d), !.demo = TRUE]
    /\ Deliver(page.form, page.box, "none")
    /\ Overlook /\ Replace
    /\ UNCHANGED <<unread, key>>

(* _load_demo: no stored screen, the page computes it from the recording.  *)
LoadDemo(d) ==
    /\ shown' = [result |-> FromDemo(d), screen |-> None, input |-> FromDemo(d), demo |-> TRUE]
    /\ Deliver(page.form, page.box, "none")
    /\ Overlook /\ Replace
    /\ UNCHANGED <<unread, key>>

(* A button that the page shows enabled, with the form as it is delivered. *)
Click(c, f) ==
    /\ IF c = "run" THEN page.run ELSE page.screen
    /\ Deliver(f, page.box, c)
    /\ Overlook /\ Abandon
    /\ UNCHANGED <<unread, key>>

(***************************************************************************)
(* main() from the form to the buttons                                     *)
(***************************************************************************)
DrawForm ==
    /\ phase = "drawing"
    /\ page' = [page EXCEPT !.form = form, !.warned = Warning(form)]
    /\ phase' = "comparing"
    /\ UNCHANGED <<now, fields, key, quota, slots, click, job, notice, spent>>

(* Amounts other than those of the last comparison are noted first ...     *)
Compare ==
    /\ phase = "comparing"
    /\ sig' = Amounts(form)
    /\ phase' = IF sig = Amounts(form) THEN "boxing" ELSE "clearing"
    /\ UNCHANGED <<now, form, unread, confirmed, ticked, page, key, quota, slots, click, job,
                   notice, spent>>

(* ... and then clear the box.                                             *)
ClearBox ==
    /\ phase = "clearing"
    /\ confirmed' = FALSE
    /\ phase' = "boxing"
    /\ UNCHANGED <<now, form, unread, sig, ticked, page, key, quota, slots, click, job,
                   notice, spent>>

DrawBox ==
    /\ phase = "boxing"
    /\ page' = [page EXCEPT !.box = confirmed]
    /\ ticked' = IF confirmed THEN ticked ELSE None
    /\ phase' = "enabling"
    /\ UNCHANGED <<now, form, unread, confirmed, sig, key, quota, slots, click, job, notice,
                   spent>>

(* The buttons are drawn before the click is handled, and not again after. *)
DrawButtons ==
    /\ phase = "enabling"
    /\ LET ready == Complete(form) /\ confirmed IN
       page' = [page EXCEPT !.screen = ready, !.run = ready /\ key /\ runCount < MaxRuns]
    /\ phase' = IF click = "none" THEN "idle" ELSE "handling"
    /\ UNCHANGED <<now, fields, key, quota, slots, click, job, notice, spent>>

(***************************************************************************)
(* The handlers of the two buttons                                         *)
(***************************************************************************)
NoRefusal == IF click = "run" /\ runCount >= MaxRuns THEN "quota" ELSE "none"
NoQuota   == IF click = "run" /\ now - lastRun < Cooldown THEN "cooldown" ELSE "none"

(* What the handler asks itself, whatever the page showed.                 *)
Refusal ==
    IF click = "run" /\ runCount >= MaxRuns THEN "quota"
    ELSE IF click = "run" /\ now - lastRun < Cooldown THEN "cooldown"
    ELSE "none"

Handle ==
    /\ phase = "handling"
    /\ IF Complete(form) /\ Refusal = "none"
         THEN /\ phase' = "submitting"
              /\ job' = [form |-> form, at |-> now, count |-> runCount]
              /\ UNCHANGED notice
         ELSE /\ phase' = "idle"
              /\ notice' = IF Complete(form) THEN Refusal ELSE "none"
              /\ UNCHANGED job
    /\ UNCHANGED <<now, fields, page, key, quota, slots, click, spent>>

(* _submit_assessment ends with an error or after 10 seconds.              *)
SubmitFails ==
    /\ phase = "submitting"
    /\ phase' = "idle"
    /\ notice' = "unavailable"
    /\ UNCHANGED <<now, fields, page, key, quota, slots, click, job, spent>>

StartStoring ==
    /\ phase' = "storing" /\ left' = Slots
    /\ UNCHANGED <<shown, torn>>

ScreenAnswered ==
    /\ phase = "submitting" /\ click = "screen"
    /\ StartStoring
    /\ UNCHANGED <<now, fields, page, key, quota, click, job, notice, spent>>

(* One assignment of the results to session_state.                         *)
Store ==
    /\ phase = "storing"
    /\ shown' = [shown EXCEPT ![Head(left)] = IF Head(left) = "demo" THEN FALSE ELSE FromForm(job.form)]
    /\ left' = Tail(left)
    /\ IF left' = <<>> THEN phase' = "idle" /\ torn' = FALSE ELSE UNCHANGED <<phase, torn>>
    /\ UNCHANGED <<now, fields, page, key, quota, click, job, notice, spent>>

SubmittedUncounted ==
    /\ phase = "submitting" /\ click = "run"
    /\ phase' = "counting"
    /\ UNCHANGED <<now, fields, page, key, quota, slots, click, job, notice, spent>>

(* _run_explanation: the attempt is counted, then dated by its click.      *)
Submitted ==
    /\ phase = "submitting" /\ click = "run"
    /\ runCount' = runCount + 1
    /\ phase' = "counting"
    /\ UNCHANGED <<now, fields, page, key, lastRun, slots, click, job, notice, spent>>

Dated ==
    /\ phase = "counting"
    /\ lastRun' = job.at
    /\ phase' = "counted"
    /\ UNCHANGED <<now, fields, page, key, runCount, slots, click, job, notice, spent>>

SendExplanation ==
    /\ phase = "counted"
    /\ sent' = sent + 1 /\ spentAt' = job.at
    /\ phase' = "explaining"
    /\ UNCHANGED <<now, fields, page, key, quota, slots, click, job, notice>>

(* A 200 without a text: _withheld_message says why.                       *)
ExplanationAnswered ==
    /\ phase = "explaining"
    /\ notice' \in {"none", "withheld"}
    /\ StartStoring
    /\ UNCHANGED <<now, fields, page, key, quota, click, job, spent>>

(* Any error, or no answer: _explanation_error_message, never with the     *)
(* message of a submission that failed.                                    *)
ExplanationFails ==
    /\ phase = "explaining"
    /\ notice' = "failed"
    /\ phase' = "idle"
    /\ UNCHANGED <<now, fields, page, key, quota, slots, click, job, spent>>

Interaction ==
    \/ \E f \in Forms : Edit(f)
    \/ \E k \in BOOLEAN : EnterKey(k)
    \/ TickBox \/ UntickBox
    \/ \E p \in Texts : Fill(p)
    \/ Reset
    \/ \E d \in Demos : LoadDemo(d)
    \/ \E c \in {"screen", "run"}, f \in Forms : Click(c, f)

Script ==
    \/ DrawForm \/ Compare \/ ClearBox \/ DrawBox \/ DrawButtons
    \/ Handle
    \/ SubmitFails
    \/ ScreenAnswered
    \/ Store
    \/ Submitted
    \/ Dated
    \/ SendExplanation
    \/ ExplanationAnswered
    \/ ExplanationFails

Next == Tick \/ Interaction \/ Script

Spec == Init /\ [][Next]_vars

(***************************************************************************)
(* Properties                                                              *)
(***************************************************************************)
(* _run_explanation: no request that spends tokens leaves uncounted, also  *)
(* when its script is abandoned or fails, and the session's limit holds    *)
(* although a button may still be enabled on a page drawn before the last  *)
(* attempt was counted.                                                    *)
CountedBeforeSent == sent <= runCount /\ runCount <= MaxRuns

(* Its docstring's other half: an attempt that ends with the message that  *)
(* the service is unavailable has cost none of the session's runs.         *)
UnavailableCostsNothing == notice = "unavailable" => runCount = job.count

(* Two requests that spend tokens were clicked a cooldown apart, whatever  *)
(* was abandoned, refused or failed between them.  (An attempt abandoned   *)
(* between its count and its date is counted and holds up nobody; it has   *)
(* sent nothing.)                                                          *)
CooldownBetweenAttempts == [][ sent' # sent => job.at - spentAt >= Cooldown ]_vars

(* A tick that the page shows beside a form stands for the amounts of that *)
(* form, and was given under the warning that the 0 of its debt was not    *)
(* read if there is one: whatever was edited, filled, reset, clicked or    *)
(* abandoned since.  Excepted are ticks that should have been lost: a      *)
(* script noted other amounts and was abandoned before it had cleared the  *)
(* box and drawn it, or the tick came on a page still being drawn.         *)
ConfirmationIsFresh ==
    phase \notin Top /\ page.box /\ ticked # None =>
        /\ ticked[1] = Amounts(page.form)
        /\ page.warned => ticked[2]

(* Result, screen, input line and demo flag are of one submission or of    *)
(* one recorded case: no verdict is drawn over the input of another, in    *)
(* whatever order clicks, demos, resets and abandoned scripts came, unless *)
(* the last one to assign was stopped between two of its assignments.      *)
ShownBelongsTogether ==
    ~Torn =>
        /\ shown.input = shown.result
        /\ shown.screen # None => shown.screen = shown.result
        /\ shown.demo => shown.screen = None
        /\ shown.result # None => (shown.demo <=> DOMAIN shown.result = {"demo"})

(* The accounting of the attempts, with the types it is stated over.       *)
AttemptsAccounted == TypeOK /\ CountedBeforeSent /\ UnavailableCostsNothing
=============================================================================
