-------------------------- MODULE GuidanceScoring --------------------------
(***************************************************************************)
(* From a decision to a text the customer may read: the decision is stored *)
(* (api/assessments.py), a model writes a text from the STORED decision    *)
(* (worker.py, llm.py), and the text is scored against a decision computed *)
(* AGAIN from the stored application (eval.py, score_case), with whatever  *)
(* product table the scoring process has loaded by then.                   *)
(*                                                                         *)
(* One assessment: nothing of this is shared between assessments but the   *)
(* tables the processes have loaded.  Claims, timeouts and retries of runs *)
(* are ExplanationRuns'; here a run is its text and its score.             *)
(*                                                                         *)
(* A text is what the scorer can tell of it: which conclusions it words,   *)
(* which product codes, percentages and amounts it cites, whether it       *)
(* promises, whether the disclaimer is in it.  The model may return any.   *)
(***************************************************************************)
EXTENDS Screening

CONSTANTS
    Processes,      \* "app" decides and explains on demand, "worker" explains
    Texts,          \* what the language model may return
    NoValue

ASSUME GuidanceAssumption ==
    /\ "app" \in Processes
    /\ NoValue \notin Applications
    /\ \A a \in Applications, t \in Tables : Decision(a, t) # NoValue
    /\ \A x \in Texts : x \in
        [says : SUBSET {"approve", "consult", "difficult", "reject"}, cites : SUBSET STRING,
         percents : SUBSET Nat, wons : SUBSET Nat, definitive : BOOLEAN, disclaimer : BOOLEAN]

VARIABLES
    loaded,         \* the table each process imported when it started
    application,    \* the stored case
    decision,       \* its stored decision
    run             \* its explanation: text, checks and the scorer's table

vars == <<loaded, application, decision, run>>

(* eval.METRICS; the one about parsing is not scored here.                 *)
Metrics == {"verdict", "disclaimer", "recommendation", "numbers", "conditional"}

(***************************************************************************)
(* eval.score_case: the scorer's view of an application under a table      *)
(***************************************************************************)
Codes(t) == {t[i].code : i \in DOMAIN t}

(* decision.VERDICT_LABEL: the word a verdict is told in.                  *)
Word(verdict) == IF verdict = "ELIGIBLE" THEN "approve"
                 ELSE IF verdict = "CONDITIONAL" THEN "consult" ELSE "difficult"

(* The word that must appear, and the one that must not.                   *)
VerdictHoldsInAnyTone(x, verdict) == Word(verdict) \in x.says

VerdictHolds(x, verdict) ==
    /\ Word(verdict) \in x.says
    /\ verdict # "INELIGIBLE" => "reject" \notin x.says

(* The first of the shortlist must be cited; with none, no code may be.    *)
RecommendationHolds(x, ranked, codes) ==
    IF ranked = {} THEN x.cites \cap codes = {}
    ELSE \A r \in ranked : r.rank = 1 => r.product.code \in x.cites

GroundedPercents(ranked, dsr) ==
    UNION {{r.product.rate, r.product.rateTo, r.product.fee} : r \in ranked} \cup {dsr}
GroundedWons(ranked, a) ==
    {r.product.limit : r \in ranked} \cup ({a.income, a.debt, a.amount} \ {0})

NumbersHold(x, ranked, dsr, a) ==
    /\ x.percents \subseteq GroundedPercents(ranked, dsr)
    /\ x.wons \subseteq GroundedWons(ranked, a)

Checks(x, a, t) ==
    LET d == Decision(a, t) IN
    {m \in Metrics :
        \/ m = "verdict"        /\ VerdictHolds(x, d.verdict)
        \/ m = "disclaimer"     /\ x.disclaimer
        \/ m = "recommendation" /\ RecommendationHolds(x, d.ranked, Codes(t))
        \/ m = "numbers"        /\ NumbersHold(x, d.ranked, d.dsr, a)
        \/ m = "conditional"    /\ ~x.definitive}

(* worker.SCORED_METRICS: the metrics publication depends on.              *)
ScoredMetrics == Metrics

(***************************************************************************)
(* The handlers                                                            *)
(***************************************************************************)
TypeOK ==
    /\ loaded \in [Processes -> Tables]
    /\ application \in Applications \cup {NoValue}
    /\ (application = NoValue) <=> (decision = NoValue)
    /\ decision # NoValue => decision.version \in Tables /\ decision = Decision(application, decision.version)
    /\ run # NoValue => run.checks \subseteq Metrics /\ run.scoredBy \in Tables /\ run.passed \in BOOLEAN

Init ==
    /\ loaded \in {[p \in Processes |-> t] : t \in Tables}
    /\ application = NoValue
    /\ decision = NoValue
    /\ run = NoValue

(* A process is restarted with a release; containers of one release are    *)
(* replaced one after the other.                                           *)
Deploy(p, t) ==
    /\ loaded' = [loaded EXCEPT ![p] = t]
    /\ UNCHANGED <<application, decision, run>>

(* api/assessments._persist: the application and its decision, once.       *)
Decide(a) ==
    /\ application = NoValue
    /\ application' = a
    /\ decision' = Decision(a, loaded["app"])
    /\ UNCHANGED <<loaded, run>>

(* worker.generate_explanation: the disclaimer is appended when missing.   *)
AsReturned(x) == x
WithDisclaimer(x) == [x EXCEPT !.disclaimer = TRUE]

(* worker.score_explanation over a run of process p.  One run is enough:   *)
(* the next one reads nothing of it.                                       *)
Explain(p, x) ==
    /\ decision # NoValue
    /\ run = NoValue
    /\ LET text   == WithDisclaimer(x)
           checks == Checks(text, application, loaded[p])
       IN run' = [text |-> text, checks |-> checks, scoredBy |-> loaded[p],
                  passed |-> ScoredMetrics \subseteq checks]
    /\ UNCHANGED <<loaded, application, decision>>

Next ==
    \/ \E p \in Processes, t \in Tables : Deploy(p, t)
    \/ \E a \in Applications : Decide(a)
    \/ \E p \in Processes, x \in Texts : Explain(p, x)

Spec == Init /\ [][Next]_vars

(***************************************************************************)
(* Properties                                                              *)
(***************************************************************************)
(* screening.screen_loan takes the band from the exact ratio and stores    *)
(* the rounded one, which the customer reads.  Away from the two limits    *)
(* themselves they never disagree: a stored ratio below a limit is on its  *)
(* good side, one above it is not.                                         *)
BandWithinRounding ==
    decision # NoValue =>
        /\ decision.dsr < 300 => decision.band = "COMFORTABLE"
        /\ decision.dsr > 300 => decision.band # "COMFORTABLE"
        /\ decision.dsr < 400 => decision.band # "STRAINED"
        /\ decision.dsr > 400 => decision.band = "STRAINED"

(* Over bands, products and verdict together: an application no stronger   *)
(* in any respect than the stored one would not have got a better verdict. *)
WeakerNeverBetter ==
    decision # NoValue =>
        \A b \in Applications : NoStronger(b, application) =>
            Level(Verdict(b, decision.version)) <= Level(decision.verdict)

(* Why screening.py replaced its old indicator: a loan applied for weighs  *)
(* as much as a debt already owed.                                         *)
NewLoanWeighsAsDebt ==
    decision # NoValue =>
        \A b \in Applications : SameBurden(application, b) => decision.band = Band(b)

(* What is recommended is eligible, nothing eligible that is left out      *)
(* comes before what is in, and the stored ranks are 1 to n without a gap  *)
(* or a tie, which the unique index of models.Recommendation would refuse. *)
ShortlistIsBest ==
    decision # NoValue =>
        LET t == decision.version
            S == Shortlist(application, t)
        IN
        /\ \A i \in S, j \in Eligible(application, t) \ S : Before(t, i, j)
        /\ {r.rank : r \in decision.ranked} = 1..Cardinality(S)
        /\ decision.verdict # "INELIGIBLE" => decision.ranked # {}

(* explanations.published_text: the text is shown only when it passed.     *)
Published == run # NoValue /\ run.passed

(* What the prompt of llm.generate_guidance asks of a text, given the      *)
(* stored decision: its verdict in its own word and no other conclusion,   *)
(* its products and no other, its figures and no other, no promise.        *)
Faithful(x, d) ==
    /\ x.says = {Word(d.verdict)}
    /\ x.cites = {r.product.code : r \in d.ranked}
    /\ x.percents \subseteq GroundedPercents(d.ranked, d.dsr)
    /\ x.wons \subseteq {r.product.limit : r \in d.ranked}
    /\ ~x.definitive

(* While the table has not changed since the decision, a published text    *)
(* agrees with the decision the consultant sees: it never rejects what was *)
(* granted, never recommends where nothing was, and every figure in it was *)
(* supplied.                                                               *)
PublishedAgrees ==
    (Published /\ run.scoredBy = decision.version) =>
        /\ VerdictHolds(run.text, decision.verdict)
        /\ decision.verdict = "INELIGIBLE" => run.text.cites \cap Codes(decision.version) = {}
        /\ decision.verdict # "INELIGIBLE" =>
              \E r \in decision.ranked : r.rank = 1 /\ r.product.code \in run.text.cites
        /\ run.text.percents \subseteq GroundedPercents(decision.ranked, decision.dsr)
        /\ run.text.wons \subseteq GroundedWons(decision.ranked, application)

(* Whatever table scored it, what is published carries the disclaimer,     *)
(* promises nothing, and does not both grant and reject.                   *)
PublishedIsCautious ==
    Published => /\ run.text.disclaimer
                 /\ ~run.text.definitive
                 /\ "reject" \in run.text.says => "difficult" \in run.text.says

(* The scorer is no stricter than the prompt: a text that follows the      *)
(* stored decision to the letter is published, the table being the same.   *)
FaithfulPasses ==
    (run # NoValue /\ run.scoredBy = decision.version /\ Faithful(run.text, decision))
        => run.passed

(* decision.py and ADR-005: a past decision is read by the rules and the   *)
(* table of its time.  So would a text that follows the stored decision be *)
(* published whatever table is loaded today; the scorer recomputes the     *)
(* decision with today's.                                                  *)
FaithfulPassesUnderAnyTable ==
    (run # NoValue /\ Faithful(run.text, decision)) => run.passed

(* Everything publication promises, by whatever interleaving of releases,  *)
(* decision and explanation the text came about.                           *)
PublicationSound == TypeOK /\ PublishedAgrees /\ PublishedIsCautious

(* The band means the burden, as it is shown and however it is divided.    *)
BandIsOfTheBurden == BandWithinRounding /\ NewLoanWeighsAsDebt
=============================================================================
