----------------------------- MODULE Screening -----------------------------
(***************************************************************************)
(* The deterministic decision: loan_agent/screening.py, products.py and    *)
(* decision.py.  One application and one product table give a band, a      *)
(* verdict and a ranked shortlist; nothing here has a state.               *)
(*                                                                         *)
(* Amounts are whole units of money, rates and fees tenths of a percent.   *)
(* The code computes in floats; the annuity is the same multiple of any    *)
(* principal, so it is kept as Factor, in millionths of the principal a    *)
(* month (19333 for 6% over 60 months), and the comparisons are exact.     *)
(***************************************************************************)
EXTENDS Integers, FiniteSets, Sequences

CONSTANTS
    Factor,         \* the monthly payment, in millionths of the principal
    Applications,   \* applications the API may accept
    Tables          \* product tables a release may carry

(* products.load_products: one row of the CSV, read.                       *)
Products == [code : STRING, rate : Nat, rateTo : Nat, limit : Nat, grade : Nat,
             secured : BOOLEAN, regular : BOOLEAN, fee : Nat]

(* AssessmentRequest: what the API's validation lets through.              *)
Accepted == [income : Nat \ {0}, debt : Nat, grade : 1..10, amount : Nat \ {0},
             regular : BOOLEAN, collateral : BOOLEAN]

ASSUME ScreeningAssumption ==
    /\ Factor \in Nat \ {0}
    /\ Applications \subseteq Accepted
    /\ Tables \subseteq Seq(Products)

Bands    == {"COMFORTABLE", "MODERATE", "STRAINED"}
Verdicts == {"ELIGIBLE", "CONDITIONAL", "INELIGIBLE"}

(***************************************************************************)
(* Repayment ability                                                       *)
(***************************************************************************)
(* Millionths of the monthly income that the old debt and the new loan     *)
(* take together; the twelve months cancel out.                            *)
Payment(a) == (a.debt + a.amount) * Factor

OldIndicator(a) == a.debt * Factor
BandOnDebtAlone(a) == IF OldIndicator(a) <= 300000 * a.income THEN "COMFORTABLE"
                      ELSE IF OldIndicator(a) <= 400000 * a.income THEN "MODERATE" ELSE "STRAINED"

(* No income is an infinite ratio, hence the last band.                    *)
Band(a) ==
    IF a.income > 0 /\ Payment(a) <= 300000 * a.income THEN "COMFORTABLE"
    ELSE IF a.income > 0 /\ Payment(a) <= 400000 * a.income THEN "MODERATE"
    ELSE "STRAINED"

(* The ratio as it is stored and shown: thousandths, rounded.              *)
Dsr(a) == (Payment(a) + 500 * a.income) \div (1000 * a.income)

(***************************************************************************)
(* The products of one table                                               *)
(***************************************************************************)
EligibleByEqualJob(a, t) ==
    {i \in DOMAIN t : a.grade <= t[i].grade /\ (t[i].secured => a.collateral)
                      /\ t[i].regular = a.regular /\ a.amount <= t[i].limit}

Eligible(a, t) ==
    {i \in DOMAIN t :
        /\ a.grade <= t[i].grade
        /\ t[i].secured => a.collateral
        /\ t[i].regular => a.regular
        /\ a.amount <= t[i].limit}

(* The sort key of the ranking: the lowest rate, then the widest margin of *)
(* the required grade over the customer's, then the fee; the sort is       *)
(* stable, so the order of the table decides the rest.                     *)
Before(t, i, j) ==
    \/ t[i].rate < t[j].rate
    \/ /\ t[i].rate = t[j].rate
       /\ \/ t[i].grade > t[j].grade
          \/ /\ t[i].grade = t[j].grade
             /\ \/ t[i].fee < t[j].fee
                \/ t[i].fee = t[j].fee /\ i < j

Rank(a, t, i) == Cardinality({j \in Eligible(a, t) : Before(t, j, i)}) + 1

Verdict(a, t) ==
    IF Eligible(a, t) = {} \/ Band(a) = "STRAINED" THEN "INELIGIBLE"
    ELSE IF Band(a) = "COMFORTABLE" THEN "ELIGIBLE"
    ELSE "CONDITIONAL"

(* The rows of the table that are recommended: the first three.            *)
FirstOfTheTable(a, t) ==
    IF Verdict(a, t) = "INELIGIBLE" THEN {}
    ELSE {i \in Eligible(a, t) : Cardinality({j \in Eligible(a, t) : j < i}) < 3}

Shortlist(a, t) ==
    IF Verdict(a, t) = "INELIGIBLE" THEN {}
    ELSE {i \in Eligible(a, t) : Rank(a, t, i) <= 3}

(* decision.decide: what is stored, stamped with the table it came from.   *)
Decision(a, t) ==
    [verdict |-> Verdict(a, t),
     band    |-> Band(a),
     dsr     |-> Dsr(a),
     ranked  |-> {[rank |-> Rank(a, t, i), product |-> t[i]] : i \in Shortlist(a, t)},
     version |-> t]

(***************************************************************************)
(* Comparing two applications, for the properties                          *)
(***************************************************************************)
Level(v) == IF v = "ELIGIBLE" THEN 2 ELSE IF v = "CONDITIONAL" THEN 1 ELSE 0

(* b asks at least as much as a, and offers at most as much.               *)
NoStronger(b, a) ==
    /\ b.income <= a.income /\ b.debt >= a.debt
    /\ b.grade >= a.grade   /\ b.amount >= a.amount
    /\ b.regular => a.regular
    /\ b.collateral => a.collateral

(* The same burden on the same income, divided otherwise between what is   *)
(* owed and what is asked for.                                             *)
SameBurden(a, b) == a.income = b.income /\ a.debt + a.amount = b.debt + b.amount
=============================================================================
