------------------------- MODULE MCGuidanceScoring -------------------------
(* Small instances of GuidanceScoring for TLC: amounts in units of 10,000  *)
(* won, tables cut from the shipped loan_products.csv.                     *)
EXTENDS GuidanceScoring

Row(code, rate, rateTo, limit, grade, secured, regular, fee) ==
    [code |-> code, rate |-> rate, rateTo |-> rateTo, limit |-> limit, grade |-> grade,
     secured |-> secured, regular |-> regular, fee |-> fee]

Unsecured == Row("A-01", 45, 80, 5000, 3, FALSE, TRUE, 10)
Premium   == Row("A-02", 30, 55, 10000, 1, FALSE, TRUE, 15)
Secured   == Row("A-03", 38, 65, 25000, 4, TRUE, FALSE, 14)
Small     == Row("A-04", 100, 160, 700, 6, FALSE, FALSE, 5)
Open      == Row("B-01", 60, 120, 3000, 5, FALSE, FALSE, 8)
(* Ties on the rate with A-01, decided by the grade and by the fee.        *)
TiedGrade == Row("X-01", 45, 90, 5000, 5, FALSE, TRUE, 12)
TiedFee   == Row("X-02", 45, 70, 5000, 3, FALSE, TRUE, 9)

(* The table shipped, and one where A-01 has become dearer than B-01.      *)
Shipped == <<Small, Unsecured, TiedGrade, Open, TiedFee, Secured, Premium>>
Dearer  == <<[Unsecured EXCEPT !.rate = 65], Open>>

MCTables == {Shipped, Dearer}

Applicant(income, debt, grade, amount, regular, collateral) ==
    [income |-> income, debt |-> debt, grade |-> grade, amount |-> amount,
     regular |-> regular, collateral |-> collateral]

(* 3880 over an income of 250 is a ratio of 0.30005: beyond the limit and  *)
(* rounded onto it; 3875 is 0.2997, 5180 is 0.4006.                        *)
MCApplications ==
    {Applicant(250, debt, grade, amount, TRUE, FALSE) :
        debt \in {875, 880}, grade \in {1, 3, 6}, amount \in {700, 3000}}
    \cup {Applicant(250, 0, grade, 3000, regular, collateral) :
        grade \in {3, 5}, regular \in BOOLEAN, collateral \in BOOLEAN}
    \cup {Applicant(250, 2180, 3, 3000, TRUE, FALSE), Applicant(250, 3000, 3, 880, TRUE, FALSE),
          Applicant(250, 0, 3, 6000, TRUE, TRUE), Applicant(400, 0, 3, 3000, TRUE, FALSE)}

(* Of the shipped codes, percentages and amounts, the ones a text about    *)
(* these applications can get right or wrong.                              *)
MCTexts ==
    [says : {{"approve"}, {"consult"}, {"difficult"}, {"approve", "reject"}, {"difficult", "reject"}},
     cites : {{}, {"X-01", "X-02", "A-01"}, {"A-01", "B-01"}, {"B-01"}},
     percents : {{}, {45}, {77}},
     wons : {{}, {5000}},
     definitive : BOOLEAN, disclaimer : BOOLEAN]

=============================================================================
