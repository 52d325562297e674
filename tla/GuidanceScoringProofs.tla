----------------------- MODULE GuidanceScoringProofs -----------------------
(***************************************************************************)
(* Theorems about Screening and GuidanceScoring, for any annuity factor,   *)
(* applications, product tables, processes and texts.                      *)
(*                                                                         *)
(* Most of it is about one application and one table: the ratio and its    *)
(* rounding, the monotony of the verdict, and the numbering of the         *)
(* shortlist, which rests on RankIsBijective.  The invariant adds that the *)
(* stored score is the score of the stored text.                           *)
(***************************************************************************)
EXTENDS GuidanceScoring, FiniteSetTheorems, TLAPS

RunInv ==
    run # NoValue =>
        /\ decision # NoValue
        /\ run.text.disclaimer
        /\ run.checks = Checks(run.text, application, run.scoredBy)
        /\ run.passed <=> ScoredMetrics \subseteq run.checks

IInv == TypeOK /\ RunInv

(***************************************************************************)
(* Finite sets in an order: a set of pairs, the smaller element first      *)
(***************************************************************************)

(* A strict total order on S. *)
IsOrderOn(R, S) ==
    /\ \A x \in S : <<x, x>> \notin R
    /\ \A x, y, z \in S : <<x, y>> \in R /\ <<y, z>> \in R => <<x, z>> \in R
    /\ \A x, y \in S : x = y \/ <<x, y>> \in R \/ <<y, x>> \in R

Below(x, R, S) == {y \in S : <<y, x>> \in R}

LEMMA BelowIsProper ==
    ASSUME NEW S, IsFiniteSet(S), NEW R, IsOrderOn(R, S), NEW x \in S
    PROVE  /\ Cardinality(S) \in Nat
           /\ IsFiniteSet(Below(x, R, S))
           /\ Cardinality(Below(x, R, S)) \in 0..(Cardinality(S) - 1)
<1>1. Below(x, R, S) \in SUBSET (S \ {x})
  BY DEF Below, IsOrderOn
<1>2. IsFiniteSet(S \ {x}) /\ Cardinality(S \ {x}) = Cardinality(S) - 1
  BY FS_RemoveElement
<1>3. IsFiniteSet(Below(x, R, S)) /\ Cardinality(Below(x, R, S)) <= Cardinality(S) - 1
  BY <1>1, <1>2, FS_Subset
<1> QED
  BY <1>3, FS_CardinalityType

(* Of two elements, fewer lie below the smaller one.                       *)
LEMMA CountGrows ==
    ASSUME NEW S, IsFiniteSet(S), NEW R, IsOrderOn(R, S),
           NEW x \in S, NEW y \in S, <<x, y>> \in R
    PROVE  Cardinality(Below(x, R, S)) < Cardinality(Below(y, R, S))
<1>1. Below(x, R, S) \in SUBSET (Below(y, R, S) \ {x})
  BY DEF Below, IsOrderOn
<1>2. x \in Below(y, R, S)
  BY DEF Below
<1>3. /\ IsFiniteSet(Below(y, R, S) \ {x})
      /\ Cardinality(Below(y, R, S) \ {x}) = Cardinality(Below(y, R, S)) - 1
  BY <1>2, BelowIsProper, FS_RemoveElement
<1>4. Cardinality(Below(x, R, S)) <= Cardinality(Below(y, R, S)) - 1
  BY <1>1, <1>3, FS_Subset
<1> QED
  BY <1>4, BelowIsProper

(* Counting what lies below it numbers the elements of a finite set from 1 *)
(* to its size, without gap or tie.                                        *)
LEMMA RankIsBijective ==
    ASSUME NEW S, IsFiniteSet(S), NEW R, IsOrderOn(R, S)
    PROVE  [x \in S |-> Cardinality(Below(x, R, S)) + 1] \in Bijection(S, 1..Cardinality(S))
<1> DEFINE f == [x \in S |-> Cardinality(Below(x, R, S)) + 1]
           n == Cardinality(S)
<1>1. n \in Nat
  BY FS_CardinalityType
<1>2. f \in [S -> 1..n]
  BY <1>1, BelowIsProper
<1>3. ASSUME NEW x \in S, NEW y \in S, <<x, y>> \in R
      PROVE  f[x] < f[y]
  BY <1>3, BelowIsProper, CountGrows
<1>4. ASSUME NEW x \in S, NEW y \in S, f[x] = f[y]
      PROVE  x = y
  <2>1. f[x] \in Int /\ f[y] \in Int
    BY <1>1, <1>2
  <2>2. x = y \/ <<x, y>> \in R \/ <<y, x>> \in R
    BY DEF IsOrderOn
  <2> HIDE DEF f
  <2> QED
    BY <2>1, <2>2, <1>3, <1>4
<1>5. f \in Injection(S, 1..n)
  BY <1>2, <1>4 DEF Injection, IsInjective
<1>6. IsFiniteSet(1..n) /\ Cardinality(1..n) = n
  BY <1>1, FS_Interval
<1>7. f \in Surjection(S, 1..n)
  BY <1>5, <1>6, FS_Injection
<1> QED
  BY <1>5, <1>7 DEF Bijection

(***************************************************************************)
(* The ratio                                                               *)
(***************************************************************************)
LEMMA ProductMonotone ==
  ASSUME NEW k \in Nat, NEW x \in Nat, NEW y \in Nat, x <= y
  PROVE  /\ x * k \in Nat
         /\ x * k <= y * k
  OBVIOUS

(* An application's amounts are whole numbers, and so is its payment.      *)
LEMMA ApplicationType ==
  ASSUME NEW a \in Applications
  PROVE  /\ a.income \in Nat \ {0} /\ a.debt \in Nat /\ a.amount \in Nat /\ a.grade \in Nat
         /\ a.regular \in BOOLEAN /\ a.collateral \in BOOLEAN
         /\ Payment(a) \in Nat
<1>1. a \in Accepted
  BY ScreeningAssumption
<1>2. a.debt + a.amount \in Nat /\ Factor \in Nat
  BY <1>1, ScreeningAssumption DEF Accepted
<1>3. Payment(a) \in Nat
  BY <1>2, ProductMonotone DEF Payment
<1> QED
  BY <1>1, <1>3 DEF Accepted

(* Rounding to the nearest thousandth keeps the side of every limit but    *)
(* the limit itself.                                                       *)
LEMMA RoundingKeepsSide ==
  ASSUME NEW p \in Nat, NEW w \in Nat \ {0}, NEW limit \in Nat,
         NEW d, d = (p + 500 * w) \div (1000 * w)
  PROVE  /\ d < limit => p <= limit * 1000 * w
         /\ d > limit => p > limit * 1000 * w
<1> DEFINE x == p + 500 * w
           y == 1000 * w
           q == x \div y
<1>1. x \in Nat /\ y \in Nat \ {0}
  OBVIOUS
<1>2. q \in Nat /\ y * q <= x /\ x < y * q + y
  <2> HIDE DEF x, y
  <2> QED
    BY <1>1
<1>3. ASSUME q < limit PROVE p <= limit * 1000 * w
  <2>1. q + 1 <= limit /\ q + 1 \in Nat
    BY <1>2, <1>3
  <2>2. (q + 1) * y <= limit * y
    BY <1>1, <2>1, ProductMonotone
  <2>3. (q + 1) * y = y * q + y
    BY <1>1, <1>2
  <2>4. limit * y = limit * 1000 * w
    OBVIOUS
  <2>5. limit * y \in Nat
    BY <1>1, ProductMonotone
  <2>6. x < limit * y
    <3> HIDE DEF x, y, q
    <3> QED
      BY <1>1, <1>2, <2>2, <2>3, <2>5
  <2> QED
    BY <2>4, <2>6
<1>4. ASSUME q > limit PROVE p > limit * 1000 * w
  <2>1. limit + 1 <= q
    BY <1>2, <1>4
  <2>2. (limit + 1) * y <= q * y
    BY <1>1, <1>2, <2>1, ProductMonotone
  <2>3. (limit + 1) * y = limit * 1000 * w + 1000 * w
    OBVIOUS
  <2>4. q * y = y * q
    BY <1>1, <1>2
  <2>5. limit * 1000 * w + 1000 * w <= x
    BY <1>1, <1>2, <2>2, <2>3, <2>4
  <2> QED
    BY <2>5
<1> QED
  BY <1>3, <1>4

LEMMA BandKeepsRounding ==
  ASSUME NEW a \in Applications
  PROVE  /\ Dsr(a) < 300 => Band(a) = "COMFORTABLE"
         /\ Dsr(a) > 300 => Band(a) # "COMFORTABLE"
         /\ Dsr(a) < 400 => Band(a) # "STRAINED"
         /\ Dsr(a) > 400 => Band(a) = "STRAINED"
<1>1. a.income \in Nat \ {0} /\ Payment(a) \in Nat
  BY ApplicationType
<1>2. ASSUME NEW limit \in Nat
      PROVE  /\ Dsr(a) < limit => Payment(a) <= limit * 1000 * a.income
             /\ Dsr(a) > limit => Payment(a) > limit * 1000 * a.income
  <2>1. Dsr(a) = (Payment(a) + 500 * a.income) \div (1000 * a.income)
    BY DEF Dsr
  <2> DEFINE p == Payment(a)
             w == a.income
             d == Dsr(a)
  <2>2. p \in Nat /\ w \in Nat \ {0} /\ d = (p + 500 * w) \div (1000 * w)
    BY <1>1, <2>1
  <2> HIDE DEF p, w, d
  <2>3. /\ d < limit => p <= limit * 1000 * w
        /\ d > limit => p > limit * 1000 * w
    BY <2>2, RoundingKeepsSide
  <2> QED
    BY <2>3 DEF p, w, d
<1>3. /\ Dsr(a) < 300 => Payment(a) <= 300 * 1000 * a.income
      /\ Dsr(a) > 300 => Payment(a) > 300 * 1000 * a.income
      /\ Dsr(a) < 400 => Payment(a) <= 400 * 1000 * a.income
      /\ Dsr(a) > 400 => Payment(a) > 400 * 1000 * a.income
  <2>1. 300 \in Nat /\ 400 \in Nat
    OBVIOUS
  <2> QED
    BY <2>1, <1>2
<1> QED
  BY <1>1, <1>3 DEF Band

(***************************************************************************)
(* Monotony                                                                *)
(***************************************************************************)
LEMMA WeakerBandNoBetter ==
  ASSUME NEW a \in Applications, NEW b \in Applications, NoStronger(b, a)
  PROVE  /\ Band(a) = "STRAINED" => Band(b) = "STRAINED"
         /\ Band(b) = "COMFORTABLE" => Band(a) = "COMFORTABLE"
<1>1. /\ a.income \in Nat \ {0} /\ Payment(a) \in Nat
      /\ b.income \in Nat \ {0} /\ Payment(b) \in Nat
  BY ApplicationType
<1>2. Payment(a) <= Payment(b)
  <2>1. a.debt + a.amount \in Nat /\ b.debt + b.amount \in Nat /\ Factor \in Nat
    BY ApplicationType, ScreeningAssumption
  <2>2. a.debt + a.amount <= b.debt + b.amount
    BY ApplicationType DEF NoStronger
  <2> QED
    BY <2>1, <2>2, ProductMonotone DEF Payment
<1>3. b.income <= a.income
  BY DEF NoStronger
<1> QED
  BY <1>1, <1>2, <1>3 DEF Band

(* A row of a table is a product.                                          *)
LEMMA RowType ==
  ASSUME NEW t \in Tables, NEW i \in DOMAIN t
  PROVE  /\ t[i] \in Products
         /\ i \in Nat
  BY ScreeningAssumption

LEMMA WeakerEligibleForNoMore ==
  ASSUME NEW a \in Applications, NEW b \in Applications, NEW t \in Tables, NoStronger(b, a)
  PROVE  Eligible(b, t) \subseteq Eligible(a, t)
<1> SUFFICES ASSUME NEW i \in DOMAIN t, i \in Eligible(b, t)
             PROVE  i \in Eligible(a, t)
  BY DEF Eligible
<1>1. t[i].grade \in Nat /\ t[i].limit \in Nat
  BY RowType DEF Products
<1> QED
  BY <1>1, ApplicationType DEF Eligible, NoStronger

LEMMA WeakerVerdictNoBetter ==
  ASSUME NEW a \in Applications, NEW b \in Applications, NEW t \in Tables, NoStronger(b, a)
  PROVE  Level(Verdict(b, t)) <= Level(Verdict(a, t))
  BY WeakerBandNoBetter, WeakerEligibleForNoMore DEF Verdict, Level, Band

(***************************************************************************)
(* The shortlist                                                           *)
(***************************************************************************)
BeforeOn(a, t) == {p \in Eligible(a, t) \X Eligible(a, t) : Before(t, p[1], p[2])}

LEMMA BeforeIsOrder ==
  ASSUME NEW a \in Applications, NEW t \in Tables
  PROVE  /\ IsFiniteSet(Eligible(a, t))
         /\ IsOrderOn(BeforeOn(a, t), Eligible(a, t))
<1>1. ASSUME NEW i \in Eligible(a, t)
      PROVE  i \in Nat /\ t[i].rate \in Nat /\ t[i].grade \in Nat /\ t[i].fee \in Nat
  BY RowType DEF Eligible, Products
<1>2. IsFiniteSet(Eligible(a, t))
  <2>1. DOMAIN t = 1..Len(t) /\ Len(t) \in Nat
    BY ScreeningAssumption
  <2>2. IsFiniteSet(1..Len(t))
    BY <2>1, FS_Interval
  <2>3. Eligible(a, t) \in SUBSET (1..Len(t))
    BY <2>1 DEF Eligible
  <2> QED
    BY <2>2, <2>3, FS_Subset
<1>3. \A i, j \in Eligible(a, t) : <<i, j>> \in BeforeOn(a, t) <=> Before(t, i, j)
  BY DEF BeforeOn
<1>4. \A i \in Eligible(a, t) : ~Before(t, i, i)
  BY <1>1 DEF Before
<1>5. ASSUME NEW i \in Eligible(a, t), NEW j \in Eligible(a, t), NEW k \in Eligible(a, t),
             Before(t, i, j), Before(t, j, k)
      PROVE  Before(t, i, k)
  BY <1>1, <1>5 DEF Before
<1>6. ASSUME NEW i \in Eligible(a, t), NEW j \in Eligible(a, t)
      PROVE  i = j \/ Before(t, i, j) \/ Before(t, j, i)
  BY <1>1 DEF Before
<1>7. IsOrderOn(BeforeOn(a, t), Eligible(a, t))
  BY <1>3, <1>4, <1>5, <1>6, Zenon DEF IsOrderOn
<1> QED
  BY <1>2, <1>7

LEMMA RankCountsBelow ==
  ASSUME NEW a \in Applications, NEW t \in Tables, NEW i \in Eligible(a, t)
  PROVE  Rank(a, t, i) = Cardinality(Below(i, BeforeOn(a, t), Eligible(a, t))) + 1
<1>1. Below(i, BeforeOn(a, t), Eligible(a, t)) = {j \in Eligible(a, t) : Before(t, j, i)}
  BY DEF Below, BeforeOn
<1> QED
  BY <1>1 DEF Rank

(* The ranks number the eligible rows from 1, in the order of the sort.    *)
LEMMA RankNumbers ==
  ASSUME NEW a \in Applications, NEW t \in Tables
  PROVE  [i \in Eligible(a, t) |-> Rank(a, t, i)]
            \in Bijection(Eligible(a, t), 1..Cardinality(Eligible(a, t)))
<1>1. [i \in Eligible(a, t) |-> Rank(a, t, i)]
         = [i \in Eligible(a, t) |-> Cardinality(Below(i, BeforeOn(a, t), Eligible(a, t))) + 1]
  BY RankCountsBelow
<1> QED
  BY <1>1, BeforeIsOrder, RankIsBijective

(* A row before another has the smaller rank, and only such a row has.     *)
LEMMA RankFollowsOrder ==
  ASSUME NEW a \in Applications, NEW t \in Tables,
         NEW i \in Eligible(a, t), NEW j \in Eligible(a, t), Before(t, i, j)
  PROVE  /\ Rank(a, t, i) \in Nat /\ Rank(a, t, j) \in Nat
         /\ Rank(a, t, i) < Rank(a, t, j)
<1> DEFINE E == Eligible(a, t)
           R == BeforeOn(a, t)
<1>1. <<i, j>> \in R
  BY DEF BeforeOn
<1>2. IsFiniteSet(E) /\ IsOrderOn(R, E)
  BY BeforeIsOrder
<1> HIDE DEF R
<1>3. Cardinality(Below(i, R, E)) < Cardinality(Below(j, R, E))
  BY <1>1, <1>2, CountGrows
<1>4. /\ Cardinality(Below(i, R, E)) \in Nat
      /\ Cardinality(Below(j, R, E)) \in Nat
  BY <1>2, BelowIsProper
<1> QED
  BY <1>3, <1>4, RankCountsBelow DEF R

(* The rows of rank up to three: as many as there are, numbered from 1.    *)
LEMMA ShortlistNumbered ==
  ASSUME NEW a \in Applications, NEW t \in Tables
  PROVE  /\ {Rank(a, t, i) : i \in Shortlist(a, t)} = 1..Cardinality(Shortlist(a, t))
         /\ \A i \in Shortlist(a, t), j \in Eligible(a, t) \ Shortlist(a, t) : Before(t, i, j)
         /\ Verdict(a, t) # "INELIGIBLE" => \E i \in Shortlist(a, t) : Rank(a, t, i) = 1
         /\ Verdict(a, t) = "INELIGIBLE" => Shortlist(a, t) = {}
<1> DEFINE E == Eligible(a, t)
           S == Shortlist(a, t)
           n == Cardinality(E)
           m == IF n <= 3 THEN n ELSE 3
           f == [i \in E |-> Rank(a, t, i)]
           g == [i \in S |-> Rank(a, t, i)]
<1>1. n \in Nat /\ IsFiniteSet(E)
  BY BeforeIsOrder, FS_CardinalityType
<1>2. /\ f \in [E -> 1..n]
      /\ \A i, j \in E : f[i] = f[j] => i = j
      /\ \A k \in 1..n : \E i \in E : f[i] = k
  <2>1. f \in Bijection(E, 1..n)
    BY RankNumbers
  <2> HIDE DEF f, n, E
  <2> QED
    BY <2>1 DEF Bijection, Injection, Surjection, IsInjective
<1>3. CASE Verdict(a, t) = "INELIGIBLE"
  <2>1. S = {}
    BY <1>3 DEF Shortlist
  <2>2. Cardinality(S) = 0
    BY <2>1, FS_EmptySet
  <2>3. 1..0 = {}
    OBVIOUS
  <2> QED
    BY <1>3, <2>1, <2>2, <2>3
<1>4. CASE Verdict(a, t) # "INELIGIBLE"
  <2>1. S = {i \in E : Rank(a, t, i) <= 3}
    BY <1>4 DEF Shortlist
  <2>2. E # {}
    BY <1>4 DEF Verdict
  <2>3. m \in 1..3 /\ m <= n
    BY <1>1, <2>2, FS_EmptySet
  <2>4. \A i \in E : Rank(a, t, i) = f[i]
    OBVIOUS
  <2>5. S = {i \in E : f[i] \in 1..m}
    BY <2>1, <2>4, <1>1, <1>2
  <2>6. g \in Bijection(S, 1..m)
    <3>1. \A i \in S : i \in E /\ g[i] = f[i]
      BY <2>1
    <3> HIDE DEF f, g, S, E, n, m
    <3>2. DOMAIN g = S /\ g = [i \in S |-> g[i]]
      BY DEF g
    <3>3. g \in [S -> 1..m]
      BY <2>5, <3>1, <3>2
    <3>4. \A i, j \in S : g[i] = g[j] => i = j
      BY <1>2, <3>1
    <3>5. \A k \in 1..m : \E i \in S : g[i] = k
      BY <1>1, <1>2, <2>3, <2>5, <3>1
    <3> QED
      BY <3>3, <3>4, <3>5 DEF Bijection, Injection, Surjection, IsInjective
  <2>7. Cardinality(S) = m
    <3>1. S \in SUBSET E
      BY <2>1
    <3>2. IsFiniteSet(S)
      BY <3>1, <1>1, FS_Subset
    <3>3. ExistsBijection(S, 1..m)
      BY <2>6 DEF ExistsBijection
    <3>4. Cardinality(1..m) = Cardinality(S)
      BY <3>2, <3>3, FS_Bijection
    <3> HIDE DEF m, S, E
    <3>5. m \in Int /\ ~(1 > m)
      BY <2>3
    <3>6. Cardinality(1..m) = m
      BY <3>5, FS_Interval
    <3> QED
      BY <3>4, <3>6
  <2>8. {Rank(a, t, i) : i \in S} = 1..m
    <3>1. /\ \A i \in S : Rank(a, t, i) \in 1..m
          /\ \A k \in 1..m : \E i \in S : Rank(a, t, i) = k
      <4>1. \A i \in S : Rank(a, t, i) = g[i]
        OBVIOUS
      <4> HIDE DEF g, S, m
      <4> QED
        BY <4>1, <2>6 DEF Bijection, Surjection
    <3> HIDE DEF S, m
    <3> QED
      BY <3>1
  <2>9. ASSUME NEW i \in S, NEW j \in E \ S PROVE Before(t, i, j)
    <3>1. i \in E /\ j \in E /\ i # j
      BY <2>1, <2>9
    <3>2. Rank(a, t, i) <= 3 /\ ~(Rank(a, t, j) <= 3)
      BY <2>1, <2>9
    <3>3. Before(t, i, j) \/ Before(t, j, i)
      BY <3>1, BeforeIsOrder DEF IsOrderOn, BeforeOn
    <3>4. ~Before(t, j, i)
      BY <3>1, <3>2, RankFollowsOrder
    <3> QED
      BY <3>3, <3>4
  <2>10. \E i \in S : Rank(a, t, i) = 1
    BY <2>3, <2>8
  <2> QED
    BY <1>4, <2>7, <2>8, <2>9, <2>10
<1> QED
  BY <1>3, <1>4

(***************************************************************************)
(* The invariant                                                           *)
(***************************************************************************)
LEMMA InitInv == Init => IInv
  BY DEF Init, IInv, TypeOK, RunInv

LEMMA DeployKeepsInv ==
  ASSUME IInv, NEW p \in Processes, NEW t \in Tables, Deploy(p, t)
  PROVE  IInv'
<1>1. loaded' \in [Processes -> Tables]
  BY DEF IInv, TypeOK, Deploy
<1> QED
  BY <1>1 DEF IInv, TypeOK, RunInv, Deploy

LEMMA DecideKeepsInv ==
  ASSUME IInv, NEW a \in Applications, Decide(a)
  PROVE  IInv'
<1> DEFINE t == loaded["app"]
<1>1. t \in Tables
  BY GuidanceAssumption DEF IInv, TypeOK
<1>2. application' = a /\ decision' = Decision(a, t)
  BY DEF Decide
<1>3. application' # NoValue /\ decision' # NoValue
  BY <1>1, <1>2, GuidanceAssumption
<1>4. decision'.version = t
  BY <1>2 DEF Decision
<1>5. run = NoValue /\ run' = NoValue
  BY DEF Decide, IInv, TypeOK, RunInv
<1>6. loaded' = loaded
  BY DEF Decide
<1> HIDE DEF t
<1> QED
  BY <1>1, <1>2, <1>3, <1>4, <1>5, <1>6 DEF IInv, TypeOK, RunInv

LEMMA ExplainKeepsInv ==
  ASSUME IInv, NEW p \in Processes, NEW x \in Texts, Explain(p, x)
  PROVE  IInv'
<1> DEFINE text == WithDisclaimer(x)
           checks == Checks(text, application, loaded[p])
<1>1. text.disclaimer
  BY GuidanceAssumption DEF WithDisclaimer
<1>2. run' = [text |-> text, checks |-> checks, scoredBy |-> loaded[p],
              passed |-> ScoredMetrics \subseteq checks]
  BY DEF Explain
<1>3. checks \subseteq Metrics
  BY DEF Checks
<1>4. loaded[p] \in Tables
  BY DEF IInv, TypeOK
<1>5. decision # NoValue /\ UNCHANGED <<loaded, application, decision>>
  BY DEF Explain
<1>6. checks = Checks(text, application, loaded[p])
  OBVIOUS
<1> HIDE DEF text, checks
<1>7. /\ run'.text = text /\ run'.checks = checks /\ run'.scoredBy = loaded[p]
      /\ run'.passed = (ScoredMetrics \subseteq checks)
  BY <1>2
<1>8. TypeOK'
  <2>1. run'.passed \in BOOLEAN
    BY <1>7
  <2> QED
    BY <1>3, <1>4, <1>5, <1>7, <2>1 DEF IInv, TypeOK
<1>9. RunInv'
  BY <1>1, <1>5, <1>6, <1>7 DEF RunInv
<1> QED
  BY <1>8, <1>9 DEF IInv

LEMMA Invariance == Spec => []IInv
<1>1. ASSUME IInv, [Next]_vars
      PROVE  IInv'
  <2>1. ASSUME NEW p \in Processes, NEW t \in Tables, Deploy(p, t)
        PROVE  IInv'
    BY <1>1, <2>1, DeployKeepsInv
  <2>2. ASSUME NEW a \in Applications, Decide(a)
        PROVE  IInv'
    BY <1>1, <2>2, DecideKeepsInv
  <2>3. ASSUME NEW p \in Processes, NEW x \in Texts, Explain(p, x)
        PROVE  IInv'
    BY <1>1, <2>3, ExplainKeepsInv
  <2>4. CASE UNCHANGED vars
    BY <1>1, <2>4 DEF vars, IInv, TypeOK, RunInv
  <2> QED
    BY <1>1, <2>1, <2>2, <2>3, <2>4 DEF Next
<1> QED
  BY <1>1, InitInv, PTL DEF Spec

(* What the invariant says of a stored decision.                           *)
LEMMA StoredDecision ==
  ASSUME IInv, decision # NoValue
  PROVE  /\ application \in Applications /\ decision.version \in Tables
         /\ decision.verdict = Verdict(application, decision.version)
         /\ decision.band = Band(application)
         /\ decision.dsr = Dsr(application)
         /\ decision.ranked = Decision(application, decision.version).ranked
         /\ decision.ranked =
                {[rank |-> Rank(application, decision.version, i), product |-> decision.version[i]] :
                    i \in Shortlist(application, decision.version)}
<1>1. /\ application \in Applications /\ decision.version \in Tables
      /\ decision = Decision(application, decision.version)
  BY DEF IInv, TypeOK
<1> DEFINE t == decision.version
<1>2. decision = Decision(application, t)
  BY <1>1
<1> HIDE DEF t
<1>3. /\ decision.verdict = Verdict(application, t)
      /\ decision.band = Band(application)
      /\ decision.dsr = Dsr(application)
      /\ decision.ranked = Decision(application, t).ranked
      /\ decision.ranked = {[rank |-> Rank(application, t, i), product |-> t[i]] :
                               i \in Shortlist(application, t)}
  BY <1>2 DEF Decision
<1> QED
  BY <1>1, <1>3 DEF t

(***************************************************************************)
(* The theorems                                                            *)
(***************************************************************************)

(* The band means the burden: on its side of every limit as it is rounded  *)
(* for the reader, and the same for a debt owed as for one applied for.    *)
THEOREM BandMeansBurden == Spec => []BandIsOfTheBurden
<1>1. ASSUME IInv PROVE BandWithinRounding
  BY <1>1, StoredDecision, BandKeepsRounding DEF BandWithinRounding
<1>2. ASSUME IInv PROVE NewLoanWeighsAsDebt
  <2> SUFFICES ASSUME decision # NoValue, NEW b \in Applications, SameBurden(application, b)
               PROVE  decision.band = Band(b)
    BY DEF NewLoanWeighsAsDebt
  <2>1. decision.band = Band(application)
    BY <1>2, StoredDecision
  <2>2. application.income = b.income /\ Payment(application) = Payment(b)
    BY DEF SameBurden, Payment
  <2> QED
    BY <2>1, <2>2 DEF Band
<1>3. IInv => BandIsOfTheBurden
  BY <1>1, <1>2 DEF BandIsOfTheBurden
<1> QED
  BY <1>3, Invariance, PTL

(* Asking for more with less never gets a better verdict.                  *)
THEOREM WeakerIsNeverBetter == Spec => []WeakerNeverBetter
<1>1. IInv => WeakerNeverBetter
  BY StoredDecision, WeakerVerdictNoBetter DEF WeakerNeverBetter
<1> QED
  BY <1>1, Invariance, PTL

(* The shortlist is the best of what is eligible, in order and numbered    *)
(* without gap or tie, so the unique index on the ranks holds.             *)
THEOREM ShortlistIsAlwaysBest == Spec => []ShortlistIsBest
<1>1. ASSUME IInv, decision # NoValue
      PROVE  LET t == decision.version
                 S == Shortlist(application, t)
             IN  /\ \A i \in S, j \in Eligible(application, t) \ S : Before(t, i, j)
                 /\ {r.rank : r \in decision.ranked} = 1..Cardinality(S)
                 /\ decision.verdict # "INELIGIBLE" => decision.ranked # {}
  <2> DEFINE t == decision.version
             S == Shortlist(application, t)
             Ranks == {Rank(application, t, i) : i \in S}
             Ranked == {[rank |-> Rank(application, t, i), product |-> t[i]] : i \in S}
  <2>1. /\ application \in Applications /\ t \in Tables
        /\ decision.verdict = Verdict(application, t)
        /\ decision.ranked = Ranked
    BY <1>1, StoredDecision
  <2>2. {r.rank : r \in Ranked} = Ranks
    <3>1. ASSUME NEW r \in Ranked PROVE r.rank \in Ranks
      OBVIOUS
    <3>2. ASSUME NEW i \in S
          PROVE  \E r \in Ranked : r.rank = Rank(application, t, i)
      <4> DEFINE r == [rank |-> Rank(application, t, i), product |-> t[i]]
      <4>1. r \in Ranked /\ r.rank = Rank(application, t, i)
        OBVIOUS
      <4> QED
        BY <4>1
    <3>3. \A k \in Ranks : \E r \in Ranked : r.rank = k
      BY <3>2
    <3> HIDE DEF Ranked, Ranks
    <3> QED
      BY <3>1, <3>3
  <2>3. Ranks = 1..Cardinality(S)
    BY <2>1, ShortlistNumbered
  <2>4. Verdict(application, t) # "INELIGIBLE" => S # {}
    BY <2>1, ShortlistNumbered
  <2>5. S # {} => Ranked # {}
    OBVIOUS
  <2>6. \A i \in S, j \in Eligible(application, t) \ S : Before(t, i, j)
    BY <2>1, ShortlistNumbered
  <2> HIDE DEF Ranked, Ranks, S
  <2>7. {r.rank : r \in decision.ranked} = 1..Cardinality(S)
    BY <2>1, <2>2, <2>3
  <2> QED
    BY <2>1, <2>4, <2>5, <2>6, <2>7 DEF S
<1>2. IInv => ShortlistIsBest
  BY <1>1 DEF ShortlistIsBest
<1> QED
  BY <1>2, Invariance, PTL

(* Everything published agrees with the stored decision when the table has *)
(* not changed, and is cautious under any table.                           *)
THEOREM PublicationIsSound == Spec => []PublicationSound
<1>1. ASSUME IInv, Published, run.scoredBy = decision.version
      PROVE  /\ VerdictHolds(run.text, decision.verdict)
             /\ RecommendationHolds(run.text, decision.ranked, Codes(decision.version))
             /\ NumbersHold(run.text, decision.ranked, decision.dsr, application)
  <2> DEFINE d == Decision(application, run.scoredBy)
  <2>1. run # NoValue /\ decision # NoValue /\ ScoredMetrics \subseteq run.checks
        /\ run.checks = Checks(run.text, application, run.scoredBy)
    BY <1>1 DEF IInv, RunInv, Published
  <2>2. decision = d
    BY <1>1, <2>1 DEF IInv, TypeOK
  <2>3. ScoredMetrics \subseteq Checks(run.text, application, run.scoredBy)
    BY <2>1
  <2>4. /\ VerdictHolds(run.text, d.verdict)
        /\ RecommendationHolds(run.text, d.ranked, Codes(run.scoredBy))
        /\ NumbersHold(run.text, d.ranked, d.dsr, application)
    <3> HIDE DEF d
    <3> QED
      BY <2>3 DEF Checks, ScoredMetrics, Metrics, d
  <2> QED
    BY <1>1, <2>2, <2>4
<1>2. ASSUME IInv, Published
      PROVE  /\ run.text.disclaimer /\ ~run.text.definitive
             /\ "reject" \in run.text.says => "difficult" \in run.text.says
  <2> DEFINE d == Decision(application, run.scoredBy)
  <2>1. /\ run.text.disclaimer
        /\ ScoredMetrics \subseteq Checks(run.text, application, run.scoredBy)
    BY <1>2 DEF IInv, RunInv, Published
  <2>2. ~run.text.definitive /\ VerdictHolds(run.text, d.verdict)
    BY <2>1 DEF Checks, ScoredMetrics, Metrics
  <2> HIDE DEF d
  <2>3. "reject" \in run.text.says => Word(d.verdict) = "difficult"
    BY <2>2 DEF VerdictHolds, Word
  <2> QED
    BY <2>1, <2>2, <2>3 DEF VerdictHolds
<1>3. ASSUME IInv, decision # NoValue
      PROVE  /\ decision.verdict = "INELIGIBLE" => decision.ranked = {}
             /\ decision.verdict # "INELIGIBLE" => \E r \in decision.ranked : r.rank = 1
  <2> DEFINE t == decision.version
             S == Shortlist(application, t)
  <2>1. /\ application \in Applications /\ t \in Tables
        /\ decision.verdict = Verdict(application, t)
        /\ decision.ranked = {[rank |-> Rank(application, t, i), product |-> t[i]] : i \in S}
    BY <1>3, StoredDecision
  <2>2. /\ Verdict(application, t) = "INELIGIBLE" => S = {}
        /\ Verdict(application, t) # "INELIGIBLE" => \E i \in S : Rank(application, t, i) = 1
    BY <2>1, ShortlistNumbered
  <2>3. ASSUME NEW i \in S, Rank(application, t, i) = 1
        PROVE  \E r \in decision.ranked : r.rank = 1
    <3> DEFINE r == [rank |-> Rank(application, t, i), product |-> t[i]]
    <3>1. r \in decision.ranked /\ r.rank = 1
      BY <2>1, <2>3
    <3> QED
      BY <3>1
  <2>4. S = {} => decision.ranked = {}
    BY <2>1
  <2> HIDE DEF t, S
  <2> QED
    BY <2>1, <2>2, <2>3, <2>4
<1>4. ASSUME IInv PROVE PublishedAgrees
  <2> SUFFICES ASSUME Published, run.scoredBy = decision.version
               PROVE  /\ VerdictHolds(run.text, decision.verdict)
                      /\ decision.verdict = "INELIGIBLE" => run.text.cites \cap Codes(decision.version) = {}
                      /\ decision.verdict # "INELIGIBLE" =>
                            \E r \in decision.ranked : r.rank = 1 /\ r.product.code \in run.text.cites
                      /\ run.text.percents \subseteq GroundedPercents(decision.ranked, decision.dsr)
                      /\ run.text.wons \subseteq GroundedWons(decision.ranked, application)
    BY DEF PublishedAgrees
  <2>1. decision # NoValue
    BY <1>4 DEF IInv, RunInv, Published
  <2>2. /\ decision.verdict = "INELIGIBLE" => decision.ranked = {}
        /\ decision.verdict # "INELIGIBLE" => \E r \in decision.ranked : r.rank = 1
    BY <1>3, <1>4, <2>1
  <2>3. RecommendationHolds(run.text, decision.ranked, Codes(decision.version))
    BY <1>1, <1>4
  <2>4. /\ decision.verdict = "INELIGIBLE" => run.text.cites \cap Codes(decision.version) = {}
        /\ decision.verdict # "INELIGIBLE" =>
              \E r \in decision.ranked : r.rank = 1 /\ r.product.code \in run.text.cites
    BY <2>2, <2>3 DEF RecommendationHolds
  <2> QED
    BY <1>1, <1>4, <2>4 DEF NumbersHold
<1>5. IInv => PublicationSound
  BY <1>2, <1>4 DEF PublicationSound, PublishedIsCautious, IInv
<1> QED
  BY <1>5, Invariance, PTL

(* The scorer refuses no text that follows the stored decision, while the  *)
(* table is the one of the decision.                                       *)
THEOREM FaithfulTextsPass == Spec => []FaithfulPasses
<1>1. ASSUME IInv, run # NoValue, run.scoredBy = decision.version, Faithful(run.text, decision)
      PROVE  run.passed
  <2> DEFINE x == run.text
             d == Decision(application, run.scoredBy)
  <2>1. /\ decision # NoValue /\ x.disclaimer
        /\ run.checks = Checks(x, application, run.scoredBy)
        /\ run.passed <=> ScoredMetrics \subseteq run.checks
    BY <1>1 DEF IInv, RunInv
  <2>2. decision = d
    BY <1>1, <2>1 DEF IInv, TypeOK
  <2>3. Faithful(x, d)
    BY <1>1, <2>2
  <2> HIDE DEF x, d
  <2>4. VerdictHolds(x, d.verdict)
    BY <2>3 DEF Faithful, VerdictHolds, Word
  <2>5. RecommendationHolds(x, d.ranked, Codes(run.scoredBy))
    BY <2>3 DEF Faithful, RecommendationHolds
  <2>6. NumbersHold(x, d.ranked, d.dsr, application)
    BY <2>3 DEF Faithful, NumbersHold, GroundedWons
  <2>7. ~x.definitive
    BY <2>3 DEF Faithful
  <2>8. Checks(x, application, run.scoredBy) = Metrics
    BY <2>1, <2>4, <2>5, <2>6, <2>7 DEF Checks, Metrics, d
  <2> QED
    BY <2>1, <2>8 DEF ScoredMetrics
<1>2. IInv => FaithfulPasses
  BY <1>1 DEF FaithfulPasses
<1> QED
  BY <1>2, Invariance, PTL
=============================================================================
