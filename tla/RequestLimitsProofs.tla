------------------------ MODULE RequestLimitsProofs ------------------------
(***************************************************************************)
(* Theorems about RequestLimits, for any addresses, window, limit and      *)
(* resolution of the clock.                                                *)
(*                                                                         *)
(* IInv is inductive.  The log is in the order of time and never ahead of  *)
(* the clock; what lies before the head of a deque has expired; a deque    *)
(* holds at most MaxRequests hits.  So the entry of the log MaxRequests    *)
(* from its end is before the head exactly when one more may pass.         *)
(***************************************************************************)
EXTENDS RequestLimits, TLAPS

OrderInv(a) ==
    \A i \in 1..Len(log[a]) :
        /\ log[a][i] <= now
        /\ \A j \in i..Len(log[a]) : log[a][i] <= log[a][j]

HeadInv(a) ==
    /\ head[a] <= Len(log[a]) + 1
    /\ Len(log[a]) + 1 - head[a] <= MaxRequests
    /\ \A i \in 1..(head[a] - 1) : Expired(log[a][i])

(* A refusal names the hit it waits for, and its wait, rounded down to     *)
(* whole seconds, falls short by less than one.                            *)
Awaited(a) == Len(log[a]) + 1 - MaxRequests
AdviceInv(a) ==
    advice[a] # NoAdvice =>
        /\ advice[a].hits <= Len(log[a])
        /\ advice[a].hits = Len(log[a]) =>
            /\ Awaited(a) \in 1..Len(log[a])
            /\ log[a][Awaited(a)] + Window < advice[a].at + advice[a].wait + Second

WindowOf(a) ==
    \A i \in 1..Len(log[a]) :
        i + MaxRequests <= Len(log[a]) => log[a][i] + Window < log[a][i + MaxRequests]

AddressInv == \A a \in Addresses : OrderInv(a) /\ HeadInv(a) /\ AdviceInv(a) /\ WindowOf(a)

IInv == TypeOK /\ AddressInv

(***************************************************************************)
(* What popping and rounding do                                            *)
(***************************************************************************)

(* Of two hits the later one expires later.                                *)
LEMMA LaterExpiresLater ==
  ASSUME now \in Nat, NEW x \in Nat, NEW y \in Nat, x <= y, Expired(y)
  PROVE  Expired(x)
  BY LimitsAssumption DEF Expired

(* Everything before the place where popping stops has expired, nothing    *)
(* from there on has.                                                      *)
LEMMA PoppedSplits ==
  ASSUME TypeOK, AddressInv, NEW a \in Addresses,
         NEW h \in head[a] .. (Len(log[a]) + 1), PopsTo(a, h)
  PROVE  /\ h \in Nat \ {0}
         /\ \A i \in 1..(h - 1) : Expired(log[a][i])
         /\ \A i \in h..Len(log[a]) : ~Expired(log[a][i])
<1>1. log[a] \in Seq(0..MaxTime) /\ head[a] \in Nat \ {0} /\ Len(log[a]) \in Nat /\ now \in Nat
  BY LimitsAssumption DEF TypeOK
<1>2. h \in Nat \ {0}
  BY <1>1
<1>3. \A i \in 1..Len(log[a]) : log[a][i] \in Nat
  BY <1>1, LimitsAssumption
<1>4. \A i \in 1..(h - 1) : Expired(log[a][i])
  BY <1>1, <1>2 DEF PopsTo, AddressInv, HeadInv
<1>5. ASSUME NEW i \in h..Len(log[a]) PROVE ~Expired(log[a][i])
  <2>1. log[a][h] <= log[a][i] /\ ~Expired(log[a][h])
    BY <1>1, <1>2 DEF PopsTo, AddressInv, OrderInv
  <2>2. log[a][h] \in Nat /\ log[a][i] \in Nat
    BY <1>1, <1>2, <1>3
  <2> QED BY <1>1, <2>1, <2>2, LaterExpiresLater
<1> QED BY <1>2, <1>4, <1>5

(* Whole seconds fall short by less than one.                              *)
LEMMA RoundedDown ==
  ASSUME NEW x \in Nat, NEW s \in Nat \ {0}
  PROVE  x \div s \in Nat /\ x < (x \div s) * s + s
  OBVIOUS

(* A refusal waits for the entry MaxRequests from the end of the log.      *)
LEMMA RefusalAwaits ==
  ASSUME TypeOK, AddressInv, NEW a \in Addresses,
         NEW h \in head[a] .. (Len(log[a]) + 1), Refuse(a, h)
  PROVE  /\ h = Awaited(a) /\ h \in 1..Len(log[a])
         /\ log[a][h] \in Nat /\ now <= log[a][h] + Window
         /\ RetryAfter(a, h) * Second \in Nat
         /\ log[a][h] + Window < now + RetryAfter(a, h) * Second + Second
<1>1. log[a] \in Seq(0..MaxTime) /\ head[a] \in Nat \ {0} /\ Len(log[a]) \in Nat /\ now \in Nat
  BY LimitsAssumption DEF TypeOK
<1>2. PopsTo(a, h) /\ AtLimit(a, h)
  BY DEF Refuse
<1>3. h = Awaited(a) /\ h \in 1..Len(log[a])
  <2>1. Len(log[a]) + 1 - h >= MaxRequests /\ MaxRequests \in Nat \ {0}
    BY <1>2, LimitsAssumption DEF AtLimit
  <2>2. Len(log[a]) + 1 - head[a] <= MaxRequests
    BY DEF AddressInv, HeadInv
  <2>3. h \in Nat \ {0} /\ head[a] <= h
    BY <1>1
  <2> QED BY <1>1, <2>1, <2>2, <2>3 DEF Awaited
<1>4. log[a][h] \in Nat
  BY <1>1, <1>3, LimitsAssumption
<1>5. now <= log[a][h] + Window
  BY <1>1, <1>2, <1>3, <1>4, LimitsAssumption DEF PopsTo, Expired
<1> DEFINE left == log[a][h] + Window - now
           secs == left \div Second
<1>6. left \in Nat
  BY <1>1, <1>4, <1>5, LimitsAssumption
<1>7. secs \in Nat /\ left < secs * Second + Second
  BY <1>6, RoundedDown, LimitsAssumption
<1>8. RetryAfter(a, h) = IF secs > 1 THEN secs ELSE 1
  BY DEF RetryAfter
<1> HIDE DEF secs
<1>9. RetryAfter(a, h) \in Nat /\ RetryAfter(a, h) * Second >= secs * Second
  <2>1. CASE secs > 1
    BY <1>7, <1>8, <2>1, LimitsAssumption
  <2>2. CASE secs = 1 \/ secs = 0
    BY <1>7, <1>8, <2>2, LimitsAssumption
  <2> QED BY <1>7, <2>1, <2>2
<1>10. RetryAfter(a, h) * Second \in Nat /\ secs * Second \in Nat
  BY <1>7, <1>9, LimitsAssumption
<1> DEFINE told == RetryAfter(a, h) * Second
           full == secs * Second
<1>11. told \in Nat /\ full \in Nat /\ told >= full /\ left < full + Second
  BY <1>7, <1>9, <1>10
<1> HIDE DEF told, full
<1>12. log[a][h] + Window < now + told + Second
  <2>1. Window \in Nat /\ Second \in Nat /\ now \in Nat
    BY <1>1, LimitsAssumption
  <2> QED BY <1>4, <1>11, <2>1
<1> QED BY <1>3, <1>4, <1>5, <1>10, <1>12 DEF told

(***************************************************************************)
(* Invariance                                                              *)
(***************************************************************************)

LEMMA ObjectionCodes == \A q \in Requests : Objection(q) \in Codes
  BY DEF Objection, Codes

LEMMA TypeStep == ASSUME TypeOK, AddressInv, [Next]_vars PROVE TypeOK'
<1> USE LimitsAssumption DEF TypeOK
<1>1. ASSUME NEW q \in Requests, Object(q) \/ PassFreely(q) PROVE TypeOK'
  BY <1>1, ObjectionCodes DEF Object, PassFreely, Codes
<1>2. ASSUME NEW a \in Addresses, NEW h \in head[a] .. (Len(log[a]) + 1), Admit(a, h)
      PROVE TypeOK'
  <2>1. h \in Nat \ {0} /\ log[a] \in Seq(0..MaxTime) /\ Append(log[a], now) \in Seq(0..MaxTime)
    BY <1>2, PoppedSplits DEF Admit
  <2> QED BY <1>2, <2>1 DEF Admit, Codes
<1>3. ASSUME NEW a \in Addresses, NEW h \in head[a] .. (Len(log[a]) + 1), Refuse(a, h)
      PROVE TypeOK'
  <2>1. h \in Nat \ {0} /\ RetryAfter(a, h) * Second \in Nat /\ Len(log[a]) \in Nat
    <3>1. TypeOK /\ Refuse(a, h) /\ PopsTo(a, h)
      BY <1>3 DEF Refuse
    <3> HIDE DEF TypeOK
    <3>2. h \in Nat \ {0} /\ RetryAfter(a, h) * Second \in Nat
      BY <3>1, PoppedSplits, RefusalAwaits
    <3> QED BY <3>1, <3>2 DEF TypeOK
  <2> QED BY <1>3, <2>1 DEF Refuse, Codes
<1>4. CASE Tick
  BY <1>4 DEF Tick
<1>5. CASE Restart
  BY <1>5 DEF Restart, NoAdvice
<1>6. CASE UNCHANGED vars
  BY <1>6 DEF vars
<1> QED BY <1>1, <1>2, <1>3, <1>4, <1>5, <1>6 DEF Next, Arrive, RateLimited

(* An admitted hit: one address grows by the present time.                 *)
LEMMA AdmitStep ==
  ASSUME TypeOK, AddressInv, NEW a \in Addresses,
         NEW h \in head[a] .. (Len(log[a]) + 1), Admit(a, h)
  PROVE  AddressInv'
<1>1. log[a] \in Seq(0..MaxTime) /\ Len(log[a]) \in Nat /\ now \in 0..MaxTime /\ now \in Nat
  BY LimitsAssumption DEF TypeOK
<1> DEFINE n == Len(log[a])
<1>2. /\ h \in 1..(n + 1) /\ n + 1 - h < MaxRequests
      /\ \A i \in 1..(h - 1) : Expired(log[a][i])
  BY <1>1, PoppedSplits, LimitsAssumption DEF Admit, AtLimit
<1>3. /\ log'[a] = Append(log[a], now) /\ Len(log'[a]) = n + 1
      /\ \A i \in 1..n : log'[a][i] = log[a][i] /\ log[a][i] \in Nat
      /\ log'[a][n + 1] = now
      /\ head'[a] = h /\ now' = now /\ advice'[a] = advice[a]
  BY <1>1, LimitsAssumption DEF Admit, TypeOK
<1>4. OrderInv(a) /\ HeadInv(a) /\ AdviceInv(a) /\ WindowOf(a)
  BY DEF AddressInv
<1>5. OrderInv(a)'
  BY <1>1, <1>3, <1>4 DEF OrderInv
<1>6. HeadInv(a)'
  BY <1>1, <1>2, <1>3, LimitsAssumption DEF HeadInv, Expired
<1>7. AdviceInv(a)'
  <2>1. advice[a].hits \in Nat
    BY DEF TypeOK
  <2> QED BY <1>1, <1>3, <1>4, <2>1 DEF AdviceInv
<1>8. WindowOf(a)'
  <2> SUFFICES ASSUME NEW i \in 1..(n + 1), i + MaxRequests <= n + 1
               PROVE  log'[a][i] + Window < log'[a][i + MaxRequests]
    BY <1>3 DEF WindowOf
  <2>1. i \in 1..n
    BY <1>1, LimitsAssumption
  <2>2. CASE i + MaxRequests <= n
    BY <1>1, <1>3, <1>4, <2>1, <2>2, LimitsAssumption DEF WindowOf
  <2>3. CASE i + MaxRequests = n + 1
    <3>1. Expired(log[a][i]) /\ i + MaxRequests = n + 1
      BY <1>1, <1>2, <2>1, <2>3, LimitsAssumption
    <3>2. log'[a][i] = log[a][i] /\ log'[a][n + 1] = now
      BY <1>3, <2>1
    <3> QED BY <3>1, <3>2 DEF Expired
  <2>4. n \in Nat /\ i \in Nat /\ MaxRequests \in Nat
    BY <1>1, LimitsAssumption
  <2>5. i + MaxRequests <= n \/ i + MaxRequests = n + 1
    BY <2>4
  <2> QED BY <2>2, <2>3, <2>5
<1>9. ASSUME NEW b \in Addresses, b # a
      PROVE  OrderInv(b)' /\ HeadInv(b)' /\ AdviceInv(b)' /\ WindowOf(b)'
  <2>1. log'[b] = log[b] /\ head'[b] = head[b] /\ advice'[b] = advice[b] /\ now' = now
    BY <1>9 DEF Admit, TypeOK
  <2> QED BY <2>1 DEF AddressInv, OrderInv, HeadInv, AdviceInv, WindowOf, Awaited, Expired
<1> QED BY <1>5, <1>6, <1>7, <1>8, <1>9 DEF AddressInv

(* A refusal: the deque of one address is cut, and its advice is new.      *)
LEMMA RefuseStep ==
  ASSUME TypeOK, AddressInv, NEW a \in Addresses,
         NEW h \in head[a] .. (Len(log[a]) + 1), Refuse(a, h)
  PROVE  AddressInv'
<1>1. Len(log[a]) \in Nat /\ now \in Nat /\ log' = log /\ now' = now
  BY LimitsAssumption DEF TypeOK, Refuse
<1>2. /\ head'[a] = h
      /\ advice'[a] = [at |-> now, hits |-> Len(log[a]), wait |-> RetryAfter(a, h) * Second]
  BY DEF TypeOK, Refuse
<1>3. \A b \in Addresses : OrderInv(b)' /\ WindowOf(b)'
  BY <1>1 DEF AddressInv, OrderInv, WindowOf
<1>4. HeadInv(a)'
  <2>1. PopsTo(a, h) /\ h \in Nat \ {0} /\ h <= Len(log[a]) + 1 /\ head[a] \in Nat /\ head[a] <= h
    BY <1>1, RefusalAwaits DEF Refuse, TypeOK
  <2>2. \A i \in 1..(h - 1) : Expired(log[a][i])
    BY <2>1, PoppedSplits
  <2>3. (\A i \in 1..(h - 1) : Expired(log[a][i]))'
    BY <1>1, <2>2 DEF Expired
  <2>4. Len(log[a]) + 1 - h <= MaxRequests
    <3>1. h = Len(log[a]) + 1 - MaxRequests
      BY RefusalAwaits DEF Awaited
    <3>2. MaxRequests \in Nat
      BY LimitsAssumption
    <3> QED BY <1>1, <3>1, <3>2
  <2> QED BY <1>1, <1>2, <2>1, <2>3, <2>4 DEF HeadInv
<1>5. AdviceInv(a)'
  BY <1>1, <1>2, RefusalAwaits DEF AdviceInv, Awaited
<1>6. ASSUME NEW b \in Addresses, b # a PROVE HeadInv(b)' /\ AdviceInv(b)'
  <2>1. head'[b] = head[b] /\ advice'[b] = advice[b]
    BY <1>6 DEF Refuse, TypeOK
  <2> QED BY <1>1, <2>1 DEF AddressInv, HeadInv, AdviceInv, Awaited, Expired
<1> QED BY <1>3, <1>4, <1>5, <1>6 DEF AddressInv

LEMMA AddressStep == ASSUME TypeOK, AddressInv, [Next]_vars PROVE AddressInv'
<1>1. ASSUME UNCHANGED <<now, log, head, advice>> PROVE AddressInv'
  BY <1>1 DEF AddressInv, OrderInv, HeadInv, AdviceInv, WindowOf, Awaited, Expired
<1>2. ASSUME NEW q \in Requests, Arrive(q) PROVE AddressInv'
  BY <1>1, <1>2, AdmitStep, RefuseStep DEF Arrive, Object, PassFreely, RateLimited
<1>3. CASE Tick
  <2>1. now' = now + 1 /\ now \in Nat /\ UNCHANGED <<log, head, advice>>
    BY <1>3, LimitsAssumption DEF Tick, TypeOK
  <2>2. \A a \in Addresses : \A i \in 1..Len(log[a]) : log[a][i] \in Nat
    BY LimitsAssumption DEF TypeOK
  <2>3. \A a \in Addresses : OrderInv(a)' /\ AdviceInv(a)' /\ WindowOf(a)'
    BY <2>1, <2>2 DEF AddressInv, OrderInv, AdviceInv, WindowOf, Awaited
  <2>4. ASSUME NEW a \in Addresses PROVE HeadInv(a)'
    <3>1. HeadInv(a) /\ Len(log[a]) \in Nat /\ head[a] \in Nat \ {0}
      BY DEF AddressInv, TypeOK
    <3>2. \A i \in 1..(head[a] - 1) : log[a][i] \in Nat
      BY <2>2, <3>1 DEF HeadInv
    <3>3. ASSUME NEW i \in 1..(head[a] - 1) PROVE Expired(log[a][i])'
      <4>1. log[a][i] + Window < now /\ log[a][i] \in Nat
        BY <3>1, <3>2 DEF HeadInv, Expired
      <4>2. Window \in Nat
        BY LimitsAssumption
      <4> QED BY <2>1, <4>1, <4>2 DEF Expired
    <3> QED BY <2>1, <3>1, <3>3 DEF HeadInv
  <2> QED BY <2>3, <2>4 DEF AddressInv
<1>4. CASE Restart
  <2>1. \A a \in Addresses : log'[a] = <<>> /\ head'[a] = 1 /\ advice'[a] = NoAdvice
    BY <1>4 DEF Restart
  <2> QED BY <2>1, LimitsAssumption DEF AddressInv, OrderInv, HeadInv, AdviceInv, WindowOf
<1>5. CASE UNCHANGED vars
  BY <1>1, <1>5 DEF vars
<1> QED BY <1>2, <1>3, <1>4, <1>5 DEF Next

(* The inductive invariant of the middleware (_rate_limited).              *)
THEOREM LimitsInvariant == Spec => []IInv
<1>1. Init => IInv
  BY LimitsAssumption DEF Init, IInv, TypeOK, AddressInv, OrderInv, HeadInv, AdviceInv, WindowOf,
                          Codes, NoAdvice
<1>2. IInv /\ [Next]_vars => IInv'
  BY TypeStep, AddressStep DEF IInv
<1> QED BY <1>1, <1>2, PTL DEF Spec

(* The state of the middleware stays well typed.                           *)
THEOREM LimitsTypes == Spec => []TypeOK
<1>1. IInv => TypeOK
  BY DEF IInv
<1> QED BY <1>1, LimitsInvariant, PTL

(* Between two restarts no window of time holds more than MaxRequests      *)
(* admitted requests of an address (_rate_limited).                        *)
THEOREM WindowIsBounded == Spec => []WindowBound
<1>1. IInv => WindowBound
  BY DEF IInv, AddressInv, WindowOf, WindowBound
<1> QED BY <1>1, LimitsInvariant, PTL

(* The bound with the types of what keeps it (_rate_limited).              *)
THEOREM DequeIsSound == Spec => []WindowSound
<1>1. TypeOK /\ WindowBound => WindowSound
  BY DEF WindowSound
<1> QED BY <1>1, LimitsTypes, WindowIsBounded, PTL

(* A client that waits a second longer than Retry-After says is not        *)
(* refused again unless its address was admitted in between.               *)
THEOREM WaitSufficesButASecond == Spec => WaitPlusASecond
<1> DEFINE Step ==
      \A a \in Addresses :
        /\ advice[a] # NoAdvice /\ advice'[a] # advice[a] /\ advice'[a] # NoAdvice
        /\ Len(log[a]) = advice[a].hits
        => now < advice[a].at + advice[a].wait + Second
<1>1. IInv /\ [Next]_vars => [Step]_vars
  <2> SUFFICES ASSUME TypeOK, AddressInv, Next,
                      NEW a \in Addresses,
                      advice[a] # NoAdvice, advice'[a] # advice[a], advice'[a] # NoAdvice,
                      Len(log[a]) = advice[a].hits
               PROVE  now < advice[a].at + advice[a].wait + Second
    BY DEF IInv
  <2>1. PICK h \in head[a] .. (Len(log[a]) + 1) : Refuse(a, h)
    <3>1. ~Tick /\ ~Restart
      BY DEF Tick, Restart
    <3>2. PICK b \in Addresses : \E h \in head[b] .. (Len(log[b]) + 1) : Refuse(b, h)
      BY <3>1 DEF Next, Arrive, Object, PassFreely, RateLimited, Admit
    <3>3. b = a
      BY <3>2 DEF Refuse, TypeOK
    <3> QED BY <3>2, <3>3
  <2>2. log[a][Awaited(a)] \in Nat /\ now <= log[a][Awaited(a)] + Window
    BY <2>1, RefusalAwaits
  <2>3. log[a][Awaited(a)] + Window < advice[a].at + advice[a].wait + Second
    BY DEF AddressInv, AdviceInv
  <2>4. now \in Nat /\ advice[a].at \in Nat /\ advice[a].wait \in Nat
    BY LimitsAssumption DEF TypeOK
  <2>5. Window \in Nat /\ Second \in Nat
    BY LimitsAssumption
  <2> DEFINE hit == log[a][Awaited(a)]
             at == advice[a].at
             wait == advice[a].wait
  <2>6. /\ hit \in Nat /\ at \in Nat /\ wait \in Nat
        /\ now <= hit + Window /\ hit + Window < at + wait + Second
    BY <2>2, <2>3, <2>4
  <2> HIDE DEF hit, at, wait
  <2>7. now < at + wait + Second
    BY <2>4, <2>5, <2>6
  <2> QED BY <2>7 DEF at, wait
<1> QED BY <1>1, LimitsInvariant, PTL DEF Spec, WaitPlusASecond

(***************************************************************************)
(* Refinement of WindowLimit                                               *)
(***************************************************************************)

(* Popping decides what the log decides.                                   *)
LEMMA DequeDecides ==
  ASSUME TypeOK, AddressInv, NEW a \in Addresses,
         NEW h \in head[a] .. (Len(log[a]) + 1), PopsTo(a, h)
  PROVE  L!Full(a) <=> AtLimit(a, h)
<1> DEFINE n == Len(log[a])
           k == n + 1 - MaxRequests
<1>1. n \in Nat /\ now \in Nat /\ h \in Nat \ {0} /\ h <= n + 1
  BY PoppedSplits, LimitsAssumption DEF TypeOK
<1>2. \A i \in 1..n : log[a][i] \in Nat
  BY LimitsAssumption DEF TypeOK
<1>3. AtLimit(a, h) <=> h <= k
  BY <1>1, LimitsAssumption DEF AtLimit
<1>4. L!Full(a) <=> n >= MaxRequests /\ ~(log[a][k] + Window < now)
  <2>1. n >= MaxRequests => log[a][k] \in Nat
    <3>1. n >= MaxRequests => k \in 1..n
      BY <1>1, LimitsAssumption
    <3> QED BY <1>2, <3>1
  <2> QED BY <1>1, <2>1, LimitsAssumption DEF L!Full
<1>5. CASE h <= k
  <2>1. n >= MaxRequests /\ k \in h..n
    BY <1>1, <1>5, LimitsAssumption
  <2>2. ~Expired(log[a][k])
    BY <2>1, PoppedSplits
  <2>3. log[a][k] \in Nat /\ ~(log[a][k] + Window < now)
    BY <1>1, <1>2, <2>1, <2>2 DEF Expired
  <2> QED BY <1>3, <1>5, <1>4, <2>1, <2>3
<1>6. CASE ~(h <= k)
  <2>1. n >= MaxRequests => k \in 1..(h - 1)
    BY <1>1, <1>6, LimitsAssumption
  <2>2. n >= MaxRequests => Expired(log[a][k])
    BY <2>1, PoppedSplits
  <2>3. n >= MaxRequests => log[a][k] + Window < now
    BY <2>2 DEF Expired
  <2> QED BY <1>3, <1>6, <1>4, <2>3
<1> QED BY <1>5, <1>6

Refusals == [a \in Addresses |-> <<advice[a].at, advice[a].hits>>]

LEMMA LimitStep == ASSUME TypeOK, AddressInv, [Next]_vars PROVE [L!Next]_(L!vars)
<1>1. ASSUME UNCHANGED <<now, log, advice>> PROVE UNCHANGED L!vars
  BY <1>1 DEF L!vars
<1>2. ASSUME NEW a \in Addresses, NEW h \in head[a] .. (Len(log[a]) + 1), Admit(a, h)
      PROVE L!Next
  <2>1. ~L!Full(a)
    BY <1>2, DequeDecides DEF Admit
  <2> QED BY <1>2, <2>1 DEF Admit, L!Admit, L!Next
<1>3. ASSUME NEW a \in Addresses, NEW h \in head[a] .. (Len(log[a]) + 1), Refuse(a, h)
      PROVE L!Next
  <2>1. L!Full(a)
    BY <1>3, DequeDecides DEF Refuse
  <2>2. Refusals' = [Refusals EXCEPT ![a] = <<now, Len(log[a])>>]
    BY <1>3 DEF Refuse, Refusals, TypeOK
  <2>3. L!Refuse(a)
    BY <1>3, <2>1, <2>2 DEF Refuse, L!Refuse, Refusals
  <2> QED BY <2>3 DEF L!Next
<1>4. CASE Tick
  BY <1>4 DEF Tick, L!Tick, L!Next
<1>5. CASE Restart
  <2>1. Refusals' = [a \in Addresses |-> L!Never]
    BY <1>5 DEF Restart, Refusals, NoAdvice, L!Never
  <2> QED BY <1>5, <2>1 DEF Restart, Refusals, L!Forget, L!Next
<1>6. ASSUME NEW q \in Requests, Object(q) \/ PassFreely(q) PROVE UNCHANGED L!vars
  BY <1>1, <1>6 DEF Object, PassFreely
<1>7. CASE UNCHANGED vars
  BY <1>1, <1>7 DEF vars
<1> QED BY <1>2, <1>3, <1>4, <1>5, <1>6, <1>7 DEF Next, Arrive, RateLimited

(* The middleware is the sliding window over the whole history.            *)
THEOREM LimitsImplementWindow == Spec => LimitRefined
<1>1. Init => L!Init
  BY DEF Init, L!Init, NoAdvice, L!Never
<1>2. IInv /\ [Next]_vars => [L!Next]_(L!vars)
  BY LimitStep DEF IInv
<1> QED BY <1>1, <1>2, LimitsInvariant, PTL DEF Spec, LimitRefined, L!Spec

=============================================================================
