--------------------------- MODULE RequestLimits ---------------------------
(***************************************************************************)
(* The request limits in front of the API: loan_agent/api/limits.py.  Body *)
(* size, media type and the sliding window over requests that may spend    *)
(* tokens, in the order in which the middleware asks for them.             *)
(*                                                                         *)
(* The middleware runs on the event loop and awaits nothing between        *)
(* reading the clock and appending the hit, so one request is one action.  *)
(* The deque of an address is the part of `log' from `head' on: popleft    *)
(* moves the head, append extends the log, and what lies before the head   *)
(* is history that no action reads.                                        *)
(*                                                                         *)
(* Time is the monotonic clock in ticks, Second of them to a second: the   *)
(* code computes in fractions and answers in whole seconds.                *)
(***************************************************************************)
EXTENDS Naturals, Sequences

CONSTANTS
    Addresses,      \* client addresses
    Window,         \* RATE_LIMIT_WINDOW_SEC, in ticks
    MaxRequests,    \* RATE_LIMIT_MAX_REQUESTS
    Second,         \* ticks of one second
    MaxTime         \* bound: the clock stops here

ASSUME LimitsAssumption ==
    /\ Window \in Nat
    /\ MaxRequests \in Nat \ {0}
    /\ Second \in Nat \ {0}
    /\ MaxTime \in Nat

VARIABLES
    now,
    log, head,  \* the hits of each address, and the first one still in its deque
    answer,     \* what the last request met
    advice      \* the time and the log length of its last 429, with the wait it was told

vars == <<now, log, head, answer, advice>>

(***************************************************************************)
(* What a request looks like to the middleware                             *)
(***************************************************************************)
(* "absent" and "chunked" have no Content-Length; the latter says that the *)
(* transfer is chunked, which is only looked at then.                      *)
Lengths  == {"absent", "chunked", "unreadable", "zero", "some", "over"}
Requests == [length : Lengths, json : BOOLEAN, post : BOOLEAN, tokenPath : BOOLEAN]

Codes    == {"none", "passed", "400", "413", "415", "429"}
NoAdvice == [at |-> 0, hits |-> 0, wait |-> 0]

HasBody(q) == q.length \in {"some", "over", "chunked"}

(* The first objection of the two checks that keep no state.               *)
Objection(q) ==
    IF q.length = "unreadable" THEN "400"
    ELSE IF q.length = "over" THEN "413"
    ELSE IF HasBody(q) /\ ~q.json THEN "415"
    ELSE "none"

SpendsTokens(q) == q.post /\ q.tokenPath

TypeOK ==
    /\ now \in 0..MaxTime
    /\ log \in [Addresses -> Seq(0..MaxTime)]
    /\ head \in [Addresses -> Nat \ {0}]
    /\ answer \in Codes
    /\ advice \in [Addresses -> [at : Nat, hits : Nat, wait : Nat]]

Init ==
    /\ now = 0
    /\ log = [a \in Addresses |-> <<>>]
    /\ head = [a \in Addresses |-> 1]
    /\ answer = "none"
    /\ advice = [a \in Addresses |-> NoAdvice]

(***************************************************************************)
(* The sliding window                                                      *)
(***************************************************************************)

DroppedAtOnce(t) == t + Window <= now

(* A hit is dropped once it is older than the window, not when it is just  *)
(* as old.                                                                 *)
Expired(t) == t + Window < now

(* `while hits and hits[0] < cutoff: hits.popleft()' stops at h.           *)
PopsTo(a, h) ==
    /\ \A i \in head[a] .. (h - 1) : Expired(log[a][i])
    /\ h <= Len(log[a]) => ~Expired(log[a][h])

CountsItself(a, h) == Len(log[a]) + 2 - h >= MaxRequests
OneTooMany(a, h) == Len(log[a]) + 1 - h > MaxRequests
AtLimit(a, h) == Len(log[a]) + 1 - h >= MaxRequests

NoWait(a, h) == 0

(* max(1, int(...)): whole seconds until the oldest hit is as old as the   *)
(* window.                                                                 *)
RetryAfter(a, h) ==
    LET wait == (log[a][h] + Window - now) \div Second IN
    IF wait > 1 THEN wait ELSE 1

(* A request that meets an objection, or spends nothing.                   *)
Object(q) ==
    /\ Objection(q) # "none"
    /\ answer' = Objection(q)
    /\ UNCHANGED <<now, log, head, advice>>

PassFreely(q) ==
    /\ Objection(q) = "none" /\ ~SpendsTokens(q)
    /\ answer' = "passed"
    /\ UNCHANGED <<now, log, head, advice>>

(* A request that may spend tokens: the deque is cut first, also when the  *)
(* request is then refused; only a hit that passes is kept.                *)
Admit(a, h) ==
    /\ PopsTo(a, h) /\ ~AtLimit(a, h)
    /\ head' = [head EXCEPT ![a] = h]
    /\ log' = [log EXCEPT ![a] = Append(@, now)]
    /\ answer' = "passed"
    /\ UNCHANGED <<now, advice>>

Refuse(a, h) ==
    /\ PopsTo(a, h) /\ AtLimit(a, h)
    /\ head' = [head EXCEPT ![a] = h]
    /\ answer' = "429"
    /\ advice' = [advice EXCEPT ![a] =
                    [at |-> now, hits |-> Len(log[a]), wait |-> RetryAfter(a, h) * Second]]
    /\ UNCHANGED <<now, log>>

RateLimited(q) ==
    /\ Objection(q) = "none" /\ SpendsTokens(q)
    /\ \E a \in Addresses : \E h \in head[a] .. (Len(log[a]) + 1) :
            Admit(a, h) \/ Refuse(a, h)

Arrive(q) == Object(q) \/ PassFreely(q) \/ RateLimited(q)

Tick ==
    /\ now < MaxTime
    /\ now' = now + 1
    /\ UNCHANGED <<log, head, answer, advice>>

(* The application restarts: the hits were in its memory.                  *)
Restart ==
    /\ log' = [a \in Addresses |-> <<>>]
    /\ head' = [a \in Addresses |-> 1]
    /\ advice' = [a \in Addresses |-> NoAdvice]
    /\ UNCHANGED <<now, answer>>

Next ==
    \/ \E q \in Requests : Arrive(q)
    \/ Tick
    \/ Restart

Spec == Init /\ [][Next]_vars

(***************************************************************************)
(* Properties                                                              *)
(***************************************************************************)

(* No window of time, wherever it lies and with both its ends counted,     *)
(* holds more than MaxRequests admitted requests of one address            *)
(* (_rate_limited; between two restarts).                                  *)
WindowBound ==
    \A a \in Addresses : \A i \in 1..Len(log[a]) :
        i + MaxRequests <= Len(log[a]) => log[a][i] + Window < log[a][i + MaxRequests]

(* What the deque keeps bounds every window, however lazily it drops, and  *)
(* the wait it tells is never negative.                                    *)
WindowSound == TypeOK /\ WindowBound

(* The deque with its lazily dropped hits decides as if it remembered      *)
(* everything: a refusal is never due to a hit that should have expired,   *)
(* an admission never to one that was dropped too early, and a refused or  *)
(* rejected request is never counted (_rate_limited, __call__).            *)
L == INSTANCE WindowLimit WITH
        refusal <- [a \in Addresses |-> <<advice[a].at, advice[a].hits>>]
LimitRefined == L!Spec

(* A refused client that waits one second longer than it was told, while   *)
(* nobody else of its address is admitted, is not refused again.           *)
WaitPlusASecond ==
    [][\A a \in Addresses :
        /\ advice[a] # NoAdvice /\ advice'[a] # advice[a] /\ advice'[a] # NoAdvice
        /\ Len(log[a]) = advice[a].hits
        => now < advice[a].at + advice[a].wait + Second]_vars

(***************************************************************************)
(* What the repository says of the program and the program does not keep   *)
(***************************************************************************)

(* Retry-After tells when to try again (limits.py:139); a client waits for *)
(* that many seconds (docs/API_명세서.md:259).                             *)
WaitSuffices ==
    [][\A a \in Addresses :
        /\ advice[a] # NoAdvice /\ advice'[a] # advice[a] /\ advice'[a] # NoAdvice
        /\ Len(log[a]) = advice[a].hits
        => now < advice[a].at + advice[a].wait]_vars

=============================================================================
