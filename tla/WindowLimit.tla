---------------------------- MODULE WindowLimit ----------------------------
(***************************************************************************)
(* What a rate limit over a sliding window promises, without the queue     *)
(* that implements it: every admitted request is remembered, and one more  *)
(* is admitted when fewer than MaxRequests of the same address fall into   *)
(* the last Window of time, and refused otherwise.  The log is ordered by  *)
(* time, so that is a question about the entry MaxRequests from its end.   *)
(***************************************************************************)
EXTENDS Naturals, Sequences

CONSTANTS Addresses, Window, MaxRequests

VARIABLES
    now,
    log,        \* the times at which the requests of an address were admitted
    refusal     \* when the last refusal of an address was, after how many admissions

vars == <<now, log, refusal>>

Never == <<0, 0>>

Init ==
    /\ now = 0
    /\ log = [a \in Addresses |-> <<>>]
    /\ refusal = [a \in Addresses |-> Never]

Full(a) ==
    /\ Len(log[a]) >= MaxRequests
    /\ log[a][Len(log[a]) + 1 - MaxRequests] + Window >= now

Admit(a) ==
    /\ ~Full(a)
    /\ log' = [log EXCEPT ![a] = Append(@, now)]
    /\ UNCHANGED <<now, refusal>>

Refuse(a) ==
    /\ Full(a)
    /\ refusal' = [refusal EXCEPT ![a] = <<now, Len(log[a])>>]
    /\ UNCHANGED <<now, log>>

Tick == now' = now + 1 /\ UNCHANGED <<log, refusal>>

(* The process that remembers is replaced.                                 *)
Forget ==
    /\ log' = [a \in Addresses |-> <<>>]
    /\ refusal' = [a \in Addresses |-> Never]
    /\ UNCHANGED now

Next == (\E a \in Addresses : Admit(a) \/ Refuse(a)) \/ Tick \/ Forget

Spec == Init /\ [][Next]_vars

=============================================================================
