----------------------------- MODULE KeyedStore -----------------------------
(***************************************************************************)
(* What POST /assessments promises its clients: a store of assessments by  *)
(* idempotency key.  The first request of a key that succeeds stores an    *)
(* entry, once and for all; a later one with the same content is shown     *)
(* that entry as it was decided then, one with other content is refused.   *)
(* A request may fail, and its client then does not know whether it was    *)
(* the one that stored the entry.                                          *)
(***************************************************************************)
CONSTANTS Requests, Keys, Contents, Rules, None

VARIABLES
    asked,   \* what each request asks for, NotAsked before it is sent
    store,   \* the entries; an entry bears the name of the request that made it
    reply    \* what each request was answered

vars == <<asked, store, reply>>

Asks     == [key : Keys, content : Contents]
NotAsked == [key |-> None, content |-> None]
NoReply  == [code |-> "none", of |-> None, rules |-> None]
Shown(code, e) == [code |-> code, of |-> e.id, rules |-> e.rules]
Bare(code)     == [NoReply EXCEPT !.code = code]

Init ==
    /\ asked = [r \in Requests |-> NotAsked]
    /\ store = {}
    /\ reply = [r \in Requests |-> NoReply]

Open(r) == asked[r] \in Asks /\ reply[r] = NoReply

Ask(r, a) ==
    /\ asked[r] = NotAsked
    /\ asked' = [asked EXCEPT ![r] = a]
    /\ UNCHANGED <<store, reply>>

(* The entry of a new key; the answer may get lost on its way.             *)
Create(r, rules) ==
    LET e == [id |-> r, key |-> asked[r].key, content |-> asked[r].content, rules |-> rules] IN
    /\ Open(r)
    /\ \A f \in store : f.key # e.key
    /\ store' = store \cup {e}
    /\ \/ reply' = [reply EXCEPT ![r] = Shown("201", e)]
       \/ \E code \in {"500", "lost"} : reply' = [reply EXCEPT ![r] = Bare(code)]
    /\ UNCHANGED asked

Show(r, e) ==
    /\ Open(r)
    /\ e.key = asked[r].key /\ e.content = asked[r].content
    /\ reply' = [reply EXCEPT ![r] = Shown("200", e)]
    /\ UNCHANGED <<asked, store>>

Refuse(r, e) ==
    /\ Open(r)
    /\ e.key = asked[r].key /\ e.content # asked[r].content
    /\ reply' = [reply EXCEPT ![r] = Bare("409")]
    /\ UNCHANGED <<asked, store>>

(* Requests that end without having stored anything, one or many at once.  *)
Fail(R, code) ==
    /\ \A r \in R : Open(r)
    /\ reply' = [r \in Requests |-> IF r \in R THEN Bare(code) ELSE reply[r]]
    /\ UNCHANGED <<asked, store>>

Next ==
    \/ \E r \in Requests, a \in Asks : Ask(r, a)
    \/ \E r \in Requests, rules \in Rules : Create(r, rules)
    \/ \E r \in Requests, e \in store : Show(r, e) \/ Refuse(r, e)
    \/ \E R \in SUBSET Requests, code \in {"500", "lost"} : Fail(R, code)

Spec == Init /\ [][Next]_vars

=============================================================================
