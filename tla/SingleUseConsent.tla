--------------------------- MODULE SingleUseConsent ---------------------------
(***************************************************************************)
(* What the approval broker promises, without registrations, timers, maps  *)
(* or limits: a provider request is answered once; it is answered "allow"  *)
(* only by spending a consent that a person gave, that nobody spent        *)
(* before, and while the run is still trusted.                             *)
(***************************************************************************)
CONSTANTS Consents, Requests, Runs

VARIABLES
    trusted,    \* runs whose token is valid
    revoked,    \* runs that were closed
    given,      \* consents a person gave
    spentOn,    \* per request: the set holding the consent it used, if any
    runOf,      \* per request: the set holding its run, once it was made
    answer      \* per request: "open", "allow" or "deny"

vars == <<trusted, revoked, given, spentOn, runOf, answer>>

Init ==
    /\ trusted = {} /\ revoked = {} /\ given = {}
    /\ spentOn = [q \in Requests |-> {}]
    /\ runOf = [q \in Requests |-> {}]
    /\ answer = [q \in Requests |-> "open"]

Trust(r) ==
    /\ r \notin trusted \cup revoked
    /\ trusted' = trusted \cup {r}
    /\ UNCHANGED <<revoked, given, spentOn, runOf, answer>>

\* A closed run: its open requests may be denied, and none is allowed again.
Revoke(r, D) ==
    /\ r \in trusted \cup revoked
    /\ trusted' = trusted \ {r}
    /\ revoked' = revoked \cup {r}
    /\ \A q \in D : answer[q] = "open" /\ runOf[q] = {r}
    /\ answer' = [q \in Requests |-> IF q \in D THEN "deny" ELSE answer[q]]
    /\ UNCHANGED <<given, spentOn, runOf>>

\* A request arrives; it may be refused on the spot.
Ask(q, r) ==
    /\ runOf[q] = {}
    /\ r \in trusted \cup revoked
    /\ runOf' = [runOf EXCEPT ![q] = {r}]
    /\ \/ r \in trusted /\ answer' = answer
       \/ answer' = [answer EXCEPT ![q] = "deny"]
    /\ UNCHANGED <<trusted, revoked, given, spentOn>>

\* A person consents.
Give(x) ==
    /\ given' = given \cup {x}
    /\ UNCHANGED <<trusted, revoked, spentOn, runOf, answer>>

\* The consent is spent on one request of a run that was not closed.
Allow(q, x) ==
    /\ answer[q] = "open"
    /\ runOf[q] # {} /\ runOf[q] \subseteq trusted
    /\ x \in given
    /\ \A p \in Requests : x \notin spentOn[p]
    /\ spentOn' = [spentOn EXCEPT ![q] = {x}]
    /\ answer' = [answer EXCEPT ![q] = "allow"]
    /\ UNCHANGED <<trusted, revoked, given, runOf>>

Deny(q) ==
    /\ answer[q] = "open" /\ runOf[q] # {}
    /\ answer' = [answer EXCEPT ![q] = "deny"]
    /\ UNCHANGED <<trusted, revoked, given, spentOn, runOf>>

Next ==
    \/ \E r \in Runs : \/ Trust(r)
                       \/ \E D \in SUBSET Requests : Revoke(r, D)
                       \/ \E q \in Requests : Ask(q, r)
    \/ \E x \in Consents : Give(x)
    \/ \E q \in Requests : \/ Deny(q)
                           \/ \E x \in Consents : Allow(q, x)

Spec == Init /\ [][Next]_vars
=============================================================================
