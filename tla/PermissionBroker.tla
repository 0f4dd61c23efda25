--------------------------- MODULE PermissionBroker ---------------------------
(***************************************************************************)
(* The approval broker of server/permission.ts.                            *)
(*                                                                         *)
(* A provider run announces a mutating tool call (register), and a         *)
(* separate provider callback asks for the verdict (awaitDecision, or      *)
(* awaitRegisteredDecision for the adapters that know the approval's id).  *)
(* The two arrive in either order and are paired here.  A person decides;  *)
(* the verdict is first made durable (decideAfter's beforeResolve) and     *)
(* only then released to the callback.  Timers, run closure and a failing  *)
(* write race with all of it.                                              *)
(*                                                                         *)
(* Map insertion order and callback arrival order are kept by numbering    *)
(* approvals and callbacks as they appear.  A key stands for the pair      *)
(* (tool name, digest of its input); a run stands for the whole context    *)
(* tuple that requireLiveApproval compares.                                *)
(*                                                                         *)
(* A definition Name_variant is not part of the specification: it is the   *)
(* form Name would take under a plausible bug, kept to show that a         *)
(* property would notice.                                                  *)
(***************************************************************************)
EXTENDS Naturals, FiniteSets

CONSTANTS
    Runs,           \* provider runs
    Keys,           \* (tool name, input digest) pairs
    None,           \* "no run" and "no key"
    MaxApprovals,   \* bound: registrations in one behavior
    MaxCallbacks,   \* bound: provider callbacks in one behavior
    MaxLive,        \* MAX_LIVE_APPROVALS
    MaxRetained,    \* MAX_RETAINED_APPROVALS
    MaxWaiting,     \* MAX_WAITING_PERMISSION_CALLBACKS
    DirectDecide    \* whether decide(), which no route calls, is used as well

ASSUME NoneIsFresh == None \notin Runs /\ None \notin Keys
ASSUME BoundsAreNat ==
    /\ MaxApprovals \in Nat /\ MaxCallbacks \in Nat
    /\ MaxLive \in Nat /\ MaxRetained \in Nat /\ MaxWaiting \in Nat
ASSUME RunsAndKeysExist == Runs # {} /\ Keys # {}
ASSUME DirectDecideIsBoolean == DirectDecide \in BOOLEAN

Approvals == 1..MaxApprovals
Callbacks == 1..MaxCallbacks

Verdicts == {"allowed_once", "denied"}
CloseStates == {"cancelled", "provider_failed"}
ApprovalStates == {"absent", "pending", "expired"} \cup Verdicts \cup CloseStates

VARIABLES
    phase,      \* per run: "new", "open" (has a token), "draining" (token
                \* deleted, adapter still reading), "ended" (adapter returned)
    owner,      \* per approval: its run
    key,        \* per approval: its tool and input digest
    state,      \* per approval: state field of the object
    promise,    \* per approval: "open", or what its promise resolved to
    live,       \* #approvals
    terminal,   \* #terminal
    claimed,    \* #claimed
    resolving,  \* #resolving
    inflight,   \* per approval: nextState of the suspended decideAfter
    recorded,   \* per approval: the verdict in the durable history
    overdue,    \* approvals whose expiresAt has passed
    cbStatus,   \* per callback: where the request stands
    cbRun, cbKey, cbApproval

approvalVars == <<owner, key, state, promise, live, terminal, claimed,
                  resolving, inflight, recorded, overdue>>
callbackVars == <<cbStatus, cbRun, cbKey, cbApproval>>
vars == <<phase, approvalVars, callbackVars>>

-----------------------------------------------------------------------------

Init ==
    /\ phase = [r \in Runs |-> "new"]
    /\ owner = [a \in Approvals |-> None]
    /\ key = [a \in Approvals |-> None]
    /\ state = [a \in Approvals |-> "absent"]
    /\ promise = [a \in Approvals |-> "open"]
    /\ live = {} /\ terminal = {} /\ claimed = {} /\ resolving = {}
    /\ inflight = [a \in Approvals |-> "none"]
    /\ recorded = [a \in Approvals |-> "none"]
    /\ overdue = {}
    /\ cbStatus = [c \in Callbacks |-> "idle"]
    /\ cbRun = [c \in Callbacks |-> None]
    /\ cbKey = [c \in Callbacks |-> None]
    /\ cbApproval = [c \in Callbacks |-> 0]

\* The member of S that came first: Map iteration and bucket.shift().
IsFirst(x, S) == x \in S /\ \A y \in S : x <= y

NextApproval(a) == IsFirst(a, {b \in Approvals : state[b] = "absent"})
NextCallback(c) == IsFirst(c, {d \in Callbacks : cbStatus[d] = "idle"})

WaitingCallbacks == {c \in Callbacks : cbStatus[c] = "waiting"}
Bucket_anyInput(r, k) == {c \in WaitingCallbacks : cbRun[c] = r}
Bucket(r, k) == {c \in WaitingCallbacks : cbRun[c] = r /\ cbKey[c] = k}

\* What #claimMatchingApproval accepts.
Claimable_replayed(r, k) ==
    {a \in live : owner[a] = r /\ key[a] = k /\ state[a] = "pending"}
Claimable(r, k) ==
    {a \in live : owner[a] = r /\ key[a] = k /\ state[a] = "pending" /\ a \notin claimed}

\* A promise keeps the first value it is resolved with.
Settled(a, answer) == IF promise[a] = "open" THEN answer ELSE promise[a]

Answer_raw(verdict) == verdict
Answer(verdict) == IF verdict = "allowed_once" THEN "allow" ELSE "deny"

-----------------------------------------------------------------------------
(* Provider runs and registrations                                         *)

\* #assertToken accepts the run's token.
HoldsToken_keptOnClose(r) == phase[r] # "new"
HoldsToken(r) == phase[r] = "open"

\* The two limits register() enforces.
HasRoom(n, m) == n < MaxLive /\ n + m < MaxRetained

CreateRunToken(r) ==
    /\ phase[r] = "new"
    /\ phase' = [phase EXCEPT ![r] = "open"]
    /\ UNCHANGED <<approvalVars, callbackVars>>

\* register(): no token is needed, so an adapter that still drains its
\* process after closeRun registers too.
Register(r, k, a) ==
    /\ phase[r] \in {"open", "draining"}
    /\ HasRoom(Cardinality(live), Cardinality(terminal))
    /\ NextApproval(a)
    /\ owner' = [owner EXCEPT ![a] = r]
    /\ key' = [key EXCEPT ![a] = k]
    /\ state' = [state EXCEPT ![a] = "pending"]
    /\ live' = live \cup {a}
    /\ \/ /\ Bucket(r, k) = {}
          /\ UNCHANGED <<claimed, callbackVars>>
       \/ \E c \in Callbacks :
             /\ IsFirst(c, Bucket(r, k))
             /\ claimed' = claimed \cup {a}
             /\ cbStatus' = [cbStatus EXCEPT ![c] = "bound"]
             /\ cbApproval' = [cbApproval EXCEPT ![c] = a]
             /\ UNCHANGED <<cbRun, cbKey>>
    /\ UNCHANGED <<phase, promise, terminal, resolving, inflight, recorded, overdue>>

-----------------------------------------------------------------------------
(* Provider callbacks                                                      *)

\* awaitDecision(): refuse a missing token, claim a registered approval, or
\* wait for one, within the waiter bound.
AwaitDecision(c, r, k) ==
    /\ NextCallback(c)
    /\ phase[r] # "new"
    /\ cbRun' = [cbRun EXCEPT ![c] = r]
    /\ cbKey' = [cbKey EXCEPT ![c] = k]
    /\ \/ /\ ~HoldsToken(r)
          /\ cbStatus' = [cbStatus EXCEPT ![c] = "rejected"]
          /\ UNCHANGED <<cbApproval, claimed>>
       \/ /\ HoldsToken(r)
          /\ \E a \in Approvals :
                /\ IsFirst(a, Claimable(r, k))
                /\ claimed' = claimed \cup {a}
                /\ cbStatus' = [cbStatus EXCEPT ![c] = "bound"]
                /\ cbApproval' = [cbApproval EXCEPT ![c] = a]
       \/ /\ HoldsToken(r)
          /\ Claimable(r, k) = {}
          /\ cbStatus' = [cbStatus EXCEPT ![c] =
                             IF Cardinality(WaitingCallbacks) < MaxWaiting
                             THEN "waiting" ELSE "unmatched"]
          /\ UNCHANGED <<cbApproval, claimed>>
    /\ UNCHANGED <<phase, owner, key, state, promise, live, terminal,
                   resolving, inflight, recorded, overdue>>

\* Whether awaitRegisteredDecision() hands approval a to a caller of run r.
ClaimsById(r, a) == a \in live /\ owner[a] = r /\ a \notin claimed

\* awaitRegisteredDecision(): the adapter names the approval it registered.
AwaitRegisteredDecision(c, r, a) ==
    /\ NextCallback(c)
    /\ phase[r] # "new"
    /\ state[a] # "absent"
    /\ cbRun' = [cbRun EXCEPT ![c] = r]
    /\ cbKey' = [cbKey EXCEPT ![c] = key[a]]
    /\ \/ /\ ~HoldsToken(r)
          /\ cbStatus' = [cbStatus EXCEPT ![c] = "rejected"]
          /\ UNCHANGED <<cbApproval, claimed>>
       \/ /\ HoldsToken(r) /\ ClaimsById(r, a)
          /\ claimed' = claimed \cup {a}
          /\ cbStatus' = [cbStatus EXCEPT ![c] = "bound"]
          /\ cbApproval' = [cbApproval EXCEPT ![c] = a]
       \/ /\ HoldsToken(r) /\ ~ClaimsById(r, a)
          /\ cbStatus' = [cbStatus EXCEPT ![c] = "unmatched"]
          /\ UNCHANGED <<cbApproval, claimed>>
    /\ UNCHANGED <<phase, owner, key, state, promise, live, terminal,
                   resolving, inflight, recorded, overdue>>

\* The waiter's registration timer.
CallbackTimeout(c) ==
    /\ cbStatus[c] = "waiting"
    /\ cbStatus' = [cbStatus EXCEPT ![c] = "unmatched"]
    /\ UNCHANGED <<phase, approvalVars, cbRun, cbKey, cbApproval>>

-----------------------------------------------------------------------------
(* Verdicts                                                                *)

\* #sealTerminal: the payload goes, a snapshot stays for replay refusal.
Seal(a) ==
    /\ live' = live \ {a}
    /\ terminal' = terminal \cup {a}

\* #finish of a pending approval.
Finish(a, s) ==
    /\ state[a] = "pending"
    /\ state' = [state EXCEPT ![a] = s]
    /\ promise' = [promise EXCEPT ![a] = Settled(a, Answer(s))]
    /\ Seal(a)

\* expiresAt passes.
DeadlinePasses(a) ==
    /\ state[a] = "pending" /\ a \notin overdue
    /\ overdue' = overdue \cup {a}
    /\ UNCHANGED <<phase, owner, key, state, promise, live, terminal, claimed,
                   resolving, inflight, recorded, callbackVars>>

\* The approval's timer, or a verdict that finds the deadline passed.
Expire(a) ==
    /\ a \in live /\ a \in overdue
    /\ Finish(a, "expired")
    /\ UNCHANGED <<phase, owner, key, claimed, resolving, inflight, recorded,
                   overdue, callbackVars>>

\* A verdict finds the approval live, and in time.
InTime(a) == a \in live /\ a \notin overdue

\* decide(): the synchronous path.
Decide(a, v) ==
    /\ DirectDecide
    /\ InTime(a)
    /\ Finish(a, v)
    /\ UNCHANGED <<phase, owner, key, claimed, resolving, inflight, recorded,
                   overdue, callbackVars>>

\* decideAfter() takes a verdict on an approval nobody has decided or is deciding.
Unresolved_unchecked(a) == TRUE
Unresolved(a) == state[a] = "pending" /\ a \notin resolving

\* decideAfter(), up to its await.
DecideAfter(a, v) ==
    /\ InTime(a) /\ Unresolved(a)
    /\ resolving' = resolving \cup {a}
    /\ inflight' = [inflight EXCEPT ![a] = v]
    /\ state' = [state EXCEPT ![a] = v]
    /\ UNCHANGED <<phase, owner, key, promise, live, terminal, claimed,
                   recorded, overdue, callbackVars>>

\* beforeResolve makes the verdict durable: the route records the event
\* approval_resolved with the snapshot taken before the await.
PersistVerdict(a) ==
    /\ inflight[a] # "none" /\ recorded[a] = "none"
    /\ recorded' = [recorded EXCEPT ![a] = inflight[a]]
    /\ UNCHANGED <<phase, owner, key, state, promise, live, terminal, claimed,
                   resolving, inflight, overdue, callbackVars>>

\* The finally block of decideAfter().
EndDecideAfter(a) ==
    /\ resolving' = resolving \ {a}
    /\ inflight' = [inflight EXCEPT ![a] = "none"]

\* beforeResolve has returned.
Persisted_notAwaited(a) == TRUE
Persisted(a) == recorded[a] = inflight[a]

\* decideAfter() after its await: release the verdict unless the approval
\* closed meanwhile.
ReleaseVerdict(a) ==
    /\ inflight[a] # "none" /\ Persisted(a)
    /\ \/ /\ state[a] = inflight[a]
          /\ promise' = [promise EXCEPT ![a] = Settled(a, Answer(state[a]))]
          /\ Seal(a)
       \/ /\ state[a] # inflight[a]
          /\ UNCHANGED <<promise, live, terminal>>
    /\ EndDecideAfter(a)
    /\ UNCHANGED <<phase, owner, key, state, claimed, recorded, overdue, callbackVars>>

\* beforeResolve throws, before the verdict was recorded or after it (it also
\* records the next pending sibling): the catch block.
PersistFails_rethrowsOnly(a) ==
    /\ inflight[a] # "none"
    /\ EndDecideAfter(a)
    /\ UNCHANGED <<phase, owner, key, state, promise, live, terminal, claimed,
                   recorded, overdue, callbackVars>>
PersistFails(a) ==
    /\ inflight[a] # "none"
    /\ \/ /\ state[a] = inflight[a]
          /\ state' = [state EXCEPT ![a] = "provider_failed"]
          /\ promise' = [promise EXCEPT ![a] = Settled(a, "deny")]
          /\ Seal(a)
       \/ /\ state[a] # inflight[a]
          /\ UNCHANGED <<state, promise, live, terminal>>
    /\ EndDecideAfter(a)
    /\ UNCHANGED <<phase, owner, key, claimed, recorded, overdue, callbackVars>>

\* Approvals that closeRun still has to answer.
ToClose(r) ==
    {a \in live : owner[a] = r /\ (a \in resolving \/ state[a] = "pending")}

\* What #forgetRun drops, after closeRun has sealed every live approval of r.
Forgotten_liveOnly(r) == {a \in live : owner[a] = r}
Forgotten(r) == {a \in live \cup terminal : owner[a] = r}

\* closeRun(): answer what is unanswered, revoke the token, forget the run.
\* "next" is "draining" for a close in mid-run (cancel, protocol failure) and
\* "ended" for the one in the adapter's finally block.
CloseRun(r, s, next) ==
    /\ phase[r] \in {"open", "draining"}
    /\ phase' = [phase EXCEPT ![r] = next]
    /\ state' = [a \in Approvals |-> IF a \in ToClose(r) THEN s ELSE state[a]]
    /\ promise' = [a \in Approvals |->
                      IF a \in ToClose(r) THEN Settled(a, "deny") ELSE promise[a]]
    /\ live' = live \ Forgotten(r)
    /\ terminal' = terminal \ Forgotten(r)
    /\ claimed' = claimed \ Forgotten(r)
    /\ cbStatus' = [c \in Callbacks |->
                       IF cbStatus[c] = "waiting" /\ cbRun[c] = r
                       THEN "unmatched" ELSE cbStatus[c]]
    /\ UNCHANGED <<owner, key, resolving, inflight, recorded, overdue,
                   cbRun, cbKey, cbApproval>>

-----------------------------------------------------------------------------

Next ==
    \/ \E r \in Runs :
          \/ CreateRunToken(r)
          \/ \E s \in CloseStates, next \in {"draining", "ended"} : CloseRun(r, s, next)
          \/ \E k \in Keys : \/ \E a \in Approvals : Register(r, k, a)
                             \/ \E c \in Callbacks : AwaitDecision(c, r, k)
          \/ \E c \in Callbacks, a \in Approvals : AwaitRegisteredDecision(c, r, a)
    \/ \E c \in Callbacks : CallbackTimeout(c)
    \/ \E a \in Approvals :
          \/ DeadlinePasses(a) \/ Expire(a)
          \/ \E v \in Verdicts : Decide(a, v) \/ DecideAfter(a, v)
          \/ PersistVerdict(a) \/ ReleaseVerdict(a) \/ PersistFails(a)

Spec == Init /\ [][Next]_vars

\* The timers of the host fire, and a durable write returns or throws: what
\* Node's event loop promises.  Nothing is assumed of people or providers.
Fairness ==
    /\ \A c \in Callbacks : WF_vars(CallbackTimeout(c))
    /\ \A a \in Approvals :
          /\ WF_vars(DeadlinePasses(a))
          /\ WF_vars(Expire(a))
          /\ WF_vars(PersistVerdict(a) \/ PersistFails(a))
          /\ WF_vars(ReleaseVerdict(a) \/ PersistFails(a))

FairSpec == Spec /\ Fairness

-----------------------------------------------------------------------------
(* Properties                                                              *)

\* The answer a provider callback has received so far.
Outcome(c) ==
    CASE cbStatus[c] \in {"idle", "waiting"} -> "open"
      [] cbStatus[c] = "bound" -> promise[cbApproval[c]]
      [] OTHER -> "deny"

\* The broker's maps, sets and promises are well typed.
TypeOK ==
    /\ phase \in [Runs -> {"new", "open", "draining", "ended"}]
    /\ owner \in [Approvals -> Runs \cup {None}]
    /\ key \in [Approvals -> Keys \cup {None}]
    /\ state \in [Approvals -> ApprovalStates]
    /\ promise \in [Approvals -> {"open", "allow", "deny"}]
    /\ live \subseteq Approvals /\ terminal \subseteq Approvals
    /\ claimed \subseteq Approvals /\ resolving \subseteq Approvals
    /\ inflight \in [Approvals -> Verdicts \cup {"none"}]
    /\ recorded \in [Approvals -> Verdicts \cup {"none"}]
    /\ overdue \subseteq Approvals
    /\ cbStatus \in [Callbacks -> {"idle", "waiting", "bound", "unmatched", "rejected"}]
    /\ cbRun \in [Callbacks -> Runs \cup {None}]
    /\ cbKey \in [Callbacks -> Keys \cup {None}]
    /\ cbApproval \in [Callbacks -> Approvals \cup {0}]

\* An approval answers one provider call: whichever of registration and
\* callback comes first, and however often a callback is replayed, no two
\* callbacks hold the same approval (#claimed, permission.ts:189).
SingleUse ==
    \A c, d \in Callbacks :
        cbStatus[c] = "bound" /\ cbStatus[d] = "bound" /\ cbApproval[c] = cbApproval[d]
            => c = d

\* A callback only ever holds an approval of its own run, tool and input:
\* identical calls may be paired in any way, different ones never.
PairedWithOwnCall ==
    \A c \in Callbacks : cbStatus[c] = "bound" =>
        /\ state[cbApproval[c]] # "absent"
        /\ owner[cbApproval[c]] = cbRun[c] /\ key[cbApproval[c]] = cbKey[c]

\* The provider is released only after the person's consent is in the durable
\* history, whatever closes, expires or fails around the suspended decideAfter.
PersistBeforeRelease ==
    \A a \in Approvals : promise[a] = "allow" =>
        DirectDecide \/ recorded[a] = "allowed_once"

\* The answer given to the provider agrees with the state every reader sees:
\* a live approval is unanswered, one that left the live map is answered, and
\* it is answered with "allow" exactly when it was allowed.
AnswerMatchesState ==
    \A a \in Approvals : state[a] # "absent" =>
        IF a \in live THEN promise[a] = "open"
        ELSE promise[a] = Answer(state[a])

\* Consent given after expiresAt is worth nothing, even when the expiry timer
\* is late (the comparison with Date.now() in decide and decideAfter).
OverdueNeverAllowed ==
    \A a \in overdue : promise[a] # "allow"

\* What a provider is told is what a person consented to: durably, in time, and
\* for one call only.
ReleaseIsConsented ==
    SingleUse /\ PersistBeforeRelease /\ AnswerMatchesState /\ OverdueNeverAllowed

\* closeRun keeps "a long-lived host" from retaining payloads or claim markers
\* (permission.ts:366): of a run whose adapter returned nothing is left, even
\* when a decideAfter was suspended across the close.
EndedRunForgotten ==
    /\ claimed \subseteq live \cup terminal
    /\ \A r \in Runs : phase[r] = "ended" =>
          /\ \A a \in live \cup terminal : owner[a] # r
          /\ \A c \in WaitingCallbacks : cbRun[c] # r

\* Once closeRun has revoked a run, no callback of that run is released any
\* more: not by a suspended verdict, and not by an approval that the draining
\* adapter registers afterwards and a person then allows.
NoReleaseAfterClose ==
    [][\A c \in Callbacks, r \in Runs :
          cbRun[c] = r /\ phase[r] \in {"draining", "ended"} /\ Outcome(c) # "allow"
              => Outcome(c)' # "allow"]_vars

\* A verdict is final: an approval that was denied, expired or closed is never
\* allowed later, and one that was allowed is only ever withdrawn unreleased.
VerdictIsFinal ==
    [][\A a \in Approvals :
          /\ state[a] \notin {"absent", "pending", "allowed_once"} => state'[a] # "allowed_once"
          /\ promise[a] = "allow" => state'[a] = "allowed_once"]_vars

\* No provider callback hangs: one that waits for a registration, or holds an
\* approval nobody decides, is answered by a timer.
CallbackAnswered ==
    \A c \in Callbacks : cbStatus[c] \in {"waiting", "bound"} ~> Outcome(c) # "open"

-----------------------------------------------------------------------------
(* What the broker promises                                                *)

\* The consents are the verdicts in the durable history; a callback spends
\* the approval it holds when it is released.
Consent == INSTANCE SingleUseConsent WITH
    Consents <- Approvals,
    Requests <- Callbacks,
    trusted <- {r \in Runs : phase[r] = "open"},
    revoked <- {r \in Runs : phase[r] \in {"draining", "ended"}},
    given <- {a \in Approvals : recorded[a] = "allowed_once"},
    spentOn <- [c \in Callbacks |-> IF Outcome(c) = "allow" THEN {cbApproval[c]} ELSE {}],
    runOf <- [c \in Callbacks |-> IF cbStatus[c] = "idle" THEN {} ELSE {cbRun[c]}],
    answer <- [c \in Callbacks |-> Outcome(c)]

\* The broker, whatever its timers and races do, only releases a provider by
\* spending a durable consent once and for a run that is still open.
ImplementsSingleUseConsent == Consent!Spec
=============================================================================
