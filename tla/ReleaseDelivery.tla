----------------------------- MODULE ReleaseDelivery -----------------------------
(***************************************************************************)
(* The staged delivery of a release candidate: sessions in a local ledger, *)
(* single-use previews, and the actions that they confirm, each of which   *)
(* calls Chisei or Tenkai and records what came back.  An action's call    *)
(* and the inspection that follows it are separate steps: previews,        *)
(* receipts, other users of Tenkai, a change of the worktree, a cancelled  *)
(* request and a stop of the host fall in between.  What the inspection    *)
(* saw is saved with it, as nothing is read again before that save.        *)
(*                                                                         *)
(* Chisei and Tenkai are what the code takes them for: a call may have its *)
(* effect or not whatever it reports, except that "succeeded" is true.     *)
(*                                                                         *)
(* Left out: digests and receipts (a record either matches or does not),   *)
(* the build commands, and the wall clock (a preview or a provenance may   *)
(* expire at any time).                                                    *)
(*                                                                         *)
(* A definition Name_variant is not part of the specification: it is the   *)
(* form Name would take under a plausible bug, kept to show that a         *)
(* property would notice.                                                  *)
(***************************************************************************)
EXTENDS Naturals, Sequences

CONSTANTS
    Sessions,     \* sessions, each for a candidate of its own, of one product
    MaxPlans,     \* bound: plans made in Tenkai
    MaxEvents,    \* bound: changes of the worktree, stops, evictions, other users' acts
    None          \* no session, and the candidate of nobody

ASSUME BoundsAreNat == MaxPlans \in Nat /\ MaxEvents \in Nat
ASSUME NoneIsNoSession == None \notin Sessions /\ "older" \notin Sessions

VARIABLES
    session,    \* durable: the ledger's record of each session
    previews,   \* actions previewed for the session's record as it is now
    exec,       \* the execution that runs for a session
    reader,     \* a preview or a receipt in the making: the record it read
    worktree,   \* the candidate that the worktree holds
    expired,    \* sessions whose provenance is no longer fresh
    allowed,    \* Chisei: the candidates it allowed
    tenkai,     \* Tenkai: releases, channel head, deployed version, health, plans
    unsettled,  \* sessions whose last mutation came back unknown
    events

vars == <<session, previews, exec, reader, worktree, expired, allowed, tenkai, unsettled, events>>
outside == <<worktree, expired, allowed, events>>

Actions == {"evaluate", "publish", "promote", "plan", "apply", "reconcile", "rollback"}
Mutations == {"publish", "promote", "plan", "apply", "rollback"}
States == {"none", "evicted", "candidate_ready", "governance_allowed", "governance_denied",
    "governance_unavailable", "governance_unknown", "published", "publication_unknown", "promoted",
    "planned", "applying", "recovered", "completed", "failed", "unknown", "stale"}

Unprepared == [state |-> "none", complete |-> "partial", allow |-> FALSE, release |-> FALSE,
    prov |-> FALSE, channel |-> FALSE, plan |-> 0, rollback |-> 0]
Idle == [pc |-> "idle", action |-> "reconcile", snap |-> Unprepared, result |-> "none", ref |-> 0]
Unread == [on |-> FALSE, snap |-> Unprepared, bound |-> FALSE]
Exists(s) == session[s].state \notin {"none", "evicted"}

Init ==
    /\ session = [s \in Sessions |-> Unprepared]
    /\ previews = [s \in Sessions |-> {}]
    /\ exec = [s \in Sessions |-> Idle]
    /\ reader = [s \in Sessions |-> Unread]
    /\ worktree \in Sessions
    /\ expired = {} /\ allowed = {} /\ unsettled = {}
    /\ tenkai = [released |-> {}, head |-> None, deployed |-> None, health |-> "healthy", plans |-> <<>>]
    /\ events = 0

-----------------------------------------------------------------------------
\* The ledger.

\* A preview is bound to the record it was made for: a save leaves the earlier
\* ones without effect, those that wait for an execution to end included.
Unbound_kept(s) == UNCHANGED previews
Unbound(s) == previews' = [previews EXCEPT ![s] = {}]

Put(s, record) ==
    /\ session' = [session EXCEPT ![s] = record]
    /\ Unbound(s)

Outdate_not(s) == UNCHANGED reader
Outdate(s) == reader' = [reader EXCEPT ![s].bound = FALSE]

Fresh(s, record) == record.prov /\ s \notin expired

-----------------------------------------------------------------------------
\* What Tenkai's environment says of a session.

Latest == IF tenkai.plans = <<>> THEN [to |-> None, only |-> FALSE, state |-> "ready"]
          ELSE tenkai.plans[Len(tenkai.plans)]

CandidateOnly(s, record, plan) ==
    plan # 0 /\ record.release /\ plan = Len(tenkai.plans) /\ Latest.only /\ Latest.to = s

Current_exit(s, record, result) == result = "succeeded"
Current(s, record, result) ==
    /\ tenkai.head = s /\ tenkai.deployed = s /\ tenkai.health = "healthy"
    /\ record.channel /\ CandidateOnly(s, record, record.plan) /\ Latest.state = "succeeded"

RolledBack(s, plan) ==
    /\ plan # 0 /\ plan = Len(tenkai.plans) /\ Latest.state = "succeeded" /\ Latest.only
    /\ Latest.to = tenkai.deployed /\ tenkai.head = s /\ tenkai.deployed \notin {s, None}
    /\ tenkai.health = "healthy"

Complete(s, record) == IF Fresh(s, record) THEN "complete" ELSE "stale"

Reconciled(s, record, result) ==
    IF RolledBack(s, record.rollback)
    THEN [record EXCEPT !.state = "recovered", !.complete = Complete(s, record)]
    ELSE IF Current(s, record, result)
    THEN [record EXCEPT !.state = "completed", !.complete = Complete(s, record)]
    ELSE IF Latest.state = "failed" \/ tenkai.health = "error" \/ result = "failed"
    THEN [record EXCEPT !.state = "failed", !.complete = "partial"]
    ELSE [record EXCEPT !.state = "unknown", !.complete = "unknown"]

-----------------------------------------------------------------------------
\* Previews and receipts: a record is read, and later judged.

Read(s) ==
    /\ Exists(s) /\ ~reader[s].on
    /\ reader' = [reader EXCEPT ![s] = [on |-> TRUE, snap |-> session[s], bound |-> TRUE]]
    /\ UNCHANGED <<session, previews, exec, tenkai, unsettled, outside>>

Available(action, record) ==
    record.state \in CASE action = "evaluate" -> {"candidate_ready", "governance_denied", "governance_unavailable", "governance_unknown"}
                       [] action = "publish" -> {"governance_allowed"}
                       [] action = "promote" -> {"published"}
                       [] action = "plan" -> {"promoted"}
                       [] action = "apply" -> {"planned"}
                       [] action = "reconcile" -> {"published", "publication_unknown", "promoted", "planned", "applying", "completed", "failed", "unknown", "recovered"}
                       [] action = "rollback" -> {"completed", "failed", "unknown"}

Previewable(s, record, action) ==
    /\ Available(action, record)
    /\ action \in {"promote", "plan", "apply"} => Fresh(s, record)
    /\ action = "publish" => record.allow
    /\ action = "apply" => CandidateOnly(s, record, record.plan)

\* A changed candidate makes the session stale, as it was read.
Stale(record) == [record EXCEPT !.state = "stale", !.complete = "stale"]

Judge(s) ==
    LET x == reader[s] IN
    /\ x.on
    /\ reader' = [reader EXCEPT ![s] = Unread]
    /\ \/ worktree # s /\ Put(s, Stale(x.snap))
       \/ worktree = s /\ UNCHANGED <<session, previews>>
       \/ /\ worktree = s /\ x.bound
          /\ \E a \in Actions :
                /\ Previewable(s, x.snap, a)
                /\ previews' = [previews EXCEPT ![s] = @ \cup {a}]
          /\ UNCHANGED session
    /\ UNCHANGED <<exec, tenkai, unsettled, outside>>

-----------------------------------------------------------------------------
\* Executing a preview: it is used up, one execution of a session at a time.

At(s, pc) == exec[s].pc = pc
Goto(s, pc) == exec' = [exec EXCEPT ![s].pc = pc]

\* The execution is over, whether its operation returned or threw.
Leave(s) == exec' = [exec EXCEPT ![s] = Idle]

Enter(s, action) ==
    /\ At(s, "idle") /\ action \in previews[s]
    /\ previews' = [previews EXCEPT ![s] = @ \ {action}]
    /\ exec' = [exec EXCEPT ![s] = [Idle EXCEPT !.pc = "fresh", !.action = action, !.snap = session[s]]]
    /\ UNCHANGED <<session, reader, tenkai, unsettled, outside>>

\* The candidate is prepared again, the provenance has to be fresh.
CheckFresh(s) ==
    LET x == exec[s] IN
    /\ At(s, "fresh")
    /\ \/ worktree # s /\ Put(s, Stale(x.snap)) /\ Outdate(s) /\ Leave(s)
       \/ /\ worktree = s
          /\ IF x.action \in {"promote", "plan", "apply"} /\ ~Fresh(s, x.snap) THEN Leave(s)
             ELSE Goto(s, CASE x.action = "evaluate" -> "evaluate"
                            [] x.action = "apply" -> "apply"
                            [] x.action = "reconcile" -> "reconcile"
                            [] OTHER -> "call")
          /\ UNCHANGED <<session, previews, reader>>
    /\ UNCHANGED <<tenkai, unsettled, outside>>

\* An execution saves what it made of the record it read, and is over.
Save(s, record) == Put(s, record) /\ Outdate(s) /\ Leave(s)

Decision_lax(decision, fresh) == IF decision = "deny" THEN "governance_denied" ELSE "governance_allowed"
Decision(decision, fresh) ==
    IF decision = "allow" /\ fresh THEN "governance_allowed"
    ELSE IF decision = "deny" THEN "governance_denied"
    ELSE IF decision = "unavailable" THEN "governance_unavailable"
    ELSE "governance_unknown"

Evaluate(s) ==
    LET r == exec[s].snap IN
    /\ At(s, "evaluate")
    /\ \/ \E d \in {"allow", "deny", "unavailable", "unknown"}, fresh \in BOOLEAN :
             /\ allowed' = IF d = "allow" /\ fresh THEN allowed \cup {s} ELSE allowed
             /\ Save(s, [r EXCEPT !.state = Decision(d, fresh), !.allow = (d = "allow" /\ fresh),
                    !.complete = IF fresh THEN "partial" ELSE "stale"])
       \/ /\ \E state \in {"governance_unknown", "governance_unavailable"} :
                Save(s, [r EXCEPT !.state = state, !.complete = "unknown"])
          /\ UNCHANGED allowed
    /\ UNCHANGED <<tenkai, unsettled, worktree, expired, events>>

\* The environment is inspected once more, the session saved as applying.
Applying(s) ==
    LET r == [exec[s].snap EXCEPT !.state = "applying"] IN
    /\ At(s, "apply")
    /\ IF CandidateOnly(s, r, r.plan)
       THEN Put(s, r) /\ Outdate(s) /\ exec' = [exec EXCEPT ![s].pc = "call", ![s].snap = r]
       ELSE Leave(s) /\ UNCHANGED <<session, previews, reader>>
    /\ UNCHANGED <<tenkai, unsettled, outside>>

\* External: what a command may do in Tenkai.
WithPlan(plan, deployed) == [tenkai EXCEPT !.plans = Append(@, plan), !.deployed = deployed]
Effects(s, action) ==
    CASE action = "publish" -> {[tenkai EXCEPT !.released = @ \cup {s}]}
      [] action = "promote" -> {[tenkai EXCEPT !.head = s]}
      [] action = "plan" ->
            IF Len(tenkai.plans) = MaxPlans THEN {}
            ELSE {WithPlan([to |-> tenkai.head, only |-> b, state |-> "ready"], tenkai.deployed) : b \in BOOLEAN}
      [] action = "apply" ->
            LET id == exec[s].snap.plan IN
            {[tenkai EXCEPT !.plans[id].state = "failed"]}
               \cup {[tenkai EXCEPT !.plans[id].state = "succeeded", !.deployed = s, !.health = h] : h \in {"healthy", "degraded"}}
      [] action = "rollback" ->
            IF Len(tenkai.plans) = MaxPlans THEN {}
            ELSE {WithPlan([to |-> "older", only |-> TRUE, state |-> "succeeded"], "older"),
                  WithPlan([to |-> "older", only |-> TRUE, state |-> "failed"], tenkai.deployed)}

\* The command reports an outcome and maybe the resource it made.  A provenance
\* export that fails comes before it.
Outcomes == {"succeeded", "failed", "awaiting_approval", "unknown"}
Ref(action) == IF action \in {"plan", "rollback"} THEN Len(tenkai'.plans) ELSE 1
Call(s) ==
    LET x == exec[s] IN
    /\ At(s, "call")
    /\ \/ /\ tenkai' \in Effects(s, x.action)
          /\ \E result \in Outcomes, ref \in {0, Ref(x.action)} :
                exec' = [exec EXCEPT ![s] = [x EXCEPT !.pc = "look", !.result = result, !.ref = ref]]
       \/ /\ \E result \in Outcomes \ {"succeeded"} :
                exec' = [exec EXCEPT ![s] = [x EXCEPT !.pc = "look", !.result = result]]
          /\ UNCHANGED tenkai
    /\ unsettled' = IF exec'[s].result = "unknown" THEN unsettled \cup {s} ELSE unsettled
    /\ UNCHANGED <<session, previews, reader, outside>>

\* The request is cancelled, the answer incompatible or something cannot be read or written.
Throw(s) ==
    /\ ~At(s, "idle")
    /\ tenkai' \in {tenkai} \cup (IF At(s, "call") THEN Effects(s, exec[s].action) ELSE {})
    /\ Leave(s)
    /\ UNCHANGED <<session, previews, reader, unsettled, outside>>

\* What the inspection that follows a call makes of the session.
Published(s) ==
    LET x == exec[s] r == [x.snap EXCEPT !.release = @ \/ x.ref # 0] IN
    IF x.result = "succeeded" /\ x.ref # 0 /\ s \in tenkai.released /\ s \notin expired
    THEN [r EXCEPT !.state = "published", !.complete = "partial", !.prov = TRUE]
    ELSE [r EXCEPT !.state = "publication_unknown", !.complete = "unknown"]

Promoted(s) ==
    LET x == exec[s] r == [x.snap EXCEPT !.channel = @ \/ x.ref # 0] IN
    IF x.result = "succeeded" /\ x.ref # 0 /\ tenkai.head = s
    THEN [r EXCEPT !.state = "promoted"]
    ELSE [r EXCEPT !.state = "unknown", !.complete = "unknown"]

\* A command that succeeded without naming its plan leaves the earlier one.
PlanOf(x) == IF x.result = "succeeded" /\ x.ref = 0 THEN x.snap.plan ELSE x.ref

Planned(s) ==
    LET x == exec[s] r == [x.snap EXCEPT !.plan = PlanOf(x)] IN
    IF x.result = "succeeded" /\ CandidateOnly(s, r, x.ref)
    THEN [r EXCEPT !.state = "planned"]
    ELSE [r EXCEPT !.state = "unknown", !.complete = "unknown"]

Recovered(s) ==
    LET x == exec[s] r == [x.snap EXCEPT !.rollback = x.ref] IN
    IF x.result = "succeeded" /\ RolledBack(s, x.ref)
    THEN [r EXCEPT !.state = "recovered", !.complete = Complete(s, r)]
    ELSE [r EXCEPT !.state = IF x.result = "unknown" THEN "unknown" ELSE "failed", !.complete = "unknown"]

Look(s) ==
    LET x == exec[s] IN
    /\ At(s, "look")
    /\ \/ Save(s, CASE x.action = "publish" -> Published(s)
                    [] x.action = "promote" -> Promoted(s)
                    [] x.action = "plan" -> Planned(s)
                    [] x.action = "apply" -> Reconciled(s, x.snap, x.result)
                    [] x.action = "rollback" -> Recovered(s))
       \/ Save(s, [x.snap EXCEPT          \* the inspection fails or is cancelled
             !.state = IF x.action = "publish" THEN "publication_unknown" ELSE "unknown",
             !.complete = "unknown",
             !.release = @ \/ (x.action = "publish" /\ x.ref # 0),
             !.channel = @ \/ (x.action = "promote" /\ x.ref # 0),
             !.plan = IF x.action = "plan" THEN PlanOf(x) ELSE @,
             !.rollback = IF x.action = "rollback" THEN x.ref ELSE @])
    /\ unsettled' = IF x.action = "apply" /\ session'[s].state # "unknown" THEN unsettled \ {s} ELSE unsettled
    /\ UNCHANGED <<tenkai, outside>>

\* The stage that Tenkai still shows of what is not terminal.
StageShown(s, r) ==
    IF CandidateOnly(s, r, r.plan) /\ Latest.state # "failed" THEN "planned"
    ELSE IF r.channel /\ tenkai.head = s THEN "promoted" ELSE "none"

\* reconcile: a release that is not there, or not matching, is an error.
Reconcile(s) ==
    LET r == exec[s].snap n == Reconciled(s, r, "none") IN
    /\ At(s, "reconcile")
    /\ IF (r.release \/ r.state = "publication_unknown") /\ s \notin tenkai.released
       THEN Leave(s) /\ UNCHANGED <<session, previews, reader, unsettled>>
       ELSE /\ unsettled' = unsettled \ {s}
            /\ IF r.state = "publication_unknown"
               THEN Save(s, [r EXCEPT !.state = "published", !.release = TRUE, !.prov = TRUE,
                       !.complete = IF s \in expired THEN "stale" ELSE "partial"])
               ELSE /\ Put(s, n) /\ Outdate(s)
                    /\ IF n.state # "unknown" THEN Leave(s)
                       ELSE exec' = [exec EXCEPT ![s].pc = "settle", ![s].snap = n, ![s].result = StageShown(s, r)]
    /\ UNCHANGED <<tenkai, outside>>

\* One look at Tenkai is enough, it is not asked again until it is terminal.
GiveUp_never(s) == Goto(s, "reconcile")
GiveUp(s) == Leave(s)

\* What is not terminal goes back to the stage that was seen before the save.
Settle(s) ==
    LET x == exec[s] IN
    /\ At(s, "settle")
    /\ IF x.result # "none"
       THEN Save(s, [x.snap EXCEPT !.state = x.result,
                !.complete = IF Fresh(s, x.snap) THEN "partial" ELSE "stale"])
       ELSE GiveUp(s) /\ UNCHANGED <<session, previews, reader>>
    /\ UNCHANGED <<tenkai, unsettled, outside>>

-----------------------------------------------------------------------------
\* Everything else.

Prepare(s) ==
    /\ session[s].state = "none" /\ worktree = s
    /\ Put(s, [Unprepared EXCEPT !.state = "candidate_ready"])
    /\ UNCHANGED <<exec, reader, tenkai, unsettled, outside>>

Event == events < MaxEvents /\ events' = events + 1

\* Newer sessions push one out of the ledger, which keeps 50.
Evict(s) ==
    /\ Event /\ Exists(s)
    /\ session' = [session EXCEPT ![s].state = "evicted"]
    /\ Unbound(s) /\ Outdate(s)
    /\ UNCHANGED <<exec, worktree, expired, allowed, tenkai, unsettled>>

Commit(w) ==
    /\ Event /\ worktree # w /\ worktree' = w
    /\ UNCHANGED <<session, previews, exec, reader, expired, allowed, tenkai, unsettled>>

Expire(s) ==
    /\ Event /\ s \notin expired /\ session[s].prov /\ expired' = expired \cup {s}
    /\ UNCHANGED <<session, previews, exec, reader, worktree, allowed, tenkai, unsettled>>

\* External: somebody else promotes, plans, or the deployment changes its health.
Others ==
    /\ Event
    /\ \/ tenkai' = [tenkai EXCEPT !.head = "older"]
       \/ /\ Len(tenkai.plans) < MaxPlans
          /\ tenkai' = WithPlan([to |-> "older", only |-> TRUE, state |-> "ready"], tenkai.deployed)
       \/ \E h \in {"healthy", "degraded", "error"} : tenkai' = [tenkai EXCEPT !.health = h]
    /\ UNCHANGED <<session, previews, exec, reader, worktree, expired, allowed, unsettled>>

Crash ==
    /\ Event
    /\ previews' = [s \in Sessions |-> {}]
    /\ exec' = [s \in Sessions |-> Idle] /\ reader' = [s \in Sessions |-> Unread]
    /\ UNCHANGED <<session, worktree, expired, allowed, tenkai, unsettled>>

-----------------------------------------------------------------------------
\* Every command and inspection has a timeout.
Execution(s) ==
    CheckFresh(s) \/ Evaluate(s) \/ Applying(s) \/ Call(s) \/ Look(s) \/ Reconcile(s) \/ Settle(s)

Next ==
    \/ \E s \in Sessions :
          \/ Prepare(s) \/ Read(s) \/ Judge(s)
          \/ \E a \in Actions : Enter(s, a)
          \/ Execution(s) \/ Throw(s)
          \/ Evict(s) \/ Expire(s)
    \/ \E w \in Sessions \cup {None} : Commit(w)
    \/ Others \/ Crash

Spec == Init /\ [][Next]_vars
FairSpec == Spec /\ \A s \in Sessions : WF_vars(Execution(s))

-----------------------------------------------------------------------------
TypeOK ==
    /\ \A s \in Sessions :
          /\ session[s].state \in States
          /\ session[s].plan \in 0..Len(tenkai.plans) /\ session[s].rollback \in 0..Len(tenkai.plans)
          /\ previews[s] \subseteq Actions
          /\ At(s, "call") => exec[s].action \in Mutations
          /\ reader[s].bound => reader[s].snap = session[s]
    /\ unsettled \subseteq Sessions /\ expired \subseteq Sessions /\ allowed \subseteq Sessions
    /\ tenkai.released \subseteq Sessions /\ Len(tenkai.plans) <= MaxPlans

\* Each stage of a session rests on the ones before it, in Chisei and in Tenkai
\* too, whatever was retried, cancelled, reconciled or cut off in between.
StagesInOrder ==
    \A s \in Sessions : LET r == session[s] IN
       /\ r.state \in {"governance_allowed", "published", "promoted", "planned", "applying", "completed"}
            => r.allow /\ s \in allowed
       /\ r.state \in {"published", "promoted", "planned", "applying", "completed"} => r.release /\ r.prov /\ s \in tenkai.released
       /\ r.state \in {"promoted", "planned", "applying", "completed"} => r.channel
       /\ r.state \in {"planned", "applying", "completed"} => r.plan # 0
       /\ r.release => r.state \notin {"candidate_ready", "governance_denied", "governance_unavailable", "governance_unknown", "governance_allowed"}

\* A session is completed or recovered only by a plan of its own that Tenkai
\* ended well, and its receipt complete only then.
TerminalIsProven ==
    \A s \in Sessions : LET r == session[s] IN
       /\ r.state = "completed" => tenkai.plans[r.plan].state = "succeeded" /\ tenkai.plans[r.plan].to = s
       /\ r.state = "recovered" => tenkai.plans[r.rollback].state = "succeeded"
       /\ r.complete = "complete" => r.state \in {"completed", "recovered", "evicted"}

\* Tenkai is asked to apply only a plan of one step, for the candidate.
OnlyCandidateApplied ==
    \A s \in Sessions : exec[s].action = "apply" /\ At(s, "call") =>
       tenkai.plans[exec[s].snap.plan].only /\ tenkai.plans[exec[s].snap.plan].to = s

\* An execution finds its session in a state in which its action was offered,
\* although only the preview looked at the state; and until it ends nothing else
\* saves the session, except that it may be found stale or leave the ledger.
ActsAsConfirmed ==
    \A s \in Sessions :
       /\ At(s, "fresh") => Available(exec[s].action, exec[s].snap)
       /\ exec[s].pc # "idle" => session[s] = exec[s].snap \/ session[s].state \in {"stale", "evicted"}

\* What is executed is what the operator confirmed, on the candidate.
ConfirmedIsExecuted == OnlyCandidateApplied /\ ActsAsConfirmed

\* An execution ends, and with it the wait of the next one.
ExecutionEnds == \A s \in Sessions : (exec[s].pc # "idle") ~> (exec[s].pc = "idle")

\* A mutation whose outcome is unknown is reconciled before another is called.
ReconciledBeforeRetry == [][\A s \in Sessions : At(s, "call") /\ exec'[s].pc = "look" => s \notin unsettled]_vars
================================================================================
