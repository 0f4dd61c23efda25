--------------------------- MODULE AutomationFires ---------------------------
(***************************************************************************)
(* server/automations.ts: durable prompts fired into conversations by a    *)
(* schedule tick or by "run now", and the fire records of server/state.ts  *)
(* that make every slot and every request idempotent.                      *)
(*                                                                         *)
(* Automations are numbered in the order of the store file.  A clock unit  *)
(* is a cron minute.  Two stores are written one after the other: the      *)
(* journal (fires, latest, turns) and the automations file (lastRunAt), so *)
(* a crash can fall between them.  The status line shown to the operator,  *)
(* the advisory hook, failing writes and the editing of automations are    *)
(* left out; Count <= 4 keeps the due automations within the scheduler's   *)
(* workers.                                                                *)
(***************************************************************************)
EXTENDS Integers, Sequences, SequencesExt

CONSTANTS
    Count,           \* automations 1..Count, all enabled
    Cron,            \* those with a cron schedule that matches every minute
    Threads,         \* conversations, each in a worktree of its own
    Target,          \* the conversation of each automation
    Period,          \* the interval of the others
    Ends,            \* how the turn of a fire may end
    Refusals,        \* the outcome of a run that got no turn
    MaxTime,         \* bound: the clock
    MaxRequests,     \* bound: "run now" requests
    MaxCrashes       \* bound: crashes

Automations == 1..Count

ASSUME BoundsAreNat ==
    /\ Count \in Nat \ {0} /\ Count <= 4
    /\ Period \in Nat \ {0}
    /\ MaxTime \in Nat /\ MaxRequests \in Nat /\ MaxCrashes \in Nat
ASSUME EndsAreKnown == /\ Ends \subseteq {"completed", "failed", "unproven"}
                       /\ "failed" \in Refusals /\ Refusals \subseteq {"failed", "unknown"}
ASSUME TargetsExist == Cron \subseteq Automations
                       /\ Target \in [Automations -> Threads]

VARIABLES
    clock,           \* now
    up,              \* the host runs and has recovered
    last,            \* lastRunAt of each automation, in the automations file
    fires,           \* fire records by key (automationFireByKey)
    latest,          \* the key of each automation's fire that was created last
    tick,            \* the tick in progress
    handler,         \* the #execute calls, of the tick and of the requests
    tail,            \* #threadExecutionTails: who waits for a conversation
    userRun,         \* what a person has going in each conversation
    started,         \* history: when a turn was started for a key
    crashes

vars == <<clock, up, last, fires, latest, tick, handler, tail, userRun, started, crashes>>
hostVars == <<tick, handler, tail, userRun>>
bounds == <<clock, crashes>>

Never == -1

Handlers == ({"tick"} \X Automations) \cup ({"request"} \X (1..MaxRequests))

\* A key names its automation, its kind and a slot or a request.
ScheduledKey(a, slot) == <<a, "scheduled", slot>>
ManualKey(a, name) == <<a, "manual", name>>
Keys == {ScheduledKey(a, slot) : a \in Automations, slot \in 0..(MaxTime + Period)}
            \cup {ManualKey(a, name) : a \in Automations, name \in 1..MaxRequests}
AutoOf(k) == k[1]
KindOf(k) == k[2]
NoKey == <<1, "none", 0>>

NoHandler == [pc |-> "idle", key |-> NoKey, at |-> 0, outcome |-> "none"]
NoTick == [pc |-> "idle", todo |-> {}, at |-> 0,
           seen |-> [a \in Automations |-> Never], claimed |-> {}]

Init ==
    /\ clock = 0 /\ up = TRUE
    /\ last = [a \in Automations |-> Never]
    /\ fires = [k \in {} |-> FALSE]
    /\ latest = [a \in Automations |-> NoKey]
    /\ tick = NoTick
    /\ handler = [h \in Handlers |-> NoHandler]
    /\ tail = [t \in Threads |-> <<>>]
    /\ userRun = [t \in Threads |-> "none"]
    /\ started = [k \in Keys |-> <<>>]
    /\ crashes = 0

-----------------------------------------------------------------------------
(* Fire records                                                            *)

Known(k) == k \in DOMAIN fires

\* A new record.
Create(k, status) ==
    /\ fires' = [l \in DOMAIN fires \cup {k} |->
                    IF l = k THEN [status |-> status, turn |-> "none"] ELSE fires[l]]
    /\ latest' = [latest EXCEPT ![AutoOf(k)] = k]

\* recordAutomationFireSkippedBusy: only a key without a record gets one.
RecordSkippedBusy(k) ==
    IF Known(k) THEN UNCHANGED <<fires, latest>> ELSE Create(k, "skipped_busy")

\* An existing record may be claimed if it is scheduled, skipped and has no turn.
MayClaim(k) == /\ KindOf(k) = "scheduled"
               /\ fires[k].status = "skipped_busy" /\ fires[k].turn = "none"

\* automationFireOutcome: what the turn proves.
Outcome(turn) == IF turn \in {"completed", "failed"} THEN turn ELSE "unknown"

\* finishAutomationFire: a fire that has its outcome keeps it.
Finished(fire, outcome) ==
    IF fire.status \in {"started", "skipped_busy"} THEN [fire EXCEPT !.status = outcome]
    ELSE fire

-----------------------------------------------------------------------------
(* Conversations and their worktrees                                       *)

ThreadOf(h) == Target[AutoOf(handler[h].key)]

OwnTurns(t) == {h \in Handlers : handler[h].pc \in {"bind", "running"}
                                 /\ ThreadOf(h) = t}

\* inspectThreadBusy: a turn of the conversation is active or waits.
ThreadBusy(t) == userRun[t] \in {"turn", "waiting"} \/ OwnTurns(t) # {}

\* activeCheckpointWorktrees.  A run holds its worktree a little longer than its
\* turn lasts; whoever comes then is refused, which Refused allows at any time.
WorktreeHeld(t) == userRun[t] = "turn" \/ OwnTurns(t) # {}

\* A person in a conversation: a turn of theirs starts and ends; a turn that
\* waits for an answer holds no worktree.
UserStep(t) ==
    /\ up
    /\ \/ /\ userRun[t] = "none" /\ ~WorktreeHeld(t)
          /\ userRun' = [userRun EXCEPT ![t] = "turn"]
       \/ /\ userRun[t] # "none"
          /\ userRun' = [userRun EXCEPT ![t] = "none"]
    /\ UNCHANGED <<up, last, fires, latest, tick, handler, tail, started, bounds>>

-----------------------------------------------------------------------------
(* The schedule                                                            *)

\* isScheduleDue: an automation that was never evaluated is due, to be seeded.
Due(a, lastRun, now) ==
    \/ lastRun = Never
    \/ a \in Cron /\ now > lastRun
    \/ a \notin Cron /\ now >= lastRun + Period

\* #scheduledFireKey: the slot, not the moment it is noticed.
SlotOf(a, lastRun, now) == IF a \in Cron THEN now ELSE lastRun + Period

\* tick(): not re-entrant; the inventory is read once.
TickStart ==
    LET due == {a \in Automations : Due(a, last[a], clock)}
    IN  /\ up /\ tick.pc = "idle" /\ due # {}
        /\ tick' = [NoTick EXCEPT !.pc = "evaluate", !.todo = due, !.at = clock, !.seen = last]
        /\ UNCHANGED <<up, last, fires, latest, handler, tail, userRun, started, bounds>>

\* The next due automation of the inventory: seeded, skipped because its
\* conversation is busy or already claimed by this tick, or claimed.
Evaluate ==
    /\ up /\ tick.pc = "evaluate"
    /\ \E a \in tick.todo :
       LET t == Target[a]
           lastRun == tick.seen[a]
           key == ScheduledKey(a, SlotOf(a, lastRun, tick.at))
           next == [tick EXCEPT !.todo = tick.todo \ {a}]
       IN  /\ \A b \in tick.todo : a <= b
           /\ \/ /\ lastRun = Never
                 /\ last' = [last EXCEPT ![a] = tick.at]
                 /\ tick' = next
                 /\ UNCHANGED <<fires, latest, handler>>
              \/ /\ lastRun # Never
                 /\ t \in tick.claimed \/ ThreadBusy(t)
                 /\ RecordSkippedBusy(key)
                 /\ tick' = next
                 /\ UNCHANGED <<last, handler>>
              \/ /\ lastRun # Never
                 /\ t \notin tick.claimed /\ ~ThreadBusy(t)
                 /\ tick' = [next EXCEPT !.claimed = tick.claimed \cup {t}]
                 /\ handler' = [handler EXCEPT ![<<"tick", a>>] =
                                   [NoHandler EXCEPT !.pc = "due", !.key = key, !.at = tick.at]]
                 /\ UNCHANGED <<last, fires, latest>>
    /\ UNCHANGED <<up, tail, userRun, started, bounds>>

\* Everything that is due is executed, each behind the tail of its conversation.
TickLaunch ==
    /\ up /\ tick.pc = "evaluate" /\ tick.todo = {}
    /\ LET due == {h \in Handlers : handler[h].pc = "due"}
       IN  /\ handler' = [h \in Handlers |-> IF h \in due THEN [handler[h] EXCEPT !.pc = "lookup"]
                                             ELSE handler[h]]
           /\ tail' = [t \in Threads |->
                          tail[t] \o SetToSeq({h \in due : ThreadOf(h) = t})]
    /\ tick' = [NoTick EXCEPT !.pc = "executing"]
    /\ UNCHANGED <<up, last, fires, latest, userRun, started, bounds>>

\* The tick ends when all its executions have; until then every later tick
\* returns at once.
TickEnd ==
    /\ up /\ tick.pc = "executing"
    /\ \A a \in Automations : handler[<<"tick", a>>].pc = "idle"
    /\ tick' = NoTick
    /\ UNCHANGED <<up, last, fires, latest, handler, tail, userRun, started, bounds>>

\* runNow(): the client may repeat the key of an earlier request.  A retry of an
\* unknown fire is a request with a new key.
RunNow(r) ==
    LET h == <<"request", r>>
    IN  /\ up /\ handler[h].pc = "idle"
        /\ \A q \in 1..(r - 1) : handler[<<"request", q>>].pc # "idle"
        /\ \E a \in Automations, name \in 1..r :
              /\ handler' = [handler EXCEPT ![h] =
                                [NoHandler EXCEPT !.pc = "lookup", !.key = ManualKey(a, name),
                                                  !.at = clock]]
              /\ tail' = [tail EXCEPT ![Target[a]] = Append(@, h)]
        /\ UNCHANGED <<up, last, fires, latest, tick, userRun, started, bounds>>

-----------------------------------------------------------------------------
(* #execute                                                                *)

Runs(h, pc) ==
    /\ up /\ handler[h].pc = pc
    /\ Head(tail[ThreadOf(h)]) = h

Goto(h, pc) == handler' = [handler EXCEPT ![h].pc = pc] /\ UNCHANGED tail

\* finally: the next execution for the conversation may go.
Release(h) ==
    /\ handler' = [handler EXCEPT ![h] = IF h[1] = "tick" THEN NoHandler
                                         ELSE [NoHandler EXCEPT !.pc = "done"]]
    /\ tail' = [tail EXCEPT ![ThreadOf(h)] = Tail(@)]

SyncExisting_never(h) == UNCHANGED last

\* #syncExisting: a slot that has its outcome advances the schedule, unless the
\* automation has a later fire.
SyncExisting(h) ==
    LET k == handler[h].key
    IN  IF /\ KindOf(k) = "scheduled" /\ fires[k].status \notin {"started", "skipped_busy"}
           /\ latest[AutoOf(k)] = k
        THEN last' = [last EXCEPT ![AutoOf(k)] = handler[h].at]
        ELSE UNCHANGED last

\* A key that was already fired is not fired again; a busy conversation is
\* skipped (#saveSkippedBusy).  Nobody else touches the key in between.
Lookup(h) ==
    LET k == handler[h].key
        fired == Known(k) /\ fires[k].status # "skipped_busy"
    IN  /\ Runs(h, "lookup")
        /\ \/ /\ fired
              /\ SyncExisting(h)
              /\ Release(h)
              /\ UNCHANGED <<fires, latest>>
           \/ /\ ~fired /\ ThreadBusy(ThreadOf(h))
              /\ RecordSkippedBusy(k)
              /\ Release(h)
              /\ UNCHANGED last
           \/ /\ ~fired /\ ~ThreadBusy(ThreadOf(h))
              /\ Goto(h, "claim")
              /\ UNCHANGED <<last, fires, latest>>
        /\ UNCHANGED <<up, tick, userRun, started, bounds>>

\* claimAutomationFire, in the write queue of the journal.
Claim(h) ==
    LET k == handler[h].key
    IN  /\ Runs(h, "claim")
        /\ \/ /\ ~Known(k)
              /\ Create(k, "started")
              /\ Goto(h, "start")
              /\ UNCHANGED last
           \/ /\ Known(k) /\ MayClaim(k)
              /\ fires' = [fires EXCEPT ![k].status = "started"]
              /\ Goto(h, "start")
              /\ UNCHANGED <<last, latest>>
           \/ /\ Known(k) /\ ~MayClaim(k)
              /\ SyncExisting(h)
              /\ Release(h)
              /\ UNCHANGED <<fires, latest>>
        /\ UNCHANGED <<up, tick, userRun, started, bounds>>

\* fireAutomation: the run is admitted, holds the worktree, and starts its turn:
\* from here on the prompt is in the conversation ...
StartTurn(h) ==
    /\ Runs(h, "start")
    /\ ~WorktreeHeld(ThreadOf(h))
    /\ started' = [started EXCEPT ![handler[h].key] = Append(@, handler[h].at)]
    /\ Goto(h, "bind")
    /\ UNCHANGED <<up, last, fires, latest, tick, userRun, bounds>>

\* ... or it ends before it has a turn: refused, as when the worktree is held, or
\* for a reason that proves nothing.
Refused(h) ==
    /\ Runs(h, "start")
    /\ \E outcome \in Refusals :
          handler' = [handler EXCEPT ![h].pc = "finish", ![h].outcome = outcome]
    /\ UNCHANGED <<up, last, fires, latest, tick, tail, userRun, started, bounds>>

\* bindAutomationFireTurn, an append of its own.
BindTurn(h) ==
    /\ Runs(h, "bind")
    /\ fires' = [fires EXCEPT ![handler[h].key].turn = "open"]
    /\ Goto(h, "running")
    /\ UNCHANGED <<latest, up, last, tick, userRun, started, bounds>>

\* The turn completes, fails, or proves nothing: it is interrupted, or it waits
\* for its user when the run is over.
EndRun(h) ==
    /\ Runs(h, "running")
    /\ \E turn \in Ends :
          /\ fires' = [fires EXCEPT ![handler[h].key].turn = turn]
          /\ \/ UNCHANGED userRun
             \/ /\ turn = "unproven"
                /\ userRun' = [userRun EXCEPT ![ThreadOf(h)] = "waiting"]
    /\ Goto(h, "finish")
    /\ UNCHANGED <<up, last, latest, tick, started, bounds>>

\* #saveOutcome, after the teardown of the run: first the journal ...
Finish(h) ==
    /\ Runs(h, "finish")
    /\ LET k == handler[h].key
           outcome == IF handler[h].outcome = "none" THEN Outcome(fires[k].turn)
                      ELSE handler[h].outcome
       IN  fires' = [fires EXCEPT ![k] = Finished(fires[k], outcome)]
    /\ Goto(h, "save")
    /\ UNCHANGED <<latest, up, last, tick, userRun, started, bounds>>

\* ... then the automations file.
Save(h) ==
    /\ Runs(h, "save")
    /\ last' = [last EXCEPT ![AutoOf(handler[h].key)] = handler[h].at]
    /\ Release(h)
    /\ UNCHANGED <<up, fires, latest, tick, userRun, started, bounds>>

-----------------------------------------------------------------------------
(* The host                                                                *)

Crash ==
    /\ up /\ crashes < MaxCrashes
    /\ up' = FALSE
    /\ crashes' = crashes + 1
    /\ tick' = NoTick
    /\ handler' = [h \in Handlers |-> IF h[1] = "tick" \/ handler[h].pc = "idle" THEN NoHandler
                                      ELSE [NoHandler EXCEPT !.pc = "done"]]
    /\ tail' = [t \in Threads |-> <<>>]
    /\ userRun' \in {f \in [Threads -> {"none", "waiting"}] :
                       \A t \in Threads : f[t] = "waiting" => userRun[t] = "waiting"}
    /\ UNCHANGED <<clock, last, fires, latest, started>>

\* reconcileAutomationFires.
Reconciled_replay(fire) ==
    IF fire.status # "started" THEN fire
    ELSE [fire EXCEPT !.status = IF fire.turn = "none" THEN "skipped_busy" ELSE Outcome(fire.turn)]
Reconciled(fire) ==
    IF fire.status = "started" THEN [fire EXCEPT !.status = Outcome(fire.turn)] ELSE fire

\* recoverInterruptedTurns, then reconcileAutomationFires; the scheduler starts
\* and requests are served after both.  A native question
\* dies with its host, any other waits on.
Restart ==
    /\ ~up
    /\ up' = TRUE
    /\ fires' = [k \in DOMAIN fires |-> Reconciled(
                     IF fires[k].turn = "open" THEN [fires[k] EXCEPT !.turn = "unproven"]
                     ELSE fires[k])]
    /\ UNCHANGED <<latest, last, hostVars, started, bounds>>

Advance ==
    /\ clock < MaxTime
    /\ clock' = clock + 1
    /\ UNCHANGED <<up, last, fires, latest, hostVars, started, crashes>>

-----------------------------------------------------------------------------

\* What the code does by itself once it may.
ExecuteStep(h) ==
    \/ Lookup(h) \/ Claim(h) \/ Refused(h)
    \/ StartTurn(h) \/ BindTurn(h) \/ Finish(h) \/ Save(h)
TickStep == TickStart \/ Evaluate \/ TickLaunch \/ TickEnd

Next ==
    \/ TickStep
    \/ \E r \in 1..MaxRequests : RunNow(r)
    \/ \E h \in Handlers : ExecuteStep(h) \/ EndRun(h)
    \/ \E t \in Threads : UserStep(t)
    \/ Crash \/ Restart \/ Advance

Spec == Init /\ [][Next]_vars

\* The host's awaits return and its timer fires.  That provider runs end is an
\* assumption about providers, not about this code.
FairSpec ==
    /\ Spec
    /\ WF_vars(TickStep)
    /\ \A h \in Handlers : WF_vars(ExecuteStep(h)) /\ WF_vars(EndRun(h))

-----------------------------------------------------------------------------
(* Properties                                                              *)

\* The state is well typed, and only the executions of a conversation wait in
\* its tail.
TypeOK ==
    /\ clock \in 0..MaxTime /\ crashes \in 0..MaxCrashes /\ up \in BOOLEAN
    /\ last \in [Automations -> {Never} \cup 0..MaxTime]
    /\ DOMAIN fires \subseteq Keys
    /\ \A k \in DOMAIN fires :
          /\ fires[k].status \in {"started", "completed", "failed", "skipped_busy", "unknown"}
          /\ fires[k].turn \in {"none", "open", "unproven"} \cup Ends
    /\ \A a \in Automations : latest[a] \in {NoKey} \cup {k \in DOMAIN fires : AutoOf(k) = a}
    /\ tick.pc \in {"idle", "evaluate", "executing"} /\ tick.claimed \subseteq Threads
    /\ \A t \in Threads : \A k \in DOMAIN tail[t] : ThreadOf(tail[t][k]) = t
    /\ userRun \in [Threads -> {"none", "turn", "waiting"}]

\* "Reusing a key never creates another provider turn" (docs/automations.md:37),
\* whatever was skipped, repeated by a client or interrupted by a crash.
KeyRunsOnce == \A k \in Keys : Len(started[k]) <= 1

\* An outcome is proven: a fire is completed or failed on account of its own
\* turn, or failed because it never had one.
OutcomeIsProven ==
    \A k \in DOMAIN fires :
        /\ fires[k].status = "completed" => fires[k].turn = "completed"
        /\ fires[k].status = "failed" => fires[k].turn = "failed" \/ started[k] = <<>>

\* The schedule does not run an interval automation again before its interval
\* is over, also when a crash came between the run and its lastRunAt.  (An
\* automation that is also run by hand can be: see the README.)
RunsAreSpaced ==
    \A a \in Automations \ Cron :
        (\A k \in DOMAIN fires : AutoOf(k) = a => KindOf(k) = "scheduled")
        => \A k, l \in {k \in Keys : AutoOf(k) = a} :
              k[3] < l[3] => \A m \in DOMAIN started[k], n \in DOMAIN started[l] :
                                started[k][m] + Period <= started[l][n]

\* A fire takes effect once, is reported as what became of it, and the schedule
\* keeps its distance.
FiresAreExact == TypeOK /\ KeyRunsOnce /\ OutcomeIsProven /\ RunsAreSpaced

Unserved(a) == up /\ Due(a, last[a], clock) /\ ~ThreadBusy(Target[a])

\* A due automation of an idle conversation is served, whatever was interrupted
\* before, as long as its latest fire is one of the schedule.
DueIsServed ==
    \A a \in Automations :
        (Unserved(a) /\ KindOf(latest[a]) # "manual")
            ~> (~Unserved(a) \/ KindOf(latest[a]) = "manual")

\* Automations "fire into an existing conversation while the local host is
\* running" (docs/automations.md:3): the schedule never comes to a halt.
ScheduleGoesOn == \A a \in Automations : Unserved(a) ~> ~Unserved(a)

=============================================================================
