------------------------------ MODULE AutonomyRuns ------------------------------
(***************************************************************************)
(* The autonomy engine: durable runs of a read-only flow, executed step by *)
(* step in memory, while the operator cancels and resumes them, heartbeats *)
(* and hooks start further ones, and the host may stop.                    *)
(*                                                                         *)
(* An execution saves whole records that it computed from an earlier read, *)
(* so reading and saving are steps of their own.  The operation of a step  *)
(* runs beside the execution that waits for it: it may go on after it was  *)
(* timed out and aborted.                                                  *)
(*                                                                         *)
(* Left out: what the steps find, the wall clock (a heartbeat may always   *)
(* be due, a hook may always be cooling down, a runtime budget may always  *)
(* be exhausted), standing orders, and which of several monitors is meant. *)
(*                                                                         *)
(* A definition Name_variant is not part of the specification: it is the   *)
(* form Name would take under a plausible bug, kept to show that a         *)
(* property would notice.                                                  *)
(***************************************************************************)
EXTENDS Naturals

CONSTANTS
    Runs,         \* the ids that startFlow may draw
    Steps,        \* number of steps of the flow
    MaxAttempts,  \* of each step
    MaxRequests,  \* bound: operator requests
    MaxCrashes    \* bound: stops of the host

ASSUME FlowIsNonEmpty == Steps \in Nat \ {0} /\ MaxAttempts \in Nat \ {0}
ASSUME BoundsAreNat == MaxRequests \in Nat /\ MaxCrashes \in Nat

VARIABLES
    run,       \* durable: status of each run, and whether a hook triggered it
    task,      \* durable: status and attempt of each step of each run
    monitor,   \* durable: whether the heartbeat exists, and its lastRunId
    tails,     \* executions queued for a run, the active one included
    exec,      \* the active execution of a run
    left,      \* operations that timed out, did not stop, and still run
    starting,  \* per starter of monitor runs: the monitor it read, and its run
    host,      \* "up" or "recovering"
    requests, crashes,
    resumed    \* history: how often a run was resumed since the host started

vars == <<run, task, monitor, tails, exec, left, starting, host, requests, crashes, resumed>>

NoRun == "none"
Terminal == {"succeeded", "failed", "cancelled"}
Idle == [pc |-> "idle", step |-> 0, attempt |-> 0]
Nothing == [run |-> NoRun, last |-> NoRun]
Starters == {"tick", "now"}

Init ==
    /\ run = [r \in Runs |-> [status |-> "none", hook |-> FALSE]]
    /\ task = [r \in Runs |-> [s \in 1..Steps |-> [status |-> "queued", attempt |-> 0]]]
    /\ monitor = [exists |-> TRUE, last |-> NoRun]
    /\ tails = [r \in Runs |-> 0]
    /\ exec = [r \in Runs |-> Idle]
    /\ starting = [w \in Starters |-> Nothing]
    /\ host = "up"
    /\ requests = 0 /\ crashes = 0
    /\ left = [r \in Runs |-> 0] /\ resumed = [r \in Runs |-> 0]

-----------------------------------------------------------------------------
\* Starting runs.

Fresh(r) == run[r].status = "none"

\* startFlow saves the run with its tasks and queues an execution.
StartFlow(r) ==
    /\ Fresh(r)
    /\ run' = [run EXCEPT ![r] = [status |-> "queued", hook |-> FALSE]]
    /\ tails' = [tails EXCEPT ![r] = 1]

Request == host = "up" /\ requests < MaxRequests /\ requests' = requests + 1

StartGardener(r) ==
    /\ Request /\ StartFlow(r)
    /\ UNCHANGED <<task, monitor, exec, starting, host, crashes, left, resumed>>

\* A tick starts a run of a due monitor whose last run is over, "run now" always.
Open(last) == last # NoRun /\ run[last].status \notin Terminal

TickHeartbeats(r) ==
    /\ host = "up" /\ starting["tick"] = Nothing
    /\ monitor.exists /\ ~Open(monitor.last)
    /\ StartFlow(r)
    /\ starting' = [starting EXCEPT !["tick"] = [run |-> r, last |-> monitor.last]]
    /\ UNCHANGED <<task, monitor, exec, host, requests, crashes, left, resumed>>

RunNow(r) ==
    /\ Request /\ starting["now"] = Nothing /\ monitor.exists
    /\ StartFlow(r)
    /\ starting' = [starting EXCEPT !["now"] = [run |-> r, last |-> monitor.last]]
    /\ UNCHANGED <<task, monitor, exec, host, crashes, left, resumed>>

\* The monitor is saved from what was read before the run was started.
SaveMonitor(w) ==
    /\ starting[w] # Nothing
    /\ monitor' = [exists |-> TRUE, last |-> starting[w].run]
    /\ starting' = [starting EXCEPT ![w] = Nothing]
    /\ UNCHANGED <<run, task, tails, exec, host, requests, crashes, left, resumed>>

DeleteMonitor ==
    /\ Request /\ monitor.exists
    /\ monitor' = [monitor EXCEPT !.exists = FALSE]
    /\ UNCHANGED <<run, task, tails, exec, starting, host, crashes, left, resumed>>

-----------------------------------------------------------------------------
\* An execution of a run.

At(r, pc) == exec[r].pc = pc
Goto(r, pc) == exec' = [exec EXCEPT ![r].pc = pc]
Return(r) ==
    /\ exec' = [exec EXCEPT ![r] = Idle]
    /\ tails' = [tails EXCEPT ![r] = @ - 1]

Begin(r) ==
    /\ At(r, "idle") /\ tails[r] > 0
    /\ IF run[r].status \in Terminal THEN Return(r) ELSE Goto(r, "start") /\ UNCHANGED tails
    /\ UNCHANGED <<run, task, monitor, starting, host, requests, crashes, left, resumed>>

\* The run is saved as running, or as failed when its flow is not available.
Start(r) ==
    /\ At(r, "start")
    /\ \/ /\ run' = [run EXCEPT ![r].status = "running"]
          /\ exec' = [exec EXCEPT ![r] = [exec[r] EXCEPT !.pc = "next", !.step = 1]]
       \/ run' = [run EXCEPT ![r].status = "failed"] /\ Goto(r, "report")
    /\ UNCHANGED <<task, monitor, tails, starting, host, requests, crashes, left, resumed>>

\* The top of the loop reads the run and the task of the step.
NextStep(r) ==
    LET s == exec[r].step IN
    /\ At(r, "next")
    /\ \/ s <= Steps /\ Goto(r, "exhausted") /\ UNCHANGED tails
       \/ /\ run[r].status = "cancelled" \/ (s <= Steps /\ run[r].status \in Terminal)
          /\ Return(r)
       \/ /\ s <= Steps /\ run[r].status \notin Terminal
          /\ exec' = [exec EXCEPT ![r] =
                IF task[r][s].status = "succeeded" THEN [exec[r] EXCEPT !.step = s + 1]
                ELSE [exec[r] EXCEPT !.pc = "run", !.attempt = task[r][s].attempt + 1]]
          /\ UNCHANGED tails
       \/ s > Steps /\ run[r].status # "cancelled" /\ Goto(r, "finish") /\ UNCHANGED tails
    /\ UNCHANGED <<run, task, monitor, starting, host, requests, crashes, left, resumed>>

\* Run and task are saved as running.  The attempts start at the task's own
\* count: a count that is already at its limit gets none, and no error either.
RunStep(r) ==
    LET x == exec[r] IN
    /\ At(r, "run")
    /\ run' = [run EXCEPT ![r].status = "running"]
    /\ task' = [task EXCEPT ![r][x.step] = [status |-> "running", attempt |-> x.attempt]]
    /\ exec' = [exec EXCEPT ![r] =
          IF x.attempt > MaxAttempts THEN [x EXCEPT !.pc = "next", !.step = @ + 1]
          ELSE [x EXCEPT !.pc = "attempt"]]
    /\ UNCHANGED <<monitor, tails, starting, host, requests, crashes, left, resumed>>

\* The operation ends well: the task is saved as succeeded whatever its state.
OperationSucceeds(r) ==
    LET x == exec[r] IN
    /\ At(r, "attempt")
    /\ task' = [task EXCEPT ![r][x.step] = [status |-> "succeeded", attempt |-> x.attempt]]
    /\ exec' = [exec EXCEPT ![r] = [x EXCEPT !.pc = "next", !.step = @ + 1]]
    /\ UNCHANGED <<run, monitor, tails, starting, host, requests, crashes, left, resumed>>

\* A failed attempt is tried again, without a look at the records.
Retried_once_more(x) ==
    IF x.attempt <= MaxAttempts THEN [x EXCEPT !.attempt = @ + 1]
    ELSE [x EXCEPT !.pc = "fail"]
Retried(x) ==
    IF x.attempt < MaxAttempts THEN [x EXCEPT !.attempt = @ + 1]
    ELSE [x EXCEPT !.pc = "fail"]

OperationFails(r) ==
    /\ At(r, "attempt")
    /\ exec' = [exec EXCEPT ![r] = Retried(exec[r])]
    /\ UNCHANGED <<run, task, monitor, tails, starting, host, requests, crashes, left, resumed>>

\* withTimeout aborts the operation and waits a while for it to stop: one that
\* does not stop is left behind, and is not tried again by this execution.
TimesOut_retries(r) ==
    /\ At(r, "attempt")
    /\ exec' = [exec EXCEPT ![r] = Retried(exec[r])]
    /\ left' = [left EXCEPT ![r] = @ + 1]
    /\ UNCHANGED <<run, task, monitor, tails, starting, host, requests, crashes, resumed>>
TimesOut_waits(r) == At(r, "attempt") /\ UNCHANGED vars
TimesOut(r) ==
    /\ At(r, "attempt")
    /\ Goto(r, "fail")
    /\ left' = [left EXCEPT ![r] = @ + 1]
    /\ UNCHANGED <<run, task, monitor, tails, starting, host, requests, crashes, resumed>>

\* What was left behind stops later, if ever; nothing waits for it.
LeftBehindStops(r) ==
    /\ left[r] > 0
    /\ left' = [left EXCEPT ![r] = @ - 1]
    /\ UNCHANGED <<run, task, monitor, tails, exec, starting, host, requests, crashes, resumed>>

\* failRun and the end of a failed step.
Fail(r) ==
    /\ exec[r].pc \in {"fail", "exhausted"}
    /\ run' = [run EXCEPT ![r].status = "failed"]
    /\ task' = IF At(r, "fail")
               THEN [task EXCEPT ![r][exec[r].step] = [status |-> "failed", attempt |-> exec[r].attempt]]
               ELSE task
    /\ Goto(r, "report")
    /\ UNCHANGED <<monitor, tails, starting, host, requests, crashes, left, resumed>>

Finish(r) ==
    /\ At(r, "finish")
    /\ run' = [run EXCEPT ![r].status = "succeeded"]
    /\ Goto(r, "report")
    /\ UNCHANGED <<task, monitor, tails, starting, host, requests, crashes, left, resumed>>

\* Hooks may react to a run that went through, unless a hook started it.
End(r) ==
    \/ Return(r) /\ UNCHANGED run
    \/ /\ exec[r].step > Steps /\ ~run[r].hook
       /\ \E h \in Runs :
             /\ Fresh(h)
             /\ run' = [run EXCEPT ![h] = [status |-> "queued", hook |-> TRUE]]
             /\ tails' = [tails EXCEPT ![r] = @ - 1, ![h] = 1]
       /\ exec' = [exec EXCEPT ![r] = Idle]

\* updateHeartbeatStatus reads the monitor whose last run this is and saves it.
Report(r) ==
    /\ At(r, "report")
    /\ IF monitor.exists /\ monitor.last = r THEN Goto(r, "save") /\ UNCHANGED <<run, tails>> ELSE End(r)
    /\ UNCHANGED <<task, monitor, starting, host, requests, crashes, left, resumed>>

SaveStatus(r) ==
    /\ At(r, "save")
    /\ monitor' = [exists |-> TRUE, last |-> r]
    /\ End(r)
    /\ UNCHANGED <<task, starting, host, requests, crashes, left, resumed>>

-----------------------------------------------------------------------------
\* The operator.

Cancel(r) ==
    /\ Request /\ ~Fresh(r) /\ run[r].status \notin Terminal
    /\ run' = [run EXCEPT ![r].status = "cancelled"]
    /\ task' = [task EXCEPT ![r] = [s \in 1..Steps |->
          IF task[r][s].status \in {"succeeded", "failed"} THEN task[r][s]
          ELSE [task[r][s] EXCEPT !.status = "cancelled"]]]
    /\ UNCHANGED <<monitor, tails, exec, starting, host, crashes, left, resumed>>

\* The tasks that did not succeed start again from their first attempt.
Requeued_attempts(t) == IF t.status \in {"lost", "failed"} THEN [t EXCEPT !.status = "queued"] ELSE t
Requeued(t) == IF t.status \in {"lost", "failed"} THEN [status |-> "queued", attempt |-> 0] ELSE t

Resume(r) ==
    /\ Request /\ run[r].status \in {"lost", "failed"}
    /\ run' = [run EXCEPT ![r] = [status |-> "queued", hook |-> FALSE]]
    /\ task' = [task EXCEPT ![r] = [s \in 1..Steps |-> Requeued(task[r][s])]]
    /\ tails' = [tails EXCEPT ![r] = @ + 1]
    /\ resumed' = [resumed EXCEPT ![r] = @ + 1]
    /\ UNCHANGED <<monitor, exec, starting, host, crashes, left>>

-----------------------------------------------------------------------------
Crash ==
    /\ crashes < MaxCrashes /\ crashes' = crashes + 1
    /\ tails' = [r \in Runs |-> 0] /\ exec' = [r \in Runs |-> Idle]
    /\ left' = [r \in Runs |-> 0] /\ resumed' = [r \in Runs |-> 0]
    /\ starting' = [w \in Starters |-> Nothing]
    /\ host' = "recovering"
    /\ UNCHANGED <<run, task, monitor, requests>>

\* recoverAutonomyRuns: a running run is lost, a queued one stays queued.
Lost(record) == IF record.status = "running" THEN [record EXCEPT !.status = "lost"] ELSE record
Recover ==
    /\ host = "recovering" /\ host' = "up"
    /\ run' = [r \in Runs |-> Lost(run[r])]
    /\ task' = [r \in Runs |-> [s \in 1..Steps |->
          IF run[r].status = "running" THEN Lost(task[r][s]) ELSE task[r][s]]]
    /\ UNCHANGED <<monitor, tails, exec, starting, requests, crashes, left, resumed>>

-----------------------------------------------------------------------------
\* What an execution does by itself: an operation may never end, its timeout does.
Execution(r) ==
    \/ Begin(r) \/ Start(r) \/ NextStep(r) \/ RunStep(r) \/ TimesOut(r)
    \/ Fail(r) \/ Finish(r) \/ Report(r) \/ SaveStatus(r)

Next ==
    \/ \E r \in Runs :
          \/ Execution(r) \/ OperationSucceeds(r) \/ OperationFails(r) \/ LeftBehindStops(r)
          \/ StartGardener(r) \/ TickHeartbeats(r) \/ RunNow(r)
          \/ Cancel(r) \/ Resume(r)
    \/ \E w \in Starters : SaveMonitor(w)
    \/ DeleteMonitor
    \/ Crash \/ Recover

Spec == Init /\ [][Next]_vars
FairSpec == Spec /\ \A r \in Runs : WF_vars(Execution(r))

-----------------------------------------------------------------------------
TypeOK ==
    /\ run \in [Runs -> [status : {"none", "queued", "running", "lost"} \cup Terminal, hook : BOOLEAN]]
    /\ task \in [Runs -> [1..Steps -> [
          status : {"queued", "running", "succeeded", "failed", "cancelled", "lost"},
          attempt : 0..(MaxAttempts + 1)]]]
    /\ monitor \in [exists : BOOLEAN, last : Runs \cup {NoRun}]
    /\ \A r \in Runs : exec[r].pc \in {"attempt", "fail"} => exec[r].attempt \in 1..MaxAttempts
    /\ host \in {"up", "recovering"}
    /\ left \in [Runs -> Nat] /\ resumed \in [Runs -> Nat]

\* A run that ended well has done every one of its steps, however often it was
\* cancelled, lost, failed and resumed, and whatever attempts its tasks counted.
SuccessIsComplete ==
    \A r \in Runs : run[r].status = "succeeded" => \A s \in 1..Steps : task[r][s].status = "succeeded"

\* No run is recorded as running that nothing executes.
RunningIsExecuted ==
    host = "up" => \A r \in Runs : run[r].status = "running" => tails[r] > 0

\* Of the operations of a run that go on at once, all but one are owed to
\* resumes since the host started: a retry, a heartbeat, a hook or recovery never
\* starts a step beside one that timed out and did not stop.  (A resume does: it
\* does not ask whether the operation of the failed execution has stopped.)
Operations(r) == left[r] + (IF At(r, "attempt") THEN 1 ELSE 0)
OverlapNeedsResume == \A r \in Runs : Operations(r) <= 1 + resumed[r]

\* What is recorded as running is executed, and each execution of a run was
\* asked for: at the start, or by a resume, which alone can let one step run
\* beside another.
RunsAreExecutedOnce == RunningIsExecuted /\ OverlapNeedsResume

\* An execution comes to its end though its operations never do.
ExecutionEnds == \A r \in Runs : (tails[r] > 0) ~> (tails[r] = 0)

\* A cancelled run stays cancelled.
CancelIsSticky == [][\A r \in Runs : run[r].status = "cancelled" => run'[r].status = "cancelled"]_vars
================================================================================
