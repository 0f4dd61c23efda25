--------------------------- MODULE AutonomyRunsProofs ---------------------------
(***************************************************************************)
(* Safety of the autonomy engine for every set of runs, every number of    *)
(* steps and attempts, and every number of requests and crashes.           *)
(*                                                                         *)
(* SuccessIsComplete is not inductive.  Two ways lead around it: a step is *)
(* left behind when its task counts all its attempts and has not           *)
(* succeeded, and a run is saved as succeeded by an execution that passed  *)
(* its last step, whatever became of the records since.  IInv says which   *)
(* tasks an execution has behind it and what it may find before it.        *)
(***************************************************************************)
EXTENDS AutonomyRuns, TLAPS

Pcs == {"idle", "start", "next", "run", "attempt", "fail", "exhausted", "finish", "report", "save"}
RunStates == {"none", "queued", "running", "lost", "succeeded", "failed", "cancelled"}
TaskStates == {"queued", "running", "succeeded", "failed", "cancelled", "lost"}

RunRecord == [status : RunStates, hook : BOOLEAN]
TaskRecord == [status : TaskStates, attempt : 0..(MaxAttempts + 1)]
Executing == [pc : Pcs, step : 0..(Steps + 1), attempt : 0..MaxAttempts]
StartRecord == [run : Runs \cup {NoRun}, last : Runs \cup {NoRun}]
MonitorRecord == [exists : BOOLEAN, last : Runs \cup {NoRun}]

Typed ==
    /\ run \in [Runs -> RunRecord]
    /\ task \in [Runs -> [1..Steps -> TaskRecord]]
    /\ exec \in [Runs -> Executing]
    /\ tails \in [Runs -> Nat]
    /\ starting \in [Starters -> StartRecord]
    /\ monitor \in MonitorRecord
    /\ host \in {"up", "recovering"}

\* An execution is counted and at a step of the flow; a stop ends it.
ExecutionIsShaped(r) ==
    LET x == exec[r] IN
    /\ x.pc = "idle" => x = Idle
    /\ x.pc # "idle" => tails[r] > 0
    /\ host = "recovering" => tails[r] = 0
    /\ x.pc \in {"run", "attempt", "fail", "exhausted"} => x.step \in 1..Steps
    /\ x.pc = "run" => x.attempt = 1
    /\ x.pc \in {"attempt", "fail"} => x.attempt \in 1..MaxAttempts
    /\ x.pc = "next" => x.step \in 1..(Steps + 1)
    /\ x.pc = "finish" => x.step = Steps + 1

\* What an execution can find its run recorded as.
StatusFollowsExecution(r) ==
    LET x == exec[r] IN
    /\ x.pc = "idle" /\ host = "up" => run[r].status # "running"
    /\ x.pc = "idle" /\ tails[r] > 0 => run[r].status \in {"queued"} \cup Terminal
    /\ x.pc = "start" => run[r].status \in {"queued", "cancelled"}
    /\ x.pc \in {"next", "run", "attempt", "fail", "exhausted", "finish"}
         => run[r].status \in {"running", "cancelled"}
    /\ x.pc \in {"report", "save"} => run[r].status \in {"queued"} \cup Terminal

\* A task that has not succeeded has all its attempts before it.
Untried(t) == t.status # "succeeded" => t.attempt = 0

\* What lies behind an execution has succeeded, what lies before it is untried;
\* and a run that can be taken up again has only such tasks, or tasks that are
\* reset when it is.
TasksFollowExecution(r) ==
    LET x == exec[r] IN
    \A s \in 1..Steps :
       /\ x.pc \in {"next", "run", "attempt", "fail", "exhausted", "finish"} /\ s < x.step
            => task[r][s].status = "succeeded"
       /\ x.pc \in {"start", "next", "run", "exhausted", "finish"} => Untried(task[r][s])
       /\ x.pc \in {"attempt", "fail"} =>
             IF s = x.step
             THEN task[r][s].status = (IF run[r].status = "running" THEN "running" ELSE "cancelled")
             ELSE Untried(task[r][s])
       /\ x.pc \in {"idle", "report", "save"} =>
             /\ run[r].status \in {"none", "queued"} => Untried(task[r][s])
             /\ run[r].status = "running" => Untried(task[r][s]) \/ task[r][s].status = "running"
             /\ run[r].status \in {"lost", "failed"} =>
                   Untried(task[r][s]) \/ task[r][s].status \in {"lost", "failed"}
             /\ run[r].status = "succeeded" => task[r][s].status = "succeeded"

RunInv(r) == ExecutionIsShaped(r) /\ StatusFollowsExecution(r) /\ TasksFollowExecution(r)

IInv == Typed /\ \A r \in Runs : RunInv(r)

-----------------------------------------------------------------------------
(* Typing                                                                  *)

\* Records with one or more fields replaced.
LEMMA Updates ==
    /\ \A x \in Executing, p \in Pcs : [x EXCEPT !.pc = p] \in Executing
    /\ \A x \in RunRecord, v \in RunStates : [x EXCEPT !.status = v] \in RunRecord
    /\ \A x \in TaskRecord, v \in TaskStates : [x EXCEPT !.status = v] \in TaskRecord
    /\ Idle \in Executing /\ Nothing \in StartRecord
BY FlowIsNonEmpty DEF Executing, RunRecord, TaskRecord, Idle, Nothing, Pcs, StartRecord

\* The two ways in which an execution hands on.
LEMMA GotoTyped ==
    ASSUME Typed, NEW r \in Runs, NEW p \in Pcs, Goto(r, p)
    PROVE  exec' \in [Runs -> Executing]
BY Updates DEF Typed, Goto

LEMMA ReturnTyped ==
    ASSUME Typed, NEW r \in Runs, Return(r), tails[r] > 0
    PROVE  exec' \in [Runs -> Executing] /\ tails' \in [Runs -> Nat]
<1>1. exec' \in [Runs -> Executing]
  BY Updates DEF Typed, Return
<1>2. tails[r] \in Nat /\ tails[r] - 1 \in Nat
  BY DEF Typed
<1>3. QED
  BY <1>1, <1>2 DEF Typed, Return

\* Every step keeps the types of the records and of executions.
LEMMA TypeStep == IInv /\ [Next]_vars => Typed'
<1> SUFFICES ASSUME IInv, [Next]_vars PROVE Typed'
  OBVIOUS
<1>0. Typed /\ \A r \in Runs : exec[r].pc # "idle" => tails[r] > 0
  BY DEF IInv, RunInv, ExecutionIsShaped
<1>1. ASSUME NEW r \in Runs, Begin(r) PROVE Typed'
  <2>1. exec' \in [Runs -> Executing] /\ tails' \in [Runs -> Nat]
    BY <1>0, <1>1, GotoTyped, ReturnTyped DEF Begin, Pcs, Typed
  <2>2. QED
    BY <1>0, <1>1, <2>1 DEF Typed, Begin
<1>2. ASSUME NEW r \in Runs, Start(r) PROVE Typed'
  <2> DEFINE y == [exec[r] EXCEPT !.pc = "next", !.step = 1]
  <2>1. "next" \in Pcs /\ 1 \in 0..(Steps + 1) /\ exec[r] \in Executing
    BY <1>0, FlowIsNonEmpty DEF Pcs, Typed
  <2>2. y \in Executing
    BY <2>1 DEF Executing
  <2>3. exec' \in [Runs -> Executing]
    <3>1. CASE exec' = [exec EXCEPT ![r] = y]
      BY <1>0, <2>2, <3>1 DEF Typed
    <3>2. CASE Goto(r, "report")
      BY <1>0, <3>2, GotoTyped DEF Pcs
    <3>3. QED
      BY <1>2, <3>1, <3>2 DEF Start
  <2>4. run' \in [Runs -> RunRecord]
    <3>1. \A v \in RunStates : [run EXCEPT ![r].status = v] \in [Runs -> RunRecord]
      BY <1>0, Updates DEF Typed
    <3>2. "running" \in RunStates /\ "failed" \in RunStates
      BY DEF RunStates
    <3>3. QED
      BY <1>2, <3>1, <3>2 DEF Start
  <2>5. QED
    BY <1>0, <1>2, <2>3, <2>4 DEF Typed, Start
<1>3. ASSUME NEW r \in Runs, NextStep(r) PROVE Typed'
  <2> DEFINE s == exec[r].step
             y == [exec[r] EXCEPT !.step = s + 1]
             z == [exec[r] EXCEPT !.pc = "run", !.attempt = task[r][s].attempt + 1]
  <2>1. CASE s <= Steps /\ Goto(r, "exhausted") /\ UNCHANGED tails
    BY <1>0, <1>3, <2>1, GotoTyped DEF NextStep, Typed, Pcs
  <2>2. CASE Return(r)
    BY <1>0, <1>3, <2>2, ReturnTyped DEF NextStep, Typed, At
  <2>3. CASE s <= Steps /\ exec' = [exec EXCEPT ![r] = IF task[r][s].status = "succeeded" THEN y ELSE z] /\ UNCHANGED tails
    <3>1. s \in 1..Steps /\ exec[r] \in Executing /\ Untried(task[r][s])
      BY <1>0, <1>3, <2>3, FlowIsNonEmpty
         DEF NextStep, At, IInv, RunInv, ExecutionIsShaped, TasksFollowExecution, Typed
    <3>2. s + 1 \in 0..(Steps + 1) /\ 1 \in 0..MaxAttempts /\ "run" \in Pcs
      BY <3>1, FlowIsNonEmpty DEF Pcs
    <3>3. y \in Executing
      BY <3>1, <3>2 DEF Executing
    <3>4. ASSUME task[r][s].status # "succeeded" PROVE z \in Executing
      <4>1. task[r][s].attempt + 1 = 1
        BY <3>1, <3>4 DEF Untried
      <4>2. QED
        BY <3>1, <3>2, <4>1 DEF Executing
    <3>5. QED
      BY <1>0, <1>3, <2>3, <3>3, <3>4 DEF NextStep, Typed
  <2>4. CASE s > Steps /\ Goto(r, "finish") /\ UNCHANGED tails
    BY <1>0, <1>3, <2>4, GotoTyped DEF NextStep, Typed, Pcs
  <2>5. QED
    BY <1>3, <2>1, <2>2, <2>3, <2>4 DEF NextStep
<1>4. ASSUME NEW r \in Runs, RunStep(r) PROVE Typed'
  <2> DEFINE x == exec[r]
             y == [x EXCEPT !.pc = "attempt"]
             t == [status |-> "running", attempt |-> x.attempt]
  <2>1. x \in Executing /\ x.step \in 1..Steps /\ x.attempt = 1
    BY <1>0, <1>4 DEF RunStep, At, IInv, RunInv, ExecutionIsShaped, Typed
  <2>2. y \in Executing
    BY <2>1, Updates DEF Pcs
  <2>3. exec' = [exec EXCEPT ![r] = y]
    <3>1. ~(x.attempt > MaxAttempts)
      BY <2>1, FlowIsNonEmpty
    <3>2. QED
      BY <1>4, <3>1 DEF RunStep
  <2>4. exec' \in [Runs -> Executing]
    BY <1>0, <2>2, <2>3 DEF Typed
  <2>5. t \in TaskRecord
    <3>1. x.attempt \in 0..(MaxAttempts + 1) /\ "running" \in TaskStates
      BY <2>1, FlowIsNonEmpty DEF TaskStates
    <3>2. QED
      BY <3>1 DEF TaskRecord
  <2>6. task' \in [Runs -> [1..Steps -> TaskRecord]]
    BY <1>0, <1>4, <2>1, <2>5 DEF RunStep, Typed
  <2>7. run' \in [Runs -> RunRecord]
    BY <1>0, <1>4, Updates DEF RunStep, Typed, RunStates
  <2>8. QED
    BY <1>0, <1>4, <2>4, <2>6, <2>7 DEF Typed, RunStep
<1>5. ASSUME NEW r \in Runs, OperationSucceeds(r) PROVE Typed'
  <2> DEFINE x == exec[r]
             y == [x EXCEPT !.pc = "next", !.step = x.step + 1]
             t == [status |-> "succeeded", attempt |-> x.attempt]
  <2>1. x \in Executing /\ x.step \in 1..Steps /\ x.attempt \in 1..MaxAttempts
    BY <1>0, <1>5 DEF OperationSucceeds, At, IInv, RunInv, ExecutionIsShaped, Typed
  <2>2. y \in Executing
    <3>1. "next" \in Pcs /\ x.step + 1 \in 0..(Steps + 1)
      BY <2>1, FlowIsNonEmpty DEF Pcs
    <3>2. QED
      BY <2>1, <3>1 DEF Executing
  <2>3. exec' \in [Runs -> Executing]
    BY <1>0, <1>5, <2>2 DEF Typed, OperationSucceeds
  <2>4. t \in TaskRecord
    BY <2>1, FlowIsNonEmpty DEF TaskRecord, TaskStates
  <2>5. task' \in [Runs -> [1..Steps -> TaskRecord]]
    BY <1>0, <1>5, <2>1, <2>4 DEF OperationSucceeds, Typed
  <2>6. QED
    BY <1>0, <1>5, <2>3, <2>5 DEF Typed, OperationSucceeds
<1>6. ASSUME NEW r \in Runs, OperationFails(r) PROVE Typed'
  <2> DEFINE x == exec[r]
  <2>1. x \in Executing /\ x.attempt \in 1..MaxAttempts
    BY <1>0, <1>6 DEF OperationFails, At, IInv, RunInv, ExecutionIsShaped, Typed
  <2>2. Retried(x) \in Executing
    <3>1. ASSUME x.attempt < MaxAttempts
          PROVE  [x EXCEPT !.attempt = x.attempt + 1] \in Executing
      <4>1. x.attempt + 1 \in 0..MaxAttempts
        BY <2>1, <3>1, FlowIsNonEmpty
      <4>2. QED
        BY <2>1, <4>1 DEF Executing
    <3>2. [x EXCEPT !.pc = "fail"] \in Executing
      BY <2>1, Updates DEF Pcs
    <3>3. QED
      BY <3>1, <3>2 DEF Retried
  <2>3. exec' \in [Runs -> Executing]
    BY <1>0, <1>6, <2>2 DEF Typed, OperationFails
  <2>4. QED
    BY <1>0, <1>6, <2>3 DEF Typed, OperationFails
<1>7. ASSUME NEW r \in Runs, TimesOut(r) PROVE Typed'
  <2>1. exec' \in [Runs -> Executing]
    BY <1>0, <1>7, GotoTyped DEF TimesOut, Pcs
  <2>2. QED
    BY <1>0, <1>7, <2>1 DEF Typed, TimesOut
<1>8. ASSUME NEW r \in Runs, Fail(r) PROVE Typed'
  <2> DEFINE t == [status |-> "failed", attempt |-> exec[r].attempt]
  <2>1. exec' \in [Runs -> Executing]
    BY <1>0, <1>8, GotoTyped DEF Fail, Pcs
  <2>2. run' \in [Runs -> RunRecord]
    BY <1>0, <1>8, Updates DEF Fail, Typed, RunStates
  <2>3. task' \in [Runs -> [1..Steps -> TaskRecord]]
    <3>1. CASE At(r, "fail")
      <4>1. exec[r].step \in 1..Steps /\ exec[r].attempt \in 1..MaxAttempts
        BY <3>1 DEF At, IInv, RunInv, ExecutionIsShaped
      <4>2. t \in TaskRecord
        BY <4>1, FlowIsNonEmpty DEF TaskRecord, TaskStates
      <4>3. QED
        BY <1>0, <1>8, <3>1, <4>1, <4>2 DEF Fail, Typed
    <3>2. CASE ~At(r, "fail")
      BY <1>0, <1>8, <3>2 DEF Fail, Typed
    <3>3. QED
      BY <3>1, <3>2
  <2>4. QED
    BY <1>0, <1>8, <2>1, <2>2, <2>3 DEF Typed, Fail
<1>9. ASSUME NEW r \in Runs, Finish(r) PROVE Typed'
  <2>1. exec' \in [Runs -> Executing]
    BY <1>0, <1>9, GotoTyped DEF Finish, Pcs
  <2>2. run' \in [Runs -> RunRecord]
    BY <1>0, <1>9, Updates DEF Finish, Typed, RunStates
  <2>3. QED
    BY <1>0, <1>9, <2>1, <2>2 DEF Typed, Finish
<1>10. ASSUME NEW r \in Runs, exec[r].pc # "idle", End(r)
       PROVE  exec' \in [Runs -> Executing] /\ run' \in [Runs -> RunRecord] /\ tails' \in [Runs -> Nat]
  <2>1. tails[r] - 1 \in Nat
    BY <1>0, <1>10 DEF Typed
  <2>2. CASE Return(r) /\ UNCHANGED run
    BY <1>0, <1>10, <2>2, ReturnTyped DEF Typed
  <2>3. ASSUME NEW h \in Runs,
               run' = [run EXCEPT ![h] = [status |-> "queued", hook |-> TRUE]],
               tails' = [tails EXCEPT ![r] = @ - 1, ![h] = 1],
               exec' = [exec EXCEPT ![r] = Idle]
        PROVE  exec' \in [Runs -> Executing] /\ run' \in [Runs -> RunRecord] /\ tails' \in [Runs -> Nat]
    <3>1. exec' \in [Runs -> Executing]
      BY <1>0, <2>3, Updates DEF Typed
    <3>2. [status |-> "queued", hook |-> TRUE] \in RunRecord
      BY DEF RunRecord, RunStates
    <3>3. run' \in [Runs -> RunRecord]
      BY <1>0, <2>3, <3>2 DEF Typed
    <3>4. tails' \in [Runs -> Nat]
      BY <1>0, <2>1, <2>3 DEF Typed
    <3>5. QED
      BY <3>1, <3>3, <3>4
  <2>4. QED
    BY <1>10, <2>2, <2>3 DEF End
<1>11. ASSUME NEW r \in Runs, Report(r) PROVE Typed'
  <2>1. exec' \in [Runs -> Executing] /\ run' \in [Runs -> RunRecord] /\ tails' \in [Runs -> Nat]
    BY <1>0, <1>10, <1>11, GotoTyped DEF Report, At, Pcs, Typed
  <2>2. QED
    BY <1>0, <1>11, <2>1 DEF Typed, Report
<1>12. ASSUME NEW r \in Runs, SaveStatus(r) PROVE Typed'
  <2>1. exec' \in [Runs -> Executing] /\ run' \in [Runs -> RunRecord] /\ tails' \in [Runs -> Nat]
    BY <1>10, <1>12 DEF SaveStatus, At
  <2>2. QED
    BY <1>0, <1>12, <2>1 DEF Typed, SaveStatus, MonitorRecord
<1>13. ASSUME NEW r \in Runs, StartFlow(r)
       PROVE  run' \in [Runs -> RunRecord] /\ tails' \in [Runs -> Nat]
  <2>1. [status |-> "queued", hook |-> FALSE] \in RunRecord
    BY DEF RunRecord, RunStates
  <2>2. QED
    BY <1>0, <1>13, <2>1 DEF Typed, StartFlow
<1>14. ASSUME NEW r \in Runs, StartGardener(r) PROVE Typed'
  BY <1>0, <1>13, <1>14 DEF Typed, StartGardener
<1>15. ASSUME NEW r \in Runs, NEW w \in Starters,
              starting' = [starting EXCEPT ![w] = [run |-> r, last |-> monitor.last]]
       PROVE  starting' \in [Starters -> StartRecord]
  <2>1. [run |-> r, last |-> monitor.last] \in StartRecord
    BY <1>0 DEF Typed, MonitorRecord, StartRecord
  <2>2. QED
    BY <1>0, <1>15, <2>1 DEF Typed
<1>16. ASSUME NEW r \in Runs, TickHeartbeats(r) PROVE Typed'
  BY <1>0, <1>13, <1>15, <1>16 DEF Typed, TickHeartbeats, Starters
<1>17. ASSUME NEW r \in Runs, RunNow(r) PROVE Typed'
  BY <1>0, <1>13, <1>15, <1>17 DEF Typed, RunNow, Starters
<1>18. ASSUME NEW r \in Runs, Cancel(r) PROVE Typed'
  <2> DEFINE t == [s \in 1..Steps |->
                IF task[r][s].status \in {"succeeded", "failed"} THEN task[r][s]
                ELSE [task[r][s] EXCEPT !.status = "cancelled"]]
  <2>1. run' \in [Runs -> RunRecord]
    BY <1>0, <1>18, Updates DEF Cancel, Typed, RunStates
  <2>2. t \in [1..Steps -> TaskRecord]
    <3>1. "cancelled" \in TaskStates /\ task[r] \in [1..Steps -> TaskRecord]
      BY <1>0 DEF Typed, TaskStates
    <3>2. \A s \in 1..Steps : task[r][s] \in TaskRecord /\ [task[r][s] EXCEPT !.status = "cancelled"] \in TaskRecord
      BY <3>1, Updates
    <3>3. QED
      BY <3>2
  <2>3. task' \in [Runs -> [1..Steps -> TaskRecord]]
    BY <1>0, <1>18, <2>2 DEF Cancel, Typed
  <2>4. QED
    BY <1>0, <1>18, <2>1, <2>3 DEF Typed, Cancel
<1>19. ASSUME NEW r \in Runs, Resume(r) PROVE Typed'
  <2>1. [status |-> "queued", hook |-> FALSE] \in RunRecord
    BY DEF RunRecord, RunStates
  <2>2. run' \in [Runs -> RunRecord] /\ tails' \in [Runs -> Nat]
    BY <1>0, <1>19, <2>1 DEF Resume, Typed
  <2>3. [status |-> "queued", attempt |-> 0] \in TaskRecord
    BY FlowIsNonEmpty DEF TaskRecord, TaskStates
  <2>4. [s \in 1..Steps |-> Requeued(task[r][s])] \in [1..Steps -> TaskRecord]
    BY <1>0, <2>3 DEF Typed, Requeued
  <2>5. task' \in [Runs -> [1..Steps -> TaskRecord]]
    BY <1>0, <1>19, <2>4 DEF Resume, Typed
  <2>6. QED
    BY <1>0, <1>19, <2>2, <2>5 DEF Typed, Resume
<1>20. ASSUME NEW w \in Starters, SaveMonitor(w) PROVE Typed'
  <2>1. starting[w].run \in Runs \cup {NoRun}
    BY <1>0 DEF Typed, StartRecord
  <2>2. [exists |-> TRUE, last |-> starting[w].run] \in MonitorRecord
    BY <2>1 DEF MonitorRecord
  <2>3. starting' \in [Starters -> StartRecord]
    BY <1>0, <1>20, Updates DEF SaveMonitor, Typed
  <2>4. QED
    BY <1>0, <1>20, <2>2, <2>3 DEF Typed, SaveMonitor
<1>21. CASE DeleteMonitor
  <2>1. monitor' \in MonitorRecord
    BY <1>0, <1>21 DEF DeleteMonitor, MonitorRecord, Typed
  <2>2. QED
    BY <1>0, <1>21, <2>1 DEF Typed, DeleteMonitor
<1>22. CASE Crash
  <2>1. exec' \in [Runs -> Executing] /\ starting' \in [Starters -> StartRecord] /\ tails' \in [Runs -> Nat]
    BY <1>22, Updates DEF Crash
  <2>2. QED
    BY <1>0, <1>22, <2>1 DEF Typed, Crash
<1>23. CASE Recover
  <2>1. \A x \in RunRecord : Lost(x) \in RunRecord
    BY Updates DEF Lost, RunStates
  <2>2. \A x \in TaskRecord : Lost(x) \in TaskRecord
    BY Updates DEF Lost, TaskStates
  <2>3. run' \in [Runs -> RunRecord]
    BY <1>0, <1>23, <2>1 DEF Recover, Typed
  <2>4. task' \in [Runs -> [1..Steps -> TaskRecord]]
    BY <1>0, <1>23, <2>2 DEF Recover, Typed
  <2>5. QED
    BY <1>0, <1>23, <2>3, <2>4 DEF Typed, Recover
<1>24. CASE UNCHANGED vars
  BY <1>0, <1>24 DEF vars, Typed
<1>25. ASSUME NEW r \in Runs, LeftBehindStops(r) PROVE Typed'
  BY <1>0, <1>25 DEF LeftBehindStops, Typed
<1>26. QED
  BY <1>1, <1>2, <1>3, <1>4, <1>5, <1>6, <1>7, <1>8, <1>9, <1>11, <1>12, <1>14, <1>16,
     <1>17, <1>18, <1>19, <1>20, <1>21, <1>22, <1>23, <1>24, <1>25 DEF Next, Execution

-----------------------------------------------------------------------------
(* The inductive invariant                                                 *)

\* A step that leaves alone what is recorded of a run, and its execution.
LEMMA Untouched ==
    ASSUME NEW q \in Runs, RunInv(q), host' = host,
           run'[q] = run[q], task'[q] = task[q], exec'[q] = exec[q], tails'[q] = tails[q]
    PROVE  RunInv(q)'
BY DEF RunInv, ExecutionIsShaped, StatusFollowsExecution, TasksFollowExecution, Untried

\* An execution that is over leaves its run as it is recorded.
LEMMA ReturnStep ==
    ASSUME Typed, NEW r \in Runs, RunInv(r), host' = host,
           run'[r] = run[r], task' = task, tails[r] > 0,
           exec'[r] = Idle, tails'[r] = tails[r] - 1,
           run[r].status \in {"queued"} \cup Terminal,
           exec[r].pc \in {"idle", "next", "report", "save"}
    PROVE  RunInv(r)'
<1>1. exec'[r].pc = "idle"
  BY DEF Idle
<1>2. ExecutionIsShaped(r)'
  BY <1>1 DEF RunInv, ExecutionIsShaped, Typed
<1>3. StatusFollowsExecution(r)'
  BY <1>1 DEF StatusFollowsExecution, Terminal
<1>4. TasksFollowExecution(r)'
  BY <1>1 DEF RunInv, TasksFollowExecution, StatusFollowsExecution, ExecutionIsShaped, Terminal, Untried
<1>5. QED
  BY <1>2, <1>3, <1>4 DEF RunInv

\* What the steps of an execution make of its run.
LEMMA ExecutionStep ==
    ASSUME IInv, NEW r \in Runs, Execution(r) \/ OperationSucceeds(r) \/ OperationFails(r)
    PROVE  \A q \in Runs : RunInv(q)'
<1> USE FlowIsNonEmpty DEF At
<1>0. Typed /\ RunInv(r)
  BY DEF IInv
<1>1. CASE Begin(r)
  <2>1. \A q \in Runs \ {r} : RunInv(q)'
    BY <1>1, Untouched DEF IInv, Typed, Begin, Return, Goto
  <2>2. CASE run[r].status \in Terminal
    BY <1>0, <1>1, <2>1, <2>2, ReturnStep DEF Typed, Begin, Return
  <2>3. CASE run[r].status \notin Terminal
    <3>1. exec'[r] = [exec[r] EXCEPT !.pc = "start"] /\ exec[r] = Idle /\ run[r].status = "queued"
      BY <1>0, <1>1, <2>3
         DEF Begin, Goto, Typed, RunInv, ExecutionIsShaped, StatusFollowsExecution
    <3>2. exec'[r].pc = "start"
      BY <3>1 DEF Idle
    <3>3. RunInv(r)'
      BY <1>0, <1>1, <2>3, <3>1, <3>2
         DEF Begin, RunInv, ExecutionIsShaped, StatusFollowsExecution, TasksFollowExecution, Untried, Idle
    <3>4. QED
      BY <2>1, <3>3
  <2>4. QED
    BY <2>2, <2>3
<1>2. CASE Start(r)
  <2>1. \A q \in Runs \ {r} : RunInv(q)'
    BY <1>2, Untouched DEF IInv, Typed, Start, Goto
  <2>2. CASE /\ run' = [run EXCEPT ![r].status = "running"]
             /\ exec' = [exec EXCEPT ![r] = [exec[r] EXCEPT !.pc = "next", !.step = 1]]
    <3>1. exec'[r].pc = "next" /\ exec'[r].step = 1
      BY <1>0, <2>2 DEF Typed, Executing
    <3>2. run'[r].status = "running"
      BY <1>0, <2>2 DEF Typed, RunRecord
    <3>3. RunInv(r)'
      BY <1>0, <1>2, <3>1, <3>2
         DEF Start, RunInv, ExecutionIsShaped, StatusFollowsExecution, TasksFollowExecution, Untried
    <3>4. QED
      BY <2>1, <3>3
  <2>3. CASE run' = [run EXCEPT ![r].status = "failed"] /\ Goto(r, "report")
    <3>1. exec'[r].pc = "report"
      BY <1>0, <2>3 DEF Goto, Typed, Executing
    <3>2. run'[r].status = "failed"
      BY <1>0, <2>3 DEF Typed, RunRecord
    <3>3. RunInv(r)'
      BY <1>0, <1>2, <3>1, <3>2
         DEF Start, RunInv, ExecutionIsShaped, StatusFollowsExecution, TasksFollowExecution, Untried, Terminal
    <3>4. QED
      BY <2>1, <3>3
  <2>4. QED
    BY <1>2, <2>2, <2>3 DEF Start
<1>3. CASE NextStep(r)
  <2> DEFINE s == exec[r].step
  <2>1. \A q \in Runs \ {r} : RunInv(q)'
    BY <1>3, Untouched DEF IInv, Typed, NextStep, Return, Goto
  <2>2. s \in 1..(Steps + 1) /\ exec[r].pc = "next"
    BY <1>0, <1>3 DEF NextStep, RunInv, ExecutionIsShaped
  <2>3. CASE s <= Steps /\ Goto(r, "exhausted") /\ UNCHANGED tails
    <3>1. exec'[r].pc = "exhausted" /\ exec'[r].step = s
      BY <1>0, <2>2, <2>3 DEF Goto, Typed, Executing
    <3>2. RunInv(r)'
      BY <1>0, <1>3, <2>2, <2>3, <3>1
         DEF NextStep, RunInv, ExecutionIsShaped, StatusFollowsExecution, TasksFollowExecution, Untried
    <3>3. QED
      BY <2>1, <3>2
  <2>4. CASE run[r].status \in Terminal /\ Return(r)
    BY <1>0, <1>3, <2>1, <2>2, <2>4, ReturnStep DEF Typed, NextStep, Return, RunInv, ExecutionIsShaped
  <2>5. CASE s <= Steps /\ task[r][s].status = "succeeded"
             /\ exec' = [exec EXCEPT ![r] = [exec[r] EXCEPT !.step = s + 1]] /\ UNCHANGED tails
    <3>1. exec'[r].pc = "next" /\ exec'[r].step = s + 1
      BY <1>0, <2>2, <2>5 DEF Typed, Executing
    <3>2. RunInv(r)'
      BY <1>0, <1>3, <2>2, <2>5, <3>1
         DEF NextStep, RunInv, ExecutionIsShaped, StatusFollowsExecution, TasksFollowExecution, Untried
    <3>3. QED
      BY <2>1, <3>2
  <2>6. CASE s <= Steps /\ task[r][s].status # "succeeded"
             /\ exec' = [exec EXCEPT ![r] =
                   [exec[r] EXCEPT !.pc = "run", !.attempt = task[r][s].attempt + 1]] /\ UNCHANGED tails
    <3>1. exec'[r].pc = "run" /\ exec'[r].step = s
          /\ exec'[r].attempt = task[r][s].attempt + 1
      BY <1>0, <2>2, <2>6 DEF Typed, Executing
    <3>2. task[r][s].attempt = 0
      BY <1>0, <2>2, <2>6 DEF RunInv, TasksFollowExecution, Untried
    <3>3. RunInv(r)'
      BY <1>0, <1>3, <2>2, <2>6, <3>1, <3>2
         DEF NextStep, RunInv, ExecutionIsShaped, StatusFollowsExecution, TasksFollowExecution, Untried
    <3>4. QED
      BY <2>1, <3>3
  <2>7. CASE s > Steps /\ Goto(r, "finish") /\ UNCHANGED tails
    <3>1. exec'[r].pc = "finish" /\ exec'[r].step = Steps + 1
      BY <1>0, <2>2, <2>7 DEF Goto, Typed, Executing
    <3>2. RunInv(r)'
      BY <1>0, <1>3, <2>2, <2>7, <3>1
         DEF NextStep, RunInv, ExecutionIsShaped, StatusFollowsExecution, TasksFollowExecution, Untried
    <3>3. QED
      BY <2>1, <3>2
  <2>8. QED
    BY <1>3, <2>3, <2>4, <2>5, <2>6, <2>7 DEF NextStep, Terminal
<1>4. CASE RunStep(r)
  <2> DEFINE x == exec[r]
  <2>1. \A q \in Runs \ {r} : RunInv(q)'
    BY <1>4, Untouched DEF IInv, Typed, RunStep
  <2>2. x.step \in 1..Steps /\ x.attempt = 1 /\ x.pc = "run" /\ ~(x.attempt > MaxAttempts)
    BY <1>0, <1>4 DEF RunStep, RunInv, ExecutionIsShaped
  <2>3. exec'[r] = [x EXCEPT !.pc = "attempt"]
    BY <1>0, <1>4, <2>2 DEF RunStep, Typed
  <2>4. exec'[r].pc = "attempt" /\ exec'[r].step = x.step /\ exec'[r].attempt = 1
    BY <1>0, <2>2, <2>3 DEF Typed, Executing
  <2>5. run'[r].status = "running"
    BY <1>0, <1>4 DEF RunStep, Typed, RunRecord
  <2>6. /\ task'[r][x.step].status = "running"
        /\ \A s \in 1..Steps : s # x.step => task'[r][s] = task[r][s]
    BY <1>0, <1>4, <2>2 DEF RunStep, Typed
  <2>7. RunInv(r)'
    BY <1>0, <1>4, <2>2, <2>4, <2>5, <2>6
       DEF RunStep, RunInv, ExecutionIsShaped, StatusFollowsExecution, TasksFollowExecution, Untried
  <2>8. QED
    BY <2>1, <2>7
<1>5. CASE OperationSucceeds(r)
  <2> DEFINE x == exec[r]
  <2>1. \A q \in Runs \ {r} : RunInv(q)'
    BY <1>5, Untouched DEF IInv, Typed, OperationSucceeds
  <2>2. x.step \in 1..Steps /\ x.pc = "attempt"
    BY <1>0, <1>5 DEF OperationSucceeds, RunInv, ExecutionIsShaped
  <2>3. exec'[r].pc = "next" /\ exec'[r].step = x.step + 1
    BY <1>0, <1>5, <2>2 DEF OperationSucceeds, Typed, Executing
  <2>4. /\ task'[r][x.step].status = "succeeded"
        /\ \A s \in 1..Steps : s # x.step => task'[r][s] = task[r][s]
    BY <1>0, <1>5, <2>2 DEF OperationSucceeds, Typed
  <2>5. RunInv(r)'
    BY <1>0, <1>5, <2>2, <2>3, <2>4
       DEF OperationSucceeds, RunInv, ExecutionIsShaped, StatusFollowsExecution, TasksFollowExecution, Untried
  <2>6. QED
    BY <2>1, <2>5
<1>6. CASE OperationFails(r)
  <2> DEFINE x == exec[r]
  <2>1. \A q \in Runs \ {r} : RunInv(q)'
    BY <1>6, Untouched DEF IInv, Typed, OperationFails
  <2>2. x.step \in 1..Steps /\ x.pc = "attempt" /\ x.attempt \in 1..MaxAttempts /\ x \in Executing
    BY <1>0, <1>6 DEF OperationFails, RunInv, ExecutionIsShaped, Typed
  <2>3. exec'[r] = Retried(x)
    BY <1>0, <1>6 DEF OperationFails, Typed
  <2>4. /\ exec'[r].step = x.step
        /\ exec'[r].pc \in {"attempt", "fail"}
        /\ exec'[r].attempt \in 1..MaxAttempts
    <3>1. CASE x.attempt < MaxAttempts
      <4>1. exec'[r] = [x EXCEPT !.attempt = x.attempt + 1]
        BY <2>3, <3>1 DEF Retried
      <4>2. exec'[r].pc = "attempt" /\ exec'[r].attempt = x.attempt + 1 /\ exec'[r].step = x.step
        BY <2>2, <4>1 DEF Executing
      <4>3. QED
        BY <2>2, <3>1, <4>2
    <3>2. CASE ~(x.attempt < MaxAttempts)
      <4>1. exec'[r] = [x EXCEPT !.pc = "fail"]
        BY <2>3, <3>2 DEF Retried
      <4>2. QED
        BY <2>2, <4>1 DEF Executing
    <3>3. QED
      BY <3>1, <3>2
  <2>5. RunInv(r)'
    BY <1>0, <1>6, <2>2, <2>4
       DEF OperationFails, RunInv, ExecutionIsShaped, StatusFollowsExecution, TasksFollowExecution, Untried
  <2>6. QED
    BY <2>1, <2>5
<1>7. CASE TimesOut(r)
  <2>1. \A q \in Runs \ {r} : RunInv(q)'
    BY <1>7, Untouched DEF IInv, Typed, TimesOut, Goto
  <2>2. exec'[r] = [exec[r] EXCEPT !.pc = "fail"]
    BY <1>0, <1>7 DEF TimesOut, Typed, Goto
  <2>3. exec'[r].pc = "fail" /\ exec'[r].step = exec[r].step /\ exec'[r].attempt = exec[r].attempt
    BY <1>0, <2>2 DEF Typed, Executing
  <2>4. RunInv(r)'
    BY <1>0, <1>7, <2>3
       DEF TimesOut, RunInv, ExecutionIsShaped, StatusFollowsExecution, TasksFollowExecution, Untried
  <2>5. QED
    BY <2>1, <2>4
<1>8. CASE Fail(r)
  <2>1. \A q \in Runs \ {r} : RunInv(q)'
    BY <1>8, Untouched DEF IInv, Typed, Fail, Goto
  <2>2. exec'[r].pc = "report"
    BY <1>0, <1>8 DEF Fail, Goto, Typed, Executing
  <2>3. run'[r].status = "failed"
    BY <1>0, <1>8 DEF Fail, Typed, RunRecord
  <2>4. CASE exec[r].pc = "fail"
    <3>1. exec[r].step \in 1..Steps
      BY <1>0, <2>4 DEF RunInv, ExecutionIsShaped
    <3>2. /\ task'[r][exec[r].step].status = "failed"
          /\ \A s \in 1..Steps : s # exec[r].step => task'[r][s] = task[r][s]
      BY <1>0, <1>8, <2>4, <3>1 DEF Fail, Typed
    <3>3. RunInv(r)'
      BY <1>0, <1>8, <2>2, <2>3, <2>4, <3>1, <3>2
         DEF Fail, RunInv, ExecutionIsShaped, StatusFollowsExecution, TasksFollowExecution, Untried, Terminal
    <3>4. QED
      BY <2>1, <3>3
  <2>5. CASE exec[r].pc = "exhausted"
    <3>1. RunInv(r)'
      BY <1>0, <1>8, <2>2, <2>3, <2>5
         DEF Fail, RunInv, ExecutionIsShaped, StatusFollowsExecution, TasksFollowExecution, Untried, Terminal
    <3>2. QED
      BY <2>1, <3>1
  <2>6. QED
    BY <1>8, <2>4, <2>5 DEF Fail
<1>9. CASE Finish(r)
  <2>1. \A q \in Runs \ {r} : RunInv(q)'
    BY <1>9, Untouched DEF IInv, Typed, Finish, Goto
  <2>2. exec'[r].pc = "report"
    BY <1>0, <1>9 DEF Finish, Goto, Typed, Executing
  <2>3. run'[r].status = "succeeded"
    BY <1>0, <1>9 DEF Finish, Typed, RunRecord
  <2>4. RunInv(r)'
    BY <1>0, <1>9, <2>2, <2>3
       DEF Finish, RunInv, ExecutionIsShaped, StatusFollowsExecution, TasksFollowExecution, Untried, Terminal
  <2>5. QED
    BY <2>1, <2>4
<1>10. ASSUME End(r), exec[r].pc \in {"report", "save"}, UNCHANGED <<task, host>>
       PROVE  \A q \in Runs : RunInv(q)'
  <2>1. tails[r] > 0 /\ run[r].status \in {"queued"} \cup Terminal
    BY <1>0, <1>10 DEF RunInv, ExecutionIsShaped, StatusFollowsExecution
  <2>2. CASE Return(r) /\ UNCHANGED run
    <3>1. \A q \in Runs \ {r} : RunInv(q)'
      BY <1>10, <2>2, Untouched DEF IInv, Typed, Return
    <3>2. exec'[r] = Idle /\ tails'[r] = tails[r] - 1
      BY <1>0, <2>2 DEF Return, Typed
    <3>3. RunInv(r)'
      BY <1>0, <1>10, <2>1, <2>2, <3>2, ReturnStep
    <3>4. QED
      BY <3>1, <3>3
  <2>3. ASSUME NEW h \in Runs, Fresh(h),
               run' = [run EXCEPT ![h] = [status |-> "queued", hook |-> TRUE]],
               tails' = [tails EXCEPT ![r] = @ - 1, ![h] = 1],
               exec' = [exec EXCEPT ![r] = Idle]
        PROVE  \A q \in Runs : RunInv(q)'
    <3>1. h # r
      BY <2>1, <2>3 DEF Fresh, Terminal
    <3>2. \A q \in Runs \ {r, h} : RunInv(q)'
      BY <1>10, <2>3, Untouched DEF IInv, Typed
    <3>3. exec'[r] = Idle /\ tails'[r] = tails[r] - 1 /\ run'[r] = run[r]
      BY <1>0, <2>3, <3>1 DEF Typed
    <3>4. RunInv(r)'
      BY <1>0, <1>10, <2>1, <3>3, ReturnStep
    <3>5. exec'[h] = exec[h] /\ tails'[h] = 1 /\ run'[h].status = "queued" /\ RunInv(h)
      BY <1>0, <2>3, <3>1 DEF Typed, IInv
    <3>6. host = "up" /\ exec[h].pc = "idle"
      BY <1>0, <2>1, <2>3, <3>5
         DEF Typed, Executing, Pcs, RunInv, ExecutionIsShaped, StatusFollowsExecution, Fresh, Terminal
    <3>7. RunInv(h)'
      BY <1>10, <2>3, <3>5, <3>6
         DEF RunInv, ExecutionIsShaped, StatusFollowsExecution, TasksFollowExecution, Untried, Fresh
    <3>8. QED
      BY <3>2, <3>4, <3>7
  <2>4. QED
    BY <1>10, <2>2, <2>3 DEF End
<1>11. CASE Report(r)
  <2>1. CASE Goto(r, "save") /\ UNCHANGED <<run, tails>>
    <3>1. \A q \in Runs \ {r} : RunInv(q)'
      BY <1>11, <2>1, Untouched DEF IInv, Typed, Report, Goto
    <3>2. exec'[r].pc = "save"
      BY <1>0, <2>1 DEF Goto, Typed, Executing
    <3>3. RunInv(r)'
      BY <1>0, <1>11, <2>1, <3>2
         DEF Report, RunInv, ExecutionIsShaped, StatusFollowsExecution, TasksFollowExecution, Untried
    <3>4. QED
      BY <3>1, <3>3
  <2>2. CASE End(r)
    BY <1>10, <1>11, <2>2 DEF Report
  <2>3. QED
    BY <1>11, <2>1, <2>2 DEF Report
<1>12. CASE SaveStatus(r)
  BY <1>10, <1>12 DEF SaveStatus
<1>13. QED
  BY <1>1, <1>2, <1>3, <1>4, <1>5, <1>6, <1>7, <1>8, <1>9, <1>11, <1>12 DEF Execution

\* What a start, the operator and a stop of the host make of the runs.
LEMMA OtherStep ==
    ASSUME IInv, [Next]_vars, ~\E r \in Runs : Execution(r) \/ OperationSucceeds(r) \/ OperationFails(r)
    PROVE  \A q \in Runs : RunInv(q)'
<1> USE FlowIsNonEmpty
<1>0. Typed /\ \A r \in Runs : RunInv(r)
  BY DEF IInv
<1>1. ASSUME NEW r \in Runs, host = "up", StartFlow(r), UNCHANGED <<task, exec, host>>
      PROVE  \A q \in Runs : RunInv(q)'
  <2>1. \A q \in Runs \ {r} : RunInv(q)'
    BY <1>0, <1>1, Untouched DEF Typed, StartFlow
  <2>2. run'[r].status = "queued" /\ tails'[r] = 1 /\ run[r].status = "none"
    BY <1>0, <1>1 DEF Typed, StartFlow, Fresh
  <2>3. exec[r].pc = "idle"
    BY <1>0, <2>2
       DEF Typed, Executing, Pcs, RunInv, ExecutionIsShaped, StatusFollowsExecution, Terminal
  <2>4. RunInv(r)'
    BY <1>0, <1>1, <2>2, <2>3
       DEF RunInv, ExecutionIsShaped, StatusFollowsExecution, TasksFollowExecution, Untried
  <2>5. QED
    BY <2>1, <2>4
<1>2. ASSUME NEW r \in Runs, StartGardener(r) PROVE \A q \in Runs : RunInv(q)'
  BY <1>1, <1>2 DEF StartGardener, Request
<1>3. ASSUME NEW r \in Runs, TickHeartbeats(r) PROVE \A q \in Runs : RunInv(q)'
  BY <1>1, <1>3 DEF TickHeartbeats
<1>4. ASSUME NEW r \in Runs, RunNow(r) PROVE \A q \in Runs : RunInv(q)'
  BY <1>1, <1>4 DEF RunNow, Request
<1>5. ASSUME NEW r \in Runs, Cancel(r) PROVE \A q \in Runs : RunInv(q)'
  <2>1. \A q \in Runs \ {r} : RunInv(q)'
    BY <1>0, <1>5, Untouched DEF Typed, Cancel
  <2>2. run'[r].status = "cancelled" /\ run[r].status \notin Terminal
    BY <1>0, <1>5 DEF Typed, RunRecord, Cancel
  <2>3. ASSUME NEW s \in 1..Steps
        PROVE  /\ task'[r][s].attempt = task[r][s].attempt
               /\ task'[r][s].status = (IF task[r][s].status \in {"succeeded", "failed"}
                                        THEN task[r][s].status ELSE "cancelled")
    <3>1. task[r][s] \in TaskRecord
      BY <1>0 DEF Typed
    <3>2. task'[r][s] = IF task[r][s].status \in {"succeeded", "failed"} THEN task[r][s]
                        ELSE [task[r][s] EXCEPT !.status = "cancelled"]
      BY <1>0, <1>5 DEF Typed, Cancel
    <3>3. QED
      BY <3>1, <3>2 DEF TaskRecord
  <2>4. RunInv(r)'
    <3>1. ExecutionIsShaped(r)'
      BY <1>0, <1>5 DEF Cancel, RunInv, ExecutionIsShaped
    <3>2. StatusFollowsExecution(r)'
      BY <1>0, <1>5, <2>2 DEF Cancel, RunInv, StatusFollowsExecution, Terminal
    <3>3. TasksFollowExecution(r)'
      BY <1>0, <1>5, <2>2, <2>3
         DEF Cancel, RunInv, TasksFollowExecution, StatusFollowsExecution, Untried, Terminal
    <3>4. QED
      BY <3>1, <3>2, <3>3 DEF RunInv
  <2>5. QED
    BY <2>1, <2>4
<1>6. ASSUME NEW r \in Runs, Resume(r) PROVE \A q \in Runs : RunInv(q)'
  <2>1. \A q \in Runs \ {r} : RunInv(q)'
    BY <1>0, <1>6, Untouched DEF Typed, Resume
  <2>2. run'[r].status = "queued" /\ run[r].status \in {"lost", "failed"} /\ host = "up"
    BY <1>0, <1>6 DEF Typed, Resume, Request
  <2>3. exec[r].pc \in {"idle", "report", "save"} /\ tails'[r] = tails[r] + 1
    BY <1>0, <1>6, <2>2
       DEF Typed, Executing, Pcs, Resume, RunInv, StatusFollowsExecution, Terminal
  <2>4. ASSUME NEW s \in 1..Steps PROVE Untried(task'[r][s])
    <3>1. task'[r][s] = Requeued(task[r][s])
      BY <1>0, <1>6 DEF Typed, Resume
    <3>2. Untried(task[r][s]) \/ task[r][s].status \in {"lost", "failed"}
      BY <1>0, <2>2, <2>3 DEF RunInv, TasksFollowExecution
    <3>3. QED
      BY <3>1, <3>2 DEF Requeued, Untried
  <2>5. RunInv(r)'
    BY <1>0, <1>6, <2>2, <2>3, <2>4
       DEF Resume, Typed, RunInv, ExecutionIsShaped, StatusFollowsExecution, TasksFollowExecution, Untried
  <2>6. QED
    BY <2>1, <2>5
<1>7. ASSUME NEW w \in Starters, SaveMonitor(w) PROVE \A q \in Runs : RunInv(q)'
  BY <1>0, <1>7, Untouched DEF SaveMonitor
<1>8. CASE DeleteMonitor
  BY <1>0, <1>8, Untouched DEF DeleteMonitor
<1>9. CASE Crash
  <2> SUFFICES ASSUME NEW q \in Runs PROVE RunInv(q)'
    OBVIOUS
  <2>1. exec'[q] = Idle /\ tails'[q] = 0 /\ exec'[q].pc = "idle"
    BY <1>9 DEF Crash, Idle
  <2>2. TasksFollowExecution(q)'
    <3>1. exec[q].pc \in Pcs /\ RunInv(q)
      BY <1>0 DEF Typed, Executing
    <3>2. QED
      BY <1>9, <2>1, <3>1
         DEF Crash, Pcs, RunInv, StatusFollowsExecution, TasksFollowExecution, Untried, Terminal
  <2>3. ExecutionIsShaped(q)' /\ StatusFollowsExecution(q)'
    BY <1>9, <2>1 DEF Crash, ExecutionIsShaped, StatusFollowsExecution
  <2>4. QED
    BY <2>2, <2>3 DEF RunInv
<1>10. CASE Recover
  <2> SUFFICES ASSUME NEW q \in Runs PROVE RunInv(q)'
    OBVIOUS
  <2>1. exec[q].pc = "idle" /\ exec' = exec /\ tails' = tails /\ tails[q] = 0
    BY <1>0, <1>10 DEF Recover, Typed, RunInv, ExecutionIsShaped
  <2>2. run'[q].status = (IF run[q].status = "running" THEN "lost" ELSE run[q].status)
    BY <1>0, <1>10 DEF Recover, Typed, RunRecord, Lost
  <2>3. ASSUME NEW s \in 1..Steps
        PROVE  /\ task'[q][s].attempt = task[q][s].attempt
               /\ task'[q][s].status = (IF run[q].status = "running" /\ task[q][s].status = "running"
                                        THEN "lost" ELSE task[q][s].status)
    <3>1. task[q][s] \in TaskRecord
      BY <1>0 DEF Typed
    <3>2. task'[q][s] = IF run[q].status = "running" THEN Lost(task[q][s]) ELSE task[q][s]
      BY <1>10 DEF Recover
    <3>3. QED
      BY <3>1, <3>2 DEF TaskRecord, Lost
  <2>4. ExecutionIsShaped(q)'
    BY <1>0, <1>10, <2>1 DEF Recover, RunInv, ExecutionIsShaped
  <2>5. StatusFollowsExecution(q)'
    BY <1>10, <2>1, <2>2 DEF Recover, StatusFollowsExecution
  <2>6. TasksFollowExecution(q)'
    BY <1>0, <2>1, <2>2, <2>3 DEF RunInv, TasksFollowExecution, Untried
  <2>7. QED
    BY <2>4, <2>5, <2>6 DEF RunInv
<1>11. CASE UNCHANGED vars
  BY <1>0, <1>11, Untouched DEF vars
<1>12. ASSUME NEW r \in Runs, LeftBehindStops(r) PROVE \A q \in Runs : RunInv(q)'
  BY <1>0, <1>12, Untouched DEF LeftBehindStops
<1>13. QED
  BY <1>2, <1>3, <1>4, <1>5, <1>6, <1>7, <1>8, <1>9, <1>10, <1>11, <1>12 DEF Next

\* Every step keeps the inductive invariant.
LEMMA InvStep == IInv /\ [Next]_vars => IInv'
<1>1. ASSUME IInv, [Next]_vars PROVE \A q \in Runs : RunInv(q)'
  BY <1>1, ExecutionStep, OtherStep
<1>2. QED
  BY <1>1, TypeStep DEF IInv

\* Nothing has been started, and no step of any run tried.
LEMMA InvInit == Init => IInv
<1> SUFFICES ASSUME Init PROVE IInv
  OBVIOUS
<1> USE FlowIsNonEmpty DEF Init
<1>1. Typed
  <2>1. [status |-> "none", hook |-> FALSE] \in RunRecord
    BY DEF RunRecord, RunStates
  <2>2. [status |-> "queued", attempt |-> 0] \in TaskRecord
    BY DEF TaskRecord, TaskStates
  <2>3. QED
    BY <2>1, <2>2, Updates DEF Typed, MonitorRecord
<1>2. ASSUME NEW r \in Runs PROVE RunInv(r)
  BY DEF RunInv, ExecutionIsShaped, StatusFollowsExecution, TasksFollowExecution, Untried, Idle
<1>3. QED
  BY <1>1, <1>2 DEF IInv

\* The inductive invariant holds throughout.
THEOREM InvHolds == Spec => []IInv
BY InvInit, InvStep, PTL DEF Spec

-----------------------------------------------------------------------------
(* What was asked for                                                      *)

\* From its time-out to its end, an execution may have left an operation behind.
Ending == {"fail", "report", "save"}

\* Each execution of a run was asked for by its start or by a resume, and leaves
\* at most one operation behind.  An execution that has not reached its end
\* still has its own to leave: that is why the executions that are queued count.
Owed(q) ==
    left[q] + tails[q] <= resumed[q] + (IF Fresh(q) THEN 0 ELSE 1)
                                     + (IF exec[q].pc \in Ending THEN 1 ELSE 0)

LeftInv ==
    /\ left \in [Runs -> Nat]
    /\ resumed \in [Runs -> Nat]
    /\ \A q \in Runs : Owed(q)

\* A step that leaves a run alone owes it nothing more.
LEMMA OwedUntouched ==
    ASSUME NEW q \in Runs, Owed(q), left'[q] = left[q], resumed'[q] = resumed[q],
           run'[q] = run[q], exec'[q] = exec[q], tails'[q] = tails[q]
    PROVE  Owed(q)'
BY DEF Owed, Fresh

\* An execution that goes on leaves nothing behind, and one that returns is
\* counted no more.
LEMMA OwedOn ==
    ASSUME IInv, LeftInv, NEW r \in Runs,
           left'[r] = left[r], resumed'[r] = resumed[r], run'[r].status # "none",
           \/ tails'[r] = tails[r] /\ (exec[r].pc \in Ending => exec'[r].pc \in Ending)
           \/ tails'[r] = tails[r] - 1 /\ exec'[r] = Idle
    PROVE  Owed(r)'
<1>1. left[r] \in Nat /\ resumed[r] \in Nat /\ tails[r] \in Nat /\ Owed(r)
  BY DEF IInv, Typed, LeftInv
<1>2. exec'[r] = Idle => exec'[r].pc = "idle"
  BY DEF Idle
<1>3. QED
  BY <1>1, <1>2 DEF Owed, Fresh, Ending

\* What the steps of an execution make of what is left behind.
LEMMA ExecutionOwes ==
    ASSUME IInv, LeftInv, NEW r \in Runs,
           Execution(r) \/ OperationSucceeds(r) \/ OperationFails(r)
    PROVE  LeftInv'
<1> USE DEF At
<1>0. Typed /\ exec[r] \in Executing /\ run[r] \in RunRecord /\ RunInv(r) /\ \A q \in Runs : Owed(q)
  BY DEF IInv, Typed, LeftInv
<1>1. /\ exec[r].pc # "idle" => run[r].status # "none"
      /\ tails[r] > 0 => run[r].status # "none"
  BY <1>0 DEF Executing, Pcs, RunInv, StatusFollowsExecution, Terminal
<1>2. ASSUME UNCHANGED <<left, resumed>>, Owed(r)',
             \A q \in Runs \ {r} : run'[q] = run[q] /\ exec'[q] = exec[q] /\ tails'[q] = tails[q]
      PROVE  LeftInv'
  BY <1>0, <1>2, OwedUntouched DEF LeftInv
<1>3. CASE Begin(r)
  <2>1. run'[r].status # "none" /\ exec[r].pc = "idle"
    BY <1>1, <1>3 DEF Begin
  <2>2. Owed(r)'
    BY <1>0, <1>3, <2>1, OwedOn DEF Begin, Return, Goto, Typed, Ending
  <2>3. QED
    BY <1>0, <1>2, <1>3, <2>2 DEF Begin, Return, Goto, Typed
<1>4. CASE Start(r)
  <2>1. run'[r].status # "none"
    BY <1>0, <1>4 DEF Start, Typed, RunRecord
  <2>2. Owed(r)'
    BY <1>0, <1>4, <2>1, OwedOn DEF Start, Ending
  <2>3. QED
    BY <1>0, <1>2, <1>4, <2>2 DEF Start, Goto, Typed
<1>5. CASE NextStep(r)
  <2>1. run'[r].status # "none" /\ exec[r].pc = "next"
    BY <1>1, <1>5 DEF NextStep
  <2>2. Owed(r)'
    BY <1>0, <1>5, <2>1, OwedOn DEF NextStep, Return, Goto, Typed, Ending
  <2>3. QED
    BY <1>0, <1>2, <1>5, <2>2 DEF NextStep, Return, Goto, Typed
<1>6. CASE RunStep(r)
  <2>1. run'[r].status # "none"
    BY <1>0, <1>6 DEF RunStep, Typed, RunRecord
  <2>2. Owed(r)'
    BY <1>0, <1>6, <2>1, OwedOn DEF RunStep, Ending
  <2>3. QED
    BY <1>0, <1>2, <1>6, <2>2 DEF RunStep, Typed
<1>7. CASE OperationSucceeds(r) \/ OperationFails(r)
  <2>1. run'[r].status # "none"
    BY <1>1, <1>7 DEF OperationSucceeds, OperationFails
  <2>2. Owed(r)'
    BY <1>0, <1>7, <2>1, OwedOn DEF OperationSucceeds, OperationFails, Ending
  <2>3. QED
    BY <1>0, <1>2, <1>7, <2>2 DEF OperationSucceeds, OperationFails, Typed
<1>8. CASE TimesOut(r)
  <2>1. exec'[r].pc = "fail" /\ exec[r].pc = "attempt"
    BY <1>0, <1>8 DEF TimesOut, Goto, Typed, Executing
  <2>2. left' \in [Runs -> Nat] /\ left'[r] = left[r] + 1
    BY <1>8 DEF LeftInv, TimesOut
  <2>3. left[r] \in Nat /\ tails[r] \in Nat /\ resumed[r] \in Nat
    BY <1>0 DEF LeftInv, Typed
  <2>4. Owed(r)'
    BY <1>0, <1>8, <2>1, <2>2, <2>3 DEF TimesOut, Owed, Fresh, Ending
  <2>5. \A q \in Runs \ {r} : Owed(q)'
    BY <1>0, <1>8, OwedUntouched DEF TimesOut, Goto, Typed, LeftInv
  <2>6. QED
    BY <1>8, <2>2, <2>4, <2>5 DEF TimesOut, LeftInv
<1>9. CASE Fail(r) \/ Finish(r)
  <2>1. run'[r].status # "none" /\ exec'[r].pc = "report"
    BY <1>0, <1>9 DEF Fail, Finish, Goto, Typed, RunRecord, Executing
  <2>2. Owed(r)'
    BY <1>0, <1>9, <2>1, OwedOn DEF Fail, Finish, Ending
  <2>3. QED
    BY <1>0, <1>2, <1>9, <2>2 DEF Fail, Finish, Goto, Typed
<1>10. ASSUME End(r), exec[r].pc \in {"report", "save"}, UNCHANGED <<left, resumed>>
       PROVE  LeftInv'
  <2>1. CASE Return(r) /\ UNCHANGED run
    <3>1. Owed(r)'
      BY <1>0, <1>1, <1>10, <2>1, OwedOn DEF Return, Typed
    <3>2. QED
      BY <1>0, <1>2, <1>10, <2>1, <3>1 DEF Return, Typed
  <2>2. ASSUME NEW h \in Runs, Fresh(h),
               run' = [run EXCEPT ![h] = [status |-> "queued", hook |-> TRUE]],
               tails' = [tails EXCEPT ![r] = @ - 1, ![h] = 1],
               exec' = [exec EXCEPT ![r] = Idle]
        PROVE  LeftInv'
    <3>1. h # r
      BY <1>1, <1>10, <2>2 DEF Fresh
    <3>2. Owed(r)'
      BY <1>0, <1>1, <1>10, <2>2, <3>1, OwedOn DEF Typed
    <3>3. Owed(h)'
      <4>1. tails'[h] = 1 /\ exec'[h] = exec[h] /\ run'[h].status = "queued" /\ Owed(h)
        BY <1>0, <2>2, <3>1 DEF Typed
      <4>2. left[h] \in Nat /\ tails[h] \in Nat /\ resumed[h] \in Nat
        BY <1>0 DEF LeftInv, Typed
      <4>3. QED
        BY <1>10, <2>2, <4>1, <4>2 DEF Owed, Fresh
    <3>4. \A q \in Runs \ {r, h} : Owed(q)'
      BY <1>0, <1>10, <2>2, OwedUntouched DEF Typed
    <3>5. QED
      BY <1>10, <3>2, <3>3, <3>4 DEF LeftInv
  <2>3. QED
    BY <1>10, <2>1, <2>2 DEF End
<1>11. CASE Report(r)
  <2>1. CASE Goto(r, "save") /\ UNCHANGED <<run, tails>>
    <3>1. exec'[r].pc = "save" /\ run'[r].status # "none"
      BY <1>0, <1>1, <1>11, <2>1 DEF Report, Goto, Typed, Executing
    <3>2. Owed(r)'
      BY <1>11, <2>1, <3>1, OwedOn DEF Report, Ending
    <3>3. QED
      BY <1>0, <1>2, <1>11, <2>1, <3>2 DEF Report, Goto, Typed
  <2>2. QED
    BY <1>10, <1>11, <2>1 DEF Report
<1>12. CASE SaveStatus(r)
  BY <1>10, <1>12 DEF SaveStatus
<1>13. QED
  BY <1>3, <1>4, <1>5, <1>6, <1>7, <1>8, <1>9, <1>11, <1>12 DEF Execution

\* Only a start and a resume add to what a run was asked for; a stop of the host
\* ends its operations with everything else.
LEMMA OtherOwes ==
    ASSUME IInv, LeftInv, [Next]_vars,
           ~\E r \in Runs : Execution(r) \/ OperationSucceeds(r) \/ OperationFails(r)
    PROVE  LeftInv'
<1>0. Typed /\ \A q \in Runs : Owed(q)
  BY DEF IInv, LeftInv
<1>1. ASSUME NEW q \in Runs PROVE left[q] \in Nat /\ tails[q] \in Nat /\ resumed[q] \in Nat
  BY <1>0 DEF LeftInv, Typed
<1>2. ASSUME NEW r \in Runs, StartFlow(r), UNCHANGED <<exec, left, resumed>> PROVE LeftInv'
  <2>1. tails'[r] = 1 /\ run'[r].status = "queued" /\ Fresh(r)
    BY <1>0, <1>2 DEF StartFlow, Typed
  <2>2. Owed(r)'
    BY <1>0, <1>1, <1>2, <2>1 DEF Owed, Fresh
  <2>3. \A q \in Runs \ {r} : Owed(q)'
    BY <1>0, <1>2, OwedUntouched DEF StartFlow, Typed
  <2>4. QED
    BY <1>2, <2>2, <2>3 DEF LeftInv
<1>3. ASSUME NEW r \in Runs, StartGardener(r) \/ TickHeartbeats(r) \/ RunNow(r) PROVE LeftInv'
  BY <1>2, <1>3 DEF StartGardener, TickHeartbeats, RunNow
<1>4. ASSUME NEW r \in Runs, Cancel(r) PROVE LeftInv'
  <2>1. run'[r].status = "cancelled"
    BY <1>0, <1>4 DEF Cancel, Typed, RunRecord
  <2>2. Owed(r)'
    BY <1>0, <1>1, <1>4, <2>1 DEF Cancel, Owed, Fresh
  <2>3. \A q \in Runs \ {r} : Owed(q)'
    BY <1>0, <1>4, OwedUntouched DEF Cancel, Typed
  <2>4. QED
    BY <1>4, <2>2, <2>3 DEF Cancel, LeftInv
<1>5. ASSUME NEW r \in Runs, Resume(r) PROVE LeftInv'
  <2>1. /\ run'[r].status = "queued" /\ ~Fresh(r)
        /\ tails'[r] = tails[r] + 1 /\ resumed'[r] = resumed[r] + 1
    BY <1>0, <1>5 DEF Resume, Typed, LeftInv, Fresh
  <2>2. Owed(r)'
    BY <1>0, <1>1, <1>5, <2>1 DEF Resume, Owed, Fresh
  <2>3. \A q \in Runs \ {r} : Owed(q)'
    BY <1>0, <1>5, OwedUntouched DEF Resume, Typed, LeftInv
  <2>4. resumed' \in [Runs -> Nat]
    BY <1>5 DEF Resume, LeftInv
  <2>5. QED
    BY <1>5, <2>2, <2>3, <2>4 DEF Resume, LeftInv
<1>6. ASSUME NEW r \in Runs, LeftBehindStops(r) PROVE LeftInv'
  <2>1. left'[r] = left[r] - 1 /\ left' \in [Runs -> Nat]
    BY <1>1, <1>6 DEF LeftBehindStops, LeftInv
  <2>2. Owed(r)'
    BY <1>0, <1>1, <1>6, <2>1 DEF LeftBehindStops, Owed, Fresh
  <2>3. \A q \in Runs \ {r} : Owed(q)'
    BY <1>0, <1>6, OwedUntouched DEF LeftBehindStops, LeftInv
  <2>4. QED
    BY <1>6, <2>1, <2>2, <2>3 DEF LeftBehindStops, LeftInv
<1>7. CASE Crash
  BY <1>7 DEF Crash, LeftInv, Owed
<1>8. CASE Recover
  <2>1. ASSUME NEW q \in Runs PROVE Fresh(q)' <=> Fresh(q)
    <3>1. run'[q] = Lost(run[q]) /\ run[q] \in RunRecord
      BY <1>0, <1>8 DEF Recover, Typed
    <3>2. QED
      BY <3>1 DEF Lost, Fresh, RunRecord
  <2>2. QED
    BY <1>0, <1>8, <2>1 DEF Recover, LeftInv, Owed
<1>9. CASE UNCHANGED vars \/ DeleteMonitor \/ \E w \in Starters : SaveMonitor(w)
  BY <1>0, <1>9, OwedUntouched DEF vars, DeleteMonitor, SaveMonitor, LeftInv
<1>10. QED
  BY <1>3, <1>4, <1>5, <1>6, <1>7, <1>8, <1>9 DEF Next

\* What is left behind is owed to a start or a resume throughout.
THEOREM LeftHolds == Spec => []LeftInv
<1>1. Init => LeftInv
  <2> SUFFICES ASSUME Init PROVE LeftInv
    OBVIOUS
  <2>1. ASSUME NEW q \in Runs PROVE Owed(q)
    BY DEF Init, Owed, Fresh, Idle
  <2>2. QED
    BY <2>1 DEF Init, LeftInv
<1>2. IInv /\ LeftInv /\ [Next]_vars => LeftInv'
  BY ExecutionOwes, OtherOwes
<1>3. QED
  BY <1>1, <1>2, InvHolds, PTL DEF Spec

-----------------------------------------------------------------------------
(* What follows from it                                                    *)

\* The records of runs, tasks and monitors, and every attempt, are of their types.
THEOREM TypeCorrect == Spec => []TypeOK
<1>1. IInv /\ LeftInv => TypeOK
  BY DEF LeftInv, IInv, Typed, TypeOK, RunInv, ExecutionIsShaped, RunRecord, RunStates, TaskRecord,
         TaskStates, MonitorRecord, Terminal
<1>2. QED
  BY <1>1, InvHolds, LeftHolds, PTL

\* A run recorded as succeeded has done every one of its steps, however often it
\* was cancelled, lost, failed and resumed.
THEOREM SuccessNeedsEveryStep == Spec => []SuccessIsComplete
<1>1. IInv => SuccessIsComplete
  <2> SUFFICES ASSUME IInv, NEW r \in Runs, run[r].status = "succeeded", NEW s \in 1..Steps
               PROVE  task[r][s].status = "succeeded"
    BY DEF SuccessIsComplete
  <2>1. exec[r].pc \in {"idle", "report", "save"}
    BY DEF IInv, Typed, Executing, Pcs, RunInv, StatusFollowsExecution
  <2>2. QED
    BY <2>1 DEF IInv, RunInv, TasksFollowExecution
<1>2. QED
  BY <1>1, InvHolds, PTL

\* What is recorded as running is executed, and of the operations of a run that
\* go on at once all but one are owed to resumes since the host started, for any
\* number of runs, steps, attempts, requests and stops.
THEOREM OverlapIsAskedFor == Spec => []RunsAreExecutedOnce
<1>1. IInv => RunningIsExecuted
  BY DEF IInv, RunningIsExecuted, RunInv, ExecutionIsShaped, StatusFollowsExecution
<1>2. IInv /\ LeftInv => OverlapNeedsResume
  <2> SUFFICES ASSUME IInv, LeftInv, NEW r \in Runs PROVE Operations(r) <= 1 + resumed[r]
    BY DEF OverlapNeedsResume
  <2>1. left[r] \in Nat /\ tails[r] \in Nat /\ resumed[r] \in Nat /\ Owed(r) /\ ExecutionIsShaped(r)
    BY DEF IInv, Typed, LeftInv, RunInv
  <2>2. QED
    BY <2>1 DEF Operations, At, Owed, ExecutionIsShaped, Ending
<1>3. QED
  BY <1>1, <1>2, InvHolds, LeftHolds, PTL DEF RunsAreExecutedOnce
================================================================================
