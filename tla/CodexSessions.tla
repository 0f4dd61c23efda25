----------------------------- MODULE CodexSessions -----------------------------
(***************************************************************************)
(* The resident Codex app-servers: server/codex-provider.ts                *)
(* (CodexCliAdapter), server/provider-process.ts, and the part of          *)
(* server/provider-run.ts that drives a Codex run and waits for its child. *)
(*                                                                         *)
(* A conversation keeps one app-server between its runs.  A run borrows    *)
(* the resident process or spawns a new one, the event generator and the   *)
(* consumer in provider-run.ts take turns over it, and a process is given  *)
(* up by an idle timer, by a sweep over the idle ones, by a cancellation   *)
(* (at once or two seconds later), by a protocol failure, or on its own.   *)
(*                                                                         *)
(* Every conversation has its own worktree, which a run holds from its     *)
(* admission to its end, so a conversation has at most one run.  Several   *)
(* microtasks without I/O between them are one action.  The desktop host   *)
(* is modelled, where every Codex run has the shared browser's MCP server. *)
(***************************************************************************)
EXTENDS Naturals, FiniteSets

CONSTANTS
    Convs,      \* conversations
    MaxRuns,    \* how many runs are ever started; each spawns at most one process
    IdleLimit,  \* maxIdleSessions
    MaxFaults,  \* how often something fails: a process ends by itself, the CLI
                \* is missing, a write to the history fails, a client goes away
    None

ASSUME CodexAssumption ==
    /\ MaxRuns \in Nat /\ IdleLimit \in Nat /\ MaxFaults \in Nat
    /\ None \notin Convs \cup Nat

VARIABLES
    proc,     \* process -> the child and the ActiveRun record kept for it
    sessions, \* #sessions: the pairs <<p, q>> of resident processes, p inserted no later than q
    run,      \* run -> where its generator and its consumer are
    token,    \* conversations whose browser token the broker retains
    faults

vars == <<proc, sessions, run, token, faults>>

Runs == 1..MaxRuns
Procs == 1..MaxRuns
Terminal == {"completed", "failed", "cancelled"}
Events == {"session", "progress"} \cup Terminal

Proc == [conv : Convs \cup {None}, run : Runs \cup {None}, thread : BOOLEAN,
         turn : BOOLEAN, working : BOOLEAN, cancelled : BOOLEAN, timer : BOOLEAN,
         term : {"none", "scheduled", "terminating"},
         life : {"unborn", "up", "exited", "signalled", "closed"}]
Run == [conv : Convs \cup {None}, proc : Procs \cup {0}, active : BOOLEAN,
        event : Events \cup {None}, closed : BOOLEAN, settled : BOOLEAN,
        pc : {"none", "version", "bound", "stream", "recording", "returning",
              "settling", "finishing", "done"}]

Unborn == [conv |-> None, run |-> None, thread |-> FALSE, turn |-> FALSE,
           working |-> FALSE, cancelled |-> FALSE, timer |-> FALSE,
           term |-> "none", life |-> "unborn"]
Unused == [conv |-> None, proc |-> 0, active |-> FALSE, event |-> None,
           closed |-> FALSE, settled |-> FALSE, pc |-> "none"]

Init ==
    /\ proc = [p \in Procs |-> Unborn]
    /\ sessions = {}
    /\ run = [r \in Runs |-> Unused]
    /\ token = {}
    /\ faults = 0

--------------------------------------------------------------------------------
(* What a step reads. *)

Up(p) == proc[p].life = "up"
Retained(p) == <<p, p>> \in sessions
Residents == {p \in Procs : Retained(p)}
Busy(r) == run[r].pc \notin {"none", "done"}
BusyConv(c) == \E r \in Runs : Busy(r) /\ run[r].conv = c
ProcOf(r) == run[r].proc
Fault == faults < MaxFaults /\ faults' = faults + 1
Existing(c) == {p \in Residents : proc[p].conv = c}

\* exitCode alone is looked at: a child ended by a signal has none.
Reusable(p) == proc[p].life \in {"up", "signalled"} /\ proc[p].run = None

--------------------------------------------------------------------------------
(* What a step does to a process, as functions of its record. *)

Terminated(s) == [s EXCEPT !.term = IF s.life = "up" THEN "terminating" ELSE "none"]
Scheduled(s) ==
    [s EXCEPT !.term = IF s.life # "up" THEN "none"
                       ELSE IF @ = "none" THEN "scheduled" ELSE @]
\* #retireSession: the timer goes and the child is asked to end.
Retired(s) == [Terminated(s) EXCEPT !.timer = FALSE]
\* Not the code: an interrupted turn is left to end by itself.
Cancelled_interruptOnly(s) ==
    LET marked == [s EXCEPT !.cancelled = TRUE]
    IN  IF s.thread /\ s.turn THEN marked ELSE Terminated(marked)

\* cancel: an identified turn is interrupted and gets two seconds.
Cancelled(s) ==
    LET marked == [s EXCEPT !.cancelled = TRUE]
    IN  IF s.thread /\ s.turn THEN Scheduled(marked) ELSE Terminated(marked)
\* The finally block frees the process for another run.
Freed(s) == [s EXCEPT !.run = None]

\* The generator is over and its outcome told.
Over(s, pc) == [s EXCEPT !.active = FALSE, !.event = None, !.closed = FALSE, !.pc = pc]

Without(gone) == {o \in sessions : o[1] \notin gone /\ o[2] \notin gone}
\* p is taken out of the map and set again, as its youngest.
Renewed(p) == Without({p}) \cup {<<q, p>> : q \in Residents \cup {p}}
ConvsOf(ps) == {proc[p].conv : p \in ps}

\* #retireSession of the processes in gone, with onSessionClosed for each that
\* was retained.
Retire(gone) ==
    /\ sessions' = Without(gone)
    /\ proc' = [p \in Procs |-> IF p \in gone THEN Retired(proc[p]) ELSE proc[p]]
    /\ token' = token \ ConvsOf({p \in gone : Retained(p)})

\* #scheduleIdleRetirement(p), with q the record of p after the run let go of
\* it: p becomes the youngest session and gets a timer, and the oldest idle
\* sessions beyond the limit are retired.
Idle(p) == {x \in Residents : x = p \/ proc[x].run = None}
FromIdle(p, x) == {y \in Idle(p) : <<x, y>> \in Renewed(p)}
\* Not the code: one session more than the limit is kept.
Swept_offByOne(p) == {x \in Idle(p) : Cardinality(FromIdle(p, x)) > IdleLimit + 1}

Swept(p) == {x \in Idle(p) : Cardinality(FromIdle(p, x)) > IdleLimit}
ScheduleIdle(p, q) ==
    IF ~Retained(p) \/ q.life \notin {"up", "signalled"} \/ q.cancelled
    THEN proc' = [proc EXCEPT ![p] = q] /\ UNCHANGED <<sessions, token>>
    ELSE LET kept == [proc EXCEPT ![p] = [q EXCEPT !.timer = TRUE]]
             gone == Swept(p)
         IN  /\ proc' = [x \in Procs |-> IF x \in gone THEN Retired(kept[x]) ELSE kept[x]]
             /\ sessions' = {o \in Renewed(p) : o[1] \notin gone /\ o[2] \notin gone}
             /\ token' = token \ ConvsOf(gone)

\* The generator's finally block, for a process whose record is s by then.
Finally(r, s, completed) ==
    LET p == ProcOf(r)
    IN  IF s.run # r
        THEN proc' = [proc EXCEPT ![p] = s] /\ UNCHANGED <<sessions, token>>
        ELSE IF completed THEN ScheduleIdle(p, Freed(s))
        ELSE proc' = [proc EXCEPT ![p] = Freed(s)] /\ UNCHANGED <<sessions, token>>

--------------------------------------------------------------------------------
(* Starting a run. *)

\* Admission takes the worktree and publishes the browser token; start borrows
\* the resident process or gives it up, without notice, for a new one.
Start(r, c) ==
    /\ run[r].pc = "none" /\ (\A q \in 1..(r - 1) : run[q].pc # "none")
    /\ ~BusyConv(c)
    /\ token' = token \cup {c}
    /\ \/ \E p \in Existing(c) :
             /\ Reusable(p)
             /\ proc' = [proc EXCEPT ![p].run = r, ![p].cancelled = FALSE,
                                     ![p].turn = FALSE, ![p].timer = FALSE]
             /\ sessions' = Renewed(p)
             /\ run' = [run EXCEPT ![r] = [Unused EXCEPT
                           !.conv = c, !.proc = p, !.active = TRUE, !.pc = "bound",
                           !.settled = proc[p].life = "signalled"]]
       \/ /\ \A p \in Existing(c) : ~Reusable(p)
          /\ sessions' = Without(Existing(c))
          /\ proc' = [p \in Procs |-> IF p \in Existing(c) THEN Retired(proc[p]) ELSE proc[p]]
          /\ run' = [run EXCEPT ![r] = [Unused EXCEPT !.conv = c, !.pc = "version"]]
    /\ UNCHANGED faults

\* `codex --version` is answered: the app-server is spawned and retained.
Spawn(r) ==
    /\ run[r].pc = "version"
    /\ \E p \in Procs :
          /\ proc[p].life = "unborn" /\ \A q \in 1..(p - 1) : proc[q].life # "unborn"
          /\ proc' = [proc EXCEPT ![p] = [Unborn EXCEPT
                         !.conv = run[r].conv, !.run = r, !.life = "up"]]
          /\ sessions' = Renewed(p)
          /\ run' = [run EXCEPT ![r].proc = p, ![r].active = TRUE, ![r].pc = "bound"]
    /\ UNCHANGED <<token, faults>>

\* The CLI is missing or too old: start throws and the run, which never owned
\* the token, releases it.
VersionFails(r) ==
    /\ run[r].pc = "version" /\ Fault
    /\ run' = [run EXCEPT ![r].pc = "done"]
    /\ token' = token \ {run[r].conv}
    /\ UNCHANGED <<proc, sessions>>

\* bindProviderRun or a write next to it fails: the run is cancelled and left,
\* its generator never runs and so never cleans up after it.
BindFails(r) ==
    /\ run[r].pc = "bound" /\ Fault
    /\ proc' = [proc EXCEPT ![ProcOf(r)] = Cancelled(@)]
    /\ run' = [run EXCEPT ![r].pc = "done"]
    /\ UNCHANGED <<sessions, token>>

\* The first next(): a resident thread gets turn/start, a new process the
\* handshake.
Begin(r) ==
    /\ run[r].pc = "bound"
    /\ run' = [run EXCEPT ![r].pc = "stream"]
    /\ proc' = [proc EXCEPT ![ProcOf(r)].working = Up(ProcOf(r)) /\ proc[ProcOf(r)].thread]
    /\ UNCHANGED <<sessions, token, faults>>

--------------------------------------------------------------------------------
(* The generator, between two yields. *)

Reading(r) == run[r].pc \in {"stream", "returning"} /\ run[r].active

\* A yield before the finally block.  A consumer that waits records the event;
\* one that has asked the generator to return makes it clean up at once.
Yields(r, e, s) ==
    IF run[r].pc = "stream"
    THEN /\ run' = [run EXCEPT ![r].pc = "recording", ![r].event = e]
         /\ proc' = [proc EXCEPT ![ProcOf(r)] = s] /\ UNCHANGED <<sessions, token>>
    ELSE /\ run' = [run EXCEPT ![r] = Over(@, "settling")]
         /\ Finally(r, s, e = "completed")

\* A yield after the finally block.
Tells(r, e) ==
    run' = [run EXCEPT ![r] =
        IF @.pc = "stream"
        THEN [@ EXCEPT !.active = FALSE, !.event = e, !.pc = "recording"]
        ELSE Over(@, "settling")]

\* thread/start or thread/resume is answered.
ThreadStarted(r) ==
    /\ Reading(r) /\ Up(ProcOf(r)) /\ ~proc[ProcOf(r)].thread
    /\ Yields(r, "session", [proc[ProcOf(r)] EXCEPT !.thread = TRUE])
    /\ UNCHANGED faults

\* turn/start is answered with the turn's id.
TurnAccepted(r) ==
    /\ Reading(r) /\ proc[ProcOf(r)].working /\ ~proc[ProcOf(r)].turn
    /\ proc' = [proc EXCEPT ![ProcOf(r)].turn = TRUE]
    /\ UNCHANGED <<sessions, run, token, faults>>

\* Text, tools, approvals and questions.
Progress(r) ==
    /\ Reading(r) /\ proc[ProcOf(r)].working
    /\ Yields(r, "progress", proc[ProcOf(r)])
    /\ UNCHANGED faults

\* turn/completed, or an error notification, after which the provider may be
\* working on.  What #events does after the yield of a failed or cancelled
\* event is not reached: the consumer never asks for another one.
Notified(r, e) ==
    /\ Reading(r) /\ proc[ProcOf(r)].working /\ proc[ProcOf(r)].turn
    /\ \E w \in IF e = "failed" THEN BOOLEAN ELSE {FALSE} :
          Yields(r, e, [proc[ProcOf(r)] EXCEPT !.working = w])
    /\ UNCHANGED faults

\* A malformed or refused message.  A cancelled run ends its process and cleans
\* up before it says so; any other retires the session and then says so.
ProtocolFails(r) ==
    /\ Reading(r) /\ Up(ProcOf(r))
    /\ LET p == ProcOf(r) IN
       IF proc[p].cancelled
       THEN /\ Finally(r, Terminated(proc[p]), FALSE)
            /\ Tells(r, "cancelled")
       ELSE /\ run[r].pc = "stream"
            /\ Retire({p})
            /\ run' = [run EXCEPT ![r].pc = "recording", ![r].event = "failed"]
    /\ UNCHANGED faults

\* stdout has ended: the generator cleans up, then tells what became of it.
StreamEnds(r) ==
    /\ Reading(r) /\ ~Up(ProcOf(r))
    /\ Finally(r, proc[ProcOf(r)], FALSE)
    /\ Tells(r, IF proc[ProcOf(r)].cancelled THEN "cancelled" ELSE "failed")
    /\ UNCHANGED faults

--------------------------------------------------------------------------------
(* The consumer. *)

\* The event is in the history.  A terminal one, or any once the client has
\* gone, ends the loop: the generator returns from the yield it stands at.
\* Only a completed turn leaves its process resident.
Recorded(r) ==
    /\ run[r].pc = "recording"
    /\ LET e == run[r].event
           p == ProcOf(r)
       IN  IF e \notin Terminal /\ ~run[r].closed
           THEN /\ run' = [run EXCEPT ![r].pc = "stream", ![r].event = None]
                /\ proc' = [proc EXCEPT ![p].working =
                                IF e = "session" THEN Up(p) ELSE @]
                /\ UNCHANGED <<sessions, token>>
           ELSE /\ run' = [run EXCEPT ![r] =
                       Over(@, IF e = "completed" THEN "finishing" ELSE "settling")]
                /\ IF run[r].active
                   THEN Finally(r, proc[p], e = "completed")
                   ELSE UNCHANGED <<proc, sessions, token>>
    /\ UNCHANGED faults

\* The history cannot be written: the run is cancelled and its stream left.
RecordFails(r) ==
    /\ run[r].pc = "recording" /\ Fault
    /\ run' = [run EXCEPT ![r] = Over(@, "settling")]
    /\ IF run[r].active
       THEN Finally(r, Cancelled(proc[ProcOf(r)]), run[r].event = "completed")
       ELSE UNCHANGED <<proc, sessions, token>>

CancelRun(r) ==
    proc' = IF run[r].active THEN [proc EXCEPT ![ProcOf(r)] = Cancelled(@)] ELSE proc

\* The client goes away before a terminal event is recorded.
TransportCloses(r) ==
    /\ run[r].pc \in {"stream", "recording"} /\ ~run[r].closed /\ Fault
    /\ CancelRun(r)
    /\ run' = [run EXCEPT ![r].closed = TRUE,
                          ![r].pc = IF @ = "stream" THEN "returning" ELSE @]
    /\ UNCHANGED <<sessions, token>>

\* The operator cancels.
Cancel(r) ==
    /\ run[r].pc \in {"stream", "recording"} /\ run[r].active
    /\ ~proc[ProcOf(r)].cancelled
    /\ CancelRun(r)
    /\ UNCHANGED <<sessions, run, token, faults>>

\* Not the code: the end of a run does not wait for its child.
Settled_atOnce(r) ==
    /\ run[r].pc = "settling"
    /\ run' = [run EXCEPT ![r].pc = "finishing"]
    /\ UNCHANGED <<proc, sessions, token, faults>>

\* run.settled: the child has closed, or had ended before the run began.
Settled(r) ==
    /\ run[r].pc = "settling"
    /\ run[r].settled \/ proc[ProcOf(r)].life = "closed"
    /\ run' = [run EXCEPT ![r].pc = "finishing"]
    /\ UNCHANGED <<proc, sessions, token, faults>>

\* The checkpoint is taken and the worktree released.
Finish(r) ==
    /\ run[r].pc = "finishing"
    /\ run' = [run EXCEPT ![r].pc = "done"]
    /\ UNCHANGED <<proc, sessions, token, faults>>

--------------------------------------------------------------------------------
(* The process and its timers. *)

Ends(p) ==
    \E how \in {"exited", "signalled"} :
        proc' = [proc EXCEPT ![p].life = how, ![p].working = FALSE]

\* SIGTERM, or SIGKILL after the grace period.
Dies(p) ==
    /\ Up(p) /\ proc[p].term = "terminating" /\ Ends(p)
    /\ UNCHANGED <<sessions, run, token, faults>>

Crash(p) ==
    /\ Up(p) /\ Fault /\ Ends(p)
    /\ UNCHANGED <<sessions, run, token>>

\* Not the code: the close of a session that was replaced is told as well.
Closes_always(p) ==
    /\ proc[p].life \in {"exited", "signalled"}
    /\ proc' = [proc EXCEPT ![p].life = "closed", ![p].timer = FALSE, ![p].term = "none",
                           ![p].thread = FALSE, ![p].turn = FALSE]
    /\ sessions' = Without({p})
    /\ token' = token \ {proc[p].conv}
    /\ UNCHANGED <<run, faults>>

\* The close event, after the exit and the end of the pipes.
Closes(p) ==
    /\ proc[p].life \in {"exited", "signalled"}
    /\ proc' = [proc EXCEPT ![p].life = "closed", ![p].timer = FALSE, ![p].term = "none",
                           ![p].thread = FALSE, ![p].turn = FALSE]
    /\ sessions' = Without({p})
    /\ token' = IF Retained(p) THEN token \ {proc[p].conv} ELSE token
    /\ UNCHANGED <<run, faults>>

\* The two seconds after an interrupt are over.
TerminationDue(p) ==
    /\ Up(p) /\ proc[p].term = "scheduled"
    /\ proc' = [proc EXCEPT ![p] = Terminated(@)]
    /\ UNCHANGED <<sessions, run, token, faults>>

IdleExpires(p) ==
    /\ proc[p].timer
    /\ IF proc[p].run = None
       THEN Retire({p})
       ELSE proc' = [proc EXCEPT ![p].timer = FALSE] /\ UNCHANGED <<sessions, token>>
    /\ UNCHANGED <<run, faults>>

--------------------------------------------------------------------------------
HostStep(r) ==
    \/ Spawn(r) \/ VersionFails(r)
    \/ Begin(r) \/ BindFails(r)
    \/ Recorded(r) \/ RecordFails(r)
    \/ StreamEnds(r) \/ Settled(r) \/ Finish(r)

ProviderStep(r) ==
    \/ ThreadStarted(r) \/ TurnAccepted(r) \/ Progress(r) \/ ProtocolFails(r)
    \/ \E e \in Terminal : Notified(r, e)

ProcessStep(p) == Dies(p) \/ Closes(p) \/ TerminationDue(p) \/ IdleExpires(p)

Next ==
    \/ \E r \in Runs :
          \/ \E c \in Convs : Start(r, c)
          \/ HostStep(r) \/ ProviderStep(r) \/ TransportCloses(r) \/ Cancel(r)
    \/ \E p \in Procs : ProcessStep(p) \/ Crash(p)

Spec == Init /\ [][Next]_vars

\* The host's own steps and timers go on, and a killed process ends.  Nothing
\* is assumed of what the provider says.
FairSpec ==
    /\ Spec
    /\ \A r \in Runs : WF_vars(HostStep(r))
    /\ \A p \in Procs : WF_vars(ProcessStep(p))

--------------------------------------------------------------------------------
TypeOK ==
    /\ proc \in [Procs -> Proc] /\ run \in [Runs -> Run]
    /\ sessions \subseteq Procs \X Procs
    /\ token \subseteq Convs /\ faults \in 0..MaxFaults

\* "bounds idle process lifetime" (codex-provider.test.ts:484): no app-server is
\* left running that is neither resident nor being ended, and no more than
\* IdleLimit wait for an idle timer.
NoStrayProcess ==
    /\ \A p \in Procs : Up(p) => Retained(p) \/ proc[p].term # "none"
    /\ Cardinality({p \in Residents : proc[p].timer}) <= IdleLimit
    /\ \A p \in Procs : proc[p].timer => Retained(p) /\ proc[p].run = None

ProcessesAreAccounted == TypeOK /\ NoStrayProcess

\* What run.settled is awaited for (provider-run.ts:1250): no app-server works
\* in a worktree that no run holds, or beside the one its run drives; and two
\* runs never drive the same process.
WorktreeIsQuiet ==
    /\ \A p \in Procs : Up(p) /\ proc[p].working =>
          \E r \in Runs : Busy(r) /\ ProcOf(r) = p
    /\ \A q, r \in Runs : run[q].active /\ run[r].active /\ q # r => ProcOf(q) # ProcOf(r)
    /\ \A r \in Runs : run[r].active => proc[ProcOf(r)].run = r

\* "browser provider token release follows accepted Codex session ownership"
\* (provider-run.test.ts:137): the broker keeps a conversation's token exactly
\* while an app-server that was given it is resident, or one is being started.
TokenFollowsSession ==
    token = ConvsOf(Residents) \cup
            {run[r].conv : r \in {q \in Runs : run[q].pc = "version"}}

\* "force-terminates an unresponsive app-server" (codex-provider.test.ts:916): a
\* run that is cancelled gives its worktree back, whatever the provider says or
\* leaves unsaid.
CancelledEnds ==
    \A r \in Runs :
        Busy(r) /\ run[r].active /\ proc[ProcOf(r)].cancelled ~> ~Busy(r)

\* Every run whose terminal event has been recorded gives its worktree back.
\* It does not: see MCCodexSessionsFailed.cfg.
EndedRunSettles == \A r \in Runs : run[r].pc = "settling" ~> ~Busy(r)

\* A run's process is not being ended unless the run was cancelled.  It may be:
\* see MCCodexSessionsReuse.cfg.
OwnTermination ==
    \A r \in Runs : run[r].pc = "stream" /\ Up(ProcOf(r)) =>
        (proc[ProcOf(r)].term # "none" => proc[ProcOf(r)].cancelled)
================================================================================
