------------------------------ MODULE ChildInput ------------------------------
(***************************************************************************)
(* The life of a question that a parked Shikigami run leaves in its child  *)
(* conversation: recordProviderEvent(input_requested), the teardown of the *)
(* parked run (provider-run.ts), the respond route                         *)
(* (delegated-control-routes.ts), the run that carries the answer, and     *)
(* recoverInterruptedTurns after a crash (state.ts).                       *)
(*                                                                         *)
(* One conversation in one worktree.  Run 1 is the operator's own run, the *)
(* others carry answers; a run parks at most once, at its end, so a        *)
(* request has the number of the run that asked, and a turn the number of  *)
(* the run that opened it.  A step is one durable write or one read of the *)
(* projection, because everything else interleaves between two of them.    *)
(* Left out: approvals, usage receipts, storage faults, other messages of  *)
(* the operator, and the Codex form of native input.                       *)
(*                                                                         *)
(* A definition Name_variant is not part of the specification: it is the   *)
(* form Name would take under a plausible bug, kept to show that a         *)
(* property would notice.                                                  *)
(***************************************************************************)
EXTENDS Naturals, FiniteSets

CONSTANTS
    MaxRuns,      \* bound: runs of the conversation
    Modes,        \* responseModes a parked run may ask for
    MaxAttempts,  \* retries of a follow-up answered 409 (24 in the code)
    MaxCrashes    \* bound: crashes of the host

ASSUME BoundsAreNat == MaxRuns \in Nat \ {0} /\ MaxAttempts \in Nat /\ MaxCrashes \in Nat
ASSUME ModesAreKnown == Modes \subseteq {"native_resume", "child_follow_up"}

Runs == 1..MaxRuns
None == 0    \* no run, no turn, no request

VARIABLES
    \* durable
    turns,       \* per turn: status and the run bound to it
    requests,    \* per request: state, mode, turn, run and resume state
    receipts,    \* per request: coordination receipts
    messages,    \* per request: turns opened with the answer as user message
    checkpoint,  \* the worktree's checkpoint: state and bound turn
    \* lost in a crash
    runs,        \* per run: stage, turn, the request it resumes natively, ending
    worktree,    \* activeCheckpointWorktrees: the run that holds the worktree
    handler,     \* the respond route, serialised by the delegated-control lock
    host,        \* "up" or "recovering"
    \* history
    launched,    \* per request: provider processes started with its answer
    crashes

durable == <<turns, requests, receipts, messages, checkpoint>>
vars == <<durable, runs, worktree, handler, host, launched, crashes>>

Live == {"active", "waiting_for_user"}
Final == {"completed", "failed", "interrupted"}
NoTurn == [status |-> "absent", run |-> None]
NoRequest == [state |-> "absent", mode |-> "none", turn |-> None, run |-> None, resume |-> "none"]
NoRun == [pc |-> "none", turn |-> None, via |-> None, kind |-> "none",
          seenTurn |-> NoTurn, seen |-> {}]
Idle == [pc |-> "idle", request |-> None, run |-> None, attempt |-> 0, turn |-> None]

Pending(r) == requests[r].state = "pending"
Native(r) == requests[r].mode = "native_resume"
Unused == {n \in Runs : runs[n].pc = "none"}
Open(n) == runs[n].pc \notin {"none", "done"}

Init ==
    /\ turns = [t \in Runs |-> IF t = 1 THEN [status |-> "active", run |-> 1] ELSE NoTurn]
    /\ requests = [r \in Runs |-> NoRequest]
    /\ receipts = [r \in Runs |-> 0]
    /\ messages = [r \in Runs |-> {}]
    /\ checkpoint \in [state : {"baseline", "unavailable"}, turn : {1}]
    /\ runs = [n \in Runs |-> IF n = 1 THEN [NoRun EXCEPT !.pc = "running", !.turn = 1] ELSE NoRun]
    /\ worktree = 1
    /\ handler = Idle
    /\ host = "up"
    /\ launched = [r \in Runs |-> 0]
    /\ crashes = 0

-----------------------------------------------------------------------------
\* A provider run: its events, and what happens when they end.

\* input_requested, the last event of a run that parks: the turn is read,
\* then the request is appended, then the turn.
Park(n, m) ==
    /\ runs[n].pc = "running"
    /\ LET t == runs[n].turn IN
       IF turns[t].status \in Live
       THEN /\ requests' = [requests EXCEPT ![n] =
                  [state |-> "pending", mode |-> m, turn |-> t, run |-> turns[t].run,
                   resume |-> IF m = "native_resume" THEN "available" ELSE "none"]]
            /\ runs' = [runs EXCEPT ![n].pc = "parking", ![n].seenTurn = turns[t]]
       ELSE /\ runs' = [runs EXCEPT ![n].pc = "parked"]
            /\ UNCHANGED requests
    /\ UNCHANGED <<turns, receipts, messages, checkpoint, worktree, handler, host, launched, crashes>>

ParkTurn(n) ==
    /\ runs[n].pc = "parking"
    /\ LET r == runs[n] IN
       turns' = IF r.seenTurn.status = "waiting_for_user" THEN turns
                ELSE [turns EXCEPT ![r.turn] = [r.seenTurn EXCEPT !.status = "waiting_for_user"]]
    /\ runs' = [runs EXCEPT ![n].pc = "parked"]
    /\ UNCHANGED <<requests, receipts, messages, checkpoint, worktree, handler, host, launched, crashes>>

\* A terminal event, or the client of run 1 disconnecting (also once parked):
\* recordProviderEvent reads the turn, saves it, then cancels pending inputs.
\* The inputs it read stay the ones it cancels when an answer, which rewrites
\* the history, comes in between.
Ending(n, kind) ==
    /\ \/ runs[n].pc = "running"
       \/ n = 1 /\ runs[n].pc = "parked" /\ runs[n].kind = "none" /\ kind = "interrupted"
    /\ runs' = [runs EXCEPT ![n].pc = "ending", ![n].kind = kind,
                            ![n].seenTurn = turns[runs[n].turn],
                            ![n].seen = {r \in Runs : Pending(r) /\ requests[r].turn = runs[n].turn}]
    /\ UNCHANGED <<durable, worktree, handler, host, launched, crashes>>

EndTurn(n) ==
    /\ runs[n].pc = "ending"
    /\ turns' = [turns EXCEPT ![runs[n].turn] = [runs[n].seenTurn EXCEPT !.status = runs[n].kind]]
    /\ runs' = [runs EXCEPT ![n].pc = "cancelling"]
    /\ UNCHANGED <<requests, receipts, messages, checkpoint, worktree, handler, host, launched, crashes>>

CancelInputs(n) ==
    /\ runs[n].pc = "cancelling"
    /\ requests' = [r \in Runs |-> IF r \in runs[n].seen
                                   THEN [requests[r] EXCEPT !.state = "cancelled",
                                             !.resume = IF Native(r) THEN "available" ELSE "none"]
                                   ELSE requests[r]]
    /\ runs' = [runs EXCEPT ![n].pc = IF runs[n].via # None /\ runs[n].kind # "completed"
                                      THEN "unavailing" ELSE "parked"]
    /\ UNCHANGED <<turns, receipts, messages, checkpoint, worktree, handler, host, launched, crashes>>

\* markNativeShikigamiResumeUnavailable
WithUnavailable(r) ==
    IF Native(r) /\ requests[r].resume \in {"starting", "claimed", "started"}
    THEN [requests EXCEPT ![r].resume = "unavailable"]
    ELSE requests

ResumeFailed(n) ==
    /\ runs[n].pc = "unavailing"
    /\ requests' = WithUnavailable(runs[n].via)
    /\ runs' = [runs EXCEPT ![n].pc = "parked"]
    /\ UNCHANGED <<turns, receipts, messages, checkpoint, worktree, handler, host, launched, crashes>>

AwaitsAnswer(n) == \E r \in Runs : Pending(r) /\ requests[r].turn = runs[n].turn

\* A parked run whose provider has closed settles its checkpoint, then frees
\* the worktree.  Only the holder of the worktree writes the checkpoint, so
\* the reads and the write are one step.
CheckpointAfter(n) ==
    IF checkpoint.state # "baseline" THEN {checkpoint.state}
    ELSE IF runs[n].kind = "completed" THEN {"completed", "unavailable"}
    ELSE IF AwaitsAnswer(n) THEN {"baseline"}
    ELSE {"failed"}

Teardown(n) ==
    /\ runs[n].pc = "parked"
    /\ \E s \in CheckpointAfter(n) : checkpoint' = [checkpoint EXCEPT !.state = s]
    /\ runs' = [runs EXCEPT ![n].pc = "closing"]
    /\ UNCHANGED <<turns, requests, receipts, messages, worktree, handler, host, launched, crashes>>

FreeWorktree(n) ==
    /\ runs[n].pc = "closing"
    /\ worktree' = IF worktree = n THEN None ELSE worktree
    /\ runs' = [runs EXCEPT ![n].pc = "done"]
    /\ UNCHANGED <<durable, handler, host, launched, crashes>>

-----------------------------------------------------------------------------
\* The respond route.

\* validateInputResponse, and the checks resolveInputRequest repeats
Answerable(r) ==
    /\ Pending(r)
    /\ Native(r) => requests[r].resume = "available"
    /\ turns[requests[r].turn] = [status |-> "waiting_for_user", run |-> requests[r].run]

Answer(r) ==
    /\ host = "up" /\ handler = Idle /\ Unused # {}
    /\ Answerable(r)
    /\ handler' = [Idle EXCEPT !.pc = "resolve", !.request = r]
    /\ UNCHANGED <<durable, runs, worktree, host, launched, crashes>>

\* resolveInputRequest: request, receipt and turn in one history rewrite
Resolve ==
    /\ handler.pc = "resolve"
    /\ LET r == handler.request IN
       IF Answerable(r)
       THEN /\ requests' = [requests EXCEPT ![r].state = "answered",
                                ![r].resume = IF Native(r) THEN "starting" ELSE "none"]
            /\ receipts' = [receipts EXCEPT ![r] = @ + 1]
            /\ turns' = [turns EXCEPT ![requests[r].turn].status =
                             IF Native(r) THEN "active" ELSE "completed"]
            /\ handler' = [handler EXCEPT !.pc = "inspect"]
       ELSE /\ handler' = Idle
            /\ UNCHANGED <<requests, receipts, turns>>
    /\ UNCHANGED <<messages, checkpoint, runs, worktree, host, launched, crashes>>

Retried_forever == [handler EXCEPT !.pc = "inspect", !.run = None]

\* retryChildFollowUp: a 409 is tried again, a bounded number of times
Retried == IF handler.attempt < MaxAttempts
           THEN [handler EXCEPT !.pc = "inspect", !.attempt = @ + 1, !.run = None]
           ELSE [handler EXCEPT !.pc = "giveUp", !.run = None]

\* handleProviderRun for an answer.  The projection is read first ...
Bound(r) ==
    /\ requests[r].state = "answered"
    /\ Native(r) => /\ requests[r].resume = "starting"
                    /\ turns[requests[r].turn].run = requests[r].run
    /\ checkpoint = [state |-> "baseline", turn |-> requests[r].turn]

Inspect ==
    /\ handler.pc = "inspect"
    /\ handler' = IF Bound(handler.request) THEN [handler EXCEPT !.pc = "admit"] ELSE Retried
    /\ UNCHANGED <<durable, runs, worktree, host, launched, crashes>>

\* ... and the worktree is taken later, on what was read
WorktreeFree_unchecked == TRUE

WorktreeFree == worktree = None

Admit ==
    /\ handler.pc = "admit"
    /\ IF WorktreeFree
       THEN \E n \in Unused :
            /\ \A k \in Unused : n <= k
            /\ worktree' = n
            /\ runs' = [runs EXCEPT ![n].pc = "starting"]
            /\ handler' = [handler EXCEPT !.run = n,
                               !.pc = IF Native(handler.request) THEN "claim" ELSE "start"]
       ELSE /\ handler' = Retried
            /\ UNCHANGED <<runs, worktree>>
    /\ UNCHANGED <<durable, host, launched, crashes>>

\* claimNativeShikigamiResume checks everything again
Claimable(r) ==
    /\ Bound(r)
    /\ turns[requests[r].turn].status = "active"

Claim ==
    /\ handler.pc = "claim"
    /\ LET r == handler.request  n == handler.run  t == requests[r].turn IN
       IF Claimable(r)
       THEN /\ requests' = [requests EXCEPT ![r].resume = "claimed"]
            /\ runs' = [runs EXCEPT ![n].turn = t, ![n].via = r]
            /\ handler' = [handler EXCEPT !.pc = "launch", !.turn = t]
            /\ UNCHANGED worktree
       ELSE /\ runs' = [runs EXCEPT ![n] = NoRun]
            /\ worktree' = None
            /\ handler' = Retried
            /\ UNCHANGED requests
    /\ UNCHANGED <<turns, receipts, messages, checkpoint, host, launched, crashes>>

\* startTurn: a new turn whose user message names the request
Start ==
    /\ handler.pc = "start"
    /\ LET n == handler.run IN
       /\ turns' = [turns EXCEPT ![n] = [status |-> "active", run |-> None]]
       /\ messages' = [messages EXCEPT ![handler.request] = @ \cup {n}]
       /\ runs' = [runs EXCEPT ![n].turn = n]
       /\ handler' = [handler EXCEPT !.pc = "launch", !.turn = n]
    /\ UNCHANGED <<requests, receipts, checkpoint, worktree, host, launched, crashes>>

\* shikigami.start or resumeParked starts the process, or cannot
Launch ==
    /\ handler.pc = "launch"
    /\ \/ /\ launched' = [launched EXCEPT ![handler.request] = @ + 1]
          /\ handler' = [handler EXCEPT !.pc = "rebind"]
       \/ /\ handler' = [handler EXCEPT !.pc = "startFailed"]
          /\ UNCHANGED launched
    /\ UNCHANGED <<durable, runs, worktree, host, crashes>>

\* the catch block of the start: the claim is given up, then the turn fails
StartFailed ==
    /\ handler.pc = "startFailed"
    /\ requests' = WithUnavailable(handler.request)
    /\ handler' = [handler EXCEPT !.pc = "recordFailed"]
    /\ UNCHANGED <<turns, receipts, messages, checkpoint, runs, worktree, host, launched, crashes>>

RecordFailed ==
    /\ handler.pc = "recordFailed"
    /\ turns' = [turns EXCEPT ![handler.turn].status = "failed"]
    /\ runs' = [runs EXCEPT ![handler.run].pc = "done"]
    /\ worktree' = None
    /\ handler' = [handler EXCEPT !.pc = "giveUp"]
    /\ UNCHANGED <<requests, receipts, messages, checkpoint, host, launched, crashes>>

\* the baseline is bound to the turn that carries the answer
Rebind ==
    /\ handler.pc = "rebind"
    /\ checkpoint' = [state |-> "baseline", turn |-> handler.turn]
    /\ handler' = [handler EXCEPT !.pc = "bind"]
    /\ UNCHANGED <<turns, requests, receipts, messages, runs, worktree, host, launched, crashes>>

Bind ==
    /\ handler.pc = "bind"
    /\ turns' = [turns EXCEPT ![handler.turn].run = handler.run]
    /\ handler' = [handler EXCEPT !.pc = "accept"]
    /\ UNCHANGED <<requests, receipts, messages, checkpoint, runs, worktree, host, launched, crashes>>

\* markNativeShikigamiResumeStarted, then the event stream begins and the
\* route answers; a claim that is gone stops the run and counts as a 409
Accept ==
    /\ handler.pc = "accept"
    /\ LET r == handler.request  n == handler.run IN
       IF Native(r) /\ requests[r].resume \notin {"claimed", "started"}
       THEN /\ requests' = WithUnavailable(r)
            /\ runs' = [runs EXCEPT ![n].pc = "done"]
            /\ worktree' = None
            /\ handler' = Retried
       ELSE /\ requests' = IF Native(r) THEN [requests EXCEPT ![r].resume = "started"]
                           ELSE requests
            /\ runs' = [runs EXCEPT ![n].pc = "running"]
            /\ handler' = Idle
            /\ UNCHANGED worktree
    /\ UNCHANGED <<turns, receipts, messages, checkpoint, host, launched, crashes>>

\* onFailure: failInputResolution, or the resume is marked unavailable
GiveUp ==
    /\ handler.pc = "giveUp"
    /\ LET r == handler.request  t == requests[r].turn IN
       IF Native(r)
       THEN requests' = WithUnavailable(r) /\ UNCHANGED <<turns, receipts>>
       ELSE IF requests[r].state # "answered"
       THEN UNCHANGED <<requests, turns, receipts>>
       ELSE /\ requests' = [requests EXCEPT ![r].state = "cancelled"]
            /\ receipts' = [receipts EXCEPT ![r] = 0]
            /\ turns' = IF turns[t].status \in {"failed", "interrupted"} THEN turns
                        ELSE [turns EXCEPT ![t].status = "interrupted"]
    /\ handler' = Idle
    /\ UNCHANGED <<messages, checkpoint, runs, worktree, host, launched, crashes>>

-----------------------------------------------------------------------------
\* Crash, and recoverInterruptedTurns.

Crash ==
    /\ crashes < MaxCrashes
    /\ host' = "restarting"
    /\ runs' = [n \in Runs |-> IF Open(n) THEN [NoRun EXCEPT !.pc = "done"] ELSE runs[n]]
    /\ worktree' = None
    /\ handler' = Idle
    /\ crashes' = crashes + 1
    /\ UNCHANGED <<durable, launched>>

Lost_launchedToo(r) ==
    requests[r].state = "answered" /\ ~Native(r) /\ receipts[r] > 0

Lost_whileWaiting(r) ==
    /\ requests[r].state = "answered" /\ ~Native(r)
    /\ receipts[r] > 0
    /\ messages[r] = {}
    /\ turns[requests[r].turn].status = "waiting_for_user"

\* an answer with no follow-up turn to carry it
Lost(r) ==
    /\ requests[r].state = "answered" /\ ~Native(r)
    /\ receipts[r] > 0
    /\ messages[r] = {}

Refused(r) == Native(r) /\ requests[r].resume # "unavailable"

\* lost answers are asked for again, native resumes are refused
RecoveredRequest(r) ==
    IF Lost(r) THEN [requests[r] EXCEPT !.state = "pending"]
    ELSE IF Refused(r) THEN [requests[r] EXCEPT !.resume = "unavailable"]
    ELSE requests[r]

RecoveredReceipts(r) == IF Lost(r) THEN receipts[r] - 1 ELSE receipts[r]

Reopened(t) == \E r \in Runs : Lost(r) /\ requests[r].turn = t

RecoveredTurn(t) ==
    IF /\ \E r \in Runs : Refused(r) /\ requests[r].turn = t
       /\ Reopened(t) \/ turns[t].status \in Live
    THEN [turns[t] EXCEPT !.status = "interrupted"]
    ELSE IF Reopened(t) THEN [turns[t] EXCEPT !.status = "waiting_for_user"]
    ELSE turns[t]

\* the single rewrite of the recovery
RecoverInputs ==
    /\ host = "restarting"
    /\ host' = "recovering"
    /\ requests' = [r \in Runs |-> RecoveredRequest(r)]
    /\ receipts' = [r \in Runs |-> RecoveredReceipts(r)]
    /\ turns' = [t \in Runs |-> RecoveredTurn(t)]
    /\ UNCHANGED <<messages, checkpoint, runs, worktree, handler, launched, crashes>>

\* turns still active are interrupted, one append each
RecoverTurn(t) ==
    /\ host = "recovering"
    /\ turns[t].status = "active"
    /\ turns' = [turns EXCEPT ![t].status = "interrupted"]
    /\ UNCHANGED <<requests, receipts, messages, checkpoint, runs, worktree, handler, host, launched, crashes>>

Serve ==
    /\ host = "recovering"
    /\ \A t \in Runs : turns[t].status # "active"
    /\ host' = "up"
    /\ UNCHANGED <<durable, runs, worktree, handler, launched, crashes>>

-----------------------------------------------------------------------------
RunStep(n) ==
    \/ ParkTurn(n) \/ EndTurn(n) \/ CancelInputs(n) \/ ResumeFailed(n)
    \/ Teardown(n) \/ FreeWorktree(n)

RouteStep ==
    \/ Resolve \/ Inspect \/ Admit \/ Claim \/ Start \/ Launch
    \/ StartFailed \/ RecordFailed \/ Rebind \/ Bind \/ Accept \/ GiveUp

RecoveryStep == RecoverInputs \/ (\E t \in Runs : RecoverTurn(t)) \/ Serve

Next ==
    \/ \E n \in Runs, m \in Modes : Park(n, m)
    \/ \E n \in Runs, kind \in Final : Ending(n, kind)
    \/ \E n \in Runs : RunStep(n)
    \/ \E r \in Runs : Answer(r)
    \/ RouteStep
    \/ RecoveryStep
    \/ Crash

Spec == Init /\ [][Next]_vars

\* Every step of RunStep, RouteStep and RecoveryStep continues an await: a
\* write of local state, a started process, or a child that is killed when it
\* does not close.  Providers and operators owe nothing.
FairSpec ==
    /\ Spec
    /\ \A n \in Runs : WF_vars(RunStep(n))
    /\ WF_vars(RouteStep)
    /\ WF_vars(RecoveryStep)

-----------------------------------------------------------------------------
\* Properties.

Turn == [status : {"absent"} \cup Live \cup Final, run : Runs \cup {None}]

Request == [state : {"absent", "pending", "answered", "cancelled"},
            mode : {"none", "native_resume", "child_follow_up"},
            turn : Runs \cup {None}, run : Runs \cup {None},
            resume : {"none", "available", "starting", "claimed", "started", "unavailable"}]

Run == [pc : {"none", "starting", "running", "parking", "parked", "ending", "cancelling",
              "unavailing", "closing", "done"},
        turn : Runs \cup {None}, via : Runs \cup {None}, kind : {"none"} \cup Final,
        seenTurn : Turn, seen : SUBSET Runs]

Handler == [pc : {"idle", "resolve", "inspect", "admit", "claim", "start", "launch", "startFailed",
                  "recordFailed", "rebind", "bind", "accept", "giveUp"},
            request : Runs \cup {None}, run : Runs \cup {None},
            attempt : 0..MaxAttempts, turn : Runs \cup {None}]

\* The state is well typed.
TypeOK ==
    /\ turns \in [Runs -> Turn]
    /\ requests \in [Runs -> Request]
    /\ receipts \in [Runs -> Nat]
    /\ messages \in [Runs -> SUBSET Runs]
    /\ checkpoint \in [state : {"baseline", "completed", "failed", "unavailable"}, turn : Runs]
    /\ runs \in [Runs -> Run]
    /\ worktree \in Runs \cup {None}
    /\ handler \in Handler
    /\ host \in {"up", "restarting", "recovering"}
    /\ launched \in [Runs -> Nat]
    /\ crashes \in 0..MaxCrashes

\* A human response is used once: whatever is retried, given up or recovered
\* after a crash, one answer opens at most one follow-up turn and starts at
\* most one provider process (retryChildFollowUp, failInputResolution,
\* recoverInterruptedTurns).
AnswerUsedOnce ==
    \A r \in Runs : launched[r] <= 1 /\ Cardinality(messages[r]) <= 1

\* The coordination receipt and the request agree, also when an answer is
\* given up or reopened: an answered request has exactly one receipt, a
\* pending one none.
ReceiptPerAnswer ==
    \A r \in Runs :
        /\ requests[r].state = "answered" => receipts[r] = 1
        /\ Pending(r) => receipts[r] = 0
        /\ receipts[r] <= 1

\* An answer is spent once, and its receipt says so.
AnswerIsSpentOnce == TypeOK /\ AnswerUsedOnce /\ ReceiptPerAnswer

\* The retried run of an answer never works in the worktree while the parked
\* run that asked is still being torn down (activeCheckpointWorktrees).
OneRunInWorktree == Cardinality({n \in Runs : Open(n)}) <= 1

\* A run that carries an answer always owns the baseline of the run that
\* asked, rebound to its own turn, so that it can be rewound as one.
AnswerRunOwnsBaseline ==
    \A n \in Runs :
        n # 1 /\ runs[n].pc \in {"running", "parking", "parked"}
            => checkpoint = [state |-> "baseline", turn |-> runs[n].turn]

\* At most one run has the worktree, and one that carries an answer can be
\* rewound as one with the run that asked.
WorktreeIsOwned == OneRunInWorktree /\ AnswerRunOwnsBaseline

\* Once the respond route is done with a request no answer is left hanging:
\* a follow-up turn carries it, or the native resume was started or is marked
\* unavailable.  Crashes included.
AnswerAccounted ==
    host = "up" =>
        \A r \in Runs :
            requests[r].state = "answered" /\ handler.request # r =>
                IF Native(r) THEN requests[r].resume \in {"started", "unavailable"}
                             ELSE messages[r] # {}

\* A turn shown as waiting for the user can be answered: one of its requests
\* is pending, resumable and bound to the turn's run.
WaitingIsAnswerable ==
    host = "up" =>
        \A t \in Runs : turns[t].status = "waiting_for_user" =>
            \E r \in Runs : requests[r].turn = t /\ Answerable(r)

\* No question is lost between the operator and the provider.
NothingIsStranded == AnswerAccounted /\ WaitingIsAnswerable

\* Every accepted answer reaches a provider or is visibly released: asked for
\* again, cancelled, unavailable, or kept as the message of a follow-up turn.
AnswerSettles ==
    \A r \in Runs :
        (requests[r].state = "answered" /\ launched[r] = 0) ~>
            \/ launched[r] > 0
            \/ requests[r].state # "answered"
            \/ requests[r].resume = "unavailable"
            \/ messages[r] # {}

\* "Preserve the original baseline while a parked run awaits an explicit
\* answer; that answer rebinds and finalizes this checkpoint"
\* (provider-run.ts:1315): the teardown does not fail the baseline an
\* accepted answer is about to use.
BaselinePreserved ==
    [][checkpoint.state = "baseline" /\ checkpoint'.state = "failed" =>
          ~ \E r \in Runs : /\ requests[r].turn = checkpoint.turn
                            /\ requests[r].state = "answered"
                            /\ handler.request = r]_vars
=============================================================================
