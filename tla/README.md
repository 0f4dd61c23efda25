# A TLA+ verification of aldunis-code

aldunis-code is a local-first workbench for agent-assisted development. A Node
host (`server/`) runs provider processes (Claude Code, Codex, Shikigami, ACP
agents) in worktrees, journals what they do in one append-only history, asks a
person for consent where it must, and serves a browser UI and an Electron shell.

This directory holds TLA+ modules for the parts of the host whose correctness
depends on the order of things, TLC configurations that check them, and TLAPS
proofs. Every definition is translated from the code; `PROJECT.json` maps each to
its lines. Paths below are relative to the repository root.

- [Modules](#modules)
- [Runs](#runs)
- [Proofs](#proofs)
- [Findings](#findings), [counterexamples kept beside them](#counterexamples-kept-beside-them)
  and [further observations](#further-observations)
- [Inventory](#inventory)
- [Plan](#plan)

Conventions. A definition called `Name_variant`, beside `Name`, is not part of a
specification: it is what `Name` would be under a plausible bug, kept to show
that a property notices it. `Max...` constants bound exploration and nothing in
the code, unless the comment beside them names a constant of the code. A
`history` variable records what happened for a property to talk about; no guard
of the host reads it (`crashes`, `spent`, `faults`, `events`, `jobs`, `requests`
and `MaxTime` only bound).

A property may be the conjunction of named parts that answer one question
together (`ReleaseIsConsented`, `TokensSurvive`); the parts are defined beside it
and the observations below refer to them by name.

## Modules

| Module | Models | Extended or instantiated by |
| --- | --- | --- |
| `PermissionBroker` | the approval broker, `server/permission.ts`, and the durable step of its decision route | `MCPermissionBroker`, `PermissionBrokerProofs` |
| `SingleUseConsent` | what the broker promises: one answer per request, and "allow" only by spending a fresh consent for a run still trusted | instantiated by `PermissionBroker` with a refinement mapping |
| `PermissionBrokerProofs` and the other `...Proofs` | the inductive invariant and the theorems of one module each, [below](#proofs) | |
| `WriterLease` | the single-host lock of the state directory, `server/state.ts` | `MCWriterLease`, `WriterLeaseProofs` |
| `EventJournal` | appends, streamed segments, rewrites, crash repair and replay of `events.v1.jsonl`, `server/state.ts` | `MCEventJournal` |
| `ChildInput` | a question left by a parked run, its answer, the run that carries it, and recovery: `server/state.ts`, `provider-run.ts`, `delegated-control-routes.ts` | `ChildInputProofs` |
| `AutomationFires` | schedule ticks, runs by hand, fire records and their reconciliation: `server/automations.ts`, `state.ts`, `host.ts` | `MCAutomationFires`, `AutomationFiresProofs` |
| `ConversationTurns` | the turns of a conversation under provider runs, mailbox sends, decisions, timers, rewind, deletion, retention and recovery, with their checkpoints: `server/state.ts`, `provider-run.ts`, `mailbox-routes.ts`, `checkpoint-routes.ts`, `state-maintenance-routes.ts` | `MCConversationTurns`, `ConversationTurnsProofs` |
| `CodexSessions` | the resident Codex app-servers and the run that drives one: `server/codex-provider.ts`, `provider-process.ts`, `provider-run.ts` | `MCCodexSessions`, `CodexSessionsProofs` |
| `AutonomyRuns` | durable runs of a flow, executed step by step in memory: `server/autonomy-engine.ts` | `MCAutonomyRuns`, `AutonomyRunsProofs` |
| `ReleaseDelivery` | sessions, previews and actions of the staged delivery: `server/release-delivery-workflow.ts` | `ReleaseDeliveryProofs` |

The modules are separate because the components meet only through a few facts,
which each module states where it uses them: `PermissionBroker` sees the journal
as a write that returns or throws (`PersistVerdict`, `Persisted`,
`PersistFails`); `ChildInput` and `AutomationFires` see it as atomic durable
writes, and `EventJournal` is what makes those appends atomic and replayable;
`WriterLease` is what makes one host the only writer of it. `ConversationTurns`
shows that the worktree reservation of `provider-run.ts:786` is exclusive
(`OneHolder`) and given back (`ReservationEnds`) if runs end; `ChildInput`,
`AutomationFires` and `CodexSessions` use the first, and `CodexSessions` looks at
the second from below: whether a run that waits for its process ever stops
waiting.

### PermissionBroker

A provider run gets a token (`CreateRunToken`), announces mutating calls
(`Register`), and a separate callback asks for the verdict (`AwaitDecision` by
tool and input, `AwaitRegisteredDecision` by id). `#approvals`, `#terminal`,
`#claimed` and `#resolving` are the sets `live`, `terminal`, `claimed` and
`resolving`; insertion order is kept by numbering. An approval's `state` and its
`promise` are separate because `decideAfter` shows the verdict before it is
durable. `decideAfter` is four steps, because it awaits in the middle:
`DecideAfter` (checks and the tentative verdict), `PersistVerdict` (the route's
journal append), `ReleaseVerdict`, or `PersistFails` with its roll-back. In
between, `Expire`, `CloseRun` and another `Decide` may run. `CloseRun` takes a
run from `open` to `draining` (its token is gone, its adapter still reads) or to
`ended`. A key stands for a tool name with a digest of its input.

### WriterLease

A step is one file-system call of a host that acquires, reclaims, holds or
releases `host-writer.lock`: `Open` (`wx`), `Stat`, `ReadIdentity`, `Judge`,
`Quarantine` (rename aside), `Settle` (compare the inode, then delete or put
back), `Reopen`, `Identify`, `Heartbeat`, `Release...`. A file is its inode; a
host process is used once. Hosts crash anywhere, and where `Sleepers` says so a
holder may be stopped past 30 s. `HolderStates` is `writerLeaseHolderState` with
its three answers: "unknown" for a holder of another machine (`elsewhere`) and
for a pid that belongs to another user (EPERM). `Reassign` gives the pid of a
process that is gone to another one (`fate`): of the same user, which looks alive
unless start times can be read (`hasProc`), of another user, or of one that ends
between the probe and the read of its start time. Which inode a new file gets
(`FreeInodes`) and who gets a pid are the kernel's choices. `slips` is history: it
records when a host takes a running host's lock for orphaned, and when one
creates a lock while another host's lock is away from the path.

### EventJournal

The journal is a sequence of numbered envelopes, `mem` the projection a host
keeps, `open` the assistant segments that are streamed into `mem` and journaled
at boundaries, `queue` the promise chain `#writeQueue` with the operation in
progress in `writing`. Text is a count of tokens, so "this text at that offset"
is arithmetic. An append is `BeginAppend`, one `WriteLine` per envelope, and
`Sync`; a rewrite is `BeginRewrite`, `ReplaceHistory` (rename) and `DirSync`.
Each may fail (`AppendFails`, `RewriteFails`, `DirSyncFails`), and a crash
between any two leaves whole lines and perhaps a torn one. `Restart` repairs
(`Repaired`, the renumbering of a forked history) and replays (`Replay`).
`Coalesced` and `RewriteEvents` are the merge of consecutive assistant rows and
the merge by sequence that a rewrite writes. Tokens arrive at any time, during a
rewrite too. `Others` says whether a segment is also flushed from outside its
stream, by an approval decided elsewhere (`ControlFlush`). `cut` is history: the
turns whose open segment was closed or copied by a write that did not cover all
of it, which is where the code departs from what it promises; and `split` that a
directory sync failed after its rename, so that memory numbers on from a history
that is gone.

### ChildInput

One conversation in one worktree. Run 1 is the operator's; every other run
carries an answer. A run parks at most once, at its end, so requests and turns
carry the number of their run. `Park`, `ParkTurn`, `Ending`, `EndTurn`,
`CancelInputs`, `Teardown` and `FreeWorktree` are the run's own durable steps.
`Answer` opens the respond route and `Resolve` to `GiveUp` are its awaits: the
request resolved with its receipt, the retried admission (`Inspect`, `Admit`),
the native claim or the follow-up turn (`Claim`, `Start`), the process
(`Launch`), the checkpoint rebound (`Rebind`, `Bind`). `Crash`, `RecoverInputs`,
`RecoverTurn` and `Serve` are the crash and `recoverInterruptedTurns`, one
durable write each.

### AutomationFires

Automations fire into conversations, on a schedule or by hand. Two stores are
written one after the other: the journal (`fires`, `latest`, the turn a fire is
bound to) and the automations file (`last`, i.e. `lastRunAt`). `TickStart`,
`Evaluate`, `TickLaunch` and `TickEnd` are `tick()`, which is not re-entrant and
keeps the inventory it read (`tick.seen`). `Lookup` to `Save` are the awaits of
`#execute`, behind the conversation's `tail`; `RunNow` starts one with a key the
client may repeat. `StartTurn` and `BindTurn` are separate because the prompt is
in the conversation before the fire knows its turn. `Restart` is recovery and
`reconcileAutomationFires`. `UserStep` is a person (or another run) in the same
conversation.

### ConversationTurns

Two conversations of one project; a mailbox transfer goes from `src` to `dst`,
and every run executes in `dst`. What one client request or one run writes in
several appends is in `todo`, computed from the projection as it was when it was
read (`Appends`), and made one append at a time behind `queue`, the write queue
(`Submit`, `Write`). `pc` follows a run through `executeProviderRun`: `Reserve`
(worktree), `Open` (turn), `Capture` (baseline), `Launch`, `Bind`, the event loop
(`Ask`, `Answered`, `End`, `StreamEnds`, `HistoryFails`), `Settle` (checkpoint)
and `Leave`. `Decide` and `Expire` are the approval decision and the input timer.
`Send` and `Abandon` are the mailbox route. `Rewind`, `DeleteConversation`,
`Maintain`, `Invalidate`, `DropRefs` are checkpoint rewind, deletion of a
conversation, deletion of a project and retention, with records and Git refs
changed in separate steps. `Crash`, `Recover` and `Recovered` are
`recoverInterruptedTurns`.

### CodexSessions

`sessions` is `#sessions`, a map that the code reads in insertion order: the pairs
of processes of which the first was inserted no later than the second, an order
that is total on the resident ones. `Renewed` deletes a session and sets it again,
as its youngest, and the sweep retires an idle session when more than the limit
are no older than it (`Swept`), which is what the loop over the oldest comes to.
`proc` keeps, for each child ever
spawned, the `ActiveRun` record with the state of its termination
(`provider-process.ts`) and of the process itself, where exit and close are two
events. A run is followed through both its halves: the generator `#events` and
the consumer in `executeProviderRun`. At a yield (`Yields`) the consumer records
the event; leaving its loop it makes the generator return from the yield it
stands at, so the generator's code behind a terminal event is never reached and
only its `finally` block runs (`Finally`). A consumer that has left while the
generator waits for a message (`returning`) makes it stop at its next yield.
`Start` borrows a resident process or gives it up for a new one (`Spawn`,
`VersionFails`), `BindFails` leaves a generator that never ran, `Cancel` ends a
process at once or in two seconds, `ScheduleIdle` and `Swept` are the idle timer
and limit, `Settled` is `await run.settled`. What the provider says is free
(`ProviderStep`), and `working` says whether it is still at a turn.

### AutonomyRuns

The records `run`, `task` and `monitor` are durable; `tails` counts the
executions queued for a run and `exec` is the active one. An execution reads the
run between steps (`NextStep`) and saves whole records computed from what it read
(`RunStep`, `OperationSucceeds`, `Fail`, `Finish`); `Start` saves the run as
running, or as failed when its flow is not available. The operation of a step runs
beside it. `OperationFails` is one that failed, or stopped after its timeout;
`TimesOut` is one that does not stop: it is left behind and `left` counts it until
it stops (`LeftBehindStops`), also after its execution is over. `resumed` counts
the resumes since the host started. `TickHeartbeats` and `RunNow` read a monitor
and `SaveMonitor` writes it back later. `Cancel`, `Resume`, `Crash`, `Recover`
are the operator and the host.

### ReleaseDelivery

`session` is the ledger's record; `previews` the actions confirmed by a
single-use preview for the record as it is; `exec` the execution that runs,
with the record it started from in `snap`. An execution is `Enter`, `CheckFresh`,
`Call` (the command, which may take effect or not whatever it reports, except
that "succeeded" is true), then `Published` to `Reconcile` with the inspection
(`Look`) between. `Judge` is a preview or receipt that found its candidate stale,
`Throw` a failure or cancelled request anywhere in an execution. Chisei (`allowed`)
and Tenkai (`tenkai`) are modelled from how the workflow uses them; `Others` are
other operators of Tenkai. What a reconciliation makes of the environment is
computed when it was inspected (`StageShown`) and saved later (`Settle`).

## Runs

`CHECK_DEADLOCK FALSE` is set where the system may rightly stop: bounded
registrations, tokens, crashes or clock are used up, every run is over, a host
stays down, or an operator never answers.

| Run | Instance | States | Question |
| --- | --- | --- | --- |
| `broker_races` | 2 runs, 1 key, 2 approvals, 2 callbacks, limits 2/2/1, verdicts through the route only, runs symmetric | 265,000 | Does anything that happens around a suspended `decideAfter` release a provider without a durable consent, twice, after closure or after expiry? Does the broker implement `SingleUseConsent`? |
| `broker_pairing` | 1 run, 2 keys, 2 approvals, 2 callbacks, limits 2/2/2, `decide()` as well, with fairness | | Does a callback only ever get an approval of its own call? Is every callback answered? |
| `lease` | 2 hosts (symmetric), 3 inodes, a leftover lock of this or another machine or none, with and without start times, every fate of a pid, sleepers where start times can be read | 1,376,000 | Is there one writer, does a holder keep its lock, do two write only after a slip, is a host that is alone let in? |
| `journal` | 2 turns (symmetric), 3 tokens, checkpoint every 2, 1 boundary or approval decided elsewhere, 1 rewrite, 1 crash, failing writes and directory syncs, a forked history | 327,000 | While no open segment is cut: does the history replay, hold each token once, and agree with what readers see? |
| `journal_unreadable` | 2 turns, 4 tokens, a rewrite in mid-stream, no fault | | *violated*: the history replays |
| `journal_visible` | 2 turns, 2 tokens, a rewrite in mid-stream, no fault | | *violated*: readers see every token sent |
| `input` | 4 runs, both response modes, 2 retries, 2 crashes, with fairness | 19,000 | Is an answer used once, by one run in the worktree, on the right baseline, and never lost? |
| `automations` | 1 interval automation, 4 minutes at a period of 2, 1 request, 1 crash, with fairness | 330,000 | Does a key run once, is an outcome proven, are runs spaced, is what is due served? |
| `turns` | 1 mailbox send, 1 run of the operator, one question each, 1 deletion, retention or rewind, 1 crash, with fairness | 352,000 | Do runs, rewind and maintenance exclude one another and give the worktree back? Does every delivery settle, does a waiting turn have its question recorded, and does every checkpoint offered keep its snapshots? |
| `codex` | 2 runs, 2 conversations, 1 idle app-server, 1 fault, any cancellations, with fairness | 407,000 | Is every app-server accounted for and quiet outside its run, do browser tokens live as long as their session, does a cancelled run end? |
| `autonomy` | 2 runs, 2 steps, 2 attempts, 1 request, 1 crash, with fairness | 524,000 | Has a run that succeeded done every step, is a running one executed, does only a resume overlap what was left behind, does an execution end? |
| `release` | 1 session, 2 plans in Tenkai, 1 outside event, with fairness | 466,000 | Do stages rest on the ones before, is a terminal state proven, is what is executed what was confirmed, does an execution end? |

### Why the bounds are enough

*Broker.* The hazards are races about one approval, or two approvals and two
callbacks that could be confused. Two of each gives every order of two
registrations and two callbacks, a replay of a claimed call, two suspended
verdicts, and a run that closes while the other goes on; two keys give every way
to confuse two calls.
The waiting limit is reached in `broker_races`. The approval limits are not (two
approvals fit); they are plain guards of `Register`.

*Lease.* The interesting mistake needs a reclaimer, the host whose fresh lock it
takes by mistake, and a leftover file: two hosts, and three inodes so that both
can create one. They are also enough to leave a lone restart a lock in every
condition, and to tell company from its absence. A host sleeps only while it holds
the lease and where start times can be read: without them a sleeping holder is
taken for dead, by design of the 30 s, which is one of the two slips of
`ExclusiveUnlessSlip`. The other needs a third host, which comes to the path while
a lock is away: `MCWriterLeaseSlips` checks that property with three hosts and
sleepers without start times (1,460,000 states), and the proof is for any number.

*Journal.* Two turns are needed for two open segments at once; two tokens make a
checkpoint, a third arrives during its sync; one rewrite and one crash may fall
into each other. The constraint `Uncut` stops at a cut segment, where the
properties say nothing any more and never will again; the two violated runs show
what a cut does.

*Input.* Four runs are a question, an answer, a question asked by the answering
run, and its answer, with one to spare; two crashes reach a crash during
recovery.

*Turns.* The hazards are a run, a second actor of another kind, and a crash: one
send and one operator's run in the same worktree, one job of each kind, and a
crash anywhere (in recovery again only with two, which adds nothing, as recovery
starts over from the same records).

*Codex.* Two runs of one conversation reach reuse, displacement and a borrowed
process that is on its way out; two runs of two conversations reach the idle
limit of one. Cancellations are not faults and are not limited.

*Autonomy.* Two steps and two attempts separate a step's end, a retry and the
run's end; the second run is a hook's or a heartbeat's. The request is a
cancellation, or a resume beside an operation that was left behind. The ids of
runs are exchangeable, so `FirstStartsFirst` lets `r1` start before `r2`. The
safety properties also hold with two requests (cancel, then resume; 2.6 million
states; by hand).

*Release.* One session meets every stage with a plan and its rollback; the safety
properties also hold with two outside events (1.5 million states; by hand).

*Automations.* Four minutes at a period of two give the seed, the first slot and
its successor, with a crash and a manual fire anywhere. Two automations in one
conversation (`Count = 2`, about 900,000 states) give no violation of the safety
properties either and are left out of the runs for time; one automation meets
every branch but the claimed-thread skip of `Evaluate`.

### Fairness

- *Broker:* timers fire, and a durable write returns or throws. Nothing is
  assumed of people, providers or adapters.
- *ChildInput:* what follows an await of the host's own work goes on (`RunStep`,
  `RouteStep`, `RecoveryStep`). Nothing is assumed of providers or operators.
- *AutomationFires:* the same for `TickStep` and `ExecuteStep`, and that a
  provider run ends (`EndRun`). That last one is an assumption about providers:
  a tick does not end before the runs it started.
- *ConversationTurns:* the write queue, the host's own steps, maintenance and
  recovery go on (weak). `Stops`, a provider run that ends one way or another, is
  strong because questions interrupt it: again an assumption about providers,
  and `CodexSessions` shows when the host does not even depend on it
  (`CancelledEnds`) and when it does.
- *CodexSessions:* the host's steps and timers go on, a process that got SIGKILL
  ends and its pipes close. Nothing is assumed of what the provider says.
- *AutonomyRuns:* an execution goes on; an operation need never end, but its
  timeout fires.
- *ReleaseDelivery:* an execution goes on. Its commands run under a time limit
  whose SIGTERM is taken to end them.

## Proofs

TLC checks one small instance; a theorem holds for every value of the constants
that meets the assumptions of its module. Each `...Proofs` module has the form
*inductive invariant, one lemma per action, theorems*: `InvInit` and `InvStep`
show that `IInv` holds initially and is kept by every step, and the theorems
follow from it. The bounds (`Max...`) stay constants, so what is proved holds for
every number of crashes, requests, jobs and runs.

| Module | Theorem | Property | Says |
| --- | --- | --- | --- |
| `PermissionBrokerProofs` | `TypeCorrect` | `TypeOK` | |
| | `ConsentIsRequired` | `ReleaseIsConsented` | the next four together |
| | `ApprovalIsSingleUse` | | no two callbacks hold the same approval |
| | `DurableBeforeRelease` | | a provider is released only by a consent in the durable history |
| | `AnswerIsTheState` | | a live approval is unanswered; a settled one is answered as its state says |
| | `LateConsentIsWorthless` | | an approval overdue and undecided never releases a provider |
| | `ClosedRunIsNeverReleased` | `NoReleaseAfterClose` | no callback of a closed run is released afterwards |
| | `VerdictsAreFinal` | `VerdictIsFinal` | a settled approval is never allowed later |
| | `CallbacksArePaired` | `PairedWithOwnCall` | a callback holds an approval of its own run and call, whichever came first |
| | `EndedRunsAreForgotten` | `EndedRunForgotten` | the broker keeps nothing of a run whose adapter returned |
| | `LimitsAreKept` | | live and retained approvals and waiting callbacks stay within the broker's limits |
| | `BrokerImplementsConsent` | `ImplementsSingleUseConsent` | every step is a step of `SingleUseConsent` or changes nothing of it |
| `WriterLeaseProofs` | `TypeCorrect` | `TypeOK` | for any hosts |
| | `RestartSucceeds` | `RestartIsNotRefused` | for any hosts on any machines: one that never had company is kept out only over a young lock without identity, of another machine or whose pid is somebody's who cannot be told from the holder, or over a process that had the pid and ended before its start time was read |
| | `WritersNeedASlip` | `ExclusiveUnlessSlip` | for any hosts, sleepers, file systems and fates of pids: two hosts hold the lease at once only after a running host's lock was taken for orphaned or a lock was created while another was astray |
| `ConversationTurnsProofs` | `TypeCorrect` | `TypeOK` | |
| | `WorktreeHasOneHolder` | `OneHolder` | runs, rewind and maintenance exclude one another |
| | `SnapshotsAreReachable` | `CompletedIsReachable` | a checkpoint that can be reviewed or rewound has both its snapshots |
| | `WaitingTurnsHaveQuestions` | `WaitingHasQuestion` | before a crash or a completed deletion, a turn whose run is over is recorded as waiting only while its request is recorded as pending |
| `ChildInputProofs` | `AnswersAreSpentOnce` | `AnswerIsSpentOnce` | an answer has one receipt, becomes at most one message and starts at most one process |
| | `WorktreeHasOneOwner` | `WorktreeIsOwned` | a run that executes owns the worktree and the baseline in it |
| | `NoQuestionIsStranded` | `NothingIsStranded` | a turn that waits has a question that can be answered; an answer that is not settled is in the hands of the route |
| `AutomationFiresProofs` | `FiresStayExact` | `FiresAreExact` | a key starts one turn, its outcome is proven by that turn, scheduled runs of an interval are a period apart |
| `AutonomyRunsProofs` | `TypeCorrect` | `TypeOK` | |
| | `SuccessNeedsEveryStep` | `SuccessIsComplete` | a run recorded as succeeded has every step succeeded |
| | `OverlapIsAskedFor` | `RunsAreExecutedOnce` | what is recorded as running is executed; of a run's operations that go on at once, those left behind by a timeout included, all but one are owed to resumes |
| `ReleaseDeliveryProofs` | `TypeCorrect` | `TypeOK` | |
| | `StagesRestOnEarlierOnes` | `StagesInOrder` | a session at a stage has behind it what the earlier stages give |
| | `DeliveryIsProven` | `TerminalIsProven` | a completed or recovered session is so by a plan of its own that ended well |
| | `ConfirmationHolds` | `ConfirmedIsExecuted` | what is carried out was confirmed for the record that it started from |
| `CodexSessionsProofs` | `ProcessesStayAccounted` | `ProcessesAreAccounted` | an app-server that is up is resident or being ended; no more than `IdleLimit` wait for an idle timer |
| | `WorktreeStaysQuiet` | `WorktreeIsQuiet` | an app-server works only while a run of its own holds the worktree; no two active runs share one |
| | `TokenFollows` | `TokenFollowsSession` | the browser token of a conversation lives exactly as long as its session, or the run about to spawn one |

### Assumptions

All are in the modules that declare the constants, so TLC evaluates them in every
run, except the last, which is the hypothesis of one theorem.

- Bounds and limits are natural numbers (`BoundsAreNat`, `InodesAreNat`,
  `CodexAssumption`), counts
  of steps, attempts and runs positive (`FlowIsNonEmpty`); flags are Booleans;
  placeholders such as `None` are not elements of the sets they are kept apart
  from (`NoneIsFresh`, `NoneIsNoSession`, `NamesAreDistinct`, `RunsAreDistinct`,
  `HostsAreNamed`), and enumerations contain only what the code knows
  (`QuestionsAreKnown`, `ModesAreKnown`, `EndsAreKnown`, `TargetsExist`,
  `FatesAreKnown`, `RemoteAreProcesses`).
- `RunsAreFinite` and the finite `Hosts` of `HostsAreNamed`: `ConversationTurns`
  counts the runs bound to a turn, and `WriterLease` the hosts alive at a time.
- `Count <= 4` in `AutomationFires` is `MAX_ACTIVE_SCHEDULED_AUTOMATIONS`
  (`automations.ts:12`): all automations of the model are enabled.
- `~DirectDecide` for `BrokerImplementsConsent`: no route calls `decide()`, which
  answers a provider without a durable write; its only callers are tests.

### Why each invariant is inductive

*Broker.* `AnswerMatchesState` says that an approval outside the live map carries
its answer, but a suspended `decideAfter` writes a state first and answers later,
so one must know which approvals it still owns. `IInv` adds `ResolvingIsInflight`
(`#resolving` is the set of suspended verdicts), `LiveOwnership` (a suspended
call whose approval left the map finds a close state there, which is how it knows
that it lost), `OverdueUndecided`, `BoundIsClaimed` (which keeps a second callback
away), `UnansweredIsOpen` (what `closeRun` leaves behind is answered) and
`AbsentIsClean`. `EndedRunForgotten` needs `KeptIsOwned` beside it: what the
broker keeps is of a run that has not ended. `LimitsAreKept` rests on
`LiveOwnership`: an approval that is sealed was live, so the retained map grows
only by what the live one loses. The refinement maps an approval to a
consent of `SingleUseConsent` and a callback to a request, and has a lemma per kind
of step.

*Writer lease.* `BaseInv` says of a host that never had company that the lock it
judges is the lock it saw (`Alone`), so that what it read of the holder is what
the refusal is about; a pid that was taken stays taken. `SlipInv` adds, for any
number of hosts and as long as there was no slip, `Places` (who has an open file
or one in quarantine, and that no two have the same) and `Orderly`: a file is
astray only while the path is free and no other is, and a file that was judged
and taken is nobody's. The second is what makes the deletion in `Settle` safe, the
first the rename that puts a file back over whatever is at the path.

*ConversationTurns.* What is written was computed from an earlier read, and the
write queue lies between. `IInv` therefore says of every append still owed what
the checked invariants say of the records (`Owed`, `Savable`): a `completed` that
is still to be saved has both refs, and a checkpoint is owed only by the run whose
turn it is, while it holds the worktree. `Snapped` says the same of the records and the refs,
`Holding` who has the worktree at which label, `Maintaining` that deletion and
retention write a record before they remove.

`WaitingHasQuestion` speaks only of an empty queue; its invariant `WInv` says what
holds while writes are owed, by the run, its input timer and an approval decision,
each computed from an earlier read. A turn waits, or is about to, only with a
pending request or with a write under way that lets the turn go on (`Answerable`).
Recorded as pending is all that is meant: whether the provider is still there to
take the answer is another matter, [below](#further-observations).
That rests on the order in each handler (`Orderly`: the request before the turn
that waits for it), on who may write what (`OwnsTurn`: a decision and a timer only
let a turn go on, and only the run settles a request after its turn), and on the
order in the queue: when a timer settled a request while the run still owes the
turn that waits for it, the run stands before the timer, so the timer's write of
the turn comes last; and a timer that owes a settlement stands before a removal
(`InTime`), or it would bring a settled request back to a turn that is gone.
`Asking` says that what makes a turn wait belongs to a run in its loop whose turn
is not over, `Attending` that such a run was bound, which keeps the mailbox from
resetting its turn. `Named` is there because a deletion that completes must put
something in `deleted`, where the property stops.

*ChildInput.* An answer goes through a request, a receipt, a message, a resume
state and the memory of the respond route. `Asked` says what the state of a
request implies of the rest, `Worked` what a run owns at each of its steps,
`Handled` what the next step of the route may rely on, `Seen` that a teardown acts
on requests that exist. `NothingIsStranded` needs `QInv` beside it: a turn that
waits has its question, or the run that is about to write it (`Waits`); the turn
of an answer on its way waits for nothing else, and only the route holds an answer
that is not settled (`Follows`, `Routed`); the turn a parking or ending run read is
the turn that is there (`Keeps`), since one run at a time works in the worktree.

*AutomationFires.* The fire record survives a crash and the execution does not.
`Fired` says that the record alone tells whether a turn was started, `Named` and
`Waiting` that a key is executed by one execution, which is in the tail of its
conversation once and acts only at its head, `Ticking` that a tick does not claim
a conversation twice, `Executed` what the record says while its execution goes on.
`Spaced` relates `lastRunAt`, the slot in the key and the moment of the tick, of
which only the first is durable and is written last.

*AutonomyRuns.* A step is left behind unfinished only when its task counts all its
attempts, and a run is saved as succeeded by an execution that passed its last
step, whatever became of the records since. `Owed` counts for
`OverlapIsAskedFor`: what a run has left behind and what is queued for it come
together to no more than its start and its resumes, and one more while an
execution that left an operation behind is ending. `TasksFollowExecution` says which
tasks an execution has behind it and what it may find before it. The proof shows
on the way that the re-check of the attempt count at the start of a step
(`x.attempt > MaxAttempts` in `RunStep`) never succeeds: the count is 1 there.

*ReleaseDelivery.* The checked invariants speak of the ledger, but what is saved
is made of a record read some steps ago. `IInv` says the same of every such
snapshot (`Grounded`, `Proven`, `Staged`), that an execution's snapshot is the
record or the record is stale or evicted (`Holds`), and that a preview belongs to
the record as it is (`Offered`).

*CodexSessions.* A process has a run, a consumer of that run's events, two timers
and a sweep, and each looks at fields of its own. `Sound` relates the fields of a
process (what works is up, what has an idle timer is resident and has no run),
`Driving` those of a run to its process: it is of the run's conversation, is marked
with the run while the run is active, and has stopped working when its turn is
recorded as completed. `Watched` says who waits for a process that works, and needs
`OneBusy`: the run that gives a worktree back is the only one of its conversation,
so it is the one that watches. `TokenFollowsSession` needs `Single`: a conversation
has one resident process or one run about to spawn it, so that giving up a session
takes away the token of nobody else. That no more than the limit wait for a timer
(`Timed`) is a count over the insertion order: sessions that have at most *n* idle
ones no older than themselves are at most *n* (`Youngest`). The steps that start no
process share two lemmas, `OneRun` and `NoRun`, over what they may change
(`Changed`).

### What is only model-checked

- The invariants of `EventJournal`: they speak of what `Replay`, a fold over a
  history of any length, computes, and an induction over data is beyond the prover
  here.
- The liveness properties (`CallbackAnswered`, `AnswerSettles`, `DueIsServed`,
  `TransferSettles`, `ReservationEnds`, `CancelledEnds`, `ExecutionEnds`):
  fairness and `ENABLED` are beyond the prover here.

## Findings

1. `journal_unreadable`, `server/state.ts:5713`. A rewrite while a
   soft-checkpointed segment is open writes its whole current text; the journaled
   length stays that of the checkpoint. The next append is at the old offset, and
   the next start refuses the history. docs/local-data.md:51 says the projection
   rebuilds "from the event log".
2. `journal_visible`, `server/state.ts:5713`. After a rewrite the projection holds
   copies of the rows, while the stream goes on in the segment object that it no
   longer holds: later tokens are not shown until the segment is durable.
   docs/local-data.md:100-102 says "The open segment is the live inspect-visible
   record; later tokens mutate it in place".

### Counterexamples kept beside them

Each configuration below makes TLC refute a property with the code as it is. They
are not among the runs, so that these stay one per question; they are run by
hand, `tlc -config <cfg> <module>`.

| Configuration | Property | What happens |
| --- | --- | --- |
| `MCCodexSessionsFailed` | `EndedRunSettles` | A Codex turn ends as failed or interrupted by the provider. `provider-run.ts:1233` leaves its loop at the terminal event, so the generator returns from its yield and the `#terminate` behind it (`codex-provider.ts:1475`, and 1266 for a refused tool) is not reached; the session stays in `#sessions` without an idle timer; and `provider-run.ts:1250` waits for the exit of an app-server that nobody ends. The response stays open and the worktree reserved until other conversations push the session over the idle limit or the host closes. `codex-provider.test.ts:484` says sessions "bound idle process lifetime" and reads every event to the end, as the host does not. |
| `MCCodexSessionsReuse` | `OwnTermination` | A cancelled Codex turn still completes. Its process is kept, its termination stays scheduled (`codex-provider.ts:985`), and a run started within the two seconds borrows it (`codex-provider.ts:886` looks at neither) and is killed with it. |
| `MCAutonomyRunsCancel` | `CancelIsSticky` | docs/autonomy.md:35: "Cancellation is sticky". `#executeRun` saves records computed from an earlier read (`autonomy-engine.ts:872`-879, 903-910, 959-968, 984-994); a cancellation saved in between is overwritten. |
| `MCEventJournalOrder` | `TranscriptIsOrdered` | Two turns stream and the second is journaled first: the first keeps its place in the projection and gets the larger sequence, and every later rewrite throws "Local transcript collections are not ordered for rewrite." (`state.ts:2913`) |
| `MCChildInputTeardown` | `BaselinePreserved` | The teardown of a parked run reads whether its request is pending (`provider-run.ts:1307`); an answer accepted in between makes it fail the baseline that the answer is about to rebind. |
| `MCAutomationFiresHalt` | `ScheduleGoesOn` | The host dies after a slot was claimed and before `lastRunAt` was saved. The slot keeps its name and has an outcome, and only `#syncExisting` moves `lastRunAt`, which it does not do once a later fire exists (`automations.ts:710`): no tick fires again until a run by hand that is not skipped. |
| `MCConversationTurnsRetry` | `DeliveredOnce` | docs/decisions/conversation-mailbox.md:31-33 and `state.ts:3729` promise one delivery; a send repeated while the first is failing gives the message to a second run. |
| `MCConversationTurnsDeleted` | `DeletedStaysDeleted` | A writer that read a conversation before its deletion (`state.ts:4568`) writes turns or checkpoints of it afterwards; `state.test.ts:1803` tests the sequential case. |
| `MCReleaseDeliveryRetry` | `ReconciledBeforeRetry` | docs/local-delivery.md:121 asks that an unknown outcome be reconciled first; `release-delivery-workflow.ts:1264` offers further mutations to some unknown states. |
| `MCEventJournalControl` | `TokensExactlyOnce` | A segment flushed for an approval decided elsewhere is closed after its sync, with the tokens that came meanwhile (`state.ts:3035`): the next boundary acknowledges them, and they are in no record. docs/local-data.md:102-103 has tokens append "even while a journal fsync is in flight". |
| `MCConversationTurnsActive` | `ActiveTurnIsOwned` | A provider's stream ends without a terminal event (Claude exiting with 0 and no result, `provider.ts:688`-693): `provider-run.ts:1237` records one only if the client is gone, the run is torn down and its turn stays active until the next start. docs/local-data.md:75 says "Active turns remain owned by the host". |
| `MCWriterLeasePid` | `GoneHolderIsReclaimed` | The pid of a dead holder belongs to another user's process: `process.kill` fails with EPERM (`state.ts:2238`), the holder is "unknown", and a restart within 30 s is refused (`state.ts:2261`). docs/local-data.md:32: "Startup reclaims it when the recorded same-host holder is gone". |
| `MCWriterLeaseThree` | `OneWriter` | A reclaimer takes a fresh lock aside by mistake (`state.ts:2264`); before it puts it back (`state.ts:2271`) the path is free, a third host creates the lock there, and both hold the lease. docs/local-data.md:32: "A second live host is refused." |
| `MCWriterLeaseSlips` | `ExclusiveUnlessSlip` | *holds*: three hosts, holders that sleep without start times. |

### Further observations

Not runs of their own; each is reproduced by the change of constants or property
named.

*Writer lease.*
- With `InodeReuse = TRUE` the comparison of inodes (`state.ts:2271`) is fooled.
- Where start times cannot be read (`Platforms` {FALSE}, `Sleepers` {FALSE}), a
  holder that slept for 30 s is taken for dead (`state.ts:2260`).

*Event journal.*
- `TokensExactlyOnce` in `MCEventJournalVisible`: merging an open segment into its
  predecessor duplicates its tokens (`state.ts:5627`).
- `HistoryReplays` with `Faults` {"dirsync"}, three tokens and no segment cut: memory
  keeps the old numbering over the renamed file (`state.ts:2517`).
  `AckedIsRecoverable` says that nothing is lost.

*Turns and checkpoints.*
- A decision computed from a turn that has ended meanwhile reopens it
  (`state.ts:5146`-5166).
- A crash between the appends of an input request and of its turn
  (`state.ts:5107`, 4915) leaves a pending request nobody can answer, or a turn
  that waits without one. `WaitingHasQuestion` excepts it.
- An input timer that races retention writes back a turn that retention removed.
- Deleting the source of a transfer interrupts the destination's turn while its
  run is starting (`state.ts:4758`-4772).
- Retention invalidates checkpoints of conversations that it keeps; deletion of a
  conversation leaves Git refs behind; a HEAD that moved drops the refs before the
  record says unavailable; deletion of a project leaves mailbox transfers
  (docs/local-data.md:150).
- When the write of an event fails (`provider-run.ts:1208`-1224), the run ends and
  its provider with it; a turn that was just recorded as waiting keeps a pending
  request that nobody can answer to any effect. With all 32 input timers in use, a
  question has no expiry.
- `codex.answerInput` is not reached for a Codex question: the respond route takes
  `native_resume` for Shikigami's (`delegated-control-routes.ts:262`-270 against
  306-315; docs/providers.md:105).

*Codex.*
- `readBoundedLines` drops what followed `turn/completed` in the same chunk when
  the generator returns, so the next run on the process may begin in the middle of
  a line, which ends it as a protocol failure. Not modelled.
- A child ended by a signal has no exit code and is borrowed until its close
  event; the run then fails at once.

*Autonomy.*
- A run still queued when the host stops stays queued after the restart.
- A heartbeat deleted while its status is saved comes back; a stale save of
  `lastRunId` lets two runs of one heartbeat overlap; a run that ends before its
  monitor is saved leaves it "queued".
- A cancellation is looked at between steps, not between attempts.
- A resume (`state.ts:4010`-4050, `autonomy-engine.ts:642`-650) does not wait for an
  operation that its run left behind after a timeout (`autonomy-engine.ts:1269`-1273)
  and starts the same step beside it; `RunsAreExecutedOnce` counts the resumes.

*Release delivery.*
- `publication_unknown` without a release in Tenkai has no action left.
- A session found stale during an execution is overwritten by its save; a
  worktree that changed makes an applying session stale, which cannot be
  reconciled any more.
- Reconciling a succeeded plan whose health lags gives "planned", and the plan
  is applied again. An unknown rollback loses its plan, and reconciling it says
  "promoted".
- A request cancelled while publish or promote is in flight leaves the state from
  before, though the command may have taken effect.
- The ledger keeps the 50 newest sessions, whatever their state.

*Delegated input.*
- A native resume refused until its retries are exhausted leaves its turn
  "active" until the next restart.
- A crash between the append of a request and of its turn (`state.ts:5107`)
  leaves a pending request of a turn that is not waiting.
- An answer that meets a disconnecting client can leave a cancelled request with
  a receipt.

*Automations.*
- `RunsAreSpaced` is about automations that only the schedule runs. A tick that
  read `lastRunAt` before a manual run waits behind it and then fires at once; a
  crash in between gives the prompt again, early, under another slot.
- An advisory hook (`onFinished`) that throws after a completed fire sets the
  automation's status to "error" (`automations.ts:752`), though the fire keeps
  its outcome.
- `tick()` awaits the runs it starts, so one long provider turn keeps every
  automation that becomes due meanwhile from being looked at
  (`automations.ts:773`); the comment at `automations.ts:779` is about those of
  the same tick only.
- A manual key skipped as busy cannot be used again (`MayClaim`).
- `#read` takes any failure but a missing file for an empty store
  (`automations.ts:495`), and `create` writes that store back. Not modelled.

## Inventory

Every component, in the order of `PROJECT.json`. *Modelled*, *partly* or *no* as
there. "Hard" names what tests hardly reach, "correct" what would make the
component correct.

| Component | State and operations | Interacts with | Hard | Correct when |
| --- | --- | --- | --- | --- |
| **Approval broker** `server/permission.ts` (*modelled*) | maps of live, retained, claimed and resolving approvals, waiting callbacks, run tokens; register, await, decide, decide after a write, close a run | provider adapters (token, registration, close), the decision route, expiry listener in `host.ts` | callbacks before or after registrations, timers, closure and a failing write around a suspended verdict | consent is durable, single-use, in time, for its own call and an open run; every callback is answered |
| **Writer lease** `server/state.ts` (*modelled*) | the lock file with pid and start time, its heartbeat; acquire, reclaim, release | every other host of the machine | races of single file-system calls, crashes, sleep, reused pids | one writer; a dead holder blocks nobody |
| **Event journal** `server/state.ts` (*partly*) | `events.v1.jsonl`, projection, open segments, write queue; append, rewrite, repair, replay | everything that is durable | failing and torn writes, rewrites in mid-stream, directory sync, forked numbering | acknowledged means durable, once, and replayable; memory and disk agree |
| **Turns** `server/state.ts` (*partly*) | turn status, approvals and input requests of a turn; `recordProviderEvent`, cancel, recovery | event loop of the run, decision route, expiry listener, input timers | a turn snapshot read before an append and written back after others; cancels and status in separate appends | a finished turn stays finished; a waiting turn has something to wait for |
| **Delegated input** `server/state.ts`, `provider-run.ts`, `delegated-*.ts` (*partly*) | input requests, receipts, resume states, rebound checkpoints; respond route, follow-up and native-resume runs | provider runs, worktree reservation, checkpoints, recovery | answers during a teardown, retried admission, crashes between writes | an answer is used once, on the right baseline, and never lost |
| **Mailbox** `server/state.ts`, `mailbox-routes.ts` (*partly*) | transfers with an idempotency key; save, deliver, bind, abandon | provider runs of the destination conversation | a send repeated while the first is between its record and its run | one turn per key; a failed delivery can be repeated |
| **Automations** `server/automations.ts` (*partly*) | automations file, fires in the journal, tick and per-thread tails; tick, run now, editing | provider runs, journal, wakes, autonomy hooks | two stores written in turn, crash between them, stale inventory behind a queue | a key runs once; outcomes are proven; the schedule goes on |
| **Provider run** `server/provider-run.ts` (*partly*) | admission count, worktree reservations, the event loop, checkpoint capture, teardown | all adapters, journal, broker, checkpoints, browser tokens | limits under concurrent admission, disconnects, teardown in many steps of which one fails | a worktree has one run; what was reserved is released; each run has a terminal event |
| **Checkpoints** `server/repository.ts`, `state.ts` (*partly*) | hidden refs with baseline and completion, rewind, retention | provider runs, delegated input, deletion | capture beside an active run, a rewind that fails half way, refs without records | a baseline that is offered can be restored |
| **Autonomy engine** `server/autonomy-engine.ts` (*partly*) | runs, tasks, flows, monitors, hooks, run tails, dispatch keys; start, resume, cancel, tick, dispatch | journal, provider worktrees, scheduler | cancel between two attempts or during a drain; dispatch keyed in memory | a cancelled run does no further step; a hook fires once per cooldown |
| **Conversation lifecycle and forks** `conversation-*-routes.ts`, `state.ts` (*partly*) | settle, snooze, archive, delete, fork, relationships | journal, worktrees, delegated-control lock, retention | checks outside the write queue, retention of active conversations | nothing running is deleted; a fork copies a consistent history |
| **Worktrees** `server/worktrees.ts` (*no*) | registry file, plans with expiry, one operation at a time; create, remove, release | git, conversation lifecycle | a plan confirmed after the repository moved on; a crash between git and the registry | a removed worktree held no unsaved work; the registry converges |
| **Release delivery** `release-delivery-workflow.ts`, `release-candidate.ts`, `delivery.ts` (*partly*) | sessions file, pending plans, executions per session; plan, execute, reconcile, roll back | git, external tools | a result that is unknown, a plan executed twice or after it expired | an unknown step is reconciled, not repeated; evidence is of the candidate it names |
| **Shared browser** `server/browser*.ts`, `desktop/shared-browser.ts` (*partly*) | sessions, provider tokens, agent-control flag; navigate, operate, picture-in-picture | provider runs (token per conversation), desktop shell | control withdrawn during an operation, close racing an operation | an agent acts only while it has control and its run lives |
| **Wake stream** `server/wake-stream*.ts` (*no*) | pending and written wakes per thread, back-pressure flags | journal projections, UI | a wake during a projection or while blocked | the last wake of a thread is delivered or the stream ends |
| **Remote and managed access** `remote-auth.ts`, `managed-host.ts`, ... (*no*) | pairing grants, device sessions, replay ledgers behind a lock file | every remote request | a ledger at capacity, a failing save, restarts | a proof or an assertion is accepted once; revoked means refused |
| **Provider adapters** `server/*-provider.ts`, ... (*partly*) | child processes, protocol parsers, pending control requests, resident Codex sessions | provider run, broker, browser tokens | a process that does not close, is reused while it is being ended, or outlives its run; a generator left at a yield | a process belongs to one run, is quiet outside it, and ends |
| **Profiles and declarative adapters** `profiles.ts`, `provider-adapters.ts` (*no*) | versioned files, probes, mutation queues | provider run | probe results of a profile changed meanwhile | readers see whole versions |
| **Repository, diff, context reading** `changes.ts`, `context.ts`, ... (*no*) | none durable: bounded reads and parsers | git | limits that unit tests reach | |
| **Preview** `preview.ts` (*no*) | preview processes and their records | process groups | stop racing readiness | a stopped preview leaves no process |
| **Chisei client** `chisei-*.ts` (*no*) | none: maps requests to another service | gRPC | | |
| **Host and routing** `host.ts`, ... (*no*) | wiring; its locks belong to the components they guard | all | | |
| **Desktop shell** `desktop/` (*no*) | update state, remote environments, windows | host process | update events out of order; two connects to one environment | |
| **Browser UI** `src/` (*no*) | view state; sessions in `src/lib` that poll and retry | host API | answers of an older selection arriving late | the view shows the selected conversation |
| **Vendored SDK, tooling** (*no*) | third-party or build-time code | | | |

### How they meet

A request of the UI, a mailbox transfer, an automation, an autonomy step or an
answered question is *admitted* (`provider-run.ts`), reserves its worktree,
captures a baseline, opens a turn in the journal and starts an adapter. The
adapter's events become journal appends in the run's loop; a mutating call
becomes an approval, in the broker and on the turn; a question becomes an input
request and ends a parked run. Terminal events finish the turn, complete the
checkpoint and release the worktree. Restart replays the journal under the writer
lease, then recovers turns, inputs, fires and autonomy runs, in that order, before
requests are served. Most of the hard behaviour is in what may happen between two
appends of one such chain.

### What the models leave out

Within the modelled components: text, wording, timestamps beyond order, sizes and
limits in bytes, the read indexes and schema migration of the journal, records
other than turns, messages, activities, requests, transfers and checkpoints, the
Codex form of native input and the relationship checks of delegated input,
editing of automations, what the operator is shown of their status, what the
steps of an autonomy flow find, digests and receipts of a delivery, and storage
faults outside `EventJournal`, the broker's write and the run's loop. In
`CodexSessions` every Codex run has the browser's MCP server (the desktop host),
questions and approvals are a kind of progress, a failing write to a dead process
is the end of its stream, and the closing of the host is left out. Everything
marked *no* is left out for now; the reasons are in `PROJECT.json`. The parts that
make up most of the repository's lines (the browser UI, parsers of Git and
provider output, request mapping) keep no state whose order matters, or belong to
a later module of the plan.

## Plan

In order of how much of the system rests on it.

1. Done: `PermissionBroker` with its proofs, `WriterLease`, `EventJournal`,
   `ChildInput`, `AutomationFires`, `ConversationTurns` (which took the place of
   separate modules for a turn, the mailbox, the provider run and checkpoints,
   because they share records and the write queue), `CodexSessions`,
   `AutonomyRuns`, `ReleaseDelivery`.
2. Proofs. Done: what [Proofs](#proofs) lists, which is every checked safety
   property but those of `EventJournal`. Left: the types of `EventJournal` and what
   its invariants say of one append.
3. `SharedBrowser`: control epochs and the withdrawal of control during an
   operation; `Worktrees`: plans against running providers.
4. The replay ledgers of remote and managed access, the wake stream, the preview
   supervisor, the updater; the other provider processes beside Codex.
