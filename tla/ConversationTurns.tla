--------------------------- MODULE ConversationTurns ---------------------------
(***************************************************************************)
(* What the host keeps about a conversation while provider runs execute in *)
(* it: its turns, the native input request and the workspace checkpoint of *)
(* each run, and the mailbox transfer that created one of the turns.       *)
(*                                                                         *)
(* The runs (provider-run.ts), the mailbox route, the approval decisions,  *)
(* the input timers, rewind, conversation deletion, project deletion and   *)
(* retention share these records.  They read the projection in one step    *)
(* and append what they computed from it in later ones, one write queue    *)
(* operation at a time: `todo' holds what each of them has still to write. *)
(*                                                                         *)
(* Two conversations of one project: transfers go from "src" to "dst", and *)
(* every run executes in "dst", in its one worktree.  All the mailbox      *)
(* requests of Sends carry one idempotency key.  Left out: transcript,     *)
(* sessions, plans, receipts (EventJournal has the journal, ChildInput the *)
(* follow-up answers), and storage faults.                                 *)
(*                                                                         *)
(* A definition Name_variant is not part of the specification: it is the   *)
(* form Name would take under a plausible bug, kept to show that a         *)
(* property would notice.                                                  *)
(***************************************************************************)
EXTENDS Naturals, FiniteSets, Sequences

CONSTANTS
    Sends,       \* POST /api/mailbox/send requests, all with the same key
    Starts,      \* provider runs that the operator starts in "dst"
    Questions,   \* pairs of a run and what it may ask for, "approval" or "input"
    MaxJobs,     \* bound: deletions, retentions and rewinds
    MaxCrashes   \* bound: crashes of the host

ASSUME RunsAreDistinct == Sends \cap Starts = {}
ASSUME QuestionsAreKnown == Questions \subseteq (Sends \cup Starts) \X {"approval", "input"}
ASSUME BoundsAreNat == MaxJobs \in Nat /\ MaxCrashes \in Nat

Procs == Sends \cup Starts
Mail == "mail"    \* the turn of the transfer
Turns == Starts \cup {Mail}
TurnOf(p) == IF p \in Sends THEN Mail ELSE p
Others == {"decision", "timer", "recovery", "rewind", "maintenance"}
Writers == Procs \cup Others
Threads == {"src", "dst"}

ASSUME RunsAreFinite == IsFiniteSet(Sends) /\ IsFiniteSet(Starts)
ASSUME NamesAreDistinct == Mail \notin Starts /\ Procs \cap Others = {}

VARIABLES
    \* durable, and the projection
    threads,    \* conversations that have a record
    turn,       \* per turn: status, and how many runs were bound to it
    transfer,   \* the record of the mailbox transfer
    request,    \* per turn: its native input request
    checkpoint, \* per run: its checkpoint record
    refs,       \* per run: the Git refs that keep its snapshots reachable
    deleted,    \* conversations whose deletion is recorded as completed
    \* lost in a crash
    pc,         \* per run or send: how far it is
    asked,      \* per run: what its provider is waiting for
    todo,       \* per writer: appends computed from a read and not yet made
    queue,      \* the write queue: writers whose next append is submitted
    held,       \* activeCheckpointWorktrees and activeCheckpointProjects
    job,        \* the holder of the delegated-control lock
    host,       \* "up" or "recovering"
    \* bounds
    jobs, crashes

records == <<threads, turn, transfer, request>>
snapshots == <<checkpoint, refs>>
writing == <<todo, queue>>
bounds == <<jobs, crashes>>
vars == <<records, snapshots, deleted, pc, asked, writing, held, job, host, bounds>>

Busy == {"active", "waiting_for_user", "waiting_for_approval"}
Final == {"completed", "failed", "interrupted"}
NoTurn == [status |-> "none", runs |-> 0]
NoJob == [kind |-> "none", threads |-> {}]
Exists(t) == turn[t].status # "none"
Bound(t) == turn[t].runs > 0

Init ==
    /\ threads = Threads
    /\ turn = [t \in Turns |-> NoTurn]
    /\ transfer = "none"
    /\ request = [t \in Turns |-> "none"]
    /\ checkpoint = [p \in Procs |-> "none"]
    /\ refs = [p \in Procs |-> {}]
    /\ deleted = {}
    /\ pc = [p \in Procs |-> IF p \in Sends THEN "idle" ELSE "admitting"]
    /\ asked = [p \in Procs |-> {}]
    /\ todo = [w \in Writers |-> <<>>]
    /\ queue = <<>>
    /\ held = {}
    /\ job = NoJob
    /\ host = "up"
    /\ jobs = 0 /\ crashes = 0

-----------------------------------------------------------------------------
\* The write queue: one append of a writer.

Put(op, of, value) == <<[op |-> op, of |-> of, value |-> value]>>
PutTurn(t, status) == Put("turn", t, [turn[t] EXCEPT !.status = status])
If(condition, appends) == IF condition THEN appends ELSE <<>>

\* The appends of one handler follow one another: the next is submitted to the
\* queue when the one before it has been made.
Submit(w, appends) ==
    /\ todo' = [todo EXCEPT ![w] = appends]
    /\ queue' = queue \o If(appends # <<>>, <<w>>)

\* The append of w is made and its next one submitted.  A thread is marked as
\* woken only if it is found then.
Made(w) ==
    LET left == Tail(todo[w])
        rest == IF left # <<>> /\ Head(left).op = "thread" /\ "dst" \notin threads THEN Tail(left) ELSE left
    IN /\ todo' = [todo EXCEPT ![w] = rest]
       /\ queue' = Tail(queue) \o If(rest # <<>>, <<w>>)

\* A turn or a thread is written back whole from the reader's snapshot, so an
\* append to a record that was removed meanwhile brings it back.
Write(w) ==
    /\ queue # <<>> /\ w = Head(queue) /\ Head(todo[w]).op # "remove"
    /\ LET a == Head(todo[w]) IN
       /\ turn' = IF a.op = "turn" THEN [turn EXCEPT ![a.of] = a.value] ELSE turn
       /\ request' = IF a.op = "request" THEN [request EXCEPT ![a.of] = a.value] ELSE request
       /\ threads' = IF a.op = "thread" THEN threads \cup {"dst"} ELSE threads
       /\ checkpoint' =
            CASE a.op = "checkpoint" -> [checkpoint EXCEPT ![a.of] = a.value]
              [] a.op = "supersede" -> [q \in Procs |->
                    IF q # a.of /\ checkpoint[q] = "completed" THEN "superseded" ELSE checkpoint[q]]
              [] OTHER -> checkpoint
       /\ Made(w)
    /\ UNCHANGED <<transfer, refs, deleted, pc, asked, held, job, host, bounds>>

\* The resolution of an input, then the turn that goes on.
Resolution_alone(t, state) == Put("request", t, state)
Resolution(t, state) == Put("request", t, state) \o If(turn[t].status \notin Final, PutTurn(t, "active"))

\* What recordProviderEvent appends for an event, given the turn it reads.
Appends(t, event) ==
    LET status == turn[t].status IN
    CASE event = "input_requested" ->
            If(status \in {"active", "waiting_for_user"},
               Put("request", t, "pending")
               \o If(status # "waiting_for_user", PutTurn(t, "waiting_for_user"))
               \o Put("thread", "dst", "woken"))
      [] event \in {"answered", "cancelled"} ->
            If(request[t] = "pending" /\ Exists(t), Resolution(t, event))
      [] event = "approval_pending" ->
            If(status \notin Final, PutTurn(t, "waiting_for_approval") \o Put("thread", "dst", "woken"))
      [] event = "approval_resolved" -> If(status \notin Final, PutTurn(t, "active"))
      [] event \in Final ->
            PutTurn(t, event)
            \o If(request[t] = "pending", Put("request", t, "cancelled"))
            \o If(event = "failed", Put("thread", "dst", "woken"))

-----------------------------------------------------------------------------
\* A mailbox send, and the admission of a run.

Goto(p, label) == pc' = [pc EXCEPT ![p] = label]

\* saveMailboxTransfer.  An undelivered transfer is taken up again by the next
\* request with its key; otherwise the destination must not be busy.  After its
\* removal the key makes a new transfer with a turn of its own, left out here.
Send(p) ==
    /\ host = "up" /\ pc[p] = "idle" /\ transfer # "removed"
    /\ LET new == transfer = "none"
           retry == transfer = "saved" /\ Exists(Mail) /\ ~Bound(Mail) /\ turn[Mail].status # "active"
           admit == retry \/ (new /\ threads = Threads /\ \A t \in Turns : turn[t].status \notin Busy)
       IN /\ turn' = IF admit THEN [turn EXCEPT ![Mail].status = "active"] ELSE turn
          /\ transfer' = IF admit THEN "saved" ELSE transfer
          /\ Goto(p, IF admit THEN "admitting" ELSE "done")
    /\ UNCHANGED <<threads, request, snapshots, deleted, asked, writing, held, job, host, bounds>>

\* The route's catch: abandonMailboxDelivery.
Abandon(p) ==
    /\ pc[p] = "abandoning"
    /\ turn' = IF turn[Mail].status = "active" /\ ~Bound(Mail)
               THEN [turn EXCEPT ![Mail].status = "interrupted"] ELSE turn
    /\ Goto(p, "done")
    /\ UNCHANGED <<threads, transfer, request, snapshots, deleted, asked, writing, held, job, host, bounds>>

Refused_silent(p) == "done"
Refused(p) == IF p \in Sends THEN "abandoning" ELSE "done"

\* The worktree is reserved when nothing holds it or its project; before that
\* any of the checks of the request may refuse it (409, 429, ...).
Reserve_shared(p) ==
    /\ pc[p] = "admitting"
    /\ held' = held \cup {p} /\ Goto(p, "reserved")
    /\ UNCHANGED <<records, snapshots, deleted, asked, writing, job, host, bounds>>
Reserve(p) ==
    /\ pc[p] = "admitting"
    /\ \/ held = {} /\ held' = {p} /\ Goto(p, "reserved")
       \/ held' = held /\ Goto(p, Refused(p))
    /\ UNCHANGED <<records, snapshots, deleted, asked, writing, job, host, bounds>>

\* mailboxDestination or startTurn, then the checkpoint intent.
Open(p) ==
    /\ pc[p] = "reserved"
    /\ LET ok == IF p \in Sends THEN transfer = "saved" /\ "dst" \in threads /\ Exists(Mail)
                 ELSE "dst" \in threads
       IN /\ turn' = IF ok /\ p \in Starts THEN [turn EXCEPT ![p].status = "active"] ELSE turn
          /\ Submit(p, If(ok, Put("checkpoint", p, "unavailable")))
          /\ Goto(p, IF ok THEN "opened" ELSE "leaving")
    /\ UNCHANGED <<threads, transfer, request, snapshots, deleted, asked, held, job, host, bounds>>

\* captureCheckpoint makes the ref, then the record is saved; it may refuse.
Capture(p) ==
    /\ pc[p] = "opened" /\ todo[p] = <<>>
    /\ \/ /\ refs' = [refs EXCEPT ![p] = {"baseline"}]
          /\ Submit(p, Put("checkpoint", p, "baseline"))
       \/ UNCHANGED <<refs, writing>>
    /\ Goto(p, "captured")
    /\ UNCHANGED <<records, checkpoint, deleted, asked, held, job, host, bounds>>

\* The provider starts, or fails to and the turn is recorded as failed.
Launch(p) ==
    /\ pc[p] = "captured" /\ todo[p] = <<>>
    /\ \/ Goto(p, "launched") /\ UNCHANGED writing
       \/ /\ Submit(p, If(Exists(TurnOf(p)), Appends(TurnOf(p), "failed")))
          /\ Goto(p, IF Exists(TurnOf(p)) THEN "failing" ELSE "leaving")
    /\ UNCHANGED <<records, snapshots, deleted, asked, held, job, host, bounds>>

LaunchFailed(p) ==
    /\ pc[p] = "failing" /\ todo[p] = <<>>
    /\ Submit(p, If(checkpoint[p] = "baseline", Put("checkpoint", p, "failed")))
    /\ Goto(p, "leaving")
    /\ UNCHANGED <<records, snapshots, deleted, asked, held, job, host, bounds>>

\* bindProviderRun throws when the turn is gone; the run is then cancelled.
Bind(p) ==
    /\ pc[p] = "launched"
    /\ LET t == TurnOf(p) IN
       /\ turn' = IF Exists(t) THEN [turn EXCEPT ![t].runs = @ + 1] ELSE turn
       /\ Goto(p, IF Exists(t) THEN "running" ELSE "leaving")
    /\ UNCHANGED <<threads, transfer, request, snapshots, deleted, asked, writing, held, job, host, bounds>>

-----------------------------------------------------------------------------
\* The event loop of a run.  A record that is missing makes recordProviderEvent
\* throw: the provider is cancelled and no terminal event is recorded.

Ready(p) == pc[p] = "running" /\ todo[p] = <<>>
Record(w, p, event) == Submit(w, Appends(TurnOf(p), event))
Lost(p) == Goto(p, "lost") /\ UNCHANGED <<asked, writing>>

\* The provider asks; the turn's request is asked once, for brevity.
Ask(p, q) ==
    /\ Ready(p) /\ <<p, q>> \in Questions /\ q \notin asked[p] /\ (q = "input" => request[TurnOf(p)] = "none")
    /\ IF ~Exists(TurnOf(p)) THEN Lost(p)
       ELSE /\ Record(p, p, IF q = "input" THEN "input_requested" ELSE "approval_pending")
            /\ asked' = [asked EXCEPT ![p] = @ \cup {q}]
            /\ UNCHANGED pc
    /\ UNCHANGED <<records, snapshots, deleted, held, job, host, bounds>>

\* The adapter settles the question it asked, an input only once.
Answered(p) ==
    /\ Ready(p) /\ "input" \in asked[p]
    /\ IF ~Exists(TurnOf(p)) THEN Lost(p)
       ELSE /\ Record(p, p, "answered")
            /\ asked' = [asked EXCEPT ![p] = @ \ {"input"}]
            /\ UNCHANGED pc
    /\ UNCHANGED <<records, snapshots, deleted, held, job, host, bounds>>

\* Too many expiry timers, a turn that was deleted: local history failed.
HistoryFails(p) ==
    /\ Ready(p) /\ ("input" \in asked[p] \/ ~Exists(TurnOf(p)))
    /\ Goto(p, "lost")
    /\ UNCHANGED <<records, snapshots, deleted, asked, writing, held, job, host, bounds>>

\* A terminal event, or the cancelled event recorded when the client has gone.
End(p, event) ==
    /\ Ready(p)
    /\ IF ~Exists(TurnOf(p)) THEN Lost(p)
       ELSE /\ Record(p, p, event)
            /\ Goto(p, IF event = "completed" THEN "completed" ELSE "stopped")
            /\ UNCHANGED asked
    /\ UNCHANGED <<records, snapshots, deleted, held, job, host, bounds>>

\* A provider that exits with code 0 and no result ends without a terminal event.
StreamEnds(p) ==
    /\ Ready(p)
    /\ Goto(p, "stopped")
    /\ UNCHANGED <<records, snapshots, deleted, asked, writing, held, job, host, bounds>>

\* The checkpoint is finalized from what is read here, unless an unanswered
\* question keeps its baseline.
Settle(p) ==
    /\ pc[p] \in {"completed", "stopped", "lost"} /\ todo[p] = <<>>
    /\ LET save(state) == Submit(p, Put("checkpoint", p, state)) IN
       IF checkpoint[p] # "baseline" THEN UNCHANGED <<refs, writing>>
       ELSE CASE pc[p] = "lost" -> save("failed") /\ UNCHANGED refs
              [] pc[p] = "stopped" ->
                    /\ IF request[TurnOf(p)] = "pending" THEN UNCHANGED writing ELSE save("failed")
                    /\ UNCHANGED refs
              [] OTHER ->
                    \/ /\ refs' = [refs EXCEPT ![p] = @ \cup {"completed"}]
                       /\ Submit(p, Put("checkpoint", p, "completed") \o Put("supersede", p, "others"))
                    \/ refs' = [refs EXCEPT ![p] = {}] /\ save("unavailable")    \* HEAD changed
                    \/ UNCHANGED refs /\ save("unavailable")                     \* capture refused
    /\ Goto(p, "closing")
    /\ UNCHANGED <<records, checkpoint, deleted, asked, held, job, host, bounds>>

\* The finally of the run; a send whose run was never accepted is abandoned.
Leave_accepted(p) ==
    /\ pc[p] \in {"leaving", "closing"} /\ todo[p] = <<>>
    /\ held' = IF pc[p] = "closing" THEN held \ {p} ELSE held
    /\ asked' = [asked EXCEPT ![p] = {}]
    /\ Goto(p, IF pc[p] = "leaving" THEN Refused(p) ELSE "done")
    /\ UNCHANGED <<records, snapshots, deleted, writing, job, host, bounds>>
Leave(p) ==
    /\ pc[p] \in {"leaving", "closing"} /\ todo[p] = <<>>
    /\ held' = held \ {p}
    /\ asked' = [asked EXCEPT ![p] = {}]
    /\ Goto(p, IF pc[p] = "leaving" THEN Refused(p) ELSE "done")
    /\ UNCHANGED <<records, snapshots, deleted, writing, job, host, bounds>>

-----------------------------------------------------------------------------
\* Writers beside the loop: an approval decision or expiry, an input timer.

Decide(p) ==
    /\ "approval" \in asked[p] /\ todo["decision"] = <<>> /\ Bound(TurnOf(p)) /\ Exists(TurnOf(p))
    /\ asked' = [asked EXCEPT ![p] = @ \ {"approval"}]
    /\ Record("decision", p, "approval_resolved")
    /\ UNCHANGED <<records, snapshots, deleted, pc, held, job, host, bounds>>

Expire(p) ==
    /\ "input" \in asked[p] /\ todo["timer"] = <<>>
    /\ asked' = [asked EXCEPT ![p] = @ \ {"input"}]
    /\ Record("timer", p, "cancelled")
    /\ UNCHANGED <<records, snapshots, deleted, pc, held, job, host, bounds>>

\* checkpoint-routes.ts: a completed checkpoint is rewound under the worktree's
\* reservation.  The rewind itself may fail.
Rewind(p) ==
    /\ host = "up" /\ jobs < MaxJobs /\ held = {}
    /\ checkpoint[p] = "completed" /\ "dst" \in threads
    /\ held' = {"rewind"} /\ jobs' = jobs + 1
    /\ \E done \in BOOLEAN : Submit("rewind", If(done, Put("checkpoint", p, "superseded")))
    /\ UNCHANGED <<records, snapshots, deleted, pc, asked, job, host, crashes>>

RewindDone ==
    /\ "rewind" \in held /\ todo["rewind"] = <<>>
    /\ held' = held \ {"rewind"}
    /\ UNCHANGED <<records, snapshots, deleted, pc, asked, writing, job, host, bounds>>

-----------------------------------------------------------------------------
\* Deletion and retention, one at a time under the delegated-control lock.

Remove(gone) ==
    /\ threads' = threads \ gone
    /\ IF "dst" \in gone
       THEN /\ turn' = [t \in Turns |-> NoTurn]
            /\ request' = [t \in Turns |-> "none"]
            /\ checkpoint' = [p \in Procs |-> "none"]
       ELSE UNCHANGED <<turn, request, checkpoint>>

Removing(kind) == queue # <<>> /\ Head(queue) = "maintenance" /\ job.kind = kind /\ Head(todo["maintenance"]).op = "remove"

\* deleteConversation: the turns are read, then the deletion is recorded, and
\* the records are removed in a later write queue operation.
DeleteConversation(c) ==
    /\ host = "up" /\ job = NoJob /\ jobs < MaxJobs
    /\ c \in threads
    /\ c = "dst" => \A t \in Turns : turn[t].status \notin Busy
    /\ job' = [kind |-> "conversation", threads |-> {c}]
    /\ Submit("maintenance", Put("deletion", c, "pending") \o Put("remove", c, "all"))
    /\ jobs' = jobs + 1
    /\ UNCHANGED <<records, snapshots, deleted, pc, asked, held, host, crashes>>

\* Removing the source of an undelivered transfer interrupts its turn.
RemoveConversation ==
    /\ Removing("conversation")
    /\ IF job.threads = {"src"} /\ transfer = "saved" /\ turn[Mail].status = "active" /\ ~Bound(Mail)
       THEN /\ turn' = [turn EXCEPT ![Mail].status = "interrupted"]
            /\ threads' = threads \ job.threads
            /\ UNCHANGED <<request, checkpoint>>
       ELSE Remove(job.threads)
    /\ transfer' = IF transfer = "saved" THEN "removed" ELSE transfer
    /\ deleted' = deleted \cup job.threads
    /\ job' = NoJob
    /\ Made("maintenance")
    /\ UNCHANGED <<refs, pc, asked, held, host, bounds>>

\* Project deletion takes every conversation, retention those older than its
\* cutoff; neither starts while a run or a rewind holds a worktree of theirs.
Maintain(kind, old) ==
    /\ host = "up" /\ job = NoJob /\ jobs < MaxJobs
    /\ old # {} /\ old \subseteq threads /\ (kind = "project" => old = threads)
    /\ held = {}
    /\ held' = {"maintenance"}
    /\ job' = [kind |-> kind, threads |-> old]
    /\ jobs' = jobs + 1
    /\ UNCHANGED <<records, snapshots, deleted, pc, asked, writing, host, crashes>>

Invalidating == job.kind \in {"project", "retention"} /\ todo["maintenance"] = <<>>
Doomed == IF "dst" \in job.threads THEN {p \in Procs : checkpoint[p] # "none"} ELSE {}

\* Every affected checkpoint is saved as unavailable before any ref is removed.
Invalidate(p) ==
    /\ Invalidating /\ p \in Doomed /\ checkpoint[p] # "unavailable"
    /\ checkpoint' = [checkpoint EXCEPT ![p] = "unavailable"]
    /\ UNCHANGED <<records, refs, deleted, pc, asked, writing, held, job, host, bounds>>

DropRefs_first(p) ==
    /\ Invalidating /\ p \in Doomed /\ refs[p] # {}
    /\ refs' = [refs EXCEPT ![p] = {}]
    /\ UNCHANGED <<records, checkpoint, deleted, pc, asked, writing, held, job, host, bounds>>
DropRefs(p) ==
    /\ Invalidating /\ \A q \in Doomed : checkpoint[q] = "unavailable"
    /\ p \in Doomed /\ refs[p] # {}
    /\ refs' = [refs EXCEPT ![p] = {}]
    /\ UNCHANGED <<records, checkpoint, deleted, pc, asked, writing, held, job, host, bounds>>

Invalidated ==
    /\ Invalidating /\ \A p \in Doomed : checkpoint[p] = "unavailable" /\ refs[p] = {}
    /\ Submit("maintenance", Put("remove", job.kind, "all"))
    /\ UNCHANGED <<records, snapshots, deleted, pc, asked, held, job, host, bounds>>

\* Retention works out again which conversations to remove, and spares those a
\* fork protects or that were touched meanwhile.  Project deletion leaves the
\* mailbox transfer.
Compact(gone) ==
    /\ Removing(job.kind) /\ job.kind # "conversation"
    /\ gone \subseteq job.threads /\ (job.kind = "project" => gone = job.threads)
    /\ Remove(gone)
    /\ transfer' = IF transfer = "saved" /\ job.kind = "retention" /\ gone # {} THEN "removed" ELSE transfer
    /\ job' = NoJob
    /\ held' = held \ {"maintenance"}
    /\ Made("maintenance")
    /\ UNCHANGED <<refs, deleted, pc, asked, host, bounds>>

-----------------------------------------------------------------------------
\* The host stops, and recovers before it serves anything.

Crash ==
    /\ crashes < MaxCrashes
    /\ crashes' = crashes + 1
    /\ pc' = [p \in Procs |-> IF pc[p] = "idle" \/ (p \in Starts /\ pc[p] = "admitting") THEN pc[p] ELSE "done"]
    /\ asked' = [p \in Procs |-> {}]
    /\ todo' = [w \in Writers |-> <<>>] /\ queue' = <<>>
    /\ held' = {} /\ job' = NoJob /\ host' = "recovering"
    /\ UNCHANGED <<records, snapshots, deleted, jobs>>

\* recoverInterruptedTurns: a turn that no provider runs any more, unless it
\* waits for an input that recovery cannot see.
Orphaned(t) == \/ turn[t].status \in {"active", "waiting_for_approval"}
               \/ turn[t].status = "waiting_for_user" /\ request[t] = "pending"

Recover_cancelled(t) ==
    /\ host = "recovering" /\ todo["recovery"] = <<>> /\ Orphaned(t)
    /\ Submit("recovery", PutTurn(t, "cancelled"))
    /\ UNCHANGED <<records, snapshots, deleted, pc, asked, held, job, host, bounds>>
Recover(t) ==
    /\ host = "recovering" /\ todo["recovery"] = <<>> /\ Orphaned(t)
    /\ Submit("recovery", If(turn[t].status = "waiting_for_user", Put("request", t, "cancelled"))
          \o PutTurn(t, "interrupted"))
    /\ UNCHANGED <<records, snapshots, deleted, pc, asked, held, job, host, bounds>>

Recovered ==
    /\ host = "recovering" /\ todo["recovery"] = <<>> /\ \A t \in Turns : ~Orphaned(t)
    /\ host' = "up"
    /\ UNCHANGED <<records, snapshots, deleted, pc, asked, writing, held, job, bounds>>

-----------------------------------------------------------------------------
RunStep(p) ==
    /\ host = "up"
    /\ \/ Abandon(p) \/ Reserve(p) \/ Open(p) \/ Capture(p) \/ Launch(p) \/ LaunchFailed(p)
       \/ Bind(p) \/ Settle(p) \/ Leave(p)

Stops(p) == host = "up" /\ (StreamEnds(p) \/ \E event \in Final : End(p, event))

Maintenance ==
    \/ RemoveConversation \/ RewindDone \/ Invalidated
    \/ \E p \in Procs : Invalidate(p) \/ DropRefs(p)
    \/ \E gone \in SUBSET Threads : Compact(gone)

Next ==
    \/ \E w \in Writers : Write(w)
    \/ \E p \in Sends : Send(p)
    \/ \E p \in Procs : RunStep(p) \/ Stops(p)
    \/ \E p \in Procs : \/ \E q \in {"approval", "input"} : Ask(p, q)
                        \/ Answered(p) \/ HistoryFails(p)
                        \/ Decide(p) \/ Expire(p) \/ Rewind(p)
    \/ \E c \in Threads : DeleteConversation(c)
    \/ \E kind \in {"project", "retention"}, old \in SUBSET Threads : Maintain(kind, old)
    \/ Maintenance
    \/ Crash
    \/ \E t \in Turns : Recover(t)
    \/ Recovered

Spec == Init /\ [][Next]_vars

FairSpec ==
    /\ Spec
    /\ \A w \in Writers : WF_vars(Write(w))
    /\ \A p \in Procs : WF_vars(RunStep(p)) /\ SF_vars(Stops(p))
    /\ WF_vars(Maintenance)
    /\ WF_vars(\E t \in Turns : Recover(t)) /\ WF_vars(Recovered)

-----------------------------------------------------------------------------
TypeOK ==
    /\ threads \subseteq Threads /\ deleted \subseteq Threads /\ transfer \in {"none", "saved", "removed"}
    /\ turn \in [Turns -> [status : Busy \cup Final \cup {"none"}, runs : 0..Cardinality(Procs)]]
    /\ request \in [Turns -> {"none", "pending", "answered", "cancelled"}]
    /\ checkpoint \in [Procs -> {"none", "unavailable", "baseline", "completed", "failed", "superseded"}]
    /\ refs \in [Procs -> SUBSET {"baseline", "completed"}]
    /\ asked \in [Procs -> SUBSET {"approval", "input"}]
    /\ held \subseteq Procs \cup {"rewind", "maintenance"}
    /\ host \in {"up", "recovering"}

\* A checkpoint that can be reviewed or rewound still has both its snapshots:
\* the capture of a run, the rewind of another turn, project deletion and
\* retention share its record and its refs, and any of them may be cut short.
CompletedIsReachable ==
    \A p \in Procs : checkpoint[p] \in {"completed", "superseded"} => refs[p] = {"baseline", "completed"}

\* Runs, rewinds and maintenance of one worktree exclude one another from the
\* reservation to the last write they owe it.
OneHolder ==
    /\ Cardinality(held) <= 1
    /\ \A p \in Procs : pc[p] \notin {"idle", "admitting", "abandoning", "done"} => p \in held
    /\ \A p \in Procs \cup {"rewind"} : todo[p] # <<>> => p \in held

\* A message recorded as the turn of its destination is bound to a provider run
\* or its turn stops being active: a refused admission, a failed start or a
\* crash does not leave the destination busy with a turn that no run was given.
TransferSettles == turn[Mail].status = "active" /\ ~Bound(Mail) ~> (turn[Mail].status # "active" \/ Bound(Mail))

\* Every reservation of the worktree is given back, whatever the run, the rewind
\* or the maintenance that holds it meets.
ReservationEnds == []<>(held = {})

\* Once its runs are over, a turn is recorded as waiting for the operator only
\* while its question is recorded as pending: the loop, the timer and the approval
\* decision write the question and the turn one after the other, each from what
\* it read.  It does not say that somebody can still take the answer: after a
\* failed history write the provider that asked is gone.  Nothing ties the two
\* writes together, so a crash between them, or a deletion, is excepted.
WaitingHasQuestion ==
    crashes = 0 /\ deleted = {} /\ queue = <<>> =>
        \A t \in Turns :
            turn[t].status = "waiting_for_user" /\ (\A p \in Procs : TurnOf(p) = t => pc[p] = "done")
            => request[t] = "pending"

\* An active turn that was given to a provider run is owned by the host: one of
\* its runs is there, once every append is made.
ActiveTurnIsOwned ==
    host = "up" /\ (\A w \in Writers : todo[w] = <<>>) =>
        \A t \in Turns : turn[t].status = "active" /\ Bound(t) =>
            \E p \in Procs : TurnOf(p) = t /\ pc[p] # "done"

\* The message of a transfer is given to at most one provider run, however
\* often the request is repeated while the first is starting or failing.
DeliveredOnce == turn[Mail].runs <= 1

\* A conversation whose deletion is recorded as completed has no records.
DeletedStaysDeleted ==
    "dst" \in deleted => /\ "dst" \notin threads
                         /\ \A t \in Turns : ~Exists(t)
                         /\ \A p \in Procs : checkpoint[p] = "none"
================================================================================
