---------------------------- MODULE EventJournal ----------------------------
(***************************************************************************)
(* The durable history of server/state.ts: the write queue, appends and    *)
(* history rewrites of events.v1.jsonl, and the assistant segments that    *)
(* are streamed into memory and journaled at boundaries.                   *)
(*                                                                         *)
(* Text is a number of tokens.  A step is one file-system call or one      *)
(* synchronous stretch of the host; tokens, requests and a crash may fall  *)
(* between any two calls of the write in progress.                         *)
(*                                                                         *)
(* A definition Name_variant is not part of the specification: it is the   *)
(* form Name would take under a plausible bug.                             *)
(***************************************************************************)
EXTENDS Naturals, FiniteSets, Sequences, SequencesExt, FiniteSetsExt

CONSTANTS
    Turns,           \* turns of different conversations
    CheckpointLen,   \* ASSISTANT_CHECKPOINT_CHARS, in tokens
    MaxTokens,       \* bound: tokens that are streamed in all
    MaxBoundaries,   \* bound: tool boundaries and decided approvals in all
    MaxRewrites,     \* bound: history rewrites
    MaxCrashes,      \* bound: crashes
    Others,          \* who else flushes a live segment: "control"
    Faults           \* "write": a write fails; "dirsync": what follows the
                     \* rename of a rewrite fails; "fork": an older host left
                     \* records with forked sequence numbers

ASSUME OthersAreKnown == Others \subseteq {"control"}
ASSUME FaultsAreKnown == Faults \subseteq {"write", "dirsync", "fork"}
ASSUME LengthsAreNat ==
    /\ CheckpointLen \in Nat \ {0}
    /\ {MaxTokens, MaxBoundaries, MaxRewrites, MaxCrashes} \subseteq Nat

VARIABLES
    journal,  \* the envelopes in events.v1.jsonl
    torn,     \* it ends in half a line
    mem,      \* #projection
    open,     \* per turn: the open assistant segment, or NoSegment
    queue,    \* the operations behind #writeQueue, the head in progress
    writing,  \* the file-system state of the head, or Idle
    failed,   \* #writeFailure
    up,       \* the host runs
    ended,    \* turns whose event loop is over
    nextId,   \* ids in order of creation
    received, \* history, per turn: tokens the provider sent and the host took
    acked,    \* history, per turn: tokens sent before its last boundary
    cut,      \* history: turns whose open segment was closed or replaced
              \* although it had, or might have had, text that no write covers
    split,    \* history: memory kept the numbering of a history that was replaced
    spent     \* the bounds: boundaries, rewrites and crashes so far

diskVars == <<journal, torn>>
historyVars == <<received, acked, cut, split>>
vars == <<diskVars, mem, open, queue, writing, failed, up, ended, nextId,
          historyVars, spent>>

-----------------------------------------------------------------------------
(* Projections and replay                                                  *)

EmptyProjection == [sequence |-> 0, started |-> <<>>, messages |-> <<>>,
                    activities |-> {}, readable |-> TRUE]

\* replaceById: in place, or pushed at the end.
ReplaceById(rows, row) ==
    IF \E i \in DOMAIN rows : rows[i].id = row.id
    THEN [i \in DOMAIN rows |-> IF rows[i].id = row.id THEN row ELSE rows[i]]
    ELSE Append(rows, row)

Extends(p, event) ==
    \E i \in DOMAIN p.messages : p.messages[i].id = event.id
                                 /\ p.messages[i].len = event.offset

\* applyEvent, the cases the transcript needs.
ApplyEvent(p, envelope) ==
    LET event == envelope.event
        next == [p EXCEPT !.sequence = envelope.sequence]
        seq == envelope.sequence
    IN  IF ~p.readable \/ seq # p.sequence + 1
           \/ (event.type = "message_text_appended" /\ ~Extends(p, event))
        THEN [p EXCEPT !.readable = FALSE]
        ELSE CASE event.type = "turn_saved" ->
                    [next EXCEPT !.started =
                        IF Contains(@, event.turn) THEN @ ELSE Append(@, event.turn)]
               [] event.type = "activity_saved" ->
                    [next EXCEPT !.activities = @ \cup {[id |-> event.id, seq |-> seq]}]
               [] event.type = "message_saved" ->
                    [next EXCEPT !.messages =
                        ReplaceById(@, [event.row EXCEPT !.seq = seq])]
               [] event.type = "message_text_appended" ->
                    [next EXCEPT !.messages =
                        [i \in DOMAIN @ |-> IF @[i].id # event.id THEN @[i]
                            ELSE [@[i] EXCEPT !.len = event.offset + event.n,
                                              !.seq = seq]]]

Replay(log) == FoldLeft(ApplyEvent, EmptyProjection, log)

Numbered(events, after) ==
    [i \in DOMAIN events |-> [sequence |-> after + i, event |-> events[i]]]

\* A fork of two hosts that numbered their records from the same place.
IsCompleteFork(log) ==
    LET sequences == {log[i].sequence : i \in DOMAIN log}
    IN  \E m \in 1..(Len(log) - 1) : sequences = 1..m

Renumbered(log) == Numbered([i \in DOMAIN log |-> log[i].event], 0)

\* #readProjection: the history as the next start will use it.
Repaired(log) == IF IsCompleteFork(log) THEN Renumbered(log) ELSE log

TokensOf(rows, t) ==
    LET mine == {i \in DOMAIN rows : rows[i].turn = t /\ rows[i].role = "assistant"}
    IN  FoldSet(LAMBDA i, sum : rows[i].len + sum, 0, mine)

-----------------------------------------------------------------------------
(* The order of a rewrite and the merging of assistant rows                *)

\* compareRewriteTranscriptOrder: by journal sequence, by age where one of the
\* two has no sequence yet.
After(x, y) == IF x.seq > 0 /\ y.seq > 0 THEN x.seq > y.seq ELSE x.id > y.id

OrderedForRewrite(rows) ==
    \A i \in DOMAIN rows \ {1} : ~After(rows[i - 1], rows[i])

\* compareTranscriptOrder, where an unjournaled row comes last.
ActivityPrecedes(a, row) == row.seq = 0 \/ a.seq < row.seq

\* An activity that the merge meets between row i - 1 and row i.
Separated(p, i) ==
    \E a \in p.activities :
        /\ ActivityPrecedes(a, p.messages[i])
        /\ \A j \in 1..(i - 1) : ~ActivityPrecedes(a, p.messages[j])

Joins(p, i) ==
    /\ i > 1
    /\ p.messages[i].role = "assistant" /\ p.messages[i - 1].role = "assistant"
    /\ p.messages[i].turn = p.messages[i - 1].turn
    /\ ~Separated(p, i)

\* coalesceConsecutiveAssistantMessages
Coalesced(p) ==
    FoldLeftDomain(
        LAMBDA rows, i :
            IF Joins(p, i)
            THEN [rows EXCEPT ![Len(rows)].len = @ + p.messages[i].len,
                              ![Len(rows)].seq = IF @ = 0 THEN p.messages[i].seq ELSE @]
            ELSE Append(rows, p.messages[i]),
        <<>>, p.messages)

\* The events of a rewritten history: turns, then rows and activities merged.
RewriteEvents(p) ==
    LET rows == Coalesced(p)
        ActivitiesBefore(i) ==
            {a \in p.activities : \E j \in 1..i : After(rows[j], a)}
        InOrder(as) == SetToSortSeq(as, LAMBDA a, b : a.seq < b.seq)
        Saved(as) == [k \in 1..Cardinality(as) |->
                         [type |-> "activity_saved", id |-> InOrder(as)[k].id]]
        merged == FoldLeftDomain(
            LAMBDA acc, i :
                acc \o Saved(ActivitiesBefore(i) \ ActivitiesBefore(i - 1))
                    \o <<[type |-> "message_saved", row |-> rows[i]]>>,
            <<>>, rows)
    IN  [k \in DOMAIN p.started |-> [type |-> "turn_saved", turn |-> p.started[k]]]
        \o merged \o Saved(p.activities \ ActivitiesBefore(Len(rows)))

-----------------------------------------------------------------------------
(* The write queue                                                         *)

Idle == [stage |-> "idle"]
NoSegment == [id |-> 0]
IsOpen(t) == open[t] # NoSegment

\* An operation; when it succeeds its caller enqueues the operations in `then`.
Op(kind, t, by, then) == [kind |-> kind, turn |-> t, by |-> by, then |-> then]

QueuedBy(actor) == \E i \in DOMAIN queue : queue[i].by = actor

\* A segment of one host and an activity of the other, both number 3.
Forked(t) ==
    LET row(id, role, len) == [id |-> id, turn |-> t, role |-> role, len |-> len, seq |-> 0]
        saved == <<[type |-> "turn_saved", turn |-> t],
                   [type |-> "message_saved", row |-> row(1, "user", 0)],
                   [type |-> "message_saved", row |-> row(2, "assistant", 1)],
                   [type |-> "activity_saved", id |-> 3]>>
    IN  [i \in 1..4 |-> [sequence |-> IF i = 4 THEN 3 ELSE i, event |-> saved[i]]]

Init ==
    /\ \/ /\ journal = <<>>
          /\ received = [t \in Turns |-> 0]
       \/ /\ "fork" \in Faults
          /\ \E t \in Turns :
                /\ journal = Forked(t)
                /\ received = [u \in Turns |-> IF u = t THEN 1 ELSE 0]
    /\ acked = received
    /\ cut = {} /\ split = FALSE
    /\ torn = FALSE
    /\ mem = EmptyProjection
    /\ open = [t \in Turns |-> NoSegment]
    /\ queue = <<>> /\ writing = Idle /\ failed = FALSE
    /\ up = FALSE /\ ended = {}
    /\ nextId = Len(journal) + 1
    /\ spent = [boundaries |-> 0, rewrites |-> 0, crashes |-> 0]

\* The event loop of a turn awaits each of its own writes.
Started == ToSet(mem.started)
Listening(t) == up /\ t \in Started \ ended /\ ~QueuedBy(t)

\* startTurn, for a conversation that may start one; its thread record is left out.
StartTurn(t) ==
    /\ up /\ t \notin Started \cup ended /\ ~QueuedBy(t)
    /\ queue' = Append(queue, Op("start", t, t, <<>>))
    /\ UNCHANGED <<diskVars, mem, open, writing, failed, up, ended, nextId,
                   historyVars, spent>>

\* #appendOpenAssistantText: the row in the projection is the live object,
\* unless a rewrite has replaced it with a copy.
Streamed(t) ==
    IF IsOpen(t)
    THEN [open[t] EXCEPT !.len = @ + 1]
    ELSE [id |-> nextId, len |-> 1, durable |-> 0, live |-> TRUE]

PublishToken(t, segment) ==
    LET row == [id |-> segment.id, turn |-> t, role |-> "assistant",
                len |-> segment.len, seq |-> 0]
        rows == mem.messages
    IN  mem' = [mem EXCEPT !.messages =
                    IF ~IsOpen(t) THEN Append(rows, row)
                    ELSE IF ~segment.live THEN rows
                    ELSE [i \in DOMAIN rows |-> IF rows[i].id = segment.id
                              THEN [rows[i] EXCEPT !.len = segment.len] ELSE rows[i]]]

\* #bufferAssistantText
Token(t) ==
    /\ Listening(t) /\ ~failed
    /\ MapThenSumSet(LAMBDA u : received[u], Turns) < MaxTokens
    /\ LET segment == Streamed(t)
       IN  /\ open' = [open EXCEPT ![t] = segment]
           /\ PublishToken(t, segment)
           /\ queue' = IF segment.len - segment.durable < CheckpointLen THEN queue
                       ELSE Append(queue, Op("checkpoint", t, t, <<>>))
    /\ nextId' = IF IsOpen(t) THEN nextId ELSE nextId + 1
    /\ received' = [received EXCEPT ![t] = @ + 1]
    /\ UNCHANGED <<diskVars, writing, failed, up, ended, acked, cut, split, spent>>

\* A token after a failed write: the loop cancels the run.
TokenRefused(t) ==
    /\ Listening(t) /\ failed
    /\ ended' = ended \cup {t}
    /\ UNCHANGED <<diskVars, mem, open, queue, writing, failed, up, nextId,
                   historyVars, spent>>

\* recordProviderEvent of a tool: flush the open segment, append the activity.
Boundary(t) ==
    /\ Listening(t)
    /\ spent.boundaries < MaxBoundaries
    /\ spent' = [spent EXCEPT !.boundaries = @ + 1]
    /\ queue' = Append(queue, Op("flush", t, t, <<Op("activity", t, t, <<>>)>>))
    /\ UNCHANGED <<diskVars, mem, open, writing, failed, up, ended, nextId, historyVars>>

\* An approval or input is settled outside the event loop: its flush does not
\* hold the stream back.
ControlFlush(t) ==
    /\ "control" \in Others
    /\ up /\ t \in Started /\ ~QueuedBy("control")
    /\ spent.boundaries < MaxBoundaries
    /\ spent' = [spent EXCEPT !.boundaries = @ + 1]
    /\ queue' = Append(queue, Op("flush", t, "control", <<>>))
    /\ UNCHANGED <<diskVars, mem, open, writing, failed, up, ended, nextId, historyVars>>

Streaming == {t \in Turns : IsOpen(t)}

\* #compact: flush every open segment, one after the other, then rewrite.
RequestRewrite ==
    /\ up /\ ~QueuedBy("rewriter")
    /\ spent.rewrites < MaxRewrites
    /\ spent' = [spent EXCEPT !.rewrites = @ + 1]
    /\ LET streaming == SetToSortSeq(Streaming, LAMBDA t, u : open[t].id < open[u].id)
           chain == [k \in DOMAIN streaming |-> Op("flush", streaming[k], "rewriter", <<>>)]
                    \o <<Op("rewrite", "none", "rewriter", <<>>)>>
       IN  queue' = Append(queue, [Head(chain) EXCEPT !.then = Tail(chain)])
    /\ UNCHANGED <<diskVars, mem, open, writing, failed, up, ended, nextId, historyVars>>

-----------------------------------------------------------------------------
(* The head of the queue                                                   *)

Settled == Tail(queue)
Resumed(op) == IF op.then = <<>> THEN <<>>
               ELSE <<[Head(op.then) EXCEPT !.then = Tail(op.then)]>>

Resolve(op) == queue' = Settled \o Resumed(op) /\ UNCHANGED ended
Reject(op) == /\ queue' = Settled
              /\ ended' = IF op.by \in Turns THEN ended \cup {op.by} ELSE ended

SegmentLine_whole(t) ==
    IF open[t].durable = 0
    THEN [type |-> "message_saved",
          row |-> [id |-> open[t].id, turn |-> t, role |-> "assistant",
                   len |-> open[t].len, seq |-> 0]]
    ELSE [type |-> "message_text_appended", id |-> open[t].id,
          offset |-> open[t].durable, n |-> open[t].len]
SegmentLine(t) ==
    IF open[t].durable = 0
    THEN [type |-> "message_saved",
          row |-> [id |-> open[t].id, turn |-> t, role |-> "assistant",
                   len |-> open[t].len, seq |-> 0]]
    ELSE [type |-> "message_text_appended", id |-> open[t].id,
          offset |-> open[t].durable, n |-> open[t].len - open[t].durable]

\* #flushAssistantText writes whatever is new, #checkpointAssistantText enough of it.
Unwritten(t) == IF IsOpen(t) THEN open[t].len - open[t].durable ELSE 0
WorthALine(op) ==
    Unwritten(op.turn) >= IF op.kind = "checkpoint" THEN CheckpointLen ELSE 1

\* What an append writes, computed when its turn in the queue comes.
LinesOf(op) ==
    CASE op.kind = "start" ->
            <<[type |-> "turn_saved", turn |-> op.turn],
              [type |-> "message_saved",
               row |-> [id |-> nextId, turn |-> op.turn, role |-> "user",
                        len |-> 0, seq |-> 0]]>>
      [] op.kind = "activity" -> <<[type |-> "activity_saved", id |-> nextId]>>
      [] op.kind \in {"flush", "checkpoint"} ->
            IF WorthALine(op) THEN <<SegmentLine(op.turn)>> ELSE <<>>

\* A flush closes the segment; a checkpoint counts what is there by now.
CloseOrCount(op) ==
    open' = IF ~IsOpen(op.turn) THEN open
            ELSE CASE op.kind = "flush" -> [open EXCEPT ![op.turn] = NoSegment]
                   [] op.kind = "checkpoint" ->
                        [open EXCEPT ![op.turn].durable = open[op.turn].len]
                   [] OTHER -> open

\* The event loop goes on after a boundary: what it streamed so far is safe.
Acknowledge(op, tokens) ==
    acked' = IF op.kind = "flush" /\ op.by = op.turn
             THEN [acked EXCEPT ![op.turn] = tokens] ELSE acked

\* Does a write start after an earlier one failed half way?
Blocked_never == FALSE
Blocked == failed

RefuseAfterFailure ==
    /\ up /\ queue # <<>> /\ writing = Idle /\ Blocked
    /\ Reject(Head(queue))
    /\ UNCHANGED <<diskVars, mem, open, writing, failed, up, nextId, historyVars, spent>>

NothingToWrite ==
    /\ up /\ queue # <<>> /\ writing = Idle /\ ~Blocked
    /\ LET op == Head(queue)
       IN  /\ op.kind \in {"flush", "checkpoint"} /\ LinesOf(op) = <<>>
           /\ open' = IF op.kind = "flush"
                      THEN [open EXCEPT ![op.turn] = NoSegment] ELSE open
           /\ Acknowledge(op, received[op.turn])
           /\ Resolve(op)
    /\ UNCHANGED <<diskVars, mem, writing, failed, up, nextId, received, cut, split, spent>>

\* The envelopes are numbered from the projection and serialized.
BeginAppend ==
    /\ up /\ queue # <<>> /\ writing = Idle /\ ~Blocked
    /\ LET op == Head(queue)
       IN  /\ op.kind # "rewrite" /\ LinesOf(op) # <<>>
           /\ writing' = [stage |-> "append", done |-> 0, base |-> Len(journal),
                          lines |-> Numbered(LinesOf(op), mem.sequence),
                          covers |-> IF op.kind = "start" THEN 0 ELSE received[op.turn]]
           /\ nextId' = IF op.kind \in {"start", "activity"} THEN nextId + 1 ELSE nextId
    /\ UNCHANGED <<diskVars, mem, open, queue, failed, up, ended, historyVars, spent>>

WriteLine ==
    /\ up /\ writing.stage = "append" /\ writing.done < Len(writing.lines)
    /\ journal' = Append(journal, writing.lines[writing.done + 1])
    /\ writing' = [writing EXCEPT !.done = @ + 1]
    /\ UNCHANGED <<torn, mem, open, queue, failed, up, ended, nextId, historyVars, spent>>

\* open(), write or sync fails.  Once a write may have begun nothing is known
\* about the file any more: #writeFailure stops every later write.
AppendFails ==
    /\ "write" \in Faults
    /\ up /\ writing.stage = "append"
    /\ \/ /\ writing.done = 0
          /\ UNCHANGED <<torn, failed>>
       \/ /\ failed' = TRUE
          /\ torn' \in (IF writing.done < Len(writing.lines) THEN BOOLEAN ELSE {FALSE})
    /\ Reject(Head(queue))
    /\ writing' = Idle
    /\ UNCHANGED <<journal, mem, open, up, nextId, historyVars, spent>>

\* The projection after an append: applyEvent for each line, except that the
\* live object of a segment only gets its new sequence.
Applied(op, lines) ==
    IF op.kind \notin {"flush", "checkpoint"} THEN FoldLeft(ApplyEvent, mem, lines)
    ELSE [mem EXCEPT !.sequence = lines[1].sequence,
                     !.messages = [i \in DOMAIN @ |->
                         IF open[op.turn].live /\ @[i].id = open[op.turn].id
                         THEN [@[i] EXCEPT !.seq = lines[1].sequence] ELSE @[i]]]

\* sync returned: apply and acknowledge.
Sync ==
    /\ up /\ writing.stage = "append" /\ writing.done = Len(writing.lines)
    /\ LET op == Head(queue)
       IN  /\ mem' = Applied(op, writing.lines)
           /\ CloseOrCount(op)
           /\ Acknowledge(op, writing.covers)
           /\ cut' = IF op.kind = "flush" /\ received[op.turn] # writing.covers
                     THEN cut \cup {op.turn} ELSE cut
           /\ Resolve(op)
    /\ writing' = Idle
    /\ UNCHANGED <<diskVars, failed, up, nextId, received, split, spent>>

-----------------------------------------------------------------------------
(* Rewriting the history                                                   *)

RewriteRefused ==
    /\ up /\ queue # <<>> /\ writing = Idle /\ ~Blocked
    /\ Head(queue).kind = "rewrite"
    /\ ~OrderedForRewrite(Coalesced(mem))
    /\ Reject(Head(queue))
    /\ UNCHANGED <<diskVars, mem, open, writing, failed, up, nextId, historyVars, spent>>

BeginRewrite ==
    /\ up /\ queue # <<>> /\ writing = Idle /\ ~Blocked
    /\ Head(queue).kind = "rewrite"
    /\ OrderedForRewrite(Coalesced(mem))
    /\ writing' = [stage |-> "rewrite", old |-> journal,
                   lines |-> Numbered(RewriteEvents(mem), 0)]
    /\ UNCHANGED <<diskVars, mem, open, queue, failed, up, ended, nextId,
                   historyVars, spent>>

\* The temporary file cannot be written or renamed: the history is untouched.
RewriteFails ==
    /\ "write" \in Faults
    /\ up /\ writing.stage = "rewrite"
    /\ Reject(Head(queue))
    /\ writing' = Idle
    /\ UNCHANGED <<diskVars, mem, open, failed, up, nextId, historyVars, spent>>

ReplaceHistory ==
    /\ up /\ writing.stage = "rewrite"
    /\ journal' = writing.lines
    /\ writing' = [writing EXCEPT !.stage = "dirsync"]
    /\ cut' = cut \cup Streaming
    /\ UNCHANGED <<torn, mem, open, queue, failed, up, ended, nextId, received, acked, split, spent>>

\* The directory cannot be opened or synced after the rename: the operation is
\* rejected, with the new history on disk and the old projection in memory.
DirSyncFails ==
    /\ "dirsync" \in Faults
    /\ up /\ writing.stage = "dirsync"
    /\ Reject(Head(queue))
    /\ writing' = Idle
    /\ split' = TRUE
    /\ UNCHANGED <<diskVars, mem, open, failed, up, nextId, received, acked, cut, spent>>

Rebuilt_keepsSequence == [Replay(writing.lines) EXCEPT !.sequence = mem.sequence]
Rebuilt == Replay(writing.lines)

\* The projection is swapped for the rebuilt one, whose rows are copies.
DirSync ==
    /\ up /\ writing.stage = "dirsync"
    /\ mem' = Rebuilt
    /\ open' = [t \in Turns |-> IF IsOpen(t) THEN [open[t] EXCEPT !.live = FALSE]
                                ELSE NoSegment]
    /\ Resolve(Head(queue))
    /\ writing' = Idle
    /\ cut' = cut \cup Streaming
    /\ UNCHANGED <<diskVars, failed, up, nextId, received, acked, split, spent>>

-----------------------------------------------------------------------------
(* Crash and restart                                                       *)

\* What has not been synced may be lost, in whole lines or in the middle.
Crash ==
    /\ up /\ spent.crashes < MaxCrashes
    /\ spent' = [spent EXCEPT !.crashes = @ + 1]
    /\ CASE writing.stage = "append" ->
              /\ \E k \in writing.base..Len(journal) :
                    journal' = SubSeq(journal, 1, k)
              /\ torn' \in BOOLEAN
         [] writing.stage = "dirsync" ->
              /\ journal' \in {journal, writing.old}
              /\ UNCHANGED torn
         [] OTHER -> UNCHANGED diskVars
    /\ up' = FALSE
    /\ queue' = <<>> /\ writing' = Idle /\ failed' = FALSE
    /\ open' = [t \in Turns |-> NoSegment]
    /\ UNCHANGED <<mem, ended, nextId, historyVars>>

\* #initializeProjection; a torn or unordered history keeps the host down.
Restart ==
    /\ ~up /\ ~torn
    /\ journal' = Repaired(journal)
    /\ LET replayed == Replay(journal')
       IN  /\ replayed.readable
           /\ mem' = replayed
           /\ ended' = ended \cup ToSet(replayed.started)
           /\ received' = [t \in Turns |-> TokensOf(replayed.messages, t)]
    /\ up' = TRUE
    /\ UNCHANGED <<torn, open, queue, writing, failed, nextId, acked, cut, split, spent>>

Next ==
    \/ \E t \in Turns : StartTurn(t) \/ Token(t) \/ TokenRefused(t)
                        \/ Boundary(t) \/ ControlFlush(t)
    \/ RequestRewrite
    \/ RefuseAfterFailure \/ NothingToWrite
    \/ BeginAppend \/ WriteLine \/ AppendFails \/ Sync
    \/ RewriteRefused \/ BeginRewrite \/ RewriteFails \/ ReplaceHistory
    \/ DirSyncFails \/ DirSync
    \/ Crash \/ Restart

Spec == Init /\ [][Next]_vars

-----------------------------------------------------------------------------
(* Properties                                                              *)

Row == [id : Nat, turn : Turns, role : {"user", "assistant"}, len : Nat, seq : Nat]

\* The journal, the projection, the open segments and the write in progress are
\* well typed.
TypeOK ==
    /\ torn \in BOOLEAN /\ failed \in BOOLEAN /\ up \in BOOLEAN
    /\ \A i \in DOMAIN journal : journal[i].sequence \in Nat
    /\ mem.sequence \in Nat /\ mem.started \in Seq(Turns)
    /\ \A i \in DOMAIN mem.messages : mem.messages[i] \in Row
    /\ \A t \in Turns : IsOpen(t) =>
          open[t].durable \in 0..open[t].len /\ open[t].live \in BOOLEAN
    /\ writing.stage \in {"idle", "append", "rewrite", "dirsync"}
    /\ received \in [Turns -> Nat] /\ acked \in [Turns -> Nat]
    /\ cut \subseteq Turns /\ split \in BOOLEAN

\* No interleaving of appends, failures, rewrites and crashes leaves a history
\* that the next start would refuse as unordered or inconsistent.
HistoryReplays == Replay(Repaired(journal)).readable

\* The same while no open segment was cut: streams may go on while the history is
\* rewritten, as long as none is in the middle of a segment at the rename or at
\* the exchange of the projection; and while the numbers in memory are those of
\* the file.
Uncut == cut = {}
Whole == Uncut /\ ~split
UncutHistoryReplays == Whole => HistoryReplays

\* Renumbering "in physical append order without discarding" (local-data.md:46)
\* is enough to get everything back: whatever fails after a rename or forks the
\* numbering, the records still make sense one after the other.
AckedIsRecoverable ==
    Uncut =>
        LET recovered == Replay(Renumbered(journal))
        IN  /\ recovered.readable
            /\ \A t \in Turns : acked[t] <= TokensOf(recovered.messages, t)

\* Exactly once: what was acknowledged is in the history, and the history holds
\* no token twice and none that was not sent.
TokensExactlyOnce ==
    \A t \in Turns :
        LET durable == TokensOf(Replay(Repaired(journal)).messages, t)
        IN  acked[t] <= durable /\ durable <= received[t]

\* While no open segment was cut, no token is lost, repeated or invented by the
\* repair of the next start; and where a directory sync failed on the way, a
\* renumbering of what is in the file brings back all that was acknowledged.
TokensSurvive == TypeOK /\ (Whole => TokensExactlyOnce) /\ AckedIsRecoverable

\* "The open segment is the live inspect-visible record; later tokens mutate it
\* in place" (docs/local-data.md:100-102): readers see every token a turn sent.
TokensAreVisible ==
    up => \A t \in Turns : TokensOf(mem.messages, t) = received[t]

\* A row and its record, up to the tokens of a segment still open.
Matches(t, row, saved) ==
    /\ saved.turn = row.turn /\ saved.role = row.role
    /\ IF IsOpen(t) /\ open[t].id = row.id THEN saved.len = open[t].durable
       ELSE saved.len = row.len /\ saved.seq = row.seq

\* Between writes the projection is what the history says: the same rows in the
\* same order, up to the tokens of the segments still open.
MemoryIsHistory ==
    up /\ ~failed /\ writing = Idle =>
        LET saved == Replay(journal)
            Saved(id) == {i \in DOMAIN saved.messages : saved.messages[i].id = id}
        IN  /\ saved.sequence = mem.sequence
            /\ saved.started = mem.started /\ saved.activities = mem.activities
            /\ \A i \in DOMAIN mem.messages :
                  LET row == mem.messages[i]
                  IN  \/ IsOpen(row.turn) /\ open[row.turn].id = row.id
                         /\ open[row.turn].durable = 0 /\ Saved(row.id) = {}
                      \/ \E k \in Saved(row.id) :
                            Matches(row.turn, row, saved.messages[k])

\* While no open segment was cut, readers are shown what was sent, and between
\* writes what is durable.
ReadersAgreeWithHistory == Whole => TokensAreVisible /\ MemoryIsHistory

\* "so each collection retains its event/timestamp order" (state.ts:1310): the
\* transcript is always in the order a rewrite insists on.
TranscriptIsOrdered ==
    up /\ writing = Idle /\ (\A t \in Turns : ~IsOpen(t)) =>
        OrderedForRewrite(mem.messages)
=============================================================================
