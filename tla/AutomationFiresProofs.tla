------------------------ MODULE AutomationFiresProofs ------------------------
(***************************************************************************)
(* Fires are exact, for all the automations the scheduler takes, and any   *)
(* number of conversations, requests and crashes and any length of time.   *)
(*                                                                         *)
(* IInv follows a key from the tick or request that names it, through the  *)
(* tail of its conversation, to the one execution that may start a turn    *)
(* for it.  What survives a crash is the fire record; the rest is memory,  *)
(* so the record alone must tell whether a turn may still be started.  For *)
(* the spacing of an interval automation IInv relates the three times that *)
(* are kept of it: lastRunAt, the slot in the key, and the moment of the   *)
(* tick, of which only the first is durable and is written last.           *)
(***************************************************************************)
EXTENDS AutomationFires, FiniteSetTheorems, SequenceTheorems, TLAPS

Active == {"claim", "start", "bind", "running", "finish", "save"}
Queued == {"lookup"} \cup Active
Pcs == {"idle", "due", "done"} \cup Queued
Moments == 0..MaxTime

Fire == [status : {"started", "completed", "failed", "skipped_busy", "unknown"},
         turn : {"none", "open", "unproven"} \cup Ends]
Execution == [pc : Pcs, key : Keys \cup {NoKey}, at : Moments, outcome : {"none"} \cup Refusals]
Ticks == [pc : {"idle", "evaluate", "executing"}, todo : SUBSET Automations, at : Moments,
          seen : [Automations -> {Never} \cup Moments], claimed : SUBSET Threads]

Typed ==
    /\ clock \in Moments /\ crashes \in 0..MaxCrashes /\ up \in BOOLEAN
    /\ last \in [Automations -> {Never} \cup Moments]
    /\ DOMAIN fires \subseteq Keys /\ fires \in [DOMAIN fires -> Fire]
    /\ latest \in [Automations -> Keys \cup {NoKey}]
    /\ \A a \in Automations : latest[a] \in {NoKey} \cup {k \in DOMAIN fires : AutoOf(k) = a}
    /\ tick \in Ticks
    /\ handler \in [Handlers -> Execution]
    /\ tail \in [Threads -> Seq(Handlers)]
    /\ userRun \in [Threads -> {"none", "turn", "waiting"}]
    /\ started \in [Keys -> Seq(Moments)]

\* Execution h, of a tick or of a request, has a key of its kind.
Named(h) ==
    handler[h].pc \notin {"idle", "done"} =>
        /\ handler[h].key \in Keys
        /\ h[1] = "tick" => AutoOf(handler[h].key) = h[2] /\ KindOf(handler[h].key) = "scheduled"
        /\ h[1] = "request" => KindOf(handler[h].key) = "manual"

ConvOf(x) == Target[AutoOf(x.key)]

\* The tail q of conversation t, for the executions hs: each waits in it once,
\* and only the first has gone on.
Waiting(t, q, hs) ==
    /\ \A i \in DOMAIN q : ConvOf(hs[q[i]]) = t /\ hs[q[i]].pc \in Queued
    /\ \A i, j \in DOMAIN q : q[i] = q[j] => i = j
    /\ \A h \in Handlers : hs[h].pc \in Queued /\ ConvOf(hs[h]) = t =>
          /\ \E i \in DOMAIN q : q[i] = h
          /\ hs[h].pc \in Active => q[1] = h

\* The tick: what is still to evaluate has no execution, and no conversation
\* is claimed twice.
Ticking ==
    /\ tick.at <= clock
    /\ \A a \in Automations :
          /\ tick.pc = "idle" => handler[<<"tick", a>>].pc = "idle"
          /\ tick.pc = "evaluate" => handler[<<"tick", a>>].pc \in {"idle", "due"}
          /\ tick.pc = "evaluate" /\ a \in tick.todo => handler[<<"tick", a>>].pc = "idle"
          /\ tick.pc = "executing" => handler[<<"tick", a>>].pc # "due"
    /\ \A h \in Handlers : handler[h].pc = "due" => h[1] = "tick" /\ ThreadOf(h) \in tick.claimed
    /\ \A g, h \in Handlers :
          handler[g].pc = "due" /\ handler[h].pc = "due" /\ ThreadOf(g) = ThreadOf(h) => g = h

\* Key k: at most one turn, and its record shows whether there was one.
Fired(k) ==
    /\ Len(started[k]) <= 1
    /\ started[k] # <<>> => Known(k)
    /\ Known(k) =>
          /\ fires[k].status = "skipped_busy" => started[k] = <<>>
          /\ fires[k].status = "completed" => fires[k].turn = "completed"
          /\ fires[k].status = "failed" => fires[k].turn = "failed" \/ started[k] = <<>>

\* Execution h: what the record of its key says while it goes on.
Executed(h) ==
    LET k == handler[h].key IN
    /\ handler[h].pc \in {"start", "bind", "running", "finish"} => Known(k) /\ fires[k].status = "started"
    /\ handler[h].pc = "save" => Known(k)
    /\ handler[h].pc = "start" => started[k] = <<>>
    /\ handler[h].pc \in {"due", "lookup", "claim", "start", "bind", "running"} => handler[h].outcome = "none"
    /\ handler[h].pc = "finish" /\ handler[h].outcome # "none" => started[k] = <<>>

OnlyScheduled(a) == \A k \in DOMAIN fires : AutoOf(k) = a => KindOf(k) = "scheduled"

KeysOf(a) == {k \in Keys : AutoOf(k) = a}

\* A turn of automation a started at moment m for slot s.
Dated(a, s, m) ==
    /\ s <= m /\ m <= clock /\ last[a] # Never
    /\ last[a] >= m \/ last[a] + Period = s
    /\ tick.pc = "evaluate" /\ a \in tick.todo => m <= tick.at
    /\ handler[<<"tick", a>>].pc # "idle" => m <= handler[<<"tick", a>>].at

\* What is about to fire is the slot that follows lastRunAt, and is due.
NextSlot(a) ==
    /\ tick.pc = "evaluate" /\ a \in tick.todo =>
          /\ tick.seen[a] = last[a]
          /\ last[a] # Never => tick.at >= last[a] + Period
    /\ handler[<<"tick", a>>].pc # "idle" =>
          LET h == handler[<<"tick", a>>] IN
          /\ last[a] # Never /\ h.key = ScheduledKey(a, last[a] + Period)
          /\ h.at >= last[a] + Period /\ h.at <= clock

Spaced(a) ==
    /\ \A k, l \in KeysOf(a) :
          k[3] < l[3] => \A m \in DOMAIN started[k], n \in DOMAIN started[l] :
                            started[k][m] + Period <= started[l][n]
    /\ \A k \in KeysOf(a) : \A m \in DOMAIN started[k] : Dated(a, k[3], started[k][m])
    /\ NextSlot(a)

IInv ==
    /\ Typed
    /\ \A h \in Handlers : Named(h)
    /\ \A t \in Threads : Waiting(t, tail[t], handler)
    /\ Ticking
    /\ ~up => \A h \in Handlers : handler[h].pc \in {"idle", "done"}
    /\ \A k \in Keys : Fired(k)
    /\ \A h \in Handlers : Executed(h)
    /\ \A a \in Automations \ Cron : OnlyScheduled(a) => Spaced(a)

-----------------------------------------------------------------------------
(* Names                                                                   *)

\* An execution belongs to the tick, for one automation, or to a request.
LEMMA HandlerForms ==
    /\ \A a \in Automations : <<"tick", a>> \in Handlers
    /\ \A r \in 1..MaxRequests : <<"request", r>> \in Handlers
    /\ \A h \in Handlers : \/ h[1] = "tick" /\ h[2] \in Automations /\ h = <<"tick", h[2]>>
                           \/ h[1] = "request" /\ h[2] \in 1..MaxRequests /\ h = <<"request", h[2]>>
BY DEF Handlers

\* A key tells its automation, its kind and its slot.
LEMMA KeyForms ==
    /\ \A a \in Automations, s \in 0..(MaxTime + Period) :
          /\ ScheduledKey(a, s) \in Keys /\ AutoOf(ScheduledKey(a, s)) = a
          /\ KindOf(ScheduledKey(a, s)) = "scheduled" /\ ScheduledKey(a, s)[3] = s
    /\ \A a \in Automations, n \in 1..MaxRequests :
          /\ ManualKey(a, n) \in Keys /\ AutoOf(ManualKey(a, n)) = a /\ KindOf(ManualKey(a, n)) = "manual"
    /\ \A k \in Keys : AutoOf(k) \in Automations /\ k[3] \in Nat /\ KindOf(k) \in {"scheduled", "manual"}
    /\ \A k \in Keys : KindOf(k) = "scheduled" => k = ScheduledKey(AutoOf(k), k[3])
    /\ NoKey \notin Keys /\ AutoOf(NoKey) = 1 /\ 1 \in Automations
<1>1. ASSUME NEW a \in Automations, NEW s \in 0..(MaxTime + Period)
      PROVE  /\ ScheduledKey(a, s) \in Keys /\ AutoOf(ScheduledKey(a, s)) = a
             /\ KindOf(ScheduledKey(a, s)) = "scheduled" /\ ScheduledKey(a, s)[3] = s
  BY DEF Keys, ScheduledKey, AutoOf, KindOf
<1>2. ASSUME NEW a \in Automations, NEW n \in 1..MaxRequests
      PROVE  /\ ManualKey(a, n) \in Keys /\ AutoOf(ManualKey(a, n)) = a /\ KindOf(ManualKey(a, n)) = "manual"
  BY DEF Keys, ManualKey, AutoOf, KindOf
<1>3. ASSUME NEW k \in Keys
      PROVE  /\ AutoOf(k) \in Automations /\ k[3] \in Nat /\ KindOf(k) \in {"scheduled", "manual"}
             /\ KindOf(k) = "scheduled" => k = ScheduledKey(AutoOf(k), k[3])
  <2>1. CASE \E a \in Automations, s \in 0..(MaxTime + Period) : k = ScheduledKey(a, s)
    BY <2>1, BoundsAreNat DEF ScheduledKey, AutoOf, KindOf
  <2>2. CASE \E a \in Automations, n \in 1..MaxRequests : k = ManualKey(a, n)
    BY <2>2, BoundsAreNat DEF ManualKey, AutoOf, KindOf
  <2>3. QED
    BY <2>1, <2>2 DEF Keys
<1>4. KindOf(NoKey) = "none" /\ AutoOf(NoKey) = 1
  BY DEF KindOf, AutoOf, NoKey
<1>5. NoKey \notin Keys
  BY <1>3, <1>4
<1>6. 1 \in Automations
  BY BoundsAreNat DEF Automations
<1>7. QED
  BY <1>1, <1>2, <1>3, <1>4, <1>5, <1>6

\* Every execution is for a conversation that exists.
LEMMA ThreadOfHandler ==
    ASSUME Typed
    PROVE  \A h \in Handlers : AutoOf(handler[h].key) \in Automations /\ ThreadOf(h) \in Threads
<1>1. ASSUME NEW h \in Handlers PROVE AutoOf(handler[h].key) \in Automations
  <2>1. handler[h].key \in Keys \cup {NoKey}
    BY DEF Typed, Execution
  <2>2. QED
    BY <2>1, KeyForms
<1>2. QED
  BY <1>1, TargetsExist DEF ThreadOf

\* The empty execution, and one that is done, are executions.
LEMMA EmptyExecution ==
    /\ NoHandler \in Execution /\ NoHandler.pc = "idle"
    /\ [NoHandler EXCEPT !.pc = "done"] \in Execution
    /\ [NoHandler EXCEPT !.pc = "done"].pc = "done"
    /\ NoTick \in Ticks /\ NoTick.pc = "idle" /\ NoTick.at = 0
<1>1. NoHandler \in Execution /\ [NoHandler EXCEPT !.pc = "done"] \in Execution
  BY BoundsAreNat DEF NoHandler, Execution, Pcs, Moments
<1>2. NoTick \in Ticks
  BY BoundsAreNat DEF NoTick, Ticks, Moments
<1>3. QED
  BY <1>1, <1>2 DEF NoHandler, NoTick

-----------------------------------------------------------------------------
(* The tails                                                               *)

\* Who goes on is the first of its tail, and alone in its conversation.
LEMMA AloneAtHead ==
    ASSUME IInv, NEW h \in Handlers, handler[h].pc \in Queued, Head(tail[ThreadOf(h)]) = h
    PROVE  /\ ThreadOf(h) \in Threads /\ up
           /\ tail[ThreadOf(h)] \in Seq(Handlers) /\ tail[ThreadOf(h)] # <<>> /\ tail[ThreadOf(h)][1] = h
           /\ \A g \in Handlers \ {h} : handler[g].pc \in Active =>
                 ThreadOf(g) # ThreadOf(h) /\ handler[g].key # handler[h].key
<1> DEFINE t == ThreadOf(h)
<1>1. t \in Threads /\ tail[t] \in Seq(Handlers)
  BY ThreadOfHandler DEF IInv, Typed
<1>2. up
  BY DEF IInv, Queued, Active
<1>3. PICK i \in DOMAIN tail[t] : tail[t][i] = h
  BY <1>1 DEF IInv, Waiting, ThreadOf, ConvOf
<1>4. tail[t] # <<>>
  BY <1>1, <1>3
<1>5. Head(tail[t]) = tail[t][1]
  BY <1>1, <1>4
<1>6. tail[t][1] = h
  BY <1>5
<1>7. ASSUME NEW g \in Handlers \ {h}, handler[g].pc \in Active
      PROVE  ThreadOf(g) # t /\ handler[g].key # handler[h].key
  <2>1. ThreadOf(g) # t
    <3>1. handler[g].pc \in Queued
      BY <1>7 DEF Queued
    <3>2. ThreadOf(g) = t => tail[t][1] = g
      BY <1>1, <1>7, <3>1 DEF IInv, Waiting, ThreadOf, ConvOf
    <3>3. QED
      BY <1>6, <3>2
  <2>2. QED
    BY <2>1 DEF ThreadOf
<1>8. QED
  BY <1>1, <1>2, <1>4, <1>6, <1>7

\* It moves on in its place.
LEMMA TailKept ==
    ASSUME IInv, NEW h \in Handlers, handler[h].pc \in Queued, Head(tail[ThreadOf(h)]) = h,
           handler'[h].pc \in Active, handler'[h].key = handler[h].key,
           \A g \in Handlers \ {h} : handler'[g] = handler[g],
           UNCHANGED tail
    PROVE  \A t \in Threads : Waiting(t, tail'[t], handler')
<1> SUFFICES ASSUME NEW t \in Threads PROVE Waiting(t, tail[t], handler')
  OBVIOUS
<1>1. /\ tail[ConvOf(handler[h])][1] = h /\ tail[t] \in Seq(Handlers)
  BY AloneAtHead DEF IInv, Typed, ThreadOf, ConvOf
<1>2. \A g \in Handlers : ConvOf(handler'[g]) = ConvOf(handler[g])
  BY DEF ConvOf
<1>3. \A i \in DOMAIN tail[t] : tail[t][i] \in Handlers
  BY <1>1
<1>4. Waiting(t, tail[t], handler)
  BY DEF IInv
<1>5. \A i \in DOMAIN tail[t] : ConvOf(handler'[tail[t][i]]) = t /\ handler'[tail[t][i]].pc \in Queued
  BY <1>2, <1>3, <1>4 DEF Waiting, Queued
<1>6. ASSUME NEW g \in Handlers, handler'[g].pc \in Queued, ConvOf(handler'[g]) = t
      PROVE  /\ \E i \in DOMAIN tail[t] : tail[t][i] = g
             /\ handler'[g].pc \in Active => tail[t][1] = g
  BY <1>1, <1>2, <1>4, <1>6 DEF Waiting
<1>7. QED
  BY <1>4, <1>5, <1>6 DEF Waiting

\* It leaves, and the next one is first.
LEMMA TailShortened ==
    ASSUME IInv, NEW h \in Handlers, handler[h].pc \in Queued, Head(tail[ThreadOf(h)]) = h,
           handler'[h].pc \in {"idle", "done"},
           \A g \in Handlers \ {h} : handler'[g] = handler[g],
           tail' = [tail EXCEPT ![ThreadOf(h)] = Tail(@)]
    PROVE  /\ tail' \in [Threads -> Seq(Handlers)]
           /\ \A t \in Threads : Waiting(t, tail'[t], handler')
<1>1. PICK u \in Threads : u = ThreadOf(h)
  BY AloneAtHead
<1>2. /\ tail[u] \in Seq(Handlers) /\ tail[u] # <<>> /\ tail[u][1] = h
      /\ \A g \in Handlers \ {h} : handler[g].pc \in Active => ConvOf(handler[g]) # u
      /\ tail \in [Threads -> Seq(Handlers)] /\ ConvOf(handler[h]) = u
  BY <1>1, AloneAtHead DEF IInv, Typed, ThreadOf, ConvOf
<1>3. PICK s : s = Tail(tail[u])
  OBVIOUS
<1>4. PICK n \in Nat : n = Len(tail[u])
  BY <1>2
<1>5. n >= 1 /\ DOMAIN tail[u] = 1..n
  BY <1>2, <1>4
<1>6. s \in Seq(Handlers) /\ DOMAIN s = 1..(n - 1) /\ \A i \in 1..(n - 1) : s[i] = tail[u][i + 1]
  BY <1>2, <1>3, <1>4, <1>5, HeadTailProperties
<1>7. tail' \in [Threads -> Seq(Handlers)] /\ tail'[u] = s /\ \A t \in Threads \ {u} : tail'[t] = tail[t]
  BY <1>1, <1>2, <1>3, <1>6
<1>8. handler'[h].pc \notin Queued
  BY DEF Queued, Active
<1>9. ASSUME NEW t \in Threads PROVE Waiting(t, tail'[t], handler')
  <2>1. Waiting(t, tail[t], handler) /\ tail[t] \in Seq(Handlers)
    BY <1>2 DEF IInv
  <2>2. CASE t = u
    <3>1. \A i \in 1..(n - 1) : i + 1 \in 1..n /\ i + 1 # 1
      BY <1>5
    <3>2. \A i \in 1..(n - 1) : s[i] \in Handlers /\ s[i] # h
      <4>1. \A x, y \in 1..n : tail[u][x] = tail[u][y] => x = y
        BY <1>5, <2>1, <2>2 DEF Waiting
      <4>2. ASSUME NEW i \in 1..(n - 1), s[i] = h PROVE FALSE
        <5>1. tail[u][i + 1] = tail[u][1]
          BY <1>2, <1>6, <4>2
        <5>2. i + 1 \in 1..n /\ 1 \in 1..n /\ i + 1 # 1
          BY <1>5, <3>1
        <5>3. QED
          BY <4>1, <5>1, <5>2
      <4>3. QED
        BY <1>6, <4>2
    <3>3. \A i \in 1..(n - 1) : ConvOf(handler'[s[i]]) = t /\ handler'[s[i]].pc \in Queued
      <4> SUFFICES ASSUME NEW i \in 1..(n - 1) PROVE ConvOf(handler'[s[i]]) = t /\ handler'[s[i]].pc \in Queued
        OBVIOUS
      <4>1. s[i] = tail[u][i + 1] /\ i + 1 \in DOMAIN tail[u]
        BY <1>5, <1>6, <3>1
      <4>2. ConvOf(handler[s[i]]) = t /\ handler[s[i]].pc \in Queued
        BY <2>1, <2>2, <4>1 DEF Waiting
      <4>3. handler'[s[i]] = handler[s[i]]
        BY <3>2
      <4>4. QED
        BY <4>2, <4>3
    <3>4. \A i, j \in 1..(n - 1) : s[i] = s[j] => i = j
      <4> SUFFICES ASSUME NEW i \in 1..(n - 1), NEW j \in 1..(n - 1), s[i] = s[j] PROVE i = j
        OBVIOUS
      <4>1. tail[u][i + 1] = tail[u][j + 1]
        BY <1>6
      <4>2. i + 1 = j + 1
        BY <1>5, <2>1, <2>2, <3>1, <4>1 DEF Waiting
      <4>3. QED
        BY <4>2, <1>5
    <3>5. ASSUME NEW g \in Handlers, handler'[g].pc \in Queued, ConvOf(handler'[g]) = t
          PROVE  (\E i \in 1..(n - 1) : s[i] = g) /\ handler'[g].pc \notin Active
      <4>1. g # h
        BY <1>8, <3>5
      <4>2. ConvOf(handler[g]) = u /\ handler[g].pc \in Queued /\ handler[g].pc \notin Active
        BY <1>2, <2>2, <3>5, <4>1
      <4>3. PICK i \in 1..n : tail[u][i] = g
        BY <1>5, <2>1, <2>2, <4>2 DEF Waiting
      <4>4. i # 1
        BY <1>2, <4>1, <4>3
      <4>5. i - 1 \in 1..(n - 1) /\ (i - 1) + 1 = i
        BY <1>5, <4>4
      <4>6. s[i - 1] = g
        BY <1>6, <4>3, <4>5
      <4>7. QED
        BY <4>1, <4>2, <4>5, <4>6
    <3>6. Waiting(t, s, handler')
      BY <1>6, <3>3, <3>4, <3>5 DEF Waiting
    <3>7. QED
      BY <1>7, <2>2, <3>6
  <2>3. CASE t # u
    <3>1. tail'[t] = tail[t]
      BY <1>7, <2>3
    <3>2. \A i \in DOMAIN tail[t] : tail[t][i] \in Handlers /\ tail[t][i] # h
      BY <1>2, <2>1, <2>3 DEF Waiting
    <3>3. Waiting(t, tail[t], handler')
      BY <1>8, <2>1, <3>2 DEF Waiting
    <3>4. QED
      BY <3>1, <3>3
  <2>4. QED
    BY <2>2, <2>3
<1>10. QED
  BY <1>7, <1>9

-----------------------------------------------------------------------------
(* What a step of one execution leaves to the others                       *)

\* The names of executions, their tails and the tick.
Arranged ==
    /\ handler \in [Handlers -> Execution] /\ tail \in [Threads -> Seq(Handlers)]
    /\ \A g \in Handlers : Named(g)
    /\ \A t \in Threads : Waiting(t, tail[t], handler)
    /\ Ticking
    /\ ~up => \A g \in Handlers : handler[g].pc \in {"idle", "done"}

\* The records of keys and what the executions expect of them.
Recorded ==
    /\ \A k \in Keys : Fired(k)
    /\ \A g \in Handlers : Executed(g)

\* The spacing of the automations that only the schedule fires.
Scheduled == \A a \in Automations \ Cron : OnlyScheduled(a) => Spaced(a)

\* Only a tick that executes has an execution in a tail.
LEMMA TickExecutes ==
    ASSUME IInv, NEW h \in Handlers, handler[h].pc \in Queued, h[1] = "tick"
    PROVE  tick.pc = "executing"
<1>1. h[2] \in Automations /\ h = <<"tick", h[2]>>
  BY HandlerForms
<1>2. tick.pc \in {"idle", "evaluate", "executing"}
  BY DEF IInv, Typed, Ticks
<1>3. handler[<<"tick", h[2]>>].pc \notin {"idle", "due"}
  BY <1>1 DEF Queued, Active
<1>4. QED
  BY <1>1, <1>2, <1>3 DEF IInv, Ticking

\* Names and tick, when one execution that waits in a tail changes.
LEMMA Rearranged ==
    ASSUME IInv, NEW h \in Handlers, handler[h].pc \in Queued,
           handler'[h].pc \in Active \cup {"idle", "done"},
           handler'[h].pc \in Active => handler'[h].key = handler[h].key,
           \A g \in Handlers \ {h} : handler'[g] = handler[g],
           UNCHANGED <<tick, clock, up>>
    PROVE  /\ \A g \in Handlers : Named(g)'
           /\ Ticking'
           /\ ~up' => \A g \in Handlers : handler'[g].pc \in {"idle", "done"}
<1>1. ASSUME NEW g \in Handlers PROVE Named(g)'
  <2>1. Named(g) /\ Named(h)
    BY DEF IInv
  <2>2. handler[h].pc \notin {"idle", "done"}
    BY DEF Queued, Active
  <2>3. CASE g = h
    BY <2>1, <2>2, <2>3 DEF Named, Active
  <2>4. CASE g # h
    BY <2>1, <2>4 DEF Named
  <2>5. QED
    BY <2>3, <2>4
<1>2. handler'[h].pc # "due"
  BY DEF Active
<1>3. ASSUME NEW a \in Automations
      PROVE  /\ tick.pc = "idle" => handler'[<<"tick", a>>].pc = "idle"
             /\ tick.pc = "evaluate" => handler'[<<"tick", a>>].pc \in {"idle", "due"}
             /\ tick.pc = "evaluate" /\ a \in tick.todo => handler'[<<"tick", a>>].pc = "idle"
             /\ tick.pc = "executing" => handler'[<<"tick", a>>].pc # "due"
  <2>1. <<"tick", a>> \in Handlers /\ <<"tick", a>>[1] = "tick"
    BY HandlerForms
  <2>2. CASE <<"tick", a>> = h
    <3>1. tick.pc = "executing"
      BY <2>1, <2>2, TickExecutes
    <3>2. QED
      BY <1>2, <2>2, <3>1
  <2>3. CASE <<"tick", a>> # h
    <3>1. handler'[<<"tick", a>>] = handler[<<"tick", a>>]
      BY <2>1, <2>3
    <3>2. QED
      BY <3>1 DEF IInv, Ticking
  <2>4. QED
    BY <2>2, <2>3
<1>4. \A g \in Handlers : handler'[g].pc = "due" => g # h /\ handler'[g] = handler[g]
  BY <1>2
<1>5. ASSUME NEW g \in Handlers, handler'[g].pc = "due"
      PROVE  g[1] = "tick" /\ ThreadOf(g)' \in tick.claimed /\ ThreadOf(g)' = ThreadOf(g) /\ handler[g].pc = "due"
  BY <1>4, <1>5 DEF IInv, Ticking, ThreadOf
<1>6. Ticking'
  <2>1. \A g, i \in Handlers :
          handler'[g].pc = "due" /\ handler'[i].pc = "due" /\ ThreadOf(g)' = ThreadOf(i)' => g = i
    BY <1>5 DEF IInv, Ticking
  <2>2. tick.at <= clock
    BY DEF IInv, Ticking
  <2>3. QED
    BY <1>3, <1>5, <2>1, <2>2 DEF Ticking
<1>7. up
  BY DEF IInv, Queued, Active
<1>8. QED
  BY <1>1, <1>6, <1>7

\* An execution goes on: its record is x, and all else of it stays.
LEMMA GoesOn ==
    ASSUME IInv, NEW h \in Handlers, handler[h].pc \in Queued, Head(tail[ThreadOf(h)]) = h,
           NEW x \in Execution, x.pc \in Active, x.key = handler[h].key,
           handler' = [handler EXCEPT ![h] = x],
           UNCHANGED <<tail, tick, clock, up>>
    PROVE  Arranged' /\ handler'[h] = x /\ \A g \in Handlers \ {h} : handler'[g] = handler[g]
<1>1. /\ handler' \in [Handlers -> Execution] /\ handler'[h] = x
      /\ \A g \in Handlers \ {h} : handler'[g] = handler[g]
  BY DEF IInv, Typed
<1>2. \A t \in Threads : Waiting(t, tail'[t], handler')
  BY <1>1, TailKept
<1>3. /\ \A g \in Handlers : Named(g)'
      /\ Ticking'
      /\ ~up' => \A g \in Handlers : handler'[g].pc \in {"idle", "done"}
  BY <1>1, Rearranged
<1>4. QED
  BY <1>1, <1>2, <1>3 DEF Arranged, IInv, Typed

\* An execution is over.
LEMMA Leaves ==
    ASSUME IInv, NEW h \in Handlers, handler[h].pc \in Queued, Head(tail[ThreadOf(h)]) = h,
           Release(h), UNCHANGED <<tick, clock, up>>
    PROVE  /\ Arranged' /\ handler'[h].pc \in {"idle", "done"} /\ (h[1] = "tick" => handler'[h].pc = "idle")
           /\ \A g \in Handlers \ {h} : handler'[g] = handler[g]
<1> DEFINE x == IF h[1] = "tick" THEN NoHandler ELSE [NoHandler EXCEPT !.pc = "done"]
<1>1. x \in Execution /\ x.pc \in {"idle", "done"} /\ (h[1] = "tick" => x.pc = "idle")
  BY EmptyExecution
<1>2. handler' = [handler EXCEPT ![h] = x] /\ tail' = [tail EXCEPT ![ThreadOf(h)] = Tail(@)]
  BY DEF Release
<1> HIDE DEF x
<1>3. /\ handler' \in [Handlers -> Execution] /\ handler'[h] = x
      /\ \A g \in Handlers \ {h} : handler'[g] = handler[g]
  BY <1>1, <1>2 DEF IInv, Typed
<1>4. tail' \in [Threads -> Seq(Handlers)] /\ \A t \in Threads : Waiting(t, tail'[t], handler')
  BY <1>1, <1>2, <1>3, TailShortened
<1>5. /\ \A g \in Handlers : Named(g)'
      /\ Ticking'
      /\ ~up' => \A g \in Handlers : handler'[g].pc \in {"idle", "done"}
  <2>1. handler'[h].pc \notin Active /\ handler'[h].pc \in Active \cup {"idle", "done"}
    BY <1>1, <1>3 DEF Active
  <2>2. QED
    BY <1>3, <2>1, Rearranged
<1>6. QED
  BY <1>1, <1>3, <1>4, <1>5 DEF Arranged

\* Records: only the record of the execution's own key changes.
LEMMA OneRecord ==
    ASSUME IInv, NEW h \in Handlers, handler[h].pc \in Queued, Head(tail[ThreadOf(h)]) = h,
           NEW k, k = handler[h].key,
           \A g \in Handlers \ {h} : handler'[g] = handler[g],
           \A l \in Keys \ {k} : /\ l \in DOMAIN fires' <=> l \in DOMAIN fires
                                 /\ l \in DOMAIN fires => fires'[l] = fires[l]
                                 /\ started'[l] = started[l],
           Fired(k)', Executed(h)'
    PROVE  Recorded'
<1>1. ASSUME NEW l \in Keys PROVE Fired(l)'
  <2>1. CASE l = k
    BY <2>1
  <2>2. CASE l # k
    <3>1. /\ Fired(l) /\ started'[l] = started[l]
          /\ l \in DOMAIN fires' <=> l \in DOMAIN fires
          /\ l \in DOMAIN fires => fires'[l] = fires[l]
      BY <2>2 DEF IInv
    <3>2. QED
      BY <3>1 DEF Fired, Known
  <2>3. QED
    BY <2>1, <2>2
<1>2. ASSUME NEW g \in Handlers PROVE Executed(g)'
  <2>1. CASE g = h
    BY <2>1
  <2>2. CASE g # h /\ handler[g].pc \in Active
    <3>1. PICK l \in Keys \ {k} : l = handler[g].key
      BY <2>2, AloneAtHead DEF IInv, Named, Active
    <3>2. Executed(g) /\ handler'[g] = handler[g]
      BY <2>2 DEF IInv
    <3>3. /\ started'[l] = started[l]
          /\ l \in DOMAIN fires' <=> l \in DOMAIN fires
          /\ l \in DOMAIN fires => fires'[l] = fires[l]
      OBVIOUS
    <3>4. QED
      BY <3>1, <3>2, <3>3 DEF Executed, Known
  <2>3. CASE g # h /\ handler[g].pc \notin Active
    BY <2>3 DEF IInv, Executed, Active
  <2>4. QED
    BY <2>1, <2>2, <2>3
<1>3. QED
  BY <1>1, <1>2 DEF Recorded

\* The record of a key that was fired is not changed by one that leaves.
LEMMA NoRecord ==
    ASSUME IInv, NEW h \in Handlers,
           handler'[h].pc \in {"idle", "done"},
           \A g \in Handlers \ {h} : handler'[g] = handler[g],
           UNCHANGED <<fires, started>>
    PROVE  Recorded'
<1>1. ASSUME NEW l \in Keys PROVE Fired(l)'
  BY DEF IInv, Fired, Known
<1>2. ASSUME NEW g \in Handlers PROVE Executed(g)'
  BY DEF IInv, Executed, Known
<1>3. QED
  BY <1>1, <1>2 DEF Recorded

\* The spacing of an automation rests on its lastRunAt, on the turns started for
\* its keys, and on the slots that the tick and its execution keep.
LEMMA SpacedKept ==
    ASSUME IInv, NEW a \in Automations, Spaced(a), last'[a] = last[a],
           \A k \in KeysOf(a) : started'[k] = started[k],
           clock' \in Nat, clock <= clock',
           \/ handler'[<<"tick", a>>].pc = "idle"
           \/ /\ handler[<<"tick", a>>].pc # "idle"
              /\ handler'[<<"tick", a>>].key = handler[<<"tick", a>>].key
              /\ handler'[<<"tick", a>>].at = handler[<<"tick", a>>].at,
           tick'.pc = "evaluate" /\ a \in tick'.todo =>
              /\ tick.pc = "evaluate" /\ a \in tick.todo
              /\ tick'.at = tick.at /\ tick'.seen[a] = tick.seen[a]
    PROVE  Spaced(a)'
<1>1. clock \in Nat /\ last[a] \in {Never} \cup Nat
  BY BoundsAreNat DEF IInv, Typed, Moments
<1>2. ASSUME NEW k \in KeysOf(a), NEW m \in DOMAIN started[k] PROVE Dated(a, k[3], started[k][m])'
  <2>1. Dated(a, k[3], started[k][m]) /\ started'[k] = started[k]
    BY DEF Spaced
  <2>2. PICK d \in Nat : d = started[k][m]
    BY BoundsAreNat DEF IInv, Typed, Moments, KeysOf
  <2>3. Dated(a, k[3], d)
    BY <2>1, <2>2
  <2>4. d <= clock'
    BY <1>1, <2>2, <2>3 DEF Dated
  <2>5. Dated(a, k[3], d)'
    BY <2>3, <2>4 DEF Dated
  <2>6. QED
    BY <2>1, <2>2, <2>5
<1>3. NextSlot(a)'
  <2>1. NextSlot(a)
    BY DEF Spaced
  <2>2. /\ tick.pc = "evaluate" /\ a \in tick.todo =>
              /\ tick.seen[a] = last[a]
              /\ last[a] # Never => tick.at >= last[a] + Period
        /\ handler[<<"tick", a>>].pc # "idle" =>
              /\ last[a] # Never /\ handler[<<"tick", a>>].key = ScheduledKey(a, last[a] + Period)
              /\ handler[<<"tick", a>>].at >= last[a] + Period /\ handler[<<"tick", a>>].at <= clock
    BY <2>1 DEF NextSlot
  <2>3. handler[<<"tick", a>>].at \in Nat
    BY HandlerForms, BoundsAreNat DEF IInv, Typed, Execution, Moments
  <2>4. QED
    BY <1>1, <2>2, <2>3 DEF NextSlot
<1>4. \A k \in KeysOf(a) : \A m \in DOMAIN started'[k] : Dated(a, k[3], started[k][m])'
  BY <1>2
<1>5. QED
  BY <1>3, <1>4 DEF Spaced

\* The same for all automations, when no turn starts and no lastRunAt changes.
LEMMA SpacingKept ==
    ASSUME IInv, UNCHANGED <<last, started>>, clock' \in Nat, clock <= clock',
           DOMAIN fires \subseteq DOMAIN fires',
           \A a \in Automations :
              \/ handler'[<<"tick", a>>].pc = "idle"
              \/ /\ handler[<<"tick", a>>].pc # "idle"
                 /\ handler'[<<"tick", a>>].key = handler[<<"tick", a>>].key
                 /\ handler'[<<"tick", a>>].at = handler[<<"tick", a>>].at,
           tick'.pc = "evaluate" => /\ tick.pc = "evaluate" /\ tick'.at = tick.at
                                    /\ tick'.seen = tick.seen /\ tick'.todo \subseteq tick.todo
    PROVE  Scheduled'
<1> SUFFICES ASSUME NEW a \in Automations \ Cron, OnlyScheduled(a)' PROVE Spaced(a)'
  BY DEF Scheduled
<1>1. Spaced(a)
  BY DEF IInv, OnlyScheduled
<1>2. QED
  BY <1>1, SpacedKept

\* An execution that is over may set lastRunAt to the moment of its tick: no
\* turn of its automation started later.
LEMMA LastMoved ==
    ASSUME IInv, NEW h \in Handlers, handler[h].pc \in Queued,
           NEW b \in Automations, b = AutoOf(handler[h].key),
           last' = [last EXCEPT ![b] = handler[h].at],
           UNCHANGED <<started, clock, tick>>, DOMAIN fires' = DOMAIN fires,
           h[1] = "tick" => handler'[h].pc = "idle",
           \A g \in Handlers \ {h} : handler'[g] = handler[g],
           h[1] = "tick" \/ ~OnlyScheduled(b)
    PROVE  Scheduled'
<1> SUFFICES ASSUME NEW a \in Automations \ Cron, OnlyScheduled(a)' PROVE Spaced(a)'
  BY DEF Scheduled
<1>1. OnlyScheduled(a) /\ Spaced(a)
  BY DEF IInv, OnlyScheduled
<1>2. last \in [Automations -> {Never} \cup Moments] /\ clock \in Nat /\ <<"tick", a>> \in Handlers
  BY BoundsAreNat, HandlerForms DEF IInv, Typed, Moments
<1>3. h[1] = "tick" => h = <<"tick", b>>
  <2>1. Named(h) /\ handler[h].pc \notin {"idle", "done"}
    BY DEF IInv, Queued, Active
  <2>2. QED
    BY <2>1, HandlerForms DEF Named
<1>4. CASE a # b
  <2>1. last'[a] = last[a]
    BY <1>2, <1>4
  <2>2. <<"tick", a>> # h
    <3>1. h = <<"tick", a>> => h[1] = "tick" /\ h[2] = a
      OBVIOUS
    <3>2. h = <<"tick", b>> => h[2] = b
      OBVIOUS
    <3>3. QED
      BY <1>3, <1>4, <3>1, <3>2
  <2>3. handler'[<<"tick", a>>] = handler[<<"tick", a>>]
    BY <1>2, <2>2
  <2>4. clock' \in Nat /\ clock <= clock'
    BY <1>2
  <2>5. QED
    BY <1>1, <2>1, <2>3, <2>4, SpacedKept
<1>5. CASE a = b
  <2>1. h[1] = "tick" /\ h = <<"tick", a>> /\ handler'[h].pc = "idle" /\ tick.pc = "executing"
    BY <1>1, <1>3, <1>5, TickExecutes
  <2>2. handler[h].pc # "idle"
    BY DEF Queued, Active
  <2>3. PICK n \in Nat : n = handler[h].at
    BY BoundsAreNat DEF IInv, Typed, Execution, Moments
  <2>4. last'[a] = n /\ n # Never
    BY <1>2, <1>5, <2>3 DEF Never
  <2>5. ASSUME NEW k \in KeysOf(a), NEW m \in DOMAIN started[k] PROVE Dated(a, k[3], started[k][m])'
    <3>1. PICK d \in Nat : d = started[k][m]
      BY BoundsAreNat DEF IInv, Typed, Moments, KeysOf
    <3>2. Dated(a, k[3], d)
      BY <1>1, <3>1 DEF Spaced
    <3>3. d <= n
      BY <2>1, <2>2, <2>3, <3>2 DEF Dated
    <3>4. Dated(a, k[3], d)'
      BY <2>1, <2>4, <3>2, <3>3 DEF Dated
    <3>5. QED
      BY <3>1, <3>4
  <2>6. NextSlot(a)'
    BY <2>1 DEF NextSlot
  <2>7. QED
    BY <1>1, <2>5, <2>6 DEF Spaced
<1>6. QED
  BY <1>4, <1>5

-----------------------------------------------------------------------------
(* Records that are made and changed                                       *)

\* The types of the journal's fire records.
Booked ==
    /\ DOMAIN fires \subseteq Keys /\ fires \in [DOMAIN fires -> Fire]
    /\ latest \in [Automations -> Keys \cup {NoKey}]
    /\ \A a \in Automations : latest[a] \in {NoKey} \cup {k \in DOMAIN fires : AutoOf(k) = a}

\* The types of the rest that an execution may write.
Noted ==
    /\ clock \in Moments /\ crashes \in 0..MaxCrashes /\ up \in BOOLEAN
    /\ last \in [Automations -> {Never} \cup Moments]
    /\ tick \in Ticks
    /\ userRun \in [Threads -> {"none", "turn", "waiting"}]
    /\ started \in [Keys -> Seq(Moments)]

\* The parts of the invariant make it up.
LEMMA Parts ==
    IInv <=> Booked /\ Noted /\ Arranged /\ Recorded /\ Scheduled
BY DEF IInv, Typed, Booked, Noted, Arranged, Recorded, Scheduled

\* So a step that preserves each part preserves the invariant.
LEMMA PartsNext ==
    ASSUME Booked', Noted', Arranged', Recorded', Scheduled'
    PROVE  IInv'
BY DEF IInv, Typed, Booked, Noted, Arranged, Recorded, Scheduled

\* A new record adds its key and nothing else (claimAutomationFire,
\* recordAutomationFireSkippedBusy).
LEMMA Created ==
    ASSUME Typed, NEW k \in Keys, NEW s \in {"started", "skipped_busy"}, Create(k, s)
    PROVE  /\ Booked'
           /\ DOMAIN fires' = DOMAIN fires \cup {k}
           /\ fires'[k] = [status |-> s, turn |-> "none"]
           /\ \A l \in DOMAIN fires \ {k} : fires'[l] = fires[l]
<1>1. PICK x : x = [status |-> s, turn |-> "none"]
  OBVIOUS
<1>2. x \in Fire
  BY <1>1 DEF Fire
<1>3. fires' = [l \in DOMAIN fires \cup {k} |-> IF l = k THEN x ELSE fires[l]]
  BY <1>1 DEF Create
<1>4. /\ DOMAIN fires' = DOMAIN fires \cup {k} /\ fires'[k] = x
      /\ \A l \in DOMAIN fires \ {k} : fires'[l] = fires[l]
  BY <1>3
<1>5. DOMAIN fires' \subseteq Keys
  BY <1>4 DEF Typed
<1>6. fires' \in [DOMAIN fires' -> Fire]
  BY <1>2, <1>3, <1>4 DEF Typed
<1>7. latest' = [latest EXCEPT ![AutoOf(k)] = k] /\ AutoOf(k) \in Automations
  BY KeyForms DEF Create
<1>8. latest' \in [Automations -> Keys \cup {NoKey}]
  BY <1>7 DEF Typed
<1>9. ASSUME NEW a \in Automations
      PROVE  latest'[a] \in {NoKey} \cup {l \in DOMAIN fires' : AutoOf(l) = a}
  BY <1>4, <1>7, KeyForms DEF Typed
<1>10. QED
  BY <1>1, <1>4, <1>5, <1>6, <1>8, <1>9 DEF Booked

\* A record changes in its place.
LEMMA Updated ==
    ASSUME Typed, NEW k \in DOMAIN fires, NEW x \in Fire, fires' = [fires EXCEPT ![k] = x],
           UNCHANGED latest
    PROVE  /\ Booked' /\ DOMAIN fires' = DOMAIN fires /\ fires'[k] = x
           /\ \A l \in DOMAIN fires \ {k} : fires'[l] = fires[l]
<1>1. DOMAIN fires' = DOMAIN fires /\ fires'[k] = x /\ \A l \in DOMAIN fires \ {k} : fires'[l] = fires[l]
  OBVIOUS
<1>2. fires' \in [DOMAIN fires' -> Fire]
  BY DEF Typed
<1>3. QED
  BY <1>1, <1>2 DEF Booked, Typed

\* A skipped slot gets a record if it has none, and no turn goes with it.
LEMMA SkippedBusy ==
    ASSUME IInv, NEW k \in Keys, RecordSkippedBusy(k), UNCHANGED started
    PROVE  /\ Booked' /\ DOMAIN fires \subseteq DOMAIN fires' /\ Fired(k)'
           /\ \A l \in DOMAIN fires : fires'[l] = fires[l]
           /\ \A l \in Keys \ {k} : l \in DOMAIN fires' <=> l \in DOMAIN fires
<1>1. CASE Known(k)
  <2>1. UNCHANGED <<fires, latest>>
    BY <1>1 DEF RecordSkippedBusy
  <2>2. Fired(k)
    BY DEF IInv
  <2>3. Booked
    BY Parts
  <2>4. Booked' /\ Fired(k)'
    BY <2>1, <2>2, <2>3 DEF Booked, Fired, Known
  <2>5. QED
    BY <2>1, <2>4
<1>2. CASE ~Known(k)
  <2>1. Create(k, "skipped_busy") /\ Typed
    BY <1>2 DEF RecordSkippedBusy, IInv
  <2>2. /\ Booked' /\ DOMAIN fires' = DOMAIN fires \cup {k}
        /\ fires'[k] = [status |-> "skipped_busy", turn |-> "none"]
        /\ \A l \in DOMAIN fires \ {k} : fires'[l] = fires[l]
    BY <2>1, Created
  <2>3. started[k] = <<>>
    BY <1>2 DEF IInv, Fired
  <2>4. Fired(k)'
    BY <2>2, <2>3 DEF Fired, Known
  <2>5. QED
    BY <1>2, <2>2, <2>4 DEF Known
<1>3. QED
  BY <1>1, <1>2

-----------------------------------------------------------------------------
(* The tick, the clock and the people                                      *)

\* Time passes and people come and go: no execution is touched.
LEMMA OutsideStep ==
    ASSUME IInv, UNCHANGED <<up, last, fires, latest, tick, handler, tail, started>>, Noted',
           clock <= clock'
    PROVE  IInv'
<1>1. Booked' /\ Recorded'
  BY Parts DEF Booked, Recorded, Fired, Executed, Known
<1>2. clock \in Nat /\ clock' \in Nat /\ tick.at \in Nat
  BY BoundsAreNat DEF IInv, Typed, Noted, Moments, Ticks
<1>3. Ticking'
  BY <1>2 DEF IInv, Ticking, ThreadOf
<1>4. \A h \in Handlers : Named(h)'
  BY DEF IInv, Named
<1>5. Arranged'
  BY <1>3, <1>4 DEF IInv, Typed, Arranged
<1>6. Scheduled'
  BY <1>2, SpacingKept
<1>7. QED
  BY <1>1, <1>5, <1>6, PartsNext

\* A tick starts: whatever has a turn, had it by now.
LEMMA TickStartStep ==
    ASSUME IInv, TickStart
    PROVE  IInv'
<1>1. PICK due \in SUBSET Automations : due = {a \in Automations : Due(a, last[a], clock)}
  OBVIOUS
<1>2. /\ up /\ tick.pc = "idle"
      /\ tick' = [NoTick EXCEPT !.pc = "evaluate", !.todo = due, !.at = clock, !.seen = last]
      /\ UNCHANGED <<up, last, fires, latest, handler, tail, userRun, started, clock, crashes>>
  BY <1>1 DEF TickStart, bounds
<1>3. tick'.pc = "evaluate" /\ tick'.todo = due /\ tick'.at = clock /\ tick'.seen = last /\ tick'.claimed = {}
  BY <1>2 DEF NoTick
<1>4. tick' \in Ticks
  BY <1>2 DEF IInv, Typed, Ticks, NoTick
<1>5. Booked' /\ Recorded' /\ Noted'
  BY <1>2, <1>4, Parts DEF Booked, Noted, Recorded, Fired, Executed, Known
<1>6. clock \in Nat
  BY BoundsAreNat DEF IInv, Typed, Moments
<1>7. \A a \in Automations : handler[<<"tick", a>>].pc = "idle"
  BY <1>2 DEF IInv, Ticking
<1>8. \A h \in Handlers : handler[h].pc # "due"
  <2>1. ASSUME NEW h \in Handlers, handler[h].pc = "due" PROVE FALSE
    <3>1. h[1] = "tick"
      BY <2>1 DEF IInv, Ticking
    <3>2. h[2] \in Automations /\ h = <<"tick", h[2]>>
      BY <3>1, HandlerForms
    <3>3. QED
      BY <1>7, <2>1, <3>2
  <2>2. QED
    BY <2>1
<1>9. Ticking'
  BY <1>2, <1>3, <1>6, <1>7, <1>8 DEF Ticking, ThreadOf
<1>10. \A h \in Handlers : Named(h)'
  BY <1>2 DEF IInv, Named
<1>11. Arranged'
  BY <1>2, <1>9, <1>10 DEF IInv, Typed, Arranged
<1>12. ASSUME NEW a \in Automations \ Cron, OnlyScheduled(a)' PROVE Spaced(a)'
  <2>1. Spaced(a)
    BY <1>2, <1>12 DEF IInv, OnlyScheduled
  <2>2. ASSUME NEW k \in KeysOf(a), NEW m \in DOMAIN started[k] PROVE Dated(a, k[3], started[k][m])'
    <3>1. PICK d \in Nat : d = started[k][m]
      BY BoundsAreNat DEF IInv, Typed, Moments, KeysOf
    <3>2. Dated(a, k[3], d)
      BY <2>1, <3>1 DEF Spaced
    <3>3. Dated(a, k[3], d)'
      BY <1>2, <1>3, <1>7, <3>2 DEF Dated
    <3>4. QED
      BY <1>2, <3>1, <3>3
  <2>3. NextSlot(a)'
    <3>1. a \in due /\ last[a] # Never => clock >= last[a] + Period
      BY <1>1 DEF Due
    <3>2. QED
      BY <1>2, <1>3, <1>7, <3>1 DEF NextSlot
  <2>4. QED
    BY <1>2, <2>1, <2>2, <2>3 DEF Spaced
<1>13. Scheduled'
  BY <1>12 DEF Scheduled
<1>14. QED
  BY <1>5, <1>11, <1>13, PartsNext

\* A tick ends when nothing of it goes on.
LEMMA TickEndStep ==
    ASSUME IInv, TickEnd
    PROVE  IInv'
<1>1. /\ tick.pc = "executing" /\ tick' = NoTick
      /\ \A a \in Automations : handler[<<"tick", a>>].pc = "idle"
      /\ UNCHANGED <<up, last, fires, latest, handler, tail, userRun, started, clock, crashes>>
  BY DEF TickEnd, bounds
<1>2. tick' \in Ticks /\ tick'.pc = "idle" /\ tick'.at = 0
  BY <1>1, EmptyExecution
<1>3. Booked' /\ Recorded' /\ Noted'
  BY <1>1, <1>2, Parts DEF Booked, Noted, Recorded, Fired, Executed, Known
<1>4. clock \in Nat
  BY BoundsAreNat DEF IInv, Typed, Moments
<1>5. \A h \in Handlers : handler[h].pc # "due"
  <2>1. ASSUME NEW h \in Handlers, handler[h].pc = "due" PROVE FALSE
    <3>1. h[1] = "tick"
      BY <2>1 DEF IInv, Ticking
    <3>2. h[2] \in Automations /\ h = <<"tick", h[2]>>
      BY <3>1, HandlerForms
    <3>3. QED
      BY <1>1, <2>1, <3>2
  <2>2. QED
    BY <2>1
<1>6. Ticking'
  BY <1>1, <1>2, <1>4, <1>5 DEF Ticking, ThreadOf
<1>7. \A h \in Handlers : Named(h)'
  BY <1>1 DEF IInv, Named
<1>8. Arranged'
  BY <1>1, <1>6, <1>7 DEF IInv, Typed, Arranged
<1>9. Scheduled'
  BY <1>1, <1>2, <1>4, SpacingKept
<1>10. QED
  BY <1>3, <1>8, <1>9, PartsNext

\* What a tick evaluates next has a slot of its own, and no execution yet.
LEMMA NextDue ==
    ASSUME IInv, tick.pc = "evaluate", NEW a \in tick.todo
    PROVE  /\ a \in Automations /\ Target[a] \in Threads /\ <<"tick", a>> \in Handlers
           /\ handler[<<"tick", a>>].pc = "idle"
           /\ [tick EXCEPT !.todo = tick.todo \ {a}] \in Ticks
           /\ tick.at \in Moments /\ tick.at <= clock /\ tick.seen[a] \in {Never} \cup Moments
           /\ tick.seen[a] # Never =>
                 /\ SlotOf(a, tick.seen[a], tick.at) \in 0..(MaxTime + Period)
                 /\ ScheduledKey(a, SlotOf(a, tick.seen[a], tick.at)) \in Keys
<1>1. a \in Automations /\ tick \in Ticks
  BY DEF IInv, Typed, Ticks
<1>2. Target[a] \in Threads /\ <<"tick", a>> \in Handlers
  BY <1>1, TargetsExist, HandlerForms
<1>3. tick.at \in Moments /\ tick.seen[a] \in {Never} \cup Moments /\ tick.at <= clock
  BY <1>1 DEF Ticks, IInv, Ticking
<1>4. [tick EXCEPT !.todo = tick.todo \ {a}] \in Ticks
  BY <1>1 DEF Ticks
<1>5. handler[<<"tick", a>>].pc = "idle"
  BY <1>1 DEF IInv, Ticking
<1>6. tick.seen[a] # Never => SlotOf(a, tick.seen[a], tick.at) \in 0..(MaxTime + Period)
  BY <1>3, BoundsAreNat DEF SlotOf, Moments
<1>7. QED
  BY <1>1, <1>2, <1>3, <1>4, <1>5, <1>6, KeyForms

\* Nothing of the tick's executions changes when it only crosses out a.
LEMMA CrossedOut ==
    ASSUME IInv, tick.pc = "evaluate", NEW a \in tick.todo,
           tick' = [tick EXCEPT !.todo = tick.todo \ {a}],
           UNCHANGED <<up, clock, handler, tail>>
    PROVE  /\ Arranged'
           /\ tick'.pc = "evaluate" /\ tick'.at = tick.at /\ tick'.seen = tick.seen
           /\ tick'.claimed = tick.claimed /\ tick'.todo = tick.todo \ {a}
<1>1. /\ tick'.pc = "evaluate" /\ tick'.at = tick.at /\ tick'.seen = tick.seen
      /\ tick'.claimed = tick.claimed /\ tick'.todo = tick.todo \ {a}
  BY DEF IInv, Typed, Ticks
<1>2. Ticking'
  BY <1>1 DEF IInv, Ticking, ThreadOf
<1>3. \A h \in Handlers : Named(h)'
  BY DEF IInv, Named
<1>4. QED
  BY <1>1, <1>2, <1>3 DEF IInv, Typed, Arranged

\* An automation that was never evaluated has no turn; its lastRunAt is seeded.
LEMMA Seeded ==
    ASSUME IInv, tick.pc = "evaluate", NEW a \in tick.todo, tick.seen[a] = Never,
           last' = [last EXCEPT ![a] = tick.at],
           tick' = [tick EXCEPT !.todo = tick.todo \ {a}],
           UNCHANGED <<fires, latest, handler, up, tail, userRun, started, clock, crashes>>
    PROVE  IInv'
<1>1. /\ a \in Automations /\ handler[<<"tick", a>>].pc = "idle" /\ tick' \in Ticks
      /\ tick.at \in Moments
  BY NextDue
<1>2. /\ Arranged'
      /\ tick'.pc = "evaluate" /\ tick'.at = tick.at /\ tick'.seen = tick.seen
      /\ tick'.todo = tick.todo \ {a}
  BY CrossedOut
<1>3. last' \in [Automations -> {Never} \cup Moments] /\ \A b \in Automations \ {a} : last'[b] = last[b]
  BY <1>1 DEF IInv, Typed
<1>4. Booked' /\ Recorded' /\ Noted'
  BY <1>1, <1>3, Parts DEF Booked, Noted, Recorded, Fired, Executed, Known
<1>5. clock \in Nat
  BY BoundsAreNat DEF IInv, Typed, Moments
<1>6. ASSUME NEW b \in Automations \ Cron, OnlyScheduled(b)' PROVE Spaced(b)'
  <2>1. Spaced(b)
    BY <1>6 DEF IInv, OnlyScheduled
  <2>2. CASE b = a
    <3>1. last[a] = Never
      BY <2>1, <2>2 DEF Spaced, NextSlot
    <3>2. \A k \in KeysOf(b) : DOMAIN started[k] = {}
      BY <2>1, <2>2, <3>1 DEF Spaced, Dated
    <3>3. NextSlot(b)'
      BY <1>1, <1>2, <2>2 DEF NextSlot
    <3>4. QED
      BY <3>2, <3>3 DEF Spaced
  <2>3. CASE b # a
    <3>1. last'[b] = last[b]
      BY <1>3, <2>3
    <3>2. handler'[<<"tick", b>>].pc = "idle" \/ handler[<<"tick", b>>].pc # "idle"
      OBVIOUS
    <3>3. tick'.pc = "evaluate" /\ b \in tick'.todo =>
              /\ tick.pc = "evaluate" /\ b \in tick.todo
              /\ tick'.at = tick.at /\ tick'.seen[b] = tick.seen[b]
      BY <1>2
    <3>4. QED
      BY <1>5, <2>1, <3>1, <3>2, <3>3, SpacedKept
  <2>4. QED
    BY <2>2, <2>3
<1>7. Scheduled'
  BY <1>6 DEF Scheduled
<1>8. QED
  BY <1>2, <1>4, <1>7, PartsNext

\* A busy conversation is skipped: the slot gets a record that fires nothing.
LEMMA SkippedByTick ==
    ASSUME IInv, tick.pc = "evaluate", NEW a \in tick.todo, NEW k \in Keys,
           RecordSkippedBusy(k),
           tick' = [tick EXCEPT !.todo = tick.todo \ {a}],
           UNCHANGED <<last, handler, up, tail, userRun, started, clock, crashes>>
    PROVE  IInv'
<1>1. tick' \in Ticks
  BY NextDue
<1>2. /\ Arranged'
      /\ tick'.pc = "evaluate" /\ tick'.at = tick.at /\ tick'.seen = tick.seen
      /\ tick'.todo = tick.todo \ {a}
  BY CrossedOut
<1>3. /\ Booked' /\ DOMAIN fires \subseteq DOMAIN fires' /\ Fired(k)'
      /\ \A l \in DOMAIN fires : fires'[l] = fires[l]
      /\ \A l \in Keys \ {k} : l \in DOMAIN fires' <=> l \in DOMAIN fires
  BY SkippedBusy
<1>4. Noted'
  BY <1>1, Parts DEF Noted
<1>5. ASSUME NEW l \in Keys PROVE Fired(l)'
  <2>1. CASE l = k
    BY <1>3, <2>1
  <2>2. CASE l # k
    <3>1. Fired(l) /\ (l \in DOMAIN fires' <=> l \in DOMAIN fires)
      BY <1>3, <2>2 DEF IInv
    <3>2. QED
      BY <1>3, <3>1 DEF Fired, Known
  <2>3. QED
    BY <2>1, <2>2
<1>6. ASSUME NEW g \in Handlers PROVE Executed(g)'
  BY <1>3 DEF IInv, Executed, Known
<1>7. Recorded'
  BY <1>5, <1>6 DEF Recorded
<1>8. clock \in Nat
  BY BoundsAreNat DEF IInv, Typed, Moments
<1>9. Scheduled'
  BY <1>2, <1>3, <1>8, SpacingKept
<1>10. QED
  BY <1>2, <1>3, <1>4, <1>7, <1>9, PartsNext

\* A slot is claimed in memory; nothing is durable yet.
LEMMA ClaimedByTick ==
    ASSUME IInv, up, tick.pc = "evaluate", NEW a \in tick.todo,
           tick.seen[a] # Never, Target[a] \notin tick.claimed,
           NEW k, k = ScheduledKey(a, SlotOf(a, tick.seen[a], tick.at)),
           tick' = [tick EXCEPT !.todo = tick.todo \ {a}, !.claimed = tick.claimed \cup {Target[a]}],
           handler' = [handler EXCEPT ![<<"tick", a>>] =
                          [NoHandler EXCEPT !.pc = "due", !.key = k, !.at = tick.at]],
           UNCHANGED <<last, fires, latest, up, tail, userRun, started, clock, crashes>>
    PROVE  IInv'
<1>1. /\ a \in Automations /\ Target[a] \in Threads /\ <<"tick", a>> \in Handlers
      /\ handler[<<"tick", a>>].pc = "idle"
      /\ tick.at \in Moments /\ tick.at <= clock
      /\ SlotOf(a, tick.seen[a], tick.at) \in 0..(MaxTime + Period) /\ k \in Keys
  BY NextDue
<1>2. AutoOf(k) = a /\ KindOf(k) = "scheduled"
  BY <1>1, KeyForms
<1>3. /\ tick'.pc = "evaluate" /\ tick'.at = tick.at /\ tick'.seen = tick.seen
      /\ tick'.claimed = tick.claimed \cup {Target[a]} /\ tick'.todo = tick.todo \ {a}
      /\ tick' \in Ticks
  BY <1>1 DEF IInv, Typed, Ticks
<1>4. PICK x : x = [NoHandler EXCEPT !.pc = "due", !.key = k, !.at = tick.at]
  OBVIOUS
<1>5. x \in Execution /\ x.pc = "due" /\ x.key = k /\ x.at = tick.at /\ x.outcome = "none"
  BY <1>1, <1>4 DEF NoHandler, Execution, Pcs
<1>6. PICK h \in Handlers : h = <<"tick", a>>
  BY <1>1
<1>7. /\ handler' \in [Handlers -> Execution] /\ handler'[h] = x
      /\ \A g \in Handlers \ {h} : handler'[g] = handler[g]
  BY <1>4, <1>5, <1>6 DEF IInv, Typed
<1>8. h[1] = "tick" /\ h[2] = a /\ handler[h].pc = "idle"
  BY <1>1, <1>6
<1>9. \A b \in Automations \ {a} : <<"tick", b>> \in Handlers \ {h}
  BY <1>8, HandlerForms
<1>10. ASSUME NEW g \in Handlers PROVE Named(g)'
  <2>1. CASE g = h
    BY <1>1, <1>2, <1>5, <1>7, <1>8, <2>1 DEF Named
  <2>2. CASE g # h
    BY <1>7, <2>2 DEF IInv, Named
  <2>3. QED
    BY <2>1, <2>2
<1>11. ASSUME NEW t \in Threads PROVE Waiting(t, tail'[t], handler')
  <2>1. Waiting(t, tail[t], handler) /\ tail[t] \in Seq(Handlers)
    BY DEF IInv, Typed
  <2>2. handler[h].pc \notin Queued /\ handler'[h].pc \notin Queued
    BY <1>5, <1>7, <1>8 DEF Queued, Active
  <2>3. \A i \in DOMAIN tail[t] : tail[t][i] \in Handlers \ {h}
    BY <2>1, <2>2 DEF Waiting
  <2>4. QED
    BY <1>7, <2>1, <2>2, <2>3 DEF Waiting
<1>12. Ticking'
  <2>1. ASSUME NEW b \in Automations
        PROVE  /\ handler'[<<"tick", b>>].pc \in {"idle", "due"}
               /\ b \in tick'.todo => handler'[<<"tick", b>>].pc = "idle"
    <3>1. CASE b = a
      BY <1>3, <1>5, <1>6, <1>7, <3>1
    <3>2. CASE b # a
      <4>1. handler'[<<"tick", b>>] = handler[<<"tick", b>>]
        BY <1>7, <1>9, <3>2
      <4>2. QED
        BY <1>3, <4>1 DEF IInv, Ticking
    <3>3. QED
      BY <3>1, <3>2
  <2>2. ThreadOf(h)' = Target[a]
    BY <1>2, <1>5, <1>7 DEF ThreadOf
  <2>3. \A g \in Handlers \ {h} : handler'[g].pc = "due" =>
            handler[g].pc = "due" /\ g[1] = "tick" /\ ThreadOf(g) \in tick.claimed /\ ThreadOf(g)' = ThreadOf(g)
    BY <1>7 DEF IInv, Ticking, ThreadOf
  <2>4. \A g \in Handlers : handler'[g].pc = "due" => g[1] = "tick" /\ ThreadOf(g)' \in tick'.claimed
    BY <1>3, <1>8, <2>2, <2>3
  <2>5. \A g, i \in Handlers :
           handler'[g].pc = "due" /\ handler'[i].pc = "due" /\ ThreadOf(g)' = ThreadOf(i)' => g = i
    BY <2>2, <2>3 DEF IInv, Ticking
  <2>6. QED
    BY <1>1, <1>3, <2>1, <2>4, <2>5 DEF Ticking
<1>13. Arranged'
  BY <1>7, <1>10, <1>11, <1>12 DEF IInv, Typed, Arranged
<1>14. Booked' /\ Noted'
  BY <1>3, Parts DEF Booked, Noted
<1>15. Recorded'
  <2>1. Executed(h)'
    BY <1>5, <1>7 DEF Executed
  <2>2. ASSUME NEW g \in Handlers \ {h} PROVE Executed(g)'
    <3>1. Executed(g) /\ handler'[g] = handler[g]
      BY <1>7 DEF IInv
    <3>2. QED
      BY <3>1 DEF Executed, Known
  <2>3. \A l \in Keys : Fired(l)'
    BY DEF IInv, Fired, Known
  <2>4. QED
    BY <2>1, <2>2, <2>3 DEF Recorded
<1>16. clock \in Nat
  BY BoundsAreNat DEF IInv, Typed, Moments
<1>17. ASSUME NEW b \in Automations \ Cron, OnlyScheduled(b)' PROVE Spaced(b)'
  <2>1. Spaced(b)
    BY <1>17 DEF IInv, OnlyScheduled
  <2>2. CASE b = a
    <3>1. tick.seen[a] = last[a] /\ tick.at >= last[a] + Period /\ last[a] # Never
      BY <2>1, <2>2 DEF Spaced, NextSlot
    <3>2. k = ScheduledKey(a, last[a] + Period)
      BY <2>2, <3>1 DEF SlotOf
    <3>3. NextSlot(b)'
      BY <1>1, <1>3, <1>5, <1>6, <1>7, <2>2, <3>1, <3>2 DEF NextSlot
    <3>4. ASSUME NEW l \in KeysOf(b), NEW m \in DOMAIN started[l] PROVE Dated(b, l[3], started[l][m])'
      <4>1. PICK d \in Nat : d = started[l][m]
        BY BoundsAreNat DEF IInv, Typed, Moments, KeysOf
      <4>2. Dated(b, l[3], d)
        BY <2>1, <4>1 DEF Spaced
      <4>3. Dated(b, l[3], d)'
        BY <1>3, <1>5, <1>6, <1>7, <2>2, <4>2 DEF Dated
      <4>4. QED
        BY <4>1, <4>3
    <3>5. QED
      BY <2>1, <3>3, <3>4 DEF Spaced
  <2>3. CASE b # a
    <3>1. \/ handler'[<<"tick", b>>].pc = "idle"
          \/ /\ handler[<<"tick", b>>].pc # "idle"
             /\ handler'[<<"tick", b>>].key = handler[<<"tick", b>>].key
             /\ handler'[<<"tick", b>>].at = handler[<<"tick", b>>].at
      BY <1>7, <1>9, <2>3
    <3>2. tick'.pc = "evaluate" /\ b \in tick'.todo =>
              /\ tick.pc = "evaluate" /\ b \in tick.todo
              /\ tick'.at = tick.at /\ tick'.seen[b] = tick.seen[b]
      BY <1>3
    <3>3. last'[b] = last[b] /\ clock' \in Nat /\ clock <= clock' /\ b \in Automations
      BY <1>16
    <3>4. \A l \in KeysOf(b) : started'[l] = started[l]
      OBVIOUS
    <3>5. QED
      BY <2>1, <3>1, <3>2, <3>3, <3>4, SpacedKept
  <2>4. QED
    BY <2>2, <2>3
<1>18. Scheduled'
  BY <1>17 DEF Scheduled
<1>19. QED
  BY <1>13, <1>14, <1>15, <1>18, PartsNext

\* One automation is evaluated.
LEMMA EvaluateStep ==
    ASSUME IInv, Evaluate
    PROVE  IInv'
<1>1. PICK a \in tick.todo :
         \/ /\ tick.seen[a] = Never
            /\ last' = [last EXCEPT ![a] = tick.at]
            /\ tick' = [tick EXCEPT !.todo = tick.todo \ {a}]
            /\ UNCHANGED <<fires, latest, handler>>
         \/ /\ tick.seen[a] # Never
            /\ RecordSkippedBusy(ScheduledKey(a, SlotOf(a, tick.seen[a], tick.at)))
            /\ tick' = [tick EXCEPT !.todo = tick.todo \ {a}]
            /\ UNCHANGED <<last, handler>>
         \/ /\ tick.seen[a] # Never
            /\ Target[a] \notin tick.claimed
            /\ tick' = [[tick EXCEPT !.todo = tick.todo \ {a}] EXCEPT !.claimed = tick.claimed \cup {Target[a]}]
            /\ handler' = [handler EXCEPT ![<<"tick", a>>] =
                 [NoHandler EXCEPT !.pc = "due", !.key = ScheduledKey(a, SlotOf(a, tick.seen[a], tick.at)),
                                   !.at = tick.at]]
            /\ UNCHANGED <<last, fires, latest>>
  BY DEF Evaluate
<1>2. up /\ tick.pc = "evaluate" /\ UNCHANGED <<up, tail, userRun, started, clock, crashes>>
  BY DEF Evaluate, bounds
<1>3. CASE tick.seen[a] = Never /\ last' = [last EXCEPT ![a] = tick.at]
           /\ tick' = [tick EXCEPT !.todo = tick.todo \ {a}] /\ UNCHANGED <<fires, latest, handler>>
  BY <1>2, <1>3, Seeded
<1>4. CASE /\ tick.seen[a] # Never
           /\ RecordSkippedBusy(ScheduledKey(a, SlotOf(a, tick.seen[a], tick.at)))
           /\ tick' = [tick EXCEPT !.todo = tick.todo \ {a}] /\ UNCHANGED <<last, handler>>
  <2>1. ScheduledKey(a, SlotOf(a, tick.seen[a], tick.at)) \in Keys
    BY <1>2, <1>4, NextDue
  <2>2. QED
    BY <1>2, <1>4, <2>1, SkippedByTick
<1>5. CASE /\ tick.seen[a] # Never /\ Target[a] \notin tick.claimed
           /\ tick' = [[tick EXCEPT !.todo = tick.todo \ {a}] EXCEPT !.claimed = tick.claimed \cup {Target[a]}]
           /\ handler' = [handler EXCEPT ![<<"tick", a>>] =
                 [NoHandler EXCEPT !.pc = "due", !.key = ScheduledKey(a, SlotOf(a, tick.seen[a], tick.at)),
                                   !.at = tick.at]]
           /\ UNCHANGED <<last, fires, latest>>
  <2>1. tick' = [tick EXCEPT !.todo = tick.todo \ {a}, !.claimed = tick.claimed \cup {Target[a]}]
    BY <1>5
  <2>2. PICK k : k = ScheduledKey(a, SlotOf(a, tick.seen[a], tick.at))
    OBVIOUS
  <2>3. handler' = [handler EXCEPT ![<<"tick", a>>] =
                       [NoHandler EXCEPT !.pc = "due", !.key = k, !.at = tick.at]]
    BY <1>5, <2>2
  <2>4. QED
    BY <1>2, <1>5, <2>1, <2>2, <2>3, ClaimedByTick
<1>6. QED
  BY <1>1, <1>3, <1>4, <1>5

-----------------------------------------------------------------------------
(* Who joins a tail                                                        *)

\* SetToSeq of no one and of one.
LEMMA SmallSetToSeq ==
    /\ SetToSeq({}) = <<>>
    /\ \A h : SetToSeq({h}) = <<h>>
<1>1. SetToSeq({}) = <<>>
  <2>1. Cardinality({}) = 0 /\ 1..0 = {}
    BY FS_EmptySet
  <2>2. <<>> \in [1..0 -> {}] /\ \A f \in [1..0 -> {}] : f = <<>>
    OBVIOUS
  <2>3. IsInjective(<<>>)
    BY DEF IsInjective
  <2>4. QED
    BY <2>1, <2>2, <2>3 DEF SetToSeq
<1>2. ASSUME NEW h PROVE SetToSeq({h}) = <<h>>
  <2>1. Cardinality({h}) = 1
    BY FS_Singleton
  <2>2. <<h>> \in [1..1 -> {h}] /\ \A f \in [1..1 -> {h}] : f = <<h>>
    OBVIOUS
  <2>3. IsInjective(<<h>>)
    BY DEF IsInjective
  <2>4. QED
    BY <2>1, <2>2, <2>3 DEF SetToSeq
<1>3. QED
  BY <1>1, <1>2

\* Execution h, of its conversation t, joins the tail q at its end.
LEMMA TailGrown ==
    ASSUME NEW t, NEW q \in Seq(Handlers), NEW hs, NEW js, NEW h \in Handlers,
           Waiting(t, q, hs), hs[h].pc \notin Queued,
           js[h].pc = "lookup", ConvOf(js[h]) = t,
           \A g \in Handlers \ {h} :
              \/ js[g] = hs[g]
              \/ hs[g].pc \notin Queued /\ ConvOf(js[g]) # t
    PROVE  Append(q, h) \in Seq(Handlers) /\ Waiting(t, Append(q, h), js)
<1>1. PICK s : s = Append(q, h)
  OBVIOUS
<1>2. PICK n \in Nat : n = Len(q)
  OBVIOUS
<1>3. /\ s \in Seq(Handlers) /\ DOMAIN s = 1..(n + 1) /\ DOMAIN q = 1..n
      /\ \A i \in 1..n : s[i] = q[i]
      /\ s[n + 1] = h
  BY <1>1, <1>2, AppendProperties
<1>4. \A i \in 1..n : q[i] \in Handlers \ {h} /\ hs[q[i]].pc \in Queued
  BY <1>3 DEF Waiting
<1>5. \A i \in 1..n : js[q[i]] = hs[q[i]]
  BY <1>4
<1>6. \A i \in 1..(n + 1) : i \in 1..n \/ i = n + 1
  BY <1>2
<1>7. \A i \in DOMAIN s : ConvOf(js[s[i]]) = t /\ js[s[i]].pc \in Queued
  <2>1. "lookup" \in Queued
    BY DEF Queued
  <2>2. \A i \in 1..n : ConvOf(js[s[i]]) = t /\ js[s[i]].pc \in Queued
    BY <1>3, <1>5 DEF Waiting
  <2>3. QED
    BY <1>3, <1>6, <2>1, <2>2
<1>8. \A i, j \in DOMAIN s : s[i] = s[j] => i = j
  <2>1. \A i, j \in 1..n : s[i] = s[j] => i = j
    BY <1>3 DEF Waiting
  <2>2. \A i \in 1..n : s[i] # s[n + 1]
    BY <1>3, <1>4
  <2>3. QED
    BY <1>3, <1>6, <2>1, <2>2
<1>9. ASSUME NEW g \in Handlers, js[g].pc \in Queued, ConvOf(js[g]) = t
      PROVE  /\ \E i \in DOMAIN s : s[i] = g
             /\ js[g].pc \in Active => s[1] = g
  <2>1. CASE g = h
    <3>1. n + 1 \in DOMAIN s /\ "lookup" \notin Active
      BY <1>2, <1>3 DEF Active
    <3>2. QED
      BY <1>3, <2>1, <3>1
  <2>2. CASE g # h
    <3>1. js[g] = hs[g]
      BY <1>9, <2>2
    <3>2. PICK i \in 1..n : q[i] = g
      BY <1>3, <1>9, <3>1 DEF Waiting
    <3>3. js[g].pc \in Active => q[1] = g
      BY <1>9, <3>1 DEF Waiting
    <3>4. i \in 1..(n + 1) /\ 1 \in 1..n
      BY <1>2
    <3>5. QED
      BY <1>3, <3>2, <3>3, <3>4
  <2>3. QED
    BY <2>1, <2>2
<1>10. QED
  BY <1>1, <1>3, <1>7, <1>8, <1>9 DEF Waiting

\* No execution of t joins.
LEMMA TailLeft ==
    ASSUME NEW t, NEW q \in Seq(Handlers), NEW hs, NEW js, Waiting(t, q, hs),
           \A g \in Handlers :
              \/ js[g] = hs[g]
              \/ hs[g].pc \notin Queued /\ ConvOf(js[g]) # t
    PROVE  Waiting(t, q, js)
<1>1. \A i \in DOMAIN q : q[i] \in Handlers /\ js[q[i]] = hs[q[i]]
  BY DEF Waiting
<1>2. \A g \in Handlers : ConvOf(js[g]) = t => js[g] = hs[g]
  OBVIOUS
<1>3. QED
  BY <1>1, <1>2 DEF Waiting

\* The tick launches what it claimed: at most one execution for each tail.
LEMMA TickLaunchStep ==
    ASSUME IInv, TickLaunch
    PROVE  IInv'
<1>1. PICK due : due = {h \in Handlers : handler[h].pc = "due"}
  OBVIOUS
<1>2. PICK hs : hs = [h \in Handlers |-> IF h \in due THEN [handler[h] EXCEPT !.pc = "lookup"] ELSE handler[h]]
  OBVIOUS
<1>3. /\ up /\ tick.pc = "evaluate" /\ handler' = hs
      /\ tail' = [t \in Threads |-> tail[t] \o SetToSeq({h \in due : ThreadOf(h) = t})]
      /\ tick' = [NoTick EXCEPT !.pc = "executing"]
      /\ UNCHANGED <<up, last, fires, latest, userRun, started, clock, crashes>>
  BY <1>1, <1>2 DEF TickLaunch, bounds
<1>4. /\ \A h \in due : hs[h] = [handler[h] EXCEPT !.pc = "lookup"]
      /\ \A h \in Handlers \ due : hs[h] = handler[h] /\ handler[h].pc # "due"
      /\ \A h \in due : handler[h].pc = "due" /\ h \in Handlers
  BY <1>1, <1>2
<1>5. /\ \A h \in Handlers : handler[h] \in Execution
      /\ \A h \in due : hs[h].pc = "lookup" /\ hs[h].key = handler[h].key /\ hs[h].at = handler[h].at
                        /\ hs[h].outcome = handler[h].outcome /\ hs[h] \in Execution
  <2>1. \A h \in Handlers : handler[h] \in Execution
    BY DEF IInv, Typed
  <2>2. "lookup" \in Pcs
    BY DEF Pcs, Queued
  <2>3. \A x \in Execution :
           LET y == [x EXCEPT !.pc = "lookup"] IN
           y \in Execution /\ y.pc = "lookup" /\ y.key = x.key /\ y.at = x.at /\ y.outcome = x.outcome
    BY <2>2 DEF Execution
  <2>4. ASSUME NEW h \in due
        PROVE  /\ hs[h].pc = "lookup" /\ hs[h].key = handler[h].key /\ hs[h].at = handler[h].at
               /\ hs[h].outcome = handler[h].outcome /\ hs[h] \in Execution
    <3>1. handler[h] \in Execution /\ hs[h] = [handler[h] EXCEPT !.pc = "lookup"]
      BY <1>4, <2>1
    <3>2. QED
      BY <2>3, <3>1
  <2>5. QED
    BY <2>1, <2>4
<1>6. hs \in [Handlers -> Execution]
  BY <1>2, <1>4, <1>5
<1>7. tick' \in Ticks /\ tick'.pc = "executing" /\ tick'.at = 0
  BY <1>3, BoundsAreNat DEF Ticks, NoTick, Moments
<1>8. \A h \in due : h[1] = "tick" /\ "due" \notin Queued /\ ThreadOf(h) = ConvOf(hs[h]) /\ ThreadOf(h) \in Threads
  <2>1. \A h \in due : h[1] = "tick"
    <3>1. \A h \in Handlers : handler[h].pc = "due" => h[1] = "tick"
      BY DEF IInv, Ticking
    <3>2. QED
      BY <1>4, <3>1
  <2>2. "due" \notin Queued
    BY DEF Queued, Active
  <2>3. \A h \in due : ThreadOf(h) = ConvOf(hs[h])
    BY <1>5 DEF ThreadOf, ConvOf
  <2>4. \A h \in due : ThreadOf(h) \in Threads
    BY <1>4, ThreadOfHandler DEF IInv
  <2>5. QED
    BY <2>1, <2>2, <2>3, <2>4
<1>9. ASSUME NEW t \in Threads PROVE tail'[t] \in Seq(Handlers) /\ Waiting(t, tail'[t], hs)
  <2>1. PICK q \in Seq(Handlers) : q = tail[t]
    BY DEF IInv, Typed
  <2>2. Waiting(t, q, handler)
    BY <2>1 DEF IInv
  <2>3. tail'[t] = q \o SetToSeq({h \in due : ThreadOf(h) = t})
    BY <1>3, <2>1
  <2>4. CASE \E h \in due : ThreadOf(h) = t
    <3>1. PICK h \in due : ThreadOf(h) = t
      BY <2>4
    <3>2. \A g \in due : ThreadOf(g) = t => g = h
      <4>1. \A g, i \in Handlers : handler[g].pc = "due" /\ handler[i].pc = "due"
                                  /\ ThreadOf(g) = ThreadOf(i) => g = i
        BY DEF IInv, Ticking
      <4>2. QED
        BY <1>4, <3>1, <4>1
    <3>3. {g \in due : ThreadOf(g) = t} = {h}
      BY <3>1, <3>2
    <3>4. tail'[t] = Append(q, h)
      <4>1. SetToSeq({g \in due : ThreadOf(g) = t}) = <<h>>
        BY <3>3, SmallSetToSeq
      <4>2. h \in Handlers
        BY <1>4
      <4>3. QED
        BY <2>3, <4>1, <4>2, AppendIsConcat
    <3>5. \A g \in Handlers \ {h} :
             \/ hs[g] = handler[g]
             \/ handler[g].pc \notin Queued /\ ConvOf(hs[g]) # t
      BY <1>4, <1>8, <3>2
    <3>6. handler[h].pc \notin Queued /\ hs[h].pc = "lookup" /\ ConvOf(hs[h]) = t /\ h \in Handlers
      BY <1>4, <1>5, <1>8, <3>1
    <3>7. QED
      BY <2>2, <3>4, <3>5, <3>6, TailGrown
  <2>5. CASE ~ \E h \in due : ThreadOf(h) = t
    <3>1. {g \in due : ThreadOf(g) = t} = {}
      BY <2>5
    <3>2. tail'[t] = q
      BY <2>3, <3>1, SmallSetToSeq, ConcatEmptySeq
    <3>3. \A g \in Handlers :
             \/ hs[g] = handler[g]
             \/ handler[g].pc \notin Queued /\ ConvOf(hs[g]) # t
      BY <1>4, <1>8, <2>5
    <3>4. QED
      BY <2>2, <3>2, <3>3, TailLeft
  <2>6. QED
    BY <2>4, <2>5
<1>10. tail' \in [Threads -> Seq(Handlers)]
  BY <1>3, <1>9
<1>11. ASSUME NEW h \in Handlers PROVE Named(h)' /\ hs[h].pc # "due" /\ Executed(h)'
  <2>1. Named(h) /\ Executed(h)
    BY DEF IInv
  <2>2. CASE h \in due
    BY <1>3, <1>4, <1>5, <2>1, <2>2 DEF Named, Executed
  <2>3. CASE h \notin due
    BY <1>3, <1>4, <2>1, <2>3 DEF Named, Executed, Known
  <2>4. QED
    BY <2>2, <2>3
<1>12. Ticking'
  <2>1. clock \in Nat
    BY BoundsAreNat DEF IInv, Typed, Moments
  <2>2. QED
    BY <1>3, <1>7, <1>11, <2>1, HandlerForms DEF Ticking
<1>13. Arranged'
  BY <1>3, <1>6, <1>9, <1>10, <1>11, <1>12 DEF Arranged
<1>14. Booked' /\ Noted'
  BY <1>3, <1>7, Parts DEF Booked, Noted
<1>15. Recorded'
  BY <1>3, <1>11 DEF IInv, Recorded, Fired, Known
<1>16. ASSUME NEW a \in Automations
       PROVE  \/ handler'[<<"tick", a>>].pc = "idle"
              \/ /\ handler[<<"tick", a>>].pc # "idle"
                 /\ handler'[<<"tick", a>>].key = handler[<<"tick", a>>].key
                 /\ handler'[<<"tick", a>>].at = handler[<<"tick", a>>].at
  BY <1>3, <1>4, <1>5, HandlerForms
<1>17. clock' \in Nat /\ clock <= clock'
  BY <1>3, BoundsAreNat DEF IInv, Typed, Moments
<1>18. Scheduled'
  BY <1>3, <1>7, <1>16, <1>17, SpacingKept
<1>19. QED
  BY <1>13, <1>14, <1>15, <1>18, PartsNext

\* A request joins the tail of the conversation it names.
LEMMA RunNowStep ==
    ASSUME IInv, NEW r \in 1..MaxRequests, RunNow(r)
    PROVE  IInv'
<1>1. PICK h \in Handlers : h = <<"request", r>>
  BY HandlerForms
<1>2. h[1] = "request" /\ handler[h].pc = "idle"
  BY <1>1 DEF RunNow
<1>3. PICK a \in Automations, name \in 1..r :
         /\ handler' = [handler EXCEPT ![h] = [NoHandler EXCEPT !.pc = "lookup", !.key = ManualKey(a, name), !.at = clock]]
         /\ tail' = [tail EXCEPT ![Target[a]] = Append(@, h)]
         /\ UNCHANGED <<up, last, fires, latest, tick, userRun, started, clock, crashes>>
  BY <1>1 DEF RunNow, bounds
<1>4. name \in 1..MaxRequests
  BY BoundsAreNat
<1>5. PICK k \in Keys : k = ManualKey(a, name) /\ AutoOf(k) = a /\ KindOf(k) = "manual"
  BY <1>4, KeyForms
<1>6. PICK x : x = [NoHandler EXCEPT !.pc = "lookup", !.key = k, !.at = clock]
  OBVIOUS
<1>7. x \in Execution /\ x.pc = "lookup" /\ x.key = k /\ x.outcome = "none"
  BY <1>6 DEF IInv, Typed, NoHandler, Execution, Pcs, Queued
<1>8. /\ handler' \in [Handlers -> Execution] /\ handler'[h] = x
      /\ \A g \in Handlers \ {h} : handler'[g] = handler[g]
  BY <1>3, <1>5, <1>6, <1>7 DEF IInv, Typed
<1>9. Target[a] \in Threads /\ ConvOf(x) = Target[a]
  BY <1>5, <1>7, TargetsExist DEF ConvOf
<1>10. handler[h].pc \notin Queued /\ "lookup" \notin {"idle", "due", "done"}
  BY <1>2 DEF Queued, Active
<1>11. up
  BY DEF RunNow
<1>12. ASSUME NEW t \in Threads PROVE tail'[t] \in Seq(Handlers) /\ Waiting(t, tail'[t], handler')
  <2>1. PICK q \in Seq(Handlers) : q = tail[t] /\ Waiting(t, q, handler)
    BY DEF IInv, Typed
  <2>2. CASE t = Target[a]
    <3>1. tail'[t] = Append(q, h)
      BY <1>3, <2>1, <2>2 DEF IInv, Typed
    <3>2. QED
      BY <1>7, <1>8, <1>9, <1>10, <2>1, <2>2, <3>1, TailGrown
  <2>3. CASE t # Target[a]
    <3>1. tail'[t] = q
      BY <1>3, <2>1, <2>3 DEF IInv, Typed
    <3>2. \A g \in Handlers :
             \/ handler'[g] = handler[g]
             \/ handler[g].pc \notin Queued /\ ConvOf(handler'[g]) # t
      BY <1>8, <1>9, <1>10, <2>3
    <3>3. QED
      BY <2>1, <3>1, <3>2, TailLeft
  <2>4. QED
    BY <2>2, <2>3
<1>13. tail' \in [Threads -> Seq(Handlers)]
  BY <1>3, <1>12 DEF IInv, Typed
<1>14. ASSUME NEW g \in Handlers PROVE Named(g)' /\ Executed(g)'
  <2>1. CASE g = h
    BY <1>2, <1>5, <1>7, <1>8, <2>1 DEF Named, Executed
  <2>2. CASE g # h
    <3>1. Named(g) /\ Executed(g) /\ handler'[g] = handler[g]
      BY <1>8, <2>2 DEF IInv
    <3>2. QED
      BY <1>3, <3>1 DEF Named, Executed, Known
  <2>3. QED
    BY <2>1, <2>2
<1>15. \A b \in Automations : handler'[<<"tick", b>>] = handler[<<"tick", b>>] /\ <<"tick", b>> \in Handlers
  <2>1. \A b \in Automations : <<"tick", b>> \in Handlers /\ <<"tick", b>>[1] = "tick"
    BY HandlerForms
  <2>2. QED
    BY <1>2, <1>8, <2>1
<1>16. Ticking'
  <2>1. \A g \in Handlers : handler'[g].pc = "due" => handler'[g] = handler[g] /\ ThreadOf(g)' = ThreadOf(g)
    BY <1>7, <1>8 DEF ThreadOf
  <2>2. \A g \in Handlers : handler'[g].pc = "due" => g[1] = "tick" /\ ThreadOf(g)' \in tick.claimed
    BY <2>1 DEF IInv, Ticking
  <2>3. \A g, i \in Handlers :
           handler'[g].pc = "due" /\ handler'[i].pc = "due" /\ ThreadOf(g)' = ThreadOf(i)' => g = i
    BY <2>1 DEF IInv, Ticking
  <2>4. /\ tick.at <= clock
        /\ \A b \in Automations :
              /\ tick.pc = "idle" => handler'[<<"tick", b>>].pc = "idle"
              /\ tick.pc = "evaluate" => handler'[<<"tick", b>>].pc \in {"idle", "due"}
              /\ tick.pc = "evaluate" /\ b \in tick.todo => handler'[<<"tick", b>>].pc = "idle"
              /\ tick.pc = "executing" => handler'[<<"tick", b>>].pc # "due"
    BY <1>15 DEF IInv, Ticking
  <2>5. QED
    BY <1>3, <2>2, <2>3, <2>4 DEF Ticking
<1>17. Arranged'
  BY <1>3, <1>8, <1>11, <1>12, <1>13, <1>14, <1>16 DEF Arranged
<1>18. Booked' /\ Noted'
  BY <1>3, Parts DEF Booked, Noted
<1>19. Recorded'
  BY <1>3, <1>14 DEF IInv, Recorded, Fired, Known
<1>20. clock' \in Nat /\ clock <= clock'
  BY <1>3, BoundsAreNat DEF IInv, Typed, Moments
<1>21. Scheduled'
  BY <1>3, <1>15, <1>20, SpacingKept
<1>22. QED
  BY <1>17, <1>18, <1>19, <1>21, PartsNext

-----------------------------------------------------------------------------
(* The steps of an execution                                               *)

\* An execution that runs: who it is and what it may write.
LEMMA Running ==
    ASSUME IInv, NEW h \in Handlers, NEW pc \in Queued, Runs(h, pc)
    PROVE  /\ handler[h].pc = pc /\ handler[h].pc \in Queued /\ Head(tail[ThreadOf(h)]) = h
           /\ handler[h] \in Execution /\ handler[h].key \in Keys /\ handler[h].at \in Moments
           /\ ThreadOf(h) \in Threads /\ AutoOf(handler[h].key) \in Automations
           /\ clock' = clock => clock' \in Nat /\ clock <= clock'
<1>1. handler[h].pc = pc /\ Head(tail[ThreadOf(h)]) = h
  BY DEF Runs
<1>2. handler[h] \in Execution /\ clock \in Nat
  BY BoundsAreNat DEF IInv, Typed, Moments
<1>3. handler[h].pc \notin {"idle", "done"}
  BY <1>1 DEF Queued, Active
<1>4. handler[h].key \in Keys
  BY <1>3 DEF IInv, Named
<1>5. QED
  BY <1>1, <1>2, <1>4, ThreadOfHandler DEF Execution, IInv

\* An execution at another step is an execution.
LEMMA AnotherStep ==
    ASSUME NEW y \in Execution, NEW pc \in Pcs
    PROVE  /\ [y EXCEPT !.pc = pc] \in Execution
           /\ [y EXCEPT !.pc = pc].pc = pc /\ [y EXCEPT !.pc = pc].key = y.key
           /\ [y EXCEPT !.pc = pc].at = y.at /\ [y EXCEPT !.pc = pc].outcome = y.outcome
BY DEF Execution

\* An execution goes to its next step.
LEMMA Moves ==
    ASSUME IInv, NEW h \in Handlers, NEW from \in Queued, NEW pc \in Active, Runs(h, from), Goto(h, pc),
           UNCHANGED <<tick, clock, up>>
    PROVE  /\ Arranged' /\ \A g \in Handlers \ {h} : handler'[g] = handler[g]
           /\ handler'[h].pc = pc /\ handler'[h].key = handler[h].key
           /\ handler'[h].at = handler[h].at /\ handler'[h].outcome = handler[h].outcome
<1>1. handler[h].pc \in Queued /\ Head(tail[ThreadOf(h)]) = h /\ handler[h] \in Execution
  BY Running
<1>2. pc \in Pcs
  BY DEF Pcs, Queued
<1>3. PICK x : x = [handler[h] EXCEPT !.pc = pc]
  OBVIOUS
<1>4. /\ x \in Execution /\ x.pc = pc /\ x.key = handler[h].key
      /\ x.at = handler[h].at /\ x.outcome = handler[h].outcome
  BY <1>1, <1>2, <1>3, AnotherStep
<1>5. handler' = [handler EXCEPT ![h] = x] /\ UNCHANGED tail
  BY <1>3 DEF Goto
<1>6. Arranged' /\ handler'[h] = x /\ \A g \in Handlers \ {h} : handler'[g] = handler[g]
  BY <1>1, <1>4, <1>5, GoesOn
<1>7. QED
  BY <1>4, <1>6

\* The spacing, when an execution goes on or leaves and no turn starts.
LEMMA SameSpacing ==
    ASSUME IInv, NEW h \in Handlers, handler[h].pc \in Queued,
           UNCHANGED <<last, started, clock, tick>>, DOMAIN fires \subseteq DOMAIN fires',
           \/ h[1] = "tick" => handler'[h].pc = "idle"
           \/ handler'[h].key = handler[h].key /\ handler'[h].at = handler[h].at,
           \A g \in Handlers \ {h} : handler'[g] = handler[g]
    PROVE  Scheduled'
<1>1. clock' \in Nat /\ clock <= clock'
  BY BoundsAreNat DEF IInv, Typed, Moments
<1>2. ASSUME NEW a \in Automations
      PROVE  \/ handler'[<<"tick", a>>].pc = "idle"
             \/ /\ handler[<<"tick", a>>].pc # "idle"
                /\ handler'[<<"tick", a>>].key = handler[<<"tick", a>>].key
                /\ handler'[<<"tick", a>>].at = handler[<<"tick", a>>].at
             \/ handler'[<<"tick", a>>] = handler[<<"tick", a>>]
  <2>1. <<"tick", a>> \in Handlers /\ <<"tick", a>>[1] = "tick"
    BY HandlerForms
  <2>2. handler[h].pc # "idle"
    BY DEF Queued, Active
  <2>3. CASE <<"tick", a>> = h
    BY <2>1, <2>2, <2>3
  <2>4. CASE <<"tick", a>> # h
    BY <2>1, <2>4
  <2>5. QED
    BY <2>3, <2>4
<1>3. \A a \in Automations :
          \/ handler'[<<"tick", a>>].pc = "idle"
          \/ /\ handler[<<"tick", a>>].pc # "idle"
             /\ handler'[<<"tick", a>>].key = handler[<<"tick", a>>].key
             /\ handler'[<<"tick", a>>].at = handler[<<"tick", a>>].at
  BY <1>2
<1>4. QED
  BY <1>1, <1>3, SpacingKept

\* An execution that finds its key fired leaves; lastRunAt may advance to it.
LEMMA FoundFired ==
    ASSUME IInv, NEW h \in Handlers, handler[h].pc \in Queued, Head(tail[ThreadOf(h)]) = h,
           SyncExisting(h), Release(h),
           UNCHANGED <<fires, latest, up, tick, userRun, started, clock, crashes>>
    PROVE  IInv'
<1>1. /\ Arranged' /\ handler'[h].pc \in {"idle", "done"} /\ (h[1] = "tick" => handler'[h].pc = "idle")
      /\ \A g \in Handlers \ {h} : handler'[g] = handler[g]
  BY Leaves
<1>2. Recorded'
  BY <1>1, NoRecord
<1>3. PICK b \in Automations : b = AutoOf(handler[h].key)
  BY ThreadOfHandler DEF IInv
<1>4. CASE UNCHANGED last
  <2>1. Scheduled'
    BY <1>1, <1>4, SameSpacing
  <2>2. Booked' /\ Noted'
    BY <1>4, Parts DEF Booked, Noted
  <2>3. QED
    BY <1>1, <1>2, <2>1, <2>2, PartsNext
<1>5. CASE KindOf(handler[h].key) = "scheduled" /\ last' = [last EXCEPT ![b] = handler[h].at]
  <2>1. handler[h].pc \notin {"idle", "done"}
    BY DEF Queued, Active
  <2>2. h[1] = "tick"
    BY <1>5, <2>1, HandlerForms DEF IInv, Named
  <2>3. Scheduled'
    BY <1>1, <1>3, <1>5, <2>2, LastMoved
  <2>4. handler[h].at \in Moments
    BY DEF IInv, Typed, Execution
  <2>5. last' \in [Automations -> {Never} \cup Moments]
    BY <1>5, <2>4 DEF IInv, Typed
  <2>6. Booked' /\ Noted'
    BY <2>5, Parts DEF Booked, Noted
  <2>7. QED
    BY <1>1, <1>2, <2>3, <2>6, PartsNext
<1>6. QED
  BY <1>3, <1>4, <1>5 DEF SyncExisting

\* An execution looks its key up: fired, busy, or to be claimed.
LEMMA LookupStep ==
    ASSUME IInv, NEW h \in Handlers, Lookup(h)
    PROVE  IInv'
<1> DEFINE fired == Known(handler[h].key) /\ fires[handler[h].key].status # "skipped_busy"
<1>1. Runs(h, "lookup") /\ UNCHANGED <<up, tick, userRun, started, clock, crashes>>
  BY DEF Lookup, bounds
<1>2. /\ handler[h].pc = "lookup" /\ handler[h].pc \in Queued /\ Head(tail[ThreadOf(h)]) = h
      /\ handler[h] \in Execution /\ handler[h].key \in Keys
  BY <1>1, Running DEF Queued
<1>3. CASE fired /\ SyncExisting(h) /\ Release(h) /\ UNCHANGED <<fires, latest>>
  BY <1>1, <1>2, <1>3, FoundFired
<1>4. CASE RecordSkippedBusy(handler[h].key) /\ Release(h) /\ UNCHANGED last
  <2>1. /\ Arranged' /\ handler'[h].pc \in {"idle", "done"} /\ (h[1] = "tick" => handler'[h].pc = "idle")
        /\ \A g \in Handlers \ {h} : handler'[g] = handler[g]
    BY <1>1, <1>2, <1>4, Leaves
  <2>2. PICK k \in Keys : k = handler[h].key
    BY <1>2
  <2>3. /\ Booked' /\ DOMAIN fires \subseteq DOMAIN fires' /\ Fired(k)'
        /\ \A l \in DOMAIN fires : fires'[l] = fires[l]
        /\ \A l \in Keys \ {k} : l \in DOMAIN fires' <=> l \in DOMAIN fires
    BY <1>1, <1>4, <2>2, SkippedBusy
  <2>4. \A l \in Keys : Fired(l)'
    <3>1. ASSUME NEW l \in Keys \ {k} PROVE Fired(l)'
      <4>1. Fired(l) /\ (l \in DOMAIN fires' <=> l \in DOMAIN fires)
        BY <2>3 DEF IInv
      <4>2. QED
        BY <1>1, <2>3, <4>1 DEF Fired, Known
    <3>2. QED
      BY <2>3, <3>1
  <2>5. \A g \in Handlers : Executed(g)'
    <3>1. Executed(h)'
      BY <2>1 DEF Executed
    <3>2. ASSUME NEW g \in Handlers \ {h} PROVE Executed(g)'
      <4>1. Executed(g) /\ handler'[g] = handler[g]
        BY <2>1 DEF IInv
      <4>2. QED
        BY <1>1, <2>3, <4>1 DEF Executed, Known
    <3>3. QED
      BY <3>1, <3>2
  <2>6. Scheduled'
    BY <1>1, <1>2, <1>4, <2>1, <2>3, SameSpacing
  <2>7. Noted'
    BY <1>1, <1>4, Parts DEF Noted
  <2>8. Recorded'
    BY <2>4, <2>5 DEF Recorded
  <2>9. QED
    BY <2>1, <2>3, <2>6, <2>7, <2>8, PartsNext
<1>5. CASE Goto(h, "claim") /\ UNCHANGED <<last, fires, latest>>
  <2>1. "claim" \in Active /\ "lookup" \in Queued
    BY DEF Active, Queued
  <2>2. /\ Arranged' /\ \A g \in Handlers \ {h} : handler'[g] = handler[g]
        /\ handler'[h].pc = "claim" /\ handler'[h].key = handler[h].key
        /\ handler'[h].at = handler[h].at /\ handler'[h].outcome = handler[h].outcome
    BY <1>1, <1>5, <2>1, Moves
  <2>3. Executed(h)'
    BY <1>2, <2>2 DEF IInv, Executed
  <2>4. \A g \in Handlers \ {h} : Executed(g)'
    <3>1. ASSUME NEW g \in Handlers \ {h} PROVE Executed(g)'
      <4>1. Executed(g) /\ handler'[g] = handler[g]
        BY <2>2 DEF IInv
      <4>2. QED
        BY <1>1, <1>5, <4>1 DEF Executed, Known
    <3>2. QED
      BY <3>1
  <2>5. Recorded'
    BY <1>1, <1>5, <2>3, <2>4 DEF IInv, Recorded, Fired, Known
  <2>6. Scheduled'
    BY <1>1, <1>2, <1>5, <2>2, SameSpacing
  <2>7. Booked' /\ Noted'
    BY <1>1, <1>5, Parts DEF Booked, Noted
  <2>8. QED
    BY <2>2, <2>5, <2>6, <2>7, PartsNext
<1>6. QED
  BY <1>3, <1>4, <1>5 DEF Lookup

\* An execution claims its key, or finds that another one has.
LEMMA ClaimStep ==
    ASSUME IInv, NEW h \in Handlers, Claim(h)
    PROVE  IInv'
<1>1. Runs(h, "claim") /\ UNCHANGED <<up, tick, userRun, started, clock, crashes>>
  BY DEF Claim, bounds
<1>2. "start" \in Active /\ "claim" \in Queued
  BY DEF Active, Queued
<1>3. /\ handler[h].pc = "claim" /\ handler[h].pc \in Queued /\ Head(tail[ThreadOf(h)]) = h
      /\ handler[h].outcome = "none"
  BY <1>1, <1>2, Running DEF IInv, Executed
<1>4. PICK k \in Keys : k = handler[h].key
  BY <1>1, <1>2, Running
<1>5. CASE SyncExisting(h) /\ Release(h) /\ UNCHANGED <<fires, latest>>
  BY <1>1, <1>3, <1>5, FoundFired
<1>6. CASE /\ Goto(h, "start") /\ UNCHANGED last
           /\ \/ ~Known(k) /\ Create(k, "started")
              \/ /\ Known(k) /\ MayClaim(k) /\ UNCHANGED latest
                 /\ fires' = [fires EXCEPT ![k].status = "started"]
  <2>1. /\ Arranged' /\ \A g \in Handlers \ {h} : handler'[g] = handler[g]
        /\ handler'[h].pc = "start" /\ handler'[h].key = k
        /\ handler'[h].at = handler[h].at /\ handler'[h].outcome = "none"
    BY <1>1, <1>2, <1>3, <1>4, <1>6, Moves
  <2>2. started[k] = <<>>
    BY <1>6 DEF IInv, Fired, MayClaim
  <2>3. /\ Booked' /\ DOMAIN fires' = DOMAIN fires \cup {k} /\ fires'[k].status = "started"
        /\ \A l \in DOMAIN fires \ {k} : fires'[l] = fires[l]
    <3>1. CASE ~Known(k) /\ Create(k, "started")
      <4>1. /\ Booked' /\ DOMAIN fires' = DOMAIN fires \cup {k}
            /\ fires'[k] = [status |-> "started", turn |-> "none"]
            /\ \A l \in DOMAIN fires \ {k} : fires'[l] = fires[l]
        BY <3>1, Created DEF IInv
      <4>2. QED
        BY <4>1
    <3>2. CASE Known(k) /\ fires' = [fires EXCEPT ![k].status = "started"] /\ UNCHANGED latest
      <4>1. k \in DOMAIN fires /\ fires[k] \in Fire /\ Typed
        BY <3>2 DEF Known, IInv, Typed
      <4>2. PICK x : x = [fires[k] EXCEPT !.status = "started"]
        OBVIOUS
      <4>3. x \in Fire /\ x.status = "started"
        BY <4>1, <4>2 DEF Fire
      <4>4. fires' = [fires EXCEPT ![k] = x]
        BY <3>2, <4>2
      <4>5. /\ Booked' /\ DOMAIN fires' = DOMAIN fires /\ fires'[k] = x
            /\ \A l \in DOMAIN fires \ {k} : fires'[l] = fires[l]
        BY <3>2, <4>1, <4>3, <4>4, Updated
      <4>6. QED
        BY <4>1, <4>3, <4>5
    <3>3. QED
      BY <1>6, <3>1, <3>2
  <2>4. Fired(k)' /\ Executed(h)'
    BY <1>1, <2>1, <2>2, <2>3 DEF Fired, Executed, Known
  <2>5. \A l \in Keys \ {k} : /\ l \in DOMAIN fires' <=> l \in DOMAIN fires
                              /\ l \in DOMAIN fires => fires'[l] = fires[l]
                              /\ started'[l] = started[l]
    BY <1>1, <2>3
  <2>6. Recorded'
    BY <1>3, <1>4, <2>1, <2>4, <2>5, OneRecord
  <2>7. Scheduled'
    BY <1>1, <1>3, <1>4, <1>6, <2>1, <2>3, SameSpacing
  <2>8. Noted'
    BY <1>1, <1>6, Parts DEF Noted
  <2>9. QED
    BY <2>1, <2>3, <2>6, <2>7, <2>8, PartsNext
<1>7. QED
  BY <1>4, <1>5, <1>6 DEF Claim

\* The turn of a scheduled fire starts one interval after the last one, because
\* its slot is the one that follows lastRunAt.
LEMMA StartIsSpaced ==
    ASSUME IInv, NEW h \in Handlers, handler[h].pc = "start",
           NEW k \in Keys, k = handler[h].key,
           handler'[h].pc = "bind", handler'[h].key = k, handler'[h].at = handler[h].at,
           \A g \in Handlers \ {h} : handler'[g] = handler[g],
           started' = [started EXCEPT ![k] = <<handler[h].at>>],
           UNCHANGED <<last, fires, tick, clock>>,
           NEW a \in Automations \ Cron, OnlyScheduled(a)
    PROVE  Spaced(a)'
<1>1. Spaced(a)
  BY DEF IInv
<1>2. /\ started \in [Keys -> Seq(Moments)] /\ clock \in Nat /\ last[a] \in {Never} \cup Nat
      /\ Period \in Nat \ {0}
  BY BoundsAreNat DEF IInv, Typed, Moments
<1>3. \A l \in Keys \ {k} : started'[l] = started[l]
  BY <1>2
<1>4. CASE AutoOf(k) # a
  <2>1. \A l \in KeysOf(a) : started'[l] = started[l]
    BY <1>3, <1>4 DEF KeysOf
  <2>2. h[1] = "tick" => h[2] = AutoOf(k)
    BY DEF IInv, Named
  <2>3. <<"tick", a>> # h /\ <<"tick", a>> \in Handlers
    <3>1. <<"tick", a>>[1] = "tick" /\ <<"tick", a>>[2] = a
      OBVIOUS
    <3>2. QED
      BY <1>4, <2>2, <3>1, HandlerForms
  <2>4. handler'[<<"tick", a>>] = handler[<<"tick", a>>]
    BY <2>3
  <2>5. clock' \in Nat /\ clock <= clock' /\ last'[a] = last[a]
    BY <1>2
  <2>6. \/ handler'[<<"tick", a>>].pc = "idle"
        \/ /\ handler[<<"tick", a>>].pc # "idle"
           /\ handler'[<<"tick", a>>].key = handler[<<"tick", a>>].key
           /\ handler'[<<"tick", a>>].at = handler[<<"tick", a>>].at
    BY <2>4
  <2>7. QED
    BY <1>1, <2>1, <2>5, <2>6, SpacedKept
<1>5. CASE AutoOf(k) = a
  <2>1. Known(k)
    BY DEF IInv, Executed
  <2>2. KindOf(k) = "scheduled"
    BY <1>5, <2>1 DEF OnlyScheduled, Known
  <2>3. h = <<"tick", a>> /\ h[1] = "tick"
    BY <1>5, <2>2, HandlerForms DEF IInv, Named
  <2>4. PICK n \in Nat : n = handler[h].at
    BY BoundsAreNat DEF IInv, Typed, Execution, Moments
  <2>5. /\ last[a] # Never /\ k = ScheduledKey(a, last[a] + Period)
        /\ n >= last[a] + Period /\ n <= clock
    BY <1>1, <2>3, <2>4 DEF Spaced, NextSlot
  <2>6. PICK d \in Nat : d = last[a]
    BY <1>2, <2>5
  <2>7. k[3] = d + Period
    BY <2>5, <2>6 DEF ScheduledKey
  <2>8. tick.pc = "executing"
    BY <2>3, TickExecutes DEF Queued, Active
  <2>9. started'[k] = <<n>>
    BY <1>2, <2>4
  <2>10. ASSUME NEW l \in KeysOf(a), l # k, NEW m \in DOMAIN started[l]
         PROVE  /\ started[l][m] \in Nat /\ l[3] \in Nat /\ l[3] <= started[l][m] /\ started[l][m] <= d
    <3>1. l \in Keys /\ AutoOf(l) = a
      BY DEF KeysOf
    <3>2. PICK x \in Nat : x = started[l][m]
      BY <1>2, <3>1, BoundsAreNat DEF Moments
    <3>3. Dated(a, l[3], x)
      BY <1>1, <3>2 DEF Spaced
    <3>4. Known(l)
      BY <3>1 DEF IInv, Fired
    <3>5. l = ScheduledKey(a, l[3]) /\ l[3] \in Nat
      BY <3>1, <3>4, KeyForms DEF OnlyScheduled, Known
    <3>6. l[3] # d + Period
      BY <2>5, <2>6, <2>10, <3>5
    <3>7. QED
      BY <2>6, <3>2, <3>3, <3>5, <3>6 DEF Dated
  <2>11. \A m \in DOMAIN started'[k] : started'[k][m] = n
    BY <2>9
  <2>12. ASSUME NEW i \in KeysOf(a), NEW j \in KeysOf(a), i[3] < j[3],
                NEW m \in DOMAIN started'[i], NEW x \in DOMAIN started'[j]
         PROVE  started'[i][m] + Period <= started'[j][x]
    <3>1. i \in Keys /\ j \in Keys
      BY DEF KeysOf
    <3>2. CASE i # k /\ j # k
      BY <1>1, <1>3, <2>12, <3>1, <3>2 DEF Spaced
    <3>3. CASE i # k /\ j = k
      <4>1. started'[i] = started[i] /\ started'[j][x] = n
        BY <1>3, <2>11, <3>1, <3>3
      <4>2. started[i][m] \in Nat /\ started[i][m] <= d
        BY <2>10, <3>3, <4>1
      <4>3. QED
        BY <1>2, <2>5, <2>6, <4>1, <4>2
    <3>4. CASE i = k /\ j # k
      <4>1. started'[j] = started[j]
        BY <1>3, <3>1, <3>4
      <4>2. j[3] \in Nat /\ started[j][x] \in Nat /\ j[3] <= started[j][x] /\ started[j][x] <= d
        BY <2>10, <3>4, <4>1
      <4>3. QED
        BY <1>2, <2>7, <2>12, <3>4, <4>2
    <3>5. CASE i = k /\ j = k
      BY <1>2, <2>6, <2>7, <2>12, <3>5
    <3>6. QED
      BY <3>2, <3>3, <3>4, <3>5
  <2>13. ASSUME NEW l \in KeysOf(a), NEW m \in DOMAIN started'[l] PROVE Dated(a, l[3], started[l][m])'
    <3>1. l \in Keys
      BY DEF KeysOf
    <3>2. CASE l = k
      <4>1. Dated(a, d + Period, n)'
        BY <2>3, <2>4, <2>5, <2>6, <2>8 DEF Dated
      <4>2. started'[l][m] = n
        BY <2>11, <3>2
      <4>3. QED
        BY <2>7, <3>2, <4>1, <4>2
    <3>3. CASE l # k
      <4>1. started'[l] = started[l]
        BY <1>3, <3>1, <3>3
      <4>2. PICK x \in Nat : x = started[l][m]
        BY <2>10, <3>3, <4>1
      <4>3. Dated(a, l[3], x)
        BY <1>1, <4>1, <4>2 DEF Spaced
      <4>4. handler[h].pc # "idle"
        OBVIOUS
      <4>5. Dated(a, l[3], x)'
        BY <2>3, <2>8, <4>3, <4>4 DEF Dated
      <4>6. QED
        BY <4>1, <4>2, <4>5
    <3>4. QED
      BY <3>2, <3>3
  <2>14. NextSlot(a)'
    BY <2>3, <2>4, <2>5, <2>8 DEF NextSlot
  <2>15. QED
    BY <2>12, <2>13, <2>14 DEF Spaced
<1>6. QED
  BY <1>4, <1>5

\* The turn starts: the first for its key.
LEMMA StartTurnStep ==
    ASSUME IInv, NEW h \in Handlers, StartTurn(h)
    PROVE  IInv'
<1>1. /\ Runs(h, "start") /\ Goto(h, "bind")
      /\ UNCHANGED <<up, last, fires, latest, tick, userRun, clock, crashes>>
  BY DEF StartTurn, bounds
<1>2. "bind" \in Active /\ "start" \in Queued
  BY DEF Active, Queued
<1>3. /\ handler[h].pc = "start" /\ handler[h].pc \in Queued /\ Head(tail[ThreadOf(h)]) = h
      /\ handler[h].at \in Moments
  BY <1>1, <1>2, Running
<1>4. PICK k \in Keys : k = handler[h].key
  BY <1>1, <1>2, Running
<1>5. /\ Arranged' /\ \A g \in Handlers \ {h} : handler'[g] = handler[g]
      /\ handler'[h].pc = "bind" /\ handler'[h].key = k
      /\ handler'[h].at = handler[h].at /\ handler'[h].outcome = handler[h].outcome
  BY <1>1, <1>2, <1>4, Moves
<1>6. Known(k) /\ fires[k].status = "started" /\ started[k] = <<>> /\ handler[h].outcome = "none"
  BY <1>3, <1>4 DEF IInv, Executed
<1>7. PICK n \in Moments : n = handler[h].at
  BY <1>3
<1>8. Append(started[k], n) = <<n>>
  BY <1>6
<1>9. started' = [started EXCEPT ![k] = <<n>>]
  BY <1>4, <1>7, <1>8 DEF StartTurn
<1>10. <<n>> \in Seq(Moments) /\ Len(<<n>>) = 1
  OBVIOUS
<1>11. started' \in [Keys -> Seq(Moments)] /\ started'[k] = <<n>> /\ \A l \in Keys \ {k} : started'[l] = started[l]
  BY <1>9, <1>10 DEF IInv, Typed
<1>12. Fired(k)' /\ Executed(h)'
  BY <1>1, <1>5, <1>6, <1>10, <1>11 DEF Fired, Executed, Known
<1>13. Recorded'
  BY <1>1, <1>3, <1>4, <1>5, <1>11, <1>12, OneRecord
<1>14. ASSUME NEW a \in Automations \ Cron, OnlyScheduled(a)' PROVE Spaced(a)'
  <2>1. OnlyScheduled(a)
    BY <1>1, <1>14 DEF OnlyScheduled
  <2>2. started' = [started EXCEPT ![k] = <<handler[h].at>>]
    BY <1>7, <1>9
  <2>3. QED
    BY <1>1, <1>3, <1>4, <1>5, <2>1, <2>2, StartIsSpaced
<1>15. Scheduled'
  BY <1>14 DEF Scheduled
<1>16. Booked' /\ Noted'
  BY <1>1, <1>11, Parts DEF Booked, Noted
<1>17. QED
  BY <1>5, <1>13, <1>15, <1>16, PartsNext

\* The run ended before it had a turn.
LEMMA RefusedStep ==
    ASSUME IInv, NEW h \in Handlers, Refused(h)
    PROVE  IInv'
<1>1. PICK outcome \in Refusals : handler' = [handler EXCEPT ![h].pc = "finish", ![h].outcome = outcome]
  BY DEF Refused
<1>2. Runs(h, "start") /\ UNCHANGED <<up, last, fires, latest, tick, tail, userRun, started, clock, crashes>>
  BY DEF Refused, bounds
<1>3. "start" \in Queued /\ "finish" \in Active /\ "finish" \in Pcs
  BY DEF Queued, Active, Pcs
<1>4. /\ handler[h].pc = "start" /\ handler[h].pc \in Queued /\ Head(tail[ThreadOf(h)]) = h
      /\ handler[h] \in Execution
  BY <1>2, <1>3, Running
<1>5. PICK k \in Keys : k = handler[h].key
  BY <1>2, <1>3, Running
<1>6. PICK x : x = [handler[h] EXCEPT !.pc = "finish", !.outcome = outcome]
  OBVIOUS
<1>7. x \in Execution /\ x.pc = "finish" /\ x.key = k /\ x.at = handler[h].at /\ x.outcome = outcome
  BY <1>3, <1>4, <1>5, <1>6 DEF Execution
<1>8. handler' = [handler EXCEPT ![h] = x]
  BY <1>1, <1>6
<1>9. Arranged' /\ handler'[h] = x /\ \A g \in Handlers \ {h} : handler'[g] = handler[g]
  BY <1>2, <1>3, <1>4, <1>5, <1>7, <1>8, GoesOn
<1>10. Known(k) /\ fires[k].status = "started" /\ started[k] = <<>> /\ Fired(k)
  BY <1>4, <1>5 DEF IInv, Executed
<1>11. Fired(k)' /\ Executed(h)'
  BY <1>2, <1>7, <1>9, <1>10 DEF Fired, Executed, Known
<1>12. Recorded'
  BY <1>2, <1>4, <1>5, <1>9, <1>11, OneRecord
<1>13. Scheduled'
  BY <1>2, <1>4, <1>5, <1>7, <1>9, SameSpacing
<1>14. Booked' /\ Noted'
  BY <1>2, Parts DEF Booked, Noted
<1>15. QED
  BY <1>9, <1>12, <1>13, <1>14, PartsNext

\* The record of a fire that goes on gets another turn or status, which agree.
LEMMA RecordMoves ==
    ASSUME IInv, NEW h \in Handlers, NEW from \in {"bind", "running", "finish"}, Runs(h, from),
           NEW pc \in Active, Goto(h, pc), NEW k \in Keys, k = handler[h].key,
           NEW x \in Fire, fires' = [fires EXCEPT ![k] = x],
           \/ pc = "save"
           \/ pc \in {"running", "finish"} /\ x.status = "started" /\ handler[h].outcome = "none",
           x.status # "skipped_busy",
           x.status = "completed" => x.turn = "completed",
           x.status = "failed" => x.turn = "failed" \/ started[k] = <<>>,
           UNCHANGED <<up, last, latest, tick, started, clock, crashes>>,
           userRun' \in [Threads -> {"none", "turn", "waiting"}]
    PROVE  IInv'
<1>1. from \in Queued /\ handler[h].pc = from
  BY DEF Queued, Active, Runs
<1>2. handler[h].pc \in Queued /\ Head(tail[ThreadOf(h)]) = h
  BY <1>1, Running
<1>3. /\ Arranged' /\ \A g \in Handlers \ {h} : handler'[g] = handler[g]
      /\ handler'[h].pc = pc /\ handler'[h].key = k
      /\ handler'[h].at = handler[h].at /\ handler'[h].outcome = handler[h].outcome
  BY <1>1, Moves
<1>4. Known(k) /\ k \in DOMAIN fires /\ Fired(k) /\ Executed(h)
  BY <1>1 DEF IInv, Executed, Known
<1>5. /\ Booked' /\ DOMAIN fires' = DOMAIN fires /\ fires'[k] = x
      /\ \A l \in DOMAIN fires \ {k} : fires'[l] = fires[l]
  BY <1>4, Updated DEF IInv
<1>6. Fired(k)'
  BY <1>4, <1>5 DEF Fired, Known
<1>7. Executed(h)'
  BY <1>3, <1>4, <1>5 DEF Executed, Known
<1>8. Recorded'
  BY <1>2, <1>3, <1>5, <1>6, <1>7, OneRecord
<1>9. Scheduled'
  BY <1>2, <1>3, <1>5, SameSpacing
<1>10. Noted'
  BY Parts DEF Noted
<1>11. QED
  BY <1>3, <1>5, <1>8, <1>9, <1>10, PartsNext

\* The steps that change the record: the turn is bound, ...
LEMMA BindTurnStep ==
    ASSUME IInv, NEW h \in Handlers, BindTurn(h)
    PROVE  IInv'
<1>1. Runs(h, "bind") /\ Goto(h, "running") /\ UNCHANGED <<latest, up, last, tick, userRun, started, clock, crashes>>
  BY DEF BindTurn, bounds
<1>2. "bind" \in Queued /\ "running" \in Active
  BY DEF Queued, Active
<1>3. PICK k \in Keys : k = handler[h].key
  BY <1>1, <1>2, Running
<1>4. handler[h].pc = "bind"
  BY <1>1 DEF Runs
<1>5. k \in DOMAIN fires /\ fires[k].status = "started" /\ handler[h].outcome = "none" /\ fires[k] \in Fire
  BY <1>3, <1>4 DEF IInv, Executed, Known, Typed
<1>6. PICK x : x = [fires[k] EXCEPT !.turn = "open"]
  OBVIOUS
<1>7. x \in Fire /\ x.status = "started"
  BY <1>5, <1>6 DEF Fire
<1>8. fires' = [fires EXCEPT ![k] = x]
  BY <1>3, <1>6 DEF BindTurn
<1>9. userRun' \in [Threads -> {"none", "turn", "waiting"}]
  BY <1>1 DEF IInv, Typed
<1>10. QED
  BY <1>1, <1>2, <1>3, <1>5, <1>7, <1>8, <1>9, RecordMoves

\* ... it ends, ...
LEMMA EndRunStep ==
    ASSUME IInv, NEW h \in Handlers, EndRun(h)
    PROVE  IInv'
<1>1. Runs(h, "running") /\ Goto(h, "finish") /\ UNCHANGED <<up, last, latest, tick, started, clock, crashes>>
  BY DEF EndRun, bounds
<1>2. "running" \in Queued /\ "finish" \in Active
  BY DEF Queued, Active
<1>3. PICK k \in Keys : k = handler[h].key
  BY <1>1, <1>2, Running
<1>4. handler[h].pc = "running" /\ ThreadOf(h) \in Threads
  BY <1>1, <1>2, Running
<1>5. k \in DOMAIN fires /\ fires[k].status = "started" /\ handler[h].outcome = "none" /\ fires[k] \in Fire
  BY <1>3, <1>4 DEF IInv, Executed, Known, Typed
<1>6. PICK turn \in Ends :
         /\ fires' = [fires EXCEPT ![k].turn = turn]
         /\ UNCHANGED userRun \/ userRun' = [userRun EXCEPT ![ThreadOf(h)] = "waiting"]
  BY <1>3 DEF EndRun
<1>7. PICK x : x = [fires[k] EXCEPT !.turn = turn]
  OBVIOUS
<1>8. x \in Fire /\ x.status = "started"
  BY <1>5, <1>7 DEF Fire
<1>9. fires' = [fires EXCEPT ![k] = x]
  BY <1>6, <1>7
<1>10. userRun' \in [Threads -> {"none", "turn", "waiting"}]
  BY <1>4, <1>6 DEF IInv, Typed
<1>11. QED
  BY <1>1, <1>2, <1>3, <1>5, <1>8, <1>9, <1>10, RecordMoves

\* ... and the fire gets the outcome that the turn proves.
LEMMA FinishStep ==
    ASSUME IInv, NEW h \in Handlers, Finish(h)
    PROVE  IInv'
<1>1. Runs(h, "finish") /\ Goto(h, "save") /\ UNCHANGED <<latest, up, last, tick, userRun, started, clock, crashes>>
  BY DEF Finish, bounds
<1>2. "finish" \in Queued /\ "save" \in Active
  BY DEF Queued, Active
<1>3. PICK k \in Keys : k = handler[h].key
  BY <1>1, <1>2, Running
<1>4. handler[h].pc = "finish" /\ handler[h] \in Execution
  BY <1>1, <1>2, Running
<1>5. /\ k \in DOMAIN fires /\ fires[k].status = "started" /\ fires[k] \in Fire
      /\ handler[h].outcome # "none" => started[k] = <<>>
  BY <1>3, <1>4 DEF IInv, Executed, Known, Typed
<1>6. PICK outcome : outcome = IF handler[h].outcome = "none" THEN Outcome(fires[k].turn) ELSE handler[h].outcome
  OBVIOUS
<1>7. fires' = [fires EXCEPT ![k] = Finished(fires[k], outcome)]
  BY <1>3, <1>6 DEF Finish
<1>8. handler[h].outcome \in {"none", "failed", "unknown"}
  BY <1>4, EndsAreKnown DEF Execution
<1>9. /\ outcome \in {"completed", "failed", "unknown"}
      /\ outcome = "completed" => fires[k].turn = "completed"
      /\ outcome = "failed" => fires[k].turn = "failed" \/ started[k] = <<>>
  BY <1>5, <1>6, <1>8 DEF Outcome
<1>10. PICK x : x = [fires[k] EXCEPT !.status = outcome]
  OBVIOUS
<1>11. x \in Fire /\ x.status = outcome /\ x.turn = fires[k].turn
  BY <1>5, <1>9, <1>10 DEF Fire
<1>12. fires' = [fires EXCEPT ![k] = x]
  BY <1>5, <1>7, <1>10 DEF Finished
<1>13. userRun' \in [Threads -> {"none", "turn", "waiting"}]
  BY <1>1 DEF IInv, Typed
<1>14. QED
  <2>1. /\ x.status # "skipped_busy"
        /\ x.status = "completed" => x.turn = "completed"
        /\ x.status = "failed" => x.turn = "failed" \/ started[k] = <<>>
    BY <1>9, <1>11
  <2>2. x \in Fire /\ "finish" \in {"bind", "running", "finish"}
    BY <1>11
  <2>3. QED
    BY <1>1, <1>2, <1>3, <1>12, <1>13, <2>1, <2>2, RecordMoves

\* The moment of the fire becomes lastRunAt.
LEMMA SaveStep ==
    ASSUME IInv, NEW h \in Handlers, Save(h)
    PROVE  IInv'
<1>1. Runs(h, "save") /\ Release(h) /\ UNCHANGED <<up, fires, latest, tick, userRun, started, clock, crashes>>
  BY DEF Save, bounds
<1>2. "save" \in Queued
  BY DEF Queued, Active
<1>3. /\ handler[h].pc = "save" /\ handler[h].pc \in Queued /\ Head(tail[ThreadOf(h)]) = h
      /\ handler[h].at \in Moments /\ handler[h].key \in Keys
  BY <1>1, <1>2, Running
<1>4. PICK b \in Automations : b = AutoOf(handler[h].key)
  BY <1>1, <1>2, Running
<1>5. last' = [last EXCEPT ![b] = handler[h].at]
  BY <1>4 DEF Save
<1>6. /\ Arranged' /\ handler'[h].pc \in {"idle", "done"} /\ (h[1] = "tick" => handler'[h].pc = "idle")
      /\ \A g \in Handlers \ {h} : handler'[g] = handler[g]
  BY <1>1, <1>3, Leaves
<1>7. Recorded'
  BY <1>1, <1>6, NoRecord
<1>8. h[1] = "tick" \/ ~OnlyScheduled(b)
  <2>1. handler[h].key \in DOMAIN fires
    BY <1>3 DEF IInv, Executed, Known
  <2>2. h[1] = "tick" \/ KindOf(handler[h].key) = "manual"
    BY <1>3, HandlerForms DEF IInv, Named
  <2>3. QED
    BY <1>4, <2>1, <2>2 DEF OnlyScheduled
<1>9. Scheduled'
  BY <1>1, <1>3, <1>4, <1>5, <1>6, <1>8, LastMoved
<1>10. last' \in [Automations -> {Never} \cup Moments]
  BY <1>3, <1>5 DEF IInv, Typed
<1>11. Booked' /\ Noted'
  BY <1>1, <1>10, Parts DEF Booked, Noted
<1>12. QED
  BY <1>6, <1>7, <1>9, <1>11, PartsNext

-----------------------------------------------------------------------------
(* The host                                                                *)

\* A crash forgets every execution and every tail.
LEMMA CrashStep ==
    ASSUME IInv, Crash
    PROVE  IInv'
<1>1. /\ up' = FALSE /\ crashes < MaxCrashes /\ crashes' = crashes + 1 /\ tick' = NoTick
      /\ handler' = [h \in Handlers |-> IF h[1] = "tick" \/ handler[h].pc = "idle" THEN NoHandler
                                        ELSE [NoHandler EXCEPT !.pc = "done"]]
      /\ tail' = [t \in Threads |-> <<>>]
      /\ userRun' \in [Threads -> {"none", "waiting"}]
      /\ UNCHANGED <<clock, last, fires, latest, started>>
  BY DEF Crash
<1>2. /\ handler' \in [Handlers -> Execution]
      /\ \A h \in Handlers : handler'[h].pc \in {"idle", "done"}
      /\ \A h \in Handlers : h[1] = "tick" => handler'[h].pc = "idle"
  BY <1>1, EmptyExecution
<1>3. \A t \in Threads : tail'[t] = <<>> /\ tail'[t] \in Seq(Handlers)
  BY <1>1
<1>4. tail' \in [Threads -> Seq(Handlers)]
  BY <1>1, <1>3
<1>5. \A t \in Threads : Waiting(t, tail'[t], handler')
  <2>1. \A h \in Handlers : handler'[h].pc \notin Queued
    BY <1>2 DEF Queued, Active
  <2>2. ASSUME NEW t \in Threads PROVE Waiting(t, <<>>, handler')
    BY <2>1 DEF Waiting
  <2>3. QED
    BY <1>3, <2>2
<1>6. \A a \in Automations : handler'[<<"tick", a>>].pc = "idle"
  BY <1>2, HandlerForms
<1>7. tick' \in Ticks /\ tick'.pc = "idle" /\ tick'.at = 0 /\ clock \in Nat
  BY <1>1, EmptyExecution, BoundsAreNat DEF IInv, Typed, Moments
<1>8. Ticking'
  BY <1>1, <1>2, <1>6, <1>7 DEF Ticking
<1>9. \A h \in Handlers : Named(h)' /\ Executed(h)'
  BY <1>2 DEF Named, Executed
<1>10. Arranged'
  BY <1>2, <1>4, <1>5, <1>8, <1>9 DEF Arranged
<1>11. Recorded'
  BY <1>1, <1>9 DEF IInv, Recorded, Fired, Known
<1>12. Scheduled'
  <2>1. clock' \in Nat /\ clock <= clock' /\ tick'.pc # "evaluate"
    BY <1>1, <1>7
  <2>2. UNCHANGED <<last, started>> /\ DOMAIN fires \subseteq DOMAIN fires'
    BY <1>1
  <2>3. QED
    BY <1>6, <2>1, <2>2, SpacingKept
<1>13. Booked'
  BY <1>1, Parts DEF Booked
<1>14. crashes' \in 0..MaxCrashes
  BY <1>1, BoundsAreNat DEF IInv, Typed
<1>15. userRun' \in [Threads -> {"none", "turn", "waiting"}]
  BY <1>1
<1>16. Noted'
  BY <1>1, <1>7, <1>14, <1>15 DEF IInv, Typed, Noted
<1>17. QED
  BY <1>10, <1>11, <1>12, <1>13, <1>16, PartsNext

\* Reconciliation never turns an outcome into another, and proves none that the
\* turn does not.
LEMMA RestartStep ==
    ASSUME IInv, Restart
    PROVE  IInv'
<1>1. /\ ~up /\ up' = TRUE
      /\ fires' = [k \in DOMAIN fires |-> Reconciled(
                      IF fires[k].turn = "open" THEN [fires[k] EXCEPT !.turn = "unproven"] ELSE fires[k])]
      /\ UNCHANGED <<latest, last, tick, handler, tail, userRun, started, clock, crashes>>
  BY DEF Restart, hostVars, bounds
<1>2. ASSUME NEW x \in Fire, NEW y, y = Reconciled(IF x.turn = "open" THEN [x EXCEPT !.turn = "unproven"] ELSE x)
      PROVE  /\ y \in Fire
             /\ y.status = "skipped_busy" => x.status = "skipped_busy"
             /\ y.status = "completed" => y.turn = "completed" \/ (x.status = "completed" /\ x.turn # "completed")
             /\ y.status = "failed" => y.turn = "failed" \/ (x.status = "failed" /\ x.turn # "failed")
  <2>1. PICK z : z = IF x.turn = "open" THEN [x EXCEPT !.turn = "unproven"] ELSE x
    OBVIOUS
  <2>2. /\ z \in Fire /\ z.status = x.status
        /\ z.turn = x.turn \/ (x.turn = "open" /\ z.turn = "unproven")
    BY <2>1 DEF Fire
  <2>3. CASE z.status = "started"
    <3>1. y = [z EXCEPT !.status = Outcome(z.turn)]
      BY <1>2, <2>1, <2>3 DEF Reconciled
    <3>2. Outcome(z.turn) \in {"completed", "failed", "unknown"}
      BY DEF Outcome
    <3>3. y \in Fire /\ y.status = Outcome(z.turn) /\ y.turn = z.turn
      BY <2>2, <3>1, <3>2 DEF Fire
    <3>4. QED
      BY <3>2, <3>3 DEF Outcome
  <2>4. CASE z.status # "started"
    <3>1. y = z
      BY <1>2, <2>1, <2>4 DEF Reconciled
    <3>2. QED
      BY <2>2, <3>1
  <2>5. QED
    BY <2>3, <2>4
<1>3. \A k \in DOMAIN fires : fires[k] \in Fire /\ k \in Keys
  BY DEF IInv, Typed
<1>4. ASSUME NEW k \in DOMAIN fires
      PROVE  /\ fires'[k] \in Fire
             /\ fires'[k].status = "skipped_busy" => fires[k].status = "skipped_busy"
             /\ fires'[k].status = "completed" =>
                   fires'[k].turn = "completed" \/ (fires[k].status = "completed" /\ fires[k].turn # "completed")
             /\ fires'[k].status = "failed" =>
                   fires'[k].turn = "failed" \/ (fires[k].status = "failed" /\ fires[k].turn # "failed")
  BY <1>1, <1>2, <1>3
<1>5. DOMAIN fires' = DOMAIN fires /\ fires' \in [DOMAIN fires -> Fire]
  BY <1>1, <1>4
<1>6. Booked'
  BY <1>1, <1>5, Parts DEF Booked
<1>7. \A h \in Handlers : handler[h].pc \in {"idle", "done"}
  BY <1>1 DEF IInv
<1>8. \A h \in Handlers : Named(h)' /\ Executed(h)'
  BY <1>1, <1>7 DEF Named, Executed
<1>9. Ticking'
  BY <1>1 DEF IInv, Ticking, ThreadOf
<1>10. Arranged'
  BY <1>1, <1>8, <1>9 DEF IInv, Typed, Arranged
<1>11. ASSUME NEW k \in Keys PROVE Fired(k)'
  <2>1. Fired(k)
    BY DEF IInv
  <2>2. CASE k \in DOMAIN fires
    BY <1>1, <1>4, <1>5, <2>1, <2>2 DEF Fired, Known
  <2>3. CASE k \notin DOMAIN fires
    BY <1>1, <1>5, <2>1, <2>3 DEF Fired, Known
  <2>4. QED
    BY <2>2, <2>3
<1>12. Recorded'
  BY <1>8, <1>11 DEF Recorded
<1>13. clock' \in Nat /\ clock <= clock'
  BY <1>1, BoundsAreNat DEF IInv, Typed, Moments
<1>14. Scheduled'
  BY <1>1, <1>5, <1>13, SpacingKept
<1>15. Noted'
  BY <1>1, Parts DEF Noted
<1>16. QED
  BY <1>6, <1>10, <1>12, <1>14, <1>15, PartsNext

-----------------------------------------------------------------------------
(* The invariant                                                           *)

\* The store is empty and nothing has been evaluated.
LEMMA InvInit == Init => IInv
<1> SUFFICES ASSUME Init PROVE IInv
  OBVIOUS
<1>1. /\ clock = 0 /\ up = TRUE /\ crashes = 0
      /\ last = [a \in Automations |-> Never] /\ fires = [k \in {} |-> FALSE]
      /\ latest = [a \in Automations |-> NoKey] /\ tick = NoTick
      /\ handler = [h \in Handlers |-> NoHandler] /\ tail = [t \in Threads |-> <<>>]
      /\ userRun = [t \in Threads |-> "none"] /\ started = [k \in Keys |-> <<>>]
  BY DEF Init
<1>2. /\ NoHandler \in Execution /\ NoHandler.pc = "idle" /\ NoTick \in Ticks
      /\ NoTick.pc = "idle" /\ NoTick.at = 0
  BY EmptyExecution
<1>3. \A h \in Handlers : handler[h] = NoHandler /\ handler[h].pc = "idle"
  BY <1>1, <1>2
<1>4. DOMAIN fires = {} /\ fires \in [DOMAIN fires -> Fire]
  BY <1>1
<1>5. Booked
  BY <1>1, <1>4 DEF Booked
<1>6. Noted
  BY <1>1, <1>2, BoundsAreNat DEF Noted, Moments
<1>7. /\ handler \in [Handlers -> Execution] /\ tail \in [Threads -> Seq(Handlers)]
      /\ \A h \in Handlers : Named(h)
  BY <1>1, <1>2, <1>3 DEF Named
<1>8. ASSUME NEW t \in Threads PROVE Waiting(t, tail[t], handler)
  <2>1. tail[t] = <<>>
    BY <1>1
  <2>2. \A h \in Handlers : handler[h].pc \notin Queued
    BY <1>3 DEF Queued, Active
  <2>3. QED
    BY <2>1, <2>2 DEF Waiting
<1>9. Ticking
  BY <1>1, <1>2, <1>3, HandlerForms DEF Ticking
<1>10. Arranged
  BY <1>1, <1>7, <1>8, <1>9 DEF Arranged
<1>11. \A k \in Keys : started[k] = <<>> /\ k \notin DOMAIN fires
  BY <1>1, <1>4
<1>12. Recorded
  BY <1>3, <1>11 DEF Recorded, Fired, Executed, Known
<1>13. ASSUME NEW a \in Automations \ Cron PROVE Spaced(a)
  <2>1. \A k \in KeysOf(a) : DOMAIN started[k] = {}
    BY <1>11 DEF KeysOf
  <2>2. NextSlot(a)
    BY <1>1, <1>2, <1>3, HandlerForms DEF NextSlot
  <2>3. QED
    BY <2>1, <2>2 DEF Spaced
<1>14. Scheduled
  BY <1>13 DEF Scheduled
<1>15. QED
  BY <1>5, <1>6, <1>10, <1>12, <1>14, Parts

\* Every step preserves the invariant.
LEMMA InvStep == IInv /\ [Next]_vars => IInv'
<1> SUFFICES ASSUME IInv, [Next]_vars PROVE IInv'
  OBVIOUS
<1>1. clock \in Moments /\ clock \in Nat /\ MaxTime \in Nat
  BY BoundsAreNat DEF IInv, Typed, Moments
<1>2. CASE TickStep
  BY <1>2, TickStartStep, EvaluateStep, TickLaunchStep, TickEndStep DEF TickStep
<1>3. CASE \E r \in 1..MaxRequests : RunNow(r)
  BY <1>3, RunNowStep
<1>4. ASSUME NEW h \in Handlers, ExecuteStep(h) \/ EndRun(h) PROVE IInv'
  BY <1>4, LookupStep, ClaimStep, RefusedStep, StartTurnStep, BindTurnStep, FinishStep, SaveStep, EndRunStep
     DEF ExecuteStep
<1>5. ASSUME NEW t \in Threads, UserStep(t) PROVE IInv'
  <2>1. UNCHANGED <<up, last, fires, latest, tick, handler, tail, started, clock, crashes>>
    BY <1>5 DEF UserStep, bounds
  <2>2. userRun' \in [Threads -> {"none", "turn", "waiting"}]
    BY <1>5 DEF UserStep, IInv, Typed
  <2>3. Noted'
    BY <2>1, <2>2, Parts DEF Noted
  <2>4. clock <= clock'
    BY <1>1, <2>1
  <2>5. QED
    BY <2>1, <2>3, <2>4, OutsideStep
<1>6. CASE Advance
  <2>1. /\ clock < MaxTime /\ clock' = clock + 1
        /\ UNCHANGED <<up, last, fires, latest, tick, handler, tail, userRun, started, crashes>>
    BY <1>6 DEF Advance, hostVars
  <2>2. clock' \in Moments /\ clock <= clock'
    BY <1>1, <2>1 DEF Moments
  <2>3. Noted'
    BY <2>1, <2>2, Parts DEF Noted
  <2>4. QED
    BY <2>1, <2>2, <2>3, OutsideStep
<1>7. CASE UNCHANGED vars
  <2>1. UNCHANGED <<clock, up, last, fires, latest, tick, handler, tail, userRun, started, crashes>>
    BY <1>7 DEF vars
  <2>2. Noted'
    BY <2>1, Parts DEF Noted
  <2>3. clock <= clock'
    BY <1>1, <2>1
  <2>4. QED
    BY <2>1, <2>2, <2>3, OutsideStep
<1>8. QED
  BY <1>2, <1>3, <1>4, <1>5, <1>6, <1>7, CrashStep, RestartStep DEF Next

\* The invariant holds in every state of the scheduler and its store.
THEOREM InvHolds == Spec => []IInv
<1>1. QED
  BY InvInit, InvStep, PTL DEF Spec

\* The invariant says of the state what FiresAreExact says.
LEMMA InvIsExact == IInv => FiresAreExact
<1> SUFFICES ASSUME IInv PROVE FiresAreExact
  OBVIOUS
<1>1. TypeOK
  <2>1. \A k \in DOMAIN fires :
           /\ fires[k].status \in {"started", "completed", "failed", "skipped_busy", "unknown"}
           /\ fires[k].turn \in {"none", "open", "unproven"} \cup Ends
    <3>1. \A k \in DOMAIN fires : fires[k] \in Fire
      BY DEF IInv, Typed
    <3>2. QED
      BY <3>1 DEF Fire
  <2>2. \A t \in Threads : \A k \in DOMAIN tail[t] : ThreadOf(tail[t][k]) = t
    BY DEF IInv, Waiting, ConvOf, ThreadOf
  <2>3. tick.pc \in {"idle", "evaluate", "executing"} /\ tick.claimed \subseteq Threads
    BY DEF IInv, Typed, Ticks
  <2>4. QED
    BY <2>1, <2>2, <2>3 DEF IInv, Typed, TypeOK, Moments
<1>2. KeyRunsOnce
  BY DEF IInv, Fired, KeyRunsOnce
<1>3. OutcomeIsProven
  <2>1. \A k \in DOMAIN fires : k \in Keys /\ Known(k) /\ Fired(k)
    BY DEF IInv, Typed, Known
  <2>2. QED
    BY <2>1 DEF OutcomeIsProven, Fired
<1>4. RunsAreSpaced
  <2>1. ASSUME NEW a \in Automations \ Cron,
               \A k \in DOMAIN fires : AutoOf(k) = a => KindOf(k) = "scheduled"
        PROVE  \A k, l \in {k \in Keys : AutoOf(k) = a} :
                  k[3] < l[3] => \A m \in DOMAIN started[k], n \in DOMAIN started[l] :
                                    started[k][m] + Period <= started[l][n]
    <3>1. Spaced(a)
      BY <2>1 DEF IInv, OnlyScheduled
    <3>2. QED
      BY <3>1 DEF Spaced, KeysOf
  <2>2. QED
    BY <2>1 DEF RunsAreSpaced
<1>5. QED
  BY <1>1, <1>2, <1>3, <1>4 DEF FiresAreExact

\* Whatever is skipped, repeated by a client, busy, refused or cut off by a crash,
\* a key gives at most one provider turn, a recorded outcome is one that turn
\* proves, and the schedule alone never runs an interval automation twice within
\* its interval.
THEOREM FiresStayExact == Spec => []FiresAreExact
<1>1. QED
  BY InvHolds, InvIsExact, PTL
=============================================================================
