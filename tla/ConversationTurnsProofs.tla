------------------------ MODULE ConversationTurnsProofs ------------------------
(***************************************************************************)
(* Safety of a conversation's records for every set of sends and runs and  *)
(* every number of jobs and crashes.                                       *)
(*                                                                         *)
(* What is written was computed from an earlier read.  IInv therefore says *)
(* of every append that is still owed what the checked invariants say of   *)
(* the records: which refs a checkpoint that is still to be saved rests    *)
(* on, and that only the holder of the worktree owes one.                  *)
(* WInv says, as long as nothing crashed, the same of the turns that wait  *)
(* and of their questions, which are written one after the other.          *)
(***************************************************************************)
EXTENDS ConversationTurns, FiniteSetTheorems, SequenceTheorems, TLAPS

Statuses == Busy \cup Final \cup {"none"}
Asks == {"none", "pending", "answered", "cancelled"}
Marks == {"none", "unavailable", "baseline", "completed", "failed", "superseded"}
Both == {"baseline", "completed"}
Early == {"idle", "admitting", "reserved", "opened"}
Working == {"captured", "launched", "running", "failing", "completed", "stopped", "lost"}
Labels == Early \cup Working \cup {"leaving", "closing", "abandoning", "done"}

\* A run in one of these places has written what it owed, and in those it has
\* no worktree.
Silent == {"idle", "admitting", "reserved", "launched", "abandoning", "done"}
Outside == {"idle", "admitting", "abandoning", "done"}

\* The runs that may have been bound to a turn.
Started == {p \in Procs : pc[p] \notin Early \cup {"captured", "launched"}}

\* The appends of any writer, for turns that at most n runs were bound to.
TurnRecord(n) == [status : Statuses, runs : 0..n]
Plain(n) ==
    [op : {"turn"}, of : Turns, value : TurnRecord(n)]
    \cup [op : {"request"}, of : Turns, value : Asks]
    \cup [op : {"thread", "deletion", "remove", "supersede"},
          of : Procs \cup Threads \cup {"project", "retention"}, value : {"woken", "pending", "all", "others"}]

\* What may be saved of the checkpoint of a run at label l with the refs r.
Savable(l, r) == {v \in Marks : /\ v \in {"completed", "superseded"} => r = Both
                                /\ v = "baseline" => "baseline" \in r
                                /\ l \in Early => v = "unavailable"}

\* The appends of the holder of the worktree.
Owed(n, ls, rs) == Plain(n) \cup UNION {[op : {"checkpoint"}, of : {p}, value : Savable(ls[p], rs[p])] : p \in Procs}

\* The queue has a writer at most once, and only if it has something to write.
QueueFollows(td, q) ==
    /\ \A i \in 1..Len(q) : td[q[i]] # <<>>
    /\ \A i, j \in 1..Len(q) : q[i] = q[j] => i = j

Recorded ==
    /\ threads \subseteq Threads /\ deleted \subseteq Threads /\ transfer \in {"none", "saved", "removed"}
    /\ turn \in [Turns -> TurnRecord(Cardinality(Started))]
    /\ request \in [Turns -> Asks]
    /\ asked \in [Procs -> SUBSET {"approval", "input"}]
    /\ pc \in [Procs -> Labels]
    /\ host \in {"up", "recovering"}

Owing(td, n, ls, rs) ==
    /\ td \in [Writers -> Seq(Owed(n, ls, rs))]
    /\ \A w \in Others \ {"rewind"} : td[w] \in Seq(Plain(n))

Queued ==
    /\ Owing(todo, Cardinality(Started), pc, refs)
    /\ queue \in Seq(Writers) /\ QueueFollows(todo, queue)

\* A deletion records itself and then removes the records.
Holding ==
    /\ held \subseteq Procs \cup {"rewind", "maintenance"}
    /\ \A a, b \in held : a = b
    /\ \A p \in Procs : /\ pc[p] \notin Outside => p \in held
                        /\ pc[p] \in Silent => todo[p] = <<>>
    /\ \A p \in Procs \cup {"rewind"} : todo[p] # <<>> => p \in held

Maintaining ==
    /\ job \in [kind : {"none", "conversation", "project", "retention"}, threads : SUBSET Threads]
    /\ job.kind \in {"project", "retention"} => "maintenance" \in held
    /\ job.kind = "none" => todo["maintenance"] = <<>>
    /\ Len(todo["maintenance"]) <= 2
    /\ Len(todo["maintenance"]) = 2 => todo["maintenance"][1].op # "remove"

\* The checkpoint c and the refs r of a run at label l.
Kept(l, c, r) ==
    /\ c \in {"completed", "superseded"} => r = Both
    /\ c = "baseline" /\ l \in Working => "baseline" \in r
    /\ l \in Early => c \in {"none", "unavailable"}

Snapped ==
    /\ checkpoint \in [Procs -> Marks]
    /\ refs \in [Procs -> SUBSET Both]
    /\ \A p \in Procs : Kept(pc[p], checkpoint[p], refs[p])

IInv == Recorded /\ Queued /\ Holding /\ Maintaining /\ Snapped

-----------------------------------------------------------------------------
(* Counting the runs, and what is owed                                     *)

\* There are finitely many runs, and each is bound at most once.
LEMMA Counting ==
    ASSUME NEW B \in SUBSET Procs, NEW A \in SUBSET B
    PROVE  /\ Cardinality(A) \in Nat /\ Cardinality(B) \in Nat
           /\ Cardinality(A) <= Cardinality(B) /\ Cardinality(B) <= Cardinality(Procs)
           /\ Cardinality(Procs) \in Nat
           /\ \A p \in B \ A : Cardinality(A) + 1 <= Cardinality(B)
<1>1. IsFiniteSet(Procs)
  BY RunsAreFinite, FS_Union DEF Procs
<1>2. IsFiniteSet(B) /\ Cardinality(B) <= Cardinality(Procs)
  BY <1>1, FS_Subset
<1>3. IsFiniteSet(A) /\ Cardinality(A) <= Cardinality(B)
  BY <1>2, FS_Subset
<1>4. ASSUME NEW p \in B \ A PROVE Cardinality(A) + 1 <= Cardinality(B)
  <2>1. Cardinality(A \cup {p}) = Cardinality(A) + 1
    BY <1>3, FS_AddElement
  <2>2. A \cup {p} \in SUBSET B
    OBVIOUS
  <2>3. Cardinality(A \cup {p}) <= Cardinality(B)
    BY <1>2, <2>2, FS_Subset
  <2>4. QED
    BY <2>1, <2>3
<1>5. QED
  BY <1>1, <1>2, <1>3, <1>4, FS_CardinalityType

\* A longer count of bound runs admits more appends.
LEMMA PlainGrows ==
    ASSUME NEW n \in Nat, NEW m \in Nat, n <= m
    PROVE  TurnRecord(n) \subseteq TurnRecord(m) /\ Plain(n) \subseteq Plain(m)
<1>1. TurnRecord(n) \subseteq TurnRecord(m)
  BY DEF TurnRecord
<1>2. QED
  BY <1>1 DEF Plain

\* What is owed stays owed while runs go on and the refs stay.
LEMMA Carried ==
    ASSUME NEW td, NEW n \in Nat, NEW m \in Nat, n <= m, NEW ls, NEW ls2, NEW rs,
           Owing(td, n, ls, rs), \A p \in Procs : ls2[p] \in Early => ls[p] \in Early
    PROVE  Owing(td, m, ls2, rs)
<1>1. Plain(n) \subseteq Plain(m)
  BY PlainGrows
<1>2. \A p \in Procs : Savable(ls[p], rs[p]) \subseteq Savable(ls2[p], rs[p])
  BY DEF Savable
<1>3. Owed(n, ls, rs) \subseteq Owed(m, ls2, rs)
  BY <1>1, <1>2 DEF Owed
<1>4. \A w \in Writers : td[w] \in Seq(Owed(m, ls2, rs))
  BY <1>3, SeqMonotonic DEF Owing
<1>5. \A w \in Others \ {"rewind"} : td[w] \in Seq(Plain(m))
  BY <1>1, SeqMonotonic DEF Owing
<1>6. QED
  BY <1>4, <1>5 DEF Owing

\* When the holder owes nothing the refs may change as well.
LEMMA CarriedPlain ==
    ASSUME NEW td, NEW n \in Nat, NEW m \in Nat, n <= m, NEW ls, NEW ls2, NEW rs, NEW rs2,
           Owing(td, n, ls, rs), \A w \in Procs \cup {"rewind"} : td[w] = <<>>
    PROVE  Owing(td, m, ls2, rs2)
<1>1. Plain(n) \subseteq Plain(m) /\ Plain(m) \subseteq Owed(m, ls2, rs2)
  BY PlainGrows DEF Owed
<1>2. \A w \in Others \ {"rewind"} : td[w] \in Seq(Plain(m))
  BY <1>1, SeqMonotonic DEF Owing
<1>3. \A w \in Writers : td[w] \in Seq(Owed(m, ls2, rs2))
  <2> SUFFICES ASSUME NEW w \in Writers PROVE td[w] \in Seq(Owed(m, ls2, rs2))
    OBVIOUS
  <2>1. CASE w \in Procs \cup {"rewind"}
    BY <2>1, EmptySeq
  <2>2. CASE w \in Others \ {"rewind"}
    BY <2>2, <1>1, <1>2, SeqMonotonic
  <2>3. QED
    BY <2>1, <2>2 DEF Writers
<1>4. QED
  BY <1>2, <1>3 DEF Owing

-----------------------------------------------------------------------------
(* The write queue                                                         *)

\* What a writer may owe.
OwedBy(w, n, ls, rs) == IF w \in Others \ {"rewind"} THEN Plain(n) ELSE Owed(n, ls, rs)

\* The appends of one writer change.
LEMMA Rewritten ==
    ASSUME NEW td, NEW n, NEW ls, NEW rs, Owing(td, n, ls, rs),
           NEW w \in Writers, NEW s \in Seq(OwedBy(w, n, ls, rs))
    PROVE  Owing([td EXCEPT ![w] = s], n, ls, rs)
<1>1. Plain(n) \subseteq Owed(n, ls, rs)
  BY DEF Owed
<1>2. s \in Seq(Owed(n, ls, rs))
  BY <1>1, SeqMonotonic DEF OwedBy
<1>3. w \in Others \ {"rewind"} => s \in Seq(Plain(n))
  BY DEF OwedBy
<1>4. QED
  BY <1>2, <1>3 DEF Owing

\* Submitting appends keeps the queue in step with them (write queue, state.ts).
LEMMA Submitted ==
    ASSUME NEW td, NEW q \in Seq(Writers), QueueFollows(td, q), NEW s, NEW w \in Writers,
           DOMAIN td = Writers, td[w] = <<>>
    PROVE  LET q2 == q \o If(s # <<>>, <<w>>)
           IN  q2 \in Seq(Writers) /\ QueueFollows([td EXCEPT ![w] = s], q2)
<1>1. \A i \in 1..Len(q) : q[i] \in Writers /\ q[i] # w
  BY ElementOfSeq DEF QueueFollows
<1>2. CASE s = <<>>
  BY <1>1, <1>2 DEF If, QueueFollows
<1>3. CASE s # <<>>
  <2> DEFINE q2 == q \o <<w>>
  <2>1. /\ q2 \in Seq(Writers) /\ Len(q2) = Len(q) + 1 /\ Len(q) \in Nat
        /\ \A i \in 1..Len(q) : q2[i] = q[i]
        /\ q2[Len(q) + 1] = w
    BY ConcatProperties
  <2> HIDE DEF q2
  <2>2. QueueFollows([td EXCEPT ![w] = s], q2)
    BY <1>1, <1>3, <2>1 DEF QueueFollows
  <2>3. QED
    BY <1>3, <2>1, <2>2 DEF If, q2
<1>4. QED
  BY <1>2, <1>3

\* Making the append at the head of the queue, too.
LEMMA HeadMade ==
    ASSUME NEW td, NEW q \in Seq(Writers), QueueFollows(td, q), NEW s, q # <<>>, DOMAIN td = Writers
    PROVE  LET w == Head(q)  q2 == Tail(q) \o If(s # <<>>, <<w>>)
           IN  q2 \in Seq(Writers) /\ QueueFollows([td EXCEPT ![w] = s], q2)
<1> DEFINE w == Head(q)
           t == Tail(q)
<1>1. /\ w \in Writers /\ t \in Seq(Writers) /\ Len(q) = Len(t) + 1 /\ Len(t) \in Nat
      /\ w = q[1] /\ \A i \in 1..Len(t) : t[i] = q[i + 1] /\ t[i] \in Writers
  BY HeadTailProperties, ElementOfSeq
<1>2. \A i \in 1..Len(t) : t[i] # w /\ td[t[i]] # <<>>
  BY <1>1 DEF QueueFollows
<1>3. \A i, j \in 1..Len(t) : t[i] = t[j] => i = j
  BY <1>1 DEF QueueFollows
<1> HIDE DEF w, t
<1>4. CASE s = <<>>
  <2>1. t \o <<>> = t
    BY <1>1, ConcatEmptySeq
  <2>2. QueueFollows([td EXCEPT ![w] = s], t)
    BY <1>1, <1>2, <1>3 DEF QueueFollows
  <2>3. QED
    BY <1>1, <1>4, <2>1, <2>2 DEF If, w, t
<1>5. CASE s # <<>>
  <2> DEFINE q2 == t \o <<w>>
  <2>1. /\ q2 \in Seq(Writers) /\ Len(q2) = Len(t) + 1
        /\ \A i \in 1..Len(t) : q2[i] = t[i]
        /\ q2[Len(t) + 1] = w
    BY <1>1, ConcatProperties
  <2> HIDE DEF q2
  <2>2. \A i \in 1..Len(q2) : i \in 1..Len(t) \/ i = Len(t) + 1
    BY <1>1, <2>1
  <2>3. \A i \in 1..Len(q2) : [td EXCEPT ![w] = s][q2[i]] # <<>>
    BY <1>1, <1>2, <1>5, <2>1, <2>2
  <2>4. \A i, j \in 1..Len(q2) : q2[i] = q2[j] => i = j
    BY <1>1, <1>2, <1>3, <2>1, <2>2
  <2>5. QED
    BY <1>5, <2>1, <2>3, <2>4 DEF If, q2, w, t, QueueFollows
<1>6. QED
  BY <1>4, <1>5

\* What recordProviderEvent appends are turns, requests and marks of the thread.
LEMMA AppendsArePlain ==
    ASSUME NEW n \in Nat, NEW t \in Turns, turn[t] \in TurnRecord(n),
           NEW event \in {"input_requested", "answered", "cancelled", "approval_pending", "approval_resolved"} \cup Final
    PROVE  Appends(t, event) \in Seq(Plain(n))
<1> DEFINE S == Seq(Plain(n))
<1>1. ASSUME NEW status \in Statuses PROVE PutTurn(t, status) \in S
  <2>1. [turn[t] EXCEPT !.status = status] \in TurnRecord(n)
    BY DEF TurnRecord
  <2>2. QED
    BY <2>1 DEF Put, PutTurn, Plain
<1>2. ASSUME NEW ask \in Asks PROVE Put("request", t, ask) \in S
  BY DEF Put, Plain
<1>3. Put("thread", "dst", "woken") \in S
  BY DEF Put, Plain, Threads
<1>4. ASSUME NEW c \in BOOLEAN, NEW s \in S PROVE If(c, s) \in S
  BY DEF If
<1>5. ASSUME NEW s1 \in S, NEW s2 \in S PROVE s1 \o s2 \in S
  BY ConcatProperties
<1> HIDE DEF S
<1> DEFINE status == turn[t].status
           waits == PutTurn(t, "waiting_for_user")
           woken == Put("thread", "dst", "woken")
<1> USE DEF Statuses, Busy, Asks, Final
<1>6. CASE event = "input_requested"
  <2>1. If(status # "waiting_for_user", waits) \in S
    BY <1>1, <1>4
  <2> DEFINE c == status \in {"active", "waiting_for_user"}
             x == Put("request", t, "pending") \o If(status # "waiting_for_user", waits) \o woken
  <2>2. x \in S
    BY <2>1, <1>2, <1>3, <1>5
  <2>3. Appends(t, event) = If(c, x)
    BY <1>6 DEF Appends
  <2>4. c \in BOOLEAN
    OBVIOUS
  <2> HIDE DEF c, x
  <2>5. Appends(t, event) \in S
    BY <2>2, <2>3, <2>4, <1>4
  <2>6. QED
    BY <2>5 DEF S
<1>7. CASE event \in {"answered", "cancelled"}
  <2>1. If(status \notin Final, PutTurn(t, "active")) \in S
    BY <1>1, <1>4
  <2>2. Resolution(t, event) \in S
    BY <2>1, <1>2, <1>5, <1>7 DEF Resolution
  <2>3. Appends(t, event) = If(request[t] = "pending" /\ Exists(t), Resolution(t, event))
    BY <1>7 DEF Appends
  <2>4. QED
    BY <2>2, <2>3, <1>4 DEF S
<1>8. CASE event = "approval_pending"
  <2>1. Appends(t, event) = If(status \notin Final, PutTurn(t, "waiting_for_approval") \o woken)
    BY <1>8 DEF Appends
  <2>2. PutTurn(t, "waiting_for_approval") \o woken \in S
    BY <1>1, <1>3, <1>5
  <2>3. QED
    BY <2>1, <2>2, <1>4 DEF S
<1>9. CASE event = "approval_resolved"
  <2>1. Appends(t, event) = If(status \notin Final, PutTurn(t, "active"))
    BY <1>9 DEF Appends
  <2>2. QED
    BY <2>1, <1>1, <1>4 DEF S
<1>10. CASE event \in Final
  <2>1. Appends(t, event) = PutTurn(t, event)
            \o If(request[t] = "pending", Put("request", t, "cancelled"))
            \o If(event = "failed", woken)
    BY <1>10 DEF Appends
  <2>2. /\ PutTurn(t, event) \in S /\ If(event = "failed", woken) \in S
        /\ If(request[t] = "pending", Put("request", t, "cancelled")) \in S
    BY <1>1, <1>2, <1>3, <1>4, <1>10
  <2>3. QED
    BY <2>1, <2>2, <1>5 DEF S
<1>11. QED
  BY <1>6, <1>7, <1>8, <1>9, <1>10 DEF S

-----------------------------------------------------------------------------
(* Frames: what a step that moves one run leaves as it was                 *)

Unbound == Early \cup {"captured", "launched"}
Count == Cardinality(Started)

\* The count is one of finitely many runs.
LEMMA CountIsNat == Count \in Nat /\ Count <= Cardinality(Procs)
BY Counting DEF Started, Count

\* A run goes on: it is bound at most once and never comes back to its admission.
LEMMA Moves ==
    ASSUME Recorded, NEW p \in Procs, NEW l \in Labels, Goto(p, l),
           l \in Unbound => pc[p] \in Unbound, l \in Early => pc[p] \in Early
    PROVE  /\ pc' \in [Procs -> Labels] /\ pc'[p] = l
           /\ \A q \in Procs \ {p} : pc'[q] = pc[q]
           /\ \A q \in Procs : pc'[q] \in Early => pc[q] \in Early
           /\ Count \in Nat /\ Count' \in Nat /\ Count <= Count' /\ Count' <= Cardinality(Procs)
           /\ pc[p] \in Unbound /\ l \notin Unbound => Count + 1 <= Count'
<1>1. /\ pc' \in [Procs -> Labels] /\ pc'[p] = l
      /\ \A q \in Procs \ {p} : pc'[q] = pc[q]
  BY DEF Recorded, Goto
<1>2. Started \in SUBSET Started' /\ Started' \in SUBSET Procs
  BY <1>1 DEF Started, Unbound
<1>3. pc[p] \in Unbound /\ l \notin Unbound => p \in Started' \ Started
  BY <1>1 DEF Started, Unbound
<1>4. QED
  BY <1>1, <1>2, <1>3, Counting DEF Count

\* The records stay of their types when a run goes on.
LEMMA RecordsStay ==
    ASSUME Recorded, UNCHANGED <<records, deleted, asked, host>>,
           pc' \in [Procs -> Labels], Count' \in Nat, Count \in Nat, Count <= Count'
    PROVE  Recorded'
<1>1. TurnRecord(Count) \subseteq TurnRecord(Count')
  BY PlainGrows
<1>2. turn' \in [Turns -> TurnRecord(Count')]
  BY <1>1 DEF Recorded, records, Count
<1>3. QED
  BY <1>2 DEF Recorded, records, Count

\* A writer that owes nothing submits its appends.
LEMMA Submits ==
    ASSUME Queued, NEW w \in Writers, todo[w] = <<>>,
           Owing(todo, Count', pc', refs'),
           NEW s \in Seq(OwedBy(w, Count', pc', refs')), Submit(w, s)
    PROVE  /\ Queued' /\ todo'[w] = s /\ \A v \in Writers \ {w} : todo'[v] = todo[v]
<1>1. todo \in [Writers -> Seq(Owed(Count', pc', refs'))]
  BY DEF Owing
<1>2. todo' = [todo EXCEPT ![w] = s] /\ queue' = queue \o If(s # <<>>, <<w>>)
  BY DEF Submit
<1>3. Owing(todo', Count', pc', refs')
  BY <1>2, Rewritten
<1>4. queue' \in Seq(Writers) /\ QueueFollows(todo', queue')
  BY <1>1, <1>2, Submitted DEF Queued
<1>5. QED
  BY <1>1, <1>2, <1>3, <1>4 DEF Queued, Count

\* A step that submits nothing keeps the queue.
LEMMA QueueStays ==
    ASSUME Queued, Owing(todo, Count', pc', refs'), UNCHANGED writing
    PROVE  Queued'
BY DEF Queued, Count, writing

\* What the holder of the worktree may save.
LEMMA MayOwe ==
    ASSUME NEW n \in Nat, NEW ls, NEW rs
    PROVE  /\ \A p \in Procs \cup {"rewind"} : p \in Writers /\ OwedBy(p, n, ls, rs) = Owed(n, ls, rs)
           /\ \A w \in Others \ {"rewind"} : w \in Writers /\ OwedBy(w, n, ls, rs) = Plain(n)
           /\ \A s \in Seq(Plain(n)) : s \in Seq(Owed(n, ls, rs))
           /\ \A p \in Procs : \A v \in Savable(ls[p], rs[p]) : Put("checkpoint", p, v) \in Seq(Owed(n, ls, rs))
           /\ \A p \in Procs : Put("supersede", p, "others") \in Seq(Owed(n, ls, rs))
<1>1. \A p \in Procs \cup {"rewind"} : p \in Writers /\ p \notin Others \ {"rewind"}
  BY NamesAreDistinct DEF Writers, Others
<1>2. Plain(n) \subseteq Owed(n, ls, rs)
  BY DEF Owed
<1>3. \A s \in Seq(Plain(n)) : s \in Seq(Owed(n, ls, rs))
  BY <1>2, SeqMonotonic
<1>4. \A x : x \in Owed(n, ls, rs) => <<x>> \in Seq(Owed(n, ls, rs))
  OBVIOUS
<1>5. ASSUME NEW p \in Procs, NEW v \in Savable(ls[p], rs[p])
      PROVE  Put("checkpoint", p, v) \in Seq(Owed(n, ls, rs))
  <2>1. [op |-> "checkpoint", of |-> p, value |-> v] \in [op : {"checkpoint"}, of : {p}, value : Savable(ls[p], rs[p])]
    OBVIOUS
  <2>2. [op |-> "checkpoint", of |-> p, value |-> v] \in Owed(n, ls, rs)
    BY <2>1 DEF Owed
  <2>3. QED
    BY <2>2, <1>4 DEF Put
<1>6. ASSUME NEW p \in Procs
      PROVE  Put("supersede", p, "others") \in Seq(Owed(n, ls, rs))
  <2>1. [op |-> "supersede", of |-> p, value |-> "others"] \in Plain(n)
    BY DEF Plain
  <2>2. QED
    BY <2>1, <1>2, <1>4 DEF Put
<1>7. QED
  BY <1>1, <1>3, <1>5, <1>6 DEF OwedBy, Writers

\* The checkpoints and refs stay what the labels allow when runs go on.
LEMMA SnapsStay ==
    ASSUME Snapped, UNCHANGED snapshots,
           \A q \in Procs : /\ pc'[q] \in Early => pc[q] \in Early
                            /\ pc'[q] \in Working => pc[q] \in Early \cup Working
    PROVE  Snapped'
BY DEF Snapped, Kept, snapshots

\* A run that holds the worktree goes on, and submits what it owes: nothing else
\* is owed by a holder, so the refs may change.
LEMMA RunWrites ==
    ASSUME IInv, NEW p \in Procs, NEW l \in Labels, Goto(p, l), pc[p] \notin Outside, todo[p] = <<>>,
           l \in Unbound => pc[p] \in Unbound, l \in Early => pc[p] \in Early, l \notin Outside,
           NEW s \in Seq(Owed(Count', pc', refs')), Submit(p, s) \/ (UNCHANGED writing /\ s = <<>>),
           l \in Silent => s = <<>>, UNCHANGED <<held, job>>
    PROVE  Queued' /\ Holding' /\ Maintaining'
<1>1. /\ pc' \in [Procs -> Labels] /\ pc'[p] = l
      /\ \A q \in Procs \ {p} : pc'[q] = pc[q]
      /\ Count \in Nat /\ Count' \in Nat /\ Count <= Count'
  BY Moves DEF IInv
<1>2. \A w \in Procs \cup {"rewind"} : todo[w] = <<>>
  BY DEF IInv, Holding
<1>3. Owing(todo, Count, pc, refs)
  BY DEF IInv, Queued, Count
<1>4. Owing(todo, Count', pc', refs')
  BY <1>1, <1>2, <1>3, CarriedPlain
<1>5. p \in Writers /\ OwedBy(p, Count', pc', refs') = Owed(Count', pc', refs')
  BY <1>1, MayOwe
<1>6. Queued' /\ todo'[p] = s /\ \A v \in Writers \ {p} : todo'[v] = todo[v]
  <2>1. CASE Submit(p, s)
    BY <1>4, <1>5, <2>1, Submits DEF IInv
  <2>2. CASE UNCHANGED writing /\ s = <<>>
    BY <1>4, <2>2, QueueStays DEF IInv, writing
  <2>3. QED
    BY <2>1, <2>2
<1>7. p # "rewind" /\ p # "maintenance" /\ "rewind" \in Writers /\ "maintenance" \in Writers
  BY NamesAreDistinct DEF Others, Writers
<1>8. Holding'
  BY <1>1, <1>6, <1>7 DEF IInv, Holding, Writers
<1>9. Maintaining'
  BY <1>6, <1>7 DEF IInv, Maintaining
<1>10. QED
  BY <1>6, <1>8, <1>9

-----------------------------------------------------------------------------
(* The steps of a run that holds the worktree                              *)

\* mailboxDestination or startTurn, then the checkpoint intent, which is never
\* more than "unavailable".
LEMMA OpenStep == ASSUME IInv, NEW p \in Procs, Open(p) PROVE IInv'
<1> DEFINE ok == IF p \in Sends THEN transfer = "saved" /\ "dst" \in threads /\ Exists(Mail) ELSE "dst" \in threads
           l == IF ok THEN "opened" ELSE "leaving"
           s == If(ok, Put("checkpoint", p, "unavailable"))
<1>1. /\ pc[p] = "reserved" /\ Goto(p, l) /\ Submit(p, s) /\ UNCHANGED <<refs, checkpoint, held, job>>
      /\ UNCHANGED <<threads, deleted, transfer, request, asked, host>>
      /\ turn' = IF ok /\ p \in Starts THEN [turn EXCEPT ![p].status = "active"] ELSE turn
  BY DEF Open, snapshots
<1>2. l \in {"opened", "leaving"} /\ (l = "leaving" => ~ok)
  OBVIOUS
<1> HIDE DEF ok, l
<1>3. l \in Labels
  BY <1>2 DEF Labels, Early
<1>4. /\ pc' \in [Procs -> Labels] /\ pc'[p] = l
      /\ \A q \in Procs \ {p} : pc'[q] = pc[q]
      /\ Count \in Nat /\ Count' \in Nat /\ Count <= Count'
  BY <1>1, <1>2, <1>3, Moves DEF IInv, Early, Unbound
<1>5. todo[p] = <<>>
  BY <1>1 DEF IInv, Holding, Silent
<1>6. s \in Seq(Owed(Count', pc', refs'))
  <2>1. "unavailable" \in Savable(pc'[p], refs'[p])
    BY DEF Savable, Marks
  <2>2. Put("checkpoint", p, "unavailable") \in Seq(Owed(Count', pc', refs'))
    BY <1>4, <2>1, MayOwe
  <2>3. QED
    BY <2>2 DEF If
<1> HIDE DEF s
<1>7. Queued' /\ Holding' /\ Maintaining'
  BY <1>1, <1>2, <1>3, <1>5, <1>6, RunWrites DEF Early, Unbound, Outside, Silent
<1>8. Snapped'
  <2>1. Snapped /\ UNCHANGED snapshots
    BY <1>1 DEF snapshots, IInv
  <2>2. \A q \in Procs : /\ pc'[q] \in Early => pc[q] \in Early
                         /\ pc'[q] \in Working => pc[q] \in Early \cup Working
    BY <1>1, <1>2, <1>4 DEF Early, Working
  <2>3. QED
    BY <2>1, <2>2, SnapsStay
<1>9. Recorded'
  <2>1. TurnRecord(Count) \subseteq TurnRecord(Count')
    BY <1>4, PlainGrows
  <2>2. p \in Starts => [turn[p] EXCEPT !.status = "active"] \in TurnRecord(Count')
    BY <2>1 DEF IInv, Recorded, TurnRecord, Statuses, Busy, Turns, Count
  <2>3. turn' \in [Turns -> TurnRecord(Count')]
    BY <1>1, <2>1, <2>2 DEF IInv, Recorded, Turns, Count
  <2>4. QED
    BY <1>1, <1>4, <2>3 DEF IInv, Recorded, Count
<1>10. QED
  BY <1>7, <1>8, <1>9 DEF IInv

\* captureCheckpoint makes the ref, and only then the baseline is submitted.
LEMMA CaptureStep == ASSUME IInv, NEW p \in Procs, Capture(p) PROVE IInv'
<1>1. /\ pc[p] = "opened" /\ todo[p] = <<>> /\ Goto(p, "captured")
      /\ UNCHANGED <<held, job, checkpoint>> /\ UNCHANGED <<records, deleted, asked, host>>
  BY DEF Capture
<1>2. /\ pc' \in [Procs -> Labels] /\ pc'[p] = "captured"
      /\ \A q \in Procs \ {p} : pc'[q] = pc[q]
      /\ \A q \in Procs : pc'[q] \in Early => pc[q] \in Early
      /\ Count \in Nat /\ Count' \in Nat /\ Count <= Count'
  BY <1>1, Moves DEF IInv, Labels, Early, Working, Unbound
<1>3. Recorded'
  BY <1>1, <1>2, RecordsStay DEF IInv
<1>4. \A q \in Procs : pc'[q] \in Working => pc[q] \in Early \cup Working
  BY <1>1, <1>2 DEF Early
<1>5. "captured" \in Labels /\ "captured" \notin Early \cup Outside \cup Silent /\ pc[p] \in Unbound /\ pc[p] \notin Outside
  BY <1>1 DEF Labels, Early, Working, Unbound, Outside, Silent
<1>6. CASE /\ refs' = [refs EXCEPT ![p] = {"baseline"}]
           /\ Submit(p, Put("checkpoint", p, "baseline"))
  <2>1. refs' \in [Procs -> SUBSET Both] /\ refs'[p] = {"baseline"}
        /\ \A q \in Procs \ {p} : refs'[q] = refs[q]
    BY <1>6 DEF IInv, Snapped, Both
  <2>2. "baseline" \in Savable(pc'[p], refs'[p])
    BY <1>2, <2>1 DEF Savable, Marks, Early
  <2>3. Put("checkpoint", p, "baseline") \in Seq(Owed(Count', pc', refs'))
    BY <1>2, <2>2, MayOwe
  <2>4. Queued' /\ Holding' /\ Maintaining'
    BY <1>1, <1>5, <1>6, <2>3, RunWrites
  <2>5. Snapped'
    BY <1>1, <1>2, <1>4, <2>1 DEF IInv, Snapped, Kept, Early
  <2>6. QED
    BY <1>3, <2>4, <2>5 DEF IInv
<1>7. CASE UNCHANGED <<refs, writing>>
  <2>1. <<>> \in Seq(Owed(Count', pc', refs'))
    OBVIOUS
  <2>2. Queued' /\ Holding' /\ Maintaining'
    BY <1>1, <1>5, <1>7, <2>1, RunWrites
  <2>3. Snapped'
    BY <1>1, <1>2, <1>4, <1>7, SnapsStay DEF IInv, snapshots
  <2>4. QED
    BY <1>3, <2>2, <2>3 DEF IInv
<1>8. QED
  BY <1>6, <1>7 DEF Capture

\* A run goes on without touching turns, checkpoints or refs.
LEMMA RunGoesOn ==
    ASSUME IInv, NEW p \in Procs, NEW l \in Labels, Goto(p, l), pc[p] \notin Outside, todo[p] = <<>>,
           l \in Unbound => pc[p] \in Unbound, l \in Early => pc[p] \in Early, l \notin Outside,
           l \in Working => pc[p] \in Early \cup Working,
           NEW s \in Seq(Owed(Count', pc', refs)), Submit(p, s) \/ (UNCHANGED writing /\ s = <<>>),
           l \in Silent => s = <<>>, UNCHANGED <<held, job>>,
           UNCHANGED <<threads, transfer, request, turn, snapshots, deleted, host>>,
           asked' \in [Procs -> SUBSET {"approval", "input"}]
    PROVE  IInv'
<1>1. /\ pc' \in [Procs -> Labels] /\ pc'[p] = l
      /\ \A q \in Procs \ {p} : pc'[q] = pc[q]
      /\ \A q \in Procs : pc'[q] \in Early => pc[q] \in Early
      /\ Count \in Nat /\ Count' \in Nat /\ Count <= Count'
  BY Moves DEF IInv
<1>2. refs' = refs
  BY DEF snapshots
<1>3. Queued' /\ Holding' /\ Maintaining'
  BY <1>2, RunWrites
<1>4. Snapped'
  BY <1>1, SnapsStay DEF IInv
<1>5. TurnRecord(Count) \subseteq TurnRecord(Count')
  BY <1>1, PlainGrows
<1>6. Recorded'
  BY <1>1, <1>5 DEF IInv, Recorded, Count
<1>7. QED
  BY <1>3, <1>4, <1>6 DEF IInv

Events == {"input_requested", "answered", "cancelled", "approval_pending", "approval_resolved"} \cup Final

\* What is recorded of the turn of a run can be owed by any writer.
LEMMA Recordable ==
    ASSUME IInv, NEW p \in Procs, NEW n \in Nat, Count <= n, NEW ls, NEW rs
    PROVE  /\ TurnOf(p) \in Turns
           /\ \A event \in Events : /\ Appends(TurnOf(p), event) \in Seq(Plain(n))
                                    /\ Appends(TurnOf(p), event) \in Seq(Owed(n, ls, rs))
<1>1. TurnOf(p) \in Turns
  BY DEF TurnOf, Turns, Procs
<1>2. turn[TurnOf(p)] \in TurnRecord(n)
  BY <1>1, CountIsNat, PlainGrows DEF IInv, Recorded, Count
<1>3. \A event \in Events : Appends(TurnOf(p), event) \in Seq(Plain(n))
  BY <1>1, <1>2, AppendsArePlain DEF Events
<1>4. QED
  BY <1>1, <1>3, MayOwe

\* The provider starts, or its turn is recorded as failed.
LEMMA LaunchStep == ASSUME IInv, NEW p \in Procs, Launch(p) PROVE IInv'
<1>1. /\ pc[p] = "captured" /\ todo[p] = <<>>
      /\ UNCHANGED <<held, job>> /\ UNCHANGED <<threads, transfer, request, turn, snapshots, deleted, host>>
      /\ asked' \in [Procs -> SUBSET {"approval", "input"}]
  BY DEF Launch, IInv, Recorded, records
<1> USE DEF Labels, Early, Working, Unbound, Outside, Silent
<1>2. CASE Goto(p, "launched") /\ UNCHANGED writing
  <2>1. <<>> \in Seq(Owed(Count', pc', refs))
    OBVIOUS
  <2>2. QED
    BY <1>1, <1>2, <2>1, RunGoesOn
<1>3. CASE /\ Submit(p, If(Exists(TurnOf(p)), Appends(TurnOf(p), "failed")))
           /\ Goto(p, IF Exists(TurnOf(p)) THEN "failing" ELSE "leaving")
  <2> DEFINE l == IF Exists(TurnOf(p)) THEN "failing" ELSE "leaving"
             s == If(Exists(TurnOf(p)), Appends(TurnOf(p), "failed"))
  <2>1. l \in {"failing", "leaving"}
    OBVIOUS
  <2>2. Goto(p, l) /\ Submit(p, s)
    BY <1>3
  <2> HIDE DEF l
  <2>3. Count \in Nat /\ Count' \in Nat /\ Count <= Count'
    BY <1>1, <2>1, <2>2, Moves DEF IInv
  <2>4. Appends(TurnOf(p), "failed") \in Seq(Owed(Count', pc', refs))
    BY <2>3, Recordable DEF Events, Final
  <2>5. s \in Seq(Owed(Count', pc', refs))
    BY <2>4 DEF If
  <2> HIDE DEF s
  <2>6. QED
    BY <1>1, <2>1, <2>2, <2>5, RunGoesOn
<1>4. QED
  BY <1>2, <1>3 DEF Launch

\* A failed launch fails the checkpoint that was captured for it.
LEMMA LaunchFailedStep == ASSUME IInv, NEW p \in Procs, LaunchFailed(p) PROVE IInv'
<1> DEFINE s == If(checkpoint[p] = "baseline", Put("checkpoint", p, "failed"))
<1> USE DEF Labels, Early, Working, Unbound, Outside, Silent
<1>1. /\ pc[p] = "failing" /\ todo[p] = <<>> /\ Submit(p, s) /\ Goto(p, "leaving")
      /\ UNCHANGED <<held, job>> /\ UNCHANGED <<threads, transfer, request, turn, snapshots, deleted, host>>
      /\ asked' \in [Procs -> SUBSET {"approval", "input"}]
  BY DEF LaunchFailed, IInv, Recorded, records
<1>2. /\ pc'[p] = "leaving" /\ Count' \in Nat
  BY <1>1, Moves DEF IInv
<1>3. "failed" \in Savable(pc'[p], refs[p])
  BY <1>2 DEF Savable, Marks
<1>4. s \in Seq(Owed(Count', pc', refs))
  BY <1>2, <1>3, MayOwe DEF If
<1> HIDE DEF s
<1>5. QED
  BY <1>1, <1>4, RunGoesOn

\* A run is bound to its turn, once: the count of started runs grows with it.
LEMMA BindStep == ASSUME IInv, NEW p \in Procs, Bind(p) PROVE IInv'
<1> DEFINE t == TurnOf(p)
           l == IF Exists(t) THEN "running" ELSE "leaving"
<1> USE DEF Labels, Early, Working, Unbound, Outside, Silent
<1>1. /\ pc[p] = "launched" /\ Goto(p, l)
      /\ turn' = IF Exists(t) THEN [turn EXCEPT ![t].runs = @ + 1] ELSE turn
      /\ UNCHANGED <<threads, transfer, request, snapshots, deleted, asked, writing, held, job, host>>
  BY DEF Bind
<1>2. l \in {"running", "leaving"} /\ t \in Turns
  BY DEF TurnOf, Turns, Procs
<1> HIDE DEF l, t
<1>3. /\ pc' \in [Procs -> Labels] /\ pc'[p] = l
      /\ \A q \in Procs \ {p} : pc'[q] = pc[q]
      /\ \A q \in Procs : pc'[q] \in Early => pc[q] \in Early
      /\ Count \in Nat /\ Count' \in Nat /\ Count <= Count' /\ Count + 1 <= Count'
  BY <1>1, <1>2, Moves DEF IInv
<1>4. todo[p] = <<>> /\ <<>> \in Seq(Owed(Count', pc', refs'))
  BY <1>1 DEF IInv, Holding
<1>5. Queued' /\ Holding' /\ Maintaining'
  BY <1>1, <1>2, <1>4, RunWrites
<1>6. Snapped'
  BY <1>1, <1>2, <1>3, SnapsStay DEF IInv
<1>7. TurnRecord(Count) \subseteq TurnRecord(Count')
  BY <1>3, PlainGrows
<1>8. [turn[t] EXCEPT !.runs = turn[t].runs + 1] \in TurnRecord(Count')
  BY <1>2, <1>3 DEF IInv, Recorded, TurnRecord, Count
<1>9. turn' \in [Turns -> TurnRecord(Count')]
  BY <1>1, <1>2, <1>7, <1>8 DEF IInv, Recorded, Count
<1>10. Recorded'
  BY <1>1, <1>3, <1>9 DEF IInv, Recorded, Count
<1>11. QED
  BY <1>5, <1>6, <1>10 DEF IInv

\* The event loop: what an event records, or the loss of the run.
LEMMA LoopStep ==
    ASSUME IInv, NEW p \in Procs,
           \/ \E q \in {"approval", "input"} : Ask(p, q)
           \/ Answered(p) \/ HistoryFails(p) \/ StreamEnds(p) \/ \E event \in Final : End(p, event)
    PROVE  IInv'
<1> USE DEF Labels, Early, Working, Unbound, Outside, Silent
<1>1. /\ pc[p] = "running" /\ todo[p] = <<>>
      /\ UNCHANGED <<held, job>> /\ UNCHANGED <<threads, transfer, request, turn, snapshots, deleted, host>>
  BY DEF Ask, Answered, HistoryFails, StreamEnds, End, Ready, records
<1>2. asked' \in [Procs -> SUBSET {"approval", "input"}]
  BY DEF Ask, Answered, HistoryFails, StreamEnds, End, Lost, IInv, Recorded
<1>3. PICK l \in {"running", "lost", "stopped", "completed"} :
          /\ Goto(p, l)
          /\ UNCHANGED writing \/ \E event \in Events : Record(p, p, event)
  <2>1. UNCHANGED pc => Goto(p, "running")
    BY <1>1 DEF Goto, IInv, Recorded
  <2>2. QED
    BY <2>1 DEF Ask, Answered, HistoryFails, StreamEnds, End, Lost, Events, Final
<1>4. Count \in Nat /\ Count' \in Nat /\ Count <= Count'
  BY <1>1, <1>3, Moves DEF IInv
<1>5. CASE UNCHANGED writing
  <2>1. <<>> \in Seq(Owed(Count', pc', refs))
    OBVIOUS
  <2>2. QED
    BY <1>1, <1>2, <1>3, <1>5, <2>1, RunGoesOn
<1>6. ASSUME NEW event \in Events, Record(p, p, event) PROVE IInv'
  <2>1. Appends(TurnOf(p), event) \in Seq(Owed(Count', pc', refs))
    BY <1>4, Recordable
  <2>2. Submit(p, Appends(TurnOf(p), event))
    BY <1>6 DEF Record
  <2>3. QED
    BY <1>1, <1>2, <1>3, <2>1, <2>2, RunGoesOn
<1>7. QED
  BY <1>3, <1>5, <1>6

\* The checkpoint is finalized: completed only with both of its snapshots, and
\* its refs are dropped only with a record that it is unavailable.
LEMMA SettleStep == ASSUME IInv, NEW p \in Procs, Settle(p) PROVE IInv'
<1> USE DEF Labels, Early, Working, Unbound, Outside, Silent
<1>1. /\ pc[p] \in {"completed", "stopped", "lost"} /\ todo[p] = <<>> /\ Goto(p, "closing")
      /\ UNCHANGED <<held, job, checkpoint>> /\ UNCHANGED <<records, deleted, asked, host>>
  BY DEF Settle
<1>2. /\ pc' \in [Procs -> Labels] /\ pc'[p] = "closing"
      /\ \A q \in Procs \ {p} : pc'[q] = pc[q]
      /\ \A q \in Procs : pc'[q] \in Early => pc[q] \in Early
      /\ Count \in Nat /\ Count' \in Nat /\ Count <= Count'
  BY <1>1, Moves DEF IInv
<1>3. Recorded'
  BY <1>1, <1>2, RecordsStay DEF IInv
<1>4. ASSUME NEW s \in Seq(Owed(Count', pc', refs')), Submit(p, s) \/ (UNCHANGED writing /\ s = <<>>),
             refs' \in [Procs -> SUBSET Both], \A q \in Procs \ {p} : refs'[q] = refs[q],
             checkpoint[p] \in {"completed", "superseded"} => refs'[p] = refs[p]
      PROVE  IInv'
  <2>1. Queued' /\ Holding' /\ Maintaining'
    BY <1>1, <1>4, RunWrites
  <2>2. Snapped'
    BY <1>1, <1>2, <1>4 DEF IInv, Snapped, Kept
  <2>3. QED
    BY <1>3, <2>1, <2>2 DEF IInv
<1>5. refs \in [Procs -> SUBSET Both]
  BY DEF IInv, Snapped
<1>6. ASSUME UNCHANGED refs, UNCHANGED writing PROVE IInv'
  <2>1. <<>> \in Seq(Owed(Count', pc', refs'))
    OBVIOUS
  <2>2. QED
    BY <1>4, <1>5, <1>6, <2>1
<1>7. ASSUME NEW state \in {"failed", "unavailable"}, Submit(p, Put("checkpoint", p, state)),
             refs' \in [Procs -> SUBSET Both], \A q \in Procs \ {p} : refs'[q] = refs[q],
             checkpoint[p] \in {"completed", "superseded"} => refs'[p] = refs[p]
      PROVE  IInv'
  <2>1. state \in Savable(pc'[p], refs'[p])
    BY <1>2 DEF Savable, Marks
  <2>2. Put("checkpoint", p, state) \in Seq(Owed(Count', pc', refs'))
    BY <1>2, <2>1, MayOwe
  <2>3. QED
    BY <1>4, <1>7, <2>2
<1>8. CASE checkpoint[p] # "baseline"
  BY <1>6, <1>8 DEF Settle
<1>9. CASE checkpoint[p] = "baseline" /\ pc[p] = "lost"
  BY <1>5, <1>7, <1>9 DEF Settle
<1>10. CASE checkpoint[p] = "baseline" /\ pc[p] = "stopped"
  BY <1>5, <1>6, <1>7, <1>10 DEF Settle
<1>11. CASE checkpoint[p] = "baseline" /\ pc[p] = "completed"
  <2>1. CASE /\ refs' = [refs EXCEPT ![p] = refs[p] \cup {"completed"}]
             /\ Submit(p, Put("checkpoint", p, "completed") \o Put("supersede", p, "others"))
    <3>1. refs'[p] = Both /\ \A q \in Procs \ {p} : refs'[q] = refs[q]
      BY <1>5, <1>11, <2>1 DEF IInv, Snapped, Kept, Both
    <3>2. refs' \in [Procs -> SUBSET Both]
      BY <1>5, <2>1 DEF Both
    <3>3. "completed" \in Savable(pc'[p], refs'[p])
      BY <1>2, <3>1 DEF Savable, Marks
    <3>4. Put("checkpoint", p, "completed") \o Put("supersede", p, "others") \in Seq(Owed(Count', pc', refs'))
      BY <1>2, <3>3, MayOwe, ConcatProperties
    <3>5. QED
      BY <1>4, <1>11, <2>1, <3>1, <3>2, <3>4
  <2>2. CASE refs' = [refs EXCEPT ![p] = {}] /\ Submit(p, Put("checkpoint", p, "unavailable"))
    <3>1. refs' \in [Procs -> SUBSET Both] /\ \A q \in Procs \ {p} : refs'[q] = refs[q]
      BY <1>5, <2>2
    <3>2. QED
      BY <1>7, <1>11, <2>2, <3>1
  <2>3. CASE UNCHANGED refs /\ Submit(p, Put("checkpoint", p, "unavailable"))
    BY <1>5, <1>7, <1>11, <2>3
  <2>4. QED
    BY <1>11, <2>1, <2>2, <2>3 DEF Settle
<1>12. QED
  BY <1>1, <1>8, <1>9, <1>10, <1>11

-----------------------------------------------------------------------------
(* The steps of a run, or a send, that does not hold the worktree yet      *)

\* A run goes on and nobody submits anything.
LEMMA RunKeepsQueue ==
    ASSUME IInv, NEW p \in Procs, NEW l \in Labels, Goto(p, l),
           l \in Unbound => pc[p] \in Unbound, l \in Early => pc[p] \in Early, l \notin Working,
           UNCHANGED <<writing, snapshots, job>>
    PROVE  /\ Queued' /\ Snapped'
           /\ pc' \in [Procs -> Labels] /\ pc'[p] = l
           /\ \A q \in Procs \ {p} : pc'[q] = pc[q]
           /\ Count \in Nat /\ Count' \in Nat /\ Count <= Count'
<1>1. /\ pc' \in [Procs -> Labels] /\ pc'[p] = l
      /\ \A q \in Procs \ {p} : pc'[q] = pc[q]
      /\ \A q \in Procs : pc'[q] \in Early => pc[q] \in Early
      /\ Count \in Nat /\ Count' \in Nat /\ Count <= Count'
  BY Moves DEF IInv
<1>2. Owing(todo, Count, pc, refs)
  BY DEF IInv, Queued, Count
<1>3. Owing(todo, Count', pc', refs')
  BY <1>1, <1>2, Carried DEF snapshots
<1>4. Queued'
  BY <1>3, QueueStays DEF IInv
<1>5. Snapped'
  BY <1>1, SnapsStay DEF IInv
<1>6. QED
  BY <1>1, <1>4, <1>5

\* The worktree is reserved when nothing holds it, or the run is refused.
LEMMA ReserveStep == ASSUME IInv, NEW p \in Procs, Reserve(p) PROVE IInv'
<1> USE DEF Labels, Early, Working, Unbound
<1>1. PICK l \in {"reserved", "abandoning", "done"} :
        /\ Goto(p, l) /\ pc[p] = "admitting"
        /\ \/ held = {} /\ held' = {p} /\ l = "reserved"
           \/ held' = held /\ l # "reserved"
        /\ UNCHANGED <<records, snapshots, deleted, asked, writing, job, host>>
  BY DEF Reserve, Refused
<1>2. /\ Queued' /\ Snapped'
      /\ pc' \in [Procs -> Labels] /\ pc'[p] = l
      /\ \A q \in Procs \ {p} : pc'[q] = pc[q]
      /\ Count \in Nat /\ Count' \in Nat /\ Count <= Count'
  BY <1>1, RunKeepsQueue
<1>3. Recorded'
  BY <1>1, <1>2, RecordsStay DEF IInv
<1>4. todo' = todo /\ todo[p] = <<>>
  BY <1>1 DEF writing, IInv, Holding, Silent
<1>5. Holding'
  BY <1>1, <1>2, <1>4 DEF IInv, Holding, Outside, Silent
<1>6. Maintaining'
  BY <1>1, <1>4 DEF IInv, Maintaining
<1>7. QED
  BY <1>2, <1>3, <1>5, <1>6 DEF IInv

\* The run leaves the worktree, having written everything it owed.
LEMMA LeaveStep == ASSUME IInv, NEW p \in Procs, Leave(p) PROVE IInv'
<1> USE DEF Labels, Early, Working, Unbound
<1>1. PICK l \in {"abandoning", "done"} :
        /\ Goto(p, l) /\ pc[p] \in {"leaving", "closing"} /\ todo[p] = <<>>
        /\ held' = held \ {p} /\ asked' = [asked EXCEPT ![p] = {}]
        /\ UNCHANGED <<records, snapshots, deleted, writing, job, host>>
  BY DEF Leave, Refused
<1>2. /\ Queued' /\ Snapped'
      /\ pc' \in [Procs -> Labels] /\ pc'[p] = l
      /\ \A q \in Procs \ {p} : pc'[q] = pc[q]
      /\ Count \in Nat /\ Count' \in Nat /\ Count <= Count'
  BY <1>1, RunKeepsQueue
<1>3. Recorded'
  <2>1. TurnRecord(Count) \subseteq TurnRecord(Count')
    BY <1>2, PlainGrows
  <2>2. turn' \in [Turns -> TurnRecord(Count')]
    BY <1>1, <2>1 DEF IInv, Recorded, records, Count
  <2>3. QED
    BY <1>1, <1>2, <2>2 DEF IInv, Recorded, records, Count
<1>4. todo' = todo /\ p # "maintenance" /\ p # "rewind"
  BY <1>1, NamesAreDistinct DEF writing, Others
<1>5. Holding'
  BY <1>1, <1>2, <1>4 DEF IInv, Holding, Outside, Silent
<1>6. Maintaining'
  BY <1>1, <1>4 DEF IInv, Maintaining
<1>7. QED
  BY <1>2, <1>3, <1>5, <1>6 DEF IInv

\* A send records its transfer as a turn, or gives that turn up again.
LEMMA SendStep == ASSUME IInv, NEW p \in Procs, Send(p) \/ Abandon(p) PROVE IInv'
<1> USE DEF Labels, Early, Working, Unbound
<1>1. Mail \in Turns
  BY DEF Turns
<1>2. PICK l \in {"admitting", "done"} :
        /\ Goto(p, l) /\ pc[p] \in {"idle", "abandoning"} /\ (l = "admitting" => pc[p] = "idle")
        /\ UNCHANGED <<threads, request, snapshots, deleted, asked, writing, held, job, host>>
  BY DEF Send, Abandon
<1>3. transfer' \in {"none", "saved", "removed"}
  BY DEF Send, Abandon, IInv, Recorded
<1>4. PICK s \in Statuses : turn' = turn \/ turn' = [turn EXCEPT ![Mail].status = s]
  BY DEF Send, Abandon, Statuses, Busy, Final
<1>5. /\ Queued' /\ Snapped'
      /\ pc' \in [Procs -> Labels] /\ pc'[p] = l
      /\ \A q \in Procs \ {p} : pc'[q] = pc[q]
      /\ Count \in Nat /\ Count' \in Nat /\ Count <= Count'
  BY <1>1, <1>2, RunKeepsQueue
<1>6. Recorded'
  <2>1. TurnRecord(Count) \subseteq TurnRecord(Count')
    BY <1>5, PlainGrows
  <2>2. [turn[Mail] EXCEPT !.status = s] \in TurnRecord(Count')
    BY <1>1, <2>1 DEF IInv, Recorded, TurnRecord, Count
  <2>3. turn' \in [Turns -> TurnRecord(Count')]
    BY <1>1, <1>4, <2>1, <2>2 DEF IInv, Recorded, Count
  <2>4. QED
    BY <1>2, <1>3, <1>5, <2>3 DEF IInv, Recorded, Count
<1>7. todo' = todo /\ todo[p] = <<>>
  BY <1>1, <1>2 DEF writing, IInv, Holding, Silent
<1>8. Holding'
  BY <1>1, <1>2, <1>5, <1>7 DEF IInv, Holding, Outside, Silent
<1>9. Maintaining'
  BY <1>2, <1>7 DEF IInv, Maintaining
<1>10. QED
  BY <1>5, <1>6, <1>8, <1>9 DEF IInv

-----------------------------------------------------------------------------
(* The write queue makes an append                                         *)

\* The append at the head of the queue is made: its writer owed it, and owes one
\* or two less.
LEMMA Makes ==
    ASSUME Queued, NEW w, queue # <<>>, w = Head(queue), Made(w), UNCHANGED <<pc, refs>>
    PROVE  /\ Queued'
           /\ w \in Writers /\ todo[w] # <<>> /\ Head(todo[w]) \in OwedBy(w, Count, pc, refs)
           /\ Head(todo[w]) = todo[w][1]
           /\ Len(todo'[w]) < Len(todo[w]) /\ Len(todo[w]) \in Nat
           /\ \A v \in Writers \ {w} : todo'[v] = todo[v]
           /\ Len(todo[w]) = 1 => todo'[w] = <<>>
<1> DEFINE S == OwedBy(w, Count, pc, refs)
           left == Tail(todo[w])
           rest == IF left # <<>> /\ Head(left).op = "thread" /\ "dst" \notin threads THEN Tail(left) ELSE left
<1>1. w \in Writers /\ todo[w] # <<>>
  <2>1. Len(queue) \in Nat \ {0} /\ Head(queue) = queue[1] /\ queue[1] \in Writers
    BY EmptySeq, HeadTailProperties DEF Queued
  <2>2. QED
    BY <2>1 DEF Queued, QueueFollows
<1>2. todo[w] \in Seq(S)
  BY <1>1 DEF Queued, Owing, OwedBy, Count, Writers
<1> HIDE DEF S
<1>3. /\ Head(todo[w]) \in S /\ left \in Seq(S) /\ Len(left) = Len(todo[w]) - 1
      /\ Len(todo[w]) \in Nat /\ Len(left) \in Nat /\ Head(todo[w]) = todo[w][1]
  BY <1>1, <1>2, HeadTailProperties
<1> HIDE DEF left
<1>4. rest \in Seq(S) /\ Len(rest) <= Len(left) /\ (Len(left) = 0 => rest = <<>>)
  <2>1. CASE left = <<>>
    BY <1>3, <2>1
  <2>2. CASE left # <<>>
    <3>1. Tail(left) \in Seq(S) /\ Len(Tail(left)) = Len(left) - 1 /\ Len(left) # 0
      BY <1>3, <2>2, HeadTailProperties, EmptySeq
    <3>2. QED
      BY <1>3, <3>1
  <2>3. QED
    BY <2>1, <2>2
<1>5. todo' = [todo EXCEPT ![w] = rest] /\ queue' = Tail(queue) \o If(rest # <<>>, <<w>>)
  BY DEF Made, left
<1> HIDE DEF rest
<1>6. todo \in [Writers -> Seq(Owed(Count, pc, refs))] /\ Owing(todo, Count, pc, refs)
  BY DEF Queued, Owing, Count
<1>7. Owing(todo', Count, pc, refs)
  BY <1>1, <1>4, <1>5, <1>6, Rewritten DEF S
<1>8. queue' \in Seq(Writers) /\ QueueFollows(todo', queue')
  BY <1>5, <1>6, HeadMade DEF Queued
<1>9. Count' = Count
  BY DEF Count, Started
<1>10. Queued'
  BY <1>7, <1>8, <1>9 DEF Queued, Count
<1>11. todo'[w] = rest /\ \A v \in Writers \ {w} : todo'[v] = todo[v]
  BY <1>1, <1>5, <1>6
<1>12. QED
  BY <1>1, <1>3, <1>4, <1>10, <1>11 DEF S

\* Writing what is owed keeps the records and snapshots in order, although it was
\* computed from an earlier read.
LEMMA WriteStep == ASSUME IInv, NEW w \in Writers, Write(w) PROVE IInv'
<1> DEFINE a == Head(todo[w])
<1>1. queue # <<>> /\ w = Head(queue) /\ Made(w)
      /\ UNCHANGED <<transfer, refs, deleted, pc, asked, held, job, host, bounds>>
  BY DEF Write
<1>2. /\ Queued' /\ todo[w] # <<>> /\ a \in OwedBy(w, Count, pc, refs)
      /\ Len(todo'[w]) < Len(todo[w]) /\ Len(todo[w]) \in Nat
      /\ \A v \in Writers \ {w} : todo'[v] = todo[v]
      /\ Len(todo[w]) = 1 => todo'[w] = <<>>
  BY <1>1, Makes DEF IInv
<1>3. Count' = Count /\ Count \in Nat
  BY <1>1, CountIsNat DEF Count, Started
<1>4. a \in Owed(Count, pc, refs)
  BY <1>2 DEF OwedBy, Owed
<1>5. /\ a.op = "turn" => a.of \in Turns /\ a.value \in TurnRecord(Count)
      /\ a.op = "request" => a.of \in Turns /\ a.value \in Asks
      /\ a.op = "checkpoint" => a.of \in Procs /\ a.value \in Savable(pc[a.of], refs[a.of])
  BY <1>4 DEF Owed, Plain
<1>6. Recorded'
  <2>1. turn' = IF a.op = "turn" THEN [turn EXCEPT ![a.of] = a.value] ELSE turn
    BY DEF Write
  <2>2. request' = IF a.op = "request" THEN [request EXCEPT ![a.of] = a.value] ELSE request
    BY DEF Write
  <2>3. threads' = IF a.op = "thread" THEN threads \cup {"dst"} ELSE threads
    BY DEF Write
  <2> HIDE DEF a
  <2>4. turn' \in [Turns -> TurnRecord(Count')] /\ request' \in [Turns -> Asks] /\ threads' \subseteq Threads
    BY <1>3, <1>5, <2>1, <2>2, <2>3 DEF IInv, Recorded, Threads, Count
  <2>5. QED
    BY <1>1, <2>4 DEF IInv, Recorded, Count
<1>7. Snapped'
  <2>1. CASE a.op = "checkpoint"
    <3>1. checkpoint' = [checkpoint EXCEPT ![a.of] = a.value]
      BY <2>1 DEF Write
    <3> HIDE DEF a
    <3>2. checkpoint' \in [Procs -> Marks]
      BY <1>5, <2>1, <3>1 DEF IInv, Snapped, Savable
    <3>3. \A p \in Procs : Kept(pc[p], checkpoint'[p], refs[p])
      BY <1>5, <2>1, <3>1 DEF IInv, Snapped, Kept, Savable
    <3>4. QED
      BY <1>1, <3>2, <3>3 DEF IInv, Snapped
  <2>2. CASE a.op = "supersede"
    <3>1. checkpoint' = [q \in Procs |-> IF q # a.of /\ checkpoint[q] = "completed" THEN "superseded" ELSE checkpoint[q]]
      BY <2>2 DEF Write
    <3> HIDE DEF a
    <3>2. checkpoint' \in [Procs -> Marks]
      BY <3>1 DEF IInv, Snapped, Marks
    <3>3. \A p \in Procs : Kept(pc[p], checkpoint'[p], refs[p])
      BY <3>1 DEF IInv, Snapped, Kept
    <3>4. QED
      BY <1>1, <3>2, <3>3 DEF IInv, Snapped
  <2>3. CASE a.op \notin {"checkpoint", "supersede"}
    <3>1. checkpoint' = checkpoint
      BY <2>3 DEF Write
    <3>2. QED
      BY <1>1, <3>1 DEF IInv, Snapped
  <2>4. QED
    BY <2>1, <2>2, <2>3
<1>8. Holding'
  <2>1. \A v \in Writers : todo'[v] # <<>> => todo[v] # <<>>
    BY <1>2
  <2>2. QED
    BY <1>1, <2>1 DEF IInv, Holding, Writers, Others
<1>9. Maintaining'
  <2>1. "maintenance" \in Writers
    BY DEF Writers, Others
  <2>2. CASE w = "maintenance"
    <3>1. Len(todo'[w]) <= 1
      BY <1>2, <2>2 DEF IInv, Maintaining
    <3>2. todo' \in [Writers -> Seq(Owed(Count', pc', refs'))]
      BY <1>2 DEF Queued, Owing, Count
    <3>3. Len(todo'[w]) \in Nat
      BY <3>2, LenProperties
    <3>4. todo["maintenance"] # <<>> /\ job.kind # "none"
      BY <1>2, <2>2 DEF IInv, Maintaining
    <3>5. Len(todo'["maintenance"]) \in Nat /\ Len(todo'["maintenance"]) <= 1
      BY <2>2, <3>1, <3>3
    <3>6. job' = job /\ held' = held
      BY <1>1
    <3>7. Len(todo'["maintenance"]) # 2
      BY <3>5
    <3>8. QED
      BY <3>4, <3>5, <3>6, <3>7 DEF IInv, Maintaining
  <2>3. CASE w # "maintenance"
    BY <1>1, <1>2, <2>1, <2>3 DEF IInv, Maintaining
  <2>4. QED
    BY <2>2, <2>3
<1>10. QED
  BY <1>2, <1>6, <1>7, <1>8, <1>9 DEF IInv

-----------------------------------------------------------------------------
(* Decisions, timers and rewinds                                           *)

\* A writer beside the runs submits appends that are no checkpoint.
LEMMA SubmitsPlain ==
    ASSUME IInv, NEW w \in Others \ {"rewind"}, todo[w] = <<>>, NEW s \in Seq(Plain(Count)), Submit(w, s),
           UNCHANGED <<pc, refs>>
    PROVE  /\ Queued' /\ Count' = Count /\ Count \in Nat
           /\ todo'[w] = s /\ \A v \in Writers \ {w} : todo'[v] = todo[v]
<1>1. Count' = Count /\ Count \in Nat
  BY CountIsNat DEF Count, Started
<1>2. Owing(todo, Count', pc', refs')
  BY <1>1 DEF IInv, Queued, Count
<1>3. w \in Writers /\ OwedBy(w, Count', pc', refs') = Plain(Count)
  BY <1>1, MayOwe
<1>4. QED
  BY <1>1, <1>2, <1>3, Submits DEF IInv

\* An approval is decided, or an input times out: a turn or a request is written.
LEMMA BesideStep == ASSUME IInv, NEW p \in Procs, Decide(p) \/ Expire(p) PROVE IInv'
<1>1. PICK w \in {"decision", "timer"}, event \in Events :
        /\ todo[w] = <<>> /\ Submit(w, Appends(TurnOf(p), event))
        /\ UNCHANGED <<records, snapshots, deleted, pc, held, job, host, bounds>>
  BY DEF Decide, Expire, Record, Events
<1>2. asked' \in [Procs -> SUBSET {"approval", "input"}]
  BY DEF Decide, Expire, IInv, Recorded
<1>3. Appends(TurnOf(p), event) \in Seq(Plain(Count))
  BY CountIsNat, Recordable
<1>4. /\ Queued' /\ Count' = Count
      /\ \A v \in Writers \ {w} : todo'[v] = todo[v]
  BY <1>1, <1>3, SubmitsPlain DEF Others, snapshots
<1>5. Recorded'
  BY <1>1, <1>2, <1>4 DEF IInv, Recorded, records, Count
<1>6. \A v \in Procs \cup {"rewind", "maintenance"} : v \in Writers \ {w}
  BY NamesAreDistinct DEF Writers, Others
<1>7. Holding' /\ Maintaining'
  BY <1>1, <1>4, <1>6 DEF IInv, Holding, Maintaining
<1>8. Snapped'
  BY <1>1 DEF IInv, Snapped, snapshots
<1>9. QED
  BY <1>4, <1>5, <1>7, <1>8 DEF IInv

\* A rewind starts when nothing holds the worktree, from a completed checkpoint.
LEMMA RewindStep == ASSUME IInv, NEW p \in Procs, Rewind(p) PROVE IInv'
<1>1. /\ held = {} /\ checkpoint[p] = "completed" /\ held' = {"rewind"}
      /\ UNCHANGED <<records, snapshots, deleted, pc, asked, job, host, crashes>>
  BY DEF Rewind
<1>2. PICK done \in BOOLEAN : Submit("rewind", If(done, Put("checkpoint", p, "superseded")))
  BY DEF Rewind
<1> DEFINE s == If(done, Put("checkpoint", p, "superseded"))
<1>3. todo["rewind"] = <<>> /\ \A q \in Procs : pc[q] \in Outside
  BY <1>1 DEF IInv, Holding
<1>4. Count' = Count /\ Count \in Nat
  BY <1>1, CountIsNat DEF Count, Started
<1>5. "superseded" \in Savable(pc[p], refs[p])
  BY <1>1 DEF IInv, Snapped, Kept, Savable, Marks
<1>6. "rewind" \in Writers /\ OwedBy("rewind", Count', pc', refs') = Owed(Count', pc', refs')
  BY <1>4, MayOwe
<1>7. s \in Seq(OwedBy("rewind", Count', pc', refs'))
  <2>1. Put("checkpoint", p, "superseded") \in Seq(Owed(Count', pc', refs'))
    BY <1>1, <1>4, <1>5, MayOwe DEF snapshots
  <2>2. QED
    BY <1>6, <2>1 DEF If
<1> HIDE DEF s
<1>8. Owing(todo, Count', pc', refs')
  BY <1>1, <1>4 DEF IInv, Queued, Count, snapshots
<1>9. Queued' /\ \A v \in Writers \ {"rewind"} : todo'[v] = todo[v]
  BY <1>2, <1>3, <1>6, <1>7, <1>8, Submits DEF IInv, s
<1>10. \A v \in Procs \cup {"maintenance"} : v \in Writers \ {"rewind"}
  BY NamesAreDistinct DEF Writers, Others
<1>11. Holding' /\ Maintaining'
  BY <1>1, <1>3, <1>9, <1>10 DEF IInv, Holding, Maintaining
<1>12. Recorded' /\ Snapped'
  BY <1>1, <1>4 DEF IInv, Recorded, Snapped, records, snapshots, Count
<1>13. QED
  BY <1>9, <1>11, <1>12 DEF IInv

\* The rewind gives the worktree back when its record is written.
LEMMA RewindDoneStep == ASSUME IInv, RewindDone PROVE IInv'
<1>1. /\ "rewind" \in held /\ todo["rewind"] = <<>> /\ held' = held \ {"rewind"}
      /\ UNCHANGED <<records, snapshots, deleted, pc, asked, writing, job, host, bounds>>
  BY DEF RewindDone
<1>2. Count' = Count
  BY <1>1 DEF Count, Started
<1>3. Recorded' /\ Snapped' /\ Queued'
  BY <1>1, <1>2 DEF IInv, Recorded, Snapped, Queued, records, snapshots, writing, Count
<1>4. \A p \in Procs : p # "rewind"
  BY NamesAreDistinct DEF Others
<1>5. Holding' /\ Maintaining'
  BY <1>1, <1>4 DEF IInv, Holding, Maintaining, writing
<1>6. QED
  BY <1>3, <1>5 DEF IInv

-----------------------------------------------------------------------------
(* Deletion, retention, crash and recovery                                 *)

\* A deletion is recorded, its removal follows; or the refs are gone and the
\* removal is submitted.
LEMMA MaintenanceSubmits ==
    ASSUME IInv, (\E c \in Threads : DeleteConversation(c)) \/ Invalidated PROVE IInv'
<1> DEFINE S == Seq(Plain(Count))
<1>1. UNCHANGED <<records, snapshots, deleted, pc, asked, held, host>> /\ todo["maintenance"] = <<>>
  <2>1. CASE \E c \in Threads : DeleteConversation(c)
    <3>1. job = NoJob
      BY <2>1 DEF DeleteConversation
    <3>2. job.kind = "none"
      BY <3>1 DEF NoJob
    <3>3. QED
      BY <2>1, <3>2 DEF DeleteConversation, IInv, Maintaining
  <2>2. CASE Invalidated
    BY <2>2 DEF Invalidated, Invalidating
  <2>3. QED
    BY <2>1, <2>2
<1>2. \A x \in Plain(Count), y \in Plain(Count) :
          <<x>> \o <<y>> \in S /\ Len(<<x>> \o <<y>>) = 2 /\ (<<x>> \o <<y>>)[1] = x /\ <<x>> \in S /\ Len(<<x>>) = 1
  BY CountIsNat
<1>3. PICK s \in S :
        /\ Submit("maintenance", s) /\ Len(s) <= 2 /\ (Len(s) = 2 => s[1].op # "remove")
        /\ job' \in [kind : {"conversation", "project", "retention"}, threads : SUBSET Threads]
        /\ job'.kind = "conversation" \/ job' = job
  <2>1. ASSUME NEW c \in Threads, DeleteConversation(c)
        PROVE  \E s \in S : /\ Submit("maintenance", s) /\ Len(s) <= 2 /\ (Len(s) = 2 => s[1].op # "remove")
                            /\ job' \in [kind : {"conversation", "project", "retention"}, threads : SUBSET Threads]
                            /\ job'.kind = "conversation" \/ job' = job
    <3> DEFINE x == [op |-> "deletion", of |-> c, value |-> "pending"]
               y == [op |-> "remove", of |-> c, value |-> "all"]
    <3>1. x \in Plain(Count) /\ y \in Plain(Count) /\ x.op # "remove"
      BY DEF Plain
    <3>2. Submit("maintenance", <<x>> \o <<y>>)
      BY <2>1 DEF DeleteConversation, Put
    <3>3. job' = [kind |-> "conversation", threads |-> {c}]
      BY <2>1 DEF DeleteConversation
    <3> HIDE DEF x, y, S
    <3> DEFINE z == <<x>> \o <<y>>
    <3>4. z \in S /\ Len(z) = 2 /\ z[1] = x
      BY <1>2, <3>1
    <3>5. Submit("maintenance", z)
      BY <3>2
    <3> HIDE DEF z
    <3>6. job' \in [kind : {"conversation", "project", "retention"}, threads : SUBSET Threads] /\ job'.kind = "conversation"
      BY <3>3
    <3>7. Len(z) <= 2 /\ z[1].op # "remove"
      BY <3>1, <3>4
    <3>8. z \in S
      BY <3>4
    <3>9. QED
      BY <3>5, <3>6, <3>7, <3>8
  <2>2. ASSUME Invalidated
        PROVE  \E s \in S : /\ Submit("maintenance", s) /\ Len(s) <= 2 /\ (Len(s) = 2 => s[1].op # "remove")
                            /\ job' \in [kind : {"conversation", "project", "retention"}, threads : SUBSET Threads]
                            /\ job'.kind = "conversation" \/ job' = job
    <3> DEFINE y == [op |-> "remove", of |-> job.kind, value |-> "all"]
    <3>1. job.kind \in {"project", "retention"} /\ Submit("maintenance", <<y>>) /\ job' = job
      BY <2>2 DEF Invalidated, Invalidating, Put
    <3>2. y \in Plain(Count)
      BY <3>1 DEF Plain
    <3>3. job \in [kind : {"conversation", "project", "retention"}, threads : SUBSET Threads]
      BY <3>1 DEF IInv, Maintaining
    <3> HIDE DEF y, S
    <3>4. <<y>> \in S /\ Len(<<y>>) = 1
      BY <1>2, <3>2
    <3>5. QED
      BY <3>1, <3>3, <3>4
  <2>3. QED
    BY <2>1, <2>2
<1>4. /\ Queued' /\ Count' = Count
      /\ todo'["maintenance"] = s /\ \A v \in Writers \ {"maintenance"} : todo'[v] = todo[v]
  BY <1>1, <1>3, SubmitsPlain DEF Others, snapshots
<1>5. Recorded' /\ Snapped'
  BY <1>1, <1>4 DEF IInv, Recorded, Snapped, records, snapshots, Count
<1>6. \A v \in Procs \cup {"rewind"} : v \in Writers \ {"maintenance"}
  BY NamesAreDistinct DEF Writers, Others
<1>7. Holding'
  BY <1>1, <1>4, <1>6 DEF IInv, Holding
<1>8. Maintaining'
  BY <1>1, <1>3, <1>4 DEF IInv, Maintaining
<1>9. QED
  BY <1>4, <1>5, <1>7, <1>8 DEF IInv

\* The removal is the last thing a maintenance job owes.
LEMMA Removes ==
    ASSUME IInv, queue # <<>>, Head(queue) = "maintenance", Head(todo["maintenance"]).op = "remove",
           Made("maintenance"), UNCHANGED <<pc, refs>>
    PROVE  /\ Queued' /\ job.kind # "none" /\ todo'["maintenance"] = <<>>
           /\ \A v \in Procs \cup {"rewind"} : todo'[v] = todo[v]
<1>1. /\ Queued' /\ todo["maintenance"] # <<>> /\ Len(todo["maintenance"]) \in Nat
      /\ Head(todo["maintenance"]) = todo["maintenance"][1]
      /\ Len(todo'["maintenance"]) < Len(todo["maintenance"])
      /\ \A v \in Writers \ {"maintenance"} : todo'[v] = todo[v]
      /\ Len(todo["maintenance"]) = 1 => todo'["maintenance"] = <<>>
  BY Makes DEF IInv
<1>2. "maintenance" \in Writers
  BY DEF Writers, Others
<1>3. todo["maintenance"] \in Seq(Owed(Count, pc, refs))
  BY <1>2 DEF IInv, Queued, Owing, Count
<1>4. Len(todo["maintenance"]) # 0
  BY <1>1, <1>3, EmptySeq
<1>5. Len(todo["maintenance"]) = 1
  <2>1. todo["maintenance"][1].op = "remove"
    BY <1>1
  <2>2. Len(todo["maintenance"]) <= 2 /\ Len(todo["maintenance"]) # 2
    BY <2>1 DEF IInv, Maintaining
  <2> DEFINE n == Len(todo["maintenance"])
  <2>3. n \in Nat /\ n <= 2 /\ n # 2 /\ n # 0
    BY <1>1, <1>4, <2>2
  <2> HIDE DEF n
  <2>4. n = 1
    BY <2>3
  <2>5. QED
    BY <2>4 DEF n
<1>6. \A v \in Procs \cup {"rewind"} : v \in Writers \ {"maintenance"}
  BY NamesAreDistinct DEF Writers, Others
<1>7. QED
  BY <1>1, <1>5, <1>6 DEF IInv, Maintaining

\* The records of a conversation are removed: what is left is in order.
LEMMA RemoveStep ==
    ASSUME IInv, RemoveConversation \/ \E gone \in SUBSET Threads : Compact(gone) PROVE IInv'
<1>1. /\ queue # <<>> /\ Head(queue) = "maintenance" /\ Head(todo["maintenance"]).op = "remove"
      /\ Made("maintenance") /\ job' = NoJob /\ UNCHANGED <<refs, pc, asked, host>>
      /\ held' = held \/ (held' = held \ {"maintenance"} /\ job.kind # "conversation")
      /\ transfer' \in {transfer, "removed"}
  BY DEF RemoveConversation, Compact, Removing
<1>2. deleted' \subseteq Threads
  BY DEF RemoveConversation, Compact, IInv, Recorded, Maintaining
<1>3. threads' \subseteq threads
  BY DEF RemoveConversation, Compact, Remove
<1>4. turn' \in {turn, [t \in Turns |-> NoTurn], [turn EXCEPT ![Mail].status = "interrupted"]}
  BY DEF RemoveConversation, Compact, Remove
<1>5. request' \in {request, [t \in Turns |-> "none"]}
  BY DEF RemoveConversation, Compact, Remove
<1>6. checkpoint' \in {checkpoint, [p \in Procs |-> "none"]}
  BY DEF RemoveConversation, Compact, Remove
<1>7. /\ Queued' /\ job.kind # "none" /\ todo'["maintenance"] = <<>>
      /\ \A v \in Procs \cup {"rewind"} : todo'[v] = todo[v]
  BY <1>1, Removes
<1>8. Count' = Count /\ Count \in Nat
  BY <1>1, CountIsNat DEF Count, Started
<1>9. turn' \in [Turns -> TurnRecord(Count)]
  <2>1. NoTurn \in TurnRecord(Count)
    BY <1>8 DEF NoTurn, TurnRecord, Statuses
  <2>2. Mail \in Turns
    BY DEF Turns
  <2>3. [turn[Mail] EXCEPT !.status = "interrupted"] \in TurnRecord(Count)
    BY <2>2 DEF IInv, Recorded, TurnRecord, Statuses, Final, Count
  <2>4. QED
    BY <1>4, <2>1, <2>2, <2>3 DEF IInv, Recorded, Count
<1>10. Recorded'
  BY <1>1, <1>2, <1>3, <1>5, <1>8, <1>9 DEF IInv, Recorded, Asks, Count
<1>11. Snapped'
  BY <1>1, <1>6 DEF IInv, Snapped, Kept, Marks
<1>12. \A p \in Procs : p # "maintenance"
  BY NamesAreDistinct DEF Others
<1>13. Holding'
  BY <1>1, <1>7, <1>12 DEF IInv, Holding
<1>14. Maintaining'
  <2>1. job' \in [kind : {"none", "conversation", "project", "retention"}, threads : SUBSET Threads] /\ job'.kind = "none"
    BY <1>1 DEF NoJob
  <2>2. Len(todo'["maintenance"]) = 0
    BY <1>7
  <2>3. QED
    BY <1>7, <2>1, <2>2 DEF Maintaining
<1>15. QED
  BY <1>7, <1>10, <1>11, <1>13, <1>14 DEF IInv

\* Maintenance takes the worktree; then no run and no rewind owes a write, so the
\* refs of a checkpoint that is unavailable can be dropped.
LEMMA MaintenanceStep ==
    ASSUME IInv,
           \/ \E kind \in {"project", "retention"}, old \in SUBSET Threads : Maintain(kind, old)
           \/ \E p \in Procs : Invalidate(p) \/ DropRefs(p)
    PROVE  IInv'
<1>1. UNCHANGED <<records, deleted, pc, asked, writing, host>>
  BY DEF Maintain, Invalidate, DropRefs, snapshots
<1>2. Count' = Count /\ Count \in Nat
  BY <1>1, CountIsNat DEF Count, Started
<1>3. Recorded'
  BY <1>1, <1>2 DEF IInv, Recorded, records, Count
<1>4. Owing(todo, Count, pc, refs)
  BY DEF IInv, Queued, Count
<1>5. CASE \E kind \in {"project", "retention"}, old \in SUBSET Threads : Maintain(kind, old)
  <2>1. /\ held = {} /\ held' = {"maintenance"} /\ job = NoJob /\ UNCHANGED snapshots
        /\ job' \in [kind : {"project", "retention"}, threads : SUBSET Threads]
    BY <1>5 DEF Maintain
  <2>2. Queued'
    BY <1>1, <1>2, <1>4, <2>1, QueueStays DEF IInv, snapshots
  <2>3. Holding'
    BY <1>1, <2>1 DEF IInv, Holding, writing
  <2>4. todo["maintenance"] = <<>>
    BY <2>1 DEF IInv, Maintaining, NoJob
  <2>5. Len(<<>>) = 0
    OBVIOUS
  <2>6. Maintaining'
    BY <1>1, <2>1, <2>4, <2>5 DEF IInv, Maintaining, writing
  <2>7. Snapped'
    BY <1>1, <2>1 DEF IInv, Snapped, snapshots
  <2>8. QED
    BY <1>3, <2>2, <2>3, <2>6, <2>7 DEF IInv
<1>6. ASSUME NEW p \in Procs, Invalidate(p) PROVE IInv'
  <2>1. UNCHANGED <<held, job, refs>> /\ checkpoint' = [checkpoint EXCEPT ![p] = "unavailable"]
    BY <1>6 DEF Invalidate
  <2>2. Queued'
    BY <1>1, <1>2, <1>4, <2>1, QueueStays DEF IInv
  <2>3. Holding' /\ Maintaining'
    BY <1>1, <2>1 DEF IInv, Holding, Maintaining, writing
  <2>4. Snapped'
    BY <1>1, <2>1 DEF IInv, Snapped, Kept, Marks
  <2>5. QED
    BY <1>3, <2>2, <2>3, <2>4 DEF IInv
<1>7. ASSUME NEW p \in Procs, DropRefs(p) PROVE IInv'
  <2>1. /\ UNCHANGED <<held, job, checkpoint>> /\ refs' = [refs EXCEPT ![p] = {}]
        /\ job.kind \in {"project", "retention"} /\ checkpoint[p] = "unavailable"
    BY <1>7 DEF DropRefs, Invalidating
  <2>2. "maintenance" \in held
    BY <2>1 DEF IInv, Maintaining
  <2>3. \A q \in Procs \cup {"rewind"} : q \notin held
    BY <2>2, NamesAreDistinct DEF IInv, Holding, Others
  <2>4. \A q \in Procs \cup {"rewind"} : todo[q] = <<>>
    BY <2>3 DEF IInv, Holding
  <2>5. Owing(todo, Count', pc', refs')
    <3>1. \A ls, rs : Owing(todo, Count, ls, rs)
      BY <1>2, <1>4, <2>4, CarriedPlain
    <3>2. QED
      BY <1>2, <3>1
  <2>6. Queued'
    BY <1>1, <2>5, QueueStays DEF IInv
  <2>7. Holding' /\ Maintaining'
    BY <1>1, <2>1 DEF IInv, Holding, Maintaining, writing
  <2>8. Snapped'
    BY <1>1, <2>1 DEF IInv, Snapped, Kept, Both
  <2>9. QED
    BY <1>3, <2>6, <2>7, <2>8 DEF IInv
<1>8. QED
  BY <1>5, <1>6, <1>7

\* A crash drops everything that was owed and everybody who held the worktree.
LEMMA CrashStep == ASSUME IInv, Crash PROVE IInv'
<1>1. /\ pc' = [p \in Procs |-> IF pc[p] = "idle" \/ (p \in Starts /\ pc[p] = "admitting") THEN pc[p] ELSE "done"]
      /\ asked' = [p \in Procs |-> {}] /\ todo' = [w \in Writers |-> <<>>] /\ queue' = <<>>
      /\ held' = {} /\ job' = NoJob /\ host' = "recovering"
      /\ UNCHANGED <<records, snapshots, deleted, jobs>>
  BY DEF Crash
<1>2. pc' \in [Procs -> Labels] /\ \A p \in Procs : (pc'[p] = pc[p] /\ pc[p] \in Outside) \/ pc'[p] = "done"
  BY <1>1 DEF IInv, Recorded, Labels, Outside
<1>3. Count \in Nat /\ Count' \in Nat /\ Count <= Count'
  <2>1. Started \in SUBSET Started' /\ Started' \in SUBSET Procs
    BY <1>2 DEF Started, Early
  <2>2. QED
    BY <2>1, Counting DEF Count
<1>4. TurnRecord(Count) \subseteq TurnRecord(Count')
  BY <1>3, PlainGrows
<1>5. turn' \in [Turns -> TurnRecord(Count')]
  BY <1>1, <1>4 DEF IInv, Recorded, records, Count
<1>6. Recorded'
  BY <1>1, <1>2, <1>5 DEF IInv, Recorded, records, Count
<1>7. Snapped'
  BY <1>1, <1>2 DEF IInv, Snapped, Kept, snapshots, Early, Working
<1>8. Queued'
  <2>1. Owing(todo', Count', pc', refs')
    BY <1>1 DEF Owing, Writers
  <2>2. queue' \in Seq(Writers) /\ QueueFollows(todo', queue')
    BY <1>1 DEF QueueFollows
  <2>3. QED
    BY <2>1, <2>2 DEF Queued, Count
<1>9. Holding'
  BY <1>1, <1>2 DEF Holding, Writers, Others, Outside
<1>10. Maintaining'
  <2>1. todo'["maintenance"] = <<>> /\ Len(<<>>) = 0
    BY <1>1 DEF Writers, Others
  <2>2. job'.kind = "none" /\ job' \in [kind : {"none", "conversation", "project", "retention"}, threads : SUBSET Threads]
    BY <1>1 DEF NoJob
  <2>3. QED
    BY <2>1, <2>2 DEF Maintaining
<1>11. QED
  BY <1>6, <1>7, <1>8, <1>9, <1>10 DEF IInv

\* recoverInterruptedTurns settles a turn that nothing runs any more.
LEMMA RecoverStep == ASSUME IInv, (\E t \in Turns : Recover(t)) \/ Recovered PROVE IInv'
<1>1. ASSUME NEW t \in Turns, Recover(t) PROVE IInv'
  <2> DEFINE s == If(turn[t].status = "waiting_for_user", Put("request", t, "cancelled")) \o PutTurn(t, "interrupted")
  <2>1. /\ todo["recovery"] = <<>> /\ Submit("recovery", s)
        /\ UNCHANGED <<records, snapshots, deleted, pc, asked, held, job, host, bounds>>
    BY <1>1 DEF Recover
  <2>2. s \in Seq(Plain(Count))
    <3>1. [turn[t] EXCEPT !.status = "interrupted"] \in TurnRecord(Count)
      BY DEF IInv, Recorded, TurnRecord, Statuses, Final, Count
    <3>2. PutTurn(t, "interrupted") \in Seq(Plain(Count))
      BY <3>1 DEF PutTurn, Put, Plain
    <3>3. Put("request", t, "cancelled") \in Seq(Plain(Count))
      BY DEF Put, Plain, Asks
    <3>4. If(turn[t].status = "waiting_for_user", Put("request", t, "cancelled")) \in Seq(Plain(Count))
      BY <3>3 DEF If
    <3>5. QED
      BY <3>2, <3>4, ConcatProperties
  <2> HIDE DEF s
  <2>3. /\ Queued' /\ Count' = Count
        /\ \A v \in Writers \ {"recovery"} : todo'[v] = todo[v]
    BY <2>1, <2>2, SubmitsPlain DEF Others, snapshots
  <2>4. Recorded' /\ Snapped'
    BY <2>1, <2>3 DEF IInv, Recorded, Snapped, records, snapshots, Count
  <2>5. \A v \in Procs \cup {"rewind", "maintenance"} : v \in Writers \ {"recovery"}
    BY NamesAreDistinct DEF Writers, Others
  <2>6. Holding' /\ Maintaining'
    BY <2>1, <2>3, <2>5 DEF IInv, Holding, Maintaining
  <2>7. QED
    BY <2>3, <2>4, <2>6 DEF IInv
<1>2. CASE Recovered
  <2>1. /\ host' = "up"
        /\ UNCHANGED <<records, snapshots, deleted, pc, asked, writing, held, job, bounds>>
    BY <1>2 DEF Recovered
  <2>2. Count' = Count
    BY <2>1 DEF Count, Started
  <2>3. Recorded' /\ Snapped' /\ Queued' /\ Holding' /\ Maintaining'
    BY <2>1, <2>2 DEF IInv, Recorded, Snapped, Queued, Holding, Maintaining, records, snapshots, writing, Count
  <2>4. QED
    BY <2>3 DEF IInv
<1>3. QED
  BY <1>1, <1>2

-----------------------------------------------------------------------------
(* The inductive invariant                                                 *)

\* Every step keeps IInv.
LEMMA InvStep == IInv /\ [Next]_vars => IInv'
<1> SUFFICES ASSUME IInv, [Next]_vars PROVE IInv'
  OBVIOUS
<1>1. ASSUME NEW w \in Writers, Write(w) PROVE IInv'
  BY <1>1, WriteStep
<1>2. ASSUME NEW p \in Sends, Send(p) PROVE IInv'
  BY <1>2, SendStep DEF Procs
<1>3. ASSUME NEW p \in Procs, RunStep(p) PROVE IInv'
  BY <1>3, SendStep, ReserveStep, OpenStep, CaptureStep, LaunchStep, LaunchFailedStep, BindStep,
     SettleStep, LeaveStep DEF RunStep
<1>4. ASSUME NEW p \in Procs,
             \/ Stops(p) \/ Answered(p) \/ HistoryFails(p)
             \/ \E q \in {"approval", "input"} : Ask(p, q)
      PROVE  IInv'
  BY <1>4, LoopStep DEF Stops
<1>5. ASSUME NEW p \in Procs, Decide(p) \/ Expire(p) \/ Rewind(p) PROVE IInv'
  BY <1>5, BesideStep, RewindStep
<1>6. ASSUME NEW c \in Threads, DeleteConversation(c) PROVE IInv'
  BY <1>6, MaintenanceSubmits
<1>7. ASSUME NEW kind \in {"project", "retention"}, NEW old \in SUBSET Threads, Maintain(kind, old) PROVE IInv'
  BY <1>7, MaintenanceStep
<1>8. CASE Maintenance
  BY <1>8, RemoveStep, RewindDoneStep, MaintenanceSubmits, MaintenanceStep DEF Maintenance
<1>9. CASE Crash
  BY <1>9, CrashStep
<1>10. CASE (\E t \in Turns : Recover(t)) \/ Recovered
  BY <1>10, RecoverStep
<1>11. CASE UNCHANGED vars
  <2>1. UNCHANGED <<records, snapshots, deleted, pc, asked, writing, held, job, host, bounds>>
    BY <1>11 DEF vars
  <2>2. Count' = Count
    BY <2>1 DEF Count, Started
  <2>3. Recorded' /\ Snapped' /\ Queued' /\ Holding' /\ Maintaining'
    BY <2>1, <2>2 DEF IInv, Recorded, Snapped, Queued, Holding, Maintaining, records, snapshots, writing, Count
  <2>4. QED
    BY <2>3 DEF IInv
<1>12. QED
  BY <1>1, <1>2, <1>3, <1>4, <1>5, <1>6, <1>7, <1>8, <1>9, <1>10, <1>11 DEF Next

\* IInv holds when the host starts: nothing is held, owed or saved.
LEMMA InvInit == Init => IInv
<1> SUFFICES ASSUME Init PROVE IInv
  OBVIOUS
<1>1. Count \in Nat
  BY CountIsNat
<1>2. NoTurn \in TurnRecord(Count)
  BY <1>1 DEF NoTurn, TurnRecord, Statuses
<1>3. Recorded
  BY <1>2 DEF Init, Recorded, Asks, Labels, Early, Count
<1>4. Queued
  <2>1. Owing(todo, Count, pc, refs)
    BY DEF Init, Owing, Writers
  <2>2. queue \in Seq(Writers) /\ QueueFollows(todo, queue)
    BY DEF Init, QueueFollows
  <2>3. QED
    BY <2>1, <2>2 DEF Queued, Count
<1>5. Holding
  BY DEF Init, Holding, Writers, Others, Outside
<1>6. Maintaining
  <2>1. todo["maintenance"] = <<>> /\ Len(<<>>) = 0
    BY DEF Init, Writers, Others
  <2>2. job.kind = "none" /\ job \in [kind : {"none", "conversation", "project", "retention"}, threads : SUBSET Threads]
    BY DEF Init, NoJob
  <2>3. QED
    BY <2>1, <2>2 DEF Maintaining
<1>7. Snapped
  BY DEF Init, Snapped, Kept, Marks, Both, Working
<1>8. QED
  BY <1>3, <1>4, <1>5, <1>6, <1>7 DEF IInv

\* The inductive invariant holds throughout.
THEOREM InvHolds == Spec => []IInv
BY InvInit, InvStep, PTL DEF Spec

-----------------------------------------------------------------------------
(* What follows from it                                                    *)

\* The records are of their types; above all, a turn is bound to at most as many
\* runs as there are, however often stale copies of it are written back.
THEOREM TypeCorrect == Spec => []TypeOK
<1>1. IInv => TypeOK
  <2> SUFFICES ASSUME IInv PROVE TypeOK
    OBVIOUS
  <2>1. Count \in Nat /\ Cardinality(Procs) \in Nat /\ Count <= Cardinality(Procs)
    BY CountIsNat, Counting
  <2>2. TurnRecord(Count) \subseteq TurnRecord(Cardinality(Procs))
    BY <2>1, PlainGrows
  <2>3. turn \in [Turns -> TurnRecord(Cardinality(Procs))]
    BY <2>2 DEF IInv, Recorded, Count
  <2>4. QED
    BY <2>3 DEF IInv, Recorded, Snapped, Holding, TypeOK, TurnRecord, Statuses, Asks, Marks, Both
<1>2. QED
  BY <1>1, InvHolds, PTL

\* Runs, rewinds and maintenance exclude one another from the reservation of the
\* worktree to the last write they owe.
THEOREM WorktreeHasOneHolder == Spec => []OneHolder
<1>1. IInv => OneHolder
  <2> SUFFICES ASSUME IInv PROVE OneHolder
    OBVIOUS
  <2>1. Cardinality(held) <= 1
    <3>1. CASE held = {}
      BY <3>1, FS_EmptySet
    <3>2. CASE held # {}
      <4>1. PICK a : held = {a}
        BY <3>2 DEF IInv, Holding
      <4>2. Cardinality({a}) = 1
        BY FS_Singleton
      <4>3. QED
        BY <4>1, <4>2
    <3>3. QED
      BY <3>1, <3>2
  <2>2. QED
    BY <2>1 DEF IInv, Holding, OneHolder, Outside
<1>2. QED
  BY <1>1, InvHolds, PTL

\* A checkpoint that can be reviewed or rewound has both its snapshots, whatever
\* runs, rewinds, project deletions, retentions and crashes come in between.
THEOREM SnapshotsAreReachable == Spec => []CompletedIsReachable
<1>1. IInv => CompletedIsReachable
  BY DEF IInv, Snapped, Kept, CompletedIsReachable, Both
<1>2. QED
  BY <1>1, InvHolds, PTL
-----------------------------------------------------------------------------
(* A turn that waits has its question.  The two are written one after the  *)
(* other, by the run, its timer and whoever ends it, each from what it read *)
(* earlier.  The invariant says which of these writes may be owed together, *)
(* and in which order they stand in the queue.                             *)

\* Before any crash, and before a deletion has completed.
Undisturbed == crashes = 0 /\ deleted = {}

\* An append that makes its turn wait; that asks, or settles, its request.
Waiting(a) == a.op = "turn" /\ a.value.status = "waiting_for_user"
Opening(a) == a.op = "request" /\ a.value = "pending"
Settling(a) == a.op = "request" /\ a.value \in {"answered", "cancelled"}

\* A run in one of these places was bound to its turn.
Attended == {"running", "completed", "stopped", "lost", "closing"}

\* The appends of one handler: a turn waits only after its request was made, and
\* what is settled after a write of the turn comes after one that leaves it.
Orderly(s) ==
    /\ \A i \in 1..Len(s) : i > 2 => s[i].op \notin {"turn", "request"}
    /\ \A i \in 1..Len(s) : s[i].op = "request" => Opening(s[i]) \/ Settling(s[i])
    /\ Len(s) >= 2 /\ Waiting(s[2]) => Opening(s[1])
    /\ Len(s) >= 2 /\ s[2].op = "request" => s[1].op = "turn" /\ ~Waiting(s[1]) /\ Settling(s[2])

\* Whose appends they are: a timer settles a request and lets its turn go on, a
\* decision lets a turn go on, and the turn of a run that is bound stays bound.
OwnsTurn(w, s, l) ==
    \A i \in 1..Len(s) :
        /\ s[i].op \in {"turn", "request"} =>
              \/ w \in Procs /\ s[i].of = TurnOf(w)
              \/ w = "decision" /\ s[i].op = "turn" /\ s[i].value.status = "active"
              \/ /\ w = "timer" /\ s[i].of = s[1].of
                 /\ s[i].op = "turn" => s[i].value.status = "active"
                 /\ s[i].op = "request" => i = 1 /\ Settling(s[i])
        /\ s[i].op = "turn" /\ (w \in Procs => l \in Attended) => s[i].value.runs > 0

Label(w) == IF w \in Procs THEN pc[w] ELSE "none"
Shaped == \A w \in Writers : Orderly(todo[w]) /\ OwnsTurn(w, todo[w], Label(w))

\* What is owed is in the queue; a writer stands before another.
Enqueued(td, q) == \A w \in Writers : td[w] # <<>> => \E i \in 1..Len(q) : q[i] = w
Precedes(q, v, w) == \A i, j \in 1..Len(q) : q[i] = v /\ q[j] = w => i < j

\* A run is bound to its turn while its provider may ask.
Attending ==
    \A p \in Procs : /\ pc[p] \in Attended => Bound(TurnOf(p))
                     /\ asked[p] # {} => pc[p] \in Attended

\* A question that is still to be written belongs to a run whose turn goes on,
\* and no request was made before it.
Asking ==
    \A p \in Procs : \A i \in 1..Len(todo[p]) :
        Opening(todo[p][i]) \/ Waiting(todo[p][i]) =>
            /\ pc[p] = "running" /\ turn[TurnOf(p)].status \notin Final
            /\ Opening(todo[p][i]) => request[TurnOf(p)] = "none"

\* The next append of a writer is for t: it lets it go on, makes it wait, or
\* settles its request, followed or not by the turn.
Due(w, t) == todo[w] # <<>> /\ todo[w][1].of = t
Resumes(w, t) == Due(w, t) /\ todo[w][1].op = "turn" /\ ~Waiting(todo[w][1])
Halts(w, t) == Due(w, t) /\ Waiting(todo[w][1])
Settles(w, t) == Due(w, t) /\ Settling(todo[w][1])
Alone(s) == Len(s) >= 2 => s[2].op # "turn"

\* A turn waits, or is about to, only with a request recorded as pending, or
\* with one whose turn is about to go on.
Answerable(t) ==
    /\ turn[t].status = "waiting_for_user" => request[t] = "pending" \/ \E w \in Writers : Resumes(w, t)
    /\ \A p \in Procs : Halts(p, t) =>
          request[t] = "pending" \/ (Resumes("timer", t) /\ Precedes(queue, p, "timer"))
    /\ \A w \in Writers : Settles(w, t) /\ Alone(todo[w]) =>
          turn[t].status # "waiting_for_user" /\ \A p \in Procs : ~Halts(p, t)
    /\ Settles("timer", t) => request[t] # "none"

\* A timer settles its request before the records of its turn are removed.
InTime ==
    job.kind \in {"project", "retention"} /\ todo["timer"] # <<>> /\ todo["timer"][1].op = "request"
    => Precedes(queue, "timer", "maintenance")

Questioned ==
    /\ host = "up" /\ todo["recovery"] = <<>>
    /\ Enqueued(todo, queue) /\ Shaped /\ Attending /\ Asking
    /\ \A t \in Turns : Answerable(t)
    /\ InTime

\* A deletion that goes on is one of a conversation.
Named == job.kind = "conversation" => job.threads # {}

WInv == Named /\ crashes \in Nat /\ (Undisturbed => Questioned)

\* A writer that is submitted comes last.
LEMMA QueueGrows ==
    ASSUME NEW td, DOMAIN td = Writers, NEW q \in Seq(Writers), QueueFollows(td, q), Enqueued(td, q),
           NEW w \in Writers, td[w] = <<>>, NEW s
    PROVE  LET q2 == q \o If(s # <<>>, <<w>>)
           IN  /\ Enqueued([td EXCEPT ![w] = s], q2)
               /\ \A u, v \in Writers : u # w /\ v # w /\ Precedes(q, u, v) => Precedes(q2, u, v)
               /\ \A u \in Writers : u # w => Precedes(q2, u, w)
<1>1. \A i \in 1..Len(q) : q[i] \in Writers /\ q[i] # w
  BY ElementOfSeq DEF QueueFollows
<1>2. CASE s = <<>>
  <2>1. q \o <<>> = q
    BY ConcatEmptySeq
  <2>2. QED
    BY <1>1, <1>2, <2>1 DEF If, Enqueued, Precedes
<1>3. CASE s # <<>>
  <2> DEFINE q2 == q \o <<w>>
  <2>1. /\ Len(q2) = Len(q) + 1 /\ Len(q) \in Nat
        /\ \A i \in 1..Len(q) : q2[i] = q[i]
        /\ q2[Len(q) + 1] = w
    BY ConcatProperties
  <2> HIDE DEF q2
  <2>2. Enqueued([td EXCEPT ![w] = s], q2)
    BY <2>1 DEF Enqueued
  <2>3. \A i \in 1..Len(q2) : i \in 1..Len(q) \/ i = Len(q) + 1
    BY <2>1
  <2>4. ASSUME NEW u \in Writers, NEW v \in Writers, u # w /\ v # w, Precedes(q, u, v)
        PROVE  Precedes(q2, u, v)
    BY <2>1, <2>3, <2>4 DEF Precedes
  <2>5. \A u \in Writers : u # w => Precedes(q2, u, w)
    BY <1>1, <2>1, <2>3 DEF Precedes
  <2>6. QED
    BY <1>3, <2>2, <2>4, <2>5 DEF If, q2
<1>4. QED
  BY <1>2, <1>3

\* So does the writer at the head when it has more to write.
LEMMA QueueTurns ==
    ASSUME NEW td, DOMAIN td = Writers, NEW q \in Seq(Writers), q # <<>>, QueueFollows(td, q), Enqueued(td, q), NEW s
    PROVE  LET w == Head(q)  q2 == Tail(q) \o If(s # <<>>, <<w>>)
           IN  /\ Enqueued([td EXCEPT ![w] = s], q2)
               /\ \A u, v \in Writers : u # w /\ v # w /\ Precedes(q, u, v) => Precedes(q2, u, v)
               /\ \A u \in Writers : u # w => Precedes(q2, u, w)
               /\ \A u \in Writers : u # w /\ td[u] # <<>> => ~Precedes(q, u, w)
<1> DEFINE w == Head(q)
           t == Tail(q)
<1>1. /\ w \in Writers /\ t \in Seq(Writers) /\ Len(q) = Len(t) + 1 /\ Len(t) \in Nat
      /\ w = q[1] /\ \A i \in 1..Len(t) : t[i] = q[i + 1] /\ t[i] \in Writers
  BY HeadTailProperties, ElementOfSeq
<1>2. \A i \in 1..Len(t) : t[i] # w
  BY <1>1 DEF QueueFollows
<1> HIDE DEF w, t
<1>3. \A u \in Writers : u # w /\ td[u] # <<>> => ~Precedes(q, u, w)
  BY <1>1 DEF Precedes, Enqueued
<1>4. ASSUME NEW u \in Writers \ {w}, td[u] # <<>> PROVE \E i \in 1..Len(t) : t[i] = u
  <2>1. PICK i \in 1..Len(q) : q[i] = u
    BY <1>4 DEF Enqueued
  <2>2. i # 1 /\ i - 1 \in 1..Len(t) /\ t[i - 1] = q[(i - 1) + 1]
    BY <1>1, <1>4, <2>1
  <2>3. QED
    BY <2>1, <2>2
<1>5. \A u, v \in Writers : u # w /\ v # w /\ Precedes(q, u, v) => Precedes(t, u, v)
  BY <1>1 DEF Precedes
<1>6. CASE s = <<>>
  <2>1. t \o <<>> = t
    BY <1>1, ConcatEmptySeq
  <2>2. Enqueued([td EXCEPT ![w] = s], t)
    BY <1>4, <1>6 DEF Enqueued
  <2>3. \A u \in Writers : u # w => Precedes(t, u, w)
    BY <1>2 DEF Precedes
  <2>4. QED
    BY <1>3, <1>5, <1>6, <2>1, <2>2, <2>3 DEF If, w, t
<1>7. CASE s # <<>>
  <2> DEFINE q2 == t \o <<w>>
  <2>1. /\ Len(q2) = Len(t) + 1
        /\ \A i \in 1..Len(t) : q2[i] = t[i]
        /\ q2[Len(t) + 1] = w
    BY <1>1, ConcatProperties
  <2> HIDE DEF q2
  <2>2. Enqueued([td EXCEPT ![w] = s], q2)
    <3> SUFFICES ASSUME NEW u \in Writers, [td EXCEPT ![w] = s][u] # <<>> PROVE \E i \in 1..Len(q2) : q2[i] = u
      BY DEF Enqueued
    <3>1. CASE u = w
      BY <1>1, <2>1, <3>1
    <3>2. CASE u # w
      BY <1>1, <1>4, <2>1, <3>2
    <3>3. QED
      BY <3>1, <3>2
  <2>3. \A u, v \in Writers : u # w /\ v # w /\ Precedes(t, u, v) => Precedes(q2, u, v)
    BY <1>1, <2>1 DEF Precedes
  <2>4. \A u \in Writers : u # w => Precedes(q2, u, w)
    BY <1>1, <1>2, <2>1 DEF Precedes
  <2>5. QED
    BY <1>3, <1>5, <1>7, <2>2, <2>3, <2>4 DEF If, q2, w, t
<1>8. QED
  BY <1>6, <1>7

\* What is left of a handler's appends when the first was made: of the turn and
\* the request only the second append of the handler, now its next.
LEMMA LeftOver ==
    ASSUME NEW S, NEW s \in Seq(S), s # <<>>, Orderly(s),
           NEW r, r = Tail(s) \/ (Tail(s) # <<>> /\ Head(Tail(s)).op = "thread" /\ r = Tail(Tail(s)))
    PROVE  /\ r \in Seq(S) /\ Len(r) \in Nat /\ Len(s) \in Nat \ {0} /\ Head(s) = s[1]
           /\ \A i \in 1..Len(r) : r[i].op \in {"turn", "request"} => i = 1 /\ Len(s) >= 2 /\ r[1] = s[2]
           /\ Len(s) >= 2 /\ s[2].op \in {"turn", "request"} => r # <<>> /\ r[1] = s[2]
<1> DEFINE l == Tail(s)
<1>1. /\ l \in Seq(S) /\ Len(l) = Len(s) - 1 /\ Len(s) \in Nat \ {0} /\ Head(s) = s[1]
      /\ \A i \in 1..Len(l) : l[i] = s[i + 1]
  BY HeadTailProperties, EmptySeq
<1> HIDE DEF l
<1>2. CASE r = l
  <2>1. Len(s) >= 2 => l # <<>>
    BY <1>1, EmptySeq
  <2>2. ASSUME NEW i \in 1..Len(l), l[i].op \in {"turn", "request"} PROVE i = 1 /\ Len(s) >= 2 /\ l[1] = s[2]
    <3>1. i + 1 \in 1..Len(s) /\ l[i] = s[i + 1]
      BY <1>1
    <3>2. ~(i + 1 > 2)
      BY <2>2, <3>1 DEF Orderly
    <3>3. i = 1
      BY <1>1, <3>2
    <3>4. QED
      BY <1>1, <3>1, <3>3
  <2>3. Len(s) >= 2 => l[1] = s[2]
    BY <1>1
  <2>4. QED
    BY <1>1, <1>2, <2>1, <2>2, <2>3
<1>3. CASE l # <<>> /\ Head(l).op = "thread" /\ r = Tail(l)
  <2>1. /\ r \in Seq(S) /\ Len(r) = Len(l) - 1 /\ Len(l) \in Nat \ {0} /\ Head(l) = l[1]
        /\ \A i \in 1..Len(r) : r[i] = l[i + 1]
    BY <1>1, <1>3, HeadTailProperties, EmptySeq
  <2>2. s[2].op = "thread"
    BY <1>1, <1>3, <2>1
  <2>3. \A i \in 1..Len(r) : r[i] = s[i + 2] /\ i + 2 \in 1..Len(s)
    BY <1>1, <2>1
  <2>4. ASSUME NEW i \in 1..Len(r) PROVE r[i].op \notin {"turn", "request"}
    <3>1. r[i] = s[i + 2] /\ i + 2 \in 1..Len(s) /\ i + 2 > 2
      BY <2>3
    <3>2. QED
      BY <3>1 DEF Orderly
  <2>5. QED
    BY <1>1, <2>1, <2>2, <2>4
<1>4. QED
  BY <1>2, <1>3 DEF l

-----------------------------------------------------------------------------
(* A step that submits appends, or none                                    *)

\* The writers, and that only the run that holds the worktree owes anything.
LEMMA Writings ==
    ASSUME IInv
    PROVE  /\ DOMAIN todo = Writers /\ queue \in Seq(Writers) /\ QueueFollows(todo, queue)
           /\ \A w \in Writers : todo[w] \in Seq(Owed(Count, pc, refs)) /\ Len(todo[w]) \in Nat
           /\ \A w \in Writers : todo[w] # <<>> => Len(todo[w]) >= 1
           /\ \A p, q \in Procs : todo[p] # <<>> /\ (todo[q] # <<>> \/ pc[q] \in Attended) => p = q
           /\ Procs \subseteq Writers /\ Others \subseteq Writers /\ Procs \cap Others = {}
           /\ \A p \in Procs : TurnOf(p) \in Turns
<1>1. DOMAIN todo = Writers /\ queue \in Seq(Writers) /\ QueueFollows(todo, queue)
  BY DEF IInv, Queued, Owing
<1>2. \A w \in Writers : todo[w] \in Seq(Owed(Count, pc, refs))
  BY DEF IInv, Queued, Owing, Count
<1>3. \A w \in Writers : Len(todo[w]) \in Nat /\ (todo[w] # <<>> => Len(todo[w]) >= 1)
  BY <1>2, EmptySeq, LenProperties
<1>4. \A p, q \in Procs : todo[p] # <<>> /\ (todo[q] # <<>> \/ pc[q] \in Attended) => p = q
  BY DEF IInv, Holding, Attended, Outside
<1>5. QED
  BY <1>1, <1>2, <1>3, <1>4, NamesAreDistinct DEF Writers, TurnOf, Turns, Procs

\* A writer that submits comes last in the queue.
LEMMA SubmitsLast ==
    ASSUME IInv, Questioned, NEW w \in Writers, todo[w] = <<>>, NEW s, Submit(w, s)
    PROVE  /\ Enqueued(todo', queue')
           /\ \A u, v \in Writers : u # w /\ v # w /\ Precedes(queue, u, v) => Precedes(queue', u, v)
           /\ \A u \in Writers : u # w => Precedes(queue', u, w)
<1> DEFINE q2 == queue \o If(s # <<>>, <<w>>)
<1>1. DOMAIN todo = Writers /\ queue \in Seq(Writers) /\ QueueFollows(todo, queue)
  BY Writings
<1>2. Enqueued(todo, queue)
  BY DEF Questioned
<1>3. /\ Enqueued([todo EXCEPT ![w] = s], q2)
      /\ \A u, v \in Writers : u # w /\ v # w /\ Precedes(queue, u, v) => Precedes(q2, u, v)
      /\ \A u \in Writers : u # w => Precedes(q2, u, w)
  BY <1>1, <1>2, QueueGrows
<1>4. queue' = q2 /\ todo' = [todo EXCEPT ![w] = s]
  BY DEF Submit
<1> HIDE DEF q2
<1>5. QED
  BY <1>3, <1>4

\* A writer submits appends that are in order, of what it reads.
LEMMA SubmitsInOrder ==
    ASSUME IInv, Questioned,
           NEW w \in Writers, todo[w] = <<>>, NEW s, Submit(w, s), w = "recovery" => s = <<>>,
           UNCHANGED <<request, host>>, Attending', InTime',
           Orderly(s), OwnsTurn(w, s, Label(w)'), s # <<>> => ~Waiting(s[1]),
           \A p \in Procs : todo[p] # <<>> => pc'[p] = pc[p],
           \A t \in Turns : turn'[t].status = "waiting_for_user" => turn[t].status = "waiting_for_user",
           \A p \in Procs : pc[p] = "running" /\ turn[TurnOf(p)].status \notin Final
                            => turn'[TurnOf(p)].status \notin Final,
           \A i \in 1..Len(s) : w \in Procs /\ (Opening(s[i]) \/ Waiting(s[i])) =>
                /\ pc'[w] = "running" /\ turn'[TurnOf(w)].status \notin Final
                /\ request[TurnOf(w)] = "none",
           s # <<>> /\ Settling(s[1]) =>
                /\ request[s[1].of] # "none"
                /\ Alone(s) => turn'[s[1].of].status # "waiting_for_user" /\ \A p \in Procs : ~Halts(p, s[1].of)
    PROVE  Questioned'
<1>1. /\ DOMAIN todo = Writers /\ queue \in Seq(Writers) /\ QueueFollows(todo, queue)
      /\ Procs \subseteq Writers /\ Others \subseteq Writers /\ Procs \cap Others = {}
  BY Writings
<1>2. todo' = [todo EXCEPT ![w] = s] /\ queue' = queue \o If(s # <<>>, <<w>>)
  BY DEF Submit
<1>3. todo'[w] = s /\ \A v \in Writers : v # w => todo'[v] = todo[v]
  BY <1>1, <1>2
<1>4. /\ Enqueued(todo', queue')
      /\ \A u, v \in Writers : u # w /\ v # w /\ Precedes(queue, u, v) => Precedes(queue', u, v)
  BY SubmitsLast
<1>5. Shaped'
  <2> SUFFICES ASSUME NEW v \in Writers PROVE Orderly(todo'[v]) /\ OwnsTurn(v, todo'[v], Label(v)')
    BY DEF Shaped
  <2>1. CASE v = w
    BY <1>3, <2>1
  <2>2. CASE v # w /\ todo[v] = <<>>
    <3>1. Len(todo'[v]) = 0
      BY <1>3, <2>2
    <3>2. QED
      BY <3>1 DEF Orderly, OwnsTurn
  <2>3. CASE v # w /\ todo[v] # <<>>
    <3>1. Label(v)' = Label(v)
      BY <2>3 DEF Label
    <3>2. Orderly(todo[v]) /\ OwnsTurn(v, todo[v], Label(v))
      BY DEF Questioned, Shaped
    <3>3. QED
      BY <1>3, <2>3, <3>1, <3>2
  <2>4. QED
    BY <2>1, <2>2, <2>3
<1>6. Asking'
  <2> SUFFICES ASSUME NEW p \in Procs, NEW i \in 1..Len(todo'[p]), Opening(todo'[p][i]) \/ Waiting(todo'[p][i])
               PROVE  /\ pc'[p] = "running" /\ turn'[TurnOf(p)].status \notin Final
                      /\ Opening(todo'[p][i]) => request'[TurnOf(p)] = "none"
    BY DEF Asking
  <2>1. CASE p = w
    BY <1>3, <2>1
  <2>2. CASE p # w
    <3>1. todo'[p] = todo[p] /\ todo[p] # <<>>
      BY <1>1, <1>3, <2>2
    <3>2. /\ pc[p] = "running" /\ turn[TurnOf(p)].status \notin Final
          /\ Opening(todo[p][i]) => request[TurnOf(p)] = "none"
      BY <3>1 DEF Questioned, Asking
    <3>3. QED
      BY <3>1, <3>2
  <2>3. QED
    BY <2>1, <2>2
<1>7. ASSUME NEW t \in Turns PROVE Answerable(t)'
  <2>1. /\ \A v \in Writers : v # w => /\ Resumes(v, t)' <=> Resumes(v, t)
                                       /\ Settles(v, t)' <=> Settles(v, t)
                                       /\ Alone(todo[v])' <=> Alone(todo[v])
                                       /\ Halts(v, t)' <=> Halts(v, t)
    BY <1>3 DEF Resumes, Settles, Halts, Due, Alone
  <2>2. ~Halts(w, t) /\ ~Halts(w, t)' /\ ~Resumes(w, t) /\ ~Settles(w, t)
    BY <1>3 DEF Halts, Due, Resumes, Settles
  <2>3. Settles(w, t)' => /\ request[t] # "none"
                          /\ Alone(s) => turn'[t].status # "waiting_for_user" /\ \A p \in Procs : ~Halts(p, t)
    BY <1>3 DEF Settles, Due
  <2>4. Answerable(t)
    BY DEF Questioned
  <2>5. turn'[t].status = "waiting_for_user" => request'[t] = "pending" \/ \E v \in Writers : Resumes(v, t)'
    BY <2>1, <2>2, <2>4 DEF Answerable
  <2>6. ASSUME NEW p \in Procs, Halts(p, t)'
        PROVE  request'[t] = "pending" \/ (Resumes("timer", t)' /\ Precedes(queue', p, "timer"))
    <3>1. p \in Writers /\ "timer" \in Writers /\ p # w
      BY <1>1, <2>2, <2>6 DEF Others
    <3>2. request[t] = "pending" \/ (Resumes("timer", t) /\ Precedes(queue, p, "timer"))
      BY <2>1, <2>4, <2>6, <3>1 DEF Answerable
    <3>3. CASE Resumes("timer", t) /\ Precedes(queue, p, "timer")
      <4>1. "timer" # w
        BY <2>2, <3>3
      <4>2. QED
        BY <1>4, <2>1, <3>1, <3>3, <4>1
    <3>4. QED
      BY <3>2, <3>3
  <2>7. ASSUME NEW v \in Writers, Settles(v, t)', Alone(todo'[v])
        PROVE  turn'[t].status # "waiting_for_user" /\ \A p \in Procs : ~Halts(p, t)'
    <3>1. turn'[t].status # "waiting_for_user" /\ \A p \in Procs : ~Halts(p, t)
      <4>1. CASE v = w
        BY <1>3, <2>3, <2>7, <4>1
      <4>2. CASE v # w
        BY <1>3, <2>1, <2>4, <2>7, <4>2 DEF Answerable
      <4>3. QED
        BY <4>1, <4>2
    <3>2. QED
      BY <1>1, <2>1, <2>2, <3>1
  <2>8. Settles("timer", t)' => request'[t] # "none"
    BY <1>1, <2>1, <2>3, <2>4 DEF Answerable, Others
  <2>9. QED
    BY <2>5, <2>6, <2>7, <2>8 DEF Answerable
<1>8. todo'["recovery"] = <<>>
  BY <1>1, <1>3 DEF Questioned, Others
<1>9. host' = "up" /\ Attending' /\ InTime'
  BY DEF Questioned
<1>10. QED
  BY <1>4, <1>5, <1>6, <1>7, <1>8, <1>9 DEF Questioned

\* A step that submits nothing.
LEMMA SubmitsNothing ==
    ASSUME IInv, Questioned, UNCHANGED writing,
           UNCHANGED <<request, host>>, Attending', InTime',
           \A p \in Procs : todo[p] # <<>> => pc'[p] = pc[p],
           \A t \in Turns : turn'[t].status = "waiting_for_user" => turn[t].status = "waiting_for_user",
           \A p \in Procs : pc[p] = "running" /\ turn[TurnOf(p)].status \notin Final
                            => turn'[TurnOf(p)].status \notin Final
    PROVE  Questioned'
<1>1. "recovery" \in Writers /\ queue \in Seq(Writers) /\ DOMAIN todo = Writers
  BY Writings DEF Others
<1>2. todo["recovery"] = <<>>
  BY DEF Questioned
<1>3. Submit("recovery", <<>>)
  <2>1. queue \o <<>> = queue
    BY <1>1, ConcatEmptySeq
  <2>2. todo' = [todo EXCEPT !["recovery"] = <<>>]
    BY <1>1, <1>2 DEF IInv, Queued, Owing, writing
  <2>3. QED
    BY <2>1, <2>2 DEF Submit, If, writing
<1>4. Orderly(<<>>) /\ OwnsTurn("recovery", <<>>, Label("recovery")')
  BY DEF Orderly, OwnsTurn
<1>5. QED
  BY <1>1, <1>2, <1>3, <1>4, SubmitsInOrder

-----------------------------------------------------------------------------
(* The write queue makes an append                                         *)

\* What the head of the queue has written and what is left of it.
LEMMA Writing ==
    ASSUME IInv, Questioned, NEW w, queue # <<>>, w = Head(queue), Made(w)
    PROVE  /\ w \in Writers /\ todo[w] # <<>> /\ Head(todo[w]) = todo[w][1]
           /\ Len(todo[w]) >= 1 /\ Len(todo'[w]) \in Nat
           /\ \A v \in Writers : v # w => todo'[v] = todo[v]
           /\ \A i \in 1..Len(todo'[w]) : todo'[w][i].op \in {"turn", "request"} =>
                 i = 1 /\ Len(todo[w]) >= 2 /\ todo'[w][1] = todo[w][2]
           /\ Len(todo[w]) >= 2 /\ todo[w][2].op \in {"turn", "request"} =>
                 todo'[w] # <<>> /\ todo'[w][1] = todo[w][2]
           /\ Enqueued(todo', queue')
           /\ \A u, v \in Writers : u # w /\ v # w /\ Precedes(queue, u, v) => Precedes(queue', u, v)
           /\ \A u \in Writers : u # w => Precedes(queue', u, w)
           /\ \A u \in Writers : u # w /\ todo[u] # <<>> => ~Precedes(queue, u, w)
<1> DEFINE left == Tail(todo[w])
           rest == IF left # <<>> /\ Head(left).op = "thread" /\ "dst" \notin threads THEN Tail(left) ELSE left
           q2 == Tail(queue) \o If(rest # <<>>, <<w>>)
<1>1. /\ DOMAIN todo = Writers /\ queue \in Seq(Writers) /\ QueueFollows(todo, queue)
      /\ Enqueued(todo, queue) /\ Shaped
  BY Writings DEF Questioned
<1>2. w \in Writers /\ todo[w] # <<>>
  <2>1. Len(queue) \in Nat \ {0} /\ Head(queue) = queue[1] /\ queue[1] \in Writers
    BY <1>1, EmptySeq, HeadTailProperties
  <2>2. QED
    BY <2>1 DEF IInv, Queued, QueueFollows
<1>3. todo' = [todo EXCEPT ![w] = rest] /\ queue' = q2
  BY DEF Made
<1>4. todo[w] \in Seq(Owed(Count, pc, refs)) /\ Orderly(todo[w]) /\ Len(todo[w]) >= 1
  <2>1. Orderly(todo[w])
    BY <1>1, <1>2 DEF Shaped
  <2>2. QED
    BY <1>2, <2>1, Writings
<1>5. rest = left \/ (left # <<>> /\ Head(left).op = "thread" /\ rest = Tail(left))
  OBVIOUS
<1> HIDE DEF rest
<1>6. /\ Enqueued([todo EXCEPT ![w] = rest], q2)
      /\ \A u, v \in Writers : u # w /\ v # w /\ Precedes(queue, u, v) => Precedes(q2, u, v)
      /\ \A u \in Writers : u # w => Precedes(q2, u, w)
      /\ \A u \in Writers : u # w /\ todo[u] # <<>> => ~Precedes(queue, u, w)
  <2>1. /\ Enqueued([todo EXCEPT ![Head(queue)] = rest], Tail(queue) \o If(rest # <<>>, <<Head(queue)>>))
        /\ \A u, v \in Writers : u # Head(queue) /\ v # Head(queue) /\ Precedes(queue, u, v)
              => Precedes(Tail(queue) \o If(rest # <<>>, <<Head(queue)>>), u, v)
        /\ \A u \in Writers : u # Head(queue) => Precedes(Tail(queue) \o If(rest # <<>>, <<Head(queue)>>), u, Head(queue))
        /\ \A u \in Writers : u # Head(queue) /\ todo[u] # <<>> => ~Precedes(queue, u, Head(queue))
    BY <1>1, QueueTurns
  <2>2. QED
    BY <2>1
<1> HIDE DEF q2
<1>7. /\ Len(rest) \in Nat /\ Head(todo[w]) = todo[w][1]
      /\ \A i \in 1..Len(rest) : rest[i].op \in {"turn", "request"} =>
            i = 1 /\ Len(todo[w]) >= 2 /\ rest[1] = todo[w][2]
      /\ Len(todo[w]) >= 2 /\ todo[w][2].op \in {"turn", "request"} => rest # <<>> /\ rest[1] = todo[w][2]
  <2> DEFINE s == todo[w]
             S == Owed(Count, pc, refs)
  <2>1. s \in Seq(S) /\ s # <<>> /\ Orderly(s)
    BY <1>2, <1>4
  <2>2. rest = Tail(s) \/ (Tail(s) # <<>> /\ Head(Tail(s)).op = "thread" /\ rest = Tail(Tail(s)))
    BY <1>5
  <2> HIDE DEF s, S
  <2>3. /\ Len(rest) \in Nat /\ Head(s) = s[1]
        /\ \A i \in 1..Len(rest) : rest[i].op \in {"turn", "request"} => i = 1 /\ Len(s) >= 2 /\ rest[1] = s[2]
        /\ Len(s) >= 2 /\ s[2].op \in {"turn", "request"} => rest # <<>> /\ rest[1] = s[2]
    BY <2>1, <2>2, LeftOver
  <2>4. QED
    BY <2>3 DEF s
<1>8. todo'[w] = rest /\ \A v \in Writers : v # w => todo'[v] = todo[v]
  BY <1>1, <1>2, <1>3
<1>9. QED
  BY <1>2, <1>3, <1>4, <1>6, <1>7, <1>8

\* What is left is in order and has its owner.
LEMMA LeftInOrder ==
    ASSUME IInv, Questioned, NEW w, queue # <<>>, w = Head(queue), Made(w), UNCHANGED pc
    PROVE  Shaped'
<1>1. /\ w \in Writers /\ todo[w] # <<>> /\ Len(todo[w]) >= 1 /\ Len(todo'[w]) \in Nat
      /\ \A v \in Writers : v # w => todo'[v] = todo[v]
      /\ \A i \in 1..Len(todo'[w]) : todo'[w][i].op \in {"turn", "request"} =>
            i = 1 /\ Len(todo[w]) >= 2 /\ todo'[w][1] = todo[w][2]
  BY Writing
<1>2. Len(todo[w]) \in Nat
  BY <1>1, Writings
<1>3. \A v \in Writers : Orderly(todo[v]) /\ OwnsTurn(v, todo[v], Label(v)) /\ Label(v)' = Label(v)
  BY DEF Questioned, Shaped, Label
<1>4. Len(todo[w]) >= 2 => 2 \in 1..Len(todo[w])
  BY <1>2
<1>5. Orderly(todo'[w])
  BY <1>1, <1>3, <1>4 DEF Orderly, Waiting, Opening, Settling
<1>6. OwnsTurn(w, todo'[w], Label(w))
  <2> SUFFICES ASSUME NEW i \in 1..Len(todo'[w]), todo'[w][i].op \in {"turn", "request"}
               PROVE
                 /\ \/ w \in Procs /\ todo'[w][i].of = TurnOf(w)
                    \/ w = "decision" /\ todo'[w][i].op = "turn" /\ todo'[w][i].value.status = "active"
                    \/ /\ w = "timer" /\ todo'[w][i].of = todo'[w][1].of
                       /\ todo'[w][i].op = "turn" => todo'[w][i].value.status = "active"
                       /\ todo'[w][i].op = "request" => i = 1 /\ Settling(todo'[w][i])
                 /\ todo'[w][i].op = "turn" /\ (w \in Procs => Label(w) \in Attended) => todo'[w][i].value.runs > 0
    BY DEF OwnsTurn
  <2>1. i = 1 /\ todo'[w][i] = todo[w][2] /\ 2 \in 1..Len(todo[w]) /\ todo[w][2].op \in {"turn", "request"}
    BY <1>1, <1>4
  <2>2. OwnsTurn(w, todo[w], Label(w))
    BY <1>1, <1>3
  <2>3. todo[w][2].op = "turn" /\ (w \in Procs => Label(w) \in Attended) => todo[w][2].value.runs > 0
    BY <2>1, <2>2 DEF OwnsTurn
  <2>4. \/ w \in Procs /\ todo[w][2].of = TurnOf(w)
        \/ w = "decision" /\ todo[w][2].op = "turn" /\ todo[w][2].value.status = "active"
        \/ /\ w = "timer"
           /\ todo[w][2].op = "turn" => todo[w][2].value.status = "active"
           /\ todo[w][2].op # "request"
    BY <2>1, <2>2 DEF OwnsTurn
  <2>5. QED
    BY <2>1, <2>3, <2>4
<1>7. QED
  BY <1>1, <1>3, <1>5, <1>6 DEF Shaped

\* Writing what was computed from an earlier read leaves every turn that waits
\* with its question.
LEMMA WriteInOrder == ASSUME IInv, Questioned, NEW w \in Writers, Write(w) PROVE Questioned'
<1> DEFINE a == todo[w][1]
           b == todo[w][2]
           more == Len(todo[w]) >= 2
<1>1. /\ queue # <<>> /\ w = Head(queue) /\ Made(w)
      /\ UNCHANGED <<transfer, refs, deleted, pc, asked, held, job, host, bounds>>
  BY DEF Write
<1>2. /\ todo[w] # <<>> /\ Head(todo[w]) = a /\ Len(todo[w]) >= 1
      /\ \A v \in Writers : v # w => todo'[v] = todo[v]
      /\ \A i \in 1..Len(todo'[w]) : todo'[w][i].op \in {"turn", "request"} => i = 1 /\ more /\ todo'[w][1] = b
      /\ more /\ b.op \in {"turn", "request"} => todo'[w] # <<>> /\ todo'[w][1] = b
      /\ Enqueued(todo', queue')
      /\ \A u, v \in Writers : u # w /\ v # w /\ Precedes(queue, u, v) => Precedes(queue', u, v)
      /\ \A u \in Writers : u # w => Precedes(queue', u, w)
      /\ \A u \in Writers : u # w /\ todo[u] # <<>> => ~Precedes(queue, u, w)
      /\ Len(todo'[w]) \in Nat
  BY <1>1, Writing
<1>3. /\ Procs \subseteq Writers /\ Others \subseteq Writers /\ Procs \cap Others = {}
      /\ \A p, q \in Procs : todo[p] # <<>> /\ (todo[q] # <<>> \/ pc[q] \in Attended) => p = q
      /\ \A p \in Procs : TurnOf(p) \in Turns
      /\ \A v \in Writers : Len(todo[v]) \in Nat /\ (todo[v] # <<>> => Len(todo[v]) >= 1)
  BY Writings
<1>4. Orderly(todo[w]) /\ OwnsTurn(w, todo[w], Label(w))
  BY DEF Questioned, Shaped
<1>5. 1 \in 1..Len(todo[w]) /\ (more => 2 \in 1..Len(todo[w]))
  BY <1>2, <1>3
<1>6. /\ a.op = "request" => Opening(a) \/ Settling(a)
      /\ more /\ b.op = "request" => a.op = "turn" /\ ~Waiting(a) /\ Settling(b)
      /\ more /\ Waiting(b) => Opening(a)
  BY <1>4, <1>5 DEF Orderly
<1>7. /\ a.op \in {"turn", "request"} =>
            \/ w \in Procs /\ a.of = TurnOf(w)
            \/ w = "decision" /\ a.op = "turn" /\ a.value.status = "active"
            \/ /\ w = "timer"
               /\ a.op = "turn" => a.value.status = "active"
               /\ a.op = "request" => Settling(a)
      /\ a.op = "turn" /\ (w \in Procs => pc[w] \in Attended) => a.value.runs > 0
  BY <1>4, <1>5 DEF OwnsTurn, Label
<1>8. more /\ b.op \in {"turn", "request"} =>
            \/ w \in Procs /\ b.of = TurnOf(w)
            \/ w = "decision" /\ b.op = "turn" /\ b.value.status = "active"
            \/ w = "timer" /\ b.of = a.of /\ b.op = "turn" /\ b.value.status = "active"
  BY <1>4, <1>5 DEF OwnsTurn
<1>9. /\ \A t \in Turns : turn'[t] = IF a.op = "turn" /\ a.of = t THEN a.value ELSE turn[t]
      /\ \A t \in Turns : request'[t] = IF a.op = "request" /\ a.of = t THEN a.value ELSE request[t]
  <2>1. turn' = IF a.op = "turn" THEN [turn EXCEPT ![a.of] = a.value] ELSE turn
    BY <1>2 DEF Write
  <2>2. request' = IF a.op = "request" THEN [request EXCEPT ![a.of] = a.value] ELSE request
    BY <1>2 DEF Write
  <2>3. DOMAIN turn = Turns /\ DOMAIN request = Turns
    BY DEF IInv, Recorded
  <2> HIDE DEF a
  <2>4. QED
    BY <2>1, <2>2, <2>3
<1>10. Shaped'
  BY <1>1, LeftInOrder
<1>11. /\ \A t \in Turns : Answerable(t)
       /\ Attending /\ Asking /\ InTime /\ host = "up" /\ todo["recovery"] = <<>>
  BY DEF Questioned
<1> HIDE DEF a, b, more
<1>12. Attending'
  <2> SUFFICES ASSUME NEW p \in Procs PROVE (pc'[p] \in Attended => Bound(TurnOf(p))') /\ (asked'[p] # {} => pc'[p] \in Attended)
    BY DEF Attending
  <2>1. pc' = pc /\ asked' = asked
    BY <1>1
  <2>2. asked[p] # {} => pc[p] \in Attended
    BY <1>11 DEF Attending
  <2>3. ASSUME pc[p] \in Attended PROVE turn'[TurnOf(p)].runs > 0
    <3>1. turn[TurnOf(p)].runs > 0
      BY <1>11, <2>3 DEF Attending, Bound
    <3>2. w \in Procs => w = p
      BY <1>2, <1>3, <2>3
    <3>3. a.op = "turn" => a.value.runs > 0
      BY <1>7, <2>3, <3>2
    <3>4. QED
      BY <1>3, <1>9, <3>1, <3>3
  <2>4. QED
    BY <2>1, <2>2, <2>3 DEF Bound
<1>13. Asking'
  <2> SUFFICES ASSUME NEW p \in Procs, NEW i \in 1..Len(todo'[p]), Opening(todo'[p][i]) \/ Waiting(todo'[p][i])
               PROVE  /\ pc'[p] = "running" /\ turn'[TurnOf(p)].status \notin Final
                      /\ Opening(todo'[p][i]) => request'[TurnOf(p)] = "none"
    BY DEF Asking
  <2>1. pc' = pc /\ TurnOf(p) \in Turns /\ p \in Writers
    BY <1>1, <1>3
  <2>2. CASE p = w
    <3>1. more /\ todo'[p][i] = b /\ (Opening(b) \/ Waiting(b))
      BY <1>2, <2>2 DEF Opening, Waiting
    <3>2. ~Opening(b)
      BY <1>6, <3>1 DEF Opening, Settling
    <3>3. Opening(a)
      BY <1>6, <3>1, <3>2
    <3>4. pc[p] = "running" /\ turn[TurnOf(p)].status \notin Final
      BY <1>5, <1>11, <2>2, <3>3 DEF Asking, a
    <3>5. turn'[TurnOf(p)] = turn[TurnOf(p)]
      BY <1>9, <2>1, <3>3 DEF Opening
    <3>6. QED
      BY <2>1, <3>1, <3>2, <3>4, <3>5
  <2>3. CASE p # w
    <3>1. todo'[p] = todo[p] /\ todo[p] # <<>>
      <4>1. todo'[p] = todo[p]
        BY <1>2, <2>1, <2>3
      <4>2. QED
        BY <4>1
    <3>2. /\ pc[p] = "running" /\ turn[TurnOf(p)].status \notin Final
          /\ Opening(todo[p][i]) => request[TurnOf(p)] = "none"
      BY <1>11, <3>1 DEF Asking
    <3>3. w \notin Procs
      BY <1>2, <1>3, <2>3, <3>1
    <3>4. a.op = "turn" => a.value.status = "active"
      BY <1>7, <3>3
    <3>5. turn'[TurnOf(p)].status \notin Final
      BY <1>9, <2>1, <3>2, <3>4 DEF Final
    <3>6. ASSUME Opening(todo[p][i]) PROVE request'[TurnOf(p)] = "none"
      <4>1. ~Settles("timer", TurnOf(p))
        BY <1>11, <2>1, <3>2, <3>6 DEF Answerable
      <4>2. ~(a.op = "request" /\ a.of = TurnOf(p))
        BY <1>2, <1>7, <3>3, <4>1 DEF Settles, Due, a
      <4>3. QED
        BY <1>9, <2>1, <3>2, <3>6, <4>2
    <3>7. QED
      BY <2>1, <3>1, <3>2, <3>5, <3>6
  <2>4. QED
    BY <2>2, <2>3
<1>14. InTime'
  <2> SUFFICES ASSUME job.kind \in {"project", "retention"}, todo'["timer"] # <<>>, todo'["timer"][1].op = "request"
               PROVE  Precedes(queue', "timer", "maintenance")
    BY <1>1 DEF InTime
  <2>1. "timer" \in Writers /\ "maintenance" \in Writers /\ "timer" \notin Procs
    BY <1>3 DEF Others
  <2>2. w # "timer"
    <3> SUFFICES ASSUME w = "timer" PROVE FALSE
      OBVIOUS
    <3>1. 1 \in 1..Len(todo'[w])
      <4>1. todo' \in [Writers -> Seq(Owed(Count, pc, refs)')]
        BY WriteStep DEF IInv, Queued, Owing, Count
      <4>2. Len(todo'[w]) # 0
        BY <4>1, EmptySeq
      <4>3. QED
        BY <1>2, <4>2
    <3>2. more /\ b.op = "request"
      BY <1>2, <3>1
    <3>3. QED
      BY <1>8, <2>1, <3>2
  <2>3. todo["timer"] # <<>> /\ todo["timer"][1].op = "request"
    BY <1>2, <2>1, <2>2
  <2>4. Precedes(queue, "timer", "maintenance")
    BY <1>11, <2>3 DEF InTime
  <2>5. QED
    BY <1>2, <2>1, <2>2, <2>4
<1>15. todo'[w] # <<>> => 1 \in 1..Len(todo'[w])
  <2>1. todo' \in [Writers -> Seq(Owed(Count, pc, refs)')]
    BY WriteStep DEF IInv, Queued, Owing, Count
  <2>2. todo'[w] # <<>> => Len(todo'[w]) # 0
    BY <2>1, EmptySeq
  <2>3. QED
    BY <1>2, <2>2
<1>16. ASSUME NEW t \in Turns PROVE Answerable(t)'
  <2>1. \A v \in Writers : v # w => /\ Resumes(v, t)' <=> Resumes(v, t)
                                    /\ Settles(v, t)' <=> Settles(v, t)
                                    /\ Alone(todo[v])' <=> Alone(todo[v])
                                    /\ Halts(v, t)' <=> Halts(v, t)
    BY <1>2 DEF Resumes, Settles, Halts, Due, Alone
  <2>2. /\ Halts(w, t) <=> a.of = t /\ Waiting(a)
        /\ Resumes(w, t) <=> a.of = t /\ a.op = "turn" /\ ~Waiting(a)
        /\ Settles(w, t) <=> a.of = t /\ Settling(a)
    BY <1>2 DEF Resumes, Settles, Halts, Due, a
  <2>3. /\ Halts(w, t)' => more /\ b.of = t /\ Waiting(b)
        /\ Settles(w, t)' => more /\ b.of = t /\ Settling(b)
        /\ more /\ b.of = t /\ b.op = "turn" /\ ~Waiting(b) => Resumes(w, t)'
    BY <1>2, <1>15 DEF Resumes, Settles, Halts, Due, Waiting, Settling
  <2>4. more /\ b.op = "turn" => ~Alone(todo[w])
    BY <1>3 DEF Alone, more, b
  <2>5. /\ turn'[t] = IF a.op = "turn" /\ a.of = t THEN a.value ELSE turn[t]
        /\ request'[t] = IF a.op = "request" /\ a.of = t THEN a.value ELSE request[t]
    BY <1>9
  <2>6. /\ turn[t].status = "waiting_for_user" => request[t] = "pending" \/ \E v \in Writers : Resumes(v, t)
        /\ \A p \in Procs : Halts(p, t) =>
              request[t] = "pending" \/ (Resumes("timer", t) /\ Precedes(queue, p, "timer"))
        /\ \A v \in Writers : Settles(v, t) /\ Alone(todo[v]) =>
              turn[t].status # "waiting_for_user" /\ \A p \in Procs : ~Halts(p, t)
        /\ Settles("timer", t) => request[t] # "none"
    BY <1>11 DEF Answerable
  <2>7. a.op = "request" /\ a.of = t =>
            request'[t] = "pending" \/ Alone(todo[w]) \/ Resumes(w, t)'
    <3> SUFFICES ASSUME a.op = "request", a.of = t, a.value # "pending", ~Alone(todo[w]) PROVE Resumes(w, t)'
      BY <2>5
    <3>1. more /\ b.op = "turn"
      BY DEF Alone, more, b
    <3>2. Settling(a) /\ ~Waiting(b)
      <4>1. ~Opening(a)
        BY DEF Opening
      <4>2. QED
        BY <1>6, <3>1, <4>1
    <3>3. b.of = t
      <4>1. "timer" \notin Procs /\ "decision" \notin Procs
        BY <1>3 DEF Others
      <4>2. QED
        BY <1>7, <1>8, <3>1, <4>1
    <3>4. QED
      BY <2>3, <3>1, <3>2, <3>3
  <2>8. turn'[t].status = "waiting_for_user" => request'[t] = "pending" \/ \E v \in Writers : Resumes(v, t)'
    <3> SUFFICES ASSUME turn'[t].status = "waiting_for_user", request'[t] # "pending"
                 PROVE  \E v \in Writers : Resumes(v, t)'
      OBVIOUS
    <3>1. CASE a.op = "turn" /\ a.of = t
      <4>1. Halts(w, t)
        BY <2>2, <2>5, <3>1 DEF Waiting
      <4>2. w \in Procs
        BY <1>7, <2>5, <3>1
      <4>3. Resumes("timer", t) /\ "timer" \in Writers /\ "timer" # w
        BY <1>3, <2>5, <2>6, <3>1, <4>1, <4>2 DEF Others
      <4>4. QED
        BY <2>1, <4>3
    <3>2. CASE a.op = "request" /\ a.of = t
      <4>1. turn[t].status = "waiting_for_user"
        BY <2>5, <3>2
      <4>2. Settling(a)
        BY <1>6, <2>5, <3>2 DEF Opening
      <4>3. ~Alone(todo[w])
        BY <2>2, <2>6, <3>2, <4>1, <4>2
      <4>4. QED
        BY <2>7, <3>2, <4>3
    <3>3. CASE a.of # t \/ a.op \notin {"turn", "request"}
      <4>1. PICK v \in Writers : Resumes(v, t)
        BY <2>5, <2>6, <3>3
      <4>2. v # w
        BY <2>2, <3>3, <4>1
      <4>3. QED
        BY <2>1, <4>1, <4>2
    <3>4. QED
      BY <3>1, <3>2, <3>3
  <2>9. ASSUME NEW p \in Procs, Halts(p, t)'
         PROVE  request'[t] = "pending" \/ (Resumes("timer", t)' /\ Precedes(queue', p, "timer"))
    <3>1. p \in Writers /\ "timer" \in Writers /\ "timer" \notin Procs
      BY <1>3 DEF Others
    <3>2. CASE p = w
      <4>1. more /\ b.of = t /\ Waiting(b)
        BY <2>3, <2>9, <3>2
      <4>2. Opening(a)
        BY <1>6, <4>1
      <4>3. a.of = t
        BY <1>7, <1>8, <3>1, <3>2, <4>1, <4>2 DEF Opening, Waiting
      <4>4. QED
        BY <2>5, <4>2, <4>3 DEF Opening
    <3>3. CASE p # w
      <4>1. Halts(p, t) /\ todo[p] # <<>>
        BY <2>1, <2>9, <3>1, <3>3 DEF Halts, Due
      <4>2. w \notin Procs
        BY <1>2, <1>3, <3>3, <4>1
      <4>3. CASE request[t] = "pending"
        <5>1. CASE a.op = "request" /\ a.of = t
          <6>1. w = "timer" /\ Settles(w, t)
            BY <1>7, <2>2, <4>2, <5>1
          <6>2. ~Alone(todo[w])
            BY <2>6, <4>1, <6>1
          <6>3. Precedes(queue', p, "timer")
            BY <1>2, <3>1, <3>3, <6>1
          <6>4. QED
            BY <2>7, <5>1, <6>1, <6>2, <6>3
        <5>2. CASE ~(a.op = "request" /\ a.of = t)
          BY <2>5, <4>3, <5>2
        <5>3. QED
          BY <5>1, <5>2
      <4>4. CASE Resumes("timer", t) /\ Precedes(queue, p, "timer")
        <5>1. w # "timer"
          BY <1>2, <3>1, <3>3, <4>1, <4>4
        <5>2. QED
          BY <1>2, <2>1, <3>1, <3>3, <4>4, <5>1
      <4>5. QED
        BY <2>6, <4>1, <4>3, <4>4
    <3>4. QED
      BY <3>2, <3>3
  <2>10. ASSUME NEW v \in Writers, Settles(v, t)', Alone(todo'[v])
         PROVE  turn'[t].status # "waiting_for_user" /\ \A p \in Procs : ~Halts(p, t)'
    <3>1. CASE v = w
      <4>1. more /\ b.of = t /\ Settling(b) /\ b.op = "request"
        BY <2>3, <2>10, <3>1 DEF Settling
      <4>2. a.op = "turn" /\ ~Waiting(a) /\ w \in Procs /\ a.of = TurnOf(w) /\ TurnOf(w) = t
        <5>1. w \in Procs /\ TurnOf(w) = t
          BY <1>8, <4>1
        <5>2. a.op = "turn" /\ ~Waiting(a)
          BY <1>6, <4>1
        <5>3. w # "timer" /\ w # "decision"
          BY <1>3, <5>1 DEF Others
        <5>4. QED
          BY <1>7, <5>1, <5>2, <5>3
      <4>3. turn'[t].status # "waiting_for_user"
        BY <2>5, <4>2 DEF Waiting
      <4>4. ASSUME NEW p \in Procs PROVE ~Halts(p, t)'
        <5>1. CASE p = w
          BY <2>3, <4>1, <5>1 DEF Waiting
        <5>2. CASE p # w
          <6>1. todo[p] = <<>>
            BY <1>2, <1>3, <4>2, <5>2
          <6>2. ~Halts(p, t)
            BY <6>1 DEF Halts, Due
          <6>3. QED
            BY <1>3, <2>1, <5>2, <6>2
        <5>3. QED
          BY <5>1, <5>2
      <4>5. QED
        BY <4>3, <4>4
    <3>2. CASE v # w
      <4>1. Settles(v, t) /\ Alone(todo[v]) /\ todo[v] # <<>>
        BY <2>1, <2>10, <3>2 DEF Settles, Due
      <4>2. turn[t].status # "waiting_for_user" /\ \A p \in Procs : ~Halts(p, t)
        BY <2>6, <4>1
      <4>3. turn'[t].status # "waiting_for_user"
        <5>1. ASSUME a.op = "turn", a.of = t PROVE a.value.status # "waiting_for_user"
          BY <1>7, <2>2, <4>2, <5>1 DEF Waiting
        <5>2. QED
          BY <2>5, <4>2, <5>1
      <4>4. ASSUME NEW p \in Procs, Halts(p, t)' PROVE FALSE
        <5>1. p = w
          BY <1>3, <2>1, <4>2, <4>4
        <5>2. more /\ b.of = t /\ Waiting(b) /\ b.op = "turn"
          BY <2>3, <4>4, <5>1 DEF Waiting
        <5>3. Opening(a)
          BY <1>6, <5>2
        <5>4. w # "timer" /\ w # "decision"
          BY <1>3, <5>1 DEF Others
        <5>5. b.of = TurnOf(w)
          BY <1>8, <5>2, <5>4
        <5>6. request[t] = "none"
          BY <1>5, <1>11, <5>1, <5>2, <5>3, <5>5 DEF Asking, a
        <5>7. v \notin Procs
          BY <1>2, <1>3, <3>2, <4>1, <5>1
        <5>8. v = "timer"
          <6>1. OwnsTurn(v, todo[v], Label(v)) /\ 1 \in 1..Len(todo[v]) /\ todo[v][1].op = "request"
            BY <1>3, <4>1 DEF Questioned, Shaped, Settles, Settling
          <6>2. QED
            BY <5>7, <6>1 DEF OwnsTurn
        <5>9. QED
          BY <2>6, <4>1, <5>6, <5>8
      <4>5. QED
        BY <4>3, <4>4
    <3>3. QED
      BY <3>1, <3>2
  <2>11. Settles("timer", t)' => request'[t] # "none"
    <3> SUFFICES ASSUME Settles("timer", t)' PROVE request'[t] # "none"
      OBVIOUS
    <3>1. "timer" \in Writers /\ "timer" \notin Procs
      BY <1>3 DEF Others
    <3>2. w # "timer"
      BY <1>8, <2>3, <3>1 DEF Settling
    <3>3. request[t] # "none"
      BY <2>1, <2>6, <3>1, <3>2
    <3>4. a.op = "request" => a.value # "none"
      BY <1>6 DEF Opening, Settling
    <3>5. QED
      BY <2>5, <3>3, <3>4
  <2>12. QED
    BY <2>8, <2>9, <2>10, <2>11 DEF Answerable
<1>17. todo'["recovery"] = <<>> /\ host' = "up"
  BY <1>1, <1>2, <1>3, <1>11 DEF Others
<1>18. QED
  BY <1>2, <1>10, <1>12, <1>13, <1>14, <1>16, <1>17 DEF Questioned

-----------------------------------------------------------------------------
(* What recordProviderEvent appends is in order                            *)

\* Two appends, one after another.
LEMMA TwoAppends ==
    ASSUME NEW x, NEW y
    PROVE  LET s == <<x>> \o <<y>> IN Len(s) = 2 /\ s[1] = x /\ s[2] = y
OBVIOUS

\* Three appends, one after another.
LEMMA ThreeAppends ==
    ASSUME NEW x, NEW y, NEW z
    PROVE  LET s == <<x>> \o <<y>> \o <<z>> IN Len(s) = 3 /\ s[1] = x /\ s[2] = y /\ s[3] = z
<1>1. <<x>> \in Seq({x, y, z}) /\ <<y>> \in Seq({x, y, z}) /\ <<z>> \in Seq({x, y, z})
  OBVIOUS
<1>2. LET p == <<x>> \o <<y>> IN p \in Seq({x, y, z}) /\ Len(p) = 2 /\ p[1] = x /\ p[2] = y
  BY <1>1, ConcatProperties
<1>3. QED
  BY <1>1, <1>2, ConcatProperties

\* An event's appends are in order and of its turn; only a question makes the
\* turn wait, and a request that is settled has its turn go on unless it is over.
Fits(s, t, event) ==
    /\ Orderly(s) /\ Len(s) \in Nat /\ (s # <<>> => Len(s) >= 1 /\ ~Waiting(s[1]))
    /\ \A i \in 1..Len(s) :
          /\ s[i].op \in {"turn", "request"} => s[i].of = t
          /\ s[i].op = "turn" => s[i].value.runs = turn[t].runs
          /\ Opening(s[i]) \/ Waiting(s[i]) => event = "input_requested" /\ turn[t].status \notin Final
          /\ event \in {"answered", "cancelled", "approval_resolved"} =>
                /\ s[i].op \in {"turn", "request"}
                /\ s[i].op = "turn" => s[i].value.status = "active"
                /\ s[i].op = "request" => i = 1 /\ Settling(s[i]) /\ event # "approval_resolved"
    /\ s # <<>> /\ Settling(s[1]) => /\ request[t] = "pending"
                                     /\ Alone(s) => turn[t].status \in Final

\* recordProviderEvent appends what fits its event and the turn it reads.
LEMMA AppendsFit == ASSUME IInv, NEW t \in Turns, NEW event \in Events PROVE Fits(Appends(t, event), t, event)
<1> DEFINE T(x) == [op |-> "turn", of |-> t, value |-> [turn[t] EXCEPT !.status = x]]
           R(x) == [op |-> "request", of |-> t, value |-> x]
           H == [op |-> "thread", of |-> "dst", value |-> "woken"]
           status == turn[t].status
           F(s) == Fits(s, t, event)
<1>1. ASSUME NEW x PROVE T(x).op = "turn" /\ T(x).of = t /\ T(x).value.status = x /\ T(x).value.runs = turn[t].runs
  <2>1. turn[t] \in TurnRecord(Count)
    BY DEF IInv, Recorded, Count
  <2>2. [turn[t] EXCEPT !.status = x].status = x /\ [turn[t] EXCEPT !.status = x].runs = turn[t].runs
    BY <2>1 DEF TurnRecord
  <2>3. QED
    BY <2>2
<1>2. ASSUME NEW x PROVE R(x).op = "request" /\ R(x).of = t /\ R(x).value = x
  OBVIOUS
<1>3. H.op = "thread"
  OBVIOUS
<1>4. /\ \A x : PutTurn(t, x) = <<T(x)>> /\ Put("request", t, x) = <<R(x)>>
      /\ Put("thread", "dst", "woken") = <<H>>
  BY DEF PutTurn, Put
<1>5. F(<<>>)
  BY DEF Fits, Orderly
<1> HIDE DEF T, R, H
<1> USE DEF Fits, Orderly, Waiting, Opening, Settling, Alone, Final
<1>6. CASE event = "input_requested"
  <2>1. CASE status = "active"
    <3> DEFINE s == <<R("pending")>> \o <<T("waiting_for_user")>> \o <<H>>
    <3>1. Appends(t, event) = s
      BY <1>4, <1>6, <2>1 DEF Appends, If
    <3>2. Len(s) = 3 /\ s[1] = R("pending") /\ s[2] = T("waiting_for_user") /\ s[3] = H
      BY ThreeAppends
    <3> HIDE DEF s
    <3>3. F(s)
      BY <1>1, <1>2, <1>3, <1>6, <2>1, <3>2
    <3>4. QED
      BY <3>1, <3>3
  <2>2. CASE status = "waiting_for_user"
    <3> DEFINE s == <<R("pending")>> \o <<H>>
    <3>1. Appends(t, event) = s
      <4>1. <<R("pending")>> \o <<>> = <<R("pending")>>
        OBVIOUS
      <4>2. QED
        BY <1>4, <1>6, <2>2, <4>1 DEF Appends, If
    <3>2. Len(s) = 2 /\ s[1] = R("pending") /\ s[2] = H
      BY TwoAppends
    <3> HIDE DEF s
    <3>3. F(s)
      BY <1>2, <1>3, <1>6, <2>2, <3>2
    <3>4. QED
      BY <3>1, <3>3
  <2>3. CASE status \notin {"active", "waiting_for_user"}
    <3>1. Appends(t, event) = <<>>
      BY <1>6, <2>3 DEF Appends, If
    <3>2. QED
      BY <1>5, <3>1
  <2>4. QED
    BY <2>1, <2>2, <2>3
<1>7. CASE event \in {"answered", "cancelled"}
  <2>1. CASE ~(request[t] = "pending" /\ Exists(t))
    <3>1. Appends(t, event) = <<>>
      BY <1>7, <2>1 DEF Appends, If
    <3>2. QED
      BY <1>5, <3>1
  <2>2. CASE request[t] = "pending" /\ Exists(t) /\ status \in Final
    <3> DEFINE s == <<R(event)>>
    <3>1. Appends(t, event) = s
      <4>1. <<R(event)>> \o <<>> = <<R(event)>>
        OBVIOUS
      <4>2. QED
        BY <1>4, <1>7, <2>2, <4>1 DEF Appends, If, Resolution
    <3>2. Len(s) = 1 /\ s[1] = R(event)
      OBVIOUS
    <3> HIDE DEF s
    <3>3. F(s)
      BY <1>2, <1>7, <2>2, <3>2
    <3>4. QED
      BY <3>1, <3>3
  <2>3. CASE request[t] = "pending" /\ Exists(t) /\ status \notin Final
    <3> DEFINE s == <<R(event)>> \o <<T("active")>>
    <3>1. Appends(t, event) = s
      BY <1>4, <1>7, <2>3 DEF Appends, If, Resolution
    <3>2. Len(s) = 2 /\ s[1] = R(event) /\ s[2] = T("active")
      BY TwoAppends
    <3> HIDE DEF s
    <3>3. F(s)
      BY <1>1, <1>2, <1>7, <2>3, <3>2
    <3>4. QED
      BY <3>1, <3>3
  <2>4. QED
    BY <2>1, <2>2, <2>3
<1>8. CASE event \in {"approval_pending", "approval_resolved"}
  <2>1. CASE status \in Final
    <3>1. Appends(t, event) = <<>>
      BY <1>8, <2>1 DEF Appends, If
    <3>2. QED
      BY <1>5, <3>1
  <2>2. CASE status \notin Final /\ event = "approval_pending"
    <3> DEFINE s == <<T("waiting_for_approval")>> \o <<H>>
    <3>1. Appends(t, event) = s
      BY <1>4, <2>2 DEF Appends, If
    <3>2. Len(s) = 2 /\ s[1] = T("waiting_for_approval") /\ s[2] = H
      BY TwoAppends
    <3> HIDE DEF s
    <3>3. F(s)
      BY <1>1, <1>3, <2>2, <3>2
    <3>4. QED
      BY <3>1, <3>3
  <2>3. CASE status \notin Final /\ event = "approval_resolved"
    <3> DEFINE s == <<T("active")>>
    <3>1. Appends(t, event) = s
      BY <1>4, <2>3 DEF Appends, If
    <3>2. Len(s) = 1 /\ s[1] = T("active")
      OBVIOUS
    <3> HIDE DEF s
    <3>3. F(s)
      BY <1>1, <2>3, <3>2
    <3>4. QED
      BY <3>1, <3>3
  <2>4. QED
    BY <1>8, <2>1, <2>2, <2>3
<1>9. CASE event \in Final
  <2> DEFINE r == If(request[t] = "pending", <<R("cancelled")>>)
             h == If(event = "failed", <<H>>)
             s == <<T(event)>> \o r \o h
  <2>1. Appends(t, event) = s
    BY <1>4, <1>9 DEF Appends
  <2>2. /\ Len(s) \in 1..3 /\ s[1] = T(event)
        /\ Len(s) >= 2 => s[2] = H \/ s[2] = R("cancelled")
        /\ Len(s) >= 3 => s[3] = H
    <3>1. CASE r = <<>> /\ h = <<>>
      <4>1. <<T(event)>> \o <<>> = <<T(event)>>
        OBVIOUS
      <4>2. s = <<T(event)>>
        BY <3>1, <4>1
      <4>3. QED
        BY <4>2
    <3>2. CASE r = <<>> /\ h = <<H>>
      <4>1. <<T(event)>> \o <<>> = <<T(event)>>
        OBVIOUS
      <4>2. s = <<T(event)>> \o <<H>>
        BY <3>2, <4>1
      <4>3. QED
        BY <4>2, TwoAppends
    <3>3. CASE r = <<R("cancelled")>> /\ h = <<>>
      <4>1. (<<T(event)>> \o <<R("cancelled")>>) \o <<>> = <<T(event)>> \o <<R("cancelled")>>
        <5>1. <<T(event)>> \o <<R("cancelled")>> \in Seq({T(event), R("cancelled")})
          OBVIOUS
        <5>2. QED
          BY <5>1, ConcatEmptySeq
      <4>2. s = <<T(event)>> \o <<R("cancelled")>>
        BY <3>3, <4>1
      <4>3. Len(s) = 2 /\ s[1] = T(event) /\ s[2] = R("cancelled")
        BY <4>2, TwoAppends
      <4>4. QED
        BY <4>3
    <3>4. CASE r = <<R("cancelled")>> /\ h = <<H>>
      <4>1. s = <<T(event)>> \o <<R("cancelled")>> \o <<H>>
        BY <3>4
      <4>2. Len(s) = 3 /\ s[1] = T(event) /\ s[2] = R("cancelled") /\ s[3] = H
        BY <4>1, ThreeAppends
      <4>3. QED
        BY <4>2
    <3>5. r \in {<<>>, <<R("cancelled")>>} /\ h \in {<<>>, <<H>>}
      BY DEF If
    <3>6. QED
      BY <3>1, <3>2, <3>3, <3>4, <3>5
  <2> HIDE DEF s
  <2>3. event # "waiting_for_user" /\ event \notin {"answered", "cancelled", "approval_resolved"}
    BY <1>9
  <2>4. F(s)
    BY <1>1, <1>2, <1>3, <2>2, <2>3
  <2>5. QED
    BY <2>1, <2>4
<1>10. QED
  BY <1>6, <1>7, <1>8, <1>9 DEF Events

-----------------------------------------------------------------------------
(* The steps of a run                                                      *)

\* A run that is about to make its turn wait is that of the turn, which goes on.
LEMMA Halting ==
    ASSUME IInv, Questioned, NEW p \in Procs, NEW t, Halts(p, t)
    PROVE  pc[p] = "running" /\ TurnOf(p) = t /\ turn[t].status \notin Final
<1>1. /\ p \in Writers /\ 1 \in 1..Len(todo[p]) /\ Waiting(todo[p][1]) /\ todo[p][1].of = t
      /\ todo[p][1].op = "turn" /\ p \notin Others
  BY Writings DEF Halts, Due, Waiting
<1>2. OwnsTurn(p, todo[p], Label(p))
  BY <1>1 DEF Questioned, Shaped
<1>3. todo[p][1].of = TurnOf(p)
  BY <1>1, <1>2 DEF OwnsTurn, Others
<1>4. pc[p] = "running" /\ turn[TurnOf(p)].status \notin Final
  BY <1>1 DEF Questioned, Asking
<1>5. QED
  BY <1>1, <1>3, <1>4

\* While a run holds the worktree nothing invalidates its records.
LEMMA Holds ==
    ASSUME IInv, NEW p \in Procs, pc[p] \notin Outside
    PROVE  job.kind \notin {"project", "retention"} /\ \A q \in Procs : todo[q] # <<>> => q = p
<1>1. p \in held /\ p # "maintenance"
  BY NamesAreDistinct DEF IInv, Holding, Others
<1>2. job.kind \notin {"project", "retention"}
  BY <1>1 DEF IInv, Maintaining, Holding
<1>3. \A q \in Procs : todo[q] # <<>> => q = p
  BY <1>1 DEF IInv, Holding
<1>4. QED
  BY <1>2, <1>3

\* A run records an event of its provider.
LEMMA RunRecords ==
    ASSUME IInv, Questioned, NEW p \in Procs, NEW event \in Events, pc[p] \notin Outside, todo[p] = <<>>,
           Record(p, p, event), UNCHANGED <<turn, request, host, job>>,
           \A q \in Procs : q # p => pc'[q] = pc[q],
           \A q \in Procs : q # p => asked'[q] = asked[q],
           asked'[p] # {} => pc'[p] \in Attended, pc'[p] \in Attended => pc[p] \in Attended,
           event = "input_requested" => pc'[p] = "running" /\ request[TurnOf(p)] = "none"
    PROVE  Questioned'
<1> DEFINE t == TurnOf(p)
           s == Appends(t, event)
<1>1. t \in Turns /\ p \in Writers /\ p \notin Others
  BY Writings
<1>2. Submit(p, s)
  BY DEF Record
<1>3. Fits(s, t, event)
  BY <1>1, AppendsFit
<1>4. job.kind \notin {"project", "retention"} /\ \A q \in Procs : todo[q] # <<>> => q = p
  BY Holds
<1>5. Attending
  BY DEF Questioned
<1>6. Attending'
  BY <1>5 DEF Attending, Bound
<1>7. InTime'
  BY <1>4 DEF InTime
<1> HIDE DEF s, t
<1>8. OwnsTurn(p, s, Label(p)')
  <2>1. Label(p)' = pc'[p]
    BY DEF Label
  <2>2. pc'[p] \in Attended => turn[t].runs > 0
    BY <1>5 DEF Attending, Bound, t
  <2>3. \A i \in 1..Len(s) : /\ s[i].op \in {"turn", "request"} => s[i].of = t
                             /\ s[i].op = "turn" => s[i].value.runs = turn[t].runs
    BY <1>3 DEF Fits
  <2>4. QED
    BY <2>1, <2>2, <2>3 DEF OwnsTurn, t
<1>9. \A i \in 1..Len(s) : Opening(s[i]) \/ Waiting(s[i]) =>
          pc'[p] = "running" /\ turn'[TurnOf(p)].status \notin Final /\ request[TurnOf(p)] = "none"
  BY <1>3 DEF Fits, t
<1>10. s # <<>> /\ Settling(s[1]) =>
          /\ request[s[1].of] # "none"
          /\ Alone(s) => turn'[s[1].of].status # "waiting_for_user" /\ \A q \in Procs : ~Halts(q, s[1].of)
  <2> SUFFICES ASSUME s # <<>>, Settling(s[1])
               PROVE  /\ request[s[1].of] # "none"
                      /\ Alone(s) => turn'[s[1].of].status # "waiting_for_user" /\ \A q \in Procs : ~Halts(q, s[1].of)
    OBVIOUS
  <2>1. 1 \in 1..Len(s)
    BY <1>3 DEF Fits
  <2>2. s[1].of = t /\ request[t] = "pending" /\ (Alone(s) => turn[t].status \in Final)
    BY <1>3, <2>1 DEF Fits, Settling
  <2>3. \A q \in Procs : ~Halts(q, t)
    BY <1>4 DEF Halts, Due
  <2>4. QED
    BY <2>2, <2>3 DEF Final
<1>11. /\ Orderly(s) /\ (s # <<>> => ~Waiting(s[1])) /\ p # "recovery"
       /\ \A q \in Procs : todo[q] # <<>> => pc'[q] = pc[q]
  BY <1>1, <1>3, <1>4 DEF Fits, Others
<1>12. QED
  BY <1>1, <1>2, <1>6, <1>7, <1>8, <1>9, <1>10, <1>11, SubmitsInOrder

\* A writer submits appends that are neither of a turn nor of a request.
LEMMA SubmitsOthers ==
    ASSUME IInv, Questioned, NEW w \in Writers \ {"recovery"}, todo[w] = <<>>, NEW s, Submit(w, s),
           Len(s) \in Nat, s # <<>> => Len(s) >= 1, \A i \in 1..Len(s) : s[i].op \notin {"turn", "request"},
           UNCHANGED <<request, host>>, Attending', InTime',
           \A p \in Procs : todo[p] # <<>> => pc'[p] = pc[p],
           \A t \in Turns : turn'[t].status = "waiting_for_user" => turn[t].status = "waiting_for_user",
           \A p \in Procs : pc[p] = "running" /\ turn[TurnOf(p)].status \notin Final
                            => turn'[TurnOf(p)].status \notin Final
    PROVE  Questioned'
<1>1. Orderly(s) /\ \A l : OwnsTurn(w, s, l)
  BY DEF Orderly, OwnsTurn, Waiting
<1>2. \A i \in 1..Len(s) : ~Opening(s[i]) /\ ~Waiting(s[i]) /\ ~Settling(s[i])
  BY DEF Opening, Waiting, Settling
<1>3. s # <<>> => ~Waiting(s[1]) /\ ~Settling(s[1])
  BY <1>2
<1>4. QED
  BY <1>1, <1>2, <1>3, SubmitsInOrder

\* A run goes on: it submits nothing of a turn or a request.
LEMMA RunSubmits ==
    ASSUME IInv, Questioned, NEW p \in Procs, pc[p] \notin Outside, todo[p] = <<>>,
           NEW s, Submit(p, s) \/ UNCHANGED writing,
           Len(s) \in Nat, s # <<>> => Len(s) >= 1, \A i \in 1..Len(s) : s[i].op \notin {"turn", "request"},
           UNCHANGED <<request, host, job, asked>>,
           \A q \in Procs : q # p => pc'[q] = pc[q], pc'[p] \in Attended <=> pc[p] \in Attended,
           \A t \in Turns : turn'[t].runs = turn[t].runs /\ turn'[t].status \in {turn[t].status, "active"}
    PROVE  Questioned'
<1>1. p \in Writers \ {"recovery"} /\ \A q \in Procs : TurnOf(q) \in Turns
  BY Writings DEF Others
<1>2. job.kind \notin {"project", "retention"} /\ \A q \in Procs : todo[q] # <<>> => pc'[q] = pc[q]
  BY Holds
<1>3. InTime'
  BY <1>2 DEF InTime
<1>4. Attending'
  BY <1>1 DEF Questioned, Attending, Bound
<1>5. /\ \A t \in Turns : turn'[t].status = "waiting_for_user" => turn[t].status = "waiting_for_user"
      /\ \A q \in Procs : pc[q] = "running" /\ turn[TurnOf(q)].status \notin Final
                          => turn'[TurnOf(q)].status \notin Final
  BY <1>1 DEF Final
<1>6. CASE Submit(p, s)
  BY <1>1, <1>2, <1>3, <1>4, <1>5, <1>6, SubmitsOthers
<1>7. CASE UNCHANGED writing
  BY <1>2, <1>3, <1>4, <1>5, <1>7, SubmitsNothing
<1>8. QED
  BY <1>6, <1>7

\* One append that is neither of a turn nor of a request, or none.
LEMMA OneAppend ==
    ASSUME NEW op, op \notin {"turn", "request"}, NEW of, NEW value, NEW c
    PROVE  LET s == If(c, Put(op, of, value))
           IN  /\ Len(s) \in Nat /\ (s # <<>> => Len(s) >= 1)
               /\ \A i \in 1..Len(s) : s[i].op \notin {"turn", "request"}
BY DEF If, Put

\* The run opens its turn.
LEMMA OpenInOrder == ASSUME IInv, Questioned, NEW p \in Procs, Open(p) PROVE Questioned'
<1> DEFINE ok == IF p \in Sends THEN transfer = "saved" /\ "dst" \in threads /\ Exists(Mail) ELSE "dst" \in threads
           l == IF ok THEN "opened" ELSE "leaving"
           s == If(ok, Put("checkpoint", p, "unavailable"))
<1>1. /\ pc[p] = "reserved" /\ Goto(p, l) /\ Submit(p, s) /\ UNCHANGED <<request, host, job, asked>>
      /\ turn' = IF ok /\ p \in Starts THEN [turn EXCEPT ![p].status = "active"] ELSE turn
  BY DEF Open
<1>2. l \notin Attended
  BY DEF Attended
<1>3. Len(s) \in Nat /\ (s # <<>> => Len(s) >= 1) /\ \A i \in 1..Len(s) : s[i].op \notin {"turn", "request"}
  BY OneAppend
<1> HIDE DEF ok, l, s
<1>4. pc'[p] = l /\ \A q \in Procs : q # p => pc'[q] = pc[q]
  BY <1>1 DEF Goto, IInv, Recorded
<1>5. \A t \in Turns : turn'[t].runs = turn[t].runs /\ turn'[t].status \in {turn[t].status, "active"}
  BY <1>1 DEF IInv, Recorded, TurnRecord
<1>6. pc[p] \notin Outside /\ pc[p] \notin Attended /\ todo[p] = <<>>
  BY <1>1 DEF Outside, Attended, IInv, Holding, Silent
<1>7. QED
  BY <1>1, <1>2, <1>3, <1>4, <1>5, <1>6, RunSubmits

\* The run captures its checkpoint, or saves that its launch failed.
LEMMA CaptureInOrder == ASSUME IInv, Questioned, NEW p \in Procs, Capture(p) \/ LaunchFailed(p) PROVE Questioned'
<1>1. PICK l \in {"captured", "leaving"} :
        /\ pc[p] \in {"opened", "failing"} /\ todo[p] = <<>> /\ Goto(p, l)
        /\ UNCHANGED <<request, host, job, asked, turn>>
  BY DEF Capture, LaunchFailed, records
<1>2. pc'[p] = l /\ \A q \in Procs : q # p => pc'[q] = pc[q]
  BY <1>1 DEF Goto, IInv, Recorded
<1>3. pc[p] \notin Outside /\ pc[p] \notin Attended /\ pc'[p] \notin Attended
  BY <1>1, <1>2 DEF Outside, Attended
<1>4. PICK c \in BOOLEAN, value \in {"baseline", "failed"} :
        Submit(p, If(c, Put("checkpoint", p, value))) \/ UNCHANGED writing
  BY DEF Capture, LaunchFailed, If
<1> DEFINE s == If(c, Put("checkpoint", p, value))
<1>5. Len(s) \in Nat /\ (s # <<>> => Len(s) >= 1) /\ \A i \in 1..Len(s) : s[i].op \notin {"turn", "request"}
  BY OneAppend
<1>6. Submit(p, s) \/ UNCHANGED writing
  BY <1>4
<1> HIDE DEF s
<1>7. QED
  BY <1>1, <1>2, <1>3, <1>5, <1>6, RunSubmits

\* The run settles its checkpoint.
LEMMA SettleInOrder == ASSUME IInv, Questioned, NEW p \in Procs, Settle(p) PROVE Questioned'
<1>1. /\ pc[p] \in {"completed", "stopped", "lost"} /\ todo[p] = <<>> /\ Goto(p, "closing")
      /\ UNCHANGED <<request, host, job, asked, turn>>
  BY DEF Settle, records
<1>2. pc'[p] = "closing" /\ \A q \in Procs : q # p => pc'[q] = pc[q]
  BY <1>1 DEF Goto, IInv, Recorded
<1>3. pc[p] \notin Outside /\ pc[p] \in Attended /\ pc'[p] \in Attended
  BY <1>1, <1>2 DEF Outside, Attended
<1>4. \/ UNCHANGED writing
      \/ \E value \in {"failed", "unavailable"} : Submit(p, Put("checkpoint", p, value))
      \/ Submit(p, Put("checkpoint", p, "completed") \o Put("supersede", p, "others"))
  <2>1. CASE checkpoint[p] # "baseline"
    BY <2>1 DEF Settle
  <2>2. CASE checkpoint[p] = "baseline" /\ pc[p] = "lost"
    BY <2>2 DEF Settle
  <2>3. CASE checkpoint[p] = "baseline" /\ pc[p] = "stopped"
    BY <2>3 DEF Settle
  <2>4. CASE checkpoint[p] = "baseline" /\ pc[p] = "completed"
    BY <2>4 DEF Settle
  <2>5. QED
    BY <1>1, <2>1, <2>2, <2>3, <2>4
<1>5. ASSUME NEW value \in {"failed", "unavailable"}, Submit(p, Put("checkpoint", p, value)) PROVE Questioned'
  <2> DEFINE s == If(TRUE, Put("checkpoint", p, value))
  <2>1. Len(s) \in Nat /\ (s # <<>> => Len(s) >= 1) /\ \A i \in 1..Len(s) : s[i].op \notin {"turn", "request"}
    BY OneAppend
  <2>2. Submit(p, s)
    BY <1>5 DEF If
  <2> HIDE DEF s
  <2>3. QED
    BY <1>1, <1>2, <1>3, <2>1, <2>2, RunSubmits
<1>6. CASE Submit(p, Put("checkpoint", p, "completed") \o Put("supersede", p, "others"))
  <2> DEFINE x == [op |-> "checkpoint", of |-> p, value |-> "completed"]
             y == [op |-> "supersede", of |-> p, value |-> "others"]
             s == <<x>> \o <<y>>
  <2>1. Submit(p, s)
    BY <1>6 DEF Put
  <2>2. Len(s) = 2 /\ s[1] = x /\ s[2] = y
    BY TwoAppends
  <2>3. x.op \notin {"turn", "request"} /\ y.op \notin {"turn", "request"}
    OBVIOUS
  <2> HIDE DEF s, x, y
  <2>4. Len(s) \in Nat /\ (s # <<>> => Len(s) >= 1) /\ \A i \in 1..Len(s) : s[i].op \notin {"turn", "request"}
    BY <2>2, <2>3
  <2>5. QED
    BY <1>1, <1>2, <1>3, <2>1, <2>4, RunSubmits
<1>7. CASE UNCHANGED writing
  <2>1. Len(<<>>) \in Nat /\ \A i \in 1..Len(<<>>) : <<>>[i].op \notin {"turn", "request"}
    OBVIOUS
  <2>2. QED
    BY <1>1, <1>2, <1>3, <1>7, <2>1, RunSubmits
<1>8. QED
  BY <1>4, <1>5, <1>6, <1>7

\* The provider starts, or the turn is recorded as failed.
LEMMA LaunchInOrder == ASSUME IInv, Questioned, NEW p \in Procs, Launch(p) PROVE Questioned'
<1>1. /\ pc[p] = "captured" /\ todo[p] = <<>> /\ UNCHANGED <<request, host, job, asked, turn>>
  BY DEF Launch, records
<1>2. pc[p] \notin Outside /\ pc[p] \notin Attended /\ asked[p] = {}
  BY <1>1 DEF Outside, Attended, Questioned, Attending
<1>3. Len(<<>>) \in Nat /\ \A i \in 1..Len(<<>>) : <<>>[i].op \notin {"turn", "request"}
  OBVIOUS
<1>4. CASE Goto(p, "launched") /\ UNCHANGED writing
  <2>1. pc'[p] = "launched" /\ \A q \in Procs : q # p => pc'[q] = pc[q]
    BY <1>4 DEF Goto, IInv, Recorded
  <2>2. pc'[p] \notin Attended
    BY <2>1 DEF Attended
  <2>3. QED
    BY <1>1, <1>2, <1>3, <1>4, <2>1, <2>2, RunSubmits
<1>5. CASE /\ Submit(p, If(Exists(TurnOf(p)), Appends(TurnOf(p), "failed")))
           /\ Goto(p, IF Exists(TurnOf(p)) THEN "failing" ELSE "leaving")
  <2>1. pc'[p] \in {"failing", "leaving"} /\ \A q \in Procs : q # p => pc'[q] = pc[q]
    BY <1>5 DEF Goto, IInv, Recorded
  <2>2. pc'[p] \notin Attended
    BY <2>1 DEF Attended
  <2>3. CASE Exists(TurnOf(p))
    <3>1. Record(p, p, "failed") /\ "failed" \in Events
      BY <1>5, <2>3 DEF If, Record, Events, Final
    <3>2. QED
      BY <1>1, <1>2, <2>1, <2>2, <3>1, RunRecords
  <2>4. CASE ~Exists(TurnOf(p))
    <3>1. Submit(p, <<>>)
      BY <1>5, <2>4 DEF If
    <3>2. QED
      BY <1>1, <1>2, <1>3, <2>1, <2>2, <3>1, RunSubmits
  <2>5. QED
    BY <2>3, <2>4
<1>6. QED
  BY <1>4, <1>5 DEF Launch

\* A step that submits nothing and starts no maintenance.
LEMMA StepsAside ==
    ASSUME IInv, Questioned, UNCHANGED <<writing, request, host, job>>, Attending',
           \A p \in Procs : todo[p] # <<>> => pc'[p] = pc[p],
           \A t \in Turns : turn'[t].status = "waiting_for_user" => turn[t].status = "waiting_for_user",
           \A p \in Procs : pc[p] = "running" /\ turn[TurnOf(p)].status \notin Final
                            => turn'[TurnOf(p)].status \notin Final
    PROVE  Questioned'
<1>1. InTime'
  BY DEF Questioned, InTime, writing
<1>2. QED
  BY <1>1, SubmitsNothing

\* The run is bound to its turn.
LEMMA BindInOrder == ASSUME IInv, Questioned, NEW p \in Procs, Bind(p) PROVE Questioned'
<1> DEFINE t == TurnOf(p)
<1>1. /\ pc[p] = "launched" /\ UNCHANGED <<writing, request, host, job, asked>>
      /\ Goto(p, IF Exists(t) THEN "running" ELSE "leaving")
      /\ turn' = IF Exists(t) THEN [turn EXCEPT ![t].runs = @ + 1] ELSE turn
  BY DEF Bind
<1>2. \A q \in Procs : TurnOf(q) \in Turns
  BY Writings
<1>3. /\ pc'[p] \in {"running", "leaving"} /\ (pc'[p] = "running" => Exists(t))
      /\ \A q \in Procs : q # p => pc'[q] = pc[q]
  BY <1>1 DEF Goto, IInv, Recorded
<1>4. todo[p] = <<>> /\ asked[p] = {}
  BY <1>1 DEF IInv, Holding, Silent, Questioned, Attending, Attended
<1>5. \A u \in Turns : /\ turn'[u].status = turn[u].status
                       /\ turn[u].runs > 0 => turn'[u].runs > 0
                       /\ u = t /\ Exists(t) => turn'[u].runs > 0
  <2>1. \A u \in Turns : turn[u] \in TurnRecord(Count) /\ turn[u].runs \in Nat
    BY CountIsNat DEF IInv, Recorded, Count, TurnRecord
  <2>2. DOMAIN turn = Turns
    BY DEF IInv, Recorded
  <2> HIDE DEF t
  <2>3. QED
    BY <1>1, <2>1, <2>2 DEF TurnRecord
<1>6. Attending'
  <2> SUFFICES ASSUME NEW q \in Procs
               PROVE  (pc'[q] \in Attended => turn'[TurnOf(q)].runs > 0) /\ (asked'[q] # {} => pc'[q] \in Attended)
    BY DEF Attending, Bound
  <2>1. Attending
    BY DEF Questioned
  <2>2. CASE q = p
    BY <1>1, <1>2, <1>3, <1>4, <1>5, <2>2 DEF Attended
  <2>3. CASE q # p
    BY <1>1, <1>2, <1>3, <1>5, <2>1, <2>3 DEF Attending, Bound
  <2>4. QED
    BY <2>2, <2>3
<1>7. QED
  BY <1>1, <1>2, <1>3, <1>4, <1>5, <1>6, StepsAside

\* A run that does not hold the worktree yet, or gives it back; a transfer that is
\* taken up, or given up, only before it is bound.
LEMMA BesideInOrder ==
    ASSUME IInv, Questioned, NEW p \in Procs, Send(p) \/ Abandon(p) \/ Reserve(p) \/ Leave(p)
    PROVE  Questioned'
<1>1. PICK l \in {"done", "admitting", "reserved", "abandoning"} : Goto(p, l) /\ todo[p] = <<>>
  <2>1. CASE Send(p)
    BY <2>1 DEF Send, IInv, Holding, Silent
  <2>2. CASE Abandon(p)
    BY <2>2 DEF Abandon, IInv, Holding, Silent
  <2>3. CASE Reserve(p)
    BY <2>3 DEF Reserve, Refused, IInv, Holding, Silent
  <2>4. CASE Leave(p)
    BY <2>4 DEF Leave, Refused
  <2>5. QED
    BY <2>1, <2>2, <2>3, <2>4
<1>2. UNCHANGED <<writing, request, host, job>>
  BY DEF Send, Abandon, Reserve, Leave, records
<1>3. pc'[p] \notin Attended /\ \A q \in Procs : q # p => pc'[q] = pc[q]
  BY <1>1 DEF Goto, IInv, Recorded, Attended
<1>4. asked'[p] = {} /\ \A q \in Procs : q # p => asked'[q] = asked[q]
  <2>1. CASE Send(p) \/ Abandon(p) \/ Reserve(p)
    <3>1. asked' = asked /\ pc[p] \notin Attended
      BY <2>1 DEF Send, Abandon, Reserve, Attended
    <3>2. QED
      BY <3>1 DEF Questioned, Attending
  <2>2. CASE Leave(p)
    BY <2>2 DEF Leave, IInv, Recorded
  <2>3. QED
    BY <2>1, <2>2
<1>5. /\ \A q \in Procs : TurnOf(q) \in Turns
      /\ Mail \in Turns
  BY Writings DEF Turns
<1>6. \A t \in Turns : /\ turn'[t].runs = turn[t].runs
                       /\ turn'[t].status = turn[t].status \/ turn'[t].status \in {"active", "interrupted"}
                       /\ turn'[t].status = "interrupted" => turn[t].status = "interrupted" \/ ~Bound(t)
  <2>1. CASE Send(p)
    <3>1. turn' = turn \/ turn' = [turn EXCEPT ![Mail].status = "active"]
      BY <2>1 DEF Send
    <3>2. QED
      BY <1>5, <3>1 DEF IInv, Recorded, TurnRecord
  <2>2. CASE Abandon(p)
    <3>1. turn' = turn \/ (turn' = [turn EXCEPT ![Mail].status = "interrupted"] /\ ~Bound(Mail))
      BY <2>2 DEF Abandon
    <3>2. QED
      BY <1>5, <3>1 DEF IInv, Recorded, TurnRecord
  <2>3. CASE Reserve(p) \/ Leave(p)
    BY <2>3 DEF Reserve, Leave, records
  <2>4. QED
    BY <2>1, <2>2, <2>3
<1>7. Attending
  BY DEF Questioned
<1>8. Attending'
  BY <1>3, <1>4, <1>5, <1>6, <1>7 DEF Attending, Bound
<1>9. ASSUME NEW q \in Procs, pc[q] = "running", turn[TurnOf(q)].status \notin Final
      PROVE  turn'[TurnOf(q)].status \notin Final
  <2>1. Bound(TurnOf(q))
    BY <1>7, <1>9 DEF Attending, Attended
  <2>2. QED
    BY <1>5, <1>6, <1>9, <2>1 DEF Final
<1>10. \A t \in Turns : turn'[t].status = "waiting_for_user" => turn[t].status = "waiting_for_user"
  BY <1>6
<1>11. QED
  BY <1>1, <1>2, <1>3, <1>8, <1>9, <1>10, StepsAside

\* The event loop of a run.
LEMMA LoopInOrder ==
    ASSUME IInv, Questioned, NEW p \in Procs,
           \/ \E q \in {"approval", "input"} : Ask(p, q)
           \/ Answered(p) \/ HistoryFails(p) \/ StreamEnds(p) \/ \E event \in Final : End(p, event)
    PROVE  Questioned'
<1>1. /\ pc[p] = "running" /\ todo[p] = <<>>
      /\ UNCHANGED <<turn, request, host, job>>
  BY DEF Ask, Answered, HistoryFails, StreamEnds, End, Ready, records
<1>2. /\ \A q \in Procs : q # p => asked'[q] = asked[q] /\ pc'[q] = pc[q]
      /\ pc'[p] \in {"running", "lost", "stopped", "completed"}
  <2>1. CASE \E q \in {"approval", "input"} : Ask(p, q)
    BY <1>1, <2>1 DEF Ask, Lost, Goto, IInv, Recorded
  <2>2. CASE Answered(p)
    BY <1>1, <2>2 DEF Answered, Lost, Goto, IInv, Recorded
  <2>3. CASE HistoryFails(p) \/ StreamEnds(p)
    BY <2>3 DEF HistoryFails, StreamEnds, Goto, IInv, Recorded
  <2>4. CASE \E event \in Final : End(p, event)
    BY <2>4 DEF End, Lost, Goto, IInv, Recorded
  <2>5. QED
    BY <2>1, <2>2, <2>3, <2>4
<1>3. \/ UNCHANGED writing
      \/ \E event \in Events : /\ Record(p, p, event)
                               /\ event = "input_requested" => request[TurnOf(p)] = "none" /\ UNCHANGED pc
  <2>1. ASSUME NEW q \in {"approval", "input"}, Ask(p, q)
        PROVE  \/ UNCHANGED writing
               \/ \E event \in Events : /\ Record(p, p, event)
                                        /\ event = "input_requested" => request[TurnOf(p)] = "none" /\ UNCHANGED pc
    <3>1. CASE q = "input"
      BY <2>1, <3>1 DEF Ask, Lost, Events
    <3>2. CASE q = "approval"
      BY <2>1, <3>2 DEF Ask, Lost, Events
    <3>3. QED
      BY <3>1, <3>2
  <2>2. CASE Answered(p)
    BY <2>2 DEF Answered, Lost, Events
  <2>3. CASE HistoryFails(p) \/ StreamEnds(p)
    BY <2>3 DEF HistoryFails, StreamEnds
  <2>4. ASSUME NEW event \in Final, End(p, event) PROVE UNCHANGED writing \/ (Record(p, p, event) /\ event \in Events)
    BY <2>4 DEF End, Lost, Events
  <2>5. "input_requested" \notin Final
    BY DEF Final
  <2>6. QED
    BY <2>1, <2>2, <2>3, <2>4, <2>5
<1>4. pc[p] \notin Outside /\ pc[p] \in Attended /\ pc'[p] \in Attended
  BY <1>1, <1>2 DEF Outside, Attended
<1>5. CASE UNCHANGED writing
  <2>1. Attending'
    BY <1>1, <1>2, <1>4 DEF Questioned, Attending, Bound
  <2>2. QED
    BY <1>1, <1>2, <1>5, <2>1, StepsAside
<1>6. ASSUME NEW event \in Events, Record(p, p, event),
             event = "input_requested" => request[TurnOf(p)] = "none" /\ UNCHANGED pc
      PROVE  Questioned'
  BY <1>1, <1>2, <1>4, <1>6, RunRecords
<1>7. QED
  BY <1>3, <1>5, <1>6

\* An approval is decided, or an input times out, while the run of the turn is
\* bound: the turn goes on, unless it is over.
LEMMA DecidedInOrder == ASSUME IInv, Questioned, NEW p \in Procs, Decide(p) \/ Expire(p) PROVE Questioned'
<1> DEFINE t == TurnOf(p)
<1>1. PICK w \in {"decision", "timer"}, event \in {"approval_resolved", "cancelled"} :
        /\ todo[w] = <<>> /\ Submit(w, Appends(t, event)) /\ (w = "decision" <=> event = "approval_resolved")
        /\ UNCHANGED <<turn, request, host, job, pc>>
  BY DEF Decide, Expire, Record, records
<1>2. asked[p] # {} /\ \A q \in Procs : asked'[q] \subseteq asked[q]
  BY DEF Decide, Expire, IInv, Recorded
<1>3. Attending /\ pc[p] \in Attended /\ turn[t].runs > 0
  BY <1>2 DEF Questioned, Attending, Bound
<1>4. Attending'
  BY <1>1, <1>2, <1>3 DEF Attending, Bound
<1>5. job.kind \notin {"project", "retention"}
  BY <1>3, Holds DEF Attended, Outside
<1>6. InTime'
  BY <1>1, <1>5 DEF InTime
<1>7. t \in Turns /\ w \in Writers /\ w \notin Procs /\ w # "recovery" /\ event \in Events
  BY Writings DEF Others, Events
<1> DEFINE s == Appends(t, event)
<1>8. Fits(s, t, event) /\ Submit(w, s)
  BY <1>1, <1>7, AppendsFit
<1> HIDE DEF s
<1>9. OwnsTurn(w, s, Label(w)')
  <2> SUFFICES ASSUME NEW i \in 1..Len(s)
               PROVE  /\ s[i].op \in {"turn", "request"} =>
                            \/ w = "decision" /\ s[i].op = "turn" /\ s[i].value.status = "active"
                            \/ /\ w = "timer" /\ s[i].of = s[1].of
                               /\ s[i].op = "turn" => s[i].value.status = "active"
                               /\ s[i].op = "request" => i = 1 /\ Settling(s[i])
                      /\ s[i].op = "turn" => s[i].value.runs > 0
    BY DEF OwnsTurn
  <2>1. 1 \in 1..Len(s)
    BY <1>8 DEF Fits
  <2>2. /\ s[i].of = t /\ s[1].of = t
        /\ s[i].op = "turn" => s[i].value.runs = turn[t].runs /\ s[i].value.status = "active"
        /\ s[i].op = "request" => i = 1 /\ Settling(s[i]) /\ event # "approval_resolved"
    BY <1>8, <2>1 DEF Fits
  <2>3. QED
    BY <1>1, <1>3, <2>2
<1>10. s # <<>> /\ Settling(s[1]) =>
          /\ request[s[1].of] # "none"
          /\ Alone(s) => turn'[s[1].of].status # "waiting_for_user" /\ \A q \in Procs : ~Halts(q, s[1].of)
  <2> SUFFICES ASSUME s # <<>>, Settling(s[1])
               PROVE  /\ request[s[1].of] # "none"
                      /\ Alone(s) => turn'[s[1].of].status # "waiting_for_user" /\ \A q \in Procs : ~Halts(q, s[1].of)
    OBVIOUS
  <2>1. 1 \in 1..Len(s)
    BY <1>8 DEF Fits
  <2>2. s[1].of = t /\ request[t] = "pending" /\ (Alone(s) => turn[t].status \in Final)
    BY <1>8, <2>1 DEF Fits, Settling
  <2>3. ASSUME NEW q \in Procs, Halts(q, t) PROVE turn[t].status \notin Final
    BY <2>3, Halting
  <2>4. QED
    BY <1>1, <2>2, <2>3 DEF Final
<1>11. Orderly(s) /\ (s # <<>> => ~Waiting(s[1]))
  BY <1>8 DEF Fits
<1>12. QED
  BY <1>1, <1>4, <1>6, <1>7, <1>8, <1>9, <1>10, <1>11, SubmitsInOrder

\* Rewinds, and maintenance until its removal, write neither turn nor request;
\* maintenance stands in the queue after whoever is in it.
LEMMA UpkeepInOrder ==
    ASSUME IInv, Questioned,
           \/ \E p \in Procs : Rewind(p) \/ Invalidate(p) \/ DropRefs(p)
           \/ RewindDone \/ Invalidated
           \/ \E c \in Threads : DeleteConversation(c)
           \/ \E kind \in {"project", "retention"}, old \in SUBSET Threads : Maintain(kind, old)
    PROVE  Questioned'
<1>1. UNCHANGED <<turn, request, pc, asked, host>>
  BY DEF Rewind, Invalidate, DropRefs, RewindDone, Invalidated, DeleteConversation, Maintain, records
<1>2. Attending'
  BY <1>1 DEF Questioned, Attending, Bound
<1>3. /\ DOMAIN todo = Writers /\ queue \in Seq(Writers) /\ QueueFollows(todo, queue) /\ Enqueued(todo, queue)
      /\ {"rewind", "maintenance"} \subseteq Writers \ {"recovery"} /\ "timer" \in Writers
  BY Writings DEF Others, Questioned
<1>4. ASSUME NEW p \in Procs, Rewind(p) PROVE Questioned'
  <2>1. held = {} /\ UNCHANGED job
    BY <1>4 DEF Rewind
  <2>2. todo["rewind"] = <<>> /\ job.kind \notin {"project", "retention"}
    BY <2>1 DEF IInv, Holding, Maintaining
  <2>3. InTime'
    BY <2>1, <2>2 DEF InTime
  <2>4. PICK done \in BOOLEAN : Submit("rewind", If(done, Put("checkpoint", p, "superseded")))
    BY <1>4 DEF Rewind
  <2> DEFINE s == If(done, Put("checkpoint", p, "superseded"))
  <2>5. Len(s) \in Nat /\ (s # <<>> => Len(s) >= 1) /\ \A i \in 1..Len(s) : s[i].op \notin {"turn", "request"}
    BY OneAppend
  <2>6. Submit("rewind", s)
    BY <2>4
  <2> HIDE DEF s
  <2>7. QED
    BY <1>1, <1>2, <1>3, <2>2, <2>3, <2>5, <2>6, SubmitsOthers
<1>5. CASE RewindDone \/ \E p \in Procs : Invalidate(p) \/ DropRefs(p)
  <2>1. UNCHANGED <<writing, job>>
    BY <1>5 DEF RewindDone, Invalidate, DropRefs
  <2>2. QED
    BY <1>1, <1>2, <2>1, StepsAside
<1>6. CASE Invalidated
  <2>1. UNCHANGED job /\ todo["maintenance"] = <<>> /\ Submit("maintenance", Put("remove", job.kind, "all"))
    BY <1>6 DEF Invalidated, Invalidating
  <2> DEFINE s == If(TRUE, Put("remove", job.kind, "all"))
  <2>2. Len(s) \in Nat /\ (s # <<>> => Len(s) >= 1) /\ \A i \in 1..Len(s) : s[i].op \notin {"turn", "request"}
    BY OneAppend
  <2>3. Submit("maintenance", s)
    BY <2>1 DEF If
  <2> HIDE DEF s
  <2>4. "maintenance" \in Writers
    BY <1>3
  <2>5. \A u \in Writers : u # "maintenance" => Precedes(queue', u, "maintenance")
    BY <2>1, <2>3, <2>4, SubmitsLast
  <2>6. Precedes(queue', "timer", "maintenance")
    BY <1>3, <2>5
  <2>7. InTime'
    BY <2>6 DEF InTime
  <2>8. QED
    BY <1>1, <1>2, <1>3, <2>1, <2>2, <2>3, <2>7, SubmitsOthers
<1>7. ASSUME NEW c \in Threads, DeleteConversation(c) PROVE Questioned'
  <2> DEFINE x == [op |-> "deletion", of |-> c, value |-> "pending"]
             y == [op |-> "remove", of |-> c, value |-> "all"]
             s == <<x>> \o <<y>>
  <2>1. job = NoJob /\ job'.kind = "conversation" /\ Submit("maintenance", s)
    BY <1>7 DEF DeleteConversation, Put
  <2>2. todo["maintenance"] = <<>>
    BY <2>1 DEF NoJob, IInv, Maintaining
  <2>3. Len(s) = 2 /\ s[1] = x /\ s[2] = y
    BY TwoAppends
  <2>4. x.op \notin {"turn", "request"} /\ y.op \notin {"turn", "request"}
    OBVIOUS
  <2> HIDE DEF s, x, y
  <2>5. Len(s) \in Nat /\ (s # <<>> => Len(s) >= 1) /\ \A i \in 1..Len(s) : s[i].op \notin {"turn", "request"}
    BY <2>3, <2>4
  <2>6. InTime'
    BY <2>1 DEF InTime
  <2>7. QED
    BY <1>1, <1>2, <1>3, <2>1, <2>2, <2>5, <2>6, SubmitsOthers
<1>8. ASSUME NEW kind \in {"project", "retention"}, NEW old \in SUBSET Threads, Maintain(kind, old) PROVE Questioned'
  <2>1. job = NoJob /\ UNCHANGED writing
    BY <1>8 DEF Maintain
  <2>2. todo["maintenance"] = <<>>
    BY <2>1 DEF NoJob, IInv, Maintaining
  <2>3. \A i \in 1..Len(queue) : queue[i] # "maintenance"
    BY <1>3, <2>2 DEF QueueFollows
  <2>4. Precedes(queue', "timer", "maintenance")
    BY <2>1, <2>3 DEF Precedes, writing
  <2>5. InTime'
    BY <2>4 DEF InTime
  <2>6. QED
    BY <1>1, <1>2, <2>1, <2>5, SubmitsNothing
<1>9. QED
  BY <1>4, <1>5, <1>6, <1>7, <1>8

\* Project deletion and retention remove the records when no run owes a write and
\* every timer has settled its request.
LEMMA CompactInOrder == ASSUME IInv, Questioned, NEW gone \in SUBSET Threads, Compact(gone) PROVE Questioned'
<1> DEFINE w == "maintenance"
<1>1. /\ queue # <<>> /\ w = Head(queue) /\ Head(todo[w]).op = "remove" /\ job.kind # "conversation"
      /\ Made(w) /\ job' = NoJob /\ UNCHANGED <<refs, pc, asked, host>>
  BY DEF Compact, Removing
<1>2. \/ UNCHANGED <<turn, request>>
      \/ turn' = [t \in Turns |-> NoTurn] /\ request' = [t \in Turns |-> "none"]
  BY DEF Compact, Remove
<1>3. job.kind \in {"project", "retention"} /\ todo'[w] = <<>>
  BY <1>1, Removes DEF IInv, Maintaining
<1>4. \A p \in Procs : pc[p] \in Outside /\ todo[p] = <<>>
  BY <1>3, NamesAreDistinct DEF IInv, Holding, Maintaining, Others
<1>5. /\ Enqueued(todo', queue')
      /\ \A v \in Writers : v # w => todo'[v] = todo[v]
      /\ \A u \in Writers : u # w /\ todo[u] # <<>> => ~Precedes(queue, u, w)
      /\ Head(todo[w]) = todo[w][1]
  BY <1>1, Writing
<1>6. Shaped'
  BY <1>1, LeftInOrder
<1>7. /\ \A t \in Turns : Answerable(t)
      /\ Attending /\ Shaped /\ InTime /\ host = "up" /\ todo["recovery"] = <<>>
  BY DEF Questioned
<1>8. /\ Procs \subseteq Writers /\ Others \subseteq Writers
      /\ \A v \in Writers : todo[v] # <<>> => 1 \in 1..Len(todo[v])
      /\ \A p \in Procs : TurnOf(p) \in Turns
  BY Writings
<1> HIDE DEF w
<1>9. Attending'
  BY <1>1, <1>4, <1>7 DEF Attending, Attended, Outside
<1>10. Asking'
  <2>1. w \notin Procs
    BY NamesAreDistinct DEF w, Others
  <2>2. \A p \in Procs : todo'[p] = <<>>
    BY <1>4, <1>5, <1>8, <2>1
  <2>3. QED
    BY <2>2 DEF Asking
<1>11. ASSUME NEW v \in Writers, NEW t, Settles(v, t) PROVE FALSE
  <2>1. OwnsTurn(v, todo[v], Label(v)) /\ 1 \in 1..Len(todo[v]) /\ todo[v][1].op = "request" /\ todo[v] # <<>>
    BY <1>7, <1>8, <1>11 DEF Shaped, Settles, Due, Settling
  <2>2. v = "timer"
    BY <1>4, <2>1 DEF OwnsTurn
  <2>3. Precedes(queue, v, w)
    BY <1>3, <1>7, <2>1, <2>2 DEF InTime, w
  <2>4. QED
    BY <1>5, <2>1, <2>2, <2>3 DEF w
<1>12. ASSUME NEW t \in Turns PROVE Answerable(t)'
  <2>1. todo[w][1].op = "remove"
    BY <1>1, <1>5
  <2>2. \A v \in Writers : /\ ~Settles(v, t)'
                           /\ Resumes(v, t)' <=> Resumes(v, t)
    BY <1>3, <1>5, <1>11, <2>1 DEF Settles, Resumes, Due
  <2>3. \A p \in Procs : ~Halts(p, t)'
    BY <1>3, <1>4, <1>5, <1>8 DEF Halts, Due
  <2>4. turn'[t].status = "waiting_for_user" => request'[t] = "pending" \/ \E v \in Writers : Resumes(v, t)'
    BY <1>2, <1>7, <2>2 DEF Answerable, NoTurn
  <2>5. "timer" \in Writers
    BY <1>8 DEF Others
  <2>6. QED
    BY <2>2, <2>3, <2>4, <2>5 DEF Answerable
<1>13. InTime'
  BY <1>1 DEF InTime, NoJob
<1>14. todo'["recovery"] = <<>> /\ host' = "up"
  BY <1>1, <1>5, <1>7, <1>8 DEF Others, w
<1>15. QED
  BY <1>5, <1>6, <1>9, <1>10, <1>12, <1>13, <1>14 DEF Questioned

\* Every step keeps the invariant: a crash, or a deletion that completes, leaves
\* nothing to keep.
LEMMA WStep == IInv /\ WInv /\ [Next]_vars => WInv'
<1> SUFFICES ASSUME IInv, WInv, [Next]_vars PROVE WInv'
  OBVIOUS
<1>1. Named'
  <2>1. \/ UNCHANGED job \/ job' = NoJob
        \/ \E c \in Threads : job' = [kind |-> "conversation", threads |-> {c}]
        \/ \E kind \in {"project", "retention"}, old \in SUBSET Threads : job' = [kind |-> kind, threads |-> old]
    <3>1. CASE Next
      <4>1. CASE \E w \in Writers : Write(w)
        BY <4>1 DEF Write
      <4>2. CASE \E p \in Sends : Send(p)
        BY <4>2 DEF Send
      <4>3. CASE \E p \in Procs : RunStep(p)
        BY <4>3 DEF RunStep, Abandon, Reserve, Open, Capture, Launch, LaunchFailed, Bind, Settle, Leave
      <4>4. CASE \E p \in Procs : Stops(p)
        BY <4>4 DEF Stops, StreamEnds, End
      <4>5. CASE \E p \in Procs : \/ \E q \in {"approval", "input"} : Ask(p, q)
                                  \/ Answered(p) \/ HistoryFails(p)
                                  \/ Decide(p) \/ Expire(p) \/ Rewind(p)
        BY <4>5 DEF Ask, Answered, HistoryFails, Decide, Expire, Rewind
      <4>6. CASE (\E c \in Threads : DeleteConversation(c)) \/ Maintenance
        BY <4>6 DEF DeleteConversation, Maintenance, RemoveConversation, RewindDone, Invalidated, Invalidate,
           DropRefs, Compact
      <4>7. CASE \E kind \in {"project", "retention"}, old \in SUBSET Threads : Maintain(kind, old)
        BY <4>7 DEF Maintain
      <4>8. CASE Crash \/ Recovered \/ \E t \in Turns : Recover(t)
        BY <4>8 DEF Crash, Recovered, Recover
      <4>9. QED
        BY <3>1, <4>1, <4>2, <4>3, <4>4, <4>5, <4>6, <4>7, <4>8 DEF Next
    <3>2. CASE UNCHANGED vars
      BY <3>2 DEF vars
    <3>3. QED
      BY <3>1, <3>2
  <2>2. QED
    BY <2>1 DEF WInv, Named, NoJob
<1>2. CASE Crash
  <2>1. crashes \in Nat /\ crashes' = crashes + 1
    BY <1>2 DEF WInv, Crash
  <2>2. QED
    BY <1>1, <2>1 DEF WInv, Undisturbed
<1>3. CASE RemoveConversation
  <2>1. job.kind = "conversation" /\ deleted' = deleted \cup job.threads /\ UNCHANGED crashes
    BY <1>3 DEF RemoveConversation, Removing, bounds
  <2>2. deleted' # {}
    BY <2>1 DEF WInv, Named
  <2>3. QED
    BY <1>1, <2>1, <2>2 DEF WInv, Undisturbed
<1>4. CASE ~Crash /\ ~RemoveConversation
  <2>1. UNCHANGED <<crashes, deleted>>
    <3>1. CASE Next
      <4>1. CASE \E w \in Writers : Write(w)
        BY <4>1 DEF Write, bounds
      <4>2. CASE \E p \in Sends : Send(p)
        BY <4>2 DEF Send, bounds
      <4>3. CASE \E p \in Procs : RunStep(p)
        BY <4>3 DEF RunStep, Abandon, Reserve, Open, Capture, Launch, LaunchFailed, Bind, Settle, Leave, bounds
      <4>4. CASE \E p \in Procs : Stops(p)
        BY <4>4 DEF Stops, StreamEnds, End, bounds
      <4>5. CASE \E p \in Procs : \/ \E q \in {"approval", "input"} : Ask(p, q)
                                  \/ Answered(p) \/ HistoryFails(p)
                                  \/ Decide(p) \/ Expire(p) \/ Rewind(p)
        BY <4>5 DEF Ask, Answered, HistoryFails, Decide, Expire, Rewind, bounds
      <4>6. CASE (\E c \in Threads : DeleteConversation(c)) \/ Maintenance
        BY <1>4, <4>6 DEF DeleteConversation, Maintenance, RewindDone, Invalidated, Invalidate,
           DropRefs, Compact, bounds
      <4>7. CASE \E kind \in {"project", "retention"}, old \in SUBSET Threads : Maintain(kind, old)
        BY <4>7 DEF Maintain
      <4>8. CASE Recovered \/ \E t \in Turns : Recover(t)
        BY <4>8 DEF Recovered, Recover, bounds
      <4>9. QED
        BY <1>4, <3>1, <4>1, <4>2, <4>3, <4>4, <4>5, <4>6, <4>7, <4>8 DEF Next
    <3>2. CASE UNCHANGED vars
      BY <3>2 DEF vars, bounds
    <3>3. QED
      BY <3>1, <3>2
  <2>2. ASSUME Questioned PROVE Questioned'
    <3>1. ASSUME NEW w \in Writers, Write(w) PROVE Questioned'
      BY <2>2, <3>1, WriteInOrder
    <3>2. ASSUME NEW p \in Sends, Send(p) PROVE Questioned'
      BY <2>2, <3>2, BesideInOrder DEF Procs
    <3>3. ASSUME NEW p \in Procs, RunStep(p) PROVE Questioned'
      BY <2>2, <3>3, BesideInOrder, OpenInOrder, CaptureInOrder, LaunchInOrder, BindInOrder, SettleInOrder DEF RunStep
    <3>4. ASSUME NEW p \in Procs,
                 \/ Stops(p) \/ Answered(p) \/ HistoryFails(p)
                 \/ \E q \in {"approval", "input"} : Ask(p, q)
          PROVE  Questioned'
      BY <2>2, <3>4, LoopInOrder DEF Stops
    <3>5. ASSUME NEW p \in Procs, Decide(p) \/ Expire(p) PROVE Questioned'
      BY <2>2, <3>5, DecidedInOrder
    <3>6. ASSUME \/ \E p \in Procs : Rewind(p)
                 \/ \E c \in Threads : DeleteConversation(c)
                 \/ \E kind \in {"project", "retention"}, old \in SUBSET Threads : Maintain(kind, old)
          PROVE  Questioned'
      BY <2>2, <3>6, UpkeepInOrder
    <3>7. CASE Maintenance
      BY <1>4, <2>2, <3>7, UpkeepInOrder, CompactInOrder DEF Maintenance
    <3>8. CASE (\E t \in Turns : Recover(t)) \/ Recovered
      BY <2>2, <3>8 DEF Recover, Recovered, Questioned
    <3>9. CASE UNCHANGED vars
      <4>1. UNCHANGED <<writing, turn, request, host, job, pc, asked>>
        BY <3>9 DEF vars, records
      <4>2. Attending'
        BY <2>2, <4>1 DEF Questioned, Attending, Bound
      <4>3. QED
        BY <2>2, <4>1, <4>2, StepsAside
    <3>10. QED
      BY <1>4, <3>1, <3>2, <3>3, <3>4, <3>5, <3>6, <3>7, <3>8, <3>9 DEF Next
  <2>3. QED
    BY <1>1, <2>1, <2>2 DEF WInv, Undisturbed
<1>5. QED
  BY <1>2, <1>3, <1>4

\* Nothing is asked and nothing owed when the host starts.
LEMMA WInit == Init => WInv
<1> SUFFICES ASSUME Init PROVE WInv
  OBVIOUS
<1>1. /\ \A w \in Writers : todo[w] = <<>>
      /\ \A t \in Turns : turn[t].status = "none"
      /\ \A p \in Procs : p \in Writers /\ pc[p] \in {"idle", "admitting"} /\ asked[p] = {}
      /\ "timer" \in Writers /\ "recovery" \in Writers
      /\ host = "up" /\ job = NoJob /\ crashes = 0
  BY DEF Init, Writers, Others, NoTurn
<1>2. Named /\ crashes \in Nat
  BY <1>1 DEF Named, NoJob
<1>3. Enqueued(todo, queue) /\ Shaped /\ Asking
  <2>1. Len(<<>>) = 0
    OBVIOUS
  <2>2. QED
    BY <1>1, <2>1 DEF Enqueued, Shaped, Orderly, OwnsTurn, Asking
<1>4. Attending /\ InTime
  BY <1>1 DEF Attending, Attended, InTime, NoJob
<1>5. \A t \in Turns : Answerable(t)
  BY <1>1 DEF Answerable, Halts, Settles, Due
<1>6. QED
  BY <1>1, <1>2, <1>3, <1>4, <1>5 DEF WInv, Questioned

\* Once the runs of a turn are over and nothing is owed, the turn is recorded as
\* waiting for the operator only while its question is recorded as pending: the
\* run, its timer and its approval decision write the two one after the other, in
\* any order the queue has.  A crash and a completed deletion are excepted.
THEOREM WaitingTurnsHaveQuestions == Spec => []WaitingHasQuestion
<1>1. IInv /\ WInv => WaitingHasQuestion
  <2> SUFFICES ASSUME IInv, WInv, crashes = 0, deleted = {}, queue = <<>>,
                      NEW t \in Turns, turn[t].status = "waiting_for_user"
               PROVE  request[t] = "pending"
    BY DEF WaitingHasQuestion
  <2>1. Questioned
    BY DEF WInv, Undisturbed
  <2>2. \A w \in Writers : todo[w] = <<>>
    <3>1. Len(queue) = 0 /\ Enqueued(todo, queue)
      BY <2>1 DEF Questioned
    <3>2. QED
      BY <3>1 DEF Enqueued
  <2>3. QED
    BY <2>1, <2>2 DEF Questioned, Answerable, Resumes, Due
<1>2. Spec => []WInv
  BY InvHolds, WInit, WStep, PTL DEF Spec
<1>3. QED
  BY <1>1, <1>2, InvHolds, PTL
================================================================================
