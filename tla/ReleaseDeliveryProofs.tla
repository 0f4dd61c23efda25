-------------------------- MODULE ReleaseDeliveryProofs --------------------------
(***************************************************************************)
(* Safety of the staged delivery for every set of sessions and every       *)
(* number of plans and outside events.                                     *)
(*                                                                         *)
(* The checked invariants speak of the ledger.  But what is saved is made  *)
(* of the record that an execution or a preview read some steps ago, while *)
(* the ledger and Tenkai went on.  IInv therefore says the same of every   *)
(* such snapshot, which stage it belongs to by what it is going to call,   *)
(* and whose plans are in question.                                        *)
(***************************************************************************)
EXTENDS ReleaseDelivery, SequenceTheorems, TLAPS

Early == {"candidate_ready", "governance_denied", "governance_unavailable", "governance_unknown", "governance_allowed"}
AfterAllow == {"governance_allowed", "publication_unknown"}
AfterPublish == {"published", "promoted", "planned", "applying", "completed", "recovered", "failed", "unknown"}
Pcs == {"idle", "fresh", "evaluate", "apply", "reconcile", "call", "look", "settle"}

Record == [state : States, complete : {"partial", "complete", "stale", "unknown"}, allow : BOOLEAN,
    release : BOOLEAN, prov : BOOLEAN, channel : BOOLEAN, plan : Nat, rollback : Nat]
Executing == [pc : Pcs, action : Actions, snap : Record,
    result : Outcomes \cup {"none", "planned", "promoted"}, ref : Nat]
Reading == [on : BOOLEAN, snap : Record, bound : BOOLEAN]
Candidates == Sessions \cup {None, "older"}
Plan == [to : Candidates, only : BOOLEAN, state : {"ready", "succeeded", "failed"}]
TenkaiRecord == [released : SUBSET Sessions, head : Candidates, deployed : Candidates,
                 health : {"healthy", "degraded", "error"}, plans : Seq(Plan)]

Typed ==
    /\ session \in [Sessions -> Record]
    /\ previews \in [Sessions -> SUBSET Actions]
    /\ exec \in [Sessions -> Executing]
    /\ reader \in [Sessions -> Reading]
    /\ expired \subseteq Sessions /\ allowed \subseteq Sessions /\ unsettled \subseteq Sessions
    /\ tenkai \in TenkaiRecord /\ Len(tenkai.plans) <= MaxPlans

\* A record that was in the ledger rests on the stages before its own, in Chisei
\* (al) and Tenkai (tk) too.
Grounded(s, r, al, tk) ==
    /\ r.plan <= Len(tk.plans) /\ r.rollback <= Len(tk.plans)
    /\ r.state \in AfterAllow \cup AfterPublish => r.allow /\ s \in al
    /\ r.state \in AfterPublish => r.release /\ r.prov /\ s \in tk.released
    /\ r.state \in {"promoted", "planned", "applying", "completed"} => r.channel
    /\ r.state \in {"planned", "applying", "completed"} => r.plan # 0
    /\ r.plan # 0 => r.channel
    /\ r.rollback # 0 => tk.plans[r.rollback].to = "older"
    /\ r.release => r.state \notin Early
    /\ r.complete = "complete" => r.state \in {"completed", "recovered", "evicted"}

\* A session that is completed or recovered is so by a plan that ended well.
Proven(s, r, tk) ==
    /\ r.state = "completed" =>
          r.plan # 0 /\ tk.plans[r.plan].state = "succeeded" /\ tk.plans[r.plan].to = s
    /\ r.state = "recovered" => r.rollback # 0 /\ tk.plans[r.rollback].state = "succeeded"

\* An execution is at a stage that its action starts from.
Staged(s, x, tk) ==
    /\ x.pc \in {"fresh", "evaluate", "apply", "reconcile"} => Available(x.action, x.snap)
    /\ x.pc \in {"evaluate", "apply", "reconcile"} => x.action = x.pc
    /\ x.pc \in {"call", "look"} =>
          /\ x.action \in Mutations
          /\ x.action = "apply" => x.snap.state = "applying"
          /\ x.action # "apply" => Available(x.action, x.snap)
    /\ x.pc = "call" /\ x.action = "apply" =>
          tk.plans[x.snap.plan].only /\ tk.plans[x.snap.plan].to = s
    /\ x.pc = "look" /\ x.action \in {"plan", "rollback"} => x.ref <= Len(tk.plans)
    /\ x.pc = "look" /\ x.action = "rollback" /\ x.ref # 0 => tk.plans[x.ref].to = "older"
    /\ x.pc = "settle" =>
          /\ x.snap.state = "unknown" /\ x.result \in {"none", "planned", "promoted"}
          /\ x.result = "planned" => x.snap.plan # 0
          /\ x.result = "promoted" => x.snap.channel
    /\ x.pc # "look" => x.ref = 0

\* It holds the session, unless that was found stale or left the ledger.
Holds(x, r) == x.pc # "idle" => r = x.snap \/ r.state \in {"stale", "evicted"}

\* What was previewed is available for the record as it is.
Offered(ps, y, r) ==
    /\ \A a \in ps : Available(a, r)
    /\ y.bound => y.snap = r /\ r.state \notin {"none", "evicted"}

SessionInv(s) ==
    /\ Grounded(s, session[s], allowed, tenkai)
    /\ Grounded(s, exec[s].snap, allowed, tenkai)
    /\ Grounded(s, reader[s].snap, allowed, tenkai)
    /\ Proven(s, session[s], tenkai)
    /\ Staged(s, exec[s], tenkai)
    /\ Holds(exec[s], session[s])
    /\ Offered(previews[s], reader[s], session[s])

IInv == Typed /\ \A s \in Sessions : SessionInv(s)

-----------------------------------------------------------------------------
(* What grows outside                                                      *)

\* Chisei and Tenkai take nothing back, and a plan stays what it is.
Grows(al, tk, al2, tk2) ==
    /\ al \subseteq al2 /\ tk.released \subseteq tk2.released
    /\ Len(tk.plans) <= Len(tk2.plans)
    /\ \A i \in 1..Len(tk.plans) :
          tk2.plans[i].to = tk.plans[i].to /\ tk2.plans[i].only = tk.plans[i].only

\* A plan of a session that ended well is not carried out again.
Kept(s, tk, tk2) ==
    \A i \in 1..Len(tk.plans) :
       tk.plans[i].state = "succeeded" /\ tk.plans[i].to \in {s, "older"} => tk2.plans[i].state = "succeeded"

\* A grounded record stays grounded.
LEMMA GroundedGrows ==
    ASSUME NEW s, NEW r \in Record, NEW al, NEW al2, NEW tk \in TenkaiRecord, NEW tk2 \in TenkaiRecord,
           Grounded(s, r, al, tk), Grows(al, tk, al2, tk2)
    PROVE  Grounded(s, r, al2, tk2)
<1>1. r.plan \in Nat /\ r.rollback \in Nat /\ Len(tk.plans) \in Nat /\ Len(tk2.plans) \in Nat
  BY DEF Record, TenkaiRecord
<1>2. r.rollback # 0 => r.rollback \in 1..Len(tk.plans)
  BY <1>1 DEF Grounded
<1>3. QED
  BY <1>1, <1>2 DEF Grounded, Grows

\* A session that is completed or recovered stays proven.
LEMMA ProvenGrows ==
    ASSUME NEW s, NEW r \in Record, NEW al, NEW al2, NEW tk \in TenkaiRecord, NEW tk2 \in TenkaiRecord,
           Grounded(s, r, al, tk), Grows(al, tk, al2, tk2), Kept(s, tk, tk2), Proven(s, r, tk)
    PROVE  Proven(s, r, tk2)
<1>1. r.plan \in Nat /\ r.rollback \in Nat /\ Len(tk.plans) \in Nat
  BY DEF Record, TenkaiRecord
<1>2. /\ r.plan # 0 => r.plan \in 1..Len(tk.plans)
      /\ r.rollback # 0 => r.rollback \in 1..Len(tk.plans) /\ tk.plans[r.rollback].to = "older"
  BY <1>1 DEF Grounded
<1>3. QED
  BY <1>2 DEF Proven, Grows, Kept

\* An execution stays at its stage.
LEMMA StagedGrows ==
    ASSUME NEW s, NEW x \in Executing, NEW al, NEW al2, NEW tk \in TenkaiRecord, NEW tk2 \in TenkaiRecord,
           Grounded(s, x.snap, al, tk), Grows(al, tk, al2, tk2), Staged(s, x, tk)
    PROVE  Staged(s, x, tk2)
<1>1. /\ x.snap.plan \in Nat /\ x.ref \in Nat /\ Len(tk.plans) \in Nat /\ Len(tk2.plans) \in Nat
  BY DEF Executing, Record, TenkaiRecord
<1>2. x.snap.state = "applying" => x.snap.plan \in 1..Len(tk.plans)
  BY <1>1 DEF Grounded
<1>3. x.ref <= Len(tk.plans) /\ x.ref # 0 => x.ref \in 1..Len(tk.plans)
  BY <1>1
<1>4. QED
  BY <1>1, <1>2, <1>3 DEF Staged, Grows

\* What happens elsewhere leaves a session as it should be.
LEMMA Untouched ==
    ASSUME Typed, Typed', NEW q \in Sessions, SessionInv(q),
           Grows(allowed, tenkai, allowed', tenkai'), Kept(q, tenkai, tenkai'),
           session'[q] = session[q], previews'[q] = previews[q], exec'[q] = exec[q], reader'[q] = reader[q]
    PROVE  SessionInv(q)'
<1>1. /\ session[q] \in Record /\ exec[q] \in Executing /\ exec[q].snap \in Record
      /\ reader[q].snap \in Record /\ tenkai \in TenkaiRecord /\ tenkai' \in TenkaiRecord
  BY DEF Typed, Executing, Reading, TenkaiRecord
<1>2. /\ Grounded(q, session[q], allowed', tenkai')
      /\ Grounded(q, exec[q].snap, allowed', tenkai')
      /\ Grounded(q, reader[q].snap, allowed', tenkai')
  BY <1>1, GroundedGrows DEF SessionInv
<1>3. Proven(q, session[q], tenkai') /\ Staged(q, exec[q], tenkai')
  BY <1>1, ProvenGrows, StagedGrows DEF SessionInv
<1>4. QED
  BY <1>2, <1>3 DEF SessionInv

-----------------------------------------------------------------------------
(* What a command may do in Tenkai                                         *)

\* A plan is added behind the others.
LEMMA PlanAdded ==
    ASSUME Typed, NEW p \in Plan, NEW d \in Candidates, Len(tenkai.plans) < MaxPlans,
           NEW new, new = WithPlan(p, d)
    PROVE  /\ new \in TenkaiRecord /\ Len(new.plans) <= MaxPlans
           /\ Len(new.plans) = Len(tenkai.plans) + 1
           /\ new.plans[Len(new.plans)] = p
           /\ Grows(allowed, tenkai, allowed, new)
           /\ \A q : Kept(q, tenkai, new)
<1> DEFINE ps == tenkai.plans
<1>0. tenkai \in TenkaiRecord /\ MaxPlans \in Nat
  BY BoundsAreNat DEF Typed
<1>1. ps \in Seq(Plan) /\ Len(ps) \in Nat
  BY <1>0 DEF TenkaiRecord
<1>2. /\ Append(ps, p) \in Seq(Plan) /\ Len(Append(ps, p)) = Len(ps) + 1
      /\ \A i \in 1..Len(ps) : Append(ps, p)[i] = ps[i]
      /\ Append(ps, p)[Len(ps) + 1] = p
  BY <1>1
<1>3. new = [[tenkai EXCEPT !.plans = Append(ps, p)] EXCEPT !.deployed = d]
  BY DEF WithPlan
<1>4. new.plans = Append(ps, p) /\ new.released = tenkai.released /\ new \in TenkaiRecord
  BY <1>0, <1>2, <1>3 DEF TenkaiRecord
<1>5. QED
  BY <1>0, <1>1, <1>2, <1>4 DEF Grows, Kept, Typed

\* A plan is carried out: its state changes, and maybe what is deployed.
LEMMA PlanApplied ==
    ASSUME Typed, NEW id \in 1..Len(tenkai.plans), NEW st \in {"succeeded", "failed"},
           NEW d \in Candidates, NEW h \in {"healthy", "degraded", "error"}, NEW new,
           new = [tenkai EXCEPT !.plans[id].state = st, !.deployed = d, !.health = h]
    PROVE  /\ new \in TenkaiRecord /\ Len(new.plans) = Len(tenkai.plans)
           /\ Grows(allowed, tenkai, allowed, new)
           /\ \A q : tenkai.plans[id].to \notin {q, "older"} => Kept(q, tenkai, new)
<1> DEFINE ps == tenkai.plans
           p == [ps[id] EXCEPT !.state = st]
           qs == [ps EXCEPT ![id] = p]
<1>0. tenkai \in TenkaiRecord
  BY DEF Typed
<1>1. ps \in Seq(Plan) /\ Len(ps) \in Nat /\ ps[id] \in Plan
  BY <1>0 DEF TenkaiRecord
<1>2. p \in Plan /\ p.to = ps[id].to /\ p.only = ps[id].only
  BY <1>1 DEF Plan
<1>3. qs \in Seq(Plan) /\ Len(qs) = Len(ps) /\ \A j \in 1..Len(ps) : qs[j] = IF j = id THEN p ELSE ps[j]
  BY <1>1, <1>2, ExceptSeq
<1>4. new.plans = qs /\ new.released = tenkai.released /\ new \in TenkaiRecord
  BY <1>0, <1>3 DEF TenkaiRecord
<1>5. QED
  BY <1>1, <1>2, <1>3, <1>4 DEF Grows, Kept

\* A command in Tenkai leaves the plans of the other sessions as they are, and
\* its own ones unless it carries one out; a rollback's plan is to an older release.
LEMMA EffectsAreOwn ==
    ASSUME IInv, NEW s \in Sessions, exec[s].pc = "call", NEW new \in Effects(s, exec[s].action)
    PROVE  /\ new \in TenkaiRecord /\ Len(new.plans) <= MaxPlans
           /\ Grows(allowed, tenkai, allowed, new)
           /\ \A q \in Sessions : q # s \/ exec[s].action # "apply" => Kept(q, tenkai, new)
           /\ exec[s].action = "rollback" => new.plans[Len(new.plans)].to = "older"
<1> DEFINE a == exec[s].action
<1>0. /\ Typed /\ tenkai \in TenkaiRecord /\ Len(tenkai.plans) <= MaxPlans
      /\ Len(tenkai.plans) \in Nat /\ MaxPlans \in Nat
      /\ exec[s] \in Executing /\ SessionInv(s)
  BY BoundsAreNat DEF IInv, Typed, TenkaiRecord
<1>typed. Typed
  BY <1>0
<1>1. a \in Mutations
  BY <1>0 DEF SessionInv, Staged
<1>2. s \in Candidates /\ "older" \in Candidates
  BY DEF Candidates
<1>3. CASE a = "publish"
  <2>1. new = [tenkai EXCEPT !.released = tenkai.released \cup {s}]
    BY <1>3 DEF Effects
  <2>2. new \in TenkaiRecord /\ new.plans = tenkai.plans /\ new.released = tenkai.released \cup {s}
    BY <1>0, <2>1 DEF TenkaiRecord
  <2>3. QED
    BY <1>0, <1>3, <2>2 DEF Grows, Kept
<1>4. CASE a = "promote"
  <2>1. new = [tenkai EXCEPT !.head = s]
    BY <1>4 DEF Effects
  <2>2. new \in TenkaiRecord /\ new.plans = tenkai.plans /\ new.released = tenkai.released
    BY <1>0, <1>2, <2>1 DEF TenkaiRecord
  <2>3. QED
    BY <1>0, <1>4, <2>2 DEF Grows, Kept
<1>5. CASE a = "plan"
  <2>1. PICK b \in BOOLEAN : new = WithPlan([to |-> tenkai.head, only |-> b, state |-> "ready"], tenkai.deployed)
    BY <1>5 DEF Effects
  <2>2. /\ [to |-> tenkai.head, only |-> b, state |-> "ready"] \in Plan
        /\ tenkai.deployed \in Candidates
    BY <1>0 DEF TenkaiRecord, Plan
  <2>3. Len(tenkai.plans) < MaxPlans
    BY <1>0, <1>5 DEF Effects
  <2>4. QED
    BY <1>0, <1>5, <2>1, <2>2, <2>3, PlanAdded
<1>6. CASE a = "apply"
  <2> DEFINE id == exec[s].snap.plan
  <2>1. exec[s].snap \in Record /\ exec[s].snap.state = "applying"
    BY <1>0, <1>6 DEF Executing, SessionInv, Staged
  <2>2. id \in 1..Len(tenkai.plans)
    BY <1>0, <2>1 DEF Record, SessionInv, Grounded
  <2>3. tenkai.plans[id].to = s
    BY <1>0, <1>6 DEF SessionInv, Staged
  <2>4. \A q \in Sessions : q # s => tenkai.plans[id].to \notin {q, "older"}
    BY <2>3, NoneIsNoSession
  <2>5. ASSUME new = [tenkai EXCEPT !.plans[id].state = "failed"]
        PROVE  /\ new \in TenkaiRecord /\ Len(new.plans) = Len(tenkai.plans)
               /\ Grows(allowed, tenkai, allowed, new)
               /\ \A q \in Sessions : q # s => Kept(q, tenkai, new)
    <3>1. tenkai.deployed \in Candidates /\ tenkai.health \in {"healthy", "degraded", "error"}
      BY <1>0 DEF TenkaiRecord
    <3>2. new = [tenkai EXCEPT !.plans[id].state = "failed", !.deployed = tenkai.deployed, !.health = tenkai.health]
      BY <1>0, <2>5 DEF TenkaiRecord
    <3>3. /\ new \in TenkaiRecord /\ Len(new.plans) = Len(tenkai.plans)
          /\ Grows(allowed, tenkai, allowed, new)
          /\ \A q : tenkai.plans[id].to \notin {q, "older"} => Kept(q, tenkai, new)
      BY <1>typed, <2>2, <3>1, <3>2, PlanApplied
    <3>4. QED
      BY <2>4, <3>3
  <2>6. ASSUME NEW h \in {"healthy", "degraded"},
               new = [tenkai EXCEPT !.plans[id].state = "succeeded", !.deployed = s, !.health = h]
        PROVE  /\ new \in TenkaiRecord /\ Len(new.plans) = Len(tenkai.plans)
               /\ Grows(allowed, tenkai, allowed, new)
               /\ \A q \in Sessions : q # s => Kept(q, tenkai, new)
    <3>1. /\ new \in TenkaiRecord /\ Len(new.plans) = Len(tenkai.plans)
          /\ Grows(allowed, tenkai, allowed, new)
          /\ \A q : tenkai.plans[id].to \notin {q, "older"} => Kept(q, tenkai, new)
      BY <1>2, <1>typed, <2>2, <2>6, PlanApplied
    <3>2. QED
      BY <2>4, <3>1
  <2>7. QED
    BY <1>0, <1>6, <2>5, <2>6 DEF Effects
<1>7. CASE a = "rollback"
  <2>1. Len(tenkai.plans) < MaxPlans
    BY <1>0, <1>7 DEF Effects
  <2>2. tenkai.deployed \in Candidates
    BY <1>0 DEF TenkaiRecord
  <2>3. \A st \in {"succeeded", "failed"} : [to |-> "older", only |-> TRUE, state |-> st] \in Plan
    BY <1>2 DEF Plan
  <2>4. PICK st \in {"succeeded", "failed"}, d \in Candidates :
            new = WithPlan([to |-> "older", only |-> TRUE, state |-> st], d)
    BY <1>2, <1>7, <2>1, <2>2 DEF Effects
  <2> DEFINE p == [to |-> "older", only |-> TRUE, state |-> st]
  <2>5. /\ new \in TenkaiRecord /\ Len(new.plans) <= MaxPlans
        /\ new.plans[Len(new.plans)] = p
        /\ Grows(allowed, tenkai, allowed, new)
        /\ \A q : Kept(q, tenkai, new)
    <3>1. p \in Plan
      BY <2>3
    <3> HIDE DEF p
    <3>2. QED
      BY <1>0, <2>1, <2>4, <3>1, PlanAdded DEF p
  <2>6. p.to = "older"
    OBVIOUS
  <2>7. QED
    BY <1>7, <2>5, <2>6
<1>8. QED
  BY <1>1, <1>3, <1>4, <1>5, <1>6, <1>7 DEF Mutations

-----------------------------------------------------------------------------
(* The kinds of steps                                                      *)

\* What stands for nothing.
LEMMA Nothings ==
    /\ Unprepared \in Record /\ Idle \in Executing /\ Unread \in Reading
    /\ Idle.pc = "idle" /\ Idle.snap = Unprepared /\ Unread.snap = Unprepared /\ ~Unread.bound
    /\ \A s, al : \A tk \in TenkaiRecord : Grounded(s, Unprepared, al, tk) /\ Staged(s, Idle, tk)
<1>1. Unprepared \in Record /\ Idle \in Executing /\ Unread \in Reading
  BY DEF Unprepared, Record, States, Idle, Executing, Pcs, Actions, Unread, Reading
<1>2. /\ Idle.ref = 0 /\ Unprepared.state = "none" /\ Unprepared.plan = 0 /\ Unprepared.rollback = 0
      /\ Unprepared.complete = "partial"
  BY DEF Unprepared, Idle
<1>3. Idle.pc = "idle" /\ Idle.snap = Unprepared /\ Unread.snap = Unprepared /\ ~Unread.bound
  BY DEF Idle, Unread
<1>4. ASSUME NEW s, NEW al, NEW tk \in TenkaiRecord PROVE Grounded(s, Unprepared, al, tk) /\ Staged(s, Idle, tk)
  <2>1. Len(tk.plans) \in Nat
    BY DEF TenkaiRecord
  <2>2. QED
    BY <1>2, <1>3, <2>1 DEF Grounded, Staged, AfterAllow, AfterPublish, Early
<1>5. QED
  BY <1>1, <1>3, <1>4

\* An execution goes on or ends; the ledger is left alone.
LEMMA ExecStep ==
    ASSUME IInv, NEW s \in Sessions, NEW x \in Executing, exec' = [exec EXCEPT ![s] = x],
           UNCHANGED <<session, previews, reader, allowed, expired>>, unsettled' \subseteq Sessions,
           tenkai' \in TenkaiRecord, Len(tenkai'.plans) <= MaxPlans,
           Grows(allowed, tenkai, allowed, tenkai'),
           \A q \in Sessions : q # s \/ session[s].state \in {"completed", "recovered"} => Kept(q, tenkai, tenkai'),
           Grounded(s, x.snap, allowed, tenkai'), Staged(s, x, tenkai'), Holds(x, session[s])
    PROVE  IInv'
<1>1. Typed /\ Typed'
  BY DEF IInv, Typed
<1>2. \A q \in Sessions \ {s} : SessionInv(q)'
  BY <1>1, Untouched DEF IInv, Typed
<1>3. exec'[s] = x /\ session[s] \in Record /\ reader[s].snap \in Record /\ tenkai \in TenkaiRecord
  BY <1>1 DEF Typed, Reading
<1>4. Grounded(s, session[s], allowed, tenkai') /\ Grounded(s, reader[s].snap, allowed, tenkai')
  BY <1>3, GroundedGrows DEF IInv, SessionInv
<1>5. Proven(s, session[s], tenkai')
  <2>1. CASE session[s].state \in {"completed", "recovered"}
    BY <1>3, <2>1, ProvenGrows DEF IInv, SessionInv
  <2>2. CASE session[s].state \notin {"completed", "recovered"}
    BY <2>2 DEF Proven
  <2>3. QED
    BY <2>1, <2>2
<1>6. SessionInv(s)'
  BY <1>3, <1>4, <1>5 DEF IInv, SessionInv
<1>7. QED
  BY <1>1, <1>2, <1>6 DEF IInv

\* A record is put in the ledger; a preview of the session that is in the making
\* is for another record, or ends.
LEMMA PutStep ==
    ASSUME IInv, NEW s \in Sessions, NEW r \in Record, NEW x \in Executing, NEW y \in Reading,
           exec' = [exec EXCEPT ![s] = x], Put(s, r), reader' = [reader EXCEPT ![s] = y],
           UNCHANGED <<tenkai, expired>>, unsettled' \subseteq Sessions,
           allowed \subseteq allowed', allowed' \subseteq Sessions,
           Grounded(s, r, allowed', tenkai), Proven(s, r, tenkai),
           Grounded(s, x.snap, allowed', tenkai), Staged(s, x, tenkai), Holds(x, r),
           Grounded(s, y.snap, allowed', tenkai), ~y.bound
    PROVE  IInv'
<1>1. Typed
  BY DEF IInv
<1>2. tenkai \in TenkaiRecord
  BY <1>1 DEF Typed
<1>3. reader'[s] = y /\ reader' \in [Sessions -> Reading]
  BY <1>1 DEF Typed
<1>4. session'[s] = r /\ previews'[s] = {} /\ exec'[s] = x
      /\ session' \in [Sessions -> Record] /\ previews' \in [Sessions -> SUBSET Actions]
      /\ exec' \in [Sessions -> Executing]
  BY <1>1 DEF Put, Unbound, Typed
<1>5. Typed'
  BY <1>1, <1>3, <1>4 DEF Typed
<1>6. Grows(allowed, tenkai, allowed', tenkai) /\ \A q : Kept(q, tenkai, tenkai)
  BY <1>2 DEF Grows, Kept, TenkaiRecord
<1>7. \A q \in Sessions \ {s} : SessionInv(q)'
  BY <1>1, <1>5, <1>6, Untouched DEF IInv, Typed, Put, Unbound
<1>8. SessionInv(s)'
  BY <1>3, <1>4 DEF SessionInv, Offered
<1>9. QED
  BY <1>5, <1>7, <1>8 DEF IInv

\* A preview or receipt in the making loses its record.
LEMMA Outdated ==
    ASSUME IInv, NEW s \in Sessions, Outdate(s), allowed \subseteq allowed'
    PROVE  \E y \in Reading : /\ reader' = [reader EXCEPT ![s] = y]
                              /\ ~y.bound /\ Grounded(s, y.snap, allowed', tenkai)
<1> DEFINE y == [reader[s] EXCEPT !.bound = FALSE]
<1>1. /\ reader[s] \in Reading /\ reader[s].snap \in Record /\ tenkai \in TenkaiRecord
      /\ reader \in [Sessions -> Reading]
  BY DEF IInv, Typed, Reading
<1>2. y \in Reading /\ ~y.bound /\ y.snap = reader[s].snap
  BY <1>1 DEF Reading
<1>3. reader' = [reader EXCEPT ![s] = y]
  BY <1>1 DEF Outdate
<1>4. Grows(allowed, tenkai, allowed', tenkai)
  BY <1>1 DEF Grows, TenkaiRecord
<1>5. Grounded(s, reader[s].snap, allowed', tenkai)
  BY <1>1, <1>4, GroundedGrows DEF IInv, SessionInv
<1> HIDE DEF y
<1>6. QED
  BY <1>2, <1>3, <1>5

\* A record is saved, and the execution is over.
LEMMA SaveStep ==
    ASSUME IInv, NEW s \in Sessions, NEW r \in Record, Save(s, r),
           UNCHANGED <<tenkai, expired>>, unsettled' \subseteq Sessions,
           allowed \subseteq allowed', allowed' \subseteq Sessions,
           Grounded(s, r, allowed', tenkai), Proven(s, r, tenkai)
    PROVE  IInv'
<1>1. tenkai \in TenkaiRecord
  BY DEF IInv, Typed
<1>2. PICK y \in Reading : reader' = [reader EXCEPT ![s] = y] /\ ~y.bound
                           /\ Grounded(s, y.snap, allowed', tenkai)
  BY Outdated DEF Save
<1>3. QED
  BY <1>1, <1>2, Nothings, PutStep DEF Save, Leave, Holds

\* An execution ends, and nothing has changed outside.
LEMMA LeaveStep ==
    ASSUME IInv, NEW s \in Sessions, Leave(s), unsettled' \subseteq Sessions,
           UNCHANGED <<session, previews, reader, allowed, expired, tenkai>>
    PROVE  IInv'
<1>1. tenkai \in TenkaiRecord /\ Len(tenkai.plans) <= MaxPlans
  BY DEF IInv, Typed
<1>2. Grows(allowed, tenkai, allowed, tenkai) /\ \A q : Kept(q, tenkai, tenkai)
  BY <1>1 DEF Grows, Kept, TenkaiRecord
<1>3. QED
  BY <1>1, <1>2, Nothings, ExecStep DEF Leave, Holds

\* An execution goes on, and nothing has changed outside.
LEMMA GoStep ==
    ASSUME IInv, NEW s \in Sessions, NEW x \in Executing, exec' = [exec EXCEPT ![s] = x],
           UNCHANGED <<session, previews, reader, allowed, expired, tenkai>>, unsettled' \subseteq Sessions,
           x.snap = exec[s].snap, exec[s].pc # "idle", Staged(s, x, tenkai)
    PROVE  IInv'
<1>1. tenkai \in TenkaiRecord /\ Len(tenkai.plans) <= MaxPlans
  BY DEF IInv, Typed
<1>2. Grows(allowed, tenkai, allowed, tenkai) /\ \A q : Kept(q, tenkai, tenkai)
  BY <1>1 DEF Grows, Kept, TenkaiRecord
<1>3. Grounded(s, x.snap, allowed, tenkai) /\ Holds(x, session[s])
  BY DEF IInv, SessionInv, Holds
<1>4. QED
  BY <1>1, <1>2, <1>3, ExecStep

-----------------------------------------------------------------------------
(* The records that are saved                                              *)

Completes == {"partial", "complete", "stale", "unknown"}

\* A session can be declared unknown, failed or stale at any later stage.
LEMMA Ungraded ==
    ASSUME NEW s, NEW al, NEW tk, NEW r \in Record, Grounded(s, r, al, tk), NEW n \in Record,
           NEW v \in {"unknown", "failed", "stale"}, n.state = v, n.complete # "complete",
           v # "stale" => r.state \in AfterPublish,
           n.allow = r.allow, n.release = r.release, n.prov = r.prov, n.channel = r.channel,
           n.plan = r.plan, n.rollback = r.rollback
    PROVE  Grounded(s, n, al, tk) /\ Proven(s, n, tk)
BY DEF Grounded, Proven, AfterAllow, AfterPublish, Early

\* The plan that Tenkai shows last.
LEMMA LatestPlan ==
    ASSUME NEW p \in Nat, p # 0, p = Len(tenkai.plans)
    PROVE  Latest = tenkai.plans[p]
<1>1. tenkai.plans # <<>>
  OBVIOUS
<1>2. QED
  BY <1>1 DEF Latest

\* What a reconciliation makes of a record is grounded and proven.
LEMMA ReconciledIsGrounded ==
    ASSUME Typed, NEW s \in Sessions, NEW r \in Record, Grounded(s, r, allowed, tenkai),
           r.state \in AfterPublish, NEW result
    PROVE  LET n == Reconciled(s, r, result) IN
           /\ n \in Record /\ Grounded(s, n, allowed, tenkai) /\ Proven(s, n, tenkai)
           /\ n.state \in {"recovered", "completed", "failed", "unknown"}
           /\ n.channel = r.channel /\ n.plan = r.plan
<1> DEFINE n == Reconciled(s, r, result)
<1>0. /\ Complete(s, r) \in Completes
      /\ "recovered" \in States /\ "completed" \in States /\ "failed" \in States /\ "unknown" \in States
      /\ "partial" \in Completes /\ "unknown" \in Completes
      /\ r.plan \in Nat /\ r.rollback \in Nat
  BY DEF Complete, States, Completes, Record
<1>1. CASE RolledBack(s, r.rollback)
  <2>1. n = [r EXCEPT !.state = "recovered", !.complete = Complete(s, r)]
    BY <1>1 DEF Reconciled
  <2>2. r.rollback # 0 /\ tenkai.plans[r.rollback].state = "succeeded"
    BY <1>0, <1>1, LatestPlan DEF RolledBack
  <2> HIDE DEF n
  <2>3. /\ n \in Record /\ n.state = "recovered" /\ n.complete \in Completes
        /\ n.allow = r.allow /\ n.release = r.release /\ n.prov = r.prov /\ n.channel = r.channel
        /\ n.plan = r.plan /\ n.rollback = r.rollback
    BY <1>0, <2>1 DEF Record, Completes
  <2>4. Grounded(s, n, allowed, tenkai) /\ Proven(s, n, tenkai)
    BY <2>2, <2>3 DEF Grounded, Proven, AfterAllow, AfterPublish, Early
  <2>5. QED
    BY <2>3, <2>4 DEF n
<1>2. CASE ~RolledBack(s, r.rollback) /\ Current(s, r, result)
  <2>1. n = [r EXCEPT !.state = "completed", !.complete = Complete(s, r)]
    BY <1>2 DEF Reconciled
  <2>2. /\ r.plan # 0 /\ r.channel
        /\ tenkai.plans[r.plan].state = "succeeded" /\ tenkai.plans[r.plan].to = s
    BY <1>0, <1>2, LatestPlan DEF Current, CandidateOnly
  <2> HIDE DEF n
  <2>3. /\ n \in Record /\ n.state = "completed" /\ n.complete \in Completes
        /\ n.allow = r.allow /\ n.release = r.release /\ n.prov = r.prov /\ n.channel = r.channel
        /\ n.plan = r.plan /\ n.rollback = r.rollback
    BY <1>0, <2>1 DEF Record, Completes
  <2>4. Grounded(s, n, allowed, tenkai) /\ Proven(s, n, tenkai)
    BY <2>2, <2>3 DEF Grounded, Proven, AfterAllow, AfterPublish, Early
  <2>5. QED
    BY <2>3, <2>4 DEF n
<1>3. CASE ~RolledBack(s, r.rollback) /\ ~Current(s, r, result)
  <2>1. \/ n = [r EXCEPT !.state = "failed", !.complete = "partial"]
        \/ n = [r EXCEPT !.state = "unknown", !.complete = "unknown"]
    BY <1>3 DEF Reconciled
  <2> HIDE DEF n
  <2>2. /\ n \in Record /\ n.state \in {"failed", "unknown"} /\ n.complete # "complete"
        /\ n.allow = r.allow /\ n.release = r.release /\ n.prov = r.prov /\ n.channel = r.channel
        /\ n.plan = r.plan /\ n.rollback = r.rollback
    BY <1>0, <2>1 DEF Record, Completes
  <2>3. Grounded(s, n, allowed, tenkai) /\ Proven(s, n, tenkai)
    BY <2>2, Ungraded
  <2>4. QED
    BY <2>2, <2>3 DEF n
<1>4. QED
  BY <1>1, <1>2, <1>3

\* What a record has of the stages.
Rest(n, r) ==
    /\ n.allow = r.allow /\ n.release = r.release /\ n.prov = r.prov /\ n.channel = r.channel
    /\ n.plan = r.plan /\ n.rollback = r.rollback

\* An execution that looks at what its command did.
LEMMA LookFacts ==
    ASSUME IInv, NEW s \in Sessions, exec[s].pc = "look"
    PROVE  LET x == exec[s] IN
           /\ x \in Executing /\ x.snap \in Record /\ x.ref \in Nat /\ tenkai \in TenkaiRecord
           /\ Typed /\ Grounded(s, x.snap, allowed, tenkai)
           /\ \/ x.action = "publish" /\ x.snap.state = "governance_allowed"
              \/ x.action = "promote" /\ x.snap.state = "published"
              \/ x.action = "plan" /\ x.snap.state = "promoted"
              \/ x.action = "apply" /\ x.snap.state = "applying"
              \/ x.action = "rollback" /\ x.snap.state \in {"completed", "failed", "unknown"}
           /\ x.action \in {"plan", "rollback"} => x.ref <= Len(tenkai.plans)
           /\ x.action = "rollback" /\ x.ref # 0 => tenkai.plans[x.ref].to = "older"
<1>1. /\ exec[s] \in Executing /\ tenkai \in TenkaiRecord /\ Typed
      /\ Grounded(s, exec[s].snap, allowed, tenkai) /\ Staged(s, exec[s], tenkai)
  BY DEF IInv, Typed, SessionInv
<1>2. QED
  BY <1>1 DEF Executing, Staged, Mutations, Available

\* A published release is there, and its record names it.
LEMMA PublishedIsGrounded ==
    ASSUME IInv, NEW s \in Sessions, exec[s].pc = "look", exec[s].action = "publish",
           NEW n, n = Published(s)
    PROVE  n \in Record /\ Grounded(s, n, allowed, tenkai) /\ Proven(s, n, tenkai)
<1> DEFINE x == exec[s]
           b == x.snap.release \/ x.ref # 0
           r == [x.snap EXCEPT !.release = b]
<1>1. /\ x.snap \in Record /\ Grounded(s, x.snap, allowed, tenkai) /\ x.snap.state = "governance_allowed"
  BY LookFacts
<1>2. b \in BOOLEAN
  OBVIOUS
<1> HIDE DEF b
<1>3. /\ r \in Record /\ r.release = b /\ r.allow = x.snap.allow /\ r.channel = x.snap.channel
      /\ r.plan = x.snap.plan /\ r.rollback = x.snap.rollback
  BY <1>1, <1>2 DEF Record
<1>4. "published" \in States /\ "publication_unknown" \in States
  BY DEF States
<1>5. CASE x.result = "succeeded" /\ x.ref # 0 /\ s \in tenkai.released /\ s \notin expired
  <2>1. n = [r EXCEPT !.state = "published", !.complete = "partial", !.prov = TRUE]
    BY <1>5 DEF Published, b
  <2> HIDE DEF r
  <2>2. /\ n \in Record /\ n.state = "published" /\ n.complete = "partial" /\ n.prov = TRUE
        /\ n.allow = r.allow /\ n.release = r.release /\ n.channel = r.channel
        /\ n.plan = r.plan /\ n.rollback = r.rollback
    BY <1>3, <1>4, <2>1 DEF Record
  <2>3. n.release = TRUE
    BY <1>3, <1>5, <2>2 DEF b
  <2>4. QED
    BY <1>1, <1>3, <1>5, <2>2, <2>3 DEF Grounded, Proven, AfterAllow, AfterPublish, Early
<1>6. CASE ~(x.result = "succeeded" /\ x.ref # 0 /\ s \in tenkai.released /\ s \notin expired)
  <2>1. n = [r EXCEPT !.state = "publication_unknown", !.complete = "unknown"]
    BY <1>6 DEF Published, b
  <2> HIDE DEF r
  <2>2. /\ n \in Record /\ n.state = "publication_unknown" /\ n.complete = "unknown"
        /\ n.allow = r.allow /\ n.channel = r.channel /\ n.plan = r.plan /\ n.rollback = r.rollback
    BY <1>3, <1>4, <2>1 DEF Record
  <2>3. QED
    BY <1>1, <1>3, <2>2 DEF Grounded, Proven, AfterAllow, AfterPublish, Early
<1>7. QED
  BY <1>5, <1>6

\* A promoted release is the head of its channel.
LEMMA PromotedIsGrounded ==
    ASSUME IInv, NEW s \in Sessions, exec[s].pc = "look", exec[s].action = "promote",
           NEW n, n = Promoted(s)
    PROVE  n \in Record /\ Grounded(s, n, allowed, tenkai) /\ Proven(s, n, tenkai)
<1> DEFINE x == exec[s]
           b == x.snap.channel \/ x.ref # 0
           r == [x.snap EXCEPT !.channel = b]
<1>1. /\ x.snap \in Record /\ Grounded(s, x.snap, allowed, tenkai) /\ x.snap.state = "published"
  BY LookFacts
<1>2. b \in BOOLEAN /\ (x.snap.channel => b) /\ (x.ref # 0 => b)
  OBVIOUS
<1> HIDE DEF b
<1>3. /\ r \in Record /\ r.channel = b /\ r.allow = x.snap.allow /\ r.release = x.snap.release
      /\ r.prov = x.snap.prov /\ r.plan = x.snap.plan /\ r.rollback = x.snap.rollback
      /\ r.complete = x.snap.complete
  BY <1>1, <1>2 DEF Record
<1>4. "promoted" \in States /\ "unknown" \in States
  BY DEF States
<1>5. CASE x.result = "succeeded" /\ x.ref # 0 /\ tenkai.head = s
  <2>1. n = [r EXCEPT !.state = "promoted"]
    BY <1>5 DEF Promoted, b
  <2> HIDE DEF r
  <2>2. n \in Record /\ n.state = "promoted" /\ n.complete = r.complete /\ Rest(n, r)
    BY <1>3, <1>4, <2>1 DEF Record, Rest
  <2>3. QED
    BY <1>1, <1>2, <1>3, <1>5, <2>2 DEF Grounded, Proven, AfterAllow, AfterPublish, Early, Rest
<1>6. CASE ~(x.result = "succeeded" /\ x.ref # 0 /\ tenkai.head = s)
  <2>1. n = [r EXCEPT !.state = "unknown", !.complete = "unknown"]
    BY <1>6 DEF Promoted, b
  <2> HIDE DEF r
  <2>2. n \in Record /\ n.state = "unknown" /\ n.complete = "unknown" /\ Rest(n, r)
    BY <1>3, <1>4, <2>1 DEF Record, Rest
  <2>3. QED
    BY <1>1, <1>2, <1>3, <2>2 DEF Grounded, Proven, AfterAllow, AfterPublish, Early, Rest
<1>7. QED
  BY <1>5, <1>6

\* A planned session names a plan of Tenkai.
LEMMA PlannedIsGrounded ==
    ASSUME IInv, NEW s \in Sessions, exec[s].pc = "look", exec[s].action = "plan",
           NEW n, n = Planned(s)
    PROVE  n \in Record /\ Grounded(s, n, allowed, tenkai) /\ Proven(s, n, tenkai)
<1> DEFINE x == exec[s]
           r == [x.snap EXCEPT !.plan = PlanOf(x)]
<1>1. /\ x.snap \in Record /\ Grounded(s, x.snap, allowed, tenkai) /\ x.snap.state = "promoted"
      /\ x.ref \in Nat /\ x.ref <= Len(tenkai.plans)
  BY LookFacts
<1>2. PlanOf(x) \in Nat /\ PlanOf(x) <= Len(tenkai.plans) /\ (x.ref # 0 => PlanOf(x) = x.ref)
  BY <1>1 DEF PlanOf, Record, Grounded
<1>3. /\ r \in Record /\ r.channel = x.snap.channel /\ r.allow = x.snap.allow /\ r.release = x.snap.release
      /\ r.prov = x.snap.prov /\ r.plan = PlanOf(x) /\ r.rollback = x.snap.rollback
      /\ r.complete = x.snap.complete
  BY <1>1, <1>2 DEF Record
<1>4. "planned" \in States /\ "unknown" \in States
  BY DEF States
<1>5. CASE x.result = "succeeded" /\ CandidateOnly(s, r, x.ref)
  <2>1. n = [r EXCEPT !.state = "planned"]
    BY <1>5 DEF Planned
  <2>2. x.ref # 0
    BY <1>5 DEF CandidateOnly
  <2> HIDE DEF r
  <2>3. n \in Record /\ n.state = "planned" /\ n.complete = r.complete /\ Rest(n, r)
    BY <1>3, <1>4, <2>1 DEF Record, Rest
  <2>4. QED
    BY <1>1, <1>2, <1>3, <2>2, <2>3 DEF Grounded, Proven, AfterAllow, AfterPublish, Early, Rest
<1>6. CASE ~(x.result = "succeeded" /\ CandidateOnly(s, r, x.ref))
  <2>1. n = [r EXCEPT !.state = "unknown", !.complete = "unknown"]
    BY <1>6 DEF Planned
  <2> HIDE DEF r
  <2>2. n \in Record /\ n.state = "unknown" /\ n.complete = "unknown" /\ Rest(n, r)
    BY <1>3, <1>4, <2>1 DEF Record, Rest
  <2>3. QED
    BY <1>1, <1>2, <1>3, <2>2 DEF Grounded, Proven, AfterAllow, AfterPublish, Early, Rest
<1>7. QED
  BY <1>5, <1>6

\* A recovered session names the plan that rolled it back.
LEMMA RecoveredIsGrounded ==
    ASSUME IInv, NEW s \in Sessions, exec[s].pc = "look", exec[s].action = "rollback",
           NEW n, n = Recovered(s)
    PROVE  n \in Record /\ Grounded(s, n, allowed, tenkai) /\ Proven(s, n, tenkai)
<1> DEFINE x == exec[s]
           r == [x.snap EXCEPT !.rollback = x.ref]
<1>1. /\ x.snap \in Record /\ Grounded(s, x.snap, allowed, tenkai)
      /\ x.snap.state \in {"completed", "failed", "unknown"}
      /\ x.ref \in Nat /\ x.ref <= Len(tenkai.plans)
      /\ x.ref # 0 => tenkai.plans[x.ref].to = "older"
  BY LookFacts
<1>3. /\ r \in Record /\ r.channel = x.snap.channel /\ r.allow = x.snap.allow /\ r.release = x.snap.release
      /\ r.prov = x.snap.prov /\ r.plan = x.snap.plan /\ r.rollback = x.ref
  BY <1>1 DEF Record
<1>4. "recovered" \in States /\ "unknown" \in States /\ "failed" \in States
      /\ Complete(s, r) \in Completes /\ "unknown" \in Completes
  BY DEF States, Complete, Completes
<1>5. CASE x.result = "succeeded" /\ RolledBack(s, x.ref)
  <2>1. n = [r EXCEPT !.state = "recovered", !.complete = Complete(s, r)]
    BY <1>5 DEF Recovered
  <2>2. x.ref # 0 /\ tenkai.plans[x.ref].state = "succeeded"
    BY <1>1, <1>5, LatestPlan DEF RolledBack
  <2> HIDE DEF r
  <2>3. n \in Record /\ n.state = "recovered" /\ Rest(n, r)
    BY <1>3, <1>4, <2>1 DEF Record, Rest, Completes
  <2>4. QED
    BY <1>1, <1>3, <2>2, <2>3 DEF Grounded, Proven, AfterAllow, AfterPublish, Early, Rest
<1>6. CASE ~(x.result = "succeeded" /\ RolledBack(s, x.ref))
  <2> DEFINE v == IF x.result = "unknown" THEN "unknown" ELSE "failed"
  <2>1. n = [r EXCEPT !.state = v, !.complete = "unknown"] /\ v \in {"unknown", "failed"}
    BY <1>6 DEF Recovered
  <2> HIDE DEF v
  <2> HIDE DEF r
  <2>2. n \in Record /\ n.state = v /\ n.complete = "unknown" /\ Rest(n, r)
    <3>1. v \in States
      BY <1>4, <2>1
    <3>2. QED
      BY <1>3, <2>1, <3>1 DEF Record, Rest
  <2>3. QED
    BY <1>1, <1>3, <2>1, <2>2 DEF Grounded, Proven, AfterAllow, AfterPublish, Early, Rest
<1>7. QED
  BY <1>5, <1>6

\* An inspection that fails keeps what the command reported.
UnlookedAt(x) ==
    [x.snap EXCEPT
       !.state = IF x.action = "publish" THEN "publication_unknown" ELSE "unknown",
       !.complete = "unknown",
       !.release = @ \/ (x.action = "publish" /\ x.ref # 0),
       !.channel = @ \/ (x.action = "promote" /\ x.ref # 0),
       !.plan = IF x.action = "plan" THEN PlanOf(x) ELSE @,
       !.rollback = IF x.action = "rollback" THEN x.ref ELSE @]

\* Its record is grounded in what the command did before.
LEMMA UnlookedAtIsGrounded ==
    ASSUME IInv, NEW s \in Sessions, exec[s].pc = "look", NEW n, n = UnlookedAt(exec[s])
    PROVE  n \in Record /\ Grounded(s, n, allowed, tenkai) /\ Proven(s, n, tenkai)
<1> DEFINE x == exec[s]
           r == x.snap
           v == IF x.action = "publish" THEN "publication_unknown" ELSE "unknown"
           b == r.release \/ (x.action = "publish" /\ x.ref # 0)
           c == r.channel \/ (x.action = "promote" /\ x.ref # 0)
           p == IF x.action = "plan" THEN PlanOf(x) ELSE r.plan
           k == IF x.action = "rollback" THEN x.ref ELSE r.rollback
<1>1. n = [r EXCEPT !.state = v, !.complete = "unknown", !.release = b, !.channel = c, !.plan = p, !.rollback = k]
  BY DEF UnlookedAt
<1>2. /\ r \in Record /\ Grounded(s, r, allowed, tenkai)
      /\ x.action = "publish" => r.state = "governance_allowed"
      /\ x.action # "publish" => r.state \in AfterPublish
      /\ x.action = "plan" => r.state = "promoted"
      /\ x.ref \in Nat /\ (x.action \in {"plan", "rollback"} => x.ref <= Len(tenkai.plans))
      /\ x.action = "rollback" /\ x.ref # 0 => tenkai.plans[x.ref].to = "older"
  BY LookFacts DEF AfterPublish
<1>0. PlanOf(x) \in Nat /\ (x.action = "plan" => PlanOf(x) <= Len(tenkai.plans))
  BY <1>2 DEF PlanOf, Record, Grounded
<1>3. /\ v \in States /\ b \in BOOLEAN /\ c \in BOOLEAN /\ p \in Nat /\ k \in Nat
  BY <1>0, <1>2 DEF States, Record
<1>4. /\ x.action = "publish" => v = "publication_unknown"
      /\ x.action # "publish" => v = "unknown" /\ b = r.release
      /\ r.channel => c
      /\ x.action = "plan" => p = PlanOf(x) /\ k = r.rollback
      /\ x.action = "rollback" => k = x.ref /\ p = r.plan
      /\ x.action \notin {"plan", "rollback"} => p = r.plan /\ k = r.rollback
  BY <1>2 DEF Record
<1> HIDE DEF v, b, c, p, k
<1>5. /\ n \in Record /\ n.state = v /\ n.complete = "unknown" /\ n.release = b /\ n.channel = c
      /\ n.plan = p /\ n.rollback = k /\ n.allow = r.allow /\ n.prov = r.prov
  BY <1>1, <1>2, <1>3 DEF Record
<1>6. CASE x.action = "publish"
  BY <1>2, <1>4, <1>5, <1>6 DEF Grounded, Proven, AfterAllow, AfterPublish, Early
<1>7. CASE x.action = "plan"
  <2>1. r.channel
    BY <1>2, <1>7 DEF Grounded
  <2>2. QED
    BY <1>0, <1>2, <1>4, <1>5, <1>7, <2>1 DEF Grounded, Proven, AfterAllow, AfterPublish, Early
<1>8. CASE x.action \notin {"publish", "plan"}
  BY <1>2, <1>4, <1>5, <1>8 DEF Grounded, Proven, AfterAllow, AfterPublish, Early
<1>9. QED
  BY <1>6, <1>7, <1>8

-----------------------------------------------------------------------------
(* The inductive invariant                                                 *)

\* An execution saves what its inspection, or a failed one, made of the record.
LEMMA LookStep ==
    ASSUME IInv, NEW s \in Sessions, Look(s)
    PROVE  IInv'
<1> DEFINE x == exec[s]
           made == CASE x.action = "publish" -> Published(s)
                     [] x.action = "promote" -> Promoted(s)
                     [] x.action = "plan" -> Planned(s)
                     [] x.action = "apply" -> Reconciled(s, x.snap, x.result)
                     [] x.action = "rollback" -> Recovered(s)
<1>1. exec[s].pc = "look"
  BY DEF Look, At
<1>2. unsettled' \subseteq Sessions /\ UNCHANGED <<tenkai, expired, allowed>>
  BY DEF Look, outside, IInv, Typed
<1>3. CASE Save(s, made)
  <2>1. made \in Record /\ Grounded(s, made, allowed, tenkai) /\ Proven(s, made, tenkai)
    <3>1. CASE x.action = "publish"
      BY <1>1, <3>1, PublishedIsGrounded
    <3>2. CASE x.action = "promote"
      BY <1>1, <3>2, PromotedIsGrounded
    <3>3. CASE x.action = "plan"
      BY <1>1, <3>3, PlannedIsGrounded
    <3>4. CASE x.action = "apply"
      <4>1. x.snap \in Record /\ Typed /\ Grounded(s, x.snap, allowed, tenkai) /\ x.snap.state \in AfterPublish
        BY <1>1, <3>4, LookFacts DEF AfterPublish
      <4>2. QED
        BY <3>4, <4>1, ReconciledIsGrounded
    <3>5. CASE x.action = "rollback"
      BY <1>1, <3>5, RecoveredIsGrounded
    <3>6. QED
      BY <1>1, <3>1, <3>2, <3>3, <3>4, <3>5, LookFacts
  <2> HIDE DEF made
  <2>2. QED
    BY <1>2, <1>3, <2>1, SaveStep DEF IInv, Typed
<1>4. CASE Save(s, UnlookedAt(x))
  BY <1>1, <1>2, <1>4, UnlookedAtIsGrounded, SaveStep DEF IInv, Typed
<1>5. QED
  BY <1>3, <1>4 DEF Look, UnlookedAt

\* Facts of an execution that is under way.
LEMMA ExecFacts ==
    ASSUME IInv, NEW s \in Sessions
    PROVE  /\ exec[s] \in Executing /\ exec[s].snap \in Record /\ exec[s].snap.state \in States
           /\ session[s] \in Record /\ tenkai \in TenkaiRecord
           /\ reader[s] \in Reading /\ reader[s].snap \in Record
           /\ exec \in [Sessions -> Executing]
           /\ SessionInv(s)
BY DEF IInv, Typed, Executing, Record, Reading

\* A record found stale is grounded.
LEMMA StaleIsGrounded ==
    ASSUME NEW s, NEW al, NEW tk, NEW r \in Record, Grounded(s, r, al, tk)
    PROVE  Stale(r) \in Record /\ Grounded(s, Stale(r), al, tk) /\ Proven(s, Stale(r), tk) /\ Stale(r).state = "stale"
<1> DEFINE n == Stale(r)
<1>1. "stale" \in States
  BY DEF States
<1>2. n \in Record /\ n.state = "stale" /\ n.complete = "stale" /\ Rest(n, r)
  BY <1>1 DEF Stale, Record, Rest
<1> HIDE DEF n
<1>3. Grounded(s, n, al, tk) /\ Proven(s, n, tk)
  BY <1>2 DEF Rest, Grounded, Proven, AfterAllow, AfterPublish, Early
<1>4. QED
  BY <1>2, <1>3 DEF n

\* A candidate that has changed makes the session stale, an action goes to its own stage.
LEMMA CheckFreshStep ==
    ASSUME IInv, NEW s \in Sessions, CheckFresh(s)
    PROVE  IInv'
<1> DEFINE x == exec[s]
<1>1. /\ x.pc = "fresh" /\ UNCHANGED <<tenkai, expired, allowed, unsettled>> /\ unsettled' \subseteq Sessions
      /\ allowed' \subseteq Sessions
  BY DEF CheckFresh, At, outside, IInv, Typed
<1>2. CASE Put(s, Stale(x.snap)) /\ Outdate(s) /\ Leave(s)
  <2>1. Stale(x.snap) \in Record /\ Grounded(s, Stale(x.snap), allowed, tenkai) /\ Proven(s, Stale(x.snap), tenkai)
    BY ExecFacts, StaleIsGrounded DEF SessionInv
  <2>2. QED
    BY <1>1, <1>2, <2>1, SaveStep DEF Save
<1>3. CASE Leave(s) /\ UNCHANGED <<session, previews, reader>>
  BY <1>1, <1>3, LeaveStep
<1>4. ASSUME NEW p, Goto(s, p), UNCHANGED <<session, previews, reader>>,
             p = CASE x.action = "evaluate" -> "evaluate"
                   [] x.action = "apply" -> "apply"
                   [] x.action = "reconcile" -> "reconcile"
                   [] OTHER -> "call"
      PROVE  IInv'
  <2>1. /\ x \in Executing /\ x.action \in Actions /\ Available(x.action, x.snap)
    BY <1>1, ExecFacts DEF SessionInv, Staged, Executing
  <2>2. \/ p \in {"evaluate", "apply", "reconcile"} /\ p = x.action
        \/ p = "call" /\ x.action \in Mutations \ {"apply"}
    BY <1>4, <2>1 DEF Actions, Mutations
  <2> DEFINE y == [x EXCEPT !.pc = p]
  <2>3. y \in Executing /\ y.pc = p /\ y.action = x.action /\ y.snap = x.snap /\ y.ref = x.ref
    BY <2>1, <2>2 DEF Executing, Pcs
  <2>4. exec' = [exec EXCEPT ![s] = y]
    BY <1>4, ExecFacts DEF Goto
  <2> HIDE DEF y
  <2>5. Staged(s, y, tenkai)
    <3>1. y.ref = 0
      BY <1>1, <2>3, ExecFacts DEF SessionInv, Staged
    <3>2. QED
      BY <2>1, <2>2, <2>3, <3>1 DEF Staged
  <2>6. QED
    BY <1>1, <1>4, <2>3, <2>4, <2>5, GoStep
<1>5. QED
  BY <1>1, <1>2, <1>3, <1>4 DEF CheckFresh

\* Chisei's decision is recorded, and is allowed only when Chisei allowed it.
LEMMA EvaluateStep ==
    ASSUME IInv, NEW s \in Sessions, Evaluate(s)
    PROVE  IInv'
<1> DEFINE r == exec[s].snap
<1>1. /\ exec[s].pc = "evaluate" /\ UNCHANGED <<tenkai, expired, unsettled>> /\ unsettled' \subseteq Sessions
  BY DEF Evaluate, At, IInv, Typed
<1>2. /\ r \in Record /\ Grounded(s, r, allowed, tenkai) /\ tenkai \in TenkaiRecord
      /\ r.state \in {"candidate_ready", "governance_denied", "governance_unavailable", "governance_unknown"}
  BY <1>1, ExecFacts DEF SessionInv, Staged, Available
<1>3. r.release = FALSE /\ allowed \subseteq Sessions
  BY <1>2 DEF Grounded, Early, Record, IInv, Typed
<1>4. ASSUME NEW d \in {"allow", "deny", "unavailable", "unknown"}, NEW fresh \in BOOLEAN,
             allowed' = IF d = "allow" /\ fresh THEN allowed \cup {s} ELSE allowed,
             Save(s, [r EXCEPT !.state = Decision(d, fresh), !.allow = (d = "allow" /\ fresh),
                         !.complete = IF fresh THEN "partial" ELSE "stale"])
      PROVE  IInv'
  <2> DEFINE v == Decision(d, fresh)
             a == d = "allow" /\ fresh
             c == IF fresh THEN "partial" ELSE "stale"
             n == [r EXCEPT !.state = v, !.allow = a, !.complete = c]
  <2>1. /\ v \in Early /\ v # "candidate_ready" /\ v \in States /\ a \in BOOLEAN
        /\ c \in {"partial", "stale"}
        /\ v = "governance_allowed" => a /\ s \in allowed'
    BY <1>4 DEF Decision, Early, States
  <2>2. allowed \subseteq allowed' /\ allowed' \subseteq Sessions
    BY <1>3, <1>4
  <2>3. n \in Record /\ n.state = v /\ n.allow = a /\ n.complete = c /\ n.release = r.release
        /\ n.channel = r.channel /\ n.plan = r.plan /\ n.rollback = r.rollback
    <3> HIDE DEF v, a, c
    <3>1. QED
      BY <1>2, <2>1 DEF Record
  <2> HIDE DEF v, a, c
  <2>4. Grounded(s, n, allowed', tenkai) /\ Proven(s, n, tenkai)
    BY <1>2, <1>3, <2>1, <2>3 DEF Grounded, Proven, AfterAllow, AfterPublish, Early
  <2>5. Save(s, n)
    BY <1>4 DEF v, a, c
  <2> HIDE DEF n
  <2>6. QED
    BY <1>1, <2>2, <2>3, <2>4, <2>5, SaveStep
<1>5. ASSUME NEW v \in {"governance_unknown", "governance_unavailable"}, UNCHANGED allowed,
             Save(s, [r EXCEPT !.state = v, !.complete = "unknown"])
      PROVE  IInv'
  <2> DEFINE n == [r EXCEPT !.state = v, !.complete = "unknown"]
  <2>1. v \in States
    BY DEF States
  <2>2. n \in Record /\ n.state = v /\ n.complete = "unknown" /\ Rest(n, r)
    BY <1>2, <2>1 DEF Record, Rest
  <2>3. Grounded(s, n, allowed', tenkai) /\ Proven(s, n, tenkai)
    BY <1>2, <1>3, <1>5, <2>2 DEF Grounded, Proven, AfterAllow, AfterPublish, Early, Rest
  <2> HIDE DEF n
  <2>4. QED
    BY <1>1, <1>3, <1>5, <2>2, <2>3, SaveStep DEF n
<1>6. QED
  BY <1>4, <1>5 DEF Evaluate

\* A session is applying only a plan of one step to its own candidate.
LEMMA ApplyingStep ==
    ASSUME IInv, NEW s \in Sessions, Applying(s)
    PROVE  IInv'
<1> DEFINE x == exec[s]
           r == [x.snap EXCEPT !.state = "applying"]
<1>1. /\ x.pc = "apply" /\ UNCHANGED <<tenkai, expired, allowed, unsettled>> /\ unsettled' \subseteq Sessions
      /\ allowed' \subseteq Sessions
  BY DEF Applying, At, outside, IInv, Typed
<1>2. /\ x \in Executing /\ x.snap \in Record /\ Grounded(s, x.snap, allowed, tenkai) /\ x.snap.state = "planned"
      /\ x.action = "apply"
  BY <1>1, ExecFacts DEF SessionInv, Staged, Available
<1>3. "applying" \in States
  BY DEF States
<1>4. r \in Record /\ r.state = "applying" /\ r.complete = x.snap.complete /\ Rest(r, x.snap)
  BY <1>2, <1>3 DEF Record, Rest
<1>5. Grounded(s, r, allowed, tenkai) /\ Proven(s, r, tenkai)
  BY <1>2, <1>4 DEF Grounded, Proven, AfterAllow, AfterPublish, Early, Rest
<1>6. CASE CandidateOnly(s, r, r.plan)
  <2> DEFINE y == [x EXCEPT !.pc = "call", !.snap = r]
  <2>1. Put(s, r) /\ Outdate(s) /\ exec' = [exec EXCEPT ![s].pc = "call", ![s].snap = r]
    BY <1>6 DEF Applying
  <2>2. tenkai.plans[r.plan].only /\ tenkai.plans[r.plan].to = s
    <3>1. r.plan \in Nat
      BY <1>4 DEF Record
    <3>2. QED
      BY <1>6, <3>1, LatestPlan DEF CandidateOnly
  <2> HIDE DEF r
  <2>3. y \in Executing /\ y.pc = "call" /\ y.snap = r /\ y.action = "apply" /\ y.ref = x.ref
    BY <1>2, <1>4 DEF Executing, Pcs
  <2>4. exec' = [exec EXCEPT ![s] = y]
    BY <2>1, ExecFacts
  <2> HIDE DEF y
  <2>5. Staged(s, y, tenkai) /\ Holds(y, r)
    <3>1. y.ref = 0
      BY <1>1, <2>3, ExecFacts DEF SessionInv, Staged
    <3>2. QED
      BY <1>4, <2>2, <2>3, <3>1 DEF Staged, Holds, Mutations
  <2>6. PICK z \in Reading : reader' = [reader EXCEPT ![s] = z] /\ ~z.bound
                             /\ Grounded(s, z.snap, allowed', tenkai)
    BY <1>1, <2>1, Outdated
  <2>7. QED
    BY <1>1, <1>4, <1>5, <2>1, <2>3, <2>4, <2>5, <2>6, PutStep
<1>7. CASE ~CandidateOnly(s, r, r.plan)
  BY <1>1, <1>7, LeaveStep DEF Applying
<1>8. QED
  BY <1>6, <1>7

\* A command has its effect or not, and the execution goes on to look.
LEMMA CallStep ==
    ASSUME IInv, NEW s \in Sessions, Call(s)
    PROVE  IInv'
<1> DEFINE x == exec[s]
<1>1. /\ x.pc = "call" /\ UNCHANGED <<session, previews, reader, allowed, expired>> /\ unsettled' \subseteq Sessions
  BY DEF Call, At, outside, IInv, Typed
<1>2. /\ x \in Executing /\ x.snap \in Record /\ tenkai \in TenkaiRecord /\ SessionInv(s)
      /\ Len(tenkai.plans) \in Nat /\ Len(tenkai.plans) <= MaxPlans
      /\ x.action \in Mutations /\ (x.action = "apply" => x.snap.state = "applying")
      /\ (x.action # "apply" => Available(x.action, x.snap))
  BY <1>1, ExecFacts DEF SessionInv, Staged, IInv, Typed, TenkaiRecord
<1>3. \/ tenkai' \in Effects(s, x.action) /\ \E result \in Outcomes, ref \in {0, Ref(x.action)} :
            exec' = [exec EXCEPT ![s] = [x EXCEPT !.pc = "look", !.result = result, !.ref = ref]]
      \/ tenkai' = tenkai /\ \E result \in Outcomes :
            exec' = [exec EXCEPT ![s] = [x EXCEPT !.pc = "look", !.result = result]]
  BY DEF Call
<1>4. /\ tenkai' \in TenkaiRecord /\ Len(tenkai'.plans) <= MaxPlans /\ Len(tenkai'.plans) \in Nat
      /\ Grows(allowed, tenkai, allowed, tenkai')
      /\ \A q \in Sessions : q # s \/ x.action # "apply" => Kept(q, tenkai, tenkai')
  <2>1. CASE tenkai' \in Effects(s, x.action)
    BY <1>1, <2>1, EffectsAreOwn DEF TenkaiRecord
  <2>2. CASE tenkai' = tenkai
    BY <1>2, <2>2 DEF Grows, Kept, TenkaiRecord
  <2>3. QED
    BY <1>3, <2>1, <2>2
<1>5. \A q \in Sessions : q # s \/ session[s].state \in {"completed", "recovered"} => Kept(q, tenkai, tenkai')
  <2>1. x.action = "apply" => session[s].state \in {"applying", "stale", "evicted"}
    BY <1>1, <1>2 DEF SessionInv, Holds
  <2>2. QED
    BY <1>4, <2>1
<1>6. Grounded(s, x.snap, allowed, tenkai')
  BY <1>2, <1>4, GroundedGrows DEF SessionInv
<1>7. ASSUME NEW y \in Executing, exec' = [exec EXCEPT ![s] = y], y.pc = "look", y.snap = x.snap,
             y.action = x.action,
             x.action \in {"plan", "rollback"} => y.ref <= Len(tenkai'.plans),
             x.action = "rollback" /\ y.ref # 0 => tenkai'.plans[y.ref].to = "older"
      PROVE  IInv'
  <2>1. Staged(s, y, tenkai')
    BY <1>2, <1>7 DEF Staged
  <2>2. Holds(y, session[s])
    BY <1>1, <1>2, <1>7 DEF SessionInv, Holds
  <2>3. QED
    BY <1>1, <1>4, <1>5, <1>6, <1>7, <2>1, <2>2, ExecStep
<1>8. ASSUME tenkai' \in Effects(s, x.action), NEW result \in Outcomes,
             NEW ref \in {0, Ref(x.action)},
             exec' = [exec EXCEPT ![s] = [x EXCEPT !.pc = "look", !.result = result, !.ref = ref]]
      PROVE  IInv'
  <2> DEFINE y == [x EXCEPT !.pc = "look", !.result = result, !.ref = ref]
  <2>1. ref \in Nat /\ (x.action \in {"plan", "rollback"} => ref \in {0, Len(tenkai'.plans)})
    BY <1>4, <1>8 DEF Ref
  <2>2. y \in Executing /\ y.pc = "look" /\ y.snap = x.snap /\ y.action = x.action /\ y.ref = ref
    BY <1>2, <2>1 DEF Executing, Pcs
  <2>3. x.action = "rollback" => tenkai'.plans[Len(tenkai'.plans)].to = "older"
    BY <1>1, <1>8, EffectsAreOwn
  <2> HIDE DEF y
  <2>4. QED
    <3>1. x.action \in {"plan", "rollback"} => y.ref <= Len(tenkai'.plans)
      BY <1>4, <2>1, <2>2
    <3>2. x.action = "rollback" /\ y.ref # 0 => tenkai'.plans[y.ref].to = "older"
      BY <2>1, <2>2, <2>3
    <3>3. exec' = [exec EXCEPT ![s] = y]
      BY <1>8 DEF y
    <3>4. QED
      BY <1>7, <2>2, <3>1, <3>2, <3>3
<1>9. ASSUME tenkai' = tenkai, NEW result \in Outcomes,
             exec' = [exec EXCEPT ![s] = [x EXCEPT !.pc = "look", !.result = result]]
      PROVE  IInv'
  <2> DEFINE y == [x EXCEPT !.pc = "look", !.result = result]
  <2>1. y \in Executing /\ y.pc = "look" /\ y.snap = x.snap /\ y.action = x.action /\ y.ref = x.ref
    BY <1>2 DEF Executing, Pcs
  <2>2. x.ref = 0
    BY <1>1, <1>2 DEF SessionInv, Staged
  <2> HIDE DEF y
  <2>3. exec' = [exec EXCEPT ![s] = y]
    BY <1>9 DEF y
  <2>4. QED
    <3>1. y.ref = 0 /\ y.ref <= Len(tenkai'.plans)
      BY <1>4, <2>1, <2>2
    <3>2. QED
      BY <1>7, <2>1, <2>3, <3>1
<1>10. QED
  BY <1>3, <1>8, <1>9

\* An execution that throws leaves the session as its command found it.
LEMMA ThrowStep ==
    ASSUME IInv, NEW s \in Sessions, Throw(s)
    PROVE  IInv'
<1>1. /\ exec[s].pc # "idle" /\ UNCHANGED <<session, previews, reader, allowed, expired, unsettled>>
      /\ unsettled' \subseteq Sessions /\ Leave(s)
  BY DEF Throw, At, outside, IInv, Typed
<1>2. CASE tenkai' = tenkai
  BY <1>1, <1>2, LeaveStep
<1>3. CASE exec[s].pc = "call" /\ tenkai' \in Effects(s, exec[s].action)
  <2>1. /\ tenkai' \in TenkaiRecord /\ Len(tenkai'.plans) <= MaxPlans
        /\ Grows(allowed, tenkai, allowed, tenkai')
        /\ \A q \in Sessions : q # s \/ exec[s].action # "apply" => Kept(q, tenkai, tenkai')
    BY <1>3, EffectsAreOwn
  <2>2. exec[s].action = "apply" => session[s].state \in {"applying", "stale", "evicted"}
    BY <1>3, ExecFacts DEF SessionInv, Staged, Holds
  <2>3. \A q \in Sessions : q # s \/ session[s].state \in {"completed", "recovered"} => Kept(q, tenkai, tenkai')
    BY <2>1, <2>2
  <2>4. QED
    BY <1>1, <2>1, <2>3, Nothings, ExecStep DEF Leave, Holds
<1>4. tenkai' = tenkai \/ (exec[s].pc = "call" /\ tenkai' \in Effects(s, exec[s].action))
  BY DEF Throw, At
<1>5. QED
  BY <1>2, <1>3, <1>4

\* A reconciliation records what Tenkai shows.
LEMMA ReconcileStep ==
    ASSUME IInv, NEW s \in Sessions, Reconcile(s)
    PROVE  IInv'
<1> DEFINE x == exec[s]
           r == x.snap
           n == Reconciled(s, r, "none")
<1>1. /\ x.pc = "reconcile" /\ UNCHANGED <<tenkai, expired, allowed>> /\ unsettled' \subseteq Sessions
      /\ allowed' \subseteq Sessions
  BY DEF Reconcile, At, outside, IInv, Typed
<1>2. /\ x \in Executing /\ r \in Record /\ Grounded(s, r, allowed, tenkai) /\ Typed
      /\ r.state \in AfterPublish \cup {"publication_unknown"}
      /\ Staged(s, x, tenkai)
  <2>1. /\ x \in Executing /\ r \in Record /\ Grounded(s, r, allowed, tenkai) /\ Typed
        /\ Staged(s, x, tenkai)
    BY ExecFacts DEF SessionInv, IInv
  <2>2. x.action = "reconcile" /\ Available("reconcile", r)
    BY <1>1, <2>1 DEF Staged
  <2>3. r.state \in AfterPublish \cup {"publication_unknown"}
    BY <2>2 DEF Available, AfterPublish
  <2>4. QED
    BY <2>1, <2>3
<1>3. CASE (r.release \/ r.state = "publication_unknown") /\ s \notin tenkai.released
  BY <1>1, <1>3, LeaveStep DEF Reconcile
<1>4. CASE r.state = "publication_unknown" /\ s \in tenkai.released
  <2> DEFINE c == IF s \in expired THEN "stale" ELSE "partial"
             m == [r EXCEPT !.state = "published", !.release = TRUE, !.prov = TRUE, !.complete = c]
  <2>1. Save(s, m)
    BY <1>4 DEF Reconcile
  <2>2. "published" \in States /\ c \in {"stale", "partial"}
    BY DEF States
  <2> HIDE DEF c
  <2>3. /\ m \in Record /\ m.state = "published" /\ m.release = TRUE /\ m.prov = TRUE /\ m.complete = c
        /\ m.allow = r.allow /\ m.channel = r.channel /\ m.plan = r.plan /\ m.rollback = r.rollback
    BY <1>2, <2>2 DEF Record
  <2> HIDE DEF m
  <2>4. Grounded(s, m, allowed, tenkai) /\ Proven(s, m, tenkai)
    BY <1>2, <1>4, <2>2, <2>3 DEF Grounded, Proven, AfterAllow, AfterPublish, Early
  <2>5. QED
    BY <1>1, <2>1, <2>3, <2>4, SaveStep
<1>5. CASE r.state # "publication_unknown" /\ ~((r.release \/ r.state = "publication_unknown") /\ s \notin tenkai.released)
  <2>1. /\ n \in Record /\ Grounded(s, n, allowed, tenkai) /\ Proven(s, n, tenkai)
        /\ n.state \in {"recovered", "completed", "failed", "unknown"}
        /\ n.channel = r.channel /\ n.plan = r.plan
    BY <1>2, <1>5, ReconciledIsGrounded
  <2>2. /\ Put(s, n) /\ Outdate(s)
        /\ IF n.state # "unknown" THEN Leave(s)
           ELSE exec' = [exec EXCEPT ![s].pc = "settle", ![s].snap = n, ![s].result = StageShown(s, r)]
    BY <1>5 DEF Reconcile
  <2> HIDE DEF n
  <2>3. CASE n.state # "unknown"
    BY <1>1, <2>1, <2>2, <2>3, SaveStep DEF Save
  <2>4. CASE n.state = "unknown"
    <3> DEFINE y == [x EXCEPT !.pc = "settle", !.snap = n, !.result = StageShown(s, r)]
    <3>0. /\ StageShown(s, r) \in {"none", "planned", "promoted"}
          /\ StageShown(s, r) = "planned" => n.plan # 0
          /\ StageShown(s, r) = "promoted" => n.channel
      BY <2>1 DEF StageShown, CandidateOnly
    <3>1. y \in Executing /\ y.pc = "settle" /\ y.snap = n /\ y.ref = x.ref /\ y.result = StageShown(s, r)
      BY <1>2, <2>1, <3>0 DEF Executing, Pcs
    <3>2. exec' = [exec EXCEPT ![s] = y]
      BY <2>2, <2>4, ExecFacts
    <3> HIDE DEF y
    <3>3. Staged(s, y, tenkai) /\ Holds(y, n)
      BY <1>1, <1>2, <2>4, <3>0, <3>1 DEF Staged, Holds
    <3>4. PICK z \in Reading : reader' = [reader EXCEPT ![s] = z] /\ ~z.bound
                               /\ Grounded(s, z.snap, allowed', tenkai)
      BY <1>1, <2>2, Outdated
    <3>5. QED
      BY <1>1, <2>1, <2>2, <3>1, <3>2, <3>3, <3>4, PutStep
  <2>5. QED
    BY <2>3, <2>4
<1>6. QED
  BY <1>3, <1>4, <1>5

\* A session that is not terminal goes back to a stage that Tenkai still shows.
LEMMA SettleStep ==
    ASSUME IInv, NEW s \in Sessions, Settle(s)
    PROVE  IInv'
<1> DEFINE r == exec[s].snap
           v == exec[s].result
           c == IF Fresh(s, r) THEN "partial" ELSE "stale"
<1>1. /\ exec[s].pc = "settle" /\ UNCHANGED <<tenkai, expired, allowed, unsettled>> /\ unsettled' \subseteq Sessions
      /\ allowed' \subseteq Sessions
  BY DEF Settle, At, outside, IInv, Typed
<1>2. /\ r \in Record /\ Grounded(s, r, allowed, tenkai) /\ r.state = "unknown"
      /\ v \in {"none", "planned", "promoted"} /\ (v = "planned" => r.plan # 0) /\ (v = "promoted" => r.channel)
  BY <1>1, ExecFacts DEF SessionInv, Staged
<1>3. c \in {"partial", "stale"} /\ "planned" \in States /\ "promoted" \in States
  BY DEF States
<1>4. CASE v # "none"
  <2> DEFINE n == [r EXCEPT !.state = v, !.complete = c]
  <2>1. Save(s, n)
    BY <1>4 DEF Settle
  <2> HIDE DEF c
  <2>2. n \in Record /\ n.state = v /\ n.complete = c /\ Rest(n, r)
    BY <1>2, <1>3, <1>4 DEF Record, Rest
  <2> HIDE DEF n
  <2>3. Grounded(s, n, allowed, tenkai) /\ Proven(s, n, tenkai)
    BY <1>2, <1>3, <1>4, <2>2 DEF Rest, Grounded, Proven, AfterAllow, AfterPublish, Early
  <2>4. QED
    BY <1>1, <2>1, <2>2, <2>3, SaveStep
<1>5. CASE v = "none"
  BY <1>1, <1>5, LeaveStep DEF Settle, GiveUp
<1>6. QED
  BY <1>4, <1>5

\* A session is prepared once, before anything runs for it.
LEMMA PrepareStep ==
    ASSUME IInv, NEW s \in Sessions, Prepare(s)
    PROVE  IInv'
<1> DEFINE n == [Unprepared EXCEPT !.state = "candidate_ready"]
<1>1. /\ session[s].state = "none" /\ Put(s, n) /\ UNCHANGED <<exec, reader, tenkai, unsettled, expired, allowed>>
      /\ unsettled' \subseteq Sessions /\ allowed' \subseteq Sessions
  BY DEF Prepare, outside, IInv, Typed
<1>2. n \in Record /\ n.state = "candidate_ready" /\ n.release = FALSE /\ n.plan = 0 /\ n.rollback = 0
      /\ n.complete = "partial"
  BY DEF Unprepared, Record, States
<1> HIDE DEF n
<1>3. Grounded(s, n, allowed, tenkai) /\ Proven(s, n, tenkai)
  <2>1. Len(tenkai.plans) \in Nat
    BY ExecFacts DEF TenkaiRecord
  <2>2. QED
    BY <1>2, <2>1 DEF Grounded, Proven, AfterAllow, AfterPublish, Early
<1>4. ~reader[s].bound
  BY <1>1, ExecFacts DEF SessionInv, Offered
<1>5. exec[s].pc = "idle"
  <2>1. exec[s].pc # "idle" => exec[s].snap.state = "none"
    BY <1>1, ExecFacts DEF SessionInv, Holds
  <2>2. exec[s].pc \in Pcs
    BY ExecFacts DEF Executing
  <2>3. QED
    BY <2>1, <2>2, ExecFacts DEF SessionInv, Staged, Available, Actions, Executing, Mutations, Pcs
<1>6. exec' = [exec EXCEPT ![s] = exec[s]] /\ reader' = [reader EXCEPT ![s] = reader[s]]
  BY <1>1, ExecFacts DEF IInv, Typed
<1>7. Holds(exec[s], n)
  BY <1>5 DEF Holds
<1>8. QED
  BY <1>1, <1>2, <1>3, <1>4, <1>6, <1>7, ExecFacts, PutStep DEF SessionInv

\* Previews, readers and an execution of a session change, its record does not.
LEMMA PreviewStep ==
    ASSUME IInv, NEW s \in Sessions, NEW x \in Executing, NEW y \in Reading, NEW ps \in SUBSET Actions,
           exec' = [exec EXCEPT ![s] = x], reader' = [reader EXCEPT ![s] = y],
           previews' = [previews EXCEPT ![s] = ps],
           UNCHANGED <<session, tenkai, unsettled, allowed, expired>>,
           Grounded(s, x.snap, allowed, tenkai), Staged(s, x, tenkai), Holds(x, session[s]),
           Grounded(s, y.snap, allowed, tenkai), Offered(ps, y, session[s])
    PROVE  IInv'
<1>1. Typed /\ tenkai \in TenkaiRecord
  BY DEF IInv, Typed
<1>2. previews'[s] = ps /\ exec'[s] = x /\ reader'[s] = y
      /\ previews' \in [Sessions -> SUBSET Actions] /\ exec' \in [Sessions -> Executing]
      /\ reader' \in [Sessions -> Reading]
  BY <1>1 DEF Typed
<1>3. Typed'
  BY <1>1, <1>2 DEF Typed
<1>4. Grows(allowed, tenkai, allowed', tenkai') /\ \A q : Kept(q, tenkai, tenkai')
  BY <1>1 DEF Grows, Kept, TenkaiRecord
<1>5. \A q \in Sessions \ {s} : SessionInv(q)'
  BY <1>1, <1>3, <1>4, Untouched DEF IInv, Typed
<1>6. SessionInv(s)'
  BY <1>2, ExecFacts DEF SessionInv
<1>7. QED
  BY <1>3, <1>5, <1>6 DEF IInv

\* Something happens outside, in no session.
LEMMA OutsideStep ==
    ASSUME IInv, UNCHANGED <<session, previews, exec, reader, allowed, unsettled>>,
           expired' \subseteq Sessions, tenkai' \in TenkaiRecord, Len(tenkai'.plans) <= MaxPlans,
           Grows(allowed, tenkai, allowed, tenkai'), \A q \in Sessions : Kept(q, tenkai, tenkai')
    PROVE  IInv'
<1>1. Typed /\ Typed'
  BY DEF IInv, Typed
<1>2. \A q \in Sessions : SessionInv(q)'
  BY <1>1, Untouched DEF IInv
<1>3. QED
  BY <1>1, <1>2 DEF IInv

\* A record is read for a preview or a receipt.
LEMMA ReadStep ==
    ASSUME IInv, NEW s \in Sessions, Read(s)
    PROVE  IInv'
<1> DEFINE y == [on |-> TRUE, snap |-> session[s], bound |-> TRUE]
<1>1. /\ session[s].state \notin {"none", "evicted"} /\ reader' = [reader EXCEPT ![s] = y]
      /\ UNCHANGED <<session, previews, exec, tenkai, unsettled, allowed, expired>>
  BY DEF Read, Exists, outside
<1>2. /\ y \in Reading /\ y.snap = session[s]
      /\ previews \in [Sessions -> SUBSET Actions] /\ exec \in [Sessions -> Executing]
  BY ExecFacts DEF Reading, IInv, Typed
<1>3. exec' = [exec EXCEPT ![s] = exec[s]] /\ previews' = [previews EXCEPT ![s] = previews[s]]
      /\ previews[s] \in SUBSET Actions /\ exec[s] \in Executing
  BY <1>1, <1>2
<1> HIDE DEF y
<1>4. /\ Offered(previews[s], y, session[s]) /\ Grounded(s, y.snap, allowed, tenkai)
      /\ Grounded(s, exec[s].snap, allowed, tenkai) /\ Staged(s, exec[s], tenkai) /\ Holds(exec[s], session[s])
  BY <1>1, <1>2, ExecFacts DEF SessionInv, Offered
<1>5. QED
  BY <1>1, <1>2, <1>3, <1>4, PreviewStep

\* A preview or a receipt is made of the record that was read.
LEMMA JudgeStep ==
    ASSUME IInv, NEW s \in Sessions, Judge(s)
    PROVE  IInv'
<1> DEFINE x == reader[s]
<1>1. /\ reader' = [reader EXCEPT ![s] = Unread]
      /\ UNCHANGED <<exec, tenkai, unsettled, allowed, expired>>
      /\ \/ Put(s, Stale(x.snap))
         \/ UNCHANGED <<session, previews>>
         \/ /\ x.bound /\ UNCHANGED session
            /\ \E a \in Actions : Available(a, x.snap) /\ previews' = [previews EXCEPT ![s] = @ \cup {a}]
  BY DEF Judge, outside, Previewable
<1>2. /\ previews \in [Sessions -> SUBSET Actions] /\ exec \in [Sessions -> Executing]
      /\ exec[s] \in Executing /\ x.snap \in Record /\ tenkai \in TenkaiRecord
      /\ unsettled \subseteq Sessions /\ allowed \subseteq Sessions
  BY ExecFacts DEF IInv, Typed
<1>3. /\ exec' = [exec EXCEPT ![s] = exec[s]]
      /\ Grounded(s, exec[s].snap, allowed, tenkai) /\ Staged(s, exec[s], tenkai) /\ Holds(exec[s], session[s])
      /\ Unread \in Reading /\ ~Unread.bound /\ Grounded(s, Unread.snap, allowed, tenkai)
  BY <1>1, <1>2, ExecFacts, Nothings DEF SessionInv
<1>4. CASE Put(s, Stale(x.snap))
  <2>1. /\ Stale(x.snap) \in Record /\ Grounded(s, Stale(x.snap), allowed, tenkai)
        /\ Proven(s, Stale(x.snap), tenkai) /\ Stale(x.snap).state = "stale"
    BY ExecFacts, StaleIsGrounded DEF SessionInv
  <2>2. Holds(exec[s], Stale(x.snap))
    BY <2>1 DEF Holds
  <2>3. QED
    BY <1>1, <1>2, <1>3, <1>4, <2>1, <2>2, PutStep
<1>5. CASE UNCHANGED <<session, previews>>
  <2>1. previews' = [previews EXCEPT ![s] = previews[s]] /\ previews[s] \in SUBSET Actions
    BY <1>2, <1>5
  <2>2. Offered(previews[s], Unread, session[s])
    BY <1>3, ExecFacts DEF SessionInv, Offered
  <2>3. QED
    BY <1>1, <1>2, <1>3, <1>5, <2>1, <2>2, PreviewStep
<1>6. ASSUME NEW a \in Actions, x.bound, UNCHANGED session, Available(a, x.snap),
             previews' = [previews EXCEPT ![s] = @ \cup {a}]
      PROVE  IInv'
  <2>1. /\ previews' = [previews EXCEPT ![s] = previews[s] \cup {a}]
        /\ previews[s] \cup {a} \in SUBSET Actions
    BY <1>2, <1>6
  <2>2. Offered(previews[s] \cup {a}, Unread, session[s])
    BY <1>3, <1>6, ExecFacts DEF SessionInv, Offered
  <2>3. QED
    BY <1>1, <1>2, <1>3, <1>6, <2>1, <2>2, PreviewStep
<1>7. QED
  BY <1>1, <1>4, <1>5, <1>6

\* A preview is used up by an execution of what it offered.
LEMMA EnterStep ==
    ASSUME IInv, NEW s \in Sessions, NEW action \in Actions, Enter(s, action)
    PROVE  IInv'
<1> DEFINE x == [Idle EXCEPT !.pc = "fresh", !.action = action, !.snap = session[s]]
<1>1. /\ action \in previews[s] /\ previews' = [previews EXCEPT ![s] = previews[s] \ {action}]
      /\ exec' = [exec EXCEPT ![s] = x]
      /\ UNCHANGED <<session, reader, tenkai, unsettled, allowed, expired>>
  BY DEF Enter, outside
<1>2. /\ previews[s] \ {action} \in SUBSET Actions /\ reader \in [Sessions -> Reading]
      /\ reader' = [reader EXCEPT ![s] = reader[s]] /\ reader[s] \in Reading
  BY <1>1 DEF IInv, Typed
<1>3. /\ x \in Executing /\ x.pc = "fresh" /\ x.action = action /\ x.snap = session[s] /\ x.ref = 0
  BY ExecFacts DEF Idle, Executing, Pcs
<1> HIDE DEF x
<1>4. Available(action, session[s])
  BY <1>1, ExecFacts DEF SessionInv, Offered
<1>5. Staged(s, x, tenkai) /\ Holds(x, session[s])
  BY <1>3, <1>4 DEF Staged, Holds
<1>6. /\ Offered(previews[s] \ {action}, reader[s], session[s])
      /\ Grounded(s, x.snap, allowed, tenkai) /\ Grounded(s, reader[s].snap, allowed, tenkai)
  BY <1>3, ExecFacts DEF SessionInv, Offered
<1>7. QED
  BY <1>1, <1>2, <1>3, <1>5, <1>6, PreviewStep

\* A session that leaves the ledger takes its previews along.
LEMMA EvictStep ==
    ASSUME IInv, NEW s \in Sessions, Evict(s)
    PROVE  IInv'
<1> DEFINE r == session[s]
           n == [r EXCEPT !.state = "evicted"]
<1>1. /\ session' = [session EXCEPT ![s].state = "evicted"] /\ Unbound(s) /\ Outdate(s)
      /\ UNCHANGED <<exec, expired, allowed, tenkai, unsettled>>
  BY DEF Evict
<1>2. /\ r \in Record /\ exec \in [Sessions -> Executing] /\ exec[s] \in Executing /\ "evicted" \in States
      /\ Grounded(s, r, allowed, tenkai) /\ allowed \subseteq Sessions /\ unsettled \subseteq Sessions
  BY ExecFacts DEF IInv, Typed, States, SessionInv
<1>3. n \in Record /\ n.state = "evicted" /\ n.complete = r.complete /\ Rest(n, r)
  BY <1>2 DEF Record, Rest
<1>4. Put(s, n)
  BY <1>1, <1>2 DEF Put, IInv, Typed
<1> HIDE DEF n
<1>5. Grounded(s, n, allowed, tenkai) /\ Proven(s, n, tenkai) /\ Holds(exec[s], n)
  BY <1>2, <1>3 DEF Grounded, Proven, Holds, Rest, AfterAllow, AfterPublish, Early
<1>6. PICK y \in Reading : reader' = [reader EXCEPT ![s] = y] /\ ~y.bound /\ Grounded(s, y.snap, allowed', tenkai)
  BY <1>1, Outdated
<1>7. exec' = [exec EXCEPT ![s] = exec[s]]
  BY <1>1, <1>2
<1>8. Grounded(s, exec[s].snap, allowed, tenkai) /\ Staged(s, exec[s], tenkai)
  BY ExecFacts DEF SessionInv
<1>9. QED
  BY <1>1, <1>2, <1>3, <1>4, <1>5, <1>6, <1>7, <1>8, PutStep

\* Nobody else in Tenkai touches a plan that a session rests on.
LEMMA OthersStep ==
    ASSUME IInv, Others
    PROVE  IInv'
<1>1. /\ UNCHANGED <<session, previews, exec, reader, allowed, unsettled, expired>>
      /\ tenkai \in TenkaiRecord /\ Len(tenkai.plans) <= MaxPlans /\ expired \subseteq Sessions
      /\ Typed /\ tenkai.deployed \in Candidates
  BY DEF Others, IInv, Typed, TenkaiRecord
<1>2. "older" \in Candidates
  BY DEF Candidates
<1>3. CASE tenkai' = [tenkai EXCEPT !.head = "older"] \/ \E h \in {"healthy", "degraded", "error"} : tenkai' = [tenkai EXCEPT !.health = h]
  <2>1. tenkai' \in TenkaiRecord /\ tenkai'.plans = tenkai.plans /\ tenkai'.released = tenkai.released
    BY <1>1, <1>2, <1>3 DEF TenkaiRecord
  <2>2. Grows(allowed, tenkai, allowed, tenkai') /\ \A q \in Sessions : Kept(q, tenkai, tenkai')
    BY <1>1, <2>1 DEF Grows, Kept, TenkaiRecord
  <2>3. QED
    BY <1>1, <2>1, <2>2, OutsideStep
<1>4. CASE Len(tenkai.plans) < MaxPlans /\ tenkai' = WithPlan([to |-> "older", only |-> TRUE, state |-> "ready"], tenkai.deployed)
  <2> DEFINE p == [to |-> "older", only |-> TRUE, state |-> "ready"]
  <2>1. p \in Plan
    BY <1>2 DEF Plan
  <2> HIDE DEF p
  <2>2. tenkai' \in TenkaiRecord /\ Len(tenkai'.plans) <= MaxPlans
        /\ Grows(allowed, tenkai, allowed, tenkai') /\ \A q : Kept(q, tenkai, tenkai')
    BY <1>1, <1>4, <2>1, PlanAdded DEF p
  <2>3. QED
    BY <1>1, <2>2, OutsideStep
<1>5. QED
  BY <1>3, <1>4 DEF Others

\* After a stop of the host nothing runs, and the ledger is what it was.
LEMMA CrashStep ==
    ASSUME IInv, Crash
    PROVE  IInv'
<1>1. /\ previews' = [s \in Sessions |-> {}] /\ exec' = [s \in Sessions |-> Idle]
      /\ reader' = [s \in Sessions |-> Unread]
      /\ UNCHANGED <<session, expired, allowed, tenkai, unsettled>>
  BY DEF Crash
<1>2. Typed'
  BY <1>1, Nothings DEF IInv, Typed
<1>3. ASSUME NEW s \in Sessions PROVE SessionInv(s)'
  <2>1. previews'[s] = {} /\ exec'[s] = Idle /\ reader'[s] = Unread
    BY <1>1
  <2>2. Holds(Idle, session[s]) /\ Offered({}, Unread, session[s])
    BY Nothings DEF Holds, Offered
  <2>3. QED
    BY <1>1, <2>1, <2>2, ExecFacts, Nothings DEF SessionInv
<1>4. QED
  BY <1>2, <1>3 DEF IInv

\* The ledger is empty at first.
LEMMA InvInit == Init => IInv
<1> SUFFICES ASSUME Init PROVE IInv
  OBVIOUS
<1>1. tenkai = [released |-> {}, head |-> None, deployed |-> None, health |-> "healthy", plans |-> <<>>]
  BY DEF Init
<1>2. tenkai \in TenkaiRecord /\ Len(tenkai.plans) = 0 /\ Len(tenkai.plans) <= MaxPlans
  BY <1>1, BoundsAreNat DEF TenkaiRecord, Candidates
<1>3. Typed
  BY <1>2, Nothings DEF Init, Typed
<1>4. ASSUME NEW s \in Sessions PROVE SessionInv(s)
  <2>1. session[s] = Unprepared /\ previews[s] = {} /\ exec[s] = Idle /\ reader[s] = Unread
    BY DEF Init
  <2>2. Unprepared.state = "none"
    BY DEF Unprepared
  <2>3. Holds(Idle, Unprepared) /\ Offered({}, Unread, Unprepared) /\ Proven(s, Unprepared, tenkai)
    BY <2>2, Nothings DEF Holds, Offered, Proven
  <2>4. QED
    BY <1>2, <2>1, <2>3, Nothings DEF SessionInv
<1>5. QED
  BY <1>3, <1>4 DEF IInv

\* Every step of the code keeps the invariant.
LEMMA InvStep == IInv /\ [Next]_vars => IInv'
<1> SUFFICES ASSUME IInv, [Next]_vars PROVE IInv'
  OBVIOUS
<1>1. ASSUME NEW s \in Sessions, Prepare(s) \/ Read(s) \/ Judge(s) \/ (\E a \in Actions : Enter(s, a))
      PROVE  IInv'
  BY <1>1, PrepareStep, ReadStep, JudgeStep, EnterStep
<1>2. ASSUME NEW s \in Sessions, Execution(s) \/ Throw(s)
      PROVE  IInv'
  BY <1>2, CheckFreshStep, EvaluateStep, ApplyingStep, CallStep, LookStep, ReconcileStep, SettleStep, ThrowStep
     DEF Execution
<1>3. ASSUME NEW s \in Sessions, Evict(s) PROVE IInv'
  BY <1>3, EvictStep
<1>4. CASE UNCHANGED <<session, previews, exec, reader, allowed, tenkai, unsettled>> /\ expired' \subseteq Sessions
  <2>1. tenkai \in TenkaiRecord /\ Len(tenkai.plans) <= MaxPlans
    BY DEF IInv, Typed
  <2>2. Grows(allowed, tenkai, allowed, tenkai) /\ \A q : Kept(q, tenkai, tenkai)
    BY <2>1 DEF Grows, Kept, TenkaiRecord
  <2>3. QED
    BY <1>4, <2>1, <2>2, OutsideStep
<1>5. ASSUME NEW s \in Sessions, Expire(s) PROVE IInv'
  BY <1>4, <1>5 DEF Expire, IInv, Typed
<1>6. ASSUME NEW w \in Sessions \cup {None}, Commit(w) PROVE IInv'
  BY <1>4, <1>6 DEF Commit, IInv, Typed
<1>7. CASE Others
  BY <1>7, OthersStep
<1>8. CASE Crash
  BY <1>8, CrashStep
<1>9. CASE UNCHANGED vars
  BY <1>4, <1>9 DEF vars, IInv, Typed
<1>10. QED
  BY <1>1, <1>2, <1>3, <1>5, <1>6, <1>7, <1>8, <1>9 DEF Next

-----------------------------------------------------------------------------
(* The theorems                                                            *)

\* Every record of the ledger, and every one that an execution or a preview still
\* holds, rests on what Chisei and Tenkai have.
THEOREM InvHolds == Spec => []IInv
BY InvInit, InvStep, PTL DEF Spec

\* The type invariant: a preview is bound to the record as it is, a command is a
\* mutation, plans are numbered within Tenkai's.
THEOREM TypeCorrect == Spec => []TypeOK
<1>1. IInv => TypeOK
  <2> SUFFICES ASSUME IInv PROVE TypeOK
    OBVIOUS
  <2>1. /\ unsettled \subseteq Sessions /\ expired \subseteq Sessions /\ allowed \subseteq Sessions
        /\ tenkai.released \subseteq Sessions /\ Len(tenkai.plans) <= MaxPlans /\ Len(tenkai.plans) \in Nat
    BY DEF IInv, Typed, TenkaiRecord
  <2>2. ASSUME NEW s \in Sessions
        PROVE  /\ session[s].state \in States
               /\ session[s].plan \in 0..Len(tenkai.plans) /\ session[s].rollback \in 0..Len(tenkai.plans)
               /\ previews[s] \subseteq Actions
               /\ At(s, "call") => exec[s].action \in Mutations
               /\ reader[s].bound => reader[s].snap = session[s]
    <3>1. session[s].state \in States /\ session[s].plan \in Nat /\ session[s].rollback \in Nat
      BY ExecFacts DEF Record
    <3>2. session[s].plan <= Len(tenkai.plans) /\ session[s].rollback <= Len(tenkai.plans)
      BY ExecFacts DEF SessionInv, Grounded
    <3>3. previews[s] \subseteq Actions
      BY DEF IInv, Typed
    <3>4. At(s, "call") => exec[s].action \in Mutations
      BY ExecFacts DEF SessionInv, Staged, At
    <3>5. reader[s].bound => reader[s].snap = session[s]
      BY ExecFacts DEF SessionInv, Offered
    <3>6. QED
      BY <2>1, <3>1, <3>2, <3>3, <3>4, <3>5
  <2>3. QED
    BY <2>1, <2>2 DEF TypeOK
<1>2. QED
  BY <1>1, InvHolds, PTL

\* A session is at no stage that Chisei or Tenkai has not been at before, whatever
\* was retried, cancelled, reconciled, evicted or cut off in between.
THEOREM StagesRestOnEarlierOnes == Spec => []StagesInOrder
<1>1. IInv => StagesInOrder
  <2> SUFFICES ASSUME IInv, NEW s \in Sessions PROVE Grounded(s, session[s], allowed, tenkai)
    BY DEF StagesInOrder, Grounded, AfterAllow, AfterPublish, Early
  <2>1. QED
    BY ExecFacts DEF SessionInv
<1>2. QED
  BY <1>1, InvHolds, PTL

\* A session is completed, or recovered, only by a plan that Tenkai ended well.
THEOREM DeliveryIsProven == Spec => []TerminalIsProven
<1>1. IInv => TerminalIsProven
  <2> SUFFICES ASSUME IInv, NEW s \in Sessions
               PROVE  Grounded(s, session[s], allowed, tenkai) /\ Proven(s, session[s], tenkai)
    BY DEF TerminalIsProven, Grounded, Proven
  <2>1. QED
    BY ExecFacts DEF SessionInv
<1>2. QED
  BY <1>1, InvHolds, PTL

\* What an execution does is what was confirmed: its action was available for the
\* session, nothing else saves the session until it ends, and Tenkai is asked to
\* apply a plan only when that has a single step and leads to the session's candidate.
THEOREM ConfirmationHolds == Spec => []ConfirmedIsExecuted
<1>1. IInv => ConfirmedIsExecuted
  BY ExecFacts DEF SessionInv, Staged, Holds, ConfirmedIsExecuted, OnlyCandidateApplied, ActsAsConfirmed, At
<1>2. QED
  BY <1>1, InvHolds, PTL
================================================================================
