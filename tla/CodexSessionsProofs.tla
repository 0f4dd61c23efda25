-------------------------- MODULE CodexSessionsProofs --------------------------
(***************************************************************************)
(* Safety of the resident app-servers for every set of conversations and   *)
(* every number of runs, idle sessions and faults.                         *)
(*                                                                         *)
(* A process is looked at by its run, by the consumer of that run, by two  *)
(* timers and by the sweep, each through fields of its own.  IInv relates  *)
(* them: what a run that is active drives is marked with it; a process     *)
(* that works has a run of its conversation that has not let go of its     *)
(* worktree; and a conversation has one resident process or one run about  *)
(* to spawn it, so that giving up the one gives up the one token.          *)
(***************************************************************************)
EXTENDS CodexSessions, FiniteSetTheorems, TLAPS

Field(o) == {p \in Procs : <<p, p>> \in o}

\* The insertion order of a map: total on what is in the map.
Ordered(o) ==
    /\ o \subseteq Field(o) \X Field(o)
    /\ \A p, q \in Field(o) : <<p, q>> \in o \/ <<q, p>> \in o
    /\ \A p, q \in Field(o) : <<p, q>> \in o /\ <<q, p>> \in o => p = q
    /\ \A p, q, x \in Field(o) : <<p, q>> \in o /\ <<q, x>> \in o => <<p, x>> \in o

\* A process record s, and whether the process is resident.
Sound(s, resident) ==
    /\ s.life = "up" => resident \/ s.term # "none"
    /\ s.timer => resident /\ s.run = None
    /\ s.working => s.life = "up"
    /\ resident => s.life # "unborn"
    /\ s.life # "unborn" => s.conv \in Convs

\* The run r with record x, and the process records ps.
Driving(r, x, ps) ==
    /\ x.pc # "none" => x.conv \in Convs
    /\ x.pc \notin {"none", "version", "done"} => x.proc # 0
    /\ x.proc # 0 => ps[x.proc].life # "unborn" /\ ps[x.proc].conv = x.conv
    /\ x.active => x.proc # 0 /\ ps[x.proc].run = r
    /\ x.settled => x.proc # 0 /\ ps[x.proc].life \in {"signalled", "closed"}
    /\ x.pc = "version" => ~x.settled
    /\ x.pc = "recording" /\ x.event = "completed" => ~ps[x.proc].working

Working == {"stream", "recording", "returning", "settling"}

\* What works is driven, or its run waits for its end.
Watched(p) == proc[p].working => \E r \in Runs : run[r].proc = p /\ run[r].pc \in Working

OneBusy == \A q, r \in Runs : Busy(q) /\ Busy(r) /\ run[q].conv = run[r].conv => q = r

\* A conversation has one process or one run that is about to spawn it.
Single ==
    /\ \A p, q \in Residents : proc[p].conv = proc[q].conv => p = q
    /\ \A r \in Runs, p \in Residents : run[r].pc = "version" => proc[p].conv # run[r].conv

Timed == {p \in Residents : proc[p].timer}

IInv ==
    /\ proc \in [Procs -> Proc] /\ run \in [Runs -> Run] /\ faults \in 0..MaxFaults
    /\ Ordered(sessions)
    /\ \A p \in Procs : Sound(proc[p], Retained(p)) /\ Watched(p)
    /\ \A r \in Runs : Driving(r, run[r], proc)
    /\ OneBusy /\ Single /\ TokenFollowsSession
    /\ Cardinality(Timed) <= IdleLimit

-----------------------------------------------------------------------------
(* The order of the sessions                                               *)

\* Sessions that are taken out leave the others in their order.
LEMMA TakenOut ==
    ASSUME NEW o, Ordered(o), NEW gone, NEW w, w = {x \in o : x[1] \notin gone /\ x[2] \notin gone}
    PROVE  Ordered(w) /\ Field(w) = Field(o) \ gone
<1>1. \A p, q : <<p, q>> \in w <=> <<p, q>> \in o /\ p \notin gone /\ q \notin gone
  OBVIOUS
<1>2. Field(w) = Field(o) \ gone
  BY <1>1 DEF Field
<1>3. w \subseteq Field(w) \X Field(w)
  BY <1>2 DEF Ordered
<1>4. Ordered(w)
  BY <1>1, <1>2, <1>3 DEF Ordered
<1>5. QED
  BY <1>2, <1>4

\* A process that is set again becomes the youngest.
LEMMA SetAgain ==
    ASSUME Ordered(sessions), NEW p \in Procs
    PROVE  Ordered(Renewed(p)) /\ Field(Renewed(p)) = Residents \cup {p}
<1>0. PICK w : w = Without({p})
  OBVIOUS
<1>1. Ordered(w) /\ Field(w) = Residents \ {p}
  <2>1. w = {x \in sessions : x[1] \notin {p} /\ x[2] \notin {p}}
    BY <1>0 DEF Without
  <2>2. Field(sessions) = Residents
    BY DEF Residents, Field, Retained
  <2>3. QED
    BY <2>1, <2>2, TakenOut
<1>2. \A x, y : <<x, y>> \in Renewed(p) <=> <<x, y>> \in w \/ (y = p /\ x \in Residents \cup {p})
  BY <1>0 DEF Renewed
<1>3. w \subseteq Field(w) \X Field(w)
  BY <1>1 DEF Ordered
<1>4. Field(Renewed(p)) = Residents \cup {p}
  BY <1>1, <1>2, <1>3 DEF Field, Residents
<1>5. Renewed(p) \subseteq Field(Renewed(p)) \X Field(Renewed(p))
  <2>1. w \subseteq (Residents \cup {p}) \X (Residents \cup {p})
    BY <1>1, <1>3
  <2>2. {<<q, p>> : q \in Residents \cup {p}} \subseteq (Residents \cup {p}) \X (Residents \cup {p})
    OBVIOUS
  <2>3. Renewed(p) \subseteq (Residents \cup {p}) \X (Residents \cup {p})
    BY <1>0, <2>1, <2>2 DEF Renewed
  <2>4. QED
    BY <1>4, <2>3
<1>6. \A x, y \in Field(Renewed(p)) : <<x, y>> \in Renewed(p) \/ <<y, x>> \in Renewed(p)
  BY <1>1, <1>2, <1>4 DEF Ordered
<1>7. \A x, y \in Field(Renewed(p)) : <<x, y>> \in Renewed(p) /\ <<y, x>> \in Renewed(p) => x = y
  <2>1. SUFFICES ASSUME NEW x \in Field(Renewed(p)), NEW y \in Field(Renewed(p)),
                        <<x, y>> \in Renewed(p), <<y, x>> \in Renewed(p)
                 PROVE  x = y
    OBVIOUS
  <2>2. (<<x, y>> \in w \/ y = p) /\ (<<y, x>> \in w \/ x = p)
    BY <1>2, <2>1
  <2>3. <<x, y>> \in w => x \in Residents \ {p} /\ y \in Residents \ {p}
    BY <1>1, <1>3
  <2>4. <<y, x>> \in w => x \in Residents \ {p} /\ y \in Residents \ {p}
    BY <1>1, <1>3
  <2>5. QED
    BY <1>1, <2>2, <2>3, <2>4 DEF Ordered
<1>8. \A x, y, z \in Field(Renewed(p)) :
         <<x, y>> \in Renewed(p) /\ <<y, z>> \in Renewed(p) => <<x, z>> \in Renewed(p)
  <2>1. SUFFICES ASSUME NEW x \in Field(Renewed(p)), NEW y \in Field(Renewed(p)), NEW z \in Field(Renewed(p)),
                        <<x, y>> \in Renewed(p), <<y, z>> \in Renewed(p)
                 PROVE  <<x, z>> \in Renewed(p)
    OBVIOUS
  <2>2. CASE z = p
    BY <1>2, <1>4, <2>2
  <2>3. CASE z # p
    <3>1. <<y, z>> \in w /\ y \in Residents \ {p} /\ z \in Residents \ {p}
      BY <1>1, <1>2, <1>3, <2>1, <2>3
    <3>2. <<x, y>> \in w
      BY <1>2, <2>1, <3>1
    <3>3. x \in Residents \ {p}
      BY <1>1, <1>3, <3>2
    <3>4. <<x, z>> \in w
      BY <1>1, <3>1, <3>2, <3>3 DEF Ordered
    <3>5. QED
      BY <1>2, <3>4
  <2>4. QED
    BY <2>2, <2>3
<1>9. QED
  BY <1>4, <1>5, <1>6, <1>7, <1>8 DEF Ordered

NoOlder(o, idle, x) == {y \in idle : <<x, y>> \in o}
Young(o, idle, n) == {x \in idle : Cardinality(NoOlder(o, idle, x)) <= n}

\* At most n sessions have at most n that are no older.
LEMMA Youngest ==
    ASSUME NEW o, Ordered(o), NEW idle, idle \subseteq Field(o), IsFiniteSet(idle), NEW n, n \in Nat
    PROVE  IsFiniteSet(Young(o, idle, n)) /\ Cardinality(Young(o, idle, n)) <= n
<1>a. PICK from : from = [x \in idle |-> {y \in idle : <<x, y>> \in o}]
  OBVIOUS
<1>b. PICK young : young = {x \in idle : Cardinality(from[x]) <= n}
  OBVIOUS
<1>c. young = Young(o, idle, n)
  <2>1. \A x \in idle : from[x] = NoOlder(o, idle, x)
    BY <1>a DEF NoOlder
  <2>2. QED
    BY <1>b, <2>1 DEF Young
<1>1. \A x \in idle : IsFiniteSet(from[x]) /\ Cardinality(from[x]) \in Nat
  BY <1>a, FS_Subset, FS_CardinalityType
<1>2. \A x \in idle : x \in from[x] /\ Cardinality(from[x]) # 0
  <2>1. \A x \in idle : x \in from[x]
    BY <1>a DEF Field
  <2>2. QED
    BY <1>1, <2>1, FS_EmptySet
<1>3. ASSUME NEW x \in idle, NEW y \in idle, x # y, <<x, y>> \in o
      PROVE  Cardinality(from[y]) < Cardinality(from[x])
  <2>1. from[y] \subseteq from[x]
    BY <1>a, <1>3 DEF Ordered
  <2>2. x \in from[x] /\ x \notin from[y]
    BY <1>a, <1>2, <1>3 DEF Ordered
  <2>3. Cardinality(from[y]) <= Cardinality(from[x]) /\ Cardinality(from[y]) # Cardinality(from[x])
    BY <1>1, <2>1, <2>2, FS_Subset
  <2>4. QED
    BY <1>1, <2>3
<1>4. PICK f : f = [x \in young |-> Cardinality(from[x])]
  OBVIOUS
<1>5. f \in [young -> 1..n]
  <2>1. \A x \in young : x \in idle /\ Cardinality(from[x]) <= n
    BY <1>b
  <2>2. ASSUME NEW x \in young PROVE Cardinality(from[x]) \in 1..n
    <3>1. PICK m : m = Cardinality(from[x])
      OBVIOUS
    <3>2. m \in Nat /\ m # 0 /\ m <= n
      BY <1>1, <1>2, <2>1, <3>1
    <3>3. m \in 1..n
      BY <3>2
    <3>4. QED
      BY <3>1, <3>3
  <2>3. QED
    BY <1>4, <2>2
<1>6. \A x, y \in young : f[x] = f[y] => x = y
  <2>1. SUFFICES ASSUME NEW x \in young, NEW y \in young, x # y PROVE f[x] # f[y]
    OBVIOUS
  <2>2. <<x, y>> \in o \/ <<y, x>> \in o
    BY <1>b DEF Ordered
  <2>3. Cardinality(from[x]) \in Nat /\ Cardinality(from[y]) \in Nat
    BY <1>b, <1>1
  <2>4. Cardinality(from[x]) # Cardinality(from[y])
    <3>1. x \in idle /\ y \in idle
      BY <1>b
    <3>2. CASE <<x, y>> \in o
      <4>1. Cardinality(from[y]) < Cardinality(from[x])
        BY <1>3, <2>1, <3>1, <3>2
      <4>2. QED
        BY <2>3, <4>1
    <3>3. CASE <<y, x>> \in o
      <4>1. Cardinality(from[x]) < Cardinality(from[y])
        BY <1>3, <2>1, <3>1, <3>3
      <4>2. QED
        BY <2>3, <4>1
    <3>4. QED
      BY <2>2, <3>2, <3>3
  <2>5. QED
    BY <1>4, <2>4
<1>7. f \in Injection(young, 1..n)
  BY <1>5, <1>6 DEF Injection, IsInjective
<1>8. IsFiniteSet(1..n) /\ Cardinality(1..n) = n
  BY FS_Interval
<1>9. QED
  BY <1>c, <1>7, <1>8, FS_Injection

-----------------------------------------------------------------------------
(* Process records                                                         *)

\* What becomes of a process: it keeps its conversation, it is not unborn and
\* not reopened once it has ended, and it is only let go of.
Later(s, t) ==
    /\ t.conv = s.conv
    /\ t.life = "unborn" <=> s.life = "unborn"
    /\ s.life \in {"signalled", "closed"} => t.life \in {"signalled", "closed"}
    /\ t.run \in {s.run, None}

\* Cancelling or ending a process touches neither its work nor its timer.
LEMMA Ended ==
    ASSUME NEW s \in Proc, NEW resident \in BOOLEAN, Sound(s, resident),
           NEW t, t \in {Terminated(s), Cancelled(s)}
    PROVE  /\ t \in Proc /\ Later(s, t) /\ Sound(t, resident)
           /\ t.run = s.run /\ t.timer = s.timer /\ t.working = s.working
<1>1. ASSUME NEW u \in Proc, NEW e \in {"none", "scheduled", "terminating"}, NEW v, v = [u EXCEPT !.term = e]
      PROVE  /\ v \in Proc /\ v.term = e /\ v.conv = u.conv /\ v.life = u.life /\ v.run = u.run
             /\ v.timer = u.timer /\ v.working = u.working
  BY <1>1 DEF Proc
<1>2. PICK m : m = [s EXCEPT !.cancelled = TRUE]
  OBVIOUS
<1>3. /\ m \in Proc /\ m.conv = s.conv /\ m.life = s.life /\ m.run = s.run /\ m.term = s.term
      /\ m.timer = s.timer /\ m.working = s.working
  BY <1>2 DEF Proc
<1>4. t = Terminated(s) \/ t = Scheduled(m) \/ t = Terminated(m)
  BY <1>2 DEF Cancelled
<1>5. ASSUME NEW u \in {s, m}, NEW e \in {"none", "scheduled", "terminating"},
             t = [u EXCEPT !.term = e], u.life = "up" => e # "none"
      PROVE  /\ t \in Proc /\ Later(s, t) /\ Sound(t, resident)
             /\ t.run = s.run /\ t.timer = s.timer /\ t.working = s.working
  <2>1. u \in Proc /\ u.conv = s.conv /\ u.life = s.life /\ u.run = s.run /\ u.timer = s.timer /\ u.working = s.working
    BY <1>3
  <2>2. /\ t \in Proc /\ t.term = e /\ t.conv = s.conv /\ t.life = s.life /\ t.run = s.run
        /\ t.timer = s.timer /\ t.working = s.working
    BY <1>1, <1>5, <2>1
  <2>3. Later(s, t)
    BY <2>2 DEF Later
  <2>4. Sound(t, resident)
    BY <1>5, <2>1, <2>2 DEF Sound
  <2>5. QED
    BY <2>2, <2>3, <2>4
<1>6. CASE \E u \in {s, m} : t = Terminated(u)
  <2>1. PICK u \in {s, m} : t = Terminated(u)
    BY <1>6
  <2>2. PICK e \in {"none", "scheduled", "terminating"} : e = IF u.life = "up" THEN "terminating" ELSE "none"
    OBVIOUS
  <2>3. t = [u EXCEPT !.term = e] /\ (u.life = "up" => e # "none")
    BY <2>1, <2>2 DEF Terminated
  <2>4. QED
    BY <1>5, <2>3
<1>7. CASE t = Scheduled(m)
  <2>1. m.term \in {"none", "scheduled", "terminating"}
    BY <1>3 DEF Proc
  <2>2. PICK e \in {"none", "scheduled", "terminating"} :
           e = IF m.life # "up" THEN "none" ELSE IF m.term = "none" THEN "scheduled" ELSE m.term
    BY <2>1
  <2>3. t = [m EXCEPT !.term = e]
    BY <1>3, <1>7, <2>2 DEF Scheduled, Proc
  <2>4. m.life = "up" => e # "none"
    BY <2>2
  <2>5. QED
    BY <1>5, <2>3, <2>4
<1>8. QED
  BY <1>4, <1>6, <1>7

\* A session that is given up is being ended and has no timer.
LEMMA GivenUp ==
    ASSUME NEW s \in Proc, NEW resident \in BOOLEAN, Sound(s, resident), NEW t, t = Retired(s)
    PROVE  /\ t \in Proc /\ Later(s, t) /\ Sound(t, FALSE)
           /\ t.run = s.run /\ ~t.timer /\ t.working = s.working
<1>1. PICK u : u = Terminated(s)
  OBVIOUS
<1>2. u \in Proc /\ Later(s, u) /\ u.run = s.run /\ u.working = s.working
  BY <1>1, Ended
<1>3. u.life = s.life /\ (u.life = "up" => u.term # "none")
  BY <1>1 DEF Terminated, Proc
<1>4. t = [u EXCEPT !.timer = FALSE]
  BY <1>1 DEF Retired
<1>5. /\ t \in Proc /\ t.timer = FALSE /\ t.conv = u.conv /\ t.life = u.life /\ t.run = u.run
      /\ t.term = u.term /\ t.working = u.working
  BY <1>2, <1>4 DEF Proc
<1>6. Later(s, t)
  BY <1>2, <1>3, <1>5 DEF Later
<1>7. Sound(t, FALSE)
  BY <1>2, <1>3, <1>5 DEF Sound, Later
<1>8. QED
  BY <1>2, <1>5, <1>6, <1>7

\* A process that is let go of.
LEMMA LetGo ==
    ASSUME NEW s \in Proc, NEW resident \in BOOLEAN, Sound(s, resident), NEW t, t = Freed(s)
    PROVE  /\ t \in Proc /\ Later(s, t) /\ Sound(t, resident)
           /\ t.run = None /\ t.timer = s.timer /\ t.working = s.working
<1>1. /\ t \in Proc /\ t.run = None /\ t.conv = s.conv /\ t.life = s.life /\ t.term = s.term
      /\ t.timer = s.timer /\ t.working = s.working
  BY DEF Freed, Proc
<1>2. Later(s, t) /\ Sound(t, resident)
  BY <1>1 DEF Later, Sound
<1>3. QED
  BY <1>1, <1>2

-----------------------------------------------------------------------------
(* Steps that start no process                                             *)

\* The processes and sessions after such a step: some sessions may be gone, each
\* with the token of its conversation.
Changed ==
    /\ proc' \in [Procs -> Proc] /\ Ordered(sessions')
    /\ \A p \in Procs : Later(proc[p], proc'[p]) /\ Sound(proc'[p], Retained(p)')
    /\ \E gone \in SUBSET Procs :
          Residents' = Residents \ gone /\ token' = token \ ConvsOf(Residents \cap gone)
    /\ Cardinality(Timed') <= IdleLimit

\* Run q after it: it is not started, and it stops waiting for its process only
\* when that does not work.
Goes(q) ==
    /\ run'[q].conv = run[q].conv /\ run'[q].proc = run[q].proc /\ run'[q].settled = run[q].settled
    /\ run'[q].pc = run[q].pc
       \/ (run[q].pc \notin {"none", "version", "done"} /\ run'[q].pc \notin {"none", "version"})
    /\ run'[q].active => run[q].active /\ proc'[run[q].proc].run = q
    /\ run'[q].pc = "recording" /\ run'[q].event = "completed" => ~proc'[run[q].proc].working
    /\ run[q].pc \in Working /\ run'[q].pc \notin Working => ~proc'[run[q].proc].working

\* After such a step the invariant holds again.
LEMMA Continues ==
    ASSUME IInv, Changed, faults' \in 0..MaxFaults,
           run' \in [Runs -> Run], \A q \in Runs : Goes(q),
           \A p \in Procs : proc'[p].working =>
              proc[p].working \/ \E q \in Runs : run[q].proc = p /\ run'[q].pc \in Working
    PROVE  IInv'
<1>1. PICK gone \in SUBSET Procs :
         Residents' = Residents \ gone /\ token' = token \ ConvsOf(Residents \cap gone)
  BY DEF Changed
<1>2. /\ proc \in [Procs -> Proc] /\ proc' \in [Procs -> Proc] /\ run \in [Runs -> Run]
      /\ \A p \in Procs : Later(proc[p], proc'[p])
  BY DEF IInv, Changed
<1>3. \A q \in Runs : run[q].proc # 0 => run[q].proc \in Procs
  BY <1>2 DEF Run
<1>4. Residents \subseteq Procs /\ \A p \in Procs : proc'[p].conv = proc[p].conv
  BY <1>2 DEF Residents, Later
<1>5. ASSUME NEW p \in Procs PROVE Sound(proc'[p], Retained(p)') /\ Watched(p)'
  <2>1. Sound(proc'[p], Retained(p)')
    BY DEF Changed
  <2>2. ASSUME proc'[p].working PROVE \E q \in Runs : run'[q].proc = p /\ run'[q].pc \in Working
    <3>1. CASE \E q \in Runs : run[q].proc = p /\ run'[q].pc \in Working
      BY <3>1 DEF Goes
    <3>2. CASE proc[p].working
      <4>1. PICK q \in Runs : run[q].proc = p /\ run[q].pc \in Working
        BY <3>2 DEF IInv, Watched
      <4>2. run'[q].pc \in Working /\ run'[q].proc = p
        BY <2>2, <4>1 DEF Goes
      <4>3. QED
        BY <4>2
    <3>3. QED
      BY <2>2, <3>1, <3>2
  <2>3. QED
    BY <2>1, <2>2 DEF Watched
<1>6. ASSUME NEW q \in Runs PROVE Driving(q, run'[q], proc')
  <2>1. Goes(q) /\ Driving(q, run[q], proc)
    BY DEF IInv
  <2>2. run[q].proc # 0 => Later(proc[run[q].proc], proc'[run[q].proc])
    BY <1>2, <1>3
  <2>3. QED
    BY <2>1, <2>2 DEF Goes, Driving, Later
<1>7. OneBusy'
  <2>1. \A q \in Runs : Busy(q)' => Busy(q) /\ run'[q].conv = run[q].conv
    BY DEF Goes, Busy
  <2>2. QED
    BY <2>1 DEF IInv, OneBusy
<1>8. \A q \in Runs : run'[q].conv = run[q].conv /\ (run'[q].pc = "version" <=> run[q].pc = "version")
  BY DEF Goes
<1>9. Single'
  BY <1>1, <1>4, <1>8 DEF IInv, Single
<1>10. TokenFollowsSession'
  <2>1. PICK v : v = {run[r].conv : r \in {q \in Runs : run[q].pc = "version"}}
    OBVIOUS
  <2>2. v = {run'[r].conv : r \in {q \in Runs : run'[q].pc = "version"}}
    BY <1>8, <2>1
  <2>3. token = ConvsOf(Residents) \cup v
    BY <2>1 DEF IInv, TokenFollowsSession
  <2>4. ConvsOf(Residents)' = {proc[p].conv : p \in Residents \ gone}
    BY <1>1, <1>4 DEF ConvsOf
  <2>5. ConvsOf(Residents) = {proc[p].conv : p \in Residents}
        /\ ConvsOf(Residents \cap gone) = {proc[p].conv : p \in Residents \cap gone}
    BY DEF ConvsOf
  <2>6. \A p, q \in Residents : proc[p].conv = proc[q].conv => p = q
    BY DEF IInv, Single
  <2>7. \A p \in Residents : proc[p].conv \notin v
    BY <2>1 DEF IInv, Single
  <2>8. token' = ConvsOf(Residents)' \cup v
    <3>1. PICK kept, lost : kept = {proc[p].conv : p \in Residents \ gone}
                            /\ lost = {proc[p].conv : p \in Residents \cap gone}
      OBVIOUS
    <3>2. ConvsOf(Residents) = kept \cup lost
      BY <2>5, <3>1
    <3>3. kept \cap lost = {}
      BY <2>6, <3>1
    <3>4. lost \cap v = {}
      BY <2>7, <3>1
    <3>5. token' = (kept \cup lost \cup v) \ lost
      BY <1>1, <2>3, <2>5, <3>1, <3>2
    <3>6. token' = kept \cup v
      BY <3>3, <3>4, <3>5
    <3>7. QED
      BY <2>4, <3>1, <3>6
  <2>9. QED
    BY <2>2, <2>8 DEF TokenFollowsSession
<1>11. QED
  BY <1>5, <1>6, <1>7, <1>9, <1>10 DEF IInv, Changed

\* Run r, which has a process, becomes x: if it goes on being active it still has
\* its process, and that works only while the run has not let go of its worktree.
Becomes(r, x) ==
    /\ x \in Run /\ run' = [run EXCEPT ![r] = x]
    /\ run[r].pc \notin {"none", "version", "done"} /\ x.pc \notin {"none", "version"}
    /\ x.conv = run[r].conv /\ x.proc = run[r].proc /\ x.settled = run[r].settled
    /\ x.active => run[r].active /\ proc'[run[r].proc].run = r
    /\ proc'[run[r].proc].working => x.pc \in Working /\ ~(x.pc = "recording" /\ x.event = "completed")

\* Of the processes, only that of run r is let go of or begins to work.
Drives(r) ==
    /\ \A p \in Procs : proc'[p].run # proc[p].run => proc[p].run = r
    /\ \A p \in Procs : p # run[r].proc /\ proc'[p].working => proc[p].working

\* A step of run r and of the process that it drives.
LEMMA OneRun ==
    ASSUME IInv, Changed, faults' \in 0..MaxFaults, NEW r \in Runs, NEW x, Becomes(r, x), Drives(r)
    PROVE  IInv'
<1> USE DEF Becomes, Drives
<1>1. run \in [Runs -> Run] /\ run' \in [Runs -> Run] /\ run'[r] = x /\ \A q \in Runs \ {r} : run'[q] = run[q]
  BY DEF IInv
<1>2. \A q \in Runs : run[q].proc # 0 => run[q].proc \in Procs
  BY <1>1 DEF Run
<1>3. Goes(r)
  BY <1>1 DEF Goes
<1>4. ASSUME NEW q \in Runs \ {r} PROVE Goes(q)
  <2>1. run'[q] = run[q] /\ Driving(q, run[q], proc) /\ Driving(r, run[r], proc)
    BY <1>1 DEF IInv
  <2>2. run[q].active => proc'[run[q].proc].run = q
    BY <1>2, <2>1 DEF Driving
  <2>3. ASSUME run[q].pc = "recording", run[q].event = "completed" PROVE ~proc'[run[q].proc].working
    <3>1. run[q].proc # 0 /\ run[r].proc # 0 /\ ~proc[run[q].proc].working
      BY <2>1, <2>3 DEF Driving
    <3>2. run[q].proc # run[r].proc
      <4>1. SUFFICES ASSUME run[q].proc = run[r].proc PROVE FALSE
        OBVIOUS
      <4>2. run[q].conv = run[r].conv
        BY <2>1, <3>1, <4>1 DEF Driving
      <4>3. Busy(q) /\ Busy(r)
        BY <2>3 DEF Busy
      <4>4. QED
        BY <4>2, <4>3 DEF IInv, OneBusy
    <3>3. QED
      BY <1>2, <3>1, <3>2
  <2>4. QED
    BY <2>1, <2>2, <2>3 DEF Goes
<1>5. \A p \in Procs : proc'[p].working =>
         proc[p].working \/ \E q \in Runs : run[q].proc = p /\ run'[q].pc \in Working
  BY <1>1
<1>6. \A q \in Runs : Goes(q)
  BY <1>3, <1>4
<1>7. QED
  BY <1>1, <1>5, <1>6, Continues

\* A step of a process alone.
LEMMA NoRun ==
    ASSUME IInv, Changed, faults' \in 0..MaxFaults, UNCHANGED run,
           \A p \in Procs : proc'[p].run = proc[p].run /\ (proc'[p].working => proc[p].working)
    PROVE  IInv'
<1>1. run \in [Runs -> Run] /\ \A q \in Runs : run[q].proc # 0 => run[q].proc \in Procs
  BY DEF IInv, Run
<1>2. ASSUME NEW q \in Runs PROVE Goes(q)
  <2>1. Driving(q, run[q], proc)
    BY DEF IInv
  <2>2. run[q].active => proc'[run[q].proc].run = q
    BY <1>1, <2>1 DEF Driving
  <2>3. run[q].pc = "recording" /\ run[q].event = "completed" => ~proc'[run[q].proc].working
    BY <1>1, <2>1 DEF Driving
  <2>4. QED
    BY <2>2, <2>3 DEF Goes
<1>3. QED
  BY <1>1, <1>2, Continues

-----------------------------------------------------------------------------
(* What happens to the sessions                                            *)

\* The sets that are counted are finite.
LEMMA TimedIsFinite ==
    ASSUME IInv
    PROVE  IsFiniteSet(Timed) /\ Timed \subseteq Residents /\ IsFiniteSet(Residents) /\ MaxRuns \in Nat
           /\ Residents = Field(sessions)
<1>1. MaxRuns \in Nat
  BY CodexAssumption
<1>2. IsFiniteSet(Procs)
  BY <1>1, FS_Interval DEF Procs
<1>3. Residents \subseteq Procs /\ Timed \subseteq Residents
  BY DEF Residents, Timed
<1>4. IsFiniteSet(Residents)
  BY <1>2, <1>3, FS_Subset
<1>5. IsFiniteSet(Timed)
  BY <1>3, <1>4, FS_Subset
<1>6. QED
  BY <1>1, <1>3, <1>4, <1>5 DEF Residents, Field, Retained

\* No session more, and no timer more, than before.
LEMMA NoTimerMore ==
    ASSUME IInv, Timed' \subseteq Timed
    PROVE  Cardinality(Timed') <= IdleLimit
<1>1. IsFiniteSet(Timed) /\ Cardinality(Timed) \in Nat /\ IdleLimit \in Nat /\ Cardinality(Timed) <= IdleLimit
  BY TimedIsFinite, FS_CardinalityType, CodexAssumption DEF IInv
<1>2. Cardinality(Timed') <= Cardinality(Timed) /\ Cardinality(Timed') \in Nat
  BY <1>1, FS_Subset, FS_CardinalityType
<1>3. QED
  BY <1>1, <1>2

\* One process changes and the sessions stay.
LEMMA LocalChange ==
    ASSUME IInv, NEW p \in Procs, NEW t \in Proc, Later(proc[p], t), Sound(t, Retained(p)),
           t.timer => proc[p].timer, proc' = [proc EXCEPT ![p] = t], UNCHANGED <<sessions, token>>
    PROVE  Changed /\ proc'[p] = t /\ \A q \in Procs \ {p} : proc'[q] = proc[q]
<1>1. proc \in [Procs -> Proc] /\ proc' \in [Procs -> Proc] /\ proc'[p] = t /\ \A q \in Procs \ {p} : proc'[q] = proc[q]
  BY DEF IInv
<1>2. \A q \in Procs : Retained(q)' = Retained(q)
  BY DEF Retained
<1>3. Residents' = Residents
  BY <1>2 DEF Residents
<1>4. Timed' \subseteq Timed
  BY <1>1, <1>3 DEF Timed, Residents
<1>5. \A q \in Procs : Later(proc[q], proc'[q]) /\ Sound(proc'[q], Retained(q)')
  <2>1. Later(proc[p], proc'[p]) /\ Sound(proc'[p], Retained(p)')
    BY <1>1, <1>2
  <2>2. ASSUME NEW q \in Procs \ {p} PROVE Later(proc[q], proc'[q]) /\ Sound(proc'[q], Retained(q)')
    <3>1. Later(proc[q], proc'[q])
      BY <1>1 DEF Later
    <3>2. Sound(proc[q], Retained(q))
      BY DEF IInv
    <3>3. QED
      BY <1>1, <1>2, <3>1, <3>2
  <2>3. QED
    BY <2>1, <2>2
<1>6. \E gone \in SUBSET Procs :
         Residents' = Residents \ gone /\ token' = token \ ConvsOf(Residents \cap gone)
  <2>1. Residents' = Residents \ {} /\ Residents \cap {} = {} /\ ConvsOf({}) = {}
    BY <1>3 DEF ConvsOf
  <2>2. token' = token \ {}
    OBVIOUS
  <2>3. QED
    BY <2>1, <2>2
<1>7. QED
  BY <1>1, <1>4, <1>5, <1>6, NoTimerMore DEF Changed, IInv

\* Sessions are taken out and their processes are asked to end.
LEMMA GivesUp ==
    ASSUME IInv, NEW gone \in SUBSET Procs, sessions' = Without(gone),
           proc' = [p \in Procs |-> IF p \in gone THEN Retired(proc[p]) ELSE proc[p]]
    PROVE  /\ proc' \in [Procs -> Proc] /\ Ordered(sessions') /\ Residents' = Residents \ gone
           /\ \A p \in Procs : /\ Later(proc[p], proc'[p]) /\ Sound(proc'[p], Retained(p)')
                               /\ proc'[p].run = proc[p].run /\ proc'[p].working = proc[p].working
           /\ Cardinality(Timed') <= IdleLimit
<1>1. /\ sessions' = {o \in sessions : o[1] \notin gone /\ o[2] \notin gone}
      /\ proc' = [p \in Procs |-> IF p \in gone THEN Retired(proc[p]) ELSE proc[p]]
  BY DEF Without
<1>2. Ordered(sessions') /\ Field(sessions') = Field(sessions) \ gone
  BY <1>1, TakenOut DEF IInv
<1>3. Residents' = Residents \ gone
  BY <1>2 DEF Residents, Retained, Field
<1>4. \A p \in Procs : Retained(p)' <=> Retained(p) /\ p \notin gone
  BY <1>3 DEF Residents
<1>5. ASSUME NEW p \in Procs
      PROVE  /\ proc'[p] \in Proc /\ Later(proc[p], proc'[p]) /\ Sound(proc'[p], Retained(p)')
             /\ proc'[p].run = proc[p].run /\ proc'[p].working = proc[p].working
             /\ (proc'[p].timer => proc[p].timer)
  <2>1. proc[p] \in Proc /\ Sound(proc[p], Retained(p)) /\ Retained(p) \in BOOLEAN
    BY DEF IInv, Retained
  <2>2. CASE p \in gone
    <3>1. proc'[p] = Retired(proc[p]) /\ Retained(p)' = FALSE
      BY <1>1, <1>4, <2>2
    <3>2. QED
      BY <2>1, <3>1, GivenUp
  <2>3. CASE p \notin gone
    <3>1. proc'[p] = proc[p] /\ Retained(p)' = Retained(p)
      BY <1>1, <1>4, <2>3 DEF Retained
    <3>2. Later(proc[p], proc[p])
      BY DEF Later
    <3>3. QED
      BY <2>1, <3>1, <3>2
  <2>4. QED
    BY <2>2, <2>3
<1>6. Timed' \subseteq Timed
  BY <1>3, <1>5 DEF Timed, Residents
<1>7. proc' \in [Procs -> Proc]
  BY <1>1, <1>5
<1>8. QED
  BY <1>2, <1>3, <1>5, <1>6, <1>7, NoTimerMore

\* Sessions are given up, and their tokens with them.
LEMMA RetireChange ==
    ASSUME IInv, NEW gone \in SUBSET Procs, Retire(gone)
    PROVE  Changed /\ \A p \in Procs : proc'[p].run = proc[p].run /\ proc'[p].working = proc[p].working
<1>1. /\ sessions' = Without(gone)
      /\ proc' = [p \in Procs |-> IF p \in gone THEN Retired(proc[p]) ELSE proc[p]]
      /\ token' = token \ ConvsOf({p \in gone : Retained(p)})
  BY DEF Retire
<1>2. {p \in gone : Retained(p)} = Residents \cap gone
  BY DEF Residents
<1>3. QED
  BY <1>1, <1>2, GivesUp DEF Changed

\* A process waits for its idle timer, and the oldest ones that wait are given up.
LEMMA IdleChange ==
    ASSUME IInv, NEW p \in Procs, NEW t \in Proc, Later(proc[p], t), Sound(t, Retained(p)),
           t.run = None, ~t.timer, ScheduleIdle(p, t)
    PROVE  /\ Changed /\ proc'[p].run = None /\ proc'[p].working = t.working
           /\ \A q \in Procs \ {p} : proc'[q].run = proc[q].run /\ proc'[q].working = proc[q].working
<1>1. CASE ~Retained(p) \/ t.life \notin {"up", "signalled"} \/ t.cancelled
  <2>1. proc' = [proc EXCEPT ![p] = t] /\ UNCHANGED <<sessions, token>>
    BY <1>1 DEF ScheduleIdle
  <2>2. Changed /\ proc'[p] = t /\ \A q \in Procs \ {p} : proc'[q] = proc[q]
    BY <2>1, LocalChange
  <2>3. QED
    BY <2>2
<1>2. CASE ~(~Retained(p) \/ t.life \notin {"up", "signalled"} \/ t.cancelled)
  <2>1. PICK gone : gone = Swept(p)
    OBVIOUS
  <2>2. PICK u : u = [t EXCEPT !.timer = TRUE]
    OBVIOUS
  <2>3. PICK kept : kept = [proc EXCEPT ![p] = u]
    OBVIOUS
  <2>4. /\ proc' = [x \in Procs |-> IF x \in gone THEN Retired(kept[x]) ELSE kept[x]]
        /\ sessions' = {o \in Renewed(p) : o[1] \notin gone /\ o[2] \notin gone}
        /\ token' = token \ ConvsOf(gone)
    BY <1>2, <2>1, <2>2, <2>3 DEF ScheduleIdle
  <2>5. Retained(p) /\ p \in Residents /\ Residents \cup {p} = Residents
    BY <1>2 DEF Residents
  <2>6. Ordered(Renewed(p)) /\ Field(Renewed(p)) = Residents
    BY <2>5, SetAgain DEF IInv
  <2>7. Ordered(sessions') /\ Field(sessions') = Residents \ gone
    BY <2>4, <2>6, TakenOut
  <2>8. Residents' = Residents \ gone /\ gone \subseteq Idle(p) /\ Idle(p) \subseteq Residents /\ Residents \subseteq Procs
    BY <2>1, <2>7 DEF Residents, Retained, Field, Swept, Idle
  <2>9. \A q \in Procs : Retained(q)' <=> Retained(q) /\ q \notin gone
    BY <2>8 DEF Residents
  <2>10. /\ u \in Proc /\ u.timer = TRUE /\ u.conv = t.conv /\ u.life = t.life /\ u.run = t.run
         /\ u.term = t.term /\ u.working = t.working
    BY <2>2 DEF Proc
  <2>11. Later(proc[p], u) /\ Sound(u, Retained(p))
    BY <2>5, <2>10 DEF Later, Sound
  <2>12. kept[p] = u /\ \A q \in Procs \ {p} : kept[q] = proc[q]
    BY <2>3 DEF IInv
  <2>13. ASSUME NEW q \in Procs
         PROVE  /\ kept[q] \in Proc /\ Later(proc[q], kept[q]) /\ Sound(kept[q], Retained(q))
                /\ Retained(q) \in BOOLEAN /\ (q # p => kept[q] = proc[q])
    <3>1. proc[q] \in Proc /\ Sound(proc[q], Retained(q)) /\ Retained(q) \in BOOLEAN
      BY DEF IInv, Retained
    <3>2. Later(proc[q], proc[q])
      BY DEF Later
    <3>3. CASE q = p
      BY <2>10, <2>11, <2>12, <3>1, <3>3
    <3>4. CASE q # p
      BY <2>12, <3>1, <3>2, <3>4
    <3>5. QED
      BY <3>3, <3>4
  <2>14. ASSUME NEW q \in Procs
         PROVE  /\ proc'[q] \in Proc /\ Later(proc[q], proc'[q]) /\ Sound(proc'[q], Retained(q)')
                /\ proc'[q].run = kept[q].run /\ proc'[q].working = kept[q].working
                /\ (proc'[q].timer => kept[q].timer)
    <3>1. /\ kept[q] \in Proc /\ Later(proc[q], kept[q]) /\ Sound(kept[q], Retained(q))
          /\ Retained(q) \in BOOLEAN
      BY <2>13
    <3>2. CASE q \in gone
      <4>1. proc'[q] = Retired(kept[q]) /\ Retained(q)' = FALSE
        BY <2>4, <2>9, <3>2
      <4>2. /\ proc'[q] \in Proc /\ Later(kept[q], proc'[q]) /\ Sound(proc'[q], FALSE)
            /\ proc'[q].run = kept[q].run /\ ~proc'[q].timer /\ proc'[q].working = kept[q].working
        BY <3>1, <4>1, GivenUp
      <4>3. Later(proc[q], proc'[q])
        BY <3>1, <4>2 DEF Later
      <4>4. QED
        BY <4>1, <4>2, <4>3
    <3>3. CASE q \notin gone
      <4>1. proc'[q] = kept[q] /\ Retained(q)' = Retained(q)
        BY <2>4, <2>9, <3>3 DEF Retained
      <4>2. QED
        BY <3>1, <4>1
    <3>4. QED
      BY <3>2, <3>3
  <2>15. proc' \in [Procs -> Proc]
    BY <2>4, <2>14
  <2>16. Cardinality(Timed') <= IdleLimit
    <3>1. PICK o : o = Renewed(p)
      OBVIOUS
    <3>2. PICK idle : idle = Idle(p)
      OBVIOUS
    <3>3. \A x : FromIdle(p, x) = NoOlder(o, idle, x)
      BY <3>1, <3>2 DEF FromIdle, NoOlder
    <3>4. PICK young : young = Young(o, idle, IdleLimit)
      OBVIOUS
    <3>5. IsFiniteSet(idle) /\ \A x \in idle : Cardinality(NoOlder(o, idle, x)) \in Nat
      <4>1. IsFiniteSet(idle)
        BY <2>8, <3>2, TimedIsFinite, FS_Subset
      <4>2. \A x \in idle : NoOlder(o, idle, x) \subseteq idle
        BY DEF NoOlder
      <4>3. QED
        BY <4>1, <4>2, FS_Subset, FS_CardinalityType
    <3>6. IsFiniteSet(young) /\ Cardinality(young) <= IdleLimit
      <4>1. Ordered(o) /\ idle \subseteq Field(o) /\ IdleLimit \in Nat
        BY <2>6, <2>8, <3>1, <3>2, CodexAssumption
      <4>2. QED
        BY <3>4, <3>5, <4>1, Youngest
    <3>7. Timed' \subseteq young
      <4>1. SUFFICES ASSUME NEW x \in Procs, x \in Residents', proc'[x].timer PROVE x \in young
        BY <2>8 DEF Timed
      <4>2. x \in Residents /\ x \notin gone
        BY <2>8, <4>1
      <4>3. x \in idle
        <5>1. kept[x].timer
          BY <2>14, <4>1
        <5>2. x = p \/ proc[x].run = None
          BY <2>13, <5>1 DEF IInv, Sound
        <5>3. QED
          BY <3>2, <4>2, <5>2 DEF Idle
      <4>4. ~(Cardinality(NoOlder(o, idle, x)) > IdleLimit)
        BY <2>1, <3>2, <3>3, <4>2, <4>3 DEF Swept
      <4>5. IdleLimit \in Nat /\ Cardinality(NoOlder(o, idle, x)) \in Nat
        BY <3>5, <4>3, CodexAssumption
      <4>6. QED
        BY <3>4, <4>3, <4>4, <4>5 DEF Young
    <3>8. Cardinality(Timed') <= Cardinality(young) /\ Cardinality(young) \in Nat /\ Cardinality(Timed') \in Nat
      BY <3>6, <3>7, FS_Subset, FS_CardinalityType
    <3>9. QED
      BY <3>6, <3>8, CodexAssumption
  <2>17. Residents \cap gone = gone
    BY <2>8
  <2>18. Changed
    BY <2>4, <2>7, <2>8, <2>14, <2>15, <2>16, <2>17 DEF Changed
  <2>19. proc'[p].run = None /\ proc'[p].working = t.working
    BY <2>10, <2>12, <2>14
  <2>20. \A q \in Procs \ {p} : proc'[q].run = proc[q].run /\ proc'[q].working = proc[q].working
    BY <2>13, <2>14
  <2>21. QED
    BY <2>18, <2>19, <2>20
<1>3. QED
  BY <1>1, <1>2

\* The finally block of a run's generator, for a process whose record is t by then.
LEMMA FinallyChange ==
    ASSUME IInv, NEW r \in Runs, run[r].active, NEW completed \in BOOLEAN,
           NEW t \in Proc, Later(proc[run[r].proc], t), Sound(t, Retained(run[r].proc)),
           t.run = proc[run[r].proc].run, t.timer = proc[run[r].proc].timer, Finally(r, t, completed)
    PROVE  /\ Changed /\ run[r].proc \in Procs /\ proc'[run[r].proc].working = t.working
           /\ \A p \in Procs : proc'[p].run # proc[p].run => proc[p].run = r
           /\ \A p \in Procs \ {run[r].proc} : proc'[p].working = proc[p].working
<1>1. PICK p : p = run[r].proc
  OBVIOUS
<1>2. p \in Procs /\ proc[p].run = r /\ proc[p] \in Proc /\ Retained(p) \in BOOLEAN
  BY <1>1 DEF IInv, Driving, Run, Retained
<1>3. t.run = r /\ r # None /\ ~t.timer
  <2>1. t.run = r
    BY <1>1, <1>2
  <2>2. r # None
    BY CodexAssumption DEF Runs
  <2>3. QED
    BY <1>1, <2>1, <2>2 DEF Sound
<1>4. PICK u : u = Freed(t)
  OBVIOUS
<1>5. /\ u \in Proc /\ Later(t, u) /\ Sound(u, Retained(p))
      /\ u.run = None /\ u.timer = t.timer /\ u.working = t.working
  BY <1>1, <1>2, <1>4, LetGo
<1>6. Later(proc[p], u)
  BY <1>1, <1>2, <1>5 DEF Later
<1>7. CASE completed
  <2>1. ScheduleIdle(p, u)
    BY <1>1, <1>3, <1>4, <1>7 DEF Finally, ProcOf
  <2>2. /\ Changed /\ proc'[p].run = None /\ proc'[p].working = u.working
        /\ \A q \in Procs \ {p} : proc'[q].run = proc[q].run /\ proc'[q].working = proc[q].working
    BY <1>2, <1>3, <1>5, <1>6, <2>1, IdleChange
  <2>3. QED
    BY <1>1, <1>2, <1>5, <2>2
<1>8. CASE ~completed
  <2>1. proc' = [proc EXCEPT ![p] = u] /\ UNCHANGED <<sessions, token>>
    BY <1>1, <1>3, <1>4, <1>8 DEF Finally, ProcOf
  <2>2. Changed /\ proc'[p] = u /\ \A q \in Procs \ {p} : proc'[q] = proc[q]
    BY <1>2, <1>3, <1>5, <1>6, <2>1, LocalChange
  <2>3. QED
    BY <1>1, <1>2, <1>5, <2>2
<1>9. QED
  BY <1>7, <1>8

-----------------------------------------------------------------------------
(* The steps of a run                                                      *)

\* A run that has a process, and the record of that process.
LEMMA DrivenBy ==
    ASSUME IInv, NEW r \in Runs, run[r].pc \notin {"none", "version", "done"}
    PROVE  LET p == run[r].proc IN
           /\ p \in Procs /\ proc[p] \in Proc /\ Later(proc[p], proc[p]) /\ Sound(proc[p], Retained(p))
           /\ Retained(p) \in BOOLEAN /\ run[r] \in Run /\ run \in [Runs -> Run]
           /\ (run[r].active => proc[p].run = r) /\ proc \in [Procs -> Proc]
<1>1. run[r] \in Run /\ Driving(r, run[r], proc) /\ proc \in [Procs -> Proc] /\ run \in [Runs -> Run]
  BY DEF IInv
<1>2. run[r].proc \in Procs
  BY <1>1 DEF Driving, Run
<1>3. proc[run[r].proc] \in Proc /\ Sound(proc[run[r].proc], Retained(run[r].proc))
  BY <1>1, <1>2 DEF IInv
<1>4. QED
  BY <1>1, <1>2, <1>3 DEF Driving, Later, Retained

\* Its process does not work before its stream begins and after it has waited.
LEMMA AtRest ==
    ASSUME IInv, NEW r \in Runs, run[r].pc \notin Working \cup {"none", "version", "done"}
    PROVE  ~proc[run[r].proc].working
<1>1. run[r].proc \in Procs /\ Driving(r, run[r], proc)
  BY DrivenBy DEF IInv
<1>2. SUFFICES ASSUME proc[run[r].proc].working PROVE FALSE
  OBVIOUS
<1>3. PICK q \in Runs : run[q].proc = run[r].proc /\ run[q].pc \in Working
  BY <1>1, <1>2 DEF IInv, Watched
<1>4. Driving(q, run[q], proc) /\ run[q].proc # 0
  BY <1>1, <1>3 DEF IInv, Driving, Working
<1>5. run[q].conv = run[r].conv
  BY <1>1, <1>3, <1>4 DEF Driving
<1>6. Busy(q) /\ Busy(r)
  BY <1>3 DEF Busy, Working
<1>7. q = r
  BY <1>5, <1>6 DEF IInv, OneBusy
<1>8. QED
  BY <1>3, <1>7

\* The process of a run is cancelled, or stays as it is.
LEMMA CancelChange ==
    ASSUME IInv, NEW r \in Runs, run[r].pc \notin {"none", "version", "done"},
           NEW t \in {proc[run[r].proc], Cancelled(proc[run[r].proc]), Terminated(proc[run[r].proc])},
           proc' = [proc EXCEPT ![run[r].proc] = t], UNCHANGED <<sessions, token>>
    PROVE  /\ Changed /\ \A p \in Procs : proc'[p].run = proc[p].run /\ proc'[p].working = proc[p].working
           /\ run[r].proc \in Procs
<1>1. PICK p \in Procs : p = run[r].proc
  BY DrivenBy
<1>2. proc[p] \in Proc /\ Later(proc[p], proc[p]) /\ Sound(proc[p], Retained(p)) /\ Retained(p) \in BOOLEAN
  BY <1>1, DrivenBy
<1>3. /\ t \in Proc /\ Later(proc[p], t) /\ Sound(t, Retained(p))
      /\ t.run = proc[p].run /\ t.timer = proc[p].timer /\ t.working = proc[p].working
  <2>1. CASE t = proc[p]
    BY <1>2, <2>1
  <2>2. CASE t \in {Terminated(proc[p]), Cancelled(proc[p])}
    BY <1>2, <2>2, Ended
  <2>3. QED
    BY <1>1, <2>1, <2>2
<1>4. proc' = [proc EXCEPT ![p] = t]
  BY <1>1
<1>5. Changed /\ proc'[p] = t /\ \A q \in Procs \ {p} : proc'[q] = proc[q]
  BY <1>3, <1>4, LocalChange
<1>6. QED
  BY <1>1, <1>3, <1>5

\* The process of a run, and its work, change.
LEMMA WorkChange ==
    ASSUME IInv, NEW r \in Runs, run[r].pc \notin {"none", "version", "done"}, NEW w \in BOOLEAN,
           w => proc[run[r].proc].life = "up",
           NEW t, t = [proc[run[r].proc] EXCEPT !.working = w]
    PROVE  /\ t \in Proc /\ Later(proc[run[r].proc], t) /\ Sound(t, Retained(run[r].proc))
           /\ t.run = proc[run[r].proc].run /\ t.timer = proc[run[r].proc].timer /\ t.working = w
<1>1. PICK p \in Procs : p = run[r].proc
  BY DrivenBy
<1>2. proc[p] \in Proc /\ Sound(proc[p], Retained(p))
  BY <1>1, DrivenBy
<1>3. /\ t \in Proc /\ t.run = proc[p].run /\ t.timer = proc[p].timer /\ t.working = w
      /\ t.conv = proc[p].conv /\ t.life = proc[p].life /\ t.term = proc[p].term
  BY <1>1, <1>2 DEF Proc
<1>4. Later(proc[p], t) /\ Sound(t, Retained(p))
  BY <1>1, <1>2, <1>3 DEF Later, Sound
<1>5. QED
  BY <1>1, <1>3, <1>4

\* A process begins to work once its run is in the stream.
LEMMA BeginStep == ASSUME IInv, NEW r \in Runs, Begin(r) PROVE IInv'
<1>1. PICK p \in Procs : p = run[r].proc
  BY DrivenBy DEF Begin
<1>2. /\ run[r].pc = "bound" /\ UNCHANGED <<sessions, token, faults>>
      /\ run' = [run EXCEPT ![r].pc = "stream"]
      /\ proc' = [proc EXCEPT ![p].working = Up(p) /\ proc[p].thread]
  BY <1>1 DEF Begin, ProcOf
<1>3. /\ proc[p] \in Proc /\ run[r] \in Run /\ (run[r].active => proc[p].run = r) /\ run \in [Runs -> Run]
      /\ proc \in [Procs -> Proc]
  BY <1>1, <1>2, DrivenBy
<1>4. PICK w \in BOOLEAN : w = (Up(p) /\ proc[p].thread)
  BY <1>3 DEF Up
<1>5. PICK t : t = [proc[p] EXCEPT !.working = w]
  OBVIOUS
<1>6. /\ t \in Proc /\ Later(proc[p], t) /\ Sound(t, Retained(p))
      /\ t.run = proc[p].run /\ t.timer = proc[p].timer /\ t.working = w
  <2>1. w => proc[p].life = "up"
    BY <1>4 DEF Up
  <2>2. QED
    BY <1>1, <1>2, <1>5, <2>1, WorkChange
<1>7. proc' = [proc EXCEPT ![p] = t]
  BY <1>2, <1>3, <1>4, <1>5
<1>8. Changed /\ proc'[p] = t /\ \A q \in Procs \ {p} : proc'[q] = proc[q]
  BY <1>2, <1>6, <1>7, LocalChange
<1>9. PICK x : x = [run[r] EXCEPT !.pc = "stream"]
  OBVIOUS
<1>10. /\ x \in Run /\ x.conv = run[r].conv /\ x.proc = run[r].proc /\ x.settled = run[r].settled
       /\ x.pc = "stream" /\ x.active = run[r].active
  BY <1>3, <1>9 DEF Run
<1>11. run' = [run EXCEPT ![r] = x] /\ faults' \in 0..MaxFaults
  BY <1>2, <1>3, <1>9 DEF IInv
<1>12. \A q \in Procs : proc'[q].run = proc[q].run /\ (q # p => proc'[q].working = proc[q].working)
  BY <1>6, <1>8
<1>13. x.active => run[r].active /\ proc'[p].run = r
  BY <1>3, <1>10, <1>12
<1>14. Becomes(r, x) /\ Drives(r)
  BY <1>1, <1>2, <1>10, <1>11, <1>12, <1>13 DEF Working, Becomes, Drives
<1>15. QED
  BY <1>8, <1>11, <1>14, OneRun

\* A run that is left before its stream leaves a process that does not work.
LEMMA BindFailsStep == ASSUME IInv, NEW r \in Runs, BindFails(r) PROVE IInv'
<1>1. PICK p \in Procs : p = run[r].proc
  BY DrivenBy DEF BindFails
<1>2. /\ run[r].pc = "bound" /\ UNCHANGED <<sessions, token>> /\ faults' = faults + 1 /\ faults < MaxFaults
      /\ run' = [run EXCEPT ![r].pc = "done"]
      /\ proc' = [proc EXCEPT ![p] = Cancelled(@)]
  BY <1>1 DEF BindFails, ProcOf, Fault
<1>3. /\ proc[p] \in Proc /\ run[r] \in Run /\ (run[r].active => proc[p].run = r) /\ run \in [Runs -> Run]
      /\ proc \in [Procs -> Proc]
  BY <1>1, <1>2, DrivenBy
<1>4. proc' = [proc EXCEPT ![run[r].proc] = Cancelled(proc[run[r].proc])]
  BY <1>1, <1>2
<1>5. Changed /\ \A q \in Procs : proc'[q].run = proc[q].run /\ proc'[q].working = proc[q].working
  BY <1>2, <1>4, CancelChange
<1>6. PICK x : x = [run[r] EXCEPT !.pc = "done"]
  OBVIOUS
<1>7. /\ x \in Run /\ x.conv = run[r].conv /\ x.proc = run[r].proc /\ x.settled = run[r].settled
      /\ x.pc = "done" /\ x.active = run[r].active
  BY <1>3, <1>6 DEF Run
<1>8. run' = [run EXCEPT ![r] = x] /\ faults' \in 0..MaxFaults
  BY <1>2, <1>3, <1>6, CodexAssumption DEF IInv
<1>9. ~proc'[p].working
  BY <1>1, <1>2, <1>5, AtRest DEF Working
<1>10. x.active => run[r].active /\ proc'[p].run = r
  BY <1>3, <1>5, <1>7
<1>11. Becomes(r, x) /\ Drives(r)
  BY <1>1, <1>2, <1>5, <1>7, <1>8, <1>9, <1>10 DEF Becomes, Drives
<1>12. QED
  BY <1>5, <1>8, <1>11, OneRun

\* The generator is over and cleans up behind it; the run waits for its process
\* unless its turn was completed.
LEMMA CleansUp ==
    ASSUME IInv, NEW r \in Runs, run[r].pc \notin {"none", "version", "done"}, run[r].active,
           NEW completed \in BOOLEAN, NEW t \in Proc, Later(proc[run[r].proc], t), Sound(t, Retained(run[r].proc)),
           t.run = proc[run[r].proc].run, t.timer = proc[run[r].proc].timer, Finally(r, t, completed),
           NEW l \in {"settling", "finishing"}, run' = [run EXCEPT ![r] = Over(run[r], l)],
           l = "finishing" => ~t.working, faults' \in 0..MaxFaults
    PROVE  IInv'
<1>1. /\ Changed /\ run[r].proc \in Procs /\ proc'[run[r].proc].working = t.working
      /\ \A p \in Procs : proc'[p].run # proc[p].run => proc[p].run = r
      /\ \A p \in Procs \ {run[r].proc} : proc'[p].working = proc[p].working
  BY FinallyChange
<1>2. PICK x : x = Over(run[r], l)
  OBVIOUS
<1>3. run[r] \in Run
  BY DrivenBy
<1>4. /\ x \in Run /\ x.conv = run[r].conv /\ x.proc = run[r].proc /\ x.settled = run[r].settled
      /\ x.pc = l /\ x.active = FALSE
  BY <1>2, <1>3 DEF Over, Run
<1>5. run' = [run EXCEPT ![r] = x]
  BY <1>2
<1>6. Drives(r)
  BY <1>1 DEF Drives
<1>7. Becomes(r, x)
  BY <1>1, <1>4, <1>5 DEF Becomes, Working
<1>8. QED
  BY <1>1, <1>6, <1>7, OneRun

\* An event of the provider.
LEMMA YieldsStep ==
    ASSUME IInv, NEW r \in Runs, Reading(r), NEW e \in Events, NEW t \in Proc,
           Later(proc[run[r].proc], t), Sound(t, Retained(run[r].proc)),
           t.run = proc[run[r].proc].run, t.timer = proc[run[r].proc].timer,
           e = "completed" => ~t.working, Yields(r, e, t), faults' \in 0..MaxFaults
    PROVE  IInv'
<1>1. run[r].pc \in {"stream", "returning"} /\ run[r].active
  BY DEF Reading
<1>2. PICK p \in Procs : p = run[r].proc
  BY <1>1, DrivenBy
<1>3. proc[p] \in Proc /\ run[r] \in Run /\ proc[p].run = r
  BY <1>1, <1>2, DrivenBy
<1>4. CASE run[r].pc = "stream"
  <2>1. /\ run' = [run EXCEPT ![r].pc = "recording", ![r].event = e]
        /\ proc' = [proc EXCEPT ![p] = t] /\ UNCHANGED <<sessions, token>>
    BY <1>2, <1>4 DEF Yields, ProcOf
  <2>2. Changed /\ proc'[p] = t /\ \A q \in Procs \ {p} : proc'[q] = proc[q]
    BY <1>2, <2>1, LocalChange
  <2>3. PICK x : x = [run[r] EXCEPT !.pc = "recording", !.event = e]
    OBVIOUS
  <2>4. /\ x \in Run /\ x.conv = run[r].conv /\ x.proc = run[r].proc /\ x.settled = run[r].settled
        /\ x.pc = "recording" /\ x.event = e /\ x.active = run[r].active
    BY <1>3, <2>3 DEF Run
  <2>5. run' = [run EXCEPT ![r] = x]
    BY <2>1, <2>3 DEF IInv
  <2>6. \A q \in Procs : proc'[q].run = proc[q].run /\ (q # p => proc'[q].working = proc[q].working)
    BY <1>2, <2>2
  <2>7. Drives(r)
    BY <1>2, <2>6 DEF Drives
  <2>8. Becomes(r, x)
    BY <1>1, <1>2, <1>3, <2>2, <2>4, <2>5, <2>6 DEF Becomes, Working
  <2>9. QED
    BY <2>2, <2>7, <2>8, OneRun
<1>5. CASE run[r].pc # "stream"
  <2>1. run' = [run EXCEPT ![r] = Over(@, "settling")] /\ Finally(r, t, e = "completed")
    BY <1>5 DEF Yields
  <2>2. run' = [run EXCEPT ![r] = Over(run[r], "settling")]
    BY <2>1
  <2>3. PICK completed \in BOOLEAN : completed = (e = "completed")
    OBVIOUS
  <2>4. Finally(r, t, completed)
    BY <2>1, <2>3
  <2>5. QED
    BY <1>1, <2>2, <2>4, CleansUp
<1>6. QED
  BY <1>4, <1>5

\* The generator has cleaned up, and tells the outcome.
LEMMA TellsStep ==
    ASSUME IInv, NEW r \in Runs, Reading(r), NEW e \in {"cancelled", "failed"}, NEW t \in Proc,
           Later(proc[run[r].proc], t), Sound(t, Retained(run[r].proc)),
           t.run = proc[run[r].proc].run, t.timer = proc[run[r].proc].timer,
           Finally(r, t, FALSE), Tells(r, e), faults' \in 0..MaxFaults
    PROVE  IInv'
<1>1. run[r].pc \in {"stream", "returning"} /\ run[r].active
  BY DEF Reading
<1>2. run[r] \in Run /\ run[r].proc \in Procs
  BY <1>1, DrivenBy
<1>3. CASE run[r].pc = "stream"
  <2>1. PICK x : x = [run[r] EXCEPT !.active = FALSE, !.event = e, !.pc = "recording"]
    OBVIOUS
  <2>2. run' = [run EXCEPT ![r] = x]
    BY <1>3, <2>1 DEF Tells, IInv
  <2>3. /\ x \in Run /\ x.conv = run[r].conv /\ x.proc = run[r].proc /\ x.settled = run[r].settled
        /\ x.pc = "recording" /\ x.event = e /\ x.active = FALSE
    BY <1>2, <2>1 DEF Run, Events, Terminal
  <2>4. /\ Changed
        /\ \A p \in Procs : proc'[p].run # proc[p].run => proc[p].run = r
        /\ \A p \in Procs \ {run[r].proc} : proc'[p].working = proc[p].working
    BY <1>1, FinallyChange
  <2>5. Becomes(r, x) /\ Drives(r)
    BY <1>1, <2>2, <2>3, <2>4 DEF Becomes, Drives, Working
  <2>6. QED
    BY <2>4, <2>5, OneRun
<1>4. CASE run[r].pc # "stream"
  <2>1. run' = [run EXCEPT ![r] = Over(run[r], "settling")]
    BY <1>4 DEF Tells, IInv
  <2>2. QED
    BY <1>1, <2>1, CleansUp
<1>5. QED
  BY <1>3, <1>4

\* The answer to thread/start or thread/resume.
LEMMA ThreadStartedStep == ASSUME IInv, NEW r \in Runs, ThreadStarted(r) PROVE IInv'
<1>1. PICK p \in Procs : p = run[r].proc
  BY DrivenBy DEF ThreadStarted, Reading
<1>2. PICK t : t = [proc[p] EXCEPT !.thread = TRUE]
  OBVIOUS
<1>3. Reading(r) /\ Yields(r, "session", t) /\ faults' \in 0..MaxFaults
  BY <1>1, <1>2 DEF ThreadStarted, ProcOf, IInv
<1>4. proc[p] \in Proc /\ Sound(proc[p], Retained(p))
  BY <1>1, <1>3, DrivenBy DEF Reading
<1>5. /\ t \in Proc /\ t.run = proc[p].run /\ t.timer = proc[p].timer /\ t.working = proc[p].working
      /\ t.conv = proc[p].conv /\ t.life = proc[p].life /\ t.term = proc[p].term
  BY <1>2, <1>4 DEF Proc
<1>6. Later(proc[p], t) /\ Sound(t, Retained(p))
  BY <1>4, <1>5 DEF Later, Sound
<1>7. "session" \in Events
  BY DEF Events
<1>8. QED
  BY <1>1, <1>3, <1>5, <1>6, <1>7, YieldsStep

\* Text, a tool, an approval or a question.
LEMMA ProgressStep == ASSUME IInv, NEW r \in Runs, Progress(r) PROVE IInv'
<1>1. Reading(r) /\ Yields(r, "progress", proc[run[r].proc]) /\ faults' \in 0..MaxFaults
  BY DEF Progress, ProcOf, IInv
<1>2. LET p == run[r].proc IN p \in Procs /\ proc[p] \in Proc /\ Later(proc[p], proc[p]) /\ Sound(proc[p], Retained(p))
  BY <1>1, DrivenBy DEF Reading
<1>3. "progress" \in Events
  BY DEF Events
<1>4. QED
  BY <1>1, <1>2, <1>3, YieldsStep

\* The end of a turn: after one that completed, the process does not work.
LEMMA NotifiedStep == ASSUME IInv, NEW r \in Runs, NEW e \in Terminal, Notified(r, e) PROVE IInv'
<1>1. PICK p \in Procs : p = run[r].proc
  BY DrivenBy DEF Notified, Reading
<1>2. Reading(r) /\ proc[p].working /\ faults' \in 0..MaxFaults
  BY <1>1 DEF Notified, ProcOf, IInv
<1>3. PICK w \in BOOLEAN : Yields(r, e, [proc[p] EXCEPT !.working = w]) /\ (e = "completed" => w = FALSE)
  BY <1>1 DEF Notified, ProcOf
<1>4. PICK t : t = [proc[p] EXCEPT !.working = w]
  OBVIOUS
<1>5. proc[p].life = "up" /\ run[r].pc \notin {"none", "version", "done"}
  BY <1>2 DEF IInv, Sound, Reading
<1>6. /\ t \in Proc /\ Later(proc[p], t) /\ Sound(t, Retained(p))
      /\ t.run = proc[p].run /\ t.timer = proc[p].timer /\ t.working = w
  BY <1>1, <1>4, <1>5, WorkChange
<1>7. e \in Events
  BY DEF Events
<1>8. QED
  BY <1>1, <1>2, <1>3, <1>4, <1>6, <1>7, YieldsStep

\* The end of stdout: the process has ended, so it does not work.
LEMMA StreamEndsStep == ASSUME IInv, NEW r \in Runs, StreamEnds(r) PROVE IInv'
<1>1. PICK e \in {"cancelled", "failed"} :
         Reading(r) /\ Finally(r, proc[run[r].proc], FALSE) /\ Tells(r, e) /\ faults' \in 0..MaxFaults
  BY DEF StreamEnds, ProcOf, IInv
<1>2. LET p == run[r].proc IN p \in Procs /\ proc[p] \in Proc /\ Later(proc[p], proc[p]) /\ Sound(proc[p], Retained(p))
  BY <1>1, DrivenBy DEF Reading
<1>3. QED
  BY <1>1, <1>2, TellsStep

\* A message that cannot be used, from a cancelled run or another one.
LEMMA ProtocolFailsStep == ASSUME IInv, NEW r \in Runs, ProtocolFails(r) PROVE IInv'
<1>1. Reading(r) /\ faults' \in 0..MaxFaults /\ run[r].active /\ run[r].pc \in {"stream", "returning"}
  BY DEF ProtocolFails, IInv, Reading
<1>2. PICK p \in Procs : p = run[r].proc
  BY <1>1, DrivenBy
<1>3. /\ proc[p] \in Proc /\ Sound(proc[p], Retained(p)) /\ Retained(p) \in BOOLEAN
      /\ run[r] \in Run /\ proc[p].run = r
  BY <1>1, <1>2, DrivenBy
<1>4. CASE proc[p].cancelled
  <2>1. PICK t : t = Terminated(proc[p])
    OBVIOUS
  <2>2. Finally(r, t, FALSE) /\ Tells(r, "cancelled")
    BY <1>2, <1>4, <2>1 DEF ProtocolFails, ProcOf
  <2>3. /\ t \in Proc /\ Later(proc[p], t) /\ Sound(t, Retained(p))
        /\ t.run = proc[p].run /\ t.timer = proc[p].timer
    BY <1>3, <2>1, Ended
  <2>4. QED
    BY <1>1, <1>2, <2>2, <2>3, TellsStep
<1>5. CASE ~proc[p].cancelled
  <2>1. /\ run[r].pc = "stream" /\ Retire({p})
        /\ run' = [run EXCEPT ![r].pc = "recording", ![r].event = "failed"]
    BY <1>2, <1>5 DEF ProtocolFails, ProcOf
  <2>2. Changed /\ \A q \in Procs : proc'[q].run = proc[q].run /\ proc'[q].working = proc[q].working
    <3>1. {p} \in SUBSET Procs
      OBVIOUS
    <3>2. QED
      BY <2>1, <3>1, RetireChange
  <2>3. PICK x : x = [run[r] EXCEPT !.pc = "recording", !.event = "failed"]
    OBVIOUS
  <2>4. /\ x \in Run /\ x.conv = run[r].conv /\ x.proc = run[r].proc /\ x.settled = run[r].settled
        /\ x.pc = "recording" /\ x.event = "failed" /\ x.active = run[r].active
    BY <1>3, <2>3 DEF Run, Events, Terminal
  <2>5. run' = [run EXCEPT ![r] = x]
    BY <2>1, <2>3 DEF IInv
  <2>6. Becomes(r, x) /\ Drives(r)
    BY <1>2, <1>3, <2>1, <2>2, <2>4, <2>5 DEF Becomes, Drives, Working
  <2>7. QED
    BY <1>1, <2>2, <2>6, OneRun
<1>6. QED
  BY <1>4, <1>5

\* The turn is known by its id.
LEMMA TurnAcceptedStep == ASSUME IInv, NEW r \in Runs, TurnAccepted(r) PROVE IInv'
<1>1. PICK p \in Procs : p = run[r].proc
  BY DrivenBy DEF TurnAccepted, Reading
<1>2. proc[p] \in Proc /\ Sound(proc[p], Retained(p)) /\ proc \in [Procs -> Proc]
  BY <1>1, DrivenBy DEF TurnAccepted, Reading
<1>3. PICK t : t = [proc[p] EXCEPT !.turn = TRUE]
  OBVIOUS
<1>4. proc' = [proc EXCEPT ![p] = t] /\ UNCHANGED <<sessions, run, token, faults>>
  BY <1>1, <1>2, <1>3 DEF TurnAccepted, ProcOf
<1>5. /\ t \in Proc /\ t.run = proc[p].run /\ t.timer = proc[p].timer /\ t.working = proc[p].working
      /\ t.conv = proc[p].conv /\ t.life = proc[p].life /\ t.term = proc[p].term
  BY <1>2, <1>3 DEF Proc
<1>6. Later(proc[p], t) /\ Sound(t, Retained(p))
  BY <1>2, <1>5 DEF Later, Sound
<1>7. Changed /\ proc'[p] = t /\ \A q \in Procs \ {p} : proc'[q] = proc[q]
  BY <1>4, <1>5, <1>6, LocalChange
<1>8. \A q \in Procs : proc'[q].run = proc[q].run /\ (proc'[q].working => proc[q].working)
  BY <1>5, <1>7
<1>9. QED
  BY <1>4, <1>7, <1>8, NoRun DEF IInv

-----------------------------------------------------------------------------
(* The consumer's steps                                                    *)

\* A step that leaves the processes as they are.
LEMMA NoChange ==
    ASSUME IInv, UNCHANGED <<proc, sessions, token>>
    PROVE  Changed
<1>1. /\ proc \in [Procs -> Proc] /\ Ordered(sessions) /\ \A p \in Procs : Sound(proc[p], Retained(p))
      /\ Cardinality(Timed) <= IdleLimit
  BY DEF IInv
<1>2. Residents' = Residents /\ Timed' = Timed /\ \A p \in Procs : Retained(p)' = Retained(p)
  BY DEF Residents, Timed, Retained
<1>3. \A p \in Procs : Later(proc[p], proc'[p]) /\ Sound(proc'[p], Retained(p)')
  BY <1>1, <1>2 DEF Later
<1>4. Residents' = Residents \ {} /\ token' = token \ ConvsOf(Residents \cap {})
  <2>1. Residents \cap {} = {} /\ ConvsOf({}) = {}
    BY DEF ConvsOf
  <2>2. QED
    BY <1>2, <2>1
<1>5. QED
  BY <1>1, <1>2, <1>3, <1>4 DEF Changed

\* A step of the consumer that leaves the processes as they are.
LEMMA ConsumerMoves ==
    ASSUME IInv, UNCHANGED <<proc, sessions, token>>, faults' \in 0..MaxFaults,
           NEW r \in Runs, NEW x \in Run, run' = [run EXCEPT ![r] = x],
           run[r].pc \notin {"none", "version", "done"}, x.pc \notin {"none", "version"},
           x.conv = run[r].conv, x.proc = run[r].proc, x.settled = run[r].settled,
           x.active => run[r].active,
           proc[run[r].proc].working => x.pc \in Working \ {"recording"}
    PROVE  IInv'
<1>1. Changed
  BY NoChange
<1>2. x.active => proc[run[r].proc].run = r
  BY DrivenBy
<1>3. Drives(r) /\ Becomes(r, x)
  BY <1>2 DEF Drives, Becomes
<1>4. QED
  BY <1>1, <1>3, OneRun

\* The consumer leaves its loop.
LEMMA LeavesLoop ==
    ASSUME IInv, NEW r \in Runs, run[r].pc = "recording", faults' \in 0..MaxFaults,
           NEW l \in {"settling", "finishing"}, run' = [run EXCEPT ![r] = Over(run[r], l)],
           l = "finishing" => run[r].event = "completed",
           NEW t \in {proc[run[r].proc], Cancelled(proc[run[r].proc])},
           IF run[r].active THEN Finally(r, t, run[r].event = "completed")
                            ELSE UNCHANGED <<proc, sessions, token>>
    PROVE  IInv'
<1>1. PICK p \in Procs : p = run[r].proc
  BY DrivenBy
<1>2. /\ proc[p] \in Proc /\ Sound(proc[p], Retained(p)) /\ Retained(p) \in BOOLEAN /\ Later(proc[p], proc[p])
      /\ run[r] \in Run
  BY <1>1, DrivenBy
<1>3. run[r].event = "completed" => ~proc[p].working
  BY <1>1 DEF IInv, Driving
<1>4. CASE run[r].active
  <2>1. /\ t \in Proc /\ Later(proc[p], t) /\ Sound(t, Retained(p))
        /\ t.run = proc[p].run /\ t.timer = proc[p].timer /\ t.working = proc[p].working
    <3>1. CASE t = proc[p]
      BY <1>2, <3>1
    <3>2. CASE t = Cancelled(proc[p])
      BY <1>2, <3>2, Ended
    <3>3. QED
      BY <1>1, <3>1, <3>2
  <2>2. PICK completed \in BOOLEAN : completed = (run[r].event = "completed")
    OBVIOUS
  <2>3. Finally(r, t, completed)
    BY <1>4, <2>2
  <2>4. l = "finishing" => ~t.working
    BY <1>3, <2>1
  <2>5. QED
    BY <1>1, <1>4, <2>1, <2>3, <2>4, CleansUp
<1>5. CASE ~run[r].active
  <2>1. PICK x : x = Over(run[r], l)
    OBVIOUS
  <2>2. /\ x \in Run /\ x.conv = run[r].conv /\ x.proc = run[r].proc /\ x.settled = run[r].settled
        /\ x.pc = l /\ x.active = FALSE
    BY <1>2, <2>1 DEF Over, Run
  <2>3. run' = [run EXCEPT ![r] = x] /\ UNCHANGED <<proc, sessions, token>>
    BY <1>5, <2>1
  <2>4. proc[run[r].proc].working => x.pc \in Working \ {"recording"}
    BY <1>1, <1>3, <2>2 DEF Working
  <2>5. QED
    BY <2>2, <2>3, <2>4, ConsumerMoves
<1>6. QED
  BY <1>4, <1>5

\* The consumer asks for the next event, or leaves its loop.
LEMMA RecordedStep == ASSUME IInv, NEW r \in Runs, Recorded(r) PROVE IInv'
<1>1. PICK p \in Procs : p = run[r].proc
  BY DrivenBy DEF Recorded
<1>2. run[r].pc = "recording" /\ faults' \in 0..MaxFaults
  BY DEF Recorded, IInv
<1>3. /\ proc[p] \in Proc /\ Sound(proc[p], Retained(p)) /\ run[r] \in Run /\ proc \in [Procs -> Proc]
      /\ (run[r].active => proc[p].run = r)
  BY <1>1, <1>2, DrivenBy
<1>4. CASE run[r].event \notin Terminal /\ ~run[r].closed
  <2>1. /\ run' = [run EXCEPT ![r].pc = "stream", ![r].event = None] /\ UNCHANGED <<sessions, token>>
        /\ proc' = [proc EXCEPT ![p].working = IF run[r].event = "session" THEN Up(p) ELSE @]
    BY <1>1, <1>4 DEF Recorded, ProcOf
  <2>2. PICK w \in BOOLEAN : w = IF run[r].event = "session" THEN Up(p) ELSE proc[p].working
    BY <1>3 DEF Proc, Up
  <2>3. PICK t : t = [proc[p] EXCEPT !.working = w]
    OBVIOUS
  <2>4. w => proc[p].life = "up"
    BY <1>3, <2>2 DEF Up, Sound
  <2>5. /\ t \in Proc /\ Later(proc[p], t) /\ Sound(t, Retained(p))
        /\ t.run = proc[p].run /\ t.timer = proc[p].timer
    BY <1>1, <1>2, <2>3, <2>4, WorkChange
  <2>6. proc' = [proc EXCEPT ![p] = t]
    BY <1>3, <2>1, <2>2, <2>3
  <2>7. Changed /\ proc'[p] = t /\ \A q \in Procs \ {p} : proc'[q] = proc[q]
    BY <2>1, <2>5, <2>6, LocalChange
  <2>8. PICK x : x = [run[r] EXCEPT !.pc = "stream", !.event = None]
    OBVIOUS
  <2>9. /\ x \in Run /\ x.conv = run[r].conv /\ x.proc = run[r].proc /\ x.settled = run[r].settled
        /\ x.pc = "stream" /\ x.active = run[r].active
    BY <1>3, <2>8 DEF Run
  <2>10. run' = [run EXCEPT ![r] = x]
    BY <2>1, <2>8 DEF IInv
  <2>11. \A q \in Procs : proc'[q].run = proc[q].run /\ (q # p => proc'[q].working = proc[q].working)
    BY <2>5, <2>7
  <2>12. Drives(r) /\ Becomes(r, x)
    BY <1>1, <1>2, <1>3, <2>9, <2>10, <2>11 DEF Drives, Becomes, Working
  <2>13. QED
    BY <1>2, <2>7, <2>12, OneRun
<1>5. CASE ~(run[r].event \notin Terminal /\ ~run[r].closed)
  <2>1. PICK l \in {"settling", "finishing"} : l = IF run[r].event = "completed" THEN "finishing" ELSE "settling"
    OBVIOUS
  <2>2. run' = [run EXCEPT ![r] = Over(run[r], l)]
    BY <1>5, <2>1 DEF Recorded
  <2>3. IF run[r].active THEN Finally(r, proc[p], run[r].event = "completed")
                         ELSE UNCHANGED <<proc, sessions, token>>
    BY <1>1, <1>5 DEF Recorded, ProcOf
  <2>4. QED
    BY <1>1, <1>2, <2>1, <2>2, <2>3, LeavesLoop
<1>6. QED
  BY <1>4, <1>5

\* The consumer leaves its loop because of the history.
LEMMA RecordFailsStep == ASSUME IInv, NEW r \in Runs, RecordFails(r) PROVE IInv'
<1>1. run[r].pc = "recording" /\ faults' \in 0..MaxFaults
  BY CodexAssumption DEF RecordFails, Fault, IInv
<1>2. run' = [run EXCEPT ![r] = Over(run[r], "settling")]
  BY DEF RecordFails
<1>3. IF run[r].active THEN Finally(r, Cancelled(proc[run[r].proc]), run[r].event = "completed")
                       ELSE UNCHANGED <<proc, sessions, token>>
  BY DEF RecordFails, ProcOf
<1>4. QED
  BY <1>1, <1>2, <1>3, LeavesLoop

\* The client goes away: the run is cancelled and waits for its process.
LEMMA TransportClosesStep == ASSUME IInv, NEW r \in Runs, TransportCloses(r) PROVE IInv'
<1>1. PICK p \in Procs : p = run[r].proc
  BY DrivenBy DEF TransportCloses
<1>2. /\ run[r].pc \in {"stream", "recording"} /\ faults' \in 0..MaxFaults /\ UNCHANGED <<sessions, token>>
      /\ run' = [run EXCEPT ![r].closed = TRUE, ![r].pc = IF @ = "stream" THEN "returning" ELSE @]
      /\ proc' = IF run[r].active THEN [proc EXCEPT ![p] = Cancelled(@)] ELSE proc
  BY <1>1, CodexAssumption DEF TransportCloses, CancelRun, Fault, ProcOf, IInv
<1>3. run[r] \in Run /\ proc \in [Procs -> Proc] /\ (run[r].active => proc[p].run = r)
  BY <1>1, <1>2, DrivenBy
<1>4. \E t \in {proc[p], Cancelled(proc[p])} : proc' = [proc EXCEPT ![p] = t]
  BY <1>2, <1>3
<1>5. Changed /\ \A q \in Procs : proc'[q].run = proc[q].run /\ proc'[q].working = proc[q].working
  BY <1>1, <1>2, <1>4, CancelChange
<1>6. PICK x : x = [run[r] EXCEPT !.closed = TRUE, !.pc = IF run[r].pc = "stream" THEN "returning" ELSE run[r].pc]
  OBVIOUS
<1>7. /\ x \in Run /\ x.conv = run[r].conv /\ x.proc = run[r].proc /\ x.settled = run[r].settled
      /\ x.active = run[r].active /\ x.event = run[r].event
      /\ x.pc = IF run[r].pc = "stream" THEN "returning" ELSE run[r].pc
  BY <1>2, <1>3, <1>6 DEF Run
<1>8. run' = [run EXCEPT ![r] = x]
  BY <1>2, <1>6 DEF IInv
<1>9. x.pc = "recording" /\ x.event = "completed" => ~proc[p].working
  <2>1. x.pc = "recording" => run[r].pc = "recording"
    BY <1>7
  <2>2. Driving(r, run[r], proc)
    BY DEF IInv
  <2>3. run[r].pc = "recording" /\ run[r].event = "completed" => ~proc[p].working
    BY <1>1, <2>2 DEF Driving
  <2>4. QED
    BY <1>7, <2>1, <2>3
<1>10. Drives(r) /\ Becomes(r, x)
  BY <1>1, <1>2, <1>3, <1>5, <1>7, <1>8, <1>9 DEF Drives, Becomes, Working
<1>11. QED
  BY <1>2, <1>5, <1>10, OneRun

\* The operator cancels.
LEMMA CancelStep == ASSUME IInv, NEW r \in Runs, Cancel(r) PROVE IInv'
<1>1. PICK p \in Procs : p = run[r].proc
  BY DrivenBy DEF Cancel
<1>2. /\ run[r].pc \in {"stream", "recording"} /\ UNCHANGED <<sessions, run, token, faults>>
      /\ proc' = [proc EXCEPT ![p] = Cancelled(proc[p])]
  BY <1>1 DEF Cancel, CancelRun, ProcOf
<1>3. Changed /\ \A q \in Procs : proc'[q].run = proc[q].run /\ proc'[q].working = proc[q].working
  BY <1>1, <1>2, CancelChange
<1>4. QED
  BY <1>2, <1>3, NoRun DEF IInv

\* The worktree is given back: by then the process does not work.
LEMMA SettledStep == ASSUME IInv, NEW r \in Runs, Settled(r) \/ Finish(r) PROVE IInv'
<1>1. /\ UNCHANGED <<proc, sessions, token>> /\ faults' \in 0..MaxFaults
      /\ run[r].pc \in {"settling", "finishing"}
  BY DEF Settled, Finish, IInv
<1>2. PICK l \in {"finishing", "done"} : run' = [run EXCEPT ![r].pc = l]
  BY DEF Settled, Finish
<1>3. run[r] \in Run
  BY <1>1, DrivenBy
<1>4. ~proc[run[r].proc].working
  <2>1. CASE Settled(r)
    <3>1. run[r].settled \/ proc[run[r].proc].life = "closed"
      BY <2>1 DEF Settled, ProcOf
    <3>2. proc[run[r].proc].life # "up"
      BY <3>1 DEF IInv, Driving
    <3>3. QED
      BY <1>1, <3>2, DrivenBy DEF Sound
  <2>2. CASE Finish(r)
    BY <2>2, AtRest DEF Finish, Working
  <2>3. QED
    BY <2>1, <2>2
<1>5. PICK x : x = [run[r] EXCEPT !.pc = l]
  OBVIOUS
<1>6. /\ x \in Run /\ x.conv = run[r].conv /\ x.proc = run[r].proc /\ x.settled = run[r].settled
      /\ x.pc = l /\ x.active = run[r].active
  BY <1>3, <1>5 DEF Run
<1>7. run' = [run EXCEPT ![r] = x]
  BY <1>2, <1>5 DEF IInv
<1>8. QED
  BY <1>1, <1>4, <1>6, <1>7, ConsumerMoves

-----------------------------------------------------------------------------
(* The steps of a process                                                  *)

\* A process that has ended does not work.
LEMMA EndsStep == ASSUME IInv, NEW p \in Procs, Dies(p) \/ Crash(p) PROVE IInv'
<1>1. /\ proc[p].life = "up" /\ Ends(p) /\ UNCHANGED <<sessions, run, token>> /\ faults' \in 0..MaxFaults
  BY CodexAssumption DEF Dies, Crash, Up, Fault, IInv
<1>2. PICK how \in {"exited", "signalled"} : proc' = [proc EXCEPT ![p].life = how, ![p].working = FALSE]
  BY <1>1 DEF Ends
<1>3. proc[p] \in Proc /\ Sound(proc[p], Retained(p))
  BY DEF IInv
<1>4. PICK t : t = [proc[p] EXCEPT !.life = how, !.working = FALSE]
  OBVIOUS
<1>5. /\ t \in Proc /\ t.life = how /\ t.working = FALSE /\ t.run = proc[p].run /\ t.timer = proc[p].timer
      /\ t.conv = proc[p].conv
  BY <1>3, <1>4 DEF Proc
<1>6. Later(proc[p], t) /\ Sound(t, Retained(p))
  BY <1>1, <1>3, <1>5 DEF Later, Sound
<1>7. proc' = [proc EXCEPT ![p] = t]
  BY <1>2, <1>4 DEF IInv
<1>8. Changed /\ proc'[p] = t /\ \A q \in Procs \ {p} : proc'[q] = proc[q]
  BY <1>1, <1>5, <1>6, <1>7, LocalChange
<1>9. \A q \in Procs : proc'[q].run = proc[q].run /\ (proc'[q].working => proc[q].working)
  BY <1>5, <1>8
<1>10. QED
  BY <1>1, <1>8, <1>9, NoRun

\* The process of an interrupted turn is asked to end.
LEMMA TerminationDueStep == ASSUME IInv, NEW p \in Procs, TerminationDue(p) PROVE IInv'
<1>1. proc' = [proc EXCEPT ![p] = Terminated(proc[p])] /\ UNCHANGED <<sessions, run, token, faults>>
  BY DEF TerminationDue
<1>2. proc[p] \in Proc /\ Sound(proc[p], Retained(p)) /\ Retained(p) \in BOOLEAN
  BY DEF IInv, Retained
<1>3. PICK t : t = Terminated(proc[p])
  OBVIOUS
<1>4. /\ t \in Proc /\ Later(proc[p], t) /\ Sound(t, Retained(p))
      /\ t.run = proc[p].run /\ t.timer = proc[p].timer /\ t.working = proc[p].working
  BY <1>2, <1>3, Ended
<1>5. Changed /\ proc'[p] = t /\ \A q \in Procs \ {p} : proc'[q] = proc[q]
  BY <1>1, <1>3, <1>4, LocalChange
<1>6. \A q \in Procs : proc'[q].run = proc[q].run /\ (proc'[q].working => proc[q].working)
  BY <1>4, <1>5
<1>7. QED
  BY <1>1, <1>5, <1>6, NoRun DEF IInv

\* An idle session is given up, with its token.
LEMMA IdleExpiresStep == ASSUME IInv, NEW p \in Procs, IdleExpires(p) PROVE IInv'
<1>1. UNCHANGED <<run, faults>> /\ faults \in 0..MaxFaults
  BY DEF IdleExpires, IInv
<1>2. CASE proc[p].run = None
  <2>1. Retire({p}) /\ {p} \in SUBSET Procs
    BY <1>2 DEF IdleExpires
  <2>2. Changed /\ \A q \in Procs : proc'[q].run = proc[q].run /\ proc'[q].working = proc[q].working
    BY <2>1, RetireChange
  <2>3. QED
    BY <1>1, <2>2, NoRun
<1>3. CASE proc[p].run # None
  <2>1. proc' = [proc EXCEPT ![p].timer = FALSE] /\ UNCHANGED <<sessions, token>>
    BY <1>3 DEF IdleExpires
  <2>2. proc[p] \in Proc /\ Sound(proc[p], Retained(p))
    BY DEF IInv
  <2>3. PICK t : t = [proc[p] EXCEPT !.timer = FALSE]
    OBVIOUS
  <2>4. /\ t \in Proc /\ t.timer = FALSE /\ t.conv = proc[p].conv /\ t.life = proc[p].life /\ t.run = proc[p].run
        /\ t.term = proc[p].term /\ t.working = proc[p].working
    BY <2>2, <2>3 DEF Proc
  <2>5. Later(proc[p], t) /\ Sound(t, Retained(p))
    BY <2>2, <2>4 DEF Later, Sound
  <2>6. proc' = [proc EXCEPT ![p] = t]
    BY <2>1, <2>3 DEF IInv
  <2>7. Changed /\ proc'[p] = t /\ \A q \in Procs \ {p} : proc'[q] = proc[q]
    BY <2>1, <2>4, <2>5, <2>6, LocalChange
  <2>8. \A q \in Procs : proc'[q].run = proc[q].run /\ (proc'[q].working => proc[q].working)
    BY <2>4, <2>7
  <2>9. QED
    BY <1>1, <2>7, <2>8, NoRun
<1>4. QED
  BY <1>2, <1>3

\* A session that is still the one of its conversation takes the token along.
LEMMA ClosesStep == ASSUME IInv, NEW p \in Procs, Closes(p) PROVE IInv'
<1>1. /\ proc[p].life \in {"exited", "signalled"} /\ UNCHANGED <<run, faults>>
      /\ proc' = [proc EXCEPT ![p].life = "closed", ![p].timer = FALSE, ![p].term = "none",
                              ![p].thread = FALSE, ![p].turn = FALSE]
      /\ sessions' = Without({p})
      /\ token' = IF Retained(p) THEN token \ {proc[p].conv} ELSE token
  BY DEF Closes
<1>2. proc[p] \in Proc /\ Sound(proc[p], Retained(p)) /\ proc \in [Procs -> Proc]
  BY DEF IInv
<1>3. PICK t : t = [proc[p] EXCEPT !.life = "closed", !.timer = FALSE, !.term = "none",
                                   !.thread = FALSE, !.turn = FALSE]
  OBVIOUS
<1>4. /\ t \in Proc /\ t.life = "closed" /\ t.timer = FALSE /\ t.run = proc[p].run
      /\ t.conv = proc[p].conv /\ t.working = proc[p].working
  BY <1>2, <1>3 DEF Proc
<1>5. proc' = [proc EXCEPT ![p] = t]
  BY <1>1, <1>2, <1>3
<1>6. proc' \in [Procs -> Proc] /\ proc'[p] = t /\ \A q \in Procs \ {p} : proc'[q] = proc[q]
  BY <1>2, <1>4, <1>5
<1>7. Ordered(sessions') /\ Residents' = Residents \ {p}
  <2>1. sessions' = {o \in sessions : o[1] \notin {p} /\ o[2] \notin {p}}
    BY <1>1 DEF Without
  <2>2. Ordered(sessions') /\ Field(sessions') = Field(sessions) \ {p}
    BY <2>1, TakenOut DEF IInv
  <2>3. QED
    BY <2>2 DEF Residents, Retained, Field
<1>8. \A q \in Procs : Retained(q)' <=> Retained(q) /\ q # p
  BY <1>7 DEF Residents
<1>9. Later(proc[p], proc'[p]) /\ Sound(proc'[p], Retained(p)') /\ ~proc'[p].working /\ ~proc'[p].timer
  BY <1>1, <1>2, <1>4, <1>6, <1>8 DEF Later, Sound
<1>10. ASSUME NEW q \in Procs \ {p} PROVE Later(proc[q], proc'[q]) /\ Sound(proc'[q], Retained(q)')
  <2>1. proc'[q] = proc[q] /\ Retained(q)' = Retained(q)
    BY <1>6, <1>8 DEF Retained
  <2>2. Sound(proc[q], Retained(q)) /\ Later(proc[q], proc[q])
    BY DEF IInv, Later
  <2>3. QED
    BY <2>1, <2>2
<1>11. Cardinality(Timed') <= IdleLimit
  <2>1. Timed' \subseteq Timed
    BY <1>6, <1>7, <1>9 DEF Timed, Residents
  <2>2. QED
    BY <2>1, NoTimerMore
<1>12. token' = token \ ConvsOf(Residents \cap {p})
  <2>1. CASE Retained(p)
    <3>1. Residents \cap {p} = {p} /\ ConvsOf({p}) = {proc[p].conv}
      BY <2>1 DEF Residents, ConvsOf
    <3>2. QED
      BY <1>1, <2>1, <3>1
  <2>2. CASE ~Retained(p)
    <3>1. Residents \cap {p} = {} /\ ConvsOf({}) = {}
      BY <2>2 DEF Residents, ConvsOf
    <3>2. QED
      BY <1>1, <2>2, <3>1
  <2>3. QED
    BY <2>1, <2>2
<1>13. Changed
  <2>1. {p} \in SUBSET Procs
    OBVIOUS
  <2>2. \E gone \in SUBSET Procs : Residents' = Residents \ gone /\ token' = token \ ConvsOf(Residents \cap gone)
    BY <1>7, <1>12, <2>1
  <2>3. QED
    BY <1>6, <1>7, <1>9, <1>10, <1>11, <2>2 DEF Changed
<1>14. \A q \in Procs : proc'[q].run = proc[q].run /\ (proc'[q].working => proc[q].working)
  BY <1>4, <1>6
<1>15. QED
  BY <1>1, <1>13, <1>14, NoRun DEF IInv
-----------------------------------------------------------------------------
(* The steps that start a run and its process                              *)

\* The conversations of the runs that are about to spawn a process.
Awaited == {run[q].conv : q \in {q \in Runs : run[q].pc = "version"}}

\* Run r alone becomes x; what it keeps of the runs.
LEMMA OneBecomes ==
    ASSUME IInv, NEW r \in Runs, NEW x \in Run, run' = [run EXCEPT ![r] = x]
    PROVE  run' \in [Runs -> Run] /\ run'[r] = x /\ \A q \in Runs \ {r} : run'[q] = run[q]
  BY DEF IInv

\* The CLI is missing: the conversation had no process, so its token is the run's.
LEMMA VersionFailsStep == ASSUME IInv, NEW r \in Runs, VersionFails(r) PROVE IInv'
<1>1. /\ run[r].pc = "version" /\ run' = [run EXCEPT ![r].pc = "done"]
      /\ token' = token \ {run[r].conv} /\ UNCHANGED <<proc, sessions>> /\ faults' \in 0..MaxFaults
  BY CodexAssumption DEF VersionFails, Fault, IInv
<1>2. PICK x : x = [run[r] EXCEPT !.pc = "done"]
  OBVIOUS
<1>3. run[r] \in Run /\ run' = [run EXCEPT ![r] = x] /\ Driving(r, run[r], proc)
  BY <1>1, <1>2 DEF IInv
<1>4. /\ x \in Run /\ x.conv = run[r].conv /\ x.proc = run[r].proc /\ x.settled = run[r].settled
      /\ x.pc = "done" /\ x.active = run[r].active
  BY <1>2, <1>3 DEF Run
<1>5. run' \in [Runs -> Run] /\ run'[r] = x /\ \A q \in Runs \ {r} : run'[q] = run[q]
  BY <1>3, <1>4, OneBecomes
<1>6. \A p \in Procs : Retained(p)' = Retained(p)
  BY <1>1 DEF Retained
<1>7. Residents' = Residents
  BY <1>6 DEF Residents
<1>8. Timed' = Timed
  BY <1>1, <1>7 DEF Timed
<1>9. ASSUME NEW p \in Procs PROVE Sound(proc'[p], Retained(p)') /\ Watched(p)'
  <2>1. Sound(proc[p], Retained(p)) /\ Watched(p)
    BY DEF IInv
  <2>2. Watched(p)'
    BY <1>1, <1>5, <2>1 DEF Watched, Working
  <2>3. QED
    BY <1>1, <1>6, <2>1, <2>2
<1>10. ASSUME NEW q \in Runs PROVE Driving(q, run'[q], proc')
  <2>1. CASE q = r
    BY <1>1, <1>3, <1>4, <1>5, <2>1 DEF Driving
  <2>2. CASE q # r
    BY <1>1, <1>5, <2>2 DEF IInv
  <2>3. QED
    BY <2>1, <2>2
<1>11. OneBusy'
  BY <1>4, <1>5 DEF IInv, OneBusy, Busy
<1>12. Single'
  BY <1>1, <1>4, <1>5, <1>7 DEF IInv, Single
<1>13. TokenFollowsSession'
  <2>1. token = ConvsOf(Residents) \cup Awaited
    BY DEF IInv, TokenFollowsSession, Awaited
  <2>2. Awaited' = Awaited \ {run[r].conv}
    <3>1. \A q \in Runs : run'[q].pc = "version" <=> q # r /\ run[q].pc = "version"
      BY <1>4, <1>5
    <3>2. \A q \in Runs : q # r => run'[q].conv = run[q].conv
      BY <1>5
    <3>3. \A q \in Runs : run[q].pc = "version" /\ run[q].conv = run[r].conv => q = r
      BY <1>1 DEF IInv, OneBusy, Busy
    <3>4. Awaited' = {run'[q].conv : q \in {q \in Runs : run'[q].pc = "version"}}
      BY DEF Awaited
    <3>5. Awaited' \subseteq Awaited \ {run[r].conv}
      BY <3>1, <3>2, <3>3, <3>4 DEF Awaited
    <3>6. Awaited \ {run[r].conv} \subseteq Awaited'
      BY <3>1, <3>2, <3>4 DEF Awaited
    <3>7. QED
      BY <3>5, <3>6
  <2>3. ConvsOf(Residents)' = ConvsOf(Residents)
    BY <1>1, <1>7 DEF ConvsOf
  <2>4. run[r].conv \notin ConvsOf(Residents)
    BY <1>1 DEF IInv, Single, ConvsOf
  <2>5. token' = ConvsOf(Residents)' \cup Awaited'
    BY <1>1, <2>1, <2>2, <2>3, <2>4
  <2>6. QED
    BY <2>5 DEF TokenFollowsSession, Awaited
<1>14. QED
  BY <1>1, <1>5, <1>8, <1>9, <1>10, <1>11, <1>12, <1>13 DEF IInv

\* The process is spawned: the token that was the run's is now the session's.
LEMMA SpawnStep == ASSUME IInv, NEW r \in Runs, Spawn(r) PROVE IInv'
<1>1. PICK p \in Procs :
         /\ proc[p].life = "unborn" /\ sessions' = Renewed(p)
         /\ proc' = [proc EXCEPT ![p] = [Unborn EXCEPT !.conv = run[r].conv, !.run = r, !.life = "up"]]
         /\ run' = [run EXCEPT ![r].proc = p, ![r].active = TRUE, ![r].pc = "bound"]
  BY DEF Spawn
<1>2. run[r].pc = "version" /\ UNCHANGED <<token, faults>>
  BY DEF Spawn
<1>3. PICK x : x = [run[r] EXCEPT !.proc = p, !.active = TRUE, !.pc = "bound"]
  OBVIOUS
<1>4. run[r] \in Run /\ run' = [run EXCEPT ![r] = x] /\ Driving(r, run[r], proc) /\ proc \in [Procs -> Proc]
  BY <1>1, <1>3 DEF IInv
<1>5. /\ x \in Run /\ x.conv = run[r].conv /\ x.proc = p /\ x.settled = FALSE
      /\ x.pc = "bound" /\ x.active = TRUE /\ run[r].conv \in Convs
  BY <1>2, <1>3, <1>4 DEF Run, Driving
<1>6. run' \in [Runs -> Run] /\ run'[r] = x /\ \A q \in Runs \ {r} : run'[q] = run[q]
  BY <1>4, <1>5, OneBecomes
<1>7. PICK t : t = [Unborn EXCEPT !.conv = run[r].conv, !.run = r, !.life = "up"]
  OBVIOUS
<1>8. /\ t \in Proc /\ t.conv = run[r].conv /\ t.run = r /\ t.life = "up"
      /\ t.working = FALSE /\ t.timer = FALSE
  BY <1>5, <1>7 DEF Unborn, Proc
<1>9. proc' \in [Procs -> Proc] /\ proc'[p] = t /\ \A q \in Procs \ {p} : proc'[q] = proc[q]
  BY <1>1, <1>4, <1>7, <1>8
<1>10. p \notin Residents /\ p # 0 /\ Residents \subseteq Procs
  BY <1>1, CodexAssumption DEF IInv, Sound, Residents, Procs
<1>11. Ordered(sessions') /\ Residents' = Residents \cup {p}
  <2>1. Ordered(Renewed(p)) /\ Field(Renewed(p)) = Residents \cup {p}
    BY SetAgain DEF IInv
  <2>2. Residents' = Field(sessions')
    BY DEF Residents, Retained, Field
  <2>3. QED
    BY <1>1, <2>1, <2>2
<1>12. \A q \in Procs : Retained(q)' <=> q \in Residents \/ q = p
  BY <1>11 DEF Residents
<1>13. \A q \in Runs : run[q].proc # p
  <2>1. \A q \in Runs : run[q].proc # 0 => proc[run[q].proc].life # "unborn"
    BY DEF IInv, Driving
  <2>2. QED
    BY <1>1, <1>10, <2>1
<1>14. ASSUME NEW q \in Procs PROVE Sound(proc'[q], Retained(q)') /\ Watched(q)'
  <2>1. CASE q = p
    <3>1. Retained(q)' /\ proc'[q] = t
      BY <1>9, <1>12, <2>1
    <3>2. QED
      BY <1>5, <1>8, <3>1 DEF Sound, Watched
  <2>2. CASE q # p
    <3>1. Sound(proc[q], Retained(q)) /\ Watched(q) /\ proc'[q] = proc[q]
      BY <1>9, <2>2 DEF IInv
    <3>2. Retained(q)' = Retained(q)
      BY <1>12, <2>2 DEF Residents, Retained
    <3>3. Watched(q)'
      BY <1>2, <1>6, <3>1 DEF Watched, Working
    <3>4. QED
      BY <3>1, <3>2, <3>3
  <2>3. QED
    BY <2>1, <2>2
<1>15. ASSUME NEW q \in Runs PROVE Driving(q, run'[q], proc')
  <2>1. CASE q = r
    BY <1>5, <1>6, <1>8, <1>9, <1>10, <2>1 DEF Driving
  <2>2. CASE q # r
    <3>1. run'[q] = run[q] /\ run[q] \in Run /\ Driving(q, run[q], proc)
      BY <1>6, <2>2 DEF IInv
    <3>2. run[q].proc # 0 => proc'[run[q].proc] = proc[run[q].proc]
      BY <1>9, <1>13, <3>1 DEF Run
    <3>3. run[q].pc = "recording" => run[q].proc # 0
      BY <3>1 DEF Driving
    <3>4. QED
      BY <3>1, <3>2, <3>3 DEF Driving
  <2>3. QED
    BY <2>1, <2>2
<1>16. OneBusy'
  BY <1>2, <1>5, <1>6 DEF IInv, OneBusy, Busy
<1>17. \A q \in Procs : q # p => proc'[q].conv = proc[q].conv
  BY <1>9
<1>18. \A q \in Residents : q # p /\ proc[q].conv # run[r].conv
  BY <1>2, <1>10 DEF IInv, Single
<1>19. \A q \in Runs : run'[q].pc = "version" <=> q # r /\ run[q].pc = "version"
  BY <1>5, <1>6
<1>20. \A q \in Runs : q # r => run'[q].conv = run[q].conv
  BY <1>6
<1>21. \A q \in Runs : run[q].pc = "version" /\ run[q].conv = run[r].conv => q = r
  BY <1>2 DEF IInv, OneBusy, Busy
<1>22. Single'
  <2>1. \A a, b \in Residents : proc[a].conv = proc[b].conv => a = b
    BY DEF IInv, Single
  <2>2. \A a, b \in Residents' : proc'[a].conv = proc'[b].conv => a = b
    BY <1>8, <1>9, <1>10, <1>11, <1>17, <1>18, <2>1
  <2>3. ASSUME NEW q \in Runs, NEW a \in Residents', run'[q].pc = "version" PROVE proc'[a].conv # run'[q].conv
    <3>1. q # r /\ run[q].pc = "version" /\ run'[q].conv = run[q].conv
      BY <1>19, <1>20, <2>3
    <3>2. CASE a = p
      BY <1>8, <1>9, <1>21, <3>1, <3>2
    <3>3. CASE a # p
      BY <1>10, <1>11, <1>17, <3>1, <3>3 DEF IInv, Single
    <3>4. QED
      BY <3>2, <3>3
  <2>4. QED
    BY <2>2, <2>3 DEF Single
<1>23. TokenFollowsSession'
  <2>1. token = ConvsOf(Residents) \cup Awaited
    BY DEF IInv, TokenFollowsSession, Awaited
  <2>2. Awaited = Awaited' \cup {run[r].conv}
    <3>1. Awaited' = {run'[q].conv : q \in {q \in Runs : run'[q].pc = "version"}}
      BY DEF Awaited
    <3>2. Awaited' \subseteq Awaited /\ run[r].conv \in Awaited
      BY <1>2, <1>19, <1>20, <3>1 DEF Awaited
    <3>3. Awaited \subseteq Awaited' \cup {run[r].conv}
      BY <1>19, <1>20, <3>1 DEF Awaited
    <3>4. QED
      BY <3>2, <3>3
  <2>3. ConvsOf(Residents)' = ConvsOf(Residents) \cup {run[r].conv}
    <3>1. ConvsOf(Residents)' = {proc'[q].conv : q \in Residents \cup {p}}
      BY <1>11 DEF ConvsOf
    <3>2. {proc'[q].conv : q \in Residents} = ConvsOf(Residents)
      BY <1>10, <1>17 DEF ConvsOf
    <3>3. QED
      BY <1>8, <1>9, <3>1, <3>2
  <2>4. token' = ConvsOf(Residents)' \cup Awaited'
    BY <1>2, <2>1, <2>2, <2>3
  <2>5. QED
    BY <2>4 DEF TokenFollowsSession, Awaited
<1>24. Timed' \subseteq Timed
  BY <1>8, <1>9, <1>11 DEF Timed, Residents
<1>25. Cardinality(Timed') <= IdleLimit
  BY <1>24, NoTimerMore
<1>26. faults' \in 0..MaxFaults
  BY <1>2 DEF IInv
<1>27. QED
  BY <1>6, <1>9, <1>11, <1>14, <1>15, <1>16, <1>22, <1>23, <1>25, <1>26 DEF IInv
\* A run that is started: the record x it gets names no process, or one that no
\* run drives and no other busy run has had; it is not yet at work.
Starts(r, c, x) ==
    /\ run[r].pc = "none" /\ x \in Run /\ run' = [run EXCEPT ![r] = x]
    /\ c \in Convs /\ x.conv = c /\ ~BusyConv(c)
    /\ x.pc \notin {"none", "done"} \cup Working

\* What the runs go on to say, when processes keep their work and no other run
\* loses the process that it drives.
LEMMA Started ==
    ASSUME IInv, NEW r \in Runs, NEW c, NEW x, Starts(r, c, x), Driving(r, x, proc'),
           \A p \in Procs : /\ proc'[p].conv = proc[p].conv /\ proc'[p].working = proc[p].working
                            /\ proc'[p].life = proc[p].life
                            /\ proc'[p].run = proc[p].run \/ proc[p].run = None
    PROVE  /\ run' \in [Runs -> Run] /\ run'[r] = x /\ \A q \in Runs \ {r} : run'[q] = run[q]
           /\ \A q \in Runs : Driving(q, run'[q], proc')
           /\ OneBusy' /\ \A p \in Procs : Watched(p)'
<1>1. run[r].pc = "none" /\ x \in Run /\ run' = [run EXCEPT ![r] = x] /\ x.conv = c
      /\ x.pc \notin {"none", "done"} \cup Working
  BY DEF Starts
<1>2. run' \in [Runs -> Run] /\ run'[r] = x /\ \A q \in Runs \ {r} : run'[q] = run[q]
  BY <1>1, OneBecomes
<1>3. ASSUME NEW q \in Runs PROVE Driving(q, run'[q], proc')
  <2>1. CASE q = r
    BY <1>2, <2>1
  <2>2. CASE q # r
    <3>1. run'[q] = run[q] /\ run[q] \in Run /\ Driving(q, run[q], proc) /\ q # None
      BY <1>2, <2>2, CodexAssumption DEF IInv, Runs
    <3>2. run[q].proc # 0 => run[q].proc \in Procs
      BY <3>1 DEF Run
    <3>3. run[q].pc = "recording" => run[q].proc # 0
      BY <3>1 DEF Driving
    <3>4. QED
      BY <3>1, <3>2, <3>3 DEF Driving
  <2>3. QED
    BY <2>1, <2>2
<1>4. OneBusy'
  <2>1. \A q \in Runs : Busy(q) => run[q].conv # c
    BY DEF Starts, BusyConv
  <2>2. \A q \in Runs \ {r} : (Busy(q)' <=> Busy(q)) /\ run'[q].conv = run[q].conv
    BY <1>2 DEF Busy
  <2>3. SUFFICES ASSUME NEW q \in Runs, NEW s \in Runs, Busy(q)', Busy(s)', run'[q].conv = run'[s].conv
                 PROVE  q = s
    BY DEF OneBusy
  <2>4. CASE q # r /\ s # r
    BY <2>2, <2>3, <2>4 DEF IInv, OneBusy
  <2>5. CASE q = r \/ s = r
    BY <1>1, <1>2, <2>1, <2>2, <2>3, <2>5
  <2>6. QED
    BY <2>4, <2>5
<1>5. ASSUME NEW p \in Procs PROVE Watched(p)'
  <2>1. Watched(p) /\ proc'[p].working = proc[p].working
    BY DEF IInv
  <2>2. QED
    BY <1>1, <1>2, <2>1 DEF Watched, Working
<1>6. QED
  BY <1>2, <1>3, <1>4, <1>5

\* The first alternative of Start, for the process p.
Borrows(r, c, p) ==
    /\ run[r].pc = "none" /\ ~BusyConv(c) /\ Reusable(p)
    /\ token' = token \cup {c} /\ sessions' = Renewed(p) /\ UNCHANGED faults
    /\ proc' = [proc EXCEPT ![p].run = r, ![p].cancelled = FALSE,
                            ![p].turn = FALSE, ![p].timer = FALSE]
    /\ run' = [run EXCEPT ![r] = [Unused EXCEPT
                  !.conv = c, !.proc = p, !.active = TRUE, !.pc = "bound",
                  !.settled = proc[p].life = "signalled"]]

\* A run borrows the resident process of its conversation.
LEMMA BorrowStep ==
    ASSUME IInv, NEW r \in Runs, NEW c \in Convs, NEW p \in Existing(c), Borrows(r, c, p)
    PROVE  IInv'
<1>1. /\ p \in Procs /\ p \in Residents /\ proc[p].conv = c /\ proc \in [Procs -> Proc] /\ proc[p] \in Proc
      /\ Sound(proc[p], Retained(p)) /\ Retained(p) /\ p # 0
  <2>1. p \in Residents /\ proc[p].conv = c
    BY DEF Existing
  <2>2. p \in Procs /\ Retained(p)
    BY <2>1 DEF Residents
  <2>3. p # 0
    BY <2>2, CodexAssumption DEF Procs
  <2>4. proc \in [Procs -> Proc] /\ Sound(proc[p], Retained(p))
    BY <2>2 DEF IInv
  <2>5. QED
    BY <2>1, <2>2, <2>3, <2>4
<1>2. PICK t : t = [proc[p] EXCEPT !.run = r, !.cancelled = FALSE, !.turn = FALSE, !.timer = FALSE]
  OBVIOUS
<1>3. /\ t \in Proc /\ t.conv = c /\ t.run = r /\ t.life = proc[p].life /\ t.term = proc[p].term
      /\ t.working = proc[p].working /\ t.timer = FALSE
  BY <1>1, <1>2 DEF Proc
<1>4. proc' = [proc EXCEPT ![p] = t]
  BY <1>1, <1>2 DEF Borrows
<1>5. proc' \in [Procs -> Proc] /\ proc'[p] = t /\ \A q \in Procs \ {p} : proc'[q] = proc[q]
  <2>1. p \in Procs /\ proc \in [Procs -> Proc] /\ t \in Proc
    BY <1>1, <1>3
  <2>2. QED
    BY <1>4, <2>1
<1>6. Ordered(sessions') /\ Residents' = Residents
  <2>1. Ordered(Renewed(p)) /\ Field(Renewed(p)) = Residents \cup {p}
    BY <1>1, SetAgain DEF IInv
  <2>2. Residents' = Field(sessions') /\ sessions' = Renewed(p)
    BY DEF Residents, Retained, Field, Borrows
  <2>3. QED
    BY <1>1, <2>1, <2>2
<1>7. \A q \in Procs : Retained(q)' = Retained(q)
  <2>1. ASSUME NEW q \in Procs PROVE Retained(q)' = Retained(q)
    <3>1. Retained(q)' <=> Retained(q)
      BY <1>6 DEF Residents
    <3>2. QED
      BY <3>1 DEF Retained
  <2>2. QED
    BY <2>1
<1>8. PICK x : x = [Unused EXCEPT !.conv = c, !.proc = p, !.active = TRUE, !.pc = "bound",
                                  !.settled = proc[p].life = "signalled"]
  OBVIOUS
<1>9. /\ x \in Run /\ x.conv = c /\ x.proc = p /\ x.active = TRUE /\ x.pc = "bound"
      /\ (x.settled => proc[p].life = "signalled")
  BY <1>1, <1>8 DEF Run, Unused
<1>10. Starts(r, c, x)
  BY <1>8, <1>9 DEF Starts, Working, Borrows
<1>11. Driving(r, x, proc')
  BY <1>1, <1>3, <1>5, <1>9 DEF Driving, Sound
<1>12. proc[p].run = None
  BY DEF Reusable, Borrows
<1>13. \A q \in Procs : /\ proc'[q].conv = proc[q].conv /\ proc'[q].working = proc[q].working
                        /\ proc'[q].life = proc[q].life
                        /\ proc'[q].run = proc[q].run \/ proc[q].run = None
  BY <1>1, <1>3, <1>5, <1>12
<1>14. /\ run' \in [Runs -> Run] /\ run'[r] = x /\ \A q \in Runs \ {r} : run'[q] = run[q]
       /\ \A q \in Runs : Driving(q, run'[q], proc')
       /\ OneBusy' /\ \A q \in Procs : Watched(q)'
  BY <1>10, <1>11, <1>13, Started
<1>15. ASSUME NEW q \in Procs PROVE Sound(proc'[q], Retained(q)')
  <2>1. CASE q = p
    BY <1>1, <1>3, <1>5, <1>7, <2>1 DEF Sound
  <2>2. CASE q # p
    BY <1>5, <1>7, <2>2 DEF IInv
  <2>3. QED
    BY <2>1, <2>2
<1>16. \A q \in Runs : /\ run'[q].pc = "version" <=> run[q].pc = "version"
                       /\ run[q].pc = "version" => run'[q].conv = run[q].conv
  <2>1. run[r].pc = "none"
    BY DEF Borrows
  <2>2. QED
    BY <1>9, <1>14, <2>1
<1>17. Residents \subseteq Procs
  BY DEF Residents
<1>18. Single'
  BY <1>6, <1>13, <1>16, <1>17 DEF IInv, Single
<1>19. TokenFollowsSession'
  <2>1. token = ConvsOf(Residents) \cup Awaited
    BY DEF IInv, TokenFollowsSession, Awaited
  <2>2. ConvsOf(Residents)' = ConvsOf(Residents) /\ c \in ConvsOf(Residents)
    BY <1>1, <1>6, <1>13, <1>17 DEF ConvsOf
  <2>3. Awaited' = Awaited
    <3>1. Awaited' = {run'[q].conv : q \in {q \in Runs : run'[q].pc = "version"}}
      BY DEF Awaited
    <3>2. {q \in Runs : run'[q].pc = "version"} = {q \in Runs : run[q].pc = "version"}
      BY <1>16
    <3>3. QED
      BY <1>16, <3>1, <3>2 DEF Awaited
  <2>4. token' = ConvsOf(Residents)' \cup Awaited'
    BY <2>1, <2>2, <2>3 DEF Borrows
  <2>5. QED
    BY <2>4 DEF TokenFollowsSession, Awaited
<1>20. Timed' \subseteq Timed
  BY <1>3, <1>5, <1>6 DEF Timed, Residents
<1>21. Cardinality(Timed') <= IdleLimit
  BY <1>20, NoTimerMore
<1>22. faults' \in 0..MaxFaults
  BY DEF IInv, Borrows
<1>23. QED
  BY <1>5, <1>6, <1>14, <1>15, <1>18, <1>19, <1>21, <1>22 DEF IInv

\* A run finds no process that it can borrow, and one that is there is given up.
LEMMA ReplaceStep ==
    ASSUME IInv, NEW r \in Runs, NEW c \in Convs,
           run[r].pc = "none", ~BusyConv(c), token' = token \cup {c}, UNCHANGED faults,
           sessions' = Without(Existing(c)),
           proc' = [p \in Procs |-> IF p \in Existing(c) THEN Retired(proc[p]) ELSE proc[p]],
           run' = [run EXCEPT ![r] = [Unused EXCEPT !.conv = c, !.pc = "version"]]
    PROVE  IInv'
<1>1. PICK gone \in SUBSET Procs : gone = Existing(c)
  BY DEF Existing, Residents
<1>2. /\ proc' \in [Procs -> Proc] /\ Ordered(sessions') /\ Residents' = Residents \ gone
      /\ \A p \in Procs : /\ Later(proc[p], proc'[p]) /\ Sound(proc'[p], Retained(p)')
                          /\ proc'[p].run = proc[p].run /\ proc'[p].working = proc[p].working
      /\ Cardinality(Timed') <= IdleLimit
  <2>1. /\ sessions' = Without(gone)
        /\ proc' = [p \in Procs |-> IF p \in gone THEN Retired(proc[p]) ELSE proc[p]]
    BY <1>1
  <2>2. QED
    BY <2>1, GivesUp
<1>3. \A p \in Procs : /\ proc'[p].conv = proc[p].conv /\ proc'[p].working = proc[p].working
                       /\ proc'[p].run = proc[p].run /\ proc'[p].life = proc[p].life
  <2>1. \A p \in Procs : proc[p] \in Proc
    BY DEF IInv
  <2>2. \A p \in Procs : proc'[p].life = proc[p].life
    BY <2>1 DEF Retired, Terminated, Proc
  <2>3. QED
    BY <1>2, <2>2 DEF Later
<1>4. PICK x : x = [Unused EXCEPT !.conv = c, !.pc = "version"]
  OBVIOUS
<1>5. /\ x \in Run /\ x.conv = c /\ x.proc = 0 /\ x.active = FALSE /\ x.pc = "version" /\ x.settled = FALSE
  BY <1>4 DEF Run, Unused
<1>6. Starts(r, c, x) /\ Driving(r, x, proc')
  BY <1>4, <1>5 DEF Starts, Working, Driving
<1>7. /\ run' \in [Runs -> Run] /\ run'[r] = x /\ \A q \in Runs \ {r} : run'[q] = run[q]
      /\ \A q \in Runs : Driving(q, run'[q], proc')
      /\ OneBusy' /\ \A q \in Procs : Watched(q)'
  BY <1>3, <1>6, Started
<1>8. /\ \A p \in Residents' : p \in Residents /\ p \in Procs /\ proc'[p].conv = proc[p].conv /\ proc[p].conv # c
      /\ \A p \in Residents : p \notin gone => p \in Residents'
  BY <1>1, <1>2, <1>3 DEF Existing, Residents
<1>9. \A q \in Runs : /\ run'[q].pc = "version" <=> q = r \/ run[q].pc = "version"
                      /\ q # r => run'[q].conv = run[q].conv
  BY <1>5, <1>7
<1>10. Single'
  <2>1. /\ \A a, b \in Residents : proc[a].conv = proc[b].conv => a = b
        /\ \A q \in Runs, a \in Residents : run[q].pc = "version" => proc[a].conv # run[q].conv
    BY DEF IInv, Single
  <2>2. \A a, b \in Residents' : proc'[a].conv = proc'[b].conv => a = b
    BY <1>8, <2>1
  <2>3. ASSUME NEW q \in Runs, NEW a \in Residents', run'[q].pc = "version"
        PROVE  proc'[a].conv # run'[q].conv
    <3>1. a \in Residents /\ proc'[a].conv = proc[a].conv /\ proc[a].conv # c
      BY <1>8
    <3>2. CASE q = r
      BY <1>5, <1>7, <3>1, <3>2
    <3>3. CASE q # r
      BY <1>9, <2>1, <2>3, <3>1, <3>3
    <3>4. QED
      BY <3>2, <3>3
  <2>4. QED
    BY <2>2, <2>3 DEF Single
<1>11. TokenFollowsSession'
  <2>1. token = ConvsOf(Residents) \cup Awaited
    BY DEF IInv, TokenFollowsSession, Awaited
  <2>2. ConvsOf(Residents)' = ConvsOf(Residents) \ {c}
    <3>1. \A p \in Residents : p \in gone <=> proc[p].conv = c
      BY <1>1 DEF Existing
    <3>2. ConvsOf(Residents)' = {proc'[p].conv : p \in Residents'}
      BY DEF ConvsOf
    <3>3. ConvsOf(Residents)' \subseteq ConvsOf(Residents) \ {c}
      BY <1>8, <3>2 DEF ConvsOf
    <3>4. ConvsOf(Residents) \ {c} \subseteq ConvsOf(Residents)'
      BY <1>8, <3>1, <3>2 DEF ConvsOf
    <3>5. QED
      BY <3>3, <3>4
  <2>3. Awaited' = Awaited \cup {c}
    <3>1. Awaited' = {run'[q].conv : q \in {q \in Runs : run'[q].pc = "version"}}
      BY DEF Awaited
    <3>2. \A q \in Runs : run[q].pc = "version" => q # r
      OBVIOUS
    <3>3. Awaited' \subseteq Awaited \cup {c}
      BY <1>5, <1>7, <1>9, <3>1 DEF Awaited
    <3>4. Awaited \cup {c} \subseteq Awaited'
      BY <1>5, <1>7, <1>9, <3>1, <3>2 DEF Awaited
    <3>5. QED
      BY <3>3, <3>4
  <2>4. token' = ConvsOf(Residents)' \cup Awaited'
    BY <2>1, <2>2, <2>3
  <2>5. QED
    BY <2>4 DEF TokenFollowsSession, Awaited
<1>12. QED
  BY <1>2, <1>7, <1>10, <1>11 DEF IInv
\* Admission, with a process to borrow or without one.
LEMMA StartStep == ASSUME IInv, NEW r \in Runs, NEW c \in Convs, Start(r, c) PROVE IInv'
<1>1. CASE \E p \in Existing(c) : Borrows(r, c, p)
  BY <1>1, BorrowStep
<1>2. CASE ~ \E p \in Existing(c) : Borrows(r, c, p)
  <2>1. run[r].pc = "none" /\ ~BusyConv(c) /\ token' = token \cup {c} /\ UNCHANGED faults
    BY DEF Start
  <2>2. /\ sessions' = Without(Existing(c))
        /\ proc' = [p \in Procs |-> IF p \in Existing(c) THEN Retired(proc[p]) ELSE proc[p]]
        /\ run' = [run EXCEPT ![r] = [Unused EXCEPT !.conv = c, !.pc = "version"]]
    BY <1>2 DEF Start, Borrows
  <2>3. QED
    BY <2>1, <2>2, ReplaceStep
<1>3. QED
  BY <1>1, <1>2

-----------------------------------------------------------------------------
(* The theorems                                                            *)

\* Nothing has run.
LEMMA InvInit == Init => IInv
<1> SUFFICES ASSUME Init PROVE IInv
  OBVIOUS
<1>2. MaxFaults \in Nat /\ IdleLimit \in Nat
  BY CodexAssumption
<1>3. Unborn \in Proc /\ Unused \in Run
  BY DEF Unborn, Unused, Proc, Run
<1>4. proc \in [Procs -> Proc] /\ run \in [Runs -> Run] /\ faults \in 0..MaxFaults
  BY <1>2, <1>3 DEF Init
<1>5. \A p \in Procs : proc[p] = Unborn /\ ~Retained(p)
  BY DEF Init, Retained
<1>6. Residents = {}
  BY <1>5 DEF Residents
<1>7. Ordered(sessions)
  BY DEF Init, Ordered, Field
<1>8. \A p \in Procs : Sound(proc[p], Retained(p)) /\ Watched(p)
  BY <1>5 DEF Sound, Watched, Unborn
<1>9. \A r \in Runs : run[r] = Unused
  BY DEF Init
<1>10. \A r \in Runs : Driving(r, run[r], proc)
  BY <1>9 DEF Driving, Unused
<1>11. OneBusy
  BY <1>9 DEF OneBusy, Busy, Unused
<1>12. Single
  BY <1>6 DEF Single
<1>13. TokenFollowsSession
  BY <1>6, <1>9 DEF TokenFollowsSession, ConvsOf, Unused, Init
<1>14. Cardinality(Timed) <= IdleLimit
  <2>1. Timed = {} /\ Cardinality({}) = 0
    BY <1>6, FS_EmptySet DEF Timed
  <2>2. QED
    BY <1>2, <2>1
<1>15. QED
  BY <1>4, <1>7, <1>8, <1>10, <1>11, <1>12, <1>13, <1>14 DEF IInv

\* Every step.
LEMMA InvStep == IInv /\ [Next]_vars => IInv'
<1> SUFFICES ASSUME IInv, [Next]_vars PROVE IInv'
  OBVIOUS
<1>2. ASSUME NEW r \in Runs, NEW c \in Convs, Start(r, c) PROVE IInv'
  BY <1>2, StartStep
<1>3. ASSUME NEW r \in Runs, HostStep(r) PROVE IInv'
  <2>1. CASE Spawn(r)
    BY <2>1, SpawnStep
  <2>2. CASE VersionFails(r)
    BY <2>2, VersionFailsStep
  <2>3. CASE Begin(r)
    BY <2>3, BeginStep
  <2>4. CASE BindFails(r)
    BY <2>4, BindFailsStep
  <2>5. CASE Recorded(r)
    BY <2>5, RecordedStep
  <2>6. CASE RecordFails(r)
    BY <2>6, RecordFailsStep
  <2>7. CASE StreamEnds(r)
    BY <2>7, StreamEndsStep
  <2>8. CASE Settled(r) \/ Finish(r)
    BY <2>8, SettledStep
  <2>9. QED
    BY <1>3, <2>1, <2>2, <2>3, <2>4, <2>5, <2>6, <2>7, <2>8 DEF HostStep
<1>4. ASSUME NEW r \in Runs, ProviderStep(r) PROVE IInv'
  <2>1. CASE ThreadStarted(r)
    BY <2>1, ThreadStartedStep
  <2>2. CASE TurnAccepted(r)
    BY <2>2, TurnAcceptedStep
  <2>3. CASE Progress(r)
    BY <2>3, ProgressStep
  <2>4. CASE ProtocolFails(r)
    BY <2>4, ProtocolFailsStep
  <2>5. CASE \E e \in Terminal : Notified(r, e)
    BY <2>5, NotifiedStep
  <2>6. QED
    BY <1>4, <2>1, <2>2, <2>3, <2>4, <2>5 DEF ProviderStep
<1>5. ASSUME NEW r \in Runs, TransportCloses(r) PROVE IInv'
  BY <1>5, TransportClosesStep
<1>6. ASSUME NEW r \in Runs, Cancel(r) PROVE IInv'
  BY <1>6, CancelStep
<1>7. ASSUME NEW p \in Procs, Dies(p) \/ Crash(p) PROVE IInv'
  BY <1>7, EndsStep
<1>8. ASSUME NEW p \in Procs, Closes(p) PROVE IInv'
  BY <1>8, ClosesStep
<1>9. ASSUME NEW p \in Procs, TerminationDue(p) PROVE IInv'
  BY <1>9, TerminationDueStep
<1>10. ASSUME NEW p \in Procs, IdleExpires(p) PROVE IInv'
  BY <1>10, IdleExpiresStep
<1>11. CASE UNCHANGED vars
  <2>1. UNCHANGED <<proc, sessions, run, token, faults>>
    BY <1>11 DEF vars
  <2>2. Residents' = Residents /\ \A p \in Procs : Retained(p)' = Retained(p)
    BY <2>1 DEF Residents, Retained
  <2>3. \A p \in Procs : Sound(proc'[p], Retained(p)') /\ Watched(p)'
    BY <2>1, <2>2 DEF IInv, Watched
  <2>4. OneBusy' /\ Single' /\ TokenFollowsSession'
    BY <2>1, <2>2 DEF IInv, OneBusy, Busy, Single, TokenFollowsSession, ConvsOf
  <2>5. Cardinality(Timed') <= IdleLimit
    BY <2>1, <2>2 DEF IInv, Timed
  <2>6. QED
    BY <2>1, <2>3, <2>4, <2>5 DEF IInv
<1>12. QED
  BY <1>2, <1>3, <1>4, <1>5, <1>6, <1>7, <1>8, <1>9, <1>10, <1>11 DEF Next, ProcessStep

\* The inductive invariant of the resident app-servers.
THEOREM InvHolds == Spec => []IInv
  BY InvInit, InvStep, PTL DEF Spec

\* What the sessions, the processes and the broker's tokens say of their kind.
LEMMA Typed == IInv => TypeOK
<1> SUFFICES ASSUME IInv PROVE TypeOK
  OBVIOUS
<1>2. sessions \subseteq Procs \X Procs
  <2>1. Field(sessions) \subseteq Procs /\ sessions \subseteq Field(sessions) \X Field(sessions)
    BY DEF IInv, Ordered, Field
  <2>2. QED
    BY <2>1
<1>3. token \subseteq Convs
  <2>1. \A p \in Residents : proc[p].conv \in Convs
    BY DEF IInv, Sound, Residents
  <2>2. ConvsOf(Residents) \subseteq Convs
    BY <2>1 DEF ConvsOf
  <2>3. \A r \in Runs : run[r].pc = "version" => run[r].conv \in Convs
    BY DEF IInv, Driving
  <2>4. QED
    BY <2>2, <2>3 DEF IInv, TokenFollowsSession
<1>4. QED
  BY <1>2, <1>3 DEF IInv, TypeOK

\* No app-server is left running that nobody keeps or ends, and no more than
\* IdleLimit wait for an idle timer: #retireSession, #scheduleIdleRetirement and
\* the close handler of server/codex-provider.ts lose none between them.
THEOREM ProcessesStayAccounted == Spec => []ProcessesAreAccounted
<1>1. IInv => ProcessesAreAccounted
  <2> SUFFICES ASSUME IInv PROVE ProcessesAreAccounted
    OBVIOUS
  <2>2. \A p \in Procs : Sound(proc[p], Retained(p))
    BY DEF IInv
  <2>3. \A p \in Procs : Up(p) => Retained(p) \/ proc[p].term # "none"
    BY <2>2 DEF Up, Sound
  <2>4. \A p \in Procs : proc[p].timer => Retained(p) /\ proc[p].run = None
    BY <2>2 DEF Sound
  <2>5. Cardinality({p \in Residents : proc[p].timer}) <= IdleLimit
    BY DEF IInv, Timed
  <2>6. QED
    BY <2>3, <2>4, <2>5, Typed DEF ProcessesAreAccounted, NoStrayProcess
<1>2. QED
  BY <1>1, InvHolds, PTL

\* A run that has given its worktree back leaves nothing at work in it: an
\* app-server works only beside a run of its own, and no two active runs share
\* one (awaiting run.settled in server/provider-run.ts).
THEOREM WorktreeStaysQuiet == Spec => []WorktreeIsQuiet
<1>1. IInv => WorktreeIsQuiet
  <2> SUFFICES ASSUME IInv PROVE WorktreeIsQuiet
    OBVIOUS
  <2>2. \A p \in Procs : Up(p) /\ proc[p].working => \E r \in Runs : Busy(r) /\ ProcOf(r) = p
    BY DEF IInv, Watched, Busy, ProcOf, Working
  <2>3. \A r \in Runs : run[r].active => proc[ProcOf(r)].run = r
    BY DEF IInv, Driving, ProcOf
  <2>4. QED
    BY <2>2, <2>3 DEF WorktreeIsQuiet
<1>2. QED
  BY <1>1, InvHolds, PTL

\* The broker keeps a conversation's browser token exactly while an app-server
\* that was given it is resident or a run is about to spawn one: a replaced
\* session's close does not take the token of the one that replaced it.
THEOREM TokenFollows == Spec => []TokenFollowsSession
<1>1. IInv => TokenFollowsSession
  BY DEF IInv
<1>2. QED
  BY <1>1, InvHolds, PTL
=============================================================================
