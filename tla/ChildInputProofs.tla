---------------------------- MODULE ChildInputProofs ----------------------------
(***************************************************************************)
(* Safety of delegated input for every number of runs, retries and crashes.*)
(*                                                                         *)
(* An answer goes through a request, a receipt, a message, a resume state  *)
(* and the memory of the respond route, each written in a step of its own, *)
(* and recovery decides from what is left of them.  IInv says for each     *)
(* request what its state implies of the others, for each run what it owns *)
(* of the worktree and of its checkpoint, and for each step of the route   *)
(* what it may rely on.                                                    *)
(***************************************************************************)
EXTENDS ChildInput, FiniteSetTheorems, TLAPS

Working == {"running", "parking", "parked", "ending", "cancelling", "unavailing"}
Turned == {"launch", "startFailed", "recordFailed", "rebind", "bind", "accept"}
Carrying == {"claim", "start"} \cup Turned

\* A request q with rc receipts, ms messages and la provider processes.
Asked(q, rc, ms, la) ==
    /\ q.state \in {"absent", "pending"} => rc = 0 /\ ms = {} /\ la = 0
    /\ q.state # "absent" => q.turn \in Runs
    /\ q.state = "answered" => rc = 1
    /\ rc <= 1 /\ la <= 1
    /\ \A a, b \in ms : a = b
    /\ q.mode = "native_resume" /\ q.state = "answered" /\ q.resume = "starting" => la = 0
    /\ q.mode # "native_resume" /\ ms = {} => la = 0

\* Run n with record x and request q, while the worktree wt has checkpoint cp.
Worked(n, x, q, cp, wt) ==
    /\ x.pc \notin {"none", "done"} => wt = n
    /\ x.pc \in {"none", "starting", "running"} => q.state = "absent"
    /\ x.pc \in Working => x.turn \in Runs
    /\ x.pc \in {"ending", "cancelling"} => x.kind \in Final
    /\ x.pc \in Working /\ n # 1 => cp = [state |-> "baseline", turn |-> x.turn]

\* The respond route: what its next step rests on.
Handled ==
    LET r == handler.request IN
    /\ host # "up" => handler = Idle
    /\ handler.pc # "idle" => r \in Runs /\ requests[r].state # "absent"
    /\ handler.pc \notin {"idle", "resolve"} => requests[r].state # "pending"
    /\ handler.pc = "claim" => Native(r)
    /\ handler.pc = "start" => ~Native(r)
    /\ handler.pc \in {"inspect", "admit", "start"} /\ ~Native(r) => messages[r] = {}
    /\ handler.pc = "launch" =>
          /\ launched[r] = 0
          /\ IF Native(r) THEN requests[r].state = "answered" => requests[r].resume # "starting"
                          ELSE messages[r] # {}
    /\ handler.pc \in Carrying => handler.run \in Runs /\ runs[handler.run].pc = "starting"
    /\ handler.pc \in Turned => handler.turn \in Runs /\ runs[handler.run].turn = handler.turn
    /\ handler.pc \in {"bind", "accept"} => checkpoint = [state |-> "baseline", turn |-> handler.turn]

\* What a run that ends read of the requests.
Seen(n) == runs[n].pc \in {"ending", "cancelling"} => \A r \in runs[n].seen : requests[r].state # "absent"

IInv ==
    /\ TypeOK
    /\ \A r \in Runs : Asked(requests[r], receipts[r], messages[r], launched[r])
    /\ \A n \in Runs : Worked(n, runs[n], requests[n], checkpoint, worktree)
    /\ \A n \in Runs : Seen(n)
    /\ Handled

-----------------------------------------------------------------------------
(* Records                                                                 *)

Pcs == {"none", "starting", "running", "parking", "parked", "ending", "cancelling",
        "unavailing", "closing", "done"}
Steps == {"idle", "resolve", "inspect", "admit", "claim", "start", "launch", "startFailed",
          "recordFailed", "rebind", "bind", "accept", "giveUp"}
Statuses == {"absent"} \cup Live \cup Final

\* A run record changes one field at a time.
LEMMA RunFields ==
    ASSUME NEW x \in Run
    PROVE  /\ \A l \in Pcs : [x EXCEPT !.pc = l] \in Run
           /\ \A l \in Pcs, t \in Turn : [x EXCEPT !.pc = l, !.seenTurn = t] \in Run
           /\ \A l \in Pcs, k \in Final, t \in Turn, rs \in SUBSET Runs :
                 [x EXCEPT !.pc = l, !.kind = k, !.seenTurn = t, !.seen = rs] \in Run
           /\ \A t \in Runs : [x EXCEPT !.turn = t] \in Run
           /\ \A t \in Runs, r \in Runs : [x EXCEPT !.turn = t, !.via = r] \in Run
<1>1. \A l \in Pcs : [x EXCEPT !.pc = l] \in Run
  BY DEF Run, Pcs
<1>2. \A l \in Pcs, t \in Turn : [x EXCEPT !.pc = l, !.seenTurn = t] \in Run
  BY DEF Run, Pcs
<1>3. \A l \in Pcs, k \in Final, t \in Turn, rs \in SUBSET Runs :
         [x EXCEPT !.pc = l, !.kind = k, !.seenTurn = t, !.seen = rs] \in Run
  BY DEF Run, Pcs
<1>4. /\ \A t \in Runs : [x EXCEPT !.turn = t] \in Run
      /\ \A t \in Runs, r \in Runs : [x EXCEPT !.turn = t, !.via = r] \in Run
  BY DEF Run
<1>5. QED
  BY <1>1, <1>2, <1>3, <1>4

\* So does a turn, and a request.
LEMMA OtherFields ==
    /\ \A t \in Turn : \A u \in Statuses : [t EXCEPT !.status = u] \in Turn
    /\ \A t \in Turn : \A n \in Runs \cup {None} : [t EXCEPT !.run = n] \in Turn
    /\ \A q \in Request : \A u \in {"absent", "pending", "answered", "cancelled"} :
          [q EXCEPT !.state = u] \in Request
    /\ \A q \in Request : \A u \in {"none", "available", "starting", "claimed", "started", "unavailable"} :
          [q EXCEPT !.resume = u] \in Request
BY DEF Turn, Request, Statuses, Live, Final

\* What the respond route keeps in memory changes with its place: its place
\* alone, with the run it starts, or with the turn that carries the answer.
LEMMA HandlerMoves ==
    ASSUME handler \in Handler, NEW l \in Steps, handler' = [handler EXCEPT !.pc = l]
    PROVE  /\ handler' \in Handler /\ handler'.pc = l /\ handler'.request = handler.request
           /\ handler'.run = handler.run /\ handler'.turn = handler.turn
<1>1. [handler EXCEPT !.pc = l] \in Handler
  BY DEF Handler, Steps
<1>2. QED
  BY <1>1 DEF Handler

\* Admitted: a run is started for the answer.
LEMMA HandlerTakesRun ==
    ASSUME handler \in Handler, NEW l \in Steps, NEW n \in Runs, handler' = [handler EXCEPT !.pc = l, !.run = n]
    PROVE  /\ handler' \in Handler /\ handler'.pc = l /\ handler'.request = handler.request
           /\ handler'.run = n
<1>1. [handler EXCEPT !.pc = l, !.run = n] \in Handler
  BY DEF Handler, Steps
<1>2. QED
  BY <1>1 DEF Handler

\* Claimed or started: the answer has a turn.
LEMMA HandlerTakesTurn ==
    ASSUME handler \in Handler, NEW l \in Steps, NEW n \in Runs, handler' = [handler EXCEPT !.pc = l, !.turn = n]
    PROVE  /\ handler' \in Handler /\ handler'.pc = l /\ handler'.request = handler.request
           /\ handler'.run = handler.run /\ handler'.turn = n
<1>1. [handler EXCEPT !.pc = l, !.turn = n] \in Handler
  BY DEF Handler, Steps
<1>2. QED
  BY <1>1 DEF Handler

\* The empty records are of their types.
LEMMA EmptyRecords ==
    /\ NoTurn \in Turn /\ NoRequest \in Request /\ NoRun \in Run /\ Idle \in Handler
    /\ [NoRun EXCEPT !.pc = "done"] \in Run
    /\ [NoRun EXCEPT !.pc = "done"].pc = "done" /\ NoRun.pc = "none"
    /\ Idle.pc = "idle" /\ Idle.request = None
    /\ None \notin Runs
BY BoundsAreNat DEF NoTurn, NoRequest, NoRun, Idle, Turn, Request, Run, Handler, None, Runs

\* Only the resume state of a request is marked.
LEMMA Marked ==
    ASSUME requests \in [Runs -> Request], NEW r
    PROVE  /\ WithUnavailable(r) \in [Runs -> Request]
           /\ \A s \in Runs :
                 /\ WithUnavailable(r)[s].state = requests[s].state
                 /\ WithUnavailable(r)[s].mode = requests[s].mode
                 /\ WithUnavailable(r)[s].turn = requests[s].turn
                 /\ WithUnavailable(r)[s].resume \in {requests[s].resume, "unavailable"}
<1>1. CASE WithUnavailable(r) = requests
  BY <1>1
<1>2. CASE WithUnavailable(r) = [requests EXCEPT ![r].resume = "unavailable"]
  <2>1. WithUnavailable(r) \in [Runs -> Request]
    <3>1. r \in Runs => [requests[r] EXCEPT !.resume = "unavailable"] \in Request
      BY OtherFields
    <3>2. QED
      BY <1>2, <3>1
  <2>2. ASSUME NEW s \in Runs
        PROVE  WithUnavailable(r)[s] \in {requests[s], [requests[s] EXCEPT !.resume = "unavailable"]}
    BY <1>2
  <2>3. ASSUME NEW q \in Request, NEW v \in {q, [q EXCEPT !.resume = "unavailable"]}
        PROVE  v.state = q.state /\ v.mode = q.mode /\ v.turn = q.turn /\ v.resume \in {q.resume, "unavailable"}
    BY DEF Request
  <2>4. \A s \in Runs : requests[s] \in Request
    OBVIOUS
  <2> DEFINE u == WithUnavailable(r)
  <2>5. \A s \in Runs : u[s] \in {requests[s], [requests[s] EXCEPT !.resume = "unavailable"]}
    BY <2>2
  <2> HIDE DEF u
  <2>6. ASSUME NEW s \in Runs
        PROVE  /\ u[s].state = requests[s].state /\ u[s].mode = requests[s].mode
               /\ u[s].turn = requests[s].turn /\ u[s].resume \in {requests[s].resume, "unavailable"}
    BY <2>3, <2>4, <2>5
  <2>7. QED
    BY <2>1, <2>6 DEF u
<1>3. QED
  BY <1>1, <1>2 DEF WithUnavailable

\* A retry, or giving up, keeps the request and forgets the run.
LEMMA Retries ==
    ASSUME handler \in Handler
    PROVE  /\ Retried \in Handler /\ Retried.pc \in {"inspect", "giveUp"}
           /\ Retried.request = handler.request
<1>1. CASE handler.attempt < MaxAttempts
  <2>1. handler.attempt + 1 \in 0..MaxAttempts
    BY <1>1, BoundsAreNat DEF Handler
  <2>2. Retried = [handler EXCEPT !.pc = "inspect", !.attempt = handler.attempt + 1, !.run = None]
    BY <1>1 DEF Retried
  <2>3. QED
    BY <2>1, <2>2 DEF Handler
<1>2. CASE ~(handler.attempt < MaxAttempts)
  <2>1. Retried = [handler EXCEPT !.pc = "giveUp", !.run = None]
    BY <1>2 DEF Retried
  <2>2. QED
    BY <2>1 DEF Handler
<1>3. QED
  BY <1>1, <1>2

-----------------------------------------------------------------------------
(* The steps of a provider run                                             *)

\* Where a run is, and nothing else of it, changes.
LEMMA RunMoves ==
    ASSUME runs \in [Runs -> Run], NEW n \in Runs, NEW l \in Pcs, runs' = [runs EXCEPT ![n].pc = l]
    PROVE  /\ runs' \in [Runs -> Run]
           /\ runs'[n].pc = l /\ runs'[n].turn = runs[n].turn
           /\ runs'[n].seen = runs[n].seen /\ runs'[n].via = runs[n].via /\ runs'[n].kind = runs[n].kind
           /\ \A k \in Runs \ {n} : runs'[k] = runs[k]
<1>1. runs[n] \in Run
  OBVIOUS
<1>2. [runs[n] EXCEPT !.pc = l] \in Run
  BY <1>1, RunFields
<1>3. QED
  BY <1>1, <1>2 DEF Run

\* input_requested: the request of a run that asks is new.
LEMMA ParkStep == ASSUME IInv, NEW n \in Runs, NEW m \in Modes, Park(n, m) PROVE IInv'
<1> DEFINE t == runs[n].turn
           q == [state |-> "pending", mode |-> m, turn |-> t, run |-> turns[t].run,
                 resume |-> IF m = "native_resume" THEN "available" ELSE "none"]
<1>1. /\ runs[n].pc = "running" /\ t \in Runs /\ worktree = n /\ requests[n].state = "absent"
      /\ runs \in [Runs -> Run] /\ requests \in [Runs -> Request] /\ turns \in [Runs -> Turn]
  BY DEF Park, IInv, Worked, Working, TypeOK
<1>2. UNCHANGED <<turns, receipts, messages, checkpoint, worktree, handler, host, launched, crashes>>
  BY DEF Park
<1>3. runs'[n].pc \in {"parking", "parked"} /\ runs'[n].turn = runs[n].turn
      /\ runs' \in [Runs -> Run] /\ \A k \in Runs \ {n} : runs'[k] = runs[k]
  <2>1. CASE runs' = [runs EXCEPT ![n].pc = "parked"]
    BY <1>1, <2>1, RunMoves DEF Pcs
  <2>2. CASE runs' = [runs EXCEPT ![n].pc = "parking", ![n].seenTurn = turns[t]]
    <3>1. runs[n] \in Run /\ turns[t] \in Turn
      BY <1>1
    <3>2. [runs[n] EXCEPT !.pc = "parking", !.seenTurn = turns[t]] \in Run
      BY <3>1, RunFields DEF Pcs
    <3>3. QED
      BY <1>1, <2>2, <3>1, <3>2 DEF Run
  <2>3. QED
    BY <2>1, <2>2 DEF Park
<1>4. requests' = requests \/ requests' = [requests EXCEPT ![n] = q]
  BY DEF Park
<1>5. q \in Request
  BY <1>1, ModesAreKnown DEF Request, Turn
<1>6. /\ requests' \in [Runs -> Request] /\ \A k \in Runs \ {n} : requests'[k] = requests[k]
      /\ requests'[n] = requests[n] \/ requests'[n] = q
  BY <1>1, <1>4, <1>5
<1>7. q.state = "pending" /\ q.turn \in Runs
  BY <1>1
<1> HIDE DEF q
<1>8. TypeOK'
  BY <1>2, <1>3, <1>6 DEF IInv, TypeOK
<1>9. ASSUME NEW r \in Runs PROVE Asked(requests[r], receipts[r], messages[r], launched[r])'
  BY <1>1, <1>2, <1>6, <1>7 DEF IInv, Asked
<1>10. ASSUME NEW k \in Runs PROVE Worked(k, runs[k], requests[k], checkpoint, worktree)'
  BY <1>1, <1>2, <1>3, <1>6 DEF IInv, Worked, Working
<1>11. ASSUME NEW k \in Runs PROVE Seen(k)'
  <2>1. \A r \in Runs : requests[r].state # "absent" => requests'[r].state # "absent"
    BY <1>1, <1>6
  <2>2. runs[k].seen \subseteq Runs
    BY <1>1 DEF Run
  <2>3. QED
    BY <1>3, <2>1, <2>2 DEF IInv, Seen
<1>12. Handled'
  <2>1. handler.pc # "idle" => handler.request \in Runs \ {n}
    BY <1>1 DEF IInv, Handled
  <2>2. handler.pc \in Carrying => handler.run \in Runs \ {n}
    BY <1>1 DEF IInv, Handled
  <2>3. QED
    BY <1>2, <1>3, <1>6, <2>1, <2>2 DEF IInv, Handled, Native, Carrying, Turned
<1>13. QED
  BY <1>8, <1>9, <1>10, <1>11, <1>12 DEF IInv

\* Only where a run is changes, and perhaps a turn; the run keeps its worktree.
LEMMA RunGoesOn ==
    ASSUME IInv, NEW n \in Runs, NEW l \in Pcs, runs[n].pc \in Working, l \in (Working \ {"running"}) \cup {"closing"},
           runs' \in [Runs -> Run], runs'[n].pc = l, runs'[n].turn = runs[n].turn,
           \A k \in Runs \ {n} : runs'[k] = runs[k],
           l \in {"ending", "cancelling"} =>
              runs'[n].kind \in Final /\ \A r \in runs'[n].seen : requests[r].state # "absent",
           turns' \in [Runs -> Turn],
           UNCHANGED <<requests, receipts, messages, checkpoint, worktree, handler, host, launched, crashes>>
    PROVE  IInv'
<1>1. TypeOK'
  BY DEF IInv, TypeOK
<1>2. ASSUME NEW r \in Runs PROVE Asked(requests[r], receipts[r], messages[r], launched[r])'
  BY DEF IInv
<1>3. ASSUME NEW k \in Runs PROVE Worked(k, runs[k], requests[k], checkpoint, worktree)'
  <2>1. CASE k = n
    <3>1. worktree = n /\ runs[n].turn \in Runs /\ (n # 1 => checkpoint = [state |-> "baseline", turn |-> runs[n].turn])
      BY DEF IInv, Worked, Working
    <3>2. QED
      BY <2>1, <3>1 DEF Worked, Working
  <2>2. CASE k # n
    BY <2>2 DEF IInv, Worked
  <2>3. QED
    BY <2>1, <2>2
<1>4. ASSUME NEW k \in Runs PROVE Seen(k)'
  BY DEF IInv, Seen
<1>5. Handled'
  <2>1. handler.pc \in Carrying => handler.run \in Runs \ {n}
    BY DEF IInv, Handled, Working
  <2>2. QED
    BY <2>1 DEF IInv, Handled, Native, Carrying, Turned
<1>6. QED
  BY <1>1, <1>2, <1>3, <1>4, <1>5 DEF IInv

\* The turn that was read is written back as waiting.
LEMMA ParkTurnStep == ASSUME IInv, NEW n \in Runs, ParkTurn(n) PROVE IInv'
<1>1. /\ runs[n].pc = "parking" /\ runs' = [runs EXCEPT ![n].pc = "parked"]
      /\ UNCHANGED <<requests, receipts, messages, checkpoint, worktree, handler, host, launched, crashes>>
      /\ runs \in [Runs -> Run] /\ turns \in [Runs -> Turn] /\ runs[n].turn \in Runs
  BY DEF ParkTurn, IInv, TypeOK, Worked, Working
<1>2. [runs[n].seenTurn EXCEPT !.status = "waiting_for_user"] \in Turn
  <2>1. runs[n].seenTurn \in Turn
    BY <1>1 DEF Run
  <2>2. QED
    BY <2>1, OtherFields DEF Statuses, Live
<1>3. turns' \in [Runs -> Turn]
  BY <1>1, <1>2 DEF ParkTurn
<1>4. runs' \in [Runs -> Run] /\ runs'[n].pc = "parked" /\ runs'[n].turn = runs[n].turn
      /\ \A k \in Runs \ {n} : runs'[k] = runs[k]
  BY <1>1, RunMoves DEF Pcs
<1>5. QED
  BY <1>1, <1>3, <1>4, RunGoesOn DEF Pcs, Working

\* A terminal event reads the turn and the pending inputs.
LEMMA EndingStep == ASSUME IInv, NEW n \in Runs, NEW kind \in Final, Ending(n, kind) PROVE IInv'
<1> DEFINE seen == {r \in Runs : Pending(r) /\ requests[r].turn = runs[n].turn}
<1>1. /\ runs[n].pc \in {"running", "parked"}
      /\ runs' = [runs EXCEPT ![n].pc = "ending", ![n].kind = kind,
                              ![n].seenTurn = turns[runs[n].turn], ![n].seen = seen]
      /\ UNCHANGED <<turns, requests, receipts, messages, checkpoint, worktree, handler, host, launched, crashes>>
  BY DEF Ending, durable
<1>2. /\ runs \in [Runs -> Run] /\ runs[n].turn \in Runs /\ turns \in [Runs -> Turn]
  BY <1>1 DEF IInv, TypeOK, Worked, Working
<1>3. runs[n] \in Run /\ turns[runs[n].turn] \in Turn /\ seen \in SUBSET Runs
  BY <1>2
<1>4. \A r \in seen : requests[r].state # "absent"
  BY DEF Pending
<1> HIDE DEF seen
<1> DEFINE y == [runs[n] EXCEPT !.pc = "ending", !.kind = kind, !.seenTurn = turns[runs[n].turn], !.seen = seen]
<1>5. y \in Run /\ y.pc = "ending" /\ y.turn = runs[n].turn /\ y.seen = seen /\ y.kind = kind
  <2>1. y \in Run
    BY <1>3, RunFields DEF Pcs
  <2>2. QED
    BY <1>3, <2>1 DEF Run
<1>6. /\ runs' \in [Runs -> Run] /\ runs'[n].pc = "ending" /\ runs'[n].turn = runs[n].turn
      /\ runs'[n].seen = seen /\ runs'[n].kind = kind
      /\ \A k \in Runs \ {n} : runs'[k] = runs[k]
  <2>1. runs' = [runs EXCEPT ![n] = y]
    BY <1>1
  <2> HIDE DEF y
  <2>2. QED
    BY <1>2, <1>5, <2>1
<1>7. runs'[n].kind \in Final /\ \A r \in runs'[n].seen : requests[r].state # "absent"
  BY <1>4, <1>6
<1>8. turns' \in [Runs -> Turn] /\ runs[n].pc \in Working
  BY <1>1, <1>2 DEF Working
<1> HIDE DEF y
<1>9. QED
  BY <1>1, <1>6, <1>7, <1>8, RunGoesOn DEF Pcs, Working

\* The turn that was read is written back as ended.
LEMMA EndTurnStep == ASSUME IInv, NEW n \in Runs, EndTurn(n) PROVE IInv'
<1>1. /\ runs[n].pc = "ending" /\ runs' = [runs EXCEPT ![n].pc = "cancelling"]
      /\ turns' = [turns EXCEPT ![runs[n].turn] = [runs[n].seenTurn EXCEPT !.status = runs[n].kind]]
      /\ UNCHANGED <<requests, receipts, messages, checkpoint, worktree, handler, host, launched, crashes>>
      /\ runs \in [Runs -> Run] /\ turns \in [Runs -> Turn] /\ runs[n].turn \in Runs
  BY DEF EndTurn, IInv, TypeOK, Worked, Working
<1>2. runs' \in [Runs -> Run] /\ runs'[n].pc = "cancelling" /\ runs'[n].turn = runs[n].turn
      /\ runs'[n].seen = runs[n].seen /\ runs'[n].kind = runs[n].kind /\ \A k \in Runs \ {n} : runs'[k] = runs[k]
  BY <1>1, RunMoves DEF Pcs
<1>3. runs[n].kind \in Final /\ \A r \in runs[n].seen : requests[r].state # "absent"
  BY <1>1 DEF IInv, Seen, Worked
<1>4. turns' \in [Runs -> Turn]
  <2>1. runs[n].seenTurn \in Turn
    BY <1>1 DEF Run
  <2>2. QED
    BY <1>1, <1>3, <2>1, OtherFields DEF Statuses
<1>5. QED
  BY <1>1, <1>2, <1>3, <1>4, RunGoesOn DEF Pcs, Working

\* The pending inputs that were read are cancelled, whatever became of them.
LEMMA CancelInputsStep == ASSUME IInv, NEW n \in Runs, CancelInputs(n) PROVE IInv'
<1>1. /\ runs[n].pc = "cancelling"
      /\ UNCHANGED <<turns, receipts, messages, checkpoint, worktree, handler, host, launched, crashes>>
      /\ runs \in [Runs -> Run] /\ requests \in [Runs -> Request] /\ runs[n].turn \in Runs
      /\ worktree = n
  BY DEF CancelInputs, IInv, TypeOK, Worked, Working
<1>2. runs' \in [Runs -> Run] /\ runs'[n].pc \in {"unavailing", "parked"} /\ runs'[n].turn = runs[n].turn
      /\ \A k \in Runs \ {n} : runs'[k] = runs[k]
  BY <1>1, RunMoves DEF CancelInputs, Pcs
<1>3. \A r \in runs[n].seen : requests[r].state # "absent"
  BY <1>1 DEF IInv, Seen
<1>4. ASSUME NEW r \in Runs
      PROVE  LET q == [requests[r] EXCEPT !.state = "cancelled", !.resume = IF Native(r) THEN "available" ELSE "none"]
             IN  q \in Request /\ q.state = "cancelled" /\ q.mode = requests[r].mode /\ q.turn = requests[r].turn
  <2>1. requests[r] \in Request
    BY <1>1
  <2>2. QED
    BY <2>1 DEF Request
<1>5. /\ requests' \in [Runs -> Request]
      /\ \A r \in Runs : \/ requests'[r] = requests[r]
                         \/ /\ requests[r].state # "absent" /\ requests'[r].state = "cancelled"
                            /\ requests'[r].mode = requests[r].mode /\ requests'[r].turn = requests[r].turn
  <2>1. requests' = [r \in Runs |-> IF r \in runs[n].seen
                                   THEN [requests[r] EXCEPT !.state = "cancelled",
                                             !.resume = IF Native(r) THEN "available" ELSE "none"]
                                   ELSE requests[r]]
    BY DEF CancelInputs
  <2>2. QED
    BY <1>1, <1>3, <1>4, <2>1
<1>6. TypeOK'
  BY <1>1, <1>2, <1>5 DEF IInv, TypeOK
<1>7. ASSUME NEW r \in Runs PROVE Asked(requests[r], receipts[r], messages[r], launched[r])'
  BY <1>1, <1>5 DEF IInv, Asked
<1>8. ASSUME NEW k \in Runs PROVE Worked(k, runs[k], requests[k], checkpoint, worktree)'
  BY <1>1, <1>2, <1>5 DEF IInv, Worked, Working
<1>9. ASSUME NEW k \in Runs PROVE Seen(k)'
  <2>1. runs[k].seen \subseteq Runs
    BY <1>1 DEF Run
  <2>2. QED
    BY <1>2, <1>5, <2>1 DEF IInv, Seen
<1>10. Handled'
  <2>1. handler.pc \in Carrying => handler.run \in Runs \ {n}
    BY <1>1 DEF IInv, Handled
  <2>2. handler.pc # "idle" => handler.request \in Runs
    BY DEF IInv, Handled
  <2>3. QED
    BY <1>1, <1>2, <1>5, <2>1, <2>2 DEF IInv, Handled, Native, Carrying, Turned
<1>11. QED
  BY <1>6, <1>7, <1>8, <1>9, <1>10 DEF IInv

\* A mark on a request leaves what the others rely on.
LEMMA MarksKeep ==
    ASSUME IInv, requests' \in [Runs -> Request],
           \A s \in Runs : /\ requests'[s].state = requests[s].state /\ requests'[s].mode = requests[s].mode
                           /\ requests'[s].turn = requests[s].turn
                           /\ requests'[s].resume \in {requests[s].resume, "unavailable"},
           UNCHANGED <<receipts, messages, launched>>
    PROVE  \A r \in Runs : Asked(requests[r], receipts[r], messages[r], launched[r])'
BY DEF IInv, Asked

\* The native resume of a run that failed is marked unavailable.
LEMMA ResumeFailedStep == ASSUME IInv, NEW n \in Runs, ResumeFailed(n) PROVE IInv'
<1>1. /\ runs[n].pc = "unavailing" /\ runs' = [runs EXCEPT ![n].pc = "parked"]
      /\ requests' = WithUnavailable(runs[n].via)
      /\ UNCHANGED <<turns, receipts, messages, checkpoint, worktree, handler, host, launched, crashes>>
      /\ runs \in [Runs -> Run] /\ requests \in [Runs -> Request]
  BY DEF ResumeFailed, IInv, TypeOK
<1>2. runs' \in [Runs -> Run] /\ runs'[n].pc = "parked" /\ runs'[n].turn = runs[n].turn
      /\ \A k \in Runs \ {n} : runs'[k] = runs[k]
  BY <1>1, RunMoves DEF Pcs
<1>3. /\ requests' \in [Runs -> Request]
      /\ \A s \in Runs : /\ requests'[s].state = requests[s].state /\ requests'[s].mode = requests[s].mode
                         /\ requests'[s].turn = requests[s].turn
                         /\ requests'[s].resume \in {requests[s].resume, "unavailable"}
  BY <1>1, Marked
<1>4. TypeOK'
  BY <1>1, <1>2, <1>3 DEF IInv, TypeOK
<1>5. ASSUME NEW r \in Runs PROVE Asked(requests[r], receipts[r], messages[r], launched[r])'
  BY <1>1, <1>3, MarksKeep
<1>6. ASSUME NEW k \in Runs PROVE Worked(k, runs[k], requests[k], checkpoint, worktree)'
  BY <1>1, <1>2, <1>3 DEF IInv, Worked, Working
<1>7. ASSUME NEW k \in Runs PROVE Seen(k)'
  <2>1. runs[k].seen \subseteq Runs
    BY <1>1 DEF Run
  <2>2. QED
    BY <1>2, <1>3, <2>1 DEF IInv, Seen
<1>8. Handled'
  <2>1. handler.pc \in Carrying => handler.run \in Runs \ {n}
    BY <1>1 DEF IInv, Handled
  <2>2. handler.pc # "idle" => handler.request \in Runs
    BY DEF IInv, Handled
  <2>3. QED
    BY <1>1, <1>2, <1>3, <2>1, <2>2 DEF IInv, Handled, Native, Carrying, Turned
<1>9. QED
  BY <1>4, <1>5, <1>6, <1>7, <1>8 DEF IInv

\* The teardown settles the checkpoint of the one run that has the worktree.
LEMMA TeardownStep == ASSUME IInv, NEW n \in Runs, Teardown(n) PROVE IInv'
<1>1. /\ runs[n].pc = "parked" /\ runs' = [runs EXCEPT ![n].pc = "closing"] /\ worktree = n
      /\ UNCHANGED <<turns, requests, receipts, messages, worktree, handler, host, launched, crashes>>
      /\ runs \in [Runs -> Run]
  BY DEF Teardown, IInv, TypeOK, Worked
<1>2. checkpoint' \in [state : {"baseline", "completed", "failed", "unavailable"}, turn : Runs]
  BY DEF Teardown, CheckpointAfter, IInv, TypeOK
<1>3. runs' \in [Runs -> Run] /\ runs'[n].pc = "closing" /\ runs'[n].turn = runs[n].turn
      /\ \A k \in Runs \ {n} : runs'[k] = runs[k]
  BY <1>1, RunMoves DEF Pcs
<1>4. \A k \in Runs \ {n} : runs[k].pc \in {"none", "done"}
  BY <1>1 DEF IInv, Worked
<1>5. TypeOK'
  BY <1>1, <1>2, <1>3 DEF IInv, TypeOK
<1>6. ASSUME NEW r \in Runs PROVE Asked(requests[r], receipts[r], messages[r], launched[r])'
  BY <1>1 DEF IInv
<1>7. ASSUME NEW k \in Runs PROVE Worked(k, runs[k], requests[k], checkpoint, worktree)'
  BY <1>1, <1>3, <1>4 DEF IInv, Worked, Working
<1>8. ASSUME NEW k \in Runs PROVE Seen(k)'
  BY <1>1, <1>3 DEF IInv, Seen
<1>9. Handled'
  <2>1. handler.pc \notin Carrying
    BY <1>1, <1>4 DEF IInv, Handled
  <2>2. QED
    BY <1>1, <2>1 DEF IInv, Handled, Native, Carrying, Turned
<1>10. QED
  BY <1>5, <1>6, <1>7, <1>8, <1>9 DEF IInv

\* Then it gives the worktree back.
LEMMA FreeWorktreeStep == ASSUME IInv, NEW n \in Runs, FreeWorktree(n) PROVE IInv'
<1>1. /\ runs[n].pc = "closing" /\ runs' = [runs EXCEPT ![n].pc = "done"] /\ worktree = n /\ worktree' = None
      /\ UNCHANGED <<turns, requests, receipts, messages, checkpoint, handler, host, launched, crashes>>
      /\ runs \in [Runs -> Run]
  BY DEF FreeWorktree, IInv, TypeOK, Worked, durable
<1>2. runs' \in [Runs -> Run] /\ runs'[n].pc = "done"
      /\ \A k \in Runs \ {n} : runs'[k] = runs[k]
  BY <1>1, RunMoves DEF Pcs
<1>3. \A k \in Runs \ {n} : runs[k].pc \in {"none", "done"}
  BY <1>1 DEF IInv, Worked
<1>4. TypeOK'
  BY <1>1, <1>2 DEF IInv, TypeOK
<1>5. ASSUME NEW r \in Runs PROVE Asked(requests[r], receipts[r], messages[r], launched[r])'
  BY <1>1 DEF IInv
<1>6. ASSUME NEW k \in Runs PROVE Worked(k, runs[k], requests[k], checkpoint, worktree)'
  BY <1>1, <1>2, <1>3 DEF IInv, Worked, Working
<1>7. ASSUME NEW k \in Runs PROVE Seen(k)'
  BY <1>1, <1>2 DEF IInv, Seen
<1>8. Handled'
  <2>1. handler.pc \notin Carrying
    BY <1>1, <1>3 DEF IInv, Handled
  <2>2. QED
    BY <1>1, <2>1 DEF IInv, Handled, Native, Carrying, Turned
<1>9. QED
  BY <1>4, <1>5, <1>6, <1>7, <1>8 DEF IInv

-----------------------------------------------------------------------------
(* The steps of the respond route                                          *)

\* A step of the route that moves only its own memory, and perhaps a turn.
LEMMA RouteMoves ==
    ASSUME IInv, handler' \in Handler, turns' \in [Runs -> Turn], Handled',
           UNCHANGED <<requests, receipts, messages, checkpoint, runs, worktree, host, launched, crashes>>
    PROVE  IInv'
BY DEF IInv, TypeOK, Asked, Worked, Seen

\* A step of the route that also writes about a request, which stays a request.
LEMMA RouteWrites ==
    ASSUME IInv, handler' \in Handler, turns' \in [Runs -> Turn], Handled',
           requests' \in [Runs -> Request], receipts' \in [Runs -> Nat],
           messages' \in [Runs -> SUBSET Runs], launched' \in [Runs -> Nat],
           \A s \in Runs : requests'[s].state = "absent" <=> requests[s].state = "absent",
           \A s \in Runs : Asked(requests[s], receipts[s], messages[s], launched[s])',
           host' \in {"up", "restarting", "recovering"},
           UNCHANGED <<checkpoint, runs, worktree, crashes>>
    PROVE  IInv'
<1>1. TypeOK'
  BY DEF IInv, TypeOK
<1>2. ASSUME NEW k \in Runs PROVE Worked(k, runs[k], requests[k], checkpoint, worktree)'
  BY DEF IInv, Worked
<1>3. ASSUME NEW k \in Runs PROVE Seen(k)'
  <2>1. runs[k].seen \subseteq Runs
    BY DEF IInv, TypeOK, Run
  <2>2. QED
    BY <2>1 DEF IInv, Seen
<1>4. QED
  BY <1>1, <1>2, <1>3 DEF IInv

\* The types of the variables.
LEMMA Types ==
    ASSUME IInv
    PROVE  /\ requests \in [Runs -> Request] /\ runs \in [Runs -> Run] /\ turns \in [Runs -> Turn]
           /\ handler \in Handler /\ receipts \in [Runs -> Nat] /\ messages \in [Runs -> SUBSET Runs]
           /\ launched \in [Runs -> Nat]
BY DEF IInv, TypeOK

\* The route takes up an answer to a request that is pending.
LEMMA AnswerStep == ASSUME IInv, NEW r \in Runs, Answer(r) PROVE IInv'
<1>1. /\ host = "up" /\ requests[r].state = "pending"
      /\ handler' = [Idle EXCEPT !.pc = "resolve", !.request = r]
      /\ UNCHANGED <<turns, requests, receipts, messages, checkpoint, runs, worktree, host, launched, crashes>>
  BY DEF Answer, Answerable, Pending, durable
<1>2. /\ handler'.pc = "resolve" /\ handler'.request = r
      /\ handler' \in Handler
  <2>1. handler' = [pc |-> "resolve", request |-> r, run |-> None, attempt |-> 0, turn |-> None]
    BY <1>1 DEF Idle
  <2>2. QED
    BY <2>1, BoundsAreNat DEF Handler
<1>3. Handled'
  BY <1>1, <1>2 DEF Handled, Carrying, Turned
<1>4. QED
  BY <1>1, <1>2, <1>3, Types, RouteMoves

\* Request, receipt and turn in one rewrite: the one receipt of the answer.
LEMMA ResolveStep == ASSUME IInv, Resolve PROVE IInv'
<1> DEFINE r == handler.request
<1>1. /\ handler.pc = "resolve" /\ r \in Runs /\ requests[r].state # "absent" /\ host = "up"
      /\ UNCHANGED <<messages, checkpoint, runs, worktree, host, launched, crashes>>
      /\ handler \in Handler /\ requests \in [Runs -> Request] /\ turns \in [Runs -> Turn]
      /\ receipts \in [Runs -> Nat] /\ messages \in [Runs -> SUBSET Runs] /\ launched \in [Runs -> Nat]
  <2>1. handler # Idle => host = "up"
    BY DEF IInv, Handled, TypeOK
  <2>2. handler.pc = "resolve"
    BY DEF Resolve
  <2>3. host = "up"
    BY <2>1, <2>2, EmptyRecords
  <2>4. QED
    BY <2>2, <2>3, Types DEF Resolve, IInv, Handled
<1>2. CASE ~Answerable(r)
  <2>1. handler' = Idle /\ UNCHANGED <<requests, receipts, turns>>
    BY <1>2 DEF Resolve
  <2>2. Handled'
    BY <2>1, EmptyRecords DEF Handled, Carrying, Turned
  <2>3. QED
    BY <1>1, <2>1, <2>2, EmptyRecords, RouteMoves
<1>3. CASE Answerable(r)
  <2> DEFINE q == [requests[r] EXCEPT !.state = "answered", !.resume = IF Native(r) THEN "starting" ELSE "none"]
  <2>1. /\ requests' = [requests EXCEPT ![r] = q]
        /\ receipts' = [receipts EXCEPT ![r] = receipts[r] + 1]
        /\ turns' = [turns EXCEPT ![requests[r].turn].status = IF Native(r) THEN "active" ELSE "completed"]
        /\ handler' = [handler EXCEPT !.pc = "inspect"]
    BY <1>1, <1>3 DEF Resolve
  <2>2. requests[r].state = "pending" /\ receipts[r] = 0 /\ messages[r] = {} /\ launched[r] = 0
    BY <1>1, <1>3 DEF Answerable, Pending, IInv, Asked
  <2>3. requests[r] \in Request /\ turns[requests[r].turn] \in Turn /\ requests[r].turn \in Runs
    BY <1>1 DEF IInv, Asked
  <2>4. q \in Request /\ q.state = "answered" /\ q.turn = requests[r].turn /\ q.mode = requests[r].mode
    BY <2>3 DEF Request
  <2>5. turns' \in [Runs -> Turn]
    BY <1>1, <2>1, <2>3, OtherFields DEF Statuses, Live, Final
  <2> HIDE DEF q
  <2>6. handler' \in Handler /\ handler'.pc = "inspect" /\ handler'.request = r
    BY <1>1, <2>1, HandlerMoves DEF Steps
  <2>7. /\ requests' \in [Runs -> Request] /\ requests'[r] = q /\ \A s \in Runs \ {r} : requests'[s] = requests[s]
        /\ receipts' \in [Runs -> Nat] /\ receipts'[r] = 1 /\ \A s \in Runs \ {r} : receipts'[s] = receipts[s]
    BY <1>1, <2>1, <2>2, <2>4
  <2>8. Handled'
    BY <1>1, <2>2, <2>4, <2>6, <2>7 DEF Handled, Carrying, Turned
  <2>9. \A s \in Runs : Asked(requests[s], receipts[s], messages[s], launched[s])'
    BY <1>1, <2>2, <2>3, <2>4, <2>7 DEF IInv, Asked
  <2>10. \A s \in Runs : requests'[s].state = "absent" <=> requests[s].state = "absent"
    BY <2>2, <2>4, <2>7
  <2> HIDE DEF r
  <2>11. QED
    BY <1>1, <2>5, <2>6, <2>7, <2>8, <2>9, <2>10, RouteWrites
<1>4. QED
  BY <1>2, <1>3

\* What the route knows of its request whenever it is at work.
LEMMA AtWork ==
    ASSUME IInv, handler.pc # "idle"
    PROVE  /\ handler.request \in Runs /\ requests[handler.request] \in Request
           /\ requests[handler.request].state # "absent" /\ requests[handler.request].turn \in Runs
           /\ host = "up"
<1>1. host = "up"
  BY EmptyRecords DEF IInv, Handled
<1>2. QED
  BY <1>1, Types DEF IInv, Handled, Asked

\* The route moves on in its memory alone.
LEMMA InspectStep == ASSUME IInv, Inspect PROVE IInv'
<1> DEFINE r == handler.request
<1>1. /\ handler.pc = "inspect" /\ host = "up" /\ r \in Runs /\ requests[r].state \notin {"absent", "pending"}
      /\ UNCHANGED <<turns, requests, receipts, messages, checkpoint, runs, worktree, host, launched, crashes>>
      /\ ~Native(r) => messages[r] = {}
  BY AtWork DEF Inspect, IInv, Handled, durable
<1>2. handler' \in Handler /\ handler'.pc \in {"inspect", "admit", "giveUp"} /\ handler'.request = r
  <2>1. handler \in Handler
    BY Types
  <2>2. CASE handler' = [handler EXCEPT !.pc = "admit"]
    BY <2>1, <2>2, HandlerMoves DEF Steps
  <2>3. CASE handler' = Retried
    BY <2>1, <2>3, Retries
  <2>4. QED
    BY <2>2, <2>3 DEF Inspect
<1>3. Handled'
  BY <1>1, <1>2 DEF Handled, Native, Carrying, Turned
<1>4. QED
  BY <1>1, <1>2, <1>3, Types, RouteMoves

\* The worktree is taken only when no run has it, by a run that never asked.
LEMMA AdmitStep == ASSUME IInv, Admit PROVE IInv'
<1> DEFINE r == handler.request
<1>1. /\ handler.pc = "admit" /\ host = "up" /\ r \in Runs /\ requests[r].state \notin {"absent", "pending"}
      /\ UNCHANGED <<turns, requests, receipts, messages, checkpoint, host, launched, crashes>>
      /\ ~Native(r) => messages[r] = {}
      /\ handler \in Handler /\ runs \in [Runs -> Run]
  BY AtWork, Types DEF Admit, IInv, Handled, durable
<1>2. CASE worktree # None
  <2>1. handler' = Retried /\ UNCHANGED <<runs, worktree>>
    BY <1>2 DEF Admit, WorktreeFree
  <2>2. handler' \in Handler /\ handler'.pc \in {"inspect", "giveUp"} /\ handler'.request = r
    BY <1>1, <2>1, Retries
  <2>3. Handled'
    BY <1>1, <2>1, <2>2 DEF Handled, Native, Carrying, Turned
  <2>4. QED
    BY <1>1, <2>1, <2>2, <2>3, Types, RouteMoves
<1>3. CASE worktree = None
  <2> DEFINE l == IF Native(r) THEN "claim" ELSE "start"
  <2>1. PICK n \in Unused :
          /\ worktree' = n /\ runs' = [runs EXCEPT ![n].pc = "starting"]
          /\ handler' = [handler EXCEPT !.run = n, !.pc = l]
    BY <1>3 DEF Admit, WorktreeFree
  <2>2. n \in Runs /\ runs[n].pc = "none" /\ l \in Steps
    BY DEF Unused, Steps
  <2>3. /\ runs' \in [Runs -> Run] /\ runs'[n].pc = "starting" /\ \A k \in Runs \ {n} : runs'[k] = runs[k]
    BY <1>1, <2>1, <2>2, RunMoves DEF Pcs
  <2>4. handler' = [handler EXCEPT !.pc = l, !.run = n]
    BY <2>1
  <2> HIDE DEF l
  <2>5. handler' \in Handler /\ handler'.pc = l /\ handler'.request = r /\ handler'.run = n
    BY <1>1, <2>2, <2>4, HandlerTakesRun
  <2>6. \A k \in Runs : runs[k].pc \in {"none", "done"}
    BY <1>3, EmptyRecords DEF IInv, Worked
  <2>7. TypeOK'
    BY <1>1, <2>1, <2>2, <2>3, <2>5 DEF IInv, TypeOK
  <2>8. ASSUME NEW s \in Runs PROVE Asked(requests[s], receipts[s], messages[s], launched[s])'
    BY <1>1 DEF IInv
  <2>9. ASSUME NEW k \in Runs PROVE Worked(k, runs[k], requests[k], checkpoint, worktree)'
    <3>1. CASE k = n
      BY <1>1, <2>1, <2>2, <2>3, <3>1 DEF IInv, Worked, Working
    <3>2. CASE k # n
      BY <1>1, <2>3, <2>6, <3>2 DEF IInv, Worked, Working
    <3>3. QED
      BY <3>1, <3>2
  <2>10. ASSUME NEW k \in Runs PROVE Seen(k)'
    BY <1>1, <2>3 DEF IInv, Seen
  <2>11. Handled'
    BY <1>1, <2>2, <2>3, <2>5 DEF Handled, Native, Carrying, Turned, l
  <2>12. QED
    BY <2>7, <2>8, <2>9, <2>10, <2>11 DEF IInv
<1>4. QED
  BY <1>2, <1>3

\* Launch: one more process, for a request that had none.
LEMMA LaunchStep == ASSUME IInv, Launch PROVE IInv'
<1> DEFINE r == handler.request
<1>1. /\ handler.pc = "launch" /\ host = "up" /\ r \in Runs /\ requests[r].state \notin {"absent", "pending"}
      /\ UNCHANGED <<turns, requests, receipts, messages, checkpoint, runs, worktree, host, crashes>>
      /\ handler \in Handler /\ launched \in [Runs -> Nat] /\ launched[r] = 0
      /\ handler.run \in Runs /\ runs[handler.run].pc = "starting"
      /\ handler.turn \in Runs /\ runs[handler.run].turn = handler.turn
      /\ IF Native(r) THEN requests[r].state = "answered" => requests[r].resume # "starting"
                      ELSE messages[r] # {}
  BY AtWork, Types DEF Launch, IInv, Handled, durable, Carrying, Turned
<1>2. PICK l \in {"rebind", "startFailed"} :
        /\ handler' = [handler EXCEPT !.pc = l]
        /\ launched' = launched \/ launched' = [launched EXCEPT ![r] = launched[r] + 1]
  BY DEF Launch
<1>3. handler' \in Handler /\ handler'.pc = l /\ handler'.request = r
      /\ handler'.run = handler.run /\ handler'.turn = handler.turn
  BY <1>1, <1>2, HandlerMoves DEF Steps
<1>4. launched' \in [Runs -> Nat] /\ launched'[r] \in {0, 1} /\ \A s \in Runs \ {r} : launched'[s] = launched[s]
  BY <1>1, <1>2
<1>5. Handled'
  BY <1>1, <1>3 DEF Handled, Native, Carrying, Turned
<1>6. ASSUME NEW s \in Runs PROVE Asked(requests[s], receipts[s], messages[s], launched[s])'
  <2>1. CASE s = r
    BY <1>1, <1>4, <2>1 DEF IInv, Asked, Native
  <2>2. CASE s # r
    BY <1>1, <1>4, <2>2 DEF IInv, Asked
  <2>3. QED
    BY <2>1, <2>2
<1>7. QED
  BY <1>1, <1>3, <1>4, <1>5, <1>6, Types, RouteWrites

\* Start: the first and only message with the answer.
LEMMA StartStep == ASSUME IInv, Start PROVE IInv'
<1> DEFINE r == handler.request
           n == handler.run
<1>1. /\ handler.pc = "start" /\ host = "up" /\ r \in Runs /\ requests[r].state \notin {"absent", "pending"}
      /\ UNCHANGED <<requests, receipts, checkpoint, worktree, host, launched, crashes>>
      /\ handler \in Handler /\ messages \in [Runs -> SUBSET Runs] /\ runs \in [Runs -> Run] /\ turns \in [Runs -> Turn]
      /\ ~Native(r) /\ messages[r] = {} /\ n \in Runs /\ runs[n].pc = "starting" /\ requests[r] \in Request
  BY AtWork, Types DEF Start, IInv, Handled, Carrying
<1>2. /\ turns' = [turns EXCEPT ![n] = [status |-> "active", run |-> None]]
      /\ messages' = [messages EXCEPT ![r] = messages[r] \cup {n}]
      /\ runs' = [runs EXCEPT ![n].turn = n]
      /\ handler' = [handler EXCEPT !.pc = "launch", !.turn = n]
  BY DEF Start
<1>3. launched[r] = 0
  BY <1>1 DEF IInv, Asked, Native
<1>4. handler' \in Handler /\ handler'.pc = "launch" /\ handler'.request = r /\ handler'.run = n /\ handler'.turn = n
  BY <1>1, <1>2, HandlerTakesTurn DEF Steps
<1>5. messages' \in [Runs -> SUBSET Runs] /\ messages'[r] = {n} /\ \A s \in Runs \ {r} : messages'[s] = messages[s]
  BY <1>1, <1>2
<1>6. /\ runs' \in [Runs -> Run] /\ runs'[n].pc = "starting" /\ runs'[n].turn = n
      /\ \A k \in Runs \ {n} : runs'[k] = runs[k]
  <2>1. runs[n] \in Run /\ [runs[n] EXCEPT !.turn = n] \in Run
    BY <1>1, RunFields
  <2>2. [runs[n] EXCEPT !.turn = n].pc = runs[n].pc /\ [runs[n] EXCEPT !.turn = n].turn = n
    BY <2>1 DEF Run
  <2>3. QED
    BY <1>1, <1>2, <2>1, <2>2
<1>7. turns' \in [Runs -> Turn]
  <2>1. [status |-> "active", run |-> None] \in Turn
    BY DEF Turn, Live
  <2>2. QED
    BY <1>1, <1>2, <2>1
<1> HIDE DEF n
<1>8. TypeOK'
  BY <1>1, <1>4, <1>5, <1>6, <1>7 DEF IInv, TypeOK
<1>9. ASSUME NEW s \in Runs PROVE Asked(requests[s], receipts[s], messages[s], launched[s])'
  <2>1. CASE s = r
    <3>1. \A a, b \in messages'[r] : a = b
      BY <1>5
    <3>2. Asked(requests[r], receipts[r], messages[r], launched[r])
      BY <1>1 DEF IInv
    <3>3. QED
      BY <1>1, <1>3, <2>1, <3>1, <3>2 DEF Asked
  <2>2. CASE s # r
    BY <1>1, <1>5, <2>2 DEF IInv, Asked
  <2>3. QED
    BY <2>1, <2>2
<1>10. ASSUME NEW k \in Runs PROVE Worked(k, runs[k], requests[k], checkpoint, worktree)'
  BY <1>1, <1>6 DEF IInv, Worked, Working
<1>11. ASSUME NEW k \in Runs PROVE Seen(k)'
  BY <1>1, <1>6 DEF IInv, Seen
<1>12. Handled'
  <2>1. ~Native(r)' /\ messages'[r] # {}
    BY <1>1, <1>4, <1>5 DEF Native
  <2>2. QED
    BY <1>1, <1>3, <1>4, <1>6, <2>1 DEF Handled, Carrying, Turned
<1>13. QED
  BY <1>8, <1>9, <1>10, <1>11, <1>12 DEF IInv

\* The run of the route gives the worktree back before it has asked anything.
LEMMA RunLeaves ==
    ASSUME IInv, handler.pc \in Carrying,
           handler' \in Handler, handler'.request = handler.request, handler'.pc \in {"inspect", "giveUp"},
           handler'.pc = "inspect" => Native(handler.request),
           turns' \in [Runs -> Turn], requests' \in [Runs -> Request], runs' \in [Runs -> Run],
           runs'[handler.run].pc \in {"none", "done"},
           \A k \in Runs \ {handler.run} : runs'[k] = runs[k],
           \A s \in Runs : /\ requests'[s].state = requests[s].state /\ requests'[s].mode = requests[s].mode
                           /\ requests'[s].turn = requests[s].turn
                           /\ requests'[s].resume \in {requests[s].resume, "unavailable"},
           worktree' = None,
           UNCHANGED <<receipts, messages, checkpoint, host, launched, crashes>>
    PROVE  IInv'
<1> DEFINE n == handler.run
<1>1. n \in Runs /\ runs[n].pc = "starting" /\ worktree = n /\ requests[n].state = "absent"
  BY DEF IInv, Handled, Worked
<1>2. handler.request \in Runs /\ requests[handler.request].state \notin {"absent", "pending"} /\ host = "up"
  BY AtWork DEF IInv, Handled, Carrying, Turned
<1> HIDE DEF n
<1>3. \A k \in Runs \ {n} : runs[k].pc \in {"none", "done"}
  BY <1>1 DEF IInv, Worked
<1>4. runs'[n].pc \in {"none", "done"} /\ \A k \in Runs \ {n} : runs'[k] = runs[k]
  BY DEF n
<1>5. TypeOK'
  BY DEF IInv, TypeOK
<1>6. \A s \in Runs : Asked(requests[s], receipts[s], messages[s], launched[s])'
  BY MarksKeep
<1>7. ASSUME NEW k \in Runs PROVE Worked(k, runs[k], requests[k], checkpoint, worktree)'
  BY <1>1, <1>3, <1>4 DEF IInv, Worked, Working
<1>8. ASSUME NEW k \in Runs PROVE Seen(k)'
  BY <1>3, <1>4 DEF Seen
<1>9. Handled'
  BY <1>2 DEF Handled, Native, Carrying, Turned
<1>10. QED
  BY <1>5, <1>6, <1>7, <1>8, <1>9 DEF IInv

\* The claim of a native resume: the request leaves "starting" for good.
LEMMA ClaimStep == ASSUME IInv, Claim PROVE IInv'
<1> DEFINE r == handler.request
           n == handler.run
           t == requests[r].turn
<1>1. /\ handler.pc = "claim" /\ host = "up" /\ r \in Runs /\ requests[r].state \notin {"absent", "pending"}
      /\ UNCHANGED <<turns, receipts, messages, checkpoint, host, launched, crashes>>
      /\ handler \in Handler /\ runs \in [Runs -> Run] /\ requests \in [Runs -> Request] /\ turns \in [Runs -> Turn]
      /\ Native(r) /\ n \in Runs /\ runs[n].pc = "starting" /\ requests[r] \in Request /\ t \in Runs
  BY AtWork, Types DEF Claim, IInv, Handled, Carrying
<1>2. CASE ~Claimable(r)
  <2>1. runs' = [runs EXCEPT ![n] = NoRun] /\ worktree' = None /\ handler' = Retried /\ UNCHANGED requests
    BY <1>2 DEF Claim
  <2>2. handler' \in Handler /\ handler'.pc \in {"inspect", "giveUp"} /\ handler'.request = r
    BY <1>1, <2>1, Retries
  <2>3. runs' \in [Runs -> Run] /\ runs'[n].pc = "none" /\ \A k \in Runs \ {n} : runs'[k] = runs[k]
    BY <1>1, <2>1, EmptyRecords
  <2>4. handler.pc \in Carrying
    BY <1>1 DEF Carrying
  <2>5. QED
    BY <1>1, <2>1, <2>2, <2>3, <2>4, RunLeaves
<1>3. CASE Claimable(r)
  <2> DEFINE q == [requests[r] EXCEPT !.resume = "claimed"]
             x == [runs[n] EXCEPT !.turn = t, !.via = r]
  <2>1. /\ requests' = [requests EXCEPT ![r] = q]
        /\ runs' = [runs EXCEPT ![n] = x]
        /\ handler' = [handler EXCEPT !.pc = "launch", !.turn = t] /\ UNCHANGED worktree
    BY <1>3 DEF Claim
  <2>2. requests[r].state = "answered" /\ requests[r].resume = "starting"
    BY <1>1, <1>3 DEF Claimable, Bound
  <2>3. launched[r] = 0
    BY <1>1, <2>2 DEF IInv, Asked, Native
  <2>4. /\ q \in Request /\ q.state = "answered" /\ q.resume = "claimed"
        /\ q.mode = requests[r].mode /\ q.turn = requests[r].turn
    BY <1>1, <2>2 DEF Request
  <2>5. x \in Run /\ x.pc = "starting" /\ x.turn = t
    <3>1. runs[n] \in Run
      BY <1>1
    <3>2. x \in Run
      BY <1>1, <3>1, RunFields
    <3>3. QED
      BY <1>1, <3>1, <3>2 DEF Run
  <2>6. handler' \in Handler /\ handler'.pc = "launch" /\ handler'.request = r /\ handler'.run = n /\ handler'.turn = t
    BY <1>1, <2>1, HandlerTakesTurn DEF Steps
  <2> HIDE DEF q, x
  <2>7. requests' \in [Runs -> Request] /\ requests'[r] = q /\ \A s \in Runs \ {r} : requests'[s] = requests[s]
    BY <1>1, <2>1, <2>4
  <2>8. runs' \in [Runs -> Run] /\ runs'[n] = x /\ \A k \in Runs \ {n} : runs'[k] = runs[k]
    BY <1>1, <2>1, <2>5
  <2>9. \A s \in Runs : requests'[s].state = requests[s].state
    BY <2>2, <2>4, <2>7
  <2>10. TypeOK'
    BY <1>1, <2>1, <2>6, <2>7, <2>8 DEF IInv, TypeOK
  <2>11. ASSUME NEW s \in Runs PROVE Asked(requests[s], receipts[s], messages[s], launched[s])'
    <3>1. CASE s = r
      BY <1>1, <2>2, <2>3, <2>4, <2>7, <3>1 DEF IInv, Asked, Native
    <3>2. CASE s # r
      BY <1>1, <2>7, <3>2 DEF IInv, Asked
    <3>3. QED
      BY <3>1, <3>2
  <2>12. ASSUME NEW k \in Runs PROVE Worked(k, runs[k], requests[k], checkpoint, worktree)'
    BY <1>1, <2>1, <2>5, <2>8, <2>9 DEF IInv, Worked, Working
  <2>13. ASSUME NEW k \in Runs PROVE Seen(k)'
    <3>1. runs[k].seen \subseteq Runs
      BY <1>1 DEF Run
    <3>2. QED
      BY <2>5, <2>8, <2>9, <3>1 DEF IInv, Seen
  <2>14. Handled'
    <3>1. Native(r)' /\ launched'[handler'.request] = 0
      BY <1>1, <2>3, <2>4, <2>6, <2>7 DEF Native
    <3>2. QED
      BY <1>1, <2>4, <2>5, <2>6, <2>7, <2>8, <3>1 DEF Handled, Native, Carrying, Turned
  <2>15. QED
    BY <2>10, <2>11, <2>12, <2>13, <2>14 DEF IInv
<1>4. QED
  BY <1>2, <1>3

\* A start that failed gives up the claim, and nothing else of the request.
LEMMA StartFailedStep == ASSUME IInv, StartFailed PROVE IInv'
<1> DEFINE r == handler.request
<1>1. /\ handler.pc = "startFailed" /\ host = "up" /\ r \in Runs /\ requests[r].state \notin {"absent", "pending"}
      /\ UNCHANGED <<turns, receipts, messages, checkpoint, runs, worktree, host, launched, crashes>>
      /\ handler \in Handler /\ requests \in [Runs -> Request]
      /\ handler.run \in Runs /\ runs[handler.run].pc = "starting"
      /\ handler.turn \in Runs /\ runs[handler.run].turn = handler.turn
      /\ requests' = WithUnavailable(r) /\ handler' = [handler EXCEPT !.pc = "recordFailed"]
  BY AtWork, Types DEF StartFailed, IInv, Handled, Carrying, Turned
<1>2. handler' \in Handler /\ handler'.pc = "recordFailed" /\ handler'.request = r
      /\ handler'.run = handler.run /\ handler'.turn = handler.turn
  BY <1>1, HandlerMoves DEF Steps
<1> HIDE DEF r
<1>3. /\ requests' \in [Runs -> Request]
      /\ \A s \in Runs : /\ requests'[s].state = requests[s].state /\ requests'[s].mode = requests[s].mode
                         /\ requests'[s].turn = requests[s].turn
                         /\ requests'[s].resume \in {requests[s].resume, "unavailable"}
  BY <1>1, Marked
<1>4. \A s \in Runs : Asked(requests[s], receipts[s], messages[s], launched[s])'
  BY <1>1, <1>3, MarksKeep
<1>5. Handled'
  BY <1>1, <1>2, <1>3 DEF Handled, Native, Carrying, Turned
<1>6. QED
  BY <1>1, <1>2, <1>3, <1>4, <1>5, Types, RouteWrites

\* The turn of a start that failed is failed, and its run is over.
LEMMA RecordFailedStep == ASSUME IInv, RecordFailed PROVE IInv'
<1>1. /\ handler.pc = "recordFailed" /\ handler.run \in Runs /\ handler.turn \in Runs
      /\ UNCHANGED <<requests, receipts, messages, checkpoint, host, launched, crashes>>
      /\ handler \in Handler /\ runs \in [Runs -> Run] /\ turns \in [Runs -> Turn] /\ requests \in [Runs -> Request]
      /\ turns' = [turns EXCEPT ![handler.turn].status = "failed"]
      /\ runs' = [runs EXCEPT ![handler.run].pc = "done"] /\ worktree' = None
      /\ handler' = [handler EXCEPT !.pc = "giveUp"]
  BY Types DEF RecordFailed, IInv, Handled, Carrying, Turned
<1>2. handler' \in Handler /\ handler'.pc = "giveUp" /\ handler'.request = handler.request
  BY <1>1, HandlerMoves DEF Steps
<1>3. turns' \in [Runs -> Turn]
  BY <1>1, OtherFields DEF Statuses, Final
<1>4. runs' \in [Runs -> Run] /\ runs'[handler.run].pc = "done" /\ \A k \in Runs \ {handler.run} : runs'[k] = runs[k]
  BY <1>1, RunMoves DEF Pcs
<1>5. handler.pc \in Carrying
  BY <1>1 DEF Carrying, Turned
<1>6. QED
  BY <1>1, <1>2, <1>3, <1>4, <1>5, RunLeaves

\* Where the run of the route is, no other run is in the worktree.
LEMMA AloneInWorktree ==
    ASSUME IInv, handler.pc \in Carrying
    PROVE  /\ handler.run \in Runs /\ runs[handler.run].pc = "starting" /\ worktree = handler.run
           /\ requests[handler.run].state = "absent"
           /\ \A k \in Runs \ {handler.run} : runs[k].pc \in {"none", "done"}
<1>1. handler.run \in Runs /\ runs[handler.run].pc = "starting"
  BY DEF IInv, Handled
<1>2. worktree = handler.run /\ requests[handler.run].state = "absent"
  BY <1>1 DEF IInv, Worked
<1>3. QED
  BY <1>1, <1>2 DEF IInv, Worked

\* The baseline goes to the turn of the answer; no other run rests on it.
LEMMA RebindStep == ASSUME IInv, Rebind PROVE IInv'
<1> DEFINE r == handler.request
<1>1. /\ handler.pc = "rebind" /\ host = "up" /\ r \in Runs /\ requests[r].state \notin {"absent", "pending"}
      /\ UNCHANGED <<turns, requests, receipts, messages, runs, worktree, host, launched, crashes>>
      /\ handler \in Handler
      /\ handler.turn \in Runs /\ runs[handler.run].turn = handler.turn
      /\ checkpoint' = [state |-> "baseline", turn |-> handler.turn]
      /\ handler' = [handler EXCEPT !.pc = "bind"]
  BY AtWork, Types DEF Rebind, IInv, Handled, Carrying, Turned
<1>2. handler' \in Handler /\ handler'.pc = "bind" /\ handler'.request = r
      /\ handler'.run = handler.run /\ handler'.turn = handler.turn
  BY <1>1, HandlerMoves DEF Steps
<1>3. /\ handler.run \in Runs /\ runs[handler.run].pc = "starting"
      /\ \A k \in Runs \ {handler.run} : runs[k].pc \in {"none", "done"}
  BY <1>1, AloneInWorktree DEF Carrying, Turned
<1>4. TypeOK'
  BY <1>1, <1>2 DEF IInv, TypeOK
<1>5. ASSUME NEW s \in Runs PROVE Asked(requests[s], receipts[s], messages[s], launched[s])'
  BY <1>1 DEF IInv
<1>6. ASSUME NEW k \in Runs PROVE Worked(k, runs[k], requests[k], checkpoint, worktree)'
  BY <1>1, <1>3 DEF IInv, Worked, Working
<1>7. ASSUME NEW k \in Runs PROVE Seen(k)'
  BY <1>1 DEF IInv, Seen
<1>8. Handled'
  BY <1>1, <1>2, <1>3 DEF Handled, Native, Carrying, Turned
<1>9. QED
  BY <1>4, <1>5, <1>6, <1>7, <1>8 DEF IInv

\* The turn of the answer is bound to its run.
LEMMA BindStep == ASSUME IInv, Bind PROVE IInv'
<1> DEFINE r == handler.request
<1>1. /\ handler.pc = "bind" /\ host = "up" /\ r \in Runs /\ requests[r].state \notin {"absent", "pending"}
      /\ UNCHANGED <<requests, receipts, messages, checkpoint, runs, worktree, host, launched, crashes>>
      /\ handler \in Handler /\ turns \in [Runs -> Turn]
      /\ handler.run \in Runs /\ runs[handler.run].pc = "starting"
      /\ handler.turn \in Runs /\ runs[handler.run].turn = handler.turn
      /\ checkpoint = [state |-> "baseline", turn |-> handler.turn]
      /\ turns' = [turns EXCEPT ![handler.turn].run = handler.run]
      /\ handler' = [handler EXCEPT !.pc = "accept"]
  BY AtWork, Types DEF Bind, IInv, Handled, Carrying, Turned
<1>2. handler' \in Handler /\ handler'.pc = "accept" /\ handler'.request = r
      /\ handler'.run = handler.run /\ handler'.turn = handler.turn
  BY <1>1, HandlerMoves DEF Steps
<1>3. turns' \in [Runs -> Turn]
  BY <1>1, OtherFields
<1>4. Handled'
  BY <1>1, <1>2 DEF Handled, Native, Carrying, Turned
<1>5. QED
  BY <1>1, <1>2, <1>3, <1>4, RouteMoves

\* The run of the answer is accepted, or stopped for a claim that is gone.
LEMMA AcceptStep == ASSUME IInv, Accept PROVE IInv'
<1> DEFINE r == handler.request
           n == handler.run
<1>1. /\ handler.pc = "accept" /\ host = "up" /\ r \in Runs /\ requests[r].state \notin {"absent", "pending"}
      /\ UNCHANGED <<turns, receipts, messages, checkpoint, host, launched, crashes>>
      /\ handler \in Handler /\ requests \in [Runs -> Request] /\ runs \in [Runs -> Run] /\ turns \in [Runs -> Turn]
      /\ handler.turn \in Runs /\ runs[n].turn = handler.turn /\ requests[r] \in Request
      /\ checkpoint = [state |-> "baseline", turn |-> handler.turn]
  BY AtWork, Types DEF Accept, IInv, Handled, Carrying, Turned
<1>2. /\ n \in Runs /\ runs[n].pc = "starting" /\ worktree = n /\ requests[n].state = "absent"
      /\ \A k \in Runs \ {n} : runs[k].pc \in {"none", "done"}
  BY <1>1, AloneInWorktree DEF Carrying, Turned
<1>3. CASE Native(r) /\ requests[r].resume \notin {"claimed", "started"}
  <2>1. /\ requests' = WithUnavailable(r) /\ runs' = [runs EXCEPT ![n].pc = "done"]
        /\ worktree' = None /\ handler' = Retried
    BY <1>3 DEF Accept
  <2>2. handler' \in Handler /\ handler'.pc \in {"inspect", "giveUp"} /\ handler'.request = r
    BY <1>1, <2>1, Retries
  <2>3. runs' \in [Runs -> Run] /\ runs'[n].pc = "done" /\ \A k \in Runs \ {n} : runs'[k] = runs[k]
    BY <1>1, <1>2, <2>1, RunMoves DEF Pcs
  <2>4. handler.pc \in Carrying
    BY <1>1 DEF Carrying, Turned
  <2>5. /\ requests' \in [Runs -> Request]
        /\ \A s \in Runs : /\ requests'[s].state = requests[s].state /\ requests'[s].mode = requests[s].mode
                           /\ requests'[s].turn = requests[s].turn
                           /\ requests'[s].resume \in {requests[s].resume, "unavailable"}
    <3> HIDE DEF r
    <3>1. QED
      BY <1>1, <2>1, Marked
  <2>6. QED
    BY <1>1, <1>3, <2>1, <2>2, <2>3, <2>4, <2>5, RunLeaves
<1>4. CASE ~(Native(r) /\ requests[r].resume \notin {"claimed", "started"})
  <2> DEFINE q == [requests[r] EXCEPT !.resume = "started"]
  <2>1. /\ requests' = requests \/ requests' = [requests EXCEPT ![r] = q]
        /\ runs' = [runs EXCEPT ![n].pc = "running"] /\ handler' = Idle /\ UNCHANGED worktree
    BY <1>4 DEF Accept
  <2>2. q \in Request /\ q.state = requests[r].state /\ q.mode = requests[r].mode /\ q.turn = requests[r].turn
        /\ q.resume = "started"
    BY <1>1 DEF Request
  <2> HIDE DEF q
  <2>3. /\ requests' \in [Runs -> Request] /\ requests'[r] \in {requests[r], q}
        /\ \A s \in Runs \ {r} : requests'[s] = requests[s]
    BY <1>1, <2>1, <2>2
  <2>4. runs' \in [Runs -> Run] /\ runs'[n].pc = "running" /\ runs'[n].turn = handler.turn
        /\ \A k \in Runs \ {n} : runs'[k] = runs[k]
    BY <1>1, <1>2, <2>1, RunMoves DEF Pcs
  <2> HIDE DEF r, n
  <2>5. \A s \in Runs : requests'[s].state = requests[s].state
    BY <2>2, <2>3
  <2>6. TypeOK'
    BY <1>1, <2>1, <2>3, <2>4, EmptyRecords DEF IInv, TypeOK
  <2>7. ASSUME NEW s \in Runs PROVE Asked(requests[s], receipts[s], messages[s], launched[s])'
    BY <1>1, <2>2, <2>3 DEF IInv, Asked
  <2>8. ASSUME NEW k \in Runs PROVE Worked(k, runs[k], requests[k], checkpoint, worktree)'
    BY <1>1, <1>2, <2>1, <2>4, <2>5 DEF IInv, Worked, Working
  <2>9. ASSUME NEW k \in Runs PROVE Seen(k)'
    BY <1>2, <2>4 DEF Seen
  <2>10. Handled'
    BY <2>1, EmptyRecords DEF Handled, Carrying, Turned
  <2>11. QED
    BY <2>6, <2>7, <2>8, <2>9, <2>10 DEF IInv
<1>5. QED
  BY <1>3, <1>4

\* An answer that is given up takes its receipt with it.
LEMMA GiveUpStep == ASSUME IInv, GiveUp PROVE IInv'
<1> DEFINE r == handler.request
           t == requests[r].turn
<1>1. /\ handler.pc = "giveUp" /\ host = "up" /\ r \in Runs /\ requests[r].state \notin {"absent", "pending"}
      /\ UNCHANGED <<messages, checkpoint, runs, worktree, host, launched, crashes>>
      /\ requests \in [Runs -> Request] /\ turns \in [Runs -> Turn] /\ requests[r] \in Request /\ t \in Runs
      /\ receipts \in [Runs -> Nat] /\ messages \in [Runs -> SUBSET Runs] /\ launched \in [Runs -> Nat]
      /\ handler' = Idle
  BY AtWork, Types DEF GiveUp, IInv, Handled
<1>2. Handled' /\ handler' \in Handler
  BY <1>1, EmptyRecords DEF Handled, Carrying, Turned
<1>3. CASE Native(r)
  <2>1. requests' = WithUnavailable(r) /\ UNCHANGED <<turns, receipts>>
    BY <1>3 DEF GiveUp
  <2> HIDE DEF r
  <2>2. /\ requests' \in [Runs -> Request]
        /\ \A s \in Runs : /\ requests'[s].state = requests[s].state /\ requests'[s].mode = requests[s].mode
                           /\ requests'[s].turn = requests[s].turn
                           /\ requests'[s].resume \in {requests[s].resume, "unavailable"}
    BY <1>1, <2>1, Marked
  <2>3. \A s \in Runs : Asked(requests[s], receipts[s], messages[s], launched[s])'
    BY <1>1, <2>1, <2>2, MarksKeep
  <2>4. QED
    BY <1>1, <1>2, <2>1, <2>2, <2>3, RouteWrites
<1>4. CASE ~Native(r) /\ requests[r].state # "answered"
  <2>1. UNCHANGED <<requests, turns, receipts>>
    BY <1>4 DEF GiveUp
  <2>2. QED
    BY <1>1, <1>2, <2>1, RouteMoves
<1>5. CASE ~Native(r) /\ requests[r].state = "answered"
  <2> DEFINE q == [requests[r] EXCEPT !.state = "cancelled"]
  <2>1. /\ requests' = [requests EXCEPT ![r] = q] /\ receipts' = [receipts EXCEPT ![r] = 0]
        /\ turns' = turns \/ turns' = [turns EXCEPT ![t].status = "interrupted"]
    BY <1>5 DEF GiveUp
  <2>2. q \in Request /\ q.state = "cancelled" /\ q.mode = requests[r].mode /\ q.turn = t
    BY <1>1 DEF Request
  <2> HIDE DEF q
  <2>3. turns' \in [Runs -> Turn]
    <3>1. turns[t] \in Turn /\ "interrupted" \in Statuses
      BY <1>1 DEF Statuses, Final
    <3>2. [turns[t] EXCEPT !.status = "interrupted"] \in Turn
      BY <3>1, OtherFields
    <3> HIDE DEF t
    <3>3. QED
      BY <1>1, <2>1, <3>2
  <2> HIDE DEF t
  <2>4. /\ requests' \in [Runs -> Request] /\ requests'[r] = q /\ \A s \in Runs \ {r} : requests'[s] = requests[s]
        /\ receipts' \in [Runs -> Nat] /\ receipts'[r] = 0 /\ \A s \in Runs \ {r} : receipts'[s] = receipts[s]
    BY <1>1, <2>1, <2>2
  <2>5. \A s \in Runs : Asked(requests[s], receipts[s], messages[s], launched[s])'
    BY <1>1, <1>5, <2>2, <2>4 DEF IInv, Asked, Native, t
  <2>6. \A s \in Runs : requests'[s].state = "absent" <=> requests[s].state = "absent"
    BY <1>1, <2>2, <2>4
  <2> HIDE DEF r
  <2>7. QED
    BY <1>1, <1>2, <2>3, <2>4, <2>5, <2>6, RouteWrites
<1>6. QED
  BY <1>3, <1>4, <1>5

-----------------------------------------------------------------------------
(* Crash and recovery                                                      *)

\* A crash ends every run, frees the worktree and empties the route.
LEMMA CrashStep == ASSUME IInv, Crash PROVE IInv'
<1>1. /\ UNCHANGED <<turns, requests, receipts, messages, checkpoint, launched>>
      /\ crashes < MaxCrashes /\ crashes' = crashes + 1 /\ host' = "restarting" /\ worktree' = None /\ handler' = Idle
  BY DEF Crash, durable
<1>2. crashes \in 0..MaxCrashes /\ runs \in [Runs -> Run]
  BY DEF IInv, TypeOK
<1>3. /\ runs' \in [Runs -> Run]
      /\ \A n \in Runs : runs'[n].pc \in {"none", "done"} /\ (runs'[n].pc = "none" => runs'[n] = runs[n])
  <2>1. runs' = [n \in Runs |-> IF Open(n) THEN [NoRun EXCEPT !.pc = "done"] ELSE runs[n]]
    BY DEF Crash
  <2>2. QED
    BY <1>2, <2>1, EmptyRecords DEF Open
<1>4. crashes' \in 0..MaxCrashes
  BY <1>1, <1>2, BoundsAreNat
<1>5. TypeOK'
  BY <1>1, <1>3, <1>4, EmptyRecords DEF IInv, TypeOK
<1>6. ASSUME NEW s \in Runs PROVE Asked(requests[s], receipts[s], messages[s], launched[s])'
  BY <1>1 DEF IInv
<1>7. ASSUME NEW k \in Runs PROVE Worked(k, runs[k], requests[k], checkpoint, worktree)'
  BY <1>1, <1>3 DEF IInv, Worked, Working
<1>8. ASSUME NEW k \in Runs PROVE Seen(k)'
  BY <1>3 DEF Seen
<1>9. Handled'
  BY <1>1, EmptyRecords DEF Handled, Carrying, Turned
<1>10. QED
  BY <1>5, <1>6, <1>7, <1>8, <1>9 DEF IInv

\* A lost answer had its receipt and no process, so it is pending as before.
LEMMA RecoverInputsStep == ASSUME IInv, RecoverInputs PROVE IInv'
<1>1. /\ host = "restarting" /\ host' = "recovering"
      /\ requests' = [r \in Runs |-> RecoveredRequest(r)]
      /\ receipts' = [r \in Runs |-> RecoveredReceipts(r)]
      /\ turns' = [t \in Runs |-> RecoveredTurn(t)]
      /\ UNCHANGED <<messages, checkpoint, runs, worktree, handler, launched, crashes>>
      /\ requests \in [Runs -> Request] /\ turns \in [Runs -> Turn] /\ receipts \in [Runs -> Nat]
      /\ handler \in Handler /\ messages \in [Runs -> SUBSET Runs] /\ launched \in [Runs -> Nat]
  BY Types DEF RecoverInputs
<1>2. handler = Idle
  BY <1>1 DEF IInv, Handled
<1>3. turns' \in [Runs -> Turn]
  <2>1. ASSUME NEW t \in Runs PROVE RecoveredTurn(t) \in Turn
    <3>1. turns[t] \in Turn
      BY <1>1
    <3>2. /\ [turns[t] EXCEPT !.status = "interrupted"] \in Turn
          /\ [turns[t] EXCEPT !.status = "waiting_for_user"] \in Turn
      BY <3>1, OtherFields DEF Statuses, Live, Final
    <3>3. QED
      BY <3>1, <3>2 DEF RecoveredTurn
  <2>2. QED
    BY <1>1, <2>1
<1>4. ASSUME NEW r \in Runs
      PROVE  /\ requests'[r] \in Request /\ receipts'[r] \in Nat
             /\ requests'[r].state = "absent" <=> requests[r].state = "absent"
             /\ Asked(requests'[r], receipts'[r], messages[r], launched[r])
  <2> DEFINE q == requests[r]
  <2>1. q \in Request /\ receipts[r] \in Nat /\ launched[r] \in Nat /\ Asked(q, receipts[r], messages[r], launched[r])
    BY <1>1 DEF IInv
  <2>2. requests'[r] = RecoveredRequest(r) /\ receipts'[r] = RecoveredReceipts(r)
    BY <1>1
  <2>3. CASE Lost(r)
    <3> DEFINE p == [q EXCEPT !.state = "pending"]
    <3>1. requests'[r] = p /\ receipts'[r] = receipts[r] - 1
      BY <2>2, <2>3 DEF RecoveredRequest, RecoveredReceipts
    <3>2. /\ p \in Request /\ p.state = "pending" /\ p.turn = q.turn /\ p.mode = q.mode
      BY <2>1 DEF Request
    <3>3. q.state = "answered" /\ q.mode # "native_resume" /\ messages[r] = {}
      BY <2>3 DEF Lost, Native
    <3>4. receipts[r] = 1 /\ launched[r] = 0 /\ q.turn \in Runs
      BY <2>1, <3>3 DEF Asked
    <3> HIDE DEF p, q
    <3>5. Asked(p, 0, {}, 0)
      BY <3>2, <3>4 DEF Asked
    <3>6. QED
      BY <2>1, <3>1, <3>2, <3>3, <3>4, <3>5 DEF q
  <2>4. CASE ~Lost(r)
    <3> DEFINE p == [q EXCEPT !.resume = "unavailable"]
    <3>1. requests'[r] \in {p, q} /\ receipts'[r] = receipts[r]
      BY <2>2, <2>4 DEF RecoveredRequest, RecoveredReceipts
    <3>2. /\ p \in Request /\ p.state = q.state /\ p.turn = q.turn /\ p.mode = q.mode
          /\ p.resume = "unavailable"
      BY <2>1 DEF Request
    <3> HIDE DEF p, q
    <3>3. Asked(p, receipts[r], messages[r], launched[r])
      BY <2>1, <3>2 DEF Asked
    <3>4. QED
      BY <2>1, <3>1, <3>2, <3>3 DEF q
  <2>5. QED
    BY <2>3, <2>4
<1>5. requests' \in [Runs -> Request] /\ receipts' \in [Runs -> Nat]
  BY <1>1, <1>4
<1>6. \A r \in Runs : Asked(requests[r], receipts[r], messages[r], launched[r])'
  BY <1>1, <1>4
<1>7. Handled'
  BY <1>1, <1>2, EmptyRecords DEF Handled, Carrying, Turned
<1>8. QED
  BY <1>1, <1>3, <1>4, <1>5, <1>6, <1>7, RouteWrites

\* A turn that was active is interrupted.
LEMMA RecoverTurnStep == ASSUME IInv, NEW t \in Runs, RecoverTurn(t) PROVE IInv'
<1>1. /\ turns' = [turns EXCEPT ![t].status = "interrupted"]
      /\ UNCHANGED <<requests, receipts, messages, checkpoint, runs, worktree, handler, host, launched, crashes>>
      /\ turns \in [Runs -> Turn] /\ handler \in Handler
  BY Types DEF RecoverTurn
<1>2. turns' \in [Runs -> Turn]
  BY <1>1, OtherFields DEF Statuses, Final
<1>3. Handled'
  BY <1>1 DEF IInv, Handled, Native
<1>4. QED
  BY <1>1, <1>2, <1>3, RouteMoves

\* The host serves again, with the route idle.
LEMMA ServeStep == ASSUME IInv, Serve PROVE IInv'
<1>1. /\ host = "recovering" /\ host' = "up"
      /\ UNCHANGED <<turns, requests, receipts, messages, checkpoint, runs, worktree, handler, launched, crashes>>
  BY DEF Serve, durable
<1>2. handler = Idle
  BY <1>1 DEF IInv, Handled
<1>3. Handled'
  BY <1>1, <1>2, EmptyRecords DEF Handled, Carrying, Turned
<1>4. QED
  BY <1>1, <1>3 DEF IInv, TypeOK, Worked, Seen

-----------------------------------------------------------------------------
(* The theorems                                                            *)

\* At first the operator's run works in the worktree and nothing was asked.
LEMMA InvInit == Init => IInv
<1> SUFFICES ASSUME Init PROVE IInv
  OBVIOUS
<1> DEFINE x == [NoRun EXCEPT !.pc = "running", !.turn = 1]
<1>1. 1 \in Runs
  BY BoundsAreNat DEF Runs
<1>2. x \in Run /\ x.pc = "running" /\ x.turn = 1
  <2>1. "running" \in Pcs /\ NoRun.pc = "none"
    BY DEF Pcs, NoRun
  <2>2. [NoRun EXCEPT !.turn = 1] \in Run
    BY <1>1, EmptyRecords, RunFields
  <2>3. x = [[NoRun EXCEPT !.turn = 1] EXCEPT !.pc = "running"]
    BY DEF NoRun
  <2>4. x \in Run
    BY <2>1, <2>2, <2>3, RunFields
  <2>5. QED
    BY <2>4 DEF NoRun
<1>3. [status |-> "active", run |-> 1] \in Turn
  BY <1>1 DEF Turn, Live
<1> HIDE DEF x
<1>4. /\ turns = [t \in Runs |-> IF t = 1 THEN [status |-> "active", run |-> 1] ELSE NoTurn]
      /\ requests = [r \in Runs |-> NoRequest] /\ receipts = [r \in Runs |-> 0]
      /\ messages = [r \in Runs |-> {}] /\ launched = [r \in Runs |-> 0]
      /\ checkpoint \in [state : {"baseline", "unavailable"}, turn : {1}]
      /\ runs = [n \in Runs |-> IF n = 1 THEN x ELSE NoRun]
      /\ worktree = 1 /\ handler = Idle /\ host = "up" /\ crashes = 0
  BY DEF Init, x
<1>5. turns \in [Runs -> Turn] /\ runs \in [Runs -> Run] /\ requests \in [Runs -> Request]
  BY <1>2, <1>3, <1>4, EmptyRecords
<1>6. checkpoint \in [state : {"baseline", "completed", "failed", "unavailable"}, turn : Runs]
  BY <1>1, <1>4
<1>7. TypeOK
  BY <1>1, <1>4, <1>5, <1>6, EmptyRecords, BoundsAreNat DEF TypeOK
<1>8. ASSUME NEW r \in Runs PROVE Asked(requests[r], receipts[r], messages[r], launched[r])
  BY <1>4 DEF Asked, NoRequest
<1>9. ASSUME NEW n \in Runs PROVE Worked(n, runs[n], requests[n], checkpoint, worktree)
  BY <1>1, <1>2, <1>4, EmptyRecords DEF Worked, Working, NoRequest
<1>10. ASSUME NEW n \in Runs PROVE Seen(n)
  BY <1>2, <1>4, EmptyRecords DEF Seen
<1>11. Handled
  BY <1>4, EmptyRecords DEF Handled, Carrying, Turned
<1>12. QED
  BY <1>7, <1>8, <1>9, <1>10, <1>11 DEF IInv

\* Every step of runs, route, crash and recovery keeps the invariant.
LEMMA InvStep == IInv /\ [Next]_vars => IInv'
<1> SUFFICES ASSUME IInv, [Next]_vars PROVE IInv'
  OBVIOUS
<1>1. ASSUME NEW n \in Runs, NEW m \in Modes, Park(n, m) PROVE IInv'
  BY <1>1, ParkStep
<1>2. ASSUME NEW n \in Runs, NEW kind \in Final, Ending(n, kind) PROVE IInv'
  BY <1>2, EndingStep
<1>3. ASSUME NEW n \in Runs, RunStep(n) PROVE IInv'
  BY <1>3, ParkTurnStep, EndTurnStep, CancelInputsStep, ResumeFailedStep, TeardownStep, FreeWorktreeStep
     DEF RunStep
<1>4. ASSUME NEW r \in Runs, Answer(r) PROVE IInv'
  BY <1>4, AnswerStep
<1>5. CASE RouteStep
  BY <1>5, ResolveStep, InspectStep, AdmitStep, ClaimStep, StartStep, LaunchStep, StartFailedStep,
     RecordFailedStep, RebindStep, BindStep, AcceptStep, GiveUpStep DEF RouteStep
<1>6. CASE RecoveryStep
  BY <1>6, RecoverInputsStep, RecoverTurnStep, ServeStep DEF RecoveryStep
<1>7. CASE Crash
  BY <1>7, CrashStep
<1>8. CASE UNCHANGED vars
  BY <1>8 DEF vars, durable, IInv, TypeOK, Worked, Seen, Handled, Native
<1>9. QED
  BY <1>1, <1>2, <1>3, <1>4, <1>5, <1>6, <1>7, <1>8 DEF Next

\* The invariant holds in every reachable state.
THEOREM InvHolds == Spec => []IInv
BY InvInit, InvStep, PTL DEF Spec

\* A human response is used once: it opens at most one follow-up turn and
\* starts at most one provider process, and its request has exactly the
\* receipt its state says (respond route, failInputResolution,
\* recoverInterruptedTurns).
THEOREM AnswersAreSpentOnce == Spec => []AnswerIsSpentOnce
<1>1. IInv => AnswerIsSpentOnce
  <2> SUFFICES ASSUME IInv PROVE AnswerIsSpentOnce
    OBVIOUS
  <2>1. TypeOK
    BY DEF IInv
  <2>2. ASSUME NEW r \in Runs PROVE Cardinality(messages[r]) <= 1
    <3>1. \A a, b \in messages[r] : a = b
      BY DEF IInv, Asked
    <3>2. CASE messages[r] = {}
      BY <3>2, FS_EmptySet
    <3>3. CASE messages[r] # {}
      <4>1. PICK a \in messages[r] : messages[r] = {a}
        BY <3>1, <3>3
      <4>2. Cardinality({a}) = 1
        BY FS_Singleton
      <4>3. QED
        BY <4>1, <4>2
    <3>4. QED
      BY <3>2, <3>3
  <2>3. AnswerUsedOnce
    BY <2>2 DEF AnswerUsedOnce, IInv, Asked
  <2>4. ReceiptPerAnswer
    BY DEF ReceiptPerAnswer, IInv, Asked, Pending
  <2>5. QED
    BY <2>1, <2>3, <2>4 DEF AnswerIsSpentOnce
<1>2. QED
  BY <1>1, InvHolds, PTL

\* At most one run works in the worktree, and one that carries an answer has
\* the baseline of the run that asked, bound to its own turn
\* (activeCheckpointWorktrees, the rebinding of the checkpoint).
THEOREM WorktreeHasOneOwner == Spec => []WorktreeIsOwned
<1>1. IInv => WorktreeIsOwned
  <2> SUFFICES ASSUME IInv PROVE WorktreeIsOwned
    OBVIOUS
  <2> DEFINE open == {n \in Runs : Open(n)}
  <2>1. \A n \in open : n = worktree
    BY DEF IInv, Worked, Open
  <2>2. Cardinality(open) <= 1
    <3> HIDE DEF open
    <3>1. CASE open = {}
      BY <3>1, FS_EmptySet
    <3>2. CASE open # {}
      <4>1. open = {worktree}
        BY <2>1, <3>2
      <4>2. Cardinality({worktree}) = 1
        BY FS_Singleton
      <4>3. QED
        BY <4>1, <4>2
    <3>3. QED
      BY <3>1, <3>2
  <2>3. OneRunInWorktree
    BY <2>2 DEF OneRunInWorktree
  <2>4. AnswerRunOwnsBaseline
    BY DEF AnswerRunOwnsBaseline, IInv, Worked, Working
  <2>5. QED
    BY <2>3, <2>4 DEF WorktreeIsOwned
<1>2. QED
  BY <1>1, InvHolds, PTL
-----------------------------------------------------------------------------
(* No question is stranded                                                 *)
(*                                                                         *)
(* QInv rests on IInv.  It follows a question from the turn that waits for *)
(* it: while a run parks or ends, the turn it read is the turn that is     *)
(* there, nobody but the route has an answer that is not settled yet, and  *)
(* the turn of an answer on its way waits for nothing.                     *)

\* Nothing carries the answer of r yet.
Unsettled(r) ==
    /\ requests[r].state = "answered"
    /\ IF Native(r) THEN requests[r].resume \in {"starting", "claimed"} ELSE messages[r] = {}

\* A turn that waits has a question that can be answered.
Waits(t) ==
    turns[t].status = "waiting_for_user" => \E r \in Runs : requests[r].turn = t /\ Answerable(r)

\* A request has a turn; an answer that is not settled is in the hands of the
\* route, or was when the host crashed.
Follows(r) ==
    /\ requests[r].state # "absent" => turns[requests[r].turn].status # "absent"
    /\ requests[r].state = "answered" /\ Native(r)
          => requests[r].resume \in {"starting", "claimed", "started", "unavailable"}
    /\ host # "restarting" /\ Unsettled(r) => handler.request = r
    /\ Unsettled(r) /\ ~Native(r) => turns[requests[r].turn].run = requests[r].run

\* What a run knows of its turn and of the requests it read.
Keeps(n) ==
    LET x == runs[n]
        t == x.turn IN
    /\ x.pc = "none" => turns[n].status = "absent"
    /\ x.pc \in Working => turns[t].status # "absent"
    /\ x.pc = "running" => turns[t].status = "active"
    /\ x.pc = "parking" => /\ turns[t] = x.seenTurn /\ x.seenTurn.status = "active"
                           /\ requests[n].state = "pending" /\ requests[n].turn = t
                           /\ requests[n].run = x.seenTurn.run
                           /\ Native(n) => requests[n].resume = "available"
    /\ x.pc = "ending" => turns[t].run = x.seenTurn.run
    /\ x.pc = "cancelling" => turns[t].status \in Final
    /\ x.pc \in {"ending", "cancelling"} => \A r \in x.seen : requests[r].turn = t

\* What the respond route knows of the turns of its request and of its answer.
Routed ==
    LET r == handler.request IN
    /\ host # "up" => worktree = None
    /\ handler.pc = "resolve" => requests[r].state # "answered"
    /\ handler.pc \notin {"idle", "resolve"} /\ ~Native(r) => turns[requests[r].turn].status \in Final
    /\ handler.pc \in {"claim", "start"} => turns[handler.run].status = "absent"
    /\ handler.pc \in Turned => /\ turns[handler.turn].status = "active"
                                /\ ~Native(r) => messages[r] # {}

QInv ==
    /\ \A t \in Runs : Waits(t)
    /\ \A r \in Runs : Follows(r)
    /\ \A n \in Runs : Keeps(n)
    /\ Routed

\* A turn that is left alone waits as before, when its question is left alone.
LEMMA WaitsOn ==
    ASSUME NEW t \in Runs, Waits(t), turns'[t] = turns[t],
           \A r \in Runs : Answerable(r) /\ requests[r].turn = t => requests'[r] = requests[r]
    PROVE  Waits(t)'
<1> SUFFICES ASSUME turns'[t].status = "waiting_for_user"
             PROVE  \E r \in Runs : (requests[r].turn = t /\ Answerable(r))'
  BY DEF Waits
<1>1. PICK r \in Runs : requests[r].turn = t /\ Answerable(r)
  BY DEF Waits
<1>2. requests'[r] = requests[r]
  BY <1>1
<1>3. (requests[r].turn = t /\ Answerable(r))'
  BY <1>1, <1>2 DEF Answerable, Pending, Native
<1>4. QED
  BY <1>3

\* While a run works, no other is in the worktree, and the route is not
\* starting one.
LEMMA AloneAtWork ==
    ASSUME IInv, NEW n \in Runs, runs[n].pc \in Working \cup {"closing"}
    PROVE  /\ worktree = n /\ handler.pc \notin Carrying
           /\ \A k \in Runs \ {n} : runs[k].pc \in {"none", "done"}
<1>1. worktree = n
  BY DEF IInv, Worked, Working
<1>2. \A k \in Runs \ {n} : runs[k].pc \in {"none", "done"}
  BY <1>1 DEF IInv, Worked
<1>3. handler.pc \notin Carrying
  BY <1>1, AloneInWorktree DEF Working
<1>4. QED
  BY <1>1, <1>2, <1>3

\* Only a run and its own turn change, and the turn stays a turn of its run.
LEMMA RunAlone ==
    ASSUME IInv, QInv, NEW n \in Runs, NEW t \in Runs,
           runs[n].pc \in Working \cup {"closing"}, Waits(t)', Keeps(n)',
           \A k \in Runs \ {n} : runs'[k] = runs[k],
           \A u \in Runs \ {t} : turns'[u] = turns[u],
           turns'[t].run = turns[t].run,
           turns'[t] # turns[t] => turns[t].status # "absent" /\ turns'[t].status # "absent",
           turns[t].status \in Final => turns'[t].status \in Final,
           worktree' \in {worktree, None},
           UNCHANGED <<requests, messages, handler, host>>
    PROVE  QInv'
<1>1. /\ worktree = n /\ handler.pc \notin Carrying
      /\ \A k \in Runs \ {n} : runs[k].pc \in {"none", "done"}
  BY AloneAtWork
<1>2. ASSUME NEW u \in Runs PROVE Waits(u)'
  BY WaitsOn DEF QInv
<1>3. ASSUME NEW r \in Runs PROVE Follows(r)'
  <2>1. requests[r].state # "absent" => requests[r].turn \in Runs
    BY DEF IInv, Asked
  <2>2. QED
    BY <2>1 DEF QInv, Follows, Unsettled, Native
<1>4. ASSUME NEW k \in Runs PROVE Keeps(k)'
  <2>1. CASE k = n
    BY <2>1
  <2>2. CASE k # n
    <3>1. runs'[k] = runs[k] /\ runs[k].pc \in {"none", "done"}
      BY <1>1, <2>2
    <3>2. runs[k].pc = "none" => turns'[k].status = "absent"
      BY <3>1 DEF QInv, Keeps
    <3>3. QED
      BY <3>1, <3>2 DEF Keeps, Working
  <2>3. QED
    BY <2>1, <2>2
<1>5. Routed'
  <2>1. handler.pc \notin {"idle", "resolve"} => requests[handler.request].turn \in Runs
    BY AtWork
  <2>2. host # "up" => worktree' = None
    BY DEF QInv, Routed
  <2>3. QED
    BY <1>1, <2>1, <2>2 DEF QInv, Routed, Native, Carrying, Turned
<1>6. QED
  BY <1>2, <1>3, <1>4, <1>5 DEF QInv

\* The question is asked before the turn waits, of the turn that was read.
LEMMA ParkTurnAsks == ASSUME IInv, QInv, NEW n \in Runs, ParkTurn(n) PROVE QInv'
<1> DEFINE x == runs[n].seenTurn
<1>0. PICK t \in Runs : t = runs[n].turn
  BY DEF ParkTurn, IInv, Worked, Working
<1>1. /\ runs[n].pc = "parking" /\ runs' = [runs EXCEPT ![n].pc = "parked"]
      /\ UNCHANGED <<requests, receipts, messages, checkpoint, worktree, handler, host, launched, crashes>>
      /\ runs \in [Runs -> Run] /\ turns \in [Runs -> Turn]
  BY DEF ParkTurn, IInv, TypeOK
<1>2. /\ turns[t] = x /\ x.status = "active" /\ x \in Turn
      /\ requests[n].state = "pending" /\ requests[n].turn = t
      /\ requests[n].run = x.run /\ (Native(n) => requests[n].resume = "available")
  BY <1>0, <1>1 DEF QInv, Keeps
<1>3. turns' = [turns EXCEPT ![t] = [x EXCEPT !.status = "waiting_for_user"]]
  BY <1>0, <1>2 DEF ParkTurn
<1>4. [x EXCEPT !.status = "waiting_for_user"] = [status |-> "waiting_for_user", run |-> x.run]
  BY <1>2 DEF Turn
<1>5. turns'[t] = [status |-> "waiting_for_user", run |-> x.run] /\ \A u \in Runs \ {t} : turns'[u] = turns[u]
  BY <1>1, <1>3, <1>4
<1>6. runs'[n].pc = "parked" /\ runs'[n].turn = t /\ \A k \in Runs \ {n} : runs'[k] = runs[k]
  BY <1>0, <1>1, RunMoves DEF Pcs
<1>7. Waits(t)'
  <2>1. (requests[n].turn = t)' /\ Answerable(n)'
    BY <1>1, <1>2, <1>5, <1>6 DEF Answerable, Pending, Native
  <2>2. QED
    BY <1>1, <1>6, <2>1 DEF Waits
<1>8. Keeps(n)'
  BY <1>5, <1>6 DEF Keeps
<1>9. runs[n].pc \in Working
  BY <1>1 DEF Working
<1>10. turns'[t].run = turns[t].run /\ turns[t].status # "absent" /\ turns'[t].status # "absent" /\ turns[t].status \notin Final
  BY <1>2, <1>5 DEF Final
<1> HIDE DEF x
<1>11. QED
  BY <1>1, <1>5, <1>6, <1>7, <1>8, <1>9, <1>10, RunAlone

\* A terminal event reads the turn as it is.
LEMMA EndingAsks == ASSUME IInv, QInv, NEW n \in Runs, NEW kind \in Final, Ending(n, kind) PROVE QInv'
<1>0. PICK t \in Runs : t = runs[n].turn
  BY DEF Ending, IInv, Worked, Working
<1> DEFINE seen == {r \in Runs : Pending(r) /\ requests[r].turn = t}
<1>1. /\ runs[n].pc \in {"running", "parked"}
      /\ runs' = [runs EXCEPT ![n].pc = "ending", ![n].kind = kind, ![n].seenTurn = turns[t], ![n].seen = seen]
      /\ UNCHANGED <<turns, requests, receipts, messages, checkpoint, worktree, handler, host, launched, crashes>>
      /\ runs \in [Runs -> Run]
  BY <1>0 DEF Ending, durable, IInv, TypeOK
<1>2. /\ runs'[n].pc = "ending" /\ runs'[n].turn = t /\ runs'[n].seenTurn = turns[t] /\ runs'[n].seen = seen
      /\ \A k \in Runs \ {n} : runs'[k] = runs[k]
  BY <1>0, <1>1 DEF Run
<1>3. turns[t].status # "absent"
  BY <1>0, <1>1 DEF QInv, Keeps, Working
<1>4. \A r \in seen : requests'[r].turn = t
  BY <1>1
<1> HIDE DEF seen
<1>5. Keeps(n)'
  BY <1>1, <1>2, <1>3, <1>4 DEF Keeps
<1>6. Waits(t)'
  BY <1>1, WaitsOn DEF QInv
<1>7. runs[n].pc \in Working
  BY <1>1 DEF Working
<1>8. QED
  BY <1>1, <1>2, <1>5, <1>6, <1>7, RunAlone

\* The turn that was read is written back ended, and waits no more.
LEMMA EndTurnAsks == ASSUME IInv, QInv, NEW n \in Runs, EndTurn(n) PROVE QInv'
<1>0. PICK t \in Runs : t = runs[n].turn
  BY DEF EndTurn, IInv, Worked, Working
<1> DEFINE x == runs[n].seenTurn
           k == runs[n].kind
<1>1. /\ runs[n].pc = "ending" /\ runs' = [runs EXCEPT ![n].pc = "cancelling"]
      /\ turns' = [turns EXCEPT ![t] = [x EXCEPT !.status = k]]
      /\ UNCHANGED <<requests, receipts, messages, checkpoint, worktree, handler, host, launched, crashes>>
      /\ runs \in [Runs -> Run] /\ turns \in [Runs -> Turn] /\ k \in Final
  BY <1>0 DEF EndTurn, IInv, TypeOK, Worked
<1>2. x \in Turn /\ x.run = turns[t].run /\ turns[t].status # "absent" /\ \A r \in runs[n].seen : requests[r].turn = t
  BY <1>0, <1>1 DEF QInv, Keeps, Working, Run
<1>3. [x EXCEPT !.status = k].status = k /\ [x EXCEPT !.status = k].run = x.run
  BY <1>2 DEF Turn
<1>4. turns'[t].status = k /\ turns'[t].run = turns[t].run /\ \A u \in Runs \ {t} : turns'[u] = turns[u]
  BY <1>1, <1>2, <1>3
<1>5. /\ runs'[n].pc = "cancelling" /\ runs'[n].turn = t /\ runs'[n].seen = runs[n].seen
      /\ \A i \in Runs \ {n} : runs'[i] = runs[i]
  BY <1>0, <1>1, RunMoves DEF Pcs
<1>6. k \notin {"absent", "waiting_for_user"}
  BY <1>1 DEF Final
<1>7. Keeps(n)'
  BY <1>1, <1>2, <1>4, <1>5, <1>6 DEF Keeps
<1>8. Waits(t)'
  BY <1>4, <1>5, <1>6 DEF Waits
<1>9. runs[n].pc \in Working
  BY <1>1 DEF Working
<1> HIDE DEF x, k
<1>10. QED
  BY <1>1, <1>2, <1>4, <1>5, <1>6, <1>7, <1>8, <1>9, RunAlone

\* The teardown, and giving the worktree back, touch no turn.
LEMMA CloseAsks == ASSUME IInv, QInv, NEW n \in Runs, Teardown(n) \/ FreeWorktree(n) PROVE QInv'
<1>1. /\ runs[n].pc \in {"parked", "closing"} /\ runs \in [Runs -> Run] /\ worktree' \in {worktree, None}
      /\ UNCHANGED <<turns, requests, messages, handler, host>>
  BY DEF Teardown, FreeWorktree, durable, IInv, TypeOK
<1>2. PICK l \in {"closing", "done"} : runs' = [runs EXCEPT ![n].pc = l]
  BY DEF Teardown, FreeWorktree
<1>3. runs'[n].pc = l /\ \A k \in Runs \ {n} : runs'[k] = runs[k]
  BY <1>1, <1>2, RunMoves DEF Pcs
<1>4. Keeps(n)'
  BY <1>3 DEF Keeps, Working
<1>5. runs[n].pc \in Working \cup {"closing"}
  BY <1>1 DEF Working
<1>6. Waits(n)'
  BY <1>1, WaitsOn DEF QInv
<1>7. QED
  BY <1>1, <1>3, <1>4, <1>5, <1>6, RunAlone

\* A run that is not there keeps nothing but that its turn is not there.
LEMMA IdleKeeps ==
    ASSUME QInv, NEW k \in Runs, runs'[k] = runs[k], runs[k].pc \in {"none", "done"},
           runs[k].pc = "none" => turns'[k] = turns[k]
    PROVE  Keeps(k)'
<1>1. runs[k].pc = "none" => turns'[k].status = "absent"
  BY DEF QInv, Keeps
<1>2. QED
  BY <1>1 DEF Keeps, Working

\* A resume that is marked was on its way: no question that can be answered is
\* touched, and the mark settles the answer.
LEMMA MarksSettle ==
    ASSUME IInv, QInv, NEW r, requests' = WithUnavailable(r), UNCHANGED messages
    PROVE  /\ \A s \in Runs :
                 /\ requests'[s].state = requests[s].state /\ requests'[s].mode = requests[s].mode
                 /\ requests'[s].turn = requests[s].turn /\ requests'[s].run = requests[s].run
                 /\ Pending(s) /\ (Native(s) => requests[s].resume = "available") => requests'[s] = requests[s]
                 /\ requests'[s].state = "answered" /\ Native(s)
                       => requests'[s].resume \in {"starting", "claimed", "started", "unavailable"}
                 /\ Unsettled(s)' => Unsettled(s) /\ (s = r => ~Native(r))
<1> DEFINE u == WithUnavailable(r)
<1>1. requests \in [Runs -> Request]
  BY Types
<1>2. ASSUME NEW s \in Runs
      PROVE  \/ u[s] = requests[s] /\ (s = r /\ Native(r) => requests[r].resume \notin {"starting", "claimed", "started"})
             \/ /\ s = r /\ Native(r) /\ requests[r].resume \in {"starting", "claimed", "started"}
                /\ u[s] = [requests[s] EXCEPT !.resume = "unavailable"]
  BY <1>1 DEF WithUnavailable
<1> HIDE DEF u
<1>3. requests' = u
  BY DEF u
<1>4. ASSUME NEW q \in Request, NEW p, p = [q EXCEPT !.resume = "unavailable"]
      PROVE  p.state = q.state /\ p.mode = q.mode /\ p.turn = q.turn /\ p.run = q.run /\ p.resume = "unavailable"
  BY <1>4 DEF Request
<1>5. ASSUME NEW s \in Runs
      PROVE  /\ requests'[s].state = requests[s].state /\ requests'[s].mode = requests[s].mode
             /\ requests'[s].turn = requests[s].turn /\ requests'[s].run = requests[s].run
             /\ requests'[s].resume \in {requests[s].resume, "unavailable"}
             /\ Pending(s) /\ (Native(s) => requests[s].resume = "available") => requests'[s] = requests[s]
             /\ s = r /\ Native(r) => requests'[s].resume \notin {"starting", "claimed", "started"}
  <2>1. requests[s] \in Request
    BY <1>1
  <2>2. CASE u[s] = requests[s] /\ (s = r /\ Native(r) => requests[r].resume \notin {"starting", "claimed", "started"})
    BY <1>3, <2>2
  <2>3. CASE /\ s = r /\ Native(r) /\ requests[r].resume \in {"starting", "claimed", "started"}
             /\ u[s] = [requests[s] EXCEPT !.resume = "unavailable"]
    BY <1>3, <1>4, <2>1, <2>3
  <2>4. QED
    BY <1>2, <2>2, <2>3
<1>6. QED
  BY <1>5 DEF QInv, Follows, Unsettled, Native

\* A step of the route in its own memory alone.
LEMMA RouteAlone ==
    ASSUME IInv, QInv, Routed', UNCHANGED <<turns, requests, messages, runs, host>>,
           \A r \in Runs : host # "restarting" /\ Unsettled(r) => handler'.request = r
    PROVE  QInv'
<1>1. ASSUME NEW u \in Runs PROVE Waits(u)'
  BY WaitsOn DEF QInv
<1>2. ASSUME NEW r \in Runs PROVE Follows(r)'
  BY DEF QInv, Follows, Unsettled, Native
<1>3. ASSUME NEW n \in Runs PROVE Keeps(n)'
  BY DEF QInv, Keeps, Native
<1>4. QED
  BY <1>1, <1>2, <1>3 DEF QInv

\* The route keeps its request.
LEMMA RouteKeeps ==
    ASSUME IInv, QInv, Routed', UNCHANGED <<turns, requests, messages, runs, host>>,
           handler'.request = handler.request
    PROVE  QInv'
BY RouteAlone DEF QInv, Follows

\* A question is asked about a turn that is active, and was never asked before.
LEMMA ParkAsks == ASSUME IInv, QInv, NEW n \in Runs, NEW m \in Modes, Park(n, m) PROVE QInv'
<1>0. PICK t \in Runs : t = runs[n].turn
  BY DEF Park, IInv, Worked, Working
<1> DEFINE q == [state |-> "pending", mode |-> m, turn |-> t, run |-> turns[t].run,
                 resume |-> IF m = "native_resume" THEN "available" ELSE "none"]
<1>1. /\ runs[n].pc = "running" /\ requests[n].state = "absent" /\ turns[t].status = "active"
      /\ runs \in [Runs -> Run] /\ requests \in [Runs -> Request]
  BY <1>0, Types DEF Park, IInv, Worked, QInv, Keeps
<1>2. /\ requests' = [requests EXCEPT ![n] = q]
      /\ runs' = [runs EXCEPT ![n].pc = "parking", ![n].seenTurn = turns[t]]
      /\ UNCHANGED <<turns, messages, worktree, handler, host>>
  BY <1>0, <1>1 DEF Park, Live
<1>3. /\ runs'[n].pc = "parking" /\ runs'[n].seenTurn = turns[t] /\ runs'[n].turn = t
      /\ \A k \in Runs \ {n} : runs'[k] = runs[k]
  BY <1>0, <1>1, <1>2 DEF Run
<1>4. requests'[n] = q /\ \A k \in Runs \ {n} : requests'[k] = requests[k]
  BY <1>1, <1>2
<1>5. /\ worktree = n /\ handler.pc \notin Carrying
      /\ \A k \in Runs \ {n} : runs[k].pc \in {"none", "done"}
  BY <1>1, AloneAtWork DEF Working
<1>6. ASSUME NEW u \in Runs PROVE Waits(u)'
  <2>1. \A r \in Runs : Answerable(r) => requests'[r] = requests[r]
    BY <1>1, <1>4 DEF Answerable, Pending
  <2>2. QED
    BY <1>2, <2>1, WaitsOn DEF QInv
<1>7. q.state = "pending" /\ q.turn = t /\ q.run = turns[t].run /\ (q.mode = "native_resume" => q.resume = "available")
  OBVIOUS
<1> HIDE DEF q
<1>8. ASSUME NEW r \in Runs PROVE Follows(r)'
  BY <1>1, <1>2, <1>4, <1>7 DEF QInv, Follows, Unsettled, Native
<1>9. ASSUME NEW k \in Runs PROVE Keeps(k)'
  <2>1. CASE k = n
    BY <1>1, <1>2, <1>3, <1>4, <1>7, <2>1 DEF Keeps, Native
  <2>2. CASE k # n
    BY <1>2, <1>3, <1>5, <2>2, IdleKeeps
  <2>3. QED
    BY <2>1, <2>2
<1>10. Routed'
  <2>1. handler.pc # "idle" => handler.request \in Runs \ {n}
    BY <1>1 DEF IInv, Handled
  <2>2. QED
    BY <1>2, <1>4, <1>5, <2>1 DEF QInv, Routed, Native, Carrying, Turned
<1>11. QED
  BY <1>6, <1>8, <1>9, <1>10 DEF QInv

\* The requests a run cancels are of its own turn, which waits no more.
LEMMA CancelInputsAsks == ASSUME IInv, QInv, NEW n \in Runs, CancelInputs(n) PROVE QInv'
<1>1. runs[n].pc = "cancelling" /\ UNCHANGED <<turns, messages, worktree, handler, host>>
  BY DEF CancelInputs
<1>2. PICK l \in {"unavailing", "parked"} : runs' = [runs EXCEPT ![n].pc = l]
  BY Zenon DEF CancelInputs
<1>3. PICK t \in Runs : t = runs[n].turn
  BY <1>1 DEF IInv, Worked, Working
<1>4. /\ turns[t].status \in Final
      /\ \A r \in runs[n].seen : requests[r].turn = t /\ requests[r].state # "absent"
      /\ runs \in [Runs -> Run] /\ requests \in [Runs -> Request]
  BY <1>1, <1>3, Types DEF IInv, Seen, QInv, Keeps
<1>5. runs'[n].pc = l /\ runs'[n].turn = t /\ \A k \in Runs \ {n} : runs'[k] = runs[k]
  BY <1>2, <1>3, <1>4, RunMoves DEF Pcs
<1>6. \A r \in Runs : \/ requests'[r] = requests[r]
                       \/ /\ requests[r].turn = t /\ requests[r].state # "absent" /\ requests'[r].state = "cancelled"
                          /\ requests'[r].turn = t /\ requests'[r].mode = requests[r].mode
  <2>1. ASSUME NEW r \in Runs
        PROVE  LET q == [requests[r] EXCEPT !.state = "cancelled", !.resume = IF Native(r) THEN "available" ELSE "none"]
               IN  q.state = "cancelled" /\ q.mode = requests[r].mode /\ q.turn = requests[r].turn
    <3>1. requests[r] \in Request
      BY <1>4
    <3>2. QED
      BY <3>1 DEF Request
  <2>2. requests' = [r \in Runs |-> IF r \in runs[n].seen
                                   THEN [requests[r] EXCEPT !.state = "cancelled",
                                             !.resume = IF Native(r) THEN "available" ELSE "none"]
                                   ELSE requests[r]]
    BY DEF CancelInputs
  <2>3. QED
    BY <1>4, <2>1, <2>2
<1>7. /\ worktree = n /\ handler.pc \notin Carrying
      /\ \A k \in Runs \ {n} : runs[k].pc \in {"none", "done"}
  BY <1>1, AloneAtWork DEF Working
<1>8. ASSUME NEW u \in Runs PROVE Waits(u)'
  <2>1. \A r \in Runs : Answerable(r) => requests'[r] = requests[r]
    BY <1>4, <1>6 DEF Answerable, Final
  <2>2. QED
    BY <1>1, <2>1, WaitsOn DEF QInv
<1>9. ASSUME NEW r \in Runs PROVE Follows(r)'
  BY <1>1, <1>4, <1>6 DEF QInv, Follows, Unsettled, Native
<1>10. ASSUME NEW k \in Runs PROVE Keeps(k)'
  <2>1. CASE k = n
    BY <1>1, <1>4, <1>5, <2>1 DEF Keeps, Final
  <2>2. CASE k # n
    BY <1>1, <1>5, <1>7, <2>2, IdleKeeps
  <2>3. QED
    BY <2>1, <2>2
<1>11. Routed'
  <2>1. handler.pc # "idle" => handler.request \in Runs
    BY DEF IInv, Handled
  <2>2. QED
    BY <1>1, <1>6, <1>7, <2>1 DEF QInv, Routed, Native, Carrying, Turned
<1>12. QED
  BY <1>8, <1>9, <1>10, <1>11 DEF QInv

\* A mark that a run makes settles at most an answer.
LEMMA ResumeFailedAsks == ASSUME IInv, QInv, NEW n \in Runs, ResumeFailed(n) PROVE QInv'
<1>1. /\ runs[n].pc = "unavailing" /\ runs' = [runs EXCEPT ![n].pc = "parked"]
      /\ requests' = WithUnavailable(runs[n].via)
      /\ UNCHANGED <<turns, messages, worktree, handler, host>>
      /\ runs \in [Runs -> Run]
  BY Types DEF ResumeFailed
<1>2. runs'[n].pc = "parked" /\ runs'[n].turn = runs[n].turn /\ \A k \in Runs \ {n} : runs'[k] = runs[k]
  BY <1>1, RunMoves DEF Pcs
<1>3. \A s \in Runs :
        /\ requests'[s].state = requests[s].state /\ requests'[s].mode = requests[s].mode
        /\ requests'[s].turn = requests[s].turn /\ requests'[s].run = requests[s].run
        /\ Pending(s) /\ (Native(s) => requests[s].resume = "available") => requests'[s] = requests[s]
        /\ requests'[s].state = "answered" /\ Native(s)
              => requests'[s].resume \in {"starting", "claimed", "started", "unavailable"}
        /\ Unsettled(s)' => Unsettled(s)
  BY <1>1, MarksSettle
<1>4. /\ worktree = n /\ handler.pc \notin Carrying
      /\ \A k \in Runs \ {n} : runs[k].pc \in {"none", "done"}
  BY <1>1, AloneAtWork DEF Working
<1>5. ASSUME NEW u \in Runs PROVE Waits(u)'
  BY <1>1, <1>3, WaitsOn DEF QInv, Answerable
<1>6. ASSUME NEW r \in Runs PROVE Follows(r)'
  BY <1>1, <1>3 DEF QInv, Follows, Native
<1>7. ASSUME NEW k \in Runs PROVE Keeps(k)'
  <2>1. CASE k = n
    BY <1>1, <1>2, <2>1 DEF QInv, Keeps, Working
  <2>2. CASE k # n
    BY <1>1, <1>2, <1>4, <2>2, IdleKeeps
  <2>3. QED
    BY <2>1, <2>2
<1>8. Routed'
  <2>1. handler.pc # "idle" => handler.request \in Runs
    BY DEF IInv, Handled
  <2>2. QED
    BY <1>1, <1>3, <1>4, <2>1 DEF QInv, Routed, Native, Carrying, Turned
<1>9. QED
  BY <1>5, <1>6, <1>7, <1>8 DEF QInv

\* A question is taken up while it is pending; every other answer is settled.
LEMMA AnswerAsks == ASSUME IInv, QInv, NEW r \in Runs, Answer(r) PROVE QInv'
<1>1. /\ host = "up" /\ handler = Idle /\ requests[r].state = "pending"
      /\ handler' = [Idle EXCEPT !.pc = "resolve", !.request = r]
      /\ UNCHANGED <<turns, requests, messages, runs, worktree, host>>
  BY DEF Answer, Answerable, Pending, durable
<1>2. handler'.pc = "resolve" /\ handler'.request = r
  BY <1>1 DEF Idle
<1>3. Routed'
  BY <1>1, <1>2 DEF Routed, Carrying, Turned
<1>4. \A s \in Runs : host # "restarting" => ~Unsettled(s)
  BY <1>1, EmptyRecords DEF QInv, Follows
<1>5. QED
  BY <1>1, <1>3, <1>4, RouteAlone

\* The answer settles its turn; only the route has it now.
LEMMA ResolveAsks == ASSUME IInv, QInv, Resolve PROVE QInv'
<1>1. PICK r \in Runs : r = handler.request
  BY AtWork DEF Resolve
<1>2. /\ handler.pc = "resolve" /\ host = "up" /\ requests[r] \in Request
      /\ UNCHANGED <<messages, runs, worktree, host>>
      /\ handler \in Handler /\ requests \in [Runs -> Request] /\ turns \in [Runs -> Turn]
      /\ requests[r].turn \in Runs /\ requests[r].state # "answered"
  BY <1>1, AtWork, Types DEF Resolve, QInv, Routed
<1>3. CASE ~Answerable(r)
  <2>1. handler' = Idle /\ UNCHANGED <<requests, turns>>
    BY <1>1, <1>3 DEF Resolve
  <2>2. Routed'
    BY <1>2, <2>1, EmptyRecords DEF Routed, Carrying, Turned
  <2>3. \A s \in Runs : host # "restarting" => ~Unsettled(s)
    BY <1>1, <1>2 DEF QInv, Follows, Unsettled
  <2>4. QED
    BY <1>2, <2>1, <2>2, <2>3, RouteAlone
<1>4. CASE Answerable(r)
  <2> DEFINE q == [requests[r] EXCEPT !.state = "answered", !.resume = IF Native(r) THEN "starting" ELSE "none"]
             u == IF Native(r) THEN "active" ELSE "completed"
  <2>1. PICK t \in Runs : t = requests[r].turn
    BY <1>2
  <2>2. /\ requests' = [requests EXCEPT ![r] = q]
        /\ turns' = [turns EXCEPT ![t].status = u]
        /\ handler' = [handler EXCEPT !.pc = "inspect"]
    BY <1>1, <1>4, <2>1 DEF Resolve
  <2>3. /\ turns[t].status = "waiting_for_user" /\ turns[t].run = requests[r].run /\ turns[t] \in Turn
        /\ requests[r].state = "pending"
    BY <1>2, <1>4, <2>1 DEF Answerable, Pending
  <2>4. /\ q.state = "answered" /\ q.turn = t /\ q.mode = requests[r].mode /\ q.run = requests[r].run
        /\ (Native(r) => q.resume = "starting")
    BY <1>2, <2>1 DEF Request
  <2>5. u \in {"active", "completed"} /\ (~Native(r) => u \in Final)
    BY DEF Final
  <2>6. handler'.pc = "inspect" /\ handler'.request = r
    BY <1>1, <1>2, <2>2, HandlerMoves DEF Steps
  <2> HIDE DEF q, u
  <2>7. /\ requests'[r] = q /\ \A s \in Runs \ {r} : requests'[s] = requests[s]
        /\ turns'[t].status = u /\ turns'[t].run = turns[t].run /\ \A v \in Runs \ {t} : turns'[v] = turns[v]
    BY <1>2, <2>2, <2>3 DEF Turn
  <2>8. ASSUME NEW v \in Runs PROVE Waits(v)'
    <3>1. CASE v = t
      BY <2>5, <2>7, <3>1 DEF Waits
    <3>2. CASE v # t
      BY <2>1, <2>7, <3>2, WaitsOn DEF QInv
    <3>3. QED
      BY <3>1, <3>2
  <2>9. ASSUME NEW s \in Runs PROVE Follows(s)'
    <3>1. CASE s = r
      BY <1>2, <2>3, <2>4, <2>5, <2>6, <2>7, <3>1 DEF Follows, Unsettled, Native
    <3>2. CASE s # r
      <4>1. ~Unsettled(s)
        BY <1>1, <1>2, <3>2 DEF QInv, Follows
      <4>2. requests'[s] = requests[s] /\ (requests[s].state # "absent" => requests[s].turn \in Runs)
        BY <2>7, <3>2 DEF IInv, Asked
      <4>3. QED
        BY <1>2, <2>5, <2>7, <4>1, <4>2 DEF QInv, Follows, Unsettled, Native
    <3>3. QED
      BY <3>1, <3>2
  <2>10. ASSUME NEW n \in Runs PROVE Keeps(n)'
    <3>1. n # r \/ runs[n].pc # "parking"
      BY <2>1, <2>3 DEF QInv, Keeps
    <3>2. runs[n].pc \in Working => runs[n].turn \in Runs
      BY DEF IInv, Worked
    <3>3. runs[n].pc \in {"ending", "cancelling"} => \A s \in runs[n].seen : s \in Runs
      BY Types DEF Run
    <3>4. \A s \in Runs : requests'[s].turn = requests[s].turn
      BY <2>1, <2>4, <2>7
    <3>5. Keeps(n)
      BY DEF QInv
    <3>6. runs[n].pc = "none" => turns'[n].status = "absent"
      BY <2>3, <2>7, <3>5 DEF Keeps
    <3>7. runs[n].pc \in Working => turns'[runs[n].turn].status # "absent"
      BY <2>5, <2>7, <3>2, <3>5 DEF Keeps
    <3>8. runs[n].pc \in {"running", "parking", "cancelling"} => turns'[runs[n].turn] = turns[runs[n].turn]
      BY <2>3, <2>7, <3>2, <3>5 DEF Keeps, Working, Final
    <3>9. runs[n].pc = "ending" => turns'[runs[n].turn].run = turns[runs[n].turn].run
      BY <2>7, <3>2 DEF Working
    <3>10. runs[n].pc = "parking" => requests'[n] = requests[n]
      BY <2>7, <3>1
    <3>11. runs[n].pc \in {"ending", "cancelling"} => \A s \in runs[n].seen : requests'[s].turn = requests[s].turn
      BY <3>3, <3>4
    <3>12. QED
      BY <1>2, <3>5, <3>6, <3>7, <3>8, <3>9, <3>10, <3>11 DEF Keeps, Native
  <2>11. Routed'
    BY <1>2, <2>1, <2>4, <2>5, <2>6, <2>7 DEF Routed, Native, Carrying, Turned
  <2>12. QED
    BY <2>8, <2>9, <2>10, <2>11 DEF QInv
<1>5. QED
  BY <1>3, <1>4

\* Reading, and starting the process, are in the route's memory alone.
LEMMA MovesAsk == ASSUME IInv, QInv, Inspect \/ Launch \/ Rebind PROVE QInv'
<1>1. /\ handler.pc \in {"inspect", "launch", "rebind"} /\ handler \in Handler
      /\ UNCHANGED <<turns, requests, messages, runs, worktree, host>>
  BY Types DEF Inspect, Launch, Rebind, durable
<1>2. CASE handler.pc = "inspect"
  <2>1. handler'.pc \in {"inspect", "admit", "giveUp"} /\ handler'.request = handler.request
    <3>1. CASE handler' = [handler EXCEPT !.pc = "admit"]
      BY <1>1, <3>1, HandlerMoves DEF Steps
    <3>2. CASE handler' = Retried
      BY <1>1, <3>2, Retries
    <3>3. QED
      BY <1>2, <3>1, <3>2 DEF Inspect, Launch, Rebind
  <2>2. Routed'
    BY <1>1, <1>2, <2>1 DEF QInv, Routed, Native, Carrying, Turned
  <2>3. QED
    BY <1>1, <2>1, <2>2, RouteKeeps
<1>3. CASE handler.pc \in {"launch", "rebind"}
  <2>1. PICK l \in {"rebind", "startFailed", "bind"} : handler' = [handler EXCEPT !.pc = l]
    BY <1>3 DEF Inspect, Launch, Rebind
  <2>2. handler'.pc = l /\ handler'.request = handler.request /\ handler'.turn = handler.turn
    BY <1>1, <2>1, HandlerMoves DEF Steps
  <2>3. Routed'
    BY <1>1, <1>3, <2>2 DEF QInv, Routed, Native, Carrying, Turned
  <2>4. QED
    BY <1>1, <2>2, <2>3, RouteKeeps
<1>4. QED
  BY <1>1, <1>2, <1>3

\* The run that is admitted has no turn yet.
LEMMA AdmitAsks == ASSUME IInv, QInv, Admit PROVE QInv'
<1>1. /\ handler.pc = "admit" /\ host = "up" /\ handler \in Handler /\ runs \in [Runs -> Run]
      /\ UNCHANGED <<turns, requests, messages, host>>
  BY AtWork, Types DEF Admit, durable
<1>2. CASE worktree # None
  <2>1. handler' = Retried /\ UNCHANGED <<runs, worktree>>
    BY <1>2 DEF Admit, WorktreeFree
  <2>2. handler'.pc \in {"inspect", "giveUp"} /\ handler'.request = handler.request
    BY <1>1, <2>1, Retries
  <2>3. Routed'
    BY <1>1, <2>1, <2>2 DEF QInv, Routed, Native, Carrying, Turned
  <2>4. QED
    BY <1>1, <2>1, <2>2, <2>3, RouteKeeps
<1>3. CASE worktree = None
  <2> DEFINE l == IF Native(handler.request) THEN "claim" ELSE "start"
  <2>1. PICK n \in Unused :
          /\ worktree' = n /\ runs' = [runs EXCEPT ![n].pc = "starting"]
          /\ handler' = [handler EXCEPT !.run = n, !.pc = l]
    BY <1>3 DEF Admit, WorktreeFree
  <2>2. n \in Runs /\ runs[n].pc = "none" /\ turns[n].status = "absent"
    BY DEF Unused, QInv, Keeps
  <2>3. runs'[n].pc = "starting" /\ \A k \in Runs \ {n} : runs'[k] = runs[k]
    BY <1>1, <2>1, <2>2, RunMoves DEF Pcs
  <2>4. handler'.pc \in {"claim", "start"} /\ handler'.request = handler.request /\ handler'.run = n
    <3>1. handler' = [handler EXCEPT !.pc = l, !.run = n] /\ l \in {"claim", "start"}
      BY <2>1
    <3> HIDE DEF l
    <3>2. QED
      BY <1>1, <2>2, <3>1, HandlerTakesRun DEF Steps
  <2>5. ASSUME NEW u \in Runs PROVE Waits(u)'
    BY <1>1, WaitsOn DEF QInv
  <2>6. ASSUME NEW r \in Runs PROVE Follows(r)'
    BY <1>1, <2>4 DEF QInv, Follows, Unsettled, Native
  <2>7. ASSUME NEW k \in Runs PROVE Keeps(k)'
    <3>1. CASE k = n
      BY <2>3, <3>1 DEF Keeps, Working
    <3>2. CASE k # n
      BY <1>1, <2>3, <3>2 DEF QInv, Keeps, Native
    <3>3. QED
      BY <3>1, <3>2
  <2>8. Routed'
    BY <1>1, <2>2, <2>4 DEF QInv, Routed, Native, Carrying, Turned
  <2>9. QED
    BY <2>5, <2>6, <2>7, <2>8 DEF QInv
<1>4. QED
  BY <1>2, <1>3

\* The claim is the route's; a claim that fails gives the run back unused.
LEMMA ClaimAsks == ASSUME IInv, QInv, Claim PROVE QInv'
<1>1. PICK r \in Runs : r = handler.request
  BY AtWork DEF Claim
<1>2. PICK n \in Runs : n = handler.run
  BY AloneInWorktree DEF Claim, Carrying
<1>3. /\ handler.pc = "claim" /\ host = "up" /\ requests[r] \in Request /\ Native(r)
      /\ UNCHANGED <<turns, messages, host>> /\ turns[n].status = "absent"
      /\ handler \in Handler /\ requests \in [Runs -> Request] /\ runs \in [Runs -> Run]
      /\ \A k \in Runs \ {n} : runs[k].pc \in {"none", "done"}
  BY <1>1, <1>2, AtWork, AloneInWorktree, Types DEF Claim, IInv, Handled, QInv, Routed, Carrying
<1>4. CASE ~Claimable(r)
  <2>1. runs' = [runs EXCEPT ![n] = NoRun] /\ handler' = Retried /\ UNCHANGED requests
    BY <1>1, <1>2, <1>4 DEF Claim
  <2>2. handler'.pc \in {"inspect", "giveUp"} /\ handler'.request = r
    BY <1>1, <1>3, <2>1, Retries
  <2>3. runs'[n].pc = "none" /\ \A k \in Runs \ {n} : runs'[k] = runs[k]
    BY <1>3, <2>1, EmptyRecords
  <2>4. ASSUME NEW u \in Runs PROVE Waits(u)'
    BY <1>3, <2>1, WaitsOn DEF QInv
  <2>5. ASSUME NEW s \in Runs PROVE Follows(s)'
    BY <1>1, <1>3, <2>1, <2>2 DEF QInv, Follows, Unsettled, Native
  <2>6. ASSUME NEW k \in Runs PROVE Keeps(k)'
    <3>1. CASE k = n
      BY <1>3, <2>3, <3>1 DEF Keeps, Working
    <3>2. CASE k # n
      BY <1>3, <2>3, <3>2, IdleKeeps
    <3>3. QED
      BY <3>1, <3>2
  <2>7. Routed'
    BY <1>1, <1>3, <2>1, <2>2 DEF Routed, Native, Carrying, Turned
  <2>8. QED
    BY <2>4, <2>5, <2>6, <2>7 DEF QInv
<1>5. CASE Claimable(r)
  <2> DEFINE q == [requests[r] EXCEPT !.resume = "claimed"]
  <2>1. PICK t \in Runs : t = requests[r].turn
    BY <1>1, <1>3, AtWork
  <2>2. /\ requests' = [requests EXCEPT ![r] = q]
        /\ runs' = [runs EXCEPT ![n].turn = t, ![n].via = r]
        /\ handler' = [handler EXCEPT !.pc = "launch", !.turn = t]
    BY <1>1, <1>2, <1>5, <2>1 DEF Claim
  <2>3. requests[r].state = "answered" /\ turns[t].status = "active"
    BY <1>5, <2>1 DEF Claimable, Bound
  <2>4. q.state = "answered" /\ q.turn = t /\ q.mode = requests[r].mode /\ q.run = requests[r].run /\ q.resume = "claimed"
    BY <1>3, <2>1, <2>3 DEF Request
  <2> HIDE DEF q
  <2>5. requests'[r] = q /\ \A s \in Runs \ {r} : requests'[s] = requests[s]
    BY <1>3, <2>2
  <2>6. runs'[n].pc = runs[n].pc /\ \A k \in Runs \ {n} : runs'[k] = runs[k]
    BY <1>3, <2>2 DEF Run
  <2>7. handler'.pc = "launch" /\ handler'.request = r /\ handler'.turn = t
    BY <1>1, <1>3, <2>2, HandlerTakesTurn DEF Steps
  <2>8. ASSUME NEW u \in Runs PROVE Waits(u)'
    <3>1. \A s \in Runs : Answerable(s) => requests'[s] = requests[s]
      BY <2>3, <2>5 DEF Answerable, Pending
    <3>2. QED
      BY <1>3, <3>1, WaitsOn DEF QInv
  <2>9. ASSUME NEW s \in Runs PROVE Follows(s)'
    <3>1. CASE s = r
      BY <1>3, <2>3, <2>4, <2>5, <2>7, <3>1 DEF Follows, Unsettled, Native
    <3>2. CASE s # r
      BY <1>1, <1>3, <2>5, <2>7, <3>2 DEF QInv, Follows, Unsettled, Native
    <3>3. QED
      BY <3>1, <3>2
  <2>10. ASSUME NEW k \in Runs PROVE Keeps(k)'
    <3>1. CASE k = n
      <4>1. runs'[n].pc = "starting"
        BY <1>2, <1>3, <2>6, AloneInWorktree DEF Carrying
      <4>2. QED
        BY <3>1, <4>1 DEF Keeps, Working
    <3>2. CASE k # n
      BY <1>3, <2>6, <3>2, IdleKeeps
    <3>3. QED
      BY <3>1, <3>2
  <2>11. Routed'
    BY <1>3, <2>3, <2>4, <2>5, <2>7 DEF Routed, Native, Carrying, Turned
  <2>12. QED
    BY <2>8, <2>9, <2>10, <2>11 DEF QInv
<1>6. QED
  BY <1>4, <1>5

\* A new turn with the answer: no request was ever about it.
LEMMA StartAsks == ASSUME IInv, QInv, Start PROVE QInv'
<1>1. PICK r \in Runs : r = handler.request
  BY AtWork DEF Start
<1>2. PICK n \in Runs : n = handler.run
  BY AloneInWorktree DEF Start, Carrying
<1>3. /\ handler.pc = "start" /\ host = "up" /\ ~Native(r) /\ requests[r].state # "absent"
      /\ UNCHANGED <<requests, worktree, host>> /\ turns[n].status = "absent"
      /\ handler \in Handler /\ messages \in [Runs -> SUBSET Runs] /\ runs \in [Runs -> Run] /\ turns \in [Runs -> Turn]
      /\ turns[requests[r].turn].status \in Final /\ requests[r].turn \in Runs
      /\ \A k \in Runs \ {n} : runs[k].pc \in {"none", "done"}
  BY <1>1, <1>2, AtWork, AloneInWorktree, Types DEF Start, IInv, Handled, QInv, Routed, Carrying
<1>4. /\ turns' = [turns EXCEPT ![n] = [status |-> "active", run |-> None]]
      /\ messages' = [messages EXCEPT ![r] = messages[r] \cup {n}]
      /\ runs' = [runs EXCEPT ![n].turn = n]
      /\ handler' = [handler EXCEPT !.pc = "launch", !.turn = n]
  BY <1>1, <1>2 DEF Start
<1>5. /\ turns'[n].status = "active" /\ \A u \in Runs \ {n} : turns'[u] = turns[u]
      /\ \A s \in Runs : messages[s] \subseteq messages'[s]
      /\ messages'[r] # {}
  BY <1>3, <1>4
<1>6. runs'[n].pc = runs[n].pc /\ \A k \in Runs \ {n} : runs'[k] = runs[k]
  BY <1>3, <1>4 DEF Run
<1>7. handler'.pc = "launch" /\ handler'.request = r /\ handler'.turn = n
  BY <1>1, <1>3, <1>4, HandlerTakesTurn DEF Steps
<1>8. ASSUME NEW u \in Runs PROVE Waits(u)'
  <2>1. CASE u = n
    BY <1>5, <2>1 DEF Waits
  <2>2. CASE u # n
    BY <1>3, <1>5, <2>2, WaitsOn DEF QInv
  <2>3. QED
    BY <2>1, <2>2
<1>9. ASSUME NEW s \in Runs PROVE Follows(s)'
  <2>1. requests[s].state # "absent" => requests[s].turn \in Runs \ {n}
    BY <1>3 DEF IInv, Asked, QInv, Follows
  <2>2. Unsettled(s)' => Unsettled(s)
    BY <1>3, <1>5 DEF Unsettled, Native
  <2>3. QED
    BY <1>1, <1>3, <1>5, <1>7, <2>1, <2>2 DEF QInv, Follows, Unsettled, Native
<1>10. ASSUME NEW k \in Runs PROVE Keeps(k)'
  <2>1. CASE k = n
    <3>1. runs'[n].pc = "starting"
      BY <1>2, <1>3, <1>6, AloneInWorktree DEF Carrying
    <3>2. QED
      BY <2>1, <3>1 DEF Keeps, Working
  <2>2. CASE k # n
    BY <1>3, <1>5, <1>6, <2>2, IdleKeeps
  <2>3. QED
    BY <2>1, <2>2
<1>11. Routed'
  <2>1. turns'[requests[r].turn].status \in Final
    BY <1>3, <1>5 DEF Final
  <2>2. QED
    BY <1>3, <1>5, <1>7, <2>1 DEF Routed, Native, Carrying, Turned
<1>12. QED
  BY <1>8, <1>9, <1>10, <1>11 DEF QInv

\* A start that failed gives up the claim.
LEMMA StartFailedAsks == ASSUME IInv, QInv, StartFailed PROVE QInv'
<1>1. PICK r \in Runs : r = handler.request
  BY AtWork DEF StartFailed
<1>2. /\ handler.pc = "startFailed" /\ host = "up" /\ handler \in Handler
      /\ requests' = WithUnavailable(r) /\ handler' = [handler EXCEPT !.pc = "recordFailed"]
      /\ UNCHANGED <<turns, messages, runs, worktree, host>>
  BY <1>1, AtWork, Types DEF StartFailed
<1>3. handler'.pc = "recordFailed" /\ handler'.request = r /\ handler'.turn = handler.turn
  BY <1>1, <1>2, HandlerMoves DEF Steps
<1>4. \A s \in Runs :
        /\ requests'[s].state = requests[s].state /\ requests'[s].mode = requests[s].mode
        /\ requests'[s].turn = requests[s].turn /\ requests'[s].run = requests[s].run
        /\ Pending(s) /\ (Native(s) => requests[s].resume = "available") => requests'[s] = requests[s]
        /\ requests'[s].state = "answered" /\ Native(s)
              => requests'[s].resume \in {"starting", "claimed", "started", "unavailable"}
        /\ Unsettled(s)' => Unsettled(s)
  BY <1>2, MarksSettle
<1>5. ASSUME NEW u \in Runs PROVE Waits(u)'
  BY <1>2, <1>4, WaitsOn DEF QInv, Answerable
<1>6. ASSUME NEW s \in Runs PROVE Follows(s)'
  BY <1>1, <1>2, <1>3, <1>4 DEF QInv, Follows, Native
<1>7. ASSUME NEW k \in Runs PROVE Keeps(k)'
  <2>1. runs[k].seen \subseteq Runs
    BY Types DEF Run
  <2>2. QED
    BY <1>2, <1>4, <2>1 DEF QInv, Keeps, Native, Pending
<1>8. Routed'
  BY <1>1, <1>2, <1>3, <1>4 DEF QInv, Routed, Native, Carrying, Turned
<1>9. QED
  BY <1>5, <1>6, <1>7, <1>8 DEF QInv

\* The turn of a start that failed is failed, and its run is over.
LEMMA RecordFailedAsks == ASSUME IInv, QInv, RecordFailed PROVE QInv'
<1>1. PICK t \in Runs : t = handler.turn
  BY DEF RecordFailed, IInv, Handled, Turned
<1>2. PICK n \in Runs : n = handler.run
  BY AloneInWorktree DEF RecordFailed, Carrying, Turned
<1>3. /\ handler.pc = "recordFailed" /\ host = "up" /\ handler \in Handler /\ turns \in [Runs -> Turn]
      /\ runs \in [Runs -> Run] /\ turns[t].status = "active" /\ UNCHANGED <<requests, messages, host>>
      /\ turns' = [turns EXCEPT ![t].status = "failed"]
      /\ runs' = [runs EXCEPT ![n].pc = "done"]
      /\ handler' = [handler EXCEPT !.pc = "giveUp"]
      /\ \A k \in Runs \ {n} : runs[k].pc \in {"none", "done"}
  BY <1>1, <1>2, AtWork, AloneInWorktree, Types DEF RecordFailed, QInv, Routed, Carrying, Turned
<1>4. handler'.pc = "giveUp" /\ handler'.request = handler.request
  BY <1>3, HandlerMoves DEF Steps
<1>5. turns'[t].status = "failed" /\ turns'[t].run = turns[t].run /\ \A u \in Runs \ {t} : turns'[u] = turns[u]
  BY <1>3 DEF Turn
<1>6. runs'[n].pc = "done" /\ \A k \in Runs \ {n} : runs'[k] = runs[k]
  BY <1>3, RunMoves DEF Pcs
<1>7. ASSUME NEW u \in Runs PROVE Waits(u)'
  <2>1. CASE u = t
    BY <1>5, <2>1 DEF Waits
  <2>2. CASE u # t
    BY <1>3, <1>5, <2>2, WaitsOn DEF QInv
  <2>3. QED
    BY <2>1, <2>2
<1>8. ASSUME NEW s \in Runs PROVE Follows(s)'
  <2>1. requests[s].state # "absent" => requests[s].turn \in Runs
    BY DEF IInv, Asked
  <2>2. QED
    BY <1>3, <1>4, <1>5, <2>1 DEF QInv, Follows, Unsettled, Native
<1>9. ASSUME NEW k \in Runs PROVE Keeps(k)'
  <2>1. CASE k = n
    BY <1>6, <2>1 DEF Keeps, Working
  <2>2. CASE k # n
    <3>1. runs[k].pc = "none" => turns'[k] = turns[k]
      BY <1>3, <1>5 DEF QInv, Keeps
    <3>2. QED
      BY <1>3, <1>6, <2>2, <3>1, IdleKeeps
  <2>3. QED
    BY <2>1, <2>2
<1>10. Routed'
  <2>1. requests[handler.request].turn \in Runs
    BY <1>3, AtWork
  <2>2. QED
    BY <1>3, <1>4, <1>5, <2>1 DEF QInv, Routed, Native, Carrying, Turned, Final
<1>11. QED
  BY <1>7, <1>8, <1>9, <1>10 DEF QInv

\* The turn of the answer takes its run; no answer is waiting on that turn.
LEMMA BindAsks == ASSUME IInv, QInv, Bind PROVE QInv'
<1>1. PICK t \in Runs : t = handler.turn
  BY DEF Bind, IInv, Handled, Turned
<1>2. PICK n \in Runs : n = handler.run
  BY AloneInWorktree DEF Bind, Carrying, Turned
<1>3. /\ handler.pc = "bind" /\ host = "up" /\ handler \in Handler /\ turns \in [Runs -> Turn]
      /\ turns[t].status = "active" /\ UNCHANGED <<requests, messages, runs, worktree, host>>
      /\ turns' = [turns EXCEPT ![t].run = n]
      /\ handler' = [handler EXCEPT !.pc = "accept"]
      /\ runs[n].pc = "starting" /\ \A k \in Runs \ {n} : runs[k].pc \in {"none", "done"}
      /\ (~Native(handler.request) => messages[handler.request] # {})
  BY <1>1, <1>2, AtWork, AloneInWorktree, Types DEF Bind, QInv, Routed, Carrying, Turned
<1>4. handler'.pc = "accept" /\ handler'.request = handler.request /\ handler'.turn = handler.turn
  BY <1>3, HandlerMoves DEF Steps
<1>5. turns'[t].status = "active" /\ \A u \in Runs \ {t} : turns'[u] = turns[u]
  BY <1>3 DEF Turn
<1>6. ASSUME NEW u \in Runs PROVE Waits(u)'
  <2>1. CASE u = t
    BY <1>5, <2>1 DEF Waits
  <2>2. CASE u # t
    BY <1>3, <1>5, <2>2, WaitsOn DEF QInv
  <2>3. QED
    BY <2>1, <2>2
<1>7. ASSUME NEW s \in Runs PROVE Follows(s)'
  <2>1. requests[s].state # "absent" => requests[s].turn \in Runs
    BY DEF IInv, Asked
  <2>2. Unsettled(s) => Native(s)
    BY <1>3 DEF QInv, Follows, Unsettled
  <2>3. QED
    BY <1>3, <1>4, <1>5, <2>1, <2>2 DEF QInv, Follows, Unsettled, Native
<1>8. ASSUME NEW k \in Runs PROVE Keeps(k)'
  <2>1. CASE k = n
    BY <1>3, <2>1 DEF Keeps, Working
  <2>2. CASE k # n
    <3>1. runs[k].pc = "none" => turns'[k] = turns[k]
      BY <1>3, <1>5 DEF QInv, Keeps
    <3>2. QED
      BY <1>3, <2>2, <3>1, IdleKeeps
  <2>3. QED
    BY <2>1, <2>2
<1>9. Routed'
  <2>1. requests[handler.request].turn \in Runs
    BY <1>3, AtWork
  <2>2. turns'[requests[handler.request].turn].status = turns[requests[handler.request].turn].status
    BY <1>3, <1>5, <2>1
  <2>3. QED
    BY <1>1, <1>3, <1>4, <1>5, <2>2 DEF QInv, Routed, Native, Carrying, Turned
<1>10. QED
  BY <1>6, <1>7, <1>8, <1>9 DEF QInv

\* The route leaves its request with a run, or keeps it with its mark.
LEMMA AcceptAsks == ASSUME IInv, QInv, Accept PROVE QInv'
<1>1. PICK r \in Runs : r = handler.request
  BY AtWork DEF Accept
<1>2. PICK n \in Runs : n = handler.run
  BY AloneInWorktree DEF Accept, Carrying, Turned
<1>3. /\ handler.pc = "accept" /\ host = "up" /\ handler \in Handler
      /\ requests \in [Runs -> Request] /\ requests[r] \in Request /\ runs \in [Runs -> Run]
      /\ UNCHANGED <<turns, messages, host>>
      /\ \A k \in Runs \ {n} : runs[k].pc \in {"none", "done"}
      /\ runs[n].turn = handler.turn /\ turns[handler.turn].status = "active" /\ requests[r].state # "pending"
      /\ (~Native(r) => messages[r] # {} /\ turns[requests[r].turn].status \in Final)
  BY <1>1, <1>2, AtWork, AloneInWorktree, Types DEF Accept, IInv, Handled, QInv, Routed, Carrying, Turned
<1>4. CASE Native(r) /\ requests[r].resume \notin {"claimed", "started"}
  <2>1. /\ requests' = WithUnavailable(r) /\ runs' = [runs EXCEPT ![n].pc = "done"] /\ handler' = Retried
    BY <1>1, <1>2, <1>4 DEF Accept
  <2>2. handler'.pc \in {"inspect", "giveUp"} /\ handler'.request = r
    BY <1>1, <1>3, <2>1, Retries
  <2>3. runs'[n].pc = "done" /\ \A k \in Runs \ {n} : runs'[k] = runs[k]
    BY <1>3, <2>1, RunMoves DEF Pcs
  <2>4. \A s \in Runs :
          /\ requests'[s].state = requests[s].state /\ requests'[s].mode = requests[s].mode
          /\ requests'[s].turn = requests[s].turn /\ requests'[s].run = requests[s].run
          /\ Pending(s) /\ (Native(s) => requests[s].resume = "available") => requests'[s] = requests[s]
          /\ requests'[s].state = "answered" /\ Native(s)
                => requests'[s].resume \in {"starting", "claimed", "started", "unavailable"}
          /\ Unsettled(s)' => Unsettled(s)
    BY <1>3, <2>1, MarksSettle
  <2>5. ASSUME NEW u \in Runs PROVE Waits(u)'
    BY <1>3, <2>4, WaitsOn DEF QInv, Answerable
  <2>6. ASSUME NEW s \in Runs PROVE Follows(s)'
    BY <1>1, <1>3, <2>2, <2>4 DEF QInv, Follows, Native
  <2>7. ASSUME NEW k \in Runs PROVE Keeps(k)'
    <3>1. CASE k = n
      BY <2>3, <3>1 DEF Keeps, Working
    <3>2. CASE k # n
      BY <1>3, <2>3, <3>2, IdleKeeps
    <3>3. QED
      BY <3>1, <3>2
  <2>8. Routed'
    BY <1>3, <1>4, <2>2, <2>4 DEF Routed, Native, Carrying, Turned
  <2>9. QED
    BY <2>5, <2>6, <2>7, <2>8 DEF QInv
<1>5. CASE ~(Native(r) /\ requests[r].resume \notin {"claimed", "started"})
  <2> DEFINE q == [requests[r] EXCEPT !.resume = "started"]
  <2>1. /\ requests' = IF Native(r) THEN [requests EXCEPT ![r] = q] ELSE requests
        /\ runs' = [runs EXCEPT ![n].pc = "running"] /\ handler' = Idle
    BY <1>1, <1>2, <1>5 DEF Accept
  <2>2. /\ q.state = requests[r].state /\ q.mode = requests[r].mode /\ q.turn = requests[r].turn
        /\ q.run = requests[r].run /\ q.resume = "started"
    BY <1>3 DEF Request
  <2> HIDE DEF q
  <2>3. /\ IF Native(r) THEN requests'[r] = q ELSE requests'[r] = requests[r]
        /\ \A s \in Runs \ {r} : requests'[s] = requests[s]
    BY <1>3, <2>1
  <2>4. runs'[n].pc = "running" /\ runs'[n].turn = handler.turn /\ \A k \in Runs \ {n} : runs'[k] = runs[k]
    BY <1>3, <2>1, RunMoves DEF Pcs
  <2>5. ASSUME NEW u \in Runs PROVE Waits(u)'
    <3>1. \A s \in Runs : Answerable(s) => requests'[s] = requests[s]
      BY <1>3, <2>3 DEF Answerable, Pending
    <3>2. QED
      BY <1>3, <3>1, WaitsOn DEF QInv
  <2>6. ASSUME NEW s \in Runs PROVE Follows(s)'
    <3>1. CASE s = r
      <4>1. ~Unsettled(s)'
        BY <1>3, <2>2, <2>3, <3>1 DEF Unsettled, Native
      <4>2. QED
        BY <1>3, <2>2, <2>3, <3>1, <4>1 DEF QInv, Follows, Native
    <3>2. CASE s # r
      <4>1. ~Unsettled(s)
        BY <1>1, <1>3, <3>2 DEF QInv, Follows
      <4>2. QED
        BY <1>3, <2>3, <3>2, <4>1 DEF QInv, Follows, Unsettled, Native
    <3>3. QED
      BY <3>1, <3>2
  <2>7. ASSUME NEW k \in Runs PROVE Keeps(k)'
    <3>1. CASE k = n
      BY <1>3, <2>4, <3>1 DEF Keeps, Working
    <3>2. CASE k # n
      BY <1>3, <2>4, <3>2, IdleKeeps
    <3>3. QED
      BY <3>1, <3>2
  <2>8. Routed'
    BY <1>3, <2>1, EmptyRecords DEF Routed, Carrying, Turned
  <2>9. QED
    BY <2>5, <2>6, <2>7, <2>8 DEF QInv
<1>6. QED
  BY <1>4, <1>5

\* An answer that is given up is cancelled or marked: either way settled.
LEMMA GiveUpAsks == ASSUME IInv, QInv, GiveUp PROVE QInv'
<1>1. PICK r \in Runs : r = handler.request
  BY AtWork DEF GiveUp
<1>2. PICK t \in Runs : t = requests[r].turn
  BY <1>1, AtWork DEF GiveUp
<1>3. /\ handler.pc = "giveUp" /\ host = "up" /\ handler' = Idle
      /\ requests \in [Runs -> Request] /\ requests[r] \in Request /\ turns \in [Runs -> Turn] /\ turns[t] \in Turn
      /\ UNCHANGED <<messages, runs, worktree, host>> /\ requests[r].state \notin {"absent", "pending"}
      /\ (~Native(r) => turns[t].status \in Final)
  BY <1>1, <1>2, AtWork, Types DEF GiveUp, IInv, Handled, QInv, Routed
<1>4. Routed'
  BY <1>3, EmptyRecords DEF Routed, Carrying, Turned
<1>5. \A s \in Runs \ {r} : ~Unsettled(s)
  BY <1>1, <1>3 DEF QInv, Follows
<1>6. CASE Native(r)
  <2>1. requests' = WithUnavailable(r) /\ UNCHANGED turns
    BY <1>1, <1>6 DEF GiveUp
  <2>2. \A s \in Runs :
          /\ requests'[s].state = requests[s].state /\ requests'[s].mode = requests[s].mode
          /\ requests'[s].turn = requests[s].turn /\ requests'[s].run = requests[s].run
          /\ Pending(s) /\ (Native(s) => requests[s].resume = "available") => requests'[s] = requests[s]
          /\ requests'[s].state = "answered" /\ Native(s)
                => requests'[s].resume \in {"starting", "claimed", "started", "unavailable"}
          /\ Unsettled(s)' => Unsettled(s) /\ (s = r => ~Native(r))
    BY <1>3, <2>1, MarksSettle
  <2>3. ASSUME NEW u \in Runs PROVE Waits(u)'
    BY <2>1, <2>2, WaitsOn DEF QInv, Answerable
  <2>4. ASSUME NEW s \in Runs PROVE Follows(s)'
    <3>1. ~Unsettled(s)'
      BY <1>5, <1>6, <2>2
    <3>2. QED
      BY <2>1, <2>2, <3>1 DEF QInv, Follows, Native
  <2>5. ASSUME NEW k \in Runs PROVE Keeps(k)'
    <3>1. runs[k].seen \subseteq Runs
      BY Types DEF Run
    <3>2. QED
      BY <1>3, <2>1, <2>2, <3>1 DEF QInv, Keeps, Native, Pending
  <2>6. QED
    BY <1>4, <2>3, <2>4, <2>5 DEF QInv
<1>7. CASE ~Native(r) /\ requests[r].state # "answered"
  <2>1. UNCHANGED <<requests, turns>>
    BY <1>1, <1>7 DEF GiveUp
  <2>2. \A s \in Runs : ~Unsettled(s)
    BY <1>5, <1>7 DEF Unsettled
  <2>3. QED
    BY <1>3, <1>4, <2>1, <2>2, RouteAlone
<1>8. CASE ~Native(r) /\ requests[r].state = "answered"
  <2> DEFINE q == [requests[r] EXCEPT !.state = "cancelled"]
  <2>1. /\ requests' = [requests EXCEPT ![r] = q]
        /\ turns' = turns \/ turns' = [turns EXCEPT ![t].status = "interrupted"]
    BY <1>1, <1>2, <1>8 DEF GiveUp
  <2>2. q.state = "cancelled" /\ q.turn = t /\ q.mode = requests[r].mode
    BY <1>2, <1>3 DEF Request
  <2> HIDE DEF q
  <2>3. requests'[r] = q /\ \A s \in Runs \ {r} : requests'[s] = requests[s]
    BY <1>3, <2>1
  <2>4. turns'[t].status \in Final /\ turns'[t].run = turns[t].run /\ \A u \in Runs \ {t} : turns'[u] = turns[u]
    BY <1>3, <1>8, <2>1 DEF Final, Turn
  <2>5. ASSUME NEW u \in Runs PROVE Waits(u)'
    <3>1. CASE u = t
      BY <2>4, <3>1 DEF Waits, Final
    <3>2. CASE u # t
      <4>1. \A s \in Runs : Answerable(s) => requests'[s] = requests[s]
        BY <1>3, <2>3 DEF Answerable, Pending
      <4>2. QED
        BY <2>4, <3>2, <4>1, WaitsOn DEF QInv
    <3>3. QED
      BY <3>1, <3>2
  <2>6. ASSUME NEW s \in Runs PROVE Follows(s)'
    <3>1. requests[s].state # "absent" => requests[s].turn \in Runs
      BY DEF IInv, Asked
    <3>2. ~Unsettled(s)'
      BY <1>3, <1>5, <2>2, <2>3 DEF Unsettled, Native
    <3>3. requests'[s].turn = requests[s].turn /\ requests'[s].mode = requests[s].mode
          /\ (requests'[s].state # "absent" => requests[s].state # "absent")
          /\ (s # r => requests'[s] = requests[s])
      BY <1>2, <1>3, <2>2, <2>3
    <3>4. requests'[s].state = "answered" => s # r
      BY <2>2, <2>3
    <3>5. requests'[s].state # "absent" => turns'[requests'[s].turn].status # "absent"
      BY <2>4, <3>1, <3>3 DEF QInv, Follows, Final
    <3>6. QED
      BY <3>2, <3>3, <3>4, <3>5 DEF QInv, Follows, Native
  <2>7. ASSUME NEW k \in Runs PROVE Keeps(k)'
    <3>1. runs[k].seen \subseteq Runs
      BY Types DEF Run
    <3>2. \A s \in Runs : requests'[s].turn = requests[s].turn
      BY <1>2, <2>2, <2>3
    <3>3. Keeps(k) /\ (runs[k].pc \in Working => runs[k].turn \in Runs)
      BY DEF QInv, IInv, Worked
    <3>4. runs[k].pc = "parking" => k # r
      BY <1>3, <3>3 DEF Keeps
    <3>5. turns[t].status \in Final
      BY <1>3, <1>8
    <3>6. /\ runs[k].pc = "none" => turns'[k].status = "absent"
          /\ runs[k].pc \in Working => turns'[runs[k].turn].status # "absent" /\ turns'[runs[k].turn].run = turns[runs[k].turn].run
          /\ runs[k].pc \in {"running", "parking"} => turns'[runs[k].turn] = turns[runs[k].turn]
          /\ runs[k].pc = "cancelling" => turns'[runs[k].turn].status \in Final
      <4>1. runs[k].pc = "none" => turns'[k].status = "absent"
        BY <2>4, <3>3, <3>5 DEF Keeps, Final
      <4>2. runs[k].pc \in Working => turns'[runs[k].turn].status # "absent" /\ turns'[runs[k].turn].run = turns[runs[k].turn].run
        BY <2>4, <3>3 DEF Keeps, Final
      <4>3. runs[k].pc \in {"running", "parking"} => turns'[runs[k].turn] = turns[runs[k].turn]
        BY <2>4, <3>3, <3>5 DEF Keeps, Final, Working
      <4>4. runs[k].pc = "cancelling" => turns'[runs[k].turn].status \in Final
        BY <2>4, <3>3 DEF Keeps, Working
      <4>5. QED
        BY <4>1, <4>2, <4>3, <4>4
    <3>7. QED
      BY <1>3, <2>3, <3>1, <3>2, <3>3, <3>4, <3>6 DEF Keeps, Native, Working
  <2>8. QED
    BY <1>4, <2>5, <2>6, <2>7 DEF QInv
<1>9. QED
  BY <1>6, <1>7, <1>8

\* A crash loses the runs and the route, and no question.
LEMMA CrashAsks == ASSUME IInv, QInv, Crash PROVE QInv'
<1>1. /\ UNCHANGED <<turns, requests, messages>> /\ host' = "restarting" /\ worktree' = None /\ handler' = Idle
      /\ runs' = [n \in Runs |-> IF Open(n) THEN [NoRun EXCEPT !.pc = "done"] ELSE runs[n]]
  BY DEF Crash, durable
<1>2. \A n \in Runs : runs'[n].pc \in {"none", "done"} /\ (runs'[n].pc = "none" => runs[n].pc = "none")
  BY <1>1, EmptyRecords DEF Open
<1>3. ASSUME NEW u \in Runs PROVE Waits(u)'
  BY <1>1, WaitsOn DEF QInv
<1>4. ASSUME NEW r \in Runs PROVE Follows(r)'
  BY <1>1 DEF QInv, Follows, Unsettled, Native
<1>5. ASSUME NEW n \in Runs PROVE Keeps(n)'
  <2>1. runs'[n].pc = "none" => turns'[n].status = "absent"
    BY <1>1, <1>2 DEF QInv, Keeps
  <2>2. QED
    BY <1>2, <2>1 DEF Keeps, Working
<1>6. Routed'
  BY <1>1, EmptyRecords DEF Routed, Carrying, Turned
<1>7. QED
  BY <1>3, <1>4, <1>5, <1>6 DEF QInv

\* A host that does not serve has no run.
LEMMA NoRunWorks == ASSUME IInv, QInv, host # "up" PROVE \A n \in Runs : runs[n].pc \in {"none", "done"}
BY EmptyRecords DEF IInv, Worked, QInv, Routed

\* One rewrite settles every answer: it is asked for again, with its turn
\* waiting for it, or it is refused, and then its turn does not wait.
LEMMA RecoverInputsAsks == ASSUME IInv, QInv, RecoverInputs PROVE QInv'
<1>1. /\ host = "restarting" /\ host' = "recovering"
      /\ requests' = [r \in Runs |-> RecoveredRequest(r)]
      /\ turns' = [t \in Runs |-> RecoveredTurn(t)]
      /\ UNCHANGED <<messages, runs, worktree, handler>>
      /\ requests \in [Runs -> Request] /\ turns \in [Runs -> Turn]
  BY Types DEF RecoverInputs
<1>2. \A n \in Runs : runs[n].pc \in {"none", "done"}
  BY <1>1, NoRunWorks
<1>3. handler = Idle /\ worktree = None
  BY <1>1 DEF IInv, Handled, QInv, Routed
<1>4. ASSUME NEW r \in Runs, Lost(r)
      PROVE  /\ requests'[r].state = "pending" /\ requests'[r].mode # "native_resume"
             /\ requests'[r].turn = requests[r].turn /\ requests'[r].run = requests[r].run
             /\ requests[r].state = "answered" /\ requests[r].turn \in Runs
             /\ turns[requests[r].turn].run = requests[r].run
  <2>1. requests[r] \in Request
    BY <1>1
  <2>2. requests'[r] = [requests[r] EXCEPT !.state = "pending"]
    BY <1>1, <1>4 DEF RecoveredRequest
  <2>3. requests[r].state = "answered" /\ ~Native(r) /\ messages[r] = {}
    BY <1>4 DEF Lost
  <2>4. requests[r].turn \in Runs
    BY <2>3 DEF IInv, Asked
  <2>5. turns[requests[r].turn].run = requests[r].run
    BY <2>3 DEF QInv, Follows, Unsettled
  <2>6. QED
    BY <2>1, <2>2, <2>3, <2>4, <2>5 DEF Request, Native
<1>5. ASSUME NEW r \in Runs, ~Lost(r)
      PROVE  /\ requests'[r].state = requests[r].state /\ requests'[r].mode = requests[r].mode
             /\ requests'[r].turn = requests[r].turn /\ requests'[r].run = requests[r].run
             /\ IF Native(r) THEN requests'[r].resume = "unavailable" ELSE requests'[r] = requests[r]
  <2> DEFINE q == [requests[r] EXCEPT !.resume = "unavailable"]
  <2>1. requests[r] \in Request
    BY <1>1
  <2>2. requests'[r] = IF Refused(r) THEN q ELSE requests[r]
    BY <1>1, <1>5 DEF RecoveredRequest
  <2>3. /\ q.state = requests[r].state /\ q.mode = requests[r].mode
        /\ q.turn = requests[r].turn /\ q.run = requests[r].run /\ q.resume = "unavailable"
    BY <2>1 DEF Request
  <2> HIDE DEF q
  <2>4. QED
    BY <2>2, <2>3 DEF Refused
<1>6. ASSUME NEW r \in Runs, requests[r].state = "answered", ~Native(r), messages[r] = {}
      PROVE  Lost(r)
  <2>1. receipts[r] = 1
    BY <1>6 DEF IInv, Asked
  <2>2. receipts[r] > 0
    BY <2>1
  <2>3. QED
    BY <1>6, <2>2 DEF Lost
<1>7. ASSUME NEW t \in Runs
      PROVE  /\ turns'[t] # turns[t] => turns'[t].status \in {"interrupted", "waiting_for_user"}
             /\ turns'[t] # turns[t] => turns[t].status # "absent"
             /\ turns'[t].run = turns[t].run
             /\ turns'[t].status = "waiting_for_user"
                   => \/ Reopened(t)
                      \/ turns'[t] = turns[t] /\ ~ \E r \in Runs : Refused(r) /\ requests[r].turn = t
  <2>1. turns[t] \in Turn
    BY <1>1
  <2>2. /\ [turns[t] EXCEPT !.status = "interrupted"] = [status |-> "interrupted", run |-> turns[t].run]
        /\ [turns[t] EXCEPT !.status = "waiting_for_user"] = [status |-> "waiting_for_user", run |-> turns[t].run]
    BY <2>1 DEF Turn
  <2>3. turns'[t] = RecoveredTurn(t)
    BY <1>1
  <2>4. Reopened(t) => turns[t].status # "absent"
    BY <1>4 DEF Reopened, QInv, Follows
  <2>5. CASE (\E r \in Runs : Refused(r) /\ requests[r].turn = t) /\ (Reopened(t) \/ turns[t].status \in Live)
    <3>1. turns'[t] = [status |-> "interrupted", run |-> turns[t].run]
      BY <2>2, <2>3, <2>5 DEF RecoveredTurn
    <3>2. QED
      BY <2>4, <2>5, <3>1 DEF Live
  <2>6. CASE ~((\E r \in Runs : Refused(r) /\ requests[r].turn = t) /\ (Reopened(t) \/ turns[t].status \in Live))
             /\ Reopened(t)
    <3>1. turns'[t] = [status |-> "waiting_for_user", run |-> turns[t].run]
      BY <2>2, <2>3, <2>6 DEF RecoveredTurn
    <3>2. QED
      BY <2>4, <2>6, <3>1
  <2>7. CASE ~((\E r \in Runs : Refused(r) /\ requests[r].turn = t) /\ (Reopened(t) \/ turns[t].status \in Live))
             /\ ~Reopened(t)
    <3>1. turns'[t] = turns[t]
      BY <2>3, <2>7 DEF RecoveredTurn
    <3>2. QED
      BY <2>7, <3>1 DEF Live
  <2>8. QED
    BY <2>5, <2>6, <2>7
<1>8. ASSUME NEW t \in Runs PROVE Waits(t)'
  <2> SUFFICES ASSUME turns'[t].status = "waiting_for_user"
               PROVE  \E r \in Runs : (requests[r].turn = t /\ Answerable(r))'
    BY DEF Waits
  <2>1. turns'[t] = [status |-> "waiting_for_user", run |-> turns[t].run]
    <3>1. RecoveredTurn(t) \in Turn
      <4>1. turns[t] \in Turn
        BY <1>1
      <4>2. /\ [turns[t] EXCEPT !.status = "interrupted"] \in Turn
            /\ [turns[t] EXCEPT !.status = "waiting_for_user"] \in Turn
        BY <4>1, OtherFields DEF Statuses, Live, Final
      <4>3. QED
        BY <4>1, <4>2 DEF RecoveredTurn
    <3>2. turns'[t] \in Turn
      BY <1>1, <3>1
    <3>3. turns'[t].run = turns[t].run
      BY <1>7
    <3>4. QED
      BY <3>2, <3>3 DEF Turn
  <2>2. CASE Reopened(t)
    <3>1. PICK r \in Runs : Lost(r) /\ requests[r].turn = t
      BY <2>2 DEF Reopened
    <3>2. (requests[r].turn = t /\ Answerable(r))'
      BY <1>4, <2>1, <3>1 DEF Answerable, Pending, Native
    <3>3. QED
      BY <3>2
  <2>3. CASE ~Reopened(t)
    <3>1. turns'[t] = turns[t] /\ ~ \E r \in Runs : Refused(r) /\ requests[r].turn = t
      BY <1>7, <2>3
    <3>2. PICK r \in Runs : requests[r].turn = t /\ Answerable(r)
      BY <3>1 DEF QInv, Waits
    <3>3. ~Native(r)
      BY <3>1, <3>2 DEF Refused, Answerable
    <3>4. ~Lost(r)
      BY <3>2 DEF Lost, Answerable, Pending
    <3>5. requests'[r] = requests[r]
      BY <1>5, <3>3, <3>4
    <3>6. (requests[r].turn = t /\ Answerable(r))'
      BY <3>1, <3>2, <3>5 DEF Answerable, Pending, Native
    <3>7. QED
      BY <3>6
  <2>4. QED
    BY <2>2, <2>3
<1>9. ASSUME NEW r \in Runs PROVE Follows(r)'
  <2>1. requests'[r].turn = requests[r].turn /\ (requests'[r].state # "absent" => requests[r].state # "absent")
    BY <1>4, <1>5
  <2>2. requests[r].state # "absent" => requests[r].turn \in Runs /\ turns[requests[r].turn].status # "absent"
    BY DEF IInv, Asked, QInv, Follows
  <2>3. requests'[r].state # "absent" => turns'[requests'[r].turn].status # "absent"
    BY <1>7, <2>1, <2>2
  <2>4. requests'[r].state = "answered" => ~Lost(r)
    BY <1>4
  <2>5. ~Unsettled(r)'
    BY <1>1, <1>5, <1>6, <2>4 DEF Unsettled, Native
  <2>6. requests'[r].state = "answered" /\ Native(r)' => requests'[r].resume = "unavailable"
    BY <1>5, <2>4 DEF Native
  <2>7. QED
    BY <2>3, <2>5, <2>6 DEF Follows, Native
<1>10. ASSUME NEW n \in Runs PROVE Keeps(n)'
  <2>1. runs[n].pc = "none" => turns'[n] = turns[n]
    BY <1>7 DEF QInv, Keeps
  <2>2. QED
    BY <1>1, <1>2, <2>1, IdleKeeps
<1>11. Routed'
  BY <1>1, <1>3, EmptyRecords DEF Routed, Carrying, Turned
<1>12. QED
  BY <1>8, <1>9, <1>10, <1>11 DEF QInv

\* A turn that was active never waited.
LEMMA RecoverTurnAsks == ASSUME IInv, QInv, NEW t \in Runs, RecoverTurn(t) PROVE QInv'
<1>1. /\ host = "recovering" /\ turns[t].status = "active"
      /\ turns' = [turns EXCEPT ![t].status = "interrupted"]
      /\ UNCHANGED <<requests, messages, runs, worktree, handler, host>>
      /\ turns \in [Runs -> Turn]
  BY Types DEF RecoverTurn
<1>2. turns'[t].status = "interrupted" /\ turns'[t].run = turns[t].run /\ \A u \in Runs \ {t} : turns'[u] = turns[u]
  BY <1>1 DEF Turn
<1>3. handler = Idle
  BY <1>1 DEF IInv, Handled
<1>4. ASSUME NEW u \in Runs PROVE Waits(u)'
  <2>1. CASE u = t
    BY <1>2, <2>1 DEF Waits
  <2>2. CASE u # t
    BY <1>1, <1>2, <2>2, WaitsOn DEF QInv
  <2>3. QED
    BY <2>1, <2>2
<1>5. ASSUME NEW r \in Runs PROVE Follows(r)'
  <2>1. requests[r].state # "absent" => requests[r].turn \in Runs
    BY DEF IInv, Asked
  <2>2. ~Unsettled(r)
    BY <1>1, <1>3, EmptyRecords DEF QInv, Follows
  <2>3. QED
    BY <1>1, <1>2, <2>1, <2>2 DEF QInv, Follows, Unsettled, Native
<1>6. ASSUME NEW n \in Runs PROVE Keeps(n)'
  <2>1. runs[n].pc \in {"none", "done"}
    BY <1>1, NoRunWorks
  <2>2. runs[n].pc = "none" => turns'[n] = turns[n]
    BY <1>1, <1>2 DEF QInv, Keeps
  <2>3. QED
    BY <1>1, <2>1, <2>2, IdleKeeps
<1>7. Routed'
  BY <1>1, <1>3, EmptyRecords DEF QInv, Routed, Carrying, Turned
<1>8. QED
  BY <1>4, <1>5, <1>6, <1>7 DEF QInv

\* The host serves again with every answer settled.
LEMMA ServeAsks == ASSUME IInv, QInv, Serve PROVE QInv'
<1>1. /\ host = "recovering" /\ host' = "up"
      /\ UNCHANGED <<turns, requests, messages, runs, worktree, handler>>
  BY DEF Serve, durable
<1>2. handler = Idle
  BY <1>1 DEF IInv, Handled
<1>3. ASSUME NEW u \in Runs PROVE Waits(u)'
  BY <1>1, WaitsOn DEF QInv
<1>4. ASSUME NEW r \in Runs PROVE Follows(r)'
  BY <1>1 DEF QInv, Follows, Unsettled, Native
<1>5. ASSUME NEW n \in Runs PROVE Keeps(n)'
  BY <1>1 DEF QInv, Keeps, Native
<1>6. Routed'
  BY <1>1, <1>2, EmptyRecords DEF Routed, Carrying, Turned
<1>7. QED
  BY <1>3, <1>4, <1>5, <1>6 DEF QInv

\* At first nothing was asked, and the one turn is active.
LEMMA QuestionsInit == Init => QInv
<1> SUFFICES ASSUME Init PROVE QInv
  OBVIOUS
<1>1. /\ turns = [t \in Runs |-> IF t = 1 THEN [status |-> "active", run |-> 1] ELSE NoTurn]
      /\ requests = [r \in Runs |-> NoRequest] /\ handler = Idle /\ host = "up"
      /\ runs = [n \in Runs |-> IF n = 1 THEN [NoRun EXCEPT !.pc = "running", !.turn = 1] ELSE NoRun]
  BY DEF Init
<1>2. 1 \in Runs
  BY BoundsAreNat DEF Runs
<1>3. \A t \in Runs : turns[t].status = IF t = 1 THEN "active" ELSE "absent"
  BY <1>1 DEF NoTurn
<1>4. \A n \in Runs : IF n = 1 THEN runs[n].pc = "running" /\ runs[n].turn = 1 ELSE runs[n].pc = "none"
  BY <1>1 DEF NoRun
<1>5. \A r \in Runs : requests[r].state = "absent"
  BY <1>1 DEF NoRequest
<1>6. ASSUME NEW t \in Runs PROVE Waits(t)
  BY <1>3 DEF Waits
<1>7. ASSUME NEW r \in Runs PROVE Follows(r)
  BY <1>5 DEF Follows, Unsettled
<1>8. ASSUME NEW n \in Runs PROVE Keeps(n)
  BY <1>2, <1>3, <1>4 DEF Keeps, Working
<1>9. Routed
  BY <1>1, EmptyRecords DEF Routed, Carrying, Turned
<1>10. QED
  BY <1>6, <1>7, <1>8, <1>9 DEF QInv

\* No step strands a question.
LEMMA QuestionsStep == IInv /\ QInv /\ [Next]_vars => QInv'
<1> SUFFICES ASSUME IInv, QInv, [Next]_vars PROVE QInv'
  OBVIOUS
<1>1. ASSUME NEW n \in Runs, NEW m \in Modes, Park(n, m) PROVE QInv'
  BY <1>1, ParkAsks
<1>2. ASSUME NEW n \in Runs, NEW kind \in Final, Ending(n, kind) PROVE QInv'
  BY <1>2, EndingAsks
<1>3. ASSUME NEW n \in Runs, RunStep(n) PROVE QInv'
  BY <1>3, ParkTurnAsks, EndTurnAsks, CancelInputsAsks, ResumeFailedAsks, CloseAsks DEF RunStep
<1>4. ASSUME NEW r \in Runs, Answer(r) PROVE QInv'
  BY <1>4, AnswerAsks
<1>5. CASE RouteStep
  BY <1>5, ResolveAsks, MovesAsk, AdmitAsks, ClaimAsks, StartAsks, StartFailedAsks,
     RecordFailedAsks, BindAsks, AcceptAsks, GiveUpAsks DEF RouteStep
<1>6. CASE RecoveryStep
  BY <1>6, RecoverInputsAsks, RecoverTurnAsks, ServeAsks DEF RecoveryStep
<1>7. CASE Crash
  BY <1>7, CrashAsks
<1>8. CASE UNCHANGED vars
  <2>1. UNCHANGED <<turns, requests, messages, runs, worktree, handler, host>>
    BY <1>8 DEF vars, durable
  <2>2. Routed'
    BY <2>1 DEF QInv, Routed, Native
  <2>3. QED
    BY <2>1, <2>2, RouteKeeps
<1>9. QED
  BY <1>1, <1>2, <1>3, <1>4, <1>5, <1>6, <1>7, <1>8 DEF Next

\* No question is lost between the operator and the provider: an accepted
\* answer is carried by a follow-up turn, started or marked unavailable once
\* the respond route is done with it, and a turn shown as waiting can be
\* answered; crashes included (retryChildFollowUp, failInputResolution,
\* claimNativeShikigamiResume, recoverInterruptedTurns).
THEOREM NoQuestionIsStranded == Spec => []NothingIsStranded
<1>1. IInv /\ QInv => NothingIsStranded
  <2> SUFFICES ASSUME IInv, QInv PROVE NothingIsStranded
    OBVIOUS
  <2>1. AnswerAccounted
    <3> SUFFICES ASSUME host = "up", NEW r \in Runs, requests[r].state = "answered", handler.request # r
                 PROVE  IF Native(r) THEN requests[r].resume \in {"started", "unavailable"} ELSE messages[r] # {}
      BY DEF AnswerAccounted
    <3>1. ~Unsettled(r)
      BY DEF QInv, Follows
    <3>2. QED
      BY <3>1 DEF QInv, Follows, Unsettled
  <2>2. WaitingIsAnswerable
    BY DEF WaitingIsAnswerable, QInv, Waits
  <2>3. QED
    BY <2>1, <2>2 DEF NothingIsStranded
<1>2. Spec => []QInv
  BY InvHolds, QuestionsInit, QuestionsStep, PTL DEF Spec
<1>3. QED
  BY <1>1, <1>2, InvHolds, PTL
=============================================================================
