------------------------ MODULE PermissionBrokerProofs ------------------------
(***************************************************************************)
(* Safety of the approval broker for every number of runs, keys, approvals *)
(* and callbacks and for every limit.                                      *)
(*                                                                         *)
(* The checked invariants are not inductive: they do not say which         *)
(* approvals a suspended decideAfter still owns, nor what a bound callback *)
(* may hold.  IInv adds that.                                              *)
(***************************************************************************)
EXTENDS PermissionBroker, FiniteSetTheorems, TLAPS

\* An approval that does not exist yet has left no trace.
AbsentIsClean ==
    \A a \in Approvals : state[a] = "absent" =>
        /\ promise[a] = "open" /\ inflight[a] = "none" /\ recorded[a] = "none"
        /\ a \notin live \cup claimed \cup overdue

\* A live approval is pending, or belongs to the decideAfter that changed its
\* state; a suspended decideAfter whose approval left the live map finds a
\* state it did not write.
LiveOwnership ==
    \A a \in Approvals :
        /\ a \in live => \/ state[a] = "pending" /\ inflight[a] = "none"
                         \/ state[a] = inflight[a]
        /\ state[a] = "pending" => a \in live
        /\ inflight[a] # "none" /\ a \notin live => state[a] \in CloseStates

\* A verdict that came in time is not overdue.
OverdueUndecided ==
    \A a \in overdue : inflight[a] = "none" /\ state[a] \notin Verdicts

\* What a callback holds exists, and is claimed as long as it can be claimed.
BoundIsClaimed ==
    \A c \in Callbacks : cbStatus[c] = "bound" =>
        /\ cbApproval[c] \in Approvals
        /\ state[cbApproval[c]] # "absent"
        /\ cbApproval[c] \in live => cbApproval[c] \in claimed

\* Only callbacks of an open run wait, or hold an unanswered approval.
UnansweredIsOpen ==
    \A c \in Callbacks :
        /\ IF cbStatus[c] = "idle" THEN cbRun[c] = None ELSE cbRun[c] \in Runs
        /\ cbStatus[c] = "waiting" => phase[cbRun[c]] = "open"
        /\ cbStatus[c] = "bound" =>
              /\ owner[cbApproval[c]] = cbRun[c]
              /\ cbApproval[c] \in live => phase[cbRun[c]] = "open"

\* The #resolving set is exactly the calls suspended in decideAfter.
ResolvingIsInflight ==
    resolving = {a \in Approvals : inflight[a] # "none"}

IInv ==
    /\ TypeOK /\ ResolvingIsInflight
    /\ AbsentIsClean /\ LiveOwnership /\ OverdueUndecided
    /\ AnswerMatchesState /\ PersistBeforeRelease /\ OverdueNeverAllowed
    /\ BoundIsClaimed /\ SingleUse /\ UnansweredIsOpen

-----------------------------------------------------------------------------
(* Typing                                                                  *)

\* Every step of the broker keeps the types of its state.
LEMMA TypeStep == TypeOK /\ [Next]_vars => TypeOK'
<1> SUFFICES ASSUME TypeOK, [Next]_vars PROVE TypeOK'
  OBVIOUS
<1> USE DEF TypeOK, approvalVars, callbackVars, ApprovalStates, Verdicts, CloseStates
<1>1. ASSUME NEW r \in Runs, CreateRunToken(r) PROVE TypeOK'
  BY <1>1 DEF CreateRunToken
<1>2. ASSUME NEW r \in Runs, NEW s \in CloseStates, NEW next \in {"draining", "ended"},
             CloseRun(r, s, next)
      PROVE TypeOK'
  BY <1>2 DEF CloseRun, ToClose, Forgotten, Settled
<1>3. ASSUME NEW r \in Runs, NEW k \in Keys, NEW a \in Approvals, Register(r, k, a)
      PROVE TypeOK'
  BY <1>3 DEF Register
<1>4. ASSUME NEW r \in Runs, NEW k \in Keys, NEW c \in Callbacks, AwaitDecision(c, r, k)
      PROVE TypeOK'
  BY <1>4 DEF AwaitDecision
<1>5. ASSUME NEW r \in Runs, NEW c \in Callbacks, NEW a \in Approvals,
             AwaitRegisteredDecision(c, r, a)
      PROVE TypeOK'
  BY <1>5 DEF AwaitRegisteredDecision
<1>6. ASSUME NEW c \in Callbacks, CallbackTimeout(c) PROVE TypeOK'
  BY <1>6 DEF CallbackTimeout
<1>7. ASSUME NEW a \in Approvals, DeadlinePasses(a) PROVE TypeOK'
  BY <1>7 DEF DeadlinePasses
<1>8. ASSUME NEW a \in Approvals, Expire(a) PROVE TypeOK'
  BY <1>8 DEF Expire, Finish, Seal, Settled, Answer
<1>9. ASSUME NEW a \in Approvals, NEW v \in Verdicts, Decide(a, v) PROVE TypeOK'
  BY <1>9 DEF Decide, Finish, Seal, Settled, Answer
<1>10. ASSUME NEW a \in Approvals, NEW v \in Verdicts, DecideAfter(a, v) PROVE TypeOK'
  BY <1>10 DEF DecideAfter
<1>11. ASSUME NEW a \in Approvals, PersistVerdict(a) PROVE TypeOK'
  BY <1>11 DEF PersistVerdict
<1>12. ASSUME NEW a \in Approvals, ReleaseVerdict(a) PROVE TypeOK'
  BY <1>12 DEF ReleaseVerdict, EndDecideAfter, Seal, Settled, Answer
<1>13. ASSUME NEW a \in Approvals, PersistFails(a) PROVE TypeOK'
  BY <1>13 DEF PersistFails, EndDecideAfter, Seal, Settled
<1>14. CASE UNCHANGED vars
  BY <1>14 DEF vars
<1>15. QED
  BY <1>1, <1>2, <1>3, <1>4, <1>5, <1>6, <1>7, <1>8, <1>9, <1>10, <1>11, <1>12,
     <1>13, <1>14 DEF Next

\* The state of the broker is always of the declared types.
THEOREM TypeCorrect == Spec => []TypeOK
<1>1. Init => TypeOK
  BY DEF Init, TypeOK, ApprovalStates
<1>2. QED
  BY <1>1, TypeStep, PTL DEF Spec

-----------------------------------------------------------------------------
(* The inductive invariant                                                 *)

\* Every step of the broker keeps the inductive invariant.
LEMMA InvStep == IInv /\ [Next]_vars => IInv'
<1> SUFFICES ASSUME IInv, [Next]_vars PROVE IInv'
  OBVIOUS
<1>0. TypeOK'
  BY TypeStep DEF IInv
<1> USE <1>0 DEF approvalVars, callbackVars, Verdicts, CloseStates
<1>1. ASSUME NEW r \in Runs, CreateRunToken(r)
      PROVE  IInv'
  <2>1. (ResolvingIsInflight /\ AbsentIsClean /\ LiveOwnership /\
         OverdueUndecided /\ AnswerMatchesState /\ PersistBeforeRelease /\
         OverdueNeverAllowed /\ BoundIsClaimed /\ SingleUse)'
    BY <1>1 DEF IInv, CreateRunToken, ResolvingIsInflight, AbsentIsClean,
                LiveOwnership, OverdueUndecided, AnswerMatchesState,
                PersistBeforeRelease, OverdueNeverAllowed, BoundIsClaimed,
                SingleUse
  <2>2. UnansweredIsOpen'
    BY <1>1 DEF IInv, TypeOK, UnansweredIsOpen, BoundIsClaimed,
                AbsentIsClean, LiveOwnership, CreateRunToken, HoldsToken
  <2>3. QED
    BY <2>1, <2>2 DEF IInv
<1>2. ASSUME NEW r \in Runs, NEW s \in CloseStates, NEW next \in {"draining", "ended"}, CloseRun(r, s, next)
      PROVE  IInv'
  <2>1. (ResolvingIsInflight)'
    BY <1>2 DEF IInv, CloseRun, ResolvingIsInflight
  <2>2. AbsentIsClean'
    <3> SUFFICES ASSUME NEW a \in Approvals, state'[a] = "absent"
                 PROVE  /\ promise'[a] = "open" /\ inflight'[a] = "none" /\ recorded'[a] = "none"
                        /\ a \notin live' \cup claimed' \cup overdue'
      BY DEF AbsentIsClean
    <3>1. a \notin ToClose(r) /\ state[a] = "absent"
      BY <1>2 DEF CloseRun
    <3>2. QED
      BY <1>2, <3>1 DEF IInv, AbsentIsClean, CloseRun
  <2>3. LiveOwnership'
    BY <1>2 DEF IInv, TypeOK, LiveOwnership, ResolvingIsInflight,
                AbsentIsClean, CloseRun, ToClose, Forgotten, Settled, Answer
  <2>4. OverdueUndecided'
    BY <1>2 DEF IInv, TypeOK, OverdueUndecided, LiveOwnership,
                AbsentIsClean, CloseRun, ToClose, Forgotten, Settled, Answer
  <2>5. AnswerMatchesState'
    <3> SUFFICES ASSUME NEW a \in Approvals, state'[a] # "absent"
                 PROVE  IF a \in live' THEN promise'[a] = "open"
                        ELSE promise'[a] = Answer(state'[a])
      BY DEF AnswerMatchesState, Answer
    <3>1. CASE a \in ToClose(r)
      <4>1. promise[a] = "open" /\ a \in live /\ owner[a] = r
        BY <3>1 DEF IInv, AnswerMatchesState, AbsentIsClean, ToClose
      <4>2. state'[a] = s /\ promise'[a] = "deny" /\ a \notin live'
        BY <1>2, <3>1, <4>1 DEF CloseRun, Forgotten, Settled
      <4>3. QED
        BY <4>2 DEF Answer
    <3>2. CASE a \notin ToClose(r)
      <4>1. state'[a] = state[a] /\ promise'[a] = promise[a]
        BY <1>2, <3>2 DEF CloseRun
      <4>2. a \in live' <=> a \in live
        BY <1>2, <3>2 DEF CloseRun, Forgotten, ToClose, IInv, TypeOK, LiveOwnership,
                         ResolvingIsInflight, ApprovalStates
      <4>3. QED
        BY <4>1, <4>2 DEF IInv, AnswerMatchesState
    <3>3. QED
      BY <3>1, <3>2
  <2>6. PersistBeforeRelease'
    BY <1>2 DEF IInv, TypeOK, PersistBeforeRelease, LiveOwnership,
                AnswerMatchesState, AbsentIsClean, CloseRun, ToClose,
                Forgotten, Settled, Answer
  <2>7. OverdueNeverAllowed'
    BY <1>2 DEF IInv, TypeOK, OverdueNeverAllowed, OverdueUndecided,
                AnswerMatchesState, LiveOwnership, AbsentIsClean, CloseRun,
                ToClose, Forgotten, Settled, Answer
  <2>8. BoundIsClaimed'
    BY <1>2 DEF IInv, TypeOK, BoundIsClaimed, AbsentIsClean, LiveOwnership,
                CloseRun, ToClose, Forgotten, Settled, Answer
  <2>9. SingleUse'
    BY <1>2 DEF IInv, TypeOK, SingleUse, BoundIsClaimed, AbsentIsClean,
                CloseRun, ToClose, Forgotten, Settled, Answer
  <2>10. UnansweredIsOpen'
    BY <1>2 DEF IInv, TypeOK, UnansweredIsOpen, BoundIsClaimed,
                AbsentIsClean, LiveOwnership, CloseRun, ToClose, Forgotten,
                Settled, Answer
  <2>11. QED
    BY <2>1, <2>2, <2>3, <2>4, <2>5, <2>6, <2>7, <2>8, <2>9, <2>10 DEF IInv
<1>3. ASSUME NEW r \in Runs, NEW k \in Keys, NEW a \in Approvals, Register(r, k, a)
      PROVE  IInv'
  <2>1. (ResolvingIsInflight /\ PersistBeforeRelease /\ OverdueNeverAllowed)'
    BY <1>3 DEF IInv, Register, ResolvingIsInflight, PersistBeforeRelease,
                OverdueNeverAllowed
  <2>2. AbsentIsClean'
    BY <1>3 DEF IInv, TypeOK, AbsentIsClean, LiveOwnership,
                OverdueUndecided, Register, NextApproval, IsFirst, Bucket,
                WaitingCallbacks
  <2>3. LiveOwnership'
    BY <1>3 DEF IInv, TypeOK, LiveOwnership, ResolvingIsInflight,
                AbsentIsClean, Register, NextApproval, IsFirst, Bucket,
                WaitingCallbacks
  <2>4. OverdueUndecided'
    BY <1>3 DEF IInv, TypeOK, OverdueUndecided, LiveOwnership,
                AbsentIsClean, Register, NextApproval, IsFirst, Bucket,
                WaitingCallbacks
  <2>5. AnswerMatchesState'
    BY <1>3 DEF IInv, TypeOK, ResolvingIsInflight, AnswerMatchesState,
                LiveOwnership, AbsentIsClean, Register, NextApproval,
                IsFirst, Bucket, WaitingCallbacks
  <2>6. BoundIsClaimed'
    BY <1>3 DEF IInv, TypeOK, BoundIsClaimed, AbsentIsClean, LiveOwnership,
                Register, NextApproval, IsFirst, Bucket, WaitingCallbacks
  <2>7. SingleUse'
    BY <1>3 DEF IInv, TypeOK, SingleUse, BoundIsClaimed, AbsentIsClean,
                Register, NextApproval, IsFirst, Bucket, WaitingCallbacks
  <2>8. UnansweredIsOpen'
    BY <1>3 DEF IInv, TypeOK, UnansweredIsOpen, BoundIsClaimed,
                AbsentIsClean, LiveOwnership, Register, NextApproval,
                IsFirst, Bucket, WaitingCallbacks
  <2>9. QED
    BY <2>1, <2>2, <2>3, <2>4, <2>5, <2>6, <2>7, <2>8 DEF IInv
<1>4. ASSUME NEW r \in Runs, NEW k \in Keys, NEW c \in Callbacks, AwaitDecision(c, r, k)
      PROVE  IInv'
  <2>1. (ResolvingIsInflight /\ LiveOwnership /\ OverdueUndecided /\
         AnswerMatchesState /\ PersistBeforeRelease /\ OverdueNeverAllowed)'
    BY <1>4 DEF IInv, AwaitDecision, ResolvingIsInflight, LiveOwnership,
                OverdueUndecided, AnswerMatchesState, PersistBeforeRelease,
                OverdueNeverAllowed
  <2>2. AbsentIsClean'
    BY <1>4 DEF IInv, TypeOK, AbsentIsClean, LiveOwnership,
                OverdueUndecided, AwaitDecision, NextCallback, IsFirst,
                HoldsToken, Claimable
  <2>3. BoundIsClaimed'
    BY <1>4 DEF IInv, TypeOK, BoundIsClaimed, AbsentIsClean, LiveOwnership,
                AwaitDecision, NextCallback, IsFirst, HoldsToken, Claimable
  <2>4. SingleUse'
    BY <1>4 DEF IInv, TypeOK, SingleUse, BoundIsClaimed, AbsentIsClean,
                AwaitDecision, NextCallback, IsFirst, HoldsToken, Claimable
  <2>5. UnansweredIsOpen'
    BY <1>4 DEF IInv, TypeOK, UnansweredIsOpen, BoundIsClaimed,
                AbsentIsClean, LiveOwnership, AwaitDecision, NextCallback,
                IsFirst, HoldsToken, Claimable
  <2>6. QED
    BY <2>1, <2>2, <2>3, <2>4, <2>5 DEF IInv
<1>5. ASSUME NEW r \in Runs, NEW c \in Callbacks, NEW a \in Approvals, AwaitRegisteredDecision(c, r, a)
      PROVE  IInv'
  <2>1. (ResolvingIsInflight /\ LiveOwnership /\ OverdueUndecided /\
         AnswerMatchesState /\ PersistBeforeRelease /\ OverdueNeverAllowed)'
    BY <1>5 DEF IInv, AwaitRegisteredDecision, ResolvingIsInflight,
                LiveOwnership, OverdueUndecided, AnswerMatchesState,
                PersistBeforeRelease, OverdueNeverAllowed
  <2>2. AbsentIsClean'
    BY <1>5 DEF IInv, TypeOK, AbsentIsClean, LiveOwnership,
                OverdueUndecided, AwaitRegisteredDecision, NextCallback,
                IsFirst, HoldsToken, ClaimsById
  <2>3. BoundIsClaimed'
    BY <1>5 DEF IInv, TypeOK, BoundIsClaimed, AbsentIsClean, LiveOwnership,
                AwaitRegisteredDecision, NextCallback, IsFirst, HoldsToken,
                ClaimsById
  <2>4. SingleUse'
    BY <1>5 DEF IInv, TypeOK, SingleUse, BoundIsClaimed, AbsentIsClean,
                AwaitRegisteredDecision, NextCallback, IsFirst, HoldsToken,
                ClaimsById
  <2>5. UnansweredIsOpen'
    BY <1>5 DEF IInv, TypeOK, UnansweredIsOpen, BoundIsClaimed,
                AbsentIsClean, LiveOwnership, AwaitRegisteredDecision,
                NextCallback, IsFirst, HoldsToken, ClaimsById
  <2>6. QED
    BY <2>1, <2>2, <2>3, <2>4, <2>5 DEF IInv
<1>6. ASSUME NEW c \in Callbacks, CallbackTimeout(c)
      PROVE  IInv'
  <2>1. (ResolvingIsInflight /\ AbsentIsClean /\ LiveOwnership /\
         OverdueUndecided /\ AnswerMatchesState /\ PersistBeforeRelease /\
         OverdueNeverAllowed)'
    BY <1>6 DEF IInv, CallbackTimeout, ResolvingIsInflight, AbsentIsClean,
                LiveOwnership, OverdueUndecided, AnswerMatchesState,
                PersistBeforeRelease, OverdueNeverAllowed
  <2>2. BoundIsClaimed'
    BY <1>6 DEF IInv, TypeOK, BoundIsClaimed, AbsentIsClean, LiveOwnership,
                CallbackTimeout
  <2>3. SingleUse'
    BY <1>6 DEF IInv, TypeOK, SingleUse, BoundIsClaimed, AbsentIsClean,
                CallbackTimeout
  <2>4. UnansweredIsOpen'
    BY <1>6 DEF IInv, TypeOK, UnansweredIsOpen, BoundIsClaimed,
                AbsentIsClean, LiveOwnership, CallbackTimeout
  <2>5. QED
    BY <2>1, <2>2, <2>3, <2>4 DEF IInv
<1>7. ASSUME NEW a \in Approvals, DeadlinePasses(a)
      PROVE  IInv'
  <2>1. (ResolvingIsInflight /\ LiveOwnership /\ AnswerMatchesState /\
         PersistBeforeRelease /\ BoundIsClaimed /\ SingleUse /\
         UnansweredIsOpen)'
    BY <1>7 DEF IInv, DeadlinePasses, ResolvingIsInflight, LiveOwnership,
                AnswerMatchesState, PersistBeforeRelease, BoundIsClaimed,
                SingleUse, UnansweredIsOpen
  <2>2. AbsentIsClean'
    BY <1>7 DEF IInv, TypeOK, AbsentIsClean, LiveOwnership,
                OverdueUndecided, DeadlinePasses
  <2>3. OverdueUndecided'
    BY <1>7 DEF IInv, TypeOK, OverdueUndecided, LiveOwnership,
                AbsentIsClean, DeadlinePasses
  <2>4. OverdueNeverAllowed'
    BY <1>7 DEF IInv, TypeOK, OverdueNeverAllowed, OverdueUndecided,
                AnswerMatchesState, LiveOwnership, AbsentIsClean,
                DeadlinePasses
  <2>5. QED
    BY <2>1, <2>2, <2>3, <2>4 DEF IInv
<1>8. ASSUME NEW a \in Approvals, Expire(a)
      PROVE  IInv'
  <2>1. (ResolvingIsInflight /\ SingleUse)'
    BY <1>8 DEF IInv, Expire, ResolvingIsInflight, SingleUse
  <2>2. AbsentIsClean'
    BY <1>8 DEF IInv, TypeOK, AbsentIsClean, LiveOwnership,
                OverdueUndecided, Expire, Finish, Seal, Settled, Answer
  <2>3. LiveOwnership'
    BY <1>8 DEF IInv, TypeOK, LiveOwnership, ResolvingIsInflight,
                AbsentIsClean, Expire, Finish, Seal, Settled, Answer
  <2>4. OverdueUndecided'
    BY <1>8 DEF IInv, TypeOK, OverdueUndecided, LiveOwnership,
                AbsentIsClean, Expire, Finish, Seal, Settled, Answer
  <2>5. AnswerMatchesState'
    BY <1>8 DEF IInv, TypeOK, ResolvingIsInflight, AnswerMatchesState,
                LiveOwnership, AbsentIsClean, Expire, Finish, Seal, Settled,
                Answer
  <2>6. PersistBeforeRelease'
    BY <1>8 DEF IInv, TypeOK, PersistBeforeRelease, LiveOwnership,
                AnswerMatchesState, AbsentIsClean, Expire, Finish, Seal,
                Settled, Answer
  <2>7. OverdueNeverAllowed'
    BY <1>8 DEF IInv, TypeOK, OverdueNeverAllowed, OverdueUndecided,
                AnswerMatchesState, LiveOwnership, AbsentIsClean, Expire,
                Finish, Seal, Settled, Answer
  <2>8. BoundIsClaimed'
    BY <1>8 DEF IInv, TypeOK, BoundIsClaimed, AbsentIsClean, LiveOwnership,
                Expire, Finish, Seal, Settled, Answer
  <2>9. UnansweredIsOpen'
    BY <1>8 DEF IInv, TypeOK, UnansweredIsOpen, BoundIsClaimed,
                AbsentIsClean, LiveOwnership, Expire, Finish, Seal, Settled,
                Answer
  <2>10. QED
    BY <2>1, <2>2, <2>3, <2>4, <2>5, <2>6, <2>7, <2>8, <2>9 DEF IInv
<1>9. ASSUME NEW a \in Approvals, NEW v \in Verdicts, Decide(a, v)
      PROVE  IInv'
  <2>1. (ResolvingIsInflight /\ SingleUse)'
    BY <1>9 DEF IInv, Decide, ResolvingIsInflight, SingleUse
  <2>2. AbsentIsClean'
    BY <1>9 DEF IInv, TypeOK, AbsentIsClean, LiveOwnership,
                OverdueUndecided, Decide, InTime, Finish, Seal, Settled,
                Answer
  <2>3. LiveOwnership'
    BY <1>9 DEF IInv, TypeOK, LiveOwnership, ResolvingIsInflight,
                AbsentIsClean, Decide, InTime, Finish, Seal, Settled, Answer
  <2>4. OverdueUndecided'
    BY <1>9 DEF IInv, TypeOK, OverdueUndecided, LiveOwnership,
                AbsentIsClean, Decide, InTime, Finish, Seal, Settled, Answer
  <2>5. AnswerMatchesState'
    BY <1>9 DEF IInv, TypeOK, ResolvingIsInflight, AnswerMatchesState,
                LiveOwnership, AbsentIsClean, Decide, InTime, Finish, Seal,
                Settled, Answer
  <2>6. PersistBeforeRelease'
    BY <1>9 DEF IInv, TypeOK, PersistBeforeRelease, LiveOwnership,
                AnswerMatchesState, AbsentIsClean, Decide, InTime, Finish,
                Seal, Settled, Answer
  <2>7. OverdueNeverAllowed'
    BY <1>9 DEF IInv, TypeOK, OverdueNeverAllowed, OverdueUndecided,
                AnswerMatchesState, LiveOwnership, AbsentIsClean, Decide,
                InTime, Finish, Seal, Settled, Answer
  <2>8. BoundIsClaimed'
    BY <1>9 DEF IInv, TypeOK, BoundIsClaimed, AbsentIsClean, LiveOwnership,
                Decide, InTime, Finish, Seal, Settled, Answer
  <2>9. UnansweredIsOpen'
    BY <1>9 DEF IInv, TypeOK, UnansweredIsOpen, BoundIsClaimed,
                AbsentIsClean, LiveOwnership, Decide, InTime, Finish, Seal,
                Settled, Answer
  <2>10. QED
    BY <2>1, <2>2, <2>3, <2>4, <2>5, <2>6, <2>7, <2>8, <2>9 DEF IInv
<1>10. ASSUME NEW a \in Approvals, NEW v \in Verdicts, DecideAfter(a, v)
      PROVE  IInv'
  <2>1. (PersistBeforeRelease /\ OverdueNeverAllowed /\ SingleUse /\
         UnansweredIsOpen)'
    BY <1>10 DEF IInv, DecideAfter, PersistBeforeRelease,
                 OverdueNeverAllowed, SingleUse, UnansweredIsOpen
  <2>2. ResolvingIsInflight'
    BY <1>10 DEF IInv, TypeOK, ResolvingIsInflight, DecideAfter, InTime,
                 Unresolved
  <2>3. AbsentIsClean'
    BY <1>10 DEF IInv, TypeOK, AbsentIsClean, LiveOwnership,
                 OverdueUndecided, DecideAfter, InTime, Unresolved
  <2>4. LiveOwnership'
    BY <1>10 DEF IInv, TypeOK, LiveOwnership, ResolvingIsInflight,
                 AbsentIsClean, DecideAfter, InTime, Unresolved
  <2>5. OverdueUndecided'
    BY <1>10 DEF IInv, TypeOK, OverdueUndecided, LiveOwnership,
                 AbsentIsClean, DecideAfter, InTime, Unresolved
  <2>6. AnswerMatchesState'
    BY <1>10 DEF IInv, TypeOK, ResolvingIsInflight, AnswerMatchesState,
                 LiveOwnership, AbsentIsClean, DecideAfter, InTime,
                 Unresolved
  <2>7. BoundIsClaimed'
    BY <1>10 DEF IInv, TypeOK, BoundIsClaimed, AbsentIsClean, LiveOwnership,
                 DecideAfter, InTime, Unresolved
  <2>8. QED
    BY <2>1, <2>2, <2>3, <2>4, <2>5, <2>6, <2>7 DEF IInv
<1>11. ASSUME NEW a \in Approvals, PersistVerdict(a)
      PROVE  IInv'
  <2>1. (ResolvingIsInflight /\ LiveOwnership /\ OverdueUndecided /\
         AnswerMatchesState /\ OverdueNeverAllowed /\ BoundIsClaimed /\
         SingleUse /\ UnansweredIsOpen)'
    BY <1>11 DEF IInv, PersistVerdict, ResolvingIsInflight, LiveOwnership,
                 OverdueUndecided, AnswerMatchesState, OverdueNeverAllowed,
                 BoundIsClaimed, SingleUse, UnansweredIsOpen
  <2>2. AbsentIsClean'
    BY <1>11 DEF IInv, TypeOK, AbsentIsClean, LiveOwnership,
                 OverdueUndecided, PersistVerdict
  <2>3. PersistBeforeRelease'
    BY <1>11 DEF IInv, TypeOK, PersistBeforeRelease, LiveOwnership,
                 AnswerMatchesState, AbsentIsClean, PersistVerdict
  <2>4. QED
    BY <2>1, <2>2, <2>3 DEF IInv
<1>12. ASSUME NEW a \in Approvals, ReleaseVerdict(a)
      PROVE  IInv'
  <2>1. (SingleUse)'
    BY <1>12 DEF IInv, ReleaseVerdict, SingleUse
  <2>2. ResolvingIsInflight'
    BY <1>12 DEF IInv, TypeOK, ResolvingIsInflight, ReleaseVerdict,
                 Persisted, EndDecideAfter, Seal, Settled, Answer
  <2>3. AbsentIsClean'
    BY <1>12 DEF IInv, TypeOK, AbsentIsClean, LiveOwnership,
                 OverdueUndecided, ReleaseVerdict, Persisted,
                 EndDecideAfter, Seal, Settled, Answer
  <2>4. LiveOwnership'
    BY <1>12 DEF IInv, TypeOK, LiveOwnership, ResolvingIsInflight,
                 AbsentIsClean, ReleaseVerdict, Persisted, EndDecideAfter,
                 Seal, Settled, Answer
  <2>5. OverdueUndecided'
    BY <1>12 DEF IInv, TypeOK, OverdueUndecided, LiveOwnership,
                 AbsentIsClean, ReleaseVerdict, Persisted, EndDecideAfter,
                 Seal, Settled, Answer
  <2>6. AnswerMatchesState'
    BY <1>12 DEF IInv, TypeOK, ResolvingIsInflight, AnswerMatchesState,
                 LiveOwnership, AbsentIsClean, ReleaseVerdict, Persisted,
                 EndDecideAfter, Seal, Settled, Answer
  <2>7. PersistBeforeRelease'
    BY <1>12 DEF IInv, TypeOK, PersistBeforeRelease, LiveOwnership,
                 AnswerMatchesState, AbsentIsClean, ReleaseVerdict,
                 Persisted, EndDecideAfter, Seal, Settled, Answer
  <2>8. OverdueNeverAllowed'
    BY <1>12 DEF IInv, TypeOK, OverdueNeverAllowed, OverdueUndecided,
                 AnswerMatchesState, LiveOwnership, AbsentIsClean,
                 ReleaseVerdict, Persisted, EndDecideAfter, Seal, Settled,
                 Answer
  <2>9. BoundIsClaimed'
    BY <1>12 DEF IInv, TypeOK, BoundIsClaimed, AbsentIsClean, LiveOwnership,
                 ReleaseVerdict, Persisted, EndDecideAfter, Seal, Settled,
                 Answer
  <2>10. UnansweredIsOpen'
    BY <1>12 DEF IInv, TypeOK, UnansweredIsOpen, BoundIsClaimed,
                 AbsentIsClean, LiveOwnership, ReleaseVerdict, Persisted,
                 EndDecideAfter, Seal, Settled, Answer
  <2>11. QED
    BY <2>1, <2>2, <2>3, <2>4, <2>5, <2>6, <2>7, <2>8, <2>9, <2>10 DEF IInv
<1>13. ASSUME NEW a \in Approvals, PersistFails(a)
      PROVE  IInv'
  <2>1. (SingleUse)'
    BY <1>13 DEF IInv, PersistFails, SingleUse
  <2>2. ResolvingIsInflight'
    BY <1>13 DEF IInv, TypeOK, ResolvingIsInflight, PersistFails,
                 EndDecideAfter, Seal, Settled, Answer
  <2>3. AbsentIsClean'
    BY <1>13 DEF IInv, TypeOK, AbsentIsClean, LiveOwnership,
                 OverdueUndecided, PersistFails, EndDecideAfter, Seal,
                 Settled, Answer
  <2>4. LiveOwnership'
    BY <1>13 DEF IInv, TypeOK, LiveOwnership, ResolvingIsInflight,
                 AbsentIsClean, PersistFails, EndDecideAfter, Seal, Settled,
                 Answer
  <2>5. OverdueUndecided'
    BY <1>13 DEF IInv, TypeOK, OverdueUndecided, LiveOwnership,
                 AbsentIsClean, PersistFails, EndDecideAfter, Seal, Settled,
                 Answer
  <2>6. AnswerMatchesState'
    BY <1>13 DEF IInv, TypeOK, ResolvingIsInflight, AnswerMatchesState,
                 LiveOwnership, AbsentIsClean, PersistFails, EndDecideAfter,
                 Seal, Settled, Answer
  <2>7. PersistBeforeRelease'
    BY <1>13 DEF IInv, TypeOK, PersistBeforeRelease, LiveOwnership,
                 AnswerMatchesState, AbsentIsClean, PersistFails,
                 EndDecideAfter, Seal, Settled, Answer
  <2>8. OverdueNeverAllowed'
    BY <1>13 DEF IInv, TypeOK, OverdueNeverAllowed, OverdueUndecided,
                 AnswerMatchesState, LiveOwnership, AbsentIsClean,
                 PersistFails, EndDecideAfter, Seal, Settled, Answer
  <2>9. BoundIsClaimed'
    BY <1>13 DEF IInv, TypeOK, BoundIsClaimed, AbsentIsClean, LiveOwnership,
                 PersistFails, EndDecideAfter, Seal, Settled, Answer
  <2>10. UnansweredIsOpen'
    BY <1>13 DEF IInv, TypeOK, UnansweredIsOpen, BoundIsClaimed,
                 AbsentIsClean, LiveOwnership, PersistFails, EndDecideAfter,
                 Seal, Settled, Answer
  <2>11. QED
    BY <2>1, <2>2, <2>3, <2>4, <2>5, <2>6, <2>7, <2>8, <2>9, <2>10 DEF IInv
<1>14. CASE UNCHANGED vars
  BY <1>14 DEF IInv, vars, TypeOK, ResolvingIsInflight, AbsentIsClean, LiveOwnership, OverdueUndecided, AnswerMatchesState, PersistBeforeRelease, OverdueNeverAllowed, BoundIsClaimed, SingleUse, UnansweredIsOpen
<1>15. QED
  BY <1>1, <1>2, <1>3, <1>4, <1>5, <1>6, <1>7, <1>8, <1>9, <1>10, <1>11, <1>12, <1>13, <1>14 DEF Next

\* The inductive invariant holds in every reachable state.
LEMMA InvHolds == Spec => []IInv
<1>1. Init => IInv
  <2>1. Init => TypeOK
    BY DEF Init, TypeOK, ApprovalStates
  <2>2. Init => /\ ResolvingIsInflight /\ AbsentIsClean /\ LiveOwnership
                /\ OverdueUndecided
    BY DEF Init, ResolvingIsInflight, AbsentIsClean, LiveOwnership, OverdueUndecided
  <2>3. Init => /\ AnswerMatchesState /\ PersistBeforeRelease /\ OverdueNeverAllowed
    BY DEF Init, AnswerMatchesState, PersistBeforeRelease, OverdueNeverAllowed
  <2>4. Init => BoundIsClaimed /\ SingleUse /\ UnansweredIsOpen
    BY DEF Init, BoundIsClaimed, SingleUse, UnansweredIsOpen
  <2>5. QED
    BY <2>1, <2>2, <2>3, <2>4 DEF IInv
<1>2. QED
  BY <1>1, InvStep, PTL DEF Spec

-----------------------------------------------------------------------------
(* What follows from it                                                    *)

\* An approval answers at most one provider callback.
THEOREM ApprovalIsSingleUse == Spec => []SingleUse
<1>1. IInv => SingleUse
  BY DEF IInv
<1>2. QED
  BY <1>1, InvHolds, PTL

\* A provider is released only after the consent is durable.
THEOREM DurableBeforeRelease == Spec => []PersistBeforeRelease
<1>1. IInv => PersistBeforeRelease
  BY DEF IInv
<1>2. QED
  BY <1>1, InvHolds, PTL

\* The provider's answer agrees with the state the workbench shows.
THEOREM AnswerIsTheState == Spec => []AnswerMatchesState
<1>1. IInv => AnswerMatchesState
  BY DEF IInv
<1>2. QED
  BY <1>1, InvHolds, PTL

\* Consent given after the deadline releases nobody.
THEOREM LateConsentIsWorthless == Spec => []OverdueNeverAllowed
<1>1. IInv => OverdueNeverAllowed
  BY DEF IInv
<1>2. QED
  BY <1>1, InvHolds, PTL

\* What a provider is told is a durable consent, in time, for one call, and the
\* state that every reader sees.
THEOREM ConsentIsRequired == Spec => []ReleaseIsConsented
<1>1. IInv => ReleaseIsConsented
  BY DEF IInv, ReleaseIsConsented
<1>2. QED
  BY <1>1, InvHolds, PTL

\* An approval that is not live is settled: no step answers it or changes its
\* state, except the registration that creates it.
LEMMA SettledIsInert ==
    ASSUME IInv, [Next]_vars, NEW a \in Approvals, a \notin live
    PROVE  /\ promise'[a] = promise[a]
           /\ state[a] # "absent" => state'[a] = state[a]
<1> DEFINE Inert == /\ promise'[a] = promise[a]
                    /\ state[a] # "absent" => state'[a] = state[a]
<1> SUFFICES Inert
  OBVIOUS
<1> USE DEF IInv, TypeOK
<1>0. \A b \in Approvals : inflight[b] # "none" /\ state[b] = inflight[b] => b \in live
  BY DEF LiveOwnership, Verdicts, CloseStates
<1>1. ASSUME NEW r \in Runs, NEW s \in CloseStates, NEW next \in {"draining", "ended"},
             CloseRun(r, s, next)
      PROVE  Inert
  BY <1>1 DEF CloseRun, ToClose
<1>2. ASSUME NEW r \in Runs, NEW k \in Keys, NEW b \in Approvals, Register(r, k, b)
      PROVE  Inert
  BY <1>2 DEF Register, NextApproval, IsFirst
<1>3. ASSUME NEW b \in Approvals, Expire(b) PROVE Inert
  BY <1>3 DEF Expire, Finish
<1>4. ASSUME NEW b \in Approvals, NEW v \in Verdicts, Decide(b, v) PROVE Inert
  BY <1>4 DEF Decide, InTime, Finish
<1>5. ASSUME NEW b \in Approvals, NEW v \in Verdicts, DecideAfter(b, v) PROVE Inert
  BY <1>5 DEF DecideAfter, InTime
<1>6. ASSUME NEW b \in Approvals, ReleaseVerdict(b) PROVE Inert
  BY <1>0, <1>6 DEF ReleaseVerdict
<1>7. ASSUME NEW b \in Approvals, PersistFails(b) PROVE Inert
  BY <1>0, <1>7 DEF PersistFails
<1>8. ASSUME UNCHANGED <<promise, state>> PROVE Inert
  BY <1>8
<1>9. QED
  BY <1>1, <1>2, <1>3, <1>4, <1>5, <1>6, <1>7, <1>8
     DEF Next, vars, approvalVars, CreateRunToken, AwaitDecision,
         AwaitRegisteredDecision, CallbackTimeout, DeadlinePasses, PersistVerdict

\* Only an unanswered callback becomes bound, and a bound one keeps its approval.
LEMMA BindingIsKept ==
    ASSUME IInv, [Next]_vars, NEW c \in Callbacks, cbStatus[c] \notin {"idle", "waiting"}
    PROVE  cbStatus'[c] = cbStatus[c] /\ cbApproval'[c] = cbApproval[c]
<1> DEFINE Kept == cbStatus'[c] = cbStatus[c] /\ cbApproval'[c] = cbApproval[c]
<1> USE DEF IInv, TypeOK
<1>1. ASSUME NEW r \in Runs, NEW s \in CloseStates, NEW next \in {"draining", "ended"},
             CloseRun(r, s, next)
      PROVE  Kept
  BY <1>1 DEF CloseRun
<1>2. ASSUME NEW r \in Runs, NEW k \in Keys, NEW a \in Approvals, Register(r, k, a)
      PROVE  Kept
  BY <1>2 DEF Register, callbackVars, Bucket, WaitingCallbacks, IsFirst
<1>3. ASSUME NEW r \in Runs, NEW k \in Keys, NEW d \in Callbacks, AwaitDecision(d, r, k)
      PROVE  Kept
  BY <1>3 DEF AwaitDecision, NextCallback, IsFirst
<1>4. ASSUME NEW r \in Runs, NEW d \in Callbacks, NEW a \in Approvals,
             AwaitRegisteredDecision(d, r, a)
      PROVE  Kept
  BY <1>4 DEF AwaitRegisteredDecision, NextCallback, IsFirst
<1>5. ASSUME NEW d \in Callbacks, CallbackTimeout(d) PROVE Kept
  BY <1>5 DEF CallbackTimeout
<1>6. ASSUME UNCHANGED callbackVars PROVE Kept
  BY <1>6 DEF callbackVars
<1>7. QED
  BY <1>1, <1>2, <1>3, <1>4, <1>5, <1>6
     DEF Next, vars, CreateRunToken, DeadlinePasses, Expire, Decide, DecideAfter,
         PersistVerdict, ReleaseVerdict, PersistFails

\* After closeRun no callback of the run is released: what it may hold is no
\* longer live, and an answer can only change while the approval is live.
THEOREM ClosedRunIsNeverReleased == Spec => NoReleaseAfterClose
<1>1. ASSUME IInv, [Next]_vars
      PROVE  [\A c \in Callbacks, r \in Runs :
                 cbRun[c] = r /\ phase[r] \in {"draining", "ended"} /\ Outcome(c) # "allow"
                     => Outcome(c)' # "allow"]_vars
  <2> SUFFICES ASSUME NEW c \in Callbacks, NEW r \in Runs, cbRun[c] = r,
                      phase[r] \in {"draining", "ended"}, Outcome(c) # "allow"
               PROVE  Outcome(c)' # "allow"
    OBVIOUS
  <2>1. cbStatus[c] \notin {"idle", "waiting"}
    BY <1>1, NoneIsFresh DEF IInv, UnansweredIsOpen
  <2>2. cbStatus'[c] = cbStatus[c] /\ cbApproval'[c] = cbApproval[c]
    BY <1>1, <2>1, BindingIsKept
  <2>3. CASE cbStatus[c] = "bound"
    <3>1. cbApproval[c] \in Approvals /\ cbApproval[c] \notin live
      BY <1>1, <2>3 DEF IInv, BoundIsClaimed, UnansweredIsOpen
    <3>2. promise'[cbApproval[c]] = promise[cbApproval[c]]
      BY <1>1, <3>1, SettledIsInert
    <3>3. QED
      BY <2>2, <2>3, <3>2 DEF Outcome
  <2>4. CASE cbStatus[c] # "bound"
    BY <2>1, <2>2, <2>4 DEF Outcome
  <2>5. QED
    BY <2>3, <2>4
<1>2. QED
  BY <1>1, InvHolds, PTL DEF Spec, NoReleaseAfterClose

\* Only a pending approval becomes allowed.
LEMMA AllowedFromPending ==
    ASSUME IInv, [Next]_vars, NEW a \in Approvals, state'[a] = "allowed_once",
           state[a] # "allowed_once"
    PROVE  state[a] = "pending"
<1> USE DEF IInv, TypeOK
<1>1. ASSUME NEW r \in Runs, NEW s \in CloseStates, NEW next \in {"draining", "ended"},
             CloseRun(r, s, next)
      PROVE  FALSE
  BY <1>1 DEF CloseRun, CloseStates
<1>2. ASSUME NEW r \in Runs, NEW k \in Keys, NEW b \in Approvals, Register(r, k, b)
      PROVE  FALSE
  BY <1>2 DEF Register
<1>3. ASSUME NEW b \in Approvals, Expire(b) PROVE FALSE
  BY <1>3 DEF Expire, Finish
<1>4. ASSUME NEW b \in Approvals, NEW v \in Verdicts, Decide(b, v)
      PROVE  state[a] = "pending"
  BY <1>4 DEF Decide, Finish
<1>5. ASSUME NEW b \in Approvals, NEW v \in Verdicts, DecideAfter(b, v)
      PROVE  state[a] = "pending"
  BY <1>5 DEF DecideAfter, Unresolved
<1>6. ASSUME NEW b \in Approvals, PersistFails(b) PROVE FALSE
  BY <1>6 DEF PersistFails
<1>7. ASSUME UNCHANGED state PROVE FALSE
  BY <1>7
<1>8. QED
  BY <1>1, <1>2, <1>3, <1>4, <1>5, <1>6, <1>7
     DEF Next, vars, approvalVars, CreateRunToken, AwaitDecision,
         AwaitRegisteredDecision, CallbackTimeout, DeadlinePasses, PersistVerdict,
         ReleaseVerdict

\* A denied, expired or closed approval is never allowed afterwards, and a
\* released one keeps the state that released it.
THEOREM VerdictsAreFinal == Spec => VerdictIsFinal
<1>1. ASSUME IInv, [Next]_vars
      PROVE  [\A a \in Approvals :
                 /\ state[a] \notin {"absent", "pending", "allowed_once"}
                        => state'[a] # "allowed_once"
                 /\ promise[a] = "allow" => state'[a] = "allowed_once"]_vars
  <2> SUFFICES ASSUME NEW a \in Approvals
               PROVE  /\ state[a] \notin {"absent", "pending", "allowed_once"}
                             => state'[a] # "allowed_once"
                      /\ promise[a] = "allow" => state'[a] = "allowed_once"
    OBVIOUS
  <2>1. state[a] \notin {"absent", "pending", "allowed_once"} => state'[a] # "allowed_once"
    BY <1>1, AllowedFromPending
  <2>2. ASSUME promise[a] = "allow" PROVE state'[a] = "allowed_once"
    <3>1. state[a] # "absent"
      BY <1>1, <2>2 DEF IInv, AbsentIsClean
    <3>2. a \notin live /\ state[a] = "allowed_once"
      BY <1>1, <2>2, <3>1 DEF IInv, AnswerMatchesState, Answer
    <3>3. QED
      BY <1>1, <3>1, <3>2, SettledIsInert
  <2>3. QED
    BY <2>1, <2>2
<1>2. QED
  BY <1>1, InvHolds, PTL DEF Spec, VerdictIsFinal

-----------------------------------------------------------------------------
(* What a callback is paired with                                          *)

\* An approval that exists stays, and stays of its own run and call.
LEMMA ApprovalIsKept ==
    ASSUME IInv, [Next]_vars, NEW a \in Approvals, state[a] # "absent"
    PROVE  state'[a] # "absent" /\ owner'[a] = owner[a] /\ key'[a] = key[a]
<1> DEFINE Kept == state'[a] # "absent" /\ owner'[a] = owner[a] /\ key'[a] = key[a]
<1> USE DEF IInv, TypeOK
<1>1. ASSUME NEW r \in Runs, NEW s \in CloseStates, NEW next \in {"draining", "ended"},
             CloseRun(r, s, next)
      PROVE  Kept
  BY <1>1 DEF CloseRun, CloseStates
<1>2. ASSUME NEW r \in Runs, NEW k \in Keys, NEW b \in Approvals, Register(r, k, b)
      PROVE  Kept
  BY <1>2 DEF Register, NextApproval, IsFirst
<1>3. ASSUME NEW b \in Approvals, Expire(b) PROVE Kept
  BY <1>3 DEF Expire, Finish
<1>4. ASSUME NEW b \in Approvals, NEW v \in Verdicts, Decide(b, v) \/ DecideAfter(b, v) PROVE Kept
  BY <1>4 DEF Decide, DecideAfter, Finish, Verdicts
<1>5. ASSUME NEW b \in Approvals, PersistFails(b) PROVE Kept
  BY <1>5 DEF PersistFails
<1>6. ASSUME UNCHANGED <<state, owner, key>> PROVE Kept
  BY <1>6
<1>7. QED
  BY <1>1, <1>2, <1>3, <1>4, <1>5, <1>6
     DEF Next, vars, approvalVars, CreateRunToken, AwaitDecision, AwaitRegisteredDecision,
         CallbackTimeout, DeadlinePasses, PersistVerdict, ReleaseVerdict

\* A callback that is not idle stays what it was made for.
LEMMA CallIsKept ==
    ASSUME IInv, [Next]_vars, NEW c \in Callbacks, cbStatus[c] # "idle"
    PROVE  cbStatus'[c] # "idle" /\ cbRun'[c] = cbRun[c] /\ cbKey'[c] = cbKey[c]
<1> DEFINE Kept == cbStatus'[c] # "idle" /\ cbRun'[c] = cbRun[c] /\ cbKey'[c] = cbKey[c]
<1> USE DEF IInv, TypeOK
<1>1. ASSUME NEW r \in Runs, NEW s \in CloseStates, NEW next \in {"draining", "ended"},
             CloseRun(r, s, next)
      PROVE  Kept
  BY <1>1 DEF CloseRun
<1>2. ASSUME NEW r \in Runs, NEW k \in Keys, NEW a \in Approvals, Register(r, k, a)
      PROVE  Kept
  BY <1>2 DEF Register, callbackVars
<1>3. ASSUME NEW r \in Runs, NEW k \in Keys, NEW d \in Callbacks, AwaitDecision(d, r, k)
      PROVE  Kept
  BY <1>3 DEF AwaitDecision, NextCallback, IsFirst
<1>4. ASSUME NEW r \in Runs, NEW d \in Callbacks, NEW a \in Approvals,
             AwaitRegisteredDecision(d, r, a)
      PROVE  Kept
  BY <1>4 DEF AwaitRegisteredDecision, NextCallback, IsFirst
<1>5. ASSUME NEW d \in Callbacks, CallbackTimeout(d) PROVE Kept
  BY <1>5 DEF CallbackTimeout
<1>6. ASSUME UNCHANGED callbackVars PROVE Kept
  BY <1>6 DEF callbackVars
<1>7. QED
  BY <1>1, <1>2, <1>3, <1>4, <1>5, <1>6
     DEF Next, vars, CreateRunToken, DeadlinePasses, Expire, Decide, DecideAfter,
         PersistVerdict, ReleaseVerdict, PersistFails

\* An approval that a callback is given exists, and is of the callback's run and call.
LEMMA NewBinding ==
    ASSUME IInv, [Next]_vars, NEW c \in Callbacks, cbStatus[c] # "bound", cbStatus'[c] = "bound"
    PROVE  LET a == cbApproval'[c] IN
           a \in Approvals /\ state'[a] # "absent" /\ owner'[a] = cbRun'[c] /\ key'[a] = cbKey'[c]
<1> DEFINE a == cbApproval'[c]
           Own == a \in Approvals /\ state'[a] # "absent" /\ owner'[a] = cbRun'[c] /\ key'[a] = cbKey'[c]
<1> USE DEF IInv, TypeOK
<1>1. ASSUME NEW r \in Runs, NEW s \in CloseStates, NEW next \in {"draining", "ended"},
             CloseRun(r, s, next)
      PROVE  FALSE
  BY <1>1 DEF CloseRun
<1>2. ASSUME NEW r \in Runs, NEW k \in Keys, NEW b \in Approvals, Register(r, k, b)
      PROVE  Own
  <2>1. Bucket(r, k) # {} /\ a = b /\ cbRun[c] = r /\ cbKey[c] = k /\ UNCHANGED <<cbRun, cbKey>>
    BY <1>2 DEF Register, callbackVars, IsFirst, Bucket
  <2>2. state'[b] = "pending" /\ owner'[b] = r /\ key'[b] = k
    BY <1>2 DEF Register
  <2>3. QED
    BY <2>1, <2>2
<1>3. ASSUME NEW r \in Runs, NEW k \in Keys, NEW d \in Callbacks, AwaitDecision(d, r, k)
      PROVE  Own
  <2>1. d = c /\ cbRun'[c] = r /\ cbKey'[c] = k /\ UNCHANGED <<state, owner, key>>
    BY <1>3 DEF AwaitDecision
  <2>2. a \in Claimable(r, k)
    BY <1>3, <2>1 DEF AwaitDecision, IsFirst
  <2>3. QED
    BY <2>1, <2>2 DEF Claimable
<1>4. ASSUME NEW r \in Runs, NEW d \in Callbacks, NEW b \in Approvals,
             AwaitRegisteredDecision(d, r, b)
      PROVE  Own
  <2>1. /\ d = c /\ cbRun'[c] = r /\ cbKey'[c] = key[b] /\ UNCHANGED <<state, owner, key>>
        /\ state[b] # "absent"
    BY <1>4 DEF AwaitRegisteredDecision
  <2>2. a = b /\ ClaimsById(r, b)
    BY <1>4, <2>1 DEF AwaitRegisteredDecision
  <2>3. QED
    BY <2>1, <2>2 DEF ClaimsById
<1>5. ASSUME NEW d \in Callbacks, CallbackTimeout(d) PROVE FALSE
  BY <1>5 DEF CallbackTimeout
<1>6. ASSUME UNCHANGED callbackVars PROVE FALSE
  BY <1>6 DEF callbackVars
<1>7. QED
  BY <1>1, <1>2, <1>3, <1>4, <1>5, <1>6
     DEF Next, vars, CreateRunToken, DeadlinePasses, Expire, Decide, DecideAfter,
         PersistVerdict, ReleaseVerdict, PersistFails

\* A callback only ever holds an approval of its own run, tool and input, whichever
\* of the registration and the callback came first.
THEOREM CallbacksArePaired == Spec => []PairedWithOwnCall
<1>1. Init => PairedWithOwnCall
  BY DEF Init, PairedWithOwnCall
<1>2. ASSUME IInv, [Next]_vars, PairedWithOwnCall
      PROVE  PairedWithOwnCall'
  <2> SUFFICES ASSUME NEW c \in Callbacks, cbStatus'[c] = "bound"
               PROVE  LET a == cbApproval'[c] IN
                      state'[a] # "absent" /\ owner'[a] = cbRun'[c] /\ key'[a] = cbKey'[c]
    BY DEF PairedWithOwnCall
  <2>1. CASE cbStatus[c] = "bound"
    <3>1. cbApproval'[c] = cbApproval[c] /\ cbRun'[c] = cbRun[c] /\ cbKey'[c] = cbKey[c]
      BY <1>2, <2>1, BindingIsKept, CallIsKept
    <3>2. /\ cbApproval[c] \in Approvals /\ state[cbApproval[c]] # "absent"
          /\ owner[cbApproval[c]] = cbRun[c] /\ key[cbApproval[c]] = cbKey[c]
      BY <1>2, <2>1 DEF IInv, BoundIsClaimed, PairedWithOwnCall
    <3>3. QED
      BY <1>2, <3>1, <3>2, ApprovalIsKept
  <2>2. CASE cbStatus[c] # "bound"
    BY <1>2, <2>2, NewBinding
  <2>3. QED
    BY <2>1, <2>2
<1>3. QED
  BY <1>1, <1>2, InvHolds, PTL DEF Spec

-----------------------------------------------------------------------------
(* What an ended run leaves                                                *)

\* What the broker keeps is of runs whose adapter has not returned, and is claimed
\* only while it is kept.
KeptIsOwned ==
    /\ claimed \subseteq live \cup terminal
    /\ \A a \in live \cup terminal :
          state[a] # "absent" /\ owner[a] \in Runs /\ phase[owner[a]] \in {"open", "draining"}

\* Every step keeps that: a decideAfter that was suspended across the close of its
\* run finds a state it did not write, and seals nothing.
LEMMA KeptStep == IInv /\ KeptIsOwned /\ [Next]_vars => KeptIsOwned'
<1> SUFFICES ASSUME IInv, KeptIsOwned, [Next]_vars PROVE KeptIsOwned'
  OBVIOUS
<1> USE DEF IInv, TypeOK
<1>0. \A b \in Approvals : inflight[b] # "none" /\ state[b] = inflight[b] => b \in live
  BY DEF LiveOwnership, Verdicts, CloseStates
<1>1. ASSUME UNCHANGED owner, claimed' \subseteq claimed \cup live, live' \cup terminal' \subseteq live \cup terminal,
             claimed' \subseteq live' \cup terminal',
             \A a \in live \cup terminal : phase'[owner[a]] = phase[owner[a]]
      PROVE  KeptIsOwned'
  <2>1. \A a \in live \cup terminal : state'[a] # "absent"
    BY ApprovalIsKept DEF KeptIsOwned
  <2>2. QED
    BY <1>1, <2>1 DEF KeptIsOwned
<1>2. ASSUME NEW r \in Runs, CreateRunToken(r) PROVE KeptIsOwned'
  BY <1>1, <1>2 DEF CreateRunToken, approvalVars, KeptIsOwned
<1>3. ASSUME NEW r \in Runs, NEW s \in CloseStates, NEW next \in {"draining", "ended"},
             CloseRun(r, s, next)
      PROVE  KeptIsOwned'
  <2>1. /\ \A a \in live' \cup terminal' : a \in live \cup terminal /\ owner[a] # r
        /\ claimed' \subseteq live' \cup terminal' /\ UNCHANGED owner
    BY <1>3 DEF CloseRun, Forgotten, KeptIsOwned
  <2>2. \A a \in live' \cup terminal' : state'[a] # "absent" /\ phase'[owner[a]] = phase[owner[a]]
    BY <1>3, <2>1, ApprovalIsKept DEF CloseRun, KeptIsOwned
  <2>3. QED
    BY <2>1, <2>2 DEF KeptIsOwned
<1>4. ASSUME NEW r \in Runs, NEW k \in Keys, NEW a \in Approvals, Register(r, k, a)
      PROVE  KeptIsOwned'
  <2>1. /\ live' = live \cup {a} /\ terminal' = terminal /\ UNCHANGED phase
        /\ claimed' \subseteq claimed \cup {a}
        /\ state'[a] = "pending" /\ owner'[a] = r /\ phase[r] \in {"open", "draining"}
        /\ state[a] = "absent"
    BY <1>4 DEF Register, NextApproval, IsFirst
  <2>2. \A b \in live \cup terminal : state'[b] # "absent" /\ owner'[b] = owner[b]
    BY ApprovalIsKept DEF KeptIsOwned
  <2>3. QED
    BY <2>1, <2>2 DEF KeptIsOwned
<1>5. ASSUME NEW r \in Runs, NEW k \in Keys, NEW c \in Callbacks, AwaitDecision(c, r, k)
      PROVE  KeptIsOwned'
  BY <1>1, <1>5 DEF AwaitDecision, Claimable, IsFirst, KeptIsOwned
<1>6. ASSUME NEW r \in Runs, NEW c \in Callbacks, NEW a \in Approvals, AwaitRegisteredDecision(c, r, a)
      PROVE  KeptIsOwned'
  BY <1>1, <1>6 DEF AwaitRegisteredDecision, ClaimsById, KeptIsOwned
<1>7. ASSUME NEW c \in Callbacks, CallbackTimeout(c) PROVE KeptIsOwned'
  BY <1>1, <1>7 DEF CallbackTimeout, approvalVars, KeptIsOwned
<1>8. ASSUME NEW a \in live, Seal(a), UNCHANGED <<owner, phase, claimed>> PROVE KeptIsOwned'
  BY <1>1, <1>8 DEF Seal, KeptIsOwned
<1>9. ASSUME UNCHANGED <<live, terminal, owner, phase, claimed>> PROVE KeptIsOwned'
  BY <1>1, <1>9 DEF KeptIsOwned
<1>10. ASSUME NEW a \in Approvals, DeadlinePasses(a) \/ PersistVerdict(a) \/ \E v \in Verdicts : DecideAfter(a, v)
       PROVE  KeptIsOwned'
  BY <1>9, <1>10 DEF DeadlinePasses, PersistVerdict, DecideAfter
<1>11. ASSUME NEW a \in Approvals, Expire(a) \/ \E v \in Verdicts : Decide(a, v)
       PROVE  KeptIsOwned'
  BY <1>8, <1>11 DEF Expire, Decide, Finish, InTime
<1>12. ASSUME NEW a \in Approvals, ReleaseVerdict(a) \/ PersistFails(a) PROVE KeptIsOwned'
  <2>1. CASE state[a] = inflight[a]
    BY <1>0, <1>8, <1>12, <2>1 DEF ReleaseVerdict, PersistFails
  <2>2. CASE state[a] # inflight[a]
    BY <1>9, <1>12, <2>2 DEF ReleaseVerdict, PersistFails
  <2>3. QED
    BY <2>1, <2>2
<1>13. CASE UNCHANGED vars
  BY <1>9, <1>13 DEF vars, approvalVars
<1>14. QED
  BY <1>2, <1>3, <1>4, <1>5, <1>6, <1>7, <1>10, <1>11, <1>12, <1>13 DEF Next

\* Of a run whose adapter returned the broker keeps no approval, no claim and no
\* waiting callback, even when a decideAfter was suspended across the close.
THEOREM EndedRunsAreForgotten == Spec => []EndedRunForgotten
<1>1. Init => KeptIsOwned
  BY DEF Init, KeptIsOwned
<1>2. IInv /\ KeptIsOwned => EndedRunForgotten
  <2> SUFFICES ASSUME IInv, KeptIsOwned PROVE EndedRunForgotten
    OBVIOUS
  <2>1. \A c \in WaitingCallbacks : phase[cbRun[c]] = "open"
    BY DEF IInv, UnansweredIsOpen, WaitingCallbacks
  <2>2. QED
    BY <2>1 DEF EndedRunForgotten, KeptIsOwned
<1>3. QED
  BY <1>1, <1>2, KeptStep, InvHolds, PTL DEF Spec

-----------------------------------------------------------------------------
(* The limits                                                              *)

\* The broker keeps no more approvals, and no more waiting callbacks, than its
\* limits admit: only register looks at the first two, and a verdict, an expiry
\* and a failing write move what they settle from one map to the other.
WithinLimits ==
    /\ Cardinality(live) <= MaxLive
    /\ Cardinality(live) + Cardinality(terminal) <= MaxRetained
    /\ Cardinality(WaitingCallbacks) <= MaxWaiting

\* The three sets are finite.
LEMMA KeptIsFinite ==
    ASSUME TypeOK
    PROVE  /\ IsFiniteSet(live) /\ IsFiniteSet(terminal) /\ IsFiniteSet(WaitingCallbacks)
           /\ Cardinality(live) \in Nat /\ Cardinality(terminal) \in Nat /\ Cardinality(WaitingCallbacks) \in Nat
<1>1. IsFiniteSet(Approvals) /\ IsFiniteSet(Callbacks)
  BY BoundsAreNat, FS_Interval DEF Approvals, Callbacks
<1>2. IsFiniteSet(live) /\ IsFiniteSet(terminal) /\ IsFiniteSet(WaitingCallbacks)
  BY <1>1, FS_Subset DEF TypeOK, WaitingCallbacks
<1>3. QED
  BY <1>2, FS_CardinalityType

\* Fewer approvals and callbacks are within the limits.
LEMMA FewerFit ==
    ASSUME TypeOK, WithinLimits, live' \subseteq live, terminal' \subseteq terminal,
           WaitingCallbacks' \subseteq WaitingCallbacks
    PROVE  WithinLimits'
<1>1. /\ Cardinality(live') <= Cardinality(live) /\ Cardinality(live') \in Nat
      /\ Cardinality(terminal') <= Cardinality(terminal) /\ Cardinality(terminal') \in Nat
      /\ Cardinality(WaitingCallbacks') <= Cardinality(WaitingCallbacks) /\ Cardinality(WaitingCallbacks') \in Nat
  BY KeptIsFinite, FS_Subset, FS_CardinalityType
<1>2. MaxLive \in Nat /\ MaxRetained \in Nat /\ MaxWaiting \in Nat
  BY BoundsAreNat
<1>3. QED
  BY <1>1, <1>2, KeptIsFinite DEF WithinLimits

\* A live approval that is settled is kept among the settled ones.
LEMMA SealFits ==
    ASSUME TypeOK, WithinLimits, NEW a \in live, Seal(a), UNCHANGED cbStatus
    PROVE  WithinLimits'
<1>1. live' = live \ {a} /\ terminal' = terminal \cup {a} /\ WaitingCallbacks' = WaitingCallbacks
  BY DEF Seal, WaitingCallbacks
<1>2. Cardinality(live') = Cardinality(live) - 1
  BY <1>1, KeptIsFinite, FS_RemoveElement
<1>3. Cardinality(terminal') \in {Cardinality(terminal), Cardinality(terminal) + 1}
  BY <1>1, KeptIsFinite, FS_AddElement
<1>4. MaxLive \in Nat /\ MaxRetained \in Nat
  BY BoundsAreNat
<1>5. QED
  BY <1>1, <1>2, <1>3, <1>4, KeptIsFinite DEF WithinLimits

\* Every step keeps the limits.
LEMMA LimitsStep == IInv /\ WithinLimits /\ [Next]_vars => WithinLimits'
<1> SUFFICES ASSUME IInv, WithinLimits, [Next]_vars PROVE WithinLimits'
  OBVIOUS
<1>1. TypeOK
  BY DEF IInv
<1>2. ASSUME NEW r \in Runs, CreateRunToken(r) PROVE WithinLimits'
  BY <1>1, <1>2, FewerFit DEF CreateRunToken, approvalVars, callbackVars, WaitingCallbacks
<1>3. ASSUME NEW r \in Runs, NEW s \in CloseStates, NEW next \in {"draining", "ended"}, CloseRun(r, s, next)
      PROVE WithinLimits'
  <2>1. live' \subseteq live /\ terminal' \subseteq terminal
    BY <1>3 DEF CloseRun
  <2>2. WaitingCallbacks' \subseteq WaitingCallbacks
    BY <1>3 DEF CloseRun, WaitingCallbacks
  <2>3. QED
    BY <1>1, <2>1, <2>2, FewerFit
<1>4. ASSUME NEW r \in Runs, NEW k \in Keys, NEW a \in Approvals, Register(r, k, a) PROVE WithinLimits'
  <2>1. a \notin live
    BY <1>4 DEF Register, NextApproval, IsFirst, IInv, AbsentIsClean
  <2>2. /\ live' = live \cup {a} /\ terminal' = terminal
        /\ Cardinality(live) < MaxLive /\ Cardinality(live) + Cardinality(terminal) < MaxRetained
    BY <1>4 DEF Register, HasRoom
  <2>3. Cardinality(live') = Cardinality(live) + 1
    BY <1>1, <2>1, <2>2, KeptIsFinite, FS_AddElement
  <2>4. WaitingCallbacks' \subseteq WaitingCallbacks
    BY <1>1, <1>4 DEF Register, callbackVars, WaitingCallbacks, TypeOK
  <2>5. Cardinality(WaitingCallbacks') <= Cardinality(WaitingCallbacks) /\ Cardinality(WaitingCallbacks') \in Nat
    BY <1>1, <2>4, KeptIsFinite, FS_Subset, FS_CardinalityType
  <2>6. MaxLive \in Nat /\ MaxRetained \in Nat /\ MaxWaiting \in Nat
    BY BoundsAreNat
  <2>7. QED
    BY <1>1, <2>2, <2>3, <2>5, <2>6, KeptIsFinite DEF WithinLimits
<1>5. ASSUME NEW r \in Runs, NEW k \in Keys, NEW c \in Callbacks, AwaitDecision(c, r, k) PROVE WithinLimits'
  <2>1. live' = live /\ terminal' = terminal
    BY <1>5 DEF AwaitDecision
  <2>2. CASE WaitingCallbacks' \subseteq WaitingCallbacks
    BY <1>1, <2>1, <2>2, FewerFit
  <2>3. CASE ~(WaitingCallbacks' \subseteq WaitingCallbacks)
    <3>1. Cardinality(WaitingCallbacks) < MaxWaiting /\ cbStatus' = [cbStatus EXCEPT ![c] = "waiting"]
      BY <1>1, <1>5, <2>3 DEF AwaitDecision, WaitingCallbacks, TypeOK
    <3>2. c \notin WaitingCallbacks /\ WaitingCallbacks' = WaitingCallbacks \cup {c}
      BY <1>1, <1>5, <3>1 DEF AwaitDecision, NextCallback, IsFirst, WaitingCallbacks, TypeOK
    <3>3. Cardinality(WaitingCallbacks') = Cardinality(WaitingCallbacks) + 1
      BY <1>1, <3>2, KeptIsFinite, FS_AddElement
    <3>4. MaxWaiting \in Nat
      BY BoundsAreNat
    <3>5. QED
      BY <1>1, <2>1, <3>1, <3>3, <3>4, KeptIsFinite DEF WithinLimits
  <2>4. QED
    BY <2>2, <2>3
<1>6. ASSUME NEW r \in Runs, NEW c \in Callbacks, NEW a \in Approvals, AwaitRegisteredDecision(c, r, a)
      PROVE WithinLimits'
  <2>1. live' = live /\ terminal' = terminal
    BY <1>6 DEF AwaitRegisteredDecision
  <2>2. WaitingCallbacks' \subseteq WaitingCallbacks
    BY <1>1, <1>6 DEF AwaitRegisteredDecision, WaitingCallbacks, TypeOK
  <2>3. QED
    BY <1>1, <2>1, <2>2, FewerFit
<1>7. ASSUME NEW c \in Callbacks, CallbackTimeout(c) PROVE WithinLimits'
  <2>1. live' = live /\ terminal' = terminal /\ WaitingCallbacks' \subseteq WaitingCallbacks
    BY <1>1, <1>7 DEF CallbackTimeout, approvalVars, WaitingCallbacks, TypeOK
  <2>2. QED
    BY <1>1, <2>1, FewerFit
<1>8. ASSUME NEW a \in Approvals,
             \/ Expire(a) \/ ReleaseVerdict(a) \/ PersistFails(a)
             \/ \E v \in Verdicts : Decide(a, v)
      PROVE  WithinLimits'
  <2>1. \/ a \in live /\ Seal(a)
        \/ live' = live /\ terminal' = terminal
    <3>1. CASE Expire(a) \/ \E v \in Verdicts : Decide(a, v)
      BY <3>1 DEF Expire, Decide, InTime, Finish
    <3>2. CASE ReleaseVerdict(a) \/ PersistFails(a)
      <4>1. inflight[a] \in Verdicts /\ (state[a] = inflight[a] => a \in live)
        BY <1>1, <3>2 DEF ReleaseVerdict, PersistFails, IInv, LiveOwnership, TypeOK, Verdicts, CloseStates
      <4>2. QED
        BY <3>2, <4>1 DEF ReleaseVerdict, PersistFails
    <3>3. QED
      BY <1>8, <3>1, <3>2
  <2>2. UNCHANGED cbStatus
    BY <1>8 DEF Expire, Decide, ReleaseVerdict, PersistFails, callbackVars
  <2>3. WaitingCallbacks' = WaitingCallbacks
    BY <2>2 DEF WaitingCallbacks
  <2>4. QED
    BY <1>1, <2>1, <2>2, <2>3, SealFits, FewerFit
<1>9. ASSUME NEW a \in Approvals,
             \/ DeadlinePasses(a) \/ PersistVerdict(a)
             \/ \E v \in Verdicts : DecideAfter(a, v)
      PROVE  WithinLimits'
  <2>1. UNCHANGED <<live, terminal, cbStatus>>
    BY <1>9 DEF DeadlinePasses, PersistVerdict, DecideAfter, callbackVars
  <2>2. QED
    BY <1>1, <2>1, FewerFit DEF WaitingCallbacks
<1>10. CASE UNCHANGED vars
  <2>1. UNCHANGED <<live, terminal, cbStatus>>
    BY <1>10 DEF vars, approvalVars, callbackVars
  <2>2. QED
    BY <1>1, <2>1, FewerFit DEF WaitingCallbacks
<1>11. QED
  BY <1>2, <1>3, <1>4, <1>5, <1>6, <1>7, <1>8, <1>9, <1>10 DEF Next

\* The maps of the broker stay within their limits, whatever expires, fails or
\* closes around a registration that was admitted.
THEOREM LimitsAreKept == Spec => []WithinLimits
<1>1. Init => WithinLimits
  <2>1. ASSUME Init PROVE WithinLimits
    <3>1. live = {} /\ terminal = {} /\ WaitingCallbacks = {}
      BY <2>1 DEF Init, WaitingCallbacks
    <3>2. Cardinality({}) = 0
      BY FS_EmptySet
    <3>3. QED
      BY <3>1, <3>2, BoundsAreNat DEF WithinLimits
  <2>2. QED
    BY <2>1
<1>2. QED
  BY <1>1, LimitsStep, InvHolds, PTL DEF Spec

-----------------------------------------------------------------------------
(* The broker implements single-use consent                                *)

\* The answer that a callback had and has.
LEMMA OutcomeIs ==
    ASSUME IInv, NEW c \in Callbacks
    PROVE  /\ cbStatus[c] \in {"idle", "waiting"} => Outcome(c) = "open"
           /\ cbStatus[c] = "bound" =>
                 /\ Outcome(c) = promise[cbApproval[c]] /\ cbApproval[c] \in Approvals
                 /\ owner[cbApproval[c]] = cbRun[c]
                 /\ cbApproval[c] \in live => promise[cbApproval[c]] = "open" /\ phase[cbRun[c]] = "open"
           /\ cbStatus[c] \in {"unmatched", "rejected"} => Outcome(c) = "deny"
           /\ cbStatus[c] \in {"idle", "waiting", "bound", "unmatched", "rejected"}
           /\ cbStatus[c] # "idle" => cbRun[c] \in Runs
BY DEF IInv, TypeOK, Outcome, BoundIsClaimed, UnansweredIsOpen, AnswerMatchesState

\* No callback is answered, none is made.
LEMMA NothingIsSeen ==
    ASSUME UNCHANGED <<phase, recorded>>,
           \A c \in Callbacks : Outcome(c)' = Outcome(c) /\ (Outcome(c) = "allow" => cbApproval'[c] = cbApproval[c]),
           \A c \in Callbacks : cbRun'[c] = cbRun[c] /\ (cbStatus'[c] = "idle" <=> cbStatus[c] = "idle")
    PROVE  UNCHANGED Consent!vars
BY DEF Consent!vars

\* A callback is refused, and nothing else is seen.
LEMMA OneIsDenied ==
    ASSUME UNCHANGED <<phase, recorded>>, NEW c \in Callbacks,
           Outcome(c) = "open", Outcome(c)' = "deny", cbStatus[c] # "idle",
           \A d \in Callbacks \ {c} : Outcome(d)' = Outcome(d),
           \A d \in Callbacks : /\ cbRun'[d] = cbRun[d] /\ (cbStatus'[d] = "idle" <=> cbStatus[d] = "idle")
                                /\ Outcome(d) = "allow" => cbApproval'[d] = cbApproval[d]
    PROVE  Consent!Deny(c)
<1>0. \A d \in Callbacks : /\ Outcome(d)' = IF d = c THEN "deny" ELSE Outcome(d)
                           /\ (IF Outcome(d)' = "allow" THEN {cbApproval'[d]} ELSE {})
                               = (IF Outcome(d) = "allow" THEN {cbApproval[d]} ELSE {})
  <2>1. \A d \in Callbacks : Outcome(d)' = IF d = c THEN "deny" ELSE Outcome(d)
    OBVIOUS
  <2>2. \A d \in Callbacks : Outcome(d)' = "allow" <=> Outcome(d) = "allow"
    BY <2>1
  <2>3. QED
    BY <2>1, <2>2
<1>1. [d \in Callbacks |-> Outcome(d)'] = [[d \in Callbacks |-> Outcome(d)] EXCEPT ![c] = "deny"]
  BY <1>0
<1>2. [d \in Callbacks |-> IF Outcome(d)' = "allow" THEN {cbApproval'[d]} ELSE {}]
        = [d \in Callbacks |-> IF Outcome(d) = "allow" THEN {cbApproval[d]} ELSE {}]
  BY <1>0
<1>3. [d \in Callbacks |-> IF cbStatus'[d] = "idle" THEN {} ELSE {cbRun'[d]}]
        = [d \in Callbacks |-> IF cbStatus[d] = "idle" THEN {} ELSE {cbRun[d]}]
  OBVIOUS
<1>4. QED
  BY <1>1, <1>2, <1>3 DEF Consent!Deny

\* An approval is settled: its callback, if it has one, gets the answer, and "allow"
\* spends the recorded consent.
LEMMA SettlingIsConsented ==
    ASSUME IInv, NEW a \in live, NEW v \in {"allow", "deny"}, promise' = [promise EXCEPT ![a] = v],
           UNCHANGED <<phase, recorded, callbackVars>>,
           v = "allow" => recorded[a] = "allowed_once"
    PROVE  Consent!Next \/ UNCHANGED Consent!vars
<1>0. a \in Approvals /\ promise \in [Approvals -> {"open", "allow", "deny"}]
  BY DEF IInv, TypeOK
<1>1. \A d \in Callbacks : ~(cbStatus[d] = "bound" /\ cbApproval[d] = a) => Outcome(d)' = Outcome(d)
  BY <1>0, OutcomeIs DEF Outcome, callbackVars
<1>2. CASE \A d \in Callbacks : ~(cbStatus[d] = "bound" /\ cbApproval[d] = a)
  BY <1>1, <1>2, NothingIsSeen DEF callbackVars
<1>3. ASSUME NEW c \in Callbacks, cbStatus[c] = "bound", cbApproval[c] = a
      PROVE  Consent!Next
  <2>1. /\ Outcome(c) = "open" /\ Outcome(c)' = v /\ phase[cbRun[c]] = "open" /\ cbRun[c] \in Runs
    BY <1>0, <1>3, OutcomeIs DEF Outcome, callbackVars
  <2>2. \A d \in Callbacks \ {c} : Outcome(d)' = Outcome(d)
    BY <1>1, <1>3 DEF IInv, SingleUse
  <2>3. CASE v = "deny"
    <3>1. Consent!Deny(c)
      BY <1>3, <2>1, <2>2, <2>3, OneIsDenied DEF callbackVars
    <3>2. QED
      BY <3>1 DEF Consent!Next
  <2>4. CASE v = "allow"
    <3>1. \A d \in Callbacks : Outcome(d) = "allow" => cbApproval[d] # a
      BY <1>0, <1>3, <2>1, OutcomeIs
    <3>2. Consent!Allow(c, a)
      <4>1. [d \in Callbacks |-> Outcome(d)'] = [[d \in Callbacks |-> Outcome(d)] EXCEPT ![c] = "allow"]
        BY <2>1, <2>2, <2>4
      <4>2. [d \in Callbacks |-> IF Outcome(d)' = "allow" THEN {cbApproval'[d]} ELSE {}]
              = [[d \in Callbacks |-> IF Outcome(d) = "allow" THEN {cbApproval[d]} ELSE {}] EXCEPT ![c] = {a}]
        BY <1>3, <2>1, <2>2, <2>4 DEF callbackVars
      <4>3. [d \in Callbacks |-> IF cbStatus'[d] = "idle" THEN {} ELSE {cbRun'[d]}]
              = [d \in Callbacks |-> IF cbStatus[d] = "idle" THEN {} ELSE {cbRun[d]}]
        BY DEF callbackVars
      <4>4. \A d \in Callbacks : a \notin (IF Outcome(d) = "allow" THEN {cbApproval[d]} ELSE {})
        BY <3>1
      <4>5. /\ cbRun[c] \in Runs /\ phase[cbRun[c]] = "open" /\ cbStatus[c] # "idle" /\ Outcome(c) = "open"
            /\ a \in Approvals /\ recorded[a] = "allowed_once" /\ UNCHANGED <<phase, recorded>>
        BY <1>0, <1>3, <2>1, <2>4
      <4>6. /\ [d \in Callbacks |-> Outcome(d)][c] = "open"
            /\ [d \in Callbacks |-> IF cbStatus[d] = "idle" THEN {} ELSE {cbRun[d]}][c] = {cbRun[c]}
            /\ cbRun[c] \in {r \in Runs : phase[r] = "open"}
            /\ a \in {x \in Approvals : recorded[x] = "allowed_once"}
            /\ \A d \in Callbacks :
                  a \notin [e \in Callbacks |-> IF Outcome(e) = "allow" THEN {cbApproval[e]} ELSE {}][d]
        BY <4>4, <4>5
      <4>7. /\ {r \in Runs : phase'[r] = "open"} = {r \in Runs : phase[r] = "open"}
            /\ {r \in Runs : phase'[r] \in {"draining", "ended"}} = {r \in Runs : phase[r] \in {"draining", "ended"}}
            /\ {x \in Approvals : recorded'[x] = "allowed_once"} = {x \in Approvals : recorded[x] = "allowed_once"}
        BY <4>5
      <4>8. QED
        BY <4>1, <4>2, <4>3, <4>6, <4>7 DEF Consent!Allow
    <3>3. QED
      BY <1>0, <3>2 DEF Consent!Next
  <2>5. QED
    BY <2>3, <2>4
<1>4. QED
  BY <1>2, <1>3

\* A callback arrives: it is bound to an unanswered approval, waits, or is refused.
LEMMA ArrivalIsConsented ==
    ASSUME IInv, IInv', NEW c \in Callbacks, NEW r \in Runs, cbStatus[c] = "idle", phase[r] # "new",
           cbRun' = [cbRun EXCEPT ![c] = r],
           \E v \in {"waiting", "bound", "unmatched", "rejected"} : cbStatus' = [cbStatus EXCEPT ![c] = v],
           cbStatus'[c] \in {"waiting", "bound"} => phase[r] = "open",
           cbStatus'[c] = "bound" => cbApproval'[c] \in live,
           cbApproval' = [cbApproval EXCEPT ![c] = cbApproval'[c]],
           UNCHANGED <<phase, promise, live, recorded>>
    PROVE  Consent!Next
<1>1. /\ cbStatus'[c] \in {"waiting", "bound", "unmatched", "rejected"} /\ cbRun'[c] = r
      /\ \A d \in Callbacks \ {c} : cbStatus'[d] = cbStatus[d] /\ cbRun'[d] = cbRun[d] /\ cbApproval'[d] = cbApproval[d]
      /\ phase[r] \in {"open", "draining", "ended"}
  BY DEF IInv, TypeOK
<1>2. \A d \in Callbacks \ {c} : Outcome(d)' = Outcome(d)
  BY <1>1 DEF Outcome
<1>3. Outcome(c) = "open"
  BY OutcomeIs
<1>4. (Outcome(c)' = "open" /\ phase[r] = "open") \/ Outcome(c)' = "deny"
  <2>1. CASE cbStatus'[c] = "waiting"
    BY <2>1 DEF Outcome
  <2>2. CASE cbStatus'[c] = "bound"
    <3>1. cbApproval'[c] \in Approvals /\ promise[cbApproval'[c]] = "open"
      BY <2>2 DEF IInv, TypeOK, AnswerMatchesState, AbsentIsClean
    <3>2. QED
      BY <2>2, <3>1 DEF Outcome
  <2>3. CASE cbStatus'[c] \in {"unmatched", "rejected"}
    BY <2>3 DEF Outcome
  <2>4. QED
    BY <1>1, <2>1, <2>2, <2>3
<1>5. Consent!Ask(c, r)
  <2>1. [d \in Callbacks |-> IF cbStatus'[d] = "idle" THEN {} ELSE {cbRun'[d]}]
          = [[d \in Callbacks |-> IF cbStatus[d] = "idle" THEN {} ELSE {cbRun[d]}] EXCEPT ![c] = {r}]
    <3>1. (IF cbStatus'[c] = "idle" THEN {} ELSE {cbRun'[c]}) = {r}
      BY <1>1
    <3>2. \A d \in Callbacks \ {c} : (IF cbStatus'[d] = "idle" THEN {} ELSE {cbRun'[d]})
                                      = (IF cbStatus[d] = "idle" THEN {} ELSE {cbRun[d]})
      BY <1>1
    <3>3. QED
      BY <3>1, <3>2
  <2>2. [d \in Callbacks |-> IF Outcome(d)' = "allow" THEN {cbApproval'[d]} ELSE {}]
          = [d \in Callbacks |-> IF Outcome(d) = "allow" THEN {cbApproval[d]} ELSE {}]
    BY <1>1, <1>2, <1>3, <1>4
  <2>3. \/ /\ phase[r] = "open"
           /\ [d \in Callbacks |-> Outcome(d)'] = [d \in Callbacks |-> Outcome(d)]
        \/ [d \in Callbacks |-> Outcome(d)'] = [[d \in Callbacks |-> Outcome(d)] EXCEPT ![c] = "deny"]
    BY <1>2, <1>3, <1>4
  <2>4. QED
    BY <1>1, <2>1, <2>2, <2>3 DEF Consent!Ask
<1>6. QED
  BY <1>5 DEF Consent!Next

\* A run is closed: what is unanswered for it is refused.
LEMMA CloseIsConsented ==
    ASSUME IInv, NEW r \in Runs, NEW s \in CloseStates, NEW next \in {"draining", "ended"},
           CloseRun(r, s, next)
    PROVE  Consent!Next
<1> DEFINE D == {c \in Callbacks : \/ cbStatus[c] = "waiting" /\ cbRun[c] = r
                                   \/ cbStatus[c] = "bound" /\ cbApproval[c] \in ToClose(r)}
<1>0. TypeOK
  BY DEF IInv
<1>1. \A c \in D : Outcome(c) = "open" /\ cbRun[c] = r /\ cbStatus[c] # "idle" /\ Outcome(c)' = "deny"
  <2> SUFFICES ASSUME NEW c \in D
               PROVE  Outcome(c) = "open" /\ cbRun[c] = r /\ cbStatus[c] # "idle" /\ Outcome(c)' = "deny"
    OBVIOUS
  <2>1. CASE cbStatus[c] = "waiting" /\ cbRun[c] = r
    BY <2>1 DEF CloseRun, Outcome
  <2>2. CASE cbStatus[c] = "bound" /\ cbApproval[c] \in ToClose(r)
    <3>1. /\ cbApproval[c] \in Approvals /\ promise[cbApproval[c]] = "open" /\ owner[cbApproval[c]] = r
          /\ Outcome(c) = "open" /\ cbRun[c] = r
      BY <2>2, OutcomeIs DEF ToClose
    <3>2. promise'[cbApproval[c]] = "deny" /\ cbStatus'[c] = "bound" /\ cbApproval'[c] = cbApproval[c]
      BY <2>2, <3>1 DEF CloseRun, Settled
    <3>3. QED
      BY <2>2, <3>1, <3>2 DEF Outcome
  <2>3. QED
    BY <2>1, <2>2
<1>2. \A c \in Callbacks \ D : Outcome(c)' = Outcome(c)
  <2> SUFFICES ASSUME NEW c \in Callbacks \ D PROVE Outcome(c)' = Outcome(c)
    OBVIOUS
  <2>0. /\ ~(cbStatus[c] = "waiting" /\ cbRun[c] = r)
        /\ cbStatus[c] = "bound" => cbApproval[c] \in Approvals \ ToClose(r)
    BY OutcomeIs
  <2>1. cbStatus'[c] = cbStatus[c] /\ cbApproval'[c] = cbApproval[c]
    BY <2>0 DEF CloseRun
  <2>2. cbStatus[c] = "bound" => promise'[cbApproval[c]] = promise[cbApproval[c]]
    BY <2>0 DEF CloseRun
  <2>3. QED
    BY <2>1, <2>2 DEF Outcome
<1>3. /\ phase[r] \in {"open", "draining"} /\ phase' = [phase EXCEPT ![r] = next]
      /\ UNCHANGED <<recorded, cbRun, cbApproval>>
      /\ \A c \in Callbacks : cbStatus'[c] = "idle" <=> cbStatus[c] = "idle"
  BY <1>0 DEF CloseRun, TypeOK
<1> HIDE DEF D
<1>4. \A c \in Callbacks : Outcome(c)' = IF c \in D THEN "deny" ELSE Outcome(c)
  BY <1>1, <1>2
<1>5. PICK E \in SUBSET Callbacks : E = D
  BY DEF D
<1>6. Consent!Revoke(r, E)
  <2>1. {q \in Runs : phase'[q] = "open"} = {q \in Runs : phase[q] = "open"} \ {r}
    BY <1>0, <1>3 DEF TypeOK
  <2>2. {q \in Runs : phase'[q] \in {"draining", "ended"}} = {q \in Runs : phase[q] \in {"draining", "ended"}} \cup {r}
    BY <1>0, <1>3 DEF TypeOK
  <2>3. /\ [c \in Callbacks |-> Outcome(c)'] = [c \in Callbacks |-> IF c \in E THEN "deny" ELSE [d \in Callbacks |-> Outcome(d)][c]]
        /\ [c \in Callbacks |-> IF Outcome(c)' = "allow" THEN {cbApproval'[c]} ELSE {}]
             = [c \in Callbacks |-> IF Outcome(c) = "allow" THEN {cbApproval[c]} ELSE {}]
    BY <1>1, <1>3, <1>4, <1>5
  <2>4. [c \in Callbacks |-> IF cbStatus'[c] = "idle" THEN {} ELSE {cbRun'[c]}]
          = [c \in Callbacks |-> IF cbStatus[c] = "idle" THEN {} ELSE {cbRun[c]}]
    BY <1>3
  <2>5. \A c \in E : /\ [d \in Callbacks |-> Outcome(d)][c] = "open"
                     /\ [d \in Callbacks |-> IF cbStatus[d] = "idle" THEN {} ELSE {cbRun[d]}][c] = {r}
    BY <1>1, <1>5
  <2>6. r \in {q \in Runs : phase[q] = "open"} \cup {q \in Runs : phase[q] \in {"draining", "ended"}}
    BY <1>3
  <2>7. QED
    BY <1>3, <2>1, <2>2, <2>3, <2>4, <2>5, <2>6 DEF Consent!Revoke
<1>7. QED
  BY <1>6 DEF Consent!Next

\* Every step of the broker is a step of single-use consent, or is not seen.
LEMMA StepIsConsented ==
    ASSUME ~DirectDecide, IInv, IInv', [Next]_vars
    PROVE  [Consent!Next]_Consent!vars
<1> DEFINE Seen == Consent!Next \/ UNCHANGED Consent!vars
<1>0. TypeOK
  BY DEF IInv
<1>1. ASSUME UNCHANGED <<phase, promise, recorded, callbackVars>> PROVE Seen
  <2>1. \A c \in Callbacks : Outcome(c)' = Outcome(c)
    BY <1>1 DEF Outcome, callbackVars
  <2>2. QED
    BY <1>1, <2>1, NothingIsSeen DEF callbackVars
<1>2. ASSUME NEW r \in Runs, CreateRunToken(r) PROVE Seen
  <2>1. /\ phase[r] = "new" /\ phase' = [phase EXCEPT ![r] = "open"] /\ UNCHANGED <<promise, recorded, callbackVars>>
    BY <1>2 DEF CreateRunToken, approvalVars
  <2>2. \A c \in Callbacks : Outcome(c)' = Outcome(c)
    BY <2>1 DEF Outcome, callbackVars
  <2>3. {q \in Runs : phase'[q] = "open"} = {q \in Runs : phase[q] = "open"} \cup {r}
    BY <1>0, <2>1 DEF TypeOK
  <2>4. {q \in Runs : phase'[q] \in {"draining", "ended"}} = {q \in Runs : phase[q] \in {"draining", "ended"}}
    BY <1>0, <2>1 DEF TypeOK
  <2>5. Consent!Trust(r)
    BY <2>1, <2>2, <2>3, <2>4 DEF Consent!Trust, callbackVars
  <2>6. QED
    BY <2>5 DEF Consent!Next
<1>3. ASSUME NEW r \in Runs, NEW s \in CloseStates, NEW next \in {"draining", "ended"}, CloseRun(r, s, next)
      PROVE  Seen
  BY <1>3, CloseIsConsented
<1>4. ASSUME NEW r \in Runs, NEW k \in Keys, NEW a \in Approvals, Register(r, k, a) PROVE Seen
  <2>1. /\ UNCHANGED <<phase, promise, recorded, cbRun>> /\ state[a] = "absent" /\ promise[a] = "open"
    BY <1>4 DEF Register, NextApproval, IsFirst, callbackVars, IInv, AbsentIsClean
  <2>2. CASE UNCHANGED callbackVars
    BY <1>1, <2>1, <2>2
  <2>3. ASSUME NEW c \in Bucket(r, k), cbStatus' = [cbStatus EXCEPT ![c] = "bound"],
               cbApproval' = [cbApproval EXCEPT ![c] = a]
        PROVE  Seen
    <3>1. /\ c \in Callbacks /\ cbStatus[c] = "waiting" /\ cbStatus'[c] = "bound" /\ cbApproval'[c] = a
          /\ \A d \in Callbacks \ {c} : cbStatus'[d] = cbStatus[d] /\ cbApproval'[d] = cbApproval[d]
      BY <1>0, <2>3 DEF TypeOK, Bucket, WaitingCallbacks
    <3>2. \A d \in Callbacks \ {c} : Outcome(d)' = Outcome(d)
      BY <2>1, <3>1 DEF Outcome
    <3>3. Outcome(c) = "open" /\ Outcome(c)' = "open"
      BY <2>1, <3>1 DEF Outcome
    <3>4. QED
      BY <2>1, <3>1, <3>2, <3>3, NothingIsSeen
  <2>4. QED
    BY <1>4, <2>2, <2>3 DEF Register, IsFirst
<1>5. ASSUME NEW r \in Runs, NEW k \in Keys, NEW c \in Callbacks, AwaitDecision(c, r, k) PROVE Seen
  <2>1. /\ cbStatus[c] = "idle" /\ phase[r] # "new" /\ cbRun' = [cbRun EXCEPT ![c] = r]
        /\ UNCHANGED <<phase, promise, live, recorded>>
    BY <1>5 DEF AwaitDecision, NextCallback, IsFirst
  <2>2. /\ \E v \in {"waiting", "bound", "unmatched", "rejected"} : cbStatus' = [cbStatus EXCEPT ![c] = v]
        /\ cbStatus'[c] \in {"waiting", "bound"} => phase[r] = "open"
        /\ cbStatus'[c] = "bound" => cbApproval'[c] \in live
        /\ cbApproval' = [cbApproval EXCEPT ![c] = cbApproval'[c]]
    BY <1>0, <1>5 DEF AwaitDecision, HoldsToken, Claimable, IsFirst, TypeOK
  <2>3. QED
    BY <2>1, <2>2, ArrivalIsConsented
<1>6. ASSUME NEW r \in Runs, NEW c \in Callbacks, NEW a \in Approvals, AwaitRegisteredDecision(c, r, a)
      PROVE  Seen
  <2>1. /\ cbStatus[c] = "idle" /\ phase[r] # "new" /\ cbRun' = [cbRun EXCEPT ![c] = r]
        /\ UNCHANGED <<phase, promise, live, recorded>>
    BY <1>6 DEF AwaitRegisteredDecision, NextCallback, IsFirst
  <2>2. /\ \E v \in {"waiting", "bound", "unmatched", "rejected"} : cbStatus' = [cbStatus EXCEPT ![c] = v]
        /\ cbStatus'[c] \in {"waiting", "bound"} => phase[r] = "open"
        /\ cbStatus'[c] = "bound" => cbApproval'[c] \in live
        /\ cbApproval' = [cbApproval EXCEPT ![c] = cbApproval'[c]]
    BY <1>0, <1>6 DEF AwaitRegisteredDecision, HoldsToken, ClaimsById, TypeOK
  <2>3. QED
    BY <2>1, <2>2, ArrivalIsConsented
<1>7. ASSUME NEW c \in Callbacks, CallbackTimeout(c) PROVE Seen
  <2>1. /\ cbStatus[c] = "waiting" /\ cbStatus'[c] = "unmatched"
        /\ \A d \in Callbacks \ {c} : cbStatus'[d] = cbStatus[d]
        /\ UNCHANGED <<phase, promise, recorded, cbRun, cbApproval>>
    BY <1>0, <1>7 DEF CallbackTimeout, approvalVars, TypeOK
  <2>2. Outcome(c) = "open" /\ Outcome(c)' = "deny" /\ \A d \in Callbacks \ {c} : Outcome(d)' = Outcome(d)
    BY <2>1 DEF Outcome
  <2>3. Consent!Deny(c)
    BY <2>1, <2>2, OneIsDenied
  <2>4. QED
    BY <2>3 DEF Consent!Next
<1>8. ASSUME NEW a \in Approvals, Expire(a) PROVE Seen
  <2>1. a \in live /\ UNCHANGED <<phase, recorded, callbackVars>> /\ promise[a] = "open"
        /\ promise' = [promise EXCEPT ![a] = "deny"]
    BY <1>8 DEF Expire, Finish, Settled, Answer, IInv, AnswerMatchesState
  <2>2. QED
    BY <2>1, SettlingIsConsented
<1>9. ASSUME NEW a \in Approvals, PersistVerdict(a) PROVE Seen
  <2>1. /\ recorded[a] = "none" /\ recorded' = [recorded EXCEPT ![a] = inflight[a]] /\ inflight[a] \in Verdicts
        /\ UNCHANGED <<phase, promise, callbackVars>>
    BY <1>0, <1>9 DEF PersistVerdict, TypeOK
  <2>2. \A c \in Callbacks : Outcome(c)' = Outcome(c)
    BY <2>1 DEF Outcome, callbackVars
  <2>3. CASE inflight[a] = "allowed_once"
    <3>1. {b \in Approvals : recorded'[b] = "allowed_once"} = {b \in Approvals : recorded[b] = "allowed_once"} \cup {a}
      BY <1>0, <2>1, <2>3 DEF TypeOK
    <3>2. Consent!Give(a)
      BY <2>1, <2>2, <3>1 DEF Consent!Give, callbackVars
    <3>3. QED
      BY <3>2 DEF Consent!Next
  <2>4. CASE inflight[a] # "allowed_once"
    <3>1. {b \in Approvals : recorded'[b] = "allowed_once"} = {b \in Approvals : recorded[b] = "allowed_once"}
      BY <1>0, <2>1, <2>4 DEF TypeOK
    <3>2. UNCHANGED Consent!vars
      BY <2>1, <2>2, <3>1 DEF Consent!vars, callbackVars
    <3>3. QED
      BY <3>2
  <2>5. QED
    BY <2>3, <2>4
<1>10. ASSUME NEW a \in Approvals, ReleaseVerdict(a) PROVE Seen
  <2>1. UNCHANGED <<phase, recorded, callbackVars>> /\ inflight[a] # "none" /\ recorded[a] = inflight[a]
    BY <1>10 DEF ReleaseVerdict, Persisted
  <2>2. CASE state[a] = inflight[a]
    <3>1. a \in live /\ promise[a] = "open"
      BY <1>0, <2>1, <2>2 DEF TypeOK, IInv, LiveOwnership, AnswerMatchesState, Verdicts, CloseStates
    <3>2. promise' = [promise EXCEPT ![a] = Answer(state[a])] /\ Answer(state[a]) \in {"allow", "deny"}
      BY <1>10, <2>2, <3>1 DEF ReleaseVerdict, Settled, Answer
    <3>3. Answer(state[a]) = "allow" => recorded[a] = "allowed_once"
      BY <2>1, <2>2 DEF Answer
    <3>4. QED
      BY <2>1, <3>1, <3>2, <3>3, SettlingIsConsented
  <2>3. CASE state[a] # inflight[a]
    BY <1>1, <1>10, <2>3 DEF ReleaseVerdict
  <2>4. QED
    BY <2>2, <2>3
<1>11. ASSUME NEW a \in Approvals, PersistFails(a) PROVE Seen
  <2>1. UNCHANGED <<phase, recorded, callbackVars>> /\ inflight[a] # "none"
    BY <1>11 DEF PersistFails
  <2>2. CASE state[a] = inflight[a]
    <3>1. a \in live /\ promise[a] = "open"
      BY <1>0, <2>1, <2>2 DEF TypeOK, IInv, LiveOwnership, AnswerMatchesState, Verdicts, CloseStates
    <3>2. promise' = [promise EXCEPT ![a] = "deny"]
      BY <1>11, <2>2, <3>1 DEF PersistFails, Settled
    <3>3. QED
      BY <2>1, <3>1, <3>2, SettlingIsConsented
  <2>3. CASE state[a] # inflight[a]
    BY <1>1, <1>11, <2>3 DEF PersistFails
  <2>4. QED
    BY <2>2, <2>3
<1>12. ASSUME NEW a \in Approvals, DeadlinePasses(a) \/ \E v \in Verdicts : DecideAfter(a, v) PROVE Seen
  BY <1>1, <1>12 DEF DeadlinePasses, DecideAfter
<1>13. CASE UNCHANGED vars
  BY <1>1, <1>13 DEF vars, approvalVars
<1>14. QED
  BY <1>2, <1>3, <1>4, <1>5, <1>6, <1>7, <1>8, <1>9, <1>10, <1>11, <1>12, <1>13 DEF Next, Decide

\* As its routes use it (decide() is called by none of them), the broker implements
\* single-use consent: every answer spends a durable consent once, for an open run.
THEOREM BrokerImplementsConsent ==
    ASSUME ~DirectDecide
    PROVE  Spec => ImplementsSingleUseConsent
<1>1. Init => Consent!Init
  BY DEF Init, Consent!Init, Outcome
<1>2. IInv /\ IInv' /\ [Next]_vars => [Consent!Next]_Consent!vars
  BY StepIsConsented
<1>3. QED
  BY <1>1, <1>2, InvHolds, PTL DEF Spec, ImplementsSingleUseConsent, Consent!Spec
=============================================================================
