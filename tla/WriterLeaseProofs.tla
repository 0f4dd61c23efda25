--------------------------- MODULE WriterLeaseProofs ---------------------------
(***************************************************************************)
(* The writer lease, for any number of hosts, machines and inodes: a host  *)
(* without company is not kept out by a leftover lock, and two hosts hold  *)
(* the lease at once only after one of two slips.                          *)
(*                                                                         *)
(* The first needs to know of a lone host that the lock it judges is the   *)
(* one it saw.  The second follows the file of a holder: at the path, or   *)
(* in the one quarantine that is astray, while the path is free.           *)
(***************************************************************************)
EXTENDS WriterLease, FiniteSetTheorems, TLAPS

Claims(h) == pc[h] \in {"identify", "holding"}
Created(h) == Claims(h) \/ pc[h] \in Releasing
Before == {"idle", "open", "stat", "read", "grace", "reread", "judge", "rename", "settle", "reopen"}
Known == used \cup {NoFile}

Typed ==
    /\ TypeOK /\ lock \in Known
    /\ \A h \in Hosts : aside[h] \in Known /\ judged[h] \in Known /\ own[h] \in Known
                        /\ (Created(h) => own[h] # NoFile)

\* A host that has not come to create its lock has no file.
Fresh(h) == pc[h] \in Before => \A i \in Inodes : creator[i] # h

\* What a host that never had company finds is what it saw before.
Alone(h) ==
    h \notin contested =>
       /\ Alive(h) => \A g \in Hosts : Alive(g) => g = h
       /\ pc[h] \in {"stat", "read", "grace", "reread", "judge", "rename"} => lock # NoFile
       /\ pc[h] \in {"read", "reread", "judge", "rename"} => judged[h] = lock
       /\ pc[h] = "settle" => lock = NoFile /\ aside[h] = judged[h]
       /\ pc[h] = "reopen" => lock = NoFile
       /\ pc[h] = "judge" => holder[h] # h
       /\ pc[h] = "refused" => Excused(h)

BaseInv == Typed /\ \A h \in Hosts : Fresh(h) /\ Alone(h)

\* The calls of host h.
HostCall(h) ==
    \/ Start(h) \/ Open(h) \/ Stat(h) \/ ReadIdentity(h) \/ Judge(h)
    \/ Quarantine(h) \/ Settle(h) \/ Reopen(h)
    \/ Identify(h) \/ IdentifyFails(h) \/ Heartbeat(h)
    \/ Release(h) \/ ReleaseStat(h) \/ ReleaseRename(h) \/ ReleaseSettle(h)
    \/ Crash(h)

\* What is not a call of a host: sleep and the passing of time.
Environment == (\E h \in Hosts : Suspend(h) \/ Resume(h)) \/ (\E i \in Inodes : Age(i))

\* What a step leaves alone or only adds to, whoever takes it.
Around ==
    /\ contested' = contested \cup Company' /\ slips' = slips \cup Slipped
    /\ UNCHANGED <<hasProc, elsewhere>>

\* That keeps its types.
AroundTyped ==
    /\ UNCHANGED <<hasProc, elsewhere>>
    /\ fate' \in [Processes -> Fates \cup {"free"}]
    /\ contested' \subseteq Hosts /\ slips' \subseteq {"orphaned", "intruded"}

-----------------------------------------------------------------------------
(* Stages and companions                                                   *)

\* The stages are distinct, and NoFile is no inode.
LEMMA StageForms ==
    /\ Before \subseteq Stages /\ Acquiring \subseteq Stages /\ Releasing \subseteq Stages
    /\ Over \subseteq Stages /\ "holding" \in Stages /\ "identify" \in Stages
    /\ NoFile \notin Inodes
    /\ \A h \in Hosts : Alive(h) <=> pc[h] \notin {"idle", "refused", "failed", "gone", "crashed"}
  BY InodesAreNat DEF Stages, Before, Acquiring, Releasing, Over, NoFile, Inodes, Alive

\* Two hosts that are alive together are contested from then on.
LEMMA CompanyNoted ==
    ASSUME contested' = contested \cup Company', NEW g \in Hosts, NEW h \in Hosts,
           Alive(g)', Alive(h)', g # h
    PROVE  h \in contested'
<1>1. PICK living : living = {f \in Hosts : Alive(f)'}
  OBVIOUS
<1>2. Company' = IF Cardinality(living) > 1 THEN living ELSE {}
  BY <1>1 DEF Company
<1>3. IsFiniteSet(living)
  BY <1>1, HostsAreNamed, FS_Subset
<1>4. {g, h} \subseteq living
  BY <1>1
<1>5. Cardinality({g, h}) = 2
  <2>1. IsFiniteSet({g}) /\ Cardinality({g}) = 1
    BY FS_Singleton
  <2>2. {g, h} = {g} \cup {h}
    OBVIOUS
  <2>3. QED
    BY <2>1, <2>2, FS_AddElement
<1>6. Cardinality(living) \in Nat /\ 2 <= Cardinality(living)
  BY <1>3, <1>4, <1>5, FS_Subset, FS_CardinalityType
<1>7. QED
  BY <1>2, <1>4, <1>6

\* A call of host s changes no other host's stage, files or judgement.
LEMMA OnlySelf ==
    ASSUME TypeOK, NEW s \in Hosts, HostCall(s), NEW g \in Hosts \ {s}
    PROVE  /\ pc'[g] = pc[g] /\ judged'[g] = judged[g] /\ seenStale'[g] = seenStale[g]
           /\ holder'[g] = holder[g] /\ aside'[g] = aside[g] /\ own'[g] = own[g]
<1> USE DEF TypeOK, Go, fileVars, judgeVars
<1>1. CASE Start(s) \/ Release(s)
  BY <1>1 DEF Start, Release
<1>2. CASE Open(s) \/ Reopen(s)
  BY <1>2 DEF Open, Reopen, OpenExclusive
<1>3. CASE Stat(s) \/ ReadIdentity(s) \/ Judge(s)
  BY <1>3 DEF Stat, StatLock, ReadIdentity, Judge
<1>4. CASE Quarantine(s) \/ Settle(s)
  BY <1>4 DEF Quarantine, TakeAside, Settle, DropOrPutBack
<1>5. CASE Identify(s) \/ IdentifyFails(s) \/ Heartbeat(s)
  BY <1>5 DEF Identify, IdentifyFails, Heartbeat
<1>6. CASE ReleaseStat(s) \/ ReleaseRename(s) \/ ReleaseSettle(s) \/ Crash(s)
  BY <1>6 DEF ReleaseStat, ReleaseRename, ReleaseSettle, Crash, TakeAside, DropOrPutBack, CloseHandle
<1>7. QED
  BY <1>1, <1>2, <1>3, <1>4, <1>5, <1>6 DEF HostCall

\* The exclusive open: a new file, or the one that is there.
LEMMA OpenForms ==
    ASSUME NEW s \in Hosts, Open(s) \/ Reopen(s)
    PROVE  /\ pc[s] \in {"open", "reopen"} /\ Runs(s)
           /\ UNCHANGED <<aside, judged, seenStale, holder, suspended>>
           /\ \/ /\ lock = NoFile /\ Go(s, "identify")
                 /\ \E i \in FreeInodes :
                       /\ lock' = i /\ own' = [own EXCEPT ![s] = i] /\ creator' = [creator EXCEPT ![i] = s]
                       /\ identified' = identified \ {i} /\ stale' = stale \ {i} /\ used' = used \cup {i}
              \/ /\ lock # NoFile
                 /\ Go(s, IF pc[s] = "open" THEN "stat" ELSE "refused")
                 /\ UNCHANGED <<lock, own, creator, identified, stale, used>>
<1>1. CASE Open(s)
  BY <1>1 DEF Open, OpenExclusive, fileVars, judgeVars
<1>2. CASE Reopen(s)
  BY <1>2 DEF Reopen, OpenExclusive, fileVars, judgeVars
<1>3. QED
  BY <1>1, <1>2

-----------------------------------------------------------------------------
(* Types                                                                   *)

\* An exclusive open keeps the types, whether it creates the lock or finds one.
LEMMA OpenTyped ==
    ASSUME Typed, NEW s \in Hosts, Open(s) \/ Reopen(s), AroundTyped
    PROVE  Typed'
<1>1. CASE lock = NoFile
  <2>1. PICK i \in FreeInodes :
           /\ lock' = i /\ own' = [own EXCEPT ![s] = i] /\ creator' = [creator EXCEPT ![i] = s]
           /\ identified' = identified \ {i} /\ stale' = stale \ {i} /\ used' = used \cup {i}
    BY <1>1, OpenForms
  <2>2. i \in Inodes
    BY DEF FreeInodes
  <2>3. Go(s, "identify") /\ UNCHANGED <<aside, judged, seenStale, holder, suspended>>
    BY <1>1, OpenForms
  <2>4. QED
    BY <2>1, <2>2, <2>3, StageForms
       DEF Typed, TypeOK, AroundTyped, Go, Known, Created, Claims, Releasing, Stages, Acquiring, Processes
<1>2. CASE lock # NoFile
  <2>1. PICK stage \in {"stat", "refused"} : Go(s, stage)
    BY <1>2, OpenForms
  <2>2. UNCHANGED <<lock, own, creator, identified, stale, used, aside, judged, seenStale, holder, suspended>>
    BY <1>2, OpenForms
  <2>3. QED
    BY <2>1, <2>2, StageForms
       DEF Typed, TypeOK, AroundTyped, Go, Known, Created, Claims, Releasing, Stages, Acquiring, Over
<1>3. QED
  BY <1>1, <1>2

\* A call of a host keeps the types, and every file in use was handed out.
LEMMA CallTyped ==
    ASSUME Typed, NEW s \in Hosts, HostCall(s), AroundTyped
    PROVE  Typed'
<1> USE StageForms DEF Typed, TypeOK, AroundTyped, Go, fileVars, judgeVars, Known
<1>1. CASE Start(s) \/ Release(s)
  BY <1>1 DEF Start, Release, Created, Claims, Releasing, Stages, Acquiring
<1>2. CASE Open(s) \/ Reopen(s)
  BY <1>2, OpenTyped
<1>3. CASE Stat(s)
  <2>1. UNCHANGED <<lock, aside, own, creator, identified, stale, used, holder, suspended>>
    BY <1>3 DEF Stat, StatLock
  <2>2. \/ Go(s, "refused") /\ UNCHANGED <<judged, seenStale>>
        \/ \E stage \in {"read", "reread"} :
              /\ lock # NoFile /\ Go(s, stage)
              /\ judged' = [judged EXCEPT ![s] = lock]
              /\ seenStale' = [seenStale EXCEPT ![s] = lock \in stale]
    BY <1>3 DEF Stat, StatLock
  <2>3. CASE Go(s, "refused") /\ UNCHANGED <<judged, seenStale>>
    BY <2>1, <2>3 DEF Created, Claims, Releasing, Stages, Acquiring, Over
  <2>4. ASSUME NEW stage \in {"read", "reread"}, lock # NoFile, Go(s, stage),
               judged' = [judged EXCEPT ![s] = lock], seenStale' = [seenStale EXCEPT ![s] = lock \in stale]
        PROVE  Typed'
    <3>1. (lock \in stale) \in BOOLEAN
      OBVIOUS
    <3>2. seenStale' \in [Hosts -> BOOLEAN]
      BY <2>4, <3>1
    <3>3. QED
      BY <2>1, <2>4, <3>2 DEF Created, Claims, Releasing, Stages, Acquiring, Over
  <2>5. QED
    BY <2>2, <2>3, <2>4
<1>4. CASE ReadIdentity(s)
  <2>1. PICK read : /\ read = IF lock \in identified THEN creator[lock] ELSE Nobody
                    /\ holder' = [holder EXCEPT ![s] = read]
                    /\ Go(s, IF read = Nobody /\ pc[s] = "read" THEN "grace" ELSE "judge")
    BY <1>4 DEF ReadIdentity
  <2>2. read \in Processes \cup {Nobody}
    BY <2>1
  <2>3. QED
    BY <1>4, <2>1, <2>2 DEF ReadIdentity, Created, Claims, Releasing, Stages, Acquiring
<1>5. CASE Judge(s)
  BY <1>5 DEF Judge, Created, Claims, Releasing, Stages, Acquiring, Over
<1>6. CASE Quarantine(s) \/ Settle(s)
  BY <1>6 DEF Quarantine, TakeAside, Settle, DropOrPutBack, Created, Claims, Releasing, Stages, Acquiring, Over
<1>7. CASE Identify(s) \/ IdentifyFails(s) \/ Heartbeat(s)
  BY <1>7 DEF Identify, IdentifyFails, Heartbeat, Created, Claims, Releasing, Stages, Over
<1>8. CASE ReleaseStat(s)
  BY <1>8 DEF ReleaseStat, CloseHandle, Created, Claims, Releasing, Stages, Over
<1>9. CASE ReleaseRename(s)
  BY <1>9 DEF ReleaseRename, TakeAside, CloseHandle, Created, Claims, Releasing, Stages, Over
<1>10. CASE ReleaseSettle(s)
  BY <1>10 DEF ReleaseSettle, DropOrPutBack, CloseHandle, Created, Claims, Releasing, Stages, Over
<1>11. CASE Crash(s)
  BY <1>11 DEF Crash, CloseHandle, Created, Claims, Releasing, Stages, Over
<1>12. QED
  BY <1>1, <1>2, <1>3, <1>4, <1>5, <1>6, <1>7, <1>8, <1>9, <1>10, <1>11 DEF HostCall

\* Sleep and time change no more than who is stopped and which files are old.
LEMMA EnvironmentEffect ==
    ASSUME Typed, Environment
    PROVE  /\ UNCHANGED <<pc, lock, aside, own, creator, identified, used, judged, seenStale, holder>>
           /\ stale' \subseteq used /\ stale \subseteq stale' /\ suspended' \subseteq Hosts
<1>1. CASE \E h \in Hosts : Suspend(h) \/ Resume(h)
  BY <1>1 DEF Suspend, Resume, Typed, TypeOK, fileVars, judgeVars
<1>2. ASSUME NEW i \in Inodes, Age(i)
      PROVE  /\ UNCHANGED <<pc, lock, aside, own, creator, identified, used, judged, seenStale, holder>>
             /\ stale' \subseteq used /\ stale \subseteq stale' /\ suspended' \subseteq Hosts
  <2>1. i \in used
    BY <1>2, InodesAreNat DEF Age, Linked, Typed, Known
  <2>2. QED
    BY <1>2, <2>1 DEF Age, judgeVars, Typed, TypeOK
<1>3. QED
  BY <1>1, <1>2 DEF Environment

-----------------------------------------------------------------------------
(* A host that had no company                                              *)

\* No host has a file before it creates one.
LEMMA CallFresh ==
    ASSUME BaseInv, NEW s \in Hosts, HostCall(s)
    PROVE  \A h \in Hosts : Fresh(h)'
<1>1. ASSUME NEW h \in Hosts, UNCHANGED creator, pc'[h] \in Before => pc[h] \in Before PROVE Fresh(h)'
  BY <1>1 DEF BaseInv, Fresh
<1>2. \A g \in Hosts \ {s} : pc'[g] = pc[g]
  BY OnlySelf DEF BaseInv, Typed
<1>3. TypeOK
  BY DEF BaseInv, Typed
<1> USE DEF TypeOK, Go, fileVars, judgeVars, Before
<1>4. CASE UNCHANGED creator /\ (pc'[s] \in Before => pc[s] \in Before)
  BY <1>1, <1>2, <1>4
<1>5. CASE Start(s) \/ Stat(s) \/ ReadIdentity(s) \/ Judge(s) \/ Quarantine(s) \/ Settle(s)
  <2>1. UNCHANGED creator /\ pc[s] \in Before
    BY <1>5 DEF Start, Stat, StatLock, ReadIdentity, Judge, Quarantine, TakeAside, Settle
  <2>2. QED
    BY <1>4, <2>1
<1>6. CASE \/ Identify(s) \/ IdentifyFails(s) \/ Heartbeat(s) \/ Release(s)
           \/ ReleaseStat(s) \/ ReleaseRename(s) \/ ReleaseSettle(s) \/ Crash(s)
  <2>1. UNCHANGED creator /\ pc'[s] \notin Before
    BY <1>3, <1>6 DEF Identify, IdentifyFails, Heartbeat, Release, ReleaseStat, ReleaseRename, TakeAside,
                      ReleaseSettle, Crash
  <2>2. QED
    BY <1>4, <2>1
<1>7. CASE Open(s) \/ Reopen(s)
  <2>1. pc[s] \in Before
    BY <1>7 DEF Open, Reopen
  <2>2. CASE UNCHANGED creator
    BY <1>4, <2>1, <2>2
  <2>3. CASE \E i \in FreeInodes : creator' = [creator EXCEPT ![i] = s] /\ pc'[s] = "identify"
    <3>1. PICK i \in FreeInodes : creator' = [creator EXCEPT ![i] = s]
      BY <2>3
    <3>2. ASSUME NEW h \in Hosts PROVE Fresh(h)'
      <4>1. CASE h = s
        BY <2>3, <4>1 DEF Fresh
      <4>2. CASE h # s
        <5>1. pc'[h] = pc[h] /\ Fresh(h)
          BY <1>2, <4>2 DEF BaseInv
        <5>2. \A j \in Inodes : creator'[j] \in {creator[j], s}
          BY <1>3, <3>1
        <5>3. QED
          BY <4>2, <5>1, <5>2 DEF Fresh
      <4>3. QED
        BY <4>1, <4>2
    <3>3. QED
      BY <3>2
  <2>4. QED
    BY <1>3, <1>7, <2>2, <2>3 DEF Open, Reopen, OpenExclusive
<1>8. QED
  BY <1>5, <1>6, <1>7 DEF HostCall

\* While a host that had no company is alive, no other host does anything.
LEMMA NobodyElse ==
    ASSUME BaseInv, NEW s \in Hosts, HostCall(s), Around,
           NEW h \in Hosts \ {s}, h \notin contested'
    PROVE  ~Alive(h)
<1>1. SUFFICES ASSUME Alive(h) PROVE FALSE
  OBVIOUS
<1>2. Alone(h) /\ TypeOK /\ h \notin contested
  BY DEF BaseInv, Typed, Around
<1>3. ~Alive(s)
  BY <1>1, <1>2 DEF Alone
<1>4. Start(s)
  BY <1>3, StageForms
     DEF HostCall, Open, Stat, ReadIdentity, Judge, Quarantine, Settle, Reopen, Identify, IdentifyFails,
         Heartbeat, Release, ReleaseStat, ReleaseRename, ReleaseSettle, Crash
<1>5. pc'[s] = "open" /\ pc'[h] = pc[h]
  BY <1>2, <1>4, OnlySelf DEF Start, Go, TypeOK
<1>6. Alive(s)' /\ Alive(h)'
  BY <1>1, <1>5, StageForms DEF Alive, Over
<1>7. QED
  BY <1>6, CompanyNoted DEF Around

\* A call tells a host nothing about another one that never had company.
LEMMA CallOthersAlone ==
    ASSUME BaseInv, NEW s \in Hosts, HostCall(s), Around, UNCHANGED fate,
           NEW h \in Hosts \ {s}
    PROVE  Alone(h)'
<1>1. SUFFICES ASSUME h \notin contested' PROVE Alone(h)'
  BY DEF Alone
<1>2. Alone(h) /\ TypeOK /\ ~Alive(h) /\ h \notin contested
  BY <1>1, NobodyElse DEF BaseInv, Typed, Around
<1>3. /\ pc'[h] = pc[h] /\ seenStale'[h] = seenStale[h] /\ holder'[h] = holder[h]
  BY <1>2, OnlySelf
<1>4. pc[h] \in {"idle", "refused", "failed", "gone", "crashed"}
  BY <1>2, StageForms
<1>5. ~Alive(h)'
  BY <1>3, <1>4 DEF Alive, Over
<1>6. Excused(h) => Excused(h)'
  BY <1>3 DEF Around, Excused, Elsewhere, Taken
<1>7. QED
  BY <1>1, <1>2, <1>3, <1>4, <1>5, <1>6 DEF Alone

\* What a host without company judges is the lock it saw, left by a host that is gone.
LEMMA CallSelfAlone ==
    ASSUME BaseInv, NEW s \in Hosts, HostCall(s), Around, UNCHANGED fate
    PROVE  Alone(s)'
<1>1. SUFFICES ASSUME s \notin contested' PROVE Alone(s)'
  BY DEF Alone
<1>2. Alone(s) /\ Typed /\ TypeOK /\ Fresh(s) /\ s \notin contested
  BY <1>1 DEF BaseInv, Typed, Around
<1>3. Alive(s)' => \A g \in Hosts : Alive(g)' => g = s
  BY <1>1, CompanyNoted DEF Around
<1>4. ASSUME pc'[s] \notin {"stat", "read", "grace", "reread", "judge", "rename", "settle", "reopen", "refused"}
      PROVE  Alone(s)'
  BY <1>3, <1>4 DEF Alone
<1>5. CASE \/ Start(s) \/ Identify(s) \/ IdentifyFails(s) \/ Heartbeat(s) \/ Release(s)
           \/ ReleaseStat(s) \/ ReleaseRename(s) \/ ReleaseSettle(s) \/ Crash(s)
  <2>1. pc'[s] \notin {"stat", "read", "grace", "reread", "judge", "rename", "settle", "reopen", "refused"}
    BY <1>2, <1>5 DEF TypeOK, Go, Start, Identify, IdentifyFails, Heartbeat, Release, ReleaseStat,
                      ReleaseRename, TakeAside, ReleaseSettle, Crash
  <2>2. QED
    BY <1>4, <2>1
<1>6. CASE Open(s) \/ Reopen(s)
  <2>1. CASE lock = NoFile
    <3>1. pc'[s] = "identify"
      BY <1>2, <1>6, <2>1, OpenForms DEF Go, TypeOK
    <3>2. QED
      BY <1>4, <3>1
  <2>2. CASE lock # NoFile
    <3>1. pc[s] = "open"
      BY <1>2, <1>6, <2>2, OpenForms DEF Alone
    <3>2. pc'[s] = "stat" /\ lock' = lock
      BY <1>2, <1>6, <2>2, <3>1, OpenForms DEF Go, TypeOK
    <3>3. lock' # NoFile'
      BY <2>2, <3>2 DEF NoFile
    <3>4. QED
      BY <1>3, <3>2, <3>3 DEF Alone
  <2>3. QED
    BY <2>1, <2>2
<1>7. CASE Stat(s)
  <2>1. lock # NoFile /\ pc[s] \in {"stat", "grace"}
    BY <1>2, <1>7 DEF Alone, Stat
  <2>2. pc'[s] \in {"read", "reread"} /\ lock' = lock /\ judged'[s] = lock
    BY <1>2, <1>7, <2>1 DEF Stat, StatLock, Go, TypeOK, fileVars
  <2>3. QED
    BY <1>3, <2>1, <2>2 DEF Alone, NoFile
<1>8. CASE ReadIdentity(s)
  <2>1. lock # NoFile /\ judged[s] = lock /\ pc[s] \in {"read", "reread"}
    BY <1>2, <1>8 DEF Alone, ReadIdentity
  <2>2. PICK read : /\ read = IF lock \in identified THEN creator[lock] ELSE Nobody
                    /\ holder' = [holder EXCEPT ![s] = read]
                    /\ Go(s, IF read = Nobody /\ pc[s] = "read" THEN "grace" ELSE "judge")
    BY <1>8 DEF ReadIdentity
  <2>3. read # s
    <3>1. lock \in Inodes /\ Nobody \notin Hosts
      BY <1>2, <2>1, HostsAreNamed DEF TypeOK, Processes
    <3>2. creator[lock] # s
      BY <1>2, <2>1, <3>1 DEF Fresh, Before
    <3>3. QED
      BY <2>2, <3>1, <3>2
  <2>4. /\ pc'[s] \in {"grace", "judge"} /\ lock' = lock /\ judged'[s] = lock /\ holder'[s] # s
    BY <1>2, <1>8, <2>1, <2>2, <2>3 DEF ReadIdentity, Go, TypeOK, fileVars
  <2>5. QED
    BY <1>3, <2>1, <2>4 DEF Alone, NoFile
<1>9. CASE Judge(s)
  <2>1. lock # NoFile /\ judged[s] = lock /\ holder[s] # s /\ pc[s] = "judge" /\ Alive(s)
    BY <1>2, <1>9, StageForms DEF Alone, Judge
  <2>2. PICK state \in HolderStates(s, holder[s]) :
           Go(s, IF Orphaned(state, seenStale[s]) THEN "rename" ELSE "refused")
    BY <1>9 DEF Judge
  <2>3. UNCHANGED <<lock, judged, seenStale, holder>>
    BY <1>9 DEF Judge, fileVars, judgeVars
  <2>4. CASE Orphaned(state, seenStale[s])
    <3>1. pc'[s] = "rename"
      BY <1>2, <2>2, <2>4 DEF Go, TypeOK
    <3>2. QED
      BY <1>3, <2>1, <2>3, <3>1 DEF Alone, NoFile
  <2>5. CASE ~Orphaned(state, seenStale[s])
    <3>1. pc'[s] = "refused"
      BY <1>2, <2>2, <2>5 DEF Go, TypeOK
    <3>2. Excused(s)
      <4>1. CASE holder[s] = Nobody
        BY <2>2, <2>5, <4>1 DEF HolderStates, Orphaned, Excused
      <4>2. CASE holder[s] # Nobody /\ Elsewhere(s, holder[s])
        BY <2>2, <2>5, <4>2 DEF HolderStates, Orphaned, Excused
      <4>3. CASE holder[s] # Nobody /\ ~Elsewhere(s, holder[s])
        <5>1. ~Alive(holder[s])
          BY <1>2, <2>1 DEF Alone, Alive
        <5>2. fate[holder[s]] \in Fates \cup {"free"}
          BY <1>2, <4>3 DEF TypeOK
        <5>3. fate[holder[s]] \in {"free", "sameUser", "otherUser", "brief"}
          BY <5>2, FatesAreKnown
        <5>4. /\ fate[holder[s]] = "free" => state = "dead"
              /\ fate[holder[s]] = "otherUser" => state = "unknown"
              /\ fate[holder[s]] = "sameUser" => state = IF hasProc THEN "dead" ELSE "alive"
              /\ fate[holder[s]] = "brief" => state \in {"dead", "alive"}
          BY <2>2, <4>3, <5>1, <5>3 DEF HolderStates
        <5>5. QED
          BY <2>5, <4>3, <5>2, <5>3, <5>4 DEF Orphaned, Excused, Taken
      <4>4. QED
        BY <4>1, <4>2, <4>3
    <3>3. Excused(s)'
      BY <2>3, <3>2 DEF Around, Excused, Elsewhere, Taken
    <3>4. QED
      BY <1>3, <3>1, <3>3 DEF Alone
  <2>6. QED
    BY <2>4, <2>5
<1>10. CASE Quarantine(s)
  <2>1. lock # NoFile /\ judged[s] = lock
    BY <1>2, <1>10 DEF Alone, Quarantine
  <2>2. pc'[s] = "settle" /\ lock' = NoFile /\ aside'[s] = lock /\ judged'[s] = judged[s]
    BY <1>2, <1>10, <2>1 DEF Quarantine, TakeAside, Go, TypeOK, judgeVars
  <2>3. QED
    BY <1>3, <2>1, <2>2 DEF Alone, NoFile
<1>11. CASE Settle(s)
  <2>1. lock = NoFile /\ aside[s] = judged[s]
    BY <1>2, <1>11 DEF Alone, Settle
  <2>2. pc'[s] = "reopen" /\ lock' = NoFile
    BY <1>2, <1>11, <2>1 DEF Settle, DropOrPutBack, SameFile, Go, TypeOK
  <2>3. QED
    BY <1>3, <2>2 DEF Alone, NoFile
<1>12. QED
  BY <1>5, <1>6, <1>7, <1>8, <1>9, <1>10, <1>11 DEF HostCall

\* A freshly started machine: at most a leftover lock, and no host on the way.
LEMMA BaseInit ==
    ASSUME Init
    PROVE  BaseInv
<1>1. lock \in Known /\ used \subseteq Inodes
  BY InodesAreNat DEF Init, Known, NoFile, Inodes
<1>2. TypeOK
  BY <1>1, InodesAreNat, StageForms DEF Init, TypeOK, Stages, Processes, Inodes, NoFile
<1>3. Typed
  BY <1>1, <1>2 DEF Init, Typed, Known, Created, Claims, Releasing, NoFile
<1>4. \A h \in Hosts : Fresh(h)
  BY HostsAreNamed DEF Init, Fresh
<1>5. \A h \in Hosts : Alone(h)
  BY DEF Init, Alone, Alive
<1>6. QED
  BY <1>3, <1>4, <1>5 DEF BaseInv

\* A step is a call of a host, of the environment, or gives a pid away.
LEMMA StepForms ==
    ASSUME Next
    PROVE  /\ Around
           /\ \/ UNCHANGED fate /\ ((\E s \in Hosts : HostCall(s)) \/ Environment)
              \/ \E p \in Processes : Reassign(p)
  BY DEF Next, HostStep, HostCall, Environment, Around

\* Every step keeps the types of what it only adds to.
LEMMA StepAround ==
    ASSUME TypeOK, Next
    PROVE  AroundTyped
<1>1. Around
  BY StepForms
<1>2. fate' \in [Processes -> Fates \cup {"free"}]
  BY StepForms DEF TypeOK, Reassign
<1>3. Company' \subseteq Hosts
  BY DEF Company
<1>4. Slipped \subseteq {"orphaned", "intruded"}
  BY DEF Slipped
<1>5. QED
  BY <1>1, <1>2, <1>3, <1>4 DEF Around, AroundTyped, TypeOK

\* Sleep, time and new owners of pids tell a lone host nothing, and excuse it
\* no less.
LEMMA AsideBase ==
    ASSUME BaseInv, Around, AroundTyped,
           (Environment /\ UNCHANGED fate) \/ \E p \in Processes : Reassign(p)
    PROVE  BaseInv'
<1>1. /\ UNCHANGED <<pc, lock, aside, own, creator, identified, used, judged, seenStale, holder>>
      /\ stale' \subseteq used /\ suspended' \subseteq Hosts
  BY EnvironmentEffect DEF BaseInv, Reassign, fileVars, judgeVars, Typed, TypeOK
<1>2. Typed'
  BY <1>1 DEF BaseInv, Typed, TypeOK, AroundTyped, Known, Created, Claims
<1>3. \A p \in Processes : fate[p] # "free" => fate'[p] = fate[p]
  BY DEF Reassign, BaseInv, Typed, TypeOK
<1>4. ASSUME NEW h \in Hosts, Excused(h) PROVE Excused(h)'
  <2>1. ASSUME NEW S, S \subseteq Fates, Taken(holder[h], S) PROVE Taken(holder[h], S)'
    <3>1. holder[h] \in Processes /\ "free" \notin Fates
      BY <2>1, FatesAreKnown DEF Taken, BaseInv, Typed, TypeOK
    <3>2. QED
      BY <1>1, <1>3, <2>1, <3>1 DEF Taken
  <2>2. Taken(holder[h], {"otherUser"}) => "otherUser" \in Fates
    BY DEF Taken, BaseInv, Typed, TypeOK
  <2>3. Taken(holder[h], {"brief"}) => "brief" \in Fates
    BY DEF Taken, BaseInv, Typed, TypeOK
  <2>4. /\ Taken(holder[h], {"otherUser"}) => Taken(holder[h], {"otherUser"})'
        /\ Taken(holder[h], {"brief"}) => Taken(holder[h], {"brief"})'
        /\ Taken(holder[h], Fates) => Taken(holder[h], Fates)'
    BY <2>1, <2>2, <2>3
  <2>5. QED
    BY <1>1, <1>4, <2>4 DEF Excused, Elsewhere, Around
<1>5. \A h \in Hosts : Fresh(h)' /\ Alone(h)'
  BY <1>1, <1>4 DEF BaseInv, Fresh, Alone, Alive, Around
<1>6. QED
  BY <1>2, <1>5 DEF BaseInv

\* Every step keeps the types and what a lone host knows.
LEMMA BaseStep ==
    ASSUME BaseInv, [Next]_vars
    PROVE  BaseInv'
<1>1. CASE UNCHANGED vars
  BY <1>1 DEF vars, fileVars, judgeVars, BaseInv, Typed, TypeOK, Known, Created, Claims, Fresh, Alone, Alive,
              Excused, Elsewhere, Taken
<1>2. CASE Next
  <2>1. Around /\ AroundTyped
    BY <1>2, StepForms, StepAround DEF BaseInv, Typed
  <2>2. ASSUME NEW s \in Hosts, HostCall(s), UNCHANGED fate PROVE BaseInv'
    <3>1. Typed'
      BY <2>1, <2>2, CallTyped DEF BaseInv
    <3>2. \A h \in Hosts : Fresh(h)'
      BY <2>2, CallFresh
    <3>3. \A h \in Hosts \ {s} : Alone(h)'
      BY <2>1, <2>2, CallOthersAlone
    <3>4. Alone(s)'
      BY <2>1, <2>2, CallSelfAlone
    <3>5. QED
      BY <3>1, <3>2, <3>3, <3>4 DEF BaseInv
  <2>3. CASE (Environment /\ UNCHANGED fate) \/ \E p \in Processes : Reassign(p)
    BY <2>1, <2>3, AsideBase
  <2>4. QED
    BY <1>2, <2>2, <2>3, StepForms
<1>3. QED
  BY <1>1, <1>2

\* The base invariant holds throughout.
THEOREM BaseHolds == Spec => []BaseInv
<1>1. Init => BaseInv
  BY BaseInit
<1>2. BaseInv /\ [Next]_vars => BaseInv'
  BY BaseStep
<1>3. QED
  BY <1>1, <1>2, PTL DEF Spec

\* The lease's state is well typed, whatever the hosts and the file system do.
THEOREM TypeCorrect == Spec => []TypeOK
<1>1. BaseInv => TypeOK
  BY DEF BaseInv, Typed
<1>2. QED
  BY <1>1, BaseHolds, PTL

\* A host that starts alone is never kept out by the lock of one that is gone
\* (acquireWriterLease, reclaimOrphanedWriterLock, writerLeaseHolderState),
\* whatever that one left behind, whatever became of its pid and whatever the
\* file system does with inodes, but for what Excused names: a young lock without
\* identity, of another machine, or whose pid belongs to a process that cannot be
\* told from the holder, and a process that had the pid and ended meanwhile.
THEOREM RestartSucceeds == Spec => []RestartIsNotRefused
<1>1. BaseInv => RestartIsNotRefused
  BY DEF BaseInv, Alone, RestartIsNotRefused
<1>2. QED
  BY <1>1, BaseHolds, PTL

-----------------------------------------------------------------------------
(* Two writers need a slip                                                 *)

\* A host has its lock file open from its creation to the end of its release,
\* has something in quarantine only while it is to settle it, or crashed, and no
\* two hosts have one file open.
Places ==
    /\ \A h \in Hosts :
          /\ own[h] # NoFile <=> Keeps(h) \/ pc[h] = "releaseSettle"
          /\ aside[h] # NoFile => pc[h] \in {"settle", "releaseSettle", "crashed"}
    /\ \A g, h \in Hosts : own[g] = own[h] /\ own[g] # NoFile => g = h

\* While there was no slip: a file is astray only while the path is free and no
\* other file is, what a host judged and took nobody has open, and the lock that
\* a host keeps is at the path or in another host's quarantine.
Orderly ==
    slips = {} =>
       /\ \A k \in Hosts : Astray(k) => lock = NoFile /\ \A g \in Hosts : Astray(g) => g = k
       /\ \A k \in Hosts : pc[k] = "settle" /\ aside[k] = judged[k] =>
             \A g \in Hosts : ~HasOpen(g, aside[k])
       /\ \A h \in Hosts : Keeps(h) => lock = own[h] \/ \E k \in Hosts \ {h} : aside[k] = own[h]

SlipInv == BaseInv /\ Places /\ Orderly

\* What two hosts that keep their locks would have to share.
LEMMA OneKeeper ==
    ASSUME SlipInv, slips = {}, NEW g \in Hosts, NEW h \in Hosts, Keeps(g), Keeps(h)
    PROVE  g = h
<1>1. SUFFICES ASSUME g # h PROVE FALSE
  OBVIOUS
<1>2. own[g] # NoFile /\ own[h] # NoFile /\ own[g] # own[h]
  BY <1>1 DEF SlipInv, Places
<1>3. ASSUME NEW f \in Hosts, Keeps(f), own[f] # NoFile, lock # own[f]
      PROVE  \E k \in Hosts : Astray(k) /\ aside[k] = own[f]
  <2>1. PICK k \in Hosts \ {f} : aside[k] = own[f]
    BY <1>3 DEF SlipInv, Orderly
  <2>2. Astray(k)
    BY <1>3, <2>1 DEF Astray, HasOpen
  <2>3. QED
    BY <2>1, <2>2
<1>4. CASE lock = own[g]
  <2>1. PICK k \in Hosts : Astray(k) /\ aside[k] = own[h]
    BY <1>2, <1>3, <1>4
  <2>2. QED
    BY <1>2, <1>4, <2>1 DEF SlipInv, Orderly
<1>5. CASE lock = own[h]
  <2>1. PICK k \in Hosts : Astray(k) /\ aside[k] = own[g]
    BY <1>2, <1>3, <1>5
  <2>2. QED
    BY <1>2, <1>5, <2>1 DEF SlipInv, Orderly
<1>6. CASE lock # own[g] /\ lock # own[h]
  <2>1. PICK k \in Hosts : Astray(k) /\ aside[k] = own[g]
    BY <1>2, <1>3, <1>6
  <2>2. PICK l \in Hosts : Astray(l) /\ aside[l] = own[h]
    BY <1>2, <1>3, <1>6
  <2>3. k = l
    BY <2>1, <2>2 DEF SlipInv, Orderly
  <2>4. QED
    BY <1>2, <2>1, <2>2, <2>3
<1>7. QED
  BY <1>4, <1>5, <1>6
\* What a step without a slip shows.
LEMMA NoSlip ==
    ASSUME SlipInv, NEW s \in Hosts, HostCall(s), Around, slips' = {}
    PROVE  /\ slips = {}
           /\ pc[s] = "rename" /\ pc'[s] = "settle" /\ lock = judged[s] =>
                 \A g \in Hosts \ {s} : ~HasOpen(g, lock)
           /\ pc[s] \in {"open", "reopen"} /\ pc'[s] = "identify" => \A k \in Hosts : ~Astray(k)
<1>1. slips = {} /\ Slipped = {}
  BY DEF Around
<1>2. {"orphaned" : h \in {g \in Hosts : /\ pc[g] = "rename" /\ pc'[g] = "settle"
                                        /\ lock = judged[g]
                                        /\ \E k \in Hosts \ {g} : HasOpen(k, lock)}} = {}
  BY <1>1 DEF Slipped
<1>3. {"intruded" : h \in {g \in Hosts : /\ pc[g] \in {"open", "reopen"} /\ pc'[g] = "identify"
                                        /\ \E k \in Hosts : Astray(k)}} = {}
  BY <1>1 DEF Slipped
<1>4. QED
  BY <1>1, <1>2, <1>3

\* The other hosts' part of the places is theirs.
LEMMA CallPlaces ==
    ASSUME SlipInv, NEW s \in Hosts, HostCall(s)
    PROVE  Places'
<1>1. TypeOK /\ Places /\ \A g \in Hosts \ {s} : pc'[g] = pc[g] /\ aside'[g] = aside[g] /\ own'[g] = own[g]
  BY OnlySelf DEF SlipInv, BaseInv, Typed
<1>2. ASSUME own'[s] # NoFile <=> Keeps(s)' \/ pc'[s] = "releaseSettle",
             aside'[s] # NoFile => pc'[s] \in {"settle", "releaseSettle", "crashed"},
             \A g \in Hosts \ {s} : own'[s] = own[g] => own'[s] = NoFile
      PROVE  Places'
  BY <1>1, <1>2 DEF Places, Keeps, NoFile
<1> USE DEF TypeOK, Go, fileVars, judgeVars
<1>3. CASE UNCHANGED <<aside, own>> /\ pc[s] \notin {"settle", "releaseSettle", "crashed"}
           /\ pc'[s] # "releaseSettle" /\ (Keeps(s)' <=> Keeps(s))
  BY <1>1, <1>2, <1>3 DEF Places
<1>4. CASE Start(s) \/ Stat(s) \/ Judge(s) \/ Release(s) \/ Identify(s) \/ Heartbeat(s)
  <2>1. /\ UNCHANGED <<aside, own>> /\ pc[s] \notin {"settle", "releaseSettle", "crashed"}
        /\ pc'[s] # "releaseSettle" /\ (Keeps(s)' <=> Keeps(s))
    BY <1>1, <1>4 DEF Start, Stat, StatLock, Judge, Release, Identify, Heartbeat, Keeps
  <2>2. QED
    BY <1>3, <2>1
<1>5. CASE ReadIdentity(s)
  <2>1. PICK stage \in {"grace", "judge"} : Go(s, stage)
    BY <1>5 DEF ReadIdentity
  <2>2. /\ UNCHANGED <<aside, own>> /\ pc[s] \notin {"settle", "releaseSettle", "crashed"}
        /\ pc'[s] # "releaseSettle" /\ (Keeps(s)' <=> Keeps(s))
    BY <1>1, <1>5, <2>1 DEF ReadIdentity, Keeps
  <2>3. QED
    BY <1>3, <2>2
<1>6. CASE (Open(s) \/ Reopen(s)) /\ lock # NoFile
  <2>1. PICK stage \in {"stat", "refused"} : Go(s, stage)
    BY <1>6, OpenForms
  <2>2. /\ UNCHANGED <<aside, own>> /\ pc[s] \notin {"settle", "releaseSettle", "crashed"}
        /\ pc'[s] # "releaseSettle" /\ (Keeps(s)' <=> Keeps(s))
    BY <1>1, <1>6, <2>1, OpenForms DEF Keeps
  <2>3. QED
    BY <1>3, <2>2
<1>7. CASE (Open(s) \/ Reopen(s)) /\ lock = NoFile
  <2>1. PICK i \in FreeInodes : own' = [own EXCEPT ![s] = i]
    BY <1>7, OpenForms
  <2>2. i # NoFile /\ \A g \in Hosts : own[g] # i
    BY <2>1, StageForms DEF FreeInodes
  <2>3. own'[s] = i /\ pc'[s] = "identify" /\ aside'[s] = aside[s] /\ pc[s] \in {"open", "reopen"}
    BY <1>1, <1>7, <2>1, OpenForms
  <2>4. aside'[s] = NoFile
    BY <1>1, <2>3 DEF Places
  <2>5. QED
    BY <1>2, <2>2, <2>3, <2>4 DEF Keeps, NoFile
<1>8. CASE Quarantine(s) \/ Settle(s)
  <2>1. pc[s] \in {"rename", "settle"} /\ own' = own /\ pc'[s] \in {"settle", "reopen", "refused"}
    BY <1>1, <1>8 DEF Quarantine, TakeAside, Settle
  <2>2. own[s] = NoFile
    BY <1>1, <2>1 DEF Places, Keeps
  <2>3. aside'[s] # NoFile => pc'[s] = "settle"
    BY <1>1, <1>8 DEF Quarantine, TakeAside, Settle, DropOrPutBack, Places
  <2>4. QED
    BY <1>2, <2>1, <2>2, <2>3 DEF Keeps, NoFile
<1>9. CASE ReleaseRename(s) /\ lock # NoFile
  <2>1. own' = own /\ pc[s] = "releaseRename" /\ pc'[s] = "releaseSettle"
    BY <1>1, <1>9 DEF ReleaseRename, TakeAside
  <2>2. own[s] # NoFile
    BY <1>1, <2>1 DEF Places, Keeps
  <2>3. QED
    BY <1>1, <1>2, <2>1, <2>2 DEF Places, NoFile
<1>10. CASE ReleaseStat(s) /\ lock = own[s]
  <2>1. /\ UNCHANGED <<aside, own>> /\ pc[s] \notin {"settle", "releaseSettle", "crashed"}
        /\ pc'[s] # "releaseSettle" /\ (Keeps(s)' <=> Keeps(s))
    BY <1>1, <1>10 DEF ReleaseStat, Keeps
  <2>2. QED
    BY <1>3, <2>1
<1>11. CASE \/ IdentifyFails(s) \/ ReleaseSettle(s) \/ Crash(s)
            \/ ReleaseStat(s) /\ lock # own[s]
            \/ ReleaseRename(s) /\ lock = NoFile
  <2>1. own'[s] = NoFile /\ pc'[s] \in {"failed", "gone", "crashed"}
    BY <1>1, <1>11 DEF IdentifyFails, ReleaseSettle, Crash, ReleaseStat, ReleaseRename, CloseHandle
  <2>2. aside'[s] # NoFile => pc'[s] = "crashed"
    BY <1>1, <1>11 DEF IdentifyFails, ReleaseSettle, Crash, ReleaseStat, ReleaseRename, CloseHandle,
                       DropOrPutBack, Places
  <2>3. QED
    BY <1>2, <2>1, <2>2 DEF Keeps, NoFile
<1>12. CASE Open(s) \/ Reopen(s)
  BY <1>6, <1>7, <1>12
<1>13. CASE ReleaseStat(s)
  BY <1>10, <1>11, <1>13
<1>14. CASE ReleaseRename(s)
  BY <1>9, <1>11, <1>14
<1>15. QED
  BY <1>4, <1>5, <1>8, <1>11, <1>12, <1>13, <1>14 DEF HostCall

\* A call that moves no file, and neither starts nor ends a host's time with one.
LEMMA QuietOrderly ==
    ASSUME SlipInv, NEW s \in Hosts, HostCall(s), Around, slips' = {},
           UNCHANGED <<lock, aside, own>>, pc[s] \notin {"settle", "releaseSettle"},
           pc'[s] \notin {"settle", "releaseSettle"}, Keeps(s)' <=> Keeps(s)
    PROVE  Orderly'
<1>1. \A g \in Hosts \ {s} : pc'[g] = pc[g] /\ judged'[g] = judged[g]
  BY OnlySelf DEF SlipInv, BaseInv, Typed
<1>2. slips = {} /\ Orderly
  BY NoSlip DEF SlipInv
<1>3. \A k \in Hosts : PutsBack(k)' <=> PutsBack(k)
  BY <1>1 DEF PutsBack
<1>4. \A k \in Hosts : Astray(k)' <=> Astray(k)
  BY <1>3 DEF Astray, HasOpen, NoFile
<1>5. \A h \in Hosts : Keeps(h)' <=> Keeps(h)
  BY <1>1 DEF Keeps
<1>6. QED
  BY <1>1, <1>2, <1>4, <1>5 DEF Orderly, HasOpen, NoFile

\* A host closes its file, crashes, or fails and removes the path.
LEMMA LeaveOrderly ==
    ASSUME SlipInv, NEW s \in Hosts, HostCall(s), Around, slips' = {},
           own' = [own EXCEPT ![s] = NoFile], aside' = aside,
           lock' = lock \/ (lock' = NoFile /\ Keeps(s)),
           pc'[s] \in {"failed", "gone", "crashed"}
    PROVE  Orderly'
<1>1. TypeOK /\ \A g \in Hosts \ {s} : pc'[g] = pc[g] /\ judged'[g] = judged[g]
  BY OnlySelf DEF SlipInv, BaseInv, Typed
<1>2. slips = {} /\ Orderly
  BY NoSlip DEF SlipInv
<1>3. own'[s] = NoFile /\ \A g \in Hosts \ {s} : own'[g] = own[g]
  BY <1>1 DEF TypeOK
<1>4. \A g \in Hosts : HasOpen(g, aside[g])' => HasOpen(g, aside[g])
  BY <1>3 DEF HasOpen, NoFile
<1>5. ASSUME NEW k \in Hosts, Astray(k)' PROVE Astray(k)
  <2>1. PutsBack(k)' => PutsBack(k)
    BY <1>1, <1>3 DEF PutsBack
  <2>2. \A g \in Hosts : HasOpen(g, aside[k])' => HasOpen(g, aside[k])
    BY <1>3 DEF HasOpen, NoFile
  <2>3. QED
    BY <1>5, <2>1, <2>2 DEF Astray
<1>6. \A k \in Hosts : Astray(k)' => lock' = NoFile /\ \A g \in Hosts : Astray(g)' => g = k
  BY <1>2, <1>5 DEF Orderly
<1>7. ASSUME NEW k \in Hosts, pc'[k] = "settle", aside'[k] = judged'[k], NEW g \in Hosts
      PROVE  ~HasOpen(g, aside[k])'
  <2>1. k # s
    BY <1>7
  <2>2. ~HasOpen(g, aside[k])
    BY <1>1, <1>2, <1>7, <2>1 DEF Orderly
  <2>3. QED
    BY <1>3, <2>2 DEF HasOpen, NoFile
<1>8. ASSUME NEW h \in Hosts, Keeps(h)'
      PROVE  lock' = own'[h] \/ \E k \in Hosts \ {h} : aside'[k] = own'[h]
  <2>1. h # s /\ Keeps(h)
    BY <1>1, <1>8 DEF Keeps
  <2>2. lock' = lock
    BY <1>2, <2>1, OneKeeper
  <2>3. QED
    BY <1>2, <1>3, <2>1, <2>2 DEF Orderly
<1>9. QED
  BY <1>6, <1>7, <1>8 DEF Orderly, NoFile

\* A host takes what is at the path aside: it was not astray, and is now the only
\* file that may be.
LEMMA TakeOrderly ==
    ASSUME SlipInv, NEW s \in Hosts, HostCall(s), Around, slips' = {},
           lock # NoFile, lock' = NoFile, aside' = [aside EXCEPT ![s] = lock], own' = own,
           \/ pc[s] = "rename" /\ pc'[s] = "settle" /\ judged'[s] = judged[s]
           \/ pc[s] = "releaseRename" /\ pc'[s] = "releaseSettle"
    PROVE  Orderly'
<1>1. TypeOK /\ Places /\ \A g \in Hosts \ {s} : pc'[g] = pc[g] /\ judged'[g] = judged[g]
  BY OnlySelf DEF SlipInv, BaseInv, Typed
<1>2. slips = {} /\ Orderly
  BY NoSlip DEF SlipInv
<1>3. aside'[s] = lock /\ \A g \in Hosts \ {s} : aside'[g] = aside[g]
  BY <1>1 DEF TypeOK
<1>4. \A k \in Hosts : ~Astray(k)
  BY <1>2 DEF Orderly
<1>5. ASSUME NEW k \in Hosts \ {s} PROVE ~Astray(k)'
  BY <1>1, <1>3, <1>4 DEF Astray, PutsBack, HasOpen, NoFile
<1>6. ASSUME NEW k \in Hosts, pc'[k] = "settle", aside'[k] = judged'[k], NEW g \in Hosts
      PROVE  ~HasOpen(g, aside[k])'
  <2>1. CASE k = s
    <3>1. pc[s] = "rename" /\ lock = judged[s]
      BY <1>3, <1>6, <2>1
    <3>2. g # s => ~HasOpen(g, lock)
      BY <1>6, <2>1, <3>1, NoSlip
    <3>3. own[s] = NoFile
      BY <1>1, <3>1 DEF Places, Keeps
    <3>4. QED
      BY <1>3, <2>1, <3>2, <3>3 DEF HasOpen, NoFile
  <2>2. CASE k # s
    BY <1>1, <1>2, <1>3, <1>6, <2>2 DEF Orderly, HasOpen, NoFile
  <2>3. QED
    BY <2>1, <2>2
<1>7. ASSUME NEW h \in Hosts, Keeps(h)'
      PROVE  \E k \in Hosts \ {h} : aside'[k] = own'[h]
  <2>1. h # s /\ Keeps(h)
    BY <1>1, <1>7 DEF Keeps
  <2>2. own[h] # NoFile
    BY <1>1, <2>1 DEF Places
  <2>3. lock = own[h]
    <3>1. SUFFICES ASSUME lock # own[h] PROVE FALSE
      OBVIOUS
    <3>2. PICK k \in Hosts \ {h} : aside[k] = own[h]
      BY <1>2, <2>1, <3>1 DEF Orderly
    <3>3. Astray(k)
      BY <2>2, <3>2 DEF Astray, HasOpen
    <3>4. QED
      BY <1>4, <3>3
  <2>4. QED
    BY <1>3, <2>1, <2>3
<1>8. QED
  BY <1>5, <1>6, <1>7 DEF Orderly, NoFile

\* A host removes what it took, or puts it back: the path is free then, and
\* nothing else was astray.
LEMMA DropOrderly ==
    ASSUME SlipInv, NEW s \in Hosts, HostCall(s), Around, slips' = {}, NEW expected,
           aside' = [aside EXCEPT ![s] = NoFile],
           lock' = IF aside[s] = expected THEN lock ELSE aside[s],
           \/ /\ pc[s] = "settle" /\ expected = judged[s] /\ own' = own
              /\ pc'[s] \in {"reopen", "refused"}
           \/ /\ pc[s] = "releaseSettle" /\ expected = own[s] /\ own' = [own EXCEPT ![s] = NoFile]
              /\ pc'[s] = "gone"
    PROVE  Orderly'
<1>1. TypeOK /\ Places /\ \A g \in Hosts \ {s} : /\ pc'[g] = pc[g] /\ judged'[g] = judged[g]
                                                 /\ own'[g] = own[g]
  BY OnlySelf DEF SlipInv, BaseInv, Typed
<1>2. slips = {} /\ Orderly
  BY NoSlip DEF SlipInv
<1>3. aside'[s] = NoFile /\ \A g \in Hosts \ {s} : aside'[g] = aside[g]
  BY <1>1 DEF TypeOK
<1>4. own'[s] \in {own[s], NoFile}
  BY <1>1 DEF TypeOK
<1>5. ASSUME NEW k \in Hosts, Astray(k)' PROVE Astray(k) /\ k # s
  <2>1. k # s
    <3>1. SUFFICES ASSUME k = s PROVE FALSE
      OBVIOUS
    <3>2. ~PutsBack(s)'
      BY DEF PutsBack
    <3>3. \A g \in Hosts : ~HasOpen(g, aside[s])'
      BY <1>3 DEF HasOpen, NoFile
    <3>4. QED
      BY <1>5, <3>1, <3>2, <3>3 DEF Astray
  <2>2. PutsBack(k)' => PutsBack(k)
    BY <1>1, <1>3, <2>1 DEF PutsBack
  <2>3. \A g \in Hosts : HasOpen(g, aside[k])' => HasOpen(g, aside[k])
    BY <1>1, <1>3, <1>4, <2>1 DEF HasOpen, NoFile
  <2>4. QED
    BY <1>5, <2>1, <2>2, <2>3 DEF Astray
<1>6. aside[s] # expected => PutsBack(s) /\ Astray(s) /\ lock = NoFile
  BY <1>2 DEF PutsBack, Astray, Orderly
<1>7. ASSUME NEW k \in Hosts, Astray(k)'
      PROVE  lock' = NoFile /\ \A g \in Hosts : Astray(g)' => g = k
  <2>1. Astray(k) /\ k # s
    BY <1>5, <1>7
  <2>2. aside[s] = expected
    BY <1>2, <1>6, <2>1 DEF Orderly
  <2>3. QED
    BY <1>2, <1>5, <2>1, <2>2 DEF Orderly
<1>8. ASSUME NEW k \in Hosts, pc'[k] = "settle", aside'[k] = judged'[k], NEW g \in Hosts
      PROVE  ~HasOpen(g, aside[k])'
  <2>1. k # s
    BY <1>8
  <2>2. ~HasOpen(g, aside[k])
    BY <1>1, <1>2, <1>3, <1>8, <2>1 DEF Orderly
  <2>3. QED
    BY <1>1, <1>3, <1>4, <2>1, <2>2 DEF HasOpen, NoFile
<1>9. ASSUME NEW h \in Hosts, Keeps(h)'
      PROVE  lock' = own'[h] \/ \E k \in Hosts \ {h} : aside'[k] = own'[h]
  <2>1. h # s /\ Keeps(h) /\ own[h] # NoFile /\ own'[h] = own[h]
    <3>1. h # s
      BY <1>9 DEF Keeps
    <3>2. Keeps(h)
      BY <1>1, <1>9, <3>1 DEF Keeps
    <3>3. QED
      BY <1>1, <3>1, <3>2 DEF Places
  <2>2. lock = own[h] \/ \E k \in Hosts \ {h} : aside[k] = own[h]
    BY <1>2, <2>1 DEF Orderly
  <2>3. CASE aside[s] = expected
    <3>1. aside[s] # own[h]
      <4>1. CASE pc[s] = "settle"
        BY <1>2, <2>1, <2>3, <4>1 DEF Orderly, HasOpen
      <4>2. CASE pc[s] = "releaseSettle"
        BY <1>1, <2>1, <2>3, <4>2 DEF Places
      <4>3. QED
        BY <4>1, <4>2
    <3>2. QED
      BY <1>3, <2>1, <2>2, <2>3, <3>1
  <2>4. CASE aside[s] # expected
    <3>1. PICK k \in Hosts \ {h} : aside[k] = own[h]
      BY <1>6, <2>1, <2>2, <2>4
    <3>2. Astray(k)
      BY <2>1, <3>1 DEF Astray, HasOpen
    <3>3. k = s
      BY <1>2, <1>6, <2>4, <3>2 DEF Orderly
    <3>4. QED
      BY <2>1, <2>4, <3>1, <3>3
  <2>5. QED
    BY <2>3, <2>4
<1>10. QED
  BY <1>7, <1>8, <1>9 DEF Orderly, NoFile

\* A host creates the lock while nothing is astray, so that nobody else keeps one.
LEMMA CreateOrderly ==
    ASSUME SlipInv, NEW s \in Hosts, HostCall(s), Around, slips' = {},
           Open(s) \/ Reopen(s), lock = NoFile
    PROVE  Orderly'
<1>1. TypeOK /\ Places /\ \A g \in Hosts \ {s} : pc'[g] = pc[g] /\ judged'[g] = judged[g]
  BY OnlySelf DEF SlipInv, BaseInv, Typed
<1>2. slips = {} /\ Orderly
  BY NoSlip DEF SlipInv
<1>3. PICK i \in FreeInodes : lock' = i /\ own' = [own EXCEPT ![s] = i]
  BY OpenForms
<1>4. i # NoFile /\ \A g \in Hosts : own[g] # i /\ aside[g] # i
  BY <1>3, StageForms DEF FreeInodes, Linked
<1>5. aside' = aside /\ own'[s] = i /\ (\A g \in Hosts \ {s} : own'[g] = own[g])
      /\ pc'[s] = "identify" /\ pc[s] \in {"open", "reopen"}
  BY <1>1, <1>3, OpenForms DEF TypeOK, Go
<1>6. \A k \in Hosts : ~Astray(k)
  BY <1>5, NoSlip
<1>7. \A g, k \in Hosts : HasOpen(g, aside[k])' => HasOpen(g, aside[k])
  BY <1>4, <1>5 DEF HasOpen, NoFile
<1>8. ASSUME NEW k \in Hosts PROVE ~Astray(k)'
  <2>1. PutsBack(k)' => PutsBack(k)
    BY <1>1, <1>5 DEF PutsBack
  <2>2. QED
    BY <1>6, <1>7, <2>1 DEF Astray
<1>9. ASSUME NEW k \in Hosts, pc'[k] = "settle", aside'[k] = judged'[k], NEW g \in Hosts
      PROVE  ~HasOpen(g, aside[k])'
  <2>1. k # s
    BY <1>5, <1>9
  <2>2. QED
    BY <1>1, <1>2, <1>5, <1>7, <1>9, <2>1 DEF Orderly
<1>10. ASSUME NEW h \in Hosts, Keeps(h)'
       PROVE  lock' = own'[h]
  <2>1. CASE h = s
    BY <1>3, <1>5, <2>1
  <2>2. CASE h # s
    <3>1. Keeps(h)
      BY <1>1, <1>10, <2>2 DEF Keeps
    <3>2. own[h] # NoFile
      BY <1>1, <3>1 DEF Places
    <3>3. PICK k \in Hosts \ {h} : aside[k] = own[h]
      BY <1>2, <3>1, <3>2 DEF Orderly
    <3>4. Astray(k)
      BY <3>2, <3>3 DEF Astray, HasOpen
    <3>5. QED
      BY <1>6, <3>4
  <2>3. QED
    BY <2>1, <2>2
<1>11. QED
  BY <1>8, <1>9, <1>10 DEF Orderly

\* Every call of a host that is no slip keeps the order.
LEMMA CallOrderly ==
    ASSUME SlipInv, NEW s \in Hosts, HostCall(s), Around
    PROVE  Orderly'
<1>1. SUFFICES ASSUME slips' = {} PROVE Orderly'
  BY DEF Orderly
<1>2. TypeOK
  BY DEF SlipInv, BaseInv, Typed
<1> USE DEF TypeOK, Go, fileVars, judgeVars
<1>3. CASE Start(s) \/ Stat(s) \/ Judge(s) \/ Release(s) \/ Identify(s) \/ Heartbeat(s)
  <2>1. /\ UNCHANGED <<lock, aside, own>> /\ pc[s] \notin {"settle", "releaseSettle"}
        /\ pc'[s] \notin {"settle", "releaseSettle"} /\ (Keeps(s)' <=> Keeps(s))
    BY <1>2, <1>3 DEF Start, Stat, StatLock, Judge, Release, Identify, Heartbeat, Keeps
  <2>2. QED
    BY <1>1, <2>1, QuietOrderly
<1>4. CASE ReadIdentity(s)
  <2>1. PICK stage \in {"grace", "judge"} : Go(s, stage)
    BY <1>4 DEF ReadIdentity
  <2>2. /\ UNCHANGED <<lock, aside, own>> /\ pc[s] \notin {"settle", "releaseSettle"}
        /\ pc'[s] \notin {"settle", "releaseSettle"} /\ (Keeps(s)' <=> Keeps(s))
    BY <1>2, <1>4, <2>1 DEF ReadIdentity, Keeps
  <2>3. QED
    BY <1>1, <2>2, QuietOrderly
<1>5. CASE Open(s) \/ Reopen(s)
  <2>1. CASE lock = NoFile
    BY <1>1, <1>5, <2>1, CreateOrderly
  <2>2. CASE lock # NoFile
    <3>1. PICK stage \in {"stat", "refused"} : Go(s, stage)
      BY <1>5, <2>2, OpenForms
    <3>2. /\ UNCHANGED <<lock, aside, own>> /\ pc[s] \notin {"settle", "releaseSettle"}
          /\ pc'[s] \notin {"settle", "releaseSettle"} /\ (Keeps(s)' <=> Keeps(s))
      BY <1>2, <1>5, <2>2, <3>1, OpenForms DEF Keeps
    <3>3. QED
      BY <1>1, <3>2, QuietOrderly
  <2>3. QED
    BY <2>1, <2>2
<1>6. CASE Quarantine(s)
  <2>1. CASE lock = NoFile
    <3>1. /\ UNCHANGED <<lock, aside, own>> /\ pc[s] = "rename" /\ pc'[s] = "refused"
      BY <1>2, <1>6, <2>1 DEF Quarantine, TakeAside
    <3>2. Keeps(s)' <=> Keeps(s)
      BY <3>1 DEF Keeps
    <3>3. QED
      BY <1>1, <3>1, <3>2, QuietOrderly
  <2>2. CASE lock # NoFile
    <3>1. /\ lock' = NoFile /\ aside' = [aside EXCEPT ![s] = lock] /\ own' = own
          /\ pc[s] = "rename" /\ pc'[s] = "settle" /\ judged'[s] = judged[s]
      BY <1>2, <1>6, <2>2 DEF Quarantine, TakeAside
    <3>2. QED
      BY <1>1, <2>2, <3>1, TakeOrderly
  <2>3. QED
    BY <2>1, <2>2
<1>7. CASE Settle(s)
  <2>1. /\ aside' = [aside EXCEPT ![s] = NoFile] /\ own' = own
        /\ lock' = IF aside[s] = judged[s] THEN lock ELSE aside[s]
        /\ pc[s] = "settle" /\ pc'[s] \in {"reopen", "refused"}
    BY <1>2, <1>7 DEF Settle, DropOrPutBack, SameFile
  <2>2. QED
    BY <1>1, <2>1, DropOrderly
<1>8. CASE IdentifyFails(s) \/ Crash(s)
  <2>1. /\ own' = [own EXCEPT ![s] = NoFile] /\ aside' = aside
        /\ (lock' = lock \/ (lock' = NoFile /\ Keeps(s)))
        /\ pc'[s] \in {"failed", "crashed"}
    BY <1>2, <1>8 DEF IdentifyFails, Crash, CloseHandle, Keeps
  <2>2. QED
    BY <1>1, <2>1, LeaveOrderly
<1>9. CASE ReleaseStat(s)
  <2>1. CASE lock = own[s] /\ pc'[s] = "releaseRename" /\ UNCHANGED own
    <3>1. /\ UNCHANGED <<lock, aside>> /\ pc[s] = "release" /\ (Keeps(s)' <=> Keeps(s))
      BY <1>9, <2>1 DEF ReleaseStat, Keeps
    <3>2. QED
      BY <1>1, <2>1, <3>1, QuietOrderly
  <2>2. CASE pc'[s] = "gone" /\ CloseHandle(s)
    <3>1. UNCHANGED <<lock, aside>>
      BY <1>9 DEF ReleaseStat
    <3>2. QED
      BY <1>1, <2>2, <3>1, LeaveOrderly DEF CloseHandle
  <2>3. QED
    BY <1>2, <1>9, <2>1, <2>2 DEF ReleaseStat
<1>10. CASE ReleaseRename(s)
  <2>1. CASE lock = NoFile
    <3>1. pc'[s] = "gone" /\ CloseHandle(s) /\ UNCHANGED <<lock, aside>>
      BY <1>2, <1>10, <2>1 DEF ReleaseRename
    <3>2. QED
      BY <1>1, <3>1, LeaveOrderly DEF CloseHandle
  <2>2. CASE lock # NoFile
    <3>1. /\ lock' = NoFile /\ aside' = [aside EXCEPT ![s] = lock] /\ own' = own
          /\ pc[s] = "releaseRename" /\ pc'[s] = "releaseSettle"
      BY <1>2, <1>10, <2>2 DEF ReleaseRename, TakeAside
    <3>2. QED
      BY <1>1, <2>2, <3>1, TakeOrderly
  <2>3. QED
    BY <2>1, <2>2
<1>11. CASE ReleaseSettle(s)
  <2>1. /\ aside' = [aside EXCEPT ![s] = NoFile] /\ own' = [own EXCEPT ![s] = NoFile]
        /\ lock' = IF aside[s] = own[s] THEN lock ELSE aside[s]
        /\ pc[s] = "releaseSettle" /\ pc'[s] = "gone"
    BY <1>2, <1>11 DEF ReleaseSettle, DropOrPutBack, SameFile, CloseHandle
  <2>2. QED
    BY <1>1, <2>1, DropOrderly
<1>12. QED
  BY <1>3, <1>4, <1>5, <1>6, <1>7, <1>8, <1>9, <1>10, <1>11 DEF HostCall

\* Before anybody starts, no file is open or taken aside.
LEMMA SlipInit ==
    ASSUME Init
    PROVE  SlipInv
<1>1. BaseInv
  BY BaseInit
<1>2. Places
  BY DEF Init, Places, Keeps
<1>3. \A k \in Hosts : ~Astray(k)
  BY DEF Init, Astray, PutsBack, HasOpen
<1>4. Orderly
  BY <1>3 DEF Init, Orderly, Keeps
<1>5. QED
  BY <1>1, <1>2, <1>4 DEF SlipInv

\* Every step keeps the places, and the order unless it slips.
LEMMA SlipStep ==
    ASSUME SlipInv, [Next]_vars
    PROVE  SlipInv'
<1>1. BaseInv'
  BY BaseStep DEF SlipInv
<1>2. ASSUME UNCHANGED <<pc, lock, aside, own, judged>>, slips \subseteq slips' PROVE SlipInv'
  BY <1>1, <1>2 DEF SlipInv, Places, Orderly, Keeps, Astray, PutsBack, HasOpen, NoFile
<1>3. CASE UNCHANGED vars
  BY <1>2, <1>3 DEF vars, fileVars, judgeVars
<1>4. CASE Next
  <2>1. Around
    BY <1>4, StepForms
  <2>2. ASSUME NEW s \in Hosts, HostCall(s) PROVE SlipInv'
    BY <1>1, <2>1, <2>2, CallPlaces, CallOrderly DEF SlipInv
  <2>3. CASE Environment \/ \E p \in Processes : Reassign(p)
    <3>1. UNCHANGED <<pc, lock, aside, own, judged>>
      BY <2>3, EnvironmentEffect DEF SlipInv, BaseInv, Reassign, fileVars, judgeVars
    <3>2. QED
      BY <1>2, <2>1, <3>1 DEF Around
  <2>4. QED
    BY <1>4, <2>2, <2>3, StepForms
<1>5. QED
  BY <1>3, <1>4

\* Any number of hosts, on any machines, with files whose inodes are used again
\* and hosts that are stopped anywhere, have no two writers of the state directory
\* (acquireWriterLease), and the writer's lock is at the path or about to be put
\* back there, until one of two things happens: a reclaimer takes the lock of a
\* running host for the file that it judged, or a host creates the lock while
\* another's is astray.  These two are the windows that the code leaves open.
THEOREM WritersNeedASlip == Spec => []ExclusiveUnlessSlip
<1>1. Init => SlipInv
  BY SlipInit
<1>2. SlipInv /\ [Next]_vars => SlipInv'
  BY SlipStep
<1>3. SlipInv => ExclusiveUnlessSlip
  <2>1. SUFFICES ASSUME SlipInv, slips = {}, NEW h \in Hosts, Keeps(h)
                 PROVE  /\ lock = own[h] \/ \E k \in Hosts \ {h} : aside[k] = own[h]
                        /\ \A g \in Hosts : Keeps(g) => g = h
    BY DEF ExclusiveUnlessSlip
  <2>2. QED
    BY <2>1, OneKeeper DEF SlipInv, Orderly
<1>4. QED
  BY <1>1, <1>2, <1>3, PTL DEF Spec
=============================================================================
