----------------------------- MODULE WriterLease -----------------------------
(***************************************************************************)
(* The single-host writer lease of server/state.ts: acquireWriterLease,    *)
(* reclaimOrphanedWriterLock, the heartbeat and the release function.      *)
(*                                                                         *)
(* Hosts race on one path.  A step is one file-system call; between two    *)
(* calls of a host any other host may act, crash, or be suspended.  A lock *)
(* file is its inode; a host process is used once, a restart is another    *)
(* host.  A legacy lock directory behaves like a file here, because        *)
(* open(wx), stat, rename and rm treat it alike.                           *)
(*                                                                         *)
(* A definition Name_variant is not part of the specification: it is the   *)
(* form Name would take under a plausible bug, kept to show that a         *)
(* property would notice.                                                  *)
(***************************************************************************)
EXTENDS Naturals, FiniteSets

CONSTANTS
    Hosts,        \* host processes
    Previous,     \* the dead host that left the initial lock file, if any
    Nobody,       \* no identity could be read
    MaxInode,     \* bound: inodes the file system may hand out
    InodeReuse,   \* the file system reuses the inode of a deleted file
    Platforms,    \* does /proc give a process start time (Linux)? the platforms to check
    Sleepers,     \* the platforms on which a host may be stopped for 30 s
    SuspendIn,    \* the stages in which it may be stopped (sleep, SIGSTOP)
    Fates,        \* what may become of the pid of a process that is gone
    Remote        \* the processes that may run on another machine

Processes == Hosts \cup {Previous}

ASSUME HostsAreNamed == /\ Previous \notin Hosts /\ Nobody \notin Processes
                        /\ IsFiniteSet(Hosts)
ASSUME FlagsAreBoolean == InodeReuse \in BOOLEAN /\ Platforms \cup Sleepers \subseteq BOOLEAN
ASSUME InodesAreNat == MaxInode \in Nat \ {0}

\* The pid goes to a process of the same user, of another user, or of the same
\* user and over before its start time is read.
ASSUME FatesAreKnown == Fates \subseteq {"sameUser", "otherUser", "brief"}
ASSUME RemoteAreProcesses == Remote \subseteq Processes

Inodes == 1..MaxInode
NoFile == 0

VARIABLES
    hasProc,    \* the platform: process start times are available
    elsewhere,  \* the processes that run on another machine (another hostname)
    fate,       \* per process: "free", or whose its pid is by now
    pc,         \* per host: where it stands in acquire and release
    lock,       \* inode at host-writer.lock, or NoFile
    aside,      \* per host: inode under its quarantine name, or NoFile
    own,        \* per host: inode of its open handle, or NoFile
    creator,    \* per inode: who created the file
    identified, \* inodes whose identity has been written
    stale,      \* inodes whose mtime is 30 s old
    used,       \* inodes handed out so far
    judged,     \* per host: inode of the lockStat it decides on
    seenStale,  \* per host: that lockStat's mtime is 30 s old
    holder,     \* per host: the identity it read
    suspended,  \* hosts that are stopped
    contested,  \* history: hosts that were alive together with another host
    slips       \* history: "orphaned" and "intruded", see Slipped

fileVars == <<lock, aside, own, creator, identified, stale, used>>
judgeVars == <<judged, seenStale, holder>>
vars == <<hasProc, elsewhere, fate, pc, fileVars, judgeVars, suspended, contested, slips>>

Acquiring == {"open", "stat", "read", "grace", "reread", "judge", "rename",
              "settle", "reopen", "identify"}
Releasing == {"release", "releaseRename", "releaseSettle"}
Over == {"refused", "failed", "gone", "crashed"}
Stages == {"idle", "holding"} \cup Acquiring \cup Releasing \cup Over

Alive(h) == h \in Hosts /\ pc[h] \notin {"idle"} \cup Over
Runs(h) == h \notin suspended

Init ==
    /\ hasProc \in Platforms
    /\ elsewhere \in SUBSET Remote
    /\ fate = [p \in Processes |-> "free"]
    /\ pc = [h \in Hosts |-> "idle"]
    /\ lock \in {NoFile, 1}
    /\ used = {i \in Inodes : i = lock}
    /\ identified \in SUBSET used
    /\ stale \in SUBSET used
    /\ creator = [i \in Inodes |-> Previous]
    /\ aside = [h \in Hosts |-> NoFile]
    /\ own = [h \in Hosts |-> NoFile]
    /\ judged = [h \in Hosts |-> NoFile]
    /\ seenStale = [h \in Hosts |-> FALSE]
    /\ holder = [h \in Hosts |-> Nobody]
    /\ suspended = {}
    /\ contested = {}
    /\ slips = {}

Go(h, stage) == pc' = [pc EXCEPT ![h] = stage]

-----------------------------------------------------------------------------
(* Acquisition                                                             *)

Linked == ({lock} \cup {aside[h] : h \in Hosts}) \ {NoFile}

\* The inodes that the file system may give to a new file: none that is linked
\* or open, and an old one only if it reuses them.
FreeInodes ==
    {i \in Inodes : i \notin Linked /\ \A h \in Hosts : own[h] # i
                    /\ (i \in used => InodeReuse)}

Start(h) ==
    /\ pc[h] = "idle"
    /\ Go(h, "open")
    /\ UNCHANGED <<fileVars, judgeVars, suspended>>

\* open(lockPath, "wx"): creates the file or fails with EEXIST.
OpenExclusive(h, onExists) ==
    \/ /\ lock = NoFile
       /\ \E i \in FreeInodes :
             /\ lock' = i
             /\ own' = [own EXCEPT ![h] = i]
             /\ creator' = [creator EXCEPT ![i] = h]
             /\ identified' = identified \ {i}
             /\ stale' = stale \ {i}
             /\ used' = used \cup {i}
       /\ Go(h, "identify")
       /\ UNCHANGED aside
    \/ /\ lock # NoFile
       /\ Go(h, onExists)
       /\ UNCHANGED fileVars

Open(h) ==
    /\ pc[h] = "open" /\ Runs(h)
    /\ OpenExclusive(h, "stat")
    /\ UNCHANGED <<judgeVars, suspended>>

\* statWriterLock(), before the first read of the identity and after the grace
\* delay of a second one.
StatLock_unchecked(h, next) ==
    /\ Go(h, next)
    /\ judged' = [judged EXCEPT ![h] = lock]
    /\ seenStale' = [seenStale EXCEPT ![h] = lock \in stale]
    /\ UNCHANGED <<fileVars, holder, suspended>>
StatLock(h, next) ==
    /\ IF lock = NoFile
       THEN /\ Go(h, "refused")
            /\ UNCHANGED <<judged, seenStale>>
       ELSE /\ Go(h, next)
            /\ judged' = [judged EXCEPT ![h] = lock]
            /\ seenStale' = [seenStale EXCEPT ![h] = lock \in stale]
    /\ UNCHANGED <<fileVars, holder, suspended>>

Stat(h) ==
    /\ Runs(h)
    /\ \/ pc[h] = "stat" /\ StatLock(h, "read")
       \/ pc[h] = "grace" /\ StatLock(h, "reread")

\* readWriterLeaseIdentity(): the file at the path by now, which need not be
\* the one that was stat'ed.
ReadIdentity(h) ==
    /\ pc[h] \in {"read", "reread"} /\ Runs(h)
    /\ LET read == IF lock \in identified THEN creator[lock] ELSE Nobody
       IN  /\ holder' = [holder EXCEPT ![h] = read]
           /\ Go(h, IF read = Nobody /\ pc[h] = "read" THEN "grace" ELSE "judge")
    /\ UNCHANGED <<fileVars, judged, seenStale, suspended>>

\* writerLeaseHolderState(): "unknown" for another hostname, and for a pid that
\* belongs to another user (EPERM).  A pid that belongs to somebody else of the
\* same user looks alive, unless the start times tell them apart; and a process
\* that ends before its start time is read looks alive even then.
Elsewhere(h, id) == (id \in elsewhere) # (h \in elsewhere)
HolderStates(h, id) ==
    IF id = Nobody THEN {"none"}
    ELSE IF Elsewhere(h, id) THEN {"unknown"}
    ELSE IF Alive(id) THEN {"alive"}
    ELSE [free |-> {"dead"}, otherUser |-> {"unknown"}, brief |-> {"dead", "alive"},
          sameUser |-> IF hasProc THEN {"dead"} ELSE {"alive"}][fate[id]]

\* The two early returns of reclaimOrphanedWriterLock.
Orphaned_staleOnly(state, old) == old /\ ~(state = "alive" /\ hasProc)
Orphaned(state, old) ==
    /\ ~(state = "alive" /\ hasProc)
    /\ state = "dead" \/ old

Judge(h) ==
    /\ pc[h] = "judge" /\ Runs(h)
    /\ \E state \in HolderStates(h, holder[h]) :
          Go(h, IF Orphaned(state, seenStale[h]) THEN "rename" ELSE "refused")
    /\ UNCHANGED <<fileVars, judgeVars, suspended>>

\* rename(lockPath, quarantine): takes whatever is at the path now.
TakeAside(h, onTaken, onAbsent) ==
    IF lock = NoFile
    THEN /\ Go(h, onAbsent)
         /\ UNCHANGED fileVars
    ELSE /\ aside' = [aside EXCEPT ![h] = lock]
         /\ lock' = NoFile
         /\ Go(h, onTaken)
         /\ UNCHANGED <<own, creator, identified, stale, used>>

Quarantine(h) ==
    /\ pc[h] = "rename" /\ Runs(h)
    /\ TakeAside(h, "settle", "refused")
    /\ UNCHANGED <<judgeVars, suspended>>

\* The dev/ino comparison: what is in quarantine is what was judged.
SameFile_unchecked(taken, expected) == TRUE
SameFile(taken, expected) == taken = expected

\* rm of the quarantined file, or the rename that puts it back over whatever
\* is at the path by then.
DropOrPutBack(h, expected) ==
    /\ lock' = IF SameFile(aside[h], expected) THEN lock ELSE aside[h]
    /\ aside' = [aside EXCEPT ![h] = NoFile]

Settle(h) ==
    /\ pc[h] = "settle" /\ Runs(h)
    /\ DropOrPutBack(h, judged[h])
    /\ Go(h, IF SameFile(aside[h], judged[h]) THEN "reopen" ELSE "refused")
    /\ UNCHANGED <<own, creator, identified, stale, used, judgeVars, suspended>>

Reopen(h) ==
    /\ pc[h] = "reopen" /\ Runs(h)
    /\ OpenExclusive(h, "refused")
    /\ UNCHANGED <<judgeVars, suspended>>

\* The identity is written through the handle, wherever its file is by now.
Identify(h) ==
    /\ pc[h] = "identify" /\ Runs(h)
    /\ identified' = identified \cup {own[h]}
    /\ stale' = stale \ {own[h]}
    /\ Go(h, "holding")
    /\ UNCHANGED <<lock, aside, own, creator, used, judgeVars, suspended>>

\* The write of the identity fails: the handle is closed and the path removed.
IdentifyFails(h) ==
    /\ pc[h] = "identify" /\ Runs(h)
    /\ own' = [own EXCEPT ![h] = NoFile]
    /\ lock' = NoFile
    /\ Go(h, "failed")
    /\ UNCHANGED <<aside, creator, identified, stale, used, judgeVars, suspended>>

-----------------------------------------------------------------------------
(* Heartbeat and release                                                   *)

Heartbeat(h) ==
    /\ pc[h] = "holding" /\ Runs(h)
    /\ stale' = stale \ {own[h]}
    /\ UNCHANGED <<pc, lock, aside, own, creator, identified, used, judgeVars, suspended>>

Release(h) ==
    /\ pc[h] = "holding" /\ Runs(h)
    /\ Go(h, "release")
    /\ UNCHANGED <<fileVars, judgeVars, suspended>>

CloseHandle(h) == own' = [own EXCEPT ![h] = NoFile]

ReleaseStat(h) ==
    /\ pc[h] = "release" /\ Runs(h)
    /\ \/ /\ lock = own[h]
          /\ Go(h, "releaseRename")
          /\ UNCHANGED own
       \/ /\ lock # own[h]
          /\ Go(h, "gone")
          /\ CloseHandle(h)
    /\ UNCHANGED <<lock, aside, creator, identified, stale, used, judgeVars, suspended>>

ReleaseRename(h) ==
    /\ pc[h] = "releaseRename" /\ Runs(h)
    /\ \/ /\ lock # NoFile
          /\ TakeAside(h, "releaseSettle", "gone")
       \/ /\ lock = NoFile
          /\ Go(h, "gone")
          /\ CloseHandle(h)
          /\ UNCHANGED <<lock, aside, creator, identified, stale, used>>
    /\ UNCHANGED <<judgeVars, suspended>>

ReleaseSettle(h) ==
    /\ pc[h] = "releaseSettle" /\ Runs(h)
    /\ DropOrPutBack(h, own[h])
    /\ Go(h, "gone")
    /\ CloseHandle(h)
    /\ UNCHANGED <<creator, identified, stale, used, judgeVars, suspended>>

-----------------------------------------------------------------------------
(* The environment                                                         *)

Crash(h) ==
    /\ Alive(h)
    /\ Go(h, "crashed")
    /\ CloseHandle(h)
    /\ suspended' = suspended \ {h}
    /\ UNCHANGED <<lock, aside, creator, identified, stale, used, judgeVars>>

Suspend(h) ==
    /\ hasProc \in Sleepers /\ pc[h] \in SuspendIn /\ Alive(h) /\ Runs(h)
    /\ suspended' = suspended \cup {h}
    /\ UNCHANGED <<pc, fileVars, judgeVars>>

Resume(h) ==
    /\ h \in suspended
    /\ suspended' = suspended \ {h}
    /\ UNCHANGED <<pc, fileVars, judgeVars>>

\* 30 s pass without a heartbeat: a running holder beats every 10 s, and a
\* running host is not that slow between two calls.
Age(i) ==
    /\ i \in Linked \ stale
    /\ \/ ~Alive(creator[i])
       \/ creator[i] \in suspended
    /\ stale' = stale \cup {i}
    /\ UNCHANGED <<pc, lock, aside, own, creator, identified, used, judgeVars, suspended>>

\* The pid of a process that is gone is given to another process.
Reassign(p) ==
    /\ ~Alive(p) /\ (p \in Hosts => pc[p] # "idle")
    /\ fate[p] = "free"
    /\ \E f \in Fates : fate' = [fate EXCEPT ![p] = f]
    /\ UNCHANGED <<pc, fileVars, judgeVars, suspended>>

\* The hosts that are alive, when there are several.
Company ==
    LET living == {h \in Hosts : Alive(h)}
    IN  IF Cardinality(living) > 1 THEN living ELSE {}

HostStep ==
    \/ \E h \in Hosts :
          \/ Start(h) \/ Open(h) \/ Stat(h) \/ ReadIdentity(h) \/ Judge(h)
          \/ Quarantine(h) \/ Settle(h) \/ Reopen(h)
          \/ Identify(h) \/ IdentifyFails(h) \/ Heartbeat(h)
          \/ Release(h) \/ ReleaseStat(h) \/ ReleaseRename(h) \/ ReleaseSettle(h)
          \/ Crash(h) \/ Suspend(h) \/ Resume(h)
    \/ \E i \in Inodes : Age(i)

\* The quarantined file is not the one that the host judged, or wants to release.
PutsBack(k) ==
    \/ pc[k] = "settle" /\ aside[k] # judged[k]
    \/ pc[k] = "releaseSettle" /\ aside[k] # own[k]

HasOpen(g, i) == own[g] = i /\ i # NoFile

\* A file is away from the path although it belongs there: it is to be put back,
\* or is the lock of a running host and stays with a reclaimer that crashed.
Astray(k) == PutsBack(k) \/ \E g \in Hosts \ {k} : HasOpen(g, aside[k])

\* What this step of a host does by mistake: it takes aside, as the file it
\* judged to be orphaned, the lock that another running host has open (that one
\* slept for 30 s, or its lock has the inode of the judged file); or it creates
\* the lock in the moment in which the lock of another is astray.
Slipped ==
    {"orphaned" : h \in {g \in Hosts : /\ pc[g] = "rename" /\ pc'[g] = "settle"
                                      /\ lock = judged[g]
                                      /\ \E k \in Hosts \ {g} : HasOpen(k, lock)}}
    \cup
    {"intruded" : h \in {g \in Hosts : /\ pc[g] \in {"open", "reopen"} /\ pc'[g] = "identify"
                                      /\ \E k \in Hosts : Astray(k)}}

Next ==
    /\ \/ HostStep /\ UNCHANGED fate
       \/ \E p \in Processes : Reassign(p)
    /\ contested' = contested \cup Company'
    /\ slips' = slips \cup Slipped
    /\ UNCHANGED <<hasProc, elsewhere>>

Spec == Init /\ [][Next]_vars

-----------------------------------------------------------------------------
(* Properties                                                              *)

\* The lock, the files taken aside and every host's progress are well typed, and
\* a host that goes on to read, judge and take aside a lock saw one.
TypeOK ==
    /\ hasProc \in Platforms
    /\ elsewhere \subseteq Remote
    /\ fate \in [Processes -> Fates \cup {"free"}]
    /\ pc \in [Hosts -> Stages]
    /\ lock \in Inodes \cup {NoFile}
    /\ aside \in [Hosts -> Inodes \cup {NoFile}]
    /\ own \in [Hosts -> Inodes \cup {NoFile}]
    /\ creator \in [Inodes -> Processes]
    /\ identified \subseteq used /\ stale \subseteq used /\ used \subseteq Inodes
    /\ judged \in [Hosts -> Inodes \cup {NoFile}]
    /\ \A h \in Hosts : pc[h] \in {"read", "reread", "judge", "rename"} => judged[h] # NoFile
    /\ seenStale \in [Hosts -> BOOLEAN]
    /\ holder \in [Hosts -> Processes \cup {Nobody}]
    /\ suspended \subseteq Hosts /\ contested \subseteq Hosts
    /\ slips \subseteq {"orphaned", "intruded"}

Holds(h) == pc[h] = "holding"

\* "A second live host is refused" (docs/local-data.md:32): two hosts never
\* both believe that they are the writer of the state directory.
OneWriter == \A g, h \in Hosts : Holds(g) /\ Holds(h) => g = h

\* A reclaimer that took a live holder's file by mistake puts it back: while
\* nobody crashed, the holder's lock is at the path or in a quarantine whose
\* owner is about to return it.
HolderKeepsItsLock ==
    (\A g \in Hosts : pc[g] # "crashed") =>
        \A h \in Hosts : Holds(h) =>
            lock = own[h] \/ \E g \in Hosts : aside[g] = own[h]

\* A host that holds the lease holds it alone and keeps its lock file.
ExclusiveAccess == OneWriter /\ HolderKeepsItsLock

\* Of any number of hosts, over any file system, two write at once only after a
\* slip: after a running host's lock was judged to be orphaned and taken, or a
\* lock was created while another was astray.  Until then the lock of a host,
\* from its creation to its release, is at the path or in another host's
\* quarantine, and no second host has one.
Keeps(h) == pc[h] \in {"identify", "holding", "release", "releaseRename"}
ExclusiveUnlessSlip ==
    slips = {} =>
        \A h \in Hosts : Keeps(h) =>
            /\ lock = own[h] \/ \E k \in Hosts \ {h} : aside[k] = own[h]
            /\ \A g \in Hosts : Keeps(g) => g = h

\* The pid of the recorded holder is that of another process by now.
Taken(id, fates) == id # Nobody /\ fate[id] \in fates

\* What may keep a host out that is alone: a young lock without identity, of
\* another machine, or whose pid belongs to somebody who cannot be told from the
\* holder; or a process that had the pid and ended before its start time was read.
Excused(h) ==
    \/ /\ ~seenStale[h]
       /\ \/ holder[h] = Nobody
          \/ Elsewhere(h, holder[h])
          \/ Taken(holder[h], IF hasProc THEN {"otherUser"} ELSE Fates)
    \/ hasProc /\ Taken(holder[h], {"brief"})

\* "Startup reclaims it when the recorded same-host holder is gone, or when an
\* unknown leftover file ... is older than 30 seconds" (docs/local-data.md:32),
\* with the exceptions that the code makes: a host that had no company is
\* refused only over what Excused names.
RestartIsNotRefused ==
    \A h \in Hosts : pc[h] = "refused" /\ h \notin contested => Excused(h)

\* The sentence of docs/local-data.md:32 as it stands: when the recorded holder
\* was on this machine and is gone, startup reclaims the lock.
GoneHolderIsReclaimed ==
    \A h \in Hosts : pc[h] = "refused" /\ h \notin contested =>
        holder[h] = Nobody \/ Elsewhere(h, holder[h])
=============================================================================
