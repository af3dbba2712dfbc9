----------------------------- MODULE LocksProofs -----------------------------
(* Theorems about ReaderWriterLockSlim, ReaderWriterLock, Monitor and           *)
(* System.Timers.Timer, for any threads, nesting and bounds.                    *)
EXTENDS MCLocks, FiniteSetTheorems, TLAPS

(* ReaderWriterLockSlim. *)

\* A member joins or leaves a finite set of threads.
LEMMA CardinalityPlusMinus ==
  ASSUME NEW S, IsFiniteSet(S), NEW x
  PROVE  /\ Cardinality(S) \in Nat
         /\ x \notin S => Cardinality(S \cup {x}) = Cardinality(S) + 1
         /\ x \in S => Cardinality(S \ {x}) = Cardinality(S) - 1 /\ Cardinality(S) > 0
<1>1. Cardinality(S) \in Nat BY FS_CardinalityType
<1>2. x \notin S => Cardinality(S \cup {x}) = Cardinality(S) + 1 BY FS_AddElement
<1>3. x \in S => Cardinality(S \ {x}) = Cardinality(S) - 1 BY FS_RemoveElement
<1>4. x \in S => Cardinality(S) # 0 BY FS_EmptySet
<1> QED BY <1>1, <1>2, <1>3, <1>4

\* What a thread reads without being counted, it reads under a mode it holds; and
\* who is counted holds nothing else.
ReadsBacked ==
  \A t \in Threads :
    /\ counts[t].readerCountsTowardGlobal =>
         counts[t].reader > 0 /\ counts[t].writer = 0 /\ counts[t].upgrade = 0
    /\ counts[t].reader > 0 /\ ~counts[t].readerCountsTowardGlobal =>
         counts[t].writer > 0 \/ counts[t].upgrade > 0

\* From the first check of a call to its last.
Calling == {"entering", "parked", "notified"}

\* The recursion checks a call has passed stay passed while it waits.
ChecksHold == \A t \in Threads : pc[t] \in Calling => MayWaitFor(t, want[t])

\* The inductive invariant: what is held, what backs it, and that the checks still stand.
LockIInv == LockInv /\ ReadsBacked /\ ChecksHold

\* The part of the invariant about what is held.
HeldOK ==
  /\ counts \in [Threads -> ThreadCounts]
  /\ readers \in Nat /\ writerActive \in BOOLEAN /\ upgradeableActive \in BOOLEAN
  /\ Exclusion /\ OneUpgrader /\ CountsAgree /\ ReadsBacked

\* A new lock satisfies it.
LEMMA LockInit == Init => LockIInv
<1> SUFFICES ASSUME Init PROVE LockIInv OBVIOUS
<1>1. TypeOK BY LockAssumption DEF Init, TypeOK, ThreadCounts, NoCounts, AllModes
<1>2. Exclusion /\ OneUpgrader BY DEF Init, Exclusion, OneUpgrader, NoCounts
<1>3. CountsAgree
  <2>1. Counted = {} BY DEF Init, Counted, NoCounts
  <2> QED BY <2>1, FS_EmptySet DEF Init, CountsAgree, NoCounts
<1>4. WaitersExact
  <2>1. \A m \in AllModes : Waiters(m) = {} BY DEF Init, Waiters
  <2> QED BY <2>1, FS_EmptySet DEF Init, WaitersExact
<1>5. NoLostWakeup BY DEF Init, NoLostWakeup
<1>6. ReadsBacked /\ ChecksHold BY DEF Init, ReadsBacked, ChecksHold, NoCounts, Calling
<1> QED BY <1>1, <1>2, <1>3, <1>4, <1>5, <1>6 DEF LockIInv, LockInv

\* The threads that are counted, and those that wait, are finitely many.
LEMMA CountedFinite == IsFiniteSet(Counted) /\ \A m : IsFiniteSet(Waiters(m))
BY LockAssumption, FS_Subset DEF Counted, Waiters

\* A step after which nobody is counted who was not, and nobody is no longer.
LEMMA SameReaders ==
  ASSUME CountsAgree, UNCHANGED readers,
         \A u \in Threads :
           counts'[u].readerCountsTowardGlobal = counts[u].readerCountsTowardGlobal
  PROVE  readers' = Cardinality(Counted')
<1>1. Counted' = Counted BY DEF Counted
<1> QED BY <1>1 DEF CountsAgree

\* An admitted thread takes its mode.
LEMMA AcquireKeepsHeld ==
  ASSUME HeldOK, NEW t \in Threads, want \in [Threads -> AllModes],
         MayWaitFor(t, want[t]), Admitted(t), Acquire(t)
  PROVE  HeldOK' /\ \A u \in Threads \ {t} : counts'[u] = counts[u]
<1> USE DEF HeldOK, ThreadCounts
<1>0. want[t] = "read" \/ want[t] = "write" \/ want[t] = "upgrade" BY DEF AllModes
<1>1. CASE want[t] = "read"
  <2>1. /\ readers' = readers + 1
        /\ counts' = [counts EXCEPT ![t].reader = 1, ![t].readerCountsTowardGlobal = TRUE]
        /\ UNCHANGED <<writerActive, upgradeableActive>>
        /\ ~writerActive /\ counts[t] = NoCounts
    BY <1>1 DEF Acquire, Admitted, ReadAdmitted, MayWaitFor
  <2>2. /\ counts'[t] = [reader |-> 1, writer |-> 0, upgrade |-> 0, readerCountsTowardGlobal |-> TRUE]
        /\ \A u \in Threads \ {t} : counts'[u] = counts[u]
        /\ counts' \in [Threads -> ThreadCounts]
    BY <2>1 DEF NoCounts
  <2>3. \A u \in Threads : counts[u].writer = 0 BY <2>1 DEF CountsAgree
  <2>4. Exclusion' /\ OneUpgrader' /\ ReadsBacked'
    BY <2>1, <2>2, <2>3 DEF Exclusion, OneUpgrader, ReadsBacked, NoCounts
  <2>5. readers' = Cardinality(Counted')
    <3>1. t \notin Counted BY <2>1 DEF Counted, NoCounts
    <3>2. Counted' = Counted \cup {t} BY <2>2 DEF Counted
    <3> QED BY <3>1, <3>2, <2>1, CountedFinite, CardinalityPlusMinus DEF CountsAgree
  <2>6. CountsAgree' BY <2>1, <2>2, <2>3, <2>5 DEF CountsAgree, NoCounts
  <2> QED BY <2>1, <2>2, <2>4, <2>6
<1>2. CASE want[t] = "write"
  <2>1. /\ writerActive' = TRUE
        /\ counts' = [counts EXCEPT ![t].writer = @ + 1]
        /\ UNCHANGED <<readers, upgradeableActive>>
        /\ counts[t].writer = 0 /\ (counts[t].upgrade > 0 \/ counts[t].reader = 0)
        /\ WriteAdmitted(counts[t].upgrade > 0)
    BY <1>2 DEF Acquire, Admitted, MayWaitFor
  <2>2. /\ counts'[t] = [counts[t] EXCEPT !.writer = 1]
        /\ \A u \in Threads \ {t} : counts'[u] = counts[u]
        /\ counts' \in [Threads -> ThreadCounts]
    BY <2>1
  <2>3. readers = 0 BY <2>1 DEF WriteAdmitted
  <2>4. \A u \in Threads : ~counts[u].readerCountsTowardGlobal
    <3>1. Counted = {} BY <2>3, CountedFinite, FS_EmptySet DEF CountsAgree
    <3> QED BY <3>1 DEF Counted
  <2>5. \A u \in Threads : counts[u].writer = 0
    BY <2>1 DEF WriteAdmitted, Exclusion, CountsAgree
  <2>6. \A u \in Threads \ {t} : counts[u].upgrade = 0
    BY <2>1 DEF WriteAdmitted, OneUpgrader, CountsAgree
  <2>7. \A u \in Threads \ {t} : counts[u].reader = 0
    BY <2>4, <2>5, <2>6 DEF ReadsBacked
  <2>8. Exclusion' /\ OneUpgrader' /\ ReadsBacked'
    BY <2>2, <2>4, <2>5, <2>6, <2>7 DEF Exclusion, OneUpgrader, ReadsBacked
  <2>9. readers' = Cardinality(Counted') BY <2>1, <2>2, SameReaders
  <2>10. CountsAgree' BY <2>1, <2>2, <2>9 DEF CountsAgree
  <2> QED BY <2>1, <2>2, <2>8, <2>10
<1>3. CASE want[t] = "upgrade"
  <2>1. /\ upgradeableActive' = TRUE
        /\ counts' = [counts EXCEPT ![t].upgrade = @ + 1]
        /\ UNCHANGED <<readers, writerActive>>
        /\ ~writerActive /\ ~upgradeableActive /\ counts[t] = NoCounts
    BY <1>3 DEF Acquire, Admitted, UpgradeAdmitted, MayWaitFor
  <2>2. /\ counts'[t] = [counts[t] EXCEPT !.upgrade = 1]
        /\ \A u \in Threads \ {t} : counts'[u] = counts[u]
        /\ counts' \in [Threads -> ThreadCounts]
    <3>1. counts[t].upgrade + 1 = 1 BY <2>1 DEF NoCounts
    <3> QED BY <3>1, <2>1
  <2>3. \A u \in Threads : counts[u].writer = 0 /\ counts[u].upgrade = 0 BY <2>1 DEF CountsAgree
  <2>4. Exclusion' /\ OneUpgrader' /\ ReadsBacked'
    BY <2>1, <2>2, <2>3 DEF Exclusion, OneUpgrader, ReadsBacked, NoCounts
  <2>5. readers' = Cardinality(Counted') BY <2>1, <2>2, SameReaders DEF NoCounts
  <2>6. CountsAgree' BY <2>1, <2>2, <2>3, <2>5 DEF CountsAgree
  <2> QED BY <2>1, <2>2, <2>4, <2>6
<1> QED BY <1>0, <1>1, <1>2, <1>3

\* A call that does not wait: recursion, and the modes a held one implies.
LEMMA NestedKeepsHeld ==
  ASSUME HeldOK, NEW t \in Threads, NEW m \in AllModes,
         Recurse(t, m) \/ NestedRead(t, m) \/ NestedUpgrade(t, m)
  PROVE  HeldOK' /\ \A u \in Threads \ {t} : counts'[u] = counts[u]
<1> USE DEF HeldOK, ThreadCounts, lockState
<1>1. CASE Recurse(t, m)
  <2>1. /\ counts' \in [Threads -> ThreadCounts]
        /\ \A u \in Threads \ {t} : counts'[u] = counts[u]
        /\ counts'[t].reader > 0 <=> counts[t].reader > 0
        /\ counts'[t].writer > 0 <=> counts[t].writer > 0
        /\ counts'[t].upgrade > 0 <=> counts[t].upgrade > 0
        /\ counts'[t].readerCountsTowardGlobal = counts[t].readerCountsTowardGlobal
        /\ UNCHANGED <<readers, writerActive, upgradeableActive>>
    <3>1. MaxDepth \in Nat BY LockAssumption
    <3> QED BY <1>1, <3>1 DEF Recurse
  <2>2. Exclusion' /\ OneUpgrader' /\ ReadsBacked'
    BY <2>1 DEF Exclusion, OneUpgrader, ReadsBacked
  <2>3. readers' = Cardinality(Counted') BY <2>1, SameReaders
  <2>4. CountsAgree' BY <2>1, <2>3 DEF CountsAgree
  <2> QED BY <2>1, <2>2, <2>4
<1>2. CASE NestedRead(t, m)
  <2>1. /\ counts' \in [Threads -> ThreadCounts]
        /\ \A u \in Threads \ {t} : counts'[u] = counts[u]
        /\ counts[t].reader = 0 /\ counts'[t].reader = 1
        /\ counts'[t].writer = counts[t].writer
        /\ counts'[t].upgrade = counts[t].upgrade
        /\ counts'[t].readerCountsTowardGlobal = FALSE
        /\ counts[t].writer > 0 \/ counts[t].upgrade > 0
        /\ UNCHANGED <<readers, writerActive, upgradeableActive>>
    BY <1>2 DEF NestedRead
  <2>2. counts[t].readerCountsTowardGlobal = FALSE BY <2>1 DEF ReadsBacked
  <2>3. Exclusion' /\ OneUpgrader' /\ ReadsBacked'
    BY <2>1 DEF Exclusion, OneUpgrader, ReadsBacked
  <2>4. readers' = Cardinality(Counted') BY <2>1, <2>2, SameReaders
  <2>5. CountsAgree' BY <2>1, <2>4 DEF CountsAgree
  <2> QED BY <2>1, <2>3, <2>5
<1>3. CASE NestedUpgrade(t, m)
  <2>1. /\ counts' \in [Threads -> ThreadCounts]
        /\ \A u \in Threads \ {t} : counts'[u] = counts[u]
        /\ counts'[t].reader = counts[t].reader
        /\ counts'[t].writer = counts[t].writer /\ counts[t].writer > 0
        /\ counts'[t].upgrade = 1
        /\ counts'[t].readerCountsTowardGlobal = counts[t].readerCountsTowardGlobal
        /\ upgradeableActive' = TRUE
        /\ UNCHANGED <<readers, writerActive>>
    BY <1>3 DEF NestedUpgrade
  <2>2. Exclusion' /\ OneUpgrader' /\ ReadsBacked'
    BY <2>1 DEF Exclusion, OneUpgrader, ReadsBacked
  <2>3. readers' = Cardinality(Counted') BY <2>1, SameReaders
  <2>4. CountsAgree' BY <2>1, <2>3 DEF CountsAgree
  <2> QED BY <2>1, <2>2, <2>4
<1> QED BY <1>1, <1>2, <1>3

\* A release.
LEMMA ExitKeepsHeld ==
  ASSUME HeldOK, ReadReleasedFirst, NEW t \in Threads, Exit(t)
  PROVE  HeldOK' /\ \A u \in Threads \ {t} : counts'[u] = counts[u]
<1> USE DEF HeldOK, ThreadCounts
<1>1. CASE ExitReadLock(t)
  <2>1. CASE counts[t].reader = 1 /\ counts[t].readerCountsTowardGlobal
    <3>1. /\ readers' = readers - 1
          /\ \A u \in Threads \ {t} : counts'[u] = counts[u]
          /\ counts' \in [Threads -> ThreadCounts]
          /\ counts'[t].reader = 0 /\ counts'[t].readerCountsTowardGlobal = FALSE
          /\ counts'[t].writer = counts[t].writer /\ counts'[t].upgrade = counts[t].upgrade
          /\ UNCHANGED <<writerActive, upgradeableActive>>
      BY <1>1, <2>1 DEF ExitReadLock
    <3>2. Counted' = Counted \ {t} BY <3>1 DEF Counted
    <3>3. t \in Counted BY <2>1 DEF Counted
    <3>4. readers' = Cardinality(Counted') /\ readers' \in Nat
      BY <3>1, <3>2, <3>3, CountedFinite, CardinalityPlusMinus DEF CountsAgree
    <3>5. Exclusion' /\ OneUpgrader' /\ ReadsBacked'
      BY <3>1 DEF Exclusion, OneUpgrader, ReadsBacked
    <3>6. CountsAgree' BY <3>1, <3>4 DEF CountsAgree
    <3> QED BY <3>1, <3>4, <3>5, <3>6
  <2>2. CASE ~(counts[t].reader = 1 /\ counts[t].readerCountsTowardGlobal)
    <3>1. /\ \A u \in Threads \ {t} : counts'[u] = counts[u]
          /\ counts' \in [Threads -> ThreadCounts]
          /\ counts'[t].reader = counts[t].reader - 1
          /\ counts[t].reader > 0
          /\ counts'[t].readerCountsTowardGlobal = counts[t].readerCountsTowardGlobal
          /\ counts'[t].writer = counts[t].writer /\ counts'[t].upgrade = counts[t].upgrade
          /\ UNCHANGED <<readers, writerActive, upgradeableActive>>
      BY <1>1, <2>2 DEF ExitReadLock
    <3>2. Exclusion' /\ OneUpgrader'
      BY <3>1 DEF Exclusion, OneUpgrader
    <3>3. ReadsBacked' BY <3>1, <2>2 DEF ReadsBacked
    <3>4. readers' = Cardinality(Counted') BY <3>1, SameReaders
    <3>5. CountsAgree' BY <3>1, <3>4 DEF CountsAgree
    <3> QED BY <3>1, <3>2, <3>3, <3>5
  <2> QED BY <2>1, <2>2
<1>2. CASE ExitWriteLock(t)
  <2>1. /\ \A u \in Threads \ {t} : counts'[u] = counts[u]
        /\ counts' \in [Threads -> ThreadCounts]
        /\ counts'[t].writer = counts[t].writer - 1
        /\ counts[t].writer > 0
        /\ counts'[t].readerCountsTowardGlobal = counts[t].readerCountsTowardGlobal
        /\ counts'[t].reader = counts[t].reader /\ counts'[t].upgrade = counts[t].upgrade
        /\ counts[t].reader > 0 => counts'[t].writer > 0 \/ counts'[t].upgrade > 0
        /\ UNCHANGED <<readers, upgradeableActive>>
    BY <1>2 DEF ExitWriteLock, MayRelease
  <2>2. writerActive' = IF counts[t].writer = 1 THEN FALSE ELSE writerActive
    BY <1>2 DEF ExitWriteLock
  <2>3. Exclusion' /\ OneUpgrader' /\ ReadsBacked'
    BY <2>1 DEF Exclusion, OneUpgrader, ReadsBacked
  <2>4. readers' = Cardinality(Counted') BY <2>1, SameReaders
  <2>5. writerActive' <=> \E u \in Threads : counts'[u].writer > 0
    BY <2>1, <2>2 DEF CountsAgree, Exclusion
  <2>6. CountsAgree' BY <2>1, <2>4, <2>5 DEF CountsAgree
  <2> QED BY <2>1, <2>2, <2>3, <2>6
<1>3. CASE ExitUpgradeableReadLock(t)
  <2>1. /\ \A u \in Threads \ {t} : counts'[u] = counts[u]
        /\ counts' \in [Threads -> ThreadCounts]
        /\ counts'[t].upgrade = counts[t].upgrade - 1
        /\ counts[t].upgrade > 0
        /\ counts'[t].readerCountsTowardGlobal = counts[t].readerCountsTowardGlobal
        /\ counts'[t].reader = counts[t].reader /\ counts'[t].writer = counts[t].writer
        /\ counts[t].reader > 0 => counts'[t].writer > 0 \/ counts'[t].upgrade > 0
        /\ UNCHANGED <<readers, writerActive>>
    BY <1>3 DEF ExitUpgradeableReadLock, MayRelease
  <2>2. upgradeableActive' = IF counts[t].upgrade = 1 THEN FALSE ELSE upgradeableActive
    BY <1>3 DEF ExitUpgradeableReadLock
  <2>3. Exclusion' /\ OneUpgrader' /\ ReadsBacked'
    BY <2>1 DEF Exclusion, OneUpgrader, ReadsBacked
  <2>4. readers' = Cardinality(Counted') BY <2>1, SameReaders
  <2>5. upgradeableActive' <=> \E u \in Threads : counts'[u].upgrade > 0
    BY <2>1, <2>2 DEF CountsAgree, OneUpgrader
  <2>6. CountsAgree' BY <2>1, <2>4, <2>5 DEF CountsAgree
  <2> QED BY <2>1, <2>2, <2>3, <2>6
<1> QED BY <1>1, <1>2, <1>3 DEF Exit

\* Counted among the waiters.
Queued == {"parked", "notified"}

\* A thread's way out of a wait, with or without a notification of the others.
LEMMA LeaveQueueFacts ==
  ASSUME TypeOK, NEW t \in Threads, NEW left,
         pc' = LeaveQueue(t, [pc EXCEPT ![t] = "idle"], left)
  PROVE  /\ pc' \in [Threads -> {"idle", "entering", "parked", "notified", "mustNotify", "disposing"}]
         /\ pc'[t] = "idle"
         /\ \A u \in Threads \ {t} : /\ pc'[u] \in Queued <=> pc[u] \in Queued
                                     /\ pc'[u] \in Calling => pc[u] \in Calling
                                     /\ pc'[u] = "parked" => pc[u] = "parked"
                                     /\ pc'[u] = "mustNotify" <=> pc[u] = "mustNotify"
         /\ want[t] = "write" /\ left = 0 => \A u \in Threads : pc'[u] # "parked"
<1>1. CASE want[t] = "write" /\ left = 0
  BY <1>1 DEF TypeOK, LeaveQueue, NotifyAll, Queued, Calling
<1>2. CASE ~(want[t] = "write" /\ left = 0)
  <2>1. pc' = [pc EXCEPT ![t] = "idle"] BY <1>2 DEF LeaveQueue
  <2> QED BY <1>2, <2>1 DEF TypeOK, Queued, Calling
<1> QED BY <1>1, <1>2

\* As long as nobody joins or leaves, the waiter counts stay exact.
LEMMA QueuesKept ==
  ASSUME WaitersExact, UNCHANGED <<waiting, want>>,
         \A u \in Threads : pc'[u] \in Queued <=> pc[u] \in Queued
  PROVE  WaitersExact'
<1>1. \A m \in AllModes : Waiters(m)' = Waiters(m) BY DEF Waiters, Queued
<1> QED BY <1>1 DEF WaitersExact

\* A thread that starts to wait is counted once, for the mode it wants.
LEMMA QueueJoined ==
  ASSUME TypeOK, WaitersExact, NEW t \in Threads, UNCHANGED want,
         pc[t] \notin Queued, pc'[t] \in Queued,
         \A u \in Threads \ {t} : pc'[u] \in Queued <=> pc[u] \in Queued,
         waiting' = [waiting EXCEPT ![want[t]] = @ + 1]
  PROVE  WaitersExact' /\ waiting' \in [AllModes -> Nat]
<1>1. want[t] \in AllModes BY DEF TypeOK
<1>2. \A m \in AllModes \ {want[t]} : Waiters(m)' = Waiters(m) BY DEF Waiters, Queued
<1>3. t \notin Waiters(want[t]) /\ Waiters(want[t])' = Waiters(want[t]) \cup {t}
  BY DEF Waiters, Queued
<1>4. Cardinality(Waiters(want[t])') = waiting[want[t]] + 1
  BY <1>1, <1>3, CountedFinite, CardinalityPlusMinus DEF WaitersExact
<1>5. waiting' \in [AllModes -> Nat] BY <1>1 DEF TypeOK
<1>6. \A m \in AllModes : waiting'[m] = IF m = want[t] THEN waiting[m] + 1 ELSE waiting[m]
  BY <1>1 DEF TypeOK
<1>7. ASSUME NEW m \in AllModes PROVE waiting'[m] = Cardinality(Waiters(m)')
  BY <1>2, <1>4, <1>6 DEF WaitersExact
<1> QED BY <1>5, <1>7 DEF WaitersExact

\* A thread that stops waiting was counted, and is no longer.
LEMMA QueueLeft ==
  ASSUME TypeOK, WaitersExact, NEW t \in Threads, UNCHANGED want,
         pc[t] \in Queued, pc'[t] \notin Queued,
         \A u \in Threads \ {t} : pc'[u] \in Queued <=> pc[u] \in Queued,
         waiting' = [waiting EXCEPT ![want[t]] = @ - 1]
  PROVE  WaitersExact' /\ waiting' \in [AllModes -> Nat] /\ waiting[want[t]] > 0
<1>1. want[t] \in AllModes BY DEF TypeOK
<1>2. \A m \in AllModes \ {want[t]} : Waiters(m)' = Waiters(m) BY DEF Waiters, Queued
<1>3. t \in Waiters(want[t]) /\ Waiters(want[t])' = Waiters(want[t]) \ {t}
  BY DEF Waiters, Queued
<1>4. Cardinality(Waiters(want[t])') = waiting[want[t]] - 1 /\ waiting[want[t]] > 0
  <2>1. IsFiniteSet(Waiters(want[t])) BY CountedFinite
  <2>2. /\ Cardinality(Waiters(want[t]) \ {t}) = Cardinality(Waiters(want[t])) - 1
        /\ Cardinality(Waiters(want[t])) > 0
    BY <2>1, <1>3, CardinalityPlusMinus
  <2>3. waiting[want[t]] = Cardinality(Waiters(want[t])) BY <1>1 DEF WaitersExact
  <2> QED BY <2>2, <2>3, <1>3
<1>5. waiting' \in [AllModes -> Nat] BY <1>1, <1>4 DEF TypeOK
<1>6. \A m \in AllModes : waiting'[m] = IF m = want[t] THEN waiting[m] - 1 ELSE waiting[m]
  BY <1>1 DEF TypeOK
<1>7. ASSUME NEW m \in AllModes PROVE waiting'[m] = Cardinality(Waiters(m)')
  BY <1>2, <1>4, <1>6 DEF WaitersExact
<1> QED BY <1>4, <1>5, <1>7 DEF WaitersExact

\* A step that frees nothing lets nobody in who was kept out.
LEMMA NothingFreed ==
  ASSUME TypeOK, NEW u \in Threads, counts'[u] = counts[u], want'[u] = want[u],
         readers' = 0 => readers = 0, writerActive => writerActive',
         upgradeableActive => upgradeableActive',
         want[u] = "read" => (waiting'["write"] = 0 => waiting["write"] = 0),
         Admitted(u)'
  PROVE  Admitted(u)
<1>0. want[u] = "read" \/ want[u] = "write" \/ want[u] = "upgrade" BY DEF TypeOK, AllModes
<1>1. CASE want[u] = "read"
  <2>1. ReadAdmitted' BY <1>1 DEF Admitted
  <2>2. ReadAdmitted BY <2>1, <1>1 DEF ReadAdmitted
  <2> QED BY <2>2, <1>1 DEF Admitted
<1>2. CASE want[u] = "write"
  <2>1. WriteAdmitted(counts[u].upgrade > 0)' BY <1>2 DEF Admitted, WriteAdmitted
  <2>2. WriteAdmitted(counts[u].upgrade > 0) BY <2>1 DEF WriteAdmitted
  <2> QED BY <2>2, <1>2 DEF Admitted
<1>3. CASE want[u] = "upgrade"
  <2>1. UpgradeAdmitted' BY <1>3 DEF Admitted
  <2>2. UpgradeAdmitted BY <2>1 DEF UpgradeAdmitted
  <2> QED BY <2>2, <1>3 DEF Admitted
<1> QED BY <1>0, <1>1, <1>2, <1>3

\* What Acquire does to the flags.
LEMMA AcquireFreesNothing ==
  ASSUME TypeOK, NEW t \in Threads, Acquire(t)
  PROVE  /\ readers' = 0 => readers = 0
         /\ writerActive => writerActive'
         /\ upgradeableActive => upgradeableActive'
<1>0. want[t] = "read" \/ want[t] = "write" \/ want[t] = "upgrade" BY DEF TypeOK, AllModes
<1>1. CASE want[t] = "read" BY <1>1 DEF Acquire, TypeOK
<1>2. CASE want[t] = "write" BY <1>2 DEF Acquire, TypeOK
<1>3. CASE want[t] = "upgrade" BY <1>3 DEF Acquire, TypeOK
<1> QED BY <1>0, <1>1, <1>2, <1>3

\* The recursion checks depend on the thread's own counts alone.
LEMMA ChecksKept ==
  ASSUME ChecksHold,
         \A u \in Threads : pc'[u] \in Calling =>
            pc[u] \in Calling /\ want'[u] = want[u] /\ counts'[u] = counts[u]
  PROVE  ChecksHold'
<1> SUFFICES ASSUME NEW u \in Threads, pc'[u] \in Calling PROVE MayWaitFor(u, want[u])'
  BY DEF ChecksHold
<1> QED BY DEF ChecksHold, MayWaitFor

\* Every step preserves the invariant.
LEMMA LockNext == ReadReleasedFirst /\ LockIInv /\ [Next]_vars => LockIInv'
<1> SUFFICES ASSUME ReadReleasedFirst, LockIInv, [Next]_vars PROVE LockIInv' OBVIOUS
<1> USE DEF lockState
<1>0. /\ TypeOK /\ HeldOK /\ WaitersExact /\ NoLostWakeup /\ ChecksHold
      /\ want \in [Threads -> AllModes]
      /\ \A u \in Threads : want[u] = "read" \/ want[u] = "write" \/ want[u] = "upgrade"
  BY DEF LockIInv, LockInv, HeldOK, TypeOK, AllModes
<1>z. ASSUME TypeOK', HeldOK', WaitersExact', NoLostWakeup', ChecksHold' PROVE LockIInv'
  BY <1>z DEF LockIInv, LockInv, HeldOK
<1>h. ASSUME UNCHANGED <<counts, lockState>> PROVE HeldOK'
  BY <1>h, <1>0 DEF HeldOK, Exclusion, OneUpgrader, CountsAgree, ReadsBacked, Counted
\* A step that frees nothing and puts nobody to sleep who is let in.
<1>w. ASSUME \A u \in Threads : pc'[u] = "parked" => pc[u] = "parked" /\ (Admitted(u)' => Admitted(u)),
             \A u \in Threads : pc[u] = "mustNotify" => pc'[u] = "mustNotify"
      PROVE  NoLostWakeup'
  BY <1>w, <1>0 DEF NoLostWakeup
<1>1. ASSUME NEW t \in Threads, NEW m \in AllModes, EnterWithoutWaiting(t, m) PROVE LockIInv'
  <2>1. HeldOK' /\ \A u \in Threads \ {t} : counts'[u] = counts[u]
    BY <1>1, <1>0, NestedKeepsHeld DEF EnterWithoutWaiting
  <2>2. /\ pc[t] = "idle"
        /\ UNCHANGED <<waiting, disposed, recursionPolicy, pc, want, timed>>
        /\ readers' = readers
        /\ writerActive' = writerActive
        /\ upgradeableActive => upgradeableActive'
    BY <1>1 DEF EnterWithoutWaiting, Recurse, NestedRead, NestedUpgrade
  <2>3. TypeOK' BY <2>1, <2>2, <1>0 DEF TypeOK, HeldOK
  <2>4. WaitersExact' BY <2>2, <1>0, QueuesKept
  <2>5. ChecksHold' BY <2>1, <2>2, <1>0, ChecksKept DEF Calling
  <2>6. ASSUME NEW u \in Threads, pc'[u] = "parked", Admitted(u)' PROVE Admitted(u)
    BY <2>1, <2>2, <2>6, <1>0, NothingFreed
  <2>7. NoLostWakeup' BY <2>2, <2>6, <1>w
  <2> QED BY <2>1, <2>3, <2>4, <2>5, <2>7, <1>z
<1>2. ASSUME NEW t \in Threads, NEW m \in AllModes, NEW b \in Timeouts, StartEnter(t, m, b) PROVE LockIInv'
  <2>1. /\ pc[t] = "idle" /\ pc' = [pc EXCEPT ![t] = "entering"]
        /\ want' = [want EXCEPT ![t] = m] /\ timed' = [timed EXCEPT ![t] = b]
        /\ UNCHANGED <<counts, readers, writerActive, upgradeableActive, waiting, disposed, recursionPolicy>>
        /\ MayWaitFor(t, m)
    BY <1>2 DEF StartEnter
  <2>2. HeldOK' BY <2>1, <1>h
  <2>3. TypeOK'
    <3>1. b \in BOOLEAN BY LockAssumption
    <3> QED BY <3>1, <2>1, <1>0 DEF TypeOK
  <2>4. WaitersExact'
    <3>1. \A k \in AllModes : Waiters(k)' = Waiters(k) BY <2>1, <1>0 DEF Waiters, TypeOK
    <3> QED BY <3>1, <2>1, <1>0 DEF WaitersExact
  <2>5. ChecksHold'
    <3> SUFFICES ASSUME NEW u \in Threads, pc'[u] \in Calling PROVE MayWaitFor(u, want[u])'
      BY DEF ChecksHold
    <3>1. CASE u = t
      <4>1. want'[u] = m /\ counts'[u] = counts[u] BY <3>1, <2>1, <1>0
      <4> QED BY <3>1, <4>1, <2>1 DEF MayWaitFor
    <3>2. CASE u # t
      <4>1. pc[u] \in Calling /\ want'[u] = want[u] /\ counts'[u] = counts[u] BY <3>2, <2>1, <1>0
          DEF TypeOK
      <4> QED BY <4>1, <1>0 DEF ChecksHold, MayWaitFor
    <3> QED BY <3>1, <3>2
  <2>6. ASSUME NEW u \in Threads, pc'[u] = "parked" PROVE pc[u] = "parked" /\ (Admitted(u)' => Admitted(u))
    <3>1. u # t /\ pc[u] = "parked" BY <2>1, <2>6, <1>0 DEF TypeOK
    <3>2. want'[u] = want[u] BY <2>1, <3>1, <1>0
    <3> QED BY <3>1, <3>2, <2>1, <1>0, NothingFreed
  <2>7. NoLostWakeup'
    <3>1. \A u \in Threads : pc[u] = "mustNotify" => pc'[u] = "mustNotify" BY <2>1, <1>0 DEF TypeOK
    <3> QED BY <3>1, <2>6, <1>w
  <2> QED BY <2>2, <2>3, <2>4, <2>5, <2>7, <1>z
\* A thread is admitted and leaves the queue, if it was in one.
<1>a. ASSUME NEW t \in Threads, pc[t] \in Calling, Admitted(t), Acquire(t), NEW left,
             pc' = LeaveQueue(t, [pc EXCEPT ![t] = "idle"], left),
             UNCHANGED <<disposed, recursionPolicy, want, timed>>,
             WaitersExact', waiting' \in [AllModes -> Nat],
             waiting'["write"] = 0 => waiting["write"] = 0 \/ (want[t] = "write" /\ left = 0)
      PROVE  LockIInv'
  <2>1. MayWaitFor(t, want[t]) BY <1>a, <1>0 DEF ChecksHold
  <2>2. HeldOK' /\ \A u \in Threads \ {t} : counts'[u] = counts[u]
    BY <2>1, <1>a, <1>0, AcquireKeepsHeld
  <2>3. /\ pc' \in [Threads -> {"idle", "entering", "parked", "notified", "mustNotify", "disposing"}]
        /\ pc'[t] = "idle"
        /\ \A u \in Threads \ {t} : /\ pc'[u] \in Calling => pc[u] \in Calling
                                    /\ pc'[u] = "parked" => pc[u] = "parked"
                                    /\ pc'[u] = "mustNotify" <=> pc[u] = "mustNotify"
        /\ want[t] = "write" /\ left = 0 => \A u \in Threads : pc'[u] # "parked"
    BY <1>a, <1>0, LeaveQueueFacts
  <2>4. TypeOK' BY <2>2, <2>3, <1>a, <1>0 DEF TypeOK, HeldOK
  <2>5. ChecksHold' BY <2>2, <2>3, <1>a, <1>0, ChecksKept DEF Calling
  <2>6. ASSUME NEW u \in Threads, pc'[u] = "parked", Admitted(u)' PROVE Admitted(u)
    <3>1. u # t /\ counts'[u] = counts[u] BY <2>6, <2>2, <2>3
    <3>2. waiting'["write"] = 0 => waiting["write"] = 0 BY <2>6, <2>3, <1>a
    <3> QED BY <3>1, <3>2, <2>6, <1>a, <1>0, AcquireFreesNothing, NothingFreed
  <2>7. NoLostWakeup'
    <3>1. pc[t] # "mustNotify" BY <1>a DEF Calling
    <3> QED BY <3>1, <2>3, <2>6, <1>w
  <2> QED BY <2>2, <2>4, <2>5, <2>7, <1>a, <1>z
<1>3. ASSUME NEW t \in Threads, Enter(t) PROVE LockIInv'
  <2>1. CASE Admitted(t) /\ Acquire(t) /\ pc' = LeaveQueue(t, [pc EXCEPT ![t] = "idle"], waiting[want[t]])
             /\ UNCHANGED waiting
    <3>1. /\ pc[t] = "entering" /\ UNCHANGED <<disposed, recursionPolicy, want, timed>>
      BY <1>3 DEF Enter
    <3>2. WaitersExact'
      <4>1. \A u \in Threads : pc'[u] \in Queued <=> pc[u] \in Queued
        BY <2>1, <3>1, <1>0, LeaveQueueFacts DEF Queued
      <4> QED BY <4>1, <2>1, <3>1, <1>0, QueuesKept
    <3>3. waiting' \in [AllModes -> Nat] BY <2>1, <1>0 DEF TypeOK
    <3>4. waiting'["write"] = 0 => waiting["write"] = 0 BY <2>1
    <3>5. pc[t] \in Calling BY <3>1 DEF Calling
    <3> QED BY <3>1, <3>2, <3>3, <3>4, <3>5, <2>1, <1>a
  <2>2. CASE ~Admitted(t) /\ waiting' = [waiting EXCEPT ![want[t]] = @ + 1]
             /\ pc' = [pc EXCEPT ![t] = "parked"] /\ UNCHANGED <<counts, lockState>>
    <3>1. pc[t] = "entering" /\ UNCHANGED <<disposed, recursionPolicy, want, timed>>
      BY <1>3 DEF Enter
    <3>2. pc'[t] = "parked" /\ \A u \in Threads \ {t} : pc'[u] = pc[u] BY <2>2, <1>0 DEF TypeOK
    <3>3. WaitersExact' /\ waiting' \in [AllModes -> Nat]
      BY <3>1, <3>2, <2>2, <1>0, QueueJoined DEF Queued
    <3>4. TypeOK' BY <3>1, <3>3, <2>2, <1>0 DEF TypeOK
    <3>5. HeldOK' BY <2>2, <1>h
    <3>6. ChecksHold' BY <3>1, <3>2, <2>2, <1>0, ChecksKept DEF Calling
    <3>7. ASSUME NEW u \in Threads, Admitted(u)' PROVE Admitted(u)
      <4>1. waiting'["write"] = 0 => waiting["write"] = 0
        BY <2>2, <1>0 DEF TypeOK, AllModes
      <4> QED BY <4>1, <3>7, <3>1, <2>2, <1>0, NothingFreed
    <3>8. NoLostWakeup'
      <4> SUFFICES ASSUME NEW u \in Threads, pc'[u] = "parked", Admitted(u)'
                   PROVE  \E v \in Threads : pc'[v] = "mustNotify"
        BY DEF NoLostWakeup
      <4>1. u # t /\ pc[u] = "parked" /\ Admitted(u) BY <3>2, <3>7, <2>2
      <4>2. PICK v \in Threads : pc[v] = "mustNotify" BY <4>1, <1>0 DEF NoLostWakeup
      <4> QED BY <4>2, <3>1, <3>2
    <3> QED BY <3>3, <3>4, <3>5, <3>6, <3>8, <1>z
  <2> QED BY <2>1, <2>2, <1>3 DEF Enter
<1>4. ASSUME NEW t \in Threads, Resume(t) PROVE LockIInv'
  <2>1. CASE Admitted(t) /\ Acquire(t) /\ waiting' = [waiting EXCEPT ![want[t]] = @ - 1]
             /\ pc' = LeaveQueue(t, [pc EXCEPT ![t] = "idle"], waiting[want[t]] - 1)
    <3>1. pc[t] = "notified" /\ UNCHANGED <<disposed, recursionPolicy, want, timed>>
      BY <1>4 DEF Resume
    <3>2. pc'[t] = "idle" /\ \A u \in Threads \ {t} : pc'[u] \in Queued <=> pc[u] \in Queued
      BY <2>1, <1>0, LeaveQueueFacts
    <3>3. WaitersExact' /\ waiting' \in [AllModes -> Nat]
      BY <3>1, <3>2, <2>1, <1>0, QueueLeft DEF Queued
    <3>4. waiting'["write"] = 0 => waiting["write"] = 0 \/ (want[t] = "write" /\ waiting[want[t]] - 1 = 0)
      BY <2>1, <1>0 DEF TypeOK, AllModes
    <3>5. pc[t] \in Calling BY <3>1 DEF Calling
    <3> QED BY <3>1, <3>3, <3>4, <3>5, <2>1, <1>a
  <2>2. CASE ~Admitted(t) /\ pc' = [pc EXCEPT ![t] = "parked"] /\ UNCHANGED <<counts, lockState, waiting>>
    <3>1. pc[t] = "notified" /\ UNCHANGED <<disposed, recursionPolicy, want, timed>>
      BY <1>4 DEF Resume
    <3>2. pc'[t] = "parked" /\ \A u \in Threads \ {t} : pc'[u] = pc[u] BY <2>2, <1>0 DEF TypeOK
    <3>3. WaitersExact' BY <3>1, <3>2, <2>2, <1>0, QueuesKept DEF Queued
    <3>4. TypeOK' BY <3>1, <2>2, <1>0 DEF TypeOK
    <3>5. HeldOK' BY <2>2, <1>h
    <3>6. ChecksHold' BY <3>1, <3>2, <2>2, <1>0, ChecksKept DEF Calling
    <3>7. ASSUME NEW u \in Threads, Admitted(u)' PROVE Admitted(u)
      BY <3>7, <3>1, <2>2, <1>0, NothingFreed
    <3>8. NoLostWakeup'
      <4> SUFFICES ASSUME NEW u \in Threads, pc'[u] = "parked", Admitted(u)'
                   PROVE  \E v \in Threads : pc'[v] = "mustNotify"
        BY DEF NoLostWakeup
      <4>1. u # t /\ pc[u] = "parked" /\ Admitted(u) BY <3>2, <3>7, <2>2
      <4>2. PICK v \in Threads : pc[v] = "mustNotify" BY <4>1, <1>0 DEF NoLostWakeup
      <4> QED BY <4>2, <3>1, <3>2
    <3> QED BY <3>3, <3>4, <3>5, <3>6, <3>8, <1>z
  <2> QED BY <2>1, <2>2, <1>4 DEF Resume
<1>5. ASSUME NEW t \in Threads, WakeEarly(t) PROVE LockIInv'
  <2>1. /\ pc[t] = "parked" /\ pc' = [pc EXCEPT ![t] = "notified"]
        /\ UNCHANGED <<counts, readers, writerActive, upgradeableActive, waiting, disposed,
                       recursionPolicy, want, timed>>
    BY <1>5 DEF WakeEarly
  <2>2. pc'[t] = "notified" /\ \A u \in Threads \ {t} : pc'[u] = pc[u] BY <2>1, <1>0 DEF TypeOK
  <2>3. WaitersExact' BY <2>1, <2>2, <1>0, QueuesKept DEF Queued
  <2>4. TypeOK' BY <2>1, <1>0 DEF TypeOK
  <2>5. HeldOK' BY <2>1, <1>h
  <2>6. ChecksHold' BY <2>1, <2>2, <1>0, ChecksKept DEF Calling
  <2>7. ASSUME NEW u \in Threads, Admitted(u)' PROVE Admitted(u)
    BY <2>7, <2>1, <1>0, NothingFreed
  <2>8. NoLostWakeup' BY <2>1, <2>2, <2>7, <1>w
  <2> QED BY <2>3, <2>4, <2>5, <2>6, <2>8, <1>z
<1>6. ASSUME NEW t \in Threads, TimeOut(t) PROVE LockIInv'
  <2>1. /\ pc[t] \in Queued
        /\ waiting' = [waiting EXCEPT ![want[t]] = @ - 1]
        /\ pc' = LeaveQueue(t, [pc EXCEPT ![t] = "idle"], waiting[want[t]] - 1)
        /\ UNCHANGED <<counts, readers, writerActive, upgradeableActive, disposed, recursionPolicy,
                       want, timed>>
    BY <1>6 DEF TimeOut, Queued
  <2>2. /\ pc' \in [Threads -> {"idle", "entering", "parked", "notified", "mustNotify", "disposing"}]
        /\ pc'[t] = "idle"
        /\ \A u \in Threads \ {t} : /\ pc'[u] \in Queued <=> pc[u] \in Queued
                                    /\ pc'[u] \in Calling => pc[u] \in Calling
                                    /\ pc'[u] = "parked" => pc[u] = "parked"
                                    /\ pc'[u] = "mustNotify" <=> pc[u] = "mustNotify"
        /\ want[t] = "write" /\ waiting[want[t]] - 1 = 0 => \A u \in Threads : pc'[u] # "parked"
    BY <2>1, <1>0, LeaveQueueFacts
  <2>3. WaitersExact' /\ waiting' \in [AllModes -> Nat]
    BY <2>1, <2>2, <1>0, QueueLeft DEF Queued
  <2>4. TypeOK' BY <2>1, <2>2, <2>3, <1>0 DEF TypeOK
  <2>5. HeldOK' BY <2>1, <1>h
  <2>6. ChecksHold' BY <2>1, <2>2, <1>0, ChecksKept DEF Calling
  <2>7. ASSUME NEW u \in Threads, pc'[u] = "parked", Admitted(u)' PROVE Admitted(u)
    <3>1. waiting'["write"] = 0 => waiting["write"] = 0
      BY <2>1, <2>2, <2>7, <1>0 DEF TypeOK, AllModes
    <3> QED BY <3>1, <2>7, <2>1, <1>0, NothingFreed
  <2>8. NoLostWakeup'
    <3>1. pc[t] # "mustNotify" BY <2>1 DEF Queued
    <3> QED BY <3>1, <2>2, <2>7, <1>w
  <2> QED BY <2>3, <2>4, <2>5, <2>6, <2>8, <1>z
<1>7. ASSUME NEW t \in Threads, Exit(t) PROVE LockIInv'
  <2>1. HeldOK' /\ \A u \in Threads \ {t} : counts'[u] = counts[u]
    BY <1>7, <1>0, ExitKeepsHeld
  <2>2. pc[t] = "idle" /\ UNCHANGED <<waiting, disposed, recursionPolicy, want, timed>>
    BY <1>7 DEF Exit, ExitReadLock, ExitWriteLock, ExitUpgradeableReadLock
  <2>3. \/ pc' = [pc EXCEPT ![t] = "mustNotify"]
        \/ UNCHANGED <<pc, readers, writerActive, upgradeableActive>>
    BY <1>7 DEF Exit, ExitReadLock, ExitWriteLock, ExitUpgradeableReadLock
  <2>4. \A u \in Threads \ {t} : pc'[u] = pc[u] BY <2>3, <1>0 DEF TypeOK
  <2>5. pc'[t] \in {"idle", "mustNotify"} BY <2>2, <2>3, <1>0 DEF TypeOK
  <2>6. TypeOK' BY <2>1, <2>2, <2>3, <1>0 DEF TypeOK, HeldOK
  <2>7. WaitersExact' BY <2>2, <2>4, <2>5, <1>0, QueuesKept DEF Queued
  <2>8. ChecksHold' BY <2>1, <2>2, <2>4, <2>5, <1>0, ChecksKept DEF Calling
  <2>9. NoLostWakeup'
    <3>1. CASE pc' = [pc EXCEPT ![t] = "mustNotify"]
      BY <3>1, <1>0 DEF NoLostWakeup, TypeOK
    <3>2. CASE UNCHANGED <<pc, readers, writerActive, upgradeableActive>>
      <4>1. ASSUME NEW u \in Threads, pc'[u] = "parked", Admitted(u)' PROVE Admitted(u)
        <5>1. u # t /\ counts'[u] = counts[u] BY <4>1, <3>2, <2>1, <2>2
        <5> QED BY <5>1, <4>1, <3>2, <2>2, <1>0, NothingFreed
      <4> QED BY <4>1, <3>2, <1>w
    <3> QED BY <3>1, <3>2, <2>3
  <2> QED BY <2>1, <2>6, <2>7, <2>8, <2>9, <1>z
<1>8. ASSUME NEW t \in Threads, ExitNotifies(t) PROVE LockIInv'
  <2>1. /\ pc[t] = "mustNotify" /\ pc' = NotifyAll([pc EXCEPT ![t] = "idle"])
        /\ UNCHANGED <<counts, readers, writerActive, upgradeableActive, waiting, disposed,
                       recursionPolicy, want, timed>>
    BY <1>8 DEF ExitNotifies
  <2>2. /\ pc' \in [Threads -> {"idle", "entering", "parked", "notified", "mustNotify", "disposing"}]
        /\ \A u \in Threads : /\ pc'[u] # "parked"
                              /\ pc'[u] \in Queued <=> pc[u] \in Queued
                              /\ pc'[u] \in Calling => pc[u] \in Calling
    BY <2>1, <1>0 DEF TypeOK, NotifyAll, Queued, Calling
  <2>3. TypeOK' BY <2>1, <2>2, <1>0 DEF TypeOK
  <2>4. HeldOK' BY <2>1, <1>h
  <2>5. WaitersExact' BY <2>1, <2>2, <1>0, QueuesKept
  <2>6. ChecksHold' BY <2>1, <2>2, <1>0, ChecksKept
  <2>7. NoLostWakeup' BY <2>2 DEF NoLostWakeup
  <2> QED BY <2>3, <2>4, <2>5, <2>6, <2>7, <1>z
<1>9. ASSUME NEW t \in Threads, StartDispose(t) \/ FinishDispose(t) PROVE LockIInv'
  <2>1. /\ UNCHANGED <<counts, readers, writerActive, upgradeableActive, waiting, recursionPolicy, want, timed>>
        /\ pc[t] \in {"idle", "disposing"}
        /\ pc' = [pc EXCEPT ![t] = "disposing"] \/ pc' = [pc EXCEPT ![t] = "idle"]
        /\ disposed' \in BOOLEAN
    BY <1>9, <1>0 DEF StartDispose, FinishDispose, TypeOK
  <2>2. pc'[t] \in {"idle", "disposing"} /\ \A u \in Threads \ {t} : pc'[u] = pc[u]
    BY <2>1, <1>0 DEF TypeOK
  <2>3. TypeOK' BY <2>1, <1>0 DEF TypeOK
  <2>4. HeldOK' BY <2>1, <1>h
  <2>5. WaitersExact' BY <2>1, <2>2, <1>0, QueuesKept DEF Queued
  <2>6. ChecksHold' BY <2>1, <2>2, <1>0, ChecksKept DEF Calling
  <2>7. ASSUME NEW u \in Threads, Admitted(u)' PROVE Admitted(u)
    BY <2>7, <2>1, <1>0, NothingFreed
  <2>8. NoLostWakeup' BY <2>1, <2>2, <2>7, <1>w
  <2> QED BY <2>3, <2>4, <2>5, <2>6, <2>8, <1>z
<1>10. CASE UNCHANGED vars
  <2>1. UNCHANGED <<counts, readers, writerActive, upgradeableActive, waiting, disposed,
                    recursionPolicy, pc, want, timed>>
    BY <1>10 DEF vars
  <2>2. TypeOK' /\ HeldOK' BY <2>1, <1>h, <1>0 DEF TypeOK
  <2>3. WaitersExact' BY <2>1, <1>0, QueuesKept
  <2>4. ChecksHold' BY <2>1, <1>0, ChecksKept
  <2>5. ASSUME NEW u \in Threads, Admitted(u)' PROVE Admitted(u)
    BY <2>5, <2>1, <1>0, NothingFreed
  <2>6. NoLostWakeup' BY <2>1, <2>5, <1>w
  <2> QED BY <2>2, <2>3, <2>4, <2>6, <1>z
<1> QED
  <2>1. Disposers \subseteq Threads BY LockAssumption
  <2> QED BY <2>1, <1>1, <1>2, <1>3, <1>4, <1>5, <1>6, <1>7, <1>8, <1>9, <1>10 DEF Next, Inside

\* For any number of threads, any recursion depth, both recursion policies, timed
\* and untimed waits and any disposers: as long as callers release a nested read
\* before the mode it rests on, the lock excludes, its shared counters and its
\* waiter counts are exact, and nobody sleeps on a lock that would admit it.
THEOREM LockIsCorrect == ASSUME ReadReleasedFirst PROVE Spec => []LockInv
<1>1. LockIInv /\ [Next]_vars => LockIInv' BY LockNext
<1>2. LockIInv => LockInv BY DEF LockIInv
<1> QED BY <1>1, <1>2, LockInit, PTL DEF Spec

(* ReaderWriterLock. *)

\* A thread that waits for a lock it is to take back has a cookie for just that lock.
CookiesStand ==
  \A t \in Pair : after[t] = "restore" =>
    /\ lPc[t] = "shared" => cookie[t].reader > 0
    /\ lPc[t] = "exclusive" => cookie[t].writer > 0

\* A number that was read is not ahead of the lock's, and behind it as soon as the
\* other thread that wrote has let go.  One that was read as the writer is behind it as
\* soon as that writer has let go, and one more behind when others wrote.
NumbersMove ==
  /\ lHolder # Legacy!None => writerSeqNum_ <= MaxWrites
  /\ \A t \in Pair :
       /\ seqNum[t] <= writerSeqNum_
       /\ written[t] => seqNum[t] < writerSeqNum_ \/ lHolder \notin {Legacy!None, t}
       /\ asWriter[t] =>
            \/ lHolder = t /\ ~written[t]
            \/ /\ seqNum[t] < writerSeqNum_
               /\ written[t] => seqNum[t] + 1 < writerSeqNum_ \/ lHolder \notin {Legacy!None, t}

\* The inductive invariant.
LegacyIInv == Legacy!TypeOK /\ Legacy!LevelsTellHolders /\ CookiesStand /\ NumbersMove

\* Letting go of the writer lock.
LEMMA LetGoFacts ==
  ASSUME LegacyAssumed, Legacy!TypeOK, Legacy!LevelsTellHolders, NumbersMove, Legacy!LetGo, lHolder # Legacy!None
  PROVE  /\ lHolder' = Legacy!None /\ writerThreadId_' = Legacy!NoWriter /\ writerLevel_' = 0
         /\ writerSeqNum_' = writerSeqNum_ + 1 /\ writerSeqNum_' \in 1 .. (MaxWrites + 1)
BY DEF Legacy!LetGo, Legacy!NextSeqNum, LegacyAssumed, Legacy!TypeOK, Legacy!LevelsTellHolders,
    NumbersMove

\* The invariant holds at the start, and every step keeps it.
LEMMA LegacyInductive == ASSUME LegacyAssumed PROVE Legacy!Spec => []LegacyIInv
<1>1. Legacy!Init => LegacyIInv
  <2> SUFFICES ASSUME Legacy!Init PROVE LegacyIInv OBVIOUS
  <2>1. Legacy!TypeOK BY DEF Legacy!Init, Legacy!TypeOK, Legacy!Nothing, Legacy!NoWriter, LegacyAssumed
  <2>2. Legacy!LevelsTellHolders /\ CookiesStand /\ NumbersMove
    BY DEF Legacy!Init, Legacy!LevelsTellHolders, CookiesStand, NumbersMove, Legacy!Reads,
        Legacy!Writes, Legacy!CurrentThreadId, Legacy!DistinctIds, LegacyAssumed
  <2> QED BY <2>1, <2>2 DEF LegacyIInv
<1>2. LegacyIInv /\ [Legacy!Next]_Legacy!vars => LegacyIInv'
  <2> SUFFICES ASSUME LegacyIInv, [Legacy!Next]_Legacy!vars PROVE LegacyIInv' OBVIOUS
  <2> USE DEF LegacyAssumed, LegacyIInv, Legacy!TypeOK, Legacy!LevelsTellHolders, CookiesStand,
      NumbersMove, Legacy!mtx, Legacy!writer,
      Legacy!calls, Legacy!watch, Legacy!Writes, Legacy!Reads, Legacy!HasCookie, Legacy!Nothing,
      Legacy!Block, Legacy!Return, Legacy!CurrentThreadId, Legacy!DistinctIds, Legacy!NoWriter
  <2>1. ASSUME NEW t \in Pair, Legacy!AcquireReaderLock(t) PROVE LegacyIInv'
    <3>1. CASE Legacy!Reads(t)
      <4>1. /\ level' = [level EXCEPT ![t] = @ + 1] /\ level[t] < MaxLevel /\ level[t] > 0
            /\ UNCHANGED <<sharers, lHolder, writerThreadId_, writerLevel_, writerSeqNum_, lPc, after, cookie,
                           seqNum, asWriter, written>>
        BY <2>1, <3>1 DEF Legacy!AcquireReaderLock
      <4>2. /\ level' \in [Pair -> 0..MaxLevel]
            /\ \A u \in Pair : level'[u] > 0 <=> level[u] > 0
        BY <4>1
      <4>3. Legacy!TypeOK' /\ CookiesStand' /\ NumbersMove' BY <4>1, <4>2
      <4>4. Legacy!LevelsTellHolders' BY <4>1, <4>2
      <4> QED BY <4>3, <4>4
    <3>2. CASE ~Legacy!Reads(t) /\ Legacy!Writes(t) BY <2>1, <3>2 DEF Legacy!AcquireReaderLock
    <3>3. CASE ~Legacy!Reads(t) /\ ~Legacy!Writes(t) BY <2>1, <3>3 DEF Legacy!AcquireReaderLock
    <3> QED BY <3>1, <3>2, <3>3
  <2>2. ASSUME NEW t \in Pair, Legacy!AcquireWriterLock(t) PROVE LegacyIInv'
    <3>1. CASE Legacy!Writes(t) BY <2>2, <3>1 DEF Legacy!AcquireWriterLock
    <3>2. CASE ~Legacy!Writes(t) BY <2>2, <3>2 DEF Legacy!AcquireWriterLock
    <3> QED BY <3>1, <3>2
  <2>3. ASSUME NEW t \in Pair, Legacy!LockShared(t) PROVE LegacyIInv' BY <2>3 DEF Legacy!LockShared
  <2>4. ASSUME NEW t \in Pair, Legacy!LockExclusive(t) PROVE LegacyIInv' BY <2>4
      DEF Legacy!LockExclusive
  <2>5. ASSUME NEW t \in Pair, Legacy!TimeOut(t) PROVE LegacyIInv' BY <2>5 DEF Legacy!TimeOut
  <2>6. ASSUME NEW t \in Pair, Legacy!ReleaseReaderLock(t) PROVE LegacyIInv' BY <2>6
      DEF Legacy!ReleaseReaderLock
  <2>7. ASSUME NEW t \in Pair, Legacy!ReleaseWriterLock(t) PROVE LegacyIInv' BY <2>7, LetGoFacts
      DEF Legacy!ReleaseWriterLock
  <2>8. ASSUME NEW t \in Pair, Legacy!ReleaseLock(t) PROVE LegacyIInv' BY <2>8, LetGoFacts
      DEF Legacy!ReleaseLock
  <2>9. ASSUME NEW t \in Pair, Legacy!RestoreLock(t) PROVE LegacyIInv' BY <2>9 DEF Legacy!RestoreLock
  <2>10. ASSUME NEW t \in Pair, Legacy!UpgradeToWriterLock(t) PROVE LegacyIInv' BY <2>10
      DEF Legacy!UpgradeToWriterLock
  <2>11. ASSUME NEW t \in Pair, Legacy!DowngradeFromWriterLock(t) PROVE LegacyIInv'
    BY <2>11, LetGoFacts DEF Legacy!DowngradeFromWriterLock
  <2>12. ASSUME NEW t \in Pair, Legacy!ReadSeqNum(t) PROVE LegacyIInv'
    <3>0. /\ UNCHANGED <<sharers, lHolder, writerThreadId_, writerLevel_, writerSeqNum_, level, lPc, after, cookie>>
          /\ seqNum' = [seqNum EXCEPT ![t] = writerSeqNum_]
          /\ asWriter' = [asWriter EXCEPT ![t] = Legacy!Writes(t)]
          /\ written' = [written EXCEPT ![t] = FALSE]
      BY <2>12 DEF Legacy!ReadSeqNum
    <3>1. Legacy!Writes(t) \in BOOLEAN /\ (Legacy!Writes(t) <=> lHolder = t) OBVIOUS
    <3>2. /\ seqNum'[t] = writerSeqNum_ /\ seqNum' \in [Pair -> 0..(MaxWrites + 1)]
          /\ \A u \in Pair : u # t => seqNum'[u] = seqNum[u]
      BY <3>0
    <3>3. /\ asWriter'[t] = Legacy!Writes(t) /\ asWriter' \in [Pair -> BOOLEAN]
          /\ \A u \in Pair : u # t => asWriter'[u] = asWriter[u]
      <4>1. asWriter \in [Pair -> BOOLEAN] OBVIOUS
      <4> HIDE DEF Legacy!Writes
      <4> QED BY <3>0, <3>1, <4>1, Zenon
    <3>4. /\ ~written'[t] /\ written' \in [Pair -> BOOLEAN]
          /\ \A u \in Pair : u # t => written'[u] = written[u]
      BY <3>0
    <3>5. Legacy!TypeOK' /\ Legacy!LevelsTellHolders' /\ CookiesStand' BY <3>0, <3>2, <3>3, <3>4
    <3>6. NumbersMove'
      <4>1. ASSUME NEW u \in Pair, u # t
            PROVE  /\ seqNum'[u] <= writerSeqNum_'
                   /\ written'[u] => seqNum'[u] < writerSeqNum_' \/ lHolder' \notin {Legacy!None, u}
                   /\ asWriter'[u] =>
                        \/ lHolder' = u /\ ~written'[u]
                        \/ /\ seqNum'[u] < writerSeqNum_'
                           /\ written'[u] => seqNum'[u] + 1 < writerSeqNum_' \/ lHolder' \notin {Legacy!None, u}
        BY <3>0, <3>2, <3>3, <3>4, <4>1
      <4>2. seqNum'[t] <= writerSeqNum_' /\ ~written'[t] BY <3>0, <3>2, <3>4
      <4>4. asWriter'[t] => lHolder' = t
        <5>1. lHolder' = lHolder BY <3>0
        <5> HIDE DEF Legacy!Writes
        <5> QED BY <3>1, <3>3, <5>1, Zenon
      <4>3. lHolder' # Legacy!None => writerSeqNum_' <= MaxWrites BY <3>0
      <4> QED BY <4>1, <4>2, <4>3, <4>4
    <3> QED BY <3>5, <3>6
  <2>13. CASE UNCHANGED Legacy!vars BY <2>13 DEF Legacy!vars
  <2> QED BY <2>1, <2>2, <2>3, <2>4, <2>5, <2>6, <2>7, <2>8, <2>9, <2>10, <2>11, <2>12, <2>13
      DEF Legacy!Next
<1> QED BY <1>1, <1>2, PTL DEF Legacy!Spec

\* For any number of threads and any nesting: readers and the writer exclude each other
\* through timeouts, upgrades, downgrades, ReleaseLock and RestoreLock, and a thread in
\* the lock that is told nobody else wrote since its sequence number can rely on it, with
\* the exception of a reader turned writer that missed exactly one.  LegacyAssumption
\* asks for threads whose numbers differ and are not -1, which CurrentThreadId() itself
\* does not guarantee.
THEOREM LegacyLockIsCorrect == Legacy!Spec => []LegacyLockInv
<1>1. LegacyIInv => LegacyLockInv
  BY LegacyAssumption DEF LegacyIInv, LegacyLockInv, Legacy!LegacyLockInv, Legacy!TypeOK,
      Legacy!LevelsTellHolders, NumbersMove, Legacy!WritersAreHeardOf, Legacy!AnyWritersSince,
      Legacy!Reads, Legacy!Writes, LegacyAssumed
<1> QED BY <1>1, LegacyInductive, LegacyAssumption, PTL

(* Monitor. *)

\* Where a thread holds the mutex for certain.
Holding == {"locked", "unlocking", "restoring"}

\* The thread that holds the mutex has one level more than is noted between taking it and
\* the note, between the note and the release, and on its way out of a wait.
HolderNoted ==
  IF holder = Owned!None THEN levels = 0 /\ depth = 0 /\ owner = Owned!None
  ELSE /\ mPc[holder] \notin {"parked", "woken"}
       /\ mPc[holder] = "restoring" => levels = 1 /\ depth = 0 /\ owner = Owned!None
       /\ mPc[holder] \in {"locked", "unlocking"} => levels = depth + 1
       /\ mPc[holder] \in {"idle", "locking"} => levels = depth /\ depth > 0
       /\ mPc[holder] # "restoring" => /\ entered[holder] = depth
                                      /\ owner = IF depth = 0 THEN Owned!None ELSE holder

\* The others are out, or wait with what they will restore.
OthersOut ==
  \A t \in Threads :
    /\ t # holder => mPc[t] \notin Holding /\ (mPc[t] \in {"idle", "locking"} => entered[t] = 0)
    /\ Owned!Waiting(t) => saved[t] = entered[t] /\ entered[t] > 0
    /\ mPc[t] \in {"locking", "locked"} => entered[t] < MaxLevels

\* The inductive invariant.
MonitorIInv == Owned!TypeOK /\ HolderNoted /\ OthersOut

\* The invariant holds at the start, and every step keeps it.
LEMMA MonitorInductive == ASSUME MonitorAssumed PROVE Owned!Spec => []MonitorIInv
<1> USE DEF MonitorAssumed
<1>1. Owned!Init => MonitorIInv
  <2> SUFFICES ASSUME Owned!Init PROVE MonitorIInv OBVIOUS
  <2>1. closed_ \in BOOLEAN BY DEF Owned!Init
  <2>2. Owned!TypeOK BY <2>1 DEF Owned!Init, Owned!TypeOK
  <2>3. HolderNoted /\ OthersOut BY DEF Owned!Init, HolderNoted, OthersOut, Owned!Waiting, Holding
  <2> QED BY <2>2, <2>3 DEF MonitorIInv
<1>2. MonitorIInv /\ [Owned!Next]_Owned!vars => MonitorIInv'
  <2> SUFFICES ASSUME MonitorIInv, [Owned!Next]_Owned!vars PROVE MonitorIInv' OBVIOUS
  <2> USE DEF MonitorIInv, Owned!TypeOK, HolderNoted, OthersOut, Owned!Waiting, Holding, Owned!mutex,
      Owned!notes, Owned!GoTo
  <2>1. ASSUME NEW t \in Threads, Owned!Enter(t) PROVE MonitorIInv' BY <2>1 DEF Owned!Enter
  <2>2. ASSUME NEW t \in Threads, Owned!Lock(t) PROVE MonitorIInv' BY <2>2 DEF Owned!Lock, Owned!MayLock
  <2>3. ASSUME NEW t \in Threads, Owned!GiveUp(t) PROVE MonitorIInv' BY <2>3 DEF Owned!GiveUp,
      Owned!MayLock
  <2>4. ASSUME NEW t \in Threads, Owned!OnAcquired(t) PROVE MonitorIInv' BY <2>4 DEF Owned!OnAcquired
  <2>5. ASSUME NEW t \in Threads, Owned!OnReleasing(t) PROVE MonitorIInv'
    BY <2>5 DEF Owned!OnReleasing, Owned!HeldByCurrentThread, Owned!OwnerAfterRelease
  <2>6. ASSUME NEW t \in Threads, Owned!Unlock(t) PROVE MonitorIInv' BY <2>6 DEF Owned!Unlock
  <2>7. ASSUME NEW t \in Threads, Owned!Wait(t) PROVE MonitorIInv' BY <2>7 DEF Owned!Wait,
      Owned!HeldByCurrentThread, Owned!Kept
  <2>8. ASSUME NEW t \in Threads, Owned!WakeUp(t) PROVE MonitorIInv' BY <2>8 DEF Owned!WakeUp
  <2>9. ASSUME NEW t \in Threads, Owned!Relock(t) PROVE MonitorIInv' BY <2>9 DEF Owned!Relock,
      Owned!MayLock
  <2>10. ASSUME NEW t \in Threads, Owned!Restore(t) PROVE MonitorIInv' BY <2>10 DEF Owned!Restore
  <2>11. ASSUME NEW t \in Threads, Owned!Pulse(t) PROVE MonitorIInv' BY <2>11 DEF Owned!Pulse,
      Owned!Sleepers
  <2>12. ASSUME NEW t \in Threads, Owned!PulseAll(t) PROVE MonitorIInv' BY <2>12 DEF Owned!PulseAll,
      Owned!Sleepers
  <2>13. CASE Owned!Dispose BY <2>13 DEF Owned!Dispose
  <2>14. CASE UNCHANGED Owned!vars BY <2>14 DEF Owned!vars
  <2> QED BY <2>1, <2>2, <2>3, <2>4, <2>5, <2>6, <2>7, <2>8, <2>9, <2>10, <2>11, <2>12, <2>13, <2>14
          DEF Owned!Next
<1> QED BY <1>1, <1>2, PTL DEF Owned!Spec

\* For any number of threads and any depth of re-entry: owner and depth, which are kept
\* outside the mutex, tell who holds it and how often, and a thread inside Wait has let go
\* of every level and takes all of them back.
THEOREM MonitorIsCorrect == Owned!Spec => []MonitorInv
<1>1. MonitorIInv => MonitorInv
  BY MonitorAssumption DEF MonitorIInv, MonitorInv, Owned!MonitorInv, Owned!TypeOK, HolderNoted,
      OthersOut, Owned!HeldAsEntered, Owned!OwnerIsIn, Owned!WaiterIsOut,
         Owned!Waiting, Holding, MonitorAssumed
<1> QED BY <1>1, MonitorInductive, MonitorAssumption, PTL

-----------------------------------------------------------------------------
(* System.Timers.Timer. *)

\* The assumptions on the constants.
LEMMA ElapsedConstants == MaxCalls \in Nat /\ IsFiniteSet(Pair) /\ Pair \cap Elapsed!Generations = {}
BY ElapsedAssumption DEF ElapsedAssumed

\* The cardinality of the timer's module is the usual one.
LEMMA ElapsedCardinality == \A S : Elapsed!Cardinality(S) = Cardinality(S)
BY DEF Elapsed!Cardinality, Cardinality

\* The actors that may still reserve or end generations, by how many.
TwoToCome == {a \in Elapsed!Actors : ePc[a] \in {"enable", "enabled", "start"}}
OneToCome == {a \in Elapsed!Actors : ePc[a] \in {"reserved", "stop"}}

\* No call takes more generations than it is allowed, the destructor one.
Allowed ==
  /\ calls \in Nat /\ calls <= MaxCalls
  /\ generation + 2 * Cardinality(TwoToCome) + Cardinality(OneToCome)
       <= 2 * calls + (IF destructionStarted THEN 1 ELSE 0)

\* Handlers use the timer while they run.
Handler(g) == ePc[g] # "idle" => tick[g] = "raise"

\* One thread destroys the timer, and nobody but handlers uses it then.
Destroyer(a) ==
  /\ op[a] = "Destroy" => /\ a \in Pair /\ destructionStarted
                          /\ ePc[a] \in {"drain", "parked", "release", "gone"}
  /\ ePc[a] \in {"drain", "parked", "gone"} => op[a] = "Destroy"
  /\ a \in Pair /\ destructionStarted /\ ePc[a] # "idle" => op[a] = "Destroy"
OneDestroyer == \A a, b \in Elapsed!Actors : op[a] = "Destroy" /\ op[b] = "Destroy" => a = b
Begun == destructionStarted => ~eOwner /\ \E a \in Elapsed!Actors : op[a] = "Destroy"
Destruction == (\A a \in Elapsed!Actors : Destroyer(a)) /\ OneDestroyer /\ Begun

\* When the destructor has drained the callbacks, none is left and none can come.
Drained ==
  \A a \in Elapsed!Actors : op[a] = "Destroy" /\ ePc[a] \in {"release", "gone"} =>
    /\ timer = Elapsed!NoTimer /\ \A g \in Elapsed!Generations : tick[g] \notin {"entered", "raise"}
    /\ ePc[a] = "gone" => \A g \in Elapsed!Generations : ~alive[g]

\* Which generations actors have in hand: their own until it is published, and one that is
\* over when they destroy its worker.
InHand(a) ==
  /\ ePc[a] = "reserved" => mine[a] \in 1..generation
  /\ ePc[a] = "release" => mine[a] < generation \/ destructionStarted
  /\ ePc[a] = "stop" => op[a] \in {"Stop", "Close", "BeginInit"}

\* The worker behind the gate.
Owner == /\ timer <= generation
         /\ eOwner => timer = generation /\ timer # Elapsed!NoTimer /\ alive[timer]

\* a is about to publish the current generation.
Publisher(a) == ePc[a] = "reserved" /\ mine[a] = generation

\* a is about to start a worker, or to store that there is none.
Busy(a) == \/ ePc[a] \in {"enabled", "start", "disable"} \/ Publisher(a)
           \/ ePc[a] = "release" /\ op[a] \in {"Stop", "Close", "BeginInit"}

\* a is about to arm the worker.
Arming(a) == ePc[a] \in {"enabled", "update"}

\* While a timer is enabled it has a worker that is armed, or somebody is about to see to it.
Runs ==
  ~destructionStarted =>
    /\ timer # Elapsed!NoTimer => eOwner \/ \E a \in Elapsed!Actors : Publisher(a)
    /\ enabled /\ timer = Elapsed!NoTimer => \E a \in Elapsed!Actors : Busy(a)
    /\ enabled /\ eOwner /\ armed[timer] = "off" =>
         (\E a \in Elapsed!Actors : Arming(a)) \/ (tick[timer] \in {"gate", "entered"} /\ ~autoReset)
    /\ enabled /\ eOwner /\ armed[timer] = "once" /\ autoReset => \E a \in Elapsed!Actors : Arming(a)

\* The operations an actor can be in.
Operations == {"none", "Start", "Stop", "Close", "BeginInit", "setAutoReset", "setInterval", "Destroy"}

\* The invariant that is inductive.
ElapsedIInv ==
  /\ Elapsed!TypeOK /\ op \in [Elapsed!Actors -> Operations] /\ Allowed
  /\ (\A g \in Elapsed!Generations : Handler(g)) /\ Destruction /\ Drained
  /\ (\A a \in Elapsed!Actors : InHand(a)) /\ Owner /\ Elapsed!NoStrayWorker /\ Elapsed!DrainIsWoken
  /\ activeCallbacks = Cardinality(Elapsed!Inside) /\ Runs

\* Where a call can stand.
Places == {"idle", "update", "enable", "enabled", "start", "reserved", "stop", "drain", "parked",
           "release", "disable", "gone"}

\* The types that most proofs use.
Typed == /\ timer \in Nat /\ generation \in Nat /\ timer \in Elapsed!Generations \cup {0}
         /\ armed \in [Elapsed!Generations -> {"off", "once", "repeat"}]
         /\ alive \in [Elapsed!Generations -> BOOLEAN]
         /\ tick \in [Elapsed!Generations -> {"idle", "gate", "entered", "raise", "left"}]
         /\ ePc \in [Elapsed!Actors -> Places] /\ op \in [Elapsed!Actors -> Operations]
         /\ mine \in [Elapsed!Actors -> Nat]
         /\ Pair \subseteq Elapsed!Actors /\ Elapsed!Generations \subseteq Elapsed!Actors
         /\ Pair \cap Elapsed!Generations = {}

\* The types, in the form the proofs use.
LEMMA ElapsedTypes ==
  ASSUME ElapsedIInv
  PROVE  /\ timer \in Nat /\ generation \in Nat /\ calls \in Nat /\ MaxCalls \in Nat
         /\ timer \in Elapsed!Generations \cup {0} /\ generation \in Elapsed!Generations \cup {0}
         /\ enabled \in BOOLEAN /\ autoReset \in BOOLEAN /\ eOwner \in BOOLEAN
         /\ initializing \in BOOLEAN /\ delayedEnable \in BOOLEAN /\ destructionStarted \in BOOLEAN
         /\ armed \in [Elapsed!Generations -> {"off", "once", "repeat"}]
         /\ alive \in [Elapsed!Generations -> BOOLEAN]
         /\ tick \in [Elapsed!Generations -> {"idle", "gate", "entered", "raise", "left"}]
         /\ ePc \in [Elapsed!Actors -> Places] /\ op \in [Elapsed!Actors -> Operations]
         /\ mine \in [Elapsed!Actors -> Elapsed!Generations \cup {0}]
         /\ mine \in [Elapsed!Actors -> Nat]
         /\ Pair \subseteq Elapsed!Actors /\ Elapsed!Generations \subseteq Elapsed!Actors
         /\ Pair \cap Elapsed!Generations = {}
<1>1. Elapsed!TypeOK /\ op \in [Elapsed!Actors -> Operations] /\ Allowed BY DEF ElapsedIInv
<1>2. Elapsed!Generations \subseteq Nat BY ElapsedConstants DEF Elapsed!Generations
<1>3. timer \in Elapsed!Generations \cup {0} /\ generation \in Elapsed!Generations \cup {0}
  BY <1>1 DEF Elapsed!TypeOK
<1>4. /\ enabled \in BOOLEAN /\ autoReset \in BOOLEAN /\ eOwner \in BOOLEAN
      /\ initializing \in BOOLEAN /\ delayedEnable \in BOOLEAN /\ destructionStarted \in BOOLEAN
  BY <1>1 DEF Elapsed!TypeOK
<1>5. mine \in [Elapsed!Actors -> Elapsed!Generations \cup {0}]
  BY <1>1 DEF Elapsed!TypeOK, Elapsed!NoTimer
<1>6. ePc \in [Elapsed!Actors -> Places] BY <1>1 DEF Elapsed!TypeOK, Places
<1>7. /\ armed \in [Elapsed!Generations -> {"off", "once", "repeat"}]
      /\ alive \in [Elapsed!Generations -> BOOLEAN]
      /\ tick \in [Elapsed!Generations -> {"idle", "gate", "entered", "raise", "left"}]
  BY <1>1 DEF Elapsed!TypeOK
<1>8. Pair \subseteq Elapsed!Actors /\ Elapsed!Generations \subseteq Elapsed!Actors
  BY DEF Elapsed!Actors
<1>9. calls \in Nat /\ MaxCalls \in Nat /\ Pair \cap Elapsed!Generations = {}
  BY <1>1, ElapsedConstants DEF Allowed
<1>10. timer \in Nat /\ generation \in Nat BY <1>2, <1>3
<1>11. mine \in [Elapsed!Actors -> Nat]
  <2>1. Elapsed!Generations \cup {0} \subseteq Nat BY <1>2
  <2> QED BY <1>5, <2>1
<1> QED BY <1>1, <1>3, <1>4, <1>5, <1>6, <1>7, <1>8, <1>9, <1>10, <1>11

\* The callbacks inside are finitely many, and counted.
LEMMA InsideFacts ==
  /\ IsFiniteSet(Elapsed!Inside) /\ Cardinality(Elapsed!Inside) \in Nat
  /\ (Cardinality(Elapsed!Inside) = 0 => Elapsed!Inside = {})
  /\ ElapsedIInv => activeCallbacks = Cardinality(Elapsed!Inside)
<1>1. 2 * MaxCalls + 1 \in Int BY ElapsedConstants
<1>2. IsFiniteSet(Elapsed!Generations) BY <1>1, FS_Interval DEF Elapsed!Generations
<1>3. IsFiniteSet(Elapsed!Inside) BY <1>2, FS_Subset DEF Elapsed!Inside
<1>4. /\ Cardinality(Elapsed!Inside) \in Nat
      /\ (Cardinality(Elapsed!Inside) = 0 => Elapsed!Inside = {})
  BY <1>3, FS_CardinalityType, FS_EmptySet
<1> QED BY <1>3, <1>4 DEF ElapsedIInv

\* How many generations an actor at place p may still take.
Owed(p) == IF p \in {"enable", "enabled", "start"} THEN 2 ELSE IF p \in {"reserved", "stop"} THEN 1 ELSE 0

\* What is still to come when one actor moves.
LEMMA ToCome ==
  ASSUME ElapsedIInv, ePc' \in [Elapsed!Actors -> Places], NEW a \in Elapsed!Actors, \A b \in Elapsed!Actors \ {a} : ePc'[b] = ePc[b]
  PROVE  /\ Cardinality(TwoToCome) \in Nat /\ Cardinality(OneToCome) \in Nat
         /\ Cardinality(TwoToCome)' \in Nat /\ Cardinality(OneToCome)' \in Nat
         /\ 2 * Cardinality(TwoToCome)' + Cardinality(OneToCome)' + Owed(ePc[a])
              = 2 * Cardinality(TwoToCome) + Cardinality(OneToCome) + Owed(ePc'[a])
<1>1. IsFiniteSet(Elapsed!Actors)
  <2>1. 2 * MaxCalls + 1 \in Int BY ElapsedConstants
  <2>2. IsFiniteSet(Elapsed!Generations) BY <2>1, FS_Interval DEF Elapsed!Generations
  <2> QED BY <2>2, ElapsedConstants, FS_Union DEF Elapsed!Actors
<1>2. IsFiniteSet(TwoToCome) /\ IsFiniteSet(OneToCome) BY <1>1, FS_Subset DEF TwoToCome, OneToCome
<1>3. Cardinality(TwoToCome) \in Nat /\ Cardinality(OneToCome) \in Nat BY <1>2, FS_CardinalityType
<1>4. ePc \in [Elapsed!Actors -> Places] BY ElapsedTypes
<1>5. \/ (a \in TwoToCome <=> a \in TwoToCome') /\ TwoToCome' = TwoToCome
      \/ a \in TwoToCome /\ a \notin TwoToCome' /\ TwoToCome' = TwoToCome \ {a}
      \/ a \notin TwoToCome /\ a \in TwoToCome' /\ TwoToCome' = TwoToCome \cup {a}
  BY <1>4 DEF TwoToCome
<1>6. \/ (a \in OneToCome <=> a \in OneToCome') /\ OneToCome' = OneToCome
      \/ a \in OneToCome /\ a \notin OneToCome' /\ OneToCome' = OneToCome \ {a}
      \/ a \notin OneToCome /\ a \in OneToCome' /\ OneToCome' = OneToCome \cup {a}
  BY <1>4 DEF OneToCome
<1>7. /\ Cardinality(TwoToCome)' \in Nat
      /\ Cardinality(TwoToCome)' = Cardinality(TwoToCome) + (IF a \in TwoToCome' THEN 1 ELSE 0)
                                     - (IF a \in TwoToCome THEN 1 ELSE 0)
  BY <1>2, <1>3, <1>5, CardinalityPlusMinus
<1>8. /\ Cardinality(OneToCome)' \in Nat
      /\ Cardinality(OneToCome)' = Cardinality(OneToCome) + (IF a \in OneToCome' THEN 1 ELSE 0)
                                     - (IF a \in OneToCome THEN 1 ELSE 0)
  BY <1>2, <1>3, <1>6, CardinalityPlusMinus
<1>9. /\ a \in TwoToCome <=> Owed(ePc[a]) = 2
      /\ a \in OneToCome <=> Owed(ePc[a]) = 1
      /\ a \in TwoToCome' <=> Owed(ePc'[a]) = 2
      /\ a \in OneToCome' <=> Owed(ePc'[a]) = 1
      /\ Owed(ePc[a]) \in {0, 1, 2} /\ Owed(ePc'[a]) \in {0, 1, 2}
  BY DEF TwoToCome, OneToCome, Owed
<1> QED BY <1>3, <1>7, <1>8, <1>9

\* The bound on generations when one actor moves.
LEMMA AllowedStep ==
  ASSUME ElapsedIInv, ePc' \in [Elapsed!Actors -> Places], NEW a \in Elapsed!Actors, \A b \in Elapsed!Actors \ {a} : ePc'[b] = ePc[b],
         generation' \in Nat, calls' \in Nat, calls' <= MaxCalls,
         generation' + Owed(ePc'[a]) + 2 * calls + (IF destructionStarted THEN 1 ELSE 0)
           <= generation + Owed(ePc[a]) + 2 * calls' + (IF destructionStarted' THEN 1 ELSE 0)
  PROVE  Allowed'
<1>1. calls \in Nat /\ generation \in Nat BY ElapsedTypes
<1>2. generation + 2 * Cardinality(TwoToCome) + Cardinality(OneToCome)
       <= 2 * calls + (IF destructionStarted THEN 1 ELSE 0)
  BY DEF ElapsedIInv, Allowed
<1>3. Owed(ePc[a]) \in Nat /\ Owed(ePc'[a]) \in Nat BY DEF Owed
<1>4. PICK d, e \in {0, 1} : /\ d = (IF destructionStarted THEN 1 ELSE 0)
                             /\ e = (IF destructionStarted' THEN 1 ELSE 0)
  OBVIOUS
<1>5. generation' + 2 * Cardinality(TwoToCome)' + Cardinality(OneToCome)' <= 2 * calls' + e
  BY <1>1, <1>2, <1>3, <1>4, ToCome
<1> QED BY <1>4, <1>5 DEF Allowed

\* The types of the flags, of the workers, and of the numbers.
Flags == /\ enabled \in BOOLEAN /\ autoReset \in BOOLEAN /\ initializing \in BOOLEAN
         /\ delayedEnable \in BOOLEAN /\ eOwner \in BOOLEAN /\ destructionStarted \in BOOLEAN
Workers == /\ armed \in [Elapsed!Generations -> {"off", "once", "repeat"}] /\ alive \in [Elapsed!Generations -> BOOLEAN]
           /\ tick \in [Elapsed!Generations -> {"idle", "gate", "entered", "raise", "left"}]
Hands == /\ timer \in Elapsed!Generations \cup {0} /\ generation \in Elapsed!Generations \cup {0}
         /\ mine \in [Elapsed!Actors -> Elapsed!Generations \cup {0}]

\* The actors that may take generations are finitely many.
LEMMA ToComeFinite == Cardinality(TwoToCome)' \in Nat /\ Cardinality(OneToCome)' \in Nat
<1>1. IsFiniteSet(Elapsed!Actors)
  <2>1. 2 * MaxCalls + 1 \in Int BY ElapsedConstants
  <2>2. IsFiniteSet(Elapsed!Generations) BY <2>1, FS_Interval DEF Elapsed!Generations
  <2> QED BY <2>2, ElapsedConstants, FS_Union DEF Elapsed!Actors
<1>2. IsFiniteSet(TwoToCome') /\ IsFiniteSet(OneToCome') BY <1>1, FS_Subset DEF TwoToCome, OneToCome
<1> QED BY <1>2, FS_CardinalityType

\* A handler is in a call only while its callback runs.
LEMMA HandlersNext == ElapsedIInv /\ [Elapsed!Next]_Elapsed!vars => (\A x \in Elapsed!Generations : Handler(x))'
<1> SUFFICES ASSUME ElapsedIInv, [Elapsed!Next]_Elapsed!vars, NEW x \in Elapsed!Generations PROVE Handler(x)' OBVIOUS
<1> USE DEF Typed, Handler, Elapsed!fields, Elapsed!gate, Elapsed!workers, Elapsed!locals,
            Elapsed!NoTimer, Elapsed!GoTo, Elapsed!Return, Elapsed!Begin
<1>0. Typed /\ Handler(x)
  BY ElapsedTypes DEF Typed, ElapsedIInv
<1>1. ASSUME NEW a \in Elapsed!Actors, NEW c \in Calls, Elapsed!Call(a, c) PROVE Handler(x)'
  BY <1>1, <1>0 DEF Elapsed!Call, Elapsed!SetEnabled, Elapsed!MayCall
<1>2. ASSUME NEW a \in Elapsed!Actors, Elapsed!Update(a) PROVE Handler(x)'
  BY <1>2, <1>0 DEF Elapsed!Update, Elapsed!Change
<1>3. ASSUME NEW a \in Elapsed!Actors, Elapsed!Enable(a) PROVE Handler(x)'
  BY <1>3, <1>0 DEF Elapsed!Enable
<1>4. ASSUME NEW a \in Elapsed!Actors, Elapsed!HasTimer(a) PROVE Handler(x)'
  BY <1>4, <1>0 DEF Elapsed!HasTimer
<1>5. ASSUME NEW a \in Elapsed!Actors, Elapsed!Reserve(a) PROVE Handler(x)'
  BY <1>5, <1>0 DEF Elapsed!Reserve
<1>6. ASSUME NEW a \in Elapsed!Actors, Elapsed!Publish(a) PROVE Handler(x)'
  BY <1>6, <1>0 DEF Elapsed!Publish, Elapsed!Stale, Elapsed!Change
<1>7. ASSUME NEW a \in Elapsed!Actors, Elapsed!StartFails(a) PROVE Handler(x)'
  BY <1>7, <1>0 DEF Elapsed!StartFails, Elapsed!Stale
<1>8. ASSUME NEW a \in Elapsed!Actors, Elapsed!Stop(a) PROVE Handler(x)'
  BY <1>8, <1>0 DEF Elapsed!Stop, Elapsed!TakeTimer
<1>9. ASSUME NEW a \in Elapsed!Actors, Elapsed!Drain(a) PROVE Handler(x)'
  BY <1>9, <1>0 DEF Elapsed!Drain, Elapsed!TakeTimer
<1>10. ASSUME NEW a \in Elapsed!Actors, Elapsed!Release(a) PROVE Handler(x)'
  BY <1>10, <1>0 DEF Elapsed!Release
<1>11. ASSUME NEW a \in Elapsed!Actors, Elapsed!Disable(a) PROVE Handler(x)'
  BY <1>11, <1>0 DEF Elapsed!Disable
<1>12. ASSUME NEW a \in Pair, Elapsed!Destroy(a) PROVE Handler(x)'
  BY <1>12, <1>0 DEF Elapsed!Destroy, Elapsed!MayCall
<1>13. ASSUME NEW a \in Pair, Elapsed!WakeEarly(a) PROVE Handler(x)'
  BY <1>13, <1>0 DEF Elapsed!WakeEarly
<1>14. ASSUME NEW g \in Elapsed!Generations, Elapsed!Fire(g) PROVE Handler(x)'
  BY <1>14, <1>0 DEF Elapsed!Fire
<1>15. ASSUME NEW g \in Elapsed!Generations, Elapsed!EnterGate(g) PROVE Handler(x)'
  BY <1>15, <1>0 DEF Elapsed!EnterGate
<1>16. ASSUME NEW g \in Elapsed!Generations, Elapsed!ReadAutoReset(g) PROVE Handler(x)'
  BY <1>16, <1>0 DEF Elapsed!ReadAutoReset
<1>17. ASSUME NEW g \in Elapsed!Generations, Elapsed!LeaveGate(g) PROVE Handler(x)'
  BY <1>17, <1>0 DEF Elapsed!LeaveGate
<1>18. ASSUME NEW g \in Elapsed!Generations, Elapsed!NotifyFinished(g) PROVE Handler(x)'
  BY <1>18, <1>0 DEF Elapsed!NotifyFinished
<1>19. CASE UNCHANGED Elapsed!vars BY <1>19, <1>0 DEF Elapsed!vars
<1> QED
  BY <1>1, <1>2, <1>3, <1>4, <1>5, <1>6, <1>7, <1>8, <1>9, <1>10, <1>11, <1>12, <1>13, <1>14,
     <1>15, <1>16, <1>17, <1>18, <1>19 DEF Elapsed!Next, Elapsed!InCall, Elapsed!InCallback

\* The destructor is in one of its steps, and other threads are out.
LEMMA DestroyerNext == ElapsedIInv /\ [Elapsed!Next]_Elapsed!vars => (\A x \in Elapsed!Actors : Destroyer(x))'
<1> SUFFICES ASSUME ElapsedIInv, [Elapsed!Next]_Elapsed!vars, NEW x \in Elapsed!Actors PROVE Destroyer(x)' OBVIOUS
<1> USE DEF Typed, Destroyer, Elapsed!fields, Elapsed!gate, Elapsed!workers, Elapsed!locals,
            Elapsed!NoTimer, Elapsed!GoTo, Elapsed!Return, Elapsed!Begin
<1>0. Typed /\ Destroyer(x)
  BY ElapsedTypes DEF Typed, ElapsedIInv, Destruction, Begun
<1>1. ASSUME NEW a \in Elapsed!Actors, NEW c \in Calls, Elapsed!Call(a, c) PROVE Destroyer(x)'
  BY <1>1, <1>0 DEF Elapsed!Call, Elapsed!SetEnabled, Elapsed!MayCall
<1>2. ASSUME NEW a \in Elapsed!Actors, Elapsed!Update(a) PROVE Destroyer(x)'
  BY <1>2, <1>0 DEF Elapsed!Update, Elapsed!Change
<1>3. ASSUME NEW a \in Elapsed!Actors, Elapsed!Enable(a) PROVE Destroyer(x)'
  BY <1>3, <1>0 DEF Elapsed!Enable
<1>4. ASSUME NEW a \in Elapsed!Actors, Elapsed!HasTimer(a) PROVE Destroyer(x)'
  BY <1>4, <1>0 DEF Elapsed!HasTimer
<1>5. ASSUME NEW a \in Elapsed!Actors, Elapsed!Reserve(a) PROVE Destroyer(x)'
  BY <1>5, <1>0 DEF Elapsed!Reserve
<1>6. ASSUME NEW a \in Elapsed!Actors, Elapsed!Publish(a) PROVE Destroyer(x)'
  BY <1>6, <1>0 DEF Elapsed!Publish, Elapsed!Stale, Elapsed!Change
<1>7. ASSUME NEW a \in Elapsed!Actors, Elapsed!StartFails(a) PROVE Destroyer(x)'
  BY <1>7, <1>0 DEF Elapsed!StartFails, Elapsed!Stale
<1>8. ASSUME NEW a \in Elapsed!Actors, Elapsed!Stop(a) PROVE Destroyer(x)'
  BY <1>8, <1>0 DEF Elapsed!Stop, Elapsed!TakeTimer
<1>9. ASSUME NEW a \in Elapsed!Actors, Elapsed!Drain(a) PROVE Destroyer(x)'
  BY <1>9, <1>0 DEF Elapsed!Drain, Elapsed!TakeTimer
<1>10. ASSUME NEW a \in Elapsed!Actors, Elapsed!Release(a) PROVE Destroyer(x)'
  BY <1>10, <1>0 DEF Elapsed!Release
<1>11. ASSUME NEW a \in Elapsed!Actors, Elapsed!Disable(a) PROVE Destroyer(x)'
  BY <1>11, <1>0 DEF Elapsed!Disable
<1>12. ASSUME NEW a \in Pair, Elapsed!Destroy(a) PROVE Destroyer(x)'
  BY <1>12, <1>0 DEF Elapsed!Destroy, Elapsed!MayCall
<1>13. ASSUME NEW a \in Pair, Elapsed!WakeEarly(a) PROVE Destroyer(x)'
  BY <1>13, <1>0 DEF Elapsed!WakeEarly
<1>14. ASSUME NEW g \in Elapsed!Generations, Elapsed!Fire(g) PROVE Destroyer(x)'
  BY <1>14, <1>0 DEF Elapsed!Fire
<1>15. ASSUME NEW g \in Elapsed!Generations, Elapsed!EnterGate(g) PROVE Destroyer(x)'
  BY <1>15, <1>0 DEF Elapsed!EnterGate
<1>16. ASSUME NEW g \in Elapsed!Generations, Elapsed!ReadAutoReset(g) PROVE Destroyer(x)'
  BY <1>16, <1>0 DEF Elapsed!ReadAutoReset
<1>17. ASSUME NEW g \in Elapsed!Generations, Elapsed!LeaveGate(g) PROVE Destroyer(x)'
  BY <1>17, <1>0 DEF Elapsed!LeaveGate
<1>18. ASSUME NEW g \in Elapsed!Generations, Elapsed!NotifyFinished(g) PROVE Destroyer(x)'
  BY <1>18, <1>0 DEF Elapsed!NotifyFinished
<1>19. CASE UNCHANGED Elapsed!vars BY <1>19, <1>0 DEF Elapsed!vars
<1> QED
  BY <1>1, <1>2, <1>3, <1>4, <1>5, <1>6, <1>7, <1>8, <1>9, <1>10, <1>11, <1>12, <1>13, <1>14,
     <1>15, <1>16, <1>17, <1>18, <1>19 DEF Elapsed!Next, Elapsed!InCall, Elapsed!InCallback

\* A generation is reserved up to its publication, and destroyed after its end.
LEMMA InHandNext == ElapsedIInv /\ [Elapsed!Next]_Elapsed!vars => (\A x \in Elapsed!Actors : InHand(x))'
<1> SUFFICES ASSUME ElapsedIInv, [Elapsed!Next]_Elapsed!vars, NEW x \in Elapsed!Actors PROVE InHand(x)' OBVIOUS
<1> USE DEF Typed, InHand, Elapsed!fields, Elapsed!gate, Elapsed!workers, Elapsed!locals,
            Elapsed!NoTimer, Elapsed!GoTo, Elapsed!Return, Elapsed!Begin
<1>0. Typed /\ InHand(x) /\ timer <= generation /\ (ePc[x] = "drain" => destructionStarted)
  BY ElapsedTypes DEF Typed, ElapsedIInv, Owner, Destruction, Destroyer
<1>1. ASSUME NEW a \in Elapsed!Actors, NEW c \in Calls, Elapsed!Call(a, c) PROVE InHand(x)'
  BY <1>1, <1>0 DEF Elapsed!Call, Elapsed!SetEnabled, Elapsed!MayCall
<1>2. ASSUME NEW a \in Elapsed!Actors, Elapsed!Update(a) PROVE InHand(x)'
  BY <1>2, <1>0 DEF Elapsed!Update, Elapsed!Change
<1>3. ASSUME NEW a \in Elapsed!Actors, Elapsed!Enable(a) PROVE InHand(x)'
  BY <1>3, <1>0 DEF Elapsed!Enable
<1>4. ASSUME NEW a \in Elapsed!Actors, Elapsed!HasTimer(a) PROVE InHand(x)'
  BY <1>4, <1>0 DEF Elapsed!HasTimer
<1>5. ASSUME NEW a \in Elapsed!Actors, Elapsed!Reserve(a) PROVE InHand(x)'
  BY <1>5, <1>0 DEF Elapsed!Reserve
<1>6. ASSUME NEW a \in Elapsed!Actors, Elapsed!Publish(a) PROVE InHand(x)'
  BY <1>6, <1>0 DEF Elapsed!Publish, Elapsed!Stale, Elapsed!Change
<1>7. ASSUME NEW a \in Elapsed!Actors, Elapsed!StartFails(a) PROVE InHand(x)'
  BY <1>7, <1>0 DEF Elapsed!StartFails, Elapsed!Stale
<1>8. ASSUME NEW a \in Elapsed!Actors, Elapsed!Stop(a) PROVE InHand(x)'
  BY <1>8, <1>0 DEF Elapsed!Stop, Elapsed!TakeTimer
<1>9. ASSUME NEW a \in Elapsed!Actors, Elapsed!Drain(a) PROVE InHand(x)'
  BY <1>9, <1>0 DEF Elapsed!Drain, Elapsed!TakeTimer
<1>10. ASSUME NEW a \in Elapsed!Actors, Elapsed!Release(a) PROVE InHand(x)'
  BY <1>10, <1>0 DEF Elapsed!Release
<1>11. ASSUME NEW a \in Elapsed!Actors, Elapsed!Disable(a) PROVE InHand(x)'
  BY <1>11, <1>0 DEF Elapsed!Disable
<1>12. ASSUME NEW a \in Pair, Elapsed!Destroy(a) PROVE InHand(x)'
  BY <1>12, <1>0 DEF Elapsed!Destroy, Elapsed!MayCall
<1>13. ASSUME NEW a \in Pair, Elapsed!WakeEarly(a) PROVE InHand(x)'
  BY <1>13, <1>0 DEF Elapsed!WakeEarly
<1>14. ASSUME NEW g \in Elapsed!Generations, Elapsed!Fire(g) PROVE InHand(x)'
  BY <1>14, <1>0 DEF Elapsed!Fire
<1>15. ASSUME NEW g \in Elapsed!Generations, Elapsed!EnterGate(g) PROVE InHand(x)'
  BY <1>15, <1>0 DEF Elapsed!EnterGate
<1>16. ASSUME NEW g \in Elapsed!Generations, Elapsed!ReadAutoReset(g) PROVE InHand(x)'
  BY <1>16, <1>0 DEF Elapsed!ReadAutoReset
<1>17. ASSUME NEW g \in Elapsed!Generations, Elapsed!LeaveGate(g) PROVE InHand(x)'
  BY <1>17, <1>0 DEF Elapsed!LeaveGate
<1>18. ASSUME NEW g \in Elapsed!Generations, Elapsed!NotifyFinished(g) PROVE InHand(x)'
  BY <1>18, <1>0 DEF Elapsed!NotifyFinished
<1>19. CASE UNCHANGED Elapsed!vars BY <1>19, <1>0 DEF Elapsed!vars
<1> QED
  BY <1>1, <1>2, <1>3, <1>4, <1>5, <1>6, <1>7, <1>8, <1>9, <1>10, <1>11, <1>12, <1>13, <1>14,
     <1>15, <1>16, <1>17, <1>18, <1>19 DEF Elapsed!Next, Elapsed!InCall, Elapsed!InCallback

\* The gate is open for the worker that timer_ owns, and that worker is alive.
LEMMA OwnerNext == ElapsedIInv /\ [Elapsed!Next]_Elapsed!vars => Owner'
<1> SUFFICES ASSUME ElapsedIInv, [Elapsed!Next]_Elapsed!vars PROVE Owner' OBVIOUS
<1> USE DEF Typed, Owner, InHand, Elapsed!fields, Elapsed!gate, Elapsed!workers, Elapsed!locals,
            Elapsed!NoTimer, Elapsed!GoTo, Elapsed!Return, Elapsed!Begin
<1>0. Typed /\ Owner /\ (\A a \in Elapsed!Actors : InHand(a)) /\ (destructionStarted => ~eOwner)
      /\ (\A a \in Elapsed!Actors : ePc[a] = "drain" => destructionStarted)
      /\ mine \in [Elapsed!Actors -> Elapsed!Generations \cup {0}]
  BY ElapsedTypes DEF Typed, ElapsedIInv, Destruction, Begun, Destroyer
<1>1. ASSUME NEW a \in Elapsed!Actors, NEW c \in Calls, Elapsed!Call(a, c) PROVE Owner'
  BY <1>1, <1>0 DEF Elapsed!Call, Elapsed!SetEnabled, Elapsed!MayCall
<1>2. ASSUME NEW a \in Elapsed!Actors, Elapsed!Update(a) PROVE Owner'
  BY <1>2, <1>0 DEF Elapsed!Update, Elapsed!Change
<1>3. ASSUME NEW a \in Elapsed!Actors, Elapsed!Enable(a) PROVE Owner'
  BY <1>3, <1>0 DEF Elapsed!Enable
<1>4. ASSUME NEW a \in Elapsed!Actors, Elapsed!HasTimer(a) PROVE Owner'
  BY <1>4, <1>0 DEF Elapsed!HasTimer
<1>5. ASSUME NEW a \in Elapsed!Actors, Elapsed!Reserve(a) PROVE Owner'
  BY <1>5, <1>0 DEF Elapsed!Reserve
<1>6. ASSUME NEW a \in Elapsed!Actors, Elapsed!Publish(a) PROVE Owner'
  <2>1. CASE timer' = timer /\ eOwner' = eOwner /\ alive' = alive /\ generation' = generation
    BY <1>0, <2>1 DEF Owner
  <2>2. CASE ~Elapsed!Stale(a) /\ ~destructionStarted
    <3>1. mine[a] = generation /\ mine[a] \in Elapsed!Generations
      BY <1>6, <1>0, <2>2 DEF Elapsed!Publish, Elapsed!Stale, InHand
    <3>2. timer' = generation /\ generation' = generation BY <1>6, <2>2, <3>1 DEF Elapsed!Publish
    <3>3. alive'[mine[a]] BY <1>6, <2>2, <3>1 DEF Elapsed!Publish
    <3>4. generation # Elapsed!NoTimer
      BY <1>6, <1>0, <3>1 DEF Elapsed!Publish, InHand, Elapsed!NoTimer
    <3> QED BY <1>0, <3>1, <3>2, <3>3, <3>4 DEF Owner
  <2> QED BY <1>6, <2>1, <2>2 DEF Elapsed!Publish
<1>7. ASSUME NEW a \in Elapsed!Actors, Elapsed!StartFails(a) PROVE Owner'
  BY <1>7, <1>0 DEF Elapsed!StartFails, Elapsed!Stale
<1>8. ASSUME NEW a \in Elapsed!Actors, Elapsed!Stop(a) PROVE Owner'
  BY <1>8, <1>0 DEF Elapsed!Stop, Elapsed!TakeTimer
<1>9. ASSUME NEW a \in Elapsed!Actors, Elapsed!Drain(a) PROVE Owner'
  BY <1>9, <1>0 DEF Elapsed!Drain, Elapsed!TakeTimer
<1>10. ASSUME NEW a \in Elapsed!Actors, Elapsed!Release(a) PROVE Owner'
  BY <1>10, <1>0 DEF Elapsed!Release
<1>11. ASSUME NEW a \in Elapsed!Actors, Elapsed!Disable(a) PROVE Owner'
  BY <1>11, <1>0 DEF Elapsed!Disable
<1>12. ASSUME NEW a \in Pair, Elapsed!Destroy(a) PROVE Owner'
  BY <1>12, <1>0 DEF Elapsed!Destroy, Elapsed!MayCall
<1>13. ASSUME NEW a \in Pair, Elapsed!WakeEarly(a) PROVE Owner' BY <1>13, <1>0 DEF Elapsed!WakeEarly
<1>14. ASSUME NEW g \in Elapsed!Generations, Elapsed!Fire(g) PROVE Owner'
  BY <1>14, <1>0 DEF Elapsed!Fire
<1>15. ASSUME NEW g \in Elapsed!Generations, Elapsed!EnterGate(g) PROVE Owner'
  BY <1>15, <1>0 DEF Elapsed!EnterGate
<1>16. ASSUME NEW g \in Elapsed!Generations, Elapsed!ReadAutoReset(g) PROVE Owner'
  BY <1>16, <1>0 DEF Elapsed!ReadAutoReset
<1>17. ASSUME NEW g \in Elapsed!Generations, Elapsed!LeaveGate(g) PROVE Owner'
  BY <1>17, <1>0 DEF Elapsed!LeaveGate
<1>18. ASSUME NEW g \in Elapsed!Generations, Elapsed!NotifyFinished(g) PROVE Owner'
  BY <1>18, <1>0 DEF Elapsed!NotifyFinished
<1>19. CASE UNCHANGED Elapsed!vars BY <1>19, <1>0 DEF Elapsed!vars
<1> QED
  BY <1>1, <1>2, <1>3, <1>4, <1>5, <1>6, <1>7, <1>8, <1>9, <1>10, <1>11, <1>12, <1>13, <1>14,
     <1>15, <1>16, <1>17, <1>18, <1>19 DEF Elapsed!Next, Elapsed!InCall, Elapsed!InCallback

\* A worker that is alive is timer_, or in the hands of a call that destroys it.
LEMMA StrayNext == ElapsedIInv /\ [Elapsed!Next]_Elapsed!vars => Elapsed!NoStrayWorker'
<1> SUFFICES ASSUME ElapsedIInv, [Elapsed!Next]_Elapsed!vars PROVE Elapsed!NoStrayWorker' OBVIOUS
<1> USE DEF Typed, Elapsed!NoStrayWorker, Elapsed!fields, Elapsed!gate, Elapsed!workers,
            Elapsed!locals, Elapsed!NoTimer, Elapsed!GoTo, Elapsed!Return, Elapsed!Begin
<1>0. Typed /\ Elapsed!NoStrayWorker
  BY ElapsedTypes DEF Typed, ElapsedIInv
<1>1. ASSUME NEW a \in Elapsed!Actors, NEW c \in Calls, Elapsed!Call(a, c)
      PROVE Elapsed!NoStrayWorker'
  BY <1>1, <1>0 DEF Elapsed!Call, Elapsed!SetEnabled, Elapsed!MayCall
<1>2. ASSUME NEW a \in Elapsed!Actors, Elapsed!Update(a) PROVE Elapsed!NoStrayWorker'
  BY <1>2, <1>0 DEF Elapsed!Update, Elapsed!Change
<1>3. ASSUME NEW a \in Elapsed!Actors, Elapsed!Enable(a) PROVE Elapsed!NoStrayWorker'
  BY <1>3, <1>0 DEF Elapsed!Enable
<1>4. ASSUME NEW a \in Elapsed!Actors, Elapsed!HasTimer(a) PROVE Elapsed!NoStrayWorker'
  BY <1>4, <1>0 DEF Elapsed!HasTimer
<1>5. ASSUME NEW a \in Elapsed!Actors, Elapsed!Reserve(a) PROVE Elapsed!NoStrayWorker'
  BY <1>5, <1>0 DEF Elapsed!Reserve
<1>6. ASSUME NEW a \in Elapsed!Actors, Elapsed!Publish(a) PROVE Elapsed!NoStrayWorker'
  BY <1>6, <1>0 DEF Elapsed!Publish, Elapsed!Stale, Elapsed!Change
<1>7. ASSUME NEW a \in Elapsed!Actors, Elapsed!StartFails(a) PROVE Elapsed!NoStrayWorker'
  BY <1>7, <1>0 DEF Elapsed!StartFails, Elapsed!Stale
<1>8. ASSUME NEW a \in Elapsed!Actors, Elapsed!Stop(a) PROVE Elapsed!NoStrayWorker'
  BY <1>8, <1>0 DEF Elapsed!Stop, Elapsed!TakeTimer
<1>9. ASSUME NEW a \in Elapsed!Actors, Elapsed!Drain(a) PROVE Elapsed!NoStrayWorker'
  BY <1>9, <1>0 DEF Elapsed!Drain, Elapsed!TakeTimer
<1>10. ASSUME NEW a \in Elapsed!Actors, Elapsed!Release(a) PROVE Elapsed!NoStrayWorker'
  BY <1>10, <1>0 DEF Elapsed!Release
<1>11. ASSUME NEW a \in Elapsed!Actors, Elapsed!Disable(a) PROVE Elapsed!NoStrayWorker'
  BY <1>11, <1>0 DEF Elapsed!Disable
<1>12. ASSUME NEW a \in Pair, Elapsed!Destroy(a) PROVE Elapsed!NoStrayWorker'
  BY <1>12, <1>0 DEF Elapsed!Destroy, Elapsed!MayCall
<1>13. ASSUME NEW a \in Pair, Elapsed!WakeEarly(a) PROVE Elapsed!NoStrayWorker'
  BY <1>13, <1>0 DEF Elapsed!WakeEarly
<1>14. ASSUME NEW g \in Elapsed!Generations, Elapsed!Fire(g) PROVE Elapsed!NoStrayWorker'
  BY <1>14, <1>0 DEF Elapsed!Fire
<1>15. ASSUME NEW g \in Elapsed!Generations, Elapsed!EnterGate(g) PROVE Elapsed!NoStrayWorker'
  BY <1>15, <1>0 DEF Elapsed!EnterGate
<1>16. ASSUME NEW g \in Elapsed!Generations, Elapsed!ReadAutoReset(g) PROVE Elapsed!NoStrayWorker'
  BY <1>16, <1>0 DEF Elapsed!ReadAutoReset
<1>17. ASSUME NEW g \in Elapsed!Generations, Elapsed!LeaveGate(g) PROVE Elapsed!NoStrayWorker'
  BY <1>17, <1>0 DEF Elapsed!LeaveGate
<1>18. ASSUME NEW g \in Elapsed!Generations, Elapsed!NotifyFinished(g) PROVE Elapsed!NoStrayWorker'
  BY <1>18, <1>0 DEF Elapsed!NotifyFinished
<1>19. CASE UNCHANGED Elapsed!vars BY <1>19, <1>0 DEF Elapsed!vars
<1> QED
  BY <1>1, <1>2, <1>3, <1>4, <1>5, <1>6, <1>7, <1>8, <1>9, <1>10, <1>11, <1>12, <1>13, <1>14,
     <1>15, <1>16, <1>17, <1>18, <1>19 DEF Elapsed!Next, Elapsed!InCall, Elapsed!InCallback

\* The destructor does not sleep once the last callback has left and notified.
LEMMA WokenNext == ElapsedIInv /\ [Elapsed!Next]_Elapsed!vars => Elapsed!DrainIsWoken'
<1> SUFFICES ASSUME ElapsedIInv, [Elapsed!Next]_Elapsed!vars PROVE Elapsed!DrainIsWoken' OBVIOUS
<1> USE DEF Typed, Elapsed!DrainIsWoken, Elapsed!fields, Elapsed!gate, Elapsed!workers,
            Elapsed!locals, Elapsed!NoTimer, Elapsed!GoTo, Elapsed!Return, Elapsed!Begin
<1>0. Typed /\ Elapsed!DrainIsWoken /\ activeCallbacks \in Nat
  BY ElapsedTypes, InsideFacts DEF Typed, ElapsedIInv
<1>1. ASSUME NEW a \in Elapsed!Actors, NEW c \in Calls, Elapsed!Call(a, c)
      PROVE Elapsed!DrainIsWoken'
  BY <1>1, <1>0 DEF Elapsed!Call, Elapsed!SetEnabled, Elapsed!MayCall
<1>2. ASSUME NEW a \in Elapsed!Actors, Elapsed!Update(a) PROVE Elapsed!DrainIsWoken'
  BY <1>2, <1>0 DEF Elapsed!Update, Elapsed!Change
<1>3. ASSUME NEW a \in Elapsed!Actors, Elapsed!Enable(a) PROVE Elapsed!DrainIsWoken'
  BY <1>3, <1>0 DEF Elapsed!Enable
<1>4. ASSUME NEW a \in Elapsed!Actors, Elapsed!HasTimer(a) PROVE Elapsed!DrainIsWoken'
  BY <1>4, <1>0 DEF Elapsed!HasTimer
<1>5. ASSUME NEW a \in Elapsed!Actors, Elapsed!Reserve(a) PROVE Elapsed!DrainIsWoken'
  BY <1>5, <1>0 DEF Elapsed!Reserve
<1>6. ASSUME NEW a \in Elapsed!Actors, Elapsed!Publish(a) PROVE Elapsed!DrainIsWoken'
  BY <1>6, <1>0 DEF Elapsed!Publish, Elapsed!Stale, Elapsed!Change
<1>7. ASSUME NEW a \in Elapsed!Actors, Elapsed!StartFails(a) PROVE Elapsed!DrainIsWoken'
  BY <1>7, <1>0 DEF Elapsed!StartFails, Elapsed!Stale
<1>8. ASSUME NEW a \in Elapsed!Actors, Elapsed!Stop(a) PROVE Elapsed!DrainIsWoken'
  BY <1>8, <1>0 DEF Elapsed!Stop, Elapsed!TakeTimer
<1>9. ASSUME NEW a \in Elapsed!Actors, Elapsed!Drain(a) PROVE Elapsed!DrainIsWoken'
  BY <1>9, <1>0 DEF Elapsed!Drain, Elapsed!TakeTimer
<1>10. ASSUME NEW a \in Elapsed!Actors, Elapsed!Release(a) PROVE Elapsed!DrainIsWoken'
  BY <1>10, <1>0 DEF Elapsed!Release
<1>11. ASSUME NEW a \in Elapsed!Actors, Elapsed!Disable(a) PROVE Elapsed!DrainIsWoken'
  BY <1>11, <1>0 DEF Elapsed!Disable
<1>12. ASSUME NEW a \in Pair, Elapsed!Destroy(a) PROVE Elapsed!DrainIsWoken'
  BY <1>12, <1>0 DEF Elapsed!Destroy, Elapsed!MayCall
<1>13. ASSUME NEW a \in Pair, Elapsed!WakeEarly(a) PROVE Elapsed!DrainIsWoken'
  BY <1>13, <1>0 DEF Elapsed!WakeEarly
<1>14. ASSUME NEW g \in Elapsed!Generations, Elapsed!Fire(g) PROVE Elapsed!DrainIsWoken'
  BY <1>14, <1>0 DEF Elapsed!Fire
<1>15. ASSUME NEW g \in Elapsed!Generations, Elapsed!EnterGate(g) PROVE Elapsed!DrainIsWoken'
  BY <1>15, <1>0 DEF Elapsed!EnterGate
<1>16. ASSUME NEW g \in Elapsed!Generations, Elapsed!ReadAutoReset(g) PROVE Elapsed!DrainIsWoken'
  BY <1>16, <1>0 DEF Elapsed!ReadAutoReset
<1>17. ASSUME NEW g \in Elapsed!Generations, Elapsed!LeaveGate(g) PROVE Elapsed!DrainIsWoken'
  BY <1>17, <1>0 DEF Elapsed!LeaveGate
<1>18. ASSUME NEW g \in Elapsed!Generations, Elapsed!NotifyFinished(g) PROVE Elapsed!DrainIsWoken'
  BY <1>18, <1>0 DEF Elapsed!NotifyFinished
<1>19. CASE UNCHANGED Elapsed!vars BY <1>19, <1>0 DEF Elapsed!vars
<1> QED
  BY <1>1, <1>2, <1>3, <1>4, <1>5, <1>6, <1>7, <1>8, <1>9, <1>10, <1>11, <1>12, <1>13, <1>14,
     <1>15, <1>16, <1>17, <1>18, <1>19 DEF Elapsed!Next, Elapsed!InCall, Elapsed!InCallback

\* One thread destroys the timer.
LEMMA OneDestroyerNext == ElapsedIInv /\ [Elapsed!Next]_Elapsed!vars => OneDestroyer'
<1> SUFFICES ASSUME ElapsedIInv, [Elapsed!Next]_Elapsed!vars PROVE OneDestroyer' OBVIOUS
<1> USE DEF Typed, OneDestroyer, Destroyer, Elapsed!fields, Elapsed!gate, Elapsed!workers,
            Elapsed!locals, Elapsed!NoTimer, Elapsed!GoTo, Elapsed!Return, Elapsed!Begin
<1>0. Typed /\ OneDestroyer /\ (\A a \in Elapsed!Actors : Destroyer(a))
  BY ElapsedTypes DEF Typed, ElapsedIInv, Destruction, Begun
<1>1. ASSUME NEW a \in Elapsed!Actors, NEW c \in Calls, Elapsed!Call(a, c) PROVE OneDestroyer'
  BY <1>1, <1>0 DEF Elapsed!Call, Elapsed!SetEnabled, Elapsed!MayCall
<1>2. ASSUME NEW a \in Elapsed!Actors, Elapsed!Update(a) PROVE OneDestroyer'
  BY <1>2, <1>0 DEF Elapsed!Update, Elapsed!Change
<1>3. ASSUME NEW a \in Elapsed!Actors, Elapsed!Enable(a) PROVE OneDestroyer'
  BY <1>3, <1>0 DEF Elapsed!Enable
<1>4. ASSUME NEW a \in Elapsed!Actors, Elapsed!HasTimer(a) PROVE OneDestroyer'
  BY <1>4, <1>0 DEF Elapsed!HasTimer
<1>5. ASSUME NEW a \in Elapsed!Actors, Elapsed!Reserve(a) PROVE OneDestroyer'
  BY <1>5, <1>0 DEF Elapsed!Reserve
<1>6. ASSUME NEW a \in Elapsed!Actors, Elapsed!Publish(a) PROVE OneDestroyer'
  BY <1>6, <1>0 DEF Elapsed!Publish, Elapsed!Stale, Elapsed!Change
<1>7. ASSUME NEW a \in Elapsed!Actors, Elapsed!StartFails(a) PROVE OneDestroyer'
  BY <1>7, <1>0 DEF Elapsed!StartFails, Elapsed!Stale
<1>8. ASSUME NEW a \in Elapsed!Actors, Elapsed!Stop(a) PROVE OneDestroyer'
  BY <1>8, <1>0 DEF Elapsed!Stop, Elapsed!TakeTimer
<1>9. ASSUME NEW a \in Elapsed!Actors, Elapsed!Drain(a) PROVE OneDestroyer'
  BY <1>9, <1>0 DEF Elapsed!Drain, Elapsed!TakeTimer
<1>10. ASSUME NEW a \in Elapsed!Actors, Elapsed!Release(a) PROVE OneDestroyer'
  BY <1>10, <1>0 DEF Elapsed!Release
<1>11. ASSUME NEW a \in Elapsed!Actors, Elapsed!Disable(a) PROVE OneDestroyer'
  BY <1>11, <1>0 DEF Elapsed!Disable
<1>12. ASSUME NEW a \in Pair, Elapsed!Destroy(a) PROVE OneDestroyer'
  BY <1>12, <1>0 DEF Elapsed!Destroy, Elapsed!MayCall
<1>13. ASSUME NEW a \in Pair, Elapsed!WakeEarly(a) PROVE OneDestroyer'
  BY <1>13, <1>0 DEF Elapsed!WakeEarly
<1>14. ASSUME NEW g \in Elapsed!Generations, Elapsed!Fire(g) PROVE OneDestroyer'
  BY <1>14, <1>0 DEF Elapsed!Fire
<1>15. ASSUME NEW g \in Elapsed!Generations, Elapsed!EnterGate(g) PROVE OneDestroyer'
  BY <1>15, <1>0 DEF Elapsed!EnterGate
<1>16. ASSUME NEW g \in Elapsed!Generations, Elapsed!ReadAutoReset(g) PROVE OneDestroyer'
  BY <1>16, <1>0 DEF Elapsed!ReadAutoReset
<1>17. ASSUME NEW g \in Elapsed!Generations, Elapsed!LeaveGate(g) PROVE OneDestroyer'
  BY <1>17, <1>0 DEF Elapsed!LeaveGate
<1>18. ASSUME NEW g \in Elapsed!Generations, Elapsed!NotifyFinished(g) PROVE OneDestroyer'
  BY <1>18, <1>0 DEF Elapsed!NotifyFinished
<1>19. CASE UNCHANGED Elapsed!vars BY <1>19, <1>0 DEF Elapsed!vars
<1> QED
  BY <1>1, <1>2, <1>3, <1>4, <1>5, <1>6, <1>7, <1>8, <1>9, <1>10, <1>11, <1>12, <1>13, <1>14,
     <1>15, <1>16, <1>17, <1>18, <1>19 DEF Elapsed!Next, Elapsed!InCall, Elapsed!InCallback

\* The gate is shut once the destruction has begun.
LEMMA BegunNext == ElapsedIInv /\ [Elapsed!Next]_Elapsed!vars => Begun'
<1> SUFFICES ASSUME ElapsedIInv, [Elapsed!Next]_Elapsed!vars PROVE Begun' OBVIOUS
<1> USE DEF Typed, Destroyer, Begun, Elapsed!fields, Elapsed!gate, Elapsed!workers,
            Elapsed!locals, Elapsed!NoTimer, Elapsed!GoTo, Elapsed!Return, Elapsed!Begin
<1>0. Typed /\ Begun /\ (\A a \in Elapsed!Actors : Destroyer(a))
  BY ElapsedTypes DEF Typed, ElapsedIInv, Destruction, Begun
<1>1. ASSUME NEW a \in Elapsed!Actors, NEW c \in Calls, Elapsed!Call(a, c) PROVE Begun'
  BY <1>1, <1>0 DEF Elapsed!Call, Elapsed!SetEnabled, Elapsed!MayCall
<1>2. ASSUME NEW a \in Elapsed!Actors, Elapsed!Update(a) PROVE Begun'
  BY <1>2, <1>0 DEF Elapsed!Update, Elapsed!Change
<1>3. ASSUME NEW a \in Elapsed!Actors, Elapsed!Enable(a) PROVE Begun'
  BY <1>3, <1>0 DEF Elapsed!Enable
<1>4. ASSUME NEW a \in Elapsed!Actors, Elapsed!HasTimer(a) PROVE Begun'
  BY <1>4, <1>0 DEF Elapsed!HasTimer
<1>5. ASSUME NEW a \in Elapsed!Actors, Elapsed!Reserve(a) PROVE Begun'
  BY <1>5, <1>0 DEF Elapsed!Reserve
<1>6. ASSUME NEW a \in Elapsed!Actors, Elapsed!Publish(a) PROVE Begun'
  BY <1>6, <1>0 DEF Elapsed!Publish, Elapsed!Stale, Elapsed!Change
<1>7. ASSUME NEW a \in Elapsed!Actors, Elapsed!StartFails(a) PROVE Begun'
  BY <1>7, <1>0 DEF Elapsed!StartFails, Elapsed!Stale
<1>8. ASSUME NEW a \in Elapsed!Actors, Elapsed!Stop(a) PROVE Begun'
  BY <1>8, <1>0 DEF Elapsed!Stop, Elapsed!TakeTimer
<1>9. ASSUME NEW a \in Elapsed!Actors, Elapsed!Drain(a) PROVE Begun'
  BY <1>9, <1>0 DEF Elapsed!Drain, Elapsed!TakeTimer
<1>10. ASSUME NEW a \in Elapsed!Actors, Elapsed!Release(a) PROVE Begun'
  BY <1>10, <1>0 DEF Elapsed!Release
<1>11. ASSUME NEW a \in Elapsed!Actors, Elapsed!Disable(a) PROVE Begun'
  BY <1>11, <1>0 DEF Elapsed!Disable
<1>12. ASSUME NEW a \in Pair, Elapsed!Destroy(a) PROVE Begun'
  BY <1>12, <1>0 DEF Elapsed!Destroy, Elapsed!MayCall
<1>13. ASSUME NEW a \in Pair, Elapsed!WakeEarly(a) PROVE Begun' BY <1>13, <1>0 DEF Elapsed!WakeEarly
<1>14. ASSUME NEW g \in Elapsed!Generations, Elapsed!Fire(g) PROVE Begun'
  BY <1>14, <1>0 DEF Elapsed!Fire
<1>15. ASSUME NEW g \in Elapsed!Generations, Elapsed!EnterGate(g) PROVE Begun'
  BY <1>15, <1>0 DEF Elapsed!EnterGate
<1>16. ASSUME NEW g \in Elapsed!Generations, Elapsed!ReadAutoReset(g) PROVE Begun'
  BY <1>16, <1>0 DEF Elapsed!ReadAutoReset
<1>17. ASSUME NEW g \in Elapsed!Generations, Elapsed!LeaveGate(g) PROVE Begun'
  BY <1>17, <1>0 DEF Elapsed!LeaveGate
<1>18. ASSUME NEW g \in Elapsed!Generations, Elapsed!NotifyFinished(g) PROVE Begun'
  BY <1>18, <1>0 DEF Elapsed!NotifyFinished
<1>19. CASE UNCHANGED Elapsed!vars BY <1>19, <1>0 DEF Elapsed!vars
<1> QED
  BY <1>1, <1>2, <1>3, <1>4, <1>5, <1>6, <1>7, <1>8, <1>9, <1>10, <1>11, <1>12, <1>13, <1>14,
     <1>15, <1>16, <1>17, <1>18, <1>19 DEF Elapsed!Next, Elapsed!InCall, Elapsed!InCallback

\* After the drain no callback is inside, and none can come.
LEMMA DrainedNext == ElapsedIInv /\ [Elapsed!Next]_Elapsed!vars => Drained'
<1> SUFFICES ASSUME ElapsedIInv, [Elapsed!Next]_Elapsed!vars PROVE Drained' OBVIOUS
<1> USE DEF Typed, Drained, Destroyer, OneDestroyer, Elapsed!NoStrayWorker, Handler,
            Elapsed!fields, Elapsed!gate, Elapsed!workers, Elapsed!locals, Elapsed!NoTimer,
            Elapsed!GoTo, Elapsed!Return, Elapsed!Begin
<1>0. /\ Typed /\ Drained /\ Elapsed!NoStrayWorker /\ (\A a \in Elapsed!Actors : Destroyer(a))
      /\ OneDestroyer /\ (destructionStarted => ~eOwner)
      /\ (\A g \in Elapsed!Generations : Handler(g))
  BY ElapsedTypes DEF Typed, ElapsedIInv, Destruction, Begun
<1>1. ASSUME NEW a \in Elapsed!Actors, NEW c \in Calls, Elapsed!Call(a, c) PROVE Drained'
  BY <1>1, <1>0 DEF Elapsed!Call, Elapsed!SetEnabled, Elapsed!MayCall
<1>2. ASSUME NEW a \in Elapsed!Actors, Elapsed!Update(a) PROVE Drained'
  BY <1>2, <1>0 DEF Elapsed!Update, Elapsed!Change
<1>3. ASSUME NEW a \in Elapsed!Actors, Elapsed!Enable(a) PROVE Drained'
  BY <1>3, <1>0 DEF Elapsed!Enable
<1>4. ASSUME NEW a \in Elapsed!Actors, Elapsed!HasTimer(a) PROVE Drained'
  BY <1>4, <1>0 DEF Elapsed!HasTimer
<1>5. ASSUME NEW a \in Elapsed!Actors, Elapsed!Reserve(a) PROVE Drained'
  BY <1>5, <1>0 DEF Elapsed!Reserve
<1>6. ASSUME NEW a \in Elapsed!Actors, Elapsed!Publish(a) PROVE Drained'
  BY <1>6, <1>0 DEF Elapsed!Publish, Elapsed!Stale, Elapsed!Change
<1>7. ASSUME NEW a \in Elapsed!Actors, Elapsed!StartFails(a) PROVE Drained'
  BY <1>7, <1>0 DEF Elapsed!StartFails, Elapsed!Stale
<1>8. ASSUME NEW a \in Elapsed!Actors, Elapsed!Stop(a) PROVE Drained'
  BY <1>8, <1>0 DEF Elapsed!Stop, Elapsed!TakeTimer
<1>9. ASSUME NEW a \in Elapsed!Actors, Elapsed!Drain(a) PROVE Drained'
  <2>1. CASE activeCallbacks # 0
    <3>1. /\ ePc' = [ePc EXCEPT ![a] = "parked"]
          /\ UNCHANGED <<op, timer, tick, alive>>
      BY <1>9, <2>1 DEF Elapsed!Drain, Elapsed!GoTo, Elapsed!workers
    <3> QED BY <1>0, <3>1 DEF Drained
  <2>2. CASE activeCallbacks = 0
    <3>1. \A g \in Elapsed!Generations : tick[g] \notin {"entered", "raise"}
      BY <2>2, InsideFacts DEF Elapsed!Inside
    <3>2. /\ ePc[a] = "drain" /\ ePc' = [ePc EXCEPT ![a] = "release"] /\ timer' = Elapsed!NoTimer
          /\ UNCHANGED <<op, tick, alive>>
      BY <1>9, <2>2 DEF Elapsed!Drain, Elapsed!TakeTimer, Elapsed!GoTo, Elapsed!workers
    <3>3. \A b \in Elapsed!Actors : op[b] = "Destroy" => b = a
      BY <1>0, <3>2 DEF Destroyer, OneDestroyer
    <3> QED BY <1>0, <3>1, <3>2, <3>3 DEF Drained
  <2> QED BY <2>1, <2>2
<1>10. ASSUME NEW a \in Elapsed!Actors, Elapsed!Release(a) PROVE Drained'
  <2>0. /\ ePc[a] = "release" /\ UNCHANGED <<timer, tick>> /\ op'[a] \in {op[a], "none"}
        /\ \A b \in Elapsed!Actors \ {a} : ePc'[b] = ePc[b] /\ op'[b] = op[b]
        /\ op[a] = "Destroy" => ePc'[a] = "gone" /\ op'[a] = "Destroy"
        /\ \A g \in Elapsed!Generations : alive'[g] => g # mine[a] /\ alive[g]
    <3>1. /\ ePc[a] = "release" /\ UNCHANGED <<timer, tick>>
          /\ alive' = [g \in Elapsed!Generations |-> g # mine[a] /\ alive[g]]
      BY <1>10 DEF Elapsed!Release, Elapsed!fields
    <3>2. \A g \in Elapsed!Generations : alive'[g] => g # mine[a] /\ alive[g] BY <3>1
    <3>3. CASE op[a] = "Start"
      <4>1. ePc' = [ePc EXCEPT ![a] = "idle"] /\ op' = [op EXCEPT ![a] = "none"]
        BY <1>10, <3>3 DEF Elapsed!Release, Elapsed!Return
      <4> QED BY <1>0, <3>1, <3>2, <3>3, <4>1
    <3>4. CASE op[a] = "Destroy"
      <4>1. ePc' = [ePc EXCEPT ![a] = "gone"] /\ op' = op
        BY <1>10, <3>4 DEF Elapsed!Release, Elapsed!GoTo
      <4> QED BY <1>0, <3>1, <3>2, <3>4, <4>1
    <3>5. CASE op[a] # "Start" /\ op[a] # "Destroy"
      <4>1. ePc' = [ePc EXCEPT ![a] = "disable"] /\ op' = op
        BY <1>10, <3>5 DEF Elapsed!Release, Elapsed!GoTo
      <4> QED BY <1>0, <3>1, <3>2, <3>5, <4>1
    <3> QED BY <3>3, <3>4, <3>5
  <2>1. CASE op[a] # "Destroy"
    <3>1. op'[a] # "Destroy" BY <2>0, <2>1
    <3> QED BY <1>0, <2>0, <3>1 DEF Drained
  <2>2. CASE op[a] = "Destroy"
    <3>1. \A b \in Elapsed!Actors : op[b] = "Destroy" => b = a BY <1>0, <2>2 DEF OneDestroyer
    <3>2. timer = Elapsed!NoTimer /\ \A g \in Elapsed!Generations : tick[g] \notin {"entered", "raise"}
      BY <1>0, <2>0, <2>2 DEF Drained
    <3>3. \A b \in Elapsed!Actors : ePc[b] = "release" => b = a
      <4> SUFFICES ASSUME NEW b \in Elapsed!Actors, ePc[b] = "release" PROVE b = a OBVIOUS
      <4>1. CASE b \in Elapsed!Generations BY <1>0, <3>2, <4>1 DEF Handler
      <4>2. CASE b \in Pair BY <1>0, <2>2, <3>1, <4>2 DEF Destroyer
      <4> QED BY <4>1, <4>2 DEF Elapsed!Actors
    <3>4. \A g \in Elapsed!Generations : ~alive'[g]
      <4> SUFFICES ASSUME NEW g \in Elapsed!Generations, alive'[g] PROVE FALSE OBVIOUS
      <4>1. g # mine[a] /\ alive[g] BY <2>0
      <4>2. timer # g BY <3>2, ElapsedConstants DEF Elapsed!Generations, Elapsed!NoTimer
      <4> QED BY <1>0, <3>3, <4>1, <4>2 DEF Elapsed!NoStrayWorker
    <3> QED BY <1>0, <2>0, <2>2, <3>1, <3>2, <3>4 DEF Drained
  <2> QED BY <2>1, <2>2
<1>11. ASSUME NEW a \in Elapsed!Actors, Elapsed!Disable(a) PROVE Drained'
  BY <1>11, <1>0 DEF Elapsed!Disable
<1>12. ASSUME NEW a \in Pair, Elapsed!Destroy(a) PROVE Drained'
  BY <1>12, <1>0 DEF Elapsed!Destroy, Elapsed!MayCall
<1>13. ASSUME NEW a \in Pair, Elapsed!WakeEarly(a) PROVE Drained'
  BY <1>13, <1>0 DEF Elapsed!WakeEarly
<1>14. ASSUME NEW g \in Elapsed!Generations, Elapsed!Fire(g) PROVE Drained'
  BY <1>14, <1>0 DEF Elapsed!Fire
<1>15. ASSUME NEW g \in Elapsed!Generations, Elapsed!EnterGate(g) PROVE Drained'
  BY <1>15, <1>0 DEF Elapsed!EnterGate
<1>16. ASSUME NEW g \in Elapsed!Generations, Elapsed!ReadAutoReset(g) PROVE Drained'
  BY <1>16, <1>0 DEF Elapsed!ReadAutoReset
<1>17. ASSUME NEW g \in Elapsed!Generations, Elapsed!LeaveGate(g) PROVE Drained'
  BY <1>17, <1>0 DEF Elapsed!LeaveGate
<1>18. ASSUME NEW g \in Elapsed!Generations, Elapsed!NotifyFinished(g) PROVE Drained'
  BY <1>18, <1>0 DEF Elapsed!NotifyFinished
<1>19. CASE UNCHANGED Elapsed!vars BY <1>19, <1>0 DEF Elapsed!vars
<1> QED
  BY <1>1, <1>2, <1>3, <1>4, <1>5, <1>6, <1>7, <1>8, <1>9, <1>10, <1>11, <1>12, <1>13, <1>14,
     <1>15, <1>16, <1>17, <1>18, <1>19 DEF Elapsed!Next, Elapsed!InCall, Elapsed!InCallback

\* An enabled timer has an armed worker, or an actor that is about to see to it.
LEMMA RunsNext == ElapsedIInv /\ [Elapsed!Next]_Elapsed!vars => Runs'
<1> SUFFICES ASSUME ElapsedIInv, [Elapsed!Next]_Elapsed!vars PROVE Runs' OBVIOUS
<1> USE DEF Typed, Runs, Owner, InHand, Destroyer, Publisher, Busy, Arming, Elapsed!fields,
            Elapsed!gate, Elapsed!workers, Elapsed!locals, Elapsed!NoTimer, Elapsed!GoTo,
            Elapsed!Return, Elapsed!Begin
<1>0. /\ Typed /\ Runs /\ Owner /\ (\A a \in Elapsed!Actors : InHand(a) /\ Destroyer(a))
      /\ mine \in [Elapsed!Actors -> Elapsed!Generations \cup {0}]
  BY ElapsedTypes DEF Typed, ElapsedIInv, Destruction, Begun
<1>1. ASSUME NEW a \in Elapsed!Actors, NEW c \in Calls, Elapsed!Call(a, c) PROVE Runs'
  BY <1>1, <1>0 DEF Elapsed!Call, Elapsed!SetEnabled, Elapsed!MayCall
<1>2. ASSUME NEW a \in Elapsed!Actors, Elapsed!Update(a) PROVE Runs'
  BY <1>2, <1>0 DEF Elapsed!Update, Elapsed!Change
<1>3. ASSUME NEW a \in Elapsed!Actors, Elapsed!Enable(a) PROVE Runs'
  BY <1>3, <1>0 DEF Elapsed!Enable
<1>4. ASSUME NEW a \in Elapsed!Actors, Elapsed!HasTimer(a) PROVE Runs'
  BY <1>4, <1>0 DEF Elapsed!HasTimer
<1>5. ASSUME NEW a \in Elapsed!Actors, Elapsed!Reserve(a) PROVE Runs'
  BY <1>5, <1>0 DEF Elapsed!Reserve
<1>6. ASSUME NEW a \in Elapsed!Actors, Elapsed!Publish(a) PROVE Runs'
  BY <1>6, <1>0 DEF Elapsed!Publish, Elapsed!Stale, Elapsed!Change
<1>7. ASSUME NEW a \in Elapsed!Actors, Elapsed!StartFails(a) PROVE Runs'
  BY <1>7, <1>0 DEF Elapsed!StartFails, Elapsed!Stale
<1>8. ASSUME NEW a \in Elapsed!Actors, Elapsed!Stop(a) PROVE Runs'
  BY <1>8, <1>0 DEF Elapsed!Stop, Elapsed!TakeTimer
<1>9. ASSUME NEW a \in Elapsed!Actors, Elapsed!Drain(a) PROVE Runs'
  BY <1>9, <1>0 DEF Elapsed!Drain, Elapsed!TakeTimer
<1>10. ASSUME NEW a \in Elapsed!Actors, Elapsed!Release(a) PROVE Runs'
  BY <1>10, <1>0 DEF Elapsed!Release
<1>11. ASSUME NEW a \in Elapsed!Actors, Elapsed!Disable(a) PROVE Runs'
  BY <1>11, <1>0 DEF Elapsed!Disable
<1>12. ASSUME NEW a \in Pair, Elapsed!Destroy(a) PROVE Runs'
  BY <1>12, <1>0 DEF Elapsed!Destroy, Elapsed!MayCall
<1>13. ASSUME NEW a \in Pair, Elapsed!WakeEarly(a) PROVE Runs' BY <1>13, <1>0 DEF Elapsed!WakeEarly
<1>14. ASSUME NEW g \in Elapsed!Generations, Elapsed!Fire(g) PROVE Runs'
  BY <1>14, <1>0 DEF Elapsed!Fire
<1>15. ASSUME NEW g \in Elapsed!Generations, Elapsed!EnterGate(g) PROVE Runs'
  BY <1>15, <1>0 DEF Elapsed!EnterGate
<1>16. ASSUME NEW g \in Elapsed!Generations, Elapsed!ReadAutoReset(g) PROVE Runs'
  BY <1>16, <1>0 DEF Elapsed!ReadAutoReset
<1>17. ASSUME NEW g \in Elapsed!Generations, Elapsed!LeaveGate(g) PROVE Runs'
  BY <1>17, <1>0 DEF Elapsed!LeaveGate
<1>18. ASSUME NEW g \in Elapsed!Generations, Elapsed!NotifyFinished(g) PROVE Runs'
  BY <1>18, <1>0 DEF Elapsed!NotifyFinished
<1>19. CASE UNCHANGED Elapsed!vars BY <1>19, <1>0 DEF Elapsed!vars
<1> QED
  BY <1>1, <1>2, <1>3, <1>4, <1>5, <1>6, <1>7, <1>8, <1>9, <1>10, <1>11, <1>12, <1>13, <1>14,
     <1>15, <1>16, <1>17, <1>18, <1>19 DEF Elapsed!Next, Elapsed!InCall, Elapsed!InCallback

\* activeCallbacks counts the callbacks inside the gate.
LEMMA CountNext == ElapsedIInv /\ [Elapsed!Next]_Elapsed!vars => (activeCallbacks = Cardinality(Elapsed!Inside))'
<1> SUFFICES ASSUME ElapsedIInv, [Elapsed!Next]_Elapsed!vars PROVE (activeCallbacks = Cardinality(Elapsed!Inside))' OBVIOUS
<1> USE DEF Typed
<1>0. Typed /\ activeCallbacks = Cardinality(Elapsed!Inside) /\ IsFiniteSet(Elapsed!Inside)
  BY ElapsedTypes, InsideFacts DEF Typed, ElapsedIInv
<1>1. ASSUME NEW a \in Elapsed!Actors, NEW c \in Calls, Elapsed!Call(a, c)
      PROVE (activeCallbacks = Cardinality(Elapsed!Inside))'
  <2>1. UNCHANGED <<tick, activeCallbacks>> BY <1>1 DEF Elapsed!Call, Elapsed!gate, Elapsed!workers
  <2> QED BY <1>0, <2>1 DEF Elapsed!Inside
<1>2. ASSUME NEW a \in Elapsed!Actors, Elapsed!Update(a)
      PROVE (activeCallbacks = Cardinality(Elapsed!Inside))'
  <2>1. UNCHANGED <<tick, activeCallbacks>>
    BY <1>2 DEF Elapsed!Update, Elapsed!gate, Elapsed!workers
  <2> QED BY <1>0, <2>1 DEF Elapsed!Inside
<1>3. ASSUME NEW a \in Elapsed!Actors, Elapsed!Enable(a)
      PROVE (activeCallbacks = Cardinality(Elapsed!Inside))'
  <2>1. UNCHANGED <<tick, activeCallbacks>>
    BY <1>3 DEF Elapsed!Enable, Elapsed!gate, Elapsed!workers
  <2> QED BY <1>0, <2>1 DEF Elapsed!Inside
<1>4. ASSUME NEW a \in Elapsed!Actors, Elapsed!HasTimer(a)
      PROVE (activeCallbacks = Cardinality(Elapsed!Inside))'
  <2>1. UNCHANGED <<tick, activeCallbacks>>
    BY <1>4 DEF Elapsed!HasTimer, Elapsed!gate, Elapsed!workers
  <2> QED BY <1>0, <2>1 DEF Elapsed!Inside
<1>5. ASSUME NEW a \in Elapsed!Actors, Elapsed!Reserve(a)
      PROVE (activeCallbacks = Cardinality(Elapsed!Inside))'
  <2>1. UNCHANGED <<tick, activeCallbacks>>
    BY <1>5 DEF Elapsed!Reserve, Elapsed!gate, Elapsed!workers
  <2> QED BY <1>0, <2>1 DEF Elapsed!Inside
<1>6. ASSUME NEW a \in Elapsed!Actors, Elapsed!Publish(a)
      PROVE (activeCallbacks = Cardinality(Elapsed!Inside))'
  <2>1. UNCHANGED <<tick, activeCallbacks>>
    BY <1>6 DEF Elapsed!Publish, Elapsed!gate, Elapsed!workers
  <2> QED BY <1>0, <2>1 DEF Elapsed!Inside
<1>7. ASSUME NEW a \in Elapsed!Actors, Elapsed!StartFails(a)
      PROVE (activeCallbacks = Cardinality(Elapsed!Inside))'
  <2>1. UNCHANGED <<tick, activeCallbacks>>
    BY <1>7 DEF Elapsed!StartFails, Elapsed!gate, Elapsed!workers
  <2> QED BY <1>0, <2>1 DEF Elapsed!Inside
<1>8. ASSUME NEW a \in Elapsed!Actors, Elapsed!Stop(a)
      PROVE (activeCallbacks = Cardinality(Elapsed!Inside))'
  <2>1. UNCHANGED <<tick, activeCallbacks>> BY <1>8 DEF Elapsed!Stop, Elapsed!gate, Elapsed!workers
  <2> QED BY <1>0, <2>1 DEF Elapsed!Inside
<1>9. ASSUME NEW a \in Elapsed!Actors, Elapsed!Drain(a)
      PROVE (activeCallbacks = Cardinality(Elapsed!Inside))'
  <2>1. UNCHANGED <<tick, activeCallbacks>> BY <1>9 DEF Elapsed!Drain, Elapsed!gate, Elapsed!workers
  <2> QED BY <1>0, <2>1 DEF Elapsed!Inside
<1>10. ASSUME NEW a \in Elapsed!Actors, Elapsed!Release(a)
      PROVE (activeCallbacks = Cardinality(Elapsed!Inside))'
  <2>1. UNCHANGED <<tick, activeCallbacks>>
    BY <1>10 DEF Elapsed!Release, Elapsed!gate, Elapsed!workers
  <2> QED BY <1>0, <2>1 DEF Elapsed!Inside
<1>11. ASSUME NEW a \in Elapsed!Actors, Elapsed!Disable(a)
      PROVE (activeCallbacks = Cardinality(Elapsed!Inside))'
  <2>1. UNCHANGED <<tick, activeCallbacks>>
    BY <1>11 DEF Elapsed!Disable, Elapsed!gate, Elapsed!workers
  <2> QED BY <1>0, <2>1 DEF Elapsed!Inside
<1>12. ASSUME NEW a \in Pair, Elapsed!Destroy(a)
      PROVE (activeCallbacks = Cardinality(Elapsed!Inside))'
  <2>1. UNCHANGED <<tick, activeCallbacks>>
    BY <1>12 DEF Elapsed!Destroy, Elapsed!gate, Elapsed!workers
  <2> QED BY <1>0, <2>1 DEF Elapsed!Inside
<1>13. ASSUME NEW a \in Pair, Elapsed!WakeEarly(a)
      PROVE (activeCallbacks = Cardinality(Elapsed!Inside))'
  <2>1. UNCHANGED <<tick, activeCallbacks>>
    BY <1>13 DEF Elapsed!WakeEarly, Elapsed!gate, Elapsed!workers
  <2> QED BY <1>0, <2>1 DEF Elapsed!Inside
<1>14. ASSUME NEW g \in Elapsed!Generations, Elapsed!Fire(g)
      PROVE (activeCallbacks = Cardinality(Elapsed!Inside))'
  <2>1. Elapsed!Inside' = Elapsed!Inside /\ activeCallbacks' = activeCallbacks
    BY <1>14, <1>0 DEF Elapsed!Fire, Elapsed!Inside, Elapsed!gate, Elapsed!workers
  <2> QED BY <1>0, <2>1
<1>15. ASSUME NEW g \in Elapsed!Generations, Elapsed!EnterGate(g)
      PROVE (activeCallbacks = Cardinality(Elapsed!Inside))'
  <2>1. CASE eOwner /\ generation = g
    <3>1. /\ g \notin Elapsed!Inside /\ Elapsed!Inside' = Elapsed!Inside \cup {g}
          /\ activeCallbacks' = activeCallbacks + 1
      BY <1>15, <1>0, <2>1 DEF Elapsed!EnterGate, Elapsed!Inside
    <3> QED BY <1>0, <3>1, CardinalityPlusMinus
  <2>2. CASE ~(eOwner /\ generation = g)
    <3>1. Elapsed!Inside' = Elapsed!Inside /\ activeCallbacks' = activeCallbacks
      BY <1>15, <1>0, <2>2 DEF Elapsed!EnterGate, Elapsed!Inside
    <3> QED BY <1>0, <3>1
  <2> QED BY <2>1, <2>2
<1>16. ASSUME NEW g \in Elapsed!Generations, Elapsed!ReadAutoReset(g)
      PROVE (activeCallbacks = Cardinality(Elapsed!Inside))'
  <2>1. Elapsed!Inside' = Elapsed!Inside /\ activeCallbacks' = activeCallbacks
    BY <1>16, <1>0 DEF Elapsed!ReadAutoReset, Elapsed!Inside, Elapsed!gate, Elapsed!workers
  <2> QED BY <1>0, <2>1
<1>17. ASSUME NEW g \in Elapsed!Generations, Elapsed!LeaveGate(g)
      PROVE (activeCallbacks = Cardinality(Elapsed!Inside))'
  <2>1. /\ g \in Elapsed!Inside /\ Elapsed!Inside' = Elapsed!Inside \ {g}
        /\ activeCallbacks' = activeCallbacks - 1
    BY <1>17, <1>0 DEF Elapsed!LeaveGate, Elapsed!Inside
  <2> QED BY <1>0, <2>1, CardinalityPlusMinus
<1>18. ASSUME NEW g \in Elapsed!Generations, Elapsed!NotifyFinished(g)
      PROVE (activeCallbacks = Cardinality(Elapsed!Inside))'
  <2>1. Elapsed!Inside' = Elapsed!Inside /\ activeCallbacks' = activeCallbacks
    BY <1>18, <1>0 DEF Elapsed!NotifyFinished, Elapsed!Inside, Elapsed!gate, Elapsed!workers
  <2> QED BY <1>0, <2>1
<1>19. CASE UNCHANGED Elapsed!vars
  <2>1. UNCHANGED <<tick, activeCallbacks>> BY <1>19 DEF Elapsed!vars, Elapsed!gate, Elapsed!workers
  <2> QED BY <1>0, <2>1 DEF Elapsed!Inside
<1> QED
  BY <1>1, <1>2, <1>3, <1>4, <1>5, <1>6, <1>7, <1>8, <1>9, <1>10, <1>11, <1>12, <1>13, <1>14,
     <1>15, <1>16, <1>17, <1>18, <1>19 DEF Elapsed!Next, Elapsed!InCall, Elapsed!InCallback

\* Calls do not take more generations than there are.
LEMMA AllowedNext == ElapsedIInv /\ [Elapsed!Next]_Elapsed!vars => Allowed'
<1> SUFFICES ASSUME ElapsedIInv, [Elapsed!Next]_Elapsed!vars PROVE Allowed' OBVIOUS
<1> USE DEF Typed
<1>0. Typed /\ calls \in Nat /\ calls <= MaxCalls /\ MaxCalls \in Nat
  BY ElapsedTypes DEF Typed, ElapsedIInv, Allowed
<1>1. ASSUME NEW a \in Elapsed!Actors, NEW c \in Calls, Elapsed!Call(a, c) PROVE Allowed'
  <2>1. ePc' \in [Elapsed!Actors -> Places] /\ \A b \in Elapsed!Actors \ {a} : ePc'[b] = ePc[b]
    BY <1>1, <1>0 DEF Elapsed!Call, Elapsed!SetEnabled, Elapsed!Begin, Elapsed!MayCall, Places
  <2>2. generation' \in Nat /\ calls' \in Nat /\ calls' <= MaxCalls
    BY <1>1, <1>0
       DEF Elapsed!Call, Elapsed!SetEnabled, Elapsed!Begin, Elapsed!MayCall, Elapsed!gate,
           Elapsed!locals
  <2>3. generation' + Owed(ePc'[a]) + 2 * calls + (IF destructionStarted THEN 1 ELSE 0)
          <= generation + Owed(ePc[a]) + 2 * calls' + (IF destructionStarted' THEN 1 ELSE 0)
    BY <1>1, <1>0
       DEF Elapsed!Call, Elapsed!SetEnabled, Elapsed!Begin, Elapsed!MayCall, Owed, Elapsed!gate,
           Elapsed!locals
  <2>4. a \in Elapsed!Actors BY <1>0
  <2> QED BY <2>1, <2>2, <2>3, <2>4, AllowedStep
<1>2. ASSUME NEW a \in Elapsed!Actors, Elapsed!Update(a) PROVE Allowed'
  <2>1. ePc' \in [Elapsed!Actors -> Places] /\ \A b \in Elapsed!Actors \ {a} : ePc'[b] = ePc[b]
    BY <1>2, <1>0 DEF Elapsed!Update, Elapsed!Return, Elapsed!Change, Places
  <2>2. generation' \in Nat /\ calls' \in Nat /\ calls' <= MaxCalls
    BY <1>2, <1>0 DEF Elapsed!Update, Elapsed!Return, Elapsed!Change, Elapsed!gate, Elapsed!locals
  <2>3. generation' + Owed(ePc'[a]) + 2 * calls + (IF destructionStarted THEN 1 ELSE 0)
          <= generation + Owed(ePc[a]) + 2 * calls' + (IF destructionStarted' THEN 1 ELSE 0)
    BY <1>2, <1>0
       DEF Elapsed!Update, Elapsed!Return, Elapsed!Change, Owed, Elapsed!gate, Elapsed!locals
  <2>4. a \in Elapsed!Actors BY <1>0
  <2> QED BY <2>1, <2>2, <2>3, <2>4, AllowedStep
<1>3. ASSUME NEW a \in Elapsed!Actors, Elapsed!Enable(a) PROVE Allowed'
  <2>1. ePc' \in [Elapsed!Actors -> Places] /\ \A b \in Elapsed!Actors \ {a} : ePc'[b] = ePc[b]
    BY <1>3, <1>0 DEF Elapsed!Enable, Elapsed!GoTo, Places
  <2>2. generation' \in Nat /\ calls' \in Nat /\ calls' <= MaxCalls
    BY <1>3, <1>0 DEF Elapsed!Enable, Elapsed!GoTo, Elapsed!gate, Elapsed!locals
  <2>3. generation' + Owed(ePc'[a]) + 2 * calls + (IF destructionStarted THEN 1 ELSE 0)
          <= generation + Owed(ePc[a]) + 2 * calls' + (IF destructionStarted' THEN 1 ELSE 0)
    BY <1>3, <1>0 DEF Elapsed!Enable, Elapsed!GoTo, Owed, Elapsed!gate, Elapsed!locals
  <2>4. a \in Elapsed!Actors BY <1>0
  <2> QED BY <2>1, <2>2, <2>3, <2>4, AllowedStep
<1>4. ASSUME NEW a \in Elapsed!Actors, Elapsed!HasTimer(a) PROVE Allowed'
  <2>1. ePc' \in [Elapsed!Actors -> Places] /\ \A b \in Elapsed!Actors \ {a} : ePc'[b] = ePc[b]
    BY <1>4, <1>0 DEF Elapsed!HasTimer, Elapsed!GoTo, Places
  <2>2. generation' \in Nat /\ calls' \in Nat /\ calls' <= MaxCalls
    BY <1>4, <1>0 DEF Elapsed!HasTimer, Elapsed!GoTo, Elapsed!gate, Elapsed!locals
  <2>3. generation' + Owed(ePc'[a]) + 2 * calls + (IF destructionStarted THEN 1 ELSE 0)
          <= generation + Owed(ePc[a]) + 2 * calls' + (IF destructionStarted' THEN 1 ELSE 0)
    BY <1>4, <1>0 DEF Elapsed!HasTimer, Elapsed!GoTo, Owed, Elapsed!gate, Elapsed!locals
  <2>4. a \in Elapsed!Actors BY <1>0
  <2> QED BY <2>1, <2>2, <2>3, <2>4, AllowedStep
<1>5. ASSUME NEW a \in Elapsed!Actors, Elapsed!Reserve(a) PROVE Allowed'
  <2>1. ePc' \in [Elapsed!Actors -> Places] /\ \A b \in Elapsed!Actors \ {a} : ePc'[b] = ePc[b]
    BY <1>5, <1>0 DEF Elapsed!Reserve, Elapsed!Return, Elapsed!GoTo, Places
  <2>2. generation' \in Nat /\ calls' \in Nat /\ calls' <= MaxCalls
    BY <1>5, <1>0 DEF Elapsed!Reserve, Elapsed!Return, Elapsed!GoTo, Elapsed!gate, Elapsed!locals
  <2>3. generation' + Owed(ePc'[a]) + 2 * calls + (IF destructionStarted THEN 1 ELSE 0)
          <= generation + Owed(ePc[a]) + 2 * calls' + (IF destructionStarted' THEN 1 ELSE 0)
    BY <1>5, <1>0
       DEF Elapsed!Reserve, Elapsed!Return, Elapsed!GoTo, Owed, Elapsed!gate, Elapsed!locals
  <2>4. a \in Elapsed!Actors BY <1>0
  <2> QED BY <2>1, <2>2, <2>3, <2>4, AllowedStep
<1>6. ASSUME NEW a \in Elapsed!Actors, Elapsed!Publish(a) PROVE Allowed'
  <2>1. ePc' \in [Elapsed!Actors -> Places] /\ \A b \in Elapsed!Actors \ {a} : ePc'[b] = ePc[b]
    BY <1>6, <1>0 DEF Elapsed!Publish, Elapsed!Return, Elapsed!Stale, Elapsed!Change, Places
  <2>2. generation' \in Nat /\ calls' \in Nat /\ calls' <= MaxCalls
    BY <1>6, <1>0
       DEF Elapsed!Publish, Elapsed!Return, Elapsed!Stale, Elapsed!Change, Elapsed!gate,
           Elapsed!locals
  <2>3. generation' + Owed(ePc'[a]) + 2 * calls + (IF destructionStarted THEN 1 ELSE 0)
          <= generation + Owed(ePc[a]) + 2 * calls' + (IF destructionStarted' THEN 1 ELSE 0)
    BY <1>6, <1>0
       DEF Elapsed!Publish, Elapsed!Return, Elapsed!Stale, Elapsed!Change, Owed, Elapsed!gate,
           Elapsed!locals
  <2>4. a \in Elapsed!Actors BY <1>0
  <2> QED BY <2>1, <2>2, <2>3, <2>4, AllowedStep
<1>7. ASSUME NEW a \in Elapsed!Actors, Elapsed!StartFails(a) PROVE Allowed'
  <2>1. ePc' \in [Elapsed!Actors -> Places] /\ \A b \in Elapsed!Actors \ {a} : ePc'[b] = ePc[b]
    BY <1>7, <1>0 DEF Elapsed!StartFails, Elapsed!Return, Elapsed!GoTo, Elapsed!Stale, Places
  <2>2. generation' \in Nat /\ calls' \in Nat /\ calls' <= MaxCalls
    BY <1>7, <1>0
       DEF Elapsed!StartFails, Elapsed!Return, Elapsed!GoTo, Elapsed!Stale, Elapsed!gate,
           Elapsed!locals
  <2>3. generation' + Owed(ePc'[a]) + 2 * calls + (IF destructionStarted THEN 1 ELSE 0)
          <= generation + Owed(ePc[a]) + 2 * calls' + (IF destructionStarted' THEN 1 ELSE 0)
    BY <1>7, <1>0
       DEF Elapsed!StartFails, Elapsed!Return, Elapsed!GoTo, Elapsed!Stale, Owed, Elapsed!gate,
           Elapsed!locals
  <2>4. a \in Elapsed!Actors BY <1>0
  <2> QED BY <2>1, <2>2, <2>3, <2>4, AllowedStep
<1>8. ASSUME NEW a \in Elapsed!Actors, Elapsed!Stop(a) PROVE Allowed'
  <2>1. ePc' \in [Elapsed!Actors -> Places] /\ \A b \in Elapsed!Actors \ {a} : ePc'[b] = ePc[b]
    BY <1>8, <1>0 DEF Elapsed!Stop, Elapsed!TakeTimer, Elapsed!GoTo, Places
  <2>2. generation' \in Nat /\ calls' \in Nat /\ calls' <= MaxCalls
    BY <1>8, <1>0 DEF Elapsed!Stop, Elapsed!TakeTimer, Elapsed!GoTo, Elapsed!gate, Elapsed!locals
  <2>3. generation' + Owed(ePc'[a]) + 2 * calls + (IF destructionStarted THEN 1 ELSE 0)
          <= generation + Owed(ePc[a]) + 2 * calls' + (IF destructionStarted' THEN 1 ELSE 0)
    BY <1>8, <1>0
       DEF Elapsed!Stop, Elapsed!TakeTimer, Elapsed!GoTo, Owed, Elapsed!gate, Elapsed!locals
  <2>4. a \in Elapsed!Actors BY <1>0
  <2> QED BY <2>1, <2>2, <2>3, <2>4, AllowedStep
<1>9. ASSUME NEW a \in Elapsed!Actors, Elapsed!Drain(a) PROVE Allowed'
  <2>1. ePc' \in [Elapsed!Actors -> Places] /\ \A b \in Elapsed!Actors \ {a} : ePc'[b] = ePc[b]
    BY <1>9, <1>0 DEF Elapsed!Drain, Elapsed!TakeTimer, Elapsed!GoTo, Places
  <2>2. generation' \in Nat /\ calls' \in Nat /\ calls' <= MaxCalls
    BY <1>9, <1>0 DEF Elapsed!Drain, Elapsed!TakeTimer, Elapsed!GoTo, Elapsed!gate, Elapsed!locals
  <2>3. generation' + Owed(ePc'[a]) + 2 * calls + (IF destructionStarted THEN 1 ELSE 0)
          <= generation + Owed(ePc[a]) + 2 * calls' + (IF destructionStarted' THEN 1 ELSE 0)
    BY <1>9, <1>0
       DEF Elapsed!Drain, Elapsed!TakeTimer, Elapsed!GoTo, Owed, Elapsed!gate, Elapsed!locals
  <2>4. a \in Elapsed!Actors BY <1>0
  <2> QED BY <2>1, <2>2, <2>3, <2>4, AllowedStep
<1>10. ASSUME NEW a \in Elapsed!Actors, Elapsed!Release(a) PROVE Allowed'
  <2>1. ePc' \in [Elapsed!Actors -> Places] /\ \A b \in Elapsed!Actors \ {a} : ePc'[b] = ePc[b]
    BY <1>10, <1>0 DEF Elapsed!Release, Elapsed!Return, Elapsed!GoTo, Places
  <2>2. generation' \in Nat /\ calls' \in Nat /\ calls' <= MaxCalls
    BY <1>10, <1>0 DEF Elapsed!Release, Elapsed!Return, Elapsed!GoTo, Elapsed!gate, Elapsed!locals
  <2>3. generation' + Owed(ePc'[a]) + 2 * calls + (IF destructionStarted THEN 1 ELSE 0)
          <= generation + Owed(ePc[a]) + 2 * calls' + (IF destructionStarted' THEN 1 ELSE 0)
    BY <1>10, <1>0
       DEF Elapsed!Release, Elapsed!Return, Elapsed!GoTo, Owed, Elapsed!gate, Elapsed!locals
  <2>4. a \in Elapsed!Actors BY <1>0
  <2> QED BY <2>1, <2>2, <2>3, <2>4, AllowedStep
<1>11. ASSUME NEW a \in Elapsed!Actors, Elapsed!Disable(a) PROVE Allowed'
  <2>1. ePc' \in [Elapsed!Actors -> Places] /\ \A b \in Elapsed!Actors \ {a} : ePc'[b] = ePc[b]
    BY <1>11, <1>0 DEF Elapsed!Disable, Elapsed!Return, Places
  <2>2. generation' \in Nat /\ calls' \in Nat /\ calls' <= MaxCalls
    BY <1>11, <1>0 DEF Elapsed!Disable, Elapsed!Return, Elapsed!gate, Elapsed!locals
  <2>3. generation' + Owed(ePc'[a]) + 2 * calls + (IF destructionStarted THEN 1 ELSE 0)
          <= generation + Owed(ePc[a]) + 2 * calls' + (IF destructionStarted' THEN 1 ELSE 0)
    BY <1>11, <1>0 DEF Elapsed!Disable, Elapsed!Return, Owed, Elapsed!gate, Elapsed!locals
  <2>4. a \in Elapsed!Actors BY <1>0
  <2> QED BY <2>1, <2>2, <2>3, <2>4, AllowedStep
<1>12. ASSUME NEW a \in Pair, Elapsed!Destroy(a) PROVE Allowed'
  <2>1. ePc' \in [Elapsed!Actors -> Places] /\ \A b \in Elapsed!Actors \ {a} : ePc'[b] = ePc[b]
    BY <1>12, <1>0 DEF Elapsed!Destroy, Elapsed!Begin, Elapsed!MayCall, Places
  <2>2. generation' \in Nat /\ calls' \in Nat /\ calls' <= MaxCalls
    BY <1>12, <1>0 DEF Elapsed!Destroy, Elapsed!Begin, Elapsed!MayCall, Elapsed!gate, Elapsed!locals
  <2>3. generation' + Owed(ePc'[a]) + 2 * calls + (IF destructionStarted THEN 1 ELSE 0)
          <= generation + Owed(ePc[a]) + 2 * calls' + (IF destructionStarted' THEN 1 ELSE 0)
    BY <1>12, <1>0
       DEF Elapsed!Destroy, Elapsed!Begin, Elapsed!MayCall, Owed, Elapsed!gate, Elapsed!locals
  <2>4. a \in Elapsed!Actors BY <1>0
  <2> QED BY <2>1, <2>2, <2>3, <2>4, AllowedStep
<1>13. ASSUME NEW a \in Pair, Elapsed!WakeEarly(a) PROVE Allowed'
  <2>1. ePc' \in [Elapsed!Actors -> Places] /\ \A b \in Elapsed!Actors \ {a} : ePc'[b] = ePc[b]
    BY <1>13, <1>0 DEF Elapsed!WakeEarly, Elapsed!GoTo, Places
  <2>2. generation' \in Nat /\ calls' \in Nat /\ calls' <= MaxCalls
    BY <1>13, <1>0 DEF Elapsed!WakeEarly, Elapsed!GoTo, Elapsed!gate, Elapsed!locals
  <2>3. generation' + Owed(ePc'[a]) + 2 * calls + (IF destructionStarted THEN 1 ELSE 0)
          <= generation + Owed(ePc[a]) + 2 * calls' + (IF destructionStarted' THEN 1 ELSE 0)
    BY <1>13, <1>0 DEF Elapsed!WakeEarly, Elapsed!GoTo, Owed, Elapsed!gate, Elapsed!locals
  <2>4. a \in Elapsed!Actors BY <1>0
  <2> QED BY <2>1, <2>2, <2>3, <2>4, AllowedStep
<1>14. ASSUME NEW g \in Elapsed!Generations, Elapsed!Fire(g) PROVE Allowed'
  <2>1. UNCHANGED <<ePc, generation, calls, destructionStarted>>
    BY <1>14 DEF Elapsed!Fire, Elapsed!gate, Elapsed!locals
  <2> QED BY <2>1 DEF ElapsedIInv, Allowed, TwoToCome, OneToCome
<1>15. ASSUME NEW g \in Elapsed!Generations, Elapsed!EnterGate(g) PROVE Allowed'
  <2>1. UNCHANGED <<ePc, generation, calls, destructionStarted>>
    BY <1>15 DEF Elapsed!EnterGate, Elapsed!gate, Elapsed!locals
  <2> QED BY <2>1 DEF ElapsedIInv, Allowed, TwoToCome, OneToCome
<1>16. ASSUME NEW g \in Elapsed!Generations, Elapsed!ReadAutoReset(g) PROVE Allowed'
  <2>1. UNCHANGED <<ePc, generation, calls, destructionStarted>>
    BY <1>16 DEF Elapsed!ReadAutoReset, Elapsed!gate, Elapsed!locals
  <2> QED BY <2>1 DEF ElapsedIInv, Allowed, TwoToCome, OneToCome
<1>17. ASSUME NEW g \in Elapsed!Generations, Elapsed!LeaveGate(g) PROVE Allowed'
  <2>1. UNCHANGED <<ePc, generation, calls, destructionStarted>>
    BY <1>17 DEF Elapsed!LeaveGate, Elapsed!gate, Elapsed!locals
  <2> QED BY <2>1 DEF ElapsedIInv, Allowed, TwoToCome, OneToCome
<1>18. ASSUME NEW g \in Elapsed!Generations, Elapsed!NotifyFinished(g) PROVE Allowed'
  <2>1. /\ UNCHANGED <<generation, calls, destructionStarted>>
        /\ ePc' = [a \in Elapsed!Actors |-> IF ePc[a] = "parked" THEN "drain" ELSE ePc[a]]
    BY <1>18 DEF Elapsed!NotifyFinished, Elapsed!gate
  <2>2. TwoToCome' = TwoToCome /\ OneToCome' = OneToCome BY <1>0, <2>1 DEF TwoToCome, OneToCome
  <2> QED BY <2>1, <2>2 DEF ElapsedIInv, Allowed
<1>19. CASE UNCHANGED Elapsed!vars
  <2>1. UNCHANGED <<ePc, generation, calls, destructionStarted>>
    BY <1>19 DEF Elapsed!vars, Elapsed!locals, Elapsed!gate, Elapsed!locals
  <2> QED BY <2>1 DEF ElapsedIInv, Allowed, TwoToCome, OneToCome
<1> QED
  BY <1>1, <1>2, <1>3, <1>4, <1>5, <1>6, <1>7, <1>8, <1>9, <1>10, <1>11, <1>12, <1>13, <1>14,
     <1>15, <1>16, <1>17, <1>18, <1>19 DEF Elapsed!Next, Elapsed!InCall, Elapsed!InCallback

\* Flags stay flags.
LEMMA FlagsNext == ElapsedIInv /\ [Elapsed!Next]_Elapsed!vars => Flags'
<1> SUFFICES ASSUME ElapsedIInv, [Elapsed!Next]_Elapsed!vars PROVE Flags' OBVIOUS
<1> USE DEF Typed, Flags, Elapsed!fields, Elapsed!gate, Elapsed!workers, Elapsed!locals,
            Elapsed!NoTimer, Elapsed!GoTo, Elapsed!Return, Elapsed!Begin
<1>0. Flags BY ElapsedTypes DEF Flags
<1>1. ASSUME NEW a \in Elapsed!Actors, NEW c \in Calls, Elapsed!Call(a, c) PROVE Flags'
  BY <1>1, <1>0 DEF Elapsed!Call, Elapsed!SetEnabled, Elapsed!MayCall
<1>2. ASSUME NEW a \in Elapsed!Actors, Elapsed!Update(a) PROVE Flags'
  BY <1>2, <1>0 DEF Elapsed!Update, Elapsed!Change
<1>3. ASSUME NEW a \in Elapsed!Actors, Elapsed!Enable(a) PROVE Flags'
  BY <1>3, <1>0 DEF Elapsed!Enable
<1>4. ASSUME NEW a \in Elapsed!Actors, Elapsed!HasTimer(a) PROVE Flags'
  BY <1>4, <1>0 DEF Elapsed!HasTimer
<1>5. ASSUME NEW a \in Elapsed!Actors, Elapsed!Reserve(a) PROVE Flags'
  BY <1>5, <1>0 DEF Elapsed!Reserve
<1>6. ASSUME NEW a \in Elapsed!Actors, Elapsed!Publish(a) PROVE Flags'
  BY <1>6, <1>0 DEF Elapsed!Publish, Elapsed!Stale, Elapsed!Change
<1>7. ASSUME NEW a \in Elapsed!Actors, Elapsed!StartFails(a) PROVE Flags'
  BY <1>7, <1>0 DEF Elapsed!StartFails, Elapsed!Stale
<1>8. ASSUME NEW a \in Elapsed!Actors, Elapsed!Stop(a) PROVE Flags'
  BY <1>8, <1>0 DEF Elapsed!Stop, Elapsed!TakeTimer
<1>9. ASSUME NEW a \in Elapsed!Actors, Elapsed!Drain(a) PROVE Flags'
  BY <1>9, <1>0 DEF Elapsed!Drain, Elapsed!TakeTimer
<1>10. ASSUME NEW a \in Elapsed!Actors, Elapsed!Release(a) PROVE Flags'
  BY <1>10, <1>0 DEF Elapsed!Release
<1>11. ASSUME NEW a \in Elapsed!Actors, Elapsed!Disable(a) PROVE Flags'
  BY <1>11, <1>0 DEF Elapsed!Disable
<1>12. ASSUME NEW a \in Pair, Elapsed!Destroy(a) PROVE Flags'
  BY <1>12, <1>0 DEF Elapsed!Destroy, Elapsed!MayCall
<1>13. ASSUME NEW a \in Pair, Elapsed!WakeEarly(a) PROVE Flags' BY <1>13, <1>0 DEF Elapsed!WakeEarly
<1>14. ASSUME NEW g \in Elapsed!Generations, Elapsed!Fire(g) PROVE Flags'
  BY <1>14, <1>0 DEF Elapsed!Fire
<1>15. ASSUME NEW g \in Elapsed!Generations, Elapsed!EnterGate(g) PROVE Flags'
  BY <1>15, <1>0 DEF Elapsed!EnterGate
<1>16. ASSUME NEW g \in Elapsed!Generations, Elapsed!ReadAutoReset(g) PROVE Flags'
  BY <1>16, <1>0 DEF Elapsed!ReadAutoReset
<1>17. ASSUME NEW g \in Elapsed!Generations, Elapsed!LeaveGate(g) PROVE Flags'
  BY <1>17, <1>0 DEF Elapsed!LeaveGate
<1>18. ASSUME NEW g \in Elapsed!Generations, Elapsed!NotifyFinished(g) PROVE Flags'
  BY <1>18, <1>0 DEF Elapsed!NotifyFinished
<1>19. CASE UNCHANGED Elapsed!vars BY <1>19, <1>0 DEF Elapsed!vars
<1> QED
  BY <1>1, <1>2, <1>3, <1>4, <1>5, <1>6, <1>7, <1>8, <1>9, <1>10, <1>11, <1>12, <1>13, <1>14,
     <1>15, <1>16, <1>17, <1>18, <1>19 DEF Elapsed!Next, Elapsed!InCall, Elapsed!InCallback

\* Calls stand where calls can stand.
LEMMA PlacesNext == ElapsedIInv /\ [Elapsed!Next]_Elapsed!vars => (ePc \in [Elapsed!Actors -> Places] /\ op \in [Elapsed!Actors -> Operations])'
<1> SUFFICES ASSUME ElapsedIInv, [Elapsed!Next]_Elapsed!vars PROVE (ePc \in [Elapsed!Actors -> Places] /\ op \in [Elapsed!Actors -> Operations])' OBVIOUS
<1> USE DEF Typed, Places, Operations, Elapsed!fields, Elapsed!gate, Elapsed!workers,
            Elapsed!locals, Elapsed!NoTimer, Elapsed!GoTo, Elapsed!Return, Elapsed!Begin
<1>0. Typed
  BY ElapsedTypes DEF Typed, ElapsedIInv
<1>1. ASSUME NEW a \in Elapsed!Actors, NEW c \in Calls, Elapsed!Call(a, c)
      PROVE (ePc \in [Elapsed!Actors -> Places] /\ op \in [Elapsed!Actors -> Operations])'
  BY <1>1, <1>0 DEF Elapsed!Call, Elapsed!SetEnabled, Elapsed!MayCall
<1>2. ASSUME NEW a \in Elapsed!Actors, Elapsed!Update(a)
      PROVE (ePc \in [Elapsed!Actors -> Places] /\ op \in [Elapsed!Actors -> Operations])'
  BY <1>2, <1>0 DEF Elapsed!Update, Elapsed!Change
<1>3. ASSUME NEW a \in Elapsed!Actors, Elapsed!Enable(a)
      PROVE (ePc \in [Elapsed!Actors -> Places] /\ op \in [Elapsed!Actors -> Operations])'
  BY <1>3, <1>0 DEF Elapsed!Enable
<1>4. ASSUME NEW a \in Elapsed!Actors, Elapsed!HasTimer(a)
      PROVE (ePc \in [Elapsed!Actors -> Places] /\ op \in [Elapsed!Actors -> Operations])'
  BY <1>4, <1>0 DEF Elapsed!HasTimer
<1>5. ASSUME NEW a \in Elapsed!Actors, Elapsed!Reserve(a)
      PROVE (ePc \in [Elapsed!Actors -> Places] /\ op \in [Elapsed!Actors -> Operations])'
  BY <1>5, <1>0 DEF Elapsed!Reserve
<1>6. ASSUME NEW a \in Elapsed!Actors, Elapsed!Publish(a)
      PROVE (ePc \in [Elapsed!Actors -> Places] /\ op \in [Elapsed!Actors -> Operations])'
  BY <1>6, <1>0 DEF Elapsed!Publish, Elapsed!Stale, Elapsed!Change
<1>7. ASSUME NEW a \in Elapsed!Actors, Elapsed!StartFails(a)
      PROVE (ePc \in [Elapsed!Actors -> Places] /\ op \in [Elapsed!Actors -> Operations])'
  BY <1>7, <1>0 DEF Elapsed!StartFails, Elapsed!Stale
<1>8. ASSUME NEW a \in Elapsed!Actors, Elapsed!Stop(a)
      PROVE (ePc \in [Elapsed!Actors -> Places] /\ op \in [Elapsed!Actors -> Operations])'
  BY <1>8, <1>0 DEF Elapsed!Stop, Elapsed!TakeTimer
<1>9. ASSUME NEW a \in Elapsed!Actors, Elapsed!Drain(a)
      PROVE (ePc \in [Elapsed!Actors -> Places] /\ op \in [Elapsed!Actors -> Operations])'
  BY <1>9, <1>0 DEF Elapsed!Drain, Elapsed!TakeTimer
<1>10. ASSUME NEW a \in Elapsed!Actors, Elapsed!Release(a)
      PROVE (ePc \in [Elapsed!Actors -> Places] /\ op \in [Elapsed!Actors -> Operations])'
  BY <1>10, <1>0 DEF Elapsed!Release
<1>11. ASSUME NEW a \in Elapsed!Actors, Elapsed!Disable(a)
      PROVE (ePc \in [Elapsed!Actors -> Places] /\ op \in [Elapsed!Actors -> Operations])'
  BY <1>11, <1>0 DEF Elapsed!Disable
<1>12. ASSUME NEW a \in Pair, Elapsed!Destroy(a)
      PROVE (ePc \in [Elapsed!Actors -> Places] /\ op \in [Elapsed!Actors -> Operations])'
  BY <1>12, <1>0 DEF Elapsed!Destroy, Elapsed!MayCall
<1>13. ASSUME NEW a \in Pair, Elapsed!WakeEarly(a)
      PROVE (ePc \in [Elapsed!Actors -> Places] /\ op \in [Elapsed!Actors -> Operations])'
  BY <1>13, <1>0 DEF Elapsed!WakeEarly
<1>14. ASSUME NEW g \in Elapsed!Generations, Elapsed!Fire(g)
      PROVE (ePc \in [Elapsed!Actors -> Places] /\ op \in [Elapsed!Actors -> Operations])'
  BY <1>14, <1>0 DEF Elapsed!Fire
<1>15. ASSUME NEW g \in Elapsed!Generations, Elapsed!EnterGate(g)
      PROVE (ePc \in [Elapsed!Actors -> Places] /\ op \in [Elapsed!Actors -> Operations])'
  BY <1>15, <1>0 DEF Elapsed!EnterGate
<1>16. ASSUME NEW g \in Elapsed!Generations, Elapsed!ReadAutoReset(g)
      PROVE (ePc \in [Elapsed!Actors -> Places] /\ op \in [Elapsed!Actors -> Operations])'
  BY <1>16, <1>0 DEF Elapsed!ReadAutoReset
<1>17. ASSUME NEW g \in Elapsed!Generations, Elapsed!LeaveGate(g)
      PROVE (ePc \in [Elapsed!Actors -> Places] /\ op \in [Elapsed!Actors -> Operations])'
  BY <1>17, <1>0 DEF Elapsed!LeaveGate
<1>18. ASSUME NEW g \in Elapsed!Generations, Elapsed!NotifyFinished(g)
      PROVE (ePc \in [Elapsed!Actors -> Places] /\ op \in [Elapsed!Actors -> Operations])'
  BY <1>18, <1>0 DEF Elapsed!NotifyFinished
<1>19. CASE UNCHANGED Elapsed!vars BY <1>19, <1>0 DEF Elapsed!vars
<1> QED
  BY <1>1, <1>2, <1>3, <1>4, <1>5, <1>6, <1>7, <1>8, <1>9, <1>10, <1>11, <1>12, <1>13, <1>14,
     <1>15, <1>16, <1>17, <1>18, <1>19 DEF Elapsed!Next, Elapsed!InCall, Elapsed!InCallback

\* The workers keep their types.
LEMMA WorkersNext == ElapsedIInv /\ [Elapsed!Next]_Elapsed!vars => Workers'
<1> SUFFICES ASSUME ElapsedIInv, [Elapsed!Next]_Elapsed!vars PROVE Workers' OBVIOUS
<1> USE DEF Typed, Workers, Elapsed!fields, Elapsed!gate, Elapsed!workers, Elapsed!locals,
            Elapsed!NoTimer, Elapsed!GoTo, Elapsed!Return, Elapsed!Begin
<1>0. /\ Typed /\ mine \in [Elapsed!Actors -> Elapsed!Generations \cup {0}]
      /\ generation \in Elapsed!Generations \cup {0}
  BY ElapsedTypes DEF Typed
<1>1. ASSUME NEW a \in Elapsed!Actors, NEW c \in Calls, Elapsed!Call(a, c) PROVE Workers'
  BY <1>1, <1>0 DEF Elapsed!Call, Elapsed!SetEnabled, Elapsed!MayCall
<1>2. ASSUME NEW a \in Elapsed!Actors, Elapsed!Update(a) PROVE Workers'
  BY <1>2, <1>0 DEF Elapsed!Update, Elapsed!Change
<1>3. ASSUME NEW a \in Elapsed!Actors, Elapsed!Enable(a) PROVE Workers'
  BY <1>3, <1>0 DEF Elapsed!Enable
<1>4. ASSUME NEW a \in Elapsed!Actors, Elapsed!HasTimer(a) PROVE Workers'
  BY <1>4, <1>0 DEF Elapsed!HasTimer
<1>5. ASSUME NEW a \in Elapsed!Actors, Elapsed!Reserve(a) PROVE Workers'
  BY <1>5, <1>0 DEF Elapsed!Reserve
<1>6. ASSUME NEW a \in Elapsed!Actors, Elapsed!Publish(a) PROVE Workers'
  BY <1>6, <1>0 DEF Elapsed!Publish, Elapsed!Stale, Elapsed!Change
<1>7. ASSUME NEW a \in Elapsed!Actors, Elapsed!StartFails(a) PROVE Workers'
  BY <1>7, <1>0 DEF Elapsed!StartFails, Elapsed!Stale
<1>8. ASSUME NEW a \in Elapsed!Actors, Elapsed!Stop(a) PROVE Workers'
  BY <1>8, <1>0 DEF Elapsed!Stop, Elapsed!TakeTimer
<1>9. ASSUME NEW a \in Elapsed!Actors, Elapsed!Drain(a) PROVE Workers'
  BY <1>9, <1>0 DEF Elapsed!Drain, Elapsed!TakeTimer
<1>10. ASSUME NEW a \in Elapsed!Actors, Elapsed!Release(a) PROVE Workers'
  BY <1>10, <1>0 DEF Elapsed!Release
<1>11. ASSUME NEW a \in Elapsed!Actors, Elapsed!Disable(a) PROVE Workers'
  BY <1>11, <1>0 DEF Elapsed!Disable
<1>12. ASSUME NEW a \in Pair, Elapsed!Destroy(a) PROVE Workers'
  BY <1>12, <1>0 DEF Elapsed!Destroy, Elapsed!MayCall
<1>13. ASSUME NEW a \in Pair, Elapsed!WakeEarly(a) PROVE Workers'
  BY <1>13, <1>0 DEF Elapsed!WakeEarly
<1>14. ASSUME NEW g \in Elapsed!Generations, Elapsed!Fire(g) PROVE Workers'
  BY <1>14, <1>0 DEF Elapsed!Fire
<1>15. ASSUME NEW g \in Elapsed!Generations, Elapsed!EnterGate(g) PROVE Workers'
  BY <1>15, <1>0 DEF Elapsed!EnterGate
<1>16. ASSUME NEW g \in Elapsed!Generations, Elapsed!ReadAutoReset(g) PROVE Workers'
  BY <1>16, <1>0 DEF Elapsed!ReadAutoReset
<1>17. ASSUME NEW g \in Elapsed!Generations, Elapsed!LeaveGate(g) PROVE Workers'
  BY <1>17, <1>0 DEF Elapsed!LeaveGate
<1>18. ASSUME NEW g \in Elapsed!Generations, Elapsed!NotifyFinished(g) PROVE Workers'
  BY <1>18, <1>0 DEF Elapsed!NotifyFinished
<1>19. CASE UNCHANGED Elapsed!vars BY <1>19, <1>0 DEF Elapsed!vars
<1> QED
  BY <1>1, <1>2, <1>3, <1>4, <1>5, <1>6, <1>7, <1>8, <1>9, <1>10, <1>11, <1>12, <1>13, <1>14,
     <1>15, <1>16, <1>17, <1>18, <1>19 DEF Elapsed!Next, Elapsed!InCall, Elapsed!InCallback

\* What the timer and its actors have in hand is a generation or none.
LEMMA HandsNext == ElapsedIInv /\ [Elapsed!Next]_Elapsed!vars => Hands'
<1> SUFFICES ASSUME ElapsedIInv, [Elapsed!Next]_Elapsed!vars PROVE Hands' OBVIOUS
<1> USE DEF Typed, Hands, Elapsed!fields, Elapsed!gate, Elapsed!workers, Elapsed!locals,
            Elapsed!NoTimer, Elapsed!GoTo, Elapsed!Return, Elapsed!Begin
<1>0. /\ Typed /\ mine \in [Elapsed!Actors -> Elapsed!Generations \cup {0}]
      /\ generation \in Elapsed!Generations \cup {0}
  BY ElapsedTypes DEF Typed
<1>a. generation' \in Nat => generation' \in Elapsed!Generations \cup {0}
  <2>1. Allowed' BY AllowedNext
  <2>2. Cardinality(TwoToCome)' \in Nat /\ Cardinality(OneToCome)' \in Nat BY ToComeFinite
  <2> QED BY <2>1, <2>2, ElapsedConstants DEF Allowed, Elapsed!Generations
<1>1. ASSUME NEW a \in Elapsed!Actors, NEW c \in Calls, Elapsed!Call(a, c) PROVE Hands'
  BY <1>1, <1>0 DEF Elapsed!Call, Elapsed!SetEnabled, Elapsed!MayCall
<1>2. ASSUME NEW a \in Elapsed!Actors, Elapsed!Update(a) PROVE Hands'
  BY <1>2, <1>0 DEF Elapsed!Update, Elapsed!Change
<1>3. ASSUME NEW a \in Elapsed!Actors, Elapsed!Enable(a) PROVE Hands'
  BY <1>3, <1>0 DEF Elapsed!Enable
<1>4. ASSUME NEW a \in Elapsed!Actors, Elapsed!HasTimer(a) PROVE Hands'
  BY <1>4, <1>0 DEF Elapsed!HasTimer
<1>5. ASSUME NEW a \in Elapsed!Actors, Elapsed!Reserve(a) PROVE Hands'
  <2>1. generation' = generation \/ generation' = generation + 1
    BY <1>5 DEF Elapsed!Reserve, Elapsed!Return, Elapsed!GoTo, Elapsed!gate
  <2>2. generation' \in Nat BY <1>0, <2>1
  <2>3. timer' \in Elapsed!Generations \cup {0}
    BY <1>5, <1>0 DEF Elapsed!Reserve, Elapsed!Return, Elapsed!GoTo, Elapsed!NoTimer, Elapsed!fields
  <2>4. \E m \in Elapsed!Generations \cup {0} : mine' = [mine EXCEPT ![a] = m] \/ mine' = mine
    BY <1>5, <1>0, <1>a, <2>1, <2>2
       DEF Elapsed!Reserve, Elapsed!Return, Elapsed!GoTo, Elapsed!NoTimer
  <2> QED BY <1>0, <1>a, <2>2, <2>3, <2>4 DEF Hands
<1>6. ASSUME NEW a \in Elapsed!Actors, Elapsed!Publish(a) PROVE Hands'
  BY <1>6, <1>0 DEF Elapsed!Publish, Elapsed!Stale, Elapsed!Change
<1>7. ASSUME NEW a \in Elapsed!Actors, Elapsed!StartFails(a) PROVE Hands'
  <2>1. generation' = generation \/ generation' = generation + 1
    BY <1>7 DEF Elapsed!StartFails, Elapsed!Return, Elapsed!GoTo, Elapsed!Stale, Elapsed!gate
  <2>2. generation' \in Nat BY <1>0, <2>1
  <2>3. timer' \in Elapsed!Generations \cup {0}
    BY <1>7, <1>0
       DEF Elapsed!StartFails, Elapsed!Return, Elapsed!GoTo, Elapsed!Stale, Elapsed!NoTimer,
           Elapsed!fields
  <2>4. \E m \in Elapsed!Generations \cup {0} : mine' = [mine EXCEPT ![a] = m] \/ mine' = mine
    BY <1>7, <1>0, <1>a, <2>1, <2>2
       DEF Elapsed!StartFails, Elapsed!Return, Elapsed!GoTo, Elapsed!Stale, Elapsed!NoTimer
  <2> QED BY <1>0, <1>a, <2>2, <2>3, <2>4 DEF Hands
<1>8. ASSUME NEW a \in Elapsed!Actors, Elapsed!Stop(a) PROVE Hands'
  <2>1. generation' = generation \/ generation' = generation + 1
    BY <1>8 DEF Elapsed!Stop, Elapsed!TakeTimer, Elapsed!GoTo, Elapsed!gate
  <2>2. generation' \in Nat BY <1>0, <2>1
  <2>3. timer' \in Elapsed!Generations \cup {0}
    BY <1>8, <1>0 DEF Elapsed!Stop, Elapsed!TakeTimer, Elapsed!GoTo, Elapsed!NoTimer, Elapsed!fields
  <2>4. \E m \in Elapsed!Generations \cup {0} : mine' = [mine EXCEPT ![a] = m] \/ mine' = mine
    BY <1>8, <1>0, <1>a, <2>1, <2>2
       DEF Elapsed!Stop, Elapsed!TakeTimer, Elapsed!GoTo, Elapsed!NoTimer
  <2> QED BY <1>0, <1>a, <2>2, <2>3, <2>4 DEF Hands
<1>9. ASSUME NEW a \in Elapsed!Actors, Elapsed!Drain(a) PROVE Hands'
  BY <1>9, <1>0 DEF Elapsed!Drain, Elapsed!TakeTimer
<1>10. ASSUME NEW a \in Elapsed!Actors, Elapsed!Release(a) PROVE Hands'
  BY <1>10, <1>0 DEF Elapsed!Release
<1>11. ASSUME NEW a \in Elapsed!Actors, Elapsed!Disable(a) PROVE Hands'
  BY <1>11, <1>0 DEF Elapsed!Disable
<1>12. ASSUME NEW a \in Pair, Elapsed!Destroy(a) PROVE Hands'
  <2>1. generation' = generation \/ generation' = generation + 1
    BY <1>12 DEF Elapsed!Destroy, Elapsed!Begin, Elapsed!MayCall, Elapsed!gate
  <2>2. generation' \in Nat BY <1>0, <2>1
  <2>3. timer' \in Elapsed!Generations \cup {0}
    BY <1>12, <1>0
       DEF Elapsed!Destroy, Elapsed!Begin, Elapsed!MayCall, Elapsed!NoTimer, Elapsed!fields
  <2>4. \E m \in Elapsed!Generations \cup {0} : mine' = [mine EXCEPT ![a] = m] \/ mine' = mine
    BY <1>12, <1>0, <1>a, <2>1, <2>2
       DEF Elapsed!Destroy, Elapsed!Begin, Elapsed!MayCall, Elapsed!NoTimer
  <2> QED BY <1>0, <1>a, <2>2, <2>3, <2>4 DEF Hands
<1>13. ASSUME NEW a \in Pair, Elapsed!WakeEarly(a) PROVE Hands' BY <1>13, <1>0 DEF Elapsed!WakeEarly
<1>14. ASSUME NEW g \in Elapsed!Generations, Elapsed!Fire(g) PROVE Hands'
  BY <1>14, <1>0 DEF Elapsed!Fire
<1>15. ASSUME NEW g \in Elapsed!Generations, Elapsed!EnterGate(g) PROVE Hands'
  BY <1>15, <1>0 DEF Elapsed!EnterGate
<1>16. ASSUME NEW g \in Elapsed!Generations, Elapsed!ReadAutoReset(g) PROVE Hands'
  BY <1>16, <1>0 DEF Elapsed!ReadAutoReset
<1>17. ASSUME NEW g \in Elapsed!Generations, Elapsed!LeaveGate(g) PROVE Hands'
  BY <1>17, <1>0 DEF Elapsed!LeaveGate
<1>18. ASSUME NEW g \in Elapsed!Generations, Elapsed!NotifyFinished(g) PROVE Hands'
  BY <1>18, <1>0 DEF Elapsed!NotifyFinished
<1>19. CASE UNCHANGED Elapsed!vars BY <1>19, <1>0 DEF Elapsed!vars
<1> QED
  BY <1>1, <1>2, <1>3, <1>4, <1>5, <1>6, <1>7, <1>8, <1>9, <1>10, <1>11, <1>12, <1>13, <1>14,
     <1>15, <1>16, <1>17, <1>18, <1>19 DEF Elapsed!Next, Elapsed!InCall, Elapsed!InCallback

\* A new timer satisfies the invariant.
LEMMA ElapsedInit == Elapsed!Init => ElapsedIInv
<1> SUFFICES ASSUME Elapsed!Init PROVE ElapsedIInv OBVIOUS
<1>0. /\ \A a \in Elapsed!Actors : ePc[a] = "idle" /\ op[a] = "none" /\ mine[a] = 0
      /\ \A g \in Elapsed!Generations : tick[g] = "idle" /\ ~alive[g]
      /\ timer = 0 /\ generation = 0 /\ calls = 0 /\ ~enabled /\ ~eOwner /\ ~destructionStarted
      /\ activeCallbacks = 0 /\ Elapsed!NoTimer = 0
  BY DEF Elapsed!Init, Elapsed!NoTimer
<1>1. Elapsed!Generations \subseteq Elapsed!Actors BY DEF Elapsed!Actors
<1>2. Elapsed!TypeOK
  <2>1. {enabled, autoReset, initializing, delayedEnable, eOwner, destructionStarted} \subseteq BOOLEAN
    BY DEF Elapsed!Init
  <2>2. {timer, generation} \subseteq Elapsed!Generations \cup {0} BY <1>0
  <2>3. mine \in [Elapsed!Actors -> Elapsed!Generations \cup {Elapsed!NoTimer}] BY DEF Elapsed!Init
  <2>4. alive \in [Elapsed!Generations -> BOOLEAN] BY DEF Elapsed!Init
  <2> QED BY <2>1, <2>2, <2>3, <2>4 DEF Elapsed!Init, Elapsed!TypeOK
<1>3. op \in [Elapsed!Actors -> Operations] BY DEF Elapsed!Init, Operations
<1>4. Allowed
  <2>1. TwoToCome = {} /\ OneToCome = {} BY <1>0 DEF TwoToCome, OneToCome
  <2>2. Cardinality(TwoToCome) = 0 /\ Cardinality(OneToCome) = 0 BY <2>1, FS_EmptySet
  <2> QED BY <1>0, <2>2, ElapsedConstants DEF Allowed
<1>5. \A g \in Elapsed!Generations : Handler(g) BY <1>0, <1>1 DEF Handler
<1>6. Destruction /\ Drained BY <1>0 DEF Destruction, Begun, Destroyer, OneDestroyer, Drained
<1>7. (\A a \in Elapsed!Actors : InHand(a)) /\ Owner BY <1>0 DEF InHand, Owner
<1>8. Elapsed!NoStrayWorker BY <1>0 DEF Elapsed!NoStrayWorker
<1>9. Elapsed!DrainIsWoken
  <2>1. \A t \in Pair : ePc[t] = "idle" BY <1>0 DEF Elapsed!Actors
  <2> QED BY <2>1 DEF Elapsed!DrainIsWoken
<1>10. activeCallbacks = Cardinality(Elapsed!Inside)
  <2>1. Elapsed!Inside = {} BY <1>0 DEF Elapsed!Inside
  <2> QED BY <1>0, <2>1, FS_EmptySet
<1>11. Runs BY <1>0 DEF Runs
<1> QED BY <1>2, <1>3, <1>4, <1>5, <1>6, <1>7, <1>8, <1>9, <1>10, <1>11 DEF ElapsedIInv

\* Every step keeps the invariant.
LEMMA ElapsedNext == ElapsedIInv /\ [Elapsed!Next]_Elapsed!vars => ElapsedIInv'
<1> SUFFICES ASSUME ElapsedIInv, [Elapsed!Next]_Elapsed!vars PROVE ElapsedIInv' OBVIOUS
<1>1. Elapsed!TypeOK' /\ (op \in [Elapsed!Actors -> Operations])'
  <2>1. Flags' BY FlagsNext
  <2>2. {enabled', autoReset', initializing', delayedEnable', eOwner', destructionStarted'} \subseteq BOOLEAN
    BY <2>1 DEF Flags
  <2>3. Workers' BY WorkersNext
  <2>4. Hands' BY HandsNext
  <2>5. (ePc \in [Elapsed!Actors -> Places] /\ op \in [Elapsed!Actors -> Operations])' BY PlacesNext
  <2> QED BY <2>2, <2>3, <2>4, <2>5 DEF Elapsed!TypeOK, Workers, Hands, Places, Elapsed!NoTimer
<1>2. Allowed' BY AllowedNext
<1>3. (\A g \in Elapsed!Generations : Handler(g))' BY HandlersNext
<1>4. Destruction' BY DestroyerNext, OneDestroyerNext, BegunNext DEF Destruction
<1>5. Drained' BY DrainedNext
<1>6. (\A a \in Elapsed!Actors : InHand(a))' BY InHandNext
<1>7. Owner' BY OwnerNext
<1>8. Elapsed!NoStrayWorker' BY StrayNext
<1>9. Elapsed!DrainIsWoken' BY WokenNext
<1>10. (activeCallbacks = Cardinality(Elapsed!Inside))' BY CountNext
<1>11. Runs' BY RunsNext
<1> QED BY <1>1, <1>2, <1>3, <1>4, <1>5, <1>6, <1>7, <1>8, <1>9, <1>10, <1>11 DEF ElapsedIInv

\* The inductive invariant says what the users of the timer rely on.
LEMMA ElapsedIInvSays == ElapsedIInv => Elapsed!ElapsedInv
<1> SUFFICES ASSUME ElapsedIInv PROVE Elapsed!ElapsedInv OBVIOUS
<1>0. /\ Pair \subseteq Elapsed!Actors /\ Elapsed!Generations \subseteq Elapsed!Actors
      /\ tick \in [Elapsed!Generations -> {"idle", "gate", "entered", "raise", "left"}]
      /\ timer \in Elapsed!Generations \cup {0}
  BY ElapsedTypes
<1>1. Elapsed!TypeOK /\ Elapsed!NoStrayWorker /\ Elapsed!DrainIsWoken BY DEF ElapsedIInv
<1>2. Elapsed!PublishedIsOwned BY DEF ElapsedIInv, Owner, Elapsed!PublishedIsOwned
<1>3. Elapsed!WithinLifetime
  <2>1. activeCallbacks = Cardinality(Elapsed!Inside) BY InsideFacts
  <2>2. ASSUME NEW t \in Pair, ePc[t] = "gone"
        PROVE  Elapsed!Inside = {} /\ ~eOwner /\ \A g \in Elapsed!Generations : ~alive[g]
    <3>1. op[t] = "Destroy" /\ destructionStarted /\ ~eOwner
      BY <1>0, <2>2 DEF ElapsedIInv, Destruction, Begun, Destroyer
    <3>2. /\ \A g \in Elapsed!Generations : tick[g] \notin {"entered", "raise"}
          /\ \A g \in Elapsed!Generations : ~alive[g]
      BY <1>0, <2>2, <3>1 DEF ElapsedIInv, Drained
    <3> QED BY <3>1, <3>2 DEF Elapsed!Inside
  <2> QED BY <2>1, <2>2, ElapsedCardinality DEF Elapsed!WithinLifetime
<1>4. Elapsed!EnabledMeansRunning
  <2> SUFFICES ASSUME enabled, Elapsed!AtRest PROVE eOwner /\ armed[timer] # "off"
    BY DEF Elapsed!EnabledMeansRunning
  <2>1. \A a \in Elapsed!Actors : ePc[a] = "idle" BY DEF Elapsed!AtRest
  <2>2. ~destructionStarted BY <2>1 DEF ElapsedIInv, Destruction, Begun, Destroyer
  <2>3. \A a \in Elapsed!Actors : ~Publisher(a) /\ ~Busy(a) /\ ~Arming(a)
    BY <2>1 DEF Publisher, Busy, Arming
  <2>4. Runs /\ Owner BY DEF ElapsedIInv
  <2>5. eOwner BY <2>2, <2>3, <2>4 DEF Runs
  <2>6. timer \in Elapsed!Generations BY <1>0, <2>4, <2>5 DEF Owner, Elapsed!NoTimer
  <2>7. tick[timer] = "idle" BY <2>6 DEF Elapsed!AtRest
  <2> QED BY <2>2, <2>3, <2>4, <2>5, <2>7 DEF Runs
<1> QED BY <1>1, <1>2, <1>3, <1>4 DEF Elapsed!ElapsedInv

\* However Start, Stop, Close, failures, handlers and the destructor of System.Timers.Timer
\* interleave: no worker is left that nobody owns, only the published one passes the gate, the
\* destructor ends after the last callback, and a timer at rest that is enabled runs.
THEOREM ElapsedIsCorrect == Elapsed!Spec => []ElapsedInv
<1>1. Elapsed!Spec => []ElapsedIInv BY ElapsedInit, ElapsedNext, PTL DEF Elapsed!Spec
<1> QED BY <1>1, ElapsedIInvSays, PTL DEF ElapsedInv
=============================================================================
