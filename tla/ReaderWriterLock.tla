-------------------------- MODULE ReaderWriterLock --------------------------
(***************************************************************************)
(* ReaderWriterLock, the legacy lock: a shared_timed_mutex, the thread and *)
(* level of the writer, and a level of its own for every reading thread.   *)
(* A reader that upgrades lets go of its lock first; the cookie says what  *)
(* to take back.                                                           *)
(*                                                                         *)
(* Threads upgrade, and take back, what they do not hold as writers, as    *)
(* the contract of the cookies asks.  The lock knows the writer by a       *)
(* number: the hash of its thread::id, cut down to 32 bits.                *)
(***************************************************************************)
EXTENDS Integers, FiniteSets

CONSTANTS Threads,
          ThreadIds, \* ThreadIds[t]: the number that CurrentThreadId() has for t
          Watchers,  \* the threads that use the sequence number
          MaxLevel,  \* bound: nesting of a thread's acquisitions
          MaxWrites  \* bound: releases of the writer lock

None == "none"
NoWriter == -1

\* What the lock takes for granted: no two threads that use it have the same number,
\* and none has the one for "no writer".  The code does not see to it: a hash that is
\* cut down may collide.
DistinctIds ==
  /\ ThreadIds \in [Threads -> Int \ {NoWriter}]
  /\ \A t, u \in Threads : ThreadIds[t] = ThreadIds[u] => t = u

Nothing == [writer |-> 0, reader |-> 0]

VARIABLES sharers, holder,                       \* mtx_
          writerThreadId_, writerLevel_, writerSeqNum_,
          level,                                 \* level[t]: MyReaderLevel()
          pc, after,                             \* a blocked call, and what it is part of
          cookie,                                \* what ReleaseLock or Upgrade returned
          seqNum,                                \* what t read in getWriterSeqNumProperty, 0 if nothing
          asWriter,                              \* history: t was the writer when it did
          written                                \* history: threads other than t wrote since then

mtx == <<sharers, holder>>
writer == <<writerThreadId_, writerLevel_, writerSeqNum_>>
calls == <<pc, after, cookie>>
watch == <<seqNum, asWriter, written>>
vars == <<mtx, writer, level, calls, watch>>

Init ==
  /\ sharers = {} /\ holder = None
  /\ writerThreadId_ = NoWriter /\ writerLevel_ = 0 /\ writerSeqNum_ = 1
  /\ level = [t \in Threads |-> 0]
  /\ pc = [t \in Threads |-> "idle"]
  /\ after = [t \in Threads |-> "return"]
  /\ cookie = [t \in Threads |-> Nothing]
  /\ seqNum = [t \in Threads |-> 0]
  /\ asWriter = [t \in Threads |-> FALSE]
  /\ written = [t \in Threads |-> FALSE]

CurrentThreadId(t) == ThreadIds[t]

Writes(t) == writerThreadId_ = CurrentThreadId(t)
Reads(t) == level[t] > 0

Block(t, place, what) ==
  /\ pc' = [pc EXCEPT ![t] = place]
  /\ after' = [after EXCEPT ![t] = what]

Return(t) ==
  /\ pc' = [pc EXCEPT ![t] = "idle"]
  /\ after' = [after EXCEPT ![t] = "return"]
-----------------------------------------------------------------------------
(* AcquireReaderLock and AcquireWriterLock. *)

\* A writer that asks for a reader lock nests as a writer.
AcquireReaderLock(t) ==
  /\ pc[t] = "idle" /\ level[t] < MaxLevel
  /\ IF Reads(t)
       THEN level' = [level EXCEPT ![t] = @ + 1] /\ UNCHANGED <<writerLevel_, pc, after>>
       ELSE /\ UNCHANGED level
            /\ IF Writes(t)
                 THEN /\ writerLevel_ < MaxLevel
                      /\ writerLevel_' = writerLevel_ + 1 /\ UNCHANGED <<pc, after>>
                 ELSE Block(t, "shared", "return") /\ UNCHANGED writerLevel_
  /\ UNCHANGED <<mtx, writerThreadId_, writerSeqNum_, cookie, watch>>

\* A reader that does not upgrade waits for itself here, until its timeout.
AcquireWriterLock(t) ==
  /\ pc[t] = "idle"
  /\ IF Writes(t)
       THEN /\ writerLevel_ < MaxLevel
            /\ writerLevel_' = writerLevel_ + 1 /\ UNCHANGED <<pc, after>>
       ELSE Block(t, "exclusive", "return") /\ UNCHANGED writerLevel_
  /\ UNCHANGED <<mtx, writerThreadId_, writerSeqNum_, level, cookie, watch>>

\* lock_shared returns; the level is one, or that of the cookie.
LockShared(t) ==
  /\ pc[t] = "shared" /\ holder = None
  /\ sharers' = sharers \cup {t}
  /\ level' = [level EXCEPT ![t] = IF after[t] = "restore" THEN cookie[t].reader ELSE 1]
  /\ cookie' = IF after[t] = "restore" THEN [cookie EXCEPT ![t] = Nothing] ELSE cookie
  /\ Return(t)
  /\ UNCHANGED <<holder, writer, watch>>

LockExclusive(t) ==
  /\ pc[t] = "exclusive" /\ holder = None /\ sharers = {}
  /\ writerSeqNum_ <= MaxWrites
  /\ holder' = t
  /\ writerThreadId_' = CurrentThreadId(t)
  /\ writerLevel_' = IF after[t] = "restore" THEN cookie[t].writer ELSE 1
  /\ cookie' = IF after[t] = "restore" THEN [cookie EXCEPT ![t] = Nothing] ELSE cookie
  /\ written' = [u \in Threads |-> written[u] \/ (u # t /\ seqNum[u] > 0)]
  /\ Return(t)
  /\ UNCHANGED <<sharers, writerSeqNum_, level, seqNum, asWriter>>

\* The timeout of Acquire or Upgrade passes: an exception.  What an upgrade has let go
\* of is not taken back, and its cookie is lost.
TimeOut(t) ==
  /\ \/ pc[t] = "shared" /\ holder # None
     \/ pc[t] = "exclusive" /\ (holder # None \/ sharers # {})
  /\ after[t] # "restore"
  /\ cookie' = IF after[t] = "upgrade" THEN [cookie EXCEPT ![t] = Nothing] ELSE cookie
  /\ Return(t)
  /\ UNCHANGED <<mtx, writer, level, watch>>
-----------------------------------------------------------------------------
(* Release. *)

ReleaseReaderLock(t) ==
  /\ pc[t] = "idle" /\ Reads(t)
  /\ level' = [level EXCEPT ![t] = @ - 1]
  /\ sharers' = IF level[t] = 1 THEN sharers \ {t} ELSE sharers
  /\ UNCHANGED <<holder, writer, calls, watch>>

\* MUTANT: the number is not moved on.
NextSeqNumSame == writerSeqNum_

NextSeqNum == writerSeqNum_ + 1

\* The last level: the thread is no longer the writer.
LetGo ==
  /\ holder' = None
  /\ writerThreadId_' = NoWriter
  /\ writerLevel_' = 0
  /\ writerSeqNum_' = NextSeqNum

ReleaseWriterLock(t) ==
  /\ pc[t] = "idle" /\ Writes(t)
  /\ IF writerLevel_ = 1
       THEN LetGo
       ELSE writerLevel_' = writerLevel_ - 1 /\ UNCHANGED <<holder, writerThreadId_, writerSeqNum_>>
  /\ UNCHANGED <<sharers, level, calls, watch>>
-----------------------------------------------------------------------------
(* The operations with cookies. *)

HasCookie(t) == cookie[t] # Nothing

ReleaseLock(t) ==
  /\ pc[t] = "idle" /\ ~HasCookie(t) /\ (Writes(t) \/ Reads(t))
  /\ cookie' = [cookie EXCEPT ![t] = IF Writes(t) THEN [writer |-> writerLevel_, reader |-> 0]
                                                   ELSE [writer |-> 0, reader |-> level[t]]]
  /\ IF Writes(t)
       THEN LetGo /\ UNCHANGED <<sharers, level>>
       ELSE /\ sharers' = sharers \ {t}
            /\ level' = [level EXCEPT ![t] = 0]
            /\ UNCHANGED <<holder, writer>>
  /\ UNCHANGED <<pc, after, watch>>

RestoreLock(t) ==
  /\ pc[t] = "idle" /\ HasCookie(t) /\ ~Writes(t) /\ ~Reads(t)
  /\ Block(t, IF cookie[t].writer > 0 THEN "exclusive" ELSE "shared", "restore")
  /\ UNCHANGED <<mtx, writer, level, cookie, watch>>

UpgradeToWriterLock(t) ==
  /\ pc[t] = "idle" /\ ~HasCookie(t) /\ ~Writes(t)
  /\ cookie' = [cookie EXCEPT ![t] = [writer |-> 0, reader |-> level[t]]]
  /\ level' = [level EXCEPT ![t] = 0]
  /\ sharers' = sharers \ {t}
  /\ Block(t, "exclusive", "upgrade")
  /\ UNCHANGED <<holder, writer, watch>>

\* The writer lock goes, whatever its level; the reader lock is asked for anew.
DowngradeFromWriterLock(t) ==
  /\ pc[t] = "idle" /\ Writes(t) /\ cookie[t].writer = 0
  /\ LetGo
  /\ IF cookie[t].reader > 0 THEN Block(t, "shared", "restore") ELSE UNCHANGED <<pc, after>>
  /\ UNCHANGED <<sharers, level, cookie, watch>>

\* A thread in the lock reads the number to find out later whether others wrote.  (The
\* number is a plain int that writers move on under mtx_, so it is not for a thread
\* outside the lock to read.)
ReadSeqNum(t) ==
  /\ t \in Watchers
  /\ pc[t] = "idle" /\ (Reads(t) \/ Writes(t))
  /\ seqNum' = [seqNum EXCEPT ![t] = writerSeqNum_]
  /\ asWriter' = [asWriter EXCEPT ![t] = Writes(t)]
  /\ written' = [written EXCEPT ![t] = FALSE]
  /\ UNCHANGED <<mtx, writer, level, calls>>

\* What AnyWritersSince answers to t about the number it has read.
AnyWritersSince(t) == writerSeqNum_ > (IF Writes(t) THEN seqNum[t] + 1 ELSE seqNum[t])
-----------------------------------------------------------------------------
Next ==
  \E t \in Threads :
    \/ AcquireReaderLock(t) \/ AcquireWriterLock(t) \/ LockShared(t) \/ LockExclusive(t) \/ TimeOut(t)
    \/ ReleaseReaderLock(t) \/ ReleaseWriterLock(t) \/ ReleaseLock(t) \/ RestoreLock(t)
    \/ UpgradeToWriterLock(t) \/ DowngradeFromWriterLock(t) \/ ReadSeqNum(t)

Spec == Init /\ [][Next]_vars
-----------------------------------------------------------------------------
(* Properties. *)

\* The type invariant.
TypeOK ==
  /\ sharers \subseteq Threads /\ holder \in Threads \cup {None}
  /\ writerThreadId_ \in Int
  /\ writerLevel_ \in 0..MaxLevel /\ writerSeqNum_ \in 1..(MaxWrites + 1)
  /\ level \in [Threads -> 0..MaxLevel]
  /\ pc \in [Threads -> {"idle", "shared", "exclusive"}]
  /\ after \in [Threads -> {"return", "upgrade", "restore"}]
  /\ cookie \in [Threads -> [writer : 0..MaxLevel, reader : 0..MaxLevel]]
  /\ seqNum \in [Threads -> 0..(MaxWrites + 1)]
  /\ asWriter \in [Threads -> BOOLEAN] /\ written \in [Threads -> BOOLEAN]

\* One writer or many readers, and the levels say who they are, through nesting,
\* upgrades, hand-offs and timeouts.
LevelsTellHolders ==
  /\ holder # None => sharers = {}
  /\ \A t \in Threads : (t \in sharers <=> Reads(t)) /\ (holder = t <=> Writes(t))
  /\ holder # None <=> writerLevel_ > 0

\* "Returns true if any thread has acquired the writer lock since @p seqNum was
\* captured": a thread in the lock that is told that nobody else wrote can rely on it,
\* if it reads, or if it captured the number as the writer.  A thread that captured it
\* as a reader and has become the writer since is not told of the others if exactly one
\* wrote in between, while it waited for its upgrade: AnyWritersSince takes that write
\* for its own.
WritersAreHeardOf ==
  \A t \in Threads :
    pc[t] = "idle" /\ (Reads(t) \/ Writes(t)) /\ written[t] =>
      \/ AnyWritersSince(t)
      \/ Writes(t) /\ ~asWriter[t] /\ writerSeqNum_ = seqNum[t] + 1

\* The lock and what it tells those in it are right.
LegacyLockInv == TypeOK /\ LevelsTellHolders /\ WritersAreHeardOf
=============================================================================
