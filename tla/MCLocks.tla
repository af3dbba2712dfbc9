------------------------------ MODULE MCLocks ------------------------------
(***************************************************************************)
(* ReaderWriterLockSlim, ReaderWriterLock, Monitor and System.Timers.Timer *)
(* with its gate, checked side by side: a behaviour is one of the          *)
(* component that `part' names, the others keep the state they are         *)
(* constructed in.                                                         *)
(***************************************************************************)
EXTENDS MCReaderWriterLockSlim

CONSTANTS Pair,                            \* of ReaderWriterLock and ElapsedTimer
          ThreadIds, Watchers, MaxLevel, MaxWrites,   \* of ReaderWriterLock
          Kinds, MaxLevels,                \* of Monitor
          Calls, MaxCalls                  \* of ElapsedTimer

VARIABLES part,
          sharers, lHolder, writerThreadId_, writerLevel_, writerSeqNum_, level, lPc, after, cookie,
          seqNum, asWriter, written,
          kind, closed_, holder, levels, owner, depth, mPc, saved, entered,
          enabled, autoReset, initializing, delayedEnable, timer, eOwner, generation, activeCallbacks,
          destructionStarted, armed, alive, tick, ePc, op, mine, calls

legacy == <<sharers, lHolder, writerThreadId_, writerLevel_, writerSeqNum_, level, lPc, after, cookie,
            seqNum, asWriter, written>>
monitor == <<kind, closed_, holder, levels, owner, depth, mPc, saved, entered>>
elapsed == <<enabled, autoReset, initializing, delayedEnable, timer, eOwner, generation,
             activeCallbacks, destructionStarted, armed, alive, tick, ePc, op, mine, calls>>
all == <<part, vars, legacy, monitor, elapsed>>

Legacy == INSTANCE ReaderWriterLock WITH Threads <- Pair, holder <- lHolder, pc <- lPc
Owned == INSTANCE Monitor WITH MaxDepth <- MaxLevels, pc <- mPc
Elapsed == INSTANCE ElapsedTimer WITH Threads <- Pair, owner <- eOwner, pc <- ePc

\* Numbers for the threads of ReaderWriterLock: two of those a hash may give.
PairIds == [t \in Pair |-> IF t = t1 THEN 0 ELSE -2]

\* The nesting and the writes may be bounded at will, no thread is called "none", and
\* the threads that use the lock have numbers of their own.
LegacyAssumed ==
  MaxLevel \in Nat \ {0} /\ MaxWrites \in Nat /\ Legacy!None \notin Pair /\ Legacy!DistinctIds
ASSUME LegacyAssumption == LegacyAssumed

\* The levels may be bounded at will, and no thread is called "none".
MonitorAssumed == MaxLevels \in Nat /\ Owned!None \notin Threads
ASSUME MonitorAssumption == MonitorAssumed

\* Finitely many threads call a bounded number of times, and no thread is a worker.
ElapsedAssumed == MaxCalls \in Nat /\ IsFiniteSet(Pair) /\ Pair \cap Elapsed!Generations = {}
ASSUME ElapsedAssumption == ElapsedAssumed

AllInit ==
  /\ part \in {"slim", "legacy", "monitor", "elapsed"}
  /\ Init /\ Legacy!Init /\ Owned!Init /\ Elapsed!Init
  /\ part # "slim" => recursionPolicy = "NoRecursion"
  /\ part # "monitor" => kind = "Monitor"
  /\ part # "elapsed" => autoReset

OnSlim(step) == part = "slim" /\ step /\ UNCHANGED <<part, legacy, monitor, elapsed>>
OnLegacy(step) == part = "legacy" /\ step /\ UNCHANGED <<part, vars, monitor, elapsed>>
OnMonitor(step) == part = "monitor" /\ step /\ UNCHANGED <<part, vars, legacy, elapsed>>
OnElapsed(step) == part = "elapsed" /\ step /\ UNCHANGED <<part, vars, legacy, monitor>>

AllNext ==
  OnSlim(Next) \/ OnLegacy(Legacy!Next) \/ OnMonitor(Owned!Next) \/ OnElapsed(Elapsed!Next)

\* What ReaderWriterLockSlim asks of its threads in its own FairSpec.
AllSpec ==
  /\ AllInit /\ [][AllNext]_all
  /\ \A t \in Threads : WF_all(OnSlim(Inside(t))) /\ WF_all(OnSlim(Exit(t)))

\* The properties of the other components.
LegacyLockInv == Legacy!LegacyLockInv
MonitorInv == Owned!MonitorInv
ElapsedInv == Elapsed!ElapsedInv
=============================================================================
