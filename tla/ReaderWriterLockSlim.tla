------------------------ MODULE ReaderWriterLockSlim ------------------------
(***************************************************************************)
(* System.Threading.ReaderWriterLockSlim: a hand-made monitor (stateMtx_,  *)
(* cv_) over shared counters and flags, plus per-thread recursion counts   *)
(* that only their own thread touches.                                     *)
(*                                                                         *)
(* A critical section is one step.  An Exit* call updates the state with   *)
(* the mutex held and calls notify_all after it has released the mutex;    *)
(* that is a second step.  A call that throws leaves the state alone and   *)
(* is not a step.  A wait with a finite timeout may give up at any moment  *)
(* at which its predicate is false.                                        *)
(***************************************************************************)
EXTENDS Integers, FiniteSets

CONSTANTS Threads,
          Modes,            \* Modes[t]: the modes thread t may ask for
          Policies,         \* LockRecursionPolicy values to construct locks with
          MaxDepth,         \* bound: recursion depth a thread goes to
          Timeouts,         \* {FALSE}: infinite waits only; {TRUE, FALSE}: also timed ones
          ReadReleasedFirst,\* callers release a nested read before its outer mode
          Disposers         \* threads that may call Dispose

AllModes    == {"read", "write", "upgrade"}
AllPolicies == {"NoRecursion", "SupportsRecursion"}

ASSUME LockAssumption ==
  /\ IsFiniteSet(Threads)
  /\ Modes \in [Threads -> SUBSET AllModes]
  /\ Policies \subseteq AllPolicies
  /\ MaxDepth \in Nat \ {0}
  /\ Timeouts \subseteq BOOLEAN
  /\ ReadReleasedFirst \in BOOLEAN
  /\ Disposers \subseteq Threads

VARIABLES counts,             \* threadCounts()[id_] of every thread
          readers, writerActive, upgradeableActive,
          waiting,            \* waitingReaders_, waitingWriters_, waitingUpgraders_
          disposed, recursionPolicy,
          pc,                 \* where each thread stands
          want,               \* the mode it is asking for
          timed               \* whether it gave a finite timeout

lockState == <<readers, writerActive, upgradeableActive>>
vars == <<counts, lockState, waiting, disposed, recursionPolicy, pc, want, timed>>

ThreadCounts == [reader : Nat, writer : Nat, upgrade : Nat, readerCountsTowardGlobal : BOOLEAN]

NoCounts == [reader |-> 0, writer |-> 0, upgrade |-> 0, readerCountsTowardGlobal |-> FALSE]

Init ==
  /\ counts = [t \in Threads |-> NoCounts]
  /\ readers = 0
  /\ writerActive = FALSE
  /\ upgradeableActive = FALSE
  /\ waiting = [m \in AllModes |-> 0]
  /\ disposed = FALSE
  /\ recursionPolicy \in Policies
  /\ pc = [t \in Threads |-> "idle"]
  /\ want = [t \in Threads |-> "read"]
  /\ timed = [t \in Threads |-> FALSE]

isReentrant == recursionPolicy = "SupportsRecursion"

\* cv_.notify_all()
NotifyAll(f) == [t \in Threads |-> IF f[t] = "parked" THEN "notified" ELSE f[t]]
-----------------------------------------------------------------------------
(* Calls that only touch the caller's own counts. *)

\* Same-mode recursion, allowed under SupportsRecursion.
Recurse(t, m) ==
  /\ isReentrant
  /\ \/ m = "read"    /\ counts[t].reader \in 1..(MaxDepth - 1)
        /\ counts' = [counts EXCEPT ![t].reader = @ + 1]
     \/ m = "write"   /\ counts[t].writer \in 1..(MaxDepth - 1)
        /\ counts' = [counts EXCEPT ![t].writer = @ + 1]
     \/ m = "upgrade" /\ counts[t].upgrade \in 1..(MaxDepth - 1)
        /\ counts' = [counts EXCEPT ![t].upgrade = @ + 1]
  /\ UNCHANGED lockState

\* A read implied by the write or upgradeable mode the thread holds.
NestedRead(t, m) ==
  /\ m = "read"
  /\ counts[t].reader = 0
  /\ counts[t].writer > 0 => isReentrant
  /\ counts[t].writer > 0 \/ counts[t].upgrade > 0
  /\ counts' = [counts EXCEPT ![t].reader = 1, ![t].readerCountsTowardGlobal = FALSE]
  /\ UNCHANGED lockState

\* The upgradeable mode taken on top of a write lock: granted at once.
NestedUpgrade(t, m) ==
  /\ m = "upgrade"
  /\ isReentrant
  /\ counts[t].upgrade = 0
  /\ counts[t].writer > 0
  /\ upgradeableActive' = TRUE
  /\ counts' = [counts EXCEPT ![t].upgrade = 1]
  /\ UNCHANGED <<readers, writerActive>>

EnterWithoutWaiting(t, m) ==
  /\ pc[t] = "idle" /\ m \in Modes[t]
  /\ ~disposed
  /\ Recurse(t, m) \/ NestedRead(t, m) \/ NestedUpgrade(t, m)
  /\ UNCHANGED <<waiting, disposed, recursionPolicy, pc, want, timed>>
-----------------------------------------------------------------------------
(* Calls that may wait. *)

\* The recursion checks that are passed on the way to the wait.
MayWaitFor(t, m) ==
  CASE m = "read"    -> counts[t] = NoCounts
    [] m = "write"   -> counts[t].writer = 0 /\ (counts[t].upgrade > 0 \/ counts[t].reader = 0)
    [] m = "upgrade" -> counts[t] = NoCounts

\* TryEnter* passes throwIfDisposed and the recursion checks.
StartEnter(t, m, timeout) ==
  /\ pc[t] = "idle" /\ m \in Modes[t]
  /\ ~disposed
  /\ MayWaitFor(t, m)
  /\ pc' = [pc EXCEPT ![t] = "entering"]
  /\ want' = [want EXCEPT ![t] = m]
  /\ timed' = [timed EXCEPT ![t] = timeout]
  /\ UNCHANGED <<counts, lockState, waiting, disposed, recursionPolicy>>

\* MUTANT: readers pass a waiting writer, as before ticket #1957.
ReadAdmittedPastWriters == ~writerActive

ReadAdmitted == ~writerActive /\ waiting["write"] = 0

WriteAdmitted(upgrading) ==
  IF upgrading THEN readers = 0 ELSE ~writerActive /\ readers = 0 /\ ~upgradeableActive

UpgradeAdmitted == ~writerActive /\ ~upgradeableActive

\* The predicate thread t waits for.
Admitted(t) ==
  CASE want[t] = "read"    -> ReadAdmitted
    [] want[t] = "write"   -> WriteAdmitted(counts[t].upgrade > 0)
    [] want[t] = "upgrade" -> UpgradeAdmitted

\* What an admitted thread does before it leaves the critical section.
Acquire(t) ==
  CASE want[t] = "read" ->
         /\ readers' = readers + 1
         /\ counts' = [counts EXCEPT ![t].reader = 1, ![t].readerCountsTowardGlobal = TRUE]
         /\ UNCHANGED <<writerActive, upgradeableActive>>
    [] want[t] = "write" ->
         /\ writerActive' = TRUE
         /\ counts' = [counts EXCEPT ![t].writer = @ + 1]
         /\ UNCHANGED <<readers, upgradeableActive>>
    [] want[t] = "upgrade" ->
         /\ upgradeableActive' = TRUE
         /\ counts' = [counts EXCEPT ![t].upgrade = @ + 1]
         /\ UNCHANGED <<readers, writerActive>>

\* ~WaiterCountGuard: the last waiting writer wakes the readers it held back,
\* whether it got the lock or timed out.
LeaveQueue(t, f, left) == IF want[t] = "write" /\ left = 0 THEN NotifyAll(f) ELSE f

\* The critical section, from the first lock of stateMtx_ to a return or a park.
Enter(t) ==
  /\ pc[t] = "entering"
  /\ \/ /\ Admitted(t)
        /\ Acquire(t)
        /\ pc' = LeaveQueue(t, [pc EXCEPT ![t] = "idle"], waiting[want[t]])
        /\ UNCHANGED waiting
     \/ /\ ~Admitted(t)
        /\ waiting' = [waiting EXCEPT ![want[t]] = @ + 1]
        /\ pc' = [pc EXCEPT ![t] = "parked"]
        /\ UNCHANGED <<counts, lockState>>
  /\ UNCHANGED <<disposed, recursionPolicy, want, timed>>

\* A notified thread re-evaluates its predicate.
Resume(t) ==
  /\ pc[t] = "notified"
  /\ \/ /\ Admitted(t)
        /\ Acquire(t)
        /\ waiting' = [waiting EXCEPT ![want[t]] = @ - 1]
        /\ pc' = LeaveQueue(t, [pc EXCEPT ![t] = "idle"], waiting[want[t]] - 1)
     \/ /\ ~Admitted(t)
        /\ pc' = [pc EXCEPT ![t] = "parked"]
        /\ UNCHANGED <<counts, lockState, waiting>>
  /\ UNCHANGED <<disposed, recursionPolicy, want, timed>>

\* A deadline or a spurious wakeup lets a thread look at its predicate before it
\* is notified.  If the predicate is false it parks again, or times out.
WakeEarly(t) ==
  /\ pc[t] = "parked"
  /\ Admitted(t)
  /\ pc' = [pc EXCEPT ![t] = "notified"]
  /\ UNCHANGED <<counts, lockState, waiting, disposed, recursionPolicy, want, timed>>

\* MUTANT: no guard, a timed-out waiter stays counted.
TimeOutStaysCounted(t) ==
  /\ pc[t] \in {"parked", "notified"}
  /\ timed[t]
  /\ ~Admitted(t)
  /\ pc' = LeaveQueue(t, [pc EXCEPT ![t] = "idle"], waiting[want[t]] - 1)
  /\ UNCHANGED <<counts, lockState, waiting, disposed, recursionPolicy, want, timed>>

\* wait_for returns the value of its predicate when the time is up.
TimeOut(t) ==
  /\ pc[t] \in {"parked", "notified"}
  /\ timed[t]
  /\ ~Admitted(t)
  /\ waiting' = [waiting EXCEPT ![want[t]] = @ - 1]
  /\ pc' = LeaveQueue(t, [pc EXCEPT ![t] = "idle"], waiting[want[t]] - 1)
  /\ UNCHANGED <<counts, lockState, disposed, recursionPolicy, want, timed>>
-----------------------------------------------------------------------------
(* Releasing. *)

ExitReadLock(t) ==
  /\ pc[t] = "idle"
  /\ counts[t].reader > 0
  /\ IF counts[t].reader = 1 /\ counts[t].readerCountsTowardGlobal
       THEN /\ readers' = readers - 1
            /\ counts' = [counts EXCEPT ![t].reader = 0, ![t].readerCountsTowardGlobal = FALSE]
            /\ pc' = [pc EXCEPT ![t] = "mustNotify"]
       ELSE /\ counts' = [counts EXCEPT ![t].reader = @ - 1]
            /\ UNCHANGED <<readers, pc>>
  /\ UNCHANGED <<writerActive, upgradeableActive, waiting, disposed, recursionPolicy, want, timed>>

\* A disciplined caller does not give up a mode under which it still reads.
MayRelease(t, remaining) ==
  ReadReleasedFirst /\ counts[t].reader > 0 => remaining > 0

ExitWriteLock(t) ==
  /\ pc[t] = "idle"
  /\ counts[t].writer > 0
  /\ MayRelease(t, counts[t].writer - 1 + counts[t].upgrade)
  /\ counts' = [counts EXCEPT ![t].writer = @ - 1]
  /\ IF counts[t].writer = 1
       THEN /\ writerActive' = FALSE
            /\ pc' = [pc EXCEPT ![t] = "mustNotify"]
       ELSE UNCHANGED <<writerActive, pc>>
  /\ UNCHANGED <<readers, upgradeableActive, waiting, disposed, recursionPolicy, want, timed>>

ExitUpgradeableReadLock(t) ==
  /\ pc[t] = "idle"
  /\ counts[t].upgrade > 0
  /\ MayRelease(t, counts[t].upgrade - 1 + counts[t].writer)
  /\ counts' = [counts EXCEPT ![t].upgrade = @ - 1]
  /\ IF counts[t].upgrade = 1
       THEN /\ upgradeableActive' = FALSE
            /\ pc' = [pc EXCEPT ![t] = "mustNotify"]
       ELSE UNCHANGED <<upgradeableActive, pc>>
  /\ UNCHANGED <<readers, writerActive, waiting, disposed, recursionPolicy, want, timed>>

\* The notify_all that ends an Exit* call.
ExitNotifies(t) ==
  /\ pc[t] = "mustNotify"
  /\ pc' = NotifyAll([pc EXCEPT ![t] = "idle"])
  /\ UNCHANGED <<counts, lockState, waiting, disposed, recursionPolicy, want, timed>>

\* Dispose checks the waiters under the mutex, lets it go, and goes on ...
StartDispose(t) ==
  /\ pc[t] = "idle" /\ ~disposed
  /\ \A m \in AllModes : waiting[m] = 0
  /\ pc' = [pc EXCEPT ![t] = "disposing"]
  /\ UNCHANGED <<counts, lockState, waiting, disposed, recursionPolicy, want, timed>>

\* ... to check its own modes and to set the flag.
FinishDispose(t) ==
  /\ pc[t] = "disposing"
  /\ disposed' = (disposed \/ counts[t] = NoCounts)
  /\ pc' = [pc EXCEPT ![t] = "idle"]
  /\ UNCHANGED <<counts, lockState, waiting, recursionPolicy, want, timed>>
-----------------------------------------------------------------------------
Exit(t) == ExitReadLock(t) \/ ExitWriteLock(t) \/ ExitUpgradeableReadLock(t)

Inside(t) == Enter(t) \/ Resume(t) \/ ExitNotifies(t) \/ FinishDispose(t)

Next ==
  \/ \E t \in Threads :
       \/ \E m \in AllModes :
            EnterWithoutWaiting(t, m) \/ \E b \in Timeouts : StartEnter(t, m, b)
       \/ Inside(t) \/ WakeEarly(t) \/ TimeOut(t) \/ Exit(t)
  \/ \E t \in Disposers : StartDispose(t)

Spec == Init /\ [][Next]_vars

\* Threads inside a call keep running, and whoever holds a mode and is not
\* inside a call releases it some day.  Nothing obliges a thread to ask.
FairSpec == Spec /\ \A t \in Threads : WF_vars(Inside(t)) /\ WF_vars(Exit(t))
-----------------------------------------------------------------------------
(* Properties. *)

\* The type invariant.
TypeOK ==
  /\ counts \in [Threads -> ThreadCounts]
  /\ readers \in Nat
  /\ writerActive \in BOOLEAN
  /\ upgradeableActive \in BOOLEAN
  /\ waiting \in [AllModes -> Nat]
  /\ disposed \in BOOLEAN
  /\ recursionPolicy \in Policies
  /\ pc \in [Threads -> {"idle", "entering", "parked", "notified", "mustNotify", "disposing"}]
  /\ want \in [Threads -> AllModes]
  /\ timed \in [Threads -> BOOLEAN]

\* "allows multiple simultaneous readers or one exclusive writer": while one
\* thread holds the write mode no other thread holds any mode, whatever
\* recursion, upgrades, timeouts and disposal came before.
Exclusion ==
  \A t \in Threads : counts[t].writer > 0 =>
    \A u \in Threads \ {t} : counts[u].writer = 0 /\ counts[u].reader = 0 /\ counts[u].upgrade = 0

\* At most one thread holds the upgradeable mode.
OneUpgrader ==
  \A t, u \in Threads : counts[t].upgrade > 0 /\ counts[u].upgrade > 0 => t = u

Counted == {t \in Threads : counts[t].readerCountsTowardGlobal}

\* The shared counters say what the per-thread counts say, at every moment
\* another thread can look.
CountsAgree ==
  /\ readers = Cardinality(Counted)
  /\ writerActive <=> \E t \in Threads : counts[t].writer > 0
  /\ upgradeableActive <=> \E t \in Threads : counts[t].upgrade > 0

Waiters(m) == {t \in Threads : pc[t] \in {"parked", "notified"} /\ want[t] = m}

\* Every way out of a wait (acquired or timed out) gives its place in the
\* waiter counts back, so that readers are held back by real writers only.
WaitersExact == \A m \in AllModes : waiting[m] = Cardinality(Waiters(m))

\* A sleeping thread whose predicate holds is about to be notified.
NoLostWakeup ==
  \A t \in Threads :
    pc[t] = "parked" /\ Admitted(t) => \E u \in Threads : pc[u] = "mustNotify"

\* The lock excludes and its bookkeeping is exact, for every recursion policy and
\* after every timeout; and nobody sleeps on a lock that would admit it.
LockInv == TypeOK /\ Exclusion /\ OneUpgrader /\ CountsAgree /\ WaitersExact /\ NoLostWakeup

\* Threads other than t that hold or ask for more than a read.
Rivals(t) ==
  {u \in Threads \ {t} :
     counts[u].writer + counts[u].upgrade > 0 \/ (pc[u] # "idle" /\ want[u] # "read")}

\* A writer that waits without a timeout is not starved by readers that keep
\* arriving (ticket #1957): it acquires the lock, unless it has to compete with
\* other writers and upgraders, among whom the lock promises no order.  (With
\* SupportsRecursion a reader may enter again for ever.)
WriterNotStarved ==
  \A t \in Threads :
    ~isReentrant /\ ~timed[t] /\ want[t] = "write" /\ pc[t] \in {"entering", "parked", "notified"}
      ~> counts[t].writer > 0 \/ Rivals(t) # {}

\* A reader held back by a waiting writer is let in when that writer has had
\* its turn or has given up.
ReaderNotStranded ==
  \A t \in Threads :
    pc[t] \in {"parked", "notified"} /\ want[t] = "read" /\ ~timed[t] /\ ReadAdmitted
      ~> pc[t] = "idle" \/ ~ReadAdmitted

\* Waiting writers do not starve, and they do not strand the readers behind them.
NobodyStarves == WriterNotStarved /\ ReaderNotStranded
=============================================================================
