# TLA+ verification of SharpRuntime

SharpRuntime re-implements a large part of the .NET class library in C++. Most of it is
sequential (values, parsers, collections) and well served by unit tests. What unit tests hardly
reach is the part that threads share: the synchronisation primitives and timers of
`System.Threading` and `System.Timers`, the tasks of `System.Threading.Tasks`, the channels of
`System.Threading.Channels`, `BlockingCollection`, and `ClientWebSocket`, whose operations, token
callbacks, heartbeat and destructor run on threads of their own. They are written by hand over
`std::mutex`, `std::condition_variable`, `std::atomic` and `std::async`, and whether they are right
depends on the order in which threads take steps. This project models them in TLA+, checks small
instances with TLC, and proves every safety invariant that TLC checks, with TLAPS, for every
instance.

## 1. Inventory

### 1.1 The system

The library is split into modules under `src/modules/`. Those with state that several threads
share:

| Part | State | Operations | What is hard |
|---|---|---|---|
| FIFO channel (`threading-channels`) | deque, closed flag and error, capacity, full mode, count of waiting readers, two condition variables | ReadAsync, TryRead, WaitToReadAsync, WriteAsync, TryWrite, WaitToWriteAsync, TryComplete, Completion | three kinds of sleepers on two condition variables; drop modes; capacity 0 (rendezvous); closing |
| `BlockingCollection` | items, capacity, completed and disposed flags, two condition variables | Add, TryAdd, Take, TryTake, CompleteAdding, Dispose, *ToAny | single notifications, timeouts, a token that notifies without the mutex |
| Tasks (`threading-tasks`) | completion flags, exception, result, callbacks; the promise and flags of a completion source | constructors, Wait, Result, ContinueWith, WhenAll, WhenAny, Unwrap, TrySetX | flags stored without the mutex; callbacks run on whatever thread completes or registers; several producers |
| `ClientWebSocket` (`net-websockets`) | state, socket, operations in flight, keep-alive record | Connect, Send, Receive, CloseOutput, Close, Abort, Dispose, the heartbeat, the destructor | cancellation aborts from another thread, closing handshake in both directions, the lifetime of worker threads |
| `ReaderWriterLockSlim` | reader count, writer and upgrader flags, waiter counts, per-thread recursion counts, disposed flag | Enter/TryEnter/Exit for three modes, Dispose | writer preference, upgrade, nesting, timeouts of a thread that holds others back |
| `ReaderWriterLock` | shared mutex, writer and its level, levels per reader, sequence number | Acquire, Release, ReleaseLock, RestoreLock, upgrade, downgrade | the lock is let go in the middle of an operation |
| `Monitor`, `Lock`, `Mutex` | recursive mutex, owner and depth beside it | Enter, TryEnter, Exit, Wait, Pulse, WaitOne, ReleaseMutex, Dispose | bookkeeping read without the mutex; Wait gives up several levels |
| `EventWaitHandle`, `WaitHandle` | set flag, mode, closed flag | Set, Reset, WaitOne, WaitAll, WaitAny, Close | auto-reset, notification outside the mutex, waits on several handles |
| `ManualResetEventSlim` | atomic flag | Set, Reset, Wait, Dispose | a flag that changes without the mutex of the sleepers |
| `SemaphoreSlim`, `Semaphore` | count, maximum | Wait, Release, Dispose | overflow at Int32.MaxValue, several permits at a time |
| `CountdownEvent` | initial and current count | Signal, AddCount, Reset, Wait, Dispose | overflow, races at zero, Reset that notifies late |
| `Barrier` | participants, remaining, phase, last exception | SignalAndWait, AddParticipant, RemoveParticipant, Dispose | participants coming and going, or taken off by others, an action that throws, late risers |
| Cancellation | flag, callback map, callback being executed | Register, Cancel, Dispose of a registration | callbacks run without the mutex, Dispose against a callback under way |
| `Threading.Timer` | due time, period, generation, running flag | Change, Dispose, the worker thread | Change while the callback runs, Dispose against the worker's sleep |
| `Timers.Timer` | enabled flag, worker, generation, callbacks inside | Start, Stop, Close, AutoReset, Interval, BeginInit, EndInit, the destructor | handlers that use the timer, a Start overtaken by a Close, the destructor against callbacks |
| `PeriodicTimer` | next tick, active wait, disposed flag | WaitForNextTick, Dispose | a second consumer, Dispose against a sleeping one |
| `RegisteredWaitHandle` | unregistered flag, the worker | Unregister, the worker | Unregister between signal and callback, from the callback |

They interact through calls and callbacks: `BlockingCollection`, tasks and `ClientWebSocket`
register callbacks on a cancellation token; `ClientWebSocket` runs its operations as tasks;
`Timers.Timer` owns a `Threading.Timer`; a registered wait waits for an event handle;
`WaitHandle.WaitAll` and `WaitAny` drive the waits of several. Everything else meets only in the
threads of the application, which are the processes of the models. The web socket is the one part
with a fault model: its peer may be silent, send anything, close or drop. No part keeps state
across a process crash.

PROJECT.json lists every part, the ones that are left out too, and under `hazards` the places
where each part is exposed, with the properties that watch over them.

### 1.2 What makes each part correct

* Nobody sleeps through a reason to wake up, whoever notifies whom and when: `NoLostWakeup` (a part
  of several invariants), `NothingForgotten`, `SleeperReleased`, and the liveness properties.
* What is shared stays consistent with what each thread believes: `WaitingReadersExact`,
  `LockInv`, `LegacyLockInv`, `MonitorInv`, `BarrierInv`, `SemaphoreInv`, `CountdownInv`.
* Exclusion and bounds: `Exclusion`, `CapacityRespected`, `PeriodicInv`.
* Nothing is lost, doubled or overtaken, and what a caller is told is true: `ImplementsContract`
  (of channels and of tasks), `ReportsAreTrue`, `CollectionInv`, `EventInv`, `SourceInv`,
  `TaskInv`, `TimerInv`, `CloseIsMutual`, `PongAnswersPing`.
* Nothing runs past its lifetime: `ElapsedInv`, `RegisteredInv`, `SocketInv`.
* Closing, cancelling and disposing end what they should end: `CloseReleasesAll`,
  `CompletionReleasesAll`, `CancelAndDisposeEnd`, `TimerObeys`, `EndReleasesAll`.

## 2. Plan

Done, in this order: channels (with an abstract contract), `ReaderWriterLockSlim`, events,
semaphores, cancellation, the timer, the barrier, `BlockingCollection`, `CountdownEvent`; then
tasks (with an abstract contract), `ClientWebSocket`, `Timers.Timer`, `Monitor` and `Mutex`,
`ReaderWriterLock`, `PeriodicTimer`, registered waits.

Then the proofs: every invariant of the passing runs is a theorem, and so is the refinement of
`ChannelContract`.

Next, the most important first:

1. The refinement of `TaskContract` by `Task`, step by step: the inductive invariant of `TaskProofs`
   is the place to start. The hard step is the exception of WhenAll, the first one in input order,
   which the contract selects from the sequence of inputs and the code finds in a loop.
2. `PrioritizedChannel`, as a second implementation of a contract like `ChannelContract`.
3. CancelAfter and linked sources; a composition of `Cancellation` with `BlockingCollection` and
   with `ClientWebSocket`, in place of the tokens these two carry themselves; the *ToAny operations.
4. `Lazy`, `Parallel`, the callbacks of `ConcurrentDictionary`, `FileSystemWatcher`, `ServiceHost`.

## 3. Modules

Every component has a module with its specification and properties. `ChannelContract` and
`TaskContract` are abstract specifications. `Int32Counts` holds the machine arithmetic that
semaphore and countdown share. Eight modules hold theorems and lemmas: `Int32CountsProofs`,
`ChannelProofs`, `QueuesProofs`, `CountersProofs`, `EventsProofs`, `LocksProofs`, `TaskProofs` and
`ClientWebSocketProofs` (section 5).

The `MC` modules give values to constants and choose the programs to look at. Four of them put
small components side by side: `MCQueues` (Channel, BlockingCollection), `MCLocks`
(ReaderWriterLockSlim, ReaderWriterLock, Monitor, ElapsedTimer), `MCEvents` (EventWaitHandle,
ManualResetEventSlim, Cancellation, PeriodicTimer, RegisteredWait) and `MCCounters`
(SemaphoreSlim, CountdownEvent, Barrier, Timer). The initial state picks one component, `part`,
and only that one takes steps, so the state space is the sum of theirs and every property speaks of
its own component. The fairness of such a module is the conjunction of what the components ask for.

Definitions keep the names of the source; PROJECT.json (`map`) gives the lines each one stands for.
An operator whose comment begins with MUTANT is a plausible mistake, used to see that a property
notices it.

### 3.1 How the code is turned into steps

* **Threads and calls.** `pc[t]` says where thread t stands. Between calls it is "idle"; starting
  a call is an action that nothing obliges it to take.
* **Critical sections** are one step each, with everything they assign. What the code does before
  it takes the mutex (a look at a disposed or closed flag, the read of `initialCount_` in
  `CountdownEvent::Reset()`), after it has released it (most notifications) and between two
  critical sections are steps of their own, and so is every access to a flag that no mutex guards.
* **Condition variables.** A thread in `wait(lock, predicate)` whose predicate is false is
  "parked". Only a notification makes it "notified", and only then does it look at its predicate
  again, under the mutex. So a notification that the code forgets, sends to one thread where all
  are needed, or sends to the wrong condition variable leaves a thread parked.
* **Predicate and sleep.** Where all changes of a predicate happen under the mutex of the wait,
  evaluating the predicate and falling asleep are one step. In `ManualResetEventSlim` (atomic
  flag), `Timer` (the running flag), `BlockingCollection` (the token) and `Task` (`isCompleted`)
  they do not, and the models keep the moment between the two, with the mutex held.
* **Spurious wakeups and deadlines.** In `Channel`, `SemaphoreSlim` and `Barrier` a parked
  thread's predicate is false (that is `NoLostWakeup`), so an unprovoked look at it changes
  nothing and needs no action. Elsewhere a parked thread may wake up by itself: `WakeEarly`,
  `WakeUp`, `Spurious`, `SpuriousWakeup`. A timed wait may give up at any moment at which its
  predicate is false, which is what `wait_for` returns.
* **Exceptions.** A call that throws before it has changed anything is no step; an exception that
  leaves after a change is a step like any other.
* **Data.** Items are pairs of a writer and a number, or are only counted; callbacks, handles and
  threads are model values; times are "infinite", "at once" and "later", or whole periods; frames
  have a kind and, where it matters, a number. Counts that can overflow are machine integers of a
  small width (`Wrap`).

### 3.2 The modules

* **Channel** models `Channel.hpp` up to line 413: `ChannelState` with its predicates, the reader
  (`TryRead`, `EnterWaitToRead`/`ResumeWaitToRead` for WaitToReadAsync, and the loop of
  ReadAsync), the writer (`TryWrite` with its three outcomes refused, discarded and pushed,
  `WaitToWrite`), `TryComplete` and the Completion task. `delivered` and `dropped` record what
  came out.
* **ChannelContract** says what a channel promises about items alone: each enters once and before
  the channel is sealed, and leaves once, read in order or, in a lossy channel, given up when
  another arrives. `ImplementsContract` is the refinement: queue, delivered, dropped and closed of
  `Channel` are buffer, read, lost and sealed, and every mode but Wait is lossy.
* **BlockingCollection** models tryAddCore and tryTakeCore with the RAII registration on a token,
  CompleteAdding and Dispose. The token (`Cancel`, `RunCallback`) follows `Cancellation`.
* **Task** models Task, TaskT, TaskCompletionSource and Unwrap. The completion of each task is a
  process, `step[t]`: body, store, complete, swap, notify, run; it runs on whichever thread gets
  there, and that thread goes on when it is done. `at[a]` is where a thread, or a task that itself
  waits for others (WhenAll, the proxy of Unwrap), stands in a call. A plan says how the program
  makes its tasks.
* **TaskContract** says what tasks promise together, without threads or callbacks: each ends once
  and for good; a continuation is called at most once, after its antecedent, and only for outcomes
  it asked for; WhenAll ends after all its inputs, with the first exception in input order; WhenAny
  ends with an input that has ended; Unwrap ends as the inner task. `ImplementsContract` of `Task`
  is the refinement.
* **ClientWebSocket** models one connection: the frame of every operation (count, scope of the
  token, release), performHandshake, the gates and the reads and writes of Send, Receive,
  CloseOutput and Close, Abort and Dispose from user, canceller, heartbeat and destructor, the
  heartbeat thread, and the destructor's three steps. The class keeps no calls apart, and neither
  does the model: any operation may run beside any other, also before the socket is open (a plan
  with `early`); only that no two calls of the same kind overlap is a bound. Writes are whole
  frames (`sendMutex_`). Reads are not, so where Receive and Close read at the same time, or one
  has given up on a bad frame, the rest of the stream may read as any frame (`torn`, `Readable`).
  `overwritten` records that a store went over a Close that another operation had recorded. The
  peer is external.
* **ReaderWriterLockSlim** models every Enter, TryEnter and Exit, with the reader, writer and
  upgrader counts, the admission rules (writers go first), recursion and Dispose.
  `ReadReleasedFirst` states a discipline of the callers, see section 4.3.
* **ReaderWriterLock** models the shared mutex with levels, the cookies and the sequence number. The
  lock knows its writer by a number, `CurrentThreadId()`: the hash of the thread's id cut down to
  32 bits, with -1 for "no writer". `ThreadIds` gives every thread its number, and `DistinctIds` is
  what exclusion rests on and the code does not see to: no two threads have the same number, and
  none has -1.
* **Monitor** models Monitor (Lock is a part of it) and Mutex: the recursive mutex, the
  bookkeeping beside it, and Wait, which gives both up and takes both back.
* **EventWaitHandle** models the event and WaitOne, WaitAll (one handle after the other) and
  WaitAny (polling).
* **ManualResetEventSlim** models the atomic flag, the mutex and each access as a separate step.
* **SemaphoreSlim** models both semaphores (`Disposable = FALSE` is `Semaphore`).
* **CountdownEvent** models all operations; Reset has three steps: the argument, the critical
  section, the notification.
* **Barrier** models SignalAndWait, AddParticipant and RemoveParticipant by any thread, Dispose, and
  the end of a phase with an action that may throw. The barrier counts its participants and does
  not know them; the history `inPerson` says that so far each was a thread (`members`) that joined,
  signalled and left for itself.
* **Cancellation** models the shared `CancellationState`: Register, the walk of Cancel (take the
  map; mark, call, unmark, notify for each callback), and Dispose of a registration, from other
  threads and from within callbacks.
* **Timer** models the worker thread, line by line of its loop, against Change and Dispose; to let
  go of the mutex (`Unlock`) and to call back (`CallbackBegins`) are two steps. `fires` and
  `strays` record the callbacks begun since the last Change, for its schedule and for an older one.
* **ElapsedTimer** models `System::Timers::Timer`: generations, the gate that lets a tick in, the
  worker that a Start publishes or discards, handlers that call the timer themselves, a worker
  that cannot be created, and the destructor that drains the callbacks. Of the `Threading.Timer`
  below it only "armed" and "alive" are left.
* **PeriodicTimer** models WaitForNextTick and Dispose, time counted in periods.
* **RegisteredWait** models the polling worker and Unregister.

## 4. Runs

All runs finish within five minutes; the brackets say what is instantiated.

| Run | Properties | What it shows |
|---|---|---|
| queues | NoLostWakeup, WaitingReadersExact, CapacityRespected, ReportsAreTrue, ImplementsContract; CollectionInv, CompletionReleasesAll | [channels: capacities 0 and 2, all four full modes, two readers, two writers with two items each, a Completion waiter; collections: unbounded and two slots, a producer, two consumers of which one observes a token] no lost wakeup; exact counts; an item accepted by a rendezvous channel has a reader on its way, and closure is reported after the last item; the contract is implemented; completion leaves nobody asleep |
| channel_live | CloseReleasesAll, EveryoneServed | [unbounded, 0 and 1, Wait mode, two readers with all three read operations, one writer] closing releases all; room reaches writers and items reach readers |
| locks | LockInv, NobodyStarves; LegacyLockInv; MonitorInv; ElapsedInv | [slim lock: a reader, a thread in any mode, a writer or upgrader, both policies, depth 2, timeouts, Dispose; legacy lock: two threads, levels to 2, two writes; monitor: three threads, depth 3; timer: two threads and the handlers, three calls] exclusion and exact bookkeeping; readers and writers get their turn; Wait restores what it gave up; no stray worker, no callback past the destructor |
| events | EventInv, SignalReachesWaiter; SlimInv, SleeperReleased; SourceInv, CancelAndDisposeEnd; PeriodicInv, DisposeEndsWait; RegisteredInv, UnregisterEnds | [an auto-reset and a manual-reset event, two waiters with WaitOne, WaitAll and WaitAny, a setter, Close; slim: two waiters, two setters; two users, two cancellers, two callbacks; two consumers, two periods, with and without ticks; two users of a registered wait, once or repeated, with and without timeout] |
| counters | SemaphoreInv, PermitReachesWaiter; CountdownInv, SetReleasesWaiters; BarrierInv, PhaseReleasesAll; TimerInv, TimerObeys | [three threads, largest integer 3; two resets; three threads at a barrier, participants in person or not, three phases, an action that may throw; two clients, three changes] |
| tasks | TaskInv, NothingForgotten, ImplementsContract, CompletionSpreads | [three tasks, two threads, four programs that have every kind of task between them, see `MCTask`] |
| websocket | SocketInv, CloseIsMutual, PongAnswersPing, EndReleasesAll | [twelve programs of one or two operations beside one another with the ways to stop them, two of them begun before the socket is open, keep-alive off, with Pongs or with Pings, up to two frames from the peer, two Pings] the destructor ends when no operation is in a call; the state agrees with the Close frames; a Ping is answered by its own Pong; the end of the connection ends every operation |
| rwls_downgrade, websocket_abort, websocket_lifetime, cancel_late, elapsed_enabled | Exclusion, AbortedIsFinal, HeartbeatWithinLifetime, QuietAfterDispose, RunningMeansEnabled; all violated | section 4.3 |

Most invariants are conjunctions of parts that have their own name and comment in the module:
`ReportsAreTrue` (RendezvousBacked, DrainedBeforeClosed), `LockInv` (TypeOK, Exclusion,
OneUpgrader, CountsAgree, WaitersExact, NoLostWakeup), `LegacyLockInv` (TypeOK, LevelsTellHolders,
WritersAreHeardOf), `MonitorInv` (TypeOK, HeldAsEntered, OwnerIsIn, WaiterIsOut), `ElapsedInv`
(TypeOK, WithinLifetime, NoStrayWorker, PublishedIsOwned, DrainIsWoken, EnabledMeansRunning),
`EventInv` (TypeOK, OneReleasePerSignal, NoStrandedSignal), `SlimInv` (TypeOK, ResultJustified),
`BarrierInv` (TypeOK, RemainingExact, Lockstep, NoLostWakeup, FaultSeenByAll), `SemaphoreInv`
(TypeOK, CountInRange, PermitsConserved, NoLostWakeup), `CountdownInv` (TypeOK, CountExact,
OneSetter, NoLostWakeup), `SourceInv` (TypeOK, RunsOnce, NoRegistrationLost, LastInFirstOut,
DisposeWaitsForCallback), `TimerInv` (TypeOK, ChangeNotDiscarded, SingleShotFiresOnce, PausedIsQuiet),
`RegisteredInv` (TypeOK, QuietAfterUnregister, SignalPassedOn), `CollectionInv` (TypeOK,
CapacityRespected, RegistrationsEnd, CompletedIsFinal, NoLostWakeup), `TaskInv` (TypeOK,
HeardIsFinal, SourceKeepsItsWord, CanceledWasAsked), `SocketInv` (TypeOK, OutlivesOperations).
Liveness properties are put together the same way: `EveryoneServed` (RoomReachesWriter,
ItemReachesReader), `NobodyStarves` (WriterNotStarved, ReaderNotStranded), `TimerObeys`
(ArmedTimerFires, StopReachesWorker), `CompletionSpreads` (WaitEnds,
DerivedCompletes), `EndReleasesAll` (EndingEndsOperations, DestructorEnds).

### 4.1 Bounds, and why they are enough

Two or three threads of a kind are what the races need: one that sleeps, one that acts on the state,
one that slips in between the action and its notification. Two items per writer tell order from
loss; capacities 0, 1 and 2 cover rendezvous, the smallest buffer and one where eviction at the
front and at the back differ. Symmetry is used in `queues` only, whose properties are safety
properties, among the readers and among the writers of the channel. Among the consumers of the
collection only one observes the token; Add and Take treat it with the same code. A largest integer
of 3 puts zero, the maximum and a wrap within reach of two calls. Three tasks are a task and its
continuation under a WhenAll or a WhenAny, or a task that is the result of another, with its proxy.
Three calls of the Elapsed timer are a Start, the Close that overtakes it and the Start that
overtakes both. Two Pings tell the right Pong from an earlier one. Two frames of the peer are what
ReceiveAsync and CloseAsync need to get into each other's way: one for each to read, or a Close and
what follows it.

Histories and phases are bounded (`MaxItems`, `MaxHeld`, `MaxReleases`, `MaxResets`, `MaxPhases`,
`MaxChanges`, `MaxDepth`, `MaxLevel`, `MaxLevels`, `MaxWrites`, `MaxCalls`, `MaxTime`,
`MaxCallbacks`, `MaxPings`, the frames of a plan) in the guards of the actions that would exceed
them. The theorems of section 5 hold for every value of these bounds, and for any number of threads,
capacity and largest integer.

`CHECK_DEADLOCK FALSE` is set throughout: threads may stop calling, and a thread blocked in a call
that nobody answers is a legal end. Blocking that should not last is the subject of the liveness
properties instead.

### 4.2 Fairness

A thread inside a call keeps being scheduled: weak fairness of its steps. Where a model keeps the
moment between predicate and sleep (`ManualResetEventSlim`, `Task`), the thread in it goes on.
Deadlines pass where a property relies on one (the due time of a timer, the next tick). In
`ReaderWriterLockSlim` whoever holds a mode releases it some day; in `Cancellation`, `Timer`,
`Task` and `RegisteredWait` callbacks and delegates return. Of the web socket's peer nothing is
asked: it may never send, answer or read. A Send that blocks because the peer does not read goes on
only when the connection ends, and only the fairness of the object's own threads is assumed. No
liveness property relies on a thread making a call, on a deadline it does not name, or on a
spurious wakeup.

### 4.3 Findings

Five runs show what a comment, a document or a test of the repository denies.

* **rwls_downgrade.** A read taken under the upgradeable or write mode is not counted. If the outer
  mode is released first, the thread still holds its read when another thread gets the write mode.
  `Exclusion` holds as long as callers release the nested read first, which the run `locks` assumes
  (`ReadReleasedFirst`).
* **websocket_abort.** The handshake stores Open unconditionally when it has ended (and Receive,
  CloseOutput and Close store their states): an Abort or a cancellation in between is overwritten,
  where the migration guide promises Aborted.
* **websocket_lifetime.** The destructor stops the heartbeat first and then waits for operations; a
  ConnectAsync in flight starts a heartbeat that nobody joins and that outlives the object.
* **cancel_late.** Cancel takes all callbacks from the map and marks each as executing when its turn
  comes; a Dispose of the registration in between returns at once and the callback runs after it.
* **elapsed_enabled.** A Close and a Start from two threads leave a timer that runs while Enabled is
  false, because Close stores the flag outside the critical section that ends the generation. Stop
  then does nothing. (The store in the callback of a one-shot timer can be late in the same way.)

### 4.4 Where properties stop short

In three places the code notifies outside the mutex of those who wait. The models keep these
windows, and the properties claim what holds in spite of them:

* `ManualResetEventSlim::Set` stores the flag and notifies without the mutex; both can fall
  between a waiter's look at the flag and its sleep. `SleeperReleased` is about threads that are
  asleep when Set notifies.
* `Timer::Dispose` does the same with the running flag. `StopReachesWorker` leaves out one worker: it
  has found the timer running and paused, is on its way to its untimed sleep ("pausing"), and a
  notification that comes before it sleeps is lost on it. Once it sleeps, a notification that is
  still to come ends it, and so does Dispose a worker anywhere else, also in a timed sleep.
* The callback that `BlockingCollection` registers on a token notifies without the mutex. A call
  in that window sleeps on after Cancel, and may later swallow the notification of an item:
  `NoLostWakeup` is claimed until the token is cancelled.

In five more places the code keeps less than a comment promises, or than it takes for granted
itself, and the property states what is left. But for the colliding numbers the
models have these behaviours, too:

* `Barrier.hpp:145` promises BarrierPostPhaseException "if the post-phase action threw during this
  phase". A waiter reads `lastPostPhaseException_` when it wakes up (:159). As long as participants
  act in person that is in time (`FaultSeenByAll`), since the next phase cannot end without the
  waiter. RemoveParticipant asks for no such thing: a manager thread can take participants off, end
  the next phase before the waiter runs, and the waiter then reports that phase instead of its own.
* `ReaderWriterLock.hpp:61` promises that AnyWritersSince tells every caller. The number moves when a
  writer releases, and one is added for a caller that writes, as if it had moved on acquisition.
  That is right for readers and for a thread that was the writer when it read the number; a
  thread that read it as a reader and then became the writer does not hear of the others if exactly
  one of them wrote while it waited (`WritersAreHeardOf` names this exception).
* The same class keeps the writer as a 32-bit hash (:36-38). Two threads whose numbers collide would
  both pass for the writer, and a thread whose number is -1 for the writer of a free lock; what is
  checked and proved is for distinct numbers (`DistinctIds`).
* `Task.hpp:559` says that WhenAny completes with "the first task ... to reach a terminal state". The
  winner is the input whose callback comes first, or the first in order that the scan finds
  completed; another may have completed before it. `ImplementsContract` asks for an input that has
  ended.
* CloseAsync sends its Close and then stores CloseSent (`ClientWebSocket.cpp:1283`), whatever the state
  has become. A ReceiveAsync beside it that reads the peer's Close in between has stored
  CloseReceived (:1163), or a CloseOutputAsync after it Closed (:1253), and that is lost: both Close
  frames went, the state stays CloseSent, and CloseAsync goes on to wait for a Close that was
  already read.
  (In the same way :1163 and :1253 can go over a Closed.) `CloseIsMutual` claims that the state says
  Closed in the end where no such store happened (`~overwritten`), and that Closed and CloseReceived
  are true in any case. Nothing keeps CloseAsync and ReceiveAsync from reading one stream, which they
  take apart frame by frame in several reads: the models let the rest of the stream be anything.
  The migration guide calls the class concurrency-safe
  (`docs/Migration-ClientWebSocketConcurrencySafety.md:4`); what it fixed there are the races on the
  properties and on the socket's lifetime.

Other things the models show, about which the repository says nothing, or says the same:

* A timed WaitAll that fails keeps the auto-reset signals of the handles it had already passed.
* `Timer` releases the mutex and then calls back: a Change or a Dispose that returns between the two
  (`Timer.hpp:181` and :182) is still followed by one callback of the old schedule. `PausedIsQuiet`
  says that it is one at most, and that a pause brings none of its own.
* A TrySetResult whose value cannot be copied has won the source and faults the task
  (`TaskCompletionSource.hpp:152`, and the test at `TasksTests.cpp:948`); `SourceKeepsItsWord` says so. The
  proxy of Unwrap is a source without a value, so that this does not concern it; if the inner task
  was moved from, the proxy is canceled. The antecedent that a continuation gets has no future: its
  Wait goes by the flags.
* `Monitor::Wait` has no predicate, so a spurious wakeup ends it. A Mutex that is disposed of while
  it is held can no longer be released, and threads blocked in WaitOne stay.
* `ReaderWriterLock`: a writer's AcquireReaderLock nests as a writer, so the ReleaseReaderLock that
  matches it throws. An upgrade that times out has lost the reader lock.
* A full channel in a drop mode gives up the item its mode names, by the assignment in TryWrite; the
  contract lets a lossy channel give up any item when another arrives, so no property pins which.
* A second Unregister returns false at once while the first one still joins the worker.
* `ClientWebSocket`: a Dispose before Connect does not stop a later Connect; a ConnectAsync with a
  token that is already cancelled leaves the state at Connecting; CloseAsync after the peer's Close
  sends none of its own. `SocketInv` is about the operations: a token's callback that runs late may
  still call Abort on an object whose destructor has ended.

## 5. Proofs

The theorems hold for every value of the constants that satisfies the named assumptions: any set of
threads (finite where they are counted), any capacity, any argument the code does not reject, any
positive largest integer, any bound on histories. They are invariance theorems, `Spec => []Inv`, but
for `ChannelImplementsContract`, a refinement. Each rests on an inductive invariant: lemmas say that
it holds at the start, that every action keeps it, and that it implies the property. Where the
property of the run is not inductive, what had to be added is named below.

Components that share an `MC` module are its instances: `Countdown`, `Phases` (Barrier) and `Clock`
(Timer) in `MCCounters`; `Legacy`, `Owned` (Monitor) and `Elapsed` in `MCLocks`; `Slim`, `Source`,
`Periodic` and `Registered` in `MCEvents`; `Collection` in `MCQueues`. The proof modules extend these
`MC` modules and speak of `Countdown!Spec` and so on: of the component by itself, not of the `part`
that a run picks. The assumptions on an instance stand in the `MC` module (`BarrierAssumption`, ...),
so that TLC evaluates them on every run; all other constants keep being parameters.

| Module | Theorems | Assumptions beyond types |
|---|---|---|
| ChannelProofs | TypeCorrect, CountExact, NoWakeupIsLost, CapacityIsRespected, ReportsAreTrueAlways, ChannelImplementsContract | finitely many readers, disjoint roles, capacities that are natural or -1 |
| QueuesProofs | CollectionIsCorrect, CompletionReachesEveryone | finitely many producers and consumers, disjoint roles |
| CountersProofs | SemaphoreIsCorrect, CountdownIsCorrect, BarrierIsCorrect, TimerIsCorrect, PausedTimerIsQuiet, and parts of them under names of their own | arguments in the range the constructors accept; a barrier's threads are finitely many |
| EventsProofs | EventIsCorrect, SlimIsCorrect, SourceIsCorrect, TicksAreNotShared, SignalsArePassedOn | a call names at least one handle; waiters and setters of the slim event, and users and cancellers of a source, are disjoint; finitely many callbacks |
| LocksProofs | LockIsCorrect, LegacyLockIsCorrect, MonitorIsCorrect, ElapsedIsCorrect | finitely many threads; for LockIsCorrect, `ReadReleasedFirst`; for LegacyLockIsCorrect, `DistinctIds` |
| TaskProofs | TasksAreCorrect, NobodyIsForgotten | plans are well made (`WellMade`); tasks, threads and the values beside them differ |
| ClientWebSocketProofs | ObjectOutlivesOperations, ClosingIsMutual, PongsAnswerPings | none |

* **Channels.** `TypeCorrect` and `CountExact` are proved together: the count of waiting readers
  stays a natural number only because it is exact, so that the one who decrements it was counted.
  `NoWakeupIsLost`: steps that leave queue, flag and options alone and add no waiting reader can
  make no predicate true (`NothingToWakeFor`); TryRead, TryComplete and a rendezvous reader notify
  everyone concerned; and an item is only pushed when the predicate of the writers holds, so that
  none of them can be asleep. `CapacityIsRespected` needs the length of the queue after an eviction.
  `ReportsAreTrue` needs `Programs`, what each kind of call may be doing. The refinement needs
  `Numbered`: the items of a writer carry growing numbers, all below the next one, so that an item
  that is written cannot be in the channel already.
* **BlockingCollection.** A call that is about to sleep still holds the mutex, so that what it saw
  still holds (`AboutToSleep`); a registration belongs to a call that was given the token
  (`Registrations`); and while the token is not cancelled and somebody sleeps, there are no fewer
  woken threads and notifications on their way than items, or free slots (`SleepersServed`).
  `CompletionReleasesAll` is a part of the same invariant.
* **Semaphore and countdown.** The invariants of the runs are inductive as they stand. All
  arithmetic is machine arithmetic; `WrapIdentity` says that a value that fits is stored as it is,
  `ReleaseDoesNotOverflow` and `NoOverflow` that the guards of Release, Signal and AddCount leave
  nothing that does not fit. It is the argument of the comment above Release, and the count is in
  range only because of it. That one Signal alone reports zero rests on AddCount's refusal to leave
  zero; a sleeper on a set event has a Reset with its notification still to come.
* **Barrier.** Whoever signals, joins and leaves, the remaining count is the number of participants
  less those that have arrived in this phase (`CountsArrived`), nobody waits for a phase to come
  (`Behind`), and the faults belong to phases that are over (`PhasesOver`). As long as participants
  act in person, who is inside takes part, in this phase or the last, and who has come out has
  reported its own phase (`InPerson`): when one member is missing, nobody is left in the phase
  before.
* **Timer.** `ClockIInv` ties the worker's snapshot to the generation: as long as no Change came in
  between, the cycle has a due time and the worker lets go of the mutex only for the schedule it
  took, so that a callback for an older schedule is the one it had let go for, and no second one
  follows (`PausedTimerIsQuiet`).
* **EventWaitHandle.** A setter has one handle in hand at a time: checked, or set and still to be
  notified (`OneAtATime`). **ManualResetEventSlim.** A wait that is under way while the event is set
  has seen it set, and a deadline passes only in a wait that has one. **PeriodicTimer.** The next
  tick is one past those handed out, and the flag of the active wait stands for one consumer.
  **RegisteredWait.** The worker is at most the one callback in hand behind the signals it took.
* **Cancellation.** One Cancel wins, it alone executes callbacks, and nothing was taken before it
  (`Winner`); what is in the map, or was taken out of it to be run, has a key of its own, below that
  of the callback under way (`Keys`), and there are as many keys as callbacks that got one; `Runs`
  says how far each callback has got; what a user is busy with is that user's alone (`Owned`).
* **ReaderWriterLockSlim.** A read that is not counted in `readers` is backed by a stronger mode of
  the same thread (`ReadsBacked`), and the recursion checks that a call has passed stay passed while
  it waits (`ChecksHold`). The theorem assumes `ReadReleasedFirst`; without it the run
  rwls_downgrade breaks `Exclusion`, and `ReadsBacked` is exactly what is lost there.
* **ReaderWriterLock.** A thread that waits for a lock it is to take back has a cookie for just that
  lock (`CookiesStand`); a sequence number that was read is not ahead of the lock's, behind it as
  soon as the other thread that wrote has let go, and two behind if it was read by the writer
  (`NumbersMove`). That the number of a thread tells who it is, is `DistinctIds`.
* **Monitor.** The thread that holds the mutex has one level more than is noted between taking it and
  the note, and between the note and the release (`HolderNoted`); the others are out, or wait with
  what they will restore (`OthersOut`).
* **Timers.Timer.** No call takes more than two generations and the destructor takes one (`Allowed`),
  so that the generations suffice; handlers use the timer only while they run (`Handler`); one
  thread destroys the timer, and nobody but handlers uses it then (`Destruction`); when it has drained
  the callbacks, none is left and none can come (`Drained`); an actor has in hand its own generation
  until it is published, or one that is over (`InHand`); the worker behind the gate is alive and of
  the current generation (`Owner`); `activeCallbacks` is the number of those inside; and while a
  timer is enabled its worker is armed or somebody is about to see to it (`Runs`): `EnabledMeansRunning`
  is what `Runs` says of a timer that nobody is busy with.
* **Tasks.** The flags agree with the stage of the completion code, and the inputs of a task were made
  before it (`Stages`, `Makers`). For wakeups: who is about to sleep, or to add its callback, holds
  the mutex, and the callbacks of that task were not taken yet (`Held`); a list fills before its task
  fires and is taken once (`Lists`); who sleeps does so for a task that did not notify yet
  (`Waiting`). The callback of a continuation exists once, with the thread that registers it or in
  one place of one list, and until it is called the continuation is pending (`Tickets`): a second
  call would run the completion code again and change a status that was already reported.
  `Winners` is the same for WhenAny. `Results` says that a result is one of the inputs, so that the
  proxy of Unwrap waits for a task the program has. After the exchange one producer alone writes
  the flag and the promise of a source, the flag first (`Claims`), and the task ends as that
  producer asked, or Faulted where the value could not be copied (`Words`); a proxy without an inner
  task is canceled from the start (`NoInner`).
* **ClientWebSocket.** `Shape` and `InPlace` are types. The count of operations is that of the threads
  in a call, connecting happens once, and the destructor goes past its wait only when the count is
  zero (`CountExact`). The heartbeat starts when connecting has nothing left to do but to return
  (`HeartLater`). `CloseInv` is about the closing handshake. No two operations are
  kept apart in it. Until Open was stored no operation is past its gate and nothing was exchanged
  (`NothingYet`); and as long as nothing has aborted or disposed of the connection, the state speaks
  of no Close frame that did not go, and of every one that did unless a store went over it, where an
  operation may stand between a frame and the critical section that records it (`Recorded`).

Only model-checked: the liveness properties (they need fairness, which is out of the prover's reach);
the refinement of `TaskContract` (section 2); and the violations of section 4.3, which are
counterexamples and need no proof.

## 6. Not modelled

PROJECT.json gives the reason for every part. In short: sequential code and pure computation
(core types, text, XML, numerics, cryptography), which is most of the repository, has no
interleavings to explore and domains too large for a small instance; sockets, files and processes
are thin layers over system calls; the concurrent parts that are left are in section 2. Within the
modelled parts, argument validation that throws before any state is touched, properties that only
read, and the conversion of time spans to milliseconds are left out, and of the web socket the
bytes of its frames and of its handshake. `std::atomic` accesses are taken as sequentially
consistent; the code uses acquire and release, or relaxed accesses that a mutex orders, on single
flags, for which the models' steps allow the same outcomes.
