------------------------------- MODULE Timer -------------------------------
(***************************************************************************)
(* System.Threading.Timer: a dedicated thread that sleeps until the due    *)
(* time, lets go of the mutex, calls back and derives the next due time    *)
(* from the period, while other threads call Change and Dispose.           *)
(*                                                                         *)
(* Change takes mtx; Dispose clears the atomic running without it, so the  *)
(* worker's look at running and its sleep are separate steps.  A time is   *)
(* -1 (infinite), 0 (at once) or 1 (any delay).                            *)
(***************************************************************************)
EXTENDS Integers

CONSTANTS Clients,    \* threads that call Change and Dispose
          MaxChanges  \* bound: calls of Change

Times == {-1, 0, 1}

VARIABLES running, dueTime, period, generation,
          locked,      \* the worker holds mtx; clients only do within a step
          pc,          \* where the worker stands
          genAtStart,  \* the generation of its cycle
          client,      \* "idle", or "notify" between a client's store and its notify_all
          asked,       \* history: the due time last asked for
          fires,       \* history: callbacks begun for it since then, counted up to 2
          strays       \* history: callbacks begun since then for an older schedule, up to 2

schedule == <<dueTime, period, generation>>
history  == <<asked, fires, strays>>
vars     == <<running, schedule, locked, pc, genAtStart, client, history>>

\* The constructor, up to the start of the thread.
Init ==
  /\ running = TRUE
  /\ dueTime \in Times /\ period \in Times
  /\ generation = 0
  /\ locked = FALSE
  /\ pc = "start"
  /\ genAtStart = 0
  /\ client = [c \in Clients |-> "idle"]
  /\ asked = dueTime
  /\ fires = 0 /\ strays = 0
-----------------------------------------------------------------------------
(* The worker, run(). *)

\* The worker takes the mutex: at first, and on its way out of a sleep.
TakeMutex(from, to) ==
  /\ pc = from /\ ~locked
  /\ locked' = TRUE
  /\ pc' = to
  /\ UNCHANGED <<running, schedule, genAtStart, client, history>>

Start        == TakeMutex("start", "top")
ResumePause  == TakeMutex("pauseNotified", "top")
ResumeDue    == TakeMutex("dueNotified", "evaluate")
ResumeLate   == TakeMutex("late", "decide")

Exit == pc' = "exited" /\ locked' = FALSE

\* The head of the loops, and the snapshot of the generation.
Top ==
  /\ pc = "top"
  /\ \/ ~running /\ Exit /\ UNCHANGED genAtStart
     \/ running /\ dueTime = -1 /\ pc' = "pausing" /\ UNCHANGED <<locked, genAtStart>>
     \/ /\ running /\ dueTime # -1
        /\ genAtStart' = generation
        /\ pc' = IF dueTime > 0 THEN "evaluate" ELSE "decide"
        /\ UNCHANGED locked
  /\ UNCHANGED <<running, schedule, client, history>>

\* cv.wait without a predicate and wait_until release the mutex as they sleep.
FallAsleep ==
  /\ \/ pc = "pausing" /\ pc' = "pauseParked"
     \/ pc = "falling" /\ pc' = "dueParked"
  /\ locked' = FALSE
  /\ UNCHANGED <<running, schedule, genAtStart, client, history>>

\* The predicate of wait_until.
Evaluate ==
  /\ pc = "evaluate"
  /\ pc' = IF ~running \/ generation # genAtStart THEN "decide" ELSE "falling"
  /\ UNCHANGED <<running, schedule, locked, genAtStart, client, history>>

DeadlinePasses ==
  /\ pc \in {"dueParked", "dueNotified"}
  /\ pc' = "late"
  /\ UNCHANGED <<running, schedule, locked, genAtStart, client, history>>

SpuriousWakeup ==
  /\ pc = "pauseParked"
  /\ pc' = "pauseNotified"
  /\ UNCHANGED <<running, schedule, locked, genAtStart, client, history>>

\* After the wait: stop, start over with the new schedule, or fire.
Decide ==
  /\ pc = "decide"
  /\ \/ ~running /\ Exit
     \/ running /\ generation # genAtStart /\ pc' = "top" /\ UNCHANGED locked
     \/ running /\ generation = genAtStart /\ pc' = "firing" /\ UNCHANGED locked
  /\ UNCHANGED <<running, schedule, genAtStart, client, history>>

\* The mutex is released before the callback; a Change may get in between.
Unlock ==
  /\ pc = "firing"
  /\ locked' = FALSE
  /\ pc' = "unlocked"
  /\ UNCHANGED <<running, schedule, genAtStart, client, history>>

OneMore(n) == IF n < 2 THEN n + 1 ELSE n

CallbackBegins ==
  /\ pc = "unlocked"
  /\ pc' = "callback"
  /\ IF generation = genAtStart
       THEN fires' = OneMore(fires) /\ UNCHANGED strays
       ELSE strays' = OneMore(strays) /\ UNCHANGED fires
  /\ UNCHANGED <<running, schedule, locked, genAtStart, client, asked>>

\* MUTANT: "overwriting that here was the original bug".
RescheduleAlways == dueTime' = IF period <= 0 THEN -1 ELSE period

\* The next due time, unless a Change during the callback has set it.
Reschedule ==
  dueTime' = IF generation # genAtStart THEN dueTime
             ELSE IF period <= 0 THEN -1 ELSE period

\* The callback returns and the mutex is taken again.
CallbackEnds ==
  /\ pc = "callback" /\ ~locked
  /\ locked' = TRUE
  /\ Reschedule
  /\ pc' = "top"
  /\ UNCHANGED <<running, period, generation, genAtStart, client, history>>
-----------------------------------------------------------------------------
(* Clients. *)

\* The critical section of Change.
Change(c, d, p) ==
  /\ client[c] = "idle" /\ ~locked
  /\ generation < MaxChanges
  /\ dueTime' = d /\ period' = p
  /\ generation' = generation + 1
  /\ client' = [client EXCEPT ![c] = "notify"]
  /\ asked' = d /\ fires' = 0 /\ strays' = 0
  /\ UNCHANGED <<running, locked, pc, genAtStart>>

\* The store of Dispose; mtx is not taken.
Dispose(c) ==
  /\ client[c] = "idle" /\ running
  /\ running' = FALSE
  /\ client' = [client EXCEPT ![c] = "notify"]
  /\ UNCHANGED <<schedule, locked, pc, genAtStart, history>>

\* MUTANT: Change and Dispose without a notification.
WokenByNobody == pc

Woken == CASE pc = "pauseParked" -> "pauseNotified"
           [] pc = "dueParked"   -> "dueNotified"
           [] OTHER              -> pc

Notify(c) ==
  /\ client[c] = "notify"
  /\ pc' = Woken
  /\ client' = [client EXCEPT ![c] = "idle"]
  /\ UNCHANGED <<running, schedule, locked, genAtStart, history>>
-----------------------------------------------------------------------------
Worker ==
  \/ Start \/ ResumePause \/ ResumeDue \/ ResumeLate \/ Top \/ FallAsleep \/ Evaluate
  \/ DeadlinePasses \/ Decide \/ Unlock \/ CallbackBegins \/ CallbackEnds

Next ==
  \/ Worker \/ SpuriousWakeup
  \/ \E c \in Clients :
       Notify(c) \/ Dispose(c) \/ \E d, p \in Times : Change(c, d, p)

Spec == Init /\ [][Next]_vars

\* The worker keeps running, deadlines pass, callbacks return, and a client that
\* has stored gets to notify.  Spurious wakeups are not owed.
FairSpec == Spec /\ WF_vars(Worker) /\ \A c \in Clients : WF_vars(Notify(c))
-----------------------------------------------------------------------------
(* Properties. *)

\* The type invariant.
TypeOK ==
  /\ running \in BOOLEAN /\ locked \in BOOLEAN
  /\ dueTime \in Times /\ period \in Times
  /\ generation \in 0..MaxChanges /\ genAtStart \in 0..generation
  /\ pc \in {"start", "top", "pausing", "pauseParked", "pauseNotified", "evaluate", "falling",
             "dueParked", "dueNotified", "late", "decide", "firing", "unlocked", "callback",
             "exited"}
  /\ client \in [Clients -> {"idle", "notify"}]
  /\ asked \in Times /\ fires \in 0..2 /\ strays \in 0..2
  /\ locked <=> pc \in {"top", "pausing", "evaluate", "falling", "decide", "firing"}

\* The due time a Change asked for stands until a callback has begun for it, also
\* when the Change came while a callback was running.
ChangeNotDiscarded == fires = 0 => dueTime = asked

\* Without a period a timer fires once for each time it is armed.
SingleShotFiresOnce == period <= 0 => fires <= 1

\* After a Change the old schedule calls back once more at most, namely when the
\* worker had let go of the mutex for it already; the worker is then back at the
\* schedule that was asked for, and if that is a pause (Change(-1, ...)) it begins no
\* callback for it ("restart the outer loop ... rather than firing on stale timing").
PausedIsQuiet == strays <= 1 /\ (asked = -1 => fires = 0)

\* The state is well formed, and what the timer does next is what was asked last.
TimerInv == TypeOK /\ ChangeNotDiscarded /\ SingleShotFiresOnce /\ PausedIsQuiet

\* An armed timer fires for the schedule it was armed with, unless it is changed or
\* stopped first.
ArmedTimerFires ==
  \A g \in 0..MaxChanges :
    running /\ generation = g /\ dueTime # -1
      ~> (pc = "callback" /\ genAtStart = g) \/ generation # g \/ ~running

\* After Dispose the worker leaves its loop.  The one exception is a worker that has
\* found the timer running and paused and is on its way to sleep: a Dispose whose
\* notification comes before it sleeps, and which took no mutex, is lost on it.
StopReachesWorker ==
  /\ ~running /\ pc \notin {"pausing", "pauseParked"} ~> pc = "exited"
  /\ ~running /\ pc = "pauseParked" /\ (\E c \in Clients : client[c] = "notify") ~> pc = "exited"

\* The worker does some day what it was told last: fire, or end.
TimerObeys == ArmedTimerFires /\ StopReachesWorker
=============================================================================
