---------------------------- MODULE ElapsedTimer ----------------------------
(***************************************************************************)
(* System::Timers::Timer, which raises Elapsed from the worker of a        *)
(* Threading::Timer (module Timer; here: armed or not, alive or disposed). *)
(* Every Start reserves a generation and makes a worker for it; the gate   *)
(* (CallbackLifetime, with its mutex) lets a tick in only while its        *)
(* generation is the published one, and counts the ticks that are inside,  *)
(* for the destructor waits for them.                                      *)
(*                                                                         *)
(* What happens with the gate's mutex held is one step, and so is every    *)
(* access to enabled_ outside it.  Handlers may call the timer: a worker,  *)
(* named by its generation, is an actor like the threads.                  *)
(***************************************************************************)
EXTENDS Naturals, FiniteSets

CONSTANTS Threads,  \* threads that use the timer
          Calls,    \* the operations they and the handlers use
          MaxCalls  \* bound: calls in a behaviour

\* A call reserves or invalidates two generations at most (a Start that fails),
\* the destructor one.
Generations == 1..(2 * MaxCalls + 1)
Actors == Threads \cup Generations
NoTimer == 0

VARIABLES enabled, autoReset, initializing, delayedEnable,
          timer,                  \* timer_: the generation of the worker it owns, or NoTimer
          owner, generation, activeCallbacks, destructionStarted,
          armed, alive,           \* of the Threading::Timer of a generation
          tick,                   \* where the callback of a generation's worker stands
          pc, op, mine,           \* an actor's call, and the generation it has in hand
          calls

fields == <<enabled, autoReset, initializing, delayedEnable, timer>>
gate == <<owner, generation, activeCallbacks, destructionStarted>>
workers == <<armed, alive, tick>>
locals == <<pc, op, mine, calls>>
vars == <<fields, gate, workers, locals>>

Init ==
  /\ enabled = FALSE /\ autoReset \in BOOLEAN
  /\ initializing = FALSE /\ delayedEnable = FALSE
  /\ timer = NoTimer
  /\ owner = FALSE /\ generation = 0 /\ activeCallbacks = 0 /\ destructionStarted = FALSE
  /\ armed = [g \in Generations |-> "off"]
  /\ alive = [g \in Generations |-> FALSE]
  /\ tick = [g \in Generations |-> "idle"]
  /\ pc = [a \in Actors |-> "idle"]
  /\ op = [a \in Actors |-> "none"]
  /\ mine = [a \in Actors |-> NoTimer]
  /\ calls = 0

GoTo(a, place) == pc' = [pc EXCEPT ![a] = place] /\ UNCHANGED op

Return(a) == pc' = [pc EXCEPT ![a] = "idle"] /\ op' = [op EXCEPT ![a] = "none"]

\* Threading::Timer::Change, with the period that AutoReset asks for.
Change(f, g) == [f EXCEPT ![g] = IF autoReset THEN "repeat" ELSE "once"]
-----------------------------------------------------------------------------
(* The operations. *)

\* A thread uses the timer until it is destroyed, a handler while it runs.
MayCall(a) ==
  IF a \in Threads THEN ~destructionStarted ELSE tick[a] = "raise"

Begin(a, c, place) == pc' = [pc EXCEPT ![a] = place] /\ op' = [op EXCEPT ![a] = c]

\* setEnabledProperty up to the first change of state.
SetEnabled(a, v) ==
  IF enabled = v THEN UNCHANGED <<pc, op>>
                 ELSE IF v THEN Begin(a, "Start", "enable") ELSE Begin(a, "Stop", "stop")

Call(a, c) ==
  /\ pc[a] = "idle" /\ MayCall(a) /\ calls < MaxCalls
  /\ calls' = calls + 1
  /\ \/ /\ c \in {"Start", "Stop"} /\ initializing
        /\ delayedEnable' = (c = "Start")
        /\ UNCHANGED <<autoReset, initializing, pc, op>>
     \/ /\ c \in {"Start", "Stop"} /\ ~initializing
        /\ SetEnabled(a, c = "Start")
        /\ UNCHANGED <<autoReset, initializing, delayedEnable>>
     \/ /\ c = "EndInit"
        /\ initializing' = FALSE
        /\ SetEnabled(a, delayedEnable)
        /\ UNCHANGED <<autoReset, delayedEnable>>
     \/ /\ c \in {"Close", "BeginInit"}
        /\ Begin(a, c, "stop")
        /\ UNCHANGED <<autoReset, initializing, delayedEnable>>
     \/ /\ c = "setAutoReset"
        /\ autoReset' = ~autoReset
        /\ Begin(a, c, "update")
        /\ UNCHANGED <<initializing, delayedEnable>>
     \/ /\ c = "setInterval"
        /\ Begin(a, c, "update")
        /\ UNCHANGED <<autoReset, initializing, delayedEnable>>
  /\ UNCHANGED <<enabled, timer, gate, workers, mine>>

\* updateTimer.
Update(a) ==
  /\ pc[a] = "update"
  /\ armed' = IF timer # NoTimer /\ enabled /\ ~destructionStarted THEN Change(armed, timer) ELSE armed
  /\ Return(a)
  /\ UNCHANGED <<fields, gate, alive, tick, mine, calls>>

\* The rest of setEnabledProperty(true): the store, and the look at timer_.
Enable(a) ==
  /\ pc[a] = "enable"
  /\ enabled' = TRUE
  /\ GoTo(a, "enabled")
  /\ UNCHANGED <<autoReset, initializing, delayedEnable, timer, gate, workers, mine, calls>>

HasTimer(a) ==
  /\ pc[a] = "enabled"
  /\ GoTo(a, IF timer = NoTimer THEN "start" ELSE "update")
  /\ UNCHANGED <<fields, gate, workers, mine, calls>>

\* startTimerThread up to the construction of the paused worker.
Reserve(a) ==
  /\ pc[a] = "start"
  /\ IF destructionStarted
       THEN /\ enabled' = FALSE
            /\ Return(a)
            /\ UNCHANGED <<owner, generation, mine>>
       ELSE /\ owner' = FALSE
            /\ generation' = generation + 1
            /\ mine' = [mine EXCEPT ![a] = generation + 1]
            /\ GoTo(a, "reserved")
            /\ UNCHANGED enabled
  /\ UNCHANGED <<autoReset, initializing, delayedEnable, timer, activeCallbacks, destructionStarted,
                 workers, calls>>

\* MUTANT: a worker is published whatever happened since its generation was reserved.
StaleNever(a) == FALSE

\* A later Close or Start took over.
Stale(a) == generation # mine[a]

\* The worker, paused so far, becomes timer_ and is armed; or it is discarded.
Publish(a) ==
  /\ pc[a] = "reserved"
  /\ \/ /\ destructionStarted
        /\ enabled' = FALSE
        /\ UNCHANGED <<timer, owner, armed, alive>>
     \/ /\ ~destructionStarted /\ Stale(a)
        /\ UNCHANGED <<enabled, timer, owner, armed, alive>>
     \/ /\ ~destructionStarted /\ ~Stale(a)
        /\ timer' = mine[a]
        /\ owner' = TRUE
        /\ armed' = Change(armed, mine[a])
        /\ alive' = [g \in Generations |-> g = mine[a] \/ (g # timer /\ alive[g])]
        /\ UNCHANGED enabled
  /\ Return(a)
  /\ mine' = [mine EXCEPT ![a] = NoTimer]
  /\ UNCHANGED <<autoReset, initializing, delayedEnable, generation, activeCallbacks,
                 destructionStarted, tick, calls>>

\* The worker's thread cannot be created: what the generation still owns is undone.
StartFails(a) ==
  /\ pc[a] = "reserved"
  /\ IF Stale(a)
       THEN /\ Return(a)
            /\ mine' = [mine EXCEPT ![a] = NoTimer]
            /\ UNCHANGED <<enabled, timer, owner, generation>>
       ELSE /\ GoTo(a, "release")
            /\ mine' = [mine EXCEPT ![a] = timer]
            /\ timer' = NoTimer
            /\ owner' = FALSE
            /\ generation' = generation + 1
            /\ enabled' = FALSE
  /\ UNCHANGED <<autoReset, initializing, delayedEnable, activeCallbacks, destructionStarted,
                 workers, calls>>
-----------------------------------------------------------------------------
(* Stopping and destruction: stopTimerThread. *)

\* timer_ moves into the hands of the caller, which disposes of it without the gate.
TakeTimer(a) ==
  /\ mine' = [mine EXCEPT ![a] = timer]
  /\ timer' = NoTimer
  /\ GoTo(a, "release")

Stop(a) ==
  /\ pc[a] = "stop"
  /\ owner' = FALSE
  /\ generation' = generation + 1
  /\ TakeTimer(a)
  /\ UNCHANGED <<enabled, autoReset, initializing, delayedEnable, activeCallbacks,
                 destructionStarted, workers, calls>>

\* The destructor is called when no thread uses the timer; handlers may run.
Destroy(t) ==
  /\ pc[t] = "idle" /\ MayCall(t)
  /\ \A u \in Threads : pc[u] = "idle"
  /\ destructionStarted' = TRUE
  /\ owner' = FALSE
  /\ generation' = generation + 1
  /\ Begin(t, "Destroy", "drain")
  /\ UNCHANGED <<fields, activeCallbacks, workers, mine, calls>>

\* callbacksFinished.wait: the predicate is looked at, at first and when notified.
Drain(t) ==
  /\ pc[t] = "drain"
  /\ IF activeCallbacks = 0
       THEN TakeTimer(t)
       ELSE GoTo(t, "parked") /\ UNCHANGED <<timer, mine>>
  /\ UNCHANGED <<enabled, autoReset, initializing, delayedEnable, gate, workers, calls>>

WakeEarly(t) ==
  /\ pc[t] = "parked"
  /\ GoTo(t, "drain")
  /\ UNCHANGED <<fields, gate, workers, mine, calls>>

\* The Threading::Timer is destroyed: its worker starts no more callbacks.
Release(a) ==
  /\ pc[a] = "release"
  /\ alive' = [g \in Generations |-> g # mine[a] /\ alive[g]]
  /\ mine' = [mine EXCEPT ![a] = NoTimer]
  /\ CASE op[a] = "Start" -> Return(a)
       [] op[a] = "Destroy" -> GoTo(a, "gone")
       [] OTHER -> GoTo(a, "disable")
  /\ UNCHANGED <<fields, gate, armed, tick, calls>>

\* What Stop, Close and BeginInit store when the worker is gone.
Disable(a) ==
  /\ pc[a] = "disable"
  /\ enabled' = FALSE
  /\ IF op[a] \in {"Close", "BeginInit"}
       THEN initializing' = (op[a] = "BeginInit") /\ delayedEnable' = FALSE
       ELSE UNCHANGED <<initializing, delayedEnable>>
  /\ Return(a)
  /\ UNCHANGED <<autoReset, timer, gate, workers, mine, calls>>
-----------------------------------------------------------------------------
(* The callback, on the worker of generation g. *)

\* The interval elapses (module Timer): a one-shot schedule is used up.
Fire(g) ==
  /\ tick[g] = "idle" /\ alive[g] /\ armed[g] # "off"
  /\ tick' = [tick EXCEPT ![g] = "gate"]
  /\ armed' = [armed EXCEPT ![g] = IF @ = "once" THEN "off" ELSE @]
  /\ UNCHANGED <<fields, gate, alive, locals>>

EnterGate(g) ==
  /\ tick[g] = "gate"
  /\ IF owner /\ generation = g
       THEN activeCallbacks' = activeCallbacks + 1 /\ tick' = [tick EXCEPT ![g] = "entered"]
       ELSE tick' = [tick EXCEPT ![g] = "idle"] /\ UNCHANGED activeCallbacks
  /\ UNCHANGED <<fields, owner, generation, destructionStarted, armed, alive, locals>>

\* A timer that does not repeat is no longer enabled when it raises Elapsed.
ReadAutoReset(g) ==
  /\ tick[g] = "entered"
  /\ enabled' = (enabled /\ autoReset)
  /\ tick' = [tick EXCEPT ![g] = "raise"]
  /\ UNCHANGED <<autoReset, initializing, delayedEnable, timer, gate, armed, alive, locals>>

\* The handlers have returned or thrown; the guard of the callback leaves the gate ...
LeaveGate(g) ==
  /\ tick[g] = "raise" /\ pc[g] = "idle"
  /\ activeCallbacks' = activeCallbacks - 1
  /\ tick' = [tick EXCEPT ![g] = "left"]
  /\ UNCHANGED <<fields, owner, generation, destructionStarted, armed, alive, locals>>

\* ... and notifies the destructor.
NotifyFinished(g) ==
  /\ tick[g] = "left"
  /\ tick' = [tick EXCEPT ![g] = "idle"]
  /\ pc' = [a \in Actors |-> IF pc[a] = "parked" THEN "drain" ELSE pc[a]]
  /\ UNCHANGED <<fields, gate, armed, alive, op, mine, calls>>
-----------------------------------------------------------------------------
\* The steps of a call, and those of a callback.
InCall(a) ==
  Update(a) \/ Enable(a) \/ HasTimer(a) \/ Reserve(a) \/ Publish(a) \/ Stop(a) \/ Drain(a)
    \/ Release(a) \/ Disable(a)
InCallback(g) == EnterGate(g) \/ ReadAutoReset(g) \/ LeaveGate(g) \/ NotifyFinished(g)

Next ==
  \/ \E a \in Actors : InCall(a) \/ StartFails(a) \/ \E c \in Calls : Call(a, c)
  \/ \E t \in Threads : Destroy(t) \/ WakeEarly(t)
  \/ \E g \in Generations : InCallback(g) \/ Fire(g)

Spec == Init /\ [][Next]_vars
-----------------------------------------------------------------------------
(* Properties. *)

\* The type invariant.
TypeOK ==
  /\ {enabled, autoReset, initializing, delayedEnable, owner, destructionStarted} \subseteq BOOLEAN
  /\ {timer, generation} \subseteq Generations \cup {0}
  /\ armed \in [Generations -> {"off", "once", "repeat"}]
  /\ alive \in [Generations -> BOOLEAN]
  /\ tick \in [Generations -> {"idle", "gate", "entered", "raise", "left"}]
  /\ pc \in [Actors -> {"idle", "update", "enable", "enabled", "start", "reserved", "stop", "drain",
                        "parked", "release", "disable", "gone"}]
  /\ mine \in [Actors -> Generations \cup {NoTimer}]

Inside == {g \in Generations : tick[g] \in {"entered", "raise"}}

\* The destructor ends only when no callback uses the timer any more, nor lets one in.
WithinLifetime ==
  /\ activeCallbacks = Cardinality(Inside)
  /\ (\E t \in Threads : pc[t] = "gone") => Inside = {} /\ ~owner /\ \A g \in Generations : ~alive[g]

\* However Start, Stop, Close and their failures interleave, no worker is left running
\* that nobody owns ("a running timer stored after Close had already reset the old null
\* member"): it is timer_, or a call is about to destroy it.
NoStrayWorker ==
  \A g \in Generations : alive[g] =>
    timer = g \/ \E a \in Actors : pc[a] = "release" /\ mine[a] = g

\* Only the worker that the timer owns gets through the gate.
PublishedIsOwned == owner => timer = generation /\ alive[timer]

\* The destructor waits for callbacks, and for no more than them.
DrainIsWoken ==
  (\E t \in Threads : pc[t] = "parked") /\ activeCallbacks = 0 => \E g \in Generations : tick[g] = "left"

\* No call and no callback is under way.
AtRest == (\A a \in Actors : pc[a] = "idle") /\ (\A g \in Generations : tick[g] = "idle")

\* A timer at rest that says it is enabled has a worker that ticks.
EnabledMeansRunning == enabled /\ AtRest => owner /\ armed[timer] # "off"

\* The timer and its workers agree, whoever starts, stops and destroys it meanwhile.
ElapsedInv ==
  /\ TypeOK /\ WithinLifetime /\ NoStrayWorker /\ PublishedIsOwned
  /\ DrainIsWoken /\ EnabledMeansRunning

\* "true if the timer is currently running": a timer at rest that may still raise Elapsed
\* says that it is enabled, or Stop would return at once and leave it running.
RunningMeansEnabled == owner /\ armed[timer] # "off" /\ AtRest => enabled
=============================================================================
