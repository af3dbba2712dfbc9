----------------------------- MODULE MCCounters -----------------------------
(***************************************************************************)
(* SemaphoreSlim, CountdownEvent, Barrier and Timer, checked side by side: *)
(* a behaviour is one of the component that `part' names, the others keep  *)
(* the state they are constructed in.                                      *)
(***************************************************************************)
EXTENDS SemaphoreSlim

CONSTANTS MaxResets,                                      \* of CountdownEvent
          Crew, MaxParticipants, HasAction, MaxPhases,    \* of Barrier
          Clients, MaxChanges                             \* of Timer

VARIABLES part,
          initialCount_, currentCount_, cdDisposed, cdPc, cdTimed, arg, resets, exact, setters,
          participantCount, remainingCount, phaseCount, lastException, disposed, inPerson, members, bPc,
          myPhase, bResult, faulted,
          running, dueTime, period, generation, locked, tPc, genAtStart, client, asked, fires, strays

countdown == <<initialCount_, currentCount_, cdDisposed, cdPc, cdTimed, arg, resets, exact, setters>>
barrier == <<participantCount, remainingCount, phaseCount, lastException, disposed, inPerson, members, bPc,
             myPhase, bResult, faulted>>
timer == <<running, dueTime, period, generation, locked, tPc, genAtStart, client, asked, fires, strays>>
all == <<part, vars, countdown, barrier, timer>>

Countdown == INSTANCE CountdownEvent WITH disposed_ <- cdDisposed, pc <- cdPc, timed <- cdTimed
Phases == INSTANCE Barrier WITH Threads <- Crew, pc <- bPc, result <- bResult
Clock == INSTANCE Timer WITH pc <- tPc

\* The threads are finitely many, and so are those the barrier may count.
BarrierAssumed == IsFiniteSet(Crew) /\ MaxParticipants \in Nat
ASSUME BarrierAssumption == BarrierAssumed

\* The calls of Change may be bounded at will.
ClockAssumed == MaxChanges \in Nat
ASSUME ClockAssumption == ClockAssumed

AllInit ==
  /\ part \in {"semaphore", "countdown", "barrier", "timer"}
  /\ Init /\ Countdown!Init /\ Phases!Init /\ Clock!Init
  /\ part # "semaphore" => count_ = 0 /\ maxCount_ = 1
  /\ part # "countdown" => initialCount_ = 0
  /\ part # "barrier" => inPerson /\ members = {}
  /\ part # "timer" => dueTime = -1 /\ period = -1

OnSemaphore(step) == part = "semaphore" /\ step
  /\ UNCHANGED <<part, countdown, barrier, timer>>
OnCountdown(step) == part = "countdown" /\ step
  /\ UNCHANGED <<part, vars, barrier, timer>>
OnBarrier(step) == part = "barrier" /\ step
  /\ UNCHANGED <<part, vars, countdown, timer>>
OnTimer(step) == part = "timer" /\ step
  /\ UNCHANGED <<part, vars, countdown, barrier>>

AllNext ==
  \/ OnSemaphore(Next) \/ OnCountdown(Countdown!Next) \/ OnBarrier(Phases!Next)
  \/ OnTimer(Clock!Next)

\* What each component asks of its threads in its own FairSpec.  Only the steps of
\* one component are ever enabled, so one condition may ask for a step of each.
AllSpec ==
  /\ AllInit /\ [][AllNext]_all
  /\ \A t \in Threads :
       /\ WF_all(\/ OnSemaphore(Wait(t)) \/ OnCountdown(Countdown!Wait(t))
                 \/ OnBarrier(t \in Crew /\ Phases!ResumeWait(t)))
       /\ WF_all(OnCountdown(Countdown!Reset(t)))
       /\ WF_all(OnCountdown(Countdown!NotifyReset(t)))
  /\ WF_all(OnTimer(Clock!Worker)) /\ \A c \in Clients : WF_all(OnTimer(Clock!Notify(c)))

\* The properties of the other components.
CountdownInv == Countdown!CountdownInv
SetReleasesWaiters == Countdown!SetReleasesWaiters
BarrierInv == Phases!BarrierInv
PhaseReleasesAll == Phases!PhaseReleasesAll
TimerInv == Clock!TimerInv
TimerObeys == Clock!TimerObeys
=============================================================================
