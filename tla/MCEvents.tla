------------------------------ MODULE MCEvents ------------------------------
(***************************************************************************)
(* EventWaitHandle, ManualResetEventSlim, CancellationTokenSource,         *)
(* PeriodicTimer and RegisteredWaitHandle, checked side by side: a         *)
(* behaviour is one of the component that `part' names, the others keep    *)
(* the state they are constructed in.                                      *)
(***************************************************************************)
EXTENDS EventWaitHandle

CONSTANTS auto, manual,                         \* the handles
          SlimSetters, Timeouts, Disposable,    \* of ManualResetEventSlim
          Users, Cancellers, Callbacks, None,   \* of Cancellation
          MaxTime,                              \* of PeriodicTimer
          Intervals, MaxCallbacks               \* of RegisteredWait

AutoAndManual == [h \in Handles |-> IF h = manual THEN "ManualReset" ELSE "AutoReset"]

\* Every kind of wait, with and without a deadline; the lists name the handles in
\* both orders.
EveryKind ==
  {[kind |-> "one", list |-> <<auto>>, timed |-> TRUE],
   [kind |-> "one", list |-> <<auto>>, timed |-> FALSE],
   [kind |-> "any", list |-> <<manual, auto>>, timed |-> TRUE],
   [kind |-> "all", list |-> <<auto, manual>>, timed |-> TRUE],
   [kind |-> "all", list |-> <<manual, auto>>, timed |-> FALSE]}

VARIABLES part,
          set_, disposed_, mtx_, sPc, timed, late, result, seenSet,
          cancelled, nextId, executing, executingThread, disposed, callbacks, id, toRun, cPc, target,
          reg, begun, ended, lastRun, caught, threw,
          infinite_, next_, pDisposed, activeWait_, now, pPc, pNotifying, ticks,
          unregistered, executeOnlyOnce, interval, signaled, elapsed, rPc, timedOut, joining, returned,
          rTaken, called

slim == <<set_, disposed_, mtx_, sPc, timed, late, result, seenSet>>
source == <<cancelled, nextId, executing, executingThread, disposed, callbacks, id, toRun, cPc, target,
            reg, begun, ended, lastRun, caught, threw>>
periodic == <<infinite_, next_, pDisposed, activeWait_, now, pPc, pNotifying, ticks>>
registered == <<unregistered, executeOnlyOnce, interval, signaled, elapsed, rPc, timedOut, joining,
                returned, rTaken, called>>
all == <<part, vars, slim, source, periodic, registered>>

Slim == INSTANCE ManualResetEventSlim WITH Setters <- SlimSetters, pc <- sPc
Source == INSTANCE Cancellation WITH pc <- cPc
Periodic == INSTANCE PeriodicTimer WITH disposed_ <- pDisposed, pc <- pPc, notifying <- pNotifying
Registered == INSTANCE RegisteredWait WITH pc <- rPc, taken <- rTaken

\* A thread waits or sets, and the mutex is not owned by a thread called "free".
SlimAssumed ==
  Threads \cap SlimSetters = {} /\ Slim!Free \notin Threads /\ Timeouts \subseteq BOOLEAN
ASSUME SlimAssumption == SlimAssumed

\* The callbacks are finitely many, a thread has one role, and "none" is not one of them.
SourceAssumed ==
  /\ IsFiniteSet(Callbacks) /\ Users \cap Cancellers = {}
  /\ None \notin Callbacks /\ None \notin Cancellers
ASSUME SourceAssumption == SourceAssumed

\* The periods that may pass are bounded at will.
PeriodicAssumed == MaxTime \in Nat
ASSUME PeriodicAssumption == PeriodicAssumed

\* A timeout is a number of slices.
RegisteredAssumed == Intervals \subseteq Nat
ASSUME RegisteredAssumption == RegisteredAssumed

AllInit ==
  /\ part \in {"handle", "slim", "source", "periodic", "registered"}
  /\ Init /\ Slim!Init /\ Source!Init /\ Periodic!Init /\ Registered!Init
  /\ part # "handle" => set = [h \in Handles |-> FALSE]
                        /\ \A t \in Threads : call[t] = CHOOSE c \in Calls : TRUE
  /\ part # "slim" => set_ = FALSE
  /\ part # "periodic" => infinite_
  /\ part # "registered" => executeOnlyOnce /\ interval = 0

OnHandle(step) == part = "handle" /\ step /\ UNCHANGED <<part, slim, source, periodic, registered>>
OnSlim(step) == part = "slim" /\ step /\ UNCHANGED <<part, vars, source, periodic, registered>>
OnSource(step) == part = "source" /\ step /\ UNCHANGED <<part, vars, slim, periodic, registered>>
OnPeriodic(step) == part = "periodic" /\ step /\ UNCHANGED <<part, vars, slim, source, registered>>
OnRegistered(step) == part = "registered" /\ step /\ UNCHANGED <<part, vars, slim, source, periodic>>

AllNext ==
  \/ OnHandle(Next) \/ OnSlim(Slim!Next) \/ OnSource(Source!Next)
  \/ OnPeriodic(Periodic!Next) \/ OnRegistered(Registered!Next)

\* What each component asks of its threads in its own FairSpec.  Only the steps of
\* one component are ever enabled, so one condition may ask for a step of each.
AllSpec ==
  /\ AllInit /\ [][AllNext]_all
  /\ \A t \in Threads :
       /\ WF_all(\/ OnHandle(EnterWait(t) \/ WaitOne(t)) \/ OnSlim(Slim!Waiting(t))
                 \/ OnPeriodic(Periodic!Resume(t)))
       /\ WF_all(OnSlim(Slim!DeadlinePasses(t)) \/ OnPeriodic(Periodic!DeadlinePasses(t)))
  /\ \A s \in Setters \cup SlimSetters :
       WF_all(OnHandle(s \in Setters /\ SetNotifies(s)) \/ OnSlim(Slim!SetNotifies(s)))
  /\ \A k \in Cancellers : WF_all(OnSource(Source!Cancelling(k)))
  /\ \A u \in Users :
       /\ WF_all(OnSource(Source!InlineEnds(u)))
       /\ WF_all(OnSource(Source!ResumeDispose(u)) \/ OnRegistered(Registered!Join(u)))
  /\ WF_all(OnPeriodic(Periodic!DisposeNotifies) \/ OnRegistered(Registered!Worker))

\* The properties of the other components.
SlimInv == Slim!SlimInv
SleeperReleased == Slim!SleeperReleased
SourceInv == Source!SourceInv
CancelAndDisposeEnd == Source!CancelAndDisposeEnd
PeriodicInv == Periodic!PeriodicInv
DisposeEndsWait == Periodic!DisposeEndsWait
RegisteredInv == Registered!RegisteredInv
UnregisterEnds == Registered!UnregisterEnds
=============================================================================
