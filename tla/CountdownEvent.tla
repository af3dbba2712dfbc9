--------------------------- MODULE CountdownEvent ---------------------------
(***************************************************************************)
(* CountdownEvent.  The counts are signed machine integers.                *)
(*                                                                         *)
(* Signal notifies with the mutex held and is one step.  Reset notifies    *)
(* after it has released the mutex, and Reset() reads initialCount_ before *)
(* it takes it: both are steps of their own.                               *)
(***************************************************************************)
EXTENDS Int32Counts

CONSTANTS Threads,        \* threads that use the event
          MaxResets       \* bound: calls of Reset in a behaviour

VARIABLES initialCount_, currentCount_, disposed_,
          pc,        \* where each thread stands
          timed,     \* its Wait has a deadline
          arg,       \* the argument of its Reset
          resets,    \* history: calls of Reset so far
          exact,     \* history: the count as an unbounded integer
          setters    \* history: calls of Signal since the last Reset that returned true

counts  == <<initialCount_, currentCount_>>
history == <<exact, setters>>
vars    == <<counts, disposed_, pc, timed, arg, resets, history>>

Init ==
  /\ initialCount_ \in InitialCounts
  /\ currentCount_ = initialCount_
  /\ disposed_ = FALSE
  /\ pc = [t \in Threads |-> "idle"]
  /\ timed = [t \in Threads |-> FALSE]
  /\ arg = [t \in Threads |-> 0]
  /\ resets = 0
  /\ exact = initialCount_
  /\ setters = 0

NotifyAll(f) == [t \in Threads |-> IF f[t] = "parked" THEN "notified" ELSE f[t]]

GoTo(t, place) == pc' = [pc EXCEPT ![t] = place]

\* ThrowIfDisposed lets the call in.
Call(t, place) == pc[t] = "idle" /\ ~disposed_ /\ GoTo(t, place)
-----------------------------------------------------------------------------
(* Signal and AddCount. *)

StartSignal(t) ==
  /\ Call(t, "signalling")
  /\ UNCHANGED <<counts, disposed_, timed, arg, resets, history>>

SignalRefused(n) == currentCount_ = 0 \/ currentCount_ < n

\* This Signal takes the count to zero.
Sets(n) == currentCount_ - n = 0

Signal(t, n) ==
  /\ pc[t] = "signalling"
  /\ \/ /\ SignalRefused(n)  \* throws
        /\ GoTo(t, "idle")
        /\ UNCHANGED <<currentCount_, history>>
     \/ /\ ~SignalRefused(n)
        /\ currentCount_' = Wrap(currentCount_ - n)
        /\ exact' = exact - n
        /\ \/ /\ Sets(n)
              /\ setters' = setters + 1
              /\ pc' = NotifyAll([pc EXCEPT ![t] = "idle"])
           \/ /\ ~Sets(n)
              /\ GoTo(t, "idle")
              /\ UNCHANGED setters
  /\ UNCHANGED <<initialCount_, disposed_, timed, arg, resets>>

StartAdd(t) ==
  /\ Call(t, "adding")
  /\ UNCHANGED <<counts, disposed_, timed, arg, resets, history>>

\* MUTANT: the sum is compared, after it has wrapped.
AddRefusedBySum(n) == currentCount_ = 0 \/ Wrap(currentCount_ + n) > IntMax

AddRefused(n) == currentCount_ = 0 \/ currentCount_ > IntMax - n

AddCount(t, n) ==
  /\ pc[t] = "adding"
  /\ \/ AddRefused(n) /\ UNCHANGED <<currentCount_, exact>>  \* throws
     \/ /\ ~AddRefused(n)
        /\ currentCount_' = Wrap(currentCount_ + n)
        /\ exact' = exact + n
  /\ GoTo(t, "idle")
  /\ UNCHANGED <<initialCount_, disposed_, timed, arg, resets, setters>>
-----------------------------------------------------------------------------
(* Reset. *)

\* Reset(count).
StartReset(t, n) ==
  /\ resets < MaxResets
  /\ resets' = resets + 1
  /\ Call(t, "resetting")
  /\ arg' = [arg EXCEPT ![t] = n]
  /\ UNCHANGED <<counts, disposed_, timed, history>>

\* Reset(): initialCount_ is read first, without the mutex.
StartResetInitial(t) == StartReset(t, initialCount_)

\* The critical section of Reset(count).
Reset(t) ==
  /\ pc[t] = "resetting"
  /\ initialCount_' = arg[t]
  /\ currentCount_' = arg[t]
  /\ exact' = arg[t]
  /\ setters' = 0
  /\ GoTo(t, "notifying")
  /\ UNCHANGED <<disposed_, timed, arg, resets>>

\* MUTANT: Reset notifies nobody.
NotifyResetNot(t) ==
  /\ pc[t] = "notifying"
  /\ GoTo(t, "idle")
  /\ arg' = [arg EXCEPT ![t] = 0]
  /\ UNCHANGED <<counts, disposed_, timed, resets, history>>

\* The notification, "unconditional rather than guarded on count == 0".
NotifyReset(t) ==
  /\ pc[t] = "notifying"
  /\ pc' = NotifyAll([pc EXCEPT ![t] = "idle"])
  /\ arg' = [arg EXCEPT ![t] = 0]
  /\ UNCHANGED <<counts, disposed_, timed, resets, history>>
-----------------------------------------------------------------------------
(* Wait. *)

StartWait(t, b) ==
  /\ Call(t, "waiting")
  /\ timed' = [timed EXCEPT ![t] = b]
  /\ UNCHANGED <<counts, disposed_, arg, resets, history>>

ReturnFromWait(t) == GoTo(t, "idle") /\ timed' = [timed EXCEPT ![t] = FALSE]

\* The critical section of Wait, entered for the first time or after a wakeup.
Wait(t) ==
  /\ pc[t] \in {"waiting", "notified"}
  /\ \/ currentCount_ = 0 /\ ReturnFromWait(t)
     \/ currentCount_ # 0 /\ GoTo(t, "parked") /\ UNCHANGED timed
  /\ UNCHANGED <<counts, disposed_, arg, resets, history>>

\* A spurious wakeup, or a deadline, between Reset(0) and its notification.
WakeEarly(t) ==
  /\ pc[t] = "parked" /\ currentCount_ = 0
  /\ GoTo(t, "notified")
  /\ UNCHANGED <<counts, disposed_, timed, arg, resets, history>>

\* wait_for gives up; its result is the value of the predicate.
TimeOut(t) ==
  /\ pc[t] \in {"parked", "notified"}
  /\ timed[t] /\ currentCount_ # 0
  /\ ReturnFromWait(t)
  /\ UNCHANGED <<counts, disposed_, arg, resets, history>>

Dispose ==
  /\ ~disposed_
  /\ disposed_' = TRUE
  /\ UNCHANGED <<counts, pc, timed, arg, resets, history>>
-----------------------------------------------------------------------------
Next ==
  \/ \E t \in Threads :
       \/ StartSignal(t) \/ StartAdd(t) \/ StartResetInitial(t)
       \/ \E n \in InitialCounts : StartReset(t, n)
       \/ \E b \in BOOLEAN : StartWait(t, b)
       \/ \E n \in Amounts : Signal(t, n) \/ AddCount(t, n)
       \/ Reset(t) \/ NotifyReset(t)
       \/ Wait(t) \/ WakeEarly(t) \/ TimeOut(t)
  \/ Dispose

Spec == Init /\ [][Next]_vars

\* A thread inside Wait or Reset keeps running; nobody has to signal, and no
\* deadline or spurious wakeup is relied on.
FairSpec == Spec /\ \A t \in Threads : WF_vars(Wait(t)) /\ WF_vars(Reset(t)) /\ WF_vars(NotifyReset(t))
-----------------------------------------------------------------------------
(* Properties. *)

\* The type invariant.
TypeOK ==
  /\ initialCount_ \in 0..IntMax
  /\ currentCount_ \in -(IntMax + 1)..IntMax
  /\ disposed_ \in BOOLEAN
  /\ pc \in [Threads -> {"idle", "signalling", "adding", "resetting", "notifying",
                         "waiting", "parked", "notified"}]
  /\ timed \in [Threads -> BOOLEAN]
  /\ arg \in [Threads -> 0..IntMax]
  /\ resets \in Nat
  /\ exact \in Int
  /\ setters \in Nat

\* The count is never negative and is exactly what was set, plus what AddCount
\* added, minus what Signal took since then: no addition wraps and no refused
\* call has half an effect.
CountExact == currentCount_ >= 0 /\ currentCount_ = exact

\* Between two resets at most one Signal reports that it brought the count to
\* zero, and once one has, the count stays zero: AddCount cannot revive the event.
OneSetter ==
  /\ setters <= 1
  /\ setters = 1 => currentCount_ = 0
  /\ currentCount_ = 0 => setters = 1 \/ initialCount_ = 0

\* A thread sleeps on an event that is set only while a Reset(0) still has its
\* notification to send.
NoLostWakeup ==
  \A t \in Threads : pc[t] = "parked" /\ currentCount_ = 0 => \E u \in Threads : pc[u] = "notifying"

\* The count is right, set at most once, and known to those who wait for it.
CountdownInv == TypeOK /\ CountExact /\ OneSetter /\ NoLostWakeup

\* An event that is set lets its waiters go, unless it is reset first.
SetReleasesWaiters ==
  \A t \in Threads :
    pc[t] \in {"waiting", "parked", "notified"} /\ currentCount_ = 0
      ~> pc[t] = "idle" \/ currentCount_ # 0
=============================================================================
