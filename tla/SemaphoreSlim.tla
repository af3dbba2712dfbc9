--------------------------- MODULE SemaphoreSlim ---------------------------
(***************************************************************************)
(* SemaphoreSlim, and Semaphore, which has the same body without Dispose.  *)
(* count_ is a signed machine integer.                                     *)
(*                                                                         *)
(* Release notifies with the mutex held, so every critical section is one  *)
(* step.                                                                   *)
(***************************************************************************)
EXTENDS Int32Counts, FiniteSets

CONSTANTS Threads,        \* threads that wait and release
          MaxCounts,      \* the constructor's second argument
          MaxReleases,    \* bound: permits released in a behaviour
          Disposable      \* FALSE: a Semaphore, which has no disposed state

\* What the constructor accepts.
ASSUME CountsAssumption ==
  MaxCounts \subseteq 1..IntMax /\ MaxReleases \in Nat /\ Disposable \in BOOLEAN

VARIABLES count_, maxCount_, disposed_,
          pc,        \* where each thread stands
          timed,     \* its wait has a deadline
          initial, released, acquired  \* history: permits at first, put back, handed out

history == <<initial, released, acquired>>
vars    == <<count_, maxCount_, disposed_, pc, timed, history>>

Init ==
  /\ count_ \in InitialCounts
  /\ maxCount_ \in MaxCounts
  /\ count_ <= maxCount_
  /\ disposed_ = FALSE
  /\ pc = [t \in Threads |-> "idle"]
  /\ timed = [t \in Threads |-> FALSE]
  /\ initial = count_
  /\ released = 0
  /\ acquired = 0

Call(t, place) ==
  /\ pc[t] = "idle"
  /\ ~disposed_
  /\ pc' = [pc EXCEPT ![t] = place]

Return(t) == pc' = [pc EXCEPT ![t] = "idle"]
-----------------------------------------------------------------------------
StartWait(t, b) ==
  /\ Call(t, "waiting")
  /\ timed' = [timed EXCEPT ![t] = b]
  /\ UNCHANGED <<count_, maxCount_, disposed_, history>>

\* The critical section of Wait, entered for the first time or after a wakeup.
Wait(t) ==
  /\ pc[t] \in {"waiting", "notified"}
  /\ \/ /\ count_ > 0
        /\ count_' = count_ - 1
        /\ acquired' = acquired + 1
        /\ Return(t)  \* true
     \/ /\ count_ <= 0
        /\ pc' = [pc EXCEPT ![t] = "parked"]
        /\ UNCHANGED <<count_, acquired>>
  /\ UNCHANGED <<maxCount_, disposed_, timed, initial, released>>

\* wait_for gives up; its result is the value of the predicate.
TimeOut(t) ==
  /\ pc[t] \in {"parked", "notified"}
  /\ timed[t] /\ count_ <= 0
  /\ Return(t)
  /\ UNCHANGED <<count_, maxCount_, disposed_, timed, history>>

StartRelease(t) ==
  /\ Call(t, "releasing")
  /\ UNCHANGED <<count_, maxCount_, disposed_, timed, history>>

\* MUTANT: "The obvious count_ + releaseCount > maxCount_".
FullBySum(n) == Wrap(count_ + n) > maxCount_

Full(n) == Wrap(maxCount_ - count_) < n

\* MUTANT: no notification.
NotifyNobody(f) == f

NotifyAll(f) == [t \in Threads |-> IF f[t] = "parked" THEN "notified" ELSE f[t]]

\* The critical section of Release.
Release(t, n) ==
  /\ pc[t] = "releasing"
  /\ \/ /\ Full(n)
        /\ Return(t)  \* throws SemaphoreFullException
        /\ UNCHANGED <<count_, released>>
     \/ /\ ~Full(n)
        /\ released + n <= MaxReleases
        /\ count_' = Wrap(count_ + n)
        /\ released' = released + n
        /\ pc' = NotifyAll([pc EXCEPT ![t] = "idle"])
  /\ UNCHANGED <<maxCount_, disposed_, timed, initial, acquired>>

Dispose ==
  /\ Disposable /\ ~disposed_
  /\ disposed_' = TRUE
  /\ UNCHANGED <<count_, maxCount_, pc, timed, history>>
-----------------------------------------------------------------------------
Next ==
  \/ \E t \in Threads :
       \/ \E b \in BOOLEAN : StartWait(t, b)
       \/ Wait(t) \/ TimeOut(t) \/ StartRelease(t)
       \/ \E n \in Amounts : Release(t, n)
  \/ Dispose

Spec == Init /\ [][Next]_vars

\* A thread inside Wait keeps running; nobody has to release, no deadline is
\* relied on.
FairSpec == Spec /\ \A t \in Threads : WF_vars(Wait(t))
-----------------------------------------------------------------------------
(* Properties. *)

\* The type invariant.
TypeOK ==
  /\ count_ \in -(IntMax + 1)..IntMax
  /\ maxCount_ \in MaxCounts
  /\ disposed_ \in BOOLEAN
  /\ pc \in [Threads -> {"idle", "waiting", "parked", "notified", "releasing"}]
  /\ timed \in [Threads -> BOOLEAN]
  /\ initial \in Nat
  /\ released \in Nat
  /\ acquired \in Nat

\* "0 <= count_ <= maxCount_ and every Wait/Release preserves it", so that neither
\* the subtraction of the guard nor the addition after it overflows.
CountInRange == count_ \in 0..maxCount_

\* Permits are neither made nor lost: a timed-out wait takes none, a rejected
\* Release adds none, and no addition wraps.
PermitsConserved == count_ = initial + released - acquired

\* No thread sleeps while there is a permit that it has not been told of.
NoLostWakeup == \A t \in Threads : pc[t] = "parked" => count_ = 0

\* The permits are all accounted for, and nobody sleeps who could have one.
SemaphoreInv == TypeOK /\ CountInRange /\ PermitsConserved /\ NoLostWakeup

\* A thread in Wait() gets through, unless others keep taking the permits.
PermitReachesWaiter ==
  \A t \in Threads :
    pc[t] \in {"waiting", "parked", "notified"} /\ ~timed[t] /\ count_ > 0
      ~> pc[t] = "idle" \/ count_ = 0
=============================================================================
