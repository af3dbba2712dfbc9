------------------------------ MODULE Monitor ------------------------------
(***************************************************************************)
(* Monitor and Mutex, on one object.  Both keep an owner and a depth next  *)
(* to a recursive mutex, and ask the owner, without the mutex, whether the *)
(* caller holds it (Lock is Monitor without Wait and Pulse).  Monitor::Wait *)
(* gives up every level for the time of the wait and restores them.        *)
(*                                                                         *)
(* Taking the mutex and noting it are separate steps, and so are the note  *)
(* and the release on the way out.                                         *)
(***************************************************************************)
EXTENDS Naturals, FiniteSets

CONSTANTS Threads,
          Kinds,     \* subset of {"Monitor", "Mutex"}
          MaxDepth   \* bound: levels a thread enters

None == "none"

VARIABLES kind, closed_,
          holder, levels,    \* the recursive mutex: its thread and how often it locked it
          owner, depth,      \* the bookkeeping
          pc,
          saved,             \* saved[t]: the depth that a Wait of t has to restore
          entered            \* history: what t has entered and not left, as t sees it

mutex == <<holder, levels>>
notes == <<owner, depth>>
vars == <<kind, closed_, mutex, notes, pc, saved, entered>>

Init ==
  /\ kind \in Kinds
  /\ closed_ = FALSE
  /\ holder = None /\ levels = 0
  /\ owner = None /\ depth = 0
  /\ pc = [t \in Threads |-> "idle"]
  /\ saved = [t \in Threads |-> 0]
  /\ entered = [t \in Threads |-> 0]

GoTo(t, place) == pc' = [pc EXCEPT ![t] = place]
-----------------------------------------------------------------------------
(* Enter, TryEnter, WaitOne; Exit, ReleaseMutex. *)

\* ThrowIfClosed: a closed Mutex refuses every later call.
Open == kind = "Mutex" => ~closed_

HeldByCurrentThread(t) == owner = t

Enter(t) ==
  /\ pc[t] = "idle" /\ Open
  /\ entered[t] < MaxDepth
  /\ GoTo(t, "locking")
  /\ UNCHANGED <<kind, closed_, mutex, notes, saved, entered>>

MayLock(t) == holder \in {None, t}

Lock(t) ==
  /\ pc[t] = "locking" /\ MayLock(t)
  /\ holder' = t
  /\ levels' = levels + 1
  /\ GoTo(t, "locked")
  /\ UNCHANGED <<kind, closed_, notes, saved, entered>>

\* A try_lock, or the end of try_lock_for, that finds the mutex taken.
GiveUp(t) ==
  /\ pc[t] = "locking" /\ ~MayLock(t)
  /\ GoTo(t, "idle")
  /\ UNCHANGED <<kind, closed_, mutex, notes, saved, entered>>

OnAcquired(t) ==
  /\ pc[t] = "locked"
  /\ depth' = depth + 1
  /\ owner' = IF depth = 0 THEN t ELSE owner
  /\ entered' = [entered EXCEPT ![t] = @ + 1]
  /\ GoTo(t, "idle")
  /\ UNCHANGED <<kind, closed_, mutex, saved>>

OwnerAfterRelease == IF depth = 1 THEN None ELSE owner

\* The caller that does not hold it gets an exception and changes nothing.
OnReleasing(t) ==
  /\ pc[t] = "idle" /\ Open /\ HeldByCurrentThread(t)
  /\ depth' = depth - 1
  /\ owner' = OwnerAfterRelease
  /\ entered' = [entered EXCEPT ![t] = @ - 1]
  /\ GoTo(t, "unlocking")
  /\ UNCHANGED <<kind, closed_, mutex, saved>>

Unlock(t) ==
  /\ pc[t] = "unlocking"
  /\ levels' = levels - 1
  /\ holder' = IF levels = 1 THEN None ELSE holder
  /\ GoTo(t, "idle")
  /\ UNCHANGED <<kind, closed_, notes, saved, entered>>

\* Mutex::Dispose, by anyone at any time.
Dispose ==
  /\ kind = "Mutex" /\ ~closed_
  /\ closed_' = TRUE
  /\ UNCHANGED <<kind, mutex, notes, pc, saved, entered>>
-----------------------------------------------------------------------------
(* Wait, Pulse, PulseAll. *)

\* MUTANT: one level is released, as condition_variable_any::wait does by itself.
KeptOneLess == levels - 1

\* The levels the mutex still has while its thread sleeps.
Kept == 0

\* WaitCore up to the sleep: the extra levels and the bookkeeping go while the mutex
\* is held, the last level as the thread falls asleep.
Wait(t) ==
  /\ kind = "Monitor"
  /\ pc[t] = "idle" /\ HeldByCurrentThread(t)
  /\ saved' = [saved EXCEPT ![t] = depth]
  /\ owner' = None /\ depth' = 0
  /\ levels' = Kept
  /\ holder' = IF Kept = 0 THEN None ELSE holder
  /\ GoTo(t, "parked")
  /\ UNCHANGED <<kind, closed_, entered>>

\* The wait is over by its timeout, or early: there is no predicate to look at.
WakeUp(t) ==
  /\ pc[t] = "parked"
  /\ GoTo(t, "woken")
  /\ UNCHANGED <<kind, closed_, mutex, notes, saved, entered>>

\* The sleep ends with one level of the mutex ...
Relock(t) ==
  /\ pc[t] = "woken" /\ MayLock(t)
  /\ holder' = t
  /\ levels' = levels + 1
  /\ GoTo(t, "restoring")
  /\ UNCHANGED <<kind, closed_, notes, saved, entered>>

\* ... and WaitCore takes the others and restores the bookkeeping.
Restore(t) ==
  /\ pc[t] = "restoring"
  /\ levels' = levels + (saved[t] - 1)
  /\ owner' = t /\ depth' = saved[t]
  /\ saved' = [saved EXCEPT ![t] = 0]
  /\ GoTo(t, "idle")
  /\ UNCHANGED <<kind, closed_, holder, entered>>

Sleepers == {t \in Threads : pc[t] = "parked"}

Pulse(t) ==
  /\ kind = "Monitor"
  /\ pc[t] = "idle" /\ HeldByCurrentThread(t)
  /\ \E u \in Sleepers : GoTo(u, "woken")
  /\ UNCHANGED <<kind, closed_, mutex, notes, saved, entered>>

PulseAll(t) ==
  /\ kind = "Monitor"
  /\ pc[t] = "idle" /\ HeldByCurrentThread(t)
  /\ Sleepers # {}
  /\ pc' = [u \in Threads |-> IF u \in Sleepers THEN "woken" ELSE pc[u]]
  /\ UNCHANGED <<kind, closed_, mutex, notes, saved, entered>>
-----------------------------------------------------------------------------
Next ==
  \/ \E t \in Threads :
       \/ Enter(t) \/ Lock(t) \/ GiveUp(t) \/ OnAcquired(t) \/ OnReleasing(t) \/ Unlock(t)
       \/ Wait(t) \/ WakeUp(t) \/ Relock(t) \/ Restore(t) \/ Pulse(t) \/ PulseAll(t)
  \/ Dispose

Spec == Init /\ [][Next]_vars
-----------------------------------------------------------------------------
(* Properties. *)

\* The type invariant.
TypeOK ==
  /\ kind \in Kinds /\ closed_ \in BOOLEAN
  /\ holder \in Threads \cup {None} /\ levels \in 0..MaxDepth
  /\ owner \in Threads \cup {None} /\ depth \in 0..MaxDepth
  /\ pc \in [Threads -> {"idle", "locking", "locked", "unlocking", "parked", "woken", "restoring"}]
  /\ saved \in [Threads -> 0..MaxDepth]
  /\ entered \in [Threads -> 0..MaxDepth]

Waiting(t) == pc[t] \in {"parked", "woken", "restoring"}

\* What a thread has entered it holds, at the very depth it entered it and with every
\* level of the mutex, also after a Wait; and so nobody else holds any of it.
HeldAsEntered ==
  \A t \in Threads : entered[t] > 0 /\ ~Waiting(t) =>
    /\ holder = t /\ owner = t /\ depth = entered[t]
    /\ pc[t] \in {"idle", "locking"} => levels = depth

\* "owner is empty whenever depth is zero", and a thread finds itself to be the owner
\* only while it is in.
OwnerIsIn == (owner = None <=> depth = 0) /\ (owner # None => entered[owner] > 0 /\ ~Waiting(owner))

\* A thread in Wait keeps the mutex from nobody (ticket #2341), and what it had entered
\* is what it will restore.
WaiterIsOut ==
  \A t \in Threads :
    /\ pc[t] \in {"parked", "woken"} => holder # t
    /\ Waiting(t) => saved[t] = entered[t]

\* The bookkeeping tells the truth about the mutex.
MonitorInv == TypeOK /\ HeldAsEntered /\ OwnerIsIn /\ WaiterIsOut
=============================================================================
