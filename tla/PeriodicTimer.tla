--------------------------- MODULE PeriodicTimer ---------------------------
(***************************************************************************)
(* PeriodicTimer: one consumer at a time waits for the next tick.  Time is *)
(* counted in periods: tick n is due from time n on, and next_ is the tick *)
(* that the next wait is for.  Everything but the sleep and Dispose's      *)
(* notification happens with mtx_ held.                                    *)
(***************************************************************************)
EXTENDS Naturals, FiniteSets

CONSTANTS Threads,   \* consumers
          MaxTime    \* bound: periods that pass

VARIABLES infinite_, next_, disposed_, activeWait_,
          now,
          pc,        \* a consumer is idle, parked, awake, or late: its deadline has passed
          notifying, \* Dispose has set the flag and not notified yet
          ticks      \* history: waits that returned true

vars == <<infinite_, next_, disposed_, activeWait_, now, pc, notifying, ticks>>

Init ==
  /\ infinite_ \in BOOLEAN
  /\ next_ = 1 /\ now = 0
  /\ disposed_ = FALSE /\ activeWait_ = FALSE /\ notifying = FALSE
  /\ pc = [t \in Threads |-> "idle"]
  /\ ticks = 0

\* MUTANT: never (as before ticket #1957).
RefusedNever == FALSE

\* Whether a wait that begins is refused.
Refused == activeWait_

\* WaitForNextTick up to the sleep: refused while somebody waits, over at once when
\* the timer is disposed of.
WaitForNextTick(t) ==
  /\ pc[t] = "idle" /\ ~Refused /\ ~disposed_
  /\ activeWait_' = TRUE
  /\ pc' = [pc EXCEPT ![t] = "parked"]
  /\ UNCHANGED <<infinite_, next_, disposed_, now, notifying, ticks>>

Due == ~infinite_ /\ now >= next_

\* The sleep ends without a reason.
WakeUp(t) ==
  /\ pc[t] = "parked"
  /\ pc' = [pc EXCEPT ![t] = "awake"]
  /\ UNCHANGED <<infinite_, next_, disposed_, activeWait_, now, notifying, ticks>>

\* The deadline passes: wait_until reports it, whatever the sleeper was woken for.
DeadlinePasses(t) ==
  /\ pc[t] \in {"parked", "awake"} /\ Due
  /\ pc' = [pc EXCEPT ![t] = "late"]
  /\ UNCHANGED <<infinite_, next_, disposed_, activeWait_, now, notifying, ticks>>

\* The mutex is held again: who was woken goes on waiting unless the timer is disposed
\* of, who is late has its tick unless it is.  The guard clears activeWait_ on every way
\* out.
Resume(t) ==
  /\ pc[t] \in {"awake", "late"}
  /\ IF disposed_ \/ pc[t] = "late"
       THEN /\ activeWait_' = FALSE
            /\ pc' = [pc EXCEPT ![t] = "idle"]
            /\ next_' = IF disposed_ THEN next_ ELSE next_ + 1
            /\ ticks' = IF disposed_ THEN ticks ELSE ticks + 1
       ELSE /\ pc' = [pc EXCEPT ![t] = "parked"]
            /\ UNCHANGED <<activeWait_, next_, ticks>>
  /\ UNCHANGED <<infinite_, disposed_, now, notifying>>

Dispose ==
  /\ ~notifying
  /\ disposed_' = TRUE
  /\ notifying' = TRUE
  /\ UNCHANGED <<infinite_, next_, activeWait_, now, pc, ticks>>

\* MUTANT: the wait is not interrupted.
WokenNever(t) == pc[t]

Woken(t) == IF pc[t] = "parked" THEN "awake" ELSE pc[t]

DisposeNotifies ==
  /\ notifying
  /\ notifying' = FALSE
  /\ pc' = [t \in Threads |-> Woken(t)]
  /\ UNCHANGED <<infinite_, next_, disposed_, activeWait_, now, ticks>>

TimePasses ==
  /\ now < MaxTime
  /\ now' = now + 1
  /\ UNCHANGED <<infinite_, next_, disposed_, activeWait_, pc, notifying, ticks>>

Next ==
  \/ \E t \in Threads : WaitForNextTick(t) \/ WakeUp(t) \/ DeadlinePasses(t) \/ Resume(t)
  \/ Dispose \/ DisposeNotifies \/ TimePasses

Spec == Init /\ [][Next]_vars

\* Threads inside a call keep running; a deadline that has passed wakes its sleeper.
FairSpec ==
  /\ Spec
  /\ WF_vars(DisposeNotifies)
  /\ \A t \in Threads : WF_vars(Resume(t)) /\ WF_vars(DeadlinePasses(t))
-----------------------------------------------------------------------------
(* Properties. *)

\* The type invariant.
TypeOK ==
  /\ {infinite_, disposed_, activeWait_, notifying} \subseteq BOOLEAN
  /\ next_ \in Nat /\ now \in 0..MaxTime /\ ticks \in Nat
  /\ pc \in [Threads -> {"idle", "parked", "awake", "late"}]

\* "two concurrent waiters both returned true for ONE tick": no more waits succeed than
\* periods have passed, and one consumer waits at a time; whoever leaves makes room.
PeriodicInv ==
  /\ TypeOK
  /\ ticks <= now
  /\ Cardinality({t \in Threads : pc[t] # "idle"}) = IF activeWait_ THEN 1 ELSE 0

\* Dispose releases the consumer, also that of a timer that never ticks.
DisposeEndsWait == disposed_ ~> \A t \in Threads : pc[t] = "idle"
=============================================================================
