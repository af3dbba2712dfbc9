----------------------- MODULE ManualResetEventSlim ------------------------
(***************************************************************************)
(* ManualResetEventSlim.  Unlike EventWaitHandle, Set and Reset touch the  *)
(* atomic flag without taking mtx_, so a store or a notification can fall  *)
(* between a waiter's look at the flag and the moment it sleeps.  Every    *)
(* access to the flag, and the mutex, is a step of its own here.           *)
(***************************************************************************)
EXTENDS Naturals, FiniteSets

CONSTANTS Threads,   \* threads that wait
          Setters,   \* threads that call Set and Reset
          Timeouts,  \* {FALSE}: Wait() only; {TRUE}: Wait(ms) only; or both
          Disposable \* whether Dispose may be called

Free == "free"

VARIABLES set_, disposed_,
          mtx_,      \* the thread that holds the mutex, or Free
          pc,        \* where each thread stands
          timed, late,  \* the wait of a thread has a deadline, and it has passed
          result,    \* what the last wait of a thread returned
          seenSet    \* history: the event was set at some time during the wait

waits == <<pc, timed, late, result>>
vars  == <<set_, disposed_, mtx_, waits, seenSet>>

Init ==
  /\ set_ \in BOOLEAN
  /\ disposed_ = FALSE
  /\ mtx_ = Free
  /\ pc = [t \in Threads \cup Setters |-> "idle"]
  /\ timed = [t \in Threads |-> FALSE]
  /\ late = [t \in Threads |-> FALSE]
  /\ result = [t \in Threads |-> "none"]
  /\ seenSet = [t \in Threads |-> FALSE]

Return(t, r) ==
  /\ pc' = [pc EXCEPT ![t] = "idle"]
  /\ result' = [result EXCEPT ![t] = r]
  /\ late' = [late EXCEPT ![t] = FALSE]

GoTo(t, place) ==
  /\ pc' = [pc EXCEPT ![t] = place]
  /\ UNCHANGED <<result, late>>
-----------------------------------------------------------------------------
(* Wait() and Wait(ms). *)

\* ThrowIfDisposed ends the call when the event is disposed of.
StartWait(t, b) ==
  /\ pc[t] = "idle"
  /\ ~disposed_
  /\ pc' = [pc EXCEPT ![t] = "fastPath"]
  /\ result' = [result EXCEPT ![t] = "none"]
  /\ timed' = [timed EXCEPT ![t] = b]
  /\ seenSet' = [seenSet EXCEPT ![t] = set_]
  /\ UNCHANGED <<set_, disposed_, mtx_, late>>

\* The look at the flag that avoids the mutex.
FastPath(t) ==
  /\ pc[t] = "fastPath"
  /\ IF set_ THEN Return(t, "true") ELSE GoTo(t, "locking")
  /\ UNCHANGED <<set_, disposed_, mtx_, timed, seenSet>>

\* The mutex is taken, at first or on the way out of the sleep.
Lock(t) ==
  /\ pc[t] \in {"locking", "notified"}
  /\ mtx_ = Free
  /\ mtx_' = t
  /\ GoTo(t, "holding")
  /\ UNCHANGED <<set_, disposed_, timed, seenSet>>

\* MUTANT: a wait that reached its deadline reports success.
LateResultIsTrue == "true"

LateResult == "false"

\* The predicate is evaluated with the mutex held; wait_for returns its value
\* once the deadline has passed.
Evaluate(t) ==
  /\ pc[t] = "holding"
  /\ \/ set_ /\ Return(t, "true") /\ mtx_' = Free
     \/ ~set_ /\ late[t] /\ Return(t, LateResult) /\ mtx_' = Free
     \/ ~set_ /\ ~late[t] /\ GoTo(t, "falling") /\ UNCHANGED mtx_
  /\ UNCHANGED <<set_, disposed_, timed, seenSet>>

\* Releasing the mutex and going to sleep is one step; evaluating was another.
\* A sleep whose deadline has passed is over at once.
Sleep(t) ==
  /\ pc[t] = "falling"
  /\ mtx_' = Free
  /\ GoTo(t, IF late[t] THEN "notified" ELSE "parked")
  /\ UNCHANGED <<set_, disposed_, timed, seenSet>>

\* The deadline passes; a sleeping thread wakes up.  After it the wait does not
\* sleep again.
DeadlinePasses(t) ==
  /\ pc[t] \notin {"idle", "fastPath"}
  /\ timed[t] /\ ~late[t]
  /\ late' = [late EXCEPT ![t] = TRUE]
  /\ pc' = [pc EXCEPT ![t] = IF @ = "parked" THEN "notified" ELSE @]
  /\ UNCHANGED <<set_, disposed_, mtx_, timed, result, seenSet>>

SpuriousWakeup(t) ==
  /\ pc[t] = "parked"
  /\ GoTo(t, "notified")
  /\ UNCHANGED <<set_, disposed_, mtx_, timed, seenSet>>
-----------------------------------------------------------------------------
(* Set, Reset, Dispose. *)

\* The store of Set.
Set(s) ==
  /\ pc[s] = "idle"
  /\ set_' = TRUE
  /\ seenSet' = [t \in Threads |-> TRUE]
  /\ pc' = [pc EXCEPT ![s] = "notify"]
  /\ UNCHANGED <<disposed_, mtx_, timed, late, result>>

Sleepers == {t \in Threads : pc[t] = "parked"}

\* MUTANT: notify_one.
SetNotifiesOne(s) ==
  /\ pc[s] = "notify"
  /\ \/ Sleepers = {} /\ pc' = [pc EXCEPT ![s] = "idle"]
     \/ \E t \in Sleepers : pc' = [pc EXCEPT ![s] = "idle", ![t] = "notified"]
  /\ UNCHANGED <<set_, disposed_, mtx_, timed, late, result, seenSet>>

\* The notify_all of Set.
SetNotifies(s) ==
  /\ pc[s] = "notify"
  /\ pc' = [t \in Threads \cup Setters |->
              IF t = s THEN "idle" ELSE IF t \in Sleepers THEN "notified" ELSE pc[t]]
  /\ UNCHANGED <<set_, disposed_, mtx_, timed, late, result, seenSet>>

Reset(s) ==
  /\ pc[s] = "idle"
  /\ ~disposed_ /\ set_
  /\ set_' = FALSE
  /\ UNCHANGED <<disposed_, mtx_, waits, seenSet>>

Dispose ==
  /\ Disposable /\ ~disposed_
  /\ disposed_' = TRUE
  /\ UNCHANGED <<set_, mtx_, waits, seenSet>>
-----------------------------------------------------------------------------
Waiting(t) == FastPath(t) \/ Lock(t) \/ Evaluate(t) \/ Sleep(t)

Next ==
  \/ \E t \in Threads :
       Waiting(t) \/ DeadlinePasses(t) \/ SpuriousWakeup(t) \/ \E b \in Timeouts : StartWait(t, b)
  \/ \E s \in Setters : Set(s) \/ SetNotifies(s) \/ Reset(s)
  \/ Dispose

Spec == Init /\ [][Next]_vars

\* Threads inside a call keep running and deadlines pass.  Nobody has to call Set,
\* the platform owes no spurious wakeup, and the mutex need not be fair: while the
\* event is set, no wait that begins comes to the mutex.
FairSpec ==
  /\ Spec
  /\ \A t \in Threads : WF_vars(Waiting(t)) /\ WF_vars(DeadlinePasses(t))
  /\ \A s \in Setters : WF_vars(SetNotifies(s))
-----------------------------------------------------------------------------
(* Properties. *)

\* The type invariant.
TypeOK ==
  /\ set_ \in BOOLEAN
  /\ disposed_ \in BOOLEAN
  /\ mtx_ \in Threads \cup {Free}
  /\ \A t \in Threads :
       pc[t] \in {"idle", "fastPath", "locking", "holding", "falling", "parked", "notified"}
  /\ \A s \in Setters : pc[s] \in {"idle", "notify"}
  /\ timed \in [Threads -> BOOLEAN]
  /\ late \in [Threads -> BOOLEAN]
  /\ result \in [Threads -> {"none", "true", "false"}]
  /\ seenSet \in [Threads -> BOOLEAN]
  /\ \A t \in Threads : mtx_ = t <=> pc[t] \in {"holding", "falling"}

\* A wait that returned true overlapped a moment at which the event was set, and
\* only a wait with a deadline returns false.
ResultJustified ==
  \A t \in Threads : pc[t] = "idle" =>
    /\ result[t] = "true" => seenSet[t]
    /\ result[t] = "false" => timed[t]

\* The state is well formed and no wait reports what did not happen.
SlimInv == TypeOK /\ ResultJustified

\* A thread that sleeps when Set notifies returns, unless the event is reset.
SleeperReleased ==
  \A t \in Threads :
    pc[t] = "parked" /\ set_ /\ (\E s \in Setters : pc[s] = "notify") ~> pc[t] = "idle" \/ ~set_
=============================================================================
