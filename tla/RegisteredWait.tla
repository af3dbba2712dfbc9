--------------------------- MODULE RegisteredWait ---------------------------
(***************************************************************************)
(* RegisteredWaitHandle: a thread of its own waits, in slices, for a       *)
(* caller's WaitHandle (here: an auto-reset event) and calls back, until   *)
(* somebody unregisters it.  Unregister joins the thread, so that the      *)
(* caller may delete the handle; a callback that unregisters itself        *)
(* detaches its thread instead.                                            *)
(***************************************************************************)
EXTENDS Naturals, FiniteSets

CONSTANTS Users,        \* threads that unregister
          Intervals,    \* timeouts, in slices; 0: no timeout
          MaxCallbacks  \* bound: callbacks in a behaviour

VARIABLES unregistered, executeOnlyOnce, interval,
          signaled,     \* the event
          elapsed,      \* slices waited in this round
          pc, timedOut, \* where the worker stands; what it tells the callback
          joining,      \* users inside Unregister
          returned,     \* history: an Unregister that a user called has returned true
          taken, called \* history: signals the worker took, callbacks it made for them

vars == <<unregistered, executeOnlyOnce, interval, signaled, elapsed, pc, timedOut, joining, returned,
          taken, called>>
options == <<executeOnlyOnce, interval>>

Init ==
  /\ unregistered = FALSE
  /\ executeOnlyOnce \in BOOLEAN /\ interval \in Intervals
  /\ signaled = FALSE
  /\ elapsed = 0
  /\ pc = "test" /\ timedOut = FALSE
  /\ joining = {} /\ returned = FALSE
  /\ taken = 0 /\ called = 0
-----------------------------------------------------------------------------
(* The worker. *)

\* MUTANT: only a slice that ends with a signal looks at the flag.
LoopEndsNever == FALSE

LoopEnds == unregistered

\* The conditions of both loops; a round begins with nothing elapsed.
Test ==
  /\ pc = "test"
  /\ pc' = IF LoopEnds THEN "done" ELSE "waiting"
  /\ UNCHANGED <<unregistered, options, signaled, elapsed, timedOut, joining, returned, taken, called>>

\* WaitOne of one slice takes the signal ...
TakeSignal ==
  /\ pc = "waiting" /\ signaled
  /\ signaled' = FALSE
  /\ taken' = taken + 1
  /\ timedOut' = FALSE
  /\ pc' = "woken"
  /\ UNCHANGED <<unregistered, options, elapsed, joining, returned, called>>

\* ... or ends without it.
SliceEnds ==
  /\ pc = "waiting" /\ ~signaled
  /\ IF interval = 0
       THEN pc' = "test" /\ UNCHANGED <<elapsed, timedOut>>
       ELSE /\ elapsed' = elapsed + 1
            /\ timedOut' = (elapsed + 1 >= interval)
            /\ pc' = IF elapsed + 1 >= interval THEN "woken" ELSE "test"
  /\ UNCHANGED <<unregistered, options, signaled, joining, returned, taken, called>>

\* The look at the flag before the callback.
Decide ==
  /\ pc = "woken"
  /\ pc' = IF unregistered THEN "done" ELSE "calling"
  /\ UNCHANGED <<unregistered, options, signaled, elapsed, timedOut, joining, returned, taken, called>>

CallbackReturns ==
  /\ pc = "calling"
  /\ called' = IF timedOut THEN called ELSE called + 1
  /\ pc' = IF executeOnlyOnce THEN "done" ELSE "test"
  /\ elapsed' = 0
  /\ UNCHANGED <<unregistered, options, signaled, timedOut, joining, returned, taken>>

\* The callback unregisters itself: the thread is detached, and nobody joins it.
UnregisterSelf ==
  /\ pc = "calling" /\ ~unregistered
  /\ unregistered' = TRUE
  /\ UNCHANGED <<options, signaled, elapsed, pc, timedOut, joining, returned, taken, called>>
-----------------------------------------------------------------------------
(* The users. *)

\* The exchange of Unregister: the first one goes on to join, any other returns false.
Unregister(u) ==
  /\ ~unregistered
  /\ unregistered' = TRUE
  /\ joining' = joining \cup {u}
  /\ UNCHANGED <<options, signaled, elapsed, pc, timedOut, returned, taken, called>>

\* MUTANT: Unregister does not wait.
JoinableAlways == TRUE

Joinable == pc = "done"

Join(u) ==
  /\ u \in joining /\ Joinable
  /\ joining' = joining \ {u}
  /\ returned' = TRUE
  /\ UNCHANGED <<unregistered, options, signaled, elapsed, pc, timedOut, taken, called>>

\* Somebody sets the event.
SetEvent ==
  /\ ~signaled /\ taken < MaxCallbacks
  /\ signaled' = TRUE
  /\ UNCHANGED <<unregistered, options, elapsed, pc, timedOut, joining, returned, taken, called>>
-----------------------------------------------------------------------------
Worker == Test \/ TakeSignal \/ SliceEnds \/ Decide \/ CallbackReturns

Next ==
  \/ Worker \/ UnregisterSelf \/ SetEvent
  \/ \E u \in Users : Unregister(u) \/ Join(u)

Spec == Init /\ [][Next]_vars

\* The worker keeps running: slices end, callbacks return; a join of a thread that has
\* ended returns.
FairSpec == Spec /\ WF_vars(Worker) /\ \A u \in Users : WF_vars(Join(u))
-----------------------------------------------------------------------------
(* Properties. *)

\* The type invariant.
TypeOK ==
  /\ {unregistered, executeOnlyOnce, signaled, timedOut, returned} \subseteq BOOLEAN
  /\ interval \in Intervals /\ elapsed \in Nat
  /\ pc \in {"test", "waiting", "woken", "calling", "done"}
  /\ joining \subseteq Users
  /\ taken \in Nat /\ called \in Nat

\* "a caller that deletes waitObject right after Unregister() returns": the worker
\* neither waits for the handle nor calls back any more.
QuietAfterUnregister == returned => pc = "done"

\* A signal that the worker took from the event is passed on, unless the wait was
\* unregistered meanwhile.
SignalPassedOn ==
  taken > called => pc \in {"woken", "calling"} \/ (pc = "done" /\ unregistered)

RegisteredInv == TypeOK /\ QuietAfterUnregister /\ SignalPassedOn

\* Unregister returns, however the worker is occupied, and also when its callback has
\* unregistered itself the worker comes to an end.
UnregisterEnds == unregistered ~> pc = "done" /\ joining = {}
=============================================================================
