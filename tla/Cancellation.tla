---------------------------- MODULE Cancellation ----------------------------
(***************************************************************************)
(* CancellationTokenSource, CancellationToken::Register and                *)
(* CancellationTokenRegistration::Dispose around the CancellationState     *)
(* they share.  Callbacks run outside the mutex; what they do is left      *)
(* open, except that they may throw and may dispose of registrations.      *)
(***************************************************************************)
EXTENDS Naturals, FiniteSets

CONSTANTS Users,       \* threads that register callbacks and dispose of registrations
          Cancellers,  \* threads that call Cancel
          Callbacks,   \* each registered once at most
          None         \* no callback, no thread

Actors == Users \cup Cancellers

VARIABLES cancelled, nextId, executing, executingThread, disposed,
          callbacks,   \* the pending map, as the set of its callbacks
          id,          \* id[c]: the key c was registered under
          toRun,       \* callbacksToRun of the Cancel that won
          pc, target,  \* where a thread stands, and the callback it is busy with
          reg,         \* what became of the registration object of c
          begun, ended,   \* history: runs of c begun and ended
          lastRun,     \* history: the last callback that Cancel started
          caught,      \* history: Dispose(c) found c executing on another thread
          threw        \* some callback of Cancel has thrown

state   == <<cancelled, nextId, executing, executingThread, disposed, callbacks, id, toRun>>
history == <<begun, ended, lastRun, caught>>
vars    == <<state, pc, target, reg, history, threw>>

Init ==
  /\ cancelled = FALSE
  /\ nextId = 0
  /\ executing = None
  /\ executingThread = None
  /\ disposed = FALSE
  /\ callbacks = {}
  /\ id = [c \in Callbacks |-> 0]
  /\ toRun = {}
  /\ pc = [t \in Actors |-> "idle"]
  /\ target = [t \in Actors |-> None]
  /\ reg = [c \in Callbacks |-> "none"]
  /\ begun = [c \in Callbacks |-> 0]
  /\ ended = [c \in Callbacks |-> 0]
  /\ lastRun = None
  /\ caught = [c \in Callbacks |-> FALSE]
  /\ threw = FALSE

GoTo(t, place, c) ==
  /\ pc' = [pc EXCEPT ![t] = place]
  /\ target' = [target EXCEPT ![t] = c]
-----------------------------------------------------------------------------
(* Register. *)

\* MUTANT: the flag is looked at before the lock is taken, the map changed later.
RegisterUnchecked(u, c) ==
  /\ pc[u] = "idle" /\ reg[c] = "none"
  /\ id' = [id EXCEPT ![c] = nextId]
  /\ nextId' = nextId + 1
  /\ callbacks' = callbacks \cup {c}
  /\ reg' = [reg EXCEPT ![c] = "active"]
  /\ UNCHANGED <<cancelled, executing, executingThread, disposed, toRun, pc, target, history, threw>>

\* The critical section of Register.  On a cancelled token the callback runs on
\* this thread and the registration is an inactive one.
Register(u, c) ==
  /\ pc[u] = "idle" /\ reg[c] = "none"
  /\ \/ /\ cancelled
        /\ GoTo(u, "inline", c)
        /\ reg' = [reg EXCEPT ![c] = "inactive"]
        /\ begun' = [begun EXCEPT ![c] = @ + 1]
        /\ UNCHANGED <<callbacks, id, nextId>>
     \/ /\ ~cancelled
        /\ id' = [id EXCEPT ![c] = nextId]
        /\ nextId' = nextId + 1
        /\ callbacks' = callbacks \cup {c}
        /\ reg' = [reg EXCEPT ![c] = "active"]
        /\ UNCHANGED <<pc, target, begun>>
  /\ UNCHANGED <<cancelled, executing, executingThread, disposed, toRun, ended, lastRun, caught, threw>>

InlineEnds(u) ==
  /\ pc[u] = "inline"
  /\ ended' = [ended EXCEPT ![target[u]] = @ + 1]
  /\ GoTo(u, "idle", None)
  /\ UNCHANGED <<state, reg, begun, lastRun, caught, threw>>
-----------------------------------------------------------------------------
(* Cancel. *)

\* ThrowIfDisposed, then the first critical section: only the first Cancel goes on.
Cancel(k) ==
  /\ pc[k] = "idle" /\ ~disposed
  /\ ~cancelled
  /\ cancelled' = TRUE
  /\ toRun' = callbacks
  /\ callbacks' = {}
  /\ GoTo(k, "loop", None)
  /\ UNCHANGED <<nextId, executing, executingThread, disposed, id, reg, history, threw>>

\* The reverse walk of the map: the last registered callback comes first.
NextIs(c) == \A d \in toRun : id[d] <= id[c]

Mark(k, c) == executing' = c /\ executingThread' = k

\* The callback about to run is recorded under the mutex.
MarkExecuting(k) ==
  /\ pc[k] = "loop"
  /\ \E c \in toRun :
       /\ NextIs(c)
       /\ Mark(k, c)
       /\ toRun' = toRun \ {c}
       /\ GoTo(k, "calling", c)
  /\ UNCHANGED <<cancelled, nextId, disposed, callbacks, id, reg, history, threw>>

\* The callback is entered, outside the mutex.
CallbackBegins(k) ==
  /\ pc[k] = "calling"
  /\ begun' = [begun EXCEPT ![target[k]] = @ + 1]
  /\ lastRun' = target[k]
  /\ GoTo(k, "inCallback", target[k])
  /\ UNCHANGED <<state, reg, ended, caught, threw>>

\* It returns or throws; an exception is kept and the loop goes on.
CallbackEnds(k, throws) ==
  /\ pc[k] = "inCallback"
  /\ ended' = [ended EXCEPT ![target[k]] = @ + 1]
  /\ threw' = (threw \/ throws)
  /\ GoTo(k, "unmark", target[k])
  /\ UNCHANGED <<state, reg, begun, lastRun, caught>>

Unmark(k) ==
  /\ pc[k] = "unmark"
  /\ executing' = None
  /\ GoTo(k, "notify", None)
  /\ UNCHANGED <<cancelled, nextId, executingThread, disposed, callbacks, id, toRun, reg, history, threw>>

\* MUTANT: the waiting Dispose is not told.
NotifyNobody(f) == f

NotifyAll(f) == [t \in Actors |-> IF f[t] = "parked" THEN "notified" ELSE f[t]]

\* callbackFinished.notify_all comes after the mutex was released.
NotifyFinished(k) ==
  /\ pc[k] = "notify"
  /\ pc' = NotifyAll([pc EXCEPT ![k] = "loop"])
  /\ UNCHANGED <<state, target, reg, history, threw>>

\* The loop is over: Cancel returns, or throws the AggregateException.
CancelEnds(k) ==
  /\ pc[k] = "loop" /\ toRun = {}
  /\ GoTo(k, "idle", None)
  /\ UNCHANGED <<state, reg, history, threw>>

\* CancellationTokenSource::Dispose.
DisposeSource ==
  /\ ~disposed
  /\ disposed' = TRUE
  /\ UNCHANGED <<cancelled, nextId, executing, executingThread, callbacks, id, toRun,
                 pc, target, reg, history, threw>>
-----------------------------------------------------------------------------
(* CancellationTokenRegistration::Dispose. *)

\* The callback is executing, and not on this thread.
MustWait(t, c) == c \notin callbacks /\ executing = c /\ executingThread # t

\* A thread disposes of the registration of c: a user at any time, a canceller
\* from within a callback that it runs.
Dispose(t, c) ==
  /\ reg[c] = "active"
  /\ pc[t] = IF t \in Users THEN "idle" ELSE "inCallback"
  /\ callbacks' = callbacks \ {c}
  /\ caught' = [caught EXCEPT ![c] = executing = c /\ executingThread # t]
  /\ IF MustWait(t, c)
       THEN /\ pc' = [pc EXCEPT ![t] = "parked"]
            /\ target' = IF t \in Users THEN [target EXCEPT ![t] = c] ELSE target
            /\ reg' = [reg EXCEPT ![c] = "disposing"]
       ELSE /\ reg' = [reg EXCEPT ![c] = "disposed"]
            /\ UNCHANGED <<pc, target>>
  /\ UNCHANGED <<cancelled, nextId, executing, executingThread, disposed, id, toRun,
                 begun, ended, lastRun, threw>>

\* A notified Dispose looks at executingId again.
ResumeDispose(u) ==
  /\ pc[u] = "notified"
  /\ IF executing = target[u]
       THEN pc' = [pc EXCEPT ![u] = "parked"] /\ UNCHANGED <<target, reg>>
       ELSE /\ GoTo(u, "idle", None)
            /\ reg' = [reg EXCEPT ![target[u]] = "disposed"]
  /\ UNCHANGED <<state, history, threw>>

\* A spurious wakeup between the end of the callback and the notification.
WakeEarly(u) ==
  /\ pc[u] = "parked" /\ executing # target[u]
  /\ pc' = [pc EXCEPT ![u] = "notified"]
  /\ UNCHANGED <<state, target, reg, history, threw>>
-----------------------------------------------------------------------------
Cancelling(k) ==
  \/ MarkExecuting(k) \/ CallbackBegins(k) \/ Unmark(k) \/ NotifyFinished(k) \/ CancelEnds(k)
  \/ \E b \in BOOLEAN : CallbackEnds(k, b)

Next ==
  \/ \E u \in Users : InlineEnds(u) \/ ResumeDispose(u) \/ WakeEarly(u)
  \/ \E u \in Users : \E c \in Callbacks : Register(u, c)
  \/ \E k \in Cancellers : Cancel(k) \/ Cancelling(k)
  \/ \E t \in Actors : \E c \in Callbacks : Dispose(t, c)
  \/ DisposeSource

Spec == Init /\ [][Next]_vars

\* Callbacks return, and threads inside Cancel or Dispose keep running.
FairSpec ==
  /\ Spec
  /\ \A k \in Cancellers : WF_vars(Cancelling(k))
  /\ \A u \in Users : WF_vars(InlineEnds(u)) /\ WF_vars(ResumeDispose(u))
-----------------------------------------------------------------------------
(* Properties. *)

\* The type invariant.
TypeOK ==
  /\ cancelled \in BOOLEAN /\ disposed \in BOOLEAN /\ threw \in BOOLEAN
  /\ nextId \in 0..Cardinality(Callbacks)
  /\ executing \in Callbacks \cup {None}
  /\ executingThread \in Cancellers \cup {None}
  /\ callbacks \in SUBSET Callbacks
  /\ toRun \in SUBSET Callbacks
  /\ \A c \in callbacks \cup toRun : id[c] < nextId
  /\ \A u \in Users : pc[u] \in {"idle", "inline", "parked", "notified"}
  /\ \A k \in Cancellers : pc[k] \in {"idle", "loop", "calling", "inCallback", "unmark", "notify"}
  /\ target \in [Actors -> Callbacks \cup {None}]
  /\ reg \in [Callbacks -> {"none", "active", "inactive", "disposing", "disposed"}]

\* A callback runs once at most, whichever of Register and Cancel runs it.
RunsOnce == \A c \in Callbacks : begun[c] <= 1 /\ ended[c] <= begun[c]

\* No registration falls between Register and Cancel: once Cancel is through,
\* nothing is left in the map, and a callback whose registration stands has run.
NoRegistrationLost ==
  cancelled =>
    /\ callbacks = {}
    /\ \A c \in Callbacks :
         reg[c] = "active" /\ (\A k \in Cancellers : pc[k] = "idle") => ended[c] = 1

\* "LIFO order (most-recently-registered first, deepest first)": what Cancel has
\* still to run is older than what it ran last.
LastInFirstOut == lastRun # None => \A c \in toRun : id[c] < id[lastRun]

\* A Dispose that finds the callback executing on another thread returns only
\* after the callback has ended.
DisposeWaitsForCallback ==
  \A c \in Callbacks : caught[c] /\ reg[c] = "disposed" => ended[c] = begun[c] /\ begun[c] = 1

\* Registering, cancelling and disposing agree on every callback.
SourceInv == TypeOK /\ RunsOnce /\ NoRegistrationLost /\ LastInFirstOut /\ DisposeWaitsForCallback

\* A Dispose that has returned has the callback behind it: Cancel does not start
\* it afterwards, when "the caller tears down a resource the callback references
\* right after Dispose() returns".
QuietAfterDispose == \A c \in Callbacks : reg[c] = "disposed" => c \notin toRun

\* Cancel runs every callback that it took out of the map, whatever the ones
\* before it threw, and Dispose returns, also when a callback disposes of its own
\* registration.
CancelAndDisposeEnd ==
  \A c \in Callbacks :
    (c \in toRun ~> ended[c] = 1) /\ (reg[c] = "disposing" ~> reg[c] = "disposed")
=============================================================================
