------------------------- MODULE BlockingCollection -------------------------
(***************************************************************************)
(* BlockingCollection<T> over a ConcurrentQueue, with one cancellation     *)
(* token that calls may observe.  Items are only counted.                  *)
(*                                                                         *)
(* The token's callback notifies both condition variables without taking   *)
(* mutex_.  A wait therefore keeps its two halves: the predicate is false  *)
(* and the thread, still holding mutex_, is about to sleep ("falling");    *)
(* then it sleeps and the mutex is free ("parked").                        *)
(***************************************************************************)
EXTENDS Integers, FiniteSets

CONSTANTS Producers, Consumers,  \* threads that add and threads that take
          Capacities,            \* constructor arguments: positive, or NonBounded
          MaxItems,              \* bound: items held at a time
          Observers              \* threads that may pass a token to their calls

NonBounded == -1

Threads == Producers \cup Consumers

VARIABLES count, boundedCapacity_, addingCompleted_, disposed_,
          cancelled,   \* the token's flag
          registered,  \* threads whose CancellationNotification is registered
          toRun,       \* those whose callback a running Cancel has still to call
          pc, call,    \* where a thread stands, and the arguments of its call
          told         \* history: a consumer has been told that the collection completed

token == <<cancelled, registered, toRun>>
flags == <<boundedCapacity_, addingCompleted_, disposed_>>
vars  == <<count, flags, token, pc, call, told>>

\* The timeout of a call, and whether it was given the token.  A producer with the
\* timeout 0 still goes through wait_for, as with any other.
Modes(t)    == IF t \in Producers THEN {"infinite", "timed"} ELSE {"infinite", "timed", "zero"}
Args(m, b)  == [mode |-> m, observes |-> b]
NoCall      == Args("infinite", FALSE)

Init ==
  /\ boundedCapacity_ \in Capacities
  /\ count \in 0..MaxItems  \* what is in the collection handed to the constructor
  /\ boundedCapacity_ # NonBounded => count <= boundedCapacity_
  /\ addingCompleted_ = FALSE
  /\ disposed_ = FALSE
  /\ cancelled = FALSE
  /\ registered = {}
  /\ toRun = {}
  /\ pc = [t \in Threads |-> "idle"]
  /\ call = [t \in Threads |-> NoCall]
  /\ told = FALSE

At(S, place) == {t \in S : pc[t] = place}

\* mutex_ is free.
Unlocked == At(Threads, "falling") = {}

GoTo(t, place) == pc' = [pc EXCEPT ![t] = place]

\* notify_all on both condition variables.
NotifyAll(f) == [t \in Threads |-> IF f[t] = "parked" THEN "notified" ELSE f[t]]

Cancelled(t) == call[t].observes /\ cancelled

\* The call is over, up to ~CancellationNotification if it was given the token.
Leave(t) ==
  IF call[t].observes
    THEN GoTo(t, "leaving") /\ UNCHANGED call
    ELSE GoTo(t, "idle") /\ call' = [call EXCEPT ![t] = NoCall]
-----------------------------------------------------------------------------
(* Calls. *)

\* ThrowIfCancellationRequested at the head of tryAddCore and tryTakeCore.
Start(t, m, b) ==
  /\ pc[t] = "idle"
  /\ ~(b /\ cancelled)
  /\ call' = [call EXCEPT ![t] = Args(m, b)]
  /\ GoTo(t, IF b THEN "registering" ELSE "locking")
  /\ UNCHANGED <<count, flags, token, told>>

\* The callback is registered, or runs at once if the token has been cancelled.
Register(t) ==
  /\ pc[t] = "registering"
  /\ IF cancelled
       THEN pc' = NotifyAll([pc EXCEPT ![t] = "locking"]) /\ UNCHANGED registered
       ELSE GoTo(t, "locking") /\ registered' = registered \cup {t}
  /\ UNCHANGED <<count, flags, cancelled, toRun, call, told>>

Unregister(t) ==
  /\ pc[t] = "leaving"
  /\ registered' = registered \ {t}
  /\ GoTo(t, "idle")
  /\ call' = [call EXCEPT ![t] = NoCall]
  /\ UNCHANGED <<count, flags, cancelled, toRun, told>>

Full == boundedCapacity_ # NonBounded /\ count >= boundedCapacity_

Closed == disposed_ \/ addingCompleted_

\* Locked by tryAddCore: the checks before the wait, the predicate readyForAdd if
\* the collection is full, and the checks after it.
Add(t) ==
  /\ pc[t] \in {"locking", "notified"} /\ Unlocked
  /\ \/ /\ Closed \/ Cancelled(t)  \* throws
        /\ Leave(t)
        /\ UNCHANGED count
     \/ /\ ~Closed /\ ~Cancelled(t) /\ Full
        /\ GoTo(t, "falling")
        /\ UNCHANGED <<count, call>>
     \/ /\ ~Closed /\ ~Cancelled(t) /\ ~Full
        /\ count < MaxItems
        /\ count' = count + 1
        /\ GoTo(t, "notifying")
        /\ UNCHANGED call
  /\ UNCHANGED <<flags, token, told>>

\* MUTANT: completion is looked at before the collection.
TakeLosesItems(t) ==
  /\ pc[t] \in {"locking", "notified"} /\ Unlocked
  /\ \/ /\ Closed \/ Cancelled(t)
        /\ Leave(t)
        /\ told' = (told \/ ~disposed_)
        /\ UNCHANGED count
     \/ /\ ~Closed /\ ~Cancelled(t) /\ count > 0
        /\ count' = count - 1
        /\ GoTo(t, "notifying")
        /\ UNCHANGED <<call, told>>
     \/ /\ ~Closed /\ ~Cancelled(t) /\ count = 0
        /\ GoTo(t, "falling")
        /\ UNCHANGED <<count, call, told>>
  /\ UNCHANGED <<flags, token>>

\* Locked by tryTakeCore, on entry or back at the head of its loop.
Take(t) ==
  /\ pc[t] \in {"locking", "notified"} /\ Unlocked
  /\ \/ /\ disposed_ \/ Cancelled(t)  \* throws
        /\ Leave(t)
        /\ UNCHANGED <<count, told>>
     \/ /\ ~disposed_ /\ ~Cancelled(t)
        /\ \/ /\ count > 0
              /\ count' = count - 1
              /\ GoTo(t, "notifying")
              /\ UNCHANGED <<call, told>>
           \/ /\ count = 0
              /\ addingCompleted_ \/ call[t].mode = "zero"  \* false
              /\ told' = (told \/ addingCompleted_)
              /\ Leave(t)
              /\ UNCHANGED count
           \/ /\ count = 0 /\ ~addingCompleted_ /\ call[t].mode # "zero"
              /\ GoTo(t, "falling")
              /\ UNCHANGED <<count, call, told>>
  /\ UNCHANGED <<flags, token>>

\* The wait releases mutex_ and sleeps, in one step.
Sleep(t) ==
  /\ pc[t] = "falling"
  /\ GoTo(t, "parked")
  /\ UNCHANGED <<count, flags, token, call, told>>

\* A spurious wakeup, or a deadline: the predicate is looked at again.
Spurious(t) ==
  /\ pc[t] = "parked"
  /\ GoTo(t, "notified")
  /\ UNCHANGED <<count, flags, token, call, told>>

\* The predicate is false at the deadline.
TimeOut(t) ==
  /\ pc[t] \in {"parked", "notified"} /\ Unlocked
  /\ call[t].mode # "infinite"
  /\ ~Closed /\ ~Cancelled(t)
  /\ IF t \in Producers THEN Full ELSE count = 0
  /\ Leave(t)
  /\ UNCHANGED <<count, flags, token, told>>

Partners(t) == IF t \in Producers THEN Consumers ELSE Producers

\* notify_one for the other side, after mutex_ has been released.
NotifyOne(t) ==
  /\ pc[t] = "notifying"
  /\ LET asleep == At(Partners(t), "parked")
         after  == [pc EXCEPT ![t] = IF call[t].observes THEN "leaving" ELSE "idle"]
     IN  \/ asleep = {} /\ pc' = after
         \/ \E u \in asleep : pc' = [after EXCEPT ![u] = "notified"]
  /\ call' = IF call[t].observes THEN call ELSE [call EXCEPT ![t] = NoCall]
  /\ UNCHANGED <<count, flags, token, told>>
-----------------------------------------------------------------------------
(* Closing, and the token. *)

\* MUTANT: consumers only.
CompleteAddingHalf ==
  /\ Unlocked /\ ~disposed_
  /\ addingCompleted_' = TRUE
  /\ pc' = [t \in Threads |->
              IF t \in Consumers /\ pc[t] = "parked" THEN "notified" ELSE pc[t]]
  /\ UNCHANGED <<count, boundedCapacity_, disposed_, token, call, told>>

CompleteAdding ==
  /\ Unlocked /\ ~disposed_
  /\ addingCompleted_' = TRUE
  /\ pc' = NotifyAll(pc)
  /\ UNCHANGED <<count, boundedCapacity_, disposed_, token, call, told>>

Dispose ==
  /\ Unlocked /\ ~disposed_
  /\ disposed_' = TRUE
  /\ addingCompleted_' = TRUE
  /\ pc' = NotifyAll(pc)
  /\ UNCHANGED <<count, boundedCapacity_, token, call, told>>

\* CancellationTokenSource::Cancel sets the flag and takes the callbacks ...
Cancel ==
  /\ ~cancelled
  /\ cancelled' = TRUE
  /\ toRun' = registered
  /\ registered' = {}
  /\ UNCHANGED <<count, flags, pc, call, told>>

\* ... and calls them.  mutex_ is not taken.
RunCallback(u) ==
  /\ u \in toRun
  /\ toRun' = toRun \ {u}
  /\ pc' = NotifyAll(pc)
  /\ UNCHANGED <<count, flags, cancelled, registered, call, told>>
-----------------------------------------------------------------------------
Locked(t) == (t \in Producers /\ Add(t)) \/ (t \in Consumers /\ Take(t))

Running(t) == Register(t) \/ Sleep(t) \/ NotifyOne(t) \/ Unregister(t)

Next ==
  \/ \E t \in Threads :
       \/ \E m \in Modes(t), b \in (IF t \in Observers THEN BOOLEAN ELSE {FALSE}) : Start(t, m, b)
       \/ Locked(t) \/ Running(t) \/ Spurious(t) \/ TimeOut(t)
  \/ \E u \in toRun : RunCallback(u)
  \/ CompleteAdding \/ Dispose \/ Cancel

Spec == Init /\ [][Next]_vars
-----------------------------------------------------------------------------
(* Properties. *)

\* The type invariant.
TypeOK ==
  /\ count \in Nat
  /\ boundedCapacity_ \in Capacities
  /\ {addingCompleted_, disposed_, cancelled} \subseteq BOOLEAN
  /\ registered \subseteq Threads
  /\ toRun \subseteq Threads
  /\ pc \in [Threads -> {"idle", "registering", "locking", "falling", "parked",
                         "notified", "notifying", "leaving"}]
  /\ call \in [Threads -> [mode : {"infinite", "timed", "zero"}, observes : BOOLEAN]]
  /\ told \in BOOLEAN

\* A bounded collection never holds more than it may, whoever slips in between a
\* notification and the wakeup it causes.
CapacityRespected == boundedCapacity_ # NonBounded => count <= boundedCapacity_

\* While a consumer sleeps, each item there has a notification under way or a
\* woken consumer of its own; likewise each free slot while a producer sleeps.
\* Once the token is cancelled this is not claimed: a call that ends because of it
\* may swallow the notification meant for another.
NoLostWakeup ==
  ~cancelled =>
    /\ At(Consumers, "parked") # {} =>
         count <= Cardinality(At(Producers, "notifying")) + Cardinality(At(Consumers, "notified"))
    /\ At(Producers, "parked") # {} =>
         boundedCapacity_ - count
           <= Cardinality(At(Consumers, "notifying")) + Cardinality(At(Producers, "notified"))

\* No call leaves its callback behind: it refers to the collection, which may be gone
\* by the time the token is cancelled.
RegistrationsEnd == \A t \in Threads : pc[t] = "idle" => t \notin registered

\* A consumer told that the collection has completed has been told the truth:
\* there is nothing left in it, and nothing comes any more.
CompletedIsFinal == told => count = 0

\* What the collection tells its callers and what it leaves behind is right, and no
\* call sleeps through its turn.
CollectionInv ==
  TypeOK /\ CapacityRespected /\ RegistrationsEnd /\ CompletedIsFinal /\ NoLostWakeup

\* CompleteAdding and Dispose release everyone: from then on no call sleeps, nor is
\* about to, so each goes on to its end.
CompletionReleasesAll == Closed => At(Threads, "parked") \cup At(Threads, "falling") = {}
=============================================================================
