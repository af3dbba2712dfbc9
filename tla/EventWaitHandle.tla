-------------------------- MODULE EventWaitHandle --------------------------
(***************************************************************************)
(* EventWaitHandle (and AutoResetEvent, ManualResetEvent, which only fix   *)
(* its mode) with the multi-handle waits of WaitHandle: WaitAll waits for  *)
(* one handle after the other, WaitAny polls them in turn.                 *)
(*                                                                         *)
(* The closed flag is looked at before mtx_ is taken, Set stores the event *)
(* with mtx_ held and notifies after it let go of it: these are separate   *)
(* steps.  A waiter evaluates its predicate and parks in one.              *)
(***************************************************************************)
EXTENDS Naturals, Sequences, FiniteSets

CONSTANTS Threads,    \* threads that wait
          Setters,    \* threads that call Set and Reset
          Handles,
          Mode,       \* Mode[h]: "AutoReset" or "ManualReset"
          Calls,      \* the waits threads may make, see CallType
          Closable    \* handles that may be disposed of

CallType == [kind : {"one", "all", "any"}, list : Seq(Handles), timed : BOOLEAN]

\* The constructor rejects any other mode, WaitAll and WaitAny an empty list.
ASSUME HandleAssumption ==
  /\ Mode \in [Handles -> {"AutoReset", "ManualReset"}]
  /\ Calls \subseteq CallType
  /\ \A c \in Calls : Len(c.list) > 0 /\ (c.kind = "one" => Len(c.list) = 1)
  /\ Closable \subseteq Handles

VARIABLES set, closed,
          pc, call, idx,    \* where a thread stands in the wait it is executing
          checked,          \* checked[s]: handles setter s found open, to set or reset
          notifying,        \* notifying[s]: handles setter s has set and not yet notified
          taken             \* history: handles whose signal a wait took, no Set since

waits == <<pc, call, idx>>
vars  == <<set, closed, waits, checked, notifying, taken>>

Init ==
  /\ set \in [Handles -> BOOLEAN]
  /\ closed = [h \in Handles |-> FALSE]
  /\ pc = [t \in Threads |-> "idle"]
  /\ \E c \in Calls : call = [t \in Threads |-> c]
  /\ idx = [t \in Threads |-> 1]
  /\ checked = [s \in Setters |-> {}]
  /\ notifying = [s \in Setters |-> {}]
  /\ taken = {}

\* The handle thread t is waiting for.
Current(t) == call[t].list[idx[t]]

LastHandle(t) == idx[t] = Len(call[t].list)

AutoReset(h) == Mode[h] = "AutoReset"
-----------------------------------------------------------------------------
(* Waiting. *)

\* Thread t calls WaitOne, WaitAll or WaitAny.
StartWait(t, c) ==
  /\ pc[t] = "idle"
  /\ pc' = [pc EXCEPT ![t] = "enter"]
  /\ call' = [call EXCEPT ![t] = c]
  /\ idx' = [idx EXCEPT ![t] = 1]
  /\ UNCHANGED <<set, closed, checked, notifying, taken>>

\* The call returns or throws, and its position in the list is gone.
EndWait(t) ==
  /\ pc' = [pc EXCEPT ![t] = "idle"]
  /\ idx' = [idx EXCEPT ![t] = 1]
  /\ UNCHANGED call

\* WaitOne of the current handle: ThrowIfClosed ...
EnterWait(t) ==
  /\ pc[t] = "enter"
  /\ IF closed[Current(t)]
       THEN EndWait(t)
       ELSE pc' = [pc EXCEPT ![t] = "locking"] /\ UNCHANGED <<call, idx>>
  /\ UNCHANGED <<set, closed, checked, notifying, taken>>

\* MUTANT: the auto-reset is forgotten.
TakeSignalAndLeaveSet(t) ==
  /\ taken' = taken \cup (IF AutoReset(Current(t)) THEN {Current(t)} ELSE {})
  /\ UNCHANGED set

\* A wait succeeds; an auto-reset event is no longer set then.
TakeSignal(t) ==
  IF AutoReset(Current(t))
    THEN /\ set' = [set EXCEPT ![Current(t)] = FALSE]
         /\ taken' = taken \cup {Current(t)}
    ELSE UNCHANGED <<set, taken>>

\* After a success WaitAll turns to its next handle; WaitOne and WaitAny return.
AfterSignal(t) ==
  IF call[t].kind = "all" /\ ~LastHandle(t)
    THEN /\ pc' = [pc EXCEPT ![t] = "enter"]
         /\ idx' = [idx EXCEPT ![t] = @ + 1]
         /\ UNCHANGED call
    ELSE EndWait(t)

\* WaitOne(0) of WaitAny found nothing: the next handle, or after a short sleep
\* the first one again.
PollOn(t) ==
  /\ idx' = [idx EXCEPT ![t] = IF LastHandle(t) THEN 1 ELSE @ + 1]
  /\ pc' = [pc EXCEPT ![t] = "enter"]
  /\ UNCHANGED call

Park(t) ==
  /\ pc' = [pc EXCEPT ![t] = "parked"]
  /\ UNCHANGED <<call, idx>>

\* ... and the critical section, entered for the first time or after a wakeup.
WaitOne(t) ==
  /\ pc[t] \in {"locking", "notified"}
  /\ \/ /\ set[Current(t)]
        /\ TakeSignal(t) /\ AfterSignal(t)
     \/ /\ ~set[Current(t)]
        /\ IF call[t].kind = "any" THEN PollOn(t) ELSE Park(t)
        /\ UNCHANGED <<set, taken>>
  /\ UNCHANGED <<closed, checked, notifying>>

\* A deadline or a spurious wakeup lets a thread look at the flag before it is
\* notified.  If the flag is not set it parks again, or times out.
WakeEarly(t) ==
  /\ pc[t] = "parked" /\ set[Current(t)]
  /\ pc' = [pc EXCEPT ![t] = "notified"]
  /\ UNCHANGED <<set, closed, call, idx, checked, notifying, taken>>

\* The deadline passes: in a wait on an event that is not set, between two
\* handles of WaitAll, or after a fruitless round of WaitAny.
TimeOut(t) ==
  /\ call[t].timed
  /\ \/ pc[t] \in {"parked", "notified"} /\ ~set[Current(t)]
     \/ pc[t] = "enter" /\ call[t].kind = "all"
     \/ pc[t] = "locking" /\ call[t].kind = "any" /\ ~set[Current(t)] /\ LastHandle(t)
  /\ EndWait(t)
  /\ UNCHANGED <<set, closed, checked, notifying, taken>>
-----------------------------------------------------------------------------
(* Signalling. *)

\* Set and Reset look at the closed flag first; on a closed handle they throw.
StartSet(s, h) ==
  /\ checked[s] = {} /\ notifying[s] = {}
  /\ ~closed[h]
  /\ checked' = [checked EXCEPT ![s] = {h}]
  /\ UNCHANGED <<set, closed, waits, notifying, taken>>

\* Set up to the release of mtx_.
Set(s) ==
  \E h \in checked[s] :
    /\ set' = [set EXCEPT ![h] = TRUE]
    /\ taken' = taken \ {h}
    /\ checked' = [checked EXCEPT ![s] = {}]
    /\ notifying' = [notifying EXCEPT ![s] = {h}]
    /\ UNCHANGED <<closed, waits>>

Reset(s) ==
  \E h \in checked[s] :
    /\ set' = [set EXCEPT ![h] = FALSE]
    /\ checked' = [checked EXCEPT ![s] = {}]
    /\ UNCHANGED <<closed, waits, notifying, taken>>

Sleepers(h) == {t \in Threads : pc[t] = "parked" /\ Current(t) = h}

\* MUTANT: no notification.
NotifyNobody(h) == UNCHANGED pc

\* notify_all of a manual-reset event, notify_one of an auto-reset event.
Notify(h) ==
  IF AutoReset(h)
    THEN \/ Sleepers(h) = {} /\ UNCHANGED pc
         \/ \E t \in Sleepers(h) : pc' = [pc EXCEPT ![t] = "notified"]
    ELSE pc' = [t \in Threads |-> IF t \in Sleepers(h) THEN "notified" ELSE pc[t]]

SetNotifies(s) ==
  \E h \in notifying[s] :
    /\ Notify(h)
    /\ notifying' = [notifying EXCEPT ![s] = {}]
    /\ UNCHANGED <<set, closed, call, idx, checked, taken>>

Dispose(h) ==
  /\ ~closed[h]
  /\ closed' = [closed EXCEPT ![h] = TRUE]
  /\ UNCHANGED <<set, waits, checked, notifying, taken>>
-----------------------------------------------------------------------------
Next ==
  \/ \E t \in Threads :
       EnterWait(t) \/ WaitOne(t) \/ WakeEarly(t) \/ TimeOut(t) \/ \E c \in Calls : StartWait(t, c)
  \/ \E s \in Setters :
       Set(s) \/ Reset(s) \/ SetNotifies(s) \/ \E h \in Handles : StartSet(s, h)
  \/ \E h \in Closable : Dispose(h)

Spec == Init /\ [][Next]_vars

\* Threads inside a call keep running.  Timeouts, Set and Reset owe nothing.
FairSpec ==
  /\ Spec
  /\ \A t \in Threads : WF_vars(EnterWait(t) \/ WaitOne(t))
  /\ \A s \in Setters : WF_vars(SetNotifies(s))
-----------------------------------------------------------------------------
(* Properties. *)

\* The type invariant.
TypeOK ==
  /\ set \in [Handles -> BOOLEAN]
  /\ closed \in [Handles -> BOOLEAN]
  /\ pc \in [Threads -> {"idle", "enter", "locking", "parked", "notified"}]
  /\ call \in [Threads -> Calls]
  /\ \A t \in Threads : idx[t] \in 1..Len(call[t].list)
  /\ checked \in [Setters -> SUBSET Handles]
  /\ notifying \in [Setters -> SUBSET Handles]
  /\ taken \subseteq Handles

\* An auto-reset event releases one wait per Set at most, however waits, timeouts
\* and Sets interleave: what a wait took is not there for the next one.
OneReleasePerSignal == \A h \in taken : ~set[h]

\* No signal lies there while a thread sleeps through it: somebody is about to
\* notify, or a notified thread is about to take it ("Probed over 900 rounds,
\* the unlocked form lost 2 and the locked form lost 0").
NoStrandedSignal ==
  \A h \in Handles :
    set[h] /\ Sleepers(h) # {} =>
      \/ \E s \in Setters : h \in notifying[s]
      \/ AutoReset(h) /\ \E t \in Threads : pc[t] = "notified" /\ Current(t) = h

\* No wait gets through without a signal of its own, and no signal is slept through.
EventInv == TypeOK /\ OneReleasePerSignal /\ NoStrandedSignal

\* A wait without timeout on a set event returns (or WaitAll moves on), unless
\* the signal is reset or taken by somebody else first.
SignalReachesWaiter ==
  \A t \in Threads : \A h \in Handles :
    pc[t] # "idle" /\ Current(t) = h /\ ~call[t].timed /\ call[t].kind # "any" /\ set[h]
      ~> pc[t] = "idle" \/ Current(t) # h \/ ~set[h]
=============================================================================
