------------------------------ MODULE Barrier ------------------------------
(***************************************************************************)
(* System.Threading.Barrier.  The barrier counts participants but does not *)
(* know them: any thread may signal, and any thread may add a participant  *)
(* or take one off, for itself or for somebody else.  members and inPerson *)
(* are history: as long as inPerson holds, every participant is a thread   *)
(* that joined, signals and leaves in person.                              *)
(*                                                                         *)
(* FinishPhase, post-phase action included, runs with mutex_ held, so a    *)
(* call is one step up to the point where it returns or sleeps.            *)
(***************************************************************************)
EXTENDS Integers, FiniteSets

CONSTANTS Threads,
          MaxParticipants,  \* 32767 in the code
          HasAction,        \* the barrier has a post-phase action
          MaxPhases         \* bound: phases of a behaviour

VARIABLES participantCount, remainingCount, phaseCount,
          lastException,  \* the post-phase action of the last phase has thrown
          disposed,
          inPerson,       \* history: every participant has acted for itself so far
          members,        \* history: the threads that take part, as long as that is so
          pc, myPhase,    \* where a thread stands, and the phase it signalled
          result,         \* how its last SignalAndWait ended
          faulted         \* history: the phases whose action threw

counts == <<participantCount, remainingCount>>
taking == <<inPerson, members>>
vars   == <<counts, phaseCount, lastException, disposed, taking, pc, myPhase, result, faulted>>

Init ==
  /\ participantCount \in 0..MaxParticipants
  /\ inPerson \in BOOLEAN
  /\ IF inPerson THEN members \in SUBSET Threads /\ Cardinality(members) = participantCount
                 ELSE members = {}
  /\ remainingCount = participantCount
  /\ phaseCount = 0
  /\ lastException = FALSE
  /\ disposed = FALSE
  /\ pc = [t \in Threads |-> "idle"]
  /\ myPhase = [t \in Threads |-> 0]
  /\ result = [t \in Threads |-> "none"]
  /\ faulted = {}

\* MUTANT: the sleepers are not told.
NotifyNobody(f) == f

NotifyAll(f) == [t \in Threads |-> IF f[t] = "parked" THEN "notified" ELSE f[t]]

ExceptionIs(throws) == lastException' = throws

\* What a call says about who takes part: it was made in person, or not.
TakePart(own, group) ==
  /\ inPerson' = (inPerson /\ own)
  /\ members' = IF inPerson' THEN group ELSE {}

\* FinishPhase: reset, run the action, advance.  The notification and the
\* exception for the calling thread are left to the caller below.
FinishPhase(participants, throws) ==
  /\ throws => HasAction
  /\ phaseCount < MaxPhases
  /\ remainingCount' = participants
  /\ ExceptionIs(throws)
  /\ faulted' = IF throws THEN faulted \cup {phaseCount} ELSE faulted
  /\ phaseCount' = phaseCount + 1
-----------------------------------------------------------------------------
\* The thread arrives last, finishes the phase and returns, or rethrows.
SignalLast(t, throws) ==
  /\ pc[t] = "idle" /\ ~disposed
  /\ participantCount > 0
  /\ remainingCount - 1 = 0
  /\ FinishPhase(participantCount, throws)
  /\ pc' = NotifyAll(pc)
  /\ myPhase' = [myPhase EXCEPT ![t] = phaseCount]
  /\ result' = [result EXCEPT ![t] = IF throws THEN "fault" ELSE "ok"]
  /\ TakePart(t \in members, members)
  /\ UNCHANGED <<participantCount, disposed>>

\* It arrives earlier and sleeps.
SignalAndWait(t) ==
  /\ pc[t] = "idle" /\ ~disposed
  /\ participantCount > 0
  /\ remainingCount - 1 # 0
  /\ remainingCount' = remainingCount - 1
  /\ pc' = [pc EXCEPT ![t] = "parked"]
  /\ myPhase' = [myPhase EXCEPT ![t] = phaseCount]
  /\ result' = [result EXCEPT ![t] = "none"]
  /\ TakePart(t \in members, members)
  /\ UNCHANGED <<participantCount, phaseCount, lastException, disposed, faulted>>

\* A notified thread finds the phase over, and looks at how its action ended.
ResumeWait(t) ==
  /\ pc[t] = "notified"
  /\ IF phaseCount > myPhase[t]
       THEN /\ pc' = [pc EXCEPT ![t] = "idle"]
            /\ result' = [result EXCEPT ![t] = IF lastException THEN "fault" ELSE "ok"]
       ELSE pc' = [pc EXCEPT ![t] = "parked"] /\ UNCHANGED result
  /\ UNCHANGED <<counts, phaseCount, lastException, disposed, taking, myPhase, faulted>>

AddParticipant(t) ==
  /\ pc[t] = "idle" /\ ~disposed
  /\ participantCount < MaxParticipants
  /\ participantCount' = participantCount + 1
  /\ remainingCount' = remainingCount + 1
  /\ TakePart(t \notin members, members \cup {t})
  /\ UNCHANGED <<phaseCount, lastException, disposed, pc, myPhase, result, faulted>>

\* MUTANT: leaving does not complete the phase of those who wait.
LeavesLastNever == FALSE

\* The participant that is taken off is the one the others wait for.
LeavesLast == remainingCount - 1 = 0

\* RemoveParticipant; the last one missing completes the phase for the others.
RemoveParticipant(t, throws) ==
  /\ pc[t] = "idle" /\ ~disposed
  /\ participantCount > 0 /\ remainingCount > 0
  /\ participantCount' = participantCount - 1
  /\ TakePart(t \in members, members \ {t})
  /\ IF LeavesLast
       THEN /\ FinishPhase(participantCount - 1, throws)
            /\ pc' = NotifyAll(pc)
       ELSE /\ ~throws
            /\ remainingCount' = remainingCount - 1
            /\ UNCHANGED <<phaseCount, lastException, pc, faulted>>
  /\ UNCHANGED <<disposed, myPhase, result>>

Dispose ==
  /\ ~disposed
  /\ disposed' = TRUE
  /\ UNCHANGED <<counts, phaseCount, lastException, taking, pc, myPhase, result, faulted>>
-----------------------------------------------------------------------------
Next ==
  \/ \E t \in Threads :
       \/ SignalAndWait(t) \/ ResumeWait(t) \/ AddParticipant(t)
       \/ \E b \in BOOLEAN : SignalLast(t, b) \/ RemoveParticipant(t, b)
  \/ Dispose

Spec == Init /\ [][Next]_vars

\* A notified thread runs.  Nobody has to arrive.
FairSpec == Spec /\ \A t \in Threads : WF_vars(ResumeWait(t))
-----------------------------------------------------------------------------
(* Properties. *)

\* Threads that have signalled the phase that is not finished yet.
Arrived == {t \in Threads : pc[t] \in {"parked", "notified"} /\ myPhase[t] = phaseCount}

\* The type invariant.
TypeOK ==
  /\ participantCount \in 0..MaxParticipants
  /\ remainingCount \in Nat
  /\ phaseCount \in Nat
  /\ lastException \in BOOLEAN /\ disposed \in BOOLEAN
  /\ inPerson \in BOOLEAN /\ members \in SUBSET Threads
  /\ pc \in [Threads -> {"idle", "parked", "notified"}]
  /\ myPhase \in [Threads -> Nat]
  /\ result \in [Threads -> {"none", "ok", "fault"}]
  /\ faulted \in SUBSET Nat

\* The barrier waits for exactly the participants that have not arrived, however
\* joining, leaving and signalling interleave and whoever does it; and as long as
\* there is one, the phase is open.
RemainingExact ==
  /\ inPerson => participantCount = Cardinality(members)
  /\ remainingCount = participantCount - Cardinality(Arrived)
  /\ participantCount > 0 => remainingCount > 0

\* As long as participants act in person, nobody is more than the phase in progress
\* ahead: a thread still in SignalAndWait belongs to this phase or to the one just
\* finished.
Lockstep ==
  inPerson => \A t \in Threads : pc[t] # "idle" => phaseCount - myPhase[t] \in {0, 1}

\* "every participant thread -- not just the one that happened to trigger the
\* phase transition -- observes and rethrows": whoever took part in a phase fails
\* exactly if the action of that very phase did, however late it wakes up.  That
\* asks for participants that act in person.  Where a thread takes participants off
\* for others, the next phase may end before a waiter wakes up, and the waiter then
\* reports the next phase.
FaultSeenByAll ==
  inPerson =>
    \A t \in Threads :
      pc[t] = "idle" /\ result[t] # "none" => (result[t] = "fault" <=> myPhase[t] \in faulted)

\* No thread sleeps in a phase that is over.
NoLostWakeup == \A t \in Threads : pc[t] = "parked" => myPhase[t] = phaseCount

\* The phase machinery is consistent at every moment a thread can look at it: the
\* counts and the sleepers whatever threads do, the phases and their faults as long
\* as participants act in person.
BarrierInv == TypeOK /\ RemainingExact /\ Lockstep /\ NoLostWakeup /\ FaultSeenByAll

\* Once the phase is over, everyone who waited for it returns.
PhaseReleasesAll ==
  \A t \in Threads : pc[t] # "idle" /\ myPhase[t] < phaseCount ~> pc[t] = "idle"
=============================================================================
