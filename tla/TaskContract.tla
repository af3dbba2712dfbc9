---------------------------- MODULE TaskContract ----------------------------
(***************************************************************************)
(* What the tasks of System.Threading.Tasks promise to those who use them: *)
(* a task ends once and stays as it ended; a continuation is invoked at    *)
(* most once, after its antecedent has ended in a way that it asked for;   *)
(* WhenAll ends after all of its inputs and says what became of them, and  *)
(* WhenAny ends with an input that has ended.                              *)
(***************************************************************************)
EXTENDS Sequences

CONSTANTS Tasks, None

VARIABLES plan,     \* how each task is made, see Task
          status,   \* its status
          cause,    \* the task whose exception it rethrows
          answer,   \* the task a WhenAny ended with
          invoked   \* the continuations whose delegate was called

vars == <<plan, status, cause, answer, invoked>>

Outcomes == {"RanToCompletion", "Faulted", "Canceled"}

Init ==
  /\ status = [t \in Tasks |-> "Running"]
  /\ cause = [t \in Tasks |-> None]
  /\ answer = [t \in Tasks |-> None]
  /\ invoked = {}

Ended(t) == status[t] # "Running"

Inputs(t) == {plan[t].of[i] : i \in DOMAIN plan[t].of}

\* The outcome o of task t, with the exception of task x, fits what t is.
Fits(t, o, x, a) ==
  CASE plan[t].kind = "then" ->
         /\ Ended(plan[t].of[1])
         /\ IF status[plan[t].of[1]] \in plan[t].notOn
              THEN o = "Canceled" /\ t \notin invoked
              ELSE o # "Canceled" /\ t \in invoked
         /\ x = IF o = "Faulted" THEN t ELSE None
    [] plan[t].kind = "all" ->
         LET faults == SelectSeq(plan[t].of, LAMBDA s : status[s] = "Faulted")
         IN  /\ \A s \in Inputs(t) : Ended(s)
             /\ o = IF \A s \in Inputs(t) : status[s] = "RanToCompletion"
                      THEN "RanToCompletion" ELSE "Faulted"
             /\ x = IF faults # <<>> THEN cause[faults[1]]
                    ELSE IF o = "Faulted" THEN t ELSE None
    [] plan[t].kind = "any" ->
         o = "RanToCompletion" /\ x = None /\ a \in Inputs(t) /\ Ended(a)
    [] plan[t].kind = "unwrap" ->
         LET outer == plan[t].of[1]
             last == IF status[outer] = "RanToCompletion" THEN answer[outer] ELSE outer
         IN  /\ Ended(outer)
             /\ IF last = None THEN o = "Canceled" /\ x = None
                               ELSE Ended(last) /\ o = status[last] /\ x = cause[last]
    [] OTHER -> x = IF o = "Faulted" THEN t ELSE None

\* Only WhenAny and an action that returns a task have a task as result; the one that an
\* action returns may have been moved from.
HasAnswer(t, o) == o = "RanToCompletion" /\ plan[t].kind \in {"action", "any"} /\ plan[t].of # <<>>

End(t) ==
  /\ ~Ended(t)
  /\ \E o \in Outcomes, x \in Tasks \cup {None}, a \in Tasks \cup {None} :
       /\ a # None => HasAnswer(t, o) /\ a \in Inputs(t)
       /\ Fits(t, o, x, a)
       /\ status' = [status EXCEPT ![t] = o]
       /\ cause' = [cause EXCEPT ![t] = x]
       /\ answer' = [answer EXCEPT ![t] = a]
  /\ UNCHANGED <<plan, invoked>>

Invoke(t) ==
  /\ plan[t].kind = "then" /\ t \notin invoked /\ ~Ended(t)
  /\ Ended(plan[t].of[1]) /\ status[plan[t].of[1]] \notin plan[t].notOn
  /\ invoked' = invoked \cup {t}
  /\ UNCHANGED <<plan, status, cause, answer>>

Next == \E t \in Tasks : End(t) \/ Invoke(t)

Spec == Init /\ [][Next]_vars
=============================================================================
