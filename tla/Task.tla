-------------------------------- MODULE Task --------------------------------
(***************************************************************************)
(* Task, TaskT, TaskCompletionSource and Unwrap.  The code that completes  *)
(* a task runs on the thread that happens to be there (an async worker, a  *)
(* thread that registers a continuation, the thread that completes another *)
(* task), so it is a process of its own, `step[t]': body, store (the       *)
(* exception and the flag of the outcome), complete (isCompleted, stored   *)
(* without the mutex), swap (fireContinuations takes the callbacks under   *)
(* completionMutex), notify, and then the callbacks one by one.  A caller  *)
(* of a callback goes on when `step' of the callee is done.                *)
(*                                                                         *)
(* Users are threads of the program.  A task of kind "all" (the action of  *)
(* WhenAll) and of kind "unwrap" (the detached thread of completeProxy)    *)
(* waits for other tasks itself, so a task is an actor too: `at[a]' is     *)
(* where actor a stands in a call.                                         *)
(***************************************************************************)
EXTENDS Naturals, Sequences

CONSTANTS Tasks, Users, Plans, None

\* A plan says how the program makes each task: its kind, the tasks it is
\* made of, the thread that makes it, and the outcomes that its
\* TaskContinuationOptions exclude.
Kinds == {"action", "token", "source", "then", "all", "any", "unwrap"}
Outcomes == {"RanToCompletion", "Faulted", "Canceled"}

\* How a producer completes a source: TrySetResult, TrySetException, TrySetCanceled, or
\* TrySetResult with a value whose copy throws.
Hows == {"result", "exception", "cancel", "badCopy"}

\* A continuation has one antecedent; WhenAll of nothing starts no task of this kind and
\* WhenAny of nothing is refused; what is unwrapped has a task as its result.
WellMade(p, t) ==
  /\ p[t].kind \in Kinds /\ p[t].of \in Seq(Tasks)
  /\ p[t].by \in Users /\ p[t].notOn \subseteq Outcomes
  /\ p[t].kind \in {"then", "unwrap"} => Len(p[t].of) = 1
  /\ p[t].kind \in {"all", "any"} => Len(p[t].of) > 0
  /\ p[t].kind = "unwrap" =>
       LET outer == p[p[t].of[1]]
       IN  outer.kind = "any" \/ (outer.kind = "action" /\ outer.of # <<>>)

ASSUME PlansAssumption ==
  /\ \A p \in Plans, t \in Tasks : WellMade(p, t)
  /\ None \notin Tasks \cup Users \cup Hows \cup {"value"} /\ Tasks \cap Users = {}

VARIABLES plan,          \* how the program makes its tasks
          known,         \* the tasks whose handle the program has
          requested,     \* the CancellationToken's request
          step,          \* where the completion code of each task stands
          outcome,       \* what its body came to
          isCompleted, isFaulted, isCanceled,  \* State's flags
          cause,         \* State::exception: the task whose exception it is
          result,        \* State::result where it is a task; WhenAny's winner
          mutex,         \* the holder of completionMutex
          continuations, \* the registered callbacks
          toRun,         \* the callbacks fireContinuations has taken
          invoked,       \* the continuations whose delegate was called
          claimed,       \* TaskCompletionSource::completed_ (how it was won)
          canceledFlag,  \* TaskCompletionSource::canceledFlag_
          promise,       \* TaskCompletionSource::promise_
          at,            \* where each actor stands in a call
          tally          \* WhenAll's locals: firstFault and anyCanceled

flags == <<isCompleted, isFaulted, isCanceled, cause>>
sources == <<claimed, canceledFlag, promise>>
vars == <<plan, known, requested, step, outcome, flags, result, mutex,
          continuations, toRun, invoked, sources, at, tally>>

Actors == Users \cup Tasks

Idle == [pc |-> "idle", task |-> None, i |-> 0, how |-> "result"]

Init ==
  /\ plan \in Plans
  /\ known = {} /\ requested = FALSE /\ invoked = {}
  /\ step = [t \in Tasks |-> "none"]
  /\ outcome = [t \in Tasks |-> "ok"]
  /\ isCompleted = [t \in Tasks |-> FALSE]
  /\ isFaulted = [t \in Tasks |-> FALSE]
  /\ isCanceled = [t \in Tasks |-> FALSE]
  /\ cause = [t \in Tasks |-> None]
  /\ result = [t \in Tasks |-> None]
  /\ mutex = [t \in Tasks |-> None]
  /\ continuations = [t \in Tasks |-> <<>>]
  /\ toRun = [t \in Tasks |-> <<>>]
  /\ claimed = [t \in Tasks |-> None]
  /\ canceledFlag = [t \in Tasks |-> FALSE]
  /\ promise = [t \in Tasks |-> None]
  /\ at = [a \in Actors |-> Idle]
  /\ tally = [t \in Tasks |-> [fault |-> None, canceled |-> FALSE]]

Kind(t) == plan[t].kind
Inputs(t) == {plan[t].of[i] : i \in DOMAIN plan[t].of}
Go(a, pc) == at' = [at EXCEPT ![a].pc = pc]

\* getStatusProperty
Status(t) ==
  IF ~isCompleted[t] THEN "Running"
  ELSE IF isCanceled[t] THEN "Canceled"
  ELSE IF isFaulted[t] THEN "Faulted" ELSE "RanToCompletion"

\* What the last lines of Wait do: rethrow, throw TaskCanceledException, return.
Report(t) == IF isFaulted[t] /\ cause[t] # None THEN "Faulted"
             ELSE IF isCanceled[t] THEN "Canceled" ELSE "RanToCompletion"

----------------------------------------------------------------------------
(* Making tasks. *)

\* The program makes t out of tasks it has.  (Unwrap of a task that ran to
\* completion returns the inner task: step "inner", and no task of its own.)
Making(u, t) == /\ at[u] = Idle /\ plan[t].by = u /\ step[t] = "none" /\ t \notin known
                /\ Inputs(t) \subseteq known
                /\ \A s \in Inputs(t) : step[s] # "inner"

\* Task(action), Task(action, token) with a token that is not canceled,
\* WhenAll, and the Task of a TaskCompletionSource: an async worker starts.
Start(u, t) ==
  /\ Making(u, t) /\ Kind(t) \in {"action", "token", "source", "all"}
  /\ Kind(t) = "token" => ~requested
  /\ step' = [step EXCEPT ![t] = "body"]
  /\ at' = IF Kind(t) = "all"
             THEN [at EXCEPT ![t] = [Idle EXCEPT !.pc = "enter", !.task = plan[t].of[1], !.i = 1]]
             ELSE at
  /\ known' = known \cup {t}
  /\ UNCHANGED <<plan, requested, outcome, flags, result, mutex, continuations, toRun,
                 invoked, sources, tally>>

\* Task(action, token) with a token that is canceled: no worker, no future.
StartCanceled(u, t) ==
  /\ Making(u, t) /\ Kind(t) = "token" /\ requested
  /\ isCanceled' = [isCanceled EXCEPT ![t] = TRUE]
  /\ isCompleted' = [isCompleted EXCEPT ![t] = TRUE]
  /\ step' = [step EXCEPT ![t] = "done"]
  /\ known' = known \cup {t}
  /\ UNCHANGED <<plan, requested, outcome, isFaulted, cause, result, mutex, continuations,
                 toRun, invoked, sources, at, tally>>

\* ContinueWith and WhenAny make a task without a future and then call
\* registerContinuation, WhenAny after it has looked for a completed input.
Pend(u, t) ==
  /\ Making(u, t) /\ Kind(t) \in {"then", "any"}
  /\ step' = [step EXCEPT ![t] = "pending"]
  /\ at' = [at EXCEPT ![u] = [Idle EXCEPT !.task = t, !.i = 1,
                                !.pc = IF Kind(t) = "any" THEN "scan" ELSE "register"]]
  /\ UNCHANGED <<plan, known, requested, outcome, flags, result, mutex, continuations,
                 toRun, invoked, sources, tally>>

\* WhenAny's fast path: FromResult with the first input that has completed.
Scan(u) ==
  /\ at[u].pc = "scan"
  /\ LET t == at[u].task
         s == plan[t].of[at[u].i]
     IN  IF isCompleted[s]
           THEN /\ result' = [result EXCEPT ![t] = s]
                /\ isCompleted' = [isCompleted EXCEPT ![t] = TRUE]
                /\ step' = [step EXCEPT ![t] = "done"]
                /\ at' = [at EXCEPT ![u] = Idle]
                /\ known' = known \cup {t}
           ELSE /\ at' = IF at[u].i < Len(plan[t].of)
                           THEN [at EXCEPT ![u].i = @ + 1]
                           ELSE [at EXCEPT ![u].i = 1, ![u].pc = "register"]
                /\ UNCHANGED <<result, isCompleted, step, known>>
  /\ UNCHANGED <<plan, requested, outcome, isFaulted, isCanceled, cause, mutex,
                 continuations, toRun, invoked, sources, tally>>

\* Unwrap of an outer task that has not run to completion: a proxy's source, its bridge
\* and a detached thread that waits for both.
Unwrap(u, t) ==
  /\ Making(u, t) /\ Kind(t) = "unwrap" /\ Status(plan[t].of[1]) # "RanToCompletion"
  /\ step' = [step EXCEPT ![t] = "body"]
  /\ at' = [at EXCEPT ![t] = [Idle EXCEPT !.pc = "enter", !.task = plan[t].of[1], !.i = 1]]
  /\ known' = known \cup {t}
  /\ UNCHANGED <<plan, requested, outcome, flags, result, mutex, continuations, toRun,
                 invoked, sources, tally>>

\* Unwrap of one that has: its inner task, or FromCanceled if that was moved from.
UnwrapEnded(u, t) ==
  /\ Making(u, t) /\ Kind(t) = "unwrap" /\ Status(plan[t].of[1]) = "RanToCompletion"
  /\ IF result[plan[t].of[1]] # None
       THEN step' = [step EXCEPT ![t] = "inner"] /\ UNCHANGED <<isCanceled, isCompleted>>
       ELSE /\ isCanceled' = [isCanceled EXCEPT ![t] = TRUE]
            /\ isCompleted' = [isCompleted EXCEPT ![t] = TRUE]
            /\ step' = [step EXCEPT ![t] = "done"]
  /\ known' = known \cup {t}
  /\ UNCHANGED <<plan, requested, outcome, isFaulted, cause, result, mutex, continuations,
                 toRun, invoked, sources, at, tally>>

----------------------------------------------------------------------------
(* registerContinuation and the callbacks. *)

\* The callback of task c is called when s has completed.  ContinueWith's
\* reads the outcome of s and calls the delegate or cancels c; WhenAny's
\* competes to be the winner and does nothing when it is too late.
Excluded(c, s) == Status(s) \in plan[c].notOn

\* MUTANT: no compare-exchange on winnerIndex.
LostNever(c) == FALSE

Lost(c) == Kind(c) = "any" /\ result[c] # None

Called(c, s) == IF Kind(c) = "then" /\ ~Excluded(c, s) THEN "body" ELSE "store"

Callback(c, s) ==
  /\ outcome' = [outcome EXCEPT ![c] = IF Kind(c) = "then" /\ Excluded(c, s) THEN "canceled" ELSE "ok"]
  /\ result' = IF Kind(c) = "any" THEN [result EXCEPT ![c] = s] ELSE result
  /\ invoked' = IF Called(c, s) = "body" THEN invoked \cup {c} ELSE invoked

\* The registration at the i-th input is over: WhenAny goes on with the next.
NextInput(u) == LET t == at[u].task
                IN  IF at[u].i < Len(plan[t].of)
                      THEN [at EXCEPT ![u].i = @ + 1, ![u].pc = "register"]
                      ELSE [at EXCEPT ![u] = Idle]

Registered(u) ==
  /\ at' = NextInput(u)
  /\ known' = IF NextInput(u)[u] = Idle THEN known \cup {at[u].task} ELSE known

\* MUTANT: isCompleted is tested under the mutex and the callback added without it.
KeptNot(u) == None

\* The holder of the mutex after registerContinuation found isCompleted false.
Kept(u) == u

\* The lock is taken and isCompleted read: the callback is called here, or
\* the mutex is kept until the callback is in the list.
Register(u) ==
  /\ at[u].pc = "register"
  /\ LET c == at[u].task
         s == plan[c].of[at[u].i]
     IN  /\ mutex[s] = None
         /\ \/ /\ ~isCompleted[s]
               /\ mutex' = [mutex EXCEPT ![s] = Kept(u)] /\ Go(u, "push")
               /\ UNCHANGED <<known, step, outcome, result, invoked>>
            \/ /\ isCompleted[s] /\ ~Lost(c)
               /\ Callback(c, s) /\ Go(u, "calling")
               /\ step' = [step EXCEPT ![c] = Called(c, s)]
               /\ UNCHANGED <<known, mutex>>
            \/ /\ isCompleted[s] /\ Lost(c)
               /\ Registered(u)
               /\ UNCHANGED <<step, outcome, result, invoked, mutex>>
  /\ UNCHANGED <<plan, requested, flags, continuations, toRun, sources, tally>>

Push(u) ==
  /\ at[u].pc = "push"
  /\ LET s == plan[at[u].task].of[at[u].i]
     IN  /\ continuations' = [continuations EXCEPT ![s] = Append(@, at[u].task)]
         /\ mutex' = [mutex EXCEPT ![s] = None]
  /\ Registered(u)
  /\ UNCHANGED <<plan, requested, step, outcome, flags, result, toRun, invoked, sources, tally>>

Returned(u) ==
  /\ at[u].pc = "calling" /\ step[at[u].task] = "done"
  /\ Registered(u)
  /\ UNCHANGED <<plan, requested, step, outcome, flags, result, mutex, continuations, toRun,
                 invoked, sources, tally>>

----------------------------------------------------------------------------
(* The completion of a task. *)

\* The delegate of an action or of a continuation returns or throws; a task
\* of kind "action" with an input returns that input, or a task that was moved from.
Body(t) ==
  /\ step[t] = "body" /\ Kind(t) \in {"action", "token", "then"}
  /\ \E o \in {"ok", "fault"} \cup (IF Kind(t) = "token" THEN {"oce"} ELSE {}) :
       /\ outcome' = [outcome EXCEPT ![t] = o]
       /\ \/ UNCHANGED result
          \/ /\ Kind(t) = "action" /\ plan[t].of # <<>> /\ o = "ok"
             /\ result' = [result EXCEPT ![t] = plan[t].of[1]]
  /\ step' = [step EXCEPT ![t] = "store"]
  /\ UNCHANGED <<plan, known, requested, flags, mutex, continuations, toRun, invoked, sources,
                 at, tally>>

\* FromExternalFuture: the worker gets the value or the exception of the
\* source's promise, and asks the source whether the exception is its own.
Bridge(t) ==
  /\ step[t] = "body" /\ Kind(t) \in {"source", "unwrap"} /\ promise[t] # None
  /\ outcome' = [outcome EXCEPT ![t] = IF promise[t] = "value" THEN "ok"
                                       ELSE IF canceledFlag[t] THEN "canceled" ELSE "fault"]
  /\ step' = [step EXCEPT ![t] = "store"]
  /\ UNCHANGED <<plan, known, requested, flags, result, mutex, continuations, toRun, invoked,
                 sources, at, tally>>

\* The task whose exception t stores: for WhenAll and for a proxy the one
\* that was rethrown to them, else its own.
Thrown(t) == IF tally[t].fault # None THEN tally[t].fault ELSE t

Cancels(t) == outcome[t] = "canceled" \/ (outcome[t] = "oce" /\ requested)

Store(t) ==
  /\ step[t] = "store"
  /\ isCanceled' = [isCanceled EXCEPT ![t] = Cancels(t)]
  /\ isFaulted' = [isFaulted EXCEPT ![t] = outcome[t] \in {"fault", "oce"} /\ ~Cancels(t)]
  /\ cause' = [cause EXCEPT ![t] = IF isFaulted'[t] THEN Thrown(t) ELSE None]
  /\ step' = [step EXCEPT ![t] = "complete"]
  /\ UNCHANGED <<plan, known, requested, outcome, isCompleted, result, mutex, continuations,
                 toRun, invoked, sources, at, tally>>

Complete(t) ==
  /\ step[t] = "complete"
  /\ isCompleted' = [isCompleted EXCEPT ![t] = TRUE]
  /\ step' = [step EXCEPT ![t] = "swap"]
  /\ UNCHANGED <<plan, known, requested, outcome, isFaulted, isCanceled, cause, result, mutex,
                 continuations, toRun, invoked, sources, at, tally>>

\* MUTANT: the list is taken without the mutex.
MayTakeAlways(t) == TRUE

MayTake(t) == mutex[t] = None

\* fireContinuations: the callbacks are taken under the mutex ...
Swap(t) ==
  /\ step[t] = "swap" /\ MayTake(t)
  /\ toRun' = [toRun EXCEPT ![t] = continuations[t]]
  /\ continuations' = [continuations EXCEPT ![t] = <<>>]
  /\ step' = [step EXCEPT ![t] = "notify"]
  /\ UNCHANGED <<plan, known, requested, outcome, flags, result, mutex, invoked, sources,
                 at, tally>>

\* notify_all
Woken(parked) == parked

\* ... the waiting threads are woken ...
Notify(t) ==
  /\ step[t] = "notify"
  /\ LET woken == Woken({a \in Actors : at[a].pc = "parked" /\ at[a].task = t})
     IN  at' = [a \in Actors |-> IF a \in woken THEN [at[a] EXCEPT !.pc = "lock"] ELSE at[a]]
  /\ step' = [step EXCEPT ![t] = "run"]
  /\ UNCHANGED <<plan, known, requested, outcome, flags, result, mutex, continuations, toRun,
                 invoked, sources, tally>>

\* ... and the callbacks are called one after the other; then the worker
\* returns, which makes the task's future ready.
Run(t) ==
  /\ step[t] = "run"
  /\ LET c == Head(toRun[t])
     IN  \/ /\ toRun[t] = <<>>
            /\ step' = [step EXCEPT ![t] = "done"]
            /\ UNCHANGED <<toRun, outcome, result, invoked>>
         \/ /\ toRun[t] # <<>> /\ ~Lost(c)
            /\ Callback(c, t)
            /\ step' = [step EXCEPT ![t] = "calling", ![c] = Called(c, t)]
            /\ UNCHANGED toRun
         \/ /\ toRun[t] # <<>> /\ Lost(c)
            /\ toRun' = [toRun EXCEPT ![t] = Tail(@)]
            /\ UNCHANGED <<step, outcome, result, invoked>>
  /\ UNCHANGED <<plan, known, requested, flags, mutex, continuations, sources, at, tally>>

CalleeDone(t) ==
  /\ step[t] = "calling" /\ step[Head(toRun[t])] = "done"
  /\ toRun' = [toRun EXCEPT ![t] = Tail(@)]
  /\ step' = [step EXCEPT ![t] = "run"]
  /\ UNCHANGED <<plan, known, requested, outcome, flags, result, mutex, continuations, invoked,
                 sources, at, tally>>

----------------------------------------------------------------------------
(* Wait and getResultProperty. *)

Wait(u, t) ==
  /\ at[u] = Idle /\ t \in known /\ step[t] # "inner"
  /\ at' = [at EXCEPT ![u] = [Idle EXCEPT !.pc = "enter", !.task = t]]
  /\ UNCHANGED <<plan, known, requested, step, outcome, flags, result, mutex, continuations,
                 toRun, invoked, sources, tally>>

\* A continuation and WhenAny's task have no future; nor has the view of its
\* input that WhenAny's callback stores, which is what a proxy's thread waits
\* for (a WhenAny that completed when it was made is never given a proxy).
HasFuture(a, t) ==
  /\ Kind(t) \notin {"then", "any"}
  /\ ~(a \in Tasks /\ Kind(a) = "unwrap" /\ at[a].i = 2 /\ Kind(plan[a].of[1]) = "any")

WaitEnter(a) ==
  /\ at[a].pc = "enter"
  /\ LET t == at[a].task
     IN  IF HasFuture(a, t) THEN step[t] = "done" /\ Go(a, "woken")
         ELSE Go(a, IF isCompleted[t] THEN "woken" ELSE "lock")
  /\ UNCHANGED <<plan, known, requested, step, outcome, flags, result, mutex, continuations,
                 toRun, invoked, sources, tally>>

\* completionCv.wait: the predicate is read with the mutex held; a thread
\* that finds it false keeps the mutex until it sleeps.
WaitTest(a) ==
  /\ at[a].pc = "lock" /\ mutex[at[a].task] = None
  /\ IF isCompleted[at[a].task] THEN Go(a, "woken") /\ mutex' = mutex
     ELSE Go(a, "sleeping") /\ mutex' = [mutex EXCEPT ![at[a].task] = a]
  /\ UNCHANGED <<plan, known, requested, step, outcome, flags, result, continuations, toRun,
                 invoked, sources, tally>>

WaitSleep(a) ==
  /\ at[a].pc = "sleeping"
  /\ Go(a, "parked") /\ mutex' = [mutex EXCEPT ![at[a].task] = None]
  /\ UNCHANGED <<plan, known, requested, step, outcome, flags, result, continuations, toRun,
                 invoked, sources, tally>>

\* The caller is told Report(at[u].task).
WaitReturn(u) ==
  /\ u \in Users /\ at[u].pc = "woken"
  /\ at' = [at EXCEPT ![u] = Idle]
  /\ UNCHANGED <<plan, known, requested, step, outcome, flags, result, mutex, continuations,
                 toRun, invoked, sources, tally>>

----------------------------------------------------------------------------
(* WhenAll's action, and completeProxy. *)

\* WhenAll waits for its inputs in order and remembers the first exception
\* and whether an input was canceled.
AllHeard(t) ==
  /\ Kind(t) = "all" /\ at[t].pc = "woken"
  /\ LET s == at[t].task
         got == [fault |-> IF tally[t].fault = None /\ Report(s) = "Faulted" /\ ~isCanceled[s]
                             THEN cause[s] ELSE tally[t].fault,
                 canceled |-> tally[t].canceled \/ isCanceled[s]]
     IN  /\ tally' = [tally EXCEPT ![t] = got]
         /\ IF at[t].i < Len(plan[t].of)
              THEN /\ at' = [at EXCEPT ![t] = [Idle EXCEPT !.pc = "enter", !.i = at[t].i + 1,
                                                 !.task = plan[t].of[at[t].i + 1]]]
                   /\ UNCHANGED <<step, outcome>>
              ELSE /\ at' = [at EXCEPT ![t] = Idle]
                   /\ outcome' = [outcome EXCEPT ![t] =
                                    IF got.fault # None \/ got.canceled THEN "fault" ELSE "ok"]
                   /\ step' = [step EXCEPT ![t] = "store"]
  /\ UNCHANGED <<plan, known, requested, flags, result, mutex, continuations, toRun, invoked,
                 sources>>

\* What the proxy's thread passes on when it has heard of s: nothing yet if s is an outer
\* task with an inner one to wait for; a cancellation if that was moved from.
HasInner(t, s) == at[t].i = 1 /\ Report(s) = "RanToCompletion" /\ result[s] # None

PassesOn(t, s) ==
  IF Report(s) = "RanToCompletion" THEN IF at[t].i = 1 THEN "cancel" ELSE "result"
  ELSE IF isCanceled[s] THEN "cancel" ELSE "exception"

\* completeProxy waits for the outer task and then for the inner one, and
\* passes on what it learnt of the inner, or of an outer that did not succeed.
ProxyHeard(t) ==
  /\ Kind(t) = "unwrap" /\ at[t].pc = "woken"
  /\ LET s == at[t].task
     IN  IF HasInner(t, s)
           THEN /\ at' = [at EXCEPT ![t] = [Idle EXCEPT !.pc = "enter", !.i = 2, !.task = result[s]]]
                /\ tally' = tally
           ELSE /\ at' = [at EXCEPT ![t] = [Idle EXCEPT !.pc = "claim", !.task = t, !.how = PassesOn(t, s)]]
                /\ tally' = [tally EXCEPT ![t].fault = cause[s]]
  /\ UNCHANGED <<plan, known, requested, step, outcome, flags, result, mutex, continuations,
                 toRun, invoked, sources>>

----------------------------------------------------------------------------
(* TaskCompletionSource. *)

\* TrySetResult, TrySetException, TrySetCanceled (which is also what the
\* destructor does).  (A proxy's source is the one of a Task without a result, so a
\* proxy has no copy that may throw.)
TrySet(u, t, how) ==
  /\ at[u] = Idle /\ t \in known /\ Kind(t) = "source"
  /\ at' = [at EXCEPT ![u] = [Idle EXCEPT !.pc = "claim", !.task = t, !.how = how]]
  /\ UNCHANGED <<plan, known, requested, step, outcome, flags, result, mutex, continuations,
                 toRun, invoked, sources, tally>>

\* MUTANT: completed_ is stored, not exchanged.
AlwaysFirst(t) == TRUE

\* The compare-exchange on completed_.
First(t) == claimed[t] = None

Claim(a) ==
  /\ at[a].pc = "claim"
  /\ IF First(at[a].task)
       THEN /\ claimed' = [claimed EXCEPT ![at[a].task] = at[a].how]
            /\ Go(a, IF at[a].how = "cancel" THEN "flag" ELSE "promise")
       ELSE claimed' = claimed /\ at' = [at EXCEPT ![a] = Idle]
  /\ UNCHANGED <<plan, known, requested, step, outcome, flags, result, mutex, continuations,
                 toRun, invoked, canceledFlag, promise, tally>>

Flag(a) ==
  /\ at[a].pc = "flag"
  /\ canceledFlag' = [canceledFlag EXCEPT ![at[a].task] = TRUE]
  /\ Go(a, "promise")
  /\ UNCHANGED <<plan, known, requested, step, outcome, flags, result, mutex, continuations,
                 toRun, invoked, claimed, promise, tally>>

\* The promise gets the value, or an exception: also that of the copy of a value.
Promise(a) ==
  /\ at[a].pc = "promise"
  /\ promise' = [promise EXCEPT ![at[a].task] = IF at[a].how = "result" THEN "value" ELSE "exception"]
  /\ at' = [at EXCEPT ![a] = Idle]
  /\ UNCHANGED <<plan, known, requested, step, outcome, flags, result, mutex, continuations,
                 toRun, invoked, claimed, canceledFlag, tally>>

\* The token that some tasks were given is canceled.
Cancel ==
  /\ ~requested /\ requested' = TRUE
  /\ \E t \in Tasks : Kind(t) = "token"
  /\ UNCHANGED <<plan, known, step, outcome, flags, result, mutex, continuations, toRun,
                 invoked, sources, at, tally>>

----------------------------------------------------------------------------

InCall(a) == \/ WaitEnter(a) \/ WaitTest(a) \/ WaitSleep(a)
             \/ Claim(a) \/ Flag(a) \/ Promise(a)
UserStep(u) == InCall(u) \/ Scan(u) \/ Register(u) \/ Push(u) \/ Returned(u) \/ WaitReturn(u)
TaskStep(t) == \/ InCall(t) \/ Body(t) \/ Bridge(t) \/ Store(t) \/ Complete(t) \/ Swap(t)
               \/ Notify(t) \/ Run(t) \/ CalleeDone(t) \/ AllHeard(t) \/ ProxyHeard(t)
Call(u) == \E t \in Tasks : \/ Start(u, t) \/ StartCanceled(u, t) \/ Pend(u, t) \/ Unwrap(u, t)
                            \/ UnwrapEnded(u, t)
                            \/ Wait(u, t) \/ \E how \in Hows : TrySet(u, t, how)

Next == \/ \E u \in Users : Call(u) \/ UserStep(u)
        \/ \E t \in Tasks : TaskStep(t)
        \/ Cancel

Spec == Init /\ [][Next]_vars

\* Threads that are in a call, and the workers, go on; delegates return.
\* Nothing makes the program start a call.
FairSpec ==
  /\ Spec
  /\ \A u \in Users : WF_vars(UserStep(u))
  /\ \A t \in Tasks : WF_vars(TaskStep(t))

----------------------------------------------------------------------------
(* Properties *)

PCs == {"idle", "enter", "lock", "sleeping", "parked", "woken", "scan", "register", "push",
        "calling", "claim", "flag", "promise"}
Steps == {"none", "pending", "inner", "body", "store", "complete", "swap", "notify", "run",
          "calling", "done"}

\* The type invariant.
TypeOK ==
  /\ plan \in Plans /\ known \subseteq Tasks /\ invoked \subseteq Tasks /\ requested \in BOOLEAN
  /\ step \in [Tasks -> Steps]
  /\ outcome \in [Tasks -> {"ok", "fault", "oce", "canceled"}]
  /\ isCompleted \in [Tasks -> BOOLEAN] /\ isFaulted \in [Tasks -> BOOLEAN]
  /\ isCanceled \in [Tasks -> BOOLEAN]
  /\ cause \in [Tasks -> Tasks \cup {None}] /\ result \in [Tasks -> Tasks \cup {None}]
  /\ mutex \in [Tasks -> Actors \cup {None}]
  /\ continuations \in [Tasks -> Seq(Tasks)] /\ toRun \in [Tasks -> Seq(Tasks)]
  /\ claimed \in [Tasks -> Hows \cup {None}] /\ canceledFlag \in [Tasks -> BOOLEAN]
  /\ promise \in [Tasks -> {"value", "exception", None}]
  /\ at \in [Actors -> [pc : PCs, task : Tasks \cup {None}, i : Nat, how : Hows]]
  /\ tally \in [Tasks -> [fault : Tasks \cup {None}, canceled : BOOLEAN]]

\* A thread that Wait lets go on finds the task completed, and the report it
\* makes of the flags is the task's final status.
HeardIsFinal == \A a \in Actors : at[a].pc = "woken" => Status(at[a].task) = Report(at[a].task)

\* One producer gets to complete a source, and the task ends the way that
\* producer asked for, or Faulted if the result it asked for could not be copied: an
\* exception is not taken for a cancellation, and a cancellation not for an exception.
\* (A proxy whose inner task was moved from is canceled from the start and has no source.)
SourceKeepsItsWord ==
  /\ \A a, b \in Actors : /\ at[a].pc \in {"flag", "promise"} /\ at[b].pc \in {"flag", "promise"}
                          /\ at[a].task = at[b].task
                          => a = b /\ promise[at[a].task] = None
  /\ \A t \in Tasks : /\ Kind(t) \in {"source", "unwrap"} /\ isCompleted[t]
                     => Status(t) = CASE claimed[t] = "result" -> "RanToCompletion"
                                      [] claimed[t] \in {"exception", "badCopy"} -> "Faulted"
                                      [] claimed[t] = "cancel" -> "Canceled"
                                      [] claimed[t] = None /\ Kind(t) = "unwrap" -> "Canceled"

\* Only a request of its own token makes a task with a token Canceled.
CanceledWasAsked ==
  \A t \in Tasks : Kind(t) = "token" /\ isCanceled[t] => requested

TaskInv == TypeOK /\ HeardIsFinal /\ SourceKeepsItsWord /\ CanceledWasAsked

\* isCompleted is stored without the mutex, so a thread may find it false,
\* then the task completes, and then the thread sleeps or registers.  It is
\* still woken, and its callback is still taken: fireContinuations has yet to
\* lock the mutex that the thread held.  Afterwards nobody sleeps and nothing
\* is left in the list.
NothingForgotten ==
  \A t \in Tasks : isCompleted[t] =>
    /\ \A a \in Actors : at[a].pc = "parked" /\ at[a].task = t => step[t] \in {"swap", "notify"}
    /\ continuations[t] # <<>> => step[t] = "swap"

\* What the tasks promise together: each ends once, continuations are called
\* at most once and only for outcomes they asked for, WhenAll ends after all
\* its inputs with the first exception in input order, WhenAny ends with an
\* input that has ended, Unwrap ends as the inner task, or Canceled if that was moved
\* from.
Contract == INSTANCE TaskContract WITH
              status <- [t \in Tasks |-> Status(t)],
              cause <- [t \in Tasks |-> IF isCompleted[t] THEN cause[t] ELSE None],
              answer <- [t \in Tasks |-> IF isCompleted[t] THEN result[t] ELSE None]

ImplementsContract == Contract!Spec

\* Whoever waits for a task that completes gets to return.
WaitEnds ==
  \A u \in Users : (at[u].pc \in {"enter", "lock", "sleeping", "parked"} /\ isCompleted[at[u].task])
                   ~> (at[u].pc = "idle")

\* What a derived task depends on has completed.
Ready(t) ==
  CASE Kind(t) = "any" -> \E s \in Inputs(t) : isCompleted[s]
    [] Kind(t) = "unwrap" ->
         LET outer == plan[t].of[1]
         IN  /\ isCompleted[outer]
             /\ Status(outer) = "RanToCompletion" /\ result[outer] # None => isCompleted[result[outer]]
    [] OTHER -> \A s \in Inputs(t) : isCompleted[s]

\* A derived task completes once what it depends on has: no callback is lost,
\* whatever thread was to call it and whatever it was doing.
DerivedCompletes ==
  \A t \in Tasks : (/\ t \in known /\ step[t] # "inner"
                    /\ Kind(t) \in {"then", "all", "any", "unwrap"} /\ Ready(t)) ~> isCompleted[t]

\* Completion reaches everybody who depends on it, sleeping threads and derived
\* tasks alike.
CompletionSpreads == WaitEnds /\ DerivedCompletes
=============================================================================
