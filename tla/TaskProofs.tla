------------------------------ MODULE TaskProofs ------------------------------
(***************************************************************************)
(* Proofs about Task: TaskInv and NothingForgotten are invariants, for any *)
(* number of tasks and threads and any well-made plans.                    *)
(*                                                                         *)
(* Neither is inductive.  That a sleeping thread is woken rests on who     *)
(* holds completionMutex (Held) and on when the list is taken (Lists);     *)
(* that the callback of a continuation is called on a continuation that is *)
(* pending rests on the callback existing once (Tickets), since a second   *)
(* call would run the completion code again; that a proxy is completed by  *)
(* its own thread alone, and one that was canceled when it was made by     *)
(* nobody, rests on where that thread stands (Waiting, Claims).  TaskIInv  *)
(* puts those together, stated for one task or one actor at a time, and    *)
(* each part has a lemma for all steps.  The lemmas before them say once   *)
(* what a step writes, in the form the parts use.                          *)
(***************************************************************************)
EXTENDS Task, SequenceTheorems, TLAPS

\* Where a task has completed, and where its callbacks were taken from its list.
Past == {"swap", "notify", "run", "calling", "done"}
Fired == {"notify", "run", "calling", "done"}

\* Where a thread makes a continuation or a WhenAny, where an actor waits, and where one
\* completes a source.
RegPCs == {"scan", "register", "push", "calling"}
WaitPCs == {"enter", "lock", "sleeping", "parked", "woken"}
SetPCs == {"claim", "flag", "promise"}

\* The flags of a task agree with the stage of its completion code, and its inputs were made
\* before it.
Stage(t) ==
  /\ isCompleted[t] <=> step[t] \in Past
  /\ step[t] = "pending" => Kind(t) \in {"then", "any"}
  /\ step[t] = "none" => ~isFaulted[t] /\ claimed[t] = None
  /\ isFaulted[t] => cause[t] # None /\ ~isCanceled[t]
  /\ t \in known => step[t] # "none"
  /\ step[t] # "none" => /\ Inputs(t) \subseteq known
                         /\ Kind(t) \notin {"then", "any"} => t \in known
Stages == \A t \in Tasks : Stage(t)

\* The input a registration has come to.
Here(u) == plan[at[u].task].of[at[u].i]

\* A thread that makes a continuation or a WhenAny alone has the handle of it, and stands at
\* one of its inputs.
Maker(a) ==
  at[a].pc \in RegPCs =>
    /\ a \in Users /\ at[a].task \in Tasks \ known
    /\ plan[at[a].task].by = a /\ Kind(at[a].task) \in {"then", "any"}
    /\ step[at[a].task] # "none"
    /\ at[a].i \in 1..Len(plan[at[a].task].of)
    /\ at[a].pc = "scan" => Kind(at[a].task) = "any" /\ step[at[a].task] = "pending"
Makers == \A a \in Actors : Maker(a)

\* The callback of c is in the list of s, registered or taken.
InList(c, s) == \/ \E k \in 1..Len(continuations[s]) : continuations[s][k] = c
                \/ \E k \in 1..Len(toRun[s]) : toRun[s][k] = c

\* A list fills before its task fires, is taken once, and holds callbacks of tasks made of s.
List(s) ==
  /\ continuations[s] # <<>> => s \in known /\ step[s] \notin Fired
  /\ toRun[s] # <<>> => step[s] \in {"notify", "run", "calling"}
  /\ step[s] = "calling" => toRun[s] # <<>>
Listed(c, s) ==
  InList(c, s) =>
    /\ Kind(c) \in {"then", "any"} /\ s \in Inputs(c) /\ step[c] # "none"
    /\ \A u \in Users : at[u].pc = "scan" => at[u].task # c
Lists == \A s \in Tasks : List(s) /\ \A c \in Tasks : Listed(c, s)

\* The callback of c is still to be called by s.
Due(c, s) == \/ \E k \in 1..Len(continuations[s]) : continuations[s][k] = c
             \/ \E k \in 1..Len(toRun[s]) : toRun[s][k] = c /\ ~(k = 1 /\ step[s] = "calling")

\* x stands in at most one place of q.
Once(q, x) == \A j, k \in 1..Len(q) : q[j] = x /\ q[k] = x => j = k

\* The callback of a continuation exists once: with the thread that registers it or in one
\* place of one list, and until it is called the continuation is pending.
Ticket(c, s) ==
  Kind(c) = "then" =>
    /\ Once(continuations[s], c) /\ Once(toRun[s], c)
    /\ Due(c, s) => step[c] = "pending"
    /\ InList(c, s) => \A u \in Users : at[u].pc \in {"register", "push"} => at[u].task # c
Carried(u) ==
  at[u].pc \in {"register", "push"} /\ Kind(at[u].task) = "then" => step[at[u].task] = "pending"
Tickets == (\A c, s \in Tasks : Ticket(c, s)) /\ \A u \in Users : Carried(u)

\* Until it has a winner a WhenAny is pending.
Winner(c) == Kind(c) = "any" /\ result[c] = None => step[c] \in {"none", "pending"}
Winners == \A c \in Tasks : Winner(c)

\* Who is about to sleep, or to add its callback, holds the mutex, and the callbacks of that
\* task were not taken yet.
Holder(a) ==
  /\ at[a].pc = "sleeping" => mutex[at[a].task] = a /\ step[at[a].task] \notin Fired
  /\ at[a].pc = "push" => mutex[Here(a)] = a /\ step[Here(a)] \notin Fired
Held == \A a \in Actors : Holder(a)

\* Who waits waits for a task the program has, sleeps for one that did not notify yet, and
\* is let go by one that has completed.
Waiter(a) ==
  at[a].pc \in WaitPCs =>
    /\ at[a].task \in known
    /\ at[a].pc = "parked" => step[at[a].task] \notin {"run", "calling", "done"}
    /\ at[a].pc = "woken" => isCompleted[at[a].task]
\* The tasks that wait themselves.
Worker(t) ==
  at[t].pc # "idle" =>
    /\ Kind(t) \in {"all", "unwrap"} /\ step[t] # "none"
    /\ Kind(t) = "all" => step[t] = "body" /\ at[t].pc \in WaitPCs /\ at[t].i \in 1..Len(plan[t].of)
    /\ Kind(t) = "unwrap" => /\ step[t] = "body" /\ promise[t] = None
                             /\ at[t].pc \in WaitPCs \cup SetPCs
                             /\ at[t].pc \in WaitPCs /\ at[t].i = 1 => at[t].task = plan[t].of[1]
                             /\ at[t].pc \in SetPCs => at[t].task = t
Waiting == (\A a \in Actors : Waiter(a)) /\ \A t \in Tasks : Worker(t)

\* A task's result is one of its inputs.
Result(t) == result[t] # None => result[t] \in Inputs(t)
Results == \A t \in Tasks : Result(t)

\* Who completes a source: after the exchange it alone writes the flag and the promise, the
\* flag first.
Setter(a) ==
  at[a].pc \in SetPCs =>
    /\ at[a].task \in known /\ Kind(at[a].task) \in {"source", "unwrap"}
    /\ Kind(at[a].task) = "unwrap" => a = at[a].task
    /\ at[a].pc \in {"flag", "promise"} => claimed[at[a].task] = at[a].how /\ promise[at[a].task] = None
    /\ at[a].pc = "flag" => at[a].how = "cancel"
    /\ at[a].pc = "promise" /\ at[a].how = "cancel" => canceledFlag[at[a].task]
Alone(a, b) ==
  /\ at[a].pc \in {"flag", "promise"} /\ at[b].pc \in {"flag", "promise"} /\ at[a].task = at[b].task
  => a = b
Claimed(t) ==
  /\ canceledFlag[t] => claimed[t] = "cancel"
  /\ promise[t] # None => /\ claimed[t] # None
                          /\ promise[t] = "value" <=> claimed[t] = "result"
                          /\ claimed[t] = "cancel" => canceledFlag[t]
Claims == /\ \A a \in Actors : Setter(a)
          /\ \A a, b \in Actors : Alone(a, b)
          /\ \A t \in Tasks : Claimed(t)

\* A proxy of an outer task whose result was moved from: canceled when it was made, and
\* nobody completes it.
NoInner(t) == Kind(t) = "unwrap" /\ step[t] = "done" /\ claimed[t] = None /\ isCanceled[t] /\ ~isFaulted[t]

\* Any other proxy, and a source, comes to what its producer asked for; a task with a token
\* is canceled by the token alone.
Word(t) ==
  /\ Kind(t) \in {"source", "unwrap"} /\ step[t] \in {"store", "complete"} \cup Past =>
       \/ NoInner(t)
       \/ /\ promise[t] # None
          /\ outcome[t] = "ok" <=> claimed[t] = "result"
          /\ outcome[t] = "fault" <=> claimed[t] \in {"exception", "badCopy"}
          /\ outcome[t] = "canceled" <=> claimed[t] = "cancel"
  /\ Kind(t) \in {"source", "unwrap"} /\ step[t] \in {"complete"} \cup Past =>
       \/ NoInner(t)
       \/ /\ isCanceled[t] <=> claimed[t] = "cancel"
          /\ isFaulted[t] <=> claimed[t] \in {"exception", "badCopy"}
  /\ Kind(t) = "token" => outcome[t] # "canceled" /\ (isCanceled[t] => requested)
Words == \A t \in Tasks : Word(t)

\* The invariant that is inductive.
TaskIInv ==
  /\ TypeOK /\ Stages /\ Makers /\ Lists /\ Tickets /\ Winners /\ Held /\ Waiting
  /\ Results /\ Claims /\ Words


\* What a plan says of a task.
LEMMA PlanFacts ==
  ASSUME plan \in Plans, NEW t \in Tasks
  PROVE  /\ Kind(t) \in Kinds /\ plan[t].by \in Users /\ plan[t].of \in Seq(Tasks)
         /\ Len(plan[t].of) \in Nat
         /\ \A i \in 1..Len(plan[t].of) : plan[t].of[i] \in Tasks /\ plan[t].of[i] \in Inputs(t)
         /\ Inputs(t) \subseteq Tasks
         /\ \A s \in Inputs(t) : \E i \in 1..Len(plan[t].of) : s = plan[t].of[i]
         /\ Kind(t) \in {"then", "unwrap"} => Len(plan[t].of) = 1
         /\ Kind(t) \in {"all", "any"} => Len(plan[t].of) > 0
         /\ Kind(t) = "unwrap" =>
              Kind(plan[t].of[1]) = "any" \/ (Kind(plan[t].of[1]) = "action" /\ plan[plan[t].of[1]].of # <<>>)
<1>1. WellMade(plan, t) BY PlansAssumption
<1>2. plan[t].of \in Seq(Tasks) BY <1>1 DEF WellMade
<1>3. DOMAIN plan[t].of = 1..Len(plan[t].of) /\ Len(plan[t].of) \in Nat
      /\ \A i \in 1..Len(plan[t].of) : plan[t].of[i] \in Tasks
  BY <1>2
<1>4. Inputs(t) = {plan[t].of[i] : i \in 1..Len(plan[t].of)} BY <1>3 DEF Inputs
<1> QED BY <1>1, <1>2, <1>3, <1>4 DEF WellMade, Kind

\* Where an actor can stand.
AtType == [pc : PCs, task : Tasks \cup {None}, i : Nat, how : Hows]


\* The types that the proofs of the single parts use.
LEMMA Types ==
  ASSUME TaskIInv
  PROVE  /\ plan \in Plans /\ known \subseteq Tasks /\ requested \in BOOLEAN /\ invoked \subseteq Tasks
         /\ step \in [Tasks -> Steps] /\ outcome \in [Tasks -> {"ok", "fault", "oce", "canceled"}]
         /\ isCompleted \in [Tasks -> BOOLEAN] /\ isFaulted \in [Tasks -> BOOLEAN]
         /\ isCanceled \in [Tasks -> BOOLEAN] /\ canceledFlag \in [Tasks -> BOOLEAN]
         /\ cause \in [Tasks -> Tasks \cup {None}] /\ result \in [Tasks -> Tasks \cup {None}]
         /\ mutex \in [Tasks -> Actors \cup {None}]
         /\ continuations \in [Tasks -> Seq(Tasks)] /\ toRun \in [Tasks -> Seq(Tasks)]
         /\ claimed \in [Tasks -> Hows \cup {None}]
         /\ promise \in [Tasks -> {"value", "exception", None}]
         /\ at \in [Actors -> AtType]
         /\ tally \in [Tasks -> [fault : Tasks \cup {None}, canceled : BOOLEAN]]
         /\ None \notin Tasks \cup Users \cup Hows \cup {"value"} /\ Tasks \cap Users = {}
         /\ Users \subseteq Actors /\ Tasks \subseteq Actors
BY PlansAssumption DEF TaskIInv, TypeOK, AtType, Actors

\* Where an actor stands after a step that moves it alone.
LEMMA Moved ==
  ASSUME at \in [Actors -> AtType], NEW a \in Actors, NEW r \in AtType, at' = [at EXCEPT ![a] = r]
  PROVE  at' \in [Actors -> AtType] /\ at'[a] = r /\ \A b \in Actors \ {a} : at'[b] = at[b]
OBVIOUS

\* ... and after one that moves it within its call.
LEMMA Went ==
  ASSUME at \in [Actors -> AtType], NEW a \in Actors, NEW p \in PCs, Go(a, p)
  PROVE  /\ at' \in [Actors -> AtType] /\ \A b \in Actors \ {a} : at'[b] = at[b]
         /\ at'[a].pc = p /\ at'[a].task = at[a].task /\ at'[a].i = at[a].i
         /\ at'[a].how = at[a].how
BY DEF Go, AtType

\* An actor that is not in a call.
LEMMA IdleType ==
  /\ Idle \in AtType /\ Idle.pc = "idle"
  /\ \A p \in PCs, t \in Tasks, n \in Nat, h \in Hows :
       [pc |-> p, task |-> t, i |-> n, how |-> h] \in AtType
BY DEF Idle, AtType, PCs, Hows

\* A thread that makes a task out of others.
LEMMA MakerFacts ==
  ASSUME TaskIInv, NEW u \in Actors, at[u].pc \in RegPCs
  PROVE  /\ u \in Users /\ at[u].task \in Tasks /\ at[u].task \notin known
         /\ Kind(at[u].task) \in {"then", "any"} /\ step[at[u].task] # "none"
         /\ plan[at[u].task].by = u /\ at[u].i \in 1..Len(plan[at[u].task].of)
         /\ Len(plan[at[u].task].of) \in Nat
         /\ Here(u) \in Tasks /\ Here(u) \in known /\ Here(u) \in Inputs(at[u].task)
         /\ Here(u) # at[u].task
         /\ at[u].pc \in {"register", "push"} /\ Kind(at[u].task) = "then" => step[at[u].task] = "pending"
         /\ at[u].pc = "scan" => step[at[u].task] = "pending" /\ Kind(at[u].task) = "any"
<1>1. /\ u \in Users /\ at[u].task \in Tasks /\ at[u].task \notin known
      /\ Kind(at[u].task) \in {"then", "any"} /\ step[at[u].task] # "none"
      /\ plan[at[u].task].by = u /\ at[u].i \in 1..Len(plan[at[u].task].of)
      /\ at[u].pc = "scan" => step[at[u].task] = "pending" /\ Kind(at[u].task) = "any"
  BY DEF TaskIInv, Makers, Maker
<1>2. Here(u) \in Tasks /\ Here(u) \in Inputs(at[u].task) /\ Len(plan[at[u].task].of) \in Nat
  BY <1>1, PlanFacts, Types DEF Here
<1>3. Here(u) \in known BY <1>1, <1>2 DEF TaskIInv, Stages, Stage
<1>4. at[u].pc \in {"register", "push"} /\ Kind(at[u].task) = "then" => step[at[u].task] = "pending"
  BY <1>1 DEF TaskIInv, Tickets, Ticket, Carried
<1> QED BY <1>1, <1>2, <1>3, <1>4

\* The registration at one input is over.
LEMMA RegisteredFacts ==
  ASSUME TaskIInv, NEW u \in Users, at[u].pc \in RegPCs, Registered(u)
  PROVE  /\ at' \in [Actors -> AtType] /\ \A b \in Actors \ {u} : at'[b] = at[b]
         /\ \/ /\ at'[u].pc = "register" /\ at'[u].task = at[u].task /\ known' = known
               /\ at'[u].i \in 1..Len(plan[at[u].task].of) /\ Kind(at[u].task) = "any"
            \/ at'[u] = Idle /\ known' = known \cup {at[u].task}
<1>0. u \in Actors /\ at \in [Actors -> AtType] /\ at[u].task \in Tasks /\ at[u].i \in Nat
  BY Types, MakerFacts DEF AtType
<1>1. CASE at[u].i < Len(plan[at[u].task].of)
  <2>1. at' = [at EXCEPT ![u].i = @ + 1, ![u].pc = "register"] BY <1>1 DEF Registered, NextInput
  <2>2. /\ at' \in [Actors -> AtType] /\ \A b \in Actors \ {u} : at'[b] = at[b]
        /\ at'[u].pc = "register" /\ at'[u].task = at[u].task /\ at'[u].i = at[u].i + 1
    <3>1. at[u] \in AtType BY <1>0
    <3>2. at'[u] = [at[u] EXCEPT !.i = @ + 1, !.pc = "register"] BY <2>1, <1>0
    <3>3. ASSUME NEW x \in AtType, NEW y, y = [x EXCEPT !.i = @ + 1, !.pc = "register"]
          PROVE  y \in AtType /\ y.pc = "register" /\ y.task = x.task /\ y.i = x.i + 1
      <4>1. x.i \in Nat BY DEF AtType
      <4>2. y = [[x EXCEPT !.i = x.i + 1] EXCEPT !.pc = "register"] BY <3>3 DEF AtType
      <4>3. [x EXCEPT !.i = x.i + 1] \in AtType BY <4>1 DEF AtType
      <4> QED BY <4>2, <4>3 DEF AtType, PCs
    <3>4. DOMAIN at' = Actors /\ \A b \in Actors \ {u} : at'[b] = at[b] BY <2>1, <1>0
    <3>5. at' = [b \in Actors |-> at'[b]] BY <2>1, <1>0
    <3>6. /\ at'[u] \in AtType
          /\ at'[u].pc = "register" /\ at'[u].task = at[u].task /\ at'[u].i = at[u].i + 1
      BY <3>1, <3>2, <3>3
    <3>7. at' \in [Actors -> AtType] BY <3>4, <3>5, <3>6, <1>0
    <3> QED BY <3>4, <3>6, <3>7
  <2>3. NextInput(u)[u] # Idle BY <2>2, IdleType DEF Registered
  <2>4. known' = known BY <2>3 DEF Registered
  <2>5. at[u].i + 1 \in 1..Len(plan[at[u].task].of) BY <1>0, <1>1, MakerFacts
  <2>6. Kind(at[u].task) = "any"
    <3>1. Kind(at[u].task) \in {"then", "any"} /\ at[u].i \in 1..Len(plan[at[u].task].of)
      BY MakerFacts, <1>0
    <3>2. Kind(at[u].task) = "then" => Len(plan[at[u].task].of) = 1 BY <1>0, PlanFacts, Types
    <3>3. Kind(at[u].task) # "then"
      <4>1. ASSUME Len(plan[at[u].task].of) = 1 PROVE FALSE BY <4>1, <3>1, <1>1, <1>0
      <4> QED BY <4>1, <3>2
    <3> QED BY <3>1, <3>3
  <2> QED BY <2>2, <2>4, <2>5, <2>6
<1>2. CASE ~(at[u].i < Len(plan[at[u].task].of))
  <2>1. at' = [at EXCEPT ![u] = Idle] BY <1>2 DEF Registered, NextInput
  <2>2. at'[u] = Idle /\ at' \in [Actors -> AtType] /\ \A b \in Actors \ {u} : at'[b] = at[b]
    BY <2>1, <1>0, IdleType, Moved
  <2> QED BY <2>2 DEF Registered
<1> QED BY <1>1, <1>2

\* A WhenAny that looks for an input that has completed.
LEMMA ScanFacts ==
  ASSUME TaskIInv, NEW u \in Users, Scan(u), NEW c, c = at[u].task, NEW s, s = Here(u)
  PROVE  /\ at' \in [Actors -> AtType] /\ \A b \in Actors \ {u} : at'[b] = at[b]
         /\ at[u].pc = "scan"
         /\ \/ /\ isCompleted[s] /\ result' = [result EXCEPT ![c] = s]
               /\ isCompleted' = [isCompleted EXCEPT ![c] = TRUE]
               /\ step' = [step EXCEPT ![c] = "done"]
               /\ at'[u] = Idle /\ known' = known \cup {c}
            \/ /\ UNCHANGED <<result, isCompleted, step, known>>
               /\ at'[u].pc \in {"scan", "register"} /\ at'[u].task = c
               /\ at'[u].i \in 1..Len(plan[c].of)
         /\ UNCHANGED <<plan, requested, outcome, isFaulted, isCanceled, cause, mutex,
                        continuations, toRun, invoked, claimed, canceledFlag, promise, tally>>
<1>0. u \in Actors /\ at \in [Actors -> AtType] /\ at[u].task \in Tasks /\ at[u].i \in Nat
      /\ at[u].pc = "scan" /\ at[u].i \in 1..Len(plan[c].of) /\ Len(plan[c].of) \in Nat
  BY Types, MakerFacts DEF AtType, Scan, RegPCs
<1>1. UNCHANGED <<plan, requested, outcome, isFaulted, isCanceled, cause, mutex,
                  continuations, toRun, invoked, claimed, canceledFlag, promise, tally>>
  BY DEF Scan, sources
<1>2. CASE isCompleted[s]
  <2>1. /\ result' = [result EXCEPT ![c] = s] /\ isCompleted' = [isCompleted EXCEPT ![c] = TRUE]
        /\ step' = [step EXCEPT ![c] = "done"] /\ at' = [at EXCEPT ![u] = Idle]
        /\ known' = known \cup {c}
    BY <1>2 DEF Scan, Here
  <2>2. at'[u] = Idle /\ at' \in [Actors -> AtType] /\ \A b \in Actors \ {u} : at'[b] = at[b]
    BY <2>1, <1>0, IdleType, Moved
  <2> QED BY <1>0, <1>1, <1>2, <2>1, <2>2
<1>3. CASE ~isCompleted[s]
  <2>1. /\ UNCHANGED <<result, isCompleted, step, known>>
        /\ at' = IF at[u].i < Len(plan[c].of) THEN [at EXCEPT ![u].i = @ + 1]
                 ELSE [at EXCEPT ![u].i = 1, ![u].pc = "register"]
    BY <1>3 DEF Scan, Here
  <2>2. CASE at[u].i < Len(plan[c].of)
    <3>1. at' = [at EXCEPT ![u].i = @ + 1] BY <2>1, <2>2
    <3>2. /\ at' \in [Actors -> AtType] /\ \A b \in Actors \ {u} : at'[b] = at[b]
          /\ at'[u].pc = "scan" /\ at'[u].task = c /\ at'[u].i = at[u].i + 1
      BY <3>1, <1>0 DEF AtType
    <3>3. at[u].i + 1 \in 1..Len(plan[c].of) BY <1>0, <2>2
    <3> QED BY <1>0, <1>1, <2>1, <3>2, <3>3
  <2>3. CASE ~(at[u].i < Len(plan[c].of))
    <3>1. at' = [at EXCEPT ![u].i = 1, ![u].pc = "register"] BY <2>1, <2>3
    <3>2. /\ at' \in [Actors -> AtType] /\ \A b \in Actors \ {u} : at'[b] = at[b]
          /\ at'[u].pc = "register" /\ at'[u].task = c /\ at'[u].i = 1
      BY <3>1, <1>0 DEF AtType, PCs
    <3>3. 1 \in 1..Len(plan[c].of) BY <1>0
    <3> QED BY <1>0, <1>1, <2>1, <3>2, <3>3
  <2> QED BY <2>2, <2>3
<1> QED BY <1>2, <1>3

\* The callback of c is called: c goes on, and nothing else does.
Wakes(c, s) ==
  /\ step[c] = "pending" /\ step'[c] \in {"body", "store"}
  /\ Kind(c) = "any" => step'[c] = "store" /\ result' = [result EXCEPT ![c] = s]
  /\ Kind(c) = "then" => result' = result
  /\ outcome'[c] \in {"ok", "canceled"}
  /\ outcome' \in [Tasks -> {"ok", "fault", "oce", "canceled"}]
  /\ \A t \in Tasks \ {c} : outcome'[t] = outcome[t]
  /\ invoked' \subseteq Tasks

\* What Callback does to the task that is called.
LEMMA CallbackFacts ==
  ASSUME TaskIInv, NEW c \in Tasks, NEW s \in Tasks, Kind(c) \in {"then", "any"}, Callback(c, s),
         step[c] = "pending", step'[c] = Called(c, s)
  PROVE  Wakes(c, s)
<1>1. Called(c, s) \in {"body", "store"} /\ (Kind(c) = "any" => Called(c, s) = "store")
  BY DEF Called
<1>2. Kind(c) = "any" => result' = [result EXCEPT ![c] = s] BY DEF Callback
<1>3. Kind(c) = "then" => result' = result BY DEF Callback
<1>4. PICK o \in {"ok", "canceled"} : outcome' = [outcome EXCEPT ![c] = o] BY DEF Callback
<1>5. /\ outcome'[c] \in {"ok", "canceled"}
      /\ outcome' \in [Tasks -> {"ok", "fault", "oce", "canceled"}]
      /\ \A t \in Tasks \ {c} : outcome'[t] = outcome[t]
  BY <1>4, Types
<1>6. invoked' \subseteq Tasks BY Types DEF Callback
<1> QED BY <1>1, <1>2, <1>3, <1>5, <1>6 DEF Wakes

\* A registration under the mutex of the input.
LEMMA RegisterFacts ==
  ASSUME TaskIInv, NEW u \in Users, Register(u), NEW c, c = at[u].task, NEW s, s = Here(u)
  PROVE  /\ at' \in [Actors -> AtType] /\ \A b \in Actors \ {u} : at'[b] = at[b]
         /\ at[u].pc = "register" /\ mutex[s] = None
         /\ UNCHANGED <<plan, requested, isCompleted, isFaulted, isCanceled, cause, continuations,
                        toRun, claimed, canceledFlag, promise, tally>>
         /\ \/ /\ ~isCompleted[s] /\ mutex' = [mutex EXCEPT ![s] = u]
               /\ at'[u].pc = "push" /\ at'[u].task = c /\ at'[u].i = at[u].i
               /\ UNCHANGED <<known, step, outcome, result, invoked>>
            \/ /\ isCompleted[s] /\ Wakes(c, s)
               /\ step' \in [Tasks -> Steps] /\ \A t \in Tasks \ {c} : step'[t] = step[t]
               /\ at'[u].pc = "calling" /\ at'[u].task = c /\ at'[u].i = at[u].i
               /\ UNCHANGED <<known, mutex>>
            \/ /\ isCompleted[s] /\ Registered(u)
               /\ UNCHANGED <<step, outcome, result, invoked, mutex>>
<1>0. /\ u \in Actors /\ at \in [Actors -> AtType] /\ c \in Tasks /\ s \in Tasks
      /\ step \in [Tasks -> Steps] /\ at[u].pc = "register" /\ Kind(c) \in {"then", "any"}
      /\ step[c] # "none" /\ (Kind(c) = "then" => step[c] = "pending")
  BY Types, MakerFacts DEF Register, RegPCs
<1>1. /\ mutex[s] = None
      /\ UNCHANGED <<plan, requested, isCompleted, isFaulted, isCanceled, cause, continuations,
                     toRun, claimed, canceledFlag, promise, tally>>
  BY DEF Register, Here, flags, sources
<1>2. \/ /\ ~isCompleted[s]
         /\ mutex' = [mutex EXCEPT ![s] = Kept(u)] /\ Go(u, "push")
         /\ UNCHANGED <<known, step, outcome, result, invoked>>
      \/ /\ isCompleted[s] /\ ~Lost(c)
         /\ Callback(c, s) /\ Go(u, "calling")
         /\ step' = [step EXCEPT ![c] = Called(c, s)]
         /\ UNCHANGED <<known, mutex>>
      \/ /\ isCompleted[s] /\ Lost(c)
         /\ Registered(u)
         /\ UNCHANGED <<step, outcome, result, invoked, mutex>>
  BY DEF Register, Here
<1>3. CASE /\ ~isCompleted[s]
           /\ mutex' = [mutex EXCEPT ![s] = Kept(u)] /\ Go(u, "push")
           /\ UNCHANGED <<known, step, outcome, result, invoked>>
  <2>1. /\ at' \in [Actors -> AtType] /\ \A b \in Actors \ {u} : at'[b] = at[b]
        /\ at'[u].pc = "push" /\ at'[u].task = c /\ at'[u].i = at[u].i
    BY <1>0, <1>3, Went DEF PCs
  <2>2. mutex' = [mutex EXCEPT ![s] = u] BY <1>3 DEF Kept
  <2> QED BY <1>0, <1>1, <1>3, <2>1, <2>2
<1>4. CASE /\ isCompleted[s] /\ ~Lost(c)
           /\ Callback(c, s) /\ Go(u, "calling")
           /\ step' = [step EXCEPT ![c] = Called(c, s)]
           /\ UNCHANGED <<known, mutex>>
  <2>1. /\ at' \in [Actors -> AtType] /\ \A b \in Actors \ {u} : at'[b] = at[b]
        /\ at'[u].pc = "calling" /\ at'[u].task = c /\ at'[u].i = at[u].i
    BY <1>0, <1>4, Went DEF PCs
  <2>2. step[c] = "pending" BY <1>0, <1>4 DEF Lost, TaskIInv, Winners, Winner
  <2>3. Called(c, s) \in Steps BY DEF Called, Steps
  <2>4. step'[c] = Called(c, s) /\ step' \in [Tasks -> Steps] /\ \A t \in Tasks \ {c} : step'[t] = step[t]
    BY <1>0, <1>4, <2>3
  <2>5. Wakes(c, s) BY <1>0, <1>4, <2>2, <2>4, CallbackFacts
  <2> QED BY <1>0, <1>1, <1>4, <2>1, <2>4, <2>5
<1>5. CASE /\ isCompleted[s] /\ Lost(c)
           /\ Registered(u)
           /\ UNCHANGED <<step, outcome, result, invoked, mutex>>
  <2>1. at' \in [Actors -> AtType] /\ \A b \in Actors \ {u} : at'[b] = at[b]
    BY <1>0, <1>5, RegisteredFacts DEF RegPCs
  <2> QED BY <1>0, <1>1, <1>5, <2>1
<1> QED BY <1>2, <1>3, <1>4, <1>5

\* The first callback of a list.
LEMMA HeadFacts ==
  ASSUME TaskIInv, NEW t \in Tasks, toRun[t] # <<>>
  PROVE  /\ Head(toRun[t]) \in Tasks /\ Head(toRun[t]) = toRun[t][1] /\ 1 \in 1..Len(toRun[t])
         /\ InList(Head(toRun[t]), t) /\ Kind(Head(toRun[t])) \in {"then", "any"}
         /\ t \in Inputs(Head(toRun[t])) /\ step[Head(toRun[t])] # "none"
         /\ Tail(toRun[t]) \in Seq(Tasks) /\ Len(Tail(toRun[t])) = Len(toRun[t]) - 1
         /\ Len(toRun[t]) \in Nat
         /\ \A k \in 1..Len(Tail(toRun[t])) : k + 1 \in 1..Len(toRun[t]) /\ Tail(toRun[t])[k] = toRun[t][k + 1]
<1>1. toRun[t] \in Seq(Tasks) BY Types
<1>2. /\ Head(toRun[t]) \in Tasks /\ Head(toRun[t]) = toRun[t][1] /\ 1 \in 1..Len(toRun[t])
      /\ Tail(toRun[t]) \in Seq(Tasks) /\ Len(Tail(toRun[t])) = Len(toRun[t]) - 1
      /\ Len(toRun[t]) \in Nat
      /\ \A k \in 1..Len(Tail(toRun[t])) : k + 1 \in 1..Len(toRun[t]) /\ Tail(toRun[t])[k] = toRun[t][k + 1]
  BY <1>1, HeadTailProperties, LenProperties, EmptySeq
<1>3. InList(Head(toRun[t]), t) BY <1>2 DEF InList
<1> QED BY <1>2, <1>3 DEF TaskIInv, Lists, Listed

\* fireContinuations calls the callbacks one by one.
LEMMA RunFacts ==
  ASSUME TaskIInv, NEW t \in Tasks, Run(t), NEW c, c = Head(toRun[t])
  PROVE  /\ step[t] = "run"
         /\ UNCHANGED <<plan, known, requested, isCompleted, isFaulted, isCanceled, cause, mutex,
                        continuations, claimed, canceledFlag, promise, at, tally>>
         /\ \/ /\ toRun[t] = <<>> /\ step' = [step EXCEPT ![t] = "done"]
               /\ UNCHANGED <<toRun, outcome, result, invoked>>
            \/ /\ toRun[t] # <<>> /\ c # t /\ Wakes(c, t) /\ step'[t] = "calling"
               /\ step' \in [Tasks -> Steps] /\ \A x \in Tasks \ {c, t} : step'[x] = step[x]
               /\ UNCHANGED toRun
            \/ /\ toRun[t] # <<>> /\ Kind(c) = "any" /\ toRun' = [toRun EXCEPT ![t] = Tail(toRun[t])]
               /\ UNCHANGED <<step, outcome, result, invoked>>
<1>1. /\ step[t] = "run"
      /\ UNCHANGED <<plan, known, requested, isCompleted, isFaulted, isCanceled, cause, mutex,
                     continuations, claimed, canceledFlag, promise, at, tally>>
  BY DEF Run, flags, sources
<1>2. \/ /\ toRun[t] = <<>>
         /\ step' = [step EXCEPT ![t] = "done"]
         /\ UNCHANGED <<toRun, outcome, result, invoked>>
      \/ /\ toRun[t] # <<>> /\ ~Lost(c)
         /\ Callback(c, t)
         /\ step' = [step EXCEPT ![t] = "calling", ![c] = Called(c, t)]
         /\ UNCHANGED toRun
      \/ /\ toRun[t] # <<>> /\ Lost(c)
         /\ toRun' = [toRun EXCEPT ![t] = Tail(@)]
         /\ UNCHANGED <<step, outcome, result, invoked>>
  BY DEF Run
<1>3. CASE /\ toRun[t] # <<>> /\ ~Lost(c)
           /\ Callback(c, t)
           /\ step' = [step EXCEPT ![t] = "calling", ![c] = Called(c, t)]
           /\ UNCHANGED toRun
  <2>1. c \in Tasks /\ c = toRun[t][1] /\ 1 \in 1..Len(toRun[t]) /\ Kind(c) \in {"then", "any"}
        /\ step[c] # "none" /\ step \in [Tasks -> Steps]
    BY <1>3, HeadFacts, Types
  <2>2. step[c] = "pending"
    <3>1. CASE Kind(c) = "any" BY <3>1, <2>1, <1>3 DEF Lost, TaskIInv, Winners, Winner
    <3>2. CASE Kind(c) = "then"
      <4>1. Due(c, t) BY <1>1, <2>1 DEF Due
      <4> QED BY <3>2, <4>1, <2>1 DEF TaskIInv, Tickets, Ticket, Carried
    <3> QED BY <2>1, <3>1, <3>2
  <2>3. c # t BY <2>2, <1>1
  <2>4. Called(c, t) \in Steps BY DEF Called, Steps
  <2>5. step'[t] = "calling" /\ step'[c] = Called(c, t) /\ \A x \in Tasks \ {c, t} : step'[x] = step[x]
    BY <1>3, <2>1, <2>3
  <2>6. step' \in [Tasks -> Steps] BY <1>3, <2>1, <2>4 DEF Steps
  <2>7. Wakes(c, t) BY <1>3, <2>1, <2>2, <2>5, CallbackFacts
  <2> QED BY <1>1, <1>3, <2>3, <2>5, <2>6, <2>7
<1>4. CASE /\ toRun[t] # <<>> /\ Lost(c)
           /\ toRun' = [toRun EXCEPT ![t] = Tail(@)]
           /\ UNCHANGED <<step, outcome, result, invoked>>
  <2>1. toRun' = [toRun EXCEPT ![t] = Tail(toRun[t])] BY <1>4, Types
  <2> QED BY <1>1, <1>4, <2>1 DEF Lost
<1> QED BY <1>1, <1>2, <1>3, <1>4


\* A callback is added to the list of the input.
LEMMA PushFacts ==
  ASSUME TaskIInv, NEW u \in Users, Push(u), NEW c, c = at[u].task, NEW s, s = Here(u)
  PROVE  /\ at[u].pc = "push" /\ Registered(u)
         /\ continuations' = [continuations EXCEPT ![s] = Append(continuations[s], c)]
         /\ mutex' = [mutex EXCEPT ![s] = None]
         /\ UNCHANGED <<plan, requested, step, outcome, isCompleted, isFaulted, isCanceled, cause,
                        result, toRun, invoked, claimed, canceledFlag, promise, tally>>
<1>1. /\ at[u].pc = "push" /\ Registered(u) /\ mutex' = [mutex EXCEPT ![s] = None]
      /\ UNCHANGED <<plan, requested, step, outcome, isCompleted, isFaulted, isCanceled, cause,
                     result, toRun, invoked, claimed, canceledFlag, promise, tally>>
  BY DEF Push, Here, flags, sources
<1>2. continuations' = [continuations EXCEPT ![s] = Append(@, c)] BY DEF Push, Here
<1>3. continuations' = [continuations EXCEPT ![s] = Append(continuations[s], c)] BY <1>2, Types
<1> QED BY <1>1, <1>3


\* A task that is not made yet waits for nothing.
LEMMA MakingFacts ==
  ASSUME TaskIInv, NEW u \in Users, NEW t \in Tasks, Making(u, t)
  PROVE  /\ at[u].pc = "idle" /\ at[t].pc = "idle" /\ step[t] = "none" /\ t \notin known /\ u # t
         /\ Inputs(t) \subseteq known /\ ~isCompleted[t] /\ ~isFaulted[t] /\ claimed[t] = None
         /\ Kind(t) \in {"all", "any", "unwrap", "then"} =>
              plan[t].of[1] \in known /\ 1 \in 1..Len(plan[t].of)
<1>1. /\ at[u].pc = "idle" /\ step[t] = "none" /\ t \notin known /\ Inputs(t) \subseteq known
  BY DEF Making, Idle
<1>2. u # t BY Types
<1>3. at[t].pc = "idle" BY <1>1 DEF TaskIInv, Waiting, Waiter, Worker
<1>4. ~isCompleted[t] /\ ~isFaulted[t] /\ claimed[t] = None BY <1>1 DEF TaskIInv, Stages, Stage, Past
<1>5. ASSUME Kind(t) \in {"all", "any", "unwrap", "then"}
      PROVE  plan[t].of[1] \in known /\ 1 \in 1..Len(plan[t].of)
  <2>1. Len(plan[t].of) \in Nat /\ (Len(plan[t].of) = 1 \/ Len(plan[t].of) > 0)
    BY <1>5, Types, PlanFacts
  <2>2. 1 \in 1..Len(plan[t].of)
    <3>1. \A n \in Nat : n = 1 \/ n > 0 => 1 \in 1..n OBVIOUS
    <3> QED BY <2>1, <3>1
  <2> QED BY <1>1, <2>2, Types, PlanFacts
<1> QED BY <1>1, <1>2, <1>3, <1>4, <1>5

\* A worker starts; WhenAll's begins to wait for its first input.
LEMMA StartFacts ==
  ASSUME TaskIInv, NEW u \in Users, NEW t \in Tasks, Start(u, t)
  PROVE  /\ at' \in [Actors -> AtType] /\ \A b \in Actors \ {t} : at'[b] = at[b]
         /\ Making(u, t) /\ plan' = plan /\ step[t] = "none" /\ t \notin known /\ u # t
         /\ at[u].pc = "idle" /\ at[t].pc = "idle" /\ Inputs(t) \subseteq known
         /\ known' = known \cup {t} /\ step' = [step EXCEPT ![t] = "body"]
         /\ Kind(t) = "all" => plan[t].of[1] \in known /\ 1 \in 1..Len(plan[t].of)
         /\ Kind(t) = "all" => at'[t].pc = "enter" /\ at'[t].task = plan[t].of[1] /\ at'[t].i = 1
         /\ Kind(t) # "all" => at' = at
<1>0. /\ Making(u, t) /\ plan' = plan /\ known' = known \cup {t}
      /\ step' = [step EXCEPT ![t] = "body"]
  BY DEF Start
<1>a. /\ step[t] = "none" /\ t \notin known /\ u # t
      /\ at[u].pc = "idle" /\ at[t].pc = "idle" /\ Inputs(t) \subseteq known
      /\ Kind(t) = "all" => plan[t].of[1] \in known /\ 1 \in 1..Len(plan[t].of)
  BY <1>0, MakingFacts
<1>1. CASE Kind(t) = "all"
  <2>1. at' = [at EXCEPT ![t] = [Idle EXCEPT !.pc = "enter", !.task = plan[t].of[1], !.i = 1]]
    BY <1>1 DEF Start
  <2>2. t \in Actors /\ plan[t].of[1] \in Tasks /\ "enter" \in PCs /\ "result" \in Hows
        /\ at \in [Actors -> AtType]
    BY <1>1, Types, MakingFacts DEF Start, PCs, Hows
  <2>3. /\ [Idle EXCEPT !.pc = "enter", !.task = plan[t].of[1], !.i = 1] \in AtType
        /\ LET r == [Idle EXCEPT !.pc = "enter", !.task = plan[t].of[1], !.i = 1] IN r.pc = "enter" /\ r.task = plan[t].of[1] /\ r.i = 1
    <3>1. ASSUME NEW r, r = [Idle EXCEPT !.pc = "enter", !.task = plan[t].of[1], !.i = 1]
          PROVE r \in AtType /\ r.pc = "enter" /\ r.task = plan[t].of[1] /\ r.i = 1
      BY <2>2, <3>1 DEF Idle, AtType
    <3> QED BY <3>1
  <2> QED BY <1>0, <1>a, <1>1, <2>1, <2>2, <2>3, Moved
<1>2. CASE Kind(t) # "all"
  <2>1. at' = at BY <1>2 DEF Start
  <2> QED BY <1>0, <1>a, <1>2, <2>1, Types
<1> QED BY <1>1, <1>2

\* A continuation or a WhenAny is made.
LEMMA PendFacts ==
  ASSUME TaskIInv, NEW u \in Users, NEW t \in Tasks, Pend(u, t)
  PROVE  /\ at' \in [Actors -> AtType] /\ \A b \in Actors \ {u} : at'[b] = at[b]
         /\ Making(u, t) /\ plan' = plan /\ step[t] = "none" /\ t \notin known /\ u # t
         /\ at[u].pc = "idle" /\ at[t].pc = "idle" /\ Inputs(t) \subseteq known
         /\ known' = known /\ step' = [step EXCEPT ![t] = "pending"] /\ Kind(t) \in {"then", "any"}
         /\ plan[t].of[1] \in known /\ 1 \in 1..Len(plan[t].of) /\ plan[t].by = u
         /\ at'[u].pc = IF Kind(t) = "any" THEN "scan" ELSE "register"
         /\ at'[u].task = t /\ at'[u].i = 1
<1> DEFINE p == IF Kind(t) = "any" THEN "scan" ELSE "register"
<1>1. at' = [at EXCEPT ![u] = [Idle EXCEPT !.task = t, !.i = 1, !.pc = p]] BY DEF Pend
<1>2. p \in PCs BY DEF PCs
<1>3. u \in Actors /\ "result" \in Hows /\ at \in [Actors -> AtType] BY Types DEF Hows
<1> HIDE DEF p
<1>4. /\ [Idle EXCEPT !.task = t, !.i = 1, !.pc = p] \in AtType
      /\ LET r == [Idle EXCEPT !.task = t, !.i = 1, !.pc = p] IN r.pc = p /\ r.task = t /\ r.i = 1
  <2>1. ASSUME NEW r, r = [Idle EXCEPT !.task = t, !.i = 1, !.pc = p]
        PROVE r \in AtType /\ r.pc = p /\ r.task = t /\ r.i = 1
    BY <1>2, <1>3, <2>1 DEF Idle, AtType
  <2> QED BY <2>1
<1>5. /\ at' \in [Actors -> AtType] /\ \A b \in Actors \ {u} : at'[b] = at[b]
      /\ at'[u].pc = p /\ at'[u].task = t /\ at'[u].i = 1
  BY <1>1, <1>3, <1>4, Moved
<1>6. /\ Making(u, t) /\ plan' = plan /\ known' = known /\ step' = [step EXCEPT ![t] = "pending"]
      /\ Kind(t) \in {"then", "any"}
  BY DEF Pend
<1>7. /\ step[t] = "none" /\ t \notin known /\ u # t
      /\ at[u].pc = "idle" /\ at[t].pc = "idle" /\ Inputs(t) \subseteq known
      /\ plan[t].of[1] \in known /\ 1 \in 1..Len(plan[t].of)
  BY <1>6, MakingFacts
<1>8. plan[t].by = u BY <1>6 DEF Making
<1> QED BY <1>5, <1>6, <1>7, <1>8 DEF p

\* A proxy's thread begins to wait for the outer task.
LEMMA UnwrapFacts ==
  ASSUME TaskIInv, NEW u \in Users, NEW t \in Tasks, Unwrap(u, t)
  PROVE  /\ at' \in [Actors -> AtType] /\ \A b \in Actors \ {t} : at'[b] = at[b]
         /\ Making(u, t) /\ plan' = plan /\ step[t] = "none" /\ t \notin known /\ u # t
         /\ at[u].pc = "idle" /\ at[t].pc = "idle" /\ Inputs(t) \subseteq known
         /\ known' = known \cup {t} /\ Kind(t) = "unwrap"
         /\ plan[t].of[1] \in known
         /\ step' = [step EXCEPT ![t] = "body"]
         /\ at'[t].pc = "enter" /\ at'[t].task = plan[t].of[1] /\ at'[t].i = 1
<1>0. /\ Making(u, t) /\ plan' = plan /\ known' = known \cup {t} /\ Kind(t) = "unwrap"
  BY DEF Unwrap
<1>a. /\ step[t] = "none" /\ t \notin known /\ u # t
      /\ at[u].pc = "idle" /\ at[t].pc = "idle" /\ Inputs(t) \subseteq known
      /\ plan[t].of[1] \in known
  BY <1>0, MakingFacts
<1>1. /\ at' = [at EXCEPT ![t] = [Idle EXCEPT !.pc = "enter", !.task = plan[t].of[1], !.i = 1]]
      /\ step' = [step EXCEPT ![t] = "body"]
  BY DEF Unwrap
<1>2. t \in Actors /\ plan[t].of[1] \in Tasks /\ "enter" \in PCs /\ "result" \in Hows
      /\ at \in [Actors -> AtType]
  BY <1>a, Types DEF PCs, Hows
<1>3. /\ [Idle EXCEPT !.pc = "enter", !.task = plan[t].of[1], !.i = 1] \in AtType
      /\ LET r == [Idle EXCEPT !.pc = "enter", !.task = plan[t].of[1], !.i = 1] IN r.pc = "enter" /\ r.task = plan[t].of[1] /\ r.i = 1
  <2>1. ASSUME NEW r, r = [Idle EXCEPT !.pc = "enter", !.task = plan[t].of[1], !.i = 1]
        PROVE r \in AtType /\ r.pc = "enter" /\ r.task = plan[t].of[1] /\ r.i = 1
    BY <1>2, <2>1 DEF Idle, AtType
  <2> QED BY <2>1
<1> QED BY <1>0, <1>a, <1>1, <1>2, <1>3, Moved

\* Unwrap of a task that ran to completion makes no thread.
LEMMA UnwrapEndedFacts ==
  ASSUME TaskIInv, NEW u \in Users, NEW t \in Tasks, UnwrapEnded(u, t)
  PROVE  /\ Making(u, t) /\ step[t] = "none" /\ t \notin known /\ at[t].pc = "idle"
         /\ Kind(t) = "unwrap" /\ known' = known \cup {t}
         /\ \/ /\ step' = [step EXCEPT ![t] = "inner"] /\ UNCHANGED <<isCompleted, isCanceled>>
            \/ /\ step' = [step EXCEPT ![t] = "done"]
               /\ isCompleted' = [isCompleted EXCEPT ![t] = TRUE]
               /\ isCanceled' = [isCanceled EXCEPT ![t] = TRUE]
         /\ UNCHANGED <<plan, requested, outcome, isFaulted, cause, result, mutex, continuations,
                        toRun, invoked, claimed, canceledFlag, promise, at, tally>>
<1>1. Making(u, t) BY DEF UnwrapEnded
<1> QED BY <1>1, MakingFacts DEF UnwrapEnded, sources

\* A thread begins to wait for a task.
LEMMA WaitFacts ==
  ASSUME TaskIInv, NEW u \in Users, NEW t \in Tasks, Wait(u, t)
  PROVE  /\ at' \in [Actors -> AtType] /\ \A b \in Actors \ {u} : at'[b] = at[b]
         /\ at[u].pc = "idle" /\ at'[u].pc = "enter" /\ at'[u].task = t
<1>1. at' = [at EXCEPT ![u] = [Idle EXCEPT !.pc = "enter", !.task = t]] /\ at[u].pc = "idle"
  BY DEF Wait, Idle
<1>2. u \in Actors /\ "enter" \in PCs /\ "result" \in Hows /\ at \in [Actors -> AtType]
  BY Types DEF PCs, Hows
<1>3. /\ [Idle EXCEPT !.pc = "enter", !.task = t] \in AtType
      /\ LET r == [Idle EXCEPT !.pc = "enter", !.task = t] IN r.pc = "enter" /\ r.task = t
  <2>1. ASSUME NEW r, r = [Idle EXCEPT !.pc = "enter", !.task = t]
        PROVE r \in AtType /\ r.pc = "enter" /\ r.task = t
    BY <1>2, <2>1 DEF Idle, AtType
  <2> QED BY <2>1
<1> QED BY <1>1, <1>2, <1>3, Moved

\* A thread begins to complete a source.
LEMMA TrySetFacts ==
  ASSUME TaskIInv, NEW u \in Users, NEW t \in Tasks, NEW how \in Hows, TrySet(u, t, how)
  PROVE  /\ at' \in [Actors -> AtType] /\ \A b \in Actors \ {u} : at'[b] = at[b]
         /\ at[u].pc = "idle" /\ at'[u].pc = "claim" /\ at'[u].task = t /\ at'[u].how = how
<1>1. /\ at' = [at EXCEPT ![u] = [Idle EXCEPT !.pc = "claim", !.task = t, !.how = how]]
      /\ at[u].pc = "idle"
  BY DEF TrySet, Idle
<1>2. u \in Actors /\ "claim" \in PCs /\ at \in [Actors -> AtType] BY Types DEF PCs
<1>3. /\ [Idle EXCEPT !.pc = "claim", !.task = t, !.how = how] \in AtType
      /\ LET r == [Idle EXCEPT !.pc = "claim", !.task = t, !.how = how] IN r.pc = "claim" /\ r.task = t /\ r.how = how
  <2>1. ASSUME NEW r, r = [Idle EXCEPT !.pc = "claim", !.task = t, !.how = how]
        PROVE r \in AtType /\ r.pc = "claim" /\ r.task = t /\ r.how = how
    BY <1>2, <2>1 DEF Idle, AtType
  <2> QED BY <2>1
<1> QED BY <1>1, <1>2, <1>3, Moved

\* An actor that waits: the task is one the program has.
LEMMA WaiterFacts ==
  ASSUME TaskIInv, NEW a \in Actors, at[a].pc \in WaitPCs
  PROVE  /\ at[a].task \in known /\ at[a].task \in Tasks /\ at[a].task # None
         /\ step[at[a].task] # "none" /\ at[a].i \in Nat
         /\ at[a].pc = "woken" => isCompleted[at[a].task]
         /\ a \in Tasks => step[a] # "none"
<1>1. at[a].task \in known /\ (at[a].pc = "woken" => isCompleted[at[a].task])
  BY DEF TaskIInv, Waiting, Waiter, Worker
<1>2. at[a].task \in Tasks /\ at[a].task # None BY <1>1, Types
<1>3. step[at[a].task] # "none" BY <1>1, <1>2 DEF TaskIInv, Stages, Stage
<1>4. at[a].i \in Nat BY Types DEF AtType
<1>5. a \in Tasks => step[a] # "none" BY DEF TaskIInv, Waiting, Waiter, Worker, WaitPCs
<1> QED BY <1>1, <1>2, <1>3, <1>4, <1>5

\* The steps of Wait.
LEMMA WaitStepFacts ==
  ASSUME TaskIInv, NEW a \in Actors, WaitEnter(a) \/ WaitTest(a) \/ WaitSleep(a)
  PROVE  /\ at' \in [Actors -> AtType] /\ \A b \in Actors \ {a} : at'[b] = at[b]
         /\ at'[a].task = at[a].task /\ at'[a].i = at[a].i /\ at'[a].how = at[a].how
         /\ at[a].pc \in {"enter", "lock", "sleeping"}
         /\ at'[a].pc = "woken" => isCompleted[at[a].task] /\ mutex' = mutex
         /\ at'[a].pc = "lock" => mutex' = mutex
         /\ at'[a].pc = "sleeping" =>
              /\ ~isCompleted[at[a].task] /\ mutex[at[a].task] = None
              /\ mutex' = [mutex EXCEPT ![at[a].task] = a]
         /\ at'[a].pc = "parked" =>
              at[a].pc = "sleeping" /\ mutex' = [mutex EXCEPT ![at[a].task] = None]
         /\ at'[a].pc \in {"woken", "lock", "sleeping", "parked"}
<1> DEFINE t == at[a].task
<1>0. /\ at \in [Actors -> AtType] /\ t \in Tasks
      /\ {"woken", "lock", "sleeping", "parked"} \subseteq PCs
  BY Types, WaiterFacts DEF WaitEnter, WaitTest, WaitSleep, WaitPCs, PCs
<1>1. CASE WaitEnter(a)
  <2>1. step[t] = "done" => isCompleted[t] BY <1>0 DEF TaskIInv, Stages, Stage, Past
  <2>2. /\ at[a].pc = "enter" /\ mutex' = mutex
        /\ \/ Go(a, "woken") /\ isCompleted[t]
           \/ Go(a, "lock")
    BY <1>1, <2>1 DEF WaitEnter
  <2>3. CASE Go(a, "woken") /\ isCompleted[t] BY <2>2, <2>3, <1>0, Went
  <2>4. CASE Go(a, "lock") BY <2>2, <2>4, <1>0, Went
  <2> QED BY <2>2, <2>3, <2>4
<1>2. CASE WaitTest(a)
  <2>1. /\ at[a].pc = "lock" /\ mutex[t] = None
        /\ \/ Go(a, "woken") /\ isCompleted[t] /\ mutex' = mutex
           \/ Go(a, "sleeping") /\ ~isCompleted[t] /\ mutex' = [mutex EXCEPT ![t] = a]
    BY <1>2 DEF WaitTest
  <2>2. CASE Go(a, "woken") /\ isCompleted[t] /\ mutex' = mutex BY <2>1, <2>2, <1>0, Went
  <2>3. CASE Go(a, "sleeping") /\ ~isCompleted[t] /\ mutex' = [mutex EXCEPT ![t] = a]
    BY <2>1, <2>3, <1>0, Went
  <2> QED BY <2>1, <2>2, <2>3
<1>3. CASE WaitSleep(a)
  <2>1. at[a].pc = "sleeping" /\ Go(a, "parked") /\ mutex' = [mutex EXCEPT ![t] = None]
    BY <1>3 DEF WaitSleep
  <2> QED BY <2>1, <1>0, Went
<1> QED BY <1>1, <1>2, <1>3


\* notify_all: those who sleep for t go on, nobody else moves.
LEMMA NotifyFacts ==
  ASSUME TaskIInv, NEW t \in Tasks, Notify(t)
  PROVE  /\ at' \in [Actors -> AtType] /\ step[t] = "notify"
         /\ \A a \in Actors : /\ at'[a].task = at[a].task /\ at'[a].i = at[a].i /\ at'[a].how = at[a].how
                              /\ \/ at[a].pc = "parked" /\ at[a].task = t /\ at'[a].pc = "lock"
                                 \/ ~(at[a].pc = "parked" /\ at[a].task = t) /\ at'[a] = at[a]
<1>0. at \in [Actors -> AtType] BY Types
<1>1. /\ step[t] = "notify"
      /\ at' = [a \in Actors |-> IF at[a].pc = "parked" /\ at[a].task = t
                                   THEN [at[a] EXCEPT !.pc = "lock"] ELSE at[a]]
  BY DEF Notify, Woken
<1>2. ASSUME NEW a \in Actors
      PROVE  /\ at'[a] \in AtType
             /\ at'[a].task = at[a].task /\ at'[a].i = at[a].i /\ at'[a].how = at[a].how
             /\ \/ at[a].pc = "parked" /\ at[a].task = t /\ at'[a].pc = "lock"
                \/ ~(at[a].pc = "parked" /\ at[a].task = t) /\ at'[a] = at[a]
  <2>1. at[a] \in AtType BY <1>0
  <2>2. at'[a] = IF at[a].pc = "parked" /\ at[a].task = t THEN [at[a] EXCEPT !.pc = "lock"] ELSE at[a]
    BY <1>1
  <2>3. ASSUME NEW r \in AtType, NEW q, q = [r EXCEPT !.pc = "lock"]
        PROVE  q \in AtType /\ q.task = r.task /\ q.i = r.i /\ q.how = r.how /\ q.pc = "lock"
    BY <2>3 DEF AtType, PCs
  <2> QED BY <2>1, <2>2, <2>3
<1>3. at' \in [Actors -> AtType] BY <1>1, <1>2
<1> QED BY <1>1, <1>2, <1>3

\* A task that waits is a WhenAll or a proxy.
LEMMA TaskActorFacts ==
  ASSUME TaskIInv, NEW t \in Tasks, at[t].pc # "idle"
  PROVE  /\ Kind(t) \in {"all", "unwrap"} /\ step[t] # "none"
         /\ Kind(t) = "all" => /\ step[t] = "body" /\ at[t].pc \in WaitPCs
                               /\ at[t].i \in 1..Len(plan[t].of) /\ Len(plan[t].of) \in Nat
         /\ Kind(t) = "unwrap" => /\ step[t] = "body" /\ promise[t] = None
                                  /\ at[t].pc \in WaitPCs \cup SetPCs
                                  /\ at[t].pc \in WaitPCs /\ at[t].i = 1 => at[t].task = plan[t].of[1]
                                  /\ at[t].pc \in SetPCs => at[t].task = t
<1>1. Len(plan[t].of) \in Nat BY Types, PlanFacts
<1> QED BY <1>1 DEF TaskIInv, Waiting, Waiter, Worker

\* WhenAll has heard of an input: it waits for the next, or it is through.
LEMMA AllHeardFacts ==
  ASSUME TaskIInv, NEW t \in Tasks, AllHeard(t)
  PROVE  /\ at' \in [Actors -> AtType] /\ \A b \in Actors \ {t} : at'[b] = at[b]
         /\ at[t].pc = "woken" /\ step[t] = "body" /\ Kind(t) = "all"
         /\ UNCHANGED <<plan, known, requested, isCompleted, isFaulted, isCanceled, cause, result,
                        mutex, continuations, toRun, invoked, claimed, canceledFlag, promise>>
         /\ \/ /\ at'[t].pc = "enter" /\ at'[t].i \in 1..Len(plan[t].of)
               /\ at'[t].task \in Inputs(t) /\ UNCHANGED <<step, outcome>>
            \/ /\ at'[t] = Idle /\ step' = [step EXCEPT ![t] = "store"]
               /\ outcome' \in [Tasks -> {"ok", "fault", "oce", "canceled"}]
               /\ \A x \in Tasks \ {t} : outcome'[x] = outcome[x]
         /\ tally' \in [Tasks -> [fault : Tasks \cup {None}, canceled : BOOLEAN]]
<1>1. /\ at[t].pc = "woken" /\ Kind(t) = "all" /\ step[t] = "body" /\ at[t].i \in 1..Len(plan[t].of)
      /\ Len(plan[t].of) \in Nat /\ at[t] \in AtType /\ at \in [Actors -> AtType] /\ t \in Actors
      /\ outcome \in [Tasks -> {"ok", "fault", "oce", "canceled"}] /\ at[t].i \in Nat
  BY Types, TaskActorFacts DEF AllHeard, AtType
<1>2. UNCHANGED <<plan, known, requested, isCompleted, isFaulted, isCanceled, cause, result,
                  mutex, continuations, toRun, invoked, claimed, canceledFlag, promise>>
  BY DEF AllHeard, flags, sources
<1>3. tally' \in [Tasks -> [fault : Tasks \cup {None}, canceled : BOOLEAN]]
  <2>1. at[t].task \in Tasks BY <1>1, WaiterFacts DEF WaitPCs
  <2>2. PICK f \in Tasks \cup {None}, c \in BOOLEAN :
          tally' = [tally EXCEPT ![t] = [fault |-> f, canceled |-> c]]
    <3> DEFINE s == at[t].task
               f == IF tally[t].fault = None /\ Report(s) = "Faulted" /\ ~isCanceled[s]
                      THEN cause[s] ELSE tally[t].fault
               c == tally[t].canceled \/ isCanceled[s]
    <3>1. tally' = [tally EXCEPT ![t] = [fault |-> f, canceled |-> c]] BY DEF AllHeard
    <3>2. tally[t].fault \in Tasks \cup {None} BY Types
    <3>3. f \in Tasks \cup {None} BY <2>1, <3>2, Types
    <3>4. c \in BOOLEAN OBVIOUS
    <3> QED BY <3>1, <3>3, <3>4
  <2> QED BY <2>2, Types
<1>4. CASE at[t].i < Len(plan[t].of)
  <2> DEFINE n == at[t].i + 1
             x == plan[t].of[n]
  <2>1. /\ at' = [at EXCEPT ![t] = [Idle EXCEPT !.pc = "enter", !.i = n, !.task = x]]
        /\ UNCHANGED <<step, outcome>>
    BY <1>4 DEF AllHeard
  <2>2. n \in 1..Len(plan[t].of) /\ n \in Nat BY <1>1, <1>4
  <2>3. x \in Tasks /\ x \in Inputs(t) BY <2>2, Types, PlanFacts
  <2> HIDE DEF n, x
  <2>4. ASSUME NEW r, r = [Idle EXCEPT !.pc = "enter", !.i = n, !.task = x]
        PROVE  r \in AtType /\ r.pc = "enter" /\ r.i = n /\ r.task = x
    <3>1. "enter" \in PCs /\ "result" \in Hows BY DEF PCs, Hows
    <3> QED BY <2>2, <2>3, <2>4, <3>1 DEF Idle, AtType
  <2>5. PICK r \in AtType : at' = [at EXCEPT ![t] = r] /\ r.pc = "enter" /\ r.i = n /\ r.task = x
    BY <2>1, <2>4
  <2>6. /\ at' \in [Actors -> AtType] /\ \A b \in Actors \ {t} : at'[b] = at[b]
        /\ at'[t].pc = "enter" /\ at'[t].i = n /\ at'[t].task = x
    BY <1>1, <2>5, Moved
  <2> QED BY <1>1, <1>2, <1>3, <2>1, <2>2, <2>3, <2>6
<1>5. CASE ~(at[t].i < Len(plan[t].of))
  <2>1. /\ at' = [at EXCEPT ![t] = Idle] /\ step' = [step EXCEPT ![t] = "store"]
        /\ \E o \in {"ok", "fault"} : outcome' = [outcome EXCEPT ![t] = o]
    BY <1>5 DEF AllHeard
  <2>2. /\ at' \in [Actors -> AtType] /\ \A b \in Actors \ {t} : at'[b] = at[b]
        /\ at'[t] = Idle
    BY <1>1, <2>1, IdleType, Moved
  <2>3. /\ outcome' \in [Tasks -> {"ok", "fault", "oce", "canceled"}]
        /\ \A x \in Tasks \ {t} : outcome'[x] = outcome[x]
    BY <1>1, <2>1
  <2> QED BY <1>1, <1>2, <1>3, <2>1, <2>2, <2>3
<1> QED BY <1>4, <1>5

\* The proxy's thread has heard of the outer task, or of the inner one.
LEMMA ProxyFacts ==
  ASSUME TaskIInv, NEW t \in Tasks, ProxyHeard(t)
  PROVE  /\ at' \in [Actors -> AtType] /\ \A b \in Actors \ {t} : at'[b] = at[b]
         /\ at[t].pc = "woken" /\ Kind(t) = "unwrap" /\ step[t] # "none"
         /\ \/ /\ at'[t].pc = "enter" /\ at'[t].i = 2 /\ at'[t].task \in known
            \/ /\ at'[t].pc = "claim" /\ at'[t].task = t
         /\ tally' \in [Tasks -> [fault : Tasks \cup {None}, canceled : BOOLEAN]]
<1> DEFINE s == at[t].task
<1>1. /\ at[t].pc = "woken" /\ Kind(t) = "unwrap" /\ at[t] \in AtType /\ at \in [Actors -> AtType]
      /\ t \in Actors /\ step[t] # "none" /\ s \in Tasks /\ isCompleted[s] /\ s \in known
      /\ at[t].i = 1 => s = plan[t].of[1]
  BY Types, WaiterFacts, TaskActorFacts DEF ProxyHeard, WaitPCs
<1>2. CASE HasInner(t, s)
  <2>1. /\ at' = [at EXCEPT ![t] = [Idle EXCEPT !.pc = "enter", !.i = 2, !.task = result[s]]]
        /\ tally' = tally
    BY <1>2 DEF ProxyHeard
  <2>2. result[s] # None BY <1>2 DEF HasInner
  <2>3. result[s] \in Inputs(s) BY <1>1, <2>2 DEF TaskIInv, Results, Result
  <2>4. step[s] # "none" BY <1>1 DEF TaskIInv, Stages, Stage, Past
  <2>5. result[s] \in known BY <1>1, <2>3, <2>4 DEF TaskIInv, Stages, Stage
  <2>6. result[s] \in Tasks BY <2>5, Types
  <2>7. ASSUME NEW x \in Tasks, NEW r, r = [Idle EXCEPT !.pc = "enter", !.i = 2, !.task = x]
        PROVE  r \in AtType /\ r.pc = "enter" /\ r.i = 2 /\ r.task = x
    <3>1. "enter" \in PCs /\ "result" \in Hows BY DEF PCs, Hows
    <3> QED BY <2>7, <3>1 DEF Idle, AtType
  <2>8. PICK r \in AtType : at' = [at EXCEPT ![t] = r] /\ r.pc = "enter" /\ r.i = 2 /\ r.task = result[s]
    BY <2>1, <2>6, <2>7
  <2>9. /\ at' \in [Actors -> AtType] /\ \A b \in Actors \ {t} : at'[b] = at[b]
        /\ at'[t].pc = "enter" /\ at'[t].i = 2 /\ at'[t].task = result[s]
    BY <1>1, <2>8, Moved
  <2> QED BY <1>1, <2>1, <2>5, <2>9, Types
<1>3. CASE ~HasInner(t, s)
  <2> DEFINE h == PassesOn(t, s)
  <2>1. /\ at' = [at EXCEPT ![t] = [Idle EXCEPT !.pc = "claim", !.task = t, !.how = h]]
        /\ tally' = [tally EXCEPT ![t].fault = cause[s]]
    BY <1>3 DEF ProxyHeard
  <2>2. h \in Hows /\ "claim" \in PCs BY DEF PassesOn, Hows, PCs
  <2>3. cause[s] \in Tasks \cup {None} BY <1>1, Types
  <2>4. tally' \in [Tasks -> [fault : Tasks \cup {None}, canceled : BOOLEAN]]
    <3> DEFINE R == [fault : Tasks \cup {None}, canceled : BOOLEAN]
    <3>1. tally' = [tally EXCEPT ![t] = [tally[t] EXCEPT !.fault = cause[s]]] BY <2>1
    <3>2. tally[t] \in R /\ tally \in [Tasks -> R] BY Types
    <3>3. [tally[t] EXCEPT !.fault = cause[s]] \in R BY <2>3, <3>2
    <3> QED BY <3>1, <3>2, <3>3
  <2> HIDE DEF h
  <2>5. ASSUME NEW r, r = [Idle EXCEPT !.pc = "claim", !.task = t, !.how = h]
        PROVE  r \in AtType /\ r.pc = "claim" /\ r.task = t
    BY <2>2, <2>5 DEF Idle, AtType
  <2>6. PICK r \in AtType : at' = [at EXCEPT ![t] = r] /\ r.pc = "claim" /\ r.task = t
    BY <2>1, <2>5
  <2>7. /\ at' \in [Actors -> AtType] /\ \A b \in Actors \ {t} : at'[b] = at[b]
        /\ at'[t].pc = "claim" /\ at'[t].task = t
    BY <1>1, <2>6, Moved
  <2> QED BY <1>1, <2>4, <2>7
<1> QED BY <1>2, <1>3

\* An actor that completes a source.
LEMMA SetterFacts ==
  ASSUME TaskIInv, NEW a \in Actors, at[a].pc \in SetPCs
  PROVE  /\ at[a].task \in known /\ at[a].task \in Tasks /\ Kind(at[a].task) \in {"source", "unwrap"}
         /\ at[a].how \in Hows /\ step[at[a].task] # "none"
         /\ a \in Tasks => Kind(a) = "unwrap" /\ at[a].task = a
         /\ at[a].pc \in {"flag", "promise"} => claimed[at[a].task] = at[a].how /\ promise[at[a].task] = None
<1>1. /\ at[a].task \in known /\ Kind(at[a].task) \in {"source", "unwrap"}
      /\ at[a].pc \in {"flag", "promise"} => claimed[at[a].task] = at[a].how /\ promise[at[a].task] = None
  BY DEF TaskIInv, Claims, Setter
<1>2. at[a].task \in Tasks /\ at[a].how \in Hows BY <1>1, Types DEF AtType
<1>3. step[at[a].task] # "none" BY <1>1, <1>2 DEF TaskIInv, Stages, Stage
<1>4. a \in Tasks => Kind(a) = "unwrap" /\ at[a].task = a BY TaskActorFacts DEF SetPCs, WaitPCs
<1> QED BY <1>1, <1>2, <1>3, <1>4

\* The steps of TrySetResult, TrySetException and TrySetCanceled.
LEMMA SetFacts ==
  ASSUME TaskIInv, NEW a \in Actors, Claim(a) \/ Flag(a) \/ Promise(a), NEW t, t = at[a].task
  PROVE  /\ at' \in [Actors -> AtType] /\ \A b \in Actors \ {a} : at'[b] = at[b]
         /\ at[a].pc \in SetPCs
         /\ \/ /\ at[a].pc = "claim" /\ claimed[t] = None /\ claimed' = [claimed EXCEPT ![t] = at[a].how]
               /\ at'[a].pc = (IF at[a].how = "cancel" THEN "flag" ELSE "promise")
               /\ at'[a].task = t /\ at'[a].how = at[a].how /\ at'[a].i = at[a].i
               /\ UNCHANGED <<canceledFlag, promise>>
            \/ at[a].pc = "claim" /\ at'[a] = Idle /\ UNCHANGED <<claimed, canceledFlag, promise>>
            \/ /\ at[a].pc = "flag" /\ canceledFlag' = [canceledFlag EXCEPT ![t] = TRUE]
               /\ at'[a].pc = "promise" /\ at'[a].task = t /\ at'[a].how = at[a].how
               /\ at'[a].i = at[a].i
               /\ UNCHANGED <<claimed, promise>>
            \/ /\ at[a].pc = "promise" /\ at'[a] = Idle /\ UNCHANGED <<claimed, canceledFlag>>
               /\ promise' = [promise EXCEPT ![t] = IF at[a].how = "result" THEN "value" ELSE "exception"]
<1>0. at \in [Actors -> AtType] /\ {"flag", "promise"} \subseteq PCs BY Types DEF PCs
<1>1. CASE Claim(a)
  <2>1. at[a].pc = "claim" /\ UNCHANGED <<canceledFlag, promise>> BY <1>1 DEF Claim
  <2>2. CASE First(at[a].task)
    <3>1. /\ claimed[t] = None /\ claimed' = [claimed EXCEPT ![t] = at[a].how]
          /\ Go(a, IF at[a].how = "cancel" THEN "flag" ELSE "promise")
      BY <1>1, <2>2 DEF Claim, First
    <3>2. CASE at[a].how = "cancel"
      <4>1. Go(a, "flag") BY <3>1, <3>2
      <4> QED BY <4>1, <3>1, <3>2, <2>1, <1>0, Went DEF SetPCs
    <3>3. CASE at[a].how # "cancel"
      <4>1. Go(a, "promise") BY <3>1, <3>3
      <4> QED BY <4>1, <3>1, <3>3, <2>1, <1>0, Went DEF SetPCs
    <3> QED BY <3>2, <3>3
  <2>3. CASE ~First(at[a].task)
    <3>1. claimed' = claimed /\ at' = [at EXCEPT ![a] = Idle] BY <1>1, <2>3 DEF Claim
    <3> QED BY <3>1, <2>1, <1>0, IdleType, Moved DEF SetPCs
  <2> QED BY <2>2, <2>3
<1>2. CASE Flag(a)
  <2>1. /\ at[a].pc = "flag" /\ canceledFlag' = [canceledFlag EXCEPT ![t] = TRUE]
        /\ Go(a, "promise") /\ UNCHANGED <<claimed, promise>>
    BY <1>2 DEF Flag
  <2> QED BY <2>1, <1>0, Went DEF SetPCs
<1>3. CASE Promise(a)
  <2>1. /\ at[a].pc = "promise" /\ at' = [at EXCEPT ![a] = Idle] /\ UNCHANGED <<claimed,
                                                                                canceledFlag>>
        /\ promise' = [promise EXCEPT ![t] = IF at[a].how = "result" THEN "value" ELSE "exception"]
    BY <1>3 DEF Promise
  <2> QED BY <2>1, <1>0, IdleType, Moved DEF SetPCs
<1> QED BY <1>1, <1>2, <1>3


\* What is in a list after a callback was added at its end.
LEMMA AddedFacts ==
  ASSUME TaskIInv, NEW s \in Tasks, NEW c \in Tasks, toRun' = toRun,
         continuations' = [continuations EXCEPT ![s] = Append(continuations[s], c)],
         NEW y \in Tasks
  PROVE  /\ continuations' \in [Tasks -> Seq(Tasks)]
         /\ y # s => continuations'[y] = continuations[y]
         /\ y = s => /\ Len(continuations[y]) \in Nat /\ Len(continuations'[y]) = Len(continuations[y]) + 1
                     /\ \A k \in 1..Len(continuations'[y]) :
                          \/ k \in 1..Len(continuations[y]) /\ continuations'[y][k] = continuations[y][k]
                          \/ k = Len(continuations[y]) + 1 /\ continuations'[y][k] = c
         /\ \A x \in Tasks : InList(x, y)' => InList(x, y) \/ (x = c /\ y = s)
         /\ \A x \in Tasks : Due(x, y)' /\ step' = step => Due(x, y) \/ x = c
         /\ \A x \in Tasks : Once(continuations[y], x) /\ (x = c => ~InList(x, y)) => Once(continuations'[y], x)
<1>1. continuations \in [Tasks -> Seq(Tasks)] BY Types
<1>2. \A q \in Seq(Tasks) : /\ Append(q, c) \in Seq(Tasks) /\ Len(q) \in Nat /\ Len(Append(q, c)) = Len(q) + 1
                            /\ \A k \in 1..Len(q) : Append(q, c)[k] = q[k]
                            /\ Append(q, c)[Len(q) + 1] = c
  OBVIOUS
<1>3. continuations' \in [Tasks -> Seq(Tasks)] BY <1>1, <1>2
<1>4. y # s => continuations'[y] = continuations[y] BY <1>1
<1>5. y = s => continuations'[y] = Append(continuations[y], c) BY <1>1
<1>6. y = s => /\ Len(continuations[y]) \in Nat /\ Len(continuations'[y]) = Len(continuations[y]) + 1
               /\ \A k \in 1..Len(continuations'[y]) :
                    \/ k \in 1..Len(continuations[y]) /\ continuations'[y][k] = continuations[y][k]
                    \/ k = Len(continuations[y]) + 1 /\ continuations'[y][k] = c
  <2> SUFFICES ASSUME y = s
               PROVE  /\ Len(continuations[y]) \in Nat /\ Len(continuations'[y]) = Len(continuations[y]) + 1
                      /\ \A k \in 1..Len(continuations'[y]) :
                           \/ k \in 1..Len(continuations[y]) /\ continuations'[y][k] = continuations[y][k]
                           \/ k = Len(continuations[y]) + 1 /\ continuations'[y][k] = c
    OBVIOUS
  <2> DEFINE q == continuations[y]
             r == continuations'[y]
  <2>1. q \in Seq(Tasks) /\ r = Append(q, c) BY <1>1, <1>5
  <2>2. Len(q) \in Nat /\ Len(r) = Len(q) + 1 /\ r[Len(q) + 1] = c /\ \A k \in 1..Len(q) : r[k] = q[k]
    BY <1>2, <2>1
  <2> HIDE DEF q, r
  <2>3. \A k \in 1..Len(r) : (k \in 1..Len(q) /\ r[k] = q[k]) \/ (k = Len(q) + 1 /\ r[k] = c)
    BY <2>2
  <2> QED BY <2>2, <2>3 DEF q, r
<1>7. \A x \in Tasks : InList(x, y)' => InList(x, y) \/ (x = c /\ y = s)
  BY <1>4, <1>6 DEF InList
<1>8. \A x \in Tasks : Due(x, y)' /\ step' = step => Due(x, y) \/ x = c
  BY <1>4, <1>6 DEF Due
<1>9. \A x \in Tasks : Once(continuations[y], x) /\ (x = c => ~InList(x, y)) => Once(continuations'[y], x)
  <2>1. CASE y # s BY <1>4, <2>1
  <2>2. CASE y = s
    <3> SUFFICES ASSUME NEW x \in Tasks, Once(continuations[y], x), x = c => ~InList(x, y),
                        NEW j \in 1..Len(continuations'[y]), NEW k \in 1..Len(continuations'[y]),
                        continuations'[y][j] = x, continuations'[y][k] = x
                 PROVE  j = k
      BY DEF Once
    <3>1. x = c => \A n \in 1..Len(continuations[y]) : continuations[y][n] # x BY DEF InList
    <3>2. CASE x = c
      <4>1. j = Len(continuations[y]) + 1 BY <1>6, <2>2, <3>1, <3>2
      <4>2. k = Len(continuations[y]) + 1 BY <1>6, <2>2, <3>1, <3>2
      <4> QED BY <4>1, <4>2
    <3>3. CASE x # c
      <4>1. j \in 1..Len(continuations[y]) /\ continuations[y][j] = x BY <1>6, <2>2, <3>3
      <4>2. k \in 1..Len(continuations[y]) /\ continuations[y][k] = x BY <1>6, <2>2, <3>3
      <4> QED BY <4>1, <4>2 DEF Once
    <3> QED BY <3>2, <3>3
  <2> QED BY <2>1, <2>2
<1> QED BY <1>3, <1>4, <1>6, <1>7, <1>8, <1>9

\* ... and after the first one of those that were taken is through.
LEMMA DroppedFacts ==
  ASSUME TaskIInv, NEW t \in Tasks, toRun[t] # <<>>, continuations' = continuations,
         toRun' = [toRun EXCEPT ![t] = Tail(toRun[t])], NEW y \in Tasks
  PROVE  /\ toRun' \in [Tasks -> Seq(Tasks)]
         /\ y # t => toRun'[y] = toRun[y]
         /\ y = t => \A k \in 1..Len(toRun'[y]) : /\ k + 1 \in 1..Len(toRun[y]) /\ k \in Nat
                                                  /\ toRun'[y][k] = toRun[y][k + 1]
         /\ \A x \in Tasks : InList(x, y)' => InList(x, y)
         /\ \A x \in Tasks : Once(toRun[y], x) => Once(toRun'[y], x)
<1>1. toRun \in [Tasks -> Seq(Tasks)] BY Types
<1>2. /\ Tail(toRun[t]) \in Seq(Tasks)
      /\ \A k \in 1..Len(Tail(toRun[t])) : k + 1 \in 1..Len(toRun[t]) /\ Tail(toRun[t])[k] = toRun[t][k + 1]
  BY HeadFacts
<1>3. toRun' \in [Tasks -> Seq(Tasks)] /\ (y # t => toRun'[y] = toRun[y]) BY <1>1, <1>2
<1>4. y = t => toRun'[y] = Tail(toRun[y]) BY <1>1
<1>5. y = t => \A k \in 1..Len(toRun'[y]) : k + 1 \in 1..Len(toRun[y]) /\ k \in Nat /\ toRun'[y][k] = toRun[y][k + 1]
  <2> SUFFICES ASSUME y = t, NEW k \in 1..Len(Tail(toRun[t]))
               PROVE  k + 1 \in 1..Len(toRun[t]) /\ k \in Nat /\ Tail(toRun[t])[k] = toRun[t][k + 1]
    BY <1>4
  <2>1. k \in Nat BY <1>2
  <2> QED BY <1>2, <2>1
<1>6. \A x \in Tasks : InList(x, y)' => InList(x, y)
  <2>1. CASE y = t
    <3> SUFFICES ASSUME NEW x \in Tasks, NEW k \in 1..Len(toRun'[y]), toRun'[y][k] = x PROVE InList(x, y)
      BY DEF InList
    <3>1. k + 1 \in 1..Len(toRun[y]) /\ toRun[y][k + 1] = x BY <1>5, <2>1
    <3> QED BY <3>1 DEF InList
  <2>2. CASE y # t BY <1>3, <2>2 DEF InList
  <2> QED BY <2>1, <2>2
<1>7. \A x \in Tasks : Once(toRun[y], x) => Once(toRun'[y], x)
  <2>1. CASE y # t BY <1>3, <2>1
  <2>2. CASE y = t
    <3> SUFFICES ASSUME NEW x \in Tasks, Once(toRun[y], x),
                        NEW j \in 1..Len(toRun'[y]), NEW k \in 1..Len(toRun'[y]),
                        toRun'[y][j] = x, toRun'[y][k] = x
                 PROVE  j = k
      BY DEF Once
    <3>1. j + 1 \in 1..Len(toRun[y]) /\ j \in Nat /\ toRun[y][j + 1] = x BY <1>5, <2>2
    <3>2. k + 1 \in 1..Len(toRun[y]) /\ k \in Nat /\ toRun[y][k + 1] = x BY <1>5, <2>2
    <3>3. j + 1 = k + 1 BY <3>1, <3>2 DEF Once
    <3> QED BY <3>1, <3>2, <3>3
  <2> QED BY <2>1, <2>2
<1> QED BY <1>3, <1>5, <1>6, <1>7

\* The callback that fireContinuations called is through.
LEMMA CalleeFacts ==
  ASSUME TaskIInv, NEW t \in Tasks, CalleeDone(t)
  PROVE  /\ toRun[t] # <<>> /\ toRun' = [toRun EXCEPT ![t] = Tail(toRun[t])]
         /\ step[t] = "calling" /\ step' = [step EXCEPT ![t] = "run"]
         /\ step[Head(toRun[t])] = "done"
         /\ UNCHANGED <<plan, known, requested, outcome, isCompleted, isFaulted, isCanceled,
                        cause, result,
                        mutex, continuations, invoked, claimed, canceledFlag, promise, at, tally>>
<1>1. /\ step[t] = "calling" /\ step' = [step EXCEPT ![t] = "run"] /\ step[Head(toRun[t])] = "done"
      /\ UNCHANGED <<plan, known, requested, outcome, isCompleted, isFaulted, isCanceled, cause,
                     result,
                     mutex, continuations, invoked, claimed, canceledFlag, promise, at, tally>>
  BY DEF CalleeDone, flags, sources
<1>2. toRun[t] # <<>> BY <1>1 DEF TaskIInv, Lists, List
<1>3. toRun' = [toRun EXCEPT ![t] = Tail(@)] BY DEF CalleeDone
<1>4. toRun' = [toRun EXCEPT ![t] = Tail(toRun[t])] BY <1>3, Types
<1> QED BY <1>1, <1>2, <1>4

\* What a callback that is called writes.
LEMMA WakesTypes ==
  ASSUME TaskIInv, NEW c \in Tasks, NEW s \in Tasks, Kind(c) \in {"then", "any"}, Wakes(c, s)
  PROVE  /\ outcome' \in [Tasks -> {"ok", "fault", "oce", "canceled"}] /\ invoked' \subseteq Tasks
         /\ result' \in [Tasks -> Tasks \cup {None}]
<1>1. result \in [Tasks -> Tasks \cup {None}] BY Types
<1>2. result' = result \/ result' = [result EXCEPT ![c] = s] BY DEF Wakes
<1>3. result' \in [Tasks -> Tasks \cup {None}] BY <1>1, <1>2
<1> QED BY <1>3 DEF Wakes

\* isCompleted, isFaulted and isCanceled agree with the stage of the completion code
\* after every step, and a task is made of tasks that the program has.
LEMMA StagesNext == TaskIInv /\ [Next]_vars => (\A x \in Tasks : Stage(x))'
<1> SUFFICES ASSUME TaskIInv, [Next]_vars, NEW x \in Tasks PROVE Stage(x)'
  OBVIOUS
<1>0. /\ known \subseteq Tasks /\ step \in [Tasks -> Steps]
      /\ isCompleted \in [Tasks -> BOOLEAN] /\ isFaulted \in [Tasks -> BOOLEAN]
      /\ isCanceled \in [Tasks -> BOOLEAN] /\ cause \in [Tasks -> Tasks \cup {None}]
      /\ None \notin Tasks
      /\ result \in [Tasks -> Tasks \cup {None}]
      /\ claimed \in [Tasks -> Hows \cup {None}] /\ Stage(x)
  BY Types DEF TaskIInv, Stages
<1>1. ASSUME NEW u \in Users, NEW t \in Tasks, Start(u, t) PROVE Stage(x)'
  BY <1>1, <1>0 DEF Start, Making, flags, sources, Stage, Past, Kind, Inputs
<1>2. ASSUME NEW u \in Users, NEW t \in Tasks, StartCanceled(u, t) PROVE Stage(x)'
  BY <1>2, <1>0 DEF StartCanceled, Making, flags, sources, Stage, Past, Kind, Inputs
<1>3. ASSUME NEW u \in Users, NEW t \in Tasks, Pend(u, t) PROVE Stage(x)'
  BY <1>3, <1>0 DEF Pend, Making, flags, sources, Stage, Past, Kind, Inputs
<1>4. ASSUME NEW u \in Users, NEW t \in Tasks, Unwrap(u, t) PROVE Stage(x)'
  BY <1>4, <1>0 DEF Unwrap, Making, flags, sources, Stage, Past, Kind, Inputs
<1>4a. ASSUME NEW u \in Users, NEW t \in Tasks, UnwrapEnded(u, t) PROVE Stage(x)'
  BY <1>4a, <1>0 DEF UnwrapEnded, Making, flags, sources, Stage, Past, Kind, Inputs
<1>5. ASSUME NEW u \in Users, NEW t \in Tasks, Wait(u, t) PROVE Stage(x)'
  BY <1>5, <1>0 DEF Wait, flags, sources, Stage, Past, Kind, Inputs
<1>6. ASSUME NEW u \in Users, NEW t \in Tasks, NEW how \in Hows, TrySet(u, t, how) PROVE Stage(x)'
  BY <1>6, <1>0 DEF TrySet, flags, sources, Stage, Past, Kind, Inputs
<1>7. ASSUME NEW u \in Users, Scan(u) PROVE Stage(x)'
  <2> DEFINE c == at[u].task
  <2>1. /\ c \in Tasks /\ step[c] = "pending" /\ at[u].pc = "scan"
    BY <1>7, <1>0, MakerFacts, Types DEF Scan, RegPCs
  <2>2. /\ UNCHANGED <<plan, isFaulted, isCanceled, cause, claimed>>
        /\ \/ /\ isCompleted' = [isCompleted EXCEPT ![c] = TRUE] /\ step' = [step EXCEPT ![c] = "done"]
              /\ known' = known \cup {c}
           \/ UNCHANGED <<isCompleted, step, known>>
    BY <1>7, ScanFacts
  <2> HIDE DEF c
  <2> QED BY <1>0, <2>1, <2>2 DEF Stage, Past, Kind, Inputs
<1>8. ASSUME NEW u \in Users, Register(u) PROVE Stage(x)'
  <2> DEFINE c == at[u].task
  <2>1. /\ c \in Tasks /\ step[c] # "none" /\ at[u].pc = "register"
    BY <1>8, MakerFacts, Types DEF Register, RegPCs
  <2>2. /\ UNCHANGED <<plan, isCompleted, isFaulted, isCanceled, cause, claimed>>
        /\ \/ UNCHANGED <<known, step>>
           \/ /\ step[c] = "pending" /\ step'[c] \in {"body", "store"} /\ known' = known
              /\ \A t \in Tasks \ {c} : step'[t] = step[t]
           \/ step' = step /\ (known' = known \/ known' = known \cup {c})
    BY <1>8, <2>1, RegisterFacts, RegisteredFacts DEF Wakes, RegPCs
  <2> HIDE DEF c
  <2> QED BY <1>0, <2>1, <2>2 DEF Stage, Past, Kind, Inputs
<1>9. ASSUME NEW u \in Users, Push(u) PROVE Stage(x)'
  <2> DEFINE c == at[u].task
  <2>1. /\ c \in Tasks /\ step[c] # "none" /\ at[u].pc = "push"
    BY <1>9, MakerFacts, Types DEF Push, RegPCs
  <2>2. UNCHANGED <<plan, isCompleted, isFaulted, isCanceled, cause, claimed,
                    step>> /\ (known' = known \/ known' = known \cup {c})
    BY <1>9, <2>1, RegisteredFacts DEF RegPCs, Push, flags, sources
  <2> HIDE DEF c
  <2> QED BY <1>0, <2>1, <2>2 DEF Stage, Past, Kind, Inputs
<1>10. ASSUME NEW u \in Users, Returned(u) PROVE Stage(x)'
  <2> DEFINE c == at[u].task
  <2>1. /\ c \in Tasks /\ step[c] # "none" /\ at[u].pc = "calling"
    BY <1>10, MakerFacts, Types DEF Returned, RegPCs
  <2>2. UNCHANGED <<plan, isCompleted, isFaulted, isCanceled, cause, claimed,
                    step>> /\ (known' = known \/ known' = known \cup {c})
    BY <1>10, <2>1, RegisteredFacts DEF RegPCs, Returned, flags, sources
  <2> HIDE DEF c
  <2> QED BY <1>0, <2>1, <2>2 DEF Stage, Past, Kind, Inputs
<1>11. ASSUME NEW u \in Users, WaitReturn(u) PROVE Stage(x)'
  BY <1>11, <1>0 DEF WaitReturn, flags, sources, Stage, Past, Kind, Inputs
<1>12. ASSUME NEW a \in Actors, WaitEnter(a) PROVE Stage(x)'
  BY <1>12, <1>0 DEF WaitEnter, flags, sources, Stage, Past, Kind, Inputs
<1>13. ASSUME NEW a \in Actors, WaitTest(a) PROVE Stage(x)'
  BY <1>13, <1>0 DEF WaitTest, flags, sources, Stage, Past, Kind, Inputs
<1>14. ASSUME NEW a \in Actors, WaitSleep(a) PROVE Stage(x)'
  BY <1>14, <1>0 DEF WaitSleep, flags, sources, Stage, Past, Kind, Inputs
<1>15. ASSUME NEW a \in Actors, Claim(a) PROVE Stage(x)'
  <2>1. at[a].pc \in SetPCs BY <1>15 DEF Claim, SetPCs
  <2>2. at[a].task \in Tasks /\ step[at[a].task] # "none" BY <2>1, SetterFacts
  <2>3. \A t \in Tasks \ {at[a].task} : claimed'[t] = claimed[t] BY <1>15, <1>0 DEF Claim
  <2>4. UNCHANGED <<plan, known, step, isCompleted, isFaulted, isCanceled, cause>> BY <1>15 DEF Claim, flags
  <2> QED BY <1>0, <2>2, <2>3, <2>4 DEF Stage, Past, Kind, Inputs
<1>16. ASSUME NEW a \in Actors, Flag(a) PROVE Stage(x)'
  BY <1>16, <1>0 DEF Flag, flags, sources, Stage, Past, Kind, Inputs
<1>17. ASSUME NEW a \in Actors, Promise(a) PROVE Stage(x)'
  BY <1>17, <1>0 DEF Promise, flags, sources, Stage, Past, Kind, Inputs
<1>18. ASSUME NEW t \in Tasks, Body(t) PROVE Stage(x)'
  BY <1>18, <1>0 DEF Body, flags, sources, Stage, Past, Kind, Inputs
<1>19. ASSUME NEW t \in Tasks, Bridge(t) PROVE Stage(x)'
  BY <1>19, <1>0 DEF Bridge, flags, sources, Stage, Past, Kind, Inputs
<1>20. ASSUME NEW t \in Tasks, Store(t) PROVE Stage(x)'
  <2>1. /\ UNCHANGED <<plan, known, isCompleted, claimed>> /\ step' = [step EXCEPT ![t] = "complete"]
        /\ step[t] = "store"
        /\ \A z \in Tasks \ {t} : UNCHANGED <<isFaulted[z], isCanceled[z], cause[z]>>
    BY <1>20, <1>0 DEF Store, sources
  <2>2. isFaulted'[t] => cause'[t] # None /\ ~isCanceled'[t]
    <3>1. /\ isCanceled'[t] = Cancels(t)
          /\ isFaulted'[t] = (outcome[t] \in {"fault", "oce"} /\ ~Cancels(t))
      BY <1>20, <1>0 DEF Store
    <3>2. isFaulted'[t] => cause'[t] = Thrown(t) BY <1>20, <1>0 DEF Store
    <3>3. Thrown(t) # None BY <1>0 DEF Thrown
    <3> QED BY <3>1, <3>2, <3>3
  <2> QED BY <1>0, <2>1, <2>2 DEF Stage, Past, Kind, Inputs
<1>21. ASSUME NEW t \in Tasks, Complete(t) PROVE Stage(x)'
  BY <1>21, <1>0 DEF Complete, flags, sources, Stage, Past, Kind, Inputs
<1>22. ASSUME NEW t \in Tasks, Swap(t) PROVE Stage(x)'
  BY <1>22, <1>0 DEF Swap, flags, sources, Stage, Past, Kind, Inputs
<1>23. ASSUME NEW t \in Tasks, Notify(t) PROVE Stage(x)'
  BY <1>23, <1>0 DEF Notify, flags, sources, Stage, Past, Kind, Inputs
<1>24. ASSUME NEW t \in Tasks, Run(t) PROVE Stage(x)'
  <2> DEFINE c == Head(toRun[t])
  <2>1. toRun[t] # <<>> => c \in Tasks BY HeadFacts
  <2>2. /\ UNCHANGED <<plan, known, isCompleted, isFaulted, isCanceled, cause, claimed>> /\ step[t] = "run"
        /\ \/ step' = [step EXCEPT ![t] = "done"]
           \/ /\ toRun[t] # <<>> /\ step[c] = "pending" /\ step'[c] \in {"body", "store"} /\ c # t
              /\ step'[t] = "calling" /\ \A z \in Tasks \ {c, t} : step'[z] = step[z]
           \/ step' = step
    BY <1>24, RunFacts DEF Wakes
  <2> HIDE DEF c
  <2> QED BY <1>0, <2>1, <2>2 DEF Stage, Past, Kind, Inputs
<1>25. ASSUME NEW t \in Tasks, CalleeDone(t) PROVE Stage(x)'
  BY <1>25, <1>0 DEF CalleeDone, flags, sources, Stage, Past, Kind, Inputs
<1>26. ASSUME NEW t \in Tasks, AllHeard(t) PROVE Stage(x)'
  <2>1. /\ UNCHANGED <<plan, known, isCompleted, isFaulted, isCanceled, cause, claimed>> /\ step[t] = "body"
        /\ (step' = step \/ step' = [step EXCEPT ![t] = "store"])
    BY <1>26, AllHeardFacts
  <2> QED BY <1>0, <2>1 DEF Stage, Past, Kind, Inputs
<1>27. ASSUME NEW t \in Tasks, ProxyHeard(t) PROVE Stage(x)'
  BY <1>27, <1>0 DEF ProxyHeard, flags, sources, Stage, Past, Kind, Inputs
<1>28. CASE Cancel BY <1>28, <1>0 DEF Cancel, flags, sources, Stage, Past, Kind, Inputs
<1>29. CASE UNCHANGED vars BY <1>29, <1>0 DEF vars, flags, sources, Stage, Past, Kind, Inputs
<1> QED
  BY <1>1, <1>2, <1>3, <1>4, <1>5, <1>6, <1>7, <1>8, <1>9, <1>10, <1>11, <1>12, <1>13, <1>14,
     <1>15, <1>16, <1>17, <1>18, <1>19, <1>20, <1>21, <1>22, <1>23, <1>24, <1>25, <1>26, <1>27,
     <1>28, <1>29, <1>4a DEF Next, Call, UserStep, TaskStep, InCall, Actors

\* ContinueWith and WhenAny: the thread that makes the task alone has its handle and
\* stands at one of its inputs until the last registration is over.
LEMMA MakersNext == TaskIInv /\ [Next]_vars => (\A x \in Actors : Maker(x))'
<1> SUFFICES ASSUME TaskIInv, [Next]_vars, NEW x \in Actors PROVE Maker(x)'
  OBVIOUS
<1>0. /\ known \subseteq Tasks /\ step \in [Tasks -> Steps] /\ at \in [Actors -> AtType]
      /\ Maker(x) /\ Idle.pc = "idle" /\ Tasks \cap Users = {}
  BY Types, IdleType DEF TaskIInv, Makers
<1>1. ASSUME NEW u \in Users, NEW t \in Tasks, Start(u, t) PROVE Maker(x)'
  <2>1. /\ (\A b \in Actors \ {t} : at'[b] = at[b]) /\ (at' = at \/ at'[t].pc = "enter")
        /\ plan' = plan /\ known' = known \cup {t} /\ step[t] = "none"
        /\ step' = [step EXCEPT ![t] = "body"]
    BY <1>1, StartFacts
  <2> QED BY <1>0, <2>1 DEF Maker, RegPCs, Kind
<1>2. ASSUME NEW u \in Users, NEW t \in Tasks, StartCanceled(u, t) PROVE Maker(x)'
  BY <1>2, <1>0 DEF StartCanceled, Making, flags, sources, Maker, RegPCs, Kind
<1>3. ASSUME NEW u \in Users, NEW t \in Tasks, Pend(u, t) PROVE Maker(x)'
  <2>1. /\ \A b \in Actors \ {u} : at'[b] = at[b]
        /\ at'[u].pc = (IF Kind(t) = "any" THEN "scan" ELSE "register") /\ at'[u].task = t
        /\ at'[u].i = 1
        /\ step[t] = "none" /\ t \notin known /\ 1 \in 1..Len(plan[t].of)
        /\ Kind(t) \in {"then", "any"}
    BY <1>3, PendFacts
  <2>2. plan' = plan /\ known' = known /\ step' = [step EXCEPT ![t] = "pending"] /\ plan[t].by = u
    BY <1>3, PendFacts
  <2> QED BY <1>0, <2>1, <2>2 DEF Maker, RegPCs, Kind
<1>4. ASSUME NEW u \in Users, NEW t \in Tasks, Unwrap(u, t) PROVE Maker(x)'
  <2>1. /\ (\A b \in Actors \ {t} : at'[b] = at[b]) /\ (at' = at \/ at'[t].pc = "enter")
        /\ step[t] = "none"
        /\ step' = [step EXCEPT ![t] = "body"]
    BY <1>4, UnwrapFacts
  <2>2. plan' = plan /\ known' = known \cup {t} BY <1>4, UnwrapFacts
  <2> QED BY <1>0, <2>1, <2>2 DEF Maker, RegPCs, Kind
<1>4a. ASSUME NEW u \in Users, NEW t \in Tasks, UnwrapEnded(u, t) PROVE Maker(x)'
  BY <1>4a, <1>0 DEF UnwrapEnded, Making, flags, sources, Maker, RegPCs, Kind
<1>5. ASSUME NEW u \in Users, NEW t \in Tasks, Wait(u, t) PROVE Maker(x)'
  <2>1. (\A b \in Actors \ {u} : at'[b] = at[b]) /\ at'[u].pc = "enter" BY <1>5, WaitFacts
  <2> QED BY <1>0, <2>1, <1>5 DEF Wait, Maker, RegPCs, Kind
<1>6. ASSUME NEW u \in Users, NEW t \in Tasks, NEW how \in Hows, TrySet(u, t, how) PROVE Maker(x)'
  <2>1. (\A b \in Actors \ {u} : at'[b] = at[b]) /\ at'[u].pc = "claim" BY <1>6, TrySetFacts
  <2> QED BY <1>0, <2>1, <1>6 DEF TrySet, Maker, RegPCs, Kind
<1>7. ASSUME NEW u \in Users, Scan(u) PROVE Maker(x)'
  <2> DEFINE c == at[u].task
  <2>1. /\ c \in Tasks /\ step[c] = "pending" /\ c \notin known /\ plan[c].by = u /\ Kind(c) = "any"
        /\ at[u].pc = "scan"
    BY <1>7, MakerFacts, Types DEF Scan, RegPCs
  <2>2. /\ plan' = plan /\ \A b \in Actors \ {u} : at'[b] = at[b]
        /\ \/ at'[u].pc = "idle" /\ step' = [step EXCEPT ![c] = "done"] /\ known' = known \cup {c}
           \/ /\ UNCHANGED <<step, known>> /\ at'[u].pc \in {"scan", "register"} /\ at'[u].task = c
              /\ at'[u].i \in 1..Len(plan[c].of)
    BY <1>7, <1>0, ScanFacts
  <2> HIDE DEF c
  <2> QED BY <1>0, <2>1, <2>2 DEF Maker, RegPCs, Kind
<1>8. ASSUME NEW u \in Users, Register(u) PROVE Maker(x)'
  <2> DEFINE c == at[u].task
  <2>1. /\ c \in Tasks /\ step[c] # "none" /\ at[u].pc = "register" /\ plan[c].by = u
        /\ Kind(c) \in {"then", "any"}
        /\ c \notin known /\ at[u].i \in 1..Len(plan[c].of)
    BY <1>8, MakerFacts, Types DEF Register, RegPCs
  <2>2. /\ plan' = plan /\ \A b \in Actors \ {u} : at'[b] = at[b]
        /\ \/ /\ known' = known /\ step' = step /\ at'[u].pc = "push" /\ at'[u].task = c /\ at'[u].i = at[u].i
           \/ /\ step'[c] \in {"body", "store"} /\ known' = known
              /\ \A t \in Tasks \ {c} : step'[t] = step[t]
              /\ at'[u].pc = "calling" /\ at'[u].task = c /\ at'[u].i = at[u].i
           \/ /\ step' = step /\ known' = known /\ at'[u].pc = "register" /\ at'[u].task = c
              /\ at'[u].i \in 1..Len(plan[c].of)
           \/ step' = step /\ known' = known \cup {c} /\ at'[u].pc = "idle"
    BY <1>8, <1>0, <2>1, RegisterFacts, RegisteredFacts DEF Wakes, RegPCs
  <2>3. \A y \in Actors : at[y].pc \in RegPCs /\ y # u => at[y].task # c BY <2>1, MakerFacts
  <2>4. \A y \in Actors : at[y].pc = "scan" => Kind(at[y].task) = "any" /\ step[at[y].task] = "pending"
    BY MakerFacts DEF RegPCs
  <2> HIDE DEF c
  <2> QED BY <1>0, <2>1, <2>2, <2>3 DEF Maker, RegPCs, Kind
<1>9. ASSUME NEW u \in Users, Push(u) PROVE Maker(x)'
  <2> DEFINE c == at[u].task
  <2>1. /\ c \in Tasks /\ step[c] # "none" /\ at[u].pc = "push" /\ plan[c].by = u
        /\ Kind(c) \in {"then", "any"}
        /\ c \notin known
    BY <1>9, MakerFacts, Types DEF Push, RegPCs
  <2>2. /\ plan' = plan /\ (\A b \in Actors \ {u} : at'[b] = at[b]) /\ step' = step
        /\ \/ /\ known' = known /\ at'[u].pc = "register" /\ at'[u].task = c /\ at'[u].i \in 1..Len(plan[c].of)
           \/ known' = known \cup {c} /\ at'[u].pc = "idle"
    BY <1>9, <1>0, <2>1, RegisteredFacts DEF RegPCs, Push
  <2> HIDE DEF c
  <2> QED BY <1>0, <2>1, <2>2 DEF Maker, RegPCs, Kind
<1>10. ASSUME NEW u \in Users, Returned(u) PROVE Maker(x)'
  <2> DEFINE c == at[u].task
  <2>1. /\ c \in Tasks /\ step[c] # "none" /\ at[u].pc = "calling" /\ plan[c].by = u
        /\ Kind(c) \in {"then", "any"}
        /\ c \notin known
    BY <1>10, MakerFacts, Types DEF Returned, RegPCs
  <2>2. /\ plan' = plan /\ (\A b \in Actors \ {u} : at'[b] = at[b]) /\ step' = step
        /\ \/ /\ known' = known /\ at'[u].pc = "register" /\ at'[u].task = c /\ at'[u].i \in 1..Len(plan[c].of)
           \/ known' = known \cup {c} /\ at'[u].pc = "idle"
    BY <1>10, <1>0, <2>1, RegisteredFacts DEF RegPCs, Returned
  <2> HIDE DEF c
  <2> QED BY <1>0, <2>1, <2>2 DEF Maker, RegPCs, Kind
<1>11. ASSUME NEW u \in Users, WaitReturn(u) PROVE Maker(x)'
  BY <1>11, <1>0, IdleType, Moved DEF WaitReturn, Maker, RegPCs, Kind
<1>12. ASSUME NEW a \in Actors, WaitEnter(a) PROVE Maker(x)'
  <2>1. /\ (\A b \in Actors \ {a} : at'[b] = at[b])
        /\ at'[a].pc \in {"woken", "lock", "sleeping", "parked"}
    BY <1>12, WaitStepFacts
  <2> QED BY <1>0, <2>1, <1>12 DEF WaitEnter, Maker, RegPCs, Kind
<1>13. ASSUME NEW a \in Actors, WaitTest(a) PROVE Maker(x)'
  <2>1. /\ (\A b \in Actors \ {a} : at'[b] = at[b])
        /\ at'[a].pc \in {"woken", "lock", "sleeping", "parked"}
    BY <1>13, WaitStepFacts
  <2> QED BY <1>0, <2>1, <1>13 DEF WaitTest, Maker, RegPCs, Kind
<1>14. ASSUME NEW a \in Actors, WaitSleep(a) PROVE Maker(x)'
  <2>1. /\ (\A b \in Actors \ {a} : at'[b] = at[b])
        /\ at'[a].pc \in {"woken", "lock", "sleeping", "parked"}
    BY <1>14, WaitStepFacts
  <2> QED BY <1>0, <2>1, <1>14 DEF WaitSleep, Maker, RegPCs, Kind
<1>15. ASSUME NEW a \in Actors, Claim(a) PROVE Maker(x)'
  <2>1. (\A b \in Actors \ {a} : at'[b] = at[b]) /\ at'[a].pc \in {"flag", "promise", "idle"}
    BY <1>15, <1>0, SetFacts
  <2> QED BY <1>0, <2>1, <1>15 DEF Claim, Maker, RegPCs, Kind
<1>16. ASSUME NEW a \in Actors, Flag(a) PROVE Maker(x)'
  <2>1. (\A b \in Actors \ {a} : at'[b] = at[b]) /\ at'[a].pc \in {"flag", "promise", "idle"}
    BY <1>16, <1>0, SetFacts
  <2> QED BY <1>0, <2>1, <1>16 DEF Flag, Maker, RegPCs, Kind
<1>17. ASSUME NEW a \in Actors, Promise(a) PROVE Maker(x)'
  BY <1>17, <1>0 DEF Promise, flags, sources, Maker, RegPCs, Kind
<1>18. ASSUME NEW t \in Tasks, Body(t) PROVE Maker(x)'
  BY <1>18, <1>0 DEF Body, flags, sources, Maker, RegPCs, Kind
<1>19. ASSUME NEW t \in Tasks, Bridge(t) PROVE Maker(x)'
  BY <1>19, <1>0 DEF Bridge, flags, sources, Maker, RegPCs, Kind
<1>20. ASSUME NEW t \in Tasks, Store(t) PROVE Maker(x)'
  BY <1>20, <1>0 DEF Store, flags, sources, Maker, RegPCs, Kind
<1>21. ASSUME NEW t \in Tasks, Complete(t) PROVE Maker(x)'
  BY <1>21, <1>0 DEF Complete, flags, sources, Maker, RegPCs, Kind
<1>22. ASSUME NEW t \in Tasks, Swap(t) PROVE Maker(x)'
  BY <1>22, <1>0 DEF Swap, flags, sources, Maker, RegPCs, Kind
<1>23. ASSUME NEW t \in Tasks, Notify(t) PROVE Maker(x)'
  <2>1. at'[x] = at[x] \/ at'[x].pc = "lock" BY <1>23, NotifyFacts
  <2>2. UNCHANGED <<plan, known>> /\ step[t] = "notify" /\ step' = [step EXCEPT ![t] = "run"]
    BY <1>23 DEF Notify
  <2> QED BY <1>0, <2>1, <2>2 DEF Maker, RegPCs, Kind
<1>24. ASSUME NEW t \in Tasks, Run(t) PROVE Maker(x)'
  <2> DEFINE c == Head(toRun[t])
  <2>1. toRun[t] # <<>> => c \in Tasks BY HeadFacts
  <2>2. /\ UNCHANGED <<plan, known, at>> /\ step[t] = "run"
        /\ \/ step' = [step EXCEPT ![t] = "done"]
           \/ /\ toRun[t] # <<>> /\ step[c] = "pending" /\ step'[c] \in {"body", "store"} /\ c # t
              /\ step'[t] = "calling" /\ \A z \in Tasks \ {c, t} : step'[z] = step[z]
           \/ step' = step
    BY <1>24, RunFacts DEF Wakes
  <2>3. toRun[t] # <<>> /\ at[x].pc = "scan" => at[x].task # c
    <3>1. toRun[t] # <<>> => InList(c, t) BY HeadFacts
    <3> QED BY <2>1, <3>1, MakerFacts DEF TaskIInv, Lists, Listed, RegPCs
  <2> HIDE DEF c
  <2> QED BY <1>0, <2>1, <2>2, <2>3 DEF Maker, RegPCs, Kind
<1>25. ASSUME NEW t \in Tasks, CalleeDone(t) PROVE Maker(x)'
  BY <1>25, <1>0 DEF CalleeDone, flags, sources, Maker, RegPCs, Kind
<1>26. ASSUME NEW t \in Tasks, AllHeard(t) PROVE Maker(x)'
  <2>1. /\ UNCHANGED <<plan, known>> /\ (\A b \in Actors \ {t} : at'[b] = at[b])
        /\ at'[t].pc \in {"enter", "idle"}
        /\ (step' = step \/ step' = [step EXCEPT ![t] = "store"]) /\ step[t] = "body"
    BY <1>26, <1>0, AllHeardFacts
  <2> QED BY <1>0, <2>1 DEF Maker, RegPCs, Kind
<1>27. ASSUME NEW t \in Tasks, ProxyHeard(t) PROVE Maker(x)'
  <2>1. (\A b \in Actors \ {t} : at'[b] = at[b]) /\ at'[t].pc \in {"enter", "claim"}
    BY <1>27, ProxyFacts
  <2> QED BY <1>0, <2>1, <1>27 DEF ProxyHeard, Maker, RegPCs, Kind
<1>28. CASE Cancel BY <1>28, <1>0 DEF Cancel, flags, sources, Maker, RegPCs, Kind
<1>29. CASE UNCHANGED vars BY <1>29, <1>0 DEF vars, flags, sources, Maker, RegPCs, Kind
<1> QED
  BY <1>1, <1>2, <1>3, <1>4, <1>5, <1>6, <1>7, <1>8, <1>9, <1>10, <1>11, <1>12, <1>13, <1>14,
     <1>15, <1>16, <1>17, <1>18, <1>19, <1>20, <1>21, <1>22, <1>23, <1>24, <1>25, <1>26, <1>27,
     <1>28, <1>29, <1>4a DEF Next, Call, UserStep, TaskStep, InCall, Actors

\* WhenAny: a task without a winner was not called back yet.
LEMMA WinnersNext == TaskIInv /\ [Next]_vars => (\A x \in Tasks : Winner(x))'
<1> SUFFICES ASSUME TaskIInv, [Next]_vars, NEW x \in Tasks PROVE Winner(x)'
  OBVIOUS
<1>0. /\ step \in [Tasks -> Steps] /\ result \in [Tasks -> Tasks \cup {None}] /\ None \notin Tasks
      /\ Winner(x)
  BY Types DEF TaskIInv, Winners
<1>1. ASSUME NEW u \in Users, NEW t \in Tasks, Start(u, t) PROVE Winner(x)'
  BY <1>1, <1>0 DEF Start, Making, flags, sources, Winner, Kind
<1>2. ASSUME NEW u \in Users, NEW t \in Tasks, StartCanceled(u, t) PROVE Winner(x)'
  BY <1>2, <1>0 DEF StartCanceled, Making, flags, sources, Winner, Kind
<1>3. ASSUME NEW u \in Users, NEW t \in Tasks, Pend(u, t) PROVE Winner(x)'
  BY <1>3, <1>0 DEF Pend, Making, flags, sources, Winner, Kind
<1>4. ASSUME NEW u \in Users, NEW t \in Tasks, Unwrap(u, t) PROVE Winner(x)'
  BY <1>4, <1>0 DEF Unwrap, Making, flags, sources, Winner, Kind
<1>4a. ASSUME NEW u \in Users, NEW t \in Tasks, UnwrapEnded(u, t) PROVE Winner(x)'
  BY <1>4a, <1>0 DEF UnwrapEnded, Making, flags, sources, Winner, Kind
<1>5. ASSUME NEW u \in Users, NEW t \in Tasks, Wait(u, t) PROVE Winner(x)'
  BY <1>5, <1>0 DEF Wait, flags, sources, Winner, Kind
<1>6. ASSUME NEW u \in Users, NEW t \in Tasks, NEW how \in Hows, TrySet(u, t, how) PROVE Winner(x)'
  BY <1>6, <1>0 DEF TrySet, flags, sources, Winner, Kind
<1>7. ASSUME NEW u \in Users, Scan(u) PROVE Winner(x)'
  <2> DEFINE c == at[u].task
             s == Here(u)
  <2>1. c \in Tasks /\ s \in Tasks BY <1>7, MakerFacts, Types DEF Scan, RegPCs
  <2>2. /\ plan' = plan
        /\ \/ result' = [result EXCEPT ![c] = s] /\ step' = [step EXCEPT ![c] = "done"]
           \/ UNCHANGED <<result, step>>
    BY <1>7, ScanFacts
  <2> HIDE DEF c, s
  <2> QED BY <1>0, <2>1, <2>2 DEF Winner, Kind
<1>8. ASSUME NEW u \in Users, Register(u) PROVE Winner(x)'
  <2> DEFINE c == at[u].task
             s == Here(u)
  <2>1. c \in Tasks /\ s \in Tasks /\ Kind(c) \in {"then", "any"}
    BY <1>8, MakerFacts, Types DEF Register, RegPCs
  <2>2. /\ plan' = plan
        /\ \/ Wakes(c, s) /\ \A t \in Tasks \ {c} : step'[t] = step[t]
           \/ UNCHANGED <<result, step>>
    BY <1>8, RegisterFacts
  <2> HIDE DEF c, s
  <2> QED BY <1>0, <2>1, <2>2 DEF Wakes, Winner, Kind
<1>9. ASSUME NEW u \in Users, Push(u) PROVE Winner(x)'
  BY <1>9, <1>0 DEF Push, flags, sources, Winner, Kind
<1>10. ASSUME NEW u \in Users, Returned(u) PROVE Winner(x)'
  BY <1>10, <1>0 DEF Returned, flags, sources, Winner, Kind
<1>11. ASSUME NEW u \in Users, WaitReturn(u) PROVE Winner(x)'
  BY <1>11, <1>0 DEF WaitReturn, flags, sources, Winner, Kind
<1>12. ASSUME NEW a \in Actors, WaitEnter(a) PROVE Winner(x)'
  BY <1>12, <1>0 DEF WaitEnter, flags, sources, Winner, Kind
<1>13. ASSUME NEW a \in Actors, WaitTest(a) PROVE Winner(x)'
  BY <1>13, <1>0 DEF WaitTest, flags, sources, Winner, Kind
<1>14. ASSUME NEW a \in Actors, WaitSleep(a) PROVE Winner(x)'
  BY <1>14, <1>0 DEF WaitSleep, flags, sources, Winner, Kind
<1>15. ASSUME NEW a \in Actors, Claim(a) PROVE Winner(x)'
  BY <1>15, <1>0 DEF Claim, flags, sources, Winner, Kind
<1>16. ASSUME NEW a \in Actors, Flag(a) PROVE Winner(x)'
  BY <1>16, <1>0 DEF Flag, flags, sources, Winner, Kind
<1>17. ASSUME NEW a \in Actors, Promise(a) PROVE Winner(x)'
  BY <1>17, <1>0 DEF Promise, flags, sources, Winner, Kind
<1>18. ASSUME NEW t \in Tasks, Body(t) PROVE Winner(x)'
  BY <1>18, <1>0 DEF Body, flags, sources, Winner, Kind
<1>19. ASSUME NEW t \in Tasks, Bridge(t) PROVE Winner(x)'
  BY <1>19, <1>0 DEF Bridge, flags, sources, Winner, Kind
<1>20. ASSUME NEW t \in Tasks, Store(t) PROVE Winner(x)'
  BY <1>20, <1>0 DEF Store, flags, sources, Winner, Kind
<1>21. ASSUME NEW t \in Tasks, Complete(t) PROVE Winner(x)'
  BY <1>21, <1>0 DEF Complete, flags, sources, Winner, Kind
<1>22. ASSUME NEW t \in Tasks, Swap(t) PROVE Winner(x)'
  BY <1>22, <1>0 DEF Swap, flags, sources, Winner, Kind
<1>23. ASSUME NEW t \in Tasks, Notify(t) PROVE Winner(x)'
  BY <1>23, <1>0 DEF Notify, flags, sources, Winner, Kind
<1>24. ASSUME NEW t \in Tasks, Run(t) PROVE Winner(x)'
  <2> DEFINE c == Head(toRun[t])
  <2>1. toRun[t] # <<>> => c \in Tasks /\ Kind(c) \in {"then", "any"} BY HeadFacts
  <2>2. /\ plan' = plan /\ step[t] = "run"
        /\ \/ step' = [step EXCEPT ![t] = "done"] /\ result' = result
           \/ /\ toRun[t] # <<>> /\ Wakes(c, t) /\ c # t
              /\ step'[t] = "calling" /\ \A z \in Tasks \ {c, t} : step'[z] = step[z]
           \/ UNCHANGED <<step, result>>
    BY <1>24, RunFacts
  <2> HIDE DEF c
  <2>3. CASE toRun[t] # <<>> /\ Wakes(c, t) /\ c # t /\ step'[t] = "calling" /\ \A z \in Tasks \ {c, t} : step'[z] = step[z]
    <3>1. /\ x # c => result'[x] = result[x]
          /\ x = c /\ Kind(c) = "any" => result'[x] # None
      BY <1>0, <2>1, <2>3 DEF Wakes
    <3>2. x \notin {c, t} => step'[x] = step[x] BY <2>3
    <3>3. x = t => step[x] \notin {"none", "pending"} BY <2>2
    <3> QED BY <1>0, <2>2, <3>1, <3>2, <3>3 DEF Winner, Kind
  <2> QED BY <1>0, <2>1, <2>2, <2>3 DEF Winner, Kind
<1>25. ASSUME NEW t \in Tasks, CalleeDone(t) PROVE Winner(x)'
  BY <1>25, <1>0 DEF CalleeDone, flags, sources, Winner, Kind
<1>26. ASSUME NEW t \in Tasks, AllHeard(t) PROVE Winner(x)'
  BY <1>26, <1>0 DEF AllHeard, flags, sources, Winner, Kind
<1>27. ASSUME NEW t \in Tasks, ProxyHeard(t) PROVE Winner(x)'
  BY <1>27, <1>0 DEF ProxyHeard, flags, sources, Winner, Kind
<1>28. CASE Cancel BY <1>28, <1>0 DEF Cancel, flags, sources, Winner, Kind
<1>29. CASE UNCHANGED vars BY <1>29, <1>0 DEF vars, flags, sources, Winner, Kind
<1> QED
  BY <1>1, <1>2, <1>3, <1>4, <1>5, <1>6, <1>7, <1>8, <1>9, <1>10, <1>11, <1>12, <1>13, <1>14,
     <1>15, <1>16, <1>17, <1>18, <1>19, <1>20, <1>21, <1>22, <1>23, <1>24, <1>25, <1>26, <1>27,
     <1>28, <1>29, <1>4a DEF Next, Call, UserStep, TaskStep, InCall, Actors

\* registerContinuation adds to the list of a task only before fireContinuations takes
\* it, and what was taken is called before the task is through.
LEMMA ListNext == TaskIInv /\ [Next]_vars => (\A x \in Tasks : List(x))'
<1> SUFFICES ASSUME TaskIInv, [Next]_vars, NEW x \in Tasks PROVE List(x)'
  OBVIOUS
<1>0. /\ known \subseteq Tasks /\ step \in [Tasks -> Steps]
      /\ continuations \in [Tasks -> Seq(Tasks)]
      /\ toRun \in [Tasks -> Seq(Tasks)] /\ List(x)
  BY Types DEF TaskIInv, Lists
<1>1. ASSUME NEW u \in Users, NEW t \in Tasks, Start(u, t) PROVE List(x)'
  BY <1>1, <1>0 DEF Start, Making, flags, sources, List, Fired, Past
<1>2. ASSUME NEW u \in Users, NEW t \in Tasks, StartCanceled(u, t) PROVE List(x)'
  BY <1>2, <1>0 DEF StartCanceled, Making, flags, sources, List, Fired, Past
<1>3. ASSUME NEW u \in Users, NEW t \in Tasks, Pend(u, t) PROVE List(x)'
  BY <1>3, <1>0 DEF Pend, Making, flags, sources, List, Fired, Past
<1>4. ASSUME NEW u \in Users, NEW t \in Tasks, Unwrap(u, t) PROVE List(x)'
  <2>1. /\ step[t] = "none" /\ known' = known \cup {t}
        /\ step' = [step EXCEPT ![t] = "body"]
    BY <1>4, UnwrapFacts
  <2> QED BY <1>4, <1>0, <2>1 DEF Unwrap, List, Fired, Past
<1>4a. ASSUME NEW u \in Users, NEW t \in Tasks, UnwrapEnded(u, t) PROVE List(x)'
  BY <1>4a, <1>0 DEF UnwrapEnded, Making, flags, sources, List, Fired, Past
<1>5. ASSUME NEW u \in Users, NEW t \in Tasks, Wait(u, t) PROVE List(x)'
  BY <1>5, <1>0 DEF Wait, flags, sources, List, Fired, Past
<1>6. ASSUME NEW u \in Users, NEW t \in Tasks, NEW how \in Hows, TrySet(u, t, how) PROVE List(x)'
  BY <1>6, <1>0 DEF TrySet, flags, sources, List, Fired, Past
<1>7. ASSUME NEW u \in Users, Scan(u) PROVE List(x)'
  <2> DEFINE c == at[u].task
  <2>1. c \in Tasks /\ step[c] = "pending" /\ c \notin known
    BY <1>7, MakerFacts, Types DEF Scan, RegPCs
  <2>2. /\ UNCHANGED <<continuations, toRun>>
        /\ \/ known' = known \cup {c} /\ step' = [step EXCEPT ![c] = "done"]
           \/ UNCHANGED <<known, step>>
    BY <1>7, ScanFacts
  <2> HIDE DEF c
  <2> QED BY <1>0, <2>1, <2>2 DEF List, Fired, Past
<1>8. ASSUME NEW u \in Users, Register(u) PROVE List(x)'
  <2> DEFINE c == at[u].task
  <2>1. c \in Tasks /\ at[u].pc = "register" BY <1>8, MakerFacts, Types DEF Register, RegPCs
  <2>2. /\ UNCHANGED <<continuations, toRun>>
        /\ \/ UNCHANGED <<step>> /\ (known' = known \/ known' = known \cup {c})
           \/ /\ step[c] = "pending" /\ step'[c] \in {"body", "store"} /\ known' = known
              /\ \A t \in Tasks \ {c} : step'[t] = step[t]
    BY <1>8, <2>1, RegisterFacts, RegisteredFacts DEF Wakes, RegPCs
  <2> HIDE DEF c
  <2> QED BY <1>0, <2>1, <2>2 DEF List, Fired, Past
<1>9. ASSUME NEW u \in Users, Push(u) PROVE List(x)'
  <2> DEFINE c == at[u].task
             s == Here(u)
  <2>1. /\ c \in Tasks /\ s \in Tasks /\ s \in known /\ at[u].pc = "push" /\ u \in Actors
    BY <1>9, MakerFacts, Types DEF Push, RegPCs
  <2>2. step[s] \notin Fired BY <2>1 DEF TaskIInv, Held, Holder
  <2>a. UNCHANGED <<step, toRun>> /\ Registered(u)
        /\ continuations' = [continuations EXCEPT ![s] = Append(continuations[s], c)]
    BY <1>9, PushFacts
  <2>b. known' = known \/ known' = known \cup {c} BY <2>1, <2>a, RegisteredFacts DEF RegPCs
  <2>3. /\ UNCHANGED <<step, toRun>>
        /\ continuations' = [continuations EXCEPT ![s] = Append(continuations[s], c)]
        /\ (known' = known \/ known' = known \cup {c})
    BY <2>a, <2>b
  <2> HIDE DEF c, s
  <2>4. \A y \in Tasks : continuations'[y] # <<>> => continuations[y] # <<>> \/ y = s
    BY <1>0, <2>1, <2>3
  <2> QED BY <1>0, <2>1, <2>2, <2>3, <2>4 DEF List, Fired, Past
<1>10. ASSUME NEW u \in Users, Returned(u) PROVE List(x)'
  <2> DEFINE c == at[u].task
  <2>1. at[u].pc = "calling" /\ UNCHANGED <<step, toRun, continuations>> BY <1>10 DEF Returned
  <2>2. known' = known \/ known' = known \cup {c}
    BY <1>10, <2>1, RegisteredFacts DEF Returned, RegPCs
  <2> HIDE DEF c
  <2> QED BY <1>0, <2>1, <2>2 DEF List, Fired, Past
<1>11. ASSUME NEW u \in Users, WaitReturn(u) PROVE List(x)'
  BY <1>11, <1>0 DEF WaitReturn, flags, sources, List, Fired, Past
<1>12. ASSUME NEW a \in Actors, WaitEnter(a) PROVE List(x)'
  BY <1>12, <1>0 DEF WaitEnter, flags, sources, List, Fired, Past
<1>13. ASSUME NEW a \in Actors, WaitTest(a) PROVE List(x)'
  BY <1>13, <1>0 DEF WaitTest, flags, sources, List, Fired, Past
<1>14. ASSUME NEW a \in Actors, WaitSleep(a) PROVE List(x)'
  BY <1>14, <1>0 DEF WaitSleep, flags, sources, List, Fired, Past
<1>15. ASSUME NEW a \in Actors, Claim(a) PROVE List(x)' BY <1>15, <1>0 DEF Claim, List, Fired, Past
<1>16. ASSUME NEW a \in Actors, Flag(a) PROVE List(x)'
  BY <1>16, <1>0 DEF Flag, flags, sources, List, Fired, Past
<1>17. ASSUME NEW a \in Actors, Promise(a) PROVE List(x)'
  BY <1>17, <1>0 DEF Promise, flags, sources, List, Fired, Past
<1>18. ASSUME NEW t \in Tasks, Body(t) PROVE List(x)'
  BY <1>18, <1>0 DEF Body, flags, sources, List, Fired, Past
<1>19. ASSUME NEW t \in Tasks, Bridge(t) PROVE List(x)'
  BY <1>19, <1>0 DEF Bridge, flags, sources, List, Fired, Past
<1>20. ASSUME NEW t \in Tasks, Store(t) PROVE List(x)'
  BY <1>20, <1>0 DEF Store, flags, sources, List, Fired, Past
<1>21. ASSUME NEW t \in Tasks, Complete(t) PROVE List(x)'
  BY <1>21, <1>0 DEF Complete, flags, sources, List, Fired, Past
<1>22. ASSUME NEW t \in Tasks, Swap(t) PROVE List(x)'
  <2>1. /\ known' = known /\ step[t] = "swap" /\ step' = [step EXCEPT ![t] = "notify"]
        /\ continuations' = [continuations EXCEPT ![t] = <<>>]
        /\ toRun' = [toRun EXCEPT ![t] = continuations[t]]
    BY <1>22 DEF Swap
  <2> QED BY <1>0, <2>1 DEF List, Fired, Past
<1>23. ASSUME NEW t \in Tasks, Notify(t) PROVE List(x)'
  BY <1>23, <1>0 DEF Notify, flags, sources, List, Fired, Past
<1>24. ASSUME NEW t \in Tasks, Run(t) PROVE List(x)'
  <2> DEFINE c == Head(toRun[t])
  <2>1. toRun[t] # <<>> => c \in Tasks BY HeadFacts
  <2>2. /\ UNCHANGED <<known, continuations>> /\ step[t] = "run"
        /\ \/ toRun[t] = <<>> /\ step' = [step EXCEPT ![t] = "done"] /\ toRun' = toRun
           \/ /\ toRun[t] # <<>> /\ Wakes(c, t) /\ c # t
              /\ step'[t] = "calling" /\ (\A z \in Tasks \ {c, t} : step'[z] = step[z])
              /\ toRun' = toRun
           \/ /\ toRun[t] # <<>> /\ step' = step /\ toRun' = [toRun EXCEPT ![t] = Tail(toRun[t])]
    BY <1>24, RunFacts
  <2> HIDE DEF c
  <2>3. CASE toRun[t] = <<>> /\ step' = [step EXCEPT ![t] = "done"] /\ toRun' = toRun
    <3>1. continuations[t] = <<>> BY <2>2 DEF TaskIInv, Lists, List, Fired, Past
    <3> QED BY <1>0, <2>2, <2>3, <3>1 DEF List, Fired, Past
  <2> QED BY <1>0, <2>1, <2>2, <2>3 DEF Wakes, List, Fired, Past
<1>25. ASSUME NEW t \in Tasks, CalleeDone(t) PROVE List(x)'
  BY <1>25, <1>0 DEF CalleeDone, flags, sources, List, Fired, Past
<1>26. ASSUME NEW t \in Tasks, AllHeard(t) PROVE List(x)'
  <2>1. /\ UNCHANGED <<known, continuations, toRun>> /\ step[t] = "body"
        /\ (step' = step \/ step' = [step EXCEPT ![t] = "store"])
    BY <1>26, AllHeardFacts
  <2> QED BY <1>0, <2>1 DEF List, Fired, Past
<1>27. ASSUME NEW t \in Tasks, ProxyHeard(t) PROVE List(x)'
  BY <1>27, <1>0 DEF ProxyHeard, flags, sources, List, Fired, Past
<1>28. CASE Cancel BY <1>28, <1>0 DEF Cancel, flags, sources, List, Fired, Past
<1>29. CASE UNCHANGED vars BY <1>29, <1>0 DEF vars, flags, sources, List, Fired, Past
<1> QED
  BY <1>1, <1>2, <1>3, <1>4, <1>5, <1>6, <1>7, <1>8, <1>9, <1>10, <1>11, <1>12, <1>13, <1>14,
     <1>15, <1>16, <1>17, <1>18, <1>19, <1>20, <1>21, <1>22, <1>23, <1>24, <1>25, <1>26, <1>27,
     <1>28, <1>29, <1>4a DEF Next, Call, UserStep, TaskStep, InCall, Actors

\* A callback in a list belongs to a continuation or a WhenAny of that task, which was made
\* and no longer looks for a completed input.
LEMMA ListedNext == TaskIInv /\ [Next]_vars => (\A x \in Tasks, y \in Tasks : Listed(x, y))'
<1> SUFFICES ASSUME TaskIInv, [Next]_vars, NEW x \in Tasks, NEW y \in Tasks PROVE Listed(x, y)'
  OBVIOUS
<1>0. /\ known \subseteq Tasks /\ step \in [Tasks -> Steps]
      /\ continuations \in [Tasks -> Seq(Tasks)]
      /\ toRun \in [Tasks -> Seq(Tasks)] /\ Listed(x, y) /\ at \in [Actors -> AtType]
      /\ Users \subseteq Actors
      /\ Tasks \cap Users = {} /\ Idle.pc = "idle"
  BY Types, IdleType DEF TaskIInv, Lists
<1>1. ASSUME NEW u \in Users, NEW t \in Tasks, Start(u, t) PROVE Listed(x, y)'
  <2>1. (\A b \in Actors \ {t} : at'[b] = at[b]) /\ step[t] = "none" /\ plan' = plan
        /\ step' = [step EXCEPT ![t] = "body"]
    BY <1>1, StartFacts
  <2>2. UNCHANGED <<continuations, toRun>> BY <1>1 DEF Start
  <2> QED BY <1>0, <2>1, <2>2 DEF Listed, InList, Kind, Inputs
<1>2. ASSUME NEW u \in Users, NEW t \in Tasks, StartCanceled(u, t) PROVE Listed(x, y)'
  BY <1>2, <1>0 DEF StartCanceled, Making, flags, sources, Listed, InList, Kind, Inputs
<1>3. ASSUME NEW u \in Users, NEW t \in Tasks, Pend(u, t) PROVE Listed(x, y)'
  <2>1. /\ \A b \in Actors \ {u} : at'[b] = at[b]
        /\ at'[u].task = t /\ step[t] = "none" /\ plan' = plan
        /\ step' = [step EXCEPT ![t] = "pending"]
    BY <1>3, PendFacts
  <2>2. UNCHANGED <<continuations, toRun>> BY <1>3 DEF Pend
  <2> QED BY <1>0, <2>1, <2>2 DEF Listed, InList, Kind, Inputs
<1>4. ASSUME NEW u \in Users, NEW t \in Tasks, Unwrap(u, t) PROVE Listed(x, y)'
  <2>1. /\ \A b \in Actors \ {t} : at'[b] = at[b]
        /\ step[t] = "none" /\ plan' = plan
        /\ step' = [step EXCEPT ![t] = "body"]
    BY <1>4, UnwrapFacts
  <2>2. UNCHANGED <<continuations, toRun>> BY <1>4 DEF Unwrap
  <2> QED BY <1>0, <2>1, <2>2 DEF Listed, InList, Kind, Inputs
<1>4a. ASSUME NEW u \in Users, NEW t \in Tasks, UnwrapEnded(u, t) PROVE Listed(x, y)'
  BY <1>4a, <1>0 DEF UnwrapEnded, Making, flags, sources, Listed, InList, Kind, Inputs
<1>5. ASSUME NEW u \in Users, NEW t \in Tasks, Wait(u, t) PROVE Listed(x, y)'
  <2>1. (\A b \in Actors \ {u} : at'[b] = at[b]) /\ at'[u].pc \in {"enter"} BY <1>5, <1>0, WaitFacts
  <2> QED BY <1>5, <1>0, <2>1 DEF Wait, Listed, InList, Kind, Inputs
<1>6. ASSUME NEW u \in Users, NEW t \in Tasks, NEW how \in Hows, TrySet(u, t, how)
      PROVE Listed(x, y)'
  <2>1. (\A b \in Actors \ {u} : at'[b] = at[b]) /\ at'[u].pc \in {"claim"}
    BY <1>6, <1>0, TrySetFacts
  <2> QED BY <1>6, <1>0, <2>1 DEF TrySet, Listed, InList, Kind, Inputs
<1>7. ASSUME NEW u \in Users, Scan(u) PROVE Listed(x, y)'
  <2> DEFINE c == at[u].task
  <2>1. c \in Tasks /\ at[u].pc = "scan" BY <1>7, MakerFacts, Types DEF Scan, RegPCs
  <2>2. /\ UNCHANGED <<plan, continuations, toRun>> /\ (\A b \in Actors \ {u} : at'[b] = at[b])
        /\ \/ at'[u].pc = "idle" /\ step' = [step EXCEPT ![c] = "done"]
           \/ step' = step /\ at'[u].task = c
    BY <1>7, <1>0, ScanFacts
  <2>3. \A v \in Users : at'[v].pc = "scan" => at[v].pc = "scan" /\ at'[v].task = at[v].task
    BY <1>0, <2>1, <2>2
  <2> HIDE DEF c
  <2>4. step[x] # "none" => step'[x] # "none" BY <1>0, <2>1, <2>2
  <2> QED BY <1>0, <2>1, <2>2, <2>3, <2>4 DEF Listed, InList, Kind, Inputs
<1>8. ASSUME NEW u \in Users, Register(u) PROVE Listed(x, y)'
  <2> DEFINE c == at[u].task
  <2>1. c \in Tasks /\ at[u].pc = "register" BY <1>8, MakerFacts, Types DEF Register, RegPCs
  <2>2. /\ UNCHANGED <<plan, continuations, toRun>> /\ (\A b \in Actors \ {u} : at'[b] = at[b])
        /\ at'[u].pc \in {"push", "calling", "register", "idle"}
        /\ \/ step' = step
           \/ step'[c] \in {"body", "store"} /\ \A t \in Tasks \ {c} : step'[t] = step[t]
    BY <1>8, <1>0, <2>1, RegisterFacts, RegisteredFacts DEF Wakes, RegPCs
  <2> HIDE DEF c
  <2> QED BY <1>0, <2>1, <2>2 DEF Listed, InList, Kind, Inputs
<1>9. ASSUME NEW u \in Users, Push(u) PROVE Listed(x, y)'
  <2> DEFINE c == at[u].task
             s == Here(u)
  <2>1. /\ c \in Tasks /\ s \in Tasks /\ s \in Inputs(c) /\ at[u].pc = "push" /\ u \in Actors
        /\ Kind(c) \in {"then", "any"} /\ step[c] # "none" /\ plan[c].by = u
    BY <1>9, MakerFacts, Types DEF Push, RegPCs
  <2>2. /\ UNCHANGED <<plan, step, toRun>>
        /\ continuations' = [continuations EXCEPT ![s] = Append(continuations[s], c)]
        /\ Registered(u)
    BY <1>9, PushFacts
  <2>3. (\A b \in Actors \ {u} : at'[b] = at[b]) /\ at'[u].pc \in {"register", "idle"}
    BY <1>0, <2>1, <2>2, RegisteredFacts DEF RegPCs
  <2>4. \A v \in Users : at'[v].pc = "scan" => at'[v].task # c
    <3>1. \A v \in Users : at[v].pc = "scan" /\ v # u => at[v].task # c
      BY <1>0, <2>1, MakerFacts DEF RegPCs
    <3> QED BY <1>0, <2>3, <3>1
  <2> HIDE DEF c, s
  <2>5. InList(x, y)' => InList(x, y) \/ (x = c /\ y = s) BY <1>0, <2>1, <2>2, AddedFacts
  <2>6. (Kind(x) \in {"then", "any"} /\ y \in Inputs(x)) <=> (Kind(x) \in {"then", "any"} /\ y \in Inputs(x))'
    BY <2>2 DEF Kind, Inputs
  <2>7. \A v \in Users : at'[v].pc = "scan" => at[v].pc = "scan" /\ at'[v].task = at[v].task
    BY <1>0, <2>3
  <2> QED BY <1>0, <2>1, <2>2, <2>4, <2>5, <2>6, <2>7 DEF Listed
<1>10. ASSUME NEW u \in Users, Returned(u) PROVE Listed(x, y)'
  <2>1. at[u].pc = "calling" /\ Registered(u) /\ UNCHANGED <<plan, step, continuations, toRun>>
    BY <1>10 DEF Returned
  <2>2. (\A b \in Actors \ {u} : at'[b] = at[b]) /\ at'[u].pc \in {"register", "idle"}
    BY <1>0, <2>1, RegisteredFacts DEF RegPCs
  <2> QED BY <1>0, <2>1, <2>2 DEF Listed, InList, Kind, Inputs
<1>11. ASSUME NEW u \in Users, WaitReturn(u) PROVE Listed(x, y)'
  <2>1. at' = [at EXCEPT ![u] = Idle] /\ UNCHANGED <<plan, step, continuations, toRun>>
    BY <1>11 DEF WaitReturn
  <2> QED BY <1>0, <2>1 DEF Listed, InList, Kind, Inputs
<1>12. ASSUME NEW a \in Actors, WaitEnter(a) PROVE Listed(x, y)'
  <2>1. /\ (\A b \in Actors \ {a} : at'[b] = at[b])
        /\ at'[a].pc \in {"woken", "lock", "sleeping", "parked"}
    BY <1>12, <1>0, WaitStepFacts
  <2> QED BY <1>12, <1>0, <2>1 DEF WaitEnter, Listed, InList, Kind, Inputs
<1>13. ASSUME NEW a \in Actors, WaitTest(a) PROVE Listed(x, y)'
  <2>1. /\ (\A b \in Actors \ {a} : at'[b] = at[b])
        /\ at'[a].pc \in {"woken", "lock", "sleeping", "parked"}
    BY <1>13, <1>0, WaitStepFacts
  <2> QED BY <1>13, <1>0, <2>1 DEF WaitTest, Listed, InList, Kind, Inputs
<1>14. ASSUME NEW a \in Actors, WaitSleep(a) PROVE Listed(x, y)'
  <2>1. /\ (\A b \in Actors \ {a} : at'[b] = at[b])
        /\ at'[a].pc \in {"woken", "lock", "sleeping", "parked"}
    BY <1>14, <1>0, WaitStepFacts
  <2> QED BY <1>14, <1>0, <2>1 DEF WaitSleep, Listed, InList, Kind, Inputs
<1>15. ASSUME NEW a \in Actors, Claim(a) PROVE Listed(x, y)'
  <2>1. (\A b \in Actors \ {a} : at'[b] = at[b]) /\ at'[a].pc \in {"flag", "promise", "idle"}
    BY <1>15, <1>0, SetFacts
  <2> QED BY <1>15, <1>0, <2>1 DEF Claim, Listed, InList, Kind, Inputs
<1>16. ASSUME NEW a \in Actors, Flag(a) PROVE Listed(x, y)'
  <2>1. (\A b \in Actors \ {a} : at'[b] = at[b]) /\ at'[a].pc \in {"flag", "promise", "idle"}
    BY <1>16, <1>0, SetFacts
  <2> QED BY <1>16, <1>0, <2>1 DEF Flag, Listed, InList, Kind, Inputs
<1>17. ASSUME NEW a \in Actors, Promise(a) PROVE Listed(x, y)'
  <2>1. (\A b \in Actors \ {a} : at'[b] = at[b]) /\ at'[a].pc \in {"flag", "promise", "idle"}
    BY <1>17, <1>0, SetFacts
  <2> QED BY <1>17, <1>0, <2>1 DEF Promise, Listed, InList, Kind, Inputs
<1>18. ASSUME NEW t \in Tasks, Body(t) PROVE Listed(x, y)'
  BY <1>18, <1>0 DEF Body, flags, sources, Listed, InList, Kind, Inputs
<1>19. ASSUME NEW t \in Tasks, Bridge(t) PROVE Listed(x, y)'
  BY <1>19, <1>0 DEF Bridge, flags, sources, Listed, InList, Kind, Inputs
<1>20. ASSUME NEW t \in Tasks, Store(t) PROVE Listed(x, y)'
  BY <1>20, <1>0 DEF Store, flags, sources, Listed, InList, Kind, Inputs
<1>21. ASSUME NEW t \in Tasks, Complete(t) PROVE Listed(x, y)'
  BY <1>21, <1>0 DEF Complete, flags, sources, Listed, InList, Kind, Inputs
<1>22. ASSUME NEW t \in Tasks, Swap(t) PROVE Listed(x, y)'
  <2>1. /\ UNCHANGED <<plan, at>> /\ step[t] = "swap" /\ step' = [step EXCEPT ![t] = "notify"]
        /\ continuations' = [continuations EXCEPT ![t] = <<>>]
        /\ toRun' = [toRun EXCEPT ![t] = continuations[t]]
    BY <1>22 DEF Swap
  <2>2. InList(x, y)' => InList(x, y) BY <1>0, <2>1 DEF InList
  <2> QED BY <1>0, <2>1, <2>2 DEF Listed, Kind, Inputs
<1>23. ASSUME NEW t \in Tasks, Notify(t) PROVE Listed(x, y)'
  <2>1. \A a \in Actors : at'[a] = at[a] \/ at'[a].pc = "lock" BY <1>23, NotifyFacts
  <2>2. /\ UNCHANGED <<plan, continuations, toRun>> /\ step[t] = "notify"
        /\ step' = [step EXCEPT ![t] = "run"]
    BY <1>23 DEF Notify
  <2> QED BY <1>0, <2>1, <2>2 DEF Listed, InList, Kind, Inputs
<1>24. ASSUME NEW t \in Tasks, Run(t) PROVE Listed(x, y)'
  <2> DEFINE c == Head(toRun[t])
  <2>1. toRun[t] # <<>> =>
          /\ c \in Tasks /\ Tail(toRun[t]) \in Seq(Tasks)
          /\ \A k \in 1..Len(Tail(toRun[t])) : k + 1 \in 1..Len(toRun[t]) /\ Tail(toRun[t])[k] = toRun[t][k + 1]
    BY HeadFacts
  <2>2. /\ UNCHANGED <<plan, at, continuations>> /\ step[t] = "run"
        /\ \/ toRun[t] = <<>> /\ step' = [step EXCEPT ![t] = "done"] /\ toRun' = toRun
           \/ /\ toRun[t] # <<>> /\ Wakes(c, t) /\ c # t
              /\ step'[t] = "calling" /\ (\A z \in Tasks \ {c, t} : step'[z] = step[z])
              /\ toRun' = toRun
           \/ /\ toRun[t] # <<>> /\ step' = step /\ toRun' = [toRun EXCEPT ![t] = Tail(toRun[t])]
    BY <1>24, RunFacts
  <2>3. InList(x, y)' => InList(x, y)
    <3>1. CASE toRun' = toRun BY <2>2, <3>1 DEF InList
    <3>2. CASE toRun[t] # <<>> /\ toRun' = [toRun EXCEPT ![t] = Tail(toRun[t])]
      BY <2>2, <3>2, DroppedFacts
    <3> QED BY <2>2, <3>1, <3>2
  <2> HIDE DEF c
  <2>4. step[x] # "none" => step'[x] # "none" BY <1>0, <2>1, <2>2 DEF Wakes
  <2> QED BY <1>0, <2>2, <2>3, <2>4 DEF Listed, Kind, Inputs
<1>25. ASSUME NEW t \in Tasks, CalleeDone(t) PROVE Listed(x, y)'
  <2>1. /\ UNCHANGED <<plan, at, continuations>> /\ step[t] = "calling"
        /\ step' = [step EXCEPT ![t] = "run"]
        /\ toRun[t] # <<>> /\ toRun' = [toRun EXCEPT ![t] = Tail(toRun[t])]
    BY <1>25, CalleeFacts
  <2>2. InList(x, y)' => InList(x, y) BY <2>1, DroppedFacts
  <2> QED BY <1>0, <2>1, <2>2 DEF Listed, Kind, Inputs
<1>26. ASSUME NEW t \in Tasks, AllHeard(t) PROVE Listed(x, y)'
  <2>1. /\ UNCHANGED <<plan, continuations, toRun>> /\ step[t] = "body"
        /\ (\A b \in Actors \ {t} : at'[b] = at[b])
        /\ (step' = step \/ step' = [step EXCEPT ![t] = "store"])
    BY <1>26, AllHeardFacts
  <2> QED BY <1>0, <2>1 DEF Listed, InList, Kind, Inputs
<1>27. ASSUME NEW t \in Tasks, ProxyHeard(t) PROVE Listed(x, y)'
  <2>1. \A b \in Actors \ {t} : at'[b] = at[b] BY <1>27, ProxyFacts
  <2> QED BY <1>27, <1>0, <2>1 DEF ProxyHeard, Listed, InList, Kind, Inputs
<1>28. CASE Cancel BY <1>28, <1>0 DEF Cancel, flags, sources, Listed, InList, Kind, Inputs
<1>29. CASE UNCHANGED vars BY <1>29, <1>0 DEF vars, flags, sources, Listed, InList, Kind, Inputs
<1> QED
  BY <1>1, <1>2, <1>3, <1>4, <1>5, <1>6, <1>7, <1>8, <1>9, <1>10, <1>11, <1>12, <1>13, <1>14,
     <1>15, <1>16, <1>17, <1>18, <1>19, <1>20, <1>21, <1>22, <1>23, <1>24, <1>25, <1>26, <1>27,
     <1>28, <1>29, <1>4a DEF Next, Call, UserStep, TaskStep, InCall, Actors

\* The callback of a continuation stands in one place of a list, and until it is called the
\* continuation is pending: a continuation is called at most once.
LEMMA TicketNext == TaskIInv /\ [Next]_vars => (\A x \in Tasks, y \in Tasks : Ticket(x, y))'
<1> SUFFICES ASSUME TaskIInv, [Next]_vars, NEW x \in Tasks, NEW y \in Tasks PROVE Ticket(x, y)'
  OBVIOUS
<1>0. /\ known \subseteq Tasks /\ step \in [Tasks -> Steps]
      /\ continuations \in [Tasks -> Seq(Tasks)]
      /\ toRun \in [Tasks -> Seq(Tasks)] /\ Ticket(x, y) /\ at \in [Actors -> AtType]
      /\ Users \subseteq Actors
      /\ Tasks \cap Users = {} /\ Idle.pc = "idle" /\ Listed(x, y)
  BY Types, IdleType DEF TaskIInv, Tickets, Lists
<1>1. ASSUME NEW u \in Users, NEW t \in Tasks, Start(u, t) PROVE Ticket(x, y)'
  <2>1. (\A b \in Actors \ {t} : at'[b] = at[b]) /\ step[t] = "none" /\ plan' = plan
        /\ step' = [step EXCEPT ![t] = "body"]
    BY <1>1, StartFacts
  <2>2. UNCHANGED <<continuations, toRun>> BY <1>1 DEF Start
  <2> QED BY <1>0, <2>1, <2>2 DEF Ticket, Due, InList, Kind
<1>2. ASSUME NEW u \in Users, NEW t \in Tasks, StartCanceled(u, t) PROVE Ticket(x, y)'
  BY <1>2, <1>0 DEF StartCanceled, Making, flags, sources, Ticket, Due, InList, Kind
<1>3. ASSUME NEW u \in Users, NEW t \in Tasks, Pend(u, t) PROVE Ticket(x, y)'
  <2>1. /\ \A b \in Actors \ {u} : at'[b] = at[b]
        /\ at'[u].task = t /\ step[t] = "none" /\ plan' = plan
        /\ step' = [step EXCEPT ![t] = "pending"]
    BY <1>3, PendFacts
  <2>2. UNCHANGED <<continuations, toRun>> BY <1>3 DEF Pend
  <2>3. InList(t, y) => x # t BY <1>0, <2>1 DEF Listed
  <2>4. step[y] = "calling" => step'[y] = "calling" BY <1>0, <2>1
  <2> QED BY <1>0, <2>1, <2>2, <2>3, <2>4 DEF Ticket, Due, InList, Kind
<1>4. ASSUME NEW u \in Users, NEW t \in Tasks, Unwrap(u, t) PROVE Ticket(x, y)'
  <2>1. /\ \A b \in Actors \ {t} : at'[b] = at[b]
        /\ step[t] = "none" /\ plan' = plan
        /\ step' = [step EXCEPT ![t] = "body"]
    BY <1>4, UnwrapFacts
  <2>2. UNCHANGED <<continuations, toRun>> BY <1>4 DEF Unwrap
  <2> QED BY <1>0, <2>1, <2>2 DEF Ticket, Due, InList, Kind
<1>4a. ASSUME NEW u \in Users, NEW t \in Tasks, UnwrapEnded(u, t) PROVE Ticket(x, y)'
  BY <1>4a, <1>0 DEF UnwrapEnded, Making, flags, sources, Ticket, Due, InList, Kind
<1>5. ASSUME NEW u \in Users, NEW t \in Tasks, Wait(u, t) PROVE Ticket(x, y)'
  <2>1. (\A b \in Actors \ {u} : at'[b] = at[b]) /\ at'[u].pc \in {"enter"} BY <1>5, <1>0, WaitFacts
  <2> QED BY <1>5, <1>0, <2>1 DEF Wait, Ticket, Due, InList, Kind
<1>6. ASSUME NEW u \in Users, NEW t \in Tasks, NEW how \in Hows, TrySet(u, t, how)
      PROVE Ticket(x, y)'
  <2>1. (\A b \in Actors \ {u} : at'[b] = at[b]) /\ at'[u].pc \in {"claim"}
    BY <1>6, <1>0, TrySetFacts
  <2> QED BY <1>6, <1>0, <2>1 DEF TrySet, Ticket, Due, InList, Kind
<1>7. ASSUME NEW u \in Users, Scan(u) PROVE Ticket(x, y)'
  <2> DEFINE c == at[u].task
  <2>1. c \in Tasks /\ at[u].pc = "scan" /\ step[c] = "pending" /\ Kind(c) = "any"
    BY <1>7, MakerFacts, Types DEF Scan, RegPCs
  <2>2. /\ UNCHANGED <<plan, continuations, toRun>> /\ (\A b \in Actors \ {u} : at'[b] = at[b])
        /\ \/ at'[u].pc = "idle" /\ step' = [step EXCEPT ![c] = "done"]
           \/ step' = step /\ at'[u].task = c
    BY <1>7, <1>0, ScanFacts
  <2> HIDE DEF c
  <2>3. Kind(x) = "then" => x # c BY <2>1
  <2>4. step'[y] = "calling" <=> step[y] = "calling" BY <1>0, <2>1, <2>2
  <2>5. x # c => step'[x] = step[x] BY <1>0, <2>1, <2>2
  <2>6. x # c => \A v \in Users : at'[v].pc \in {"register", "push"} /\ at'[v].task = x => at'[v] = at[v]
    BY <1>0, <2>2
  <2> QED BY <1>0, <2>2, <2>3, <2>4, <2>5, <2>6 DEF Ticket, Due, InList, Kind
<1>8. ASSUME NEW u \in Users, Register(u) PROVE Ticket(x, y)'
  <2> DEFINE c == at[u].task
  <2>1. c \in Tasks /\ at[u].pc = "register" BY <1>8, MakerFacts, Types DEF Register, RegPCs
  <2>2. /\ UNCHANGED <<plan, continuations, toRun>> /\ (\A b \in Actors \ {u} : at'[b] = at[b])
        /\ (at'[u].pc \in {"push", "calling", "register"} /\ at'[u].task = c) \/ at'[u].pc = "idle"
        /\ \/ step' = step
           \/ /\ step[c] = "pending" /\ step'[c] \in {"body", "store"}
              /\ \A t \in Tasks \ {c} : step'[t] = step[t]
    BY <1>8, <1>0, <2>1, RegisterFacts, RegisteredFacts DEF Wakes, RegPCs
  <2>3. Kind(x) = "then" /\ x = c => ~InList(x, y) BY <1>0, <2>1 DEF Ticket
  <2> HIDE DEF c
  <2>4. step'[y] = "calling" <=> step[y] = "calling" BY <1>0, <2>1, <2>2
  <2>5. x # c => step'[x] = step[x] BY <1>0, <2>1, <2>2
  <2>6. x # c => \A v \in Users : at'[v].pc \in {"register", "push"} /\ at'[v].task = x => at'[v] = at[v]
    BY <1>0, <2>2
  <2> QED BY <1>0, <2>2, <2>3, <2>4, <2>5, <2>6 DEF Ticket, Due, InList, Kind
<1>9. ASSUME NEW u \in Users, Push(u) PROVE Ticket(x, y)'
  <2> DEFINE c == at[u].task
             s == Here(u)
  <2>1. /\ c \in Tasks /\ s \in Tasks /\ s \in Inputs(c) /\ at[u].pc = "push" /\ u \in Actors
        /\ plan[c].by = u /\ (Kind(c) = "then" => step[c] = "pending")
    BY <1>9, MakerFacts, Types DEF Push, RegPCs
  <2>2. /\ UNCHANGED <<plan, step, toRun>>
        /\ continuations' = [continuations EXCEPT ![s] = Append(continuations[s], c)]
        /\ Registered(u)
    BY <1>9, PushFacts
  <2>3. /\ (\A b \in Actors \ {u} : at'[b] = at[b])
        /\ ((at'[u].pc = "register" /\ at'[u].task = c /\ Kind(c) = "any") \/ at'[u].pc = "idle")
    BY <1>0, <2>1, <2>2, RegisteredFacts DEF RegPCs
  <2>4. \A v \in Users : v # u /\ at[v].pc \in {"register", "push"} => at[v].task # c
    BY <1>0, <2>1, MakerFacts DEF RegPCs
  <2>5. Kind(x) = "then" /\ x = c => ~InList(x, y) BY <1>0, <2>1 DEF Ticket
  <2> HIDE DEF c, s
  <2> SUFFICES ASSUME Kind(x) = "then" PROVE Ticket(x, y)' BY <2>2 DEF Ticket, Kind
  <2>9. Once(continuations'[y], x)
    <3>1. Once(continuations[y], x) BY <1>0 DEF Ticket
    <3>2. x = c => ~InList(x, y) BY <2>5
    <3> QED BY <2>1, <2>2, <3>1, <3>2, AddedFacts
  <2>10. Once(toRun'[y], x) BY <1>0, <2>2 DEF Ticket
  <2>11. Due(x, y)' => step'[x] = "pending"
    <3>1. Due(x, y)' => Due(x, y) \/ x = c BY <2>1, <2>2, AddedFacts
    <3> QED BY <1>0, <2>1, <2>2, <3>1 DEF Ticket
  <2>12. InList(x, y)' => InList(x, y) \/ (x = c /\ y = s) BY <2>1, <2>2, AddedFacts
  <2>13. InList(x, y)' => \A v \in Users : at'[v].pc \in {"register", "push"} => at'[v].task # x
    BY <1>0, <2>1, <2>3, <2>4, <2>12 DEF Ticket
  <2> QED BY <2>9, <2>10, <2>11, <2>13 DEF Ticket
<1>10. ASSUME NEW u \in Users, Returned(u) PROVE Ticket(x, y)'
  <2>1. at[u].pc = "calling" /\ Registered(u) /\ UNCHANGED <<plan, step, continuations, toRun>>
    BY <1>10 DEF Returned
  <2>2. /\ (\A b \in Actors \ {u} : at'[b] = at[b])
        /\ ((at'[u].pc = "register" /\ at'[u].task = at[u].task /\ Kind(at[u].task) = "any") \/ at'[u].pc = "idle")
    BY <1>0, <2>1, RegisteredFacts DEF RegPCs
  <2>3. Kind(x) = "then" => \A v \in Users : at'[v].pc \in {"register", "push"} /\ at'[v].task = x => at'[v] = at[v]
    BY <1>0, <2>2
  <2> QED BY <1>0, <2>1, <2>3 DEF Ticket, Due, InList, Kind
<1>11. ASSUME NEW u \in Users, WaitReturn(u) PROVE Ticket(x, y)'
  <2>1. at' = [at EXCEPT ![u] = Idle] /\ UNCHANGED <<plan, step, continuations, toRun>>
    BY <1>11 DEF WaitReturn
  <2> QED BY <1>0, <2>1 DEF Ticket, Due, InList, Kind
<1>12. ASSUME NEW a \in Actors, WaitEnter(a) PROVE Ticket(x, y)'
  <2>1. /\ (\A b \in Actors \ {a} : at'[b] = at[b])
        /\ at'[a].pc \in {"woken", "lock", "sleeping", "parked"}
    BY <1>12, <1>0, WaitStepFacts
  <2> QED BY <1>12, <1>0, <2>1 DEF WaitEnter, Ticket, Due, InList, Kind
<1>13. ASSUME NEW a \in Actors, WaitTest(a) PROVE Ticket(x, y)'
  <2>1. /\ (\A b \in Actors \ {a} : at'[b] = at[b])
        /\ at'[a].pc \in {"woken", "lock", "sleeping", "parked"}
    BY <1>13, <1>0, WaitStepFacts
  <2> QED BY <1>13, <1>0, <2>1 DEF WaitTest, Ticket, Due, InList, Kind
<1>14. ASSUME NEW a \in Actors, WaitSleep(a) PROVE Ticket(x, y)'
  <2>1. /\ (\A b \in Actors \ {a} : at'[b] = at[b])
        /\ at'[a].pc \in {"woken", "lock", "sleeping", "parked"}
    BY <1>14, <1>0, WaitStepFacts
  <2> QED BY <1>14, <1>0, <2>1 DEF WaitSleep, Ticket, Due, InList, Kind
<1>15. ASSUME NEW a \in Actors, Claim(a) PROVE Ticket(x, y)'
  <2>1. (\A b \in Actors \ {a} : at'[b] = at[b]) /\ at'[a].pc \in {"flag", "promise", "idle"}
    BY <1>15, <1>0, SetFacts
  <2> QED BY <1>15, <1>0, <2>1 DEF Claim, Ticket, Due, InList, Kind
<1>16. ASSUME NEW a \in Actors, Flag(a) PROVE Ticket(x, y)'
  <2>1. (\A b \in Actors \ {a} : at'[b] = at[b]) /\ at'[a].pc \in {"flag", "promise", "idle"}
    BY <1>16, <1>0, SetFacts
  <2> QED BY <1>16, <1>0, <2>1 DEF Flag, Ticket, Due, InList, Kind
<1>17. ASSUME NEW a \in Actors, Promise(a) PROVE Ticket(x, y)'
  <2>1. (\A b \in Actors \ {a} : at'[b] = at[b]) /\ at'[a].pc \in {"flag", "promise", "idle"}
    BY <1>17, <1>0, SetFacts
  <2> QED BY <1>17, <1>0, <2>1 DEF Promise, Ticket, Due, InList, Kind
<1>18. ASSUME NEW t \in Tasks, Body(t) PROVE Ticket(x, y)'
  BY <1>18, <1>0 DEF Body, flags, sources, Ticket, Due, InList, Kind
<1>19. ASSUME NEW t \in Tasks, Bridge(t) PROVE Ticket(x, y)'
  BY <1>19, <1>0 DEF Bridge, flags, sources, Ticket, Due, InList, Kind
<1>20. ASSUME NEW t \in Tasks, Store(t) PROVE Ticket(x, y)'
  BY <1>20, <1>0 DEF Store, flags, sources, Ticket, Due, InList, Kind
<1>21. ASSUME NEW t \in Tasks, Complete(t) PROVE Ticket(x, y)'
  BY <1>21, <1>0 DEF Complete, flags, sources, Ticket, Due, InList, Kind
<1>22. ASSUME NEW t \in Tasks, Swap(t) PROVE Ticket(x, y)'
  <2>1. /\ UNCHANGED <<plan, at>> /\ step[t] = "swap" /\ step' = [step EXCEPT ![t] = "notify"]
        /\ continuations' = [continuations EXCEPT ![t] = <<>>]
        /\ toRun' = [toRun EXCEPT ![t] = continuations[t]]
    BY <1>22 DEF Swap
  <2>2. CASE y = t
    <3>1. toRun'[y] = continuations[y] /\ continuations'[y] = <<>> BY <1>0, <2>1, <2>2
    <3>2. InList(x, y)' => InList(x, y) BY <3>1 DEF InList
    <3>3. Due(x, y)' => Due(x, y) BY <3>1 DEF Due
    <3>4. step[x] = "pending" => step'[x] = "pending" BY <1>0, <2>1
    <3>5. Once(<<>>, x) BY DEF Once
    <3>6. Kind(x) = "then" => Once(toRun'[y], x) /\ Once(continuations'[y], x)
      BY <1>0, <3>1, <3>5 DEF Ticket
    <3> QED BY <1>0, <2>1, <3>2, <3>3, <3>4, <3>6 DEF Ticket, Kind
  <2>3. CASE y # t
    <3>1. toRun'[y] = toRun[y] /\ continuations'[y] = continuations[y] /\ step'[y] = step[y]
      BY <1>0, <2>1, <2>3
    <3>2. step[x] = "pending" => step'[x] = "pending" BY <1>0, <2>1
    <3> QED BY <1>0, <2>1, <3>1, <3>2 DEF Ticket, Due, InList, Kind
  <2> QED BY <2>2, <2>3
<1>23. ASSUME NEW t \in Tasks, Notify(t) PROVE Ticket(x, y)'
  <2>1. \A a \in Actors : at'[a] = at[a] \/ at'[a].pc = "lock" BY <1>23, NotifyFacts
  <2>2. /\ UNCHANGED <<plan, continuations, toRun>> /\ step[t] = "notify"
        /\ step' = [step EXCEPT ![t] = "run"]
    BY <1>23 DEF Notify
  <2> QED BY <1>0, <2>1, <2>2 DEF Ticket, Due, InList, Kind
<1>24. ASSUME NEW t \in Tasks, Run(t) PROVE Ticket(x, y)'
  <2>0. PICK c : c = Head(toRun[t]) OBVIOUS
  <2>1. toRun[t] # <<>> => c \in Tasks /\ c = toRun[t][1] /\ 1 \in 1..Len(toRun[t]) /\ t \in Inputs(c) /\ InList(c, t)
    BY <2>0, HeadFacts
  <2>2. /\ UNCHANGED <<plan, at, continuations>> /\ step[t] = "run"
        /\ \/ toRun[t] = <<>> /\ step' = [step EXCEPT ![t] = "done"] /\ toRun' = toRun
           \/ /\ toRun[t] # <<>> /\ Wakes(c, t) /\ c # t
              /\ step'[t] = "calling" /\ (\A z \in Tasks \ {c, t} : step'[z] = step[z])
              /\ toRun' = toRun
           \/ /\ toRun[t] # <<>> /\ step' = step /\ toRun' = [toRun EXCEPT ![t] = Tail(toRun[t])]
    BY <1>24, <2>0, RunFacts
  <2>3. CASE toRun[t] = <<>> /\ step' = [step EXCEPT ![t] = "done"] /\ toRun' = toRun
    BY <1>0, <2>2, <2>3 DEF Ticket, Due, InList, Kind
  <2>4. CASE /\ toRun[t] # <<>> /\ Wakes(c, t) /\ c # t
             /\ step'[t] = "calling" /\ (\A z \in Tasks \ {c, t} : step'[z] = step[z])
             /\ toRun' = toRun
    <3>0. step[y] = "calling" => step'[y] = "calling" BY <2>2, <2>4 DEF Wakes
    <3>1. Due(x, y)' => Due(x, y) BY <2>2, <2>4, <3>0 DEF Due
    <3>2. x # c /\ Kind(x) = "then" /\ Due(x, y) => step'[x] = "pending"
      BY <1>0, <2>2, <2>4 DEF Ticket
    <3>3. Kind(c) = "then" => ~Due(c, y)'
      <4> SUFFICES ASSUME Kind(c) = "then", Due(c, y)' PROVE FALSE OBVIOUS
      <4>1. InList(c, y) BY <2>2, <2>4 DEF Due, InList
      <4>2. y \in Inputs(c) BY <2>1, <2>4, <4>1 DEF TaskIInv, Lists, Listed
      <4>3. y = t
        <5>1. Len(plan[c].of) = 1 /\ \A z \in Inputs(c) : \E i \in 1..Len(plan[c].of) : z = plan[c].of[i]
          BY <2>1, <2>4, PlanFacts, Types
        <5> QED BY <2>1, <2>4, <4>2, <5>1
      <4>4. continuations[t] = <<>> BY <2>2 DEF TaskIInv, Lists, List, Fired
      <4>5. \A k \in 1..Len(toRun[t]) : toRun[t][k] = c => k = 1
        BY <2>1, <2>4 DEF TaskIInv, Tickets, Ticket, Once
      <4>6. ~ \E k \in 1..Len(continuations'[y]) : continuations'[y][k] = c BY <2>2, <4>3, <4>4
      <4>7. ~ \E k \in 1..Len(toRun'[y]) : toRun'[y][k] = c /\ ~(k = 1 /\ step'[y] = "calling")
        BY <2>4, <4>3, <4>5
      <4> QED BY <4>6, <4>7 DEF Due
    <3>4. InList(x, y)' => InList(x, y) BY <2>2, <2>4 DEF InList
    <3>5. Kind(x) = "then" => (Due(x, y)' => step'[x] = "pending") BY <3>1, <3>2, <3>3
    <3> QED BY <1>0, <2>2, <2>4, <3>4, <3>5 DEF Ticket, Kind
  <2>5. CASE toRun[t] # <<>> /\ step' = step /\ toRun' = [toRun EXCEPT ![t] = Tail(toRun[t])]
    <3>1. /\ y # t => toRun'[y] = toRun[y]
          /\ y = t => \A k \in 1..Len(toRun'[y]) : /\ k + 1 \in 1..Len(toRun[y]) /\ k \in Nat
                                                   /\ toRun'[y][k] = toRun[y][k + 1]
          /\ InList(x, y)' => InList(x, y)
          /\ Once(toRun[y], x) => Once(toRun'[y], x)
      BY <2>2, <2>5, DroppedFacts
    <3>2. Due(x, y)' => Due(x, y) BY <2>2, <2>5, <3>1 DEF Due
    <3> QED BY <1>0, <2>2, <2>5, <3>1, <3>2 DEF Ticket, Kind
  <2> QED BY <2>2, <2>3, <2>4, <2>5
<1>25. ASSUME NEW t \in Tasks, CalleeDone(t) PROVE Ticket(x, y)'
  <2>1. /\ UNCHANGED <<plan, at, continuations>> /\ step[t] = "calling"
        /\ step' = [step EXCEPT ![t] = "run"]
        /\ toRun[t] # <<>> /\ toRun' = [toRun EXCEPT ![t] = Tail(toRun[t])]
    BY <1>25, CalleeFacts
  <2>2. /\ y # t => toRun'[y] = toRun[y]
        /\ y = t => \A k \in 1..Len(toRun'[y]) : /\ k + 1 \in 1..Len(toRun[y]) /\ k \in Nat
                                                 /\ toRun'[y][k] = toRun[y][k + 1]
        /\ InList(x, y)' => InList(x, y)
        /\ Once(toRun[y], x) => Once(toRun'[y], x)
    BY <2>1, DroppedFacts
  <2>3. Due(x, y)' => Due(x, y)
    <3>1. CASE y = t
      <4>1. \A k \in 1..Len(toRun'[y]) : k + 1 # 1 BY <3>1, <2>2
      <4> QED BY <2>1, <2>2, <3>1, <4>1 DEF Due
    <3>2. CASE y # t BY <1>0, <2>1, <2>2, <3>2 DEF Due
    <3> QED BY <3>1, <3>2
  <2>5. step[x] = "pending" => step'[x] = "pending" BY <1>0, <2>1
  <2> QED BY <1>0, <2>1, <2>2, <2>3, <2>5 DEF Ticket, Kind
<1>26. ASSUME NEW t \in Tasks, AllHeard(t) PROVE Ticket(x, y)'
  <2>1. /\ UNCHANGED <<plan, continuations, toRun>> /\ step[t] = "body"
        /\ (\A b \in Actors \ {t} : at'[b] = at[b])
        /\ (step' = step \/ step' = [step EXCEPT ![t] = "store"])
    BY <1>26, AllHeardFacts
  <2> QED BY <1>0, <2>1 DEF Ticket, Due, InList, Kind
<1>27. ASSUME NEW t \in Tasks, ProxyHeard(t) PROVE Ticket(x, y)'
  <2>1. \A b \in Actors \ {t} : at'[b] = at[b] BY <1>27, ProxyFacts
  <2> QED BY <1>27, <1>0, <2>1 DEF ProxyHeard, Ticket, Due, InList, Kind
<1>28. CASE Cancel BY <1>28, <1>0 DEF Cancel, flags, sources, Ticket, Due, InList, Kind
<1>29. CASE UNCHANGED vars BY <1>29, <1>0 DEF vars, flags, sources, Ticket, Due, InList, Kind
<1> QED
  BY <1>1, <1>2, <1>3, <1>4, <1>5, <1>6, <1>7, <1>8, <1>9, <1>10, <1>11, <1>12, <1>13, <1>14,
     <1>15, <1>16, <1>17, <1>18, <1>19, <1>20, <1>21, <1>22, <1>23, <1>24, <1>25, <1>26, <1>27,
     <1>28, <1>29, <1>4a DEF Next, Call, UserStep, TaskStep, InCall, Actors

\* A thread that has yet to register a continuation finds it pending.
LEMMA CarriedNext == TaskIInv /\ [Next]_vars => (\A x \in Users : Carried(x))'
<1> SUFFICES ASSUME TaskIInv, [Next]_vars, NEW x \in Users PROVE Carried(x)'
  OBVIOUS
<1>0. /\ step \in [Tasks -> Steps] /\ at \in [Actors -> AtType] /\ x \in Actors
      /\ Tasks \cap Users = {} /\ Idle.pc = "idle" /\ Carried(x)
      /\ (at[x].pc \in {"register", "push"} => at[x].task \in Tasks)
  BY Types, IdleType, MakerFacts DEF TaskIInv, Tickets, RegPCs
<1>1. ASSUME NEW u \in Users, NEW t \in Tasks, Start(u, t) PROVE Carried(x)'
  <2>1. (\A b \in Actors \ {t} : at'[b] = at[b]) /\ step[t] = "none" /\ plan' = plan
        /\ step' = [step EXCEPT ![t] = "body"]
    BY <1>1, StartFacts
  <2> QED BY <1>0, <2>1 DEF Carried, Kind
<1>2. ASSUME NEW u \in Users, NEW t \in Tasks, StartCanceled(u, t) PROVE Carried(x)'
  BY <1>2, <1>0 DEF StartCanceled, Making, flags, sources, Carried, Kind
<1>3. ASSUME NEW u \in Users, NEW t \in Tasks, Pend(u, t) PROVE Carried(x)'
  <2>1. /\ \A b \in Actors \ {u} : at'[b] = at[b]
        /\ at'[u].task = t /\ step[t] = "none" /\ plan' = plan
        /\ step' = [step EXCEPT ![t] = "pending"]
    BY <1>3, PendFacts
  <2> QED BY <1>0, <2>1 DEF Carried, Kind
<1>4. ASSUME NEW u \in Users, NEW t \in Tasks, Unwrap(u, t) PROVE Carried(x)'
  <2>1. /\ \A b \in Actors \ {t} : at'[b] = at[b]
        /\ step[t] = "none" /\ plan' = plan
        /\ step' = [step EXCEPT ![t] = "body"]
    BY <1>4, UnwrapFacts
  <2> QED BY <1>0, <2>1 DEF Carried, Kind
<1>4a. ASSUME NEW u \in Users, NEW t \in Tasks, UnwrapEnded(u, t) PROVE Carried(x)'
  BY <1>4a, <1>0 DEF UnwrapEnded, Making, flags, sources, Carried, Kind
<1>5. ASSUME NEW u \in Users, NEW t \in Tasks, Wait(u, t) PROVE Carried(x)'
  <2>1. (\A b \in Actors \ {u} : at'[b] = at[b]) /\ at'[u].pc \in {"enter"} BY <1>5, <1>0, WaitFacts
  <2> QED BY <1>5, <1>0, <2>1 DEF Wait, Carried, Kind
<1>6. ASSUME NEW u \in Users, NEW t \in Tasks, NEW how \in Hows, TrySet(u, t, how) PROVE Carried(x)'
  <2>1. (\A b \in Actors \ {u} : at'[b] = at[b]) /\ at'[u].pc \in {"claim"}
    BY <1>6, <1>0, TrySetFacts
  <2> QED BY <1>6, <1>0, <2>1 DEF TrySet, Carried, Kind
<1>7. ASSUME NEW u \in Users, Scan(u) PROVE Carried(x)'
  <2>0. PICK c : c = at[u].task OBVIOUS
  <2>1. c \in Tasks /\ at[u].pc = "scan" /\ step[c] = "pending" /\ Kind(c) = "any"
    BY <1>7, <2>0, MakerFacts, Types DEF Scan, RegPCs
  <2>2. /\ plan' = plan /\ (\A b \in Actors \ {u} : at'[b] = at[b])
        /\ \/ at'[u].pc = "idle" /\ step' = [step EXCEPT ![c] = "done"]
           \/ step' = step /\ at'[u].task = c
    BY <1>7, <1>0, <2>0, ScanFacts
  <2> QED BY <1>0, <2>1, <2>2 DEF Carried, Kind
<1>8. ASSUME NEW u \in Users, Register(u) PROVE Carried(x)'
  <2>0. PICK c : c = at[u].task OBVIOUS
  <2>1. c \in Tasks /\ at[u].pc = "register" /\ plan[c].by = u
    BY <1>8, <2>0, MakerFacts, Types DEF Register, RegPCs
  <2>2. /\ plan' = plan /\ (\A b \in Actors \ {u} : at'[b] = at[b])
        /\ \/ /\ step' = step
              /\ (at'[u].pc \in {"push", "register"} /\ at'[u].task = c) \/ at'[u].pc = "idle"
           \/ at'[u].pc = "calling" /\ \A t \in Tasks \ {c} : step'[t] = step[t]
    BY <1>8, <1>0, <2>0, <2>1, RegisterFacts, RegisteredFacts DEF Wakes, RegPCs
  <2>3. x # u /\ at[x].pc \in {"register", "push"} => at[x].task # c
    BY <1>0, <2>1, MakerFacts DEF RegPCs
  <2> QED BY <1>0, <2>0, <2>1, <2>2, <2>3 DEF Carried, Kind
<1>9. ASSUME NEW u \in Users, Push(u) PROVE Carried(x)'
  <2>1. at[u].pc = "push" /\ Registered(u) /\ UNCHANGED <<plan, step>> BY <1>9 DEF Push
  <2>2. /\ (\A b \in Actors \ {u} : at'[b] = at[b])
        /\ ((at'[u].pc = "register" /\ at'[u].task = at[u].task /\ Kind(at[u].task) = "any") \/ at'[u].pc = "idle")
    BY <1>0, <2>1, RegisteredFacts DEF RegPCs
  <2> QED BY <1>0, <2>1, <2>2 DEF Carried, Kind
<1>10. ASSUME NEW u \in Users, Returned(u) PROVE Carried(x)'
  <2>1. at[u].pc = "calling" /\ Registered(u) /\ UNCHANGED <<plan, step>> BY <1>10 DEF Returned
  <2>2. /\ (\A b \in Actors \ {u} : at'[b] = at[b])
        /\ ((at'[u].pc = "register" /\ at'[u].task = at[u].task /\ Kind(at[u].task) = "any") \/ at'[u].pc = "idle")
    BY <1>0, <2>1, RegisteredFacts DEF RegPCs
  <2> QED BY <1>0, <2>1, <2>2 DEF Carried, Kind
<1>11. ASSUME NEW u \in Users, WaitReturn(u) PROVE Carried(x)'
  <2>1. at' = [at EXCEPT ![u] = Idle] /\ UNCHANGED <<plan, step>> BY <1>11 DEF WaitReturn
  <2> QED BY <1>0, <2>1 DEF Carried, Kind
<1>12. ASSUME NEW a \in Actors, WaitEnter(a) PROVE Carried(x)'
  <2>1. /\ (\A b \in Actors \ {a} : at'[b] = at[b])
        /\ at'[a].pc \in {"woken", "lock", "sleeping", "parked"}
    BY <1>12, <1>0, WaitStepFacts
  <2> QED BY <1>12, <1>0, <2>1 DEF WaitEnter, Carried, Kind
<1>13. ASSUME NEW a \in Actors, WaitTest(a) PROVE Carried(x)'
  <2>1. /\ (\A b \in Actors \ {a} : at'[b] = at[b])
        /\ at'[a].pc \in {"woken", "lock", "sleeping", "parked"}
    BY <1>13, <1>0, WaitStepFacts
  <2> QED BY <1>13, <1>0, <2>1 DEF WaitTest, Carried, Kind
<1>14. ASSUME NEW a \in Actors, WaitSleep(a) PROVE Carried(x)'
  <2>1. /\ (\A b \in Actors \ {a} : at'[b] = at[b])
        /\ at'[a].pc \in {"woken", "lock", "sleeping", "parked"}
    BY <1>14, <1>0, WaitStepFacts
  <2> QED BY <1>14, <1>0, <2>1 DEF WaitSleep, Carried, Kind
<1>15. ASSUME NEW a \in Actors, Claim(a) PROVE Carried(x)'
  <2>1. (\A b \in Actors \ {a} : at'[b] = at[b]) /\ at'[a].pc \in {"flag", "promise", "idle"}
    BY <1>15, <1>0, SetFacts
  <2> QED BY <1>15, <1>0, <2>1 DEF Claim, Carried, Kind
<1>16. ASSUME NEW a \in Actors, Flag(a) PROVE Carried(x)'
  <2>1. (\A b \in Actors \ {a} : at'[b] = at[b]) /\ at'[a].pc \in {"flag", "promise", "idle"}
    BY <1>16, <1>0, SetFacts
  <2> QED BY <1>16, <1>0, <2>1 DEF Flag, Carried, Kind
<1>17. ASSUME NEW a \in Actors, Promise(a) PROVE Carried(x)'
  <2>1. (\A b \in Actors \ {a} : at'[b] = at[b]) /\ at'[a].pc \in {"flag", "promise", "idle"}
    BY <1>17, <1>0, SetFacts
  <2> QED BY <1>17, <1>0, <2>1 DEF Promise, Carried, Kind
<1>18. ASSUME NEW t \in Tasks, Body(t) PROVE Carried(x)'
  BY <1>18, <1>0 DEF Body, flags, sources, Carried, Kind
<1>19. ASSUME NEW t \in Tasks, Bridge(t) PROVE Carried(x)'
  BY <1>19, <1>0 DEF Bridge, flags, sources, Carried, Kind
<1>20. ASSUME NEW t \in Tasks, Store(t) PROVE Carried(x)'
  BY <1>20, <1>0 DEF Store, flags, sources, Carried, Kind
<1>21. ASSUME NEW t \in Tasks, Complete(t) PROVE Carried(x)'
  BY <1>21, <1>0 DEF Complete, flags, sources, Carried, Kind
<1>22. ASSUME NEW t \in Tasks, Swap(t) PROVE Carried(x)'
  BY <1>22, <1>0 DEF Swap, flags, sources, Carried, Kind
<1>23. ASSUME NEW t \in Tasks, Notify(t) PROVE Carried(x)'
  <2>1. at'[x] = at[x] \/ at'[x].pc = "lock" BY <1>23, <1>0, NotifyFacts
  <2>2. plan' = plan /\ step[t] = "notify" /\ step' = [step EXCEPT ![t] = "run"]
    BY <1>23 DEF Notify
  <2> QED BY <1>0, <2>1, <2>2 DEF Carried, Kind
<1>24. ASSUME NEW t \in Tasks, Run(t) PROVE Carried(x)'
  <2>0. PICK c : c = Head(toRun[t]) OBVIOUS
  <2>1. toRun[t] # <<>> => c \in Tasks /\ InList(c, t) BY <2>0, HeadFacts
  <2>2. /\ UNCHANGED <<plan, at>> /\ step[t] = "run"
        /\ \/ step' = [step EXCEPT ![t] = "done"]
           \/ toRun[t] # <<>> /\ \A z \in Tasks \ {c, t} : step'[z] = step[z]
           \/ step' = step
    BY <1>24, <2>0, RunFacts
  <2>3. at[x].pc \in {"register", "push"} /\ Kind(at[x].task) = "then" /\ toRun[t] # <<>> => at[x].task # c
    BY <1>0, <2>1 DEF TaskIInv, Tickets, Ticket
  <2> QED BY <1>0, <2>1, <2>2, <2>3 DEF Carried, Kind
<1>25. ASSUME NEW t \in Tasks, CalleeDone(t) PROVE Carried(x)'
  BY <1>25, <1>0 DEF CalleeDone, flags, sources, Carried, Kind
<1>26. ASSUME NEW t \in Tasks, AllHeard(t) PROVE Carried(x)'
  <2>1. /\ plan' = plan /\ step[t] = "body"
        /\ (\A b \in Actors \ {t} : at'[b] = at[b])
        /\ (step' = step \/ step' = [step EXCEPT ![t] = "store"])
    BY <1>26, AllHeardFacts
  <2> QED BY <1>0, <2>1 DEF Carried, Kind
<1>27. ASSUME NEW t \in Tasks, ProxyHeard(t) PROVE Carried(x)'
  <2>1. \A b \in Actors \ {t} : at'[b] = at[b] BY <1>27, ProxyFacts
  <2> QED BY <1>27, <1>0, <2>1 DEF ProxyHeard, Carried, Kind
<1>28. CASE Cancel BY <1>28, <1>0 DEF Cancel, flags, sources, Carried, Kind
<1>29. CASE UNCHANGED vars BY <1>29, <1>0 DEF vars, flags, sources, Carried, Kind
<1> QED
  BY <1>1, <1>2, <1>3, <1>4, <1>5, <1>6, <1>7, <1>8, <1>9, <1>10, <1>11, <1>12, <1>13, <1>14,
     <1>15, <1>16, <1>17, <1>18, <1>19, <1>20, <1>21, <1>22, <1>23, <1>24, <1>25, <1>26, <1>27,
     <1>28, <1>29, <1>4a DEF Next, Call, UserStep, TaskStep, InCall, Actors

\* Who found isCompleted false under completionMutex holds it until it sleeps or its
\* callback is in the list, so that Swap has yet to come.
LEMMA HeldNext == TaskIInv /\ [Next]_vars => (\A x \in Actors : Holder(x))'
<1> SUFFICES ASSUME TaskIInv, [Next]_vars, NEW x \in Actors PROVE Holder(x)'
  OBVIOUS
<1>0. /\ step \in [Tasks -> Steps] /\ at \in [Actors -> AtType]
      /\ mutex \in [Tasks -> Actors \cup {None}]
      /\ Tasks \cap Users = {} /\ Idle.pc = "idle" /\ None \notin Actors /\ Holder(x)
      /\ Users \subseteq Actors
      /\ Tasks \subseteq Actors
      /\ (at[x].pc = "sleeping" => at[x].task \in Tasks) /\ (at[x].pc = "push" => Here(x) \in Tasks)
  BY Types, IdleType, WaiterFacts, MakerFacts DEF TaskIInv, Held, RegPCs, WaitPCs, Actors
<1>1. ASSUME NEW u \in Users, NEW t \in Tasks, Start(u, t) PROVE Holder(x)'
  <2>1. (\A b \in Actors \ {t} : at'[b] = at[b]) /\ step[t] = "none" /\ plan' = plan
        /\ step' = [step EXCEPT ![t] = "body"] /\ (at' = at \/ at'[t].pc = "enter")
    BY <1>1, StartFacts
  <2>2. mutex' = mutex BY <1>1 DEF Start
  <2> QED BY <1>0, <2>1, <2>2 DEF Holder, Here, Fired
<1>2. ASSUME NEW u \in Users, NEW t \in Tasks, StartCanceled(u, t) PROVE Holder(x)'
  <2>1. t \notin known BY <1>2, MakingFacts DEF StartCanceled
  <2>2. at[x].pc = "sleeping" => at[x].task # t BY <2>1, WaiterFacts DEF WaitPCs
  <2>3. at[x].pc = "push" => Here(x) # t BY <2>1, MakerFacts DEF RegPCs
  <2> QED BY <1>2, <1>0, <2>2, <2>3 DEF StartCanceled, Holder, Here, Fired
<1>3. ASSUME NEW u \in Users, NEW t \in Tasks, Pend(u, t) PROVE Holder(x)'
  <2>1. /\ \A b \in Actors \ {u} : at'[b] = at[b]
        /\ at'[u].pc \in {"scan", "register"} /\ step[t] = "none" /\ plan' = plan
        /\ step' = [step EXCEPT ![t] = "pending"]
    BY <1>3, PendFacts
  <2>2. mutex' = mutex BY <1>3 DEF Pend
  <2> QED BY <1>0, <2>1, <2>2 DEF Holder, Here, Fired
<1>4. ASSUME NEW u \in Users, NEW t \in Tasks, Unwrap(u, t) PROVE Holder(x)'
  <2>1. /\ \A b \in Actors \ {t} : at'[b] = at[b]
        /\ step[t] = "none" /\ plan' = plan /\ (at' = at \/ at'[t].pc = "enter")
        /\ step' = [step EXCEPT ![t] = "body"]
    BY <1>4, UnwrapFacts
  <2>2. mutex' = mutex BY <1>4 DEF Unwrap
  <2> QED BY <1>0, <2>1, <2>2 DEF Holder, Here, Fired
<1>4a. ASSUME NEW u \in Users, NEW t \in Tasks, UnwrapEnded(u, t) PROVE Holder(x)'
  <2>1. t \notin known BY <1>4a, MakingFacts DEF UnwrapEnded
  <2>2. at[x].pc = "sleeping" => at[x].task # t BY <2>1, WaiterFacts DEF WaitPCs
  <2>3. at[x].pc = "push" => Here(x) # t BY <2>1, MakerFacts DEF RegPCs
  <2> QED BY <1>4a, <1>0, <2>2, <2>3 DEF UnwrapEnded, Holder, Here, Fired
<1>5. ASSUME NEW u \in Users, NEW t \in Tasks, Wait(u, t) PROVE Holder(x)'
  <2>1. (\A b \in Actors \ {u} : at'[b] = at[b]) /\ at'[u].pc \in {"enter"} BY <1>5, <1>0, WaitFacts
  <2> QED BY <1>5, <1>0, <2>1 DEF Wait, Holder, Here, Fired
<1>6. ASSUME NEW u \in Users, NEW t \in Tasks, NEW how \in Hows, TrySet(u, t, how) PROVE Holder(x)'
  <2>1. (\A b \in Actors \ {u} : at'[b] = at[b]) /\ at'[u].pc \in {"claim"}
    BY <1>6, <1>0, TrySetFacts
  <2> QED BY <1>6, <1>0, <2>1 DEF TrySet, Holder, Here, Fired
<1>7. ASSUME NEW u \in Users, Scan(u) PROVE Holder(x)'
  <2>0. PICK c : c = at[u].task OBVIOUS
  <2>1. c \in Tasks /\ at[u].pc = "scan" /\ step[c] = "pending" /\ c \notin known
    BY <1>7, <2>0, MakerFacts, Types DEF Scan, RegPCs
  <2>2. /\ plan' = plan /\ (\A b \in Actors \ {u} : at'[b] = at[b]) /\ mutex' = mutex
        /\ \/ at'[u].pc = "idle" /\ step' = [step EXCEPT ![c] = "done"]
           \/ step' = step /\ at'[u].pc \in {"scan", "register"}
    BY <1>7, <1>0, <2>0, ScanFacts
  <2>3. at[x].pc = "sleeping" => at[x].task # c BY <2>1, WaiterFacts DEF WaitPCs
  <2>4. at[x].pc = "push" => Here(x) # c BY <2>1, MakerFacts DEF RegPCs
  <2> QED BY <1>0, <2>1, <2>2, <2>3, <2>4 DEF Holder, Here, Fired
<1>8. ASSUME NEW u \in Users, Register(u) PROVE Holder(x)'
  <2>0. PICK c, s : c = at[u].task /\ s = Here(u) OBVIOUS
  <2>1. c \in Tasks /\ at[u].pc = "register" /\ s \in Tasks
    BY <1>8, <2>0, MakerFacts, Types DEF Register, RegPCs
  <2>2. /\ plan' = plan /\ (\A b \in Actors \ {u} : at'[b] = at[b]) /\ mutex[s] = None
        /\ \/ /\ step' = step /\ mutex' = [mutex EXCEPT ![s] = u] /\ ~isCompleted[s]
              /\ at'[u].pc = "push" /\ at'[u].task = c /\ at'[u].i = at[u].i
           \/ /\ mutex' = mutex /\ at'[u].pc = "calling" /\ step'[c] \in {"body", "store"}
              /\ \A t \in Tasks \ {c} : step'[t] = step[t]
           \/ mutex' = mutex /\ step' = step /\ at'[u].pc \in {"register", "idle"}
    BY <1>8, <1>0, <2>0, <2>1, RegisterFacts, RegisteredFacts DEF Wakes, RegPCs
  <2>3. ~isCompleted[s] => step[s] \notin Fired BY <2>1 DEF TaskIInv, Stages, Stage, Past, Fired
  <2>4. x # u => Here(x)' = Here(x) BY <1>0, <2>2 DEF Here
  <2>5. at'[u].pc = "push" => Here(u)' = s BY <1>0, <2>0, <2>2 DEF Here
  <2> QED BY <1>0, <2>1, <2>2, <2>3, <2>4, <2>5 DEF Holder, Fired
<1>9. ASSUME NEW u \in Users, Push(u) PROVE Holder(x)'
  <2>0. PICK c, s : c = at[u].task /\ s = Here(u) OBVIOUS
  <2>1. at[u].pc = "push" /\ Registered(u) /\ UNCHANGED <<plan,
                                                          step>> /\ mutex' = [mutex EXCEPT ![s] = None]
    BY <1>9, <2>0, PushFacts
  <2>2. (\A b \in Actors \ {u} : at'[b] = at[b]) /\ at'[u].pc \in {"register", "idle"}
    BY <1>0, <2>1, RegisteredFacts DEF RegPCs
  <2>3. mutex[s] = u /\ s \in Tasks
    BY <1>0, <2>0, <2>1, MakerFacts DEF TaskIInv, Held, Holder, RegPCs
  <2>4. x # u => Here(x)' = Here(x) BY <1>0, <2>1, <2>2 DEF Here
  <2> QED BY <1>0, <2>1, <2>2, <2>3, <2>4 DEF Holder, Fired
<1>10. ASSUME NEW u \in Users, Returned(u) PROVE Holder(x)'
  <2>1. at[u].pc = "calling" /\ Registered(u) /\ UNCHANGED <<plan, step, mutex>>
    BY <1>10 DEF Returned
  <2>2. (\A b \in Actors \ {u} : at'[b] = at[b]) /\ at'[u].pc \in {"register", "idle"}
    BY <1>0, <2>1, RegisteredFacts DEF RegPCs
  <2> QED BY <1>0, <2>1, <2>2 DEF Holder, Here, Fired
<1>11. ASSUME NEW u \in Users, WaitReturn(u) PROVE Holder(x)'
  <2>1. at' = [at EXCEPT ![u] = Idle] /\ UNCHANGED <<plan, step, mutex>> BY <1>11 DEF WaitReturn
  <2> QED BY <1>0, <2>1 DEF Holder, Here, Fired
<1>12. ASSUME NEW a \in Actors, WaitEnter(a) PROVE Holder(x)'
  <2>1. /\ (\A b \in Actors \ {a} : at'[b] = at[b]) /\ at'[a].pc \in {"woken", "lock"}
        /\ UNCHANGED <<plan, step, mutex>>
    BY <1>12, WaitStepFacts, Went, <1>0 DEF WaitEnter, PCs
  <2> QED BY <1>0, <2>1 DEF Holder, Here, Fired
<1>13. ASSUME NEW a \in Actors, WaitTest(a) PROVE Holder(x)'
  <2>0. PICK t : t = at[a].task OBVIOUS
  <2>1. /\ (\A b \in Actors \ {a} : at'[b] = at[b]) /\ at'[a].task = t /\ t \in Tasks
        /\ at[a].pc = "lock" /\ mutex[t] = None /\ UNCHANGED <<plan, step>>
    BY <1>13, <2>0, WaitStepFacts, WaiterFacts DEF WaitTest, WaitPCs
  <2>2. \/ at'[a].pc = "woken" /\ mutex' = mutex
        \/ at'[a].pc = "sleeping" /\ ~isCompleted[t] /\ mutex' = [mutex EXCEPT ![t] = a]
    BY <1>13, <2>0, <1>0, Went DEF WaitTest, PCs
  <2>3. ~isCompleted[t] => step[t] \notin Fired BY <2>1 DEF TaskIInv, Stages, Stage, Past, Fired
  <2>4. x # a => Here(x)' = Here(x) BY <1>0, <2>1 DEF Here
  <2> QED BY <1>0, <2>1, <2>2, <2>3, <2>4 DEF Holder, Fired
<1>14. ASSUME NEW a \in Actors, WaitSleep(a) PROVE Holder(x)'
  <2>0. PICK t : t = at[a].task OBVIOUS
  <2>1. /\ (\A b \in Actors \ {a} : at'[b] = at[b]) /\ t \in Tasks
        /\ at[a].pc = "sleeping" /\ UNCHANGED <<plan, step>> /\ mutex' = [mutex EXCEPT ![t] = None]
    BY <1>14, <2>0, WaitStepFacts, WaiterFacts DEF WaitSleep, WaitPCs
  <2>2. at'[a].pc = "parked" BY <1>14, <1>0, Went DEF WaitSleep, PCs
  <2>3. mutex[t] = a BY <2>0, <2>1 DEF TaskIInv, Held, Holder
  <2>4. x # a => Here(x)' = Here(x) BY <1>0, <2>1 DEF Here
  <2> QED BY <1>0, <2>1, <2>2, <2>3, <2>4 DEF Holder, Fired
<1>15. ASSUME NEW a \in Actors, Claim(a) PROVE Holder(x)'
  <2>1. (\A b \in Actors \ {a} : at'[b] = at[b]) /\ at'[a].pc \in {"flag", "promise", "idle"}
    BY <1>15, <1>0, SetFacts
  <2> QED BY <1>15, <1>0, <2>1 DEF Claim, Holder, Here, Fired
<1>16. ASSUME NEW a \in Actors, Flag(a) PROVE Holder(x)'
  <2>1. (\A b \in Actors \ {a} : at'[b] = at[b]) /\ at'[a].pc \in {"flag", "promise", "idle"}
    BY <1>16, <1>0, SetFacts
  <2> QED BY <1>16, <1>0, <2>1 DEF Flag, Holder, Here, Fired
<1>17. ASSUME NEW a \in Actors, Promise(a) PROVE Holder(x)'
  <2>1. (\A b \in Actors \ {a} : at'[b] = at[b]) /\ at'[a].pc \in {"flag", "promise", "idle"}
    BY <1>17, <1>0, SetFacts
  <2> QED BY <1>17, <1>0, <2>1 DEF Promise, Holder, Here, Fired
<1>18. ASSUME NEW t \in Tasks, Body(t) PROVE Holder(x)'
  BY <1>18, <1>0 DEF Body, flags, sources, Holder, Here, Fired
<1>19. ASSUME NEW t \in Tasks, Bridge(t) PROVE Holder(x)'
  BY <1>19, <1>0 DEF Bridge, flags, sources, Holder, Here, Fired
<1>20. ASSUME NEW t \in Tasks, Store(t) PROVE Holder(x)'
  BY <1>20, <1>0 DEF Store, flags, sources, Holder, Here, Fired
<1>21. ASSUME NEW t \in Tasks, Complete(t) PROVE Holder(x)'
  BY <1>21, <1>0 DEF Complete, flags, sources, Holder, Here, Fired
<1>22. ASSUME NEW t \in Tasks, Swap(t) PROVE Holder(x)'
  <2>1. UNCHANGED <<plan, at, mutex>> /\ mutex[t] = None /\ step' = [step EXCEPT ![t] = "notify"]
    BY <1>22 DEF Swap, MayTake
  <2> QED BY <1>0, <2>1 DEF Holder, Here, Fired
<1>23. ASSUME NEW t \in Tasks, Notify(t) PROVE Holder(x)'
  <2>1. at'[x] = at[x] \/ at'[x].pc = "lock" BY <1>23, <1>0, NotifyFacts
  <2>2. UNCHANGED <<plan, mutex>> /\ step[t] = "notify" /\ step' = [step EXCEPT ![t] = "run"]
    BY <1>23 DEF Notify
  <2> QED BY <1>0, <2>1, <2>2 DEF Holder, Here, Fired
<1>24. ASSUME NEW t \in Tasks, Run(t) PROVE Holder(x)'
  <2>0. PICK c : c = Head(toRun[t]) OBVIOUS
  <2>1. toRun[t] # <<>> => c \in Tasks BY <2>0, HeadFacts
  <2>2. /\ UNCHANGED <<plan, at, mutex>> /\ step[t] = "run"
        /\ \/ step' = [step EXCEPT ![t] = "done"]
           \/ /\ toRun[t] # <<>> /\ step'[c] \in {"body", "store"} /\ c # t
              /\ \A z \in Tasks \ {c, t} : step'[z] = step[z]
           \/ step' = step
    BY <1>24, <2>0, RunFacts DEF Wakes
  <2> QED BY <1>0, <2>1, <2>2 DEF Holder, Here, Fired
<1>25. ASSUME NEW t \in Tasks, CalleeDone(t) PROVE Holder(x)'
  BY <1>25, <1>0 DEF CalleeDone, flags, sources, Holder, Here, Fired
<1>26. ASSUME NEW t \in Tasks, AllHeard(t) PROVE Holder(x)'
  <2>1. /\ UNCHANGED <<plan, mutex>> /\ step[t] = "body"
        /\ (\A b \in Actors \ {t} : at'[b] = at[b]) /\ at'[t].pc \in {"enter", "idle"}
        /\ (step' = step \/ step' = [step EXCEPT ![t] = "store"])
    BY <1>26, <1>0, AllHeardFacts
  <2> QED BY <1>0, <2>1 DEF Holder, Here, Fired
<1>27. ASSUME NEW t \in Tasks, ProxyHeard(t) PROVE Holder(x)'
  <2>1. (\A b \in Actors \ {t} : at'[b] = at[b]) /\ at'[t].pc \in {"enter", "claim"}
    BY <1>27, ProxyFacts
  <2> QED BY <1>27, <1>0, <2>1 DEF ProxyHeard, Holder, Here, Fired
<1>28. CASE Cancel BY <1>28, <1>0 DEF Cancel, flags, sources, Holder, Here, Fired
<1>29. CASE UNCHANGED vars BY <1>29, <1>0 DEF vars, flags, sources, Holder, Here, Fired
<1> QED
  BY <1>1, <1>2, <1>3, <1>4, <1>5, <1>6, <1>7, <1>8, <1>9, <1>10, <1>11, <1>12, <1>13, <1>14,
     <1>15, <1>16, <1>17, <1>18, <1>19, <1>20, <1>21, <1>22, <1>23, <1>24, <1>25, <1>26, <1>27,
     <1>28, <1>29, <1>4a DEF Next, Call, UserStep, TaskStep, InCall, Actors

\* Wait: who sleeps has not been notified yet, and who is let go finds the task completed.
LEMMA WaiterNext == TaskIInv /\ [Next]_vars => (\A x \in Actors : Waiter(x))'
<1> SUFFICES ASSUME TaskIInv, [Next]_vars, NEW x \in Actors PROVE Waiter(x)'
  OBVIOUS
<1>0. /\ step \in [Tasks -> Steps] /\ at \in [Actors -> AtType]
      /\ isCompleted \in [Tasks -> BOOLEAN]
      /\ Tasks \cap Users = {} /\ Idle.pc = "idle" /\ Waiter(x) /\ Users \subseteq Actors
      /\ Tasks \subseteq Actors /\ known \subseteq Tasks
  BY Types, IdleType DEF TaskIInv, Waiting
<1>1. ASSUME NEW u \in Users, NEW t \in Tasks, Start(u, t) PROVE Waiter(x)'
  <2>1. (\A b \in Actors \ {t} : at'[b] = at[b]) /\ step[t] = "none" /\ known' = known \cup {t}
        /\ step' = [step EXCEPT ![t] = "body"]
        /\ (at' = at \/ (at'[t].pc = "enter" /\ at'[t].task \in known))
    BY <1>1, StartFacts
  <2>2. isCompleted' = isCompleted BY <1>1 DEF Start, flags
  <2> QED BY <1>0, <2>1, <2>2 DEF Waiter, WaitPCs
<1>2. ASSUME NEW u \in Users, NEW t \in Tasks, StartCanceled(u, t) PROVE Waiter(x)'
  <2>1. t \notin known BY <1>2, MakingFacts DEF StartCanceled
  <2> QED BY <1>2, <1>0, <2>1 DEF StartCanceled, Waiter, WaitPCs
<1>3. ASSUME NEW u \in Users, NEW t \in Tasks, Pend(u, t) PROVE Waiter(x)'
  <2>1. /\ \A b \in Actors \ {u} : at'[b] = at[b]
        /\ at'[u].pc \in {"scan", "register"} /\ step[t] = "none" /\ known' = known
        /\ step' = [step EXCEPT ![t] = "pending"]
    BY <1>3, PendFacts
  <2>2. isCompleted' = isCompleted BY <1>3 DEF Pend, flags
  <2> QED BY <1>0, <2>1, <2>2 DEF Waiter, WaitPCs
<1>4. ASSUME NEW u \in Users, NEW t \in Tasks, Unwrap(u, t) PROVE Waiter(x)'
  <2>1. /\ \A b \in Actors \ {t} : at'[b] = at[b]
        /\ known' = known \cup {t} /\ (at' = at \/ (at'[t].pc = "enter" /\ at'[t].task \in known))
        /\ step' = [step EXCEPT ![t] = "body"]
    BY <1>4, UnwrapFacts
  <2>2. isCompleted' = isCompleted BY <1>4 DEF Unwrap, flags
  <2> QED BY <1>0, <2>1, <2>2 DEF Waiter, WaitPCs
<1>4a. ASSUME NEW u \in Users, NEW t \in Tasks, UnwrapEnded(u, t) PROVE Waiter(x)'
  <2>1. t \notin known BY <1>4a, MakingFacts DEF UnwrapEnded
  <2> QED BY <1>4a, <1>0, <2>1 DEF UnwrapEnded, Waiter, WaitPCs
<1>5. ASSUME NEW u \in Users, NEW t \in Tasks, Wait(u, t) PROVE Waiter(x)'
  <2>1. /\ \A b \in Actors \ {u} : at'[b] = at[b]
        /\ at'[u].pc = "enter" /\ at'[u].task = t
    BY <1>5, WaitFacts
  <2>2. UNCHANGED <<step, known, isCompleted>> /\ t \in known BY <1>5 DEF Wait, flags
  <2> QED BY <1>0, <2>1, <2>2 DEF Waiter, WaitPCs
<1>6. ASSUME NEW u \in Users, NEW t \in Tasks, NEW how \in Hows, TrySet(u, t, how) PROVE Waiter(x)'
  <2>1. (\A b \in Actors \ {u} : at'[b] = at[b]) /\ at'[u].pc \in {"claim"}
    BY <1>6, <1>0, TrySetFacts
  <2> QED BY <1>6, <1>0, <2>1 DEF TrySet, flags, Waiter, WaitPCs
<1>7. ASSUME NEW u \in Users, Scan(u) PROVE Waiter(x)'
  <2>0. PICK c : c = at[u].task OBVIOUS
  <2>1. c \in Tasks /\ c \notin known BY <1>7, <2>0, MakerFacts, Types DEF Scan, RegPCs
  <2>2. /\ (\A b \in Actors \ {u} : at'[b] = at[b])
        /\ \/ at'[u].pc = "idle" /\ step' = [step EXCEPT ![c] = "done"] /\ known' = known \cup {c}
              /\ isCompleted' = [isCompleted EXCEPT ![c] = TRUE]
           \/ UNCHANGED <<step, known, isCompleted>> /\ at'[u].pc \in {"scan", "register"}
    BY <1>7, <1>0, <2>0, ScanFacts
  <2> QED BY <1>0, <2>1, <2>2 DEF Waiter, WaitPCs
<1>8. ASSUME NEW u \in Users, Register(u) PROVE Waiter(x)'
  <2>0. PICK c : c = at[u].task OBVIOUS
  <2>1. c \in Tasks /\ at[u].pc = "register" BY <1>8, <2>0, MakerFacts, Types DEF Register, RegPCs
  <2>2. /\ (\A b \in Actors \ {u} : at'[b] = at[b]) /\ isCompleted' = isCompleted
        /\ (known' = known \/ known' = known \cup {c})
        /\ at'[u].pc \in {"push", "calling", "register", "idle"}
        /\ \/ step' = step
           \/ step'[c] \in {"body", "store"} /\ \A t \in Tasks \ {c} : step'[t] = step[t]
    BY <1>8, <1>0, <2>0, <2>1, RegisterFacts, RegisteredFacts DEF Wakes, RegPCs
  <2> QED BY <1>0, <2>1, <2>2 DEF Waiter, WaitPCs
<1>9. ASSUME NEW u \in Users, Push(u) PROVE Waiter(x)'
  <2>1. at[u].pc = "push" /\ Registered(u) /\ UNCHANGED <<step, isCompleted>>
    BY <1>9 DEF Push, flags
  <2>2. /\ (\A b \in Actors \ {u} : at'[b] = at[b]) /\ at'[u].pc \in {"register", "idle"}
        /\ known \subseteq known'
    BY <1>0, <2>1, RegisteredFacts DEF RegPCs
  <2> QED BY <1>0, <2>1, <2>2 DEF Waiter, WaitPCs
<1>10. ASSUME NEW u \in Users, Returned(u) PROVE Waiter(x)'
  <2>1. at[u].pc = "calling" /\ Registered(u) /\ UNCHANGED <<step, isCompleted>>
    BY <1>10 DEF Returned, flags
  <2>2. /\ (\A b \in Actors \ {u} : at'[b] = at[b]) /\ at'[u].pc \in {"register", "idle"}
        /\ known \subseteq known'
    BY <1>0, <2>1, RegisteredFacts DEF RegPCs
  <2> QED BY <1>0, <2>1, <2>2 DEF Waiter, WaitPCs
<1>11. ASSUME NEW u \in Users, WaitReturn(u) PROVE Waiter(x)'
  <2>1. at' = [at EXCEPT ![u] = Idle] /\ UNCHANGED <<known, step, isCompleted>>
    BY <1>11 DEF WaitReturn, flags
  <2> QED BY <1>0, <2>1 DEF Waiter, WaitPCs
<1>12. ASSUME NEW a \in Actors, WaitEnter(a) PROVE Waiter(x)'
  <2>1. (\A b \in Actors \ {a} : at'[b] = at[b]) /\ at'[a].task = at[a].task /\ at[a].task \in known
        /\ (at'[a].pc = "woken" => isCompleted[at[a].task])
        /\ (at'[a].pc = "parked" => at[a].pc = "sleeping")
    BY <1>12, WaitStepFacts, WaiterFacts DEF WaitPCs
  <2>2. UNCHANGED <<step, known, isCompleted>> BY <1>12 DEF WaitEnter, flags
  <2>3. at[a].pc = "sleeping" => step[at[a].task] \notin {"run", "calling", "done"}
    BY DEF TaskIInv, Held, Holder, Fired
  <2> QED BY <1>0, <2>1, <2>2, <2>3 DEF Waiter, WaitPCs
<1>13. ASSUME NEW a \in Actors, WaitTest(a) PROVE Waiter(x)'
  <2>1. (\A b \in Actors \ {a} : at'[b] = at[b]) /\ at'[a].task = at[a].task /\ at[a].task \in known
        /\ (at'[a].pc = "woken" => isCompleted[at[a].task])
        /\ (at'[a].pc = "parked" => at[a].pc = "sleeping")
    BY <1>13, WaitStepFacts, WaiterFacts DEF WaitPCs
  <2>2. UNCHANGED <<step, known, isCompleted>> BY <1>13 DEF WaitTest, flags
  <2>3. at[a].pc = "sleeping" => step[at[a].task] \notin {"run", "calling", "done"}
    BY DEF TaskIInv, Held, Holder, Fired
  <2> QED BY <1>0, <2>1, <2>2, <2>3 DEF Waiter, WaitPCs
<1>14. ASSUME NEW a \in Actors, WaitSleep(a) PROVE Waiter(x)'
  <2>1. (\A b \in Actors \ {a} : at'[b] = at[b]) /\ at'[a].task = at[a].task /\ at[a].task \in known
        /\ (at'[a].pc = "woken" => isCompleted[at[a].task])
        /\ (at'[a].pc = "parked" => at[a].pc = "sleeping")
    BY <1>14, WaitStepFacts, WaiterFacts DEF WaitPCs
  <2>2. UNCHANGED <<step, known, isCompleted>> BY <1>14 DEF WaitSleep, flags
  <2>3. at[a].pc = "sleeping" => step[at[a].task] \notin {"run", "calling", "done"}
    BY DEF TaskIInv, Held, Holder, Fired
  <2> QED BY <1>0, <2>1, <2>2, <2>3 DEF Waiter, WaitPCs
<1>15. ASSUME NEW a \in Actors, Claim(a) PROVE Waiter(x)'
  <2>1. (\A b \in Actors \ {a} : at'[b] = at[b]) /\ at'[a].pc \in {"flag", "promise", "idle"}
    BY <1>15, <1>0, SetFacts
  <2> QED BY <1>15, <1>0, <2>1 DEF Claim, flags, Waiter, WaitPCs
<1>16. ASSUME NEW a \in Actors, Flag(a) PROVE Waiter(x)'
  <2>1. (\A b \in Actors \ {a} : at'[b] = at[b]) /\ at'[a].pc \in {"flag", "promise", "idle"}
    BY <1>16, <1>0, SetFacts
  <2> QED BY <1>16, <1>0, <2>1 DEF Flag, flags, Waiter, WaitPCs
<1>17. ASSUME NEW a \in Actors, Promise(a) PROVE Waiter(x)'
  <2>1. (\A b \in Actors \ {a} : at'[b] = at[b]) /\ at'[a].pc \in {"flag", "promise", "idle"}
    BY <1>17, <1>0, SetFacts
  <2> QED BY <1>17, <1>0, <2>1 DEF Promise, flags, Waiter, WaitPCs
<1>18. ASSUME NEW t \in Tasks, Body(t) PROVE Waiter(x)'
  BY <1>18, <1>0 DEF Body, flags, sources, Waiter, WaitPCs
<1>19. ASSUME NEW t \in Tasks, Bridge(t) PROVE Waiter(x)'
  BY <1>19, <1>0 DEF Bridge, flags, sources, Waiter, WaitPCs
<1>20. ASSUME NEW t \in Tasks, Store(t) PROVE Waiter(x)'
  BY <1>20, <1>0 DEF Store, flags, sources, Waiter, WaitPCs
<1>21. ASSUME NEW t \in Tasks, Complete(t) PROVE Waiter(x)'
  BY <1>21, <1>0 DEF Complete, flags, sources, Waiter, WaitPCs
<1>22. ASSUME NEW t \in Tasks, Swap(t) PROVE Waiter(x)'
  BY <1>22, <1>0 DEF Swap, flags, sources, Waiter, WaitPCs
<1>23. ASSUME NEW t \in Tasks, Notify(t) PROVE Waiter(x)'
  <2>1. /\ at'[x].task = at[x].task
        /\ \/ at[x].pc = "parked" /\ at[x].task = t /\ at'[x].pc = "lock"
           \/ ~(at[x].pc = "parked" /\ at[x].task = t) /\ at'[x] = at[x]
    BY <1>23, <1>0, NotifyFacts
  <2>2. UNCHANGED <<known, isCompleted>> /\ step[t] = "notify" /\ step' = [step EXCEPT ![t] = "run"]
    BY <1>23 DEF Notify, flags
  <2> QED BY <1>0, <2>1, <2>2 DEF Waiter, WaitPCs
<1>24. ASSUME NEW t \in Tasks, Run(t) PROVE Waiter(x)'
  <2>0. PICK c : c = Head(toRun[t]) OBVIOUS
  <2>1. toRun[t] # <<>> => c \in Tasks BY <2>0, HeadFacts
  <2>2. /\ UNCHANGED <<known, at, isCompleted>> /\ step[t] = "run"
        /\ \/ step' = [step EXCEPT ![t] = "done"]
           \/ /\ toRun[t] # <<>> /\ step'[c] \in {"body", "store"} /\ c # t
              /\ \A z \in Tasks \ {c, t} : step'[z] = step[z]
           \/ step' = step
    BY <1>24, <2>0, RunFacts DEF Wakes
  <2> QED BY <1>0, <2>1, <2>2 DEF Waiter, WaitPCs
<1>25. ASSUME NEW t \in Tasks, CalleeDone(t) PROVE Waiter(x)'
  BY <1>25, <1>0 DEF CalleeDone, flags, sources, Waiter, WaitPCs
<1>26. ASSUME NEW t \in Tasks, AllHeard(t) PROVE Waiter(x)'
  <2>1. /\ UNCHANGED <<known, isCompleted>> /\ step[t] = "body"
        /\ (\A b \in Actors \ {t} : at'[b] = at[b])
        /\ ((at'[t].pc = "enter" /\ at'[t].task \in Inputs(t)) \/ at'[t].pc = "idle")
        /\ (step' = step \/ step' = [step EXCEPT ![t] = "store"])
    BY <1>26, <1>0, AllHeardFacts
  <2>2. Inputs(t) \subseteq known BY <2>1 DEF TaskIInv, Stages, Stage
  <2> QED BY <1>0, <2>1, <2>2 DEF Waiter, WaitPCs
<1>27. ASSUME NEW t \in Tasks, ProxyHeard(t) PROVE Waiter(x)'
  <2>1. /\ (\A b \in Actors \ {t} : at'[b] = at[b])
        /\ ((at'[t].pc = "enter" /\ at'[t].task \in known) \/ at'[t].pc = "claim")
    BY <1>27, ProxyFacts
  <2> QED BY <1>27, <1>0, <2>1 DEF ProxyHeard, flags, Waiter, WaitPCs
<1>28. CASE Cancel BY <1>28, <1>0 DEF Cancel, flags, sources, Waiter, WaitPCs
<1>29. CASE UNCHANGED vars BY <1>29, <1>0 DEF vars, flags, sources, Waiter, WaitPCs
<1> QED
  BY <1>1, <1>2, <1>3, <1>4, <1>5, <1>6, <1>7, <1>8, <1>9, <1>10, <1>11, <1>12, <1>13, <1>14,
     <1>15, <1>16, <1>17, <1>18, <1>19, <1>20, <1>21, <1>22, <1>23, <1>24, <1>25, <1>26, <1>27,
     <1>28, <1>29, <1>4a DEF Next, Call, UserStep, TaskStep, InCall, Actors

\* The action of WhenAll waits for an input while its body runs, and the detached thread of
\* completeProxy for the outer task first.
LEMMA WorkerNext == TaskIInv /\ [Next]_vars => (\A x \in Tasks : Worker(x))'
<1> SUFFICES ASSUME TaskIInv, [Next]_vars, NEW x \in Tasks PROVE Worker(x)'
  OBVIOUS
<1>0. /\ step \in [Tasks -> Steps] /\ at \in [Actors -> AtType] /\ x \in Actors
      /\ Tasks \cap Users = {} /\ Idle.pc = "idle" /\ Worker(x)
  BY Types, IdleType DEF TaskIInv, Waiting
<1>1. ASSUME NEW u \in Users, NEW t \in Tasks, Start(u, t) PROVE Worker(x)'
  <2>1. /\ (\A b \in Actors \ {t} : at'[b] = at[b]) /\ at[t].pc = "idle" /\ plan' = plan
        /\ step[t] = "none"
        /\ step' = [step EXCEPT ![t] = "body"]
        /\ (at' = at \/ (Kind(t) = "all" /\ at'[t].pc = "enter" /\ at'[t].i \in 1..Len(plan[t].of)))
    BY <1>1, StartFacts
  <2>2. promise' = promise BY <1>1 DEF Start, sources
  <2> QED BY <1>0, <2>1, <2>2 DEF Worker, Kind, WaitPCs, SetPCs
<1>2. ASSUME NEW u \in Users, NEW t \in Tasks, StartCanceled(u, t) PROVE Worker(x)'
  <2>1. step[t] = "none" /\ at[t].pc = "idle" BY <1>2, MakingFacts DEF StartCanceled
  <2> QED BY <1>2, <1>0, <2>1 DEF StartCanceled, sources, Worker, Kind, WaitPCs, SetPCs
<1>3. ASSUME NEW u \in Users, NEW t \in Tasks, Pend(u, t) PROVE Worker(x)'
  <2>1. /\ \A b \in Actors \ {u} : at'[b] = at[b]
        /\ step[t] = "none" /\ plan' = plan /\ step' = [step EXCEPT ![t] = "pending"]
        /\ at[t].pc = "idle"
    BY <1>3, PendFacts
  <2>2. promise' = promise BY <1>3 DEF Pend, sources
  <2> QED BY <1>0, <2>1, <2>2 DEF Worker, Kind, WaitPCs, SetPCs
<1>4. ASSUME NEW u \in Users, NEW t \in Tasks, Unwrap(u, t) PROVE Worker(x)'
  <2>1. /\ \A b \in Actors \ {t} : at'[b] = at[b]
        /\ plan' = plan /\ Kind(t) = "unwrap" /\ at[t].pc = "idle"
        /\ (at' = at \/ (at'[t].pc = "enter" /\ at'[t].task = plan[t].of[1]))
        /\ step' = [step EXCEPT ![t] = "body"]
    BY <1>4, UnwrapFacts
  <2>2. promise' = promise /\ promise[t] = None
    BY <1>4, MakingFacts DEF Unwrap, sources, TaskIInv, Claims, Claimed
  <2> QED BY <1>0, <2>1, <2>2 DEF Worker, Kind, WaitPCs, SetPCs
<1>4a. ASSUME NEW u \in Users, NEW t \in Tasks, UnwrapEnded(u, t) PROVE Worker(x)'
  <2>1. step[t] = "none" /\ at[t].pc = "idle" BY <1>4a, MakingFacts DEF UnwrapEnded
  <2> QED BY <1>4a, <1>0, <2>1 DEF UnwrapEnded, sources, Worker, Kind, WaitPCs, SetPCs
<1>5. ASSUME NEW u \in Users, NEW t \in Tasks, Wait(u, t) PROVE Worker(x)'
  <2>1. (\A b \in Actors \ {u} : at'[b] = at[b]) /\ at'[u].pc \in {"enter"} BY <1>5, <1>0, WaitFacts
  <2> QED BY <1>5, <1>0, <2>1 DEF Wait, sources, Worker, Kind, WaitPCs, SetPCs
<1>6. ASSUME NEW u \in Users, NEW t \in Tasks, NEW how \in Hows, TrySet(u, t, how) PROVE Worker(x)'
  <2>1. (\A b \in Actors \ {u} : at'[b] = at[b]) /\ at'[u].pc \in {"claim"}
    BY <1>6, <1>0, TrySetFacts
  <2> QED BY <1>6, <1>0, <2>1 DEF TrySet, sources, Worker, Kind, WaitPCs, SetPCs
<1>7. ASSUME NEW u \in Users, Scan(u) PROVE Worker(x)'
  <2>0. PICK c : c = at[u].task OBVIOUS
  <2>1. c \in Tasks /\ Kind(c) = "any" BY <1>7, <2>0, MakerFacts, Types DEF Scan, RegPCs
  <2>2. /\ UNCHANGED <<plan, promise>> /\ (\A b \in Actors \ {u} : at'[b] = at[b])
        /\ (step' = [step EXCEPT ![c] = "done"] \/ step' = step)
    BY <1>7, <1>0, <2>0, ScanFacts
  <2> QED BY <1>0, <2>1, <2>2 DEF Worker, Kind, WaitPCs, SetPCs
<1>8. ASSUME NEW u \in Users, Register(u) PROVE Worker(x)'
  <2>0. PICK c : c = at[u].task OBVIOUS
  <2>1. c \in Tasks /\ at[u].pc = "register" /\ Kind(c) \in {"then", "any"}
    BY <1>8, <2>0, MakerFacts, Types DEF Register, RegPCs
  <2>2. /\ UNCHANGED <<plan, promise>> /\ (\A b \in Actors \ {u} : at'[b] = at[b])
        /\ (step' = step \/ \A t \in Tasks \ {c} : step'[t] = step[t])
    BY <1>8, <1>0, <2>0, <2>1, RegisterFacts
  <2> QED BY <1>0, <2>1, <2>2 DEF Worker, Kind, WaitPCs, SetPCs
<1>9. ASSUME NEW u \in Users, Push(u) PROVE Worker(x)'
  <2>1. at[u].pc = "push" /\ Registered(u) /\ UNCHANGED <<step, plan, promise>> BY <1>9 DEF Push, sources
  <2>2. \A b \in Actors \ {u} : at'[b] = at[b] BY <1>0, <2>1, RegisteredFacts DEF RegPCs
  <2> QED BY <1>0, <2>1, <2>2 DEF Worker, Kind, WaitPCs, SetPCs
<1>10. ASSUME NEW u \in Users, Returned(u) PROVE Worker(x)'
  <2>1. at[u].pc = "calling" /\ Registered(u) /\ UNCHANGED <<step, plan, promise>> BY <1>10 DEF Returned, sources
  <2>2. \A b \in Actors \ {u} : at'[b] = at[b] BY <1>0, <2>1, RegisteredFacts DEF RegPCs
  <2> QED BY <1>0, <2>1, <2>2 DEF Worker, Kind, WaitPCs, SetPCs
<1>11. ASSUME NEW u \in Users, WaitReturn(u) PROVE Worker(x)'
  <2>1. at' = [at EXCEPT ![u] = Idle] /\ UNCHANGED <<step, plan, promise>> BY <1>11 DEF WaitReturn, sources
  <2> QED BY <1>0, <2>1 DEF Worker, Kind, WaitPCs, SetPCs
<1>12. ASSUME NEW a \in Actors, WaitEnter(a) PROVE Worker(x)'
  <2>1. (\A b \in Actors \ {a} : at'[b] = at[b]) /\ at'[a].task = at[a].task /\ at'[a].i = at[a].i
        /\ at[a].pc \in {"enter", "lock", "sleeping"}
        /\ at'[a].pc \in {"woken", "lock", "sleeping", "parked"}
    BY <1>12, WaitStepFacts
  <2>2. UNCHANGED <<step, plan, promise>> BY <1>12 DEF WaitEnter, sources
  <2> QED BY <1>0, <2>1, <2>2 DEF Worker, Kind, WaitPCs, SetPCs
<1>13. ASSUME NEW a \in Actors, WaitTest(a) PROVE Worker(x)'
  <2>1. (\A b \in Actors \ {a} : at'[b] = at[b]) /\ at'[a].task = at[a].task /\ at'[a].i = at[a].i
        /\ at[a].pc \in {"enter", "lock", "sleeping"}
        /\ at'[a].pc \in {"woken", "lock", "sleeping", "parked"}
    BY <1>13, WaitStepFacts
  <2>2. UNCHANGED <<step, plan, promise>> BY <1>13 DEF WaitTest, sources
  <2> QED BY <1>0, <2>1, <2>2 DEF Worker, Kind, WaitPCs, SetPCs
<1>14. ASSUME NEW a \in Actors, WaitSleep(a) PROVE Worker(x)'
  <2>1. (\A b \in Actors \ {a} : at'[b] = at[b]) /\ at'[a].task = at[a].task /\ at'[a].i = at[a].i
        /\ at[a].pc \in {"enter", "lock", "sleeping"}
        /\ at'[a].pc \in {"woken", "lock", "sleeping", "parked"}
    BY <1>14, WaitStepFacts
  <2>2. UNCHANGED <<step, plan, promise>> BY <1>14 DEF WaitSleep, sources
  <2> QED BY <1>0, <2>1, <2>2 DEF Worker, Kind, WaitPCs, SetPCs
<1>15. ASSUME NEW a \in Actors, Claim(a) PROVE Worker(x)'
  <2>1. (\A b \in Actors \ {a} : at'[b] = at[b]) /\ at[a].pc \in SetPCs
        /\ ((at'[a].task = at[a].task /\ at'[a].pc \in {"flag", "promise"}) \/ at'[a].pc = "idle")
    BY <1>15, <1>0, SetFacts
  <2>2. UNCHANGED <<step, plan, promise>> BY <1>15 DEF Claim, sources
  <2> QED BY <1>0, <2>1, <2>2 DEF Worker, Kind, WaitPCs, SetPCs
<1>16. ASSUME NEW a \in Actors, Flag(a) PROVE Worker(x)'
  <2>1. (\A b \in Actors \ {a} : at'[b] = at[b]) /\ at[a].pc \in SetPCs
        /\ ((at'[a].task = at[a].task /\ at'[a].pc \in {"flag", "promise"}) \/ at'[a].pc = "idle")
    BY <1>16, <1>0, SetFacts
  <2>2. UNCHANGED <<step, plan, promise>> BY <1>16 DEF Flag, sources
  <2> QED BY <1>0, <2>1, <2>2 DEF Worker, Kind, WaitPCs, SetPCs
<1>17. ASSUME NEW a \in Actors, Promise(a) PROVE Worker(x)'
  <2>1. (\A b \in Actors \ {a} : at'[b] = at[b]) /\ at'[a].pc = "idle" /\ at[a].pc \in SetPCs
    BY <1>17, <1>0, SetFacts DEF Promise
  <2>2. UNCHANGED <<step, plan>> BY <1>17 DEF Promise
  <2>3. \A t \in Tasks \ {at[a].task} : promise'[t] = promise[t] BY <1>17, Types DEF Promise
  <2>4. Kind(at[a].task) = "unwrap" => a = at[a].task BY <2>1 DEF TaskIInv, Claims, Setter
  <2> QED BY <1>0, <2>1, <2>2, <2>3, <2>4 DEF Worker, Kind, WaitPCs, SetPCs
<1>18. ASSUME NEW t \in Tasks, Body(t) PROVE Worker(x)'
  BY <1>18, <1>0 DEF Body, flags, sources, Worker, Kind, WaitPCs, SetPCs
<1>19. ASSUME NEW t \in Tasks, Bridge(t) PROVE Worker(x)'
  BY <1>19, <1>0 DEF Bridge, flags, sources, Worker, Kind, WaitPCs, SetPCs
<1>20. ASSUME NEW t \in Tasks, Store(t) PROVE Worker(x)'
  BY <1>20, <1>0 DEF Store, flags, sources, Worker, Kind, WaitPCs, SetPCs
<1>21. ASSUME NEW t \in Tasks, Complete(t) PROVE Worker(x)'
  BY <1>21, <1>0 DEF Complete, flags, sources, Worker, Kind, WaitPCs, SetPCs
<1>22. ASSUME NEW t \in Tasks, Swap(t) PROVE Worker(x)'
  BY <1>22, <1>0 DEF Swap, flags, sources, Worker, Kind, WaitPCs, SetPCs
<1>23. ASSUME NEW t \in Tasks, Notify(t) PROVE Worker(x)'
  <2>1. /\ at'[x].task = at[x].task /\ at'[x].i = at[x].i
        /\ (at[x].pc = "parked" /\ at'[x].pc = "lock") \/ at'[x] = at[x]
    BY <1>23, <1>0, NotifyFacts
  <2>2. UNCHANGED <<plan, promise>> /\ step[t] = "notify" /\ step' = [step EXCEPT ![t] = "run"]
    BY <1>23 DEF Notify, sources
  <2> QED BY <1>0, <2>1, <2>2 DEF Worker, Kind, WaitPCs, SetPCs
<1>24. ASSUME NEW t \in Tasks, Run(t) PROVE Worker(x)'
  <2>0. PICK c : c = Head(toRun[t]) OBVIOUS
  <2>1. toRun[t] # <<>> => c \in Tasks /\ Kind(c) \in {"then", "any"} BY <2>0, HeadFacts
  <2>2. /\ UNCHANGED <<plan, at, promise>> /\ step[t] = "run"
        /\ \/ step' = [step EXCEPT ![t] = "done"]
           \/ /\ toRun[t] # <<>> /\ c # t /\ step'[t] = "calling"
              /\ \A z \in Tasks \ {c, t} : step'[z] = step[z]
           \/ step' = step
    BY <1>24, <2>0, RunFacts
  <2> QED BY <1>0, <2>1, <2>2 DEF Worker, Kind, WaitPCs, SetPCs
<1>25. ASSUME NEW t \in Tasks, CalleeDone(t) PROVE Worker(x)'
  BY <1>25, <1>0 DEF CalleeDone, flags, sources, Worker, Kind, WaitPCs, SetPCs
<1>26. ASSUME NEW t \in Tasks, AllHeard(t) PROVE Worker(x)'
  <2>1. /\ UNCHANGED <<plan, promise>> /\ step[t] = "body" /\ Kind(t) = "all"
        /\ (\A b \in Actors \ {t} : at'[b] = at[b])
        /\ \/ at'[t].pc = "enter" /\ at'[t].i \in 1..Len(plan[t].of) /\ step' = step
           \/ at'[t].pc = "idle" /\ step' = [step EXCEPT ![t] = "store"]
    BY <1>26, <1>0, AllHeardFacts
  <2> QED BY <1>0, <2>1 DEF Worker, Kind, WaitPCs, SetPCs
<1>27. ASSUME NEW t \in Tasks, ProxyHeard(t) PROVE Worker(x)'
  <2>1. (\A b \in Actors \ {t} : at'[b] = at[b]) /\ Kind(t) = "unwrap" /\ step[t] # "none"
        /\ ((at'[t].pc = "enter" /\ at'[t].i = 2) \/ (at'[t].pc = "claim" /\ at'[t].task = t))
        /\ step[t] = "body" /\ promise[t] = None
    BY <1>27, ProxyFacts, TaskActorFacts
  <2>2. UNCHANGED <<step, plan, promise>> BY <1>27 DEF ProxyHeard, sources
  <2> QED BY <1>0, <2>1, <2>2 DEF Worker, Kind, WaitPCs, SetPCs
<1>28. CASE Cancel BY <1>28, <1>0 DEF Cancel, flags, sources, Worker, Kind, WaitPCs, SetPCs
<1>29. CASE UNCHANGED vars BY <1>29, <1>0 DEF vars, flags, sources, Worker, Kind, WaitPCs, SetPCs
<1> QED
  BY <1>1, <1>2, <1>3, <1>4, <1>5, <1>6, <1>7, <1>8, <1>9, <1>10, <1>11, <1>12, <1>13, <1>14,
     <1>15, <1>16, <1>17, <1>18, <1>19, <1>20, <1>21, <1>22, <1>23, <1>24, <1>25, <1>26, <1>27,
     <1>28, <1>29, <1>4a DEF Next, Call, UserStep, TaskStep, InCall, Actors

\* A task that is a result is an input of the task that has it.
LEMMA ResultsNext == TaskIInv /\ [Next]_vars => (\A x \in Tasks : Result(x))'
<1> SUFFICES ASSUME TaskIInv, [Next]_vars, NEW x \in Tasks PROVE Result(x)'
  OBVIOUS
<1>0. /\ step \in [Tasks -> Steps] /\ result \in [Tasks -> Tasks \cup {None}] /\ None \notin Tasks
      /\ Result(x)
      /\ outcome \in [Tasks -> {"ok", "fault", "oce", "canceled"}]
      /\ isFaulted \in [Tasks -> BOOLEAN] /\ isCanceled \in [Tasks -> BOOLEAN]
  BY Types DEF TaskIInv, Results
<1>1. ASSUME NEW u \in Users, NEW t \in Tasks, Start(u, t) PROVE Result(x)'
  BY <1>1, <1>0 DEF Start, Making, flags, sources, Result, Kind, Inputs, Past
<1>2. ASSUME NEW u \in Users, NEW t \in Tasks, StartCanceled(u, t) PROVE Result(x)'
  BY <1>2, <1>0 DEF StartCanceled, Making, flags, sources, Result, Kind, Inputs, Past
<1>3. ASSUME NEW u \in Users, NEW t \in Tasks, Pend(u, t) PROVE Result(x)'
  BY <1>3, <1>0 DEF Pend, Making, flags, sources, Result, Kind, Inputs, Past
<1>4. ASSUME NEW u \in Users, NEW t \in Tasks, Unwrap(u, t) PROVE Result(x)'
  <2>1. /\ plan' = plan /\ step[t] = "none" /\ Kind(t) = "unwrap"
        /\ step' = [step EXCEPT ![t] = "body"]
    BY <1>4, UnwrapFacts
  <2>2. UNCHANGED <<result, outcome, isFaulted, isCanceled>> BY <1>4 DEF Unwrap, flags
  <2> QED BY <1>0, <2>1, <2>2 DEF Result, Kind, Inputs, Past
<1>4a. ASSUME NEW u \in Users, NEW t \in Tasks, UnwrapEnded(u, t) PROVE Result(x)'
  BY <1>4a, <1>0 DEF UnwrapEnded, Making, flags, sources, Result, Kind, Inputs, Past
<1>5. ASSUME NEW u \in Users, NEW t \in Tasks, Wait(u, t) PROVE Result(x)'
  BY <1>5, <1>0 DEF Wait, flags, sources, Result, Kind, Inputs, Past
<1>6. ASSUME NEW u \in Users, NEW t \in Tasks, NEW how \in Hows, TrySet(u, t, how) PROVE Result(x)'
  BY <1>6, <1>0 DEF TrySet, flags, sources, Result, Kind, Inputs, Past
<1>7. ASSUME NEW u \in Users, Scan(u) PROVE Result(x)'
  <2>0. PICK c, s : c = at[u].task /\ s = Here(u) OBVIOUS
  <2>1. c \in Tasks /\ s \in Inputs(c) /\ s \in Tasks /\ Kind(c) = "any"
    BY <1>7, <2>0, MakerFacts, Types DEF Scan, RegPCs
  <2>2. /\ UNCHANGED <<plan, outcome, isFaulted, isCanceled>>
        /\ \/ result' = [result EXCEPT ![c] = s] /\ step' = [step EXCEPT ![c] = "done"]
           \/ UNCHANGED <<result, step>>
    BY <1>7, <2>0, ScanFacts
  <2>3. Inputs(x)' = Inputs(x) /\ Kind(x)' = Kind(x) BY <2>2 DEF Inputs, Kind
  <2> QED BY <1>0, <2>1, <2>2, <2>3 DEF Result, Past
<1>8. ASSUME NEW u \in Users, Register(u) PROVE Result(x)'
  <2>0. PICK c, s : c = at[u].task /\ s = Here(u) OBVIOUS
  <2>1. c \in Tasks /\ s \in Inputs(c) /\ s \in Tasks /\ Kind(c) \in {"then", "any"}
    BY <1>8, <2>0, MakerFacts, Types DEF Register, RegPCs
  <2>2. /\ UNCHANGED <<plan, isFaulted, isCanceled>>
        /\ \/ Wakes(c, s) /\ \A t \in Tasks \ {c} : step'[t] = step[t]
           \/ UNCHANGED <<result, step, outcome>>
    BY <1>8, <2>0, RegisterFacts
  <2>3. Inputs(x)' = Inputs(x) /\ Kind(x)' = Kind(x) BY <2>2 DEF Inputs, Kind
  <2> QED BY <1>0, <2>1, <2>2, <2>3 DEF Wakes, Result, Past
<1>9. ASSUME NEW u \in Users, Push(u) PROVE Result(x)'
  BY <1>9, <1>0 DEF Push, flags, sources, Result, Kind, Inputs, Past
<1>10. ASSUME NEW u \in Users, Returned(u) PROVE Result(x)'
  BY <1>10, <1>0 DEF Returned, flags, sources, Result, Kind, Inputs, Past
<1>11. ASSUME NEW u \in Users, WaitReturn(u) PROVE Result(x)'
  BY <1>11, <1>0 DEF WaitReturn, flags, sources, Result, Kind, Inputs, Past
<1>12. ASSUME NEW a \in Actors, WaitEnter(a) PROVE Result(x)'
  BY <1>12, <1>0 DEF WaitEnter, flags, sources, Result, Kind, Inputs, Past
<1>13. ASSUME NEW a \in Actors, WaitTest(a) PROVE Result(x)'
  BY <1>13, <1>0 DEF WaitTest, flags, sources, Result, Kind, Inputs, Past
<1>14. ASSUME NEW a \in Actors, WaitSleep(a) PROVE Result(x)'
  BY <1>14, <1>0 DEF WaitSleep, flags, sources, Result, Kind, Inputs, Past
<1>15. ASSUME NEW a \in Actors, Claim(a) PROVE Result(x)'
  BY <1>15, <1>0 DEF Claim, flags, sources, Result, Kind, Inputs, Past
<1>16. ASSUME NEW a \in Actors, Flag(a) PROVE Result(x)'
  BY <1>16, <1>0 DEF Flag, flags, sources, Result, Kind, Inputs, Past
<1>17. ASSUME NEW a \in Actors, Promise(a) PROVE Result(x)'
  BY <1>17, <1>0 DEF Promise, flags, sources, Result, Kind, Inputs, Past
<1>18. ASSUME NEW t \in Tasks, Body(t) PROVE Result(x)'
  <2>1. /\ UNCHANGED <<plan, isFaulted, isCanceled>> /\ step[t] = "body"
        /\ step' = [step EXCEPT ![t] = "store"]
    BY <1>18 DEF Body, flags
  <2>2. PICK o \in {"ok", "fault", "oce"} :
          /\ outcome' = [outcome EXCEPT ![t] = o]
          /\ result' = result \/ (plan[t].of # <<>> /\ result' = [result EXCEPT ![t] = plan[t].of[1]])
    BY <1>18 DEF Body
  <2>3. plan[t].of # <<>> => plan[t].of[1] \in Inputs(t) /\ plan[t].of[1] \in Tasks
    <3>1. plan[t].of \in Seq(Tasks) BY PlanFacts, Types
    <3>2. plan[t].of # <<>> => 1 \in 1..Len(plan[t].of) BY <3>1
    <3> QED BY <3>2, PlanFacts, Types
  <2>4. Inputs(x)' = Inputs(x) /\ Kind(x)' = Kind(x) BY <2>1 DEF Inputs, Kind
  <2>5. CASE x = t
    <3>1. result'[x] = result[x] \/ (plan[x].of # <<>> /\ result'[x] = plan[x].of[1])
      BY <1>0, <2>2, <2>5
    <3> QED BY <1>0, <2>3, <2>4, <2>5, <3>1 DEF Result
  <2>6. CASE x # t BY <1>0, <2>2, <2>4, <2>6 DEF Result
  <2> QED BY <2>5, <2>6
<1>19. ASSUME NEW t \in Tasks, Bridge(t) PROVE Result(x)'
  BY <1>19, <1>0 DEF Bridge, flags, sources, Result, Kind, Inputs, Past
<1>20. ASSUME NEW t \in Tasks, Store(t) PROVE Result(x)'
  <2>1. /\ UNCHANGED <<plan, result, outcome>> /\ step' = [step EXCEPT ![t] = "complete"]
        /\ step[t] = "store"
        /\ \A z \in Tasks \ {t} : UNCHANGED <<isFaulted[z], isCanceled[z]>>
    BY <1>20, <1>0 DEF Store
  <2>2. isFaulted'[t] \/ isCanceled'[t] \/ outcome[t] = "ok"
    <3>1. /\ isCanceled'[t] = Cancels(t)
          /\ isFaulted'[t] = (outcome[t] \in {"fault", "oce"} /\ ~Cancels(t))
      BY <1>20, <1>0 DEF Store
    <3>2. outcome[t] = "canceled" => Cancels(t) BY DEF Cancels
    <3> QED BY <1>0, <3>1, <3>2
  <2> QED BY <1>0, <2>1, <2>2 DEF Result, Kind, Inputs, Past
<1>21. ASSUME NEW t \in Tasks, Complete(t) PROVE Result(x)'
  BY <1>21, <1>0 DEF Complete, flags, sources, Result, Kind, Inputs, Past
<1>22. ASSUME NEW t \in Tasks, Swap(t) PROVE Result(x)'
  BY <1>22, <1>0 DEF Swap, flags, sources, Result, Kind, Inputs, Past
<1>23. ASSUME NEW t \in Tasks, Notify(t) PROVE Result(x)'
  BY <1>23, <1>0 DEF Notify, flags, sources, Result, Kind, Inputs, Past
<1>24. ASSUME NEW t \in Tasks, Run(t) PROVE Result(x)'
  <2>0. PICK c : c = Head(toRun[t]) OBVIOUS
  <2>1. toRun[t] # <<>> => c \in Tasks /\ Kind(c) \in {"then", "any"} /\ t \in Inputs(c)
    BY <2>0, HeadFacts
  <2>2. /\ UNCHANGED <<plan, isFaulted, isCanceled>> /\ step[t] = "run"
        /\ \/ step' = [step EXCEPT ![t] = "done"] /\ UNCHANGED <<outcome, result>>
           \/ /\ toRun[t] # <<>> /\ Wakes(c, t) /\ c # t /\ step'[t] = "calling"
              /\ \A z \in Tasks \ {c, t} : step'[z] = step[z]
           \/ UNCHANGED <<step, outcome, result>>
    BY <1>24, <2>0, RunFacts
  <2>3. Inputs(x)' = Inputs(x) /\ Kind(x)' = Kind(x) BY <2>2 DEF Inputs, Kind
  <2>4. step[t] \in Past BY <2>2 DEF Past
  <2> QED BY <1>0, <2>1, <2>2, <2>3, <2>4 DEF Wakes, Result, Past
<1>25. ASSUME NEW t \in Tasks, CalleeDone(t) PROVE Result(x)'
  BY <1>25, <1>0 DEF CalleeDone, flags, sources, Result, Kind, Inputs, Past
<1>26. ASSUME NEW t \in Tasks, AllHeard(t) PROVE Result(x)'
  <2>1. /\ UNCHANGED <<plan, result, isFaulted, isCanceled>> /\ step[t] = "body" /\ Kind(t) = "all"
        /\ \/ UNCHANGED <<step, outcome>>
           \/ step' = [step EXCEPT ![t] = "store"] /\ \A z \in Tasks \ {t} : outcome'[z] = outcome[z]
    BY <1>26, AllHeardFacts
  <2> QED BY <1>0, <2>1 DEF Result, Kind, Inputs, Past
<1>27. ASSUME NEW t \in Tasks, ProxyHeard(t) PROVE Result(x)'
  BY <1>27, <1>0 DEF ProxyHeard, flags, sources, Result, Kind, Inputs, Past
<1>28. CASE Cancel BY <1>28, <1>0 DEF Cancel, flags, sources, Result, Kind, Inputs, Past
<1>29. CASE UNCHANGED vars BY <1>29, <1>0 DEF vars, flags, sources, Result, Kind, Inputs, Past
<1> QED
  BY <1>1, <1>2, <1>3, <1>4, <1>5, <1>6, <1>7, <1>8, <1>9, <1>10, <1>11, <1>12, <1>13, <1>14,
     <1>15, <1>16, <1>17, <1>18, <1>19, <1>20, <1>21, <1>22, <1>23, <1>24, <1>25, <1>26, <1>27,
     <1>28, <1>29, <1>4a DEF Next, Call, UserStep, TaskStep, InCall, Actors

\* TrySet: after the exchange on completed_ the promise is still empty, and canceledFlag_
\* is set before the promise.
LEMMA SetterNext == TaskIInv /\ [Next]_vars => (\A x \in Actors : Setter(x))'
<1> SUFFICES ASSUME TaskIInv, [Next]_vars, NEW x \in Actors PROVE Setter(x)'
  OBVIOUS
<1>0. /\ at \in [Actors -> AtType] /\ claimed \in [Tasks -> Hows \cup {None}]
      /\ promise \in [Tasks -> {"value", "exception", None}]
      /\ canceledFlag \in [Tasks -> BOOLEAN] /\ known \subseteq Tasks /\ None \notin Hows
      /\ None # "value"
      /\ Tasks \cap Users = {} /\ Idle.pc = "idle" /\ Users \subseteq Actors
      /\ Tasks \subseteq Actors /\ Setter(x)
  BY Types, IdleType DEF TaskIInv, Claims
<1>1. ASSUME NEW u \in Users, NEW t \in Tasks, Start(u, t) PROVE Setter(x)'
  <2>1. /\ (\A b \in Actors \ {t} : at'[b] = at[b]) /\ (at' = at \/ at'[t].pc = "enter")
        /\ known' = known \cup {t}
    BY <1>1, StartFacts
  <2>2. UNCHANGED <<plan, claimed, canceledFlag, promise>> BY <1>1 DEF Start, sources
  <2> QED BY <1>0, <2>1, <2>2 DEF Setter, SetPCs, Kind
<1>2. ASSUME NEW u \in Users, NEW t \in Tasks, StartCanceled(u, t) PROVE Setter(x)'
  BY <1>2, <1>0 DEF StartCanceled, Making, flags, sources, Setter, SetPCs, Kind
<1>3. ASSUME NEW u \in Users, NEW t \in Tasks, Pend(u, t) PROVE Setter(x)'
  <2>1. /\ (\A b \in Actors \ {u} : at'[b] = at[b]) /\ at'[u].pc \in {"scan", "register"}
        /\ known' = known
    BY <1>3, PendFacts
  <2>2. UNCHANGED <<plan, claimed, canceledFlag, promise>> BY <1>3 DEF Pend, sources
  <2> QED BY <1>0, <2>1, <2>2 DEF Setter, SetPCs, Kind
<1>4. ASSUME NEW u \in Users, NEW t \in Tasks, Unwrap(u, t) PROVE Setter(x)'
  <2>1. /\ (\A b \in Actors \ {t} : at'[b] = at[b]) /\ (at' = at \/ at'[t].pc = "enter")
        /\ known' = known \cup {t}
    BY <1>4, UnwrapFacts
  <2>2. UNCHANGED <<plan, claimed, canceledFlag, promise>> BY <1>4 DEF Unwrap, sources
  <2> QED BY <1>0, <2>1, <2>2 DEF Setter, SetPCs, Kind
<1>4a. ASSUME NEW u \in Users, NEW t \in Tasks, UnwrapEnded(u, t) PROVE Setter(x)'
  BY <1>4a, <1>0 DEF UnwrapEnded, Making, flags, sources, Setter, SetPCs, Kind
<1>5. ASSUME NEW u \in Users, NEW t \in Tasks, Wait(u, t) PROVE Setter(x)'
  <2>1. (\A b \in Actors \ {u} : at'[b] = at[b]) /\ at'[u].pc \in {"enter"} BY <1>5, <1>0, WaitFacts
  <2> QED BY <1>5, <1>0, <2>1 DEF Wait, sources, Setter, SetPCs, Kind
<1>6. ASSUME NEW u \in Users, NEW t \in Tasks, NEW how \in Hows, TrySet(u, t, how) PROVE Setter(x)'
  <2>1. (\A b \in Actors \ {u} : at'[b] = at[b]) /\ at'[u].pc = "claim" /\ at'[u].task = t
    BY <1>6, TrySetFacts
  <2>2. /\ UNCHANGED <<known, plan, claimed, canceledFlag, promise>> /\ t \in known
        /\ Kind(t) = "source"
    BY <1>6 DEF TrySet, sources
  <2> QED BY <1>0, <2>1, <2>2 DEF Setter, SetPCs, Kind
<1>7. ASSUME NEW u \in Users, Scan(u) PROVE Setter(x)'
  <2>1. (\A b \in Actors \ {u} : at'[b] = at[b]) /\ at'[u].pc \in {"idle", "scan", "register"}
        /\ UNCHANGED <<plan, claimed, canceledFlag, promise>> /\ known \subseteq known'
    BY <1>7, <1>0, ScanFacts
  <2> QED BY <1>0, <2>1 DEF Setter, SetPCs, Kind
<1>8. ASSUME NEW u \in Users, Register(u) PROVE Setter(x)'
  <2>1. at[u].pc = "register" BY <1>8 DEF Register
  <2>2. /\ (\A b \in Actors \ {u} : at'[b] = at[b])
        /\ at'[u].pc \in {"push", "calling", "register", "idle"}
        /\ UNCHANGED <<plan, claimed, canceledFlag, promise>> /\ known \subseteq known'
    BY <1>8, <1>0, <2>1, RegisterFacts, RegisteredFacts DEF RegPCs
  <2> QED BY <1>0, <2>2 DEF Setter, SetPCs, Kind
<1>9. ASSUME NEW u \in Users, Push(u) PROVE Setter(x)'
  <2>1. at[u].pc = "push" /\ Registered(u) /\ UNCHANGED <<plan, claimed, canceledFlag, promise>>
    BY <1>9 DEF Push, flags, sources
  <2>2. /\ (\A b \in Actors \ {u} : at'[b] = at[b]) /\ at'[u].pc \in {"register", "idle"}
        /\ known \subseteq known'
    BY <1>0, <2>1, RegisteredFacts DEF RegPCs
  <2> QED BY <1>0, <2>1, <2>2 DEF Setter, SetPCs, Kind
<1>10. ASSUME NEW u \in Users, Returned(u) PROVE Setter(x)'
  <2>1. at[u].pc = "calling" /\ Registered(u) /\ UNCHANGED <<plan, claimed, canceledFlag, promise>>
    BY <1>10 DEF Returned, flags, sources
  <2>2. /\ (\A b \in Actors \ {u} : at'[b] = at[b]) /\ at'[u].pc \in {"register", "idle"}
        /\ known \subseteq known'
    BY <1>0, <2>1, RegisteredFacts DEF RegPCs
  <2> QED BY <1>0, <2>1, <2>2 DEF Setter, SetPCs, Kind
<1>11. ASSUME NEW u \in Users, WaitReturn(u) PROVE Setter(x)'
  <2>1. at' = [at EXCEPT ![u] = Idle] /\ UNCHANGED <<known, plan, claimed, canceledFlag, promise>>
    BY <1>11 DEF WaitReturn, sources
  <2> QED BY <1>0, <2>1 DEF Setter, SetPCs, Kind
<1>12. ASSUME NEW a \in Actors, WaitEnter(a) PROVE Setter(x)'
  <2>1. /\ (\A b \in Actors \ {a} : at'[b] = at[b])
        /\ at'[a].pc \in {"woken", "lock", "sleeping", "parked"}
    BY <1>12, <1>0, WaitStepFacts
  <2> QED BY <1>12, <1>0, <2>1 DEF WaitEnter, sources, Setter, SetPCs, Kind
<1>13. ASSUME NEW a \in Actors, WaitTest(a) PROVE Setter(x)'
  <2>1. /\ (\A b \in Actors \ {a} : at'[b] = at[b])
        /\ at'[a].pc \in {"woken", "lock", "sleeping", "parked"}
    BY <1>13, <1>0, WaitStepFacts
  <2> QED BY <1>13, <1>0, <2>1 DEF WaitTest, sources, Setter, SetPCs, Kind
<1>14. ASSUME NEW a \in Actors, WaitSleep(a) PROVE Setter(x)'
  <2>1. /\ (\A b \in Actors \ {a} : at'[b] = at[b])
        /\ at'[a].pc \in {"woken", "lock", "sleeping", "parked"}
    BY <1>14, <1>0, WaitStepFacts
  <2> QED BY <1>14, <1>0, <2>1 DEF WaitSleep, sources, Setter, SetPCs, Kind
<1>15. ASSUME NEW a \in Actors, Claim(a) PROVE Setter(x)'
  <2>0. PICK t : t = at[a].task OBVIOUS
  <2>1. /\ \A b \in Actors \ {a} : at'[b] = at[b]
        /\ at[a].pc \in SetPCs
        /\ \/ /\ at[a].pc = "claim" /\ claimed[t] = None /\ claimed' = [claimed EXCEPT ![t] = at[a].how]
              /\ at'[a].pc = (IF at[a].how = "cancel" THEN "flag" ELSE "promise")
              /\ at'[a].task = t /\ at'[a].how = at[a].how
              /\ UNCHANGED <<canceledFlag, promise>>
           \/ at[a].pc = "claim" /\ at'[a].pc = "idle" /\ UNCHANGED <<claimed, canceledFlag,
                                                                      promise>>
           \/ /\ at[a].pc = "flag" /\ canceledFlag' = [canceledFlag EXCEPT ![t] = TRUE]
              /\ at'[a].pc = "promise" /\ at'[a].task = t /\ at'[a].how = at[a].how
              /\ UNCHANGED <<claimed, promise>>
           \/ /\ at[a].pc = "promise" /\ at'[a].pc = "idle" /\ UNCHANGED <<claimed, canceledFlag>>
              /\ promise' = [promise EXCEPT ![t] = IF at[a].how = "result" THEN "value" ELSE "exception"]
    BY <1>15, <1>0, <2>0, SetFacts
  <2>2. t \in known /\ t \in Tasks /\ Kind(t) \in {"source", "unwrap"} /\ at[a].how \in Hows
    BY <2>0, <2>1, SetterFacts
  <2>3. UNCHANGED <<plan, known>> BY <1>15 DEF Claim
  <2>4. Setter(a) /\ Claimed(t) /\ \A b \in Actors : Alone(a, b) BY <2>2 DEF TaskIInv, Claims
  <2>5. x # a /\ at[x].pc \in {"flag", "promise"} /\ at[a].pc \in {"flag", "promise"} => at[x].task # t
    BY <2>0, <2>4 DEF Alone
  <2>6. at[x].pc \in SetPCs => at[x].task \in Tasks /\ at[x].how \in Hows BY SetterFacts
  <2> QED BY <1>0, <2>0, <2>1, <2>2, <2>3, <2>4, <2>5, <2>6 DEF Setter, SetPCs, Kind, Claimed
<1>16. ASSUME NEW a \in Actors, Flag(a) PROVE Setter(x)'
  <2>0. PICK t : t = at[a].task OBVIOUS
  <2>1. /\ \A b \in Actors \ {a} : at'[b] = at[b]
        /\ at[a].pc \in SetPCs
        /\ \/ /\ at[a].pc = "claim" /\ claimed[t] = None /\ claimed' = [claimed EXCEPT ![t] = at[a].how]
              /\ at'[a].pc = (IF at[a].how = "cancel" THEN "flag" ELSE "promise")
              /\ at'[a].task = t /\ at'[a].how = at[a].how
              /\ UNCHANGED <<canceledFlag, promise>>
           \/ at[a].pc = "claim" /\ at'[a].pc = "idle" /\ UNCHANGED <<claimed, canceledFlag,
                                                                      promise>>
           \/ /\ at[a].pc = "flag" /\ canceledFlag' = [canceledFlag EXCEPT ![t] = TRUE]
              /\ at'[a].pc = "promise" /\ at'[a].task = t /\ at'[a].how = at[a].how
              /\ UNCHANGED <<claimed, promise>>
           \/ /\ at[a].pc = "promise" /\ at'[a].pc = "idle" /\ UNCHANGED <<claimed, canceledFlag>>
              /\ promise' = [promise EXCEPT ![t] = IF at[a].how = "result" THEN "value" ELSE "exception"]
    BY <1>16, <1>0, <2>0, SetFacts
  <2>2. t \in known /\ t \in Tasks /\ Kind(t) \in {"source", "unwrap"} /\ at[a].how \in Hows
    BY <2>0, <2>1, SetterFacts
  <2>3. UNCHANGED <<plan, known>> BY <1>16 DEF Flag
  <2>4. Setter(a) /\ Claimed(t) /\ \A b \in Actors : Alone(a, b) BY <2>2 DEF TaskIInv, Claims
  <2>5. x # a /\ at[x].pc \in {"flag", "promise"} /\ at[a].pc \in {"flag", "promise"} => at[x].task # t
    BY <2>0, <2>4 DEF Alone
  <2>6. at[x].pc \in SetPCs => at[x].task \in Tasks /\ at[x].how \in Hows BY SetterFacts
  <2> QED BY <1>0, <2>0, <2>1, <2>2, <2>3, <2>4, <2>5, <2>6 DEF Setter, SetPCs, Kind, Claimed
<1>17. ASSUME NEW a \in Actors, Promise(a) PROVE Setter(x)'
  <2>0. PICK t : t = at[a].task OBVIOUS
  <2>1. /\ \A b \in Actors \ {a} : at'[b] = at[b]
        /\ at[a].pc \in SetPCs
        /\ \/ /\ at[a].pc = "claim" /\ claimed[t] = None /\ claimed' = [claimed EXCEPT ![t] = at[a].how]
              /\ at'[a].pc = (IF at[a].how = "cancel" THEN "flag" ELSE "promise")
              /\ at'[a].task = t /\ at'[a].how = at[a].how
              /\ UNCHANGED <<canceledFlag, promise>>
           \/ at[a].pc = "claim" /\ at'[a].pc = "idle" /\ UNCHANGED <<claimed, canceledFlag,
                                                                      promise>>
           \/ /\ at[a].pc = "flag" /\ canceledFlag' = [canceledFlag EXCEPT ![t] = TRUE]
              /\ at'[a].pc = "promise" /\ at'[a].task = t /\ at'[a].how = at[a].how
              /\ UNCHANGED <<claimed, promise>>
           \/ /\ at[a].pc = "promise" /\ at'[a].pc = "idle" /\ UNCHANGED <<claimed, canceledFlag>>
              /\ promise' = [promise EXCEPT ![t] = IF at[a].how = "result" THEN "value" ELSE "exception"]
    BY <1>17, <1>0, <2>0, SetFacts
  <2>2. t \in known /\ t \in Tasks /\ Kind(t) \in {"source", "unwrap"} /\ at[a].how \in Hows
    BY <2>0, <2>1, SetterFacts
  <2>3. UNCHANGED <<plan, known>> BY <1>17 DEF Promise
  <2>4. Setter(a) /\ Claimed(t) /\ \A b \in Actors : Alone(a, b) BY <2>2 DEF TaskIInv, Claims
  <2>5. x # a /\ at[x].pc \in {"flag", "promise"} /\ at[a].pc \in {"flag", "promise"} => at[x].task # t
    BY <2>0, <2>4 DEF Alone
  <2>6. at[x].pc \in SetPCs => at[x].task \in Tasks /\ at[x].how \in Hows BY SetterFacts
  <2> QED BY <1>0, <2>0, <2>1, <2>2, <2>3, <2>4, <2>5, <2>6 DEF Setter, SetPCs, Kind, Claimed
<1>18. ASSUME NEW t \in Tasks, Body(t) PROVE Setter(x)'
  BY <1>18, <1>0 DEF Body, flags, sources, Setter, SetPCs, Kind
<1>19. ASSUME NEW t \in Tasks, Bridge(t) PROVE Setter(x)'
  BY <1>19, <1>0 DEF Bridge, flags, sources, Setter, SetPCs, Kind
<1>20. ASSUME NEW t \in Tasks, Store(t) PROVE Setter(x)'
  BY <1>20, <1>0 DEF Store, flags, sources, Setter, SetPCs, Kind
<1>21. ASSUME NEW t \in Tasks, Complete(t) PROVE Setter(x)'
  BY <1>21, <1>0 DEF Complete, flags, sources, Setter, SetPCs, Kind
<1>22. ASSUME NEW t \in Tasks, Swap(t) PROVE Setter(x)'
  BY <1>22, <1>0 DEF Swap, flags, sources, Setter, SetPCs, Kind
<1>23. ASSUME NEW t \in Tasks, Notify(t) PROVE Setter(x)'
  <2>1. \A a \in Actors : at'[a] = at[a] \/ at'[a].pc = "lock" BY <1>23, <1>0, NotifyFacts
  <2>2. UNCHANGED <<known, plan, claimed, canceledFlag, promise>> BY <1>23 DEF Notify, sources
  <2> QED BY <1>0, <2>1, <2>2 DEF Setter, SetPCs, Kind
<1>24. ASSUME NEW t \in Tasks, Run(t) PROVE Setter(x)'
  <2>1. UNCHANGED <<known, at, plan, claimed, canceledFlag, promise>> BY <1>24 DEF Run, sources
  <2> QED BY <1>0, <2>1 DEF Setter, SetPCs, Kind
<1>25. ASSUME NEW t \in Tasks, CalleeDone(t) PROVE Setter(x)'
  BY <1>25, <1>0 DEF CalleeDone, flags, sources, Setter, SetPCs, Kind
<1>26. ASSUME NEW t \in Tasks, AllHeard(t) PROVE Setter(x)'
  <2>1. /\ (\A b \in Actors \ {t} : at'[b] = at[b]) /\ at'[t].pc \in {"enter", "idle"}
        /\ UNCHANGED <<known, plan, claimed, canceledFlag, promise>>
    BY <1>26, <1>0, AllHeardFacts
  <2> QED BY <1>0, <2>1 DEF Setter, SetPCs, Kind
<1>27. ASSUME NEW t \in Tasks, ProxyHeard(t) PROVE Setter(x)'
  <2>1. (\A b \in Actors \ {t} : at'[b] = at[b]) /\ Kind(t) = "unwrap" /\ step[t] # "none"
        /\ (at'[t].pc = "enter" \/ (at'[t].pc = "claim" /\ at'[t].task = t))
    BY <1>27, ProxyFacts
  <2>2. UNCHANGED <<known, plan, claimed, canceledFlag, promise>> BY <1>27 DEF ProxyHeard, sources
  <2>3. t \in known BY <2>1 DEF TaskIInv, Stages, Stage
  <2> QED BY <1>0, <2>1, <2>2, <2>3 DEF Setter, SetPCs, Kind
<1>28. CASE Cancel BY <1>28, <1>0 DEF Cancel, flags, sources, Setter, SetPCs, Kind
<1>29. CASE UNCHANGED vars BY <1>29, <1>0 DEF vars, flags, sources, Setter, SetPCs, Kind
<1> QED
  BY <1>1, <1>2, <1>3, <1>4, <1>5, <1>6, <1>7, <1>8, <1>9, <1>10, <1>11, <1>12, <1>13, <1>14,
     <1>15, <1>16, <1>17, <1>18, <1>19, <1>20, <1>21, <1>22, <1>23, <1>24, <1>25, <1>26, <1>27,
     <1>28, <1>29, <1>4a DEF Next, Call, UserStep, TaskStep, InCall, Actors

\* One producer at most is between the exchange on completed_ and the promise.
LEMMA AloneNext == TaskIInv /\ [Next]_vars => (\A x \in Actors, y \in Actors : Alone(x, y))'
<1> SUFFICES ASSUME TaskIInv, [Next]_vars, NEW x \in Actors, NEW y \in Actors PROVE Alone(x, y)'
  OBVIOUS
<1>0. /\ at \in [Actors -> AtType] /\ claimed \in [Tasks -> Hows \cup {None}]
      /\ promise \in [Tasks -> {"value", "exception", None}]
      /\ canceledFlag \in [Tasks -> BOOLEAN] /\ known \subseteq Tasks /\ None \notin Hows
      /\ None # "value"
      /\ Tasks \cap Users = {} /\ Idle.pc = "idle" /\ Users \subseteq Actors
      /\ Tasks \subseteq Actors /\ Alone(x, y)
  BY Types, IdleType DEF TaskIInv, Claims
<1>1. ASSUME NEW u \in Users, NEW t \in Tasks, Start(u, t) PROVE Alone(x, y)'
  <2>1. /\ (\A b \in Actors \ {t} : at'[b] = at[b]) /\ (at' = at \/ at'[t].pc = "enter")
        /\ known' = known \cup {t}
    BY <1>1, StartFacts
  <2>2. UNCHANGED <<plan, claimed, canceledFlag, promise>> BY <1>1 DEF Start, sources
  <2> QED BY <1>0, <2>1, <2>2 DEF Alone
<1>2. ASSUME NEW u \in Users, NEW t \in Tasks, StartCanceled(u, t) PROVE Alone(x, y)'
  BY <1>2, <1>0 DEF StartCanceled, Making, flags, sources, Alone
<1>3. ASSUME NEW u \in Users, NEW t \in Tasks, Pend(u, t) PROVE Alone(x, y)'
  <2>1. /\ (\A b \in Actors \ {u} : at'[b] = at[b]) /\ at'[u].pc \in {"scan", "register"}
        /\ known' = known
    BY <1>3, PendFacts
  <2>2. UNCHANGED <<plan, claimed, canceledFlag, promise>> BY <1>3 DEF Pend, sources
  <2> QED BY <1>0, <2>1, <2>2 DEF Alone
<1>4. ASSUME NEW u \in Users, NEW t \in Tasks, Unwrap(u, t) PROVE Alone(x, y)'
  <2>1. /\ (\A b \in Actors \ {t} : at'[b] = at[b]) /\ (at' = at \/ at'[t].pc = "enter")
        /\ known' = known \cup {t}
    BY <1>4, UnwrapFacts
  <2>2. UNCHANGED <<plan, claimed, canceledFlag, promise>> BY <1>4 DEF Unwrap, sources
  <2> QED BY <1>0, <2>1, <2>2 DEF Alone
<1>4a. ASSUME NEW u \in Users, NEW t \in Tasks, UnwrapEnded(u, t) PROVE Alone(x, y)'
  BY <1>4a, <1>0 DEF UnwrapEnded, Making, flags, sources, Alone
<1>5. ASSUME NEW u \in Users, NEW t \in Tasks, Wait(u, t) PROVE Alone(x, y)'
  <2>1. (\A b \in Actors \ {u} : at'[b] = at[b]) /\ at'[u].pc \in {"enter"} BY <1>5, <1>0, WaitFacts
  <2> QED BY <1>5, <1>0, <2>1 DEF Wait, sources, Alone
<1>6. ASSUME NEW u \in Users, NEW t \in Tasks, NEW how \in Hows, TrySet(u, t, how)
      PROVE Alone(x, y)'
  <2>1. (\A b \in Actors \ {u} : at'[b] = at[b]) /\ at'[u].pc \in {"claim"}
    BY <1>6, <1>0, TrySetFacts
  <2> QED BY <1>6, <1>0, <2>1 DEF TrySet, Alone
<1>7. ASSUME NEW u \in Users, Scan(u) PROVE Alone(x, y)'
  <2>1. (\A b \in Actors \ {u} : at'[b] = at[b]) /\ at'[u].pc \in {"idle", "scan", "register"}
        /\ UNCHANGED <<plan, claimed, canceledFlag, promise>> /\ known \subseteq known'
    BY <1>7, <1>0, ScanFacts
  <2> QED BY <1>0, <2>1 DEF Alone
<1>8. ASSUME NEW u \in Users, Register(u) PROVE Alone(x, y)'
  <2>1. at[u].pc = "register" BY <1>8 DEF Register
  <2>2. /\ (\A b \in Actors \ {u} : at'[b] = at[b])
        /\ at'[u].pc \in {"push", "calling", "register", "idle"}
        /\ UNCHANGED <<plan, claimed, canceledFlag, promise>> /\ known \subseteq known'
    BY <1>8, <1>0, <2>1, RegisterFacts, RegisteredFacts DEF RegPCs
  <2> QED BY <1>0, <2>2 DEF Alone
<1>9. ASSUME NEW u \in Users, Push(u) PROVE Alone(x, y)'
  <2>1. at[u].pc = "push" /\ Registered(u) /\ UNCHANGED <<plan, claimed, canceledFlag, promise>>
    BY <1>9 DEF Push, flags, sources
  <2>2. /\ (\A b \in Actors \ {u} : at'[b] = at[b]) /\ at'[u].pc \in {"register", "idle"}
        /\ known \subseteq known'
    BY <1>0, <2>1, RegisteredFacts DEF RegPCs
  <2> QED BY <1>0, <2>1, <2>2 DEF Alone
<1>10. ASSUME NEW u \in Users, Returned(u) PROVE Alone(x, y)'
  <2>1. at[u].pc = "calling" /\ Registered(u) /\ UNCHANGED <<plan, claimed, canceledFlag, promise>>
    BY <1>10 DEF Returned, flags, sources
  <2>2. /\ (\A b \in Actors \ {u} : at'[b] = at[b]) /\ at'[u].pc \in {"register", "idle"}
        /\ known \subseteq known'
    BY <1>0, <2>1, RegisteredFacts DEF RegPCs
  <2> QED BY <1>0, <2>1, <2>2 DEF Alone
<1>11. ASSUME NEW u \in Users, WaitReturn(u) PROVE Alone(x, y)'
  <2>1. at' = [at EXCEPT ![u] = Idle] /\ UNCHANGED <<known, plan, claimed, canceledFlag, promise>>
    BY <1>11 DEF WaitReturn, sources
  <2> QED BY <1>0, <2>1 DEF Alone
<1>12. ASSUME NEW a \in Actors, WaitEnter(a) PROVE Alone(x, y)'
  <2>1. /\ (\A b \in Actors \ {a} : at'[b] = at[b])
        /\ at'[a].pc \in {"woken", "lock", "sleeping", "parked"}
    BY <1>12, <1>0, WaitStepFacts
  <2> QED BY <1>12, <1>0, <2>1 DEF WaitEnter, sources, Alone
<1>13. ASSUME NEW a \in Actors, WaitTest(a) PROVE Alone(x, y)'
  <2>1. /\ (\A b \in Actors \ {a} : at'[b] = at[b])
        /\ at'[a].pc \in {"woken", "lock", "sleeping", "parked"}
    BY <1>13, <1>0, WaitStepFacts
  <2> QED BY <1>13, <1>0, <2>1 DEF WaitTest, sources, Alone
<1>14. ASSUME NEW a \in Actors, WaitSleep(a) PROVE Alone(x, y)'
  <2>1. /\ (\A b \in Actors \ {a} : at'[b] = at[b])
        /\ at'[a].pc \in {"woken", "lock", "sleeping", "parked"}
    BY <1>14, <1>0, WaitStepFacts
  <2> QED BY <1>14, <1>0, <2>1 DEF WaitSleep, sources, Alone
<1>15. ASSUME NEW a \in Actors, Claim(a) PROVE Alone(x, y)'
  <2>0. PICK t : t = at[a].task OBVIOUS
  <2>1. /\ \A b \in Actors \ {a} : at'[b] = at[b]
        /\ at[a].pc \in SetPCs
        /\ \/ /\ at[a].pc = "claim" /\ claimed[t] = None /\ claimed' = [claimed EXCEPT ![t] = at[a].how]
              /\ at'[a].pc = (IF at[a].how = "cancel" THEN "flag" ELSE "promise")
              /\ at'[a].task = t /\ at'[a].how = at[a].how
              /\ UNCHANGED <<canceledFlag, promise>>
           \/ at[a].pc = "claim" /\ at'[a].pc = "idle" /\ UNCHANGED <<claimed, canceledFlag,
                                                                      promise>>
           \/ /\ at[a].pc = "flag" /\ canceledFlag' = [canceledFlag EXCEPT ![t] = TRUE]
              /\ at'[a].pc = "promise" /\ at'[a].task = t /\ at'[a].how = at[a].how
              /\ UNCHANGED <<claimed, promise>>
           \/ /\ at[a].pc = "promise" /\ at'[a].pc = "idle" /\ UNCHANGED <<claimed, canceledFlag>>
              /\ promise' = [promise EXCEPT ![t] = IF at[a].how = "result" THEN "value" ELSE "exception"]
    BY <1>15, <1>0, <2>0, SetFacts
  <2>2. t \in known /\ t \in Tasks /\ Kind(t) \in {"source", "unwrap"} /\ at[a].how \in Hows
    BY <2>0, <2>1, SetterFacts
  <2>3. UNCHANGED <<plan, known>> BY <1>15 DEF Claim
  <2>4. Setter(a) /\ Claimed(t) /\ \A b \in Actors : Alone(a, b) BY <2>2 DEF TaskIInv, Claims
  <2>5. \A b \in Actors : at[b].pc \in {"flag", "promise"} => claimed[at[b].task] # None /\ at[b].task \in Tasks
    BY <1>0, SetterFacts DEF SetPCs
  <2> QED BY <1>0, <2>0, <2>1, <2>2, <2>5 DEF Alone, SetPCs
<1>16. ASSUME NEW a \in Actors, Flag(a) PROVE Alone(x, y)'
  <2>0. PICK t : t = at[a].task OBVIOUS
  <2>1. /\ \A b \in Actors \ {a} : at'[b] = at[b]
        /\ at[a].pc \in SetPCs
        /\ \/ /\ at[a].pc = "claim" /\ claimed[t] = None /\ claimed' = [claimed EXCEPT ![t] = at[a].how]
              /\ at'[a].pc = (IF at[a].how = "cancel" THEN "flag" ELSE "promise")
              /\ at'[a].task = t /\ at'[a].how = at[a].how
              /\ UNCHANGED <<canceledFlag, promise>>
           \/ at[a].pc = "claim" /\ at'[a].pc = "idle" /\ UNCHANGED <<claimed, canceledFlag,
                                                                      promise>>
           \/ /\ at[a].pc = "flag" /\ canceledFlag' = [canceledFlag EXCEPT ![t] = TRUE]
              /\ at'[a].pc = "promise" /\ at'[a].task = t /\ at'[a].how = at[a].how
              /\ UNCHANGED <<claimed, promise>>
           \/ /\ at[a].pc = "promise" /\ at'[a].pc = "idle" /\ UNCHANGED <<claimed, canceledFlag>>
              /\ promise' = [promise EXCEPT ![t] = IF at[a].how = "result" THEN "value" ELSE "exception"]
    BY <1>16, <1>0, <2>0, SetFacts
  <2>2. t \in known /\ t \in Tasks /\ Kind(t) \in {"source", "unwrap"} /\ at[a].how \in Hows
    BY <2>0, <2>1, SetterFacts
  <2>3. UNCHANGED <<plan, known>> BY <1>16 DEF Flag
  <2>4. Setter(a) /\ Claimed(t) /\ \A b \in Actors : Alone(a, b) BY <2>2 DEF TaskIInv, Claims
  <2>5. \A b \in Actors : at[b].pc \in {"flag", "promise"} => claimed[at[b].task] # None /\ at[b].task \in Tasks
    BY <1>0, SetterFacts DEF SetPCs
  <2> QED BY <1>0, <2>0, <2>1, <2>2, <2>5 DEF Alone, SetPCs
<1>17. ASSUME NEW a \in Actors, Promise(a) PROVE Alone(x, y)'
  <2>0. PICK t : t = at[a].task OBVIOUS
  <2>1. /\ \A b \in Actors \ {a} : at'[b] = at[b]
        /\ at[a].pc \in SetPCs
        /\ \/ /\ at[a].pc = "claim" /\ claimed[t] = None /\ claimed' = [claimed EXCEPT ![t] = at[a].how]
              /\ at'[a].pc = (IF at[a].how = "cancel" THEN "flag" ELSE "promise")
              /\ at'[a].task = t /\ at'[a].how = at[a].how
              /\ UNCHANGED <<canceledFlag, promise>>
           \/ at[a].pc = "claim" /\ at'[a].pc = "idle" /\ UNCHANGED <<claimed, canceledFlag,
                                                                      promise>>
           \/ /\ at[a].pc = "flag" /\ canceledFlag' = [canceledFlag EXCEPT ![t] = TRUE]
              /\ at'[a].pc = "promise" /\ at'[a].task = t /\ at'[a].how = at[a].how
              /\ UNCHANGED <<claimed, promise>>
           \/ /\ at[a].pc = "promise" /\ at'[a].pc = "idle" /\ UNCHANGED <<claimed, canceledFlag>>
              /\ promise' = [promise EXCEPT ![t] = IF at[a].how = "result" THEN "value" ELSE "exception"]
    BY <1>17, <1>0, <2>0, SetFacts
  <2>2. t \in known /\ t \in Tasks /\ Kind(t) \in {"source", "unwrap"} /\ at[a].how \in Hows
    BY <2>0, <2>1, SetterFacts
  <2>3. UNCHANGED <<plan, known>> BY <1>17 DEF Promise
  <2>4. Setter(a) /\ Claimed(t) /\ \A b \in Actors : Alone(a, b) BY <2>2 DEF TaskIInv, Claims
  <2>5. \A b \in Actors : at[b].pc \in {"flag", "promise"} => claimed[at[b].task] # None /\ at[b].task \in Tasks
    BY <1>0, SetterFacts DEF SetPCs
  <2> QED BY <1>0, <2>0, <2>1, <2>2, <2>5 DEF Alone, SetPCs
<1>18. ASSUME NEW t \in Tasks, Body(t) PROVE Alone(x, y)'
  BY <1>18, <1>0 DEF Body, flags, sources, Alone
<1>19. ASSUME NEW t \in Tasks, Bridge(t) PROVE Alone(x, y)'
  BY <1>19, <1>0 DEF Bridge, flags, sources, Alone
<1>20. ASSUME NEW t \in Tasks, Store(t) PROVE Alone(x, y)'
  BY <1>20, <1>0 DEF Store, flags, sources, Alone
<1>21. ASSUME NEW t \in Tasks, Complete(t) PROVE Alone(x, y)'
  BY <1>21, <1>0 DEF Complete, flags, sources, Alone
<1>22. ASSUME NEW t \in Tasks, Swap(t) PROVE Alone(x, y)'
  BY <1>22, <1>0 DEF Swap, flags, sources, Alone
<1>23. ASSUME NEW t \in Tasks, Notify(t) PROVE Alone(x, y)'
  <2>1. \A a \in Actors : at'[a] = at[a] \/ at'[a].pc = "lock" BY <1>23, <1>0, NotifyFacts
  <2>2. UNCHANGED <<known, plan, claimed, canceledFlag, promise>> BY <1>23 DEF Notify, sources
  <2> QED BY <1>0, <2>1, <2>2 DEF Alone
<1>24. ASSUME NEW t \in Tasks, Run(t) PROVE Alone(x, y)'
  <2>1. UNCHANGED <<known, at, plan, claimed, canceledFlag, promise>> BY <1>24 DEF Run, sources
  <2> QED BY <1>0, <2>1 DEF Alone
<1>25. ASSUME NEW t \in Tasks, CalleeDone(t) PROVE Alone(x, y)'
  BY <1>25, <1>0 DEF CalleeDone, flags, sources, Alone
<1>26. ASSUME NEW t \in Tasks, AllHeard(t) PROVE Alone(x, y)'
  <2>1. /\ (\A b \in Actors \ {t} : at'[b] = at[b]) /\ at'[t].pc \in {"enter", "idle"}
        /\ UNCHANGED <<known, plan, claimed, canceledFlag, promise>>
    BY <1>26, <1>0, AllHeardFacts
  <2> QED BY <1>0, <2>1 DEF Alone
<1>27. ASSUME NEW t \in Tasks, ProxyHeard(t) PROVE Alone(x, y)'
  <2>1. (\A b \in Actors \ {t} : at'[b] = at[b]) /\ at'[t].pc \in {"enter", "claim"}
    BY <1>27, ProxyFacts
  <2> QED BY <1>0, <2>1 DEF Alone
<1>28. CASE Cancel BY <1>28, <1>0 DEF Cancel, flags, sources, Alone
<1>29. CASE UNCHANGED vars BY <1>29, <1>0 DEF vars, flags, sources, Alone
<1> QED
  BY <1>1, <1>2, <1>3, <1>4, <1>5, <1>6, <1>7, <1>8, <1>9, <1>10, <1>11, <1>12, <1>13, <1>14,
     <1>15, <1>16, <1>17, <1>18, <1>19, <1>20, <1>21, <1>22, <1>23, <1>24, <1>25, <1>26, <1>27,
     <1>28, <1>29, <1>4a DEF Next, Call, UserStep, TaskStep, InCall, Actors

\* The promise holds what the winner of the exchange asked for.
LEMMA ClaimedNext == TaskIInv /\ [Next]_vars => (\A x \in Tasks : Claimed(x))'
<1> SUFFICES ASSUME TaskIInv, [Next]_vars, NEW x \in Tasks PROVE Claimed(x)'
  OBVIOUS
<1>0. /\ at \in [Actors -> AtType] /\ claimed \in [Tasks -> Hows \cup {None}]
      /\ promise \in [Tasks -> {"value", "exception", None}]
      /\ canceledFlag \in [Tasks -> BOOLEAN] /\ known \subseteq Tasks /\ None \notin Hows
      /\ None # "value"
      /\ Tasks \cap Users = {} /\ Idle.pc = "idle" /\ Users \subseteq Actors
      /\ Tasks \subseteq Actors /\ Claimed(x)
  BY Types, IdleType DEF TaskIInv, Claims
<1>1. ASSUME NEW u \in Users, NEW t \in Tasks, Start(u, t) PROVE Claimed(x)'
  BY <1>1, <1>0 DEF Start, Making, flags, sources, Claimed
<1>2. ASSUME NEW u \in Users, NEW t \in Tasks, StartCanceled(u, t) PROVE Claimed(x)'
  BY <1>2, <1>0 DEF StartCanceled, Making, flags, sources, Claimed
<1>3. ASSUME NEW u \in Users, NEW t \in Tasks, Pend(u, t) PROVE Claimed(x)'
  BY <1>3, <1>0 DEF Pend, Making, flags, sources, Claimed
<1>4. ASSUME NEW u \in Users, NEW t \in Tasks, Unwrap(u, t) PROVE Claimed(x)'
  BY <1>4, <1>0 DEF Unwrap, Making, flags, sources, Claimed
<1>4a. ASSUME NEW u \in Users, NEW t \in Tasks, UnwrapEnded(u, t) PROVE Claimed(x)'
  BY <1>4a, <1>0 DEF UnwrapEnded, Making, flags, sources, Claimed
<1>5. ASSUME NEW u \in Users, NEW t \in Tasks, Wait(u, t) PROVE Claimed(x)'
  BY <1>5, <1>0 DEF Wait, flags, sources, Claimed
<1>6. ASSUME NEW u \in Users, NEW t \in Tasks, NEW how \in Hows, TrySet(u, t, how) PROVE Claimed(x)'
  BY <1>6, <1>0 DEF TrySet, flags, sources, Claimed
<1>7. ASSUME NEW u \in Users, Scan(u) PROVE Claimed(x)'
  <2>1. UNCHANGED <<claimed, canceledFlag, promise>> BY <1>7, ScanFacts
  <2> QED BY <1>0, <2>1 DEF Claimed
<1>8. ASSUME NEW u \in Users, Register(u) PROVE Claimed(x)'
  <2>1. UNCHANGED <<claimed, canceledFlag, promise>> BY <1>8, RegisterFacts
  <2> QED BY <1>0, <2>1 DEF Claimed
<1>9. ASSUME NEW u \in Users, Push(u) PROVE Claimed(x)'
  BY <1>9, <1>0 DEF Push, flags, sources, Claimed
<1>10. ASSUME NEW u \in Users, Returned(u) PROVE Claimed(x)'
  BY <1>10, <1>0 DEF Returned, flags, sources, Claimed
<1>11. ASSUME NEW u \in Users, WaitReturn(u) PROVE Claimed(x)'
  BY <1>11, <1>0 DEF WaitReturn, flags, sources, Claimed
<1>12. ASSUME NEW a \in Actors, WaitEnter(a) PROVE Claimed(x)'
  BY <1>12, <1>0 DEF WaitEnter, flags, sources, Claimed
<1>13. ASSUME NEW a \in Actors, WaitTest(a) PROVE Claimed(x)'
  BY <1>13, <1>0 DEF WaitTest, flags, sources, Claimed
<1>14. ASSUME NEW a \in Actors, WaitSleep(a) PROVE Claimed(x)'
  BY <1>14, <1>0 DEF WaitSleep, flags, sources, Claimed
<1>15. ASSUME NEW a \in Actors, Claim(a) PROVE Claimed(x)'
  <2>0. PICK t : t = at[a].task OBVIOUS
  <2>1. /\ \A b \in Actors \ {a} : at'[b] = at[b]
        /\ at[a].pc \in SetPCs
        /\ \/ /\ at[a].pc = "claim" /\ claimed[t] = None /\ claimed' = [claimed EXCEPT ![t] = at[a].how]
              /\ at'[a].pc = (IF at[a].how = "cancel" THEN "flag" ELSE "promise")
              /\ at'[a].task = t /\ at'[a].how = at[a].how
              /\ UNCHANGED <<canceledFlag, promise>>
           \/ at[a].pc = "claim" /\ at'[a].pc = "idle" /\ UNCHANGED <<claimed, canceledFlag,
                                                                      promise>>
           \/ /\ at[a].pc = "flag" /\ canceledFlag' = [canceledFlag EXCEPT ![t] = TRUE]
              /\ at'[a].pc = "promise" /\ at'[a].task = t /\ at'[a].how = at[a].how
              /\ UNCHANGED <<claimed, promise>>
           \/ /\ at[a].pc = "promise" /\ at'[a].pc = "idle" /\ UNCHANGED <<claimed, canceledFlag>>
              /\ promise' = [promise EXCEPT ![t] = IF at[a].how = "result" THEN "value" ELSE "exception"]
    BY <1>15, <1>0, <2>0, SetFacts
  <2>2. t \in known /\ t \in Tasks /\ Kind(t) \in {"source", "unwrap"} /\ at[a].how \in Hows
    BY <2>0, <2>1, SetterFacts
  <2>3. UNCHANGED <<plan, known>> BY <1>15 DEF Claim
  <2>4. Setter(a) /\ Claimed(t) /\ \A b \in Actors : Alone(a, b) BY <2>2 DEF TaskIInv, Claims
  <2> QED BY <1>0, <2>0, <2>1, <2>2, <2>4 DEF Setter, SetPCs, Claimed, Hows
<1>16. ASSUME NEW a \in Actors, Flag(a) PROVE Claimed(x)'
  <2>0. PICK t : t = at[a].task OBVIOUS
  <2>1. /\ \A b \in Actors \ {a} : at'[b] = at[b]
        /\ at[a].pc \in SetPCs
        /\ \/ /\ at[a].pc = "claim" /\ claimed[t] = None /\ claimed' = [claimed EXCEPT ![t] = at[a].how]
              /\ at'[a].pc = (IF at[a].how = "cancel" THEN "flag" ELSE "promise")
              /\ at'[a].task = t /\ at'[a].how = at[a].how
              /\ UNCHANGED <<canceledFlag, promise>>
           \/ at[a].pc = "claim" /\ at'[a].pc = "idle" /\ UNCHANGED <<claimed, canceledFlag,
                                                                      promise>>
           \/ /\ at[a].pc = "flag" /\ canceledFlag' = [canceledFlag EXCEPT ![t] = TRUE]
              /\ at'[a].pc = "promise" /\ at'[a].task = t /\ at'[a].how = at[a].how
              /\ UNCHANGED <<claimed, promise>>
           \/ /\ at[a].pc = "promise" /\ at'[a].pc = "idle" /\ UNCHANGED <<claimed, canceledFlag>>
              /\ promise' = [promise EXCEPT ![t] = IF at[a].how = "result" THEN "value" ELSE "exception"]
    BY <1>16, <1>0, <2>0, SetFacts
  <2>2. t \in known /\ t \in Tasks /\ Kind(t) \in {"source", "unwrap"} /\ at[a].how \in Hows
    BY <2>0, <2>1, SetterFacts
  <2>3. UNCHANGED <<plan, known>> BY <1>16 DEF Flag
  <2>4. Setter(a) /\ Claimed(t) /\ \A b \in Actors : Alone(a, b) BY <2>2 DEF TaskIInv, Claims
  <2> QED BY <1>0, <2>0, <2>1, <2>2, <2>4 DEF Setter, SetPCs, Claimed, Hows
<1>17. ASSUME NEW a \in Actors, Promise(a) PROVE Claimed(x)'
  <2>0. PICK t : t = at[a].task OBVIOUS
  <2>1. /\ \A b \in Actors \ {a} : at'[b] = at[b]
        /\ at[a].pc \in SetPCs
        /\ \/ /\ at[a].pc = "claim" /\ claimed[t] = None /\ claimed' = [claimed EXCEPT ![t] = at[a].how]
              /\ at'[a].pc = (IF at[a].how = "cancel" THEN "flag" ELSE "promise")
              /\ at'[a].task = t /\ at'[a].how = at[a].how
              /\ UNCHANGED <<canceledFlag, promise>>
           \/ at[a].pc = "claim" /\ at'[a].pc = "idle" /\ UNCHANGED <<claimed, canceledFlag,
                                                                      promise>>
           \/ /\ at[a].pc = "flag" /\ canceledFlag' = [canceledFlag EXCEPT ![t] = TRUE]
              /\ at'[a].pc = "promise" /\ at'[a].task = t /\ at'[a].how = at[a].how
              /\ UNCHANGED <<claimed, promise>>
           \/ /\ at[a].pc = "promise" /\ at'[a].pc = "idle" /\ UNCHANGED <<claimed, canceledFlag>>
              /\ promise' = [promise EXCEPT ![t] = IF at[a].how = "result" THEN "value" ELSE "exception"]
    BY <1>17, <1>0, <2>0, SetFacts
  <2>2. t \in known /\ t \in Tasks /\ Kind(t) \in {"source", "unwrap"} /\ at[a].how \in Hows
    BY <2>0, <2>1, SetterFacts
  <2>3. UNCHANGED <<plan, known>> BY <1>17 DEF Promise
  <2>4. Setter(a) /\ Claimed(t) /\ \A b \in Actors : Alone(a, b) BY <2>2 DEF TaskIInv, Claims
  <2> QED BY <1>0, <2>0, <2>1, <2>2, <2>4 DEF Setter, SetPCs, Claimed, Hows
<1>18. ASSUME NEW t \in Tasks, Body(t) PROVE Claimed(x)'
  BY <1>18, <1>0 DEF Body, flags, sources, Claimed
<1>19. ASSUME NEW t \in Tasks, Bridge(t) PROVE Claimed(x)'
  BY <1>19, <1>0 DEF Bridge, flags, sources, Claimed
<1>20. ASSUME NEW t \in Tasks, Store(t) PROVE Claimed(x)'
  BY <1>20, <1>0 DEF Store, flags, sources, Claimed
<1>21. ASSUME NEW t \in Tasks, Complete(t) PROVE Claimed(x)'
  BY <1>21, <1>0 DEF Complete, flags, sources, Claimed
<1>22. ASSUME NEW t \in Tasks, Swap(t) PROVE Claimed(x)'
  BY <1>22, <1>0 DEF Swap, flags, sources, Claimed
<1>23. ASSUME NEW t \in Tasks, Notify(t) PROVE Claimed(x)'
  BY <1>23, <1>0 DEF Notify, flags, sources, Claimed
<1>24. ASSUME NEW t \in Tasks, Run(t) PROVE Claimed(x)'
  BY <1>24, <1>0 DEF Run, flags, sources, Claimed
<1>25. ASSUME NEW t \in Tasks, CalleeDone(t) PROVE Claimed(x)'
  BY <1>25, <1>0 DEF CalleeDone, flags, sources, Claimed
<1>26. ASSUME NEW t \in Tasks, AllHeard(t) PROVE Claimed(x)'
  <2>1. UNCHANGED <<claimed, canceledFlag, promise>> BY <1>26, AllHeardFacts
  <2> QED BY <1>0, <2>1 DEF Claimed
<1>27. ASSUME NEW t \in Tasks, ProxyHeard(t) PROVE Claimed(x)'
  BY <1>27, <1>0 DEF ProxyHeard, flags, sources, Claimed
<1>28. CASE Cancel BY <1>28, <1>0 DEF Cancel, flags, sources, Claimed
<1>29. CASE UNCHANGED vars BY <1>29, <1>0 DEF vars, flags, sources, Claimed
<1> QED
  BY <1>1, <1>2, <1>3, <1>4, <1>5, <1>6, <1>7, <1>8, <1>9, <1>10, <1>11, <1>12, <1>13, <1>14,
     <1>15, <1>16, <1>17, <1>18, <1>19, <1>20, <1>21, <1>22, <1>23, <1>24, <1>25, <1>26, <1>27,
     <1>28, <1>29, <1>4a DEF Next, Call, UserStep, TaskStep, InCall, Actors

\* A source and a proxy store the outcome that was asked for, and a task with a token is
\* canceled by the request alone.
LEMMA WordsNext == TaskIInv /\ [Next]_vars => (\A x \in Tasks : Word(x))'
<1> SUFFICES ASSUME TaskIInv, [Next]_vars, NEW x \in Tasks PROVE Word(x)'
  OBVIOUS
<1>0. /\ step \in [Tasks -> Steps] /\ outcome \in [Tasks -> {"ok", "fault", "oce", "canceled"}]
      /\ isFaulted \in [Tasks -> BOOLEAN] /\ isCanceled \in [Tasks -> BOOLEAN]
      /\ requested \in BOOLEAN
      /\ claimed \in [Tasks -> Hows \cup {None}]
      /\ promise \in [Tasks -> {"value", "exception", None}]
      /\ None \notin Hows /\ None # "value" /\ Word(x)
  BY Types DEF TaskIInv, Words
<1>1. ASSUME NEW u \in Users, NEW t \in Tasks, Start(u, t) PROVE Word(x)'
  BY <1>1, <1>0 DEF Start, Making, flags, sources, Word, NoInner, Kind, Past
<1>2. ASSUME NEW u \in Users, NEW t \in Tasks, StartCanceled(u, t) PROVE Word(x)'
  <2>1. step[t] = "none" BY <1>2, MakingFacts DEF StartCanceled
  <2>2. /\ Kind(t) = "token" /\ requested /\ isCanceled' = [isCanceled EXCEPT ![t] = TRUE]
        /\ step' = [step EXCEPT ![t] = "done"]
        /\ UNCHANGED <<plan, requested, outcome, isFaulted, claimed, promise>>
    BY <1>2 DEF StartCanceled, sources
  <2> QED BY <1>0, <2>1, <2>2 DEF Word, NoInner, Kind, Past
<1>3. ASSUME NEW u \in Users, NEW t \in Tasks, Pend(u, t) PROVE Word(x)'
  BY <1>3, <1>0 DEF Pend, Making, flags, sources, Word, NoInner, Kind, Past
<1>4. ASSUME NEW u \in Users, NEW t \in Tasks, Unwrap(u, t) PROVE Word(x)'
  <2>1. /\ plan' = plan /\ step[t] = "none"
        /\ step' = [step EXCEPT ![t] = "body"]
    BY <1>4, UnwrapFacts
  <2>2. UNCHANGED <<requested, outcome, isFaulted, isCanceled, claimed, promise>>
    BY <1>4 DEF Unwrap, flags, sources
  <2> QED BY <1>0, <2>1, <2>2 DEF Word, NoInner, Kind, Past
<1>4a. ASSUME NEW u \in Users, NEW t \in Tasks, UnwrapEnded(u, t) PROVE Word(x)'
  <2>1. step[t] = "none" BY <1>4a, MakingFacts DEF UnwrapEnded
  <2>2. /\ Kind(t) = "unwrap" /\ UNCHANGED <<plan, requested, outcome, isFaulted, claimed, promise>>
        /\ \/ step' = [step EXCEPT ![t] = "inner"] /\ isCanceled' = isCanceled
           \/ /\ step' = [step EXCEPT ![t] = "done"]
              /\ isCanceled' = [isCanceled EXCEPT ![t] = TRUE]
    BY <1>4a, UnwrapEndedFacts
  <2>3. ~isFaulted[t] /\ claimed[t] = None BY <1>4a, UnwrapEndedFacts, MakingFacts
  <2> QED BY <1>0, <2>1, <2>2, <2>3 DEF Word, NoInner, Kind, Past
<1>5. ASSUME NEW u \in Users, NEW t \in Tasks, Wait(u, t) PROVE Word(x)'
  BY <1>5, <1>0 DEF Wait, flags, sources, Word, NoInner, Kind, Past
<1>6. ASSUME NEW u \in Users, NEW t \in Tasks, NEW how \in Hows, TrySet(u, t, how) PROVE Word(x)'
  BY <1>6, <1>0 DEF TrySet, flags, sources, Word, NoInner, Kind, Past
<1>7. ASSUME NEW u \in Users, Scan(u) PROVE Word(x)'
  <2>0. PICK c : c = at[u].task OBVIOUS
  <2>1. c \in Tasks /\ Kind(c) = "any" BY <1>7, <2>0, MakerFacts, Types DEF Scan, RegPCs
  <2>2. /\ UNCHANGED <<plan, requested, outcome, isFaulted, isCanceled, claimed, promise>>
        /\ (step' = [step EXCEPT ![c] = "done"] \/ step' = step)
    BY <1>7, <2>0, ScanFacts
  <2> QED BY <1>0, <2>1, <2>2 DEF Word, NoInner, Kind, Past
<1>8. ASSUME NEW u \in Users, Register(u) PROVE Word(x)'
  <2>0. PICK c, s : c = at[u].task /\ s = Here(u) OBVIOUS
  <2>1. c \in Tasks /\ Kind(c) \in {"then", "any"}
    BY <1>8, <2>0, MakerFacts, Types DEF Register, RegPCs
  <2>2. /\ UNCHANGED <<plan, requested, isFaulted, isCanceled, claimed, promise>>
        /\ \/ UNCHANGED <<step, outcome>>
           \/ \A t \in Tasks \ {c} : step'[t] = step[t] /\ outcome'[t] = outcome[t]
    BY <1>8, <2>0, RegisterFacts DEF Wakes
  <2> QED BY <1>0, <2>1, <2>2 DEF Word, NoInner, Kind, Past
<1>9. ASSUME NEW u \in Users, Push(u) PROVE Word(x)'
  BY <1>9, <1>0 DEF Push, flags, sources, Word, NoInner, Kind, Past
<1>10. ASSUME NEW u \in Users, Returned(u) PROVE Word(x)'
  BY <1>10, <1>0 DEF Returned, flags, sources, Word, NoInner, Kind, Past
<1>11. ASSUME NEW u \in Users, WaitReturn(u) PROVE Word(x)'
  BY <1>11, <1>0 DEF WaitReturn, flags, sources, Word, NoInner, Kind, Past
<1>12. ASSUME NEW a \in Actors, WaitEnter(a) PROVE Word(x)'
  BY <1>12, <1>0 DEF WaitEnter, flags, sources, Word, NoInner, Kind, Past
<1>13. ASSUME NEW a \in Actors, WaitTest(a) PROVE Word(x)'
  BY <1>13, <1>0 DEF WaitTest, flags, sources, Word, NoInner, Kind, Past
<1>14. ASSUME NEW a \in Actors, WaitSleep(a) PROVE Word(x)'
  BY <1>14, <1>0 DEF WaitSleep, flags, sources, Word, NoInner, Kind, Past
<1>15. ASSUME NEW a \in Actors, Claim(a) PROVE Word(x)'
  <2>0. PICK t : t = at[a].task OBVIOUS
  <2>1. /\ at[a].pc \in SetPCs
        /\ \/ at[a].pc = "claim" /\ claimed[t] = None /\ claimed' = [claimed EXCEPT ![t] = at[a].how] /\ promise' = promise
           \/ UNCHANGED <<claimed, promise>>
           \/ /\ at[a].pc = "promise" /\ claimed' = claimed
              /\ promise' = [promise EXCEPT ![t] = IF at[a].how = "result" THEN "value" ELSE "exception"]
    BY <1>15, <2>0, SetFacts
  <2>2. t \in Tasks /\ (at[a].pc = "promise" => promise[t] = None) BY <2>0, <2>1, SetterFacts
  <2>3. /\ promise[t] # None => claimed[t] # None
        /\ Kind(t) = "unwrap" => step[t] = "body"
    BY <2>0, <2>1, <2>2, SetterFacts, TaskActorFacts DEF TaskIInv, Claims, Claimed, Setter, SetPCs
  <2>4. UNCHANGED <<plan, step, requested, outcome, isFaulted, isCanceled>>
    BY <1>15 DEF Claim, flags
  <2> QED BY <1>0, <2>1, <2>2, <2>3, <2>4 DEF Word, NoInner, Kind, Past
<1>16. ASSUME NEW a \in Actors, Flag(a) PROVE Word(x)'
  <2>0. PICK t : t = at[a].task OBVIOUS
  <2>1. /\ at[a].pc \in SetPCs
        /\ \/ at[a].pc = "claim" /\ claimed[t] = None /\ claimed' = [claimed EXCEPT ![t] = at[a].how] /\ promise' = promise
           \/ UNCHANGED <<claimed, promise>>
           \/ /\ at[a].pc = "promise" /\ claimed' = claimed
              /\ promise' = [promise EXCEPT ![t] = IF at[a].how = "result" THEN "value" ELSE "exception"]
    BY <1>16, <2>0, SetFacts
  <2>2. t \in Tasks /\ (at[a].pc = "promise" => promise[t] = None) BY <2>0, <2>1, SetterFacts
  <2>3. /\ promise[t] # None => claimed[t] # None
        /\ Kind(t) = "unwrap" => step[t] = "body"
    BY <2>0, <2>1, <2>2, SetterFacts, TaskActorFacts DEF TaskIInv, Claims, Claimed, Setter, SetPCs
  <2>4. UNCHANGED <<plan, step, requested, outcome, isFaulted, isCanceled>> BY <1>16 DEF Flag, flags
  <2> QED BY <1>0, <2>1, <2>2, <2>3, <2>4 DEF Word, NoInner, Kind, Past
<1>17. ASSUME NEW a \in Actors, Promise(a) PROVE Word(x)'
  <2>0. PICK t : t = at[a].task OBVIOUS
  <2>1. /\ at[a].pc \in SetPCs
        /\ \/ at[a].pc = "claim" /\ claimed[t] = None /\ claimed' = [claimed EXCEPT ![t] = at[a].how] /\ promise' = promise
           \/ UNCHANGED <<claimed, promise>>
           \/ /\ at[a].pc = "promise" /\ claimed' = claimed
              /\ promise' = [promise EXCEPT ![t] = IF at[a].how = "result" THEN "value" ELSE "exception"]
    BY <1>17, <2>0, SetFacts
  <2>2. t \in Tasks /\ (at[a].pc = "promise" => promise[t] = None) BY <2>0, <2>1, SetterFacts
  <2>3. /\ promise[t] # None => claimed[t] # None
        /\ Kind(t) = "unwrap" => step[t] = "body"
    BY <2>0, <2>1, <2>2, SetterFacts, TaskActorFacts DEF TaskIInv, Claims, Claimed, Setter, SetPCs
  <2>4. UNCHANGED <<plan, step, requested, outcome, isFaulted, isCanceled>>
    BY <1>17 DEF Promise, flags
  <2> QED BY <1>0, <2>1, <2>2, <2>3, <2>4 DEF Word, NoInner, Kind, Past
<1>18. ASSUME NEW t \in Tasks, Body(t) PROVE Word(x)'
  <2>1. /\ UNCHANGED <<plan, requested, isFaulted, isCanceled, claimed,
                       promise>> /\ step[t] = "body"
        /\ Kind(t) \in {"action", "token", "then"} /\ step' = [step EXCEPT ![t] = "store"]
    BY <1>18 DEF Body, flags, sources
  <2>2. \E o \in {"ok", "fault", "oce"} : outcome' = [outcome EXCEPT ![t] = o] BY <1>18 DEF Body
  <2> QED BY <1>0, <2>1, <2>2 DEF Word, NoInner, Kind, Past
<1>19. ASSUME NEW t \in Tasks, Bridge(t) PROVE Word(x)'
  <2>1. /\ UNCHANGED <<plan, requested, isFaulted, isCanceled, claimed,
                       promise>> /\ step[t] = "body"
        /\ Kind(t) \in {"source", "unwrap"} /\ step' = [step EXCEPT ![t] = "store"]
        /\ promise[t] # None
        /\ outcome' = [outcome EXCEPT ![t] = IF promise[t] = "value" THEN "ok"
                                             ELSE IF canceledFlag[t] THEN "canceled" ELSE "fault"]
    BY <1>19 DEF Bridge, flags, sources
  <2>2. Claimed(t) /\ claimed[t] \in Hows BY <1>0, <2>1 DEF TaskIInv, Claims, Claimed
  <2>3. CASE x # t BY <1>0, <2>1, <2>3 DEF Word, NoInner, Kind, Past
  <2>4. CASE x = t
    <3>1. /\ outcome'[x] = "ok" <=> claimed[x] = "result"
          /\ outcome'[x] = "fault" <=> claimed[x] \in {"exception", "badCopy"}
          /\ outcome'[x] = "canceled" <=> claimed[x] = "cancel"
      BY <1>0, <2>1, <2>2, <2>4 DEF Claimed, Hows
    <3> QED BY <1>0, <2>1, <2>4, <3>1 DEF Word, NoInner, Kind, Past
  <2> QED BY <2>3, <2>4
<1>20. ASSUME NEW t \in Tasks, Store(t) PROVE Word(x)'
  <2>1. /\ UNCHANGED <<plan, requested, outcome, claimed, promise>>
        /\ step' = [step EXCEPT ![t] = "complete"]
        /\ step[t] = "store" /\ \A z \in Tasks \ {t} : UNCHANGED <<isFaulted[z], isCanceled[z]>>
    BY <1>20, <1>0 DEF Store, sources
  <2>2. /\ isCanceled'[t] = Cancels(t)
        /\ isFaulted'[t] = (outcome[t] \in {"fault", "oce"} /\ ~Cancels(t))
    BY <1>20, <1>0 DEF Store
  <2>3. CASE x # t BY <1>0, <2>1, <2>3 DEF Word, NoInner, Kind, Past
  <2>4. CASE x = t
    <3>1. Kind(x) \in {"source", "unwrap"} =>
            (isCanceled'[x] <=> claimed[x] = "cancel") /\ (isFaulted'[x] <=> claimed[x] \in {"exception", "badCopy"})
      <4>1. Kind(x) \in {"source", "unwrap"} => claimed[x] \in Hows
        BY <1>0, <2>1, <2>4 DEF Word, NoInner, TaskIInv, Claims, Claimed
      <4> QED BY <1>0, <2>1, <2>2, <2>4, <4>1 DEF Word, NoInner, Cancels, Hows
    <3>2. Kind(x) = "token" => (isCanceled'[x] => requested)
      BY <1>0, <2>1, <2>2, <2>4 DEF Word, NoInner, Cancels
    <3> QED BY <1>0, <2>1, <2>4, <3>1, <3>2 DEF Word, NoInner, Kind, Past
  <2> QED BY <2>3, <2>4
<1>21. ASSUME NEW t \in Tasks, Complete(t) PROVE Word(x)'
  BY <1>21, <1>0 DEF Complete, flags, sources, Word, NoInner, Kind, Past
<1>22. ASSUME NEW t \in Tasks, Swap(t) PROVE Word(x)'
  BY <1>22, <1>0 DEF Swap, flags, sources, Word, NoInner, Kind, Past
<1>23. ASSUME NEW t \in Tasks, Notify(t) PROVE Word(x)'
  BY <1>23, <1>0 DEF Notify, flags, sources, Word, NoInner, Kind, Past
<1>24. ASSUME NEW t \in Tasks, Run(t) PROVE Word(x)'
  <2>0. PICK c : c = Head(toRun[t]) OBVIOUS
  <2>1. toRun[t] # <<>> => c \in Tasks /\ Kind(c) \in {"then", "any"} BY <2>0, HeadFacts
  <2>2. /\ UNCHANGED <<plan, requested, isFaulted, isCanceled, claimed, promise>> /\ step[t] = "run"
        /\ \/ step' = [step EXCEPT ![t] = "done"] /\ UNCHANGED <<outcome>>
           \/ /\ toRun[t] # <<>> /\ c # t /\ step'[t] = "calling" /\ \A z \in Tasks \ {c} : outcome'[z] = outcome[z]
              /\ \A z \in Tasks \ {c, t} : step'[z] = step[z]
           \/ UNCHANGED <<step, outcome>>
    BY <1>24, <2>0, RunFacts DEF Wakes
  <2> QED BY <1>0, <2>1, <2>2 DEF Word, NoInner, Kind, Past
<1>25. ASSUME NEW t \in Tasks, CalleeDone(t) PROVE Word(x)'
  BY <1>25, <1>0 DEF CalleeDone, flags, sources, Word, NoInner, Kind, Past
<1>26. ASSUME NEW t \in Tasks, AllHeard(t) PROVE Word(x)'
  <2>1. /\ UNCHANGED <<plan, requested, isFaulted, isCanceled, claimed,
                       promise>> /\ step[t] = "body" /\ Kind(t) = "all"
        /\ \/ UNCHANGED <<step, outcome>>
           \/ step' = [step EXCEPT ![t] = "store"] /\ \A z \in Tasks \ {t} : outcome'[z] = outcome[z]
    BY <1>26, AllHeardFacts
  <2> QED BY <1>0, <2>1 DEF Word, NoInner, Kind, Past
<1>27. ASSUME NEW t \in Tasks, ProxyHeard(t) PROVE Word(x)'
  BY <1>27, <1>0 DEF ProxyHeard, flags, sources, Word, NoInner, Kind, Past
<1>28. CASE Cancel BY <1>28, <1>0 DEF Cancel, flags, sources, Word, NoInner, Kind, Past
<1>29. CASE UNCHANGED vars BY <1>29, <1>0 DEF vars, flags, sources, Word, NoInner, Kind, Past
<1> QED
  BY <1>1, <1>2, <1>3, <1>4, <1>5, <1>6, <1>7, <1>8, <1>9, <1>10, <1>11, <1>12, <1>13, <1>14,
     <1>15, <1>16, <1>17, <1>18, <1>19, <1>20, <1>21, <1>22, <1>23, <1>24, <1>25, <1>26, <1>27,
     <1>28, <1>29, <1>4a DEF Next, Call, UserStep, TaskStep, InCall, Actors

\* Every step keeps the types.
LEMMA TypeNext == TaskIInv /\ [Next]_vars => TypeOK'
<1> SUFFICES ASSUME TaskIInv, [Next]_vars PROVE TypeOK'
  OBVIOUS
<1>0. /\ plan \in Plans
      /\ known \subseteq Tasks
      /\ requested \in BOOLEAN
      /\ step \in [Tasks -> Steps]
      /\ outcome \in [Tasks -> {"ok", "fault", "oce", "canceled"}]
      /\ isCompleted \in [Tasks -> BOOLEAN]
      /\ isFaulted \in [Tasks -> BOOLEAN]
      /\ isCanceled \in [Tasks -> BOOLEAN]
      /\ cause \in [Tasks -> Tasks \cup {None}]
      /\ result \in [Tasks -> Tasks \cup {None}]
      /\ mutex \in [Tasks -> Actors \cup {None}]
      /\ continuations \in [Tasks -> Seq(Tasks)]
      /\ toRun \in [Tasks -> Seq(Tasks)]
      /\ invoked \subseteq Tasks
      /\ claimed \in [Tasks -> Hows \cup {None}]
      /\ canceledFlag \in [Tasks -> BOOLEAN]
      /\ promise \in [Tasks -> {"value", "exception", None}]
      /\ at \in [Actors -> AtType]
      /\ tally \in [Tasks -> [fault : Tasks \cup {None}, canceled : BOOLEAN]]
      /\ Tasks \subseteq Actors /\ Users \subseteq Actors /\ Idle \in AtType
  BY Types, IdleType
<1>1. ASSUME NEW u \in Users, NEW t \in Tasks, Start(u, t) PROVE TypeOK'
  <2>1. at' \in [Actors -> AtType] /\ known' \subseteq Tasks
    BY <1>1, <1>0, StartFacts
  <2>2. step' \in [Tasks -> Steps]
    BY <1>1, <1>0 DEF Start, Steps
  <2>3. UNCHANGED <<plan, requested, outcome, isCompleted, isFaulted, isCanceled, cause, result,
                    mutex, continuations, toRun, invoked, claimed, canceledFlag, promise, tally>>
    BY <1>1 DEF Start, flags, sources
  <2> QED BY <1>0, <2>1, <2>2, <2>3 DEF TypeOK, AtType
<1>2. ASSUME NEW u \in Users, NEW t \in Tasks, StartCanceled(u, t) PROVE TypeOK'
  <2>1. /\ known' \subseteq Tasks /\ isCanceled' \in [Tasks -> BOOLEAN]
        /\ isCompleted' \in [Tasks -> BOOLEAN]
    BY <1>2, <1>0 DEF StartCanceled
  <2>2. step' \in [Tasks -> Steps]
    BY <1>2, <1>0 DEF StartCanceled, Steps
  <2>3. UNCHANGED <<plan, requested, outcome, isFaulted, cause, result, mutex, continuations,
                    toRun, invoked, claimed, canceledFlag, promise, at, tally>>
    BY <1>2 DEF StartCanceled, flags, sources
  <2> QED BY <1>0, <2>1, <2>2, <2>3 DEF TypeOK, AtType
<1>3. ASSUME NEW u \in Users, NEW t \in Tasks, Pend(u, t) PROVE TypeOK'
  <2>1. at' \in [Actors -> AtType]
    BY <1>3, PendFacts
  <2>2. step' \in [Tasks -> Steps]
    BY <1>3, <1>0 DEF Pend, Steps
  <2>3. UNCHANGED <<plan, known, requested, outcome, isCompleted, isFaulted, isCanceled, cause,
                    result, mutex, continuations, toRun, invoked, claimed, canceledFlag, promise, tally>>
    BY <1>3 DEF Pend, flags, sources
  <2> QED BY <1>0, <2>1, <2>2, <2>3 DEF TypeOK, AtType
<1>4. ASSUME NEW u \in Users, NEW t \in Tasks, Unwrap(u, t) PROVE TypeOK'
  <2>0. step' = [step EXCEPT ![t] = "body"]
    BY <1>4, UnwrapFacts
  <2>1. at' \in [Actors -> AtType] /\ known' \subseteq Tasks
    BY <1>4, <1>0, UnwrapFacts
  <2>2. step' \in [Tasks -> Steps]
    BY <1>0, <2>0 DEF Steps
  <2>3. UNCHANGED <<plan, requested, outcome, isCompleted, isFaulted, isCanceled, cause, result,
                    mutex, continuations, toRun, invoked, claimed, canceledFlag, promise, tally>>
    BY <1>4 DEF Unwrap, flags, sources
  <2> QED BY <1>0, <2>1, <2>2, <2>3 DEF TypeOK, AtType
<1>4a. ASSUME NEW u \in Users, NEW t \in Tasks, UnwrapEnded(u, t) PROVE TypeOK'
  <2>1. /\ known' \subseteq Tasks /\ isCanceled' \in [Tasks -> BOOLEAN]
        /\ isCompleted' \in [Tasks -> BOOLEAN]
    BY <1>4a, <1>0 DEF UnwrapEnded
  <2>2. step' \in [Tasks -> Steps]
    BY <1>4a, <1>0 DEF UnwrapEnded, Steps
  <2>3. UNCHANGED <<plan, requested, outcome, isFaulted, cause, result, mutex, continuations,
                    toRun, invoked, claimed, canceledFlag, promise, at, tally>>
    BY <1>4a DEF UnwrapEnded, flags, sources
  <2> QED BY <1>0, <2>1, <2>2, <2>3 DEF TypeOK, AtType
<1>5. ASSUME NEW u \in Users, NEW t \in Tasks, Wait(u, t) PROVE TypeOK'
  <2>1. at' \in [Actors -> AtType]
    BY <1>5, WaitFacts
  <2>2. UNCHANGED <<plan, known, requested, step, outcome, isCompleted, isFaulted, isCanceled,
                    cause, result, mutex, continuations, toRun, invoked, claimed, canceledFlag, promise, tally>>
    BY <1>5 DEF Wait, flags, sources
  <2> QED BY <1>0, <2>1, <2>2 DEF TypeOK, AtType
<1>6. ASSUME NEW u \in Users, NEW t \in Tasks, NEW how \in Hows, TrySet(u, t, how) PROVE TypeOK'
  <2>1. at' \in [Actors -> AtType]
    BY <1>6, TrySetFacts
  <2>2. UNCHANGED <<plan, known, requested, step, outcome, isCompleted, isFaulted, isCanceled,
                    cause, result, mutex, continuations, toRun, invoked, claimed, canceledFlag, promise, tally>>
    BY <1>6 DEF TrySet, flags, sources
  <2> QED BY <1>0, <2>1, <2>2 DEF TypeOK, AtType
<1>7. ASSUME NEW u \in Users, Scan(u) PROVE TypeOK'
  <2>0. PICK c, s : c = at[u].task /\ s = Here(u) OBVIOUS
  <2>1. c \in Tasks /\ s \in Tasks BY <1>7, <2>0, MakerFacts, Types DEF Scan, RegPCs
  <2>2. /\ at' \in [Actors -> AtType]
        /\ \/ /\ result' = [result EXCEPT ![c] = s] /\ isCompleted' = [isCompleted EXCEPT ![c] = TRUE]
              /\ step' = [step EXCEPT ![c] = "done"] /\ known' = known \cup {c}
           \/ UNCHANGED <<result, isCompleted, step, known>>
    BY <1>7, <2>0, ScanFacts
  <2>3. /\ result' \in [Tasks -> Tasks \cup {None}] /\ isCompleted' \in [Tasks -> BOOLEAN]
        /\ step' \in [Tasks -> Steps] /\ known' \subseteq Tasks
    <3>1. CASE UNCHANGED <<result, isCompleted, step, known>> BY <1>0, <3>1
    <3>2. CASE /\ result' = [result EXCEPT ![c] = s] /\ isCompleted' = [isCompleted EXCEPT ![c] = TRUE]
               /\ step' = [step EXCEPT ![c] = "done"] /\ known' = known \cup {c}
      <4>1. result' \in [Tasks -> Tasks \cup {None}] BY <1>0, <2>1, <3>2
      <4>2. isCompleted' \in [Tasks -> BOOLEAN] BY <1>0, <2>1, <3>2
      <4>3. step' \in [Tasks -> Steps] BY <1>0, <2>1, <3>2 DEF Steps
      <4>4. known' \subseteq Tasks BY <1>0, <2>1, <3>2
      <4> QED BY <4>1, <4>2, <4>3, <4>4
    <3> QED BY <2>2, <3>1, <3>2
  <2>4. UNCHANGED <<plan, requested, outcome, isFaulted, isCanceled, cause, mutex,
                    continuations, toRun, invoked, claimed, canceledFlag, promise, tally>>
    BY <1>7, ScanFacts
  <2> QED BY <1>0, <2>2, <2>3, <2>4 DEF TypeOK, AtType
<1>8. ASSUME NEW u \in Users, Register(u) PROVE TypeOK'
  <2>0. PICK c, s : c = at[u].task /\ s = Here(u) OBVIOUS
  <2>1. c \in Tasks /\ s \in Tasks /\ at[u].pc = "register" /\ Kind(c) \in {"then", "any"}
    BY <1>8, <2>0, MakerFacts, Types DEF Register, RegPCs
  <2>2. /\ at' \in [Actors -> AtType]
        /\ UNCHANGED <<plan, requested, isCompleted, isFaulted, isCanceled, cause, continuations,
                       toRun, claimed, canceledFlag, promise, tally>>
        /\ \/ mutex' = [mutex EXCEPT ![s] = u] /\ UNCHANGED <<known, step, outcome, result,
                                                              invoked>>
           \/ Wakes(c, s) /\ step' \in [Tasks -> Steps] /\ UNCHANGED <<known, mutex>>
           \/ /\ (known' = known \/ known' = known \cup {c})
              /\ UNCHANGED <<step, outcome, result, invoked, mutex>>
    BY <1>8, <2>0, <2>1, RegisterFacts, RegisteredFacts DEF RegPCs
  <2>3. /\ known' \subseteq Tasks /\ step' \in [Tasks -> Steps]
        /\ outcome' \in [Tasks -> {"ok", "fault", "oce", "canceled"}]
        /\ result' \in [Tasks -> Tasks \cup {None}] /\ invoked' \subseteq Tasks
        /\ mutex' \in [Tasks -> Actors \cup {None}]
    <3>1. CASE mutex' = [mutex EXCEPT ![s] = u] /\ UNCHANGED <<known, step, outcome, result,
                                                               invoked>>
      <4>1. mutex' \in [Tasks -> Actors \cup {None}] BY <1>0, <2>1, <3>1
      <4> QED BY <1>0, <3>1, <4>1
    <3>2. CASE Wakes(c, s) /\ step' \in [Tasks -> Steps] /\ UNCHANGED <<known, mutex>>
      BY <1>0, <2>1, <3>2, WakesTypes
    <3>3. CASE /\ (known' = known \/ known' = known \cup {c})
               /\ UNCHANGED <<step, outcome, result, invoked, mutex>>
      BY <1>0, <2>1, <3>3
    <3> QED BY <2>2, <3>1, <3>2, <3>3
  <2> QED BY <1>0, <2>2, <2>3 DEF TypeOK, AtType
<1>9. ASSUME NEW u \in Users, Push(u) PROVE TypeOK'
  <2>0. PICK c, s : c = at[u].task /\ s = Here(u) OBVIOUS
  <2>1. c \in Tasks /\ s \in Tasks /\ at[u].pc = "push"
    BY <1>9, <2>0, MakerFacts, Types DEF Push, RegPCs
  <2>2. /\ Registered(u)
        /\ continuations' = [continuations EXCEPT ![s] = Append(continuations[s], c)]
        /\ mutex' = [mutex EXCEPT ![s] = None]
        /\ UNCHANGED <<plan, requested, step, outcome, isCompleted, isFaulted, isCanceled, cause,
                       result, toRun, invoked, claimed, canceledFlag, promise, tally>>
    BY <1>9, <2>0, PushFacts
  <2>3. at' \in [Actors -> AtType] /\ (known' = known \/ known' = known \cup {c})
    BY <2>0, <2>1, <2>2, RegisteredFacts DEF RegPCs
  <2>4. continuations' \in [Tasks -> Seq(Tasks)] BY <2>1, <2>2, AddedFacts
  <2>5. known' \subseteq Tasks /\ mutex' \in [Tasks -> Actors \cup {None}] BY <1>0, <2>1, <2>2, <2>3
  <2> QED BY <1>0, <2>2, <2>3, <2>4, <2>5 DEF TypeOK, AtType
<1>10. ASSUME NEW u \in Users, Returned(u) PROVE TypeOK'
  <2>1. at[u].pc = "calling" /\ Registered(u) BY <1>10 DEF Returned
  <2>2. at[u].task \in Tasks BY <2>1, <1>0, MakerFacts DEF RegPCs
  <2>3. at' \in [Actors -> AtType] /\ (known' = known \/ known' = known \cup {at[u].task})
    BY <2>1, RegisteredFacts DEF RegPCs
  <2>4. known' \subseteq Tasks BY <1>0, <2>2, <2>3
  <2>5. UNCHANGED <<plan, requested, step, outcome, isCompleted, isFaulted, isCanceled, cause,
                    result, mutex, continuations, toRun, invoked, claimed, canceledFlag, promise, tally>>
    BY <1>10 DEF Returned, flags, sources
  <2> QED BY <1>0, <2>3, <2>4, <2>5 DEF TypeOK, AtType
<1>11. ASSUME NEW u \in Users, WaitReturn(u) PROVE TypeOK'
  <2>1. at' \in [Actors -> AtType]
    BY <1>11, <1>0, Moved DEF WaitReturn
  <2>2. UNCHANGED <<plan, known, requested, step, outcome, isCompleted, isFaulted, isCanceled,
                    cause, result, mutex, continuations, toRun, invoked, claimed, canceledFlag, promise, tally>>
    BY <1>11 DEF WaitReturn, flags, sources
  <2> QED BY <1>0, <2>1, <2>2 DEF TypeOK, AtType
<1>12. ASSUME NEW a \in Actors, WaitEnter(a) PROVE TypeOK'
  <2>1. at' \in [Actors -> AtType]
    BY <1>12, WaitStepFacts
  <2>2. UNCHANGED <<plan, known, requested, step, outcome, isCompleted, isFaulted, isCanceled,
                    cause, result, mutex, continuations, toRun, invoked, claimed, canceledFlag, promise, tally>>
    BY <1>12 DEF WaitEnter, flags, sources
  <2> QED BY <1>0, <2>1, <2>2 DEF TypeOK, AtType
<1>13. ASSUME NEW a \in Actors, WaitTest(a) PROVE TypeOK'
  <2>1. at' \in [Actors -> AtType] BY <1>13, WaitStepFacts
  <2>2. at[a].task \in Tasks BY <1>13, WaiterFacts DEF WaitTest, WaitPCs
  <2>3. mutex' \in [Tasks -> Actors \cup {None}]
    <3>1. mutex' = mutex \/ mutex' = [mutex EXCEPT ![at[a].task] = a] BY <1>13 DEF WaitTest
    <3>2. mutex \in [Tasks -> Actors \cup {None}] BY <1>0
    <3>3. [mutex EXCEPT ![at[a].task] = a] \in [Tasks -> Actors \cup {None}] BY <2>2, <3>2
    <3> QED BY <3>1, <3>2, <3>3
  <2>4. UNCHANGED <<plan, known, requested, step, outcome, isCompleted, isFaulted, isCanceled,
                    cause, result, continuations, toRun, invoked, claimed, canceledFlag, promise, tally>>
    BY <1>13 DEF WaitTest, flags, sources
  <2> QED BY <1>0, <2>1, <2>3, <2>4 DEF TypeOK, AtType
<1>14. ASSUME NEW a \in Actors, WaitSleep(a) PROVE TypeOK'
  <2>1. at' \in [Actors -> AtType] BY <1>14, WaitStepFacts
  <2>2. at[a].task \in Tasks BY <1>14, WaiterFacts DEF WaitSleep, WaitPCs
  <2>3. mutex' \in [Tasks -> Actors \cup {None}] BY <1>14, <1>0, <2>2 DEF WaitSleep
  <2>4. UNCHANGED <<plan, known, requested, step, outcome, isCompleted, isFaulted, isCanceled,
                    cause, result, continuations, toRun, invoked, claimed, canceledFlag, promise, tally>>
    BY <1>14 DEF WaitSleep, flags, sources
  <2> QED BY <1>0, <2>1, <2>3, <2>4 DEF TypeOK, AtType
<1>15. ASSUME NEW a \in Actors, Claim(a) PROVE TypeOK'
  <2>1. at' \in [Actors -> AtType] BY <1>15, SetFacts
  <2>2. at[a].task \in Tasks /\ at[a].how \in Hows BY <1>15, SetterFacts DEF Claim, SetPCs
  <2>3. claimed' \in [Tasks -> Hows \cup {None}] BY <1>15, <1>0, <2>2 DEF Claim
  <2>4. UNCHANGED <<plan, known, requested, step, outcome, isCompleted, isFaulted, isCanceled,
                    cause, result, mutex, continuations, toRun, invoked, canceledFlag, promise, tally>>
    BY <1>15 DEF Claim, flags, sources
  <2> QED BY <1>0, <2>1, <2>3, <2>4 DEF TypeOK, AtType
<1>16. ASSUME NEW a \in Actors, Flag(a) PROVE TypeOK'
  <2>1. at' \in [Actors -> AtType] BY <1>16, SetFacts
  <2>2. at[a].task \in Tasks /\ at[a].how \in Hows BY <1>16, SetterFacts DEF Flag, SetPCs
  <2>3. canceledFlag' \in [Tasks -> BOOLEAN] BY <1>16, <1>0, <2>2 DEF Flag
  <2>4. UNCHANGED <<plan, known, requested, step, outcome, isCompleted, isFaulted, isCanceled,
                    cause, result, mutex, continuations, toRun, invoked, claimed, promise, tally>>
    BY <1>16 DEF Flag, flags, sources
  <2> QED BY <1>0, <2>1, <2>3, <2>4 DEF TypeOK, AtType
<1>17. ASSUME NEW a \in Actors, Promise(a) PROVE TypeOK'
  <2>1. at' \in [Actors -> AtType] BY <1>17, SetFacts
  <2>2. at[a].task \in Tasks /\ at[a].how \in Hows BY <1>17, SetterFacts DEF Promise, SetPCs
  <2>3. promise' \in [Tasks -> {"value", "exception", None}] BY <1>17, <1>0, <2>2 DEF Promise
  <2>4. UNCHANGED <<plan, known, requested, step, outcome, isCompleted, isFaulted, isCanceled,
                    cause, result, mutex, continuations, toRun, invoked, claimed, canceledFlag, tally>>
    BY <1>17 DEF Promise, flags, sources
  <2> QED BY <1>0, <2>1, <2>3, <2>4 DEF TypeOK, AtType
<1>18. ASSUME NEW t \in Tasks, Body(t) PROVE TypeOK'
  <2>1. plan[t].of # <<>> => plan[t].of[1] \in Tasks
    <3>1. plan[t].of \in Seq(Tasks) BY PlanFacts, <1>0
    <3> QED BY <3>1
  <2>2. PICK o \in {"ok", "fault", "oce"} :
          /\ outcome' = [outcome EXCEPT ![t] = o]
          /\ result' = result \/ (plan[t].of # <<>> /\ result' = [result EXCEPT ![t] = plan[t].of[1]])
    BY <1>18 DEF Body
  <2>3. /\ outcome' \in [Tasks -> {"ok", "fault", "oce", "canceled"}]
        /\ result' \in [Tasks -> Tasks \cup {None}]
    BY <1>0, <2>1, <2>2
  <2>4. step' \in [Tasks -> Steps] BY <1>18, <1>0 DEF Body, Steps
  <2>5. UNCHANGED <<plan, known, requested, isCompleted, isFaulted, isCanceled, cause, mutex,
                    continuations, toRun, invoked, claimed, canceledFlag, promise, at, tally>>
    BY <1>18 DEF Body, flags, sources
  <2> QED BY <1>0, <2>3, <2>4, <2>5 DEF TypeOK, AtType
<1>19. ASSUME NEW t \in Tasks, Bridge(t) PROVE TypeOK'
  <2>1. outcome' \in [Tasks -> {"ok", "fault", "oce", "canceled"}]
    BY <1>19, <1>0 DEF Bridge
  <2>2. step' \in [Tasks -> Steps]
    BY <1>19, <1>0 DEF Bridge, Steps
  <2>3. UNCHANGED <<plan, known, requested, isCompleted, isFaulted, isCanceled, cause, result,
                    mutex, continuations, toRun, invoked, claimed, canceledFlag, promise, at, tally>>
    BY <1>19 DEF Bridge, flags, sources
  <2> QED BY <1>0, <2>1, <2>2, <2>3 DEF TypeOK, AtType
<1>20. ASSUME NEW t \in Tasks, Store(t) PROVE TypeOK'
  <2>1. Cancels(t) \in BOOLEAN BY DEF Cancels
  <2>2. isCanceled' = [isCanceled EXCEPT ![t] = Cancels(t)] BY <1>20 DEF Store
  <2>3. isFaulted' = [isFaulted EXCEPT ![t] = outcome[t] \in {"fault", "oce"} /\ ~Cancels(t)]
    BY <1>20 DEF Store
  <2>4. isCanceled' \in [Tasks -> BOOLEAN] BY <1>0, <2>1, <2>2
  <2>5. isFaulted' \in [Tasks -> BOOLEAN]
    <3>1. (outcome[t] \in {"fault", "oce"} /\ ~Cancels(t)) \in BOOLEAN OBVIOUS
    <3> QED BY <1>0, <2>3, <3>1
  <2>6. cause' \in [Tasks -> Tasks \cup {None}]
    <3>1. tally[t].fault \in Tasks \cup {None} BY <1>0
    <3>2. Thrown(t) \in Tasks \cup {None} BY <3>1 DEF Thrown
    <3>3. \E z \in Tasks \cup {None} : cause' = [cause EXCEPT ![t] = z] BY <1>20, <3>2 DEF Store
    <3> QED BY <1>0, <3>3
  <2>7. step' \in [Tasks -> Steps] BY <1>20, <1>0 DEF Store, Steps
  <2>8. UNCHANGED <<plan, known, requested, outcome, isCompleted, result, mutex, continuations,
                    toRun, invoked, claimed, canceledFlag, promise, at, tally>>
    BY <1>20 DEF Store, sources
  <2> QED BY <1>0, <2>4, <2>5, <2>6, <2>7, <2>8 DEF TypeOK, AtType
<1>21. ASSUME NEW t \in Tasks, Complete(t) PROVE TypeOK'
  <2>1. isCompleted' \in [Tasks -> BOOLEAN]
    BY <1>21, <1>0 DEF Complete
  <2>2. step' \in [Tasks -> Steps]
    BY <1>21, <1>0 DEF Complete, Steps
  <2>3. UNCHANGED <<plan, known, requested, outcome, isFaulted, isCanceled, cause, result, mutex,
                    continuations, toRun, invoked, claimed, canceledFlag, promise, at, tally>>
    BY <1>21 DEF Complete, flags, sources
  <2> QED BY <1>0, <2>1, <2>2, <2>3 DEF TypeOK, AtType
<1>22. ASSUME NEW t \in Tasks, Swap(t) PROVE TypeOK'
  <2>1. continuations' \in [Tasks -> Seq(Tasks)]
    <3>1. <<>> \in Seq(Tasks) OBVIOUS
    <3> QED BY <1>22, <1>0, <3>1 DEF Swap
  <2>2. toRun' \in [Tasks -> Seq(Tasks)] BY <1>22, <1>0 DEF Swap
  <2>3. step' \in [Tasks -> Steps] BY <1>22, <1>0 DEF Swap, Steps
  <2>4. UNCHANGED <<plan, known, requested, outcome, isCompleted, isFaulted, isCanceled, cause,
                    result, mutex, invoked, claimed, canceledFlag, promise, at, tally>>
    BY <1>22 DEF Swap, flags, sources
  <2> QED BY <1>0, <2>1, <2>2, <2>3, <2>4 DEF TypeOK, AtType
<1>23. ASSUME NEW t \in Tasks, Notify(t) PROVE TypeOK'
  <2>1. at' \in [Actors -> AtType]
    BY <1>23, NotifyFacts
  <2>2. step' \in [Tasks -> Steps]
    BY <1>23, <1>0 DEF Notify, Steps
  <2>3. UNCHANGED <<plan, known, requested, outcome, isCompleted, isFaulted, isCanceled, cause,
                    result, mutex, continuations, toRun, invoked, claimed, canceledFlag, promise, tally>>
    BY <1>23 DEF Notify, flags, sources
  <2> QED BY <1>0, <2>1, <2>2, <2>3 DEF TypeOK, AtType
<1>24. ASSUME NEW t \in Tasks, Run(t) PROVE TypeOK'
  <2>0. PICK c : c = Head(toRun[t]) OBVIOUS
  <2>1. toRun[t] # <<>> => c \in Tasks /\ Kind(c) \in {"then", "any"} BY <2>0, HeadFacts
  <2>2. \/ step' = [step EXCEPT ![t] = "done"] /\ UNCHANGED <<toRun, outcome, result, invoked>>
        \/ toRun[t] # <<>> /\ Wakes(c, t) /\ step' \in [Tasks -> Steps] /\ UNCHANGED toRun
        \/ /\ toRun[t] # <<>> /\ toRun' = [toRun EXCEPT ![t] = Tail(toRun[t])]
           /\ UNCHANGED <<step, outcome, result, invoked>>
    BY <1>24, <2>0, RunFacts
  <2>3. /\ step' \in [Tasks -> Steps]
        /\ outcome' \in [Tasks -> {"ok", "fault", "oce", "canceled"}]
        /\ result' \in [Tasks -> Tasks \cup {None}] /\ invoked' \subseteq Tasks
    <3>1. CASE step' = [step EXCEPT ![t] = "done"] /\ UNCHANGED <<toRun, outcome, result, invoked>>
      <4>1. step' \in [Tasks -> Steps] BY <1>0, <3>1 DEF Steps
      <4> QED BY <1>0, <3>1, <4>1
    <3>2. CASE toRun[t] # <<>> /\ Wakes(c, t) /\ step' \in [Tasks -> Steps]
      BY <1>0, <2>1, <3>2, WakesTypes
    <3>3. CASE UNCHANGED <<step, outcome, result, invoked>> BY <1>0, <3>3
    <3> QED BY <2>2, <3>1, <3>2, <3>3
  <2>4. toRun' \in [Tasks -> Seq(Tasks)]
    <3>1. toRun[t] # <<>> => Tail(toRun[t]) \in Seq(Tasks) BY HeadFacts
    <3> QED BY <1>0, <2>2, <3>1
  <2>5. UNCHANGED <<plan, known, requested, isCompleted, isFaulted, isCanceled, cause, mutex,
                    continuations, claimed, canceledFlag, promise, at, tally>>
    BY <1>24, RunFacts
  <2> QED BY <1>0, <2>3, <2>4, <2>5 DEF TypeOK, AtType
<1>25. ASSUME NEW t \in Tasks, CalleeDone(t) PROVE TypeOK'
  <2>1. /\ toRun[t] # <<>> /\ toRun' = [toRun EXCEPT ![t] = Tail(toRun[t])]
        /\ step' = [step EXCEPT ![t] = "run"]
        /\ UNCHANGED <<plan, known, requested, outcome, isCompleted, isFaulted, isCanceled,
                       cause, result, mutex, continuations, invoked, claimed, canceledFlag, promise, at, tally>>
    BY <1>25, CalleeFacts
  <2>2. toRun' \in [Tasks -> Seq(Tasks)] BY <2>1, DroppedFacts
  <2>3. step' \in [Tasks -> Steps] BY <1>0, <2>1 DEF Steps
  <2> QED BY <1>0, <2>1, <2>2, <2>3 DEF TypeOK, AtType
<1>26. ASSUME NEW t \in Tasks, AllHeard(t) PROVE TypeOK'
  <2>1. /\ at' \in [Actors -> AtType]
        /\ tally' \in [Tasks -> [fault : Tasks \cup {None}, canceled : BOOLEAN]]
        /\ UNCHANGED <<plan, known, requested, isCompleted, isFaulted, isCanceled, cause, result,
                       mutex, continuations, toRun, invoked, claimed, canceledFlag, promise>>
    BY <1>26, AllHeardFacts
  <2>2. step' \in [Tasks -> Steps] /\ outcome' \in [Tasks -> {"ok", "fault", "oce", "canceled"}]
    BY <1>26, <1>0, AllHeardFacts DEF Steps
  <2> QED BY <1>0, <2>1, <2>2 DEF TypeOK, AtType
<1>27. ASSUME NEW t \in Tasks, ProxyHeard(t) PROVE TypeOK'
  <2>1. /\ at' \in [Actors -> AtType]
        /\ tally' \in [Tasks -> [fault : Tasks \cup {None}, canceled : BOOLEAN]]
    BY <1>27, ProxyFacts
  <2>2. UNCHANGED <<plan, known, requested, step, outcome, isCompleted, isFaulted, isCanceled,
                    cause, result, mutex, continuations, toRun, invoked, claimed, canceledFlag, promise>>
    BY <1>27 DEF ProxyHeard, flags, sources
  <2> QED BY <1>0, <2>1, <2>2 DEF TypeOK, AtType
<1>28. CASE Cancel
  <2>1. requested' = TRUE /\ UNCHANGED <<plan, known, step, outcome, isCompleted, isFaulted,
                                         isCanceled, cause, result, mutex, continuations, toRun, invoked, claimed, canceledFlag, promise, at, tally>>
    BY <1>28 DEF Cancel, flags, sources
  <2> QED BY <1>0, <2>1 DEF TypeOK, AtType
<1>29. CASE UNCHANGED vars
  <2>1. UNCHANGED <<plan, known, requested, step, outcome, isCompleted, isFaulted, isCanceled,
                    cause, result, mutex, continuations, toRun, invoked, claimed, canceledFlag, promise, at, tally>>
    BY <1>29 DEF vars, flags, sources
  <2> QED BY <1>0, <2>1 DEF TypeOK, AtType
<1> QED
  BY <1>1, <1>2, <1>3, <1>4, <1>5, <1>6, <1>7, <1>8, <1>9, <1>10, <1>11, <1>12, <1>13, <1>14,
     <1>15, <1>16, <1>17, <1>18, <1>19, <1>20, <1>21, <1>22, <1>23, <1>24, <1>25, <1>26, <1>27,
     <1>28, <1>29, <1>4a DEF Next, Call, UserStep, TaskStep, InCall, Actors


\* Nothing is made and nobody is in a call at the start.
LEMMA TaskInit == Init => TaskIInv
<1> SUFFICES ASSUME Init PROVE TaskIInv OBVIOUS
<1>0. /\ plan \in Plans /\ known = {} /\ requested = FALSE /\ invoked = {}
      /\ \A t \in Tasks : /\ step[t] = "none" /\ outcome[t] = "ok" /\ result[t] = None
                          /\ isCompleted[t] = FALSE /\ isFaulted[t] = FALSE /\ isCanceled[t] = FALSE
                          /\ continuations[t] = <<>> /\ toRun[t] = <<>>
                          /\ claimed[t] = None /\ canceledFlag[t] = FALSE /\ promise[t] = None
      /\ \A a \in Actors : at[a] = Idle
  BY DEF Init
<1>1. \A a \in Actors : at[a].pc = "idle" BY <1>0 DEF Idle
<1>2. Users \subseteq Actors /\ Tasks \subseteq Actors BY DEF Actors
<1>3. TypeOK
  <2>1. Idle \in AtType BY IdleType
  <2>2. at \in [Actors -> AtType] BY <2>1 DEF Init
  <2>3. step \in [Tasks -> Steps] BY DEF Init, Steps
  <2>4. /\ isCompleted \in [Tasks -> BOOLEAN] /\ isFaulted \in [Tasks -> BOOLEAN]
        /\ isCanceled \in [Tasks -> BOOLEAN] /\ canceledFlag \in [Tasks -> BOOLEAN]
    BY DEF Init
  <2>5. <<>> \in Seq(Tasks) OBVIOUS
  <2>6. continuations \in [Tasks -> Seq(Tasks)] /\ toRun \in [Tasks -> Seq(Tasks)] BY <2>5 DEF Init
  <2>7. /\ outcome \in [Tasks -> {"ok", "fault", "oce", "canceled"}]
        /\ cause \in [Tasks -> Tasks \cup {None}] /\ result \in [Tasks -> Tasks \cup {None}]
        /\ mutex \in [Tasks -> Actors \cup {None}] /\ claimed \in [Tasks -> Hows \cup {None}]
        /\ promise \in [Tasks -> {"value", "exception", None}]
    BY DEF Init
  <2>8. tally \in [Tasks -> [fault : Tasks \cup {None}, canceled : BOOLEAN]] BY DEF Init
  <2> QED BY <1>0, <2>2, <2>3, <2>4, <2>6, <2>7, <2>8 DEF TypeOK, AtType
<1>4. Stages BY <1>0 DEF Stages, Stage, Past
<1>5. Makers BY <1>1 DEF Makers, Maker, RegPCs
<1>6. \A s \in Tasks : 1..Len(continuations[s]) = {} /\ 1..Len(toRun[s]) = {}
  <2>1. 1..Len(<<>>) = {} OBVIOUS
  <2> QED BY <1>0, <2>1
<1>7. \A c, s \in Tasks : ~InList(c, s) /\ ~Due(c, s)
  <2> SUFFICES ASSUME NEW c \in Tasks, NEW s \in Tasks PROVE ~InList(c, s) /\ ~Due(c, s) OBVIOUS
  <2>1. 1..Len(continuations[s]) = {} /\ 1..Len(toRun[s]) = {} BY <1>6
  <2> QED BY <2>1, Zenon DEF InList, Due
<1>8. Lists BY <1>0, <1>7 DEF Lists, List, Listed
<1>9. Tickets
  <2>1. ASSUME NEW c \in Tasks, NEW s \in Tasks PROVE Once(continuations[s], c) /\ Once(toRun[s], c)
    <3>1. 1..Len(continuations[s]) = {} /\ 1..Len(toRun[s]) = {} BY <1>6
    <3> QED BY <3>1, Zenon DEF Once
  <2> QED BY <1>1, <1>2, <1>7, <2>1 DEF Tickets, Ticket, Carried
<1>10. Winners BY <1>0 DEF Winners, Winner
<1>11. Held BY <1>1 DEF Held, Holder
<1>12. Waiting BY <1>1, <1>2 DEF Waiting, Waiter, Worker, WaitPCs
<1>13. Results BY <1>0 DEF Results, Result, Past
<1>14. Claims BY <1>0, <1>1 DEF Claims, Setter, Alone, Claimed, SetPCs
<1>15. Words BY <1>0 DEF Words, Word, Past
<1> QED BY <1>3, <1>4, <1>5, <1>8, <1>9, <1>10, <1>11, <1>12, <1>13, <1>14, <1>15 DEF TaskIInv

\* Every step keeps the invariant.
LEMMA TaskNext == TaskIInv /\ [Next]_vars => TaskIInv'
<1> SUFFICES ASSUME TaskIInv, [Next]_vars PROVE TaskIInv' OBVIOUS
<1>1. TypeOK' BY TypeNext
<1>2. Stages' BY StagesNext DEF Stages
<1>3. Makers' BY MakersNext DEF Makers
<1>4. Lists' BY ListNext, ListedNext DEF Lists
<1>5. Tickets' BY TicketNext, CarriedNext DEF Tickets
<1>6. Winners' BY WinnersNext DEF Winners
<1>7. Held' BY HeldNext DEF Held
<1>8. Waiting' BY WaiterNext, WorkerNext DEF Waiting
<1>9. Results' BY ResultsNext DEF Results
<1>10. Claims' BY SetterNext, AloneNext, ClaimedNext DEF Claims
<1>11. Words' BY WordsNext DEF Words
<1> QED BY <1>1, <1>2, <1>3, <1>4, <1>5, <1>6, <1>7, <1>8, <1>9, <1>10, <1>11 DEF TaskIInv

\* The inductive invariant says what the program relies on.
LEMMA TaskIInvSays == TaskIInv => TaskInv /\ NothingForgotten
<1> SUFFICES ASSUME TaskIInv PROVE TaskInv /\ NothingForgotten OBVIOUS
<1>1. TypeOK /\ Stages /\ Lists /\ Waiting /\ Claims /\ Words BY DEF TaskIInv
<1>2. HeardIsFinal
  <2> SUFFICES ASSUME NEW a \in Actors, at[a].pc = "woken" PROVE Status(at[a].task) = Report(at[a].task)
    BY DEF HeardIsFinal
  <2>1. at[a].task \in known /\ isCompleted[at[a].task] BY <1>1 DEF Waiting, Waiter, WaitPCs
  <2>2. at[a].task \in Tasks BY <2>1, Types
  <2>3. isFaulted[at[a].task] => cause[at[a].task] # None /\ ~isCanceled[at[a].task]
    BY <1>1, <2>2 DEF Stages, Stage
  <2> QED BY <2>1, <2>3 DEF Status, Report
<1>3. SourceKeepsItsWord
  <2>1. ASSUME NEW a \in Actors, NEW b \in Actors, at[a].pc \in {"flag", "promise"},
               at[b].pc \in {"flag", "promise"}, at[a].task = at[b].task
        PROVE  a = b /\ promise[at[a].task] = None
    BY <1>1, <2>1 DEF Claims, Alone, Setter, SetPCs
  <2>2. ASSUME NEW t \in Tasks, Kind(t) \in {"source", "unwrap"}, isCompleted[t]
        PROVE  Status(t) = CASE claimed[t] = "result" -> "RanToCompletion"
                             [] claimed[t] \in {"exception", "badCopy"} -> "Faulted"
                             [] claimed[t] = "cancel" -> "Canceled"
                             [] claimed[t] = None /\ Kind(t) = "unwrap" -> "Canceled"
    <3>1. step[t] \in Past BY <1>1, <2>2 DEF Stages, Stage
    <3>2. \/ NoInner(t)
          \/ /\ promise[t] # None /\ (isCanceled[t] <=> claimed[t] = "cancel")
             /\ (isFaulted[t] <=> claimed[t] \in {"exception", "badCopy"})
      BY <1>1, <2>2, <3>1 DEF Words, Word
    <3>3. claimed[t] \in Hows \cup {None} /\ None \notin Hows /\ (NoInner(t) \/ claimed[t] # None)
      BY <1>1, <3>2, Types DEF Claims, Claimed
    <3>4. \/ claimed[t] = "result" \/ claimed[t] \in {"exception", "badCopy"} \/ claimed[t] = "cancel"
          \/ NoInner(t)
      BY <3>3 DEF Hows
    <3>a. None \notin {"result", "exception", "badCopy", "cancel"} BY <3>3 DEF Hows
    <3>5. CASE claimed[t] = "result"
      <4>1. Status(t) = "RanToCompletion" BY <2>2, <3>2, <3>5, <3>a DEF Status, NoInner
      <4> QED BY <3>5, <3>a, <4>1
    <3>6. CASE claimed[t] \in {"exception", "badCopy"}
      <4>1. Status(t) = "Faulted" BY <2>2, <3>2, <3>6, <3>a DEF Status, NoInner
      <4> QED BY <3>6, <3>a, <4>1
    <3>7. CASE claimed[t] = "cancel"
      <4>1. Status(t) = "Canceled" BY <2>2, <3>2, <3>7, <3>a DEF Status, NoInner
      <4> QED BY <3>7, <4>1
    <3>8. CASE NoInner(t)
      <4>1. Status(t) = "Canceled" /\ claimed[t] = None /\ Kind(t) = "unwrap" BY <2>2, <3>8 DEF Status, NoInner
      <4> QED BY <3>a, <4>1
    <3> QED BY <3>4, <3>5, <3>6, <3>7, <3>8
  <2> QED BY <2>1, <2>2 DEF SourceKeepsItsWord
<1>4. CanceledWasAsked BY <1>1 DEF CanceledWasAsked, Words, Word
<1>5. NothingForgotten
  <2> SUFFICES ASSUME NEW t \in Tasks, isCompleted[t]
               PROVE  /\ \A a \in Actors : at[a].pc = "parked" /\ at[a].task = t
                                           => step[t] \in {"swap", "notify"}
                      /\ continuations[t] # <<>> => step[t] = "swap"
    BY DEF NothingForgotten
  <2>1. step[t] \in Past BY <1>1 DEF Stages, Stage
  <2>2. \A a \in Actors : at[a].pc = "parked" /\ at[a].task = t => step[t] \notin {"run", "calling", "done"}
    BY <1>1 DEF Waiting, Waiter, WaitPCs
  <2>3. continuations[t] # <<>> => step[t] \notin Fired BY <1>1 DEF Lists, List
  <2> QED BY <2>1, <2>2, <2>3 DEF Past, Fired
<1> QED BY <1>1, <1>2, <1>3, <1>4, <1>5 DEF TaskInv

\* Task.Wait reports the final status of the task; a TaskCompletionSource is completed by one
\* producer and ends as that producer asked, or Faulted when TrySetResult claimed it and the
\* copy of the value threw; only the token's request cancels a task.
THEOREM TasksAreCorrect == Spec => []TaskInv
<1>1. Spec => []TaskIInv BY TaskInit, TaskNext, PTL DEF Spec
<1> QED BY <1>1, TaskIInvSays, PTL

\* isCompleted is stored without completionMutex and yet nobody who slept or registered is
\* forgotten: until fireContinuations has taken the list and notified, both are still to come.
THEOREM NobodyIsForgotten == Spec => []NothingForgotten
<1>1. Spec => []TaskIInv BY TaskInit, TaskNext, PTL DEF Spec
<1> QED BY <1>1, TaskIInvSays, PTL

=============================================================================
