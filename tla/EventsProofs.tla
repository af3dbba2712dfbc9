---------------------------- MODULE EventsProofs ----------------------------
(* Theorems about EventWaitHandle, ManualResetEventSlim, CancellationTokenSource, *)
(* PeriodicTimer and RegisteredWaitHandle, for any threads and bounds.            *)
EXTENDS MCEvents, FiniteSetTheorems, TLAPS

(* EventWaitHandle. *)

\* A setter sets or resets one handle at a time, and has notified before it goes on.
OneAtATime ==
  /\ idx \in [Threads -> Nat]
  /\ \A s \in Setters : /\ checked[s] # {} => notifying[s] = {}
                        /\ \A g, h \in notifying[s] : g = h

\* The inductive invariant.
EventIInv == EventInv /\ OneAtATime

\* A call names at least one handle, and handles only.
LEMMA CallFacts ==
  ASSUME NEW c \in Calls
  PROVE  /\ c.list \in Seq(Handles) /\ Len(c.list) \in Nat /\ Len(c.list) > 0
         /\ c.kind \in {"one", "all", "any"} /\ c.timed \in BOOLEAN
         /\ \A i \in 1..Len(c.list) : c.list[i] \in Handles
BY HandleAssumption DEF CallType

\* The handle that a wait has come to is one of the list.
LEMMA CurrentIsHandle ==
  ASSUME TypeOK, NEW t \in Threads
  PROVE  Current(t) \in Handles
BY CallFacts DEF TypeOK, Current

\* New handles satisfy it, whatever they are set to.
LEMMA EventInit == Init => EventIInv
<1> SUFFICES ASSUME Init PROVE EventIInv OBVIOUS
<1>1. TypeOK
  <2>1. PICK c \in Calls : call = [t \in Threads |-> c] BY DEF Init
  <2>2. \A t \in Threads : idx[t] \in 1..Len(call[t].list) BY <2>1, CallFacts DEF Init
  <2> QED BY <2>1, <2>2 DEF Init, TypeOK
<1>2. OneReleasePerSignal /\ NoStrandedSignal /\ OneAtATime
  BY DEF Init, OneReleasePerSignal, NoStrandedSignal, Sleepers, OneAtATime
<1> QED BY <1>1, <1>2 DEF EventIInv, EventInv

\* The part about the waits: a step of one waiting thread.
LEMMA WaitStep ==
  ASSUME EventIInv, NEW t \in Threads, TypeOK', UNCHANGED <<checked, notifying>>,
         \A u \in Threads \ {t} : pc'[u] = pc[u] /\ Current(u)' = Current(u),
         pc'[t] = "parked" =>
           (pc[t] = "parked" /\ Current(t)' = Current(t)) \/ ~set'[Current(t)'],
         \A h \in Handles : set'[h] => set[h] /\ ~(pc[t] = "notified" /\ Current(t) = h)
  PROVE  NoStrandedSignal'
<1> SUFFICES ASSUME NEW h \in Handles, set'[h], Sleepers(h)' # {},
                    ~\E s \in Setters : h \in notifying'[s]
             PROVE  AutoReset(h) /\ \E u \in Threads : pc'[u] = "notified" /\ Current(u)' = h
  BY DEF NoStrandedSignal, AutoReset
<1>1. PICK v \in Threads : pc'[v] = "parked" /\ Current(v)' = h BY DEF Sleepers
<1>2. pc[v] = "parked" /\ Current(v) = h BY <1>1
<1>3. set[h] /\ Sleepers(h) # {} BY <1>2 DEF Sleepers
<1>4. AutoReset(h) /\ \E u \in Threads : pc[u] = "notified" /\ Current(u) = h
  BY <1>3 DEF EventIInv, EventInv, NoStrandedSignal
<1>5. PICK u \in Threads : pc[u] = "notified" /\ Current(u) = h BY <1>4
<1>6. CASE u # t BY <1>4, <1>5, <1>6
<1>7. CASE u = t
  BY <1>4, <1>5, <1>7
<1> QED BY <1>6, <1>7

\* Every step preserves the invariant.
LEMMA EventNext == EventIInv /\ [Next]_vars => EventIInv'
<1> SUFFICES ASSUME EventIInv, [Next]_vars PROVE EventIInv' OBVIOUS
<1> USE DEF waits
<1>0. TypeOK /\ OneReleasePerSignal /\ NoStrandedSignal /\ OneAtATime BY DEF EventIInv, EventInv
<1>c. \A u \in Threads : Current(u) \in Handles BY <1>0, CurrentIsHandle
<1>l. \A u \in Threads : /\ call[u] \in Calls /\ Len(call[u].list) \in Nat
                         /\ idx[u] \in 1..Len(call[u].list) /\ idx[u] \in Nat
                         /\ 1 \in 1..Len(call[u].list)
                         /\ ~LastHandle(u) => idx[u] + 1 \in 1..Len(call[u].list)
  BY <1>0, CallFacts DEF TypeOK, OneAtATime, LastHandle
<1>z. ASSUME TypeOK', OneReleasePerSignal', NoStrandedSignal', OneAtATime' PROVE EventIInv'
  BY <1>z DEF EventIInv, EventInv
\* A thread moves within the call it makes.
<1>m. ASSUME NEW t \in Threads, NEW place \in {"idle", "enter", "locking", "parked", "notified"},
             NEW i \in 1..Len(call[t].list),
             pc' = [pc EXCEPT ![t] = place], idx' = [idx EXCEPT ![t] = i],
             UNCHANGED <<closed, call, checked, notifying>>,
             set' \in [Handles -> BOOLEAN], taken' \subseteq Handles,
             OneReleasePerSignal',
             place = "parked" => ~set[Current(t)] /\ i = idx[t],
             \A h \in Handles : set'[h] => set[h] /\ ~(pc[t] = "notified" /\ Current(t) = h)
      PROVE  EventIInv'
  <2>1. TypeOK'
    <3>1. \A u \in Threads : idx'[u] \in 1..Len(call'[u].list) BY <1>m, <1>0, <1>l DEF OneAtATime
    <3> QED BY <3>1, <1>m, <1>0 DEF TypeOK
  <2>2. OneAtATime'
    <3>1. i \in Nat BY <1>l, <1>m
    <3> QED BY <3>1, <1>m, <1>0 DEF OneAtATime
  <2>3. \A u \in Threads \ {t} : pc'[u] = pc[u] /\ Current(u)' = Current(u)
    BY <1>m, <1>0 DEF Current, OneAtATime, TypeOK
  <2>4. pc'[t] = "parked" => Current(t)' = Current(t) /\ ~set'[Current(t)']
    <3>1. pc'[t] = place /\ idx'[t] = i BY <1>m, <1>0 DEF OneAtATime, TypeOK
    <3>2. ASSUME place = "parked" PROVE Current(t)' = Current(t) /\ ~set'[Current(t)']
      <4>1. Current(t)' = Current(t) BY <3>1, <3>2, <1>m DEF Current
      <4> QED BY <4>1, <3>2, <1>m, <1>c
    <3> QED BY <3>1, <3>2
  <2>5. NoStrandedSignal' BY <2>1, <2>3, <2>4, <1>m, WaitStep
  <2> QED BY <2>1, <2>2, <2>5, <1>m, <1>z
<1>i. \A t \in Threads : idx = [idx EXCEPT ![t] = idx[t]] BY <1>0 DEF OneAtATime
<1>t. set \in [Handles -> BOOLEAN] /\ taken \subseteq Handles BY <1>0 DEF TypeOK
<1>1. ASSUME NEW t \in Threads, EnterWait(t) PROVE EventIInv'
  <2>1. pc[t] = "enter" /\ UNCHANGED <<set, closed, call, checked, notifying, taken>>
    BY <1>1 DEF EnterWait, EndWait
  <2>2. OneReleasePerSignal' BY <2>1, <1>0 DEF OneReleasePerSignal
  <2>3. CASE EndWait(t)
    BY <2>1, <2>2, <2>3, <1>m, <1>l, <1>t DEF EndWait
  <2>4. CASE pc' = [pc EXCEPT ![t] = "locking"] /\ UNCHANGED <<call, idx>>
    <3>1. idx' = [idx EXCEPT ![t] = idx[t]] BY <2>4, <1>i
    <3> QED BY <2>1, <2>2, <2>4, <3>1, <1>m, <1>l, <1>t
  <2> QED BY <2>3, <2>4, <1>1 DEF EnterWait
<1>2. ASSUME NEW t \in Threads, WaitOne(t) PROVE EventIInv'
  <2>0. UNCHANGED <<closed, checked, notifying>> BY <1>2 DEF WaitOne
  <2>1. CASE set[Current(t)] /\ TakeSignal(t) /\ AfterSignal(t)
    <3>1. /\ set' \in [Handles -> BOOLEAN] /\ taken' \subseteq Handles /\ OneReleasePerSignal'
          /\ \A h \in Handles : set'[h] => set[h]
          /\ AutoReset(Current(t)) => ~set'[Current(t)]
      BY <2>1, <1>0, <1>c, <1>t DEF TakeSignal, OneReleasePerSignal
    <3>2. ASSUME NEW i \in 1..Len(call[t].list), NEW place \in {"idle", "enter"},
                 pc' = [pc EXCEPT ![t] = place], idx' = [idx EXCEPT ![t] = i], UNCHANGED call
          PROVE  EventIInv'
      <4>1. CASE AutoReset(Current(t)) BY <4>1, <3>1, <3>2, <2>0, <1>m
      <4>2. CASE ~AutoReset(Current(t))
        <5>1. UNCHANGED <<set, taken>> BY <2>1, <4>2 DEF TakeSignal
        <5>2. TypeOK'
          <6>1. \A u \in Threads : idx'[u] \in 1..Len(call'[u].list) BY <3>2, <1>0, <1>l DEF OneAtATime
          <6> QED BY <6>1, <5>1, <2>0, <3>2, <1>0 DEF TypeOK
        <5>3. OneAtATime'
          <6>1. i \in Nat BY <1>l, <3>2
          <6> QED BY <6>1, <2>0, <3>2, <1>0 DEF OneAtATime
        <5>4. \A u \in Threads \ {t} : pc'[u] = pc[u] /\ Current(u)' = Current(u)
          BY <3>2, <1>0 DEF Current, OneAtATime, TypeOK
        <5>5. pc'[t] # "parked" BY <3>2, <1>0 DEF TypeOK
        <5>6. NoStrandedSignal'
          <6> SUFFICES ASSUME NEW h \in Handles, set'[h], Sleepers(h)' # {},
                              ~\E s \in Setters : h \in notifying'[s]
                       PROVE  AutoReset(h) /\ \E u \in Threads : pc'[u] = "notified" /\ Current(u)' = h
            BY DEF NoStrandedSignal, AutoReset
          <6>1. PICK v \in Threads : pc'[v] = "parked" /\ Current(v)' = h BY DEF Sleepers
          <6>2. set[h] /\ Sleepers(h) # {} BY <6>1, <5>1, <5>4, <5>5 DEF Sleepers
          <6>3. AutoReset(h) /\ \E u \in Threads : pc[u] = "notified" /\ Current(u) = h
            BY <6>2, <2>0, <1>0 DEF NoStrandedSignal
          <6>4. PICK u \in Threads : pc[u] = "notified" /\ Current(u) = h BY <6>3
          <6>5. u # t BY <6>3, <6>4, <4>2
          <6> QED BY <6>3, <6>4, <6>5, <5>4
        <5> QED BY <3>1, <5>2, <5>3, <5>6, <1>z
      <4> QED BY <4>1, <4>2
    <3>3. CASE call[t].kind = "all" /\ ~LastHandle(t)
      <4>1. pc' = [pc EXCEPT ![t] = "enter"] /\ idx' = [idx EXCEPT ![t] = idx[t] + 1] /\ UNCHANGED call
        BY <2>1, <3>3 DEF AfterSignal
      <4> QED BY <4>1, <3>2, <3>3, <1>l
    <3>4. CASE ~(call[t].kind = "all" /\ ~LastHandle(t))
      <4>1. EndWait(t) BY <2>1, <3>4 DEF AfterSignal
      <4> QED BY <4>1, <3>2, <1>l DEF EndWait
    <3> QED BY <3>3, <3>4
  <2>2. CASE /\ ~set[Current(t)] /\ UNCHANGED <<set, taken>>
             /\ IF call[t].kind = "any" THEN PollOn(t) ELSE Park(t)
    <3>1. OneReleasePerSignal' BY <2>2, <1>0 DEF OneReleasePerSignal
    <3>2. CASE PollOn(t)
      <4>1. PICK i \in 1..Len(call[t].list) : idx' = [idx EXCEPT ![t] = i]
        BY <3>2, <1>l DEF PollOn
      <4>2. pc' = [pc EXCEPT ![t] = "enter"] /\ UNCHANGED call BY <3>2 DEF PollOn
      <4>3. \A h \in Handles : set'[h] => set[h] /\ ~(pc[t] = "notified" /\ Current(t) = h) BY <2>2
      <4>4. set' \in [Handles -> BOOLEAN] /\ taken' \subseteq Handles BY <2>2, <1>t
      <4> QED BY <4>1, <4>2, <4>3, <4>4, <3>1, <2>0, <1>m
    <3>3. CASE Park(t)
      <4>1. idx' = [idx EXCEPT ![t] = idx[t]] BY <3>3, <1>i DEF Park
      <4> QED BY <4>1, <3>1, <3>3, <2>0, <2>2, <1>m, <1>l, <1>t DEF Park
    <3> QED BY <3>2, <3>3, <2>2
  <2> QED BY <2>1, <2>2, <1>2 DEF WaitOne
<1>3. ASSUME NEW t \in Threads, WakeEarly(t) PROVE EventIInv'
  <2>1. /\ pc[t] = "parked" /\ pc' = [pc EXCEPT ![t] = "notified"]
        /\ UNCHANGED <<set, closed, call, idx, checked, notifying, taken>>
    BY <1>3 DEF WakeEarly
  <2>2. OneReleasePerSignal' BY <2>1, <1>0 DEF OneReleasePerSignal
  <2>3. idx' = [idx EXCEPT ![t] = idx[t]] BY <2>1, <1>i
  <2> QED BY <2>1, <2>2, <2>3, <1>m, <1>l, <1>t
<1>4. ASSUME NEW t \in Threads, TimeOut(t) PROVE EventIInv'
  <2>1. /\ pc[t] = "notified" => ~set[Current(t)]
        /\ pc' = [pc EXCEPT ![t] = "idle"] /\ idx' = [idx EXCEPT ![t] = 1] /\ UNCHANGED call
        /\ UNCHANGED <<set, closed, checked, notifying, taken>>
    BY <1>4 DEF TimeOut, EndWait
  <2>2. OneReleasePerSignal' BY <2>1, <1>0 DEF OneReleasePerSignal
  <2> QED BY <2>1, <2>2, <1>m, <1>l, <1>t
<1>5. ASSUME NEW t \in Threads, NEW c \in Calls, StartWait(t, c) PROVE EventIInv'
  <2>1. /\ pc[t] = "idle" /\ pc' = [pc EXCEPT ![t] = "enter"]
        /\ call' = [call EXCEPT ![t] = c] /\ idx' = [idx EXCEPT ![t] = 1]
        /\ UNCHANGED <<set, closed, checked, notifying, taken>>
    BY <1>5 DEF StartWait
  <2>2. TypeOK'
    <3>1. \A u \in Threads : idx'[u] \in 1..Len(call'[u].list)
      BY <2>1, <1>0, CallFacts DEF OneAtATime, TypeOK
    <3> QED BY <3>1, <2>1, <1>0 DEF TypeOK
  <2>3. OneAtATime' /\ OneReleasePerSignal' BY <2>1, <1>0 DEF OneAtATime, OneReleasePerSignal
  <2>4. \A u \in Threads \ {t} : pc'[u] = pc[u] /\ Current(u)' = Current(u)
    BY <2>1, <1>0 DEF Current, OneAtATime, TypeOK
  <2>5. pc'[t] = "enter" BY <2>1, <1>0 DEF TypeOK
  <2>6. NoStrandedSignal' BY <2>1, <2>2, <2>4, <2>5, WaitStep
  <2> QED BY <2>2, <2>3, <2>6, <1>z
\* A setter's step that leaves the waits alone.
<1>s. ASSUME UNCHANGED <<pc, call, idx>>
      PROVE  \A u \in Threads : Current(u)' = Current(u)
  BY <1>s DEF Current
<1>6. ASSUME NEW s \in Setters, NEW h \in Handles, StartSet(s, h) PROVE EventIInv'
  <2>1. /\ notifying[s] = {} /\ checked' = [checked EXCEPT ![s] = {h}]
        /\ UNCHANGED <<set, closed, pc, call, idx, notifying, taken>>
    BY <1>6 DEF StartSet
  <2>2. TypeOK' /\ OneAtATime' /\ OneReleasePerSignal'
    BY <2>1, <1>0 DEF TypeOK, OneAtATime, OneReleasePerSignal
  <2>3. NoStrandedSignal' BY <2>1, <1>0, <1>s DEF NoStrandedSignal, Sleepers
  <2> QED BY <2>2, <2>3, <1>z
<1>7. ASSUME NEW s \in Setters, Set(s) PROVE EventIInv'
  <2>1. PICK h \in checked[s] :
          /\ set' = [set EXCEPT ![h] = TRUE] /\ taken' = taken \ {h}
          /\ checked' = [checked EXCEPT ![s] = {}]
          /\ notifying' = [notifying EXCEPT ![s] = {h}]
          /\ UNCHANGED <<closed, pc, call, idx>>
    BY <1>7 DEF Set
  <2>2. h \in Handles /\ notifying[s] = {} BY <1>0 DEF TypeOK, OneAtATime
  <2>3. TypeOK' BY <2>1, <2>2, <1>0 DEF TypeOK
  <2>4. OneAtATime' BY <2>1, <2>2, <1>0 DEF OneAtATime, TypeOK
  <2>5. OneReleasePerSignal' BY <2>1, <2>2, <1>0 DEF OneReleasePerSignal, TypeOK
  <2>6. NoStrandedSignal'
    <3>1. h \in notifying'[s] BY <2>1, <1>0 DEF TypeOK
    <3>2. \A r \in Setters : notifying[r] \subseteq notifying'[r] BY <2>1, <2>2, <1>0 DEF TypeOK
    <3>3. \A g \in Handles \ {h} : set'[g] = set[g] BY <2>1, <1>t
    <3> QED BY <3>1, <3>2, <3>3, <2>1, <1>0, <1>s DEF NoStrandedSignal, Sleepers
  <2> QED BY <2>3, <2>4, <2>5, <2>6, <1>z
<1>8. ASSUME NEW s \in Setters, Reset(s) PROVE EventIInv'
  <2>1. PICK h \in checked[s] :
          /\ set' = [set EXCEPT ![h] = FALSE]
          /\ checked' = [checked EXCEPT ![s] = {}]
          /\ UNCHANGED <<closed, pc, call, idx, notifying, taken>>
    BY <1>8 DEF Reset
  <2>2. h \in Handles BY <1>0 DEF TypeOK
  <2>3. TypeOK' BY <2>1, <2>2, <1>0 DEF TypeOK
  <2>4. OneAtATime' BY <2>1, <1>0 DEF OneAtATime, TypeOK
  <2>5. OneReleasePerSignal' BY <2>1, <2>2, <1>0 DEF OneReleasePerSignal, TypeOK
  <2>6. NoStrandedSignal'
    <3>1. \A g \in Handles : set'[g] => set[g] BY <2>1, <2>2, <1>t
    <3> QED BY <3>1, <2>1, <1>0, <1>s DEF NoStrandedSignal, Sleepers
  <2> QED BY <2>3, <2>4, <2>5, <2>6, <1>z
<1>9. ASSUME NEW s \in Setters, SetNotifies(s) PROVE EventIInv'
  <2>1. PICK h \in notifying[s] :
          /\ Notify(h)
          /\ notifying' = [notifying EXCEPT ![s] = {}]
          /\ UNCHANGED <<set, closed, call, idx, checked, taken>>
    BY <1>9 DEF SetNotifies
  <2>2. h \in Handles /\ \A g \in notifying[s] : g = h BY <1>0 DEF TypeOK, OneAtATime
  <2>3. \A u \in Threads : Current(u)' = Current(u) BY <2>1 DEF Current
  <2>4. /\ pc' \in [Threads -> {"idle", "enter", "locking", "parked", "notified"}]
        /\ \A u \in Threads : /\ pc'[u] = "parked" => pc[u] = "parked"
                              /\ pc[u] = "notified" => pc'[u] = "notified"
        /\ \/ \A u \in Threads : ~(pc'[u] = "parked" /\ Current(u) = h)
           \/ AutoReset(h) /\ \E u \in Threads : pc'[u] = "notified" /\ Current(u) = h
    <3>1. CASE AutoReset(h) /\ Sleepers(h) = {} /\ UNCHANGED pc
      BY <3>1, <1>0 DEF TypeOK, Sleepers
    <3>2. CASE AutoReset(h) /\ \E u \in Sleepers(h) : pc' = [pc EXCEPT ![u] = "notified"]
      BY <3>2, <1>0 DEF TypeOK, Sleepers
    <3>3. CASE pc' = [u \in Threads |-> IF u \in Sleepers(h) THEN "notified" ELSE pc[u]]
      BY <3>3, <1>0 DEF TypeOK, Sleepers
    <3> QED BY <3>1, <3>2, <3>3, <2>1 DEF Notify
  <2>5. TypeOK' BY <2>1, <2>4, <1>0 DEF TypeOK
  <2>6. OneAtATime' /\ OneReleasePerSignal' BY <2>1, <1>0 DEF OneAtATime, OneReleasePerSignal, TypeOK
  <2>7. NoStrandedSignal'
    <3> SUFFICES ASSUME NEW g \in Handles, set'[g], Sleepers(g)' # {},
                        ~\E r \in Setters : g \in notifying'[r]
                 PROVE  AutoReset(g) /\ \E u \in Threads : pc'[u] = "notified" /\ Current(u)' = g
      BY DEF NoStrandedSignal, AutoReset
    <3>1. PICK v \in Threads : pc'[v] = "parked" /\ Current(v) = g BY <2>3 DEF Sleepers
    <3>2. CASE g = h BY <3>1, <3>2, <2>3, <2>4
    <3>3. CASE g # h
      <4>1. ~\E r \in Setters : g \in notifying[r] BY <3>3, <2>1, <2>2, <1>0 DEF TypeOK
      <4>2. set[g] /\ Sleepers(g) # {} BY <3>1, <2>1, <2>4 DEF Sleepers
      <4>3. AutoReset(g) /\ \E u \in Threads : pc[u] = "notified" /\ Current(u) = g
        BY <4>1, <4>2, <1>0 DEF NoStrandedSignal
      <4> QED BY <4>3, <2>3, <2>4
    <3> QED BY <3>2, <3>3
  <2> QED BY <2>5, <2>6, <2>7, <1>z
<1>10. ASSUME NEW h \in Closable, Dispose(h) PROVE EventIInv'
  <2>1. closed' = [closed EXCEPT ![h] = TRUE] /\ UNCHANGED <<set, pc, call, idx, checked, notifying, taken>>
    BY <1>10 DEF Dispose
  <2>2. h \in Handles BY HandleAssumption
  <2>3. TypeOK' /\ OneAtATime' /\ OneReleasePerSignal'
    BY <2>1, <2>2, <1>0 DEF TypeOK, OneAtATime, OneReleasePerSignal
  <2>4. NoStrandedSignal' BY <2>1, <1>0, <1>s DEF NoStrandedSignal, Sleepers
  <2> QED BY <2>3, <2>4, <1>z
<1>11. CASE UNCHANGED vars
  <2>1. UNCHANGED <<set, closed, pc, call, idx, checked, notifying, taken>> BY <1>11 DEF vars
  <2>2. TypeOK' /\ OneAtATime' /\ OneReleasePerSignal'
    BY <2>1, <1>0 DEF TypeOK, OneAtATime, OneReleasePerSignal
  <2>3. NoStrandedSignal' BY <2>1, <1>0, <1>s DEF NoStrandedSignal, Sleepers
  <2> QED BY <2>2, <2>3, <1>z
<1> QED
  BY <1>1, <1>2, <1>3, <1>4, <1>5, <1>6, <1>7, <1>8, <1>9, <1>10, <1>11 DEF Next

\* For any threads, setters, handles of both modes and calls of every kind: a signal of an
\* AutoResetEvent releases one wait, and nobody sleeps on a set handle that is not about
\* to be notified.
THEOREM EventIsCorrect == Spec => []EventInv
<1>1. EventIInv => EventInv BY DEF EventIInv
<1> QED BY <1>1, EventInit, EventNext, PTL DEF Spec

(* ManualResetEventSlim. *)

\* Where a thread may stand.
SlimPlaces == {"idle", "fastPath", "locking", "holding", "falling", "parked", "notified", "notify"}

\* A wait under way has seen the event set if it is set now, and a deadline
\* passes only in a wait that has one.
SlimIInv ==
  /\ Slim!SlimInv
  /\ sPc \in [Threads \cup SlimSetters -> SlimPlaces]
  /\ \A t \in Threads : /\ sPc[t] # "idle" /\ set_ => seenSet[t]
                        /\ late[t] => timed[t] /\ sPc[t] # "idle"

\* It holds at the start, and every step preserves it.
LEMMA SlimInductive == ASSUME SlimAssumed PROVE Slim!Spec => []SlimIInv
<1>1. Slim!Init => SlimIInv BY DEF Slim!Init, SlimIInv, Slim!SlimInv, Slim!TypeOK, Slim!ResultJustified,
    SlimPlaces, SlimAssumed
<1>2. SlimIInv /\ [Slim!Next]_Slim!vars => SlimIInv'
  <2> SUFFICES ASSUME SlimIInv, [Slim!Next]_Slim!vars PROVE SlimIInv' OBVIOUS
  <2> USE DEF SlimIInv, Slim!SlimInv, Slim!TypeOK, Slim!ResultJustified, SlimPlaces, SlimAssumed,
      Slim!GoTo, Slim!Return
  <2>r. ASSUME NEW t \in Threads, NEW r \in {"true", "false"}, sPc[t] # "idle", Slim!Return(t, r),
               r = "true" => seenSet[t], r = "false" => timed[t],
               UNCHANGED <<set_, disposed_, timed, seenSet>>,
               mtx_' = IF sPc[t] = "holding" THEN Slim!Free ELSE mtx_,
               sPc[t] # "falling"
        PROVE  SlimIInv'
    <3>1. /\ sPc' \in [Threads \cup SlimSetters -> SlimPlaces] /\ sPc'[t] = "idle" /\ result'[t] = r
          /\ \A u \in (Threads \cup SlimSetters) \ {t} : sPc'[u] = sPc[u]
          /\ \A u \in Threads \ {t} : result'[u] = result[u] /\ late'[u] = late[u]
          /\ late'[t] = FALSE
          /\ late' \in [Threads -> BOOLEAN] /\ result' \in [Threads -> {"none", "true", "false"}]
      BY <2>r
    <3>2. \A s \in SlimSetters : sPc'[s] = sPc[s] BY <3>1
    <3>3. Slim!TypeOK' BY <2>r, <3>1, <3>2
    <3>4. Slim!ResultJustified' BY <2>r, <3>1
    <3> QED BY <2>r, <3>1, <3>3, <3>4
  <2>1. ASSUME NEW t \in Threads, NEW b \in Timeouts, Slim!StartWait(t, b) PROVE SlimIInv'
    BY <2>1 DEF Slim!StartWait
  <2>2. ASSUME NEW t \in Threads, Slim!FastPath(t) PROVE SlimIInv'
    <3>1. CASE set_ BY <2>2, <3>1, <2>r DEF Slim!FastPath
    <3>2. CASE ~set_ BY <2>2, <3>2 DEF Slim!FastPath
    <3> QED BY <3>1, <3>2
  <2>3. ASSUME NEW t \in Threads, Slim!Lock(t) PROVE SlimIInv' BY <2>3 DEF Slim!Lock
  <2>4. ASSUME NEW t \in Threads, Slim!Evaluate(t) PROVE SlimIInv'
    <3>1. CASE set_ BY <2>4, <3>1, <2>r DEF Slim!Evaluate
    <3>2. CASE ~set_ /\ late[t] BY <2>4, <3>2, <2>r DEF Slim!Evaluate, Slim!LateResult
    <3>3. CASE ~set_ /\ ~late[t] BY <2>4, <3>3 DEF Slim!Evaluate
    <3> QED BY <3>1, <3>2, <3>3
  <2>5. ASSUME NEW t \in Threads, Slim!Sleep(t) PROVE SlimIInv' BY <2>5 DEF Slim!Sleep
  <2>6. ASSUME NEW t \in Threads, Slim!DeadlinePasses(t) PROVE SlimIInv' BY <2>6 DEF Slim!DeadlinePasses
  <2>7. ASSUME NEW t \in Threads, Slim!SpuriousWakeup(t) PROVE SlimIInv' BY <2>7 DEF Slim!SpuriousWakeup
  <2>8. ASSUME NEW s \in SlimSetters, Slim!Set(s) PROVE SlimIInv' BY <2>8 DEF Slim!Set
  <2>9. ASSUME NEW s \in SlimSetters, Slim!SetNotifies(s) PROVE SlimIInv' BY <2>9 DEF Slim!SetNotifies,
      Slim!Sleepers
  <2>10. ASSUME NEW s \in SlimSetters, Slim!Reset(s) PROVE SlimIInv' BY <2>10 DEF Slim!Reset, Slim!waits
  <2>11. CASE Slim!Dispose BY <2>11 DEF Slim!Dispose, Slim!waits
  <2>12. CASE UNCHANGED Slim!vars BY <2>12 DEF Slim!vars, Slim!waits
  <2> QED BY <2>1, <2>2, <2>3, <2>4, <2>5, <2>6, <2>7, <2>8, <2>9, <2>10, <2>11, <2>12
          DEF Slim!Next, Slim!Waiting
<1> QED BY <1>1, <1>2, PTL DEF Slim!Spec

\* For any number of waiting and setting threads, with and without deadlines: a Wait that
\* returns true has seen the event set while it ran, and one that returns false had a
\* deadline.
THEOREM SlimIsCorrect == Slim!Spec => []SlimInv
<1>1. SlimIInv => SlimInv BY DEF SlimIInv, SlimInv
<1> QED BY <1>1, SlimInductive, SlimAssumption, PTL

(* CancellationTokenSource. *)

\* The instance counts as FiniteSets does.
LEMMA SourceCardinality == \A S : Source!Cardinality(S) = Cardinality(S)
BY DEF Source!Cardinality, Cardinality

\* Where a Cancel has a callback in hand.
Busy == {"calling", "inCallback", "unmark"}

\* Where those who register and dispose may stand, and where those who cancel.
UserPlaces == {"idle", "inline", "parked", "notified"}
CancellerPlaces == {"idle", "loop", "calling", "inCallback", "unmark", "notify"}

\* The callbacks that were given a key.
Keyed == {c \in Callbacks : reg[c] \in {"active", "disposing", "disposed"}}

\* The types, and who can stand where.
Shape ==
  /\ cancelled \in BOOLEAN /\ disposed \in BOOLEAN /\ threw \in BOOLEAN
  /\ nextId \in Nat
  /\ executing \in Callbacks \cup {None}
  /\ executingThread \in Cancellers \cup {None}
  /\ callbacks \subseteq Callbacks /\ toRun \subseteq Callbacks
  /\ cPc \in [Source!Actors -> UserPlaces \cup CancellerPlaces]
  /\ \A u \in Users : cPc[u] \in UserPlaces
  /\ \A k \in Cancellers : cPc[k] \in CancellerPlaces
  /\ target \in [Source!Actors -> Callbacks \cup {None}]
  /\ reg \in [Callbacks -> {"none", "active", "inactive", "disposing", "disposed"}]
  /\ id \in [Callbacks -> Nat]
  /\ begun \in [Callbacks -> Nat] /\ ended \in [Callbacks -> Nat]
  /\ caught \in [Callbacks -> BOOLEAN]
  /\ lastRun \in Callbacks \cup {None}

\* One Cancel wins; it alone executes callbacks, and nothing was cancelled before it.
Winner ==
  /\ \A j, k \in Cancellers : cPc[j] # "idle" /\ cPc[k] # "idle" => j = k
  /\ \A k \in Cancellers : cPc[k] # "idle" => cancelled
  /\ cancelled => callbacks = {}
  /\ ~cancelled => toRun = {} /\ lastRun = None
  /\ toRun # {} => \E k \in Cancellers : cPc[k] # "idle"
  /\ \A k \in Cancellers : cPc[k] \in Busy =>
       /\ target[k] \in Callbacks \ toRun /\ reg[target[k]] \notin {"none", "inactive"}
       /\ executing = target[k] /\ executingThread = k
  /\ executing # None => \E k \in Cancellers : cPc[k] \in Busy

\* What is in the map, or was taken out of it to be run, has a key of its own.
Keys ==
  /\ \A c \in callbacks : reg[c] = "active"
  /\ ~cancelled => \A c \in Callbacks : reg[c] = "active" => c \in callbacks
  /\ \A c \in toRun : reg[c] \in {"active", "disposed"}
  /\ \A c \in callbacks \cup toRun : id[c] < nextId
  /\ \A c, d \in callbacks \cup toRun : id[c] = id[d] => c = d
  /\ \A k \in Cancellers : cPc[k] \in Busy => \A d \in toRun : id[d] < id[target[k]]
  /\ Source!LastInFirstOut

\* How far each callback has got.
Runs ==
  /\ \A c \in Callbacks : ended[c] <= begun[c] /\ begun[c] <= 1
  /\ \A c \in Callbacks : c \in callbacks \cup toRun \/ reg[c] = "none" => begun[c] = 0
  /\ \A k \in Cancellers :
       /\ cPc[k] = "calling" => begun[target[k]] = 0
       /\ cPc[k] = "inCallback" => begun[target[k]] = 1 /\ ended[target[k]] = 0
       /\ cPc[k] = "unmark" => ended[target[k]] = 1
  /\ cancelled => \A c \in Callbacks :
       reg[c] = "active" => c \in toRun \/ executing = c \/ ended[c] = 1
  /\ \A c \in Callbacks : caught[c] => executing = c \/ ended[c] = 1

\* What the users are busy with is theirs alone.
Owned ==
  /\ \A u \in Users : cPc[u] = "inline" =>
       target[u] \in Callbacks /\ reg[target[u]] = "inactive"
       /\ begun[target[u]] = 1 /\ ended[target[u]] = 0
  /\ \A u \in Users : cPc[u] \in {"parked", "notified"} =>
       target[u] \in Callbacks /\ reg[target[u]] = "disposing"
  /\ \A u, v \in Users : cPc[u] # "idle" /\ cPc[v] # "idle" /\ target[u] = target[v] => u = v
  /\ \A c \in Callbacks : reg[c] = "disposing" => caught[c]
  /\ Source!DisposeWaitsForCallback

\* The inductive invariant; the keys are as many as the callbacks that got one, so that
\* they never run out.
SourceIInv == Shape /\ nextId = Cardinality(Keyed) /\ Winner /\ Keys /\ Runs /\ Owned

\* A new source satisfies it.
LEMMA SourceInit == ASSUME SourceAssumed PROVE Source!Init => SourceIInv
<1> SUFFICES ASSUME Source!Init PROVE SourceIInv OBVIOUS
<1>1. Keyed = {} BY DEF Source!Init, Keyed
<1>2. nextId = Cardinality(Keyed) BY <1>1, FS_EmptySet DEF Source!Init
<1>3. Shape BY DEF SourceAssumed, Source!Init, Shape, UserPlaces, CancellerPlaces, Source!Actors
<1>4. Winner BY DEF Source!Init, Winner, Busy, Source!Actors
<1>5. Keys BY DEF Source!Init, Keys, Source!LastInFirstOut, Busy, Source!Actors
<1>6. Runs BY DEF Source!Init, Runs, Source!Actors
<1>7. Owned BY DEF Source!Init, Owned, Source!DisposeWaitsForCallback, Source!Actors
<1> QED BY <1>2, <1>3, <1>4, <1>5, <1>6, <1>7 DEF SourceIInv

\* Every step preserves it.
LEMMA SourceNext == ASSUME SourceAssumed PROVE SourceIInv /\ [Source!Next]_Source!vars => SourceIInv'
<1> SUFFICES ASSUME SourceIInv, [Source!Next]_Source!vars PROVE SourceIInv' OBVIOUS
<1> USE DEF SourceAssumed, SourceIInv, Source!GoTo
<1>k. ASSUME UNCHANGED <<reg, nextId>> PROVE nextId' = Cardinality(Keyed')
  BY <1>k DEF Keyed
<1>1. ASSUME NEW u \in Users, Source!InlineEnds(u) PROVE SourceIInv'
  <2>1. Shape' BY <1>1 DEF Source!InlineEnds, Source!state, Source!history, Shape, Winner, Owned, Busy,
      Source!Actors, UserPlaces, CancellerPlaces
  <2>2. nextId' = Cardinality(Keyed') BY <1>1, <1>k DEF Source!InlineEnds, Source!state, Source!history
  <2>3. Winner' BY <1>1 DEF Source!InlineEnds, Source!state, Source!history, Shape, Winner, Keys, Busy,
      Source!Actors, Owned, UserPlaces
  <2>4. Keys' BY <1>1 DEF Source!InlineEnds, Source!state, Source!history, Shape, Winner, Keys, Busy,
      Source!Actors, Owned, UserPlaces, Source!LastInFirstOut
  <2>5. Runs' BY <1>1 DEF Source!InlineEnds, Source!state, Source!history, Shape, Winner, Keys, Runs,
      Busy, Source!Actors, Owned, UserPlaces
  <2>6. Owned' BY <1>1 DEF Source!InlineEnds, Source!state, Source!history, Shape, Winner, Runs, Busy,
      Source!Actors, Owned, UserPlaces, Source!DisposeWaitsForCallback
  <2> QED BY <2>1, <2>2, <2>3, <2>4, <2>5, <2>6
<1>2. ASSUME NEW u \in Users, Source!ResumeDispose(u) PROVE SourceIInv'
  <2>1. Shape' BY <1>2 DEF Source!ResumeDispose, Source!state, Source!history, Shape, Winner, Owned,
      Busy, Source!Actors, UserPlaces, CancellerPlaces
  <2>2. nextId' = Cardinality(Keyed')
    <3>1. Keyed' = Keyed BY <1>2 DEF Source!ResumeDispose, Keyed, Shape, Owned
    <3> QED BY <1>2, <3>1 DEF Source!ResumeDispose, Source!state
  <2>3. Winner' BY <1>2 DEF Source!ResumeDispose, Source!state, Source!history, Shape, Winner, Keys,
      Busy, Source!Actors, Owned, UserPlaces
  <2>4. Keys' BY <1>2 DEF Source!ResumeDispose, Source!state, Source!history, Shape, Winner, Keys, Busy,
      Source!Actors, Owned, UserPlaces, Source!LastInFirstOut
  <2>5. Runs' BY <1>2 DEF Source!ResumeDispose, Source!state, Source!history, Shape, Winner, Keys, Runs,
      Busy, Source!Actors, Owned, UserPlaces
  <2>6. Owned' BY <1>2 DEF Source!ResumeDispose, Source!state, Source!history, Shape, Winner, Runs,
      Busy, Source!Actors, Owned, UserPlaces, Source!DisposeWaitsForCallback
  <2> QED BY <2>1, <2>2, <2>3, <2>4, <2>5, <2>6
<1>3. ASSUME NEW u \in Users, Source!WakeEarly(u) PROVE SourceIInv'
  <2>1. Shape' BY <1>3 DEF Source!WakeEarly, Source!state, Source!history, Shape, Winner, Owned, Busy,
      Source!Actors, UserPlaces, CancellerPlaces
  <2>2. nextId' = Cardinality(Keyed') BY <1>3, <1>k DEF Source!WakeEarly, Source!state, Source!history
  <2>3. Winner' BY <1>3 DEF Source!WakeEarly, Source!state, Source!history, Shape, Winner, Keys, Busy,
      Source!Actors, Owned, UserPlaces
  <2>4. Keys' BY <1>3 DEF Source!WakeEarly, Source!state, Source!history, Shape, Winner, Keys, Busy,
      Source!Actors, Owned, UserPlaces, Source!LastInFirstOut
  <2>5. Runs' BY <1>3 DEF Source!WakeEarly, Source!state, Source!history, Shape, Winner, Keys, Runs,
      Busy, Source!Actors, Owned, UserPlaces
  <2>6. Owned' BY <1>3 DEF Source!WakeEarly, Source!state, Source!history, Shape, Winner, Runs, Busy,
      Source!Actors, Owned, UserPlaces, Source!DisposeWaitsForCallback
  <2> QED BY <2>1, <2>2, <2>3, <2>4, <2>5, <2>6
<1>4. ASSUME NEW u \in Users, NEW c \in Callbacks, Source!Register(u, c) PROVE SourceIInv'
  <2>1. Shape' BY <1>4 DEF Source!Register, Source!state, Source!history, Shape, Winner, Owned, Busy,
      Source!Actors, UserPlaces, CancellerPlaces
  <2>2. nextId' = Cardinality(Keyed')
    <3>1. CASE cancelled
      <4>1. Keyed' = Keyed BY <1>4, <3>1 DEF Source!Register, Keyed, Shape
      <4> QED BY <1>4, <3>1, <4>1 DEF Source!Register
    <3>2. CASE ~cancelled
      <4>1. Keyed' = Keyed \cup {c} /\ c \notin Keyed BY <1>4, <3>2 DEF Source!Register, Keyed, Shape
      <4>2. Keyed \subseteq Callbacks BY DEF Keyed
      <4>3. IsFiniteSet(Keyed) BY <4>2, FS_Subset
      <4>4. Cardinality(Keyed') = Cardinality(Keyed) + 1 BY <4>1, <4>3, FS_AddElement
      <4> QED BY <1>4, <3>2, <4>4 DEF Source!Register
    <3> QED BY <3>1, <3>2
  <2>3. Winner' BY <1>4 DEF Source!Register, Source!state, Source!history, Shape, Winner, Keys, Busy,
      Source!Actors, Owned, UserPlaces
  <2>4. Keys' BY <1>4 DEF Source!Register, Source!state, Source!history, Shape, Winner, Keys, Busy,
      Source!Actors, Owned, UserPlaces, Source!LastInFirstOut
  <2>5. Runs' BY <1>4 DEF Source!Register, Source!state, Source!history, Shape, Winner, Keys, Runs,
      Busy, Source!Actors, Owned, UserPlaces
  <2>6. Owned' BY <1>4 DEF Source!Register, Source!state, Source!history, Shape, Winner, Runs, Busy,
      Source!Actors, Owned, UserPlaces, Source!DisposeWaitsForCallback
  <2> QED BY <2>1, <2>2, <2>3, <2>4, <2>5, <2>6
<1>5. ASSUME NEW k \in Cancellers, Source!Cancel(k) PROVE SourceIInv'
  <2>1. Shape' BY <1>5 DEF Source!Cancel, Source!state, Source!history, Shape, Winner, Owned, Busy,
      Source!Actors, UserPlaces, CancellerPlaces
  <2>2. nextId' = Cardinality(Keyed') BY <1>5, <1>k DEF Source!Cancel, Source!state, Source!history
  <2>3. Winner' BY <1>5 DEF Source!Cancel, Source!state, Source!history, Shape, Winner, Keys, Busy,
      Source!Actors, Owned, UserPlaces
  <2>4. Keys' BY <1>5 DEF Source!Cancel, Source!state, Source!history, Shape, Winner, Keys, Busy,
      Source!Actors, Owned, UserPlaces, Source!LastInFirstOut
  <2>5. Runs' BY <1>5 DEF Source!Cancel, Source!state, Source!history, Shape, Winner, Keys, Runs, Busy,
      Source!Actors, Owned, UserPlaces
  <2>6. Owned' BY <1>5 DEF Source!Cancel, Source!state, Source!history, Shape, Winner, Runs, Busy,
      Source!Actors, Owned, UserPlaces, Source!DisposeWaitsForCallback
  <2> QED BY <2>1, <2>2, <2>3, <2>4, <2>5, <2>6
<1>6. ASSUME NEW k \in Cancellers, Source!MarkExecuting(k) PROVE SourceIInv'
  <2>1. Shape' BY <1>6 DEF Source!MarkExecuting, Source!Mark, Source!NextIs, Source!state,
      Source!history, Shape, Winner, Owned, Busy, Source!Actors, UserPlaces, CancellerPlaces
  <2>2. nextId' = Cardinality(Keyed') BY <1>6, <1>k DEF Source!MarkExecuting, Source!Mark,
      Source!NextIs, Source!state, Source!history
  <2>3. Winner' BY <1>6 DEF Source!MarkExecuting, Source!Mark, Source!NextIs, Source!state,
      Source!history, Shape, Winner, Keys, Busy, Source!Actors, Owned, UserPlaces
  <2>4. Keys' BY <1>6 DEF Source!MarkExecuting, Source!Mark, Source!NextIs, Source!state,
      Source!history, Shape, Winner, Keys, Busy, Source!Actors, Owned, UserPlaces, Source!LastInFirstOut
  <2>5. Runs' BY <1>6 DEF Source!MarkExecuting, Source!Mark, Source!NextIs, Source!state,
      Source!history, Shape, Winner, Keys, Runs, Busy, Source!Actors, Owned, UserPlaces
  <2>6. Owned' BY <1>6 DEF Source!MarkExecuting, Source!Mark, Source!NextIs, Source!state,
      Source!history, Shape, Winner, Runs, Busy, Source!Actors, Owned, UserPlaces,
      Source!DisposeWaitsForCallback
  <2> QED BY <2>1, <2>2, <2>3, <2>4, <2>5, <2>6
<1>7. ASSUME NEW k \in Cancellers, Source!CallbackBegins(k) PROVE SourceIInv'
  <2>1. Shape' BY <1>7 DEF Source!CallbackBegins, Source!state, Source!history, Shape, Winner, Owned,
      Busy, Source!Actors, UserPlaces, CancellerPlaces
  <2>2. nextId' = Cardinality(Keyed') BY <1>7, <1>k DEF Source!CallbackBegins, Source!state,
      Source!history
  <2>3. Winner' BY <1>7 DEF Source!CallbackBegins, Source!state, Source!history, Shape, Winner, Keys,
      Busy, Source!Actors, Owned, UserPlaces
  <2>4. Keys' BY <1>7 DEF Source!CallbackBegins, Source!state, Source!history, Shape, Winner, Keys,
      Busy, Source!Actors, Owned, UserPlaces, Source!LastInFirstOut
  <2>5. Runs' BY <1>7 DEF Source!CallbackBegins, Source!state, Source!history, Shape, Winner, Keys,
      Runs, Busy, Source!Actors, Owned, UserPlaces
  <2>6. Owned' BY <1>7 DEF Source!CallbackBegins, Source!state, Source!history, Shape, Winner, Runs,
      Busy, Source!Actors, Owned, UserPlaces, Source!DisposeWaitsForCallback
  <2> QED BY <2>1, <2>2, <2>3, <2>4, <2>5, <2>6
<1>8. ASSUME NEW k \in Cancellers, NEW b \in BOOLEAN, Source!CallbackEnds(k, b) PROVE SourceIInv'
  <2>1. Shape' BY <1>8 DEF Source!CallbackEnds, Source!state, Source!history, Shape, Winner, Owned,
      Busy, Source!Actors, UserPlaces, CancellerPlaces
  <2>2. nextId' = Cardinality(Keyed') BY <1>8, <1>k DEF Source!CallbackEnds, Source!state,
      Source!history
  <2>3. Winner' BY <1>8 DEF Source!CallbackEnds, Source!state, Source!history, Shape, Winner, Keys,
      Busy, Source!Actors, Owned, UserPlaces
  <2>4. Keys' BY <1>8 DEF Source!CallbackEnds, Source!state, Source!history, Shape, Winner, Keys, Busy,
      Source!Actors, Owned, UserPlaces, Source!LastInFirstOut
  <2>5. Runs' BY <1>8 DEF Source!CallbackEnds, Source!state, Source!history, Shape, Winner, Keys, Runs,
      Busy, Source!Actors, Owned, UserPlaces
  <2>6. Owned' BY <1>8 DEF Source!CallbackEnds, Source!state, Source!history, Shape, Winner, Runs, Busy,
      Source!Actors, Owned, UserPlaces, Source!DisposeWaitsForCallback
  <2> QED BY <2>1, <2>2, <2>3, <2>4, <2>5, <2>6
<1>9. ASSUME NEW k \in Cancellers, Source!Unmark(k) PROVE SourceIInv'
  <2>1. Shape' BY <1>9 DEF Source!Unmark, Source!state, Source!history, Shape, Winner, Owned, Busy,
      Source!Actors, UserPlaces, CancellerPlaces
  <2>2. nextId' = Cardinality(Keyed') BY <1>9, <1>k DEF Source!Unmark, Source!state, Source!history
  <2>3. Winner' BY <1>9 DEF Source!Unmark, Source!state, Source!history, Shape, Winner, Keys, Busy,
      Source!Actors, Owned, UserPlaces
  <2>4. Keys' BY <1>9 DEF Source!Unmark, Source!state, Source!history, Shape, Winner, Keys, Busy,
      Source!Actors, Owned, UserPlaces, Source!LastInFirstOut
  <2>5. Runs' BY <1>9 DEF Source!Unmark, Source!state, Source!history, Shape, Winner, Keys, Runs, Busy,
      Source!Actors, Owned, UserPlaces
  <2>6. Owned' BY <1>9 DEF Source!Unmark, Source!state, Source!history, Shape, Winner, Runs, Busy,
      Source!Actors, Owned, UserPlaces, Source!DisposeWaitsForCallback
  <2> QED BY <2>1, <2>2, <2>3, <2>4, <2>5, <2>6
<1>10. ASSUME NEW k \in Cancellers, Source!NotifyFinished(k) PROVE SourceIInv'
  <2>1. Shape' BY <1>10 DEF Source!NotifyFinished, Source!NotifyAll, Source!state, Source!history,
      Shape, Winner, Owned, Busy, Source!Actors, UserPlaces, CancellerPlaces
  <2>2. nextId' = Cardinality(Keyed') BY <1>10, <1>k DEF Source!NotifyFinished, Source!NotifyAll,
      Source!state, Source!history
  <2>3. Winner' BY <1>10 DEF Source!NotifyFinished, Source!NotifyAll, Source!state, Source!history,
      Shape, Winner, Keys, Busy, Source!Actors, Owned, UserPlaces
  <2>4. Keys' BY <1>10 DEF Source!NotifyFinished, Source!NotifyAll, Source!state, Source!history, Shape,
      Winner, Keys, Busy, Source!Actors, Owned, UserPlaces, Source!LastInFirstOut
  <2>5. Runs' BY <1>10 DEF Source!NotifyFinished, Source!NotifyAll, Source!state, Source!history, Shape,
      Winner, Keys, Runs, Busy, Source!Actors, Owned, UserPlaces
  <2>6. Owned' BY <1>10 DEF Source!NotifyFinished, Source!NotifyAll, Source!state, Source!history,
      Shape, Winner, Runs, Busy, Source!Actors, Owned, UserPlaces, Source!DisposeWaitsForCallback
  <2> QED BY <2>1, <2>2, <2>3, <2>4, <2>5, <2>6
<1>11. ASSUME NEW k \in Cancellers, Source!CancelEnds(k) PROVE SourceIInv'
  <2>1. Shape' BY <1>11 DEF Source!CancelEnds, Source!state, Source!history, Shape, Winner, Owned, Busy,
      Source!Actors, UserPlaces, CancellerPlaces
  <2>2. nextId' = Cardinality(Keyed') BY <1>11, <1>k DEF Source!CancelEnds, Source!state, Source!history
  <2>3. Winner' BY <1>11 DEF Source!CancelEnds, Source!state, Source!history, Shape, Winner, Keys, Busy,
      Source!Actors, Owned, UserPlaces
  <2>4. Keys' BY <1>11 DEF Source!CancelEnds, Source!state, Source!history, Shape, Winner, Keys, Busy,
      Source!Actors, Owned, UserPlaces, Source!LastInFirstOut
  <2>5. Runs' BY <1>11 DEF Source!CancelEnds, Source!state, Source!history, Shape, Winner, Keys, Runs,
      Busy, Source!Actors, Owned, UserPlaces
  <2>6. Owned' BY <1>11 DEF Source!CancelEnds, Source!state, Source!history, Shape, Winner, Runs, Busy,
      Source!Actors, Owned, UserPlaces, Source!DisposeWaitsForCallback
  <2> QED BY <2>1, <2>2, <2>3, <2>4, <2>5, <2>6
<1>12. ASSUME NEW t \in Source!Actors, NEW c \in Callbacks, Source!Dispose(t, c) PROVE SourceIInv'
  <2>1. Shape' BY <1>12 DEF Source!Dispose, Source!MustWait, Source!state, Source!history, Shape,
      Winner, Owned, Busy, Source!Actors, UserPlaces, CancellerPlaces
  <2>2. nextId' = Cardinality(Keyed')
    <3>1. Keyed' = Keyed BY <1>12 DEF Source!Dispose, Keyed, Shape
    <3> QED BY <1>12, <3>1 DEF Source!Dispose
  <2>3. Winner' BY <1>12 DEF Source!Dispose, Source!MustWait, Source!state, Source!history, Shape,
      Winner, Keys, Busy, Source!Actors, Owned, UserPlaces
  <2>4. Keys' BY <1>12 DEF Source!Dispose, Source!MustWait, Source!state, Source!history, Shape, Winner,
      Keys, Busy, Source!Actors, Owned, UserPlaces, Source!LastInFirstOut
  <2>5. Runs' BY <1>12 DEF Source!Dispose, Source!MustWait, Source!state, Source!history, Shape, Winner,
      Keys, Runs, Busy, Source!Actors, Owned, UserPlaces
  <2>6. Owned'
    <3>1. CASE Source!MustWait(t, c)
      <4>1. t \in Users /\ cPc'[t] = "parked" /\ target'[t] = c /\ reg'[c] = "disposing"
            /\ (\A u \in Users \ {t} : cPc'[u] = cPc[u] /\ target'[u] = target[u])
            /\ (\A d \in Callbacks \ {c} : reg'[d] = reg[d] /\ caught'[d] = caught[d])
        BY <1>12, <3>1 DEF Source!Dispose, Source!MustWait, Shape, Winner, Busy, Source!Actors
      <4>2. caught'[c] BY <1>12, <3>1 DEF Source!Dispose, Source!MustWait, Shape
      <4>3. \A u \in Users \ {t} : cPc[u] # "idle" => target[u] # c
        BY <1>12 DEF Source!Dispose, Owned, Shape, UserPlaces
      <4> QED BY <1>12, <4>1, <4>2, <4>3 DEF Source!Dispose, Owned, Source!DisposeWaitsForCallback,
          Shape
    <3>2. CASE ~Source!MustWait(t, c)
      <4>1. reg'[c] = "disposed" /\ cPc' = cPc /\ target' = target
            /\ (\A d \in Callbacks \ {c} : reg'[d] = reg[d] /\ caught'[d] = caught[d])
        BY <1>12, <3>2 DEF Source!Dispose, Shape
      <4>c. ~(executing = c /\ executingThread # t)
        BY <1>12, <3>2 DEF Source!Dispose, Source!MustWait, Shape, Winner, Busy
      <4>2. caught'[c] = FALSE BY <1>12, <4>c DEF Source!Dispose, Shape
      <4>3. \A u \in Users : cPc[u] # "idle" => target[u] # c
        BY <1>12 DEF Source!Dispose, Owned, Shape, UserPlaces
      <4> QED BY <1>12, <4>1, <4>2, <4>3 DEF Source!Dispose, Owned, Source!DisposeWaitsForCallback,
          Shape, UserPlaces
    <3> QED BY <3>1, <3>2
  <2> QED BY <2>1, <2>2, <2>3, <2>4, <2>5, <2>6
<1>13. ASSUME Source!DisposeSource PROVE SourceIInv'
  <2>1. Shape' BY <1>13 DEF Source!DisposeSource, Source!state, Source!history, Shape, Winner, Owned,
      Busy, Source!Actors, UserPlaces, CancellerPlaces
  <2>2. nextId' = Cardinality(Keyed') BY <1>13, <1>k DEF Source!DisposeSource, Source!state,
      Source!history
  <2>3. Winner' BY <1>13 DEF Source!DisposeSource, Source!state, Source!history, Shape, Winner, Keys,
      Busy, Source!Actors, Owned, UserPlaces
  <2>4. Keys' BY <1>13 DEF Source!DisposeSource, Source!state, Source!history, Shape, Winner, Keys,
      Busy, Source!Actors, Owned, UserPlaces, Source!LastInFirstOut
  <2>5. Runs' BY <1>13 DEF Source!DisposeSource, Source!state, Source!history, Shape, Winner, Keys,
      Runs, Busy, Source!Actors, Owned, UserPlaces
  <2>6. Owned' BY <1>13 DEF Source!DisposeSource, Source!state, Source!history, Shape, Winner, Runs,
      Busy, Source!Actors, Owned, UserPlaces, Source!DisposeWaitsForCallback
  <2> QED BY <2>1, <2>2, <2>3, <2>4, <2>5, <2>6
<1>14. ASSUME UNCHANGED Source!vars PROVE SourceIInv'
  <2>1. Shape' BY <1>14 DEF Source!vars, Source!state, Source!history, Shape, Winner, Owned, Busy,
      Source!Actors, UserPlaces, CancellerPlaces
  <2>2. nextId' = Cardinality(Keyed') BY <1>14, <1>k DEF Source!vars, Source!state, Source!history
  <2>3. Winner' BY <1>14 DEF Source!vars, Source!state, Source!history, Shape, Winner, Keys, Busy,
      Source!Actors, Owned, UserPlaces
  <2>4. Keys' BY <1>14 DEF Source!vars, Source!state, Source!history, Shape, Winner, Keys, Busy,
      Source!Actors, Owned, UserPlaces, Source!LastInFirstOut
  <2>5. Runs' BY <1>14 DEF Source!vars, Source!state, Source!history, Shape, Winner, Keys, Runs, Busy,
      Source!Actors, Owned, UserPlaces
  <2>6. Owned' BY <1>14 DEF Source!vars, Source!state, Source!history, Shape, Winner, Runs, Busy,
      Source!Actors, Owned, UserPlaces, Source!DisposeWaitsForCallback
  <2> QED BY <2>1, <2>2, <2>3, <2>4, <2>5, <2>6
<1> QED BY <1>1, <1>2, <1>3, <1>4, <1>5, <1>6, <1>7, <1>8, <1>9, <1>10, <1>11, <1>12, <1>13, <1>14
    DEF Source!Next, Source!Cancelling

\* For any number of callbacks, users and cancellers: a callback runs at most once, none
\* that was registered is forgotten by Cancel, the last registered runs first, and a
\* Dispose that finds its callback running returns only after it.
THEOREM SourceIsCorrect == Source!Spec => []SourceInv
<1>1. SourceIInv => SourceInv
  <2> SUFFICES ASSUME SourceIInv PROVE SourceInv OBVIOUS
  <2>1. Keyed \subseteq Callbacks BY DEF Keyed
  <2>2. Cardinality(Keyed) <= Cardinality(Callbacks) /\ Cardinality(Callbacks) \in Nat
    BY <2>1, FS_Subset, FS_CardinalityType, SourceAssumption DEF SourceAssumed
  <2>3. Source!TypeOK BY <2>2, SourceCardinality DEF SourceIInv, Shape, Keys, Source!TypeOK, UserPlaces,
      CancellerPlaces
  <2>4. Source!RunsOnce BY DEF SourceIInv, Runs, Source!RunsOnce
  <2>5. Source!NoRegistrationLost BY SourceAssumption DEF SourceIInv, Winner, Runs,
      Source!NoRegistrationLost, Busy, SourceAssumed
  <2> QED BY <2>3, <2>4, <2>5 DEF SourceIInv, Keys, Owned, SourceInv, Source!SourceInv
<1> QED BY SourceInit, SourceNext, <1>1, SourceAssumption, PTL DEF Source!Spec

(* PeriodicTimer. *)

\* The instance counts as FiniteSets does.
LEMMA PeriodicCardinality == \A S : Periodic!Cardinality(S) = Cardinality(S)
BY DEF Periodic!Cardinality, Cardinality

\* The consumers inside WaitForNextTick.
Inside == {t \in Threads : pPc[t] # "idle"}

\* A tick that was handed out has moved the next one on, the flag of the active wait
\* stands for one consumer, and a consumer that is late still has its tick to take.
PeriodicIInv ==
  /\ Periodic!TypeOK
  /\ next_ = ticks + 1 /\ ticks <= now
  /\ IF activeWait_ THEN \E t \in Threads : Inside = {t} ELSE Inside = {}
  /\ \A t \in Threads : pPc[t] = "late" => now >= next_

\* It holds at the start, and every step preserves it.
LEMMA PeriodicInductive == ASSUME PeriodicAssumed PROVE Periodic!Spec => []PeriodicIInv
<1> USE DEF PeriodicAssumed
<1>1. Periodic!Init => PeriodicIInv
  <2> SUFFICES ASSUME Periodic!Init PROVE PeriodicIInv OBVIOUS
  <2>1. Periodic!TypeOK
    <3>1. {infinite_, pDisposed, activeWait_, pNotifying} \subseteq BOOLEAN BY Zenon DEF Periodic!Init
    <3>2. next_ \in Nat /\ now \in 0..MaxTime /\ ticks \in Nat BY DEF Periodic!Init
    <3> QED BY <3>1, <3>2 DEF Periodic!Init, Periodic!TypeOK
  <2>2. Inside = {} BY DEF Periodic!Init, Inside
  <2> QED BY <2>1, <2>2 DEF Periodic!Init, PeriodicIInv
<1>2. PeriodicIInv /\ [Periodic!Next]_Periodic!vars => PeriodicIInv'
  <2> SUFFICES ASSUME PeriodicIInv, [Periodic!Next]_Periodic!vars PROVE PeriodicIInv' OBVIOUS
  <2> USE DEF PeriodicIInv, Periodic!TypeOK, Inside
  <2>1. ASSUME NEW t \in Threads, Periodic!WaitForNextTick(t) PROVE PeriodicIInv'
    <3>1. Inside' = {t} BY <2>1 DEF Periodic!WaitForNextTick, Periodic!Refused
    <3> QED BY <2>1, <3>1 DEF Periodic!WaitForNextTick
  <2>2. ASSUME NEW t \in Threads, Periodic!WakeUp(t) PROVE PeriodicIInv'
    <3>1. Inside' = Inside BY <2>2 DEF Periodic!WakeUp
    <3> QED BY <2>2, <3>1 DEF Periodic!WakeUp
  <2>8. ASSUME NEW t \in Threads, Periodic!DeadlinePasses(t) PROVE PeriodicIInv'
    <3>1. Inside' = Inside BY <2>8 DEF Periodic!DeadlinePasses
    <3> QED BY <2>8, <3>1 DEF Periodic!DeadlinePasses, Periodic!Due
  <2>3. ASSUME NEW t \in Threads, Periodic!Resume(t) PROVE PeriodicIInv'
    <3>1. activeWait_ /\ Inside = {t} BY <2>3 DEF Periodic!Resume
    <3>2. CASE pDisposed \/ pPc[t] = "late"
      <4>1. Inside' = {} BY <2>3, <3>1, <3>2 DEF Periodic!Resume
      <4>2. activeWait_' = FALSE /\ pPc' \in [Threads -> {"idle", "parked", "awake", "late"}]
            /\ UNCHANGED <<infinite_, pDisposed, now, pNotifying>>
        BY <2>3, <3>2 DEF Periodic!Resume
      <4>3. next_' = ticks' + 1 /\ ticks' <= now /\ ticks' \in Nat /\ next_' \in Nat
        BY <2>3, <3>2 DEF Periodic!Resume
      <4>4. \A u \in Threads : pPc'[u] # "late" BY <4>1
      <4> QED BY <4>1, <4>2, <4>3, <4>4
    <3>3. CASE ~(pDisposed \/ pPc[t] = "late")
      <4>1. Inside' = Inside BY <2>3, <3>3 DEF Periodic!Resume
      <4> QED BY <2>3, <3>3, <4>1 DEF Periodic!Resume
    <3> QED BY <3>2, <3>3
  <2>4. CASE Periodic!Dispose BY <2>4 DEF Periodic!Dispose
  <2>5. CASE Periodic!DisposeNotifies
    <3>1. Inside' = Inside /\ pPc' \in [Threads -> {"idle", "parked", "awake", "late"}]
          /\ \A t \in Threads : pPc'[t] = "late" => pPc[t] = "late"
      BY <2>5 DEF Periodic!DisposeNotifies, Periodic!Woken
    <3> QED BY <2>5, <3>1 DEF Periodic!DisposeNotifies
  <2>6. CASE Periodic!TimePasses BY <2>6 DEF Periodic!TimePasses
  <2>7. CASE UNCHANGED Periodic!vars BY <2>7 DEF Periodic!vars
  <2> QED BY <2>1, <2>2, <2>3, <2>4, <2>5, <2>6, <2>7, <2>8 DEF Periodic!Next
<1> QED BY <1>1, <1>2, PTL DEF Periodic!Spec

\* However many consumers call WaitForNextTick, and whenever Dispose comes: one waits at a
\* time, whoever leaves makes room, and no more waits succeed than periods have passed.
THEOREM TicksAreNotShared == Periodic!Spec => []PeriodicInv
<1>1. PeriodicIInv => PeriodicInv
  <2> SUFFICES ASSUME PeriodicIInv PROVE Cardinality(Inside) = IF activeWait_ THEN 1 ELSE 0
    BY PeriodicCardinality DEF PeriodicIInv, PeriodicInv, Periodic!PeriodicInv, Inside
  <2> QED BY FS_Singleton, FS_EmptySet DEF PeriodicIInv
<1> QED BY <1>1, PeriodicInductive, PeriodicAssumption, PTL

(* RegisteredWaitHandle. *)

\* Between the signal it takes and the end of the callback the worker is one
\* callback behind, and never further.
RegisteredIInv ==
  /\ Registered!TypeOK /\ Registered!QuietAfterUnregister
  /\ rPc \in {"test", "waiting"} => rTaken = called
  /\ rPc \in {"woken", "calling"} => rTaken = IF timedOut THEN called ELSE called + 1
  /\ rPc = "done" => rTaken = called \/ (unregistered /\ rTaken = called + 1)

\* It holds at the start, and every step preserves it.
LEMMA RegisteredInductive == ASSUME RegisteredAssumed PROVE Registered!Spec => []RegisteredIInv
<1> USE DEF RegisteredAssumed
<1>1. Registered!Init => RegisteredIInv
  <2> SUFFICES ASSUME Registered!Init PROVE RegisteredIInv OBVIOUS
  <2>1. Registered!TypeOK BY DEF Registered!Init, Registered!TypeOK
  <2> QED BY <2>1 DEF Registered!Init, RegisteredIInv, Registered!QuietAfterUnregister
<1>2. RegisteredIInv /\ [Registered!Next]_Registered!vars => RegisteredIInv'
  <2> SUFFICES ASSUME RegisteredIInv, [Registered!Next]_Registered!vars PROVE RegisteredIInv' OBVIOUS
  <2> USE DEF RegisteredIInv, Registered!TypeOK, Registered!QuietAfterUnregister, Registered!options
  <2>1. CASE Registered!Test BY <2>1 DEF Registered!Test, Registered!LoopEnds
  <2>2. CASE Registered!TakeSignal
    <3>1. unregistered' \in BOOLEAN /\ executeOnlyOnce' \in BOOLEAN /\ signaled' \in BOOLEAN
          /\ timedOut' \in BOOLEAN /\ returned' \in BOOLEAN
      BY <2>2, Zenon DEF Registered!TakeSignal
    <3> QED BY <2>2, <3>1 DEF Registered!TakeSignal
  <2>3. CASE Registered!SliceEnds
    <3>1. unregistered' \in BOOLEAN /\ executeOnlyOnce' \in BOOLEAN /\ signaled' \in BOOLEAN
          /\ returned' \in BOOLEAN
      BY <2>3, Zenon DEF Registered!SliceEnds
    <3>2. timedOut' \in BOOLEAN
      <4>1. CASE interval = 0 BY <2>3, <4>1, Zenon DEF Registered!SliceEnds
      <4>2. CASE interval # 0
        <5>1. timedOut' = (elapsed + 1 >= interval) BY <2>3, <4>2, Zenon DEF Registered!SliceEnds
        <5>2. CASE elapsed + 1 >= interval
          <6>1. (elapsed + 1 >= interval) = TRUE BY <5>2
          <6> QED BY <5>1, <6>1, Zenon
        <5>3. CASE ~(elapsed + 1 >= interval)
          <6>1. (elapsed + 1 >= interval) = FALSE BY <5>3
          <6> QED BY <5>1, <6>1, Zenon
        <5> QED BY <5>2, <5>3, Zenon
      <4> QED BY <4>1, <4>2
    <3> QED BY <2>3, <3>1, <3>2 DEF Registered!SliceEnds
  <2>4. CASE Registered!Decide BY <2>4 DEF Registered!Decide
  <2>5. CASE Registered!CallbackReturns BY <2>5 DEF Registered!CallbackReturns
  <2>6. CASE Registered!UnregisterSelf BY <2>6 DEF Registered!UnregisterSelf
  <2>7. CASE Registered!SetEvent BY <2>7 DEF Registered!SetEvent
  <2>8. ASSUME NEW u \in Users, Registered!Unregister(u) PROVE RegisteredIInv' BY <2>8
      DEF Registered!Unregister
  <2>9. ASSUME NEW u \in Users, Registered!Join(u) PROVE RegisteredIInv' BY <2>9 DEF Registered!Join,
      Registered!Joinable
  <2>10. CASE UNCHANGED Registered!vars BY <2>10 DEF Registered!vars
  <2> QED BY <2>1, <2>2, <2>3, <2>4, <2>5, <2>6, <2>7, <2>8, <2>9, <2>10 DEF Registered!Next,
      Registered!Worker
<1> QED BY <1>1, <1>2, PTL DEF Registered!Spec

\* Whatever the timeout and however signals, callbacks and Unregister interleave: a signal
\* that the worker has taken reaches the callback unless the wait was unregistered, and
\* once Unregister has returned the callback is not called.
THEOREM SignalsArePassedOn == Registered!Spec => []RegisteredInv
<1>1. RegisteredIInv => RegisteredInv BY DEF RegisteredIInv, Registered!TypeOK, RegisteredInv,
    Registered!RegisteredInv, Registered!SignalPassedOn
<1> QED BY <1>1, RegisteredInductive, RegisteredAssumption, PTL

=============================================================================
