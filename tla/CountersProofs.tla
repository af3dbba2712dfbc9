--------------------------- MODULE CountersProofs ---------------------------
(* Theorems about SemaphoreSlim, CountdownEvent, Barrier and Timer, for any width *)
(* of the machine integer and any number of threads.                              *)
EXTENDS MCCounters, Int32CountsProofs, FiniteSetTheorems

(* SemaphoreSlim. *)

\* Neither operation of Release overflows, and Full says what it means to say.
LEMMA ReleaseDoesNotOverflow ==
  ASSUME maxCount_ \in 1..IntMax, count_ \in 0..maxCount_, NEW n \in 1..IntMax
  PROVE  /\ Full(n) <=> count_ + n > maxCount_
         /\ ~Full(n) => Wrap(count_ + n) = count_ + n
<1>1. Wrap(maxCount_ - count_) = maxCount_ - count_
  <2>1. maxCount_ - count_ \in -(IntMax + 1)..IntMax BY IntMaxAssumption
  <2> QED BY <2>1, WrapIdentity
<1>2. Full(n) <=> count_ + n > maxCount_ BY <1>1, IntMaxAssumption DEF Full
<1>3. ASSUME ~Full(n) PROVE Wrap(count_ + n) = count_ + n
  <2>1. count_ + n \in -(IntMax + 1)..IntMax BY <1>2, <1>3, IntMaxAssumption
  <2> QED BY <2>1, WrapIdentity
<1> QED BY <1>2, <1>3

\* The inductive invariant.
SemaphoreIInv == SemaphoreInv

\* The constructor establishes it.
LEMMA SemaphoreInit == Init => SemaphoreIInv
<1> SUFFICES ASSUME Init PROVE SemaphoreIInv OBVIOUS
<1>1. count_ \in 0..IntMax /\ maxCount_ \in 1..IntMax BY CountsAssumption, ArgumentsAssumption DEF Init
<1>a. count_ \in -(IntMax + 1)..IntMax /\ count_ \in Nat BY <1>1, IntMaxAssumption
<1>b. initial \in Nat /\ released \in Nat /\ acquired \in Nat BY <1>a DEF Init
<1>2. TypeOK BY <1>a, <1>b, Zenon DEF Init, TypeOK
<1>3. CountInRange /\ PermitsConserved BY <1>1, IntMaxAssumption DEF Init, CountInRange,
    PermitsConserved
<1>4. NoLostWakeup BY DEF Init, NoLostWakeup
<1> QED BY <1>2, <1>3, <1>4 DEF SemaphoreIInv, SemaphoreInv

\* Every step preserves it.
LEMMA SemaphoreNext == SemaphoreIInv /\ [Next]_vars => SemaphoreIInv'
<1> SUFFICES ASSUME SemaphoreIInv, [Next]_vars PROVE SemaphoreIInv' OBVIOUS
<1> USE DEF history
<1>0. /\ maxCount_ \in 1..IntMax /\ maxCount_ \in MaxCounts
      /\ count_ \in 0..maxCount_
      /\ IntMax \in Nat
  BY CountsAssumption, IntMaxAssumption DEF SemaphoreIInv, SemaphoreInv, TypeOK, CountInRange
<1>1. ASSUME NEW t \in Threads, NEW b \in BOOLEAN, StartWait(t, b) PROVE SemaphoreIInv'
  BY <1>1 DEF SemaphoreIInv, SemaphoreInv, TypeOK, CountInRange, PermitsConserved, NoLostWakeup,
      StartWait, Call
<1>2. ASSUME NEW t \in Threads, Wait(t) PROVE SemaphoreIInv'
  <2>1. CASE count_ > 0
    <3>c. ~(count_ <= 0) BY <2>1, <1>0
    <3>1. /\ count_' = count_ - 1 /\ acquired' = acquired + 1
          /\ pc' = [pc EXCEPT ![t] = "idle"]
          /\ UNCHANGED <<maxCount_, disposed_, timed, initial, released>>
      BY <1>2, <3>c, Zenon DEF Wait, Return
    <3>a. count_' \in -(IntMax + 1)..IntMax BY <3>1, <1>0, <2>1
    <3>b. acquired' \in Nat BY <3>1 DEF SemaphoreIInv, SemaphoreInv, TypeOK
    <3>2. TypeOK' BY <3>1, <3>a, <3>b DEF SemaphoreIInv, SemaphoreInv, TypeOK
    <3>3. CountInRange' BY <3>1, <1>0, <2>1 DEF CountInRange
    <3>4. PermitsConserved' BY <3>1, <1>0 DEF SemaphoreIInv, SemaphoreInv, TypeOK, PermitsConserved
    <3>5. NoLostWakeup' BY <3>1, <2>1, <1>0 DEF SemaphoreIInv, SemaphoreInv, TypeOK, NoLostWakeup
    <3> QED BY <3>2, <3>3, <3>4, <3>5 DEF SemaphoreIInv, SemaphoreInv
  <2>2. CASE count_ <= 0
    <3>1. count_ = 0 BY <1>0, <2>2
    <3> QED BY <3>1, <1>2 DEF SemaphoreIInv, SemaphoreInv, TypeOK, CountInRange, PermitsConserved,
        NoLostWakeup, Wait
  <2> QED BY <2>1, <2>2, <1>0
<1>3. ASSUME NEW t \in Threads, TimeOut(t) PROVE SemaphoreIInv'
  BY <1>3 DEF SemaphoreIInv, SemaphoreInv, TypeOK, CountInRange, PermitsConserved, NoLostWakeup,
      TimeOut, Return
<1>4. ASSUME NEW t \in Threads, StartRelease(t) PROVE SemaphoreIInv'
  BY <1>4 DEF SemaphoreIInv, SemaphoreInv, TypeOK, CountInRange, PermitsConserved, NoLostWakeup,
      StartRelease, Call
<1>5. ASSUME NEW t \in Threads, NEW n \in Amounts, Release(t, n) PROVE SemaphoreIInv'
  <2>0. n \in 1..IntMax BY ArgumentsAssumption
  <2>1. CASE Full(n)
    BY <2>1, <1>5 DEF SemaphoreIInv, SemaphoreInv, TypeOK, CountInRange, PermitsConserved, NoLostWakeup,
        Release, Return
  <2>2. CASE ~Full(n)
    <3>1. /\ count_' = count_ + n
          /\ count_ + n <= maxCount_
      BY <1>5, <2>0, <2>2, <1>0, ReleaseDoesNotOverflow DEF Release
    <3>2. /\ released' = released + n
          /\ pc' = NotifyAll([pc EXCEPT ![t] = "idle"])
          /\ UNCHANGED <<maxCount_, disposed_, timed, initial, acquired>>
      BY <1>5, <2>2 DEF Release
    <3>3. /\ pc' \in [Threads -> {"idle", "waiting", "parked", "notified", "releasing"}]
          /\ \A u \in Threads : pc'[u] # "parked"
      BY <3>2 DEF SemaphoreIInv, SemaphoreInv, TypeOK, NotifyAll
    <3>a. count_' \in -(IntMax + 1)..IntMax BY <3>1, <2>0, <1>0
    <3>b. released' \in Nat BY <3>2, <2>0 DEF SemaphoreIInv, SemaphoreInv, TypeOK
    <3>4. TypeOK' BY <3>2, <3>3, <3>a, <3>b DEF SemaphoreIInv, SemaphoreInv, TypeOK
    <3>5. CountInRange' BY <3>1, <3>2, <2>0, <1>0 DEF CountInRange
    <3>6. PermitsConserved' BY <3>1, <3>2, <2>0, <1>0 DEF SemaphoreIInv, SemaphoreInv, TypeOK,
        PermitsConserved
    <3>7. NoLostWakeup' BY <3>3 DEF NoLostWakeup
    <3> QED BY <3>4, <3>5, <3>6, <3>7 DEF SemaphoreIInv, SemaphoreInv
  <2> QED BY <2>1, <2>2
<1>6. CASE Dispose
  BY <1>6 DEF SemaphoreIInv, SemaphoreInv, TypeOK, CountInRange, PermitsConserved, NoLostWakeup, Dispose
<1>7. CASE UNCHANGED vars
  BY <1>7 DEF SemaphoreIInv, SemaphoreInv, TypeOK, CountInRange, PermitsConserved, NoLostWakeup, vars
<1> QED BY <1>1, <1>2, <1>3, <1>4, <1>5, <1>6, <1>7 DEF Next

\* The inductive invariant holds throughout.
LEMMA SemaphoreAlways == Spec => []SemaphoreIInv
BY SemaphoreInit, SemaphoreNext, PTL DEF Spec

\* Permits, count and sleepers of a SemaphoreSlim agree at every moment, for any
\* number of threads and any width of intcs.
THEOREM SemaphoreIsCorrect == Spec => []SemaphoreInv
BY SemaphoreAlways DEF SemaphoreIInv

\* The count of a SemaphoreSlim stays between zero and its maximum whatever the
\* width of intcs: the guard of Release admits no addition that overflows.
THEOREM CountStaysInRange == Spec => []CountInRange
<1>1. SemaphoreIInv => CountInRange BY DEF SemaphoreIInv, SemaphoreInv
<1> QED BY <1>1, SemaphoreAlways, PTL

\* The count is what the constructor, Release and Wait account for, always: no
\* permit is made or lost by timeouts, rejected releases or overflow.
THEOREM PermitsAreConserved == Spec => []PermitsConserved
<1>1. SemaphoreIInv => PermitsConserved BY DEF SemaphoreIInv, SemaphoreInv
<1> QED BY <1>1, SemaphoreAlways, PTL

\* No thread is left asleep in Wait while permits are available.
THEOREM NoWakeupIsLost == Spec => []NoLostWakeup
<1>1. SemaphoreIInv => NoLostWakeup BY DEF SemaphoreIInv, SemaphoreInv
<1> QED BY <1>1, SemaphoreAlways, PTL

(* CountdownEvent. *)

\* The countdown's register is the one of Int32Counts.
LEMMA CountdownWrap == \A n : Countdown!Wrap(n) = Wrap(n)
BY DEF Countdown!Wrap, Wrap

\* Neither a Signal nor an AddCount that is not refused overflows.
LEMMA NoOverflow ==
  ASSUME currentCount_ \in 0..IntMax, NEW n \in 1..IntMax
  PROVE  /\ ~Countdown!SignalRefused(n) => /\ Wrap(currentCount_ - n) = currentCount_ - n
                                 /\ currentCount_ - n \in 0..IntMax
         /\ ~Countdown!AddRefused(n) => /\ Wrap(currentCount_ + n) = currentCount_ + n
                              /\ currentCount_ + n \in 1..IntMax
<1>1. ASSUME ~Countdown!SignalRefused(n)
      PROVE  currentCount_ - n \in 0..IntMax /\ currentCount_ - n \in -(IntMax + 1)..IntMax
  BY <1>1, IntMaxAssumption DEF Countdown!SignalRefused
<1>2. ASSUME ~Countdown!AddRefused(n)
      PROVE  currentCount_ + n \in 1..IntMax /\ currentCount_ + n \in -(IntMax + 1)..IntMax
  BY <1>2, IntMaxAssumption DEF Countdown!AddRefused
<1> QED BY <1>1, <1>2, WrapIdentity

\* What the proofs use of a notification: everyone who slept is awake.
LEMMA NotifyAllFacts ==
  ASSUME Countdown!TypeOK, NEW t \in Threads, cdPc' = Countdown!NotifyAll([cdPc EXCEPT ![t] = "idle"])
  PROVE  /\ cdPc' \in [Threads -> {"idle", "signalling", "adding", "resetting", "notifying",
                                 "waiting", "parked", "notified"}]
         /\ \A u \in Threads : cdPc'[u] # "parked"
BY DEF Countdown!TypeOK, Countdown!NotifyAll

\* The inductive invariant.
CountdownIInv == Countdown!CountdownInv

\* The constructor establishes it.
LEMMA CountdownInit == Countdown!Init => CountdownIInv
<1> SUFFICES ASSUME Countdown!Init PROVE CountdownIInv OBVIOUS
<1>1. initialCount_ \in 0..IntMax /\ currentCount_ = initialCount_ /\ exact = initialCount_
  BY ArgumentsAssumption DEF Countdown!Init
<1>2. /\ currentCount_ \in -(IntMax + 1)..IntMax /\ exact \in Int
      /\ setters \in Nat /\ resets \in Nat /\ 0 \in 0..IntMax
  BY <1>1, IntMaxAssumption, ArgumentsAssumption DEF Countdown!Init
<1>3. Countdown!TypeOK BY <1>1, <1>2, Zenon DEF Countdown!Init, Countdown!TypeOK
<1>4. Countdown!CountExact BY <1>1, IntMaxAssumption DEF Countdown!CountExact
<1>5. Countdown!OneSetter BY <1>1 DEF Countdown!Init, Countdown!OneSetter
<1>6. Countdown!NoLostWakeup BY DEF Countdown!Init, Countdown!NoLostWakeup
<1> QED BY <1>3, <1>4, <1>5, <1>6 DEF CountdownIInv, Countdown!CountdownInv

\* Every step preserves it.
LEMMA CountdownNext == CountdownIInv /\ [Countdown!Next]_Countdown!vars => CountdownIInv'
<1> SUFFICES ASSUME CountdownIInv, [Countdown!Next]_Countdown!vars PROVE CountdownIInv' OBVIOUS
<1> USE DEF Countdown!counts, Countdown!history, Countdown!GoTo
<1>0. /\ currentCount_ \in 0..IntMax /\ IntMax \in Nat /\ exact = currentCount_
      /\ currentCount_ # 0 => setters = 0
      /\ Countdown!TypeOK
  BY IntMaxAssumption DEF CountdownIInv, Countdown!CountdownInv, Countdown!TypeOK, Countdown!CountExact,
      Countdown!OneSetter
<1>1. ASSUME NEW t \in Threads, Countdown!StartSignal(t) PROVE CountdownIInv'
  BY <1>1 DEF CountdownIInv, Countdown!CountdownInv, Countdown!TypeOK, Countdown!CountExact,
      Countdown!OneSetter, Countdown!NoLostWakeup, Countdown!StartSignal, Countdown!Call
<1>2. ASSUME NEW t \in Threads, Countdown!StartAdd(t) PROVE CountdownIInv'
  BY <1>2 DEF CountdownIInv, Countdown!CountdownInv, Countdown!TypeOK, Countdown!CountExact,
      Countdown!OneSetter, Countdown!NoLostWakeup, Countdown!StartAdd, Countdown!Call
<1>3. ASSUME NEW t \in Threads, NEW n \in 0..IntMax, Countdown!StartReset(t, n) PROVE CountdownIInv'
  <2>1. resets' \in Nat BY <1>3 DEF Countdown!StartReset, CountdownIInv, Countdown!CountdownInv,
      Countdown!TypeOK
  <2>2. Countdown!TypeOK' BY <1>3, <2>1 DEF CountdownIInv, Countdown!CountdownInv, Countdown!TypeOK,
      Countdown!StartReset, Countdown!Call
  <2>3. Countdown!CountExact' /\ Countdown!OneSetter' BY <1>3 DEF CountdownIInv, Countdown!CountdownInv,
      Countdown!CountExact, Countdown!OneSetter, Countdown!StartReset
  <2>4. Countdown!NoLostWakeup' BY <1>3, <1>0 DEF CountdownIInv, Countdown!CountdownInv,
      Countdown!TypeOK, Countdown!NoLostWakeup, Countdown!StartReset, Countdown!Call
  <2> QED BY <2>2, <2>3, <2>4 DEF CountdownIInv, Countdown!CountdownInv
<1>4. ASSUME NEW t \in Threads, NEW b \in BOOLEAN, Countdown!StartWait(t, b) PROVE CountdownIInv'
  BY <1>4 DEF CountdownIInv, Countdown!CountdownInv, Countdown!TypeOK, Countdown!CountExact,
      Countdown!OneSetter, Countdown!NoLostWakeup, Countdown!StartWait, Countdown!Call
<1>5. ASSUME NEW t \in Threads, NEW n \in Amounts, Countdown!Signal(t, n) PROVE CountdownIInv'
  <2>0. n \in 1..IntMax BY ArgumentsAssumption
  <2>1. CASE Countdown!SignalRefused(n)
    BY <2>1, <1>5 DEF CountdownIInv, Countdown!CountdownInv, Countdown!TypeOK, Countdown!CountExact,
        Countdown!OneSetter, Countdown!NoLostWakeup, Countdown!Signal
  <2>2. CASE ~Countdown!SignalRefused(n)
    <3>1. /\ currentCount_' = currentCount_ - n
          /\ currentCount_' \in 0..IntMax
          /\ currentCount_ # 0
          /\ exact' = exact - n
          /\ UNCHANGED <<initialCount_, cdDisposed, cdTimed, arg, resets>>
      BY <1>5, <2>0, <2>2, <1>0, NoOverflow, CountdownWrap DEF Countdown!Signal, Countdown!SignalRefused
    <3>2. currentCount_' \in -(IntMax + 1)..IntMax /\ exact' \in Int /\ setters = 0
      BY <3>1, <1>0, <2>0
    <3>3. Countdown!CountExact' BY <3>1, <1>0, <2>0 DEF Countdown!CountExact
    <3>4. CASE Countdown!Sets(n)
      <4>1. /\ setters' = 1
            /\ cdPc' = Countdown!NotifyAll([cdPc EXCEPT ![t] = "idle"])
        BY <1>5, <2>2, <3>2, <3>4 DEF Countdown!Signal
      <4>2. currentCount_' = 0 BY <3>1, <3>4 DEF Countdown!Sets
      <4>3. Countdown!TypeOK' BY <3>1, <3>2, <4>1, <1>0, NotifyAllFacts DEF Countdown!TypeOK
      <4>4. Countdown!OneSetter' BY <4>1, <4>2 DEF Countdown!OneSetter
      <4>5. Countdown!NoLostWakeup' BY <4>1, <1>0, NotifyAllFacts DEF Countdown!NoLostWakeup
      <4> QED BY <3>3, <4>3, <4>4, <4>5 DEF CountdownIInv, Countdown!CountdownInv
    <3>5. CASE ~Countdown!Sets(n)
      <4>1. setters' = 0 /\ cdPc' = [cdPc EXCEPT ![t] = "idle"]
        BY <1>5, <2>2, <3>2, <3>5 DEF Countdown!Signal
      <4>2. currentCount_' # 0 BY <3>1, <3>5 DEF Countdown!Sets
      <4>3. Countdown!TypeOK' BY <3>1, <3>2, <4>1, <1>0 DEF Countdown!TypeOK
      <4>4. Countdown!OneSetter' BY <4>1, <4>2 DEF Countdown!OneSetter
      <4>5. Countdown!NoLostWakeup' BY <4>2 DEF Countdown!NoLostWakeup
      <4> QED BY <3>3, <4>3, <4>4, <4>5 DEF CountdownIInv, Countdown!CountdownInv
    <3> QED BY <3>4, <3>5
  <2> QED BY <2>1, <2>2
<1>6. ASSUME NEW t \in Threads, NEW n \in Amounts, Countdown!AddCount(t, n) PROVE CountdownIInv'
  <2>0. n \in 1..IntMax BY ArgumentsAssumption
  <2>1. CASE Countdown!AddRefused(n)
    BY <2>1, <1>6 DEF CountdownIInv, Countdown!CountdownInv, Countdown!TypeOK, Countdown!CountExact,
        Countdown!OneSetter, Countdown!NoLostWakeup, Countdown!AddCount
  <2>2. CASE ~Countdown!AddRefused(n)
    <3>1. /\ currentCount_' = currentCount_ + n
          /\ currentCount_' \in 1..IntMax
          /\ currentCount_ # 0
          /\ exact' = exact + n
          /\ cdPc' = [cdPc EXCEPT ![t] = "idle"]
          /\ UNCHANGED <<initialCount_, cdDisposed, cdTimed, arg, resets, setters>>
      BY <1>6, <2>0, <2>2, <1>0, NoOverflow, CountdownWrap DEF Countdown!AddCount, Countdown!AddRefused
    <3>2. currentCount_' \in -(IntMax + 1)..IntMax /\ exact' \in Int /\ setters = 0
      BY <3>1, <1>0, <2>0
    <3>3. currentCount_' # 0 BY <3>1
    <3>4. Countdown!TypeOK' BY <3>1, <3>2, <1>0 DEF Countdown!TypeOK
    <3>5. Countdown!CountExact' BY <3>1, <1>0, <2>0 DEF Countdown!CountExact
    <3>6. Countdown!OneSetter' BY <3>1, <3>2, <3>3 DEF Countdown!OneSetter
    <3>7. Countdown!NoLostWakeup' BY <3>3 DEF Countdown!NoLostWakeup
    <3> QED BY <3>4, <3>5, <3>6, <3>7 DEF CountdownIInv, Countdown!CountdownInv
  <2> QED BY <2>1, <2>2
<1>7. ASSUME NEW t \in Threads, Countdown!Reset(t) PROVE CountdownIInv'
  <2>1. arg[t] \in 0..IntMax /\ arg[t] \in -(IntMax + 1)..IntMax BY <1>0 DEF Countdown!TypeOK
  <2>2. Countdown!TypeOK' BY <1>7, <1>0, <2>1 DEF Countdown!TypeOK, Countdown!Reset
  <2>3. Countdown!CountExact' BY <1>7, <2>1, <1>0 DEF Countdown!CountExact, Countdown!Reset
  <2>4. Countdown!OneSetter' BY <1>7 DEF Countdown!OneSetter, Countdown!Reset
  <2>5. cdPc'[t] = "notifying" BY <1>7, <1>0 DEF Countdown!TypeOK, Countdown!Reset
  <2>6. Countdown!NoLostWakeup' BY <2>5 DEF Countdown!NoLostWakeup
  <2> QED BY <2>2, <2>3, <2>4, <2>6 DEF CountdownIInv, Countdown!CountdownInv
<1>8. ASSUME NEW t \in Threads, Countdown!NotifyReset(t) PROVE CountdownIInv'
  <2>0. cdPc' = Countdown!NotifyAll([cdPc EXCEPT ![t] = "idle"]) BY <1>8 DEF Countdown!NotifyReset
  <2>a. arg' \in [Threads -> 0..IntMax] BY <1>8, <1>0 DEF Countdown!TypeOK, Countdown!NotifyReset
  <2>b. cdPc' \in [Threads -> {"idle", "signalling", "adding", "resetting", "notifying",
                             "waiting", "parked", "notified"}]
    BY <1>0, <2>0, NotifyAllFacts
  <2>1. Countdown!TypeOK' BY <1>8, <1>0, <2>a, <2>b DEF Countdown!TypeOK, Countdown!NotifyReset
  <2>2. Countdown!CountExact' /\ Countdown!OneSetter' BY <1>8 DEF CountdownIInv, Countdown!CountdownInv,
      Countdown!CountExact, Countdown!OneSetter, Countdown!NotifyReset
  <2>3. Countdown!NoLostWakeup' BY <1>0, <2>0, NotifyAllFacts DEF Countdown!NoLostWakeup
  <2> QED BY <2>1, <2>2, <2>3 DEF CountdownIInv, Countdown!CountdownInv
<1>9. ASSUME NEW t \in Threads, Countdown!Wait(t) PROVE CountdownIInv'
  BY <1>9 DEF CountdownIInv, Countdown!CountdownInv, Countdown!TypeOK, Countdown!CountExact,
      Countdown!OneSetter, Countdown!NoLostWakeup, Countdown!Wait, Countdown!ReturnFromWait
<1>10. ASSUME NEW t \in Threads, Countdown!WakeEarly(t) \/ Countdown!TimeOut(t) PROVE CountdownIInv'
  BY <1>10 DEF CountdownIInv, Countdown!CountdownInv, Countdown!TypeOK, Countdown!CountExact,
      Countdown!OneSetter, Countdown!NoLostWakeup, Countdown!WakeEarly, Countdown!TimeOut,
      Countdown!ReturnFromWait
<1>11. CASE Countdown!Dispose
  BY <1>11 DEF CountdownIInv, Countdown!CountdownInv, Countdown!TypeOK, Countdown!CountExact,
      Countdown!OneSetter, Countdown!NoLostWakeup, Countdown!Dispose
<1>12. CASE UNCHANGED Countdown!vars
  BY <1>12 DEF CountdownIInv, Countdown!CountdownInv, Countdown!TypeOK, Countdown!CountExact,
      Countdown!OneSetter, Countdown!NoLostWakeup, Countdown!vars
<1>13. \A n \in InitialCounts : n \in 0..IntMax BY ArgumentsAssumption
<1>14. initialCount_ \in 0..IntMax BY <1>0 DEF Countdown!TypeOK
<1> QED BY <1>1, <1>2, <1>3, <1>4, <1>5, <1>6, <1>7, <1>8, <1>9, <1>10, <1>11, <1>12, <1>13, <1>14
        DEF Countdown!Next, Countdown!StartResetInitial

\* The inductive invariant holds throughout.
LEMMA CountdownAlways == Countdown!Spec => []CountdownIInv
BY CountdownInit, CountdownNext, PTL DEF Countdown!Spec

\* Count, setters and sleepers of a CountdownEvent agree at every moment, for any
\* number of threads and any width of intcs.
THEOREM CountdownIsCorrect == Countdown!Spec => []CountdownInv
BY CountdownAlways DEF CountdownIInv, CountdownInv

\* The count of a CountdownEvent is never negative and never wraps, whatever the
\* width of intcs and however Signal, AddCount and Reset interleave.
THEOREM CountIsExact == Countdown!Spec => []Countdown!CountExact
<1>1. CountdownIInv => Countdown!CountExact BY DEF CountdownIInv, Countdown!CountdownInv
<1> QED BY <1>1, CountdownAlways, PTL

\* Between two resets one Signal at most reports that the event is set, and the
\* event stays set from then on.
THEOREM AtMostOneSetter == Countdown!Spec => []Countdown!OneSetter
<1>1. CountdownIInv => Countdown!OneSetter BY DEF CountdownIInv, Countdown!CountdownInv
<1> QED BY <1>1, CountdownAlways, PTL

\* No thread sleeps on a set event unless a Reset is about to notify it.
THEOREM NoWaiterIsForgotten == Countdown!Spec => []Countdown!NoLostWakeup
<1>1. CountdownIInv => Countdown!NoLostWakeup BY DEF CountdownIInv, Countdown!CountdownInv
<1> QED BY <1>1, CountdownAlways, PTL

(* Barrier. *)

\* The instance counts as FiniteSets does.
LEMMA CrewCardinality == \A S : Phases!Cardinality(S) = Cardinality(S)
BY DEF Phases!Cardinality, Cardinality

\* What the counts count, whoever signals, joins and leaves.
CountsArrived ==
  /\ remainingCount = participantCount - Cardinality(Phases!Arrived)
  /\ participantCount > 0 => remainingCount > 0

\* Nobody waits for a phase to come, and who sleeps waits for the one in progress.
Behind ==
  \A t \in Crew : bPc[t] # "idle" =>
    myPhase[t] <= phaseCount /\ (bPc[t] = "parked" => myPhase[t] = phaseCount)

\* What is known of the phases that are over.
PhasesOver ==
  /\ \A n \in faulted : n < phaseCount
  /\ phaseCount > 0 => (lastException <=> (phaseCount - 1) \in faulted)

\* Who is in SignalAndWait takes part, in this phase or the last one.
TakesPart ==
  \A t \in Crew : bPc[t] # "idle" =>
    t \in members /\ (myPhase[t] = phaseCount \/ myPhase[t] + 1 = phaseCount)

\* Who has come out has reported the phase it took part in.
Reported ==
  \A t \in Crew : bPc[t] = "idle" /\ bResult[t] # "none" =>
    myPhase[t] < phaseCount /\ (bResult[t] = "fault" <=> myPhase[t] \in faulted)

\* What is known as long as participants act in person.
InPerson == inPerson => participantCount = Cardinality(members) /\ TakesPart /\ Reported

\* The inductive invariant.
BarrierIInv == Phases!TypeOK /\ CountsArrived /\ Behind /\ PhasesOver /\ InPerson

\* The sets of threads are finite.
LEMMA CrewFinite ==
  ASSUME BarrierAssumed, Phases!TypeOK
  PROVE  /\ IsFiniteSet(members) /\ IsFiniteSet(Phases!Arrived)
         /\ Cardinality(members) \in Nat /\ Cardinality(Phases!Arrived) \in Nat
BY FS_Subset, FS_CardinalityType DEF BarrierAssumed, Phases!TypeOK, Phases!Arrived

\* When one participant is missing and it acts in person, nobody else is still on the
\* way out of the last phase.
LEMMA LastOne ==
  ASSUME BarrierAssumed, BarrierIInv, inPerson, NEW t \in members, bPc[t] = "idle", remainingCount = 1
  PROVE  \A u \in Crew : bPc[u] # "idle" => myPhase[u] = phaseCount
<1> DEFINE Missing == members \ Phases!Arrived
<1>0. Phases!TypeOK /\ TakesPart /\ participantCount = Cardinality(members)
      /\ participantCount - Cardinality(Phases!Arrived) = 1
  BY DEF BarrierIInv, InPerson, CountsArrived
<1>1. t \in Missing BY DEF Phases!Arrived
<1>2. Phases!Arrived \subseteq members BY <1>0 DEF Phases!Arrived, TakesPart
<1>3. members \cap Phases!Arrived = Phases!Arrived BY <1>2
<1>4. /\ IsFiniteSet(Missing) /\ Cardinality(Missing) = Cardinality(members) - Cardinality(Phases!Arrived)
  <2>1. IsFiniteSet(members) BY <1>0, CrewFinite
  <2>2. /\ IsFiniteSet(members \ Phases!Arrived)
        /\ Cardinality(members \ Phases!Arrived) = Cardinality(members) - Cardinality(members \cap Phases!Arrived)
    BY <2>1, FS_Difference
  <2> QED BY <1>3, <2>2
<1>5. Cardinality(Missing) = 1 BY <1>0, <1>4
<1>6. \E x : Missing = {x} BY <1>4, <1>5, FS_Singleton
<1>7. Missing = {t} BY <1>1, <1>6
<1> QED BY <1>0, <1>7 DEF TakesPart, Phases!Arrived

\* The end of a phase, for those who arrived and those who go on.
LEMMA PhaseEnds ==
  ASSUME BarrierAssumed, BarrierIInv, NEW t \in Crew, bPc[t] = "idle", remainingCount = 1,
         NEW throws \in BOOLEAN, Phases!FinishPhase(participantCount', throws), bPc' = Phases!NotifyAll(bPc),
         inPerson' \in BOOLEAN, members' \subseteq Crew, participantCount' \in 0..MaxParticipants,
         inPerson' => /\ inPerson /\ t \in members
                      /\ \A u \in members : u # t => u \in members'
                      /\ participantCount' = Cardinality(members'),
         disposed' = disposed,
         \/ UNCHANGED <<myPhase, bResult>>
         \/ /\ myPhase' = [myPhase EXCEPT ![t] = phaseCount]
            /\ bResult' = [bResult EXCEPT ![t] = IF throws THEN "fault" ELSE "ok"]
  PROVE  BarrierIInv'
<1>1. /\ bPc' \in [Crew -> {"idle", "parked", "notified"}]
      /\ \A u \in Crew : bPc'[u] # "parked" /\ (bPc'[u] = "idle" <=> bPc[u] = "idle")
  BY DEF BarrierIInv, Phases!TypeOK, Phases!NotifyAll
<1>2. /\ phaseCount' = phaseCount + 1 /\ phaseCount \in Nat /\ lastException' = throws
      /\ faulted' = IF throws THEN faulted \cup {phaseCount} ELSE faulted
      /\ remainingCount' = participantCount'
  BY DEF Phases!FinishPhase, Phases!ExceptionIs, BarrierIInv, Phases!TypeOK
<1>3. /\ \A u \in Crew \ {t} : myPhase'[u] = myPhase[u] /\ bResult'[u] = bResult[u]
      /\ \/ myPhase'[t] = myPhase[t] /\ bResult'[t] = bResult[t]
         \/ myPhase'[t] = phaseCount /\ bResult'[t] = (IF throws THEN "fault" ELSE "ok")
  <2>1. CASE UNCHANGED <<myPhase, bResult>> BY <2>1
  <2>2. CASE /\ myPhase' = [myPhase EXCEPT ![t] = phaseCount]
             /\ bResult' = [bResult EXCEPT ![t] = IF throws THEN "fault" ELSE "ok"]
    BY <2>2 DEF BarrierIInv, Phases!TypeOK
  <2> QED BY <2>1, <2>2
<1>4. myPhase' \in [Crew -> Nat] /\ bResult' \in [Crew -> {"none", "ok", "fault"}]
  BY <1>2 DEF BarrierIInv, Phases!TypeOK
<1>5. \A u \in Crew : bPc'[u] # "idle" => myPhase'[u] = myPhase[u] /\ myPhase[u] \in Nat /\ myPhase[u] <= phaseCount
  BY <1>1, <1>3 DEF BarrierIInv, Behind, Phases!TypeOK
<1>6. Phases!TypeOK'
  <2>1. remainingCount' \in Nat BY <1>2
  <2>2. faulted' \in SUBSET Nat BY <1>2 DEF BarrierIInv, Phases!TypeOK
  <2>3. phaseCount' \in Nat /\ lastException' \in BOOLEAN BY <1>2
  <2> QED BY <1>1, <1>4, <2>1, <2>2, <2>3 DEF BarrierIInv, Phases!TypeOK
<1>7. CountsArrived'
  <2>1. Phases!Arrived' = {} BY <1>2, <1>5 DEF Phases!Arrived
  <2>2. Cardinality(Phases!Arrived') = 0 BY <2>1, FS_EmptySet
  <2>3. participantCount' \in Nat BY DEF BarrierAssumed
  <2>4. remainingCount' = participantCount' - Cardinality(Phases!Arrived')
    <3>1. remainingCount' = participantCount' BY <1>2
    <3>2. \A n \in Nat : n - 0 = n OBVIOUS
    <3> QED BY <2>2, <2>3, <3>1, <3>2, Zenon
  <2>5. participantCount' > 0 => remainingCount' > 0 BY <1>2
  <2> QED BY <2>4, <2>5 DEF CountsArrived
<1>8. Behind' BY <1>1, <1>2, <1>5 DEF Behind
<1>9. PhasesOver'
  <2>1. \A n \in faulted' : n < phaseCount' BY <1>2 DEF BarrierIInv, PhasesOver, Phases!TypeOK
  <2>2. lastException' <=> phaseCount \in faulted' BY <1>2 DEF BarrierIInv, PhasesOver, Phases!TypeOK
  <2> QED BY <1>2, <2>1, <2>2 DEF PhasesOver
<1>10. InPerson'
  <2> SUFFICES ASSUME inPerson' PROVE TakesPart' /\ Reported' BY DEF InPerson
  <2>0. inPerson /\ t \in members /\ TakesPart /\ Reported BY DEF BarrierIInv, InPerson
  <2>1. \A u \in Crew : bPc[u] # "idle" => myPhase[u] = phaseCount BY <2>0, LastOne
  <2>2. TakesPart' BY <1>1, <1>2, <1>5, <2>0, <2>1 DEF TakesPart
  <2>3. \A n \in Nat : n < phaseCount => (n \in faulted <=> n \in faulted') BY <1>2
  <2>4. \A u \in Crew : bPc[u] = "idle" /\ bResult[u] # "none" =>
          myPhase[u] \in Nat /\ myPhase[u] < phaseCount /\ (bResult[u] = "fault" <=> myPhase[u] \in faulted)
    BY <2>0 DEF BarrierIInv, Reported, Phases!TypeOK
  <2>5. ASSUME NEW u \in Crew, bPc'[u] = "idle", bResult'[u] # "none"
        PROVE  myPhase'[u] < phaseCount' /\ (bResult'[u] = "fault" <=> myPhase'[u] \in faulted')
    <3>1. CASE myPhase'[u] = myPhase[u] /\ bResult'[u] = bResult[u]
      BY <1>1, <1>2, <2>3, <2>4, <2>5, <3>1
    <3>2. CASE u = t /\ myPhase'[u] = phaseCount /\ bResult'[u] = (IF throws THEN "fault" ELSE "ok")
      <4>1. throws <=> phaseCount \in faulted' BY <1>2 DEF BarrierIInv, PhasesOver, Phases!TypeOK
      <4> QED BY <1>2, <3>2, <4>1
    <3> QED BY <1>3, <3>1, <3>2
  <2> QED BY <2>2, <2>5 DEF Reported
<1> QED BY <1>6, <1>7, <1>8, <1>9, <1>10 DEF BarrierIInv

\* The invariant holds at the start, and every step keeps it.
LEMMA BarrierInductive == ASSUME BarrierAssumed PROVE Phases!Spec => []BarrierIInv
<1>1. Phases!Init => BarrierIInv
  <2> SUFFICES ASSUME Phases!Init PROVE BarrierIInv OBVIOUS
  <2>1. Phases!TypeOK
    <3>1. lastException \in BOOLEAN /\ disposed \in BOOLEAN /\ inPerson \in BOOLEAN BY DEF Phases!Init
    <3>2. members \subseteq Crew
      <4>1. CASE inPerson BY <4>1 DEF Phases!Init
      <4>2. CASE ~inPerson BY <4>2 DEF Phases!Init
      <4> QED BY <4>1, <4>2
    <3>3. participantCount \in 0..MaxParticipants /\ remainingCount \in Nat
      BY DEF Phases!Init, BarrierAssumed
    <3> QED BY <3>1, <3>2, <3>3 DEF Phases!Init, Phases!TypeOK
  <2>2. Phases!Arrived = {} BY DEF Phases!Init, Phases!Arrived
  <2>3. Cardinality(Phases!Arrived) = 0 BY <2>2, FS_EmptySet
  <2>4. CountsArrived BY <2>1, <2>3 DEF CountsArrived, Phases!Init, Phases!TypeOK
  <2>5. Behind /\ PhasesOver BY DEF Phases!Init, Behind, PhasesOver
  <2>6. TakesPart /\ Reported BY DEF Phases!Init, TakesPart, Reported
  <2>7. inPerson => participantCount = Cardinality(members) BY CrewCardinality DEF Phases!Init
  <2> QED BY <2>1, <2>4, <2>5, <2>6, <2>7 DEF BarrierIInv, InPerson
<1>2. BarrierIInv /\ [Phases!Next]_Phases!vars => BarrierIInv'
  <2> SUFFICES ASSUME BarrierIInv, [Phases!Next]_Phases!vars PROVE BarrierIInv' OBVIOUS
  <2>0. /\ IsFiniteSet(members) /\ IsFiniteSet(Phases!Arrived)
        /\ Cardinality(members) \in Nat /\ Cardinality(Phases!Arrived) \in Nat
    BY CrewFinite DEF BarrierIInv
  <2>a. ASSUME NEW own \in BOOLEAN, NEW group, group \subseteq Crew, Phases!TakePart(own, group)
        PROVE  /\ inPerson' \in BOOLEAN /\ members' \subseteq Crew
               /\ inPerson' => inPerson /\ own /\ members' = group
    <3>1. inPerson \in BOOLEAN BY DEF BarrierIInv, Phases!TypeOK
    <3>2. inPerson' \in BOOLEAN /\ (inPerson' => inPerson /\ own) BY <2>a, <3>1, Zenon DEF Phases!TakePart
    <3>3. members' = IF inPerson' THEN group ELSE {} BY <2>a DEF Phases!TakePart
    <3> QED BY <2>a, <3>2, <3>3
  <2>b. \A u : (u \in members) \in BOOLEAN /\ (u \notin members) \in BOOLEAN OBVIOUS
  <2>1. ASSUME NEW t \in Crew, NEW b \in BOOLEAN, Phases!SignalLast(t, b) PROVE BarrierIInv'
    <3>1. remainingCount = 1 /\ participantCount' = participantCount
      BY <2>1 DEF Phases!SignalLast, BarrierIInv, Phases!TypeOK
    <3>2. Phases!FinishPhase(participantCount', b) BY <2>1, <3>1 DEF Phases!SignalLast
    <3>3. Phases!TakePart(t \in members, members) /\ members \subseteq Crew
      BY <2>1 DEF Phases!SignalLast, BarrierIInv, Phases!TypeOK
    <3>4. /\ inPerson' \in BOOLEAN /\ members' \subseteq Crew
          /\ inPerson' => inPerson /\ t \in members /\ members' = members
      BY <3>3, <2>a, <2>b
    <3>5. inPerson' => participantCount' = Cardinality(members') BY <3>1, <3>4 DEF BarrierIInv, InPerson
    <3>6. /\ bPc[t] = "idle" /\ bPc' = Phases!NotifyAll(bPc) /\ disposed' = disposed
          /\ myPhase' = [myPhase EXCEPT ![t] = phaseCount]
          /\ bResult' = [bResult EXCEPT ![t] = IF b THEN "fault" ELSE "ok"]
          /\ participantCount' \in 0..MaxParticipants
      BY <2>1, <3>1 DEF Phases!SignalLast, BarrierIInv, Phases!TypeOK
    <3> QED BY <3>1, <3>2, <3>4, <3>5, <3>6, PhaseEnds
  <2>2. ASSUME NEW t \in Crew, NEW b \in BOOLEAN, Phases!RemoveParticipant(t, b) PROVE BarrierIInv'
    <3>0. bPc[t] = "idle" /\ disposed' = disposed /\ Phases!TakePart(t \in members, members \ {t})
          /\ participantCount' = participantCount - 1 /\ UNCHANGED <<myPhase, bResult>>
      BY <2>2 DEF Phases!RemoveParticipant
    <3>1. /\ inPerson' \in BOOLEAN /\ members' \subseteq Crew
          /\ inPerson' => inPerson /\ t \in members /\ members' = members \ {t}
      <4>1. members \ {t} \subseteq Crew BY DEF BarrierIInv, Phases!TypeOK
      <4> QED BY <3>0, <4>1, <2>a, <2>b
    <3>2. participantCount' \in 0..MaxParticipants
      BY <2>2, <3>0 DEF Phases!RemoveParticipant, BarrierIInv, Phases!TypeOK, BarrierAssumed
    <3>3. inPerson' => participantCount' = Cardinality(members')
      BY <2>0, <3>0, <3>1, FS_RemoveElement DEF BarrierIInv, InPerson
    <3>4. CASE Phases!LeavesLast
      <4>1. remainingCount = 1 BY <3>4 DEF Phases!LeavesLast, BarrierIInv, Phases!TypeOK
      <4>2. Phases!FinishPhase(participantCount', b) /\ bPc' = Phases!NotifyAll(bPc) BY <2>2, <3>0, <3>4
          DEF Phases!RemoveParticipant
      <4>3. inPerson' => \A u \in members : u # t => u \in members' BY <3>1
      <4> QED BY <3>0, <3>1, <3>2, <3>3, <4>1, <4>2, <4>3, PhaseEnds
    <3>5. CASE ~Phases!LeavesLast
      <4>1. /\ remainingCount' = remainingCount - 1 /\ remainingCount' # 0 /\ remainingCount' \in Nat
            /\ UNCHANGED <<phaseCount, lastException, bPc, faulted>>
        BY <2>2, <3>5 DEF Phases!RemoveParticipant, Phases!LeavesLast, BarrierIInv, Phases!TypeOK
      <4>2. Phases!Arrived' = Phases!Arrived BY <3>0, <4>1 DEF Phases!Arrived
      <4>3. CountsArrived' BY <2>0, <3>0, <4>1, <4>2 DEF CountsArrived, BarrierIInv, Phases!TypeOK
      <4>4. Phases!TypeOK' BY <3>0, <3>1, <3>2, <4>1 DEF BarrierIInv, Phases!TypeOK
      <4>5. Behind' /\ PhasesOver' BY <3>0, <4>1 DEF BarrierIInv, Behind, PhasesOver
      <4>6. InPerson' BY <3>0, <3>1, <3>3, <4>1 DEF BarrierIInv, InPerson, TakesPart, Reported
      <4> QED BY <4>3, <4>4, <4>5, <4>6 DEF BarrierIInv
    <3> QED BY <3>4, <3>5
  <2>3. ASSUME NEW t \in Crew, Phases!SignalAndWait(t) PROVE BarrierIInv'
    <3>0. /\ bPc[t] = "idle" /\ participantCount > 0 /\ Phases!TakePart(t \in members, members)
          /\ UNCHANGED <<participantCount, phaseCount, lastException, disposed, faulted>>
          /\ bPc' = [bPc EXCEPT ![t] = "parked"] /\ myPhase' = [myPhase EXCEPT ![t] = phaseCount]
          /\ bResult' = [bResult EXCEPT ![t] = "none"]
      BY <2>3 DEF Phases!SignalAndWait
    <3>1. /\ inPerson' \in BOOLEAN /\ members' \subseteq Crew
          /\ inPerson' => inPerson /\ t \in members /\ members' = members
      <4>1. members \subseteq Crew BY DEF BarrierIInv, Phases!TypeOK
      <4> QED BY <3>0, <4>1, <2>a, <2>b
    <3>2. t \notin Phases!Arrived /\ Phases!Arrived' = Phases!Arrived \cup {t}
      BY <3>0 DEF Phases!Arrived, BarrierIInv, Phases!TypeOK
    <3>3. Cardinality(Phases!Arrived') = Cardinality(Phases!Arrived) + 1 BY <2>0, <3>2, FS_AddElement
    <3>4. remainingCount' = remainingCount - 1 /\ remainingCount' > 0 /\ remainingCount' \in Nat
      BY <2>3, <3>0 DEF Phases!SignalAndWait, BarrierIInv, Phases!TypeOK, CountsArrived
    <3>5. CountsArrived' BY <2>0, <3>0, <3>3, <3>4 DEF CountsArrived, BarrierIInv, Phases!TypeOK
    <3>6. Phases!TypeOK' BY <3>0, <3>1, <3>4 DEF BarrierIInv, Phases!TypeOK
    <3>7. Behind' /\ PhasesOver' BY <3>0 DEF BarrierIInv, Phases!TypeOK, Behind, PhasesOver
    <3>8. InPerson' BY <3>0, <3>1 DEF BarrierIInv, Phases!TypeOK, InPerson, TakesPart, Reported
    <3> QED BY <3>5, <3>6, <3>7, <3>8 DEF BarrierIInv
  <2>4. ASSUME NEW t \in Crew, Phases!ResumeWait(t) PROVE BarrierIInv'
    <3>0. bPc[t] = "notified" /\ UNCHANGED <<participantCount, remainingCount, phaseCount, lastException,
              disposed, inPerson, members, myPhase, faulted>>
      BY <2>4 DEF Phases!ResumeWait, Phases!counts, Phases!taking
    <3>1. CASE phaseCount > myPhase[t]
      <4>1. bPc' = [bPc EXCEPT ![t] = "idle"] /\ bResult' = [bResult EXCEPT ![t] = IF lastException THEN "fault" ELSE "ok"]
        BY <2>4, <3>1 DEF Phases!ResumeWait
      <4>2. Phases!Arrived' = Phases!Arrived BY <3>0, <3>1, <4>1 DEF Phases!Arrived, BarrierIInv,
          Phases!TypeOK
      <4>3. CountsArrived' BY <3>0, <4>2 DEF CountsArrived, BarrierIInv
      <4>4. Phases!TypeOK' BY <3>0, <4>1 DEF BarrierIInv, Phases!TypeOK
      <4>5. Behind' /\ PhasesOver' BY <3>0, <4>1 DEF BarrierIInv, Phases!TypeOK, Behind, PhasesOver
      <4>6. InPerson'
        <5> SUFFICES ASSUME inPerson' PROVE TakesPart' /\ Reported'
          BY <3>0 DEF InPerson, BarrierIInv
        <5>0. TakesPart /\ Reported BY <3>0 DEF BarrierIInv, InPerson
        <5>1. myPhase[t] = phaseCount - 1 /\ phaseCount > 0
          BY <3>0, <3>1, <5>0 DEF BarrierIInv, TakesPart, Phases!TypeOK
        <5>2. TakesPart' BY <3>0, <4>1, <5>0 DEF BarrierIInv, Phases!TypeOK, TakesPart
        <5>3. lastException <=> myPhase[t] \in faulted BY <5>1 DEF BarrierIInv, PhasesOver
        <5>4. /\ bResult'[t] = "fault" <=> lastException
              /\ \A u \in Crew : u # t => bPc'[u] = bPc[u] /\ bResult'[u] = bResult[u]
          BY <4>1 DEF BarrierIInv, Phases!TypeOK
        <5>5. Reported' BY <3>0, <3>1, <5>0, <5>3, <5>4 DEF Reported
        <5> QED BY <5>2, <5>5
      <4> QED BY <4>3, <4>4, <4>5, <4>6 DEF BarrierIInv
    <3>2. CASE ~(phaseCount > myPhase[t])
      <4>1. bPc' = [bPc EXCEPT ![t] = "parked"] /\ bResult' = bResult BY <2>4, <3>2
          DEF Phases!ResumeWait
      <4>2. myPhase[t] = phaseCount BY <3>0, <3>2 DEF BarrierIInv, Behind, Phases!TypeOK
      <4>3. Phases!Arrived' = Phases!Arrived BY <3>0, <4>1, <4>2 DEF Phases!Arrived, BarrierIInv,
          Phases!TypeOK
      <4>4. CountsArrived' BY <3>0, <4>3 DEF CountsArrived, BarrierIInv
      <4>5. Phases!TypeOK' BY <3>0, <4>1 DEF BarrierIInv, Phases!TypeOK
      <4>6. Behind' /\ PhasesOver' BY <3>0, <4>1, <4>2 DEF BarrierIInv, Phases!TypeOK, Behind, PhasesOver
      <4>7. InPerson' BY <3>0, <4>1 DEF BarrierIInv, Phases!TypeOK, InPerson, TakesPart, Reported
      <4> QED BY <4>4, <4>5, <4>6, <4>7 DEF BarrierIInv
    <3> QED BY <3>1, <3>2
  <2>5. ASSUME NEW t \in Crew, Phases!AddParticipant(t) PROVE BarrierIInv'
    <3>0. /\ Phases!TakePart(t \notin members, members \cup {t})
          /\ participantCount' = participantCount + 1 /\ remainingCount' = remainingCount + 1
          /\ participantCount < MaxParticipants
          /\ UNCHANGED <<phaseCount, lastException, disposed, bPc, myPhase, bResult, faulted>>
      BY <2>5 DEF Phases!AddParticipant
    <3>1. /\ inPerson' \in BOOLEAN /\ members' \subseteq Crew
          /\ inPerson' => inPerson /\ t \notin members /\ members' = members \cup {t}
      <4>1. members \cup {t} \subseteq Crew BY DEF BarrierIInv, Phases!TypeOK
      <4> QED BY <3>0, <4>1, <2>a, <2>b
    <3>2. inPerson' => participantCount' = Cardinality(members')
      BY <2>0, <3>0, <3>1, FS_AddElement DEF BarrierIInv, InPerson
    <3>3. Phases!Arrived' = Phases!Arrived BY <3>0 DEF Phases!Arrived
    <3>4. CountsArrived' BY <2>0, <3>0, <3>3 DEF CountsArrived, BarrierIInv, Phases!TypeOK
    <3>5. Phases!TypeOK' BY <3>0, <3>1 DEF BarrierIInv, Phases!TypeOK, BarrierAssumed
    <3>6. Behind' /\ PhasesOver' BY <3>0 DEF BarrierIInv, Behind, PhasesOver
    <3>7. InPerson' BY <3>0, <3>1, <3>2 DEF BarrierIInv, InPerson, TakesPart, Reported
    <3> QED BY <3>4, <3>5, <3>6, <3>7 DEF BarrierIInv
  <2>6. CASE Phases!Dispose
    <3>1. disposed' \in BOOLEAN BY <2>6 DEF Phases!Dispose
    <3>2. Phases!Arrived' = Phases!Arrived BY <2>6 DEF Phases!Dispose, Phases!Arrived
    <3> QED BY <2>6, <3>1, <3>2 DEF Phases!Dispose, Phases!counts, Phases!taking, BarrierIInv, Phases!TypeOK,
        CountsArrived, Behind, PhasesOver, InPerson, TakesPart, Reported
  <2>7. CASE UNCHANGED Phases!vars
    <3>1. Phases!Arrived' = Phases!Arrived BY <2>7 DEF Phases!vars, Phases!Arrived
    <3> QED BY <2>7, <3>1 DEF Phases!vars, Phases!counts, Phases!taking, BarrierIInv, Phases!TypeOK,
        CountsArrived, Behind, PhasesOver, InPerson, TakesPart, Reported
  <2> QED BY <2>1, <2>2, <2>3, <2>4, <2>5, <2>6, <2>7 DEF Phases!Next
<1> QED BY <1>1, <1>2, PTL DEF Phases!Spec

\* For any number of threads and participants, whoever signals, joins and leaves: the
\* remaining count is exact and nobody sleeps in a phase that is over.  As long as every
\* participant acts in person, also: nobody is more than a phase behind, and the fault of
\* a post-phase action is seen by all who took part in that phase and by nobody else.
THEOREM BarrierIsCorrect == Phases!Spec => []BarrierInv
<1>1. BarrierIInv => BarrierInv
  <2> SUFFICES ASSUME BarrierIInv PROVE BarrierInv OBVIOUS
  <2>1. Phases!RemainingExact BY CrewCardinality DEF Phases!RemainingExact, BarrierIInv, CountsArrived,
      InPerson
  <2>2. Phases!Lockstep BY DEF Phases!Lockstep, BarrierIInv, InPerson, TakesPart, Phases!TypeOK
  <2>3. Phases!NoLostWakeup BY DEF Phases!NoLostWakeup, BarrierIInv, Behind
  <2>4. Phases!FaultSeenByAll BY DEF Phases!FaultSeenByAll, BarrierIInv, InPerson, Reported
  <2> QED BY <2>1, <2>2, <2>3, <2>4 DEF BarrierInv, Phases!BarrierInv, BarrierIInv
<1> QED BY <1>1, BarrierInductive, BarrierAssumption, PTL

(* Timer. *)

\* From the snapshot of the generation up to the callback.
Cycle == {"evaluate", "falling", "dueParked", "dueNotified", "late", "decide", "firing", "unlocked"}

\* As long as no Change came in between, a cycle has a due time; the worker lets go of
\* the mutex only for the schedule it took; a callback that the schedule was changed
\* before is the only one of its kind so far; a callback counts for the schedule it
\* began under; and a timer without a period that has fired is paused once its callback
\* has returned.
ClockIInv ==
  /\ Clock!TimerInv
  /\ tPc \in Cycle /\ generation = genAtStart => dueTime # -1
  /\ tPc = "firing" => generation = genAtStart
  /\ tPc = "unlocked" /\ generation # genAtStart => strays = 0
  /\ tPc = "callback" /\ generation = genAtStart => fires > 0
  /\ period <= 0 /\ fires > 0 => dueTime = -1 \/ (tPc = "callback" /\ generation = genAtStart)

\* The invariant is inductive.
LEMMA ClockInductive == ASSUME ClockAssumed PROVE Clock!Spec => []ClockIInv
<1> USE DEF ClockAssumed
<1>1. Clock!Init => ClockIInv
  <2> SUFFICES ASSUME Clock!Init PROVE ClockIInv OBVIOUS
  <2>1. running \in BOOLEAN /\ locked \in BOOLEAN /\ locked = FALSE BY DEF Clock!Init
  <2>2. Clock!TypeOK BY <2>1 DEF Clock!Init, Clock!TypeOK, Clock!Times
  <2> QED BY <2>2 DEF Clock!Init, ClockIInv, Clock!TimerInv, Clock!ChangeNotDiscarded,
      Clock!SingleShotFiresOnce, Clock!PausedIsQuiet, Cycle
<1>2. ClockIInv /\ [Clock!Next]_Clock!vars => ClockIInv'
  <2> SUFFICES ASSUME ClockIInv, [Clock!Next]_Clock!vars PROVE ClockIInv' OBVIOUS
  <2> USE DEF ClockIInv, Clock!TimerInv, Clock!TypeOK, Clock!ChangeNotDiscarded,
      Clock!SingleShotFiresOnce, Clock!PausedIsQuiet, Cycle, Clock!Times,
          Clock!schedule, Clock!history
  <2>1. CASE Clock!Start \/ Clock!ResumePause \/ Clock!ResumeDue \/ Clock!ResumeLate
    <3>1. CASE Clock!Start BY <3>1 DEF Clock!Start, Clock!TakeMutex
    <3>2. CASE Clock!ResumePause BY <3>2 DEF Clock!ResumePause, Clock!TakeMutex
    <3>3. CASE Clock!ResumeDue BY <3>3 DEF Clock!ResumeDue, Clock!TakeMutex
    <3>4. CASE Clock!ResumeLate BY <3>4 DEF Clock!ResumeLate, Clock!TakeMutex
    <3> QED BY <2>1, <3>1, <3>2, <3>3, <3>4
  <2>2. CASE Clock!Top
    <3>1. CASE ~running BY <2>2, <3>1 DEF Clock!Top, Clock!Exit
    <3>2. CASE running /\ dueTime = -1 BY <2>2, <3>2 DEF Clock!Top
    <3>3. CASE running /\ dueTime # -1
      <4>1. genAtStart' = generation /\ locked' = locked /\ tPc' \in {"evaluate", "decide"}
            /\ UNCHANGED <<running, dueTime, period, generation, client, asked, fires, strays>>
        BY <2>2, <3>3 DEF Clock!Top
      <4>2. Clock!TypeOK' BY <2>2, <4>1 DEF Clock!Top
      <4> QED BY <2>2, <3>3, <4>1, <4>2 DEF Clock!Top
    <3> QED BY <3>1, <3>2, <3>3
  <2>3. CASE Clock!FallAsleep BY <2>3 DEF Clock!FallAsleep
  <2>4. CASE Clock!Evaluate BY <2>4 DEF Clock!Evaluate
  <2>5. CASE Clock!DeadlinePasses BY <2>5 DEF Clock!DeadlinePasses
  <2>6. CASE Clock!SpuriousWakeup BY <2>6 DEF Clock!SpuriousWakeup
  <2>7. CASE Clock!Decide BY <2>7 DEF Clock!Decide, Clock!Exit
  <2>8. CASE Clock!Unlock
    <3>1. locked' \in BOOLEAN /\ ~locked' BY <2>8 DEF Clock!Unlock
    <3> QED BY <2>8, <3>1 DEF Clock!Unlock
  <2>14. CASE Clock!CallbackBegins
    <3>0. tPc = "unlocked" /\ tPc' = "callback"
          /\ UNCHANGED <<running, dueTime, period, generation, locked, genAtStart, client, asked>>
      BY <2>14 DEF Clock!CallbackBegins
    <3>1. CASE generation = genAtStart
      <4>1. fires' \in 0 .. 2 /\ fires' > 0 /\ (fires = 0 => fires' = 1) /\ strays' = strays
        BY <2>14, <3>1 DEF Clock!CallbackBegins, Clock!OneMore
      <4>2. Clock!TypeOK' BY <3>0, <4>1
      <4>3. period <= 0 => fires = 0 BY <3>0, <3>1
      <4>4. asked # -1 BY <3>0, <3>1
      <4> QED BY <3>0, <3>1, <4>1, <4>2, <4>3, <4>4
    <3>2. CASE generation # genAtStart
      <4>1. strays' = 1 /\ fires' = fires BY <2>14, <3>0, <3>2 DEF Clock!CallbackBegins, Clock!OneMore
      <4>2. Clock!TypeOK' BY <3>0, <4>1
      <4> QED BY <3>0, <3>2, <4>1, <4>2
    <3> QED BY <3>1, <3>2
  <2>9. CASE Clock!CallbackEnds BY <2>9 DEF Clock!CallbackEnds, Clock!Reschedule
  <2>10. ASSUME NEW c \in Clients, NEW d \in Clock!Times, NEW p \in Clock!Times, Clock!Change(c, d, p) PROVE ClockIInv'
    BY <2>10 DEF Clock!Change
  <2>11. ASSUME NEW c \in Clients, Clock!Dispose(c) PROVE ClockIInv'
    <3>1. running' \in BOOLEAN /\ client' \in [Clients -> {"idle", "notify"}] BY <2>11 DEF Clock!Dispose
    <3> QED BY <2>11, <3>1 DEF Clock!Dispose
  <2>12. ASSUME NEW c \in Clients, Clock!Notify(c) PROVE ClockIInv' BY <2>12 DEF Clock!Notify,
      Clock!Woken
  <2>13. CASE UNCHANGED Clock!vars BY <2>13 DEF Clock!vars
  <2> QED BY <2>1, <2>2, <2>3, <2>4, <2>5, <2>6, <2>7, <2>8, <2>9, <2>10, <2>11, <2>12, <2>13, <2>14
          DEF Clock!Next, Clock!Worker
<1> QED BY <1>1, <1>2, PTL DEF Clock!Spec

\* The state is well formed, a due time that was asked for stands until a callback has
\* begun for it, and a timer without a period fires once for each time it is armed.
THEOREM TimerIsCorrect == Clock!Spec => []TimerInv
<1>1. ClockIInv => TimerInv BY DEF ClockIInv, TimerInv
<1> QED BY <1>1, ClockInductive, ClockAssumption, PTL

\* After a Change at most one callback of the old schedule still begins, the one the
\* worker had let go of the mutex for, and a paused timer begins none of its own.
THEOREM PausedTimerIsQuiet == Clock!Spec => []Clock!PausedIsQuiet
<1>1. ClockIInv => Clock!PausedIsQuiet BY DEF ClockIInv, Clock!TimerInv
<1> QED BY <1>1, ClockInductive, ClockAssumption, PTL

=============================================================================
