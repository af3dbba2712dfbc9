--------------------------- MODULE ChannelProofs ---------------------------
(* Theorems about Channel, for any threads, capacities, modes and bounds. *)
EXTENDS Channel, FiniteSetTheorems, SequenceTheorems, TLAPS

\* Wake moves the parked threads of a set to "notified" and leaves the rest.
LEMMA WakeFacts ==
  ASSUME NEW f \in [Threads -> Controls], NEW S
  PROVE  /\ Wake(f, S) \in [Threads -> Controls]
         /\ \A t \in Threads : Wake(f, S)[t] =
              IF t \in S /\ f[t] = "parked" THEN "notified" ELSE f[t]
BY DEF Wake, Controls

\* Dropping one item from the queue leaves a queue that is shorter by one.
LEMMA WithoutType ==
  ASSUME NEW s \in Seq(Items), NEW i \in 1..Len(s)
  PROVE  /\ Without(s, i) \in Seq(Items)
         /\ Len(Without(s, i)) = Len(s) - 1
<1> DEFINE a == SubSeq(s, 1, i - 1)
           b == SubSeq(s, i + 1, Len(s))
<1>1. a \in Seq(Items) /\ Len(a) = i - 1
  BY SubSeqProperties
<1>2. b \in Seq(Items) /\ Len(b) = Len(s) - i
  BY SubSeqProperties
<1>3. Without(s, i) = a \o b BY DEF Without
<1>4. Len(s) \in Nat BY LenProperties
<1> HIDE DEF a, b
<1>5. a \o b \in Seq(Items) /\ Len(a \o b) = Len(a) + Len(b)
  BY <1>1, <1>2, ConcatProperties
<1> QED BY <1>1, <1>2, <1>3, <1>4, <1>5

\* The registered readers are finitely many, and more than none if one is there.
LEMMA RegisteredFinite ==
  /\ IsFiniteSet(Registered)
  /\ Cardinality(Registered) \in Nat
  /\ \A r \in Registered : Cardinality(Registered) > 0
<1>1. Registered \subseteq Readers BY DEF Registered
<1>2. IsFiniteSet(Registered) BY <1>1, ThreadsAssumption, FS_Subset
<1>3. Cardinality(Registered) \in Nat BY <1>2, FS_CardinalityType
<1>4. Registered # {} => Cardinality(Registered) # 0 BY <1>2, FS_EmptySet
<1> QED BY <1>2, <1>3, <1>4

(* Type correctness. *)
\* The constructor establishes the types.
LEMMA TypeInit == Init => TypeOK
<1> SUFFICES ASSUME Init PROVE TypeOK OBVIOUS
<1>1. <<>> \in Seq(Items) BY EmptySeq
<1>2. queue \in Seq(Items) /\ delivered \in Seq(Items)
  BY <1>1, Zenon DEF Init
<1>3. next \in [Writers -> Nat \ {0}] BY DEF Init
<1>4. pc \in [Threads -> Controls] /\ outcome \in [Threads -> Outcomes]
  BY DEF Init, Controls, Outcomes
<1>5. op \in [Threads -> AllReadOps \cup AllWriteOps \cup {"none"}] BY DEF Init
<1>6. closed \in BOOLEAN /\ closeError \in Errors /\ dropped \in SUBSET Items
  BY Zenon DEF Init, Errors
<1>7. waitingReaders \in Nat BY DEF Init
<1> QED BY <1>2, <1>3, <1>4, <1>5, <1>6, <1>7, Zenon DEF Init, TypeOK

\* Every step preserves them, given that the count of readers is exact.
LEMMA TypeNext == TypeOK /\ WaitingReadersExact /\ [Next]_vars => TypeOK'
<1> SUFFICES ASSUME TypeOK, WaitingReadersExact, [Next]_vars PROVE TypeOK'
  OBVIOUS
<1> USE DEF TypeOK, Outcomes, Errors, options, history
<1>1. ASSUME NEW r \in Readers, NEW o \in ReadOps, StartRead(r, o) PROVE TypeOK'
  BY <1>1, OptionsAssumption DEF StartRead, Controls, Threads
<1>2. ASSUME NEW r \in Readers, TryRead(r) PROVE TypeOK'
  <2>1. r \in Threads BY DEF Threads
  <2>2. CASE queue = <<>>
    BY <2>1, <2>2, <1>2 DEF TryRead, Controls
  <2>3. CASE queue # <<>>
    <3>1. [pc EXCEPT ![r] = "idle"] \in [Threads -> Controls] BY <2>1 DEF Controls
    <3>2. pc' \in [Threads -> Controls]
      <4>1. pc' = TryReadNotifies([pc EXCEPT ![r] = "idle"]) BY <2>3, <1>2 DEF TryRead
      <4> QED BY <4>1, <3>1, WakeFacts DEF TryReadNotifies, NotifyNotEmpty, NotifyNotFull
    <3>3. queue' \in Seq(Items) /\ delivered' \in Seq(Items)
      <4>1. Head(queue) \in Items /\ Tail(queue) \in Seq(Items)
        BY <2>3, HeadTailProperties
      <4>2. queue' = Tail(queue) /\ delivered' = Append(delivered, Head(queue))
        BY <2>3, <1>2 DEF TryRead
      <4>3. Append(delivered, Head(queue)) \in Seq(Items)
        BY <4>1, AppendProperties
      <4> QED BY <4>1, <4>2, <4>3
    <3> QED BY <2>1, <2>3, <1>2, <3>2, <3>3 DEF TryRead
  <2> QED BY <2>2, <2>3
<1>3. ASSUME NEW r \in Readers, EnterWaitToRead(r) PROVE TypeOK'
  <2>1. r \in Threads BY DEF Threads
  <2>2. RegisterReader(pc) \in [Threads -> Controls]
    BY WakeFacts DEF RegisterReader, NotifyNotFull
  <2>3. WaitToReadResult \in Outcomes BY DEF WaitToReadResult
  <2>4. pc' \in [Threads -> Controls]
    BY <2>1, <2>2, <1>3 DEF EnterWaitToRead, ReturnFromWaitToRead, Controls
  <2>5. outcome' \in [Threads -> Outcomes] /\ waitingReaders' \in Nat
    BY <2>1, <2>3, <1>3 DEF EnterWaitToRead, ReturnFromWaitToRead
  <2> QED BY <1>3, <2>4, <2>5, Zenon DEF EnterWaitToRead
<1>4. ASSUME NEW r \in Readers, ResumeWaitToRead(r) PROVE TypeOK'
  <2>1. r \in Threads BY DEF Threads
  <2>3. WaitToReadResult \in Outcomes BY DEF WaitToReadResult
  <2>4. pc' \in [Threads -> Controls]
    BY <2>1, <1>4 DEF ResumeWaitToRead, ReturnFromWaitToRead, Controls
  <2>5. outcome' \in [Threads -> Outcomes]
    BY <2>1, <2>3, <1>4 DEF ResumeWaitToRead, ReturnFromWaitToRead
  <2>6. isRendezvous => waitingReaders > 0
    BY <1>4, RegisteredFinite DEF WaitingReadersExact, ResumeWaitToRead, Registered
  <2>7. waitingReaders' \in Nat
    BY <1>4, <2>6 DEF ResumeWaitToRead, UnregisterReader
  <2> QED BY <1>4, <2>4, <2>5, <2>7 DEF ResumeWaitToRead
<1>5. ASSUME NEW w \in Writers, NEW o \in AllWriteOps, StartWrite(w, o) PROVE TypeOK'
  BY <1>5 DEF StartWrite, Controls, Threads
<1>6. ASSUME NEW w \in Writers, TryWrite(w) PROVE TypeOK'
  <2>1. w \in Threads BY DEF Threads
  <2>2. [pc EXCEPT ![w] = "idle"] \in [Threads -> Controls] BY <2>1 DEF Controls
  <2>3. CASE WriteRefused(w)
    BY <2>1, <2>3, <1>6 DEF TryWrite, WriteRefused, Controls
  <2>4. CASE WriteDiscarded(w)
    BY <2>1, <2>4, <1>6 DEF TryWrite, WriteDiscarded, Controls, Items
  <2>5. CASE WritePushed(w)
    <3>1. <<w, next[w]>> \in Items BY DEF Items
    <3>2. MustEvict => EvictedIndex \in 1..Len(queue)
      BY OptionsAssumption DEF MustEvict, isFull, EvictedIndex
    <3>3. queue' \in Seq(Items)
      <4> DEFINE kept == IF MustEvict THEN Without(queue, EvictedIndex) ELSE queue
      <4>1. kept \in Seq(Items) BY <3>2, WithoutType
      <4>2. queue' = Append(kept, <<w, next[w]>>)
        BY <2>5 DEF WritePushed
      <4> HIDE DEF kept
      <4> QED BY <3>1, <4>1, <4>2, AppendProperties
    <3>4. dropped' \in SUBSET Items
      <4>1. MustEvict => queue[EvictedIndex] \in Items
        BY <3>2, ElementOfSeq
      <4> QED BY <2>5, <4>1 DEF WritePushed
    <3>5. pc' \in [Threads -> Controls]
      BY <2>5, <2>2, WakeFacts DEF WritePushed, NotifyNotEmpty
    <3>6. outcome' \in [Threads -> Outcomes] /\ next' \in [Writers -> Nat \ {0}]
      BY <2>1, <2>5 DEF WritePushed
    <3>7. UNCHANGED <<closed, closeError, options, waitingReaders, op, delivered>>
      BY <1>6 DEF TryWrite
    <3> QED BY <3>3, <3>4, <3>5, <3>6, <3>7
  <2> QED BY <2>3, <2>4, <2>5, <1>6 DEF TryWrite
<1>7. ASSUME NEW w \in Writers, WaitToWrite(w) PROVE TypeOK'
  <2>1. w \in Threads BY DEF Threads
  <2> QED BY <2>1, <1>7 DEF WaitToWrite, WaitToWriteResult, Controls
<1>8. ASSUME NEW c \in Watchers, Completion(c) PROVE TypeOK'
  <2>1. c \in Threads BY DEF Threads
  <2> QED BY <2>1, <1>8 DEF Completion, Controls
<1>9. ASSUME NEW c \in Watchers, StartCompletion(c) PROVE TypeOK'
  <2>1. c \in Threads BY DEF Threads
  <2> QED BY <2>1, <1>9 DEF StartCompletion, Controls
<1>10. ASSUME NEW e \in Errors, TryComplete(e) PROVE TypeOK'
  BY <1>10, WakeFacts DEF TryComplete, CompleteNotifies, NotifyNotEmpty, NotifyNotFull
<1>11. CASE UNCHANGED vars
  BY <1>11 DEF vars
<1> QED
  BY <1>1, <1>2, <1>3, <1>4, <1>5, <1>6, <1>7, <1>8, <1>9, <1>10, <1>11
  DEF Next, ReaderStep, WriterStep

(* The count of registered readers. *)
\* No reader is registered at first.
LEMMA ExactInit == Init => WaitingReadersExact
<1> SUFFICES ASSUME Init PROVE WaitingReadersExact OBVIOUS
<1>1. Registered = {} BY DEF Init, Registered, Threads
<1> QED BY <1>1, FS_EmptySet DEF Init, WaitingReadersExact

\* Every exit of WaitToReadAsync, exceptional or not, takes back what its entry added.
LEMMA ExactNext == TypeOK /\ WaitingReadersExact /\ [Next]_vars => WaitingReadersExact'
<1> SUFFICES ASSUME TypeOK, WaitingReadersExact, [Next]_vars PROVE WaitingReadersExact'
  OBVIOUS
<1> USE DEF options, history
<1>a. pc \in [Threads -> Controls] BY DEF TypeOK
<1>b. Readers \subseteq Threads BY DEF Threads
<1>c. isRendezvous' = isRendezvous
  BY DEF Next, ReaderStep, WriterStep, StartRead, TryRead, EnterWaitToRead, ResumeWaitToRead,
         StartWrite, TryWrite, WaitToWrite, Completion, StartCompletion, TryComplete, vars, isRendezvous
<1>d. ASSUME Registered' = Registered, UNCHANGED waitingReaders PROVE WaitingReadersExact'
  BY <1>c, <1>d DEF WaitingReadersExact
<1>1. ASSUME NEW r \in Readers, NEW o \in ReadOps, StartRead(r, o) PROVE WaitingReadersExact'
  BY <1>1, <1>a, <1>b, <1>d DEF StartRead, Registered
<1>2. ASSUME NEW r \in Readers, TryRead(r) PROVE WaitingReadersExact'
  <2>1. [pc EXCEPT ![r] = "idle"] \in [Threads -> Controls] BY <1>a DEF Controls
  <2>2. \A t \in Readers : pc'[t] \in {"parked", "notified"} <=> pc[t] \in {"parked", "notified"}
    <3>1. CASE queue = <<>> BY <3>1, <1>2, <1>a, <1>b DEF TryRead
    <3>2. CASE queue # <<>>
      <4>1. pc' = TryReadNotifies([pc EXCEPT ![r] = "idle"]) BY <3>2, <1>2 DEF TryRead
      <4>2. pc[r] \in {"tryRead", "retry"} BY <1>2 DEF TryRead
      <4> DEFINE f == [pc EXCEPT ![r] = "idle"]
                 g == NotifyNotFull(f)
      <4>3. g \in [Threads -> Controls] /\ \A t \in Readers : g[t] = f[t]
        BY <2>1, <1>b, WakeFacts, ThreadsAssumption DEF NotifyNotFull
      <4>4. pc' = NotifyNotEmpty(g) BY <4>1 DEF TryReadNotifies
      <4>5. \A t \in Readers : f[t] \in {"parked", "notified"} <=> pc[t] \in {"parked", "notified"}
        BY <4>2, <1>a, <1>b
      <4> HIDE DEF f, g
      <4> QED BY <4>3, <4>4, <4>5, <1>b, WakeFacts DEF NotifyNotEmpty
    <3> QED BY <3>1, <3>2
  <2> QED BY <2>2, <1>2, <1>d DEF TryRead, Registered
<1>3. ASSUME NEW r \in Readers, EnterWaitToRead(r) PROVE WaitingReadersExact'
  <2>1. /\ RegisterReader(pc) \in [Threads -> Controls]
        /\ \A t \in Readers : RegisterReader(pc)[t] = pc[t]
    BY <1>a, <1>b, WakeFacts, ThreadsAssumption DEF RegisterReader, NotifyNotFull
  <2>2. r \notin Registered BY <1>3 DEF EnterWaitToRead, Registered
  <2>3. CASE ReadReady
    BY <2>1, <2>3, <1>3, <1>b, <1>d DEF EnterWaitToRead, ReturnFromWaitToRead, Registered
  <2>4. CASE ~ReadReady
    <3>1. Registered' = Registered \cup {r}
      BY <2>1, <2>4, <1>3, <1>b DEF EnterWaitToRead, Registered
    <3>2. Cardinality(Registered') = Cardinality(Registered) + 1
      BY <3>1, <2>2, RegisteredFinite, FS_AddElement
    <3>3. waitingReaders' = IF isRendezvous THEN waitingReaders + 1 ELSE waitingReaders
      BY <2>4, <1>3 DEF EnterWaitToRead
    <3> QED BY <3>2, <3>3, <1>c DEF WaitingReadersExact
  <2> QED BY <2>3, <2>4
<1>4. ASSUME NEW r \in Readers, ResumeWaitToRead(r) PROVE WaitingReadersExact'
  <2>1. r \in Registered BY <1>4 DEF ResumeWaitToRead, Registered
  <2>2. CASE ReadReady
    <3>1. pc' = [pc EXCEPT ![r] = "retry"] \/ pc' = [pc EXCEPT ![r] = "idle"]
      BY <2>2, <1>4 DEF ResumeWaitToRead, ReturnFromWaitToRead
    <3>2. Registered' = Registered \ {r} BY <3>1, <1>a, <1>b DEF Registered
    <3>3. Cardinality(Registered') = Cardinality(Registered) - 1
      BY <3>2, <2>1, RegisteredFinite, FS_RemoveElement
    <3>4. waitingReaders' = IF isRendezvous THEN waitingReaders - 1 ELSE waitingReaders
      BY <2>2, <1>4 DEF ResumeWaitToRead, UnregisterReader
    <3> QED BY <3>3, <3>4, <1>c DEF WaitingReadersExact
  <2>3. CASE ~ReadReady
    BY <2>1, <2>3, <1>4, <1>a, <1>b, <1>d DEF ResumeWaitToRead, Registered
  <2> QED BY <2>2, <2>3
<1>5. ASSUME NEW w \in Writers, NEW o \in AllWriteOps, StartWrite(w, o) PROVE WaitingReadersExact'
  BY <1>5, <1>a, <1>b, <1>d, ThreadsAssumption DEF StartWrite, Registered
<1>6. ASSUME NEW w \in Writers, TryWrite(w) PROVE WaitingReadersExact'
  <2>1. w \in Threads /\ w \notin Readers BY ThreadsAssumption DEF Threads
  <2>2. [pc EXCEPT ![w] = "idle"] \in [Threads -> Controls] BY <1>a DEF Controls
  <2>3. \A t \in Readers : pc'[t] \in {"parked", "notified"} <=> pc[t] \in {"parked", "notified"}
    <3>1. CASE WriteRefused(w) \/ WriteDiscarded(w)
      BY <3>1, <2>1, <1>a, <1>b DEF WriteRefused, WriteDiscarded
    <3>2. CASE WritePushed(w)
      BY <3>2, <2>1, <2>2, <1>a, <1>b, WakeFacts DEF WritePushed, NotifyNotEmpty
    <3> QED BY <3>1, <3>2, <1>6 DEF TryWrite
  <2> QED BY <2>3, <1>6, <1>d DEF TryWrite, Registered
<1>7. ASSUME NEW w \in Writers, WaitToWrite(w) PROVE WaitingReadersExact'
  BY <1>7, <1>a, <1>b, <1>d, ThreadsAssumption DEF WaitToWrite, Registered
<1>8. ASSUME NEW c \in Watchers, Completion(c) PROVE WaitingReadersExact'
  BY <1>8, <1>a, <1>b, <1>d, ThreadsAssumption DEF Completion, Registered
<1>9. ASSUME NEW c \in Watchers, StartCompletion(c) PROVE WaitingReadersExact'
  BY <1>9, <1>a, <1>b, <1>d, ThreadsAssumption DEF StartCompletion, Registered
<1>10. ASSUME NEW e \in Errors, TryComplete(e) PROVE WaitingReadersExact'
  <2>1. \A t \in Readers : pc'[t] \in {"parked", "notified"} <=> pc[t] \in {"parked", "notified"}
    BY <1>10, <1>a, <1>b, WakeFacts DEF TryComplete, CompleteNotifies, NotifyNotEmpty, NotifyNotFull
  <2> QED BY <2>1, <1>10, <1>d DEF TryComplete, Registered
<1>11. CASE UNCHANGED vars
  BY <1>11, <1>d DEF vars, Registered
<1> QED
  BY <1>1, <1>2, <1>3, <1>4, <1>5, <1>6, <1>7, <1>8, <1>9, <1>10, <1>11
  DEF Next, ReaderStep, WriterStep

(* Wakeups. *)
\* A step that leaves the queue, the flag and the options alone and adds no waiting
\* reader gives no sleeper a reason to wake up; it is enough that whoever falls
\* asleep in it has none either.
LEMMA NothingToWakeFor ==
  ASSUME TypeOK, NoLostWakeup, UNCHANGED <<queue, closed, options>>,
         waitingReaders' \in Int, waitingReaders' <= waitingReaders,
         \A r \in Readers  : pc'[r] = "parked" => pc[r] = "parked" \/ ~ReadReady,
         \A w \in Writers  : pc'[w] = "parked" => pc[w] = "parked" \/ ~WriteReady,
         \A c \in Watchers : pc'[c] = "parked" => pc[c] = "parked" \/ ~Drained
  PROVE  NoLostWakeup'
<1>1. ReadReady' = ReadReady /\ Drained' = Drained
  BY DEF ReadReady, Drained
<1>2. WriteReady' => WriteReady
  <2>0. Len(queue) \in Nat /\ waitingReaders \in Nat BY LenProperties DEF TypeOK
  <2>1. hasWaitingPeer' => hasWaitingPeer BY <2>0 DEF hasWaitingPeer
  <2>2. isRendezvous' = isRendezvous /\ isFull' = isFull BY DEF isRendezvous, isFull, options
  <2> QED BY <2>1, <2>2 DEF WriteReady, options
<1> QED BY <1>1, <1>2 DEF NoLostWakeup

\* Nobody sleeps on a new channel.
LEMMA WakeupInit == Init => NoLostWakeup
BY DEF Init, NoLostWakeup, Threads

\* Every step that makes a predicate true notifies those who wait for it.
LEMMA WakeupNext == TypeOK /\ TypeOK' /\ NoLostWakeup /\ [Next]_vars => NoLostWakeup'
<1> SUFFICES ASSUME TypeOK, TypeOK', NoLostWakeup, [Next]_vars PROVE NoLostWakeup' OBVIOUS
<1>a. /\ pc \in [Threads -> Controls]
      /\ waitingReaders \in Nat /\ waitingReaders' \in Int /\ waitingReaders' \in Nat
      /\ capacity \in Int
  BY OptionsAssumption DEF TypeOK
<1>b. /\ \A r \in Readers  : r \in Threads /\ r \notin Writers /\ r \notin Watchers
      /\ \A w \in Writers  : w \in Threads /\ w \notin Readers /\ w \notin Watchers
      /\ \A c \in Watchers : c \in Threads /\ c \notin Readers /\ c \notin Writers
      /\ \A t \in Threads : t \in Readers \/ t \in Writers \/ t \in Watchers
  BY ThreadsAssumption DEF Threads
<1>c. ASSUME \A t \in Threads : pc'[t] # "parked" PROVE NoLostWakeup'
  BY <1>b, <1>c DEF NoLostWakeup
<1>d. ASSUME UNCHANGED <<queue, closed, options, waitingReaders>>,
             \A t \in Threads : pc'[t] = "parked" => pc[t] = "parked"
      PROVE  NoLostWakeup'
  BY <1>a, <1>b, <1>d, NothingToWakeFor
<1>1. ASSUME NEW r \in Readers, NEW o \in ReadOps, StartRead(r, o) PROVE NoLostWakeup'
  BY <1>1, <1>a, <1>b, <1>d DEF StartRead
<1>2. ASSUME NEW r \in Readers, TryRead(r) PROVE NoLostWakeup'
  <2>1. CASE queue = <<>>
    BY <1>2, <2>1, <1>a, <1>b, <1>d DEF TryRead
  <2>2. CASE queue # <<>>
    <3> DEFINE f == [pc EXCEPT ![r] = "idle"]
    <3>1. pc' = Wake(Wake(f, Writers), Readers \cup Watchers)
      BY <1>2, <2>2 DEF TryRead, TryReadNotifies, NotifyNotEmpty, NotifyNotFull
    <3>2. f \in [Threads -> Controls] BY <1>a, <1>b DEF Controls
    <3> HIDE DEF f
    <3>3. \A t \in Threads : pc'[t] # "parked" BY <3>1, <3>2, <1>b, WakeFacts
    <3> QED BY <3>3, <1>c
  <2> QED BY <2>1, <2>2
<1>3. ASSUME NEW r \in Readers, EnterWaitToRead(r) PROVE NoLostWakeup'
  <2>1. CASE ReadReady
    <3>1. \A t \in Threads : RegisterReader(pc)[t] = "parked" => pc[t] = "parked"
      BY <1>a, WakeFacts DEF RegisterReader, NotifyNotFull
    <3>2. \A t \in Threads : pc'[t] = "parked" => pc[t] = "parked"
      <4>1. RegisterReader(pc) \in [Threads -> Controls] BY <1>a, WakeFacts DEF RegisterReader, NotifyNotFull
      <4>2. PICK p \in {"retry", "idle"} : pc' = [RegisterReader(pc) EXCEPT ![r] = p]
        BY <1>3, <2>1 DEF EnterWaitToRead, ReturnFromWaitToRead
      <4> QED BY <4>1, <4>2, <3>1, <1>b
    <3> QED BY <3>2, <1>3, <2>1, <1>d DEF EnterWaitToRead
  <2>2. CASE ~ReadReady
    <3>0. /\ pc' = [RegisterReader(pc) EXCEPT ![r] = "parked"]
          /\ waitingReaders' = IF isRendezvous THEN waitingReaders + 1 ELSE waitingReaders
          /\ UNCHANGED <<queue, closed, options>>
      BY <1>3, <2>2 DEF EnterWaitToRead
    <3>1. CASE isRendezvous
      <4>1. pc' = [Wake(pc, Writers) EXCEPT ![r] = "parked"]
        BY <3>0, <3>1 DEF RegisterReader, NotifyNotFull
      <4>2. /\ \A w \in Writers : pc'[w] # "parked"
            /\ \A t \in Readers : pc'[t] = "parked" => t = r \/ pc[t] = "parked"
            /\ \A c \in Watchers : pc'[c] = "parked" => pc[c] = "parked"
        BY <4>1, <1>a, <1>b, WakeFacts
      <4>3. ReadReady' = ReadReady /\ Drained' = Drained BY <3>0 DEF ReadReady, Drained
      <4> QED BY <4>2, <4>3, <2>2 DEF NoLostWakeup
    <3>2. CASE ~isRendezvous
      <4>1. pc' = [pc EXCEPT ![r] = "parked"] /\ waitingReaders' = waitingReaders
        BY <3>0, <3>2 DEF RegisterReader
      <4>2. /\ \A t \in Readers : pc'[t] = "parked" => pc[t] = "parked" \/ ~ReadReady
            /\ \A t \in Writers \cup Watchers : pc'[t] = "parked" => pc[t] = "parked"
            /\ waitingReaders' <= waitingReaders
        BY <4>1, <2>2, <1>a, <1>b
      <4> QED BY <4>2, <3>0, <1>a, NothingToWakeFor
    <3> QED BY <3>1, <3>2
  <2> QED BY <2>1, <2>2
<1>4. ASSUME NEW r \in Readers, ResumeWaitToRead(r) PROVE NoLostWakeup'
  <2>0. UNCHANGED <<queue, closed, options>> BY <1>4 DEF ResumeWaitToRead
  <2>1. waitingReaders' <= waitingReaders
    BY <1>4, <1>a DEF ResumeWaitToRead, UnregisterReader
  <2>2. /\ \A t \in Readers : pc'[t] = "parked" => pc[t] = "parked" \/ ~ReadReady
        /\ \A t \in Writers \cup Watchers : pc'[t] = "parked" => pc[t] = "parked"
    BY <1>4, <1>a, <1>b DEF ResumeWaitToRead, ReturnFromWaitToRead
  <2> QED BY <2>0, <2>1, <2>2, <1>a, NothingToWakeFor
<1>5. ASSUME NEW w \in Writers, NEW o \in AllWriteOps, StartWrite(w, o) PROVE NoLostWakeup'
  BY <1>5, <1>a, <1>b, <1>d DEF StartWrite
<1>6. ASSUME NEW w \in Writers, TryWrite(w) PROVE NoLostWakeup'
  <2>1. CASE WriteRefused(w)
    BY <2>1, <1>6, <1>a, <1>b, <1>d DEF TryWrite, WriteRefused
  <2>2. CASE WriteDiscarded(w)
    BY <2>2, <1>6, <1>a, <1>b, <1>d DEF TryWrite, WriteDiscarded
  <2>3. CASE WritePushed(w)
    \* Whatever admits the item contradicts the predicate of a sleeping writer.
    <3>1. WriteReady
      BY <2>3 DEF WritePushed, WriteReady, NoRoom, MustEvict
    <3>2. \A u \in Writers : pc[u] # "parked" BY <3>1 DEF NoLostWakeup
    <3> DEFINE f == [pc EXCEPT ![w] = "idle"]
    <3>3. pc' = Wake(f, Readers \cup Watchers) BY <2>3 DEF WritePushed, NotifyNotEmpty
    <3>4. f \in [Threads -> Controls] /\ \A u \in Writers : f[u] # "parked"
      BY <3>2, <1>a, <1>b DEF Controls
    <3> HIDE DEF f
    <3>5. \A t \in Threads : pc'[t] # "parked" BY <3>3, <3>4, <1>b, WakeFacts
    <3> QED BY <3>5, <1>c
  <2> QED BY <2>1, <2>2, <2>3, <1>6 DEF TryWrite
<1>7. ASSUME NEW w \in Writers, WaitToWrite(w) PROVE NoLostWakeup'
  <2>1. UNCHANGED <<queue, closed, options>> /\ waitingReaders' <= waitingReaders
    BY <1>7, <1>a DEF WaitToWrite
  <2>2. /\ \A t \in Writers : pc'[t] = "parked" => pc[t] = "parked" \/ ~WriteReady
        /\ \A t \in Readers \cup Watchers : pc'[t] = "parked" => pc[t] = "parked"
    BY <1>7, <1>a, <1>b DEF WaitToWrite
  <2> QED BY <2>1, <2>2, <1>a, NothingToWakeFor
<1>8. ASSUME NEW c \in Watchers, Completion(c) PROVE NoLostWakeup'
  <2>1. UNCHANGED <<queue, closed, options>> /\ waitingReaders' <= waitingReaders
    BY <1>8, <1>a DEF Completion
  <2>2. /\ \A t \in Watchers : pc'[t] = "parked" => pc[t] = "parked" \/ ~Drained
        /\ \A t \in Readers \cup Writers : pc'[t] = "parked" => pc[t] = "parked"
    BY <1>8, <1>a, <1>b DEF Completion
  <2> QED BY <2>1, <2>2, <1>a, NothingToWakeFor
<1>9. ASSUME NEW c \in Watchers, StartCompletion(c) PROVE NoLostWakeup'
  BY <1>9, <1>a, <1>b, <1>d DEF StartCompletion
<1>10. ASSUME NEW e \in Errors, TryComplete(e) PROVE NoLostWakeup'
  <2>1. pc' = Wake(Wake(pc, Readers \cup Watchers), Writers)
    BY <1>10 DEF TryComplete, CompleteNotifies, NotifyNotEmpty, NotifyNotFull
  <2>2. \A t \in Threads : pc'[t] # "parked" BY <2>1, <1>a, <1>b, WakeFacts
  <2> QED BY <2>2, <1>c
<1>11. CASE UNCHANGED vars
  BY <1>11, <1>d DEF vars
<1> QED
  BY <1>1, <1>2, <1>3, <1>4, <1>5, <1>6, <1>7, <1>8, <1>9, <1>10, <1>11
  DEF Next, ReaderStep, WriterStep

(* The capacity. *)
\* A bounded channel starts empty.
LEMMA CapacityInit == Init => CapacityRespected
<1> SUFFICES ASSUME Init PROVE CapacityRespected OBVIOUS
<1>1. Len(queue) = 0 BY EmptySeq DEF Init
<1>2. capacity \in Int BY OptionsAssumption DEF Init
<1> QED BY <1>1, <1>2 DEF CapacityRespected

\* Only a write that found room, or made it, lengthens the queue.
LEMMA CapacityNext == TypeOK /\ CapacityRespected /\ [Next]_vars => CapacityRespected'
<1> SUFFICES ASSUME TypeOK, CapacityRespected, [Next]_vars PROVE CapacityRespected' OBVIOUS
<1> USE DEF options
<1>a. queue \in Seq(Items) /\ Len(queue) \in Nat /\ capacity \in Int
  BY OptionsAssumption, LenProperties DEF TypeOK
<1>b. ASSUME UNCHANGED <<queue, options>> PROVE CapacityRespected'
  BY <1>b DEF CapacityRespected
<1>1. ASSUME NEW r \in Readers, TryRead(r) PROVE CapacityRespected'
  <2>1. CASE queue = <<>> BY <1>1, <2>1, <1>b DEF TryRead
  <2>2. CASE queue # <<>>
    <3>1. Len(Tail(queue)) = Len(queue) - 1 BY <2>2, <1>a, HeadTailProperties
    <3>2. queue' = Tail(queue) /\ capacity' = capacity BY <1>1, <2>2 DEF TryRead
    <3>3. Len(queue') = Len(queue) - 1 BY <3>1, <3>2
    <3> QED BY <3>2, <3>3, <1>a DEF CapacityRespected
  <2> QED BY <2>1, <2>2
<1>2. ASSUME NEW w \in Writers, TryWrite(w) PROVE CapacityRespected'
  <2>1. CASE WriteRefused(w) \/ WriteDiscarded(w)
    BY <2>1, <1>2, <1>b DEF TryWrite, WriteRefused, WriteDiscarded
  <2>2. CASE WritePushed(w)
    <3> DEFINE kept == IF MustEvict THEN Without(queue, EvictedIndex) ELSE queue
               i == <<w, next[w]>>
    <3>1. MustEvict => EvictedIndex \in 1..Len(queue)
      BY <1>a DEF MustEvict, isFull, EvictedIndex
    <3>2. kept \in Seq(Items) /\ Len(kept) = IF MustEvict THEN Len(queue) - 1 ELSE Len(queue)
      BY <3>1, <1>a, WithoutType
    <3>3. i \in Items BY DEF Items, TypeOK
    <3>4. queue' = Append(kept, i) /\ capacity' = capacity
      BY <1>2, <2>2 DEF WritePushed, TryWrite
    <3> HIDE DEF kept, i
    <3>5. Len(queue') = Len(kept) + 1 BY <3>2, <3>3, <3>4, AppendProperties
    <3>6. capacity > 0 /\ ~MustEvict => Len(queue) < capacity
      BY <1>a, <2>2 DEF WritePushed, NoRoom, isFull, isRendezvous
    <3> QED BY <1>a, <3>2, <3>4, <3>5, <3>6 DEF CapacityRespected
  <2> QED BY <2>1, <2>2, <1>2 DEF TryWrite
<1>3. ASSUME NEW r \in Readers, NEW o \in ReadOps, StartRead(r, o) PROVE CapacityRespected'
  BY <1>3, <1>b DEF StartRead
<1>9. ASSUME NEW r \in Readers, EnterWaitToRead(r) \/ ResumeWaitToRead(r) PROVE CapacityRespected'
  BY <1>9, <1>b DEF EnterWaitToRead, ResumeWaitToRead
<1>4. ASSUME NEW w \in Writers, NEW o \in AllWriteOps, StartWrite(w, o) PROVE CapacityRespected'
  BY <1>4, <1>b DEF StartWrite
<1>5. ASSUME NEW w \in Writers, WaitToWrite(w) PROVE CapacityRespected'
  BY <1>5, <1>b DEF WaitToWrite
<1>6. ASSUME NEW c \in Watchers, Completion(c) \/ StartCompletion(c) PROVE CapacityRespected'
  BY <1>6, <1>b DEF Completion, StartCompletion
<1>7. ASSUME NEW e \in Errors, TryComplete(e) PROVE CapacityRespected'
  BY <1>7, <1>b DEF TryComplete
<1>8. CASE UNCHANGED vars BY <1>8, <1>b DEF vars
<1> QED
  BY <1>1, <1>2, <1>3, <1>9, <1>4, <1>5, <1>6, <1>7, <1>8 DEF Next, ReaderStep, WriterStep

\* Every reachable state has the types the code declares; in particular the
\* reader count is never driven below zero.
THEOREM TypeCorrect == Spec => []TypeOK
<1>1. Init => TypeOK /\ WaitingReadersExact BY TypeInit, ExactInit
<1>2. TypeOK /\ WaitingReadersExact /\ [Next]_vars => (TypeOK /\ WaitingReadersExact)'
  BY TypeNext, ExactNext
<1> QED BY <1>1, <1>2, PTL DEF Spec

\* waitingReaders counts exactly the readers inside WaitToReadAsync, on every
\* channel and for any number of threads.
THEOREM CountExact == Spec => []WaitingReadersExact
<1>1. Init => TypeOK /\ WaitingReadersExact BY TypeInit, ExactInit
<1>2. TypeOK /\ WaitingReadersExact /\ [Next]_vars => (TypeOK /\ WaitingReadersExact)'
  BY TypeNext, ExactNext
<1> QED BY <1>1, <1>2, PTL DEF Spec

\* No reader, writer or Completion waiter of any channel sleeps when it has
\* something to wake up for.
THEOREM NoWakeupIsLost == Spec => []NoLostWakeup
<1>1. TypeOK /\ TypeOK' /\ NoLostWakeup /\ [Next]_vars => NoLostWakeup' BY WakeupNext
<1> QED BY <1>1, WakeupInit, TypeCorrect, PTL DEF Spec

\* No interleaving of writers, in any full mode, takes a bounded channel past its
\* capacity.
THEOREM CapacityIsRespected == Spec => []CapacityRespected
<1>1. TypeOK /\ CapacityRespected /\ [Next]_vars => CapacityRespected' BY CapacityNext
<1> QED BY <1>1, CapacityInit, TypeCorrect, PTL DEF Spec

(* What the channel reports. *)
\* What a reader is executing fits where it stands: only ReadAsync and TryRead
\* try to read, and only ReadAsync and WaitToReadAsync wait.
Programs ==
  /\ \A r \in Readers : pc[r] # "idle" => op[r] \in ReadOps
  /\ \A r \in Readers : pc[r] \in {"tryRead", "retry"} => op[r] # "WaitToReadAsync"
  /\ \A r \in Readers : pc[r] \in {"enterWait", "parked", "notified"} => op[r] # "TryRead"

\* A step that moves no reader, or only to "notified", and leaves their programs
\* alone keeps Programs.
LEMMA ProgramsKept ==
  ASSUME Programs, UNCHANGED op,
         \A r \in Readers : pc'[r] = pc[r] \/ (pc[r] = "parked" /\ pc'[r] = "notified")
  PROVE  Programs'
BY DEF Programs

\* A write, a completion or a Completion waiter moves a reader at most from
\* "parked" to "notified".
LEMMA OthersLeaveReaders ==
  ASSUME TypeOK,
         \/ \E w \in Writers : WriterStep(w) \/ \E o \in AllWriteOps : StartWrite(w, o)
         \/ \E c \in Watchers : Completion(c) \/ StartCompletion(c)
         \/ \E e \in Errors : TryComplete(e)
  PROVE  \A r \in Readers :
           /\ pc'[r] = pc[r] \/ (pc[r] = "parked" /\ pc'[r] = "notified")
           /\ op'[r] = op[r] /\ outcome'[r] = outcome[r]
<1>a. pc \in [Threads -> Controls] /\ op \in [Threads -> AllReadOps \cup AllWriteOps \cup {"none"}]
      /\ outcome \in [Threads -> Outcomes]
  BY DEF TypeOK
<1>b. /\ \A r \in Readers  : r \in Threads /\ r \notin Writers /\ r \notin Watchers
      /\ Writers \subseteq Threads /\ Watchers \subseteq Threads
  BY ThreadsAssumption DEF Threads
<1>1. ASSUME NEW w \in Writers, TryWrite(w)
      PROVE  \A r \in Readers : /\ pc'[r] = pc[r] \/ (pc[r] = "parked" /\ pc'[r] = "notified")
                                /\ op'[r] = op[r] /\ outcome'[r] = outcome[r]
  <2>1. CASE WriteRefused(w) \/ WriteDiscarded(w)
    BY <1>1, <2>1, <1>a, <1>b DEF TryWrite, WriteRefused, WriteDiscarded
  <2>2. CASE WritePushed(w)
    <3>1. [pc EXCEPT ![w] = "idle"] \in [Threads -> Controls] BY <1>a DEF Controls
    <3> QED BY <1>1, <2>2, <3>1, <1>a, <1>b, WakeFacts DEF TryWrite, WritePushed, NotifyNotEmpty
  <2> QED BY <1>1, <2>1, <2>2 DEF TryWrite
<1>2. ASSUME NEW e \in Errors, TryComplete(e)
      PROVE  \A r \in Readers : /\ pc'[r] = pc[r] \/ (pc[r] = "parked" /\ pc'[r] = "notified")
                                /\ op'[r] = op[r] /\ outcome'[r] = outcome[r]
  BY <1>2, <1>a, <1>b, WakeFacts DEF TryComplete, CompleteNotifies, NotifyNotEmpty, NotifyNotFull
<1> QED BY <1>1, <1>2, <1>a, <1>b
        DEF WriterStep, WaitToWrite, StartWrite, Completion, StartCompletion

\* Nothing runs on a new channel.
LEMMA ProgramsInit == Init => Programs
BY DEF Init, Programs, Threads

\* Every call keeps to its own loop.
LEMMA ProgramsNext == TypeOK /\ Programs /\ [Next]_vars => Programs'
<1> SUFFICES ASSUME TypeOK, Programs, [Next]_vars PROVE Programs' OBVIOUS
<1>a. pc \in [Threads -> Controls] /\ op \in [Threads -> AllReadOps \cup AllWriteOps \cup {"none"}]
      /\ Readers \subseteq Threads /\ ReadOps \subseteq AllReadOps
  BY OptionsAssumption DEF TypeOK, Threads
<1>1. ASSUME NEW r \in Readers, NEW o \in ReadOps, StartRead(r, o) PROVE Programs'
  BY <1>1, <1>a DEF StartRead, Programs, AllReadOps
<1>2. ASSUME NEW r \in Readers, TryRead(r) PROVE Programs'
  <2>1. CASE queue = <<>> BY <1>2, <2>1, <1>a DEF TryRead, Programs, AllReadOps
  <2>2. CASE queue # <<>>
    <3> DEFINE f == [pc EXCEPT ![r] = "idle"]
    <3>1. f \in [Threads -> Controls] BY <1>a DEF Controls
    <3>2. pc' = Wake(Wake(f, Writers), Readers \cup Watchers)
      BY <1>2, <2>2 DEF TryRead, TryReadNotifies, NotifyNotEmpty, NotifyNotFull
    <3>3. \A t \in Readers : f[t] = IF t = r THEN "idle" ELSE pc[t] BY <1>a
    <3> HIDE DEF f
    <3>4. \A t \in Readers : pc'[t] = f[t] \/ (f[t] = "parked" /\ pc'[t] = "notified")
      BY <3>1, <3>2, <1>a, WakeFacts
    <3> QED BY <1>2, <3>3, <3>4 DEF TryRead, Programs
  <2> QED BY <2>1, <2>2
<1>3. ASSUME NEW r \in Readers, EnterWaitToRead(r) PROVE Programs'
  <2>1. /\ RegisterReader(pc) \in [Threads -> Controls]
        /\ \A t \in Readers : RegisterReader(pc)[t] = pc[t]
    BY <1>a, WakeFacts, ThreadsAssumption DEF RegisterReader, NotifyNotFull
  <2> QED BY <1>3, <2>1, <1>a DEF EnterWaitToRead, ReturnFromWaitToRead, Programs
<1>4. ASSUME NEW r \in Readers, ResumeWaitToRead(r) PROVE Programs'
  BY <1>4, <1>a DEF ResumeWaitToRead, ReturnFromWaitToRead, Programs
<1>5. ASSUME \/ \E w \in Writers : WriterStep(w) \/ \E o \in AllWriteOps : StartWrite(w, o)
             \/ \E c \in Watchers : Completion(c) \/ StartCompletion(c)
             \/ \E e \in Errors : TryComplete(e)
      PROVE  Programs'
  BY <1>5, OthersLeaveReaders DEF Programs
<1>6. CASE UNCHANGED vars BY <1>6 DEF vars, Programs
<1> QED BY <1>1, <1>2, <1>3, <1>4, <1>5, <1>6 DEF Next, ReaderStep

\* Nothing was reported of a new channel.
LEMMA DrainedInit == Init => DrainedBeforeClosed
BY DEF Init, DrainedBeforeClosed, Threads

\* A closed and empty channel stays closed and empty.
LEMMA DrainedForGood == TypeOK /\ Drained /\ [Next]_vars => Drained'
<1> SUFFICES ASSUME TypeOK, Drained, [Next]_vars PROVE Drained' OBVIOUS
<1> USE DEF Drained
<1>1. ASSUME NEW r \in Readers, ReaderStep(r) PROVE Drained'
  BY <1>1 DEF ReaderStep, TryRead, EnterWaitToRead, ResumeWaitToRead
<1>2. ASSUME NEW w \in Writers, WriterStep(w) PROVE Drained'
  BY <1>2 DEF WriterStep, TryWrite, WriteRefused, WriteDiscarded, WritePushed, WaitToWrite
<1>3. ASSUME NEW e \in Errors, TryComplete(e) PROVE Drained' BY <1>3 DEF TryComplete
<1> QED BY <1>1, <1>2, <1>3 DEF Next, StartRead, StartWrite, Completion, StartCompletion, vars

\* Every report of the end of the channel is made when it is closed and empty.
LEMMA DrainedNext == TypeOK /\ Programs /\ DrainedBeforeClosed /\ [Next]_vars => DrainedBeforeClosed'
<1> SUFFICES ASSUME TypeOK, Programs, DrainedBeforeClosed, [Next]_vars PROVE DrainedBeforeClosed'
  OBVIOUS
<1>a. /\ op \in [Threads -> AllReadOps \cup AllWriteOps \cup {"none"}]
      /\ outcome \in [Threads -> Outcomes] /\ Readers \subseteq Threads /\ Watchers \subseteq Threads
      /\ closeError \in Errors
  BY DEF TypeOK, Threads
<1>b. /\ \A r \in Readers  : r \notin Writers /\ r \notin Watchers
      /\ \A c \in Watchers : c \notin Writers /\ c \notin Readers
  BY ThreadsAssumption
<1> DEFINE Ended(r) == \/ outcome[r] \in {"closed", "error"}
                       \/ outcome[r] = "false" /\ op[r] = "WaitToReadAsync"
\* It is enough that a report that is new is made on a drained channel.
<1>c. ASSUME \A r \in Readers : Ended(r)' => Ended(r) \/ Drained',
             \A c \in Watchers : outcome'[c] # "none" => outcome[c] # "none" \/ Drained'
      PROVE  DrainedBeforeClosed'
  BY <1>c, DrainedForGood DEF DrainedBeforeClosed, Drained
<1>1. ASSUME NEW r \in Readers, NEW o \in ReadOps, StartRead(r, o) PROVE DrainedBeforeClosed'
  BY <1>1, <1>a, <1>b, <1>c DEF StartRead
<1>2. ASSUME NEW r \in Readers, TryRead(r) PROVE DrainedBeforeClosed'
  BY <1>2, <1>a, <1>b, <1>c DEF TryRead, Programs
<1>3. ASSUME NEW r \in Readers, EnterWaitToRead(r) \/ ResumeWaitToRead(r) PROVE DrainedBeforeClosed'
  <2>1. \/ UNCHANGED outcome
        \/ /\ ReadReady /\ Drained' = Drained
           /\ outcome' = [outcome EXCEPT ![r] = IF op[r] = "ReadAsync" THEN "closed" ELSE WaitToReadResult]
           /\ op[r] = "ReadAsync" => WaitToReadResult # "true"
    BY <1>3 DEF EnterWaitToRead, ResumeWaitToRead, ReturnFromWaitToRead, Drained
  <2>2. ReadReady /\ WaitToReadResult # "true" => Drained
    BY DEF ReadReady, WaitToReadResult, Drained
  <2>3. op' = op BY <1>3 DEF EnterWaitToRead, ResumeWaitToRead
  <2> QED BY <2>1, <2>2, <2>3, <1>a, <1>b, <1>c
<1>4. ASSUME NEW w \in Writers, WriterStep(w) \/ \E o \in AllWriteOps : StartWrite(w, o)
      PROVE  DrainedBeforeClosed'
  <2>1. \A t \in Readers \cup Watchers : outcome'[t] = outcome[t] /\ op'[t] = op[t]
    BY <1>4, <1>a, <1>b DEF WriterStep, StartWrite, TryWrite, WriteRefused, WriteDiscarded,
                            WritePushed, WaitToWrite
  <2> QED BY <2>1, <1>c
<1>5. ASSUME NEW c \in Watchers, Completion(c) \/ StartCompletion(c) PROVE DrainedBeforeClosed'
  BY <1>5, <1>a, <1>b, <1>c DEF Completion, StartCompletion, Drained
<1>6. ASSUME NEW e \in Errors, TryComplete(e) PROVE DrainedBeforeClosed'
  BY <1>6, <1>c DEF TryComplete
<1>7. CASE UNCHANGED vars BY <1>7, <1>c DEF vars
<1> QED BY <1>1, <1>2, <1>3, <1>4, <1>5, <1>6, <1>7 DEF Next, ReaderStep

\* The committed readers are finitely many.
LEMMA CommittedFinite ==
  /\ IsFiniteSet(Committed) /\ Cardinality(Committed) \in Nat
  /\ Cardinality(Registered) <= Cardinality(Committed)
<1>1. Committed \subseteq Readers /\ Registered \subseteq Committed BY DEF Committed, Registered
<1>2. IsFiniteSet(Committed) BY <1>1, ThreadsAssumption, FS_Subset
<1> QED BY <1>1, <1>2, FS_Subset, FS_CardinalityType

\* A new channel holds nothing.
LEMMA BackedInit == Init => RendezvousBacked
<1> SUFFICES ASSUME Init PROVE RendezvousBacked OBVIOUS
<1>1. Len(queue) = 0 BY EmptySeq DEF Init
<1> QED BY <1>1, CommittedFinite DEF RendezvousBacked

\* A write finds a registered reader that has no item yet, and a reader gives its
\* registration up only to take an item or when there is none.
LEMMA BackedNext ==
  TypeOK /\ TypeOK' /\ WaitingReadersExact /\ Programs /\ RendezvousBacked /\ [Next]_vars
    => RendezvousBacked'
<1> SUFFICES ASSUME TypeOK, TypeOK', WaitingReadersExact, Programs, RendezvousBacked, [Next]_vars,
                    capacity' = 0, "WaitToReadAsync" \notin ReadOps
             PROVE  Len(queue') <= Cardinality(Committed)'
  BY DEF RendezvousBacked
<1> USE DEF options, history
<1>0. IsFiniteSet(Committed') /\ Cardinality(Committed)' \in Nat
  <2>1. Committed' \subseteq Readers BY DEF Committed
  <2>2. IsFiniteSet(Committed') BY <2>1, ThreadsAssumption, FS_Subset
  <2> QED BY <2>2, FS_CardinalityType
<1>a. /\ pc \in [Threads -> Controls] /\ Readers \subseteq Threads
      /\ queue \in Seq(Items) /\ queue' \in Seq(Items)
      /\ Len(queue) \in Nat /\ Len(queue') \in Nat /\ waitingReaders \in Nat
  BY LenProperties DEF TypeOK, Threads
<1>c. capacity = 0
  BY DEF Next, ReaderStep, WriterStep, StartRead, TryRead, EnterWaitToRead, ResumeWaitToRead,
         StartWrite, TryWrite, WaitToWrite, Completion, StartCompletion, TryComplete, vars
<1>b. Len(queue) <= Cardinality(Committed) BY <1>c DEF RendezvousBacked
<1>d. ASSUME queue' = queue, Committed \subseteq Committed' PROVE Len(queue') <= Cardinality(Committed)'
  <2>1. Cardinality(Committed) <= Cardinality(Committed') BY <1>d, <1>0, FS_Subset
  <2> QED BY <1>a, <1>b, <1>d, <1>0, <2>1, CommittedFinite
<1>e. ASSUME queue' = <<>> PROVE Len(queue') <= Cardinality(Committed)'
  BY <1>e, <1>0, EmptySeq
<1>f. ASSUME \A r \in Readers : pc'[r] = pc[r] \/ (pc[r] = "parked" /\ pc'[r] = "notified")
      PROVE  Committed' = Committed
  BY <1>f DEF Committed
<1>1. ASSUME NEW r \in Readers, NEW o \in ReadOps, StartRead(r, o)
      PROVE  Len(queue') <= Cardinality(Committed)'
  <2>1. Committed' = Committed BY <1>1, <1>a DEF StartRead, Committed
  <2> QED BY <1>1, <2>1, <1>d DEF StartRead
<1>2. ASSUME NEW r \in Readers, TryRead(r) PROVE Len(queue') <= Cardinality(Committed)'
  <2>1. CASE queue = <<>> BY <1>2, <2>1, <1>e DEF TryRead
  <2>2. CASE queue # <<>>
    <3> DEFINE f == [pc EXCEPT ![r] = "idle"]
    <3>1. f \in [Threads -> Controls] BY <1>a DEF Controls
    <3>2. pc' = Wake(Wake(f, Writers), Readers \cup Watchers)
      BY <1>2, <2>2 DEF TryRead, TryReadNotifies, NotifyNotEmpty, NotifyNotFull
    <3>3. \A t \in Readers : f[t] = IF t = r THEN "idle" ELSE pc[t] BY <1>a
    <3> HIDE DEF f
    <3>4. \A t \in Readers : pc'[t] = f[t] \/ (f[t] = "parked" /\ pc'[t] = "notified")
      BY <3>1, <3>2, <1>a, WakeFacts
    <3>5. Committed' = Committed \ {r} BY <3>3, <3>4 DEF Committed
    <3>6. Cardinality(Committed') >= Cardinality(Committed) - 1
      <4>1. CASE r \in Committed BY <3>5, <4>1, CommittedFinite, FS_RemoveElement
      <4>2. CASE r \notin Committed
        <5>1. Committed' = Committed BY <3>5, <4>2
        <5> QED BY <5>1, CommittedFinite
      <4> QED BY <4>1, <4>2
    <3>7. Len(queue') = Len(queue) - 1
      BY <1>2, <2>2, <1>a, HeadTailProperties DEF TryRead
    <3> QED BY <3>6, <3>7, <1>a, <1>b, <1>0, CommittedFinite
  <2> QED BY <2>1, <2>2
<1>3. ASSUME NEW r \in Readers, EnterWaitToRead(r) PROVE Len(queue') <= Cardinality(Committed)'
  <2>1. /\ RegisterReader(pc) \in [Threads -> Controls]
        /\ \A t \in Readers : RegisterReader(pc)[t] = pc[t]
    BY <1>a, WakeFacts, ThreadsAssumption DEF RegisterReader, NotifyNotFull
  <2>2. Committed \subseteq Committed'
    BY <1>3, <2>1, <1>a DEF EnterWaitToRead, ReturnFromWaitToRead, Committed
  <2> QED BY <1>3, <2>2, <1>d DEF EnterWaitToRead
<1>4. ASSUME NEW r \in Readers, ResumeWaitToRead(r) PROVE Len(queue') <= Cardinality(Committed)'
  <2>1. op[r] = "ReadAsync"
    BY <1>4, OptionsAssumption DEF ResumeWaitToRead, Programs, AllReadOps
  <2>2. CASE queue = <<>> BY <1>4, <2>2, <1>e DEF ResumeWaitToRead
  <2>3. CASE queue # <<>>
    <3>1. Committed \subseteq Committed'
      BY <1>4, <2>1, <2>3, <1>a DEF ResumeWaitToRead, ReturnFromWaitToRead, WaitToReadResult, Committed
    <3> QED BY <1>4, <3>1, <1>d DEF ResumeWaitToRead
  <2> QED BY <2>2, <2>3
<1>5. ASSUME NEW w \in Writers, TryWrite(w) PROVE Len(queue') <= Cardinality(Committed)'
  <2>0. \A r \in Readers : pc'[r] = pc[r] \/ (pc[r] = "parked" /\ pc'[r] = "notified")
    BY <1>5, OthersLeaveReaders DEF WriterStep
  <2>1. Committed' = Committed BY <2>0, <1>f
  <2>2. CASE WriteRefused(w) \/ WriteDiscarded(w)
    BY <2>1, <2>2, <1>d DEF WriteRefused, WriteDiscarded
  <2>3. CASE WritePushed(w)
    <3>1. isRendezvous BY <1>c DEF isRendezvous
    <3>2. hasWaitingPeer /\ ~MustEvict BY <2>3, <3>1 DEF WritePushed, NoRoom, MustEvict
    <3>3. Len(queue) < Cardinality(Registered)
      BY <3>1, <3>2, <1>a, RegisteredFinite DEF hasWaitingPeer, WaitingReadersExact
    <3>4. queue' = Append(queue, <<w, next[w]>>) /\ <<w, next[w]>> \in Items
      BY <2>3, <3>2 DEF WritePushed, Items, TypeOK
    <3>5. Len(queue') = Len(queue) + 1 BY <3>4, <1>a, AppendProperties
    <3> QED BY <2>1, <3>3, <3>5, <1>a, CommittedFinite, RegisteredFinite
  <2> QED BY <1>5, <2>2, <2>3 DEF TryWrite
<1>6. ASSUME \/ \E w \in Writers : WaitToWrite(w) \/ \E o \in AllWriteOps : StartWrite(w, o)
             \/ \E c \in Watchers : Completion(c) \/ StartCompletion(c)
             \/ \E e \in Errors : TryComplete(e)
      PROVE  Len(queue') <= Cardinality(Committed)'
  <2>0. \A r \in Readers : pc'[r] = pc[r] \/ (pc[r] = "parked" /\ pc'[r] = "notified")
    BY <1>6, OthersLeaveReaders DEF WriterStep
  <2>1. Committed' = Committed BY <2>0, <1>f
  <2>2. queue' = queue BY <1>6 DEF WaitToWrite, StartWrite, Completion, StartCompletion, TryComplete
  <2> QED BY <2>1, <2>2, <1>d
<1>7. CASE UNCHANGED vars
  BY <1>7, <1>d DEF vars, Committed
<1> QED BY <1>1, <1>2, <1>3, <1>4, <1>5, <1>6, <1>7 DEF Next, ReaderStep, WriterStep

\* Whatever the threads do, the end of the channel is reported only once its items
\* are gone, and, as long as whoever waits to read then reads, a rendezvous channel
\* accepts no item without a reader on its way to take it.
THEOREM ReportsAreTrueAlways == Spec => []ReportsAreTrue
<1> DEFINE RInv == Programs /\ DrainedBeforeClosed /\ RendezvousBacked
<1>1. Init => RInv BY ProgramsInit, DrainedInit, BackedInit
<1>2. TypeOK /\ TypeOK' /\ WaitingReadersExact /\ RInv /\ [Next]_vars => RInv'
  BY ProgramsNext, DrainedNext, BackedNext
<1>3. RInv => ReportsAreTrue BY DEF ReportsAreTrue
<1> QED BY <1>1, <1>2, <1>3, TypeCorrect, CountExact, PTL DEF Spec

(* The contract. *)
\* The items of a sequence come before the ones their writers write next.
Before(s, n) == \A k \in 1..Len(s) : s[k][2] < n[s[k][1]]

\* An item that was ever written comes before its writer's next one, and a writer
\* inside a call has an item left to write.
Numbered ==
  /\ Before(queue, next) /\ Before(delivered, next)
  /\ \A i \in dropped : i[2] < next[i[1]]
  /\ \A w \in Writers : pc[w] # "idle" => next[w] <= MaxItems

\* What is left of a queue when one item is dropped was in it.
LEMMA WithoutElements ==
  ASSUME NEW s \in Seq(Items), NEW i \in 1..Len(s),
         NEW k \in 1..Len(Without(s, i))
  PROVE  \E j \in 1..Len(s) : Without(s, i)[k] = s[j]
<1> DEFINE a == SubSeq(s, 1, i - 1)
           b == SubSeq(s, i + 1, Len(s))
<1>0. Len(s) \in Nat BY LenProperties
<1>1. a \in Seq(Items) /\ Len(a) = i - 1 /\ \A j \in 1..(i - 1) : a[j] = s[j]
  BY <1>0, SubSeqProperties
<1>2. b \in Seq(Items) /\ Len(b) = Len(s) - i /\ \A j \in 1..(Len(s) - i) : b[j] = s[i + j]
  BY <1>0, SubSeqProperties
<1>3. Without(s, i) = a \o b BY DEF Without
<1> HIDE DEF a, b
<1>4. Len(a \o b) = Len(a) + Len(b) BY <1>1, <1>2, ConcatProperties
<1>5. CASE k <= i - 1
  <2>1. (a \o b)[k] = a[k] BY <1>0, <1>1, <1>2, <1>3, <1>4, <1>5, ConcatProperties
  <2> QED BY <1>0, <1>1, <1>3, <1>5, <2>1
<1>6. CASE k > i - 1
  <2>1. k - (i - 1) \in 1..(Len(s) - i) BY <1>0, <1>1, <1>2, <1>3, <1>4, <1>6
  <2>2. (a \o b)[k] = b[k - Len(a)] BY <1>0, <1>1, <1>2, <1>3, <1>4, <1>6, ConcatProperties
  <2>3. b[k - Len(a)] = s[k + 1] BY <1>0, <1>1, <1>2, <2>1
  <2> QED BY <1>0, <1>3, <2>1, <2>2, <2>3
<1> QED BY <1>0, <1>5, <1>6

\* A longer program leaves the items written so far where they were.
LEMMA BeforeGrows ==
  ASSUME NEW s \in Seq(Items), NEW n \in [Writers -> Nat], NEW m \in [Writers -> Nat],
         \A w \in Writers : n[w] <= m[w], Before(s, n)
  PROVE  Before(s, m)
<1> SUFFICES ASSUME NEW k \in 1..Len(s) PROVE s[k][2] < m[s[k][1]] BY DEF Before
<1>1. s[k] \in Items BY ElementOfSeq
<1>2. s[k][1] \in Writers /\ s[k][2] \in Nat BY <1>1 DEF Items
<1>3. s[k][2] < n[s[k][1]] BY DEF Before
<1> QED BY <1>2, <1>3

\* One more item, and one item less.
LEMMA BeforeAppend ==
  ASSUME NEW s \in Seq(Items), NEW n, NEW i \in Items, Before(s, n), i[2] < n[i[1]]
  PROVE  Before(Append(s, i), n)
<1> SUFFICES ASSUME NEW k \in 1..Len(Append(s, i))
             PROVE  Append(s, i)[k][2] < n[Append(s, i)[k][1]]
  BY DEF Before
<1>1. Len(Append(s, i)) = Len(s) + 1 /\ Len(s) \in Nat BY AppendProperties, LenProperties
<1>2. CASE k = Len(s) + 1
  <2>1. Append(s, i)[k] = i BY <1>2, AppendProperties
  <2> QED BY <2>1
<1>3. CASE k # Len(s) + 1
  <2>1. k \in 1..Len(s) BY <1>1, <1>3
  <2>2. Append(s, i)[k] = s[k] BY <2>1, AppendProperties
  <2> QED BY <2>1, <2>2 DEF Before
<1> QED BY <1>2, <1>3

\* Taking the first item leaves the numbers of the others as they were.
LEMMA BeforeTail ==
  ASSUME NEW s \in Seq(Items), NEW n, s # <<>>, Before(s, n)
  PROVE  Before(Tail(s), n) /\ Head(s)[2] < n[Head(s)[1]]
<1>1. /\ Len(s) \in Nat /\ Len(s) # 0 /\ Len(Tail(s)) = Len(s) - 1
      /\ \A k \in 1..Len(Tail(s)) : Tail(s)[k] = s[k + 1]
  BY LenProperties, HeadTailProperties, EmptySeq
<1>2. Head(s) = s[1] OBVIOUS
<1>3. \A k \in 1..Len(Tail(s)) : k + 1 \in 1..Len(s) BY <1>1
<1> QED BY <1>1, <1>2, <1>3 DEF Before

\* Nothing was written to a new channel.
LEMMA NumberedInit == Init => Numbered
<1> SUFFICES ASSUME Init PROVE Numbered OBVIOUS
<1>1. 1..Len(queue) = {} /\ 1..Len(delivered) = {} BY EmptySeq DEF Init
<1> QED BY <1>1 DEF Init, Numbered, Before, Threads

\* Only the item a writer writes next is ever added.
LEMMA NumberedNext == TypeOK /\ Numbered /\ [Next]_vars => Numbered'
<1> SUFFICES ASSUME TypeOK, Numbered, [Next]_vars PROVE Numbered' OBVIOUS
<1> USE DEF options, history
<1>a. /\ pc \in [Threads -> Controls] /\ queue \in Seq(Items) /\ delivered \in Seq(Items)
      /\ dropped \subseteq Items /\ next \in [Writers -> Nat \ {0}] /\ next \in [Writers -> Nat]
      /\ MaxItems \in Nat /\ Writers \subseteq Threads
  BY OptionsAssumption DEF TypeOK, Threads
<1>b. \A w \in Writers : w \notin Readers /\ w \notin Watchers BY ThreadsAssumption
\* Most steps change neither what was written nor who is writing.
<1>c. ASSUME UNCHANGED <<queue, delivered, dropped, next>>,
             \A w \in Writers : pc'[w] # "idle" => pc[w] # "idle"
      PROVE  Numbered'
  BY <1>c DEF Numbered
<1>1. ASSUME NEW r \in Readers, NEW o \in ReadOps, StartRead(r, o) PROVE Numbered'
  BY <1>1, <1>a, <1>b, <1>c DEF StartRead
<1>2. ASSUME NEW r \in Readers, TryRead(r) PROVE Numbered'
  <2>1. CASE queue = <<>> BY <1>2, <2>1, <1>a, <1>b, <1>c DEF TryRead
  <2>2. CASE queue # <<>>
    <3> DEFINE f == [pc EXCEPT ![r] = "idle"]
    <3>1. f \in [Threads -> Controls] /\ \A w \in Writers : f[w] = pc[w] BY <1>a, <1>b DEF Controls
    <3>2. pc' = Wake(Wake(f, Writers), Readers \cup Watchers)
      BY <1>2, <2>2 DEF TryRead, TryReadNotifies, NotifyNotEmpty, NotifyNotFull
    <3> HIDE DEF f
    <3>3. \A w \in Writers : pc'[w] # "idle" => pc[w] # "idle" BY <3>1, <3>2, <1>a, WakeFacts
    <3>4. /\ queue' = Tail(queue) /\ delivered' = Append(delivered, Head(queue))
          /\ next' = next /\ dropped' = dropped
      BY <1>2, <2>2 DEF TryRead
    <3>5. Head(queue) \in Items BY <2>2, <1>a, HeadTailProperties
    <3>6. Before(Tail(queue), next) /\ Head(queue)[2] < next[Head(queue)[1]]
      BY <2>2, <1>a, BeforeTail DEF Numbered
    <3>7. Before(Append(delivered, Head(queue)), next)
      BY <3>5, <3>6, <1>a, BeforeAppend DEF Numbered
    <3> QED BY <3>3, <3>4, <3>6, <3>7 DEF Numbered
  <2> QED BY <2>1, <2>2
<1>3. ASSUME NEW r \in Readers, EnterWaitToRead(r) PROVE Numbered'
  <2>1. /\ RegisterReader(pc) \in [Threads -> Controls]
        /\ \A w \in Writers : RegisterReader(pc)[w] # "idle" => pc[w] # "idle"
    BY <1>a, WakeFacts DEF RegisterReader, NotifyNotFull
  <2> QED BY <1>3, <2>1, <1>a, <1>b, <1>c DEF EnterWaitToRead, ReturnFromWaitToRead
<1>4. ASSUME NEW r \in Readers, ResumeWaitToRead(r) PROVE Numbered'
  BY <1>4, <1>a, <1>b, <1>c DEF ResumeWaitToRead, ReturnFromWaitToRead
<1>5. ASSUME NEW w \in Writers, NEW o \in AllWriteOps, StartWrite(w, o) PROVE Numbered'
  BY <1>5, <1>a DEF StartWrite, Numbered
<1>6. ASSUME NEW w \in Writers, TryWrite(w) PROVE Numbered'
  <2> DEFINE i == <<w, next[w]>>
  <2>1. CASE WriteRefused(w)
    BY <1>6, <2>1, <1>a, <1>c DEF TryWrite, WriteRefused
  <2>2. ASSUME next' = [next EXCEPT ![w] = @ + 1]
        PROVE  /\ next' \in [Writers -> Nat] /\ next'[w] = next[w] + 1 /\ next[w] \in Nat
               /\ \A u \in Writers : next[u] <= next'[u] /\ (u # w => next'[u] = next[u])
               /\ i \in Items /\ i[1] = w /\ i[2] = next[w] /\ i[2] < next'[i[1]]
               /\ Before(queue, next') /\ Before(delivered, next')
               /\ \A d \in dropped : d[2] < next'[d[1]]
    <3>1. /\ next' \in [Writers -> Nat] /\ next'[w] = next[w] + 1 /\ next[w] \in Nat
          /\ \A u \in Writers : next[u] <= next'[u] /\ (u # w => next'[u] = next[u])
      BY <2>2, <1>a
    <3>2. i \in Items /\ i[1] = w /\ i[2] = next[w] BY <1>a DEF Items
    <3>3. Before(queue, next') /\ Before(delivered, next')
      BY <3>1, <1>a, BeforeGrows DEF Numbered
    <3>4. ASSUME NEW d \in dropped PROVE d[2] < next'[d[1]]
      <4>1. d[1] \in Writers /\ d[2] \in Nat BY <1>a DEF Items
      <4>2. d[2] < next[d[1]] BY DEF Numbered
      <4> QED BY <3>1, <4>1, <4>2, <1>a
    <3> QED BY <3>1, <3>2, <3>3, <3>4
  <2>3. CASE WriteDiscarded(w)
    <3>1. /\ next' = [next EXCEPT ![w] = @ + 1] /\ queue' = queue /\ delivered' = delivered
          /\ dropped' = dropped \cup {i} /\ pc' = [pc EXCEPT ![w] = "idle"]
      BY <1>6, <2>3 DEF TryWrite, WriteDiscarded
    <3> HIDE DEF i
    <3>2. \A u \in Writers : pc'[u] # "idle" => next'[u] <= MaxItems
      BY <3>1, <2>2, <1>a DEF Numbered
    <3> QED BY <3>1, <3>2, <2>2 DEF Numbered
  <2>4. CASE WritePushed(w)
    <3> DEFINE kept == IF MustEvict THEN Without(queue, EvictedIndex) ELSE queue
               f == [pc EXCEPT ![w] = "idle"]
    <3>1. /\ next' = [next EXCEPT ![w] = @ + 1] /\ delivered' = delivered
          /\ queue' = Append(kept, i) /\ pc' = Wake(f, Readers \cup Watchers)
          /\ dropped' = IF MustEvict THEN dropped \cup {queue[EvictedIndex]} ELSE dropped
      BY <1>6, <2>4 DEF TryWrite, WritePushed, NotifyNotEmpty
    <3>2. MustEvict => EvictedIndex \in 1..Len(queue)
      BY OptionsAssumption, <1>a, LenProperties DEF MustEvict, isFull, EvictedIndex, TypeOK
    <3>3. kept \in Seq(Items) BY <3>2, <1>a, WithoutType
    <3>4. Before(kept, next')
      <4>1. CASE MustEvict
        <5>1. \A k \in 1..Len(Without(queue, EvictedIndex)) :
                \E j \in 1..Len(queue) : Without(queue, EvictedIndex)[k] = queue[j]
          BY <3>2, <4>1, <1>a, WithoutElements
        <5>2. Before(queue, next') BY <3>1, <2>2
        <5> QED BY <4>1, <5>1, <5>2 DEF Before
      <4>2. CASE ~MustEvict BY <3>1, <4>2, <2>2
      <4> QED BY <4>1, <4>2
    <3>5. \A u \in Writers : pc'[u] # "idle" => u # w /\ pc[u] # "idle"
      <4>1. f \in [Threads -> Controls] /\ f[w] = "idle" /\ \A u \in Writers : f[u] # "idle" => pc[u] # "idle"
        BY <1>a DEF Controls
      <4> HIDE DEF f
      <4> QED BY <3>1, <4>1, <1>a, WakeFacts
    <3> HIDE DEF kept, i, f
    <3>6. Before(queue', next') BY <3>1, <3>3, <3>4, <2>2, BeforeAppend
    <3>7. \A d \in dropped' : d[2] < next'[d[1]]
      <4>1. MustEvict => queue[EvictedIndex][2] < next'[queue[EvictedIndex][1]]
        BY <3>1, <3>2, <2>2 DEF Before
      <4> QED BY <3>1, <4>1, <2>2
    <3>8. \A u \in Writers : pc'[u] # "idle" => next'[u] <= MaxItems
      BY <3>1, <3>5, <2>2 DEF Numbered
    <3> QED BY <3>1, <3>6, <3>7, <3>8, <2>2 DEF Numbered
  <2> QED BY <1>6, <2>1, <2>3, <2>4 DEF TryWrite
<1>7. ASSUME NEW w \in Writers, WaitToWrite(w) PROVE Numbered'
  BY <1>7, <1>a, <1>c DEF WaitToWrite
<1>8. ASSUME NEW c \in Watchers, Completion(c) \/ StartCompletion(c) PROVE Numbered'
  <2>1. \A w \in Writers : pc'[w] = pc[w] BY <1>8, <1>a, <1>b DEF Completion, StartCompletion
  <2> QED BY <1>8, <2>1, <1>c DEF Completion, StartCompletion
<1>9. ASSUME NEW e \in Errors, TryComplete(e) PROVE Numbered'
  <2>1. \A w \in Writers : pc'[w] # "idle" => pc[w] # "idle"
    BY <1>9, <1>a, WakeFacts DEF TryComplete, CompleteNotifies, NotifyNotEmpty, NotifyNotFull
  <2> QED BY <1>9, <2>1, <1>c DEF TryComplete
<1>10. CASE UNCHANGED vars BY <1>10, <1>c DEF vars
<1> QED
  BY <1>1, <1>2, <1>3, <1>4, <1>5, <1>6, <1>7, <1>8, <1>9, <1>10 DEF Next, ReaderStep, WriterStep

\* The item a writer is about to write is new to the contract.
LEMMA NextIsFresh ==
  ASSUME TypeOK, Numbered, NEW w \in Writers PROVE Contract!Fresh(<<w, next[w]>>)
<1> DEFINE i == <<w, next[w]>>
<1>1. i[1] = w /\ i[2] = next[w] /\ next[w] \in Nat BY DEF TypeOK
<1> HIDE DEF i
<1>2. ~(i[2] < next[i[1]]) BY <1>1
<1>3. Contract!Fresh(i) BY <1>2 DEF Contract!Fresh, Numbered, Before
<1> QED BY <1>3 DEF i

\* A new channel is a new channel of the contract.
LEMMA ContractInit == Init => Contract!Init
<1> SUFFICES ASSUME Init PROVE Contract!Init OBVIOUS
<1>1. (fullMode # "Wait") \in BOOLEAN OBVIOUS
<1> QED BY <1>1 DEF Init, Contract!Init

\* Every step of the channel is a step of the contract, or leaves all of it alone:
\* a TryRead that finds an item delivers it, a TryWrite accepts, discards or
\* displaces, TryComplete seals.
LEMMA ContractNext ==
  TypeOK /\ Numbered /\ [Next]_vars => [Contract!Next]_(Contract!contract)
<1> SUFFICES ASSUME TypeOK, Numbered, [Next]_vars PROVE [Contract!Next]_(Contract!contract) OBVIOUS
<1> USE DEF options, history
<1>s. ASSUME UNCHANGED <<queue, delivered, dropped, closed, fullMode>>
      PROVE  [Contract!Next]_(Contract!contract)
  BY <1>s DEF Contract!contract
<1>1. ASSUME NEW r \in Readers, TryRead(r) PROVE [Contract!Next]_(Contract!contract)
  <2>1. CASE queue = <<>> BY <1>1, <2>1, <1>s DEF TryRead
  <2>2. CASE queue # <<>>
    <3>1. Contract!Deliver BY <1>1, <2>2 DEF TryRead, Contract!Deliver
    <3> QED BY <3>1 DEF Contract!Next
  <2> QED BY <2>1, <2>2
<1>2. ASSUME NEW w \in Writers, TryWrite(w) PROVE [Contract!Next]_(Contract!contract)
  <2> DEFINE i == <<w, next[w]>>
  <2>1. CASE WriteRefused(w) BY <1>2, <2>1, <1>s DEF TryWrite, WriteRefused
  <2>2. Contract!Fresh(i) BY NextIsFresh
  <2>3. i \in Writers \X (1..MaxItems)
    BY <1>2, OptionsAssumption DEF TryWrite, Numbered, TypeOK
  <2>4. CASE WriteDiscarded(w)
    <3>1. Contract!Discard(i)
      BY <1>2, <2>2, <2>4 DEF TryWrite, WriteDiscarded, Contract!Discard
    <3> QED BY <3>1, <2>3 DEF Contract!Next
  <2>5. CASE WritePushed(w)
    <3>1. CASE MustEvict
      <4>1. EvictedIndex \in 1..Len(queue)
        BY <3>1, OptionsAssumption, LenProperties DEF MustEvict, isFull, EvictedIndex, TypeOK
      <4>2. Contract!Displace(i, EvictedIndex)
        BY <1>2, <2>2, <2>5, <3>1 DEF TryWrite, WritePushed, MustEvict, Without, Contract!Displace
      <4> QED BY <4>1, <4>2, <2>3 DEF Contract!Next
    <3>2. CASE ~MustEvict
      <4>1. Contract!Accept(i)
        BY <1>2, <2>2, <2>5, <3>2 DEF TryWrite, WritePushed, Contract!Accept
      <4> QED BY <4>1, <2>3 DEF Contract!Next
    <3> QED BY <3>1, <3>2
  <2> QED BY <1>2, <2>1, <2>4, <2>5 DEF TryWrite
<1>3. ASSUME NEW e \in Errors, TryComplete(e) PROVE [Contract!Next]_(Contract!contract)
  BY <1>3 DEF TryComplete, Contract!Seal, Contract!Next
<1>4. ASSUME \/ \E r \in Readers : \/ EnterWaitToRead(r) \/ ResumeWaitToRead(r)
                                   \/ \E o \in ReadOps : StartRead(r, o)
             \/ \E w \in Writers : WaitToWrite(w) \/ \E o \in AllWriteOps : StartWrite(w, o)
             \/ \E c \in Watchers : Completion(c) \/ StartCompletion(c)
             \/ UNCHANGED vars
      PROVE  [Contract!Next]_(Contract!contract)
  BY <1>4, <1>s DEF EnterWaitToRead, ResumeWaitToRead, StartRead, WaitToWrite, StartWrite,
                    Completion, StartCompletion, vars
<1> QED BY <1>1, <1>2, <1>3, <1>4 DEF Next, ReaderStep, WriterStep

\* The channel implements its contract, for any threads, capacity and full mode:
\* items are read in the order they were written and once at most, given up only in
\* a drop mode and only when another arrives, and none is lost by completing.
THEOREM ChannelImplementsContract == Spec => ImplementsContract
<1>1. Spec => []Numbered
  BY NumberedInit, NumberedNext, TypeCorrect, PTL DEF Spec
<1> QED BY <1>1, ContractInit, ContractNext, TypeCorrect, PTL
        DEF Spec, ImplementsContract, Contract!Spec
=============================================================================
