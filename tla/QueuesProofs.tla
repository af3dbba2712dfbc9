---------------------------- MODULE QueuesProofs ----------------------------
(* Theorems about BlockingCollection, for any producers, consumers and capacities. *)
EXTENDS MCQueues, FiniteSetTheorems, TLAPS

(* BlockingCollection. *)

\* The instance counts as FiniteSets does.
LEMMA CollectionCardinality == \A S : Collection!Cardinality(S) = Cardinality(S)
BY DEF Collection!Cardinality, Cardinality

\* The notifications that a sleeping consumer may hope for, and a sleeping producer.
ForConsumers == Cardinality(Collection!At(Producers, "notifying")) + Cardinality(Collection!At(Consumers, "notified"))
ForProducers == Cardinality(Collection!At(Consumers, "notifying")) + Cardinality(Collection!At(Producers, "notified"))

\* Whoever is about to sleep still holds the mutex, so what it saw still holds.
AboutToSleep ==
  \A t \in Collection!Threads : bPc[t] = "falling" =>
    IF t \in Producers THEN Collection!Full ELSE count = 0

\* A registration belongs to a call that was given the token.
Registrations ==
  /\ \A t \in registered : bPc[t] \notin {"idle", "registering"} /\ call[t].observes
  /\ \A t \in Collection!Threads : bPc[t] = "registering" => call[t].observes

\* Sleepers have what they need under way.
SleepersServed ==
  ~cancelled =>
    /\ Collection!At(Consumers, "parked") # {} => count <= ForConsumers
    /\ Collection!At(Producers, "parked") # {} => boundedCapacity_ - count <= ForProducers

\* The inductive invariant.
CollectionIInv ==
  /\ Collection!TypeOK /\ Collection!CapacityRespected /\ Registrations /\ AboutToSleep /\ SleepersServed
  /\ Collection!CompletionReleasesAll /\ (told => addingCompleted_ /\ count = 0)

\* The threads at a place are finitely many.
LEMMA AtFinite ==
  ASSUME CollectionAssumed, NEW p
  PROVE  /\ IsFiniteSet(Collection!At(Producers, p)) /\ Cardinality(Collection!At(Producers, p)) \in Nat
         /\ IsFiniteSet(Collection!At(Consumers, p)) /\ Cardinality(Collection!At(Consumers, p)) \in Nat
<1>1. Collection!At(Producers, p) \subseteq Producers /\ Collection!At(Consumers, p) \subseteq Consumers
    BY DEF Collection!At
<1> QED BY <1>1, FS_Subset, FS_CardinalityType DEF CollectionAssumed

\* What one thread's move changes in the number of threads at a place.
LEMMA AtMoves ==
  ASSUME CollectionAssumed, Collection!TypeOK, NEW t \in Collection!Threads, NEW q, Collection!GoTo(t, q),
         NEW S \in {Producers, Consumers}, NEW p
  PROVE  Cardinality(Collection!At(S, p))' = Cardinality(Collection!At(S, p))
           - (IF t \in S /\ bPc[t] = p THEN 1 ELSE 0) + (IF t \in S /\ q = p THEN 1 ELSE 0)
<1>1. /\ bPc'[t] = q /\ \A u \in Collection!Threads \ {t} : bPc'[u] = bPc[u]
      /\ S \subseteq Collection!Threads
  BY DEF Collection!GoTo, Collection!TypeOK, Collection!Threads
<1>2. IsFiniteSet(Collection!At(S, p)) /\ Cardinality(Collection!At(S, p)) \in Nat BY AtFinite
<1>3. CASE t \in S /\ bPc[t] = p /\ q = p
  <2>1. Collection!At(S, p)' = Collection!At(S, p) BY <1>1, <1>3 DEF Collection!At
  <2> QED BY <1>2, <1>3, <2>1
<1>4. CASE t \in S /\ bPc[t] = p /\ q # p
  <2>1. Collection!At(S, p)' = Collection!At(S, p) \ {t} /\ t \in Collection!At(S, p) BY <1>1, <1>4
      DEF Collection!At
  <2>2. Cardinality(Collection!At(S, p) \ {t}) = Cardinality(Collection!At(S, p)) - 1 BY <1>2, <2>1,
      FS_RemoveElement
  <2> QED BY <1>2, <1>4, <2>1, <2>2
<1>5. CASE t \in S /\ bPc[t] # p /\ q = p
  <2>1. Collection!At(S, p)' = Collection!At(S, p) \cup {t} /\ t \notin Collection!At(S, p) BY <1>1,
      <1>5 DEF Collection!At
  <2>2. Cardinality(Collection!At(S, p) \cup {t}) = Cardinality(Collection!At(S, p)) + 1 BY <1>2, <2>1,
      FS_AddElement
  <2> QED BY <1>2, <1>5, <2>1, <2>2
<1>6. CASE ~(t \in S /\ (bPc[t] = p \/ q = p))
  <2>1. Collection!At(S, p)' = Collection!At(S, p) BY <1>1, <1>6 DEF Collection!At
  <2> QED BY <1>2, <1>6, <2>1
<1> QED BY <1>3, <1>4, <1>5, <1>6

\* The notifications under way when one thread moves.
LEMMA HopeMoves ==
  ASSUME CollectionAssumed, Collection!TypeOK, NEW t \in Collection!Threads, NEW q, Collection!GoTo(t, q)
  PROVE  /\ ForConsumers \in Nat /\ ForProducers \in Nat /\ ForConsumers' \in Nat /\ ForProducers' \in Nat
         /\ t \in Consumers =>
              /\ ForConsumers' = ForConsumers - (IF bPc[t] = "notified" THEN 1 ELSE 0)
                                              + (IF q = "notified" THEN 1 ELSE 0)
              /\ ForProducers' = ForProducers - (IF bPc[t] = "notifying" THEN 1 ELSE 0)
                                              + (IF q = "notifying" THEN 1 ELSE 0)
         /\ t \in Producers =>
              /\ ForConsumers' = ForConsumers - (IF bPc[t] = "notifying" THEN 1 ELSE 0)
                                              + (IF q = "notifying" THEN 1 ELSE 0)
              /\ ForProducers' = ForProducers - (IF bPc[t] = "notified" THEN 1 ELSE 0)
                                              + (IF q = "notified" THEN 1 ELSE 0)
<1>1. \A S \in {Producers, Consumers}, p \in {"notifying", "notified"} :
        /\ Cardinality(Collection!At(S, p)) \in Nat
        /\ Cardinality(Collection!At(S, p))' = Cardinality(Collection!At(S, p))
             - (IF t \in S /\ bPc[t] = p THEN 1 ELSE 0) + (IF t \in S /\ q = p THEN 1 ELSE 0)
  BY AtFinite, AtMoves
<1>2. (t \in Producers <=> t \notin Consumers) BY DEF CollectionAssumed, Collection!Threads
<1>3. \A S \in {Producers, Consumers} : \A p : Cardinality(Collection!At(S, p)') \in Nat
  <2>1. \A S \in {Producers, Consumers} : \A p : Collection!At(S, p)' \subseteq S BY DEF Collection!At
  <2> QED BY <2>1, FS_Subset, FS_CardinalityType DEF CollectionAssumed
<1> QED BY <1>1, <1>2, <1>3 DEF ForConsumers, ForProducers

\* A thread that moves parks nobody else.
LEMMA ParkedMoves ==
  ASSUME Collection!TypeOK, NEW t \in Collection!Threads, NEW q, Collection!GoTo(t, q), q # "parked", NEW S \in {Producers, Consumers}
  PROVE  Collection!At(S, "parked")' \subseteq Collection!At(S, "parked")
BY DEF Collection!At, Collection!GoTo, Collection!TypeOK, Collection!Threads

\* A step in which one thread moves without changing what the others wait for.
LEMMA PlainMove ==
  ASSUME CollectionAssumed, CollectionIInv, NEW t \in Collection!Threads, NEW q, Collection!GoTo(t, q),
         q \notin {"parked", "falling"}, UNCHANGED <<count, Collection!flags, cancelled, told>>,
         q \in {"idle", "registering", "locking", "notified", "notifying", "leaving"},
         bPc[t] = "notified" => q = "notified"
                               \/ (t \in Consumers /\ count = 0) \/ (t \in Producers /\ Collection!Full)
                               \/ Collection!Closed \/ cancelled,
         bPc[t] # "notifying"
  PROVE  /\ SleepersServed' /\ AboutToSleep' /\ Collection!CompletionReleasesAll' /\ Collection!CapacityRespected'
         /\ (told => addingCompleted_ /\ count = 0)'
<1>1. /\ bPc'[t] = q /\ \A u \in Collection!Threads \ {t} : bPc'[u] = bPc[u] BY DEF Collection!GoTo,
    CollectionIInv, Collection!TypeOK
<1>2. Collection!TypeOK BY DEF CollectionIInv
<1>3. SleepersServed'
  <2>1. Collection!At(Consumers, "parked")' \subseteq Collection!At(Consumers, "parked") /\ Collection!At(Producers, "parked")' \subseteq Collection!At(Producers, "parked")
    BY <1>2, ParkedMoves
  <2>2. Collection!Closed => Collection!At(Consumers, "parked")' = {} /\ Collection!At(Producers, "parked")' = {}
    BY <2>1 DEF CollectionIInv, Collection!CompletionReleasesAll, Collection!At, Collection!Threads
  <2>3. /\ (t \in Consumers /\ bPc[t] # "notified") \/ t \in Producers => ForConsumers' >= ForConsumers
        /\ (t \in Producers /\ bPc[t] # "notified") \/ t \in Consumers => ForProducers' >= ForProducers
        /\ q = "notified" => ForConsumers' >= ForConsumers /\ ForProducers' >= ForProducers
        /\ ForConsumers \in Nat /\ ForProducers \in Nat /\ ForConsumers' \in Nat /\ ForProducers' \in Nat
    BY <1>2, HopeMoves DEF Collection!Threads
  <2>4. count = 0 => count <= ForConsumers' BY <2>3
  <2>5. Collection!Full => boundedCapacity_ - count <= ForProducers'
    BY <2>3 DEF Collection!Full, CollectionIInv, Collection!TypeOK, CollectionAssumed
  <2>6. count \in Int /\ boundedCapacity_ \in Int BY DEF CollectionIInv, Collection!TypeOK,
      CollectionAssumed
  <2>7. ~cancelled /\ Collection!At(Consumers, "parked")' # {} => count <= ForConsumers'
    <3>1. CASE Collection!Closed BY <2>2, <3>1
    <3>2. CASE count = 0 BY <2>4, <3>2
    <3>3. CASE ~Collection!Closed /\ count # 0 
      BY <2>1, <2>3, <2>6, <3>3 DEF CollectionIInv, SleepersServed, Collection!Threads
    <3> QED BY <3>1, <3>2, <3>3
  <2>8. ~cancelled /\ Collection!At(Producers, "parked")' # {} => boundedCapacity_ - count <= ForProducers'
    <3>1. CASE Collection!Closed BY <2>2, <3>1
    <3>2. CASE Collection!Full BY <2>5, <3>2
    <3>3. CASE ~Collection!Closed /\ ~Collection!Full
      BY <2>1, <2>3, <2>6, <3>3 DEF CollectionIInv, SleepersServed, Collection!Threads
    <3> QED BY <3>1, <3>2, <3>3
  <2> QED BY <2>7, <2>8 DEF SleepersServed, Collection!flags
<1>4. AboutToSleep' BY <1>1 DEF AboutToSleep, CollectionIInv, Collection!flags, Collection!Full
<1>5. Collection!CompletionReleasesAll' BY <1>1 DEF Collection!CompletionReleasesAll, CollectionIInv,
    Collection!flags, Collection!Closed, Collection!At
<1> QED BY <1>3, <1>4, <1>5 DEF CollectionIInv, Collection!CapacityRespected, Collection!flags

\* Waking everybody, whoever does it.
LEMMA Everybody ==
  ASSUME Collection!TypeOK, bPc' = Collection!NotifyAll(bPc)
  PROVE  /\ bPc' \in [Collection!Threads -> {"idle", "registering", "locking", "falling", "parked",
                                 "notified", "notifying", "leaving"}]
         /\ \A S \in {Producers, Consumers} : Collection!At(S, "parked")' = {}
         /\ \A t \in Collection!Threads : bPc'[t] = bPc[t] \/ (bPc[t] = "parked" /\ bPc'[t] = "notified")
BY DEF Collection!NotifyAll, Collection!TypeOK, Collection!At, Collection!Threads

\* Leaving a call.
LEMMA Leaves ==
  ASSUME Collection!TypeOK, NEW t \in Collection!Threads, Collection!Leave(t)
  PROVE  /\ \E q \in {"leaving", "idle"} : Collection!GoTo(t, q) /\ (q = "idle" => ~call[t].observes)
         /\ call' \in [Collection!Threads -> [mode : {"infinite", "timed", "zero"}, observes : BOOLEAN]]
         /\ \A u \in Collection!Threads \ {t} : call'[u] = call[u]
         /\ call[t].observes => call' = call
<1>1. Collection!NoCall \in [mode : {"infinite", "timed", "zero"}, observes : BOOLEAN] BY
    DEF Collection!NoCall, Collection!Args
<1> QED BY <1>1 DEF Collection!Leave, Collection!TypeOK

\* The invariant holds at the start, and every step keeps it.
LEMMA CollectionInductive == ASSUME CollectionAssumed PROVE Collection!Spec => []CollectionIInv
<1> DEFINE Stands == {"idle", "registering", "locking", "falling", "parked", "notified", "notifying",
                      "leaving"}
<1>1. Collection!Init => CollectionIInv
  <2> SUFFICES ASSUME Collection!Init PROVE CollectionIInv OBVIOUS
  <2>1. {addingCompleted_, disposed_, cancelled} \subseteq BOOLEAN /\ told \in BOOLEAN BY Zenon
      DEF Collection!Init
  <2>2. count \in Nat BY DEF Collection!Init, CollectionAssumed
  <2>3. Collection!TypeOK BY <2>1, <2>2 DEF Collection!Init, Collection!TypeOK, Collection!NoCall,
      Collection!Args
  <2>4. \A S \in {Producers, Consumers, Collection!Threads} : Collection!At(S, "parked") = {} /\ Collection!At(S, "falling") = {}
    BY DEF Collection!Init, Collection!At, Collection!Threads
  <2>5. SleepersServed /\ Collection!CompletionReleasesAll BY <2>4 DEF SleepersServed,
      Collection!CompletionReleasesAll
  <2>6. Registrations /\ AboutToSleep BY DEF Collection!Init, Registrations, AboutToSleep
  <2> QED BY <2>3, <2>5, <2>6 DEF CollectionIInv, Collection!Init, Collection!CapacityRespected
<1>2. CollectionIInv /\ [Collection!Next]_Collection!vars => CollectionIInv'
  <2> SUFFICES ASSUME CollectionIInv, [Collection!Next]_Collection!vars PROVE CollectionIInv' OBVIOUS
  <2>0. /\ Collection!TypeOK /\ bPc \in [Collection!Threads -> Stands] /\ count \in Nat
        /\ Collection!CompletionReleasesAll /\ Registrations /\ AboutToSleep /\ SleepersServed /\ Collection!CapacityRespected
    BY DEF CollectionIInv, Collection!TypeOK
  \* What remains when the sleepers are served.
  <2>a. ASSUME NEW t \in Collection!Threads, NEW q \in Stands, Collection!GoTo(t, q)
        PROVE  bPc' \in [Collection!Threads -> Stands] /\ bPc'[t] = q /\ \A u \in Collection!Threads \ {t} : bPc'[u] = bPc[u]
    BY <2>0, <2>a DEF Collection!GoTo
  \* A call ends: t was waiting for the mutex or asleep.
  <2>b. ASSUME NEW t \in Collection!Threads, Collection!Leave(t), UNCHANGED <<count, Collection!flags, Collection!token>>, told' \in BOOLEAN,
               told' => addingCompleted_ /\ count = 0, bPc[t] \in {"locking", "notified", "parked"},
               (t \in Consumers /\ count = 0) \/ (t \in Producers /\ Collection!Full) \/ Collection!Closed \/ cancelled
        PROVE  CollectionIInv'
    <3>1. PICK q \in {"leaving", "idle"} : Collection!GoTo(t, q) /\ (q = "idle" => ~call[t].observes)
      BY <2>0, <2>b, Leaves
    <3>2. /\ call' \in [Collection!Threads -> [mode : {"infinite", "timed", "zero"}, observes : BOOLEAN]]
          /\ \A u \in Collection!Threads \ {t} : call'[u] = call[u] /\ (call[t].observes => call' = call)
      BY <2>0, <2>b, Leaves
    <3>3. bPc' \in [Collection!Threads -> Stands] /\ bPc'[t] = q /\ \A u \in Collection!Threads \ {t} : bPc'[u] = bPc[u]
      BY <2>a, <3>1
    <3>4. Registrations' BY <2>0, <2>b, <3>1, <3>2, <3>3, Leaves DEF Registrations, Collection!token,
        Collection!TypeOK
    <3>5. Collection!TypeOK' BY <2>0, <2>b, <3>2, <3>3 DEF Collection!TypeOK, Collection!flags,
        Collection!token
    <3>6. SleepersServed' /\ AboutToSleep' /\ Collection!CompletionReleasesAll' /\ Collection!CapacityRespected'
      <4>1. CASE told' = told BY <2>b, <3>1, <4>1, PlainMove DEF Collection!token
      <4>2. CASE told' # told
        <5>1. addingCompleted_ BY <2>b, <2>0, <4>2 DEF Collection!TypeOK, CollectionIInv
        <5>2. \A S \in {Producers, Consumers, Collection!Threads} : Collection!At(S, "parked") = {} /\ Collection!At(S, "falling") = {}
          BY <2>0, <5>1 DEF Collection!CompletionReleasesAll, Collection!Closed, Collection!At,
              Collection!Threads
        <5>3. \A S \in {Producers, Consumers, Collection!Threads} : Collection!At(S, "parked")' = {} /\ Collection!At(S, "falling")' = {}
          BY <3>3, <5>2 DEF Collection!At, Collection!Threads
        <5>4. AboutToSleep' BY <5>3 DEF AboutToSleep, Collection!At
        <5> QED BY <2>0, <2>b, <5>3, <5>4 DEF SleepersServed, Collection!CompletionReleasesAll,
            Collection!CapacityRespected, Collection!flags
      <4> QED BY <4>1, <4>2
    <3> QED BY <2>b, <3>4, <3>5, <3>6 DEF CollectionIInv, Collection!flags
  \* Everybody is woken.
  <2>c. ASSUME bPc' = Collection!NotifyAll(bPc), UNCHANGED <<count, boundedCapacity_, call, told>>,
               {addingCompleted_', disposed_', cancelled'} \subseteq BOOLEAN,
               addingCompleted_ => addingCompleted_', Collection!Closed' => Collection!Closed \/ Collection!Unlocked,
               registered' \subseteq registered, toRun' \subseteq Collection!Threads
        PROVE  CollectionIInv'
    <3>1. /\ bPc' \in [Collection!Threads -> Stands] /\ \A S \in {Producers, Consumers} : Collection!At(S, "parked")' = {}
          /\ \A t \in Collection!Threads : bPc'[t] = bPc[t] \/ (bPc[t] = "parked" /\ bPc'[t] = "notified")
      BY <2>0, <2>c, Everybody
    <3>2. Collection!TypeOK' BY <2>0, <2>c, <3>1 DEF Collection!TypeOK
    <3>3. SleepersServed' BY <3>1 DEF SleepersServed
    <3>4. AboutToSleep' BY <2>0, <2>c, <3>1 DEF AboutToSleep, Collection!Full
    <3>5. Registrations' BY <2>0, <2>c, <3>1 DEF Registrations, Collection!TypeOK
    <3>6. Collection!CompletionReleasesAll'
      <4>1. Collection!Closed' => Collection!At(Collection!Threads, "falling") = {} BY <2>0, <2>c
          DEF Collection!CompletionReleasesAll, Collection!Unlocked
      <4>2. Collection!At(Collection!Threads, "falling")' = Collection!At(Collection!Threads, "falling")
          BY <3>1 DEF Collection!At
      <4>3. Collection!At(Collection!Threads, "parked")' = {} BY <3>1 DEF Collection!At,
          Collection!Threads
      <4> QED BY <4>1, <4>2, <4>3 DEF Collection!CompletionReleasesAll
    <3> QED BY <2>c, <3>2, <3>3, <3>4, <3>5, <3>6 DEF CollectionIInv, Collection!CapacityRespected
  <2>1. ASSUME NEW t \in Collection!Threads, NEW m \in Collection!Modes(t), NEW b \in BOOLEAN, Collection!Start(t, m, b) PROVE CollectionIInv'
    <3>1. PICK q \in {"registering", "locking"} : Collection!GoTo(t, q) /\ (q = "registering" => b)
        BY <2>1 DEF Collection!Start
    <3>2. bPc[t] = "idle" /\ UNCHANGED <<count, Collection!flags, Collection!token, told>> /\ call' = [call EXCEPT ![t] = Collection!Args(m, b)]
      BY <2>1 DEF Collection!Start
    <3>3. Collection!Args(m, b) \in [mode : {"infinite", "timed", "zero"}, observes : BOOLEAN] BY
        DEF Collection!Args, Collection!Modes
    <3>4. bPc' \in [Collection!Threads -> Stands] /\ bPc'[t] = q /\ \A u \in Collection!Threads \ {t} : bPc'[u] = bPc[u] BY <2>a, <3>1
    <3>5. Collection!TypeOK' BY <2>0, <3>2, <3>3, <3>4 DEF Collection!TypeOK, Collection!flags,
        Collection!token
    <3>6. Registrations'
      <4>1. call'[t].observes = b /\ \A u \in Collection!Threads \ {t} : call'[u] = call[u] BY <2>0,
          <3>2 DEF Collection!Args, Collection!TypeOK
      <4> QED BY <2>0, <3>1, <3>2, <3>4, <4>1 DEF Registrations, Collection!token, Collection!TypeOK
    <3>7. /\ SleepersServed' /\ AboutToSleep' /\ Collection!CompletionReleasesAll' /\ Collection!CapacityRespected'
          /\ (told => addingCompleted_ /\ count = 0)'
      BY <3>1, <3>2, PlainMove DEF Collection!token
    <3> QED BY <3>5, <3>6, <3>7 DEF CollectionIInv
  <2>2. ASSUME NEW t \in Collection!Threads, Collection!Register(t) PROVE CollectionIInv'
    <3>0. bPc[t] = "registering" /\ UNCHANGED <<count, Collection!flags, cancelled, toRun, call, told>>
      BY <2>2 DEF Collection!Register
    <3>1. CASE ~cancelled
      <4>1. Collection!GoTo(t, "locking") /\ registered' = registered \cup {t} BY <2>2, <3>1
          DEF Collection!Register
      <4>2. bPc' \in [Collection!Threads -> Stands] /\ bPc'[t] = "locking" /\ \A u \in Collection!Threads \ {t} : bPc'[u] = bPc[u]
        BY <2>a, <4>1
      <4>3. Collection!TypeOK' BY <2>0, <3>0, <4>1, <4>2 DEF Collection!TypeOK, Collection!flags
      <4>4. Registrations' BY <2>0, <3>0, <4>1, <4>2 DEF Registrations, Collection!TypeOK,
          CollectionIInv
      <4>5. /\ SleepersServed' /\ AboutToSleep' /\ Collection!CompletionReleasesAll' /\ Collection!CapacityRespected'
            /\ (told => addingCompleted_ /\ count = 0)'
        BY <3>0, <4>1, PlainMove
      <4> QED BY <4>3, <4>4, <4>5 DEF CollectionIInv
    <3>2. CASE cancelled
      <4>1. bPc' = Collection!NotifyAll([bPc EXCEPT ![t] = "locking"]) /\ registered' = registered
        BY <2>2, <3>2 DEF Collection!Register
      <4>2. /\ bPc' \in [Collection!Threads -> Stands] /\ bPc'[t] = "locking"
            /\ \A u \in Collection!Threads \ {t} : bPc'[u] = bPc[u] \/ (bPc[u] = "parked" /\ bPc'[u] = "notified")
            /\ \A u \in Collection!Threads : bPc'[u] # "parked"
        BY <2>0, <4>1 DEF Collection!NotifyAll
      <4>3. Collection!TypeOK' BY <2>0, <3>0, <4>1, <4>2 DEF Collection!TypeOK, Collection!flags
      <4>4. Registrations' BY <2>0, <3>0, <4>1, <4>2 DEF Registrations, Collection!TypeOK
      <4>5. SleepersServed' BY <3>0, <3>2 DEF SleepersServed
      <4>6. AboutToSleep' /\ Collection!CompletionReleasesAll'
        BY <2>0, <3>0, <4>2 DEF AboutToSleep, Collection!CompletionReleasesAll, Collection!Closed,
            Collection!Full, Collection!At, Collection!flags
      <4> QED BY <3>0, <4>3, <4>4, <4>5, <4>6 DEF CollectionIInv, Collection!CapacityRespected,
          Collection!flags
    <3> QED BY <3>1, <3>2
  <2>3. ASSUME NEW t \in Collection!Threads, Collection!Unregister(t) PROVE CollectionIInv'
    <3>0. /\ bPc[t] = "leaving" /\ UNCHANGED <<count, Collection!flags, cancelled, toRun, told>>
          /\ registered' = registered \ {t} /\ Collection!GoTo(t, "idle") /\ call' = [call EXCEPT ![t] = Collection!NoCall]
      BY <2>3 DEF Collection!Unregister
    <3>1. Collection!NoCall \in [mode : {"infinite", "timed", "zero"}, observes : BOOLEAN] BY
        DEF Collection!NoCall, Collection!Args
    <3>2. bPc' \in [Collection!Threads -> Stands] /\ bPc'[t] = "idle" /\ \A u \in Collection!Threads \ {t} : bPc'[u] = bPc[u]
      BY <2>a, <3>0
    <3>3. Collection!TypeOK' BY <2>0, <3>0, <3>1, <3>2 DEF Collection!TypeOK, Collection!flags
    <3>4. Registrations' BY <2>0, <3>0, <3>2 DEF Registrations, Collection!TypeOK
    <3>5. /\ SleepersServed' /\ AboutToSleep' /\ Collection!CompletionReleasesAll' /\ Collection!CapacityRespected'
          /\ (told => addingCompleted_ /\ count = 0)'
      BY <3>0, PlainMove
    <3> QED BY <3>3, <3>4, <3>5 DEF CollectionIInv
  \* A thread finds that it has to wait.
  <2>d. ASSUME NEW t \in Collection!Threads, Collection!GoTo(t, "falling"), UNCHANGED <<count, Collection!flags, Collection!token, call, told>>, ~Collection!Closed,
               bPc[t] \in {"locking", "notified"}, IF t \in Producers THEN Collection!Full ELSE count = 0
        PROVE  CollectionIInv'
    <3>1. bPc' \in [Collection!Threads -> Stands] /\ bPc'[t] = "falling" /\ \A u \in Collection!Threads \ {t} : bPc'[u] = bPc[u]
      BY <2>a, <2>d
    <3>2. Collection!TypeOK' BY <2>0, <2>d, <3>1 DEF Collection!TypeOK, Collection!flags,
        Collection!token
    <3>3. Registrations' BY <2>0, <2>d, <3>1 DEF Registrations, Collection!TypeOK, Collection!token
    <3>4. AboutToSleep' BY <2>0, <2>d, <3>1 DEF AboutToSleep, Collection!Full, Collection!flags
    <3>5. Collection!CompletionReleasesAll' BY <2>d DEF Collection!CompletionReleasesAll,
        Collection!Closed, Collection!flags
    <3>6. SleepersServed'
      <4>1. \A S \in {Producers, Consumers} : Collection!At(S, "parked")' \subseteq Collection!At(S, "parked") BY <2>0, <2>d, ParkedMoves
      <4>2. /\ ForConsumers' \in Nat /\ ForProducers' \in Nat /\ ForConsumers \in Nat /\ ForProducers \in Nat
            /\ t \in Consumers => ForProducers' = ForProducers
            /\ t \in Producers => ForConsumers' = ForConsumers
        BY <2>0, <2>d, HopeMoves
      <4>3. Collection!Full => boundedCapacity_ - count <= ForProducers'
        BY <2>0, <4>2 DEF Collection!Full, Collection!TypeOK, CollectionAssumed
      <4>4. count = 0 => count <= ForConsumers' BY <4>2
      <4> QED BY <2>0, <2>d, <4>1, <4>2, <4>3, <4>4 DEF SleepersServed, Collection!flags,
          Collection!token, Collection!Threads
    <3> QED BY <2>0, <2>d, <3>2, <3>3, <3>4, <3>5, <3>6 DEF CollectionIInv,
        Collection!CapacityRespected, Collection!flags
  <2>4. ASSUME NEW t \in Collection!Threads, t \in Producers, Collection!Add(t) PROVE CollectionIInv'
    <3>0. bPc[t] \in {"locking", "notified"} /\ Collection!Unlocked /\ UNCHANGED <<Collection!flags, Collection!token, told>> BY <2>4 DEF Collection!Add
    <3>1. CASE Collection!Closed \/ Collection!Cancelled(t)
      <4>1. Collection!Leave(t) /\ UNCHANGED count BY <2>4, <3>1 DEF Collection!Add
      <4>2. Collection!Closed \/ cancelled BY <3>1 DEF Collection!Cancelled
      <4> QED BY <2>0, <2>b, <3>0, <4>1, <4>2 DEF CollectionIInv, Collection!TypeOK
    <3>2. CASE ~Collection!Closed /\ ~Collection!Cancelled(t) /\ Collection!Full
      BY <2>4, <2>d, <3>0, <3>2 DEF Collection!Add
    <3>3. CASE ~Collection!Closed /\ ~Collection!Cancelled(t) /\ ~Collection!Full
      <4>1. count' = count + 1 /\ Collection!GoTo(t, "notifying") /\ UNCHANGED call BY <2>4, <3>3
          DEF Collection!Add
      <4>2. bPc' \in [Collection!Threads -> Stands] /\ bPc'[t] = "notifying" /\ \A u \in Collection!Threads \ {t} : bPc'[u] = bPc[u]
        BY <2>a, <4>1
      <4>3. Collection!TypeOK' BY <2>0, <3>0, <4>1, <4>2 DEF Collection!TypeOK, Collection!flags,
          Collection!token
      <4>4. Registrations' BY <2>0, <3>0, <4>1, <4>2 DEF Registrations, Collection!TypeOK,
          Collection!token
      <4>5. AboutToSleep' BY <3>0, <4>2 DEF AboutToSleep, Collection!Unlocked, Collection!At
      <4>6. Collection!CompletionReleasesAll' /\ ~told BY <2>0, <3>0, <3>3
          DEF Collection!CompletionReleasesAll, Collection!Closed, Collection!flags, CollectionIInv
      <4>7. Collection!CapacityRespected' BY <2>0, <3>0, <3>3, <4>1 DEF Collection!CapacityRespected,
          Collection!Full, Collection!flags, Collection!TypeOK, CollectionAssumed
      <4>8. SleepersServed'
        <5>1. \A S \in {Producers, Consumers} : Collection!At(S, "parked")' \subseteq Collection!At(S, "parked") BY <2>0, <4>1, ParkedMoves
        <5>2. /\ ForConsumers' = ForConsumers + 1 /\ ForProducers' >= ForProducers - 1
              /\ ForConsumers \in Nat /\ ForProducers \in Nat /\ ForProducers' \in Nat
          BY <2>0, <2>4, <3>0, <4>1, HopeMoves
        <5>3. boundedCapacity_ \in Int BY <2>0 DEF Collection!TypeOK, CollectionAssumed
        <5> QED BY <2>0, <3>0, <4>1, <5>1, <5>2, <5>3 DEF SleepersServed, Collection!flags,
            Collection!token
      <4> QED BY <3>0, <4>3, <4>4, <4>5, <4>6, <4>7, <4>8 DEF CollectionIInv
    <3> QED BY <3>1, <3>2, <3>3
  <2>5. ASSUME NEW t \in Collection!Threads, t \in Consumers, Collection!Take(t) PROVE CollectionIInv'
    <3>0. bPc[t] \in {"locking", "notified"} /\ Collection!Unlocked /\ UNCHANGED <<Collection!flags, Collection!token>> BY <2>5 DEF Collection!Take
    <3>1. CASE disposed_ \/ Collection!Cancelled(t)
      <4>1. Collection!Leave(t) /\ UNCHANGED <<count, told>> BY <2>5, <3>1 DEF Collection!Take
      <4>2. Collection!Closed \/ cancelled BY <3>1 DEF Collection!Cancelled, Collection!Closed
      <4> QED BY <2>0, <2>b, <3>0, <4>1, <4>2 DEF CollectionIInv, Collection!TypeOK
    <3>2. CASE ~disposed_ /\ ~Collection!Cancelled(t) /\ count > 0
      <4>1. count' = count - 1 /\ count' \in Nat /\ Collection!GoTo(t, "notifying") /\ UNCHANGED <<call, told>>
        BY <2>0, <2>5, <3>2 DEF Collection!Take
      <4>2. bPc' \in [Collection!Threads -> Stands] /\ bPc'[t] = "notifying" /\ \A u \in Collection!Threads \ {t} : bPc'[u] = bPc[u]
        BY <2>a, <4>1
      <4>3. Collection!TypeOK' BY <2>0, <3>0, <4>1, <4>2 DEF Collection!TypeOK, Collection!flags,
          Collection!token
      <4>4. Registrations' BY <2>0, <3>0, <4>1, <4>2 DEF Registrations, Collection!TypeOK,
          Collection!token
      <4>5. AboutToSleep' BY <3>0, <4>2 DEF AboutToSleep, Collection!Unlocked, Collection!At
      <4>6. ~told BY <3>2 DEF CollectionIInv
      <4>7. Collection!CapacityRespected' BY <2>0, <3>0, <4>1 DEF Collection!CapacityRespected,
          Collection!flags, Collection!TypeOK, CollectionAssumed
      <4>8. \A S \in {Producers, Consumers} : Collection!At(S, "parked")' \subseteq Collection!At(S, "parked") BY <2>0, <4>1, ParkedMoves
      <4>9. SleepersServed'
        <5>2. /\ ForProducers' = ForProducers + 1 /\ ForConsumers' >= ForConsumers - 1
              /\ ForConsumers \in Nat /\ ForProducers \in Nat /\ ForConsumers' \in Nat
          BY <2>0, <2>5, <3>0, <4>1, HopeMoves
        <5>3. boundedCapacity_ \in Int BY <2>0 DEF Collection!TypeOK, CollectionAssumed
        <5> QED BY <2>0, <3>0, <4>1, <4>8, <5>2, <5>3 DEF SleepersServed, Collection!flags,
            Collection!token
      <4>10. Collection!CompletionReleasesAll' BY <2>0, <3>0, <4>2 DEF Collection!CompletionReleasesAll,
          Collection!Closed, Collection!flags, Collection!At
      <4> QED BY <3>0, <4>1, <4>3, <4>4, <4>5, <4>6, <4>7, <4>9, <4>10 DEF CollectionIInv
    <3>3. CASE ~disposed_ /\ ~Collection!Cancelled(t) /\ ~(count > 0) /\ (addingCompleted_ \/ call[t].mode = "zero")
      <4>1. count = 0 BY <2>0, <3>3
      <4>2. Collection!Leave(t) /\ UNCHANGED count /\ told' = (told \/ addingCompleted_) BY <2>5, <3>3,
          <4>1 DEF Collection!Take
      <4>3. told' \in BOOLEAN /\ (told' => addingCompleted_ /\ count = 0)
        BY <2>0, <4>1, <4>2 DEF CollectionIInv, Collection!TypeOK
      <4> QED BY <2>b, <2>5, <3>0, <4>1, <4>2, <4>3
    <3>4. CASE ~disposed_ /\ ~Collection!Cancelled(t) /\ ~(count > 0) /\ ~(addingCompleted_ \/ call[t].mode = "zero")
      <4>1. count = 0 BY <2>0, <3>4
      <4>2. t \notin Producers BY <2>5 DEF CollectionAssumed
      <4>3. Collection!GoTo(t, "falling") /\ UNCHANGED <<count, call, told>> BY <2>5, <3>4, <4>1
          DEF Collection!Take
      <4> QED BY <2>d, <3>0, <3>4, <4>1, <4>2, <4>3 DEF Collection!Closed
    <3> QED BY <3>1, <3>2, <3>3, <3>4
  <2>6. ASSUME NEW t \in Collection!Threads, Collection!Sleep(t) PROVE CollectionIInv'
    <3>0. bPc[t] = "falling" /\ Collection!GoTo(t, "parked") /\ UNCHANGED <<count, Collection!flags, Collection!token, call, told>> BY <2>6 DEF Collection!Sleep
    <3>1. bPc' \in [Collection!Threads -> Stands] /\ bPc'[t] = "parked" /\ \A u \in Collection!Threads \ {t} : bPc'[u] = bPc[u] BY <2>a, <3>0
    <3>2. Collection!TypeOK' BY <2>0, <3>0, <3>1 DEF Collection!TypeOK, Collection!flags,
        Collection!token
    <3>3. Registrations' BY <2>0, <3>0, <3>1 DEF Registrations, Collection!TypeOK, Collection!token
    <3>4. AboutToSleep' BY <2>0, <3>0, <3>1 DEF AboutToSleep, Collection!Full, Collection!flags
    <3>5. Collection!CompletionReleasesAll' BY <2>0, <3>0, <3>1 DEF Collection!CompletionReleasesAll,
        Collection!Closed, Collection!flags, Collection!At
    <3>6. SleepersServed'
      <4>1. ForConsumers' = ForConsumers /\ ForProducers' = ForProducers
            /\ ForConsumers \in Nat /\ ForProducers \in Nat
        BY <2>0, <3>0, HopeMoves DEF Collection!Threads
      <4>2. t \in Producers => boundedCapacity_ - count <= ForProducers'
        BY <2>0, <3>0, <4>1 DEF AboutToSleep, Collection!Full, Collection!TypeOK, CollectionAssumed
      <4>3. t \in Consumers => count <= ForConsumers'
        BY <2>0, <3>0, <4>1 DEF AboutToSleep, CollectionAssumed
      <4>4. \A S \in {Producers, Consumers} : t \notin S => Collection!At(S, "parked")' = Collection!At(S, "parked")
        BY <3>1 DEF Collection!At, Collection!Threads
      <4> QED BY <2>0, <3>0, <4>1, <4>2, <4>3, <4>4 DEF SleepersServed, Collection!flags,
          Collection!token, Collection!Threads
    <3> QED BY <2>0, <3>0, <3>2, <3>3, <3>4, <3>5, <3>6 DEF CollectionIInv,
        Collection!CapacityRespected, Collection!flags
  <2>7. ASSUME NEW t \in Collection!Threads, Collection!Spurious(t) PROVE CollectionIInv'
    <3>0. bPc[t] = "parked" /\ Collection!GoTo(t, "notified") /\ UNCHANGED <<count, Collection!flags, Collection!token, call, told>> BY <2>7 DEF Collection!Spurious
    <3>1. bPc' \in [Collection!Threads -> Stands] /\ bPc'[t] = "notified" /\ \A u \in Collection!Threads \ {t} : bPc'[u] = bPc[u] BY <2>a, <3>0
    <3>2. Collection!TypeOK' BY <2>0, <3>0, <3>1 DEF Collection!TypeOK, Collection!flags,
        Collection!token
    <3>3. Registrations' BY <2>0, <3>0, <3>1 DEF Registrations, Collection!TypeOK, Collection!token
    <3>4. /\ SleepersServed' /\ AboutToSleep' /\ Collection!CompletionReleasesAll' /\ Collection!CapacityRespected'
          /\ (told => addingCompleted_ /\ count = 0)'
      BY <3>0, PlainMove DEF Collection!token
    <3> QED BY <3>2, <3>3, <3>4 DEF CollectionIInv
  <2>8. ASSUME NEW t \in Collection!Threads, Collection!TimeOut(t) PROVE CollectionIInv'
    <3>1. (t \in Consumers /\ count = 0) \/ (t \in Producers /\ Collection!Full) BY <2>8
        DEF Collection!TimeOut, Collection!Threads
    <3> QED BY <2>0, <2>b, <2>8, <3>1 DEF Collection!TimeOut, CollectionIInv, Collection!TypeOK
  <2>9. ASSUME NEW t \in Collection!Threads, Collection!NotifyOne(t) PROVE CollectionIInv'
    <3> DEFINE q == IF call[t].observes THEN "leaving" ELSE "idle"
    <3> DEFINE asleep == Collection!At(Collection!Partners(t), "parked")
    <3>0. /\ bPc[t] = "notifying" /\ UNCHANGED <<count, Collection!flags, Collection!token, told>>
          /\ call' = IF call[t].observes THEN call ELSE [call EXCEPT ![t] = Collection!NoCall]
      BY <2>9 DEF Collection!NotifyOne
    <3>1. Collection!NoCall \in [mode : {"infinite", "timed", "zero"}, observes : BOOLEAN] BY
        DEF Collection!NoCall, Collection!Args
    <3>2. /\ call' \in [Collection!Threads -> [mode : {"infinite", "timed", "zero"}, observes : BOOLEAN]]
          /\ \A u \in Collection!Threads \ {t} : call'[u] = call[u]
          /\ call[t].observes => call'[t] = call[t]
      BY <2>0, <3>0, <3>1 DEF Collection!TypeOK
    <3>3. \/ asleep = {} /\ bPc' = [bPc EXCEPT ![t] = q]
          \/ \E u \in asleep : bPc' = [[bPc EXCEPT ![t] = q] EXCEPT ![u] = "notified"]
      BY <2>9 DEF Collection!NotifyOne
    <3>4. /\ bPc' \in [Collection!Threads -> Stands] /\ bPc'[t] = q
          /\ \A u \in Collection!Threads \ {t} : bPc'[u] = bPc[u] \/ (bPc[u] = "parked" /\ bPc'[u] = "notified")
      BY <2>0, <3>0, <3>3 DEF Collection!At, Collection!Partners, Collection!Threads
    <3>5. Collection!TypeOK' BY <2>0, <3>0, <3>2, <3>4 DEF Collection!TypeOK, Collection!flags,
        Collection!token
    <3>6. Registrations' BY <2>0, <3>0, <3>2, <3>4 DEF Registrations, Collection!TypeOK,
        Collection!token
    <3>7. AboutToSleep' /\ Collection!CompletionReleasesAll'
      BY <2>0, <3>0, <3>4 DEF AboutToSleep, Collection!CompletionReleasesAll, Collection!Closed,
          Collection!Full, Collection!At, Collection!flags
    <3>8. SleepersServed'
      <4>0. count \in Int /\ boundedCapacity_ \in Int BY <2>0 DEF Collection!TypeOK, CollectionAssumed
      <4>1. CASE asleep = {} /\ bPc' = [bPc EXCEPT ![t] = q]
        <5>1. Collection!GoTo(t, q) BY <4>1 DEF Collection!GoTo
        <5>2. \A S \in {Producers, Consumers} : Collection!At(S, "parked")' \subseteq Collection!At(S, "parked") BY <2>0, <5>1, ParkedMoves
        <5>3. /\ t \in Consumers => ForConsumers' = ForConsumers
              /\ t \in Producers => ForProducers' = ForProducers
          BY <2>0, <3>0, <5>1, HopeMoves
        <5>4. /\ t \in Producers => Collection!At(Consumers, "parked")' = {}
              /\ t \in Consumers => Collection!At(Producers, "parked")' = {}
          BY <4>1, <5>2 DEF Collection!Partners, CollectionAssumed
        <5> QED BY <2>0, <3>0, <5>2, <5>3, <5>4 DEF SleepersServed, Collection!flags, Collection!token,
            Collection!Threads
      <4>2. ASSUME NEW u \in asleep, bPc' = [[bPc EXCEPT ![t] = q] EXCEPT ![u] = "notified"]
            PROVE  SleepersServed'
        <5>0. /\ u \in Collection!Threads /\ u # t /\ bPc[u] = "parked"
              /\ t \in Producers => u \in Consumers /\ u \notin Producers /\ t \notin Consumers
              /\ t \in Consumers => u \in Producers /\ u \notin Consumers /\ t \notin Producers
          BY <3>0, <4>2 DEF Collection!At, Collection!Partners, Collection!Threads, CollectionAssumed
        <5>1. /\ bPc'[t] = q /\ bPc'[u] = "notified" /\ \A w \in Collection!Threads \ {t, u} : bPc'[w] = bPc[w]
          BY <2>0, <4>2, <5>0
        <5>2. \A S \in {Producers, Consumers} :
                /\ t \in S /\ u \notin S => /\ Collection!At(S, "notifying")' = Collection!At(S, "notifying") \ {t}
                                           /\ t \in Collection!At(S, "notifying")
                                           /\ Collection!At(S, "notified")' = Collection!At(S, "notified")
                /\ u \in S /\ t \notin S => /\ Collection!At(S, "notified")' = Collection!At(S, "notified") \cup {u}
                                           /\ u \notin Collection!At(S, "notified")
                                           /\ Collection!At(S, "notifying")' = Collection!At(S, "notifying")
          BY <3>0, <5>0, <5>1 DEF Collection!At, Collection!Threads
        <5>3. \A S \in {Producers, Consumers} :
                /\ t \in S /\ u \notin S => Cardinality(Collection!At(S, "notifying")') = Cardinality(Collection!At(S, "notifying")) - 1
                /\ u \in S /\ t \notin S => Cardinality(Collection!At(S, "notified")') = Cardinality(Collection!At(S, "notified")) + 1
          <6>1. \A S \in {Producers, Consumers} : IsFiniteSet(Collection!At(S, "notifying")) /\ IsFiniteSet(Collection!At(S, "notified"))
            BY AtFinite
          <6>2. ASSUME NEW S \in {Producers, Consumers}, t \in S, u \notin S
                PROVE  Cardinality(Collection!At(S, "notifying") \ {t}) = Cardinality(Collection!At(S, "notifying")) - 1
            BY <5>2, <6>1, <6>2, FS_RemoveElement
          <6>3. ASSUME NEW S \in {Producers, Consumers}, u \in S, t \notin S
                PROVE  Cardinality(Collection!At(S, "notified") \cup {u}) = Cardinality(Collection!At(S, "notified")) + 1
            BY <5>2, <6>1, <6>3, FS_AddElement
          <6> QED BY <5>2, <6>2, <6>3
        <5>4. \A S \in {Producers, Consumers}, p \in {"notifying", "notified"} : Cardinality(Collection!At(S, p)) \in Nat
          BY AtFinite
        <5>5. ForConsumers' = ForConsumers /\ ForProducers' = ForProducers
          <6>1. CASE t \in Producers BY <5>0, <5>2, <5>3, <5>4, <6>1 DEF ForConsumers, ForProducers
          <6>2. CASE t \in Consumers BY <5>0, <5>2, <5>3, <5>4, <6>2 DEF ForConsumers, ForProducers
          <6> QED BY <6>1, <6>2 DEF Collection!Threads
        <5>6. \A S \in {Producers, Consumers} : Collection!At(S, "parked")' \subseteq Collection!At(S, "parked")
          BY <3>4 DEF Collection!At, Collection!Threads
        <5> QED BY <2>0, <3>0, <5>5, <5>6 DEF SleepersServed, Collection!flags, Collection!token
      <4> QED BY <3>3, <4>1, <4>2
    <3> QED BY <2>0, <3>0, <3>5, <3>6, <3>7, <3>8 DEF CollectionIInv, Collection!CapacityRespected,
        Collection!flags
  <2>10. ASSUME NEW u \in toRun, Collection!RunCallback(u) PROVE CollectionIInv'
    <3>1. toRun' \subseteq Collection!Threads /\ {addingCompleted_', disposed_', cancelled'} \subseteq BOOLEAN
      BY <2>0, <2>10 DEF Collection!RunCallback, Collection!TypeOK, Collection!flags
    <3> QED BY <2>c, <2>10, <3>1 DEF Collection!RunCallback, Collection!flags, Collection!Closed
  <2>11. CASE Collection!CompleteAdding
    <3>1. {addingCompleted_', disposed_', cancelled'} \subseteq BOOLEAN /\ toRun' \subseteq Collection!Threads
      BY <2>0, <2>11 DEF Collection!CompleteAdding, Collection!TypeOK, Collection!token
    <3> QED BY <2>c, <2>11, <3>1 DEF Collection!CompleteAdding, Collection!token
  <2>12. CASE Collection!Dispose
    <3>1. {addingCompleted_', disposed_', cancelled'} \subseteq BOOLEAN /\ toRun' \subseteq Collection!Threads
      BY <2>0, <2>12 DEF Collection!Dispose, Collection!TypeOK, Collection!token
    <3> QED BY <2>c, <2>12, <3>1 DEF Collection!Dispose, Collection!token
  <2>13. CASE Collection!Cancel
    <3>0. /\ cancelled' = TRUE /\ toRun' = registered /\ registered' = {} /\ UNCHANGED <<count, Collection!flags, bPc, call, told>>
      BY <2>13 DEF Collection!Cancel
    <3>1. {addingCompleted_', disposed_', cancelled'} \subseteq BOOLEAN BY <2>0, <3>0
        DEF Collection!TypeOK, Collection!flags
    <3>2. Collection!TypeOK' BY <2>0, <3>0, <3>1 DEF Collection!TypeOK, Collection!flags
    <3>3. SleepersServed' /\ Registrations' BY <2>0, <3>0 DEF SleepersServed, Registrations
    <3>4. AboutToSleep' /\ Collection!CompletionReleasesAll' /\ Collection!CapacityRespected'
      BY <2>0, <3>0 DEF AboutToSleep, Collection!CompletionReleasesAll, Collection!CapacityRespected,
          Collection!Closed, Collection!Full, Collection!At, Collection!flags
    <3> QED BY <3>0, <3>2, <3>3, <3>4 DEF CollectionIInv, Collection!flags
  <2>14. CASE UNCHANGED Collection!vars
    <3>1. \A S, p : Collection!At(S, p)' = Collection!At(S, p) BY <2>14 DEF Collection!vars,
        Collection!At
    <3>2. ForConsumers' = ForConsumers /\ ForProducers' = ForProducers BY <3>1 DEF ForConsumers,
        ForProducers
    <3> QED BY <2>14, <3>1, <3>2 DEF Collection!vars, Collection!flags, Collection!token,
        CollectionIInv, Collection!TypeOK, Collection!CapacityRespected, Registrations,
            AboutToSleep, Collection!Full, SleepersServed, Collection!CompletionReleasesAll, Collection!Closed
  <2> QED BY <2>1, <2>2, <2>3, <2>4, <2>5, <2>6, <2>7, <2>8, <2>9, <2>10, <2>11, <2>12, <2>13, <2>14
          DEF Collection!Next, Collection!Locked, Collection!Running
<1> QED BY <1>1, <1>2, PTL DEF Collection!Spec

\* For any number of producers and consumers and any capacity, with and without timeouts
\* and tokens: the capacity is respected, nobody sleeps through its turn while the token is
\* not cancelled, a consumer that is told the collection has completed was told the truth,
\* and no registration with a token outlives its call.
THEOREM CollectionIsCorrect == Collection!Spec => []CollectionInv
<1>1. CollectionIInv => CollectionInv
  BY CollectionCardinality DEF CollectionIInv, CollectionInv, Collection!CollectionInv,
      Collection!RegistrationsEnd, Registrations, Collection!CompletedIsFinal, Collection!NoLostWakeup,
         SleepersServed, ForConsumers, ForProducers
<1> QED BY <1>1, CollectionInductive, CollectionAssumption, PTL

\* Once CompleteAdding or Dispose has come through no call sleeps or is about to, for any
\* number of callers.
THEOREM CompletionReachesEveryone == Collection!Spec => []CompletionReleasesAll
<1>1. CollectionIInv => CompletionReleasesAll BY DEF CollectionIInv, CompletionReleasesAll
<1> QED BY <1>1, CollectionInductive, CollectionAssumption, PTL

=============================================================================
