------------------------------ MODULE MCQueues ------------------------------
(***************************************************************************)
(* Channel and BlockingCollection, checked side by side: a behaviour is    *)
(* one of the component that `part' names, the other keeps the state it is *)
(* constructed in.                                                         *)
(***************************************************************************)
EXTENDS Channel, TLC

CONSTANTS Producers, Consumers, Bounds, MaxHeld, Observers   \* of BlockingCollection

NoneAndTwo == {-1, 2}

VARIABLES part,
          count, boundedCapacity_, addingCompleted_, disposed_, cancelled, registered, toRun, bPc, call,
          told

collection == <<count, boundedCapacity_, addingCompleted_, disposed_, cancelled, registered, toRun,
                bPc, call, told>>

Collection == INSTANCE BlockingCollection WITH Capacities <- Bounds, MaxItems <- MaxHeld, pc <- bPc

\* Producers and consumers are finitely many and have a role each; the capacities are
\* numbers.
CollectionAssumed ==
  /\ IsFiniteSet(Producers) /\ IsFiniteSet(Consumers) /\ Producers \cap Consumers = {}
  /\ Bounds \subseteq Int /\ MaxHeld \in Nat
ASSUME CollectionAssumption == CollectionAssumed

AllInit ==
  /\ part \in {"channel", "collection"}
  /\ Init /\ Collection!Init
  /\ part # "channel" => capacity = 0 /\ fullMode = "Wait"
  /\ part # "collection" => boundedCapacity_ = Collection!NonBounded /\ count = 0

OnChannel(step) == part = "channel" /\ step /\ UNCHANGED <<part, collection>>
OnCollection(step) == part = "collection" /\ step /\ UNCHANGED <<part, vars>>

AllNext == OnChannel(Next) \/ OnCollection(Collection!Next)

AllSpec == AllInit /\ [][AllNext]_<<part, vars, collection>>

\* The threads that use the channel are interchangeable.
ThreadSymmetry == Permutations(Readers) \cup Permutations(Writers)

\* The properties of the collection.
CollectionInv == Collection!CollectionInv
CompletionReleasesAll == Collection!CompletionReleasesAll
=============================================================================
