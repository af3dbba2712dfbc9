------------------------------ MODULE Channel ------------------------------
(***************************************************************************)
(* The FIFO channel of System.Threading.Channels (Channel.hpp): one mutex, *)
(* the condition variables notEmpty and notFull, a deque, and any number   *)
(* of threads that read, write, complete the channel or await Completion.  *)
(*                                                                         *)
(* Every critical section of the code is one step.  A thread inside        *)
(* condition_variable::wait(lock, predicate) is "parked" until a notify    *)
(* makes it "notified"; a notified thread re-evaluates its predicate under *)
(* the mutex and either returns or parks again.  Notifications are         *)
(* therefore explicit: one that the code forgot would leave a thread       *)
(* parked.  Every notify of this file is issued with the mutex held, so    *)
(* evaluating the predicate and parking is a single step.                  *)
(***************************************************************************)
EXTENDS Integers, Sequences, FiniteSets

CONSTANTS Readers,     \* threads that call ReadAsync, TryRead, WaitToReadAsync
          Writers,     \* threads that call WriteAsync, TryWrite, WaitToWriteAsync
          Watchers,    \* threads that await the Completion task
          Capacities,  \* capacities to create channels with; -1 is unbounded
          FullModes,   \* BoundedChannelFullMode values to create channels with
          ReadOps,     \* which of the read operations Readers call
          MaxItems     \* bound: the items one writer writes

Threads == Readers \cup Writers \cup Watchers

AllFullModes == {"Wait", "DropNewest", "DropOldest", "DropWrite"}
AllReadOps   == {"ReadAsync", "TryRead", "WaitToReadAsync"}
AllWriteOps  == {"WriteAsync", "TryWrite", "WaitToWriteAsync"}

ASSUME ThreadsAssumption ==
  /\ IsFiniteSet(Readers)
  /\ Readers \cap Writers = {}
  /\ Readers \cap Watchers = {}
  /\ Writers \cap Watchers = {}

\* BoundedChannelOptions rejects a negative capacity; -1 is the default of
\* ChannelState, which only CreateUnbounded keeps.
ASSUME OptionsAssumption ==
  /\ Capacities \subseteq Nat \cup {-1}
  /\ FullModes \subseteq AllFullModes
  /\ ReadOps \subseteq AllReadOps
  /\ MaxItems \in Nat

\* An item is named by its writer and its position in that writer's program.
Items == Writers \X (Nat \ {0})

Errors == {"none", "error"}

Controls == {"idle", "tryRead", "retry", "tryWrite", "enterWait", "parked", "notified"}

\* How the last call of a thread ended.  "error" is the completion error
\* rethrown as it is, "closed" a ChannelClosedException.
Outcomes == {"none", "true", "false", "error", "closed"}

VARIABLES queue, closed, closeError, capacity, fullMode, waitingReaders,
          pc,         \* where each thread stands
          op,         \* the operation it is executing
          outcome,    \* how its last operation ended
          next,       \* next[w]: the item writer w writes next
          delivered,  \* history: items handed to readers, in order
          dropped     \* history: items a drop mode discarded

options  == <<capacity, fullMode>>
history  == <<delivered, dropped>>
vars     == <<queue, closed, closeError, options, waitingReaders,
              pc, op, outcome, next, history>>

\* CreateUnbounded keeps the defaults, CreateBounded stores both options.
Init ==
  /\ queue = <<>>
  /\ closed = FALSE
  /\ closeError = "none"
  /\ capacity \in Capacities
  /\ fullMode \in FullModes
  /\ capacity = -1 => fullMode = "Wait"
  /\ waitingReaders = 0
  /\ pc = [t \in Threads |-> "idle"]
  /\ op = [t \in Threads |-> "none"]
  /\ outcome = [t \in Threads |-> "none"]
  /\ next = [w \in Writers |-> 1]
  /\ delivered = <<>>
  /\ dropped = {}
-----------------------------------------------------------------------------
(* ChannelState and the predicates threads wait for. *)

isRendezvous == capacity = 0

hasWaitingPeer == waitingReaders > Len(queue)

\* MUTANT: full one item too late.
isFullLate == capacity > 0 /\ Len(queue) > capacity

isFull == capacity > 0 /\ Len(queue) >= capacity

ReadReady == queue # <<>> \/ closed

WriteReady ==
  \/ closed
  \/ fullMode # "Wait"
  \/ IF isRendezvous THEN hasWaitingPeer ELSE ~isFull

Drained == closed /\ queue = <<>>

\* notify_all on the condition variable the threads in S wait on.
Wake(f, S) ==
  [t \in Threads |-> IF t \in S /\ f[t] = "parked" THEN "notified" ELSE f[t]]

NotifyNotEmpty(f) == Wake(f, Readers \cup Watchers)

NotifyNotFull(f) == Wake(f, Writers)
-----------------------------------------------------------------------------
(* Reading. *)

\* A call of one of the read operations begins.
StartRead(r, o) ==
  /\ pc[r] = "idle"
  /\ pc' = [pc EXCEPT ![r] = IF o = "WaitToReadAsync" THEN "enterWait" ELSE "tryRead"]
  /\ op' = [op EXCEPT ![r] = o]
  /\ outcome' = [outcome EXCEPT ![r] = "none"]
  /\ UNCHANGED <<queue, closed, closeError, options, waitingReaders, next, history>>

\* MUTANT: a read that wakes the writers only, as PrioritizedChannelReaderImpl
\* once did: whoever awaits Completion is not told that the last item left.
TryReadNotifiesWriters(f) == NotifyNotFull(f)

TryReadNotifies(f) == NotifyNotEmpty(NotifyNotFull(f))

\* TryRead, called directly or from the loop of ReadAsync.
TryRead(r) ==
  /\ pc[r] \in {"tryRead", "retry"}
  /\ \/ /\ queue = <<>>
        /\ IF op[r] = "ReadAsync"
             THEN /\ pc' = [pc EXCEPT ![r] = "enterWait"]
                  /\ UNCHANGED outcome
             ELSE /\ pc' = [pc EXCEPT ![r] = "idle"]
                  /\ outcome' = [outcome EXCEPT ![r] = "false"]
        /\ UNCHANGED <<queue, delivered>>
     \/ /\ queue # <<>>
        /\ queue' = Tail(queue)
        /\ delivered' = Append(delivered, Head(queue))
        /\ pc' = TryReadNotifies([pc EXCEPT ![r] = "idle"])
        /\ outcome' = [outcome EXCEPT ![r] = "true"]
  /\ UNCHANGED <<closed, closeError, options, waitingReaders, op, next, dropped>>

\* MUTANT: the completion error is reported before the buffered items.
WaitToReadResultErrorFirst ==
  IF closeError = "error" THEN "error" ELSE IF queue # <<>> THEN "true" ELSE "false"

\* What WaitToReadAsync evaluates to once its predicate holds.
WaitToReadResult ==
  IF queue # <<>> THEN "true" ELSE IF closeError = "error" THEN "error" ELSE "false"

\* WaitToReadAsync returns to its caller: ReadAsync loops, or turns the end
\* of the channel into a ChannelClosedException.
ReturnFromWaitToRead(r, f) ==
  IF op[r] = "ReadAsync"
    THEN IF WaitToReadResult = "true"
           THEN /\ pc' = [f EXCEPT ![r] = "retry"]
                /\ UNCHANGED outcome
           ELSE /\ pc' = [f EXCEPT ![r] = "idle"]
                /\ outcome' = [outcome EXCEPT ![r] = "closed"]
    ELSE /\ pc' = [f EXCEPT ![r] = "idle"]
         /\ outcome' = [outcome EXCEPT ![r] = WaitToReadResult]

\* MUTANT: the count is published but the writers are not told.
RegisterReaderSilently(f) == f

\* On a rendezvous channel the parking reader publishes itself and wakes the
\* writers (the constructor of WaitingPeer).
RegisterReader(f) == IF isRendezvous THEN NotifyNotFull(f) ELSE f

\* The body of WaitToReadAsync up to its return or its first park.  When the
\* predicate already holds, WaitingPeer is destroyed in the same step.
EnterWaitToRead(r) ==
  /\ pc[r] = "enterWait"
  /\ IF ReadReady
       THEN /\ ReturnFromWaitToRead(r, RegisterReader(pc))
            /\ UNCHANGED waitingReaders
       ELSE /\ pc' = [RegisterReader(pc) EXCEPT ![r] = "parked"]
            /\ waitingReaders' = IF isRendezvous THEN waitingReaders + 1 ELSE waitingReaders
            /\ UNCHANGED outcome
  /\ UNCHANGED <<queue, closed, closeError, options, op, next, history>>

\* MUTANT: a reader that leaves WaitToReadAsync stays registered.
UnregisterReaderForgotten == UNCHANGED waitingReaders

\* ~WaitingPeer, on every exit path.
UnregisterReader ==
  waitingReaders' = IF isRendezvous THEN waitingReaders - 1 ELSE waitingReaders

\* A notified reader re-evaluates the predicate of its wait.
ResumeWaitToRead(r) ==
  /\ pc[r] = "notified"
  /\ IF ReadReady
       THEN ReturnFromWaitToRead(r, pc) /\ UnregisterReader
       ELSE /\ pc' = [pc EXCEPT ![r] = "parked"]
            /\ UNCHANGED <<outcome, waitingReaders>>
  /\ UNCHANGED <<queue, closed, closeError, options, op, next, history>>
-----------------------------------------------------------------------------
(* Writing. *)

StartWrite(w, o) ==
  /\ pc[w] = "idle"
  /\ next[w] <= MaxItems
  /\ pc' = [pc EXCEPT ![w] = IF o = "WaitToWriteAsync" THEN "enterWait" ELSE "tryWrite"]
  /\ op' = [op EXCEPT ![w] = o]
  /\ outcome' = [outcome EXCEPT ![w] = "none"]
  /\ UNCHANGED <<queue, closed, closeError, options, waitingReaders, next, history>>

\* Nothing can be stored without dropping something (or a reader to hand to).
NoRoom == IF isRendezvous THEN ~hasWaitingPeer ELSE isFull

\* TryWrite returns false: WriteAsync goes on to wait, TryWrite's caller is told.
WriteRefused(w) ==
  /\ closed \/ (fullMode = "Wait" /\ NoRoom)
  /\ IF op[w] = "WriteAsync"
       THEN /\ pc' = [pc EXCEPT ![w] = "enterWait"]
            /\ UNCHANGED outcome
       ELSE /\ pc' = [pc EXCEPT ![w] = "idle"]
            /\ outcome' = [outcome EXCEPT ![w] = "false"]
  /\ UNCHANGED <<queue, next, dropped>>

\* TryWrite returns true and the new item is discarded.
WriteDiscarded(w) ==
  /\ ~closed
  /\ NoRoom
  /\ IF isRendezvous THEN fullMode # "Wait" ELSE fullMode = "DropWrite"
  /\ dropped' = dropped \cup {<<w, next[w]>>}
  /\ pc' = [pc EXCEPT ![w] = "idle"]
  /\ outcome' = [outcome EXCEPT ![w] = "true"]
  /\ next' = [next EXCEPT ![w] = @ + 1]
  /\ UNCHANGED queue

\* The index of the item that makes way for the new one.
EvictedIndex == IF fullMode = "DropNewest" THEN Len(queue) ELSE 1

\* MUTANT: the default branch of the switch evicts, in Wait mode too.
MustEvictInEveryMode == ~isRendezvous /\ isFull

MustEvict == ~isRendezvous /\ isFull /\ fullMode \in {"DropNewest", "DropOldest"}

Without(s, i) == SubSeq(s, 1, i - 1) \o SubSeq(s, i + 1, Len(s))

\* TryWrite returns true and the new item is at the back of the queue.
WritePushed(w) ==
  /\ ~closed
  /\ ~NoRoom \/ MustEvict
  /\ queue' = Append(IF MustEvict THEN Without(queue, EvictedIndex) ELSE queue, <<w, next[w]>>)
  /\ dropped' = IF MustEvict THEN dropped \cup {queue[EvictedIndex]} ELSE dropped
  /\ pc' = NotifyNotEmpty([pc EXCEPT ![w] = "idle"])
  /\ outcome' = [outcome EXCEPT ![w] = "true"]
  /\ next' = [next EXCEPT ![w] = @ + 1]

TryWrite(w) ==
  /\ pc[w] = "tryWrite"
  /\ WriteRefused(w) \/ WriteDiscarded(w) \/ WritePushed(w)
  /\ UNCHANGED <<closed, closeError, options, waitingReaders, op, delivered>>

WaitToWriteResult ==
  IF ~closed THEN "true" ELSE IF closeError = "error" THEN "error" ELSE "false"

\* WaitToWriteAsync, from its start or from a notification.  WriteAsync tries
\* again on true and turns anything else into a ChannelClosedException.
WaitToWrite(w) ==
  /\ pc[w] \in {"enterWait", "notified"}
  /\ \/ /\ WriteReady
        /\ IF op[w] = "WriteAsync" /\ WaitToWriteResult = "true"
             THEN /\ pc' = [pc EXCEPT ![w] = "tryWrite"]
                  /\ UNCHANGED outcome
             ELSE /\ pc' = [pc EXCEPT ![w] = "idle"]
                  /\ outcome' = [outcome EXCEPT ![w] =
                       IF op[w] = "WriteAsync" THEN "closed" ELSE WaitToWriteResult]
     \/ /\ ~WriteReady
        /\ pc' = [pc EXCEPT ![w] = "parked"]
        /\ UNCHANGED outcome
  /\ UNCHANGED <<queue, closed, closeError, options, waitingReaders, op, next, history>>
-----------------------------------------------------------------------------
(* Completing the channel and awaiting Completion. *)

\* MUTANT: completing wakes the readers only.
CompleteNotifiesReaders(f) == NotifyNotEmpty(f)

CompleteNotifies(f) == NotifyNotFull(NotifyNotEmpty(f))

\* TryComplete; on a closed channel it returns false and changes nothing.
TryComplete(e) ==
  /\ ~closed
  /\ closed' = TRUE
  /\ closeError' = e
  /\ pc' = CompleteNotifies(pc)
  /\ UNCHANGED <<queue, options, waitingReaders, op, outcome, next, history>>

StartCompletion(c) ==
  /\ pc[c] = "idle"
  /\ outcome[c] = "none"
  /\ pc' = [pc EXCEPT ![c] = "enterWait"]
  /\ UNCHANGED <<queue, closed, closeError, options, waitingReaders, op, outcome, next, history>>

\* The body of getCompletionProperty's task.
Completion(c) ==
  /\ pc[c] \in {"enterWait", "notified"}
  /\ \/ /\ Drained
        /\ pc' = [pc EXCEPT ![c] = "idle"]
        /\ outcome' = [outcome EXCEPT ![c] = IF closeError = "error" THEN "error" ELSE "true"]
     \/ /\ ~Drained
        /\ pc' = [pc EXCEPT ![c] = "parked"]
        /\ UNCHANGED outcome
  /\ UNCHANGED <<queue, closed, closeError, options, waitingReaders, op, next, history>>
-----------------------------------------------------------------------------
ReaderStep(r)  == TryRead(r) \/ EnterWaitToRead(r) \/ ResumeWaitToRead(r)
WriterStep(w)  == TryWrite(w) \/ WaitToWrite(w)

Next ==
  \/ \E r \in Readers : ReaderStep(r) \/ \E o \in ReadOps : StartRead(r, o)
  \/ \E w \in Writers : WriterStep(w) \/ \E o \in AllWriteOps : StartWrite(w, o)
  \/ \E c \in Watchers : Completion(c) \/ StartCompletion(c)
  \/ \E e \in Errors : TryComplete(e)

Spec == Init /\ [][Next]_vars

\* The operating system keeps scheduling a thread that is inside a call.
\* Nothing obliges a thread to start one.
Fairness ==
  /\ \A r \in Readers : WF_vars(ReaderStep(r))
  /\ \A w \in Writers : WF_vars(WriterStep(w))
  /\ \A c \in Watchers : WF_vars(Completion(c))

FairSpec == Spec /\ Fairness
-----------------------------------------------------------------------------
(* Properties. *)

\* The type invariant.
TypeOK ==
  /\ queue \in Seq(Items)
  /\ closed \in BOOLEAN
  /\ closeError \in Errors
  /\ capacity \in Capacities
  /\ fullMode \in FullModes
  /\ waitingReaders \in Nat
  /\ pc \in [Threads -> Controls]
  /\ op \in [Threads -> AllReadOps \cup AllWriteOps \cup {"none"}]
  /\ outcome \in [Threads -> Outcomes]
  /\ next \in [Writers -> Nat \ {0}]
  /\ delivered \in Seq(Items)
  /\ dropped \in SUBSET Items

\* No wakeup is ever lost: a thread that sleeps on a condition variable and
\* that nobody has notified has nothing to wake up for.  The comments at
\* TryRead, TryWrite and PrioritizedChannelReaderImpl::TryRead report hangs
\* from notifications that were missing.
NoLostWakeup ==
  /\ \A r \in Readers  : pc[r] = "parked" => ~ReadReady
  /\ \A w \in Writers  : pc[w] = "parked" => ~WriteReady
  /\ \A c \in Watchers : pc[c] = "parked" => ~Drained

\* Readers inside the wait of WaitToReadAsync.
Registered == {r \in Readers : pc[r] \in {"parked", "notified"}}

\* The count that admits rendezvous writes is exact: every exit of the wait
\* gives its registration back once, and buffered channels never count.
WaitingReadersExact ==
  waitingReaders = IF isRendezvous THEN Cardinality(Registered) ELSE 0

\* Readers that will still run TryRead after a wait that they entered.
Committed == {r \in Readers : pc[r] \in {"parked", "notified", "retry"}}

\* A rendezvous channel never buffers: as long as every reader that waits also
\* reads (ReadAsync, TryRead), each item a writer was told is accepted has a
\* reader that is still on its way to take it.
RendezvousBacked ==
  capacity = 0 /\ "WaitToReadAsync" \notin ReadOps => Len(queue) <= Cardinality(Committed)

\* A bounded channel never holds more than its capacity, whatever its full mode.
CapacityRespected == capacity > 0 => Len(queue) <= capacity

Contract == INSTANCE ChannelContract
  WITH Items <- Writers \X (1..MaxItems),
       buffer <- queue, read <- delivered, lost <- dropped, sealed <- closed,
       lossy <- fullMode # "Wait"

\* The channel implements its contract (see ChannelContract): first in, first out,
\* each item read once at most, an item given up only in a drop mode and only when
\* another arrives, and nothing lost when the channel is completed.
ImplementsContract == Contract!Spec

\* Buffered items come first: ReadAsync reports a closed channel, and the
\* Completion task ends, only when nothing is left to read, and this stays so.
DrainedBeforeClosed ==
  /\ \A r \in Readers :
       \/ outcome[r] \in {"closed", "error"}
       \/ outcome[r] = "false" /\ op[r] = "WaitToReadAsync"
       => closed /\ queue = <<>>
  /\ \A c \in Watchers : outcome[c] # "none" => closed /\ queue = <<>>

\* What the channel tells its users of an item is true: one that it accepts has a
\* place or a reader, and none is left behind when it reports its end.
ReportsAreTrue == RendezvousBacked /\ DrainedBeforeClosed

\* Completing the channel ends every call: no reader, writer or Completion
\* waiter stays blocked on a closed channel whose items are all read.
CloseReleasesAll ==
  \A t \in Threads : Drained /\ pc[t] # "idle" ~> pc[t] = "idle"

\* A blocked writer gets its turn: while there is room (or a rendezvous peer)
\* a WriteAsync does not stay blocked.
RoomReachesWriter ==
  \A w \in Writers :
    pc[w] # "idle" /\ op[w] = "WriteAsync" /\ WriteReady ~> pc[w] = "idle" \/ ~WriteReady

\* An item reaches a reader: while ReadAsync is outstanding, an item in the
\* queue does not stay there for ever.
ItemReachesReader ==
  \A r \in Readers :
    pc[r] # "idle" /\ op[r] = "ReadAsync" /\ queue # <<>> ~> pc[r] = "idle" \/ queue = <<>>

\* Neither side of the channel waits for what is already there.
EveryoneServed == RoomReachesWriter /\ ItemReachesReader
=============================================================================
