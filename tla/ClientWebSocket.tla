-------------------------- MODULE ClientWebSocket --------------------------
(***************************************************************************)
(* The life of a ClientWebSocket: its five asynchronous operations, each   *)
(* on a worker of its own, the heartbeat thread, a cancellation token      *)
(* whose callback aborts, a program that aborts, disposes of and destroys  *)
(* the object, and a peer (external).  The socket is shared: `attached' is *)
(* socket_ # null, a worker goes on with the reference it took.            *)
(*                                                                         *)
(* A critical section of stateMutex_ is one step.  The class excludes no   *)
(* call: any operation may run beside any other, also before and while the *)
(* socket connects; that no two calls of one kind overlap is a bound.  Of  *)
(* a frame only its opcode and the payload of a ping or pong are kept.     *)
(* Writes are whole frames (sendMutex_); reads are not, so two readers may *)
(* tear a frame apart, after which the stream may read as anything.        *)
(***************************************************************************)
EXTENDS Integers, Sequences, FiniteSets

CONSTANTS Plans,       \* what a program does: the operations it calls, the ways in which it
                       \* stops them (abort, dispose, cancel, destroy), the keep-alive it sets,
                       \* whether it calls before ConnectAsync is through, and a bound: the
                       \* frames its peer sends
          MaxPings     \* bound: pings of the heartbeat

Ops == {"connect", "send", "receive", "close", "output"}

ASSUME SocketAssumption ==
  /\ Plans \subseteq [ops : SUBSET Ops, stops : SUBSET {"abort", "dispose", "cancel", "destroy"},
                      keepAlive : {"none", "pong", "ping"}, early : BOOLEAN, frames : Nat]
  /\ MaxPings \in Nat

VARIABLES state,       \* state_
          connectStarted, attached,
          connected,   \* the socket has connected, so that Shutdown has an effect
          shut,        \* it was shut down
          pc,          \* where each thread stands
          requested,   \* the token's request
          registered,  \* the operations whose callback is in the token's map
          todo,        \* the callbacks that Cancel has taken out of it, still to run
          calling,     \* the one it is running
          inline,      \* the operations whose callback runs inside their own Register
          inFlight,    \* AsyncOperations::inFlight
          plan,        \* the program's plan
          published,   \* keepAlive_ is set
          stop, pingSent, pingPayload, faulted,  \* KeepAlive's members
          answered,    \* external: the peer answered the handshake
          inbound,     \* external: frames on their way to the client
          pinged,      \* external: the payload of the last ping that was written
          sent,        \* external: frames the peer has sent
          dropped,     \* external: the peer's end is closed
          torn,        \* the reader is no longer at the start of a frame
          wroteClose, readClose,  \* history: Close frames
          overwritten, \* history: a Close recorded in state_ was stored over
          pongs        \* history: the payloads of the pongs that were read

socket == <<attached, connected, shut>>
token == <<requested, registered, todo, calling, inline>>
heartbeat == <<plan, published, stop, pingSent, pingPayload, faulted, pongs>>
peer == <<answered, inbound, pinged, sent, dropped, torn>>
closes == <<wroteClose, readClose, overwritten>>
vars == <<state, connectStarted, socket, pc, token, inFlight, heartbeat,
          peer, closes>>

Actors == Ops \cup {"heart", "canceller", "user", "dtor"}

Init ==
  /\ state = "None" /\ connectStarted = FALSE
  /\ attached = FALSE /\ connected = FALSE /\ shut = FALSE
  /\ pc = [a \in Actors |-> "idle"]
  /\ requested = FALSE /\ registered = {} /\ todo = {} /\ calling = {} /\ inline = {}
  /\ inFlight = 0 /\ plan \in Plans /\ published = FALSE
  /\ stop = FALSE /\ pingSent = FALSE /\ pingPayload = 0 /\ faulted = FALSE
  /\ answered = FALSE /\ inbound = <<>> /\ pinged = 0 /\ sent = 0 /\ dropped = FALSE
  /\ torn = FALSE
  /\ wroteClose = FALSE /\ readClose = FALSE /\ overwritten = FALSE /\ pongs = {}

Go(a, place) == pc' = [pc EXCEPT ![a] = place]
At(a, place) == pc[a] = place

----------------------------------------------------------------------------
(* Abort and Dispose, whoever calls them. *)

AbortedState == IF state \in {"Aborted", "Closed"} THEN state ELSE "Aborted"

Abort(a) ==
  /\ At(a, "abort")
  /\ state' = AbortedState
  /\ Go(a, "dispose")
  /\ UNCHANGED <<connectStarted, socket, token, inFlight, heartbeat, peer, closes>>

\* Where an operation goes on once its callback is registered.
Body(a) == IF a = "connect" THEN "make" ELSE "gate"

\* Dispose returns to its caller.
Disposed(a) ==
  /\ Go(a, CASE a \in inline -> Body(a) [] a \in Ops \ inline -> "unregister"
             [] a = "heart" -> "tick" [] a = "dtor" -> "gone" [] OTHER -> "idle")
  /\ inline' = inline \ {a}
  /\ calling' = IF a = "canceller" THEN {} ELSE calling

Dispose(a) ==
  /\ At(a, "dispose")
  /\ attached' = FALSE
  /\ state' = IF state = "Aborted" THEN state ELSE "Closed"
  /\ IF attached THEN Go(a, "shutdown") /\ UNCHANGED <<inline, calling>> ELSE Disposed(a)
  /\ UNCHANGED <<connectStarted, connected, shut, requested, registered, todo, inFlight, heartbeat,
                 peer, closes>>

\* Shutdown fails on a socket that has not connected; the exception is
\* swallowed.
ShutdownTakes == connected

Shutdown(a) ==
  /\ At(a, "shutdown")
  /\ shut' = (shut \/ ShutdownTakes)
  /\ Disposed(a)
  /\ UNCHANGED <<state, connectStarted, attached, connected, requested, registered, todo, inFlight,
                 heartbeat, peer, closes>>

Disposing(a) == Abort(a) \/ Dispose(a) \/ Shutdown(a)

\* The program aborts or disposes of the object that it has not destroyed.
Alive == At("dtor", "idle")

UserCalls ==
  /\ Alive /\ At("user", "idle")
  /\ \E call \in {"abort", "dispose"} \cap plan.stops : Go("user", call)
  /\ UNCHANGED <<state, connectStarted, socket, token, inFlight, heartbeat,
                 peer, closes>>

----------------------------------------------------------------------------
(* The frame of an operation: beginAsyncOperation, CancellationScope, and  *)
(* their release.                                                          *)

InCall(a) == pc[a] \notin {"idle", "notify"}

\* MUTANT: an operation that is not counted, as ConnectAsync once was not.
CountedWithoutConnect(a) == IF a = "connect" THEN 0 ELSE 1

Counted(a) == 1

StartConnect ==
  /\ Alive /\ ~connectStarted
  /\ connectStarted' = TRUE
  /\ state' = "Connecting"
  /\ inFlight' = inFlight + Counted("connect")
  /\ Go("connect", "scope")
  /\ UNCHANGED <<socket, token, heartbeat, peer, closes>>

Start(a) ==
  /\ Alive /\ a \in plan.ops \ {"connect"} /\ pc[a] = "idle"
  /\ plan.early \/ (connectStarted /\ ~InCall("connect"))
  /\ inFlight' = inFlight + Counted(a)
  /\ Go(a, "scope")
  /\ UNCHANGED <<state, connectStarted, socket, token, heartbeat, peer, closes>>

\* ThrowIfCancellationRequested makes the operation fail at once.
Scope(a) ==
  /\ At(a, "scope")
  /\ Go(a, IF requested THEN "release" ELSE "register")
  /\ UNCHANGED <<state, connectStarted, socket, token, inFlight, heartbeat, peer, closes>>

\* Register runs the callback at once when the token was canceled meanwhile.
Register(a) ==
  /\ At(a, "register")
  /\ \/ requested /\ inline' = inline \cup {a} /\ registered' = registered /\ Go(a, "abort")
     \/ ~requested /\ registered' = registered \cup {a} /\ inline' = inline /\ Go(a, Body(a))
  /\ UNCHANGED <<state, connectStarted, socket, requested, todo, calling, inFlight, heartbeat, peer,
                 closes>>

\* The callbacks, taken out of the map, abort one after the other.
Cancel ==
  /\ "cancel" \in plan.stops /\ ~requested
  /\ requested' = TRUE
  /\ todo' = registered /\ registered' = {}
  /\ UNCHANGED <<state, connectStarted, socket, pc, calling, inline, inFlight, heartbeat, peer, closes>>

CancelCalls ==
  /\ At("canceller", "idle")
  /\ \E a \in todo : calling' = {a} /\ todo' = todo \ {a}
  /\ Go("canceller", "abort")
  /\ UNCHANGED <<state, connectStarted, socket, requested, registered, inline, inFlight, heartbeat,
                 peer, closes>>

\* ~CancellationScope: Dispose of the registration waits for its callback if
\* that is running.
Unregister(a) ==
  /\ At(a, "unregister") /\ a \notin calling
  /\ registered' = registered \ {a}
  /\ Go(a, "release")
  /\ UNCHANGED <<state, connectStarted, socket, requested, todo, calling, inline, inFlight, heartbeat,
                 peer, closes>>

\* ~AsyncOperationScope: the count under the mutex, the notification after it.
Release(a) ==
  /\ At(a, "release")
  /\ inFlight' = inFlight - Counted(a)
  /\ Go(a, "notify")
  /\ UNCHANGED <<state, connectStarted, socket, token, heartbeat, peer, closes>>

\* MUTANT: the destructor is not told of the last one that leaves.
WokenByNobody(place) == place

WokenBy(place) == IF place = "parked" THEN "waiting" ELSE place

NotifyIdle(a) ==
  /\ At(a, "notify")
  /\ pc' = [pc EXCEPT ![a] = "idle", !["dtor"] = WokenBy(@)]
  /\ UNCHANGED <<state, connectStarted, socket, token, inFlight, heartbeat,
                 peer, closes>>

Frame(a) == Scope(a) \/ Register(a) \/ Unregister(a) \/ Release(a) \/ NotifyIdle(a) \/ Disposing(a)

----------------------------------------------------------------------------
(* performHandshake. *)

PublishSocket ==
  /\ At("connect", "make")
  /\ \/ attached' = TRUE /\ Go("connect", "connecting")
     \/ attached' = attached /\ Go("connect", "dispose")  \* the URI is rejected
  /\ UNCHANGED <<state, connectStarted, connected, shut, token, inFlight,
                 heartbeat, peer, closes>>

Connect ==
  /\ At("connect", "connecting")
  /\ \/ connected' = TRUE /\ Go("connect", "handshake")
     \/ connected' = connected /\ Go("connect", "dispose")
  /\ UNCHANGED <<state, connectStarted, attached, shut, token, inFlight,
                 heartbeat, peer, closes>>

\* The response is read, also what arrived before the socket was shut down;
\* it is accepted or not.
ReadResponse ==
  /\ At("connect", "handshake")
  /\ \/ answered /\ Go("connect", "open")
     \/ (answered \/ shut \/ dropped) /\ Go("connect", "dispose")
  /\ UNCHANGED <<state, connectStarted, socket, token, inFlight, heartbeat,
                 peer, closes>>

StoreOpen ==
  /\ At("connect", "open")
  /\ state' = "Open"
  /\ Go("connect", "keepAlive")
  /\ UNCHANGED <<connectStarted, socket, token, inFlight, heartbeat, peer, closes>>

\* startKeepAlive publishes the state and then starts its thread.
PublishKeepAlive ==
  /\ At("connect", "keepAlive")
  /\ published' = (plan.keepAlive # "none")
  /\ Go("connect", IF plan.keepAlive = "none" THEN "unregister" ELSE "spawn")
  /\ UNCHANGED <<state, connectStarted, socket, token, inFlight, plan, stop, pingSent,
                 pingPayload, faulted, pongs, peer, closes>>

SpawnHeart ==
  /\ At("connect", "spawn")
  /\ pc' = [pc EXCEPT !["connect"] = "unregister", !["heart"] = "tick"]
  /\ UNCHANGED <<state, connectStarted, socket, token, inFlight, heartbeat, peer, closes>>

Handshake == PublishSocket \/ Connect \/ ReadResponse \/ StoreOpen \/ PublishKeepAlive \/ SpawnHeart

----------------------------------------------------------------------------
(* SendAsync, ReceiveAsync, CloseOutputAsync and CloseAsync. *)

\* throwIfNotConnected and ThrowOnInvalidState.
Allowed(a) == attached /\ (a \in {"send", "output"} => state \in {"Open", "CloseReceived"})
                       /\ (a = "receive" => state \in {"Open", "CloseSent"})

Gate(a) ==
  /\ At(a, "gate")
  /\ Go(a, IF ~Allowed(a) THEN "unregister"
           ELSE IF a = "close" /\ state # "Open" THEN "again" ELSE "ref")
  /\ UNCHANGED <<state, connectStarted, socket, token, inFlight, heartbeat,
                 peer, closes>>

\* socketForIo, before a frame is written or read.
Ref(a) ==
  /\ pc[a] \in {"ref", "loopRef", "pongRef"}
  /\ Go(a, CASE ~attached -> IF a = "heart" THEN "tick" ELSE "unregister"
             [] attached /\ (At(a, "loopRef") \/ (a = "receive" /\ At(a, "ref"))) -> "read"
             [] OTHER -> "write")
  /\ UNCHANGED <<state, connectStarted, socket, token, inFlight, heartbeat,
                 peer, closes>>

\* The Send of sendFrame: a data frame, a Close, the Pong that ReceiveAsync
\* owes, the heartbeat's Ping or Pong.
Written(a) == CASE a = "send" -> "unregister" [] a = "output" -> "mark" [] a = "close" -> "store"
                [] a = "receive" -> "ref" [] a = "heart" -> "tick"

Write(a) ==
  /\ At(a, "write")
  /\ \/ /\ ~shut
        /\ Go(a, Written(a))
        /\ wroteClose' = (wroteClose \/ a \in {"output", "close"})
        /\ pinged' = IF a = "heart" /\ plan.keepAlive = "ping" THEN pingPayload ELSE pinged
     \/ /\ shut \/ dropped
        /\ Go(a, IF a = "heart" THEN "tick" ELSE "unregister")
        /\ UNCHANGED <<wroteClose, pinged>>
  /\ UNCHANGED <<state, connectStarted, socket, token, inFlight, heartbeat,
                 answered, inbound, sent, dropped, torn, readClose, overwritten>>

\* The state that is about to be stored over already told of these Close frames.
StoresOver(told) == /\ overwritten' = (overwritten \/ state \in told)
                    /\ UNCHANGED <<wroteClose, readClose>>

\* MUTANT: a Close that was received in the meantime is forgotten.
OutputClosedPlainly == "CloseSent"

\* CloseOutputAsync after its Close was written.
OutputClosed == IF state = "CloseReceived" THEN "Closed" ELSE "CloseSent"

MarkOutput ==
  /\ At("output", "mark")
  /\ state' = OutputClosed
  /\ StoresOver({"Closed"})
  /\ Go("output", "unregister")
  /\ UNCHANGED <<connectStarted, socket, token, inFlight, heartbeat, peer>>

\* CloseAsync after its Close was written, whatever was stored meanwhile, and
\* the two questions it asks then.
StoreCloseSent ==
  /\ At("close", "store")
  /\ state' = "CloseSent"
  /\ StoresOver({"CloseReceived", "Closed"})
  /\ Go("close", "again")
  /\ UNCHANGED <<connectStarted, socket, token, inFlight, heartbeat, peer>>

CloseAgain ==
  /\ pc["close"] \in {"again", "loop"}
  /\ Go("close", CASE At("close", "again") -> IF state = "CloseSent" THEN "loop" ELSE "unregister"
                   [] OTHER -> IF state # "Closed" THEN "loopRef" ELSE "unregister")
  /\ UNCHANGED <<state, connectStarted, socket, token, inFlight, heartbeat,
                 peer, closes>>

\* readFrame blocks until there is a frame, or the end of the stream.
ReadFails(a) ==
  /\ At(a, "read") /\ inbound = <<>> /\ (shut \/ dropped)
  /\ Go(a, "unregister")
  /\ UNCHANGED <<state, connectStarted, socket, token, inFlight, heartbeat,
                 peer, closes>>

\* MUTANT: any pong is taken for the answer.
AnswersAny(frame) == TRUE

\* onPongReceived
Answers(frame) == pingSent /\ frame.payload = pingPayload

\* The frames there are: a Pong carries the payload of a Ping or another, 0.
Frames == [kind : {"data", "ping", "close", "bad"}, payload : {0}]
            \cup [kind : {"pong"}, payload : {0, pinged}]

BothRead == At("receive", "read") /\ At("close", "read")

\* readFrame takes a frame off the stream in several reads.  Where two readers
\* are at it, or one has given up in the middle of a frame, what is left of the
\* stream may look like any frame.
Readable == {Head(inbound)} \cup (IF torn \/ BothRead THEN Frames ELSE {})

ReadFrame(frame) ==
  /\ inbound' = Tail(inbound)
  /\ torn' = (torn \/ BothRead \/ frame.kind = "bad")

\* What ReceiveAsync does with a frame.
ReceiveFrame ==
  /\ At("receive", "read") /\ inbound # <<>>
  /\ \E frame \in Readable :
         /\ ReadFrame(frame)
         /\ Go("receive", CASE frame.kind = "ping" -> "pongRef" [] frame.kind = "pong" -> "ref"
                            [] frame.kind = "close" -> "closed" [] OTHER -> "unregister")
         /\ pingSent' = (pingSent /\ ~(frame.kind = "pong" /\ Answers(frame)))
         /\ pongs' = IF frame.kind = "pong" THEN pongs \cup ({frame.payload} \ {0}) ELSE pongs
         /\ readClose' = (readClose \/ frame.kind = "close")
  /\ UNCHANGED <<state, connectStarted, socket, token, inFlight, plan, published,
                 stop, pingPayload, faulted, answered, pinged, sent, dropped, wroteClose, overwritten>>

\* Its critical section for a Close frame.
MarkReceived ==
  /\ At("receive", "closed")
  /\ state' = IF state = "CloseSent" THEN "Closed" ELSE "CloseReceived"
  /\ StoresOver({"Closed"})
  /\ Go("receive", "unregister")
  /\ UNCHANGED <<connectStarted, socket, token, inFlight, heartbeat, peer>>

\* CloseAsync discards every frame but a Close.
CloseReads ==
  /\ At("close", "read") /\ inbound # <<>>
  /\ \E frame \in Readable :
         /\ ReadFrame(frame)
         /\ Go("close", CASE frame.kind = "bad" -> "unregister" [] frame.kind = "close" -> "finish"
                          [] OTHER -> "loop")
         /\ readClose' = (readClose \/ frame.kind = "close")
  /\ UNCHANGED <<state, connectStarted, socket, token, inFlight, heartbeat, answered,
                 pinged, sent, dropped, wroteClose, overwritten>>

\* Its critical section for a Close frame.
MarkClosed ==
  /\ At("close", "finish")
  /\ state' = "Closed"
  /\ Go("close", "loop")
  /\ UNCHANGED <<connectStarted, socket, token, inFlight, heartbeat, peer, closes>>

OpStep(a) == \/ Gate(a) \/ Ref(a) \/ Write(a) \/ ReadFails(a)
             \/ a = "output" /\ MarkOutput
             \/ a = "close" /\ (StoreCloseSent \/ CloseAgain \/ CloseReads \/ MarkClosed)
             \/ a = "receive" /\ (ReceiveFrame \/ MarkReceived)
             \/ a = "connect" /\ Handshake

----------------------------------------------------------------------------
(* The heartbeat. *)

\* The thread wakes at its tick, or because it is told to stop.
Tick ==
  /\ At("heart", "tick")
  /\ Go("heart", IF stop THEN "exited" ELSE "beat")
  /\ UNCHANGED <<state, connectStarted, socket, token, inFlight, heartbeat,
                 peer, closes>>

\* keepAliveHeartBeat decides under its mutex; the clock may say anything.
Beat ==
  /\ At("heart", "beat")
  /\ \/ /\ Go("heart", IF plan.keepAlive = "pong" THEN "ref" ELSE "tick")  \* or it is not time
        /\ UNCHANGED <<pingSent, pingPayload, faulted>>
     \/ /\ plan.keepAlive = "ping" /\ pingSent /\ ~faulted  \* the answer is overdue
        /\ faulted' = TRUE
        /\ Go("heart", "abort")
        /\ UNCHANGED <<pingSent, pingPayload>>
     \/ /\ plan.keepAlive = "ping" /\ ~pingSent /\ ~faulted /\ pingPayload < MaxPings
        /\ pingSent' = TRUE
        /\ pingPayload' = pingPayload + 1
        /\ Go("heart", "ref")
        /\ UNCHANGED faulted
  /\ UNCHANGED <<state, connectStarted, socket, token, inFlight, plan, published, stop, pongs,
                 peer, closes>>

HeartStep == Tick \/ Beat \/ Ref("heart") \/ Write("heart") \/ Disposing("heart")

----------------------------------------------------------------------------
(* The destructor. *)

\* stopKeepAlive looks for a heartbeat, tells it to stop, shuts the socket
\* down and joins the thread if it was started.
Destroy ==
  /\ "destroy" \in plan.stops /\ Alive /\ At("user", "idle")
  /\ stop' = published
  /\ Go("dtor", IF published THEN "stopping" ELSE "wait")
  /\ UNCHANGED <<state, connectStarted, socket, token, inFlight, plan, published, pingSent,
                 pingPayload, faulted, pongs, peer, closes>>

StopKeepAlive ==
  /\ At("dtor", "stopping")
  /\ shut' = (shut \/ (attached /\ ShutdownTakes))
  /\ Go("dtor", "joining")
  /\ UNCHANGED <<state, connectStarted, attached, connected, token, inFlight,
                 heartbeat, peer, closes>>

JoinHeart ==
  /\ At("dtor", "joining") /\ pc["heart"] \in {"idle", "exited"}
  /\ pc' = [pc EXCEPT !["dtor"] = "wait", !["heart"] = IF @ = "exited" THEN "joined" ELSE @]
  /\ UNCHANGED <<state, connectStarted, socket, token, inFlight, heartbeat, peer, closes>>

\* waitForAsyncOperations shuts the socket down if there is something to
\* wait for, and waits until nothing is in flight.
ShutForWait ==
  /\ At("dtor", "wait")
  /\ shut' = (shut \/ (inFlight > 0 /\ attached /\ ShutdownTakes))
  /\ Go("dtor", IF inFlight = 0 THEN "dispose" ELSE "waiting")
  /\ UNCHANGED <<state, connectStarted, attached, connected, token, inFlight,
                 heartbeat, peer, closes>>

WaitIdle ==
  /\ At("dtor", "waiting")
  /\ Go("dtor", IF inFlight = 0 THEN "dispose" ELSE "parked")
  /\ UNCHANGED <<state, connectStarted, socket, token, inFlight, heartbeat,
                 peer, closes>>

DtorStep == StopKeepAlive \/ JoinHeart \/ ShutForWait \/ WaitIdle \/ Disposing("dtor")

----------------------------------------------------------------------------
(* The peer. *)

Answer ==
  /\ ~answered /\ At("connect", "handshake") /\ ~dropped
  /\ answered' = TRUE
  /\ UNCHANGED <<state, connectStarted, socket, pc, token, inFlight, heartbeat,
                 inbound, pinged, sent, dropped, torn, closes>>

\* A frame of any kind, also after a Close; a Pong answers the last Ping or is
\* unsolicited.  A "bad" frame is one that readFrame or ReceiveAsync rejects.
PeerSends ==
  /\ answered /\ ~dropped /\ sent < plan.frames
  /\ \E frame \in Frames : inbound' = Append(inbound, frame)
  /\ sent' = sent + 1
  /\ UNCHANGED <<state, connectStarted, socket, pc, token, inFlight, heartbeat,
                 answered, pinged, dropped, torn, closes>>

PeerDrops ==
  /\ connected /\ ~dropped /\ dropped' = TRUE
  /\ UNCHANGED <<state, connectStarted, socket, pc, token, inFlight, heartbeat,
                 answered, inbound, pinged, sent, torn, closes>>

----------------------------------------------------------------------------

Next ==
  \/ StartConnect \/ UserCalls \/ Cancel \/ CancelCalls \/ Destroy
  \/ \E a \in Ops : Start(a) \/ Frame(a) \/ OpStep(a)
  \/ Disposing("canceller") \/ Disposing("user")
  \/ HeartStep \/ DtorStep
  \/ Answer \/ PeerSends \/ PeerDrops

Spec == Init /\ [][Next]_vars

\* A blocked Send goes on only when the connection ends.
Goes(a) == At(a, "write") => shut \/ dropped

\* Every thread of the object that can go on goes on, and Cancel runs its
\* callbacks.  Nothing is asked of the program or of the peer, who may never
\* send, never answer and never read.
FairSpec ==
  /\ Spec
  /\ \A a \in Ops : WF_vars(Goes(a) /\ (Frame(a) \/ OpStep(a)))
  /\ WF_vars(CancelCalls \/ Disposing("canceller")) /\ WF_vars(Disposing("user"))
  /\ WF_vars(Goes("heart") /\ HeartStep) /\ WF_vars(DtorStep)

----------------------------------------------------------------------------
(* Properties *)

States == {"None", "Connecting", "Open", "CloseSent", "CloseReceived", "Closed", "Aborted"}

\* The type invariant.
TypeOK ==
  /\ state \in States /\ inFlight \in 0 .. Cardinality(Ops)
  /\ {connectStarted, attached, connected, shut, requested, published, stop, pingSent, faulted,
      answered, dropped, torn, wroteClose, readClose, overwritten} \subseteq BOOLEAN
  /\ registered \subseteq Ops /\ todo \subseteq Ops /\ calling \subseteq Ops /\ inline \subseteq Ops
  /\ pingPayload \in 0 .. MaxPings /\ sent \in 0 .. plan.frames

\* The object outlives the workers that use it: the destructor comes to its
\* end only when none of them is in a call.
OutlivesOperations == At("dtor", "gone") => \A a \in Ops : ~InCall(a)

\* A Close frame has gone both ways when an object that still has its socket
\* says Closed, and one has come when it says CloseReceived, whichever
\* operations closed beside one another.  When both have and no operation is
\* under way, it does say so, unless a store wiped out what was recorded (the
\* plain storeState(CloseSent) of CloseAsync over a Close that ReceiveAsync saw).
CloseIsMutual ==
  attached /\ ~InCall("connect") /\ (\A a \in Actors : ~At(a, "dispose")) =>
    /\ state = "Closed" => wroteClose /\ readClose
    /\ state = "CloseReceived" => readClose
    /\ wroteClose /\ readClose /\ ~overwritten /\ (\A a \in Ops : ~InCall(a))
         => state \in {"Closed", "Aborted"}

\* A ping counts as answered only when the pong with its payload was read.
PongAnswersPing == pingPayload > 0 /\ ~pingSent => pingPayload \in pongs

\* The state is well formed, and the object outlives the operations counted in it.
SocketInv == TypeOK /\ OutlivesOperations

\* An operation blocked in a read or a write comes to its end once the socket
\* is shut down, a ping has gone unanswered or its token is canceled, whatever
\* the peer does.  (A connect that is canceled may wait for the peer.)
Ending(a) == shut \/ faulted \/ (requested /\ a # "connect")

EndingEndsOperations == \A a \in Ops : (Ending(a) /\ InCall(a)) ~> ~InCall(a)

\* An object whose connection is shut down gets through its destructor.
DestructorEnds == (shut /\ ~Alive) ~> At("dtor", "gone")

\* Nothing that the socket's end should release stays blocked.
EndReleasesAll == EndingEndsOperations /\ DestructorEnds

\* Abort and cancellation are final: "the ClientWebSocket is Aborted and
\* cannot be used again".
AbortedIsFinal == [][state = "Aborted" => state' = "Aborted"]_vars

\* "joining it here -- never from itself -- is what keeps `this' alive for its
\* whole run": no heartbeat runs when the object is gone.
HeartbeatWithinLifetime == At("dtor", "gone") => pc["heart"] \in {"idle", "joined"}
=============================================================================
