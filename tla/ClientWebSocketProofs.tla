----------------------- MODULE ClientWebSocketProofs -----------------------
(* Theorems about ClientWebSocket, for any program and any number of frames and *)
(* pings.                                                                       *)
EXTENDS ClientWebSocket, FiniteSetTheorems, TLAPS

\* Where the frame of an operation may stand.
Framed == {"idle", "scope", "register", "abort", "dispose", "shutdown", "unregister", "release",
           "notify"}

\* Where each thread may stand.
Places(a) ==
  CASE a = "connect" -> Framed \cup {"make", "connecting", "handshake", "open", "keepAlive", "spawn"}
    [] a = "send"    -> Framed \cup {"gate", "ref", "write"}
    [] a = "receive" -> Framed \cup {"gate", "ref", "read", "pongRef", "write", "closed"}
    [] a = "close"   -> Framed \cup {"gate", "ref", "write", "store", "again", "loop", "loopRef", "read",
                               "finish"}
    [] a = "output"  -> Framed \cup {"gate", "ref", "write", "mark"}
    [] a = "heart"   -> {"idle", "tick", "beat", "ref", "write", "abort", "dispose", "shutdown",
                         "exited", "joined"}
    [] a = "dtor"    -> {"idle", "stopping", "joining", "wait", "waiting", "parked", "dispose",
                         "shutdown", "gone"}
    [] OTHER         -> {"idle", "abort", "dispose", "shutdown"}

\* The variables have their types.
Shape ==
  /\ state \in States /\ plan \in Plans
  /\ connectStarted \in BOOLEAN /\ attached \in BOOLEAN /\ connected \in BOOLEAN /\ shut \in BOOLEAN
  /\ requested \in BOOLEAN /\ published \in BOOLEAN /\ stop \in BOOLEAN /\ pingSent \in BOOLEAN
  /\ faulted \in BOOLEAN /\ answered \in BOOLEAN /\ dropped \in BOOLEAN
  /\ torn \in BOOLEAN /\ wroteClose \in BOOLEAN /\ readClose \in BOOLEAN /\ overwritten \in BOOLEAN
  /\ registered \subseteq Ops /\ todo \subseteq Ops /\ calling \subseteq Ops /\ inline \subseteq Ops
  /\ pingPayload \in Nat /\ pingPayload <= MaxPings
  /\ sent \in Nat /\ sent <= plan.frames

\* Every thread is where its code may be.
InPlace == pc = [a \in Actors |-> pc[a]] /\ \A a \in Actors : pc[a] \in Places(a)

\* A thread that moves leaves the others where they are.
LEMMA Moves ==
  ASSUME InPlace, NEW a \in Actors, NEW p, Go(a, p)
  PROVE  /\ pc[a] \in Places(a) /\ pc'[a] = p /\ \A b \in Actors \ {a} : pc'[b] = pc[b]
         /\ p \in Places(a) => InPlace'
BY DEF InPlace, Go

\* Likewise when two threads move in one step.
GoBoth(a, p, b, q) == pc' = [pc EXCEPT ![a] = p, ![b] = q]

\* They leave the others where they are.
LEMMA MovesTwo ==
  ASSUME InPlace, NEW a \in Actors, NEW b \in Actors, a # b, NEW p, NEW q, GoBoth(a, p, b, q)
  PROVE  /\ pc[a] \in Places(a) /\ pc[b] \in Places(b) /\ pc'[a] = p /\ pc'[b] = q
         /\ \A c \in Actors \ {a, b} : pc'[c] = pc[c]
         /\ p \in Places(a) /\ q \in Places(b) => InPlace'
BY DEF InPlace, GoBoth

\* The threads.
LEMMA ActorFacts ==
  /\ "connect" \in Actors /\ "send" \in Actors /\ "receive" \in Actors /\ "close" \in Actors
  /\ "output" \in Actors /\ "heart" \in Actors /\ "canceller" \in Actors /\ "user" \in Actors
  /\ "dtor" \in Actors /\ Ops \subseteq Actors
BY DEF Actors, Ops

\* Every step keeps the types.
LEMMA ShapeNext == Shape /\ [Next]_vars => Shape'
<1> SUFFICES ASSUME Shape, [Next]_vars PROVE Shape' OBVIOUS
<1> USE DEF Shape, socket, token, heartbeat, peer, closes
<1>1. ASSUME StartConnect PROVE Shape' BY <1>1 DEF StartConnect, States
<1>2. ASSUME UserCalls PROVE Shape' BY <1>2 DEF UserCalls
<1>3. ASSUME Cancel PROVE Shape' BY <1>3 DEF Cancel
<1>4. ASSUME CancelCalls PROVE Shape' BY <1>4 DEF CancelCalls
<1>5. ASSUME Destroy PROVE Shape' BY <1>5 DEF Destroy
<1>6. ASSUME NEW a \in Ops, Start(a) PROVE Shape' BY <1>6 DEF Start
<1>7. ASSUME NEW a \in Ops, Scope(a) PROVE Shape' BY <1>7 DEF Scope
<1>8. ASSUME NEW a \in Ops, Register(a) PROVE Shape' BY <1>8 DEF Register, Body
<1>9. ASSUME NEW a \in Ops, Unregister(a) PROVE Shape' BY <1>9 DEF Unregister
<1>10. ASSUME NEW a \in Ops, Release(a) PROVE Shape' BY <1>10 DEF Release
<1>11. ASSUME NEW a \in Ops, NotifyIdle(a) PROVE Shape' BY <1>11 DEF NotifyIdle, WokenBy
<1>12. ASSUME NEW a \in Actors, Abort(a) PROVE Shape' BY <1>12 DEF Abort, AbortedState, States
<1>13. ASSUME NEW a \in Actors, Dispose(a) PROVE Shape'
  <2>1. state' \in States BY <1>13 DEF Dispose, States
  <2>2. attached' \in BOOLEAN /\ calling' \subseteq Ops /\ inline' \subseteq Ops
    BY <1>13 DEF Dispose, Disposed
  <2> QED BY <1>13, <2>1, <2>2 DEF Dispose
<1>14. ASSUME NEW a \in Actors, Shutdown(a) PROVE Shape' BY <1>14 DEF Shutdown, Disposed, Body, ShutdownTakes
<1>15. ASSUME PublishSocket PROVE Shape'
  <2>1. attached' \in BOOLEAN BY <1>15 DEF PublishSocket
  <2> QED BY <1>15, <2>1 DEF PublishSocket
<1>16. ASSUME Connect PROVE Shape'
  <2>1. connected' \in BOOLEAN BY <1>16 DEF Connect
  <2> QED BY <1>16, <2>1 DEF Connect
<1>17. ASSUME ReadResponse PROVE Shape' BY <1>17 DEF ReadResponse
<1>18. ASSUME StoreOpen PROVE Shape' BY <1>18 DEF StoreOpen, States
<1>19. ASSUME PublishKeepAlive PROVE Shape' BY <1>19 DEF PublishKeepAlive
<1>20. ASSUME SpawnHeart PROVE Shape' BY <1>20 DEF SpawnHeart
<1>21. ASSUME NEW a \in Ops, Gate(a) PROVE Shape' BY <1>21 DEF Gate, Allowed
<1>22. ASSUME NEW a \in Ops \cup {"heart"}, Ref(a) PROVE Shape' BY <1>22 DEF Ref
<1>23. ASSUME NEW a \in Ops \cup {"heart"}, Write(a) PROVE Shape'
  <2>1. wroteClose' \in BOOLEAN BY <1>23 DEF Write
  <2> QED BY <1>23, <2>1 DEF Write
<1>24. ASSUME NEW a \in Ops, ReadFails(a) PROVE Shape' BY <1>24 DEF ReadFails
<1>25. ASSUME MarkOutput PROVE Shape' BY <1>25 DEF MarkOutput, OutputClosed, StoresOver, States
<1>26. ASSUME StoreCloseSent PROVE Shape' BY <1>26 DEF StoreCloseSent, StoresOver, States
<1>27. ASSUME CloseAgain PROVE Shape' BY <1>27 DEF CloseAgain
<1>28. ASSUME CloseReads PROVE Shape'
  <2>1. readClose' \in BOOLEAN /\ torn' \in BOOLEAN BY <1>28 DEF CloseReads, ReadFrame
  <2> QED BY <1>28, <2>1 DEF CloseReads
<1>41. ASSUME MarkClosed PROVE Shape' BY <1>41 DEF MarkClosed, States
<1>29. ASSUME ReceiveFrame PROVE Shape'
  <2>1. readClose' \in BOOLEAN /\ torn' \in BOOLEAN /\ pingSent' \in BOOLEAN BY <1>29 DEF ReceiveFrame, ReadFrame
  <2> QED BY <1>29, <2>1 DEF ReceiveFrame
<1>30. ASSUME MarkReceived PROVE Shape' BY <1>30 DEF MarkReceived, StoresOver, States
<1>31. ASSUME Tick PROVE Shape' BY <1>31 DEF Tick
<1>32. ASSUME Beat PROVE Shape'
  <2>1. pingPayload' \in Nat /\ pingPayload' <= MaxPings
    BY <1>32, SocketAssumption DEF Beat
  <2>2. pingSent' \in BOOLEAN /\ faulted' \in BOOLEAN BY <1>32 DEF Beat
  <2> QED BY <1>32, <2>1, <2>2 DEF Beat
<1>33. ASSUME StopKeepAlive PROVE Shape' BY <1>33 DEF StopKeepAlive, ShutdownTakes
<1>34. ASSUME JoinHeart PROVE Shape' BY <1>34 DEF JoinHeart
<1>35. ASSUME ShutForWait PROVE Shape' BY <1>35 DEF ShutForWait, ShutdownTakes
<1>36. ASSUME WaitIdle PROVE Shape' BY <1>36 DEF WaitIdle
<1>37. ASSUME Answer PROVE Shape' BY <1>37 DEF Answer
<1>38. ASSUME PeerSends PROVE Shape'
  <2>1. plan.frames \in Nat BY SocketAssumption
  <2>2. sent' \in Nat /\ sent' <= plan'.frames BY <1>38, <2>1 DEF PeerSends
  <2> QED BY <1>38, <2>2 DEF PeerSends
<1>39. ASSUME PeerDrops PROVE Shape' BY <1>39 DEF PeerDrops
<1>40. ASSUME UNCHANGED vars PROVE Shape' BY <1>40 DEF vars
<1> QED BY <1>1, <1>2, <1>3, <1>4, <1>5, <1>6, <1>7, <1>8, <1>9, <1>10, <1>11, <1>12, <1>13, <1>14, <1>15, <1>16, <1>17, <1>18, <1>19, <1>20, <1>21, <1>22, <1>23, <1>24, <1>25, <1>26, <1>27, <1>28, <1>29, <1>30, <1>31, <1>32, <1>33, <1>34, <1>35, <1>36, <1>37, <1>38, <1>39, <1>40, <1>41
        DEF Next, Frame, OpStep, Handshake, Disposing, HeartStep, DtorStep, Actors, Ops

\* Every step keeps to the places.
LEMMA PlacesNext == Shape /\ InPlace /\ [Next]_vars => InPlace'
<1> SUFFICES ASSUME Shape, InPlace, [Next]_vars PROVE InPlace' OBVIOUS
<1> USE DEF At, Shape
<1>1. ASSUME StartConnect PROVE InPlace' BY Moves, ActorFacts, <1>1 DEF StartConnect, Places, Framed, Ops
<1>2. ASSUME UserCalls PROVE InPlace' BY Moves, ActorFacts, <1>2 DEF UserCalls, Places, Framed, Ops
<1>3. ASSUME Cancel PROVE InPlace'
  BY <1>3 DEF Cancel, InPlace
<1>4. ASSUME CancelCalls PROVE InPlace' BY Moves, ActorFacts, <1>4 DEF CancelCalls, Places, Framed, Ops
<1>5. ASSUME Destroy PROVE InPlace' BY Moves, ActorFacts, <1>5 DEF Destroy, Places, Framed, Ops
<1>6. ASSUME NEW a \in Ops, Start(a) PROVE InPlace' BY Moves, ActorFacts, <1>6 DEF Start, Places, Framed, Ops
<1>7. ASSUME NEW a \in Ops, Scope(a) PROVE InPlace' BY Moves, ActorFacts, <1>7 DEF Scope, Places, Framed, Ops
<1>8. ASSUME NEW a \in Ops, Register(a) PROVE InPlace' BY Moves, ActorFacts, <1>8 DEF Register, Body, Places, Framed, Ops
<1>9. ASSUME NEW a \in Ops, Unregister(a) PROVE InPlace' BY Moves, ActorFacts, <1>9 DEF Unregister, Places, Framed, Ops
<1>10. ASSUME NEW a \in Ops, Release(a) PROVE InPlace' BY Moves, ActorFacts, <1>10 DEF Release, Places, Framed, Ops
<1>11. ASSUME NEW a \in Ops, NotifyIdle(a) PROVE InPlace'
  <2>1. a # "dtor" BY DEF Ops
  <2>2. GoBoth(a, "idle", "dtor", WokenBy(pc["dtor"])) BY <1>11, <2>1, ActorFacts DEF NotifyIdle, InPlace, GoBoth
  <2>3. "idle" \in Places(a) BY DEF Places, Framed, Ops
  <2>4. pc["dtor"] \in Places("dtor") BY ActorFacts DEF InPlace
  <2>5. WokenBy(pc["dtor"]) \in Places("dtor") BY <2>4 DEF WokenBy, Places
  <2> QED BY <2>1, <2>2, <2>3, <2>5, MovesTwo, ActorFacts
<1>12. ASSUME NEW a \in Actors, Abort(a) PROVE InPlace' BY Moves, ActorFacts, <1>12 DEF Abort, AbortedState, Places, Framed, Ops
<1>13. ASSUME NEW a \in Actors, Dispose(a) PROVE InPlace' BY Moves, ActorFacts, <1>13 DEF Dispose, Disposed, Body, Places, Framed, Ops
<1>14. ASSUME NEW a \in Actors, Shutdown(a) PROVE InPlace' BY Moves, ActorFacts, <1>14 DEF Shutdown, Disposed, Body, ShutdownTakes, Places, Framed, Ops
<1>15. ASSUME PublishSocket PROVE InPlace' BY Moves, ActorFacts, <1>15 DEF PublishSocket, Places, Framed, Ops
<1>16. ASSUME Connect PROVE InPlace' BY Moves, ActorFacts, <1>16 DEF Connect, Places, Framed, Ops
<1>17. ASSUME ReadResponse PROVE InPlace' BY Moves, ActorFacts, <1>17 DEF ReadResponse, Places, Framed, Ops
<1>18. ASSUME StoreOpen PROVE InPlace' BY Moves, ActorFacts, <1>18 DEF StoreOpen, Places, Framed, Ops
<1>19. ASSUME PublishKeepAlive PROVE InPlace' BY Moves, ActorFacts, <1>19 DEF PublishKeepAlive, Places, Framed, Ops
<1>20. ASSUME SpawnHeart PROVE InPlace'
  <2>1. "unregister" \in Places("connect") /\ "tick" \in Places("heart") BY DEF Places, Framed
  <2> QED BY <1>20, <2>1, MovesTwo, ActorFacts DEF SpawnHeart, GoBoth
<1>21. ASSUME NEW a \in Ops, Gate(a) PROVE InPlace' BY Moves, ActorFacts, <1>21 DEF Gate, Allowed, Places, Framed, Ops
<1>22. ASSUME NEW a \in Ops \cup {"heart"}, Ref(a) PROVE InPlace' BY Moves, ActorFacts, <1>22 DEF Ref, Places, Framed, Ops
<1>23. ASSUME NEW a \in Ops \cup {"heart"}, Write(a) PROVE InPlace' BY Moves, ActorFacts, <1>23 DEF Write, Written, Places, Framed, Ops
<1>24. ASSUME NEW a \in Ops, ReadFails(a) PROVE InPlace' BY Moves, ActorFacts, <1>24 DEF ReadFails, Places, Framed, Ops
<1>25. ASSUME MarkOutput PROVE InPlace' BY Moves, ActorFacts, <1>25 DEF MarkOutput, OutputClosed, Places, Framed, Ops
<1>26. ASSUME StoreCloseSent PROVE InPlace' BY Moves, ActorFacts, <1>26 DEF StoreCloseSent, Places, Framed, Ops
<1>27. ASSUME CloseAgain PROVE InPlace' BY Moves, ActorFacts, <1>27 DEF CloseAgain, Places, Framed, Ops
<1>28. ASSUME CloseReads PROVE InPlace' BY Moves, ActorFacts, <1>28 DEF CloseReads, Places, Framed, Ops
<1>41. ASSUME MarkClosed PROVE InPlace' BY Moves, ActorFacts, <1>41 DEF MarkClosed, Places, Framed, Ops
<1>29. ASSUME ReceiveFrame PROVE InPlace' BY Moves, ActorFacts, <1>29 DEF ReceiveFrame, Answers, Places, Framed, Ops
<1>30. ASSUME MarkReceived PROVE InPlace' BY Moves, ActorFacts, <1>30 DEF MarkReceived, Places, Framed, Ops
<1>31. ASSUME Tick PROVE InPlace' BY Moves, ActorFacts, <1>31 DEF Tick, Places, Framed, Ops
<1>32. ASSUME Beat PROVE InPlace' BY Moves, ActorFacts, <1>32 DEF Beat, Places, Framed, Ops
<1>33. ASSUME StopKeepAlive PROVE InPlace' BY Moves, ActorFacts, <1>33 DEF StopKeepAlive, ShutdownTakes, Places, Framed, Ops
<1>34. ASSUME JoinHeart PROVE InPlace'
  <2>1. GoBoth("dtor", "wait", "heart", IF pc["heart"] = "exited" THEN "joined" ELSE pc["heart"])
    BY <1>34, ActorFacts DEF JoinHeart, InPlace, GoBoth
  <2>2. pc["heart"] \in Places("heart") BY ActorFacts DEF InPlace
  <2>3. (IF pc["heart"] = "exited" THEN "joined" ELSE pc["heart"]) \in Places("heart") BY <2>2 DEF Places
  <2>4. "wait" \in Places("dtor") BY DEF Places
  <2> QED BY <2>1, <2>3, <2>4, MovesTwo, ActorFacts
<1>35. ASSUME ShutForWait PROVE InPlace' BY Moves, ActorFacts, <1>35 DEF ShutForWait, ShutdownTakes, Places, Framed, Ops
<1>36. ASSUME WaitIdle PROVE InPlace' BY Moves, ActorFacts, <1>36 DEF WaitIdle, Places, Framed, Ops
<1>37. ASSUME Answer PROVE InPlace'
  BY <1>37 DEF Answer, InPlace
<1>38. ASSUME PeerSends PROVE InPlace'
  BY <1>38 DEF PeerSends, InPlace
<1>39. ASSUME PeerDrops PROVE InPlace'
  BY <1>39 DEF PeerDrops, InPlace
<1>40. ASSUME UNCHANGED vars PROVE InPlace'
  BY <1>40 DEF vars, InPlace
<1> QED BY <1>1, <1>2, <1>3, <1>4, <1>5, <1>6, <1>7, <1>8, <1>9, <1>10, <1>11, <1>12, <1>13, <1>14, <1>15, <1>16, <1>17, <1>18, <1>19, <1>20, <1>21, <1>22, <1>23, <1>24, <1>25, <1>26, <1>27, <1>28, <1>29, <1>30, <1>31, <1>32, <1>33, <1>34, <1>35, <1>36, <1>37, <1>38, <1>39, <1>40, <1>41
        DEF Next, Frame, OpStep, Handshake, Disposing, HeartStep, DtorStep, Actors, Ops

(* Calls, and their count. *)
\* The operations in a call.
Calls == {a \in Ops : InCall(a)}

\* A step that takes no operation into a call or out of one.
SameCalls ==
  /\ UNCHANGED <<inFlight, connectStarted>>
  /\ \A a \in Ops : InCall(a)' <=> InCall(a)
  /\ pc'["dtor"] \in {"dispose", "shutdown", "gone"} =>
       pc["dtor"] \in {"dispose", "shutdown", "gone"} \/ inFlight = 0

\* The same, of the places.
LEMMA SameCallsIf ==
  ASSUME UNCHANGED <<inFlight, connectStarted>>,
         \A a \in Ops : pc'[a] \in {"idle", "notify"} <=> pc[a] \in {"idle", "notify"},
         pc'["dtor"] \in {"dispose", "shutdown", "gone"} =>
           pc["dtor"] \in {"dispose", "shutdown", "gone"} \/ inFlight = 0
  PROVE  SameCalls
BY DEF SameCalls, InCall

\* Only the start of an operation and its release change who is in a call.
LEMMA CallsChange == 
  Shape /\ InPlace /\ [Next]_vars
    => StartConnect \/ (\E a \in Ops : Start(a) \/ Release(a)) \/ SameCalls
<1> SUFFICES ASSUME Shape, InPlace, [Next]_vars PROVE StartConnect \/ (\E a \in Ops : Start(a) \/ Release(a)) \/ SameCalls OBVIOUS
<1> USE DEF At
<1>1. ASSUME UserCalls PROVE SameCalls BY SameCallsIf, Moves, ActorFacts, <1>1 DEF UserCalls, Ops
<1>2. ASSUME Cancel PROVE SameCalls BY SameCallsIf, Moves, ActorFacts, <1>2 DEF Cancel, Ops
<1>3. ASSUME CancelCalls PROVE SameCalls BY SameCallsIf, Moves, ActorFacts, <1>3 DEF CancelCalls, Ops
<1>4. ASSUME Destroy PROVE SameCalls BY SameCallsIf, Moves, ActorFacts, <1>4 DEF Destroy, Ops
<1>5. ASSUME NEW a \in Ops, Scope(a) PROVE SameCalls BY SameCallsIf, Moves, ActorFacts, <1>5 DEF Scope, Ops
<1>6. ASSUME NEW a \in Ops, Register(a) PROVE SameCalls BY SameCallsIf, Moves, ActorFacts, <1>6 DEF Register, Body, Ops
<1>7. ASSUME NEW a \in Ops, Unregister(a) PROVE SameCalls BY SameCallsIf, Moves, ActorFacts, <1>7 DEF Unregister, Ops
<1>8. ASSUME NEW a \in Ops, NotifyIdle(a) PROVE SameCalls
  <2>0. pc[a] = "notify" /\ a \in Actors BY <1>8, ActorFacts DEF NotifyIdle
  <2>1. a # "dtor" BY DEF Ops
  <2>2. GoBoth(a, "idle", "dtor", WokenBy(pc["dtor"])) BY <1>8, <2>1, ActorFacts DEF NotifyIdle, InPlace, GoBoth
  <2>3. /\ pc[a] = "notify" /\ pc'[a] = "idle" /\ pc'["dtor"] = WokenBy(pc["dtor"])
        /\ \A c \in Actors \ {a, "dtor"} : pc'[c] = pc[c]
    BY <2>0, <2>1, <2>2, MovesTwo, ActorFacts
  <2> QED BY <1>8, <2>3, ActorFacts, SameCallsIf DEF NotifyIdle, WokenBy, Ops
<1>9. ASSUME NEW a \in Actors, Abort(a) PROVE SameCalls
  <2>1. a # "dtor" BY <1>9, ActorFacts DEF Abort, InPlace, Places
  <2> QED BY <1>9, <2>1, SameCallsIf, Moves, ActorFacts DEF Abort, Ops
<1>10. ASSUME NEW a \in Actors, Dispose(a) PROVE SameCalls BY SameCallsIf, Moves, ActorFacts, <1>10 DEF Dispose, Disposed, Body, Ops
<1>11. ASSUME NEW a \in Actors, Shutdown(a) PROVE SameCalls BY SameCallsIf, Moves, ActorFacts, <1>11 DEF Shutdown, Disposed, Body, ShutdownTakes, Ops
<1>12. ASSUME PublishSocket PROVE SameCalls BY SameCallsIf, Moves, ActorFacts, <1>12 DEF PublishSocket, Ops
<1>13. ASSUME Connect PROVE SameCalls BY SameCallsIf, Moves, ActorFacts, <1>13 DEF Connect, Ops
<1>14. ASSUME ReadResponse PROVE SameCalls BY SameCallsIf, Moves, ActorFacts, <1>14 DEF ReadResponse, Ops
<1>15. ASSUME StoreOpen PROVE SameCalls BY SameCallsIf, Moves, ActorFacts, <1>15 DEF StoreOpen, Ops
<1>16. ASSUME PublishKeepAlive PROVE SameCalls BY SameCallsIf, Moves, ActorFacts, <1>16 DEF PublishKeepAlive, Ops
<1>17. ASSUME SpawnHeart PROVE SameCalls
  <2>3. /\ pc["connect"] = "spawn" /\ pc'["connect"] = "unregister"
        /\ \A c \in Actors \ {"connect", "heart"} : pc'[c] = pc[c]
    BY <1>17, ActorFacts DEF SpawnHeart, InPlace
  <2> QED BY <1>17, <2>3, ActorFacts, SameCallsIf DEF SpawnHeart, Ops
<1>18. ASSUME NEW a \in Ops, Gate(a) PROVE SameCalls BY SameCallsIf, Moves, ActorFacts, <1>18 DEF Gate, Allowed, Ops
<1>19. ASSUME NEW a \in Ops \cup {"heart"}, Ref(a) PROVE SameCalls BY SameCallsIf, Moves, ActorFacts, <1>19 DEF Ref, Ops
<1>20. ASSUME NEW a \in Ops \cup {"heart"}, Write(a) PROVE SameCalls
  <2>0. a \in Actors /\ pc[a] = "write" /\ pc[a] \in Places(a) BY <1>20, ActorFacts DEF Write, InPlace
  <2>1. a \in {"send", "receive", "close", "output", "heart"} BY <2>0 DEF Places, Ops, Framed
  <2>2. Written(a) \notin {"idle", "notify"} BY <2>1 DEF Written
  <2>3. Go(a, Written(a)) \/ Go(a, "tick") \/ Go(a, "unregister") BY <1>20 DEF Write
  <2>4. pc'[a] \notin {"idle", "notify"} /\ \A b \in Actors \ {a} : pc'[b] = pc[b]
    BY <2>0, <2>2, <2>3, Moves
  <2> QED BY <1>20, <2>0, <2>1, <2>4, SameCallsIf, ActorFacts DEF Write
<1>21. ASSUME NEW a \in Ops, ReadFails(a) PROVE SameCalls BY SameCallsIf, Moves, ActorFacts, <1>21 DEF ReadFails, Ops
<1>22. ASSUME MarkOutput PROVE SameCalls BY SameCallsIf, Moves, ActorFacts, <1>22 DEF MarkOutput, OutputClosed, Ops
<1>23. ASSUME StoreCloseSent PROVE SameCalls BY SameCallsIf, Moves, ActorFacts, <1>23 DEF StoreCloseSent, Ops
<1>24. ASSUME CloseAgain PROVE SameCalls BY SameCallsIf, Moves, ActorFacts, <1>24 DEF CloseAgain, Ops
<1>25. ASSUME CloseReads PROVE SameCalls BY SameCallsIf, Moves, ActorFacts, <1>25 DEF CloseReads, Ops
<1>38. ASSUME MarkClosed PROVE SameCalls BY SameCallsIf, Moves, ActorFacts, <1>38 DEF MarkClosed, Ops
<1>26. ASSUME ReceiveFrame PROVE SameCalls BY SameCallsIf, Moves, ActorFacts, <1>26 DEF ReceiveFrame, Answers, Ops
<1>27. ASSUME MarkReceived PROVE SameCalls BY SameCallsIf, Moves, ActorFacts, <1>27 DEF MarkReceived, Ops
<1>28. ASSUME Tick PROVE SameCalls BY SameCallsIf, Moves, ActorFacts, <1>28 DEF Tick, Ops
<1>29. ASSUME Beat PROVE SameCalls BY SameCallsIf, Moves, ActorFacts, <1>29 DEF Beat, Ops
<1>30. ASSUME StopKeepAlive PROVE SameCalls BY SameCallsIf, Moves, ActorFacts, <1>30 DEF StopKeepAlive, ShutdownTakes, Ops
<1>31. ASSUME JoinHeart PROVE SameCalls
  <2>1. pc'["dtor"] = "wait" /\ \A c \in Actors \ {"dtor", "heart"} : pc'[c] = pc[c]
    BY <1>31, ActorFacts DEF JoinHeart, InPlace
  <2> QED BY <1>31, <2>1, ActorFacts, SameCallsIf DEF JoinHeart, Ops
<1>32. ASSUME ShutForWait PROVE SameCalls BY SameCallsIf, Moves, ActorFacts, <1>32 DEF ShutForWait, ShutdownTakes, Ops
<1>33. ASSUME WaitIdle PROVE SameCalls BY SameCallsIf, Moves, ActorFacts, <1>33 DEF WaitIdle, Ops
<1>34. ASSUME Answer PROVE SameCalls BY SameCallsIf, Moves, ActorFacts, <1>34 DEF Answer, Ops
<1>35. ASSUME PeerSends PROVE SameCalls BY SameCallsIf, Moves, ActorFacts, <1>35 DEF PeerSends, Ops
<1>36. ASSUME PeerDrops PROVE SameCalls BY SameCallsIf, Moves, ActorFacts, <1>36 DEF PeerDrops, Ops
<1>37. ASSUME UNCHANGED vars PROVE SameCalls BY SameCallsIf, Moves, ActorFacts, <1>37 DEF vars, Ops
<1> QED BY <1>1, <1>2, <1>3, <1>4, <1>5, <1>6, <1>7, <1>8, <1>9, <1>10, <1>11, <1>12, <1>13, <1>14, <1>15, <1>16, <1>17, <1>18, <1>19, <1>20, <1>21, <1>22, <1>23, <1>24, <1>25, <1>26, <1>27, <1>28, <1>29, <1>30, <1>31, <1>32, <1>33, <1>34, <1>35, <1>36, <1>37, <1>38
        DEF Next, Frame, OpStep, Handshake, Disposing, HeartStep, DtorStep, Actors, Ops

\* The count is exact, connecting happens once, and the destructor goes past its
\* wait only when the count is zero.
CountExact ==
  /\ inFlight = Cardinality(Calls)
  /\ ~connectStarted => ~InCall("connect")
  /\ pc["dtor"] \in {"dispose", "shutdown", "gone"} => inFlight = 0

\* The operations in a call are finitely many.
LEMMA CallsFinite == IsFiniteSet(Calls) /\ Cardinality(Calls) \in 0 .. Cardinality(Ops)
<1>1. IsFiniteSet(Ops)
  <2>1. IsFiniteSet({}) /\ IsFiniteSet({"connect"}) BY FS_EmptySet, FS_Singleton
  <2>2. IsFiniteSet({"connect"} \cup {"send"}) BY <2>1, FS_AddElement
  <2>3. IsFiniteSet(({"connect"} \cup {"send"}) \cup {"receive"}) BY <2>2, FS_AddElement
  <2>4. IsFiniteSet((({"connect"} \cup {"send"}) \cup {"receive"}) \cup {"close"}) BY <2>3, FS_AddElement
  <2>5. IsFiniteSet(((({"connect"} \cup {"send"}) \cup {"receive"}) \cup {"close"}) \cup {"output"})
    BY <2>4, FS_AddElement
  <2>6. Ops = (((({"connect"} \cup {"send"}) \cup {"receive"}) \cup {"close"}) \cup {"output"}) BY DEF Ops
  <2> QED BY <2>5, <2>6
<1>2. Calls \subseteq Ops BY DEF Calls
<1> QED BY <1>1, <1>2, FS_Subset, FS_CardinalityType

\* Every operation is counted while it is in a call.
LEMMA CountNext == Shape /\ InPlace /\ CountExact /\ [Next]_vars => CountExact'
<1> SUFFICES ASSUME Shape, InPlace, CountExact, [Next]_vars PROVE CountExact' OBVIOUS
<1>a. ASSUME NEW a \in Ops, ~InCall(a), Go(a, "scope"), pc["dtor"] = "idle", inFlight' = inFlight + 1,
             connectStarted' \/ (connectStarted' = connectStarted /\ a # "connect"), Alive
      PROVE  CountExact'
  <2>1. pc'[a] = "scope" /\ \A b \in Actors \ {a} : pc'[b] = pc[b] BY <1>a, Moves, ActorFacts
  <2>2. Calls' = Calls \cup {a} /\ a \notin Calls BY <1>a, <2>1, ActorFacts DEF Calls, InCall
  <2>3. Cardinality(Calls') = Cardinality(Calls) + 1 BY <2>2, CallsFinite, FS_AddElement
  <2>4. a # "dtor" BY DEF Ops
  <2>5. ~connectStarted' => ~InCall("connect")' BY <1>a, <2>1, ActorFacts DEF CountExact, InCall
  <2> QED BY <1>a, <2>1, <2>3, <2>4, <2>5, ActorFacts DEF CountExact
<1>1. CASE StartConnect
  BY <1>1, <1>a DEF StartConnect, CountExact, Counted, Alive, At, Ops
<1>2. ASSUME NEW a \in Ops, Start(a) PROVE CountExact'
  BY <1>2, <1>a DEF Start, Counted, Alive, At, InCall, Shape
<1>3. ASSUME NEW a \in Ops, Release(a) PROVE CountExact'
  <2>1. pc[a] = "release" /\ pc'[a] = "notify" /\ \A b \in Actors \ {a} : pc'[b] = pc[b]
    BY <1>3, Moves, ActorFacts DEF Release, At
  <2>2. Calls' = Calls \ {a} /\ a \in Calls BY <2>1, ActorFacts DEF Calls, InCall
  <2>3. Cardinality(Calls') = Cardinality(Calls) - 1 BY <2>2, CallsFinite, FS_RemoveElement
  <2>4. Cardinality(Calls) # 0 BY <2>2, CallsFinite, FS_EmptySet
  <2>5. a # "dtor" BY DEF Ops
  <2>6. inFlight' = Cardinality(Calls') /\ connectStarted' = connectStarted
    BY <1>3, <2>3, CallsFinite DEF Release, Counted, CountExact
  <2>7. pc["dtor"] \notin {"dispose", "shutdown", "gone"} BY <2>4 DEF CountExact
  <2> QED BY <2>1, <2>5, <2>6, <2>7, ActorFacts DEF CountExact, InCall, Ops
<1>4. CASE SameCalls
  <2>1. Calls' = Calls BY <1>4 DEF SameCalls, Calls
  <2> QED BY <1>4, <2>1 DEF SameCalls, CountExact, Ops
<1> QED BY <1>1, <1>2, <1>3, <1>4, CallsChange

(* The closing handshake. *)
\* Nothing has aborted or disposed of a connection since it was opened.
Quiet ==
  /\ attached /\ connectStarted
  /\ pc["connect"] \in {"keepAlive", "spawn", "unregister", "release", "notify", "idle"}
  /\ \A a \in Actors : pc[a] # "dispose"

\* The Close frames that the state accounts for: between the frame and the critical
\* section that records it an operation stands at "mark", "store", "closed" or "finish".
RecordedWrite == wroteClose /\ pc["output"] # "mark" /\ pc["close"] # "store"
\* A Close frame was read, and whoever read one has said so.
RecordedRead == readClose /\ pc["receive"] # "closed" /\ pc["close"] # "finish"

\* The state speaks of no Close frame that was not exchanged, and of every one that was
\* recorded unless a store went over it.
Recorded ==
  /\ state \in {"CloseSent", "Closed"} => wroteClose
  /\ state \in {"CloseReceived", "Closed"} => readClose
  /\ RecordedWrite /\ ~overwritten => state \in {"CloseSent", "Closed"}
  /\ RecordedRead /\ ~overwritten => state \in {"CloseReceived", "Closed"}
  /\ pc["output"] = "mark" => wroteClose
  /\ pc["close"] \in {"store", "loop", "loopRef", "read", "finish"} => wroteClose
  /\ pc["close"] = "finish" => readClose
  /\ pc["receive"] = "closed" => readClose

\* Where connecting stands once the state was set to Open.
Opened == {"keepAlive", "spawn", "unregister", "release", "notify", "idle"}

\* It has not been, or not yet.
NotOpened == ~connectStarted \/ pc["connect"] \notin Opened

\* Where an operation stands that has not passed its gate.
Before == Framed \cup {"gate", "again"}

\* No operation is past its gate, and nothing was exchanged.
Untouched ==
  /\ \A a \in Ops \ {"connect"} : pc[a] \in Before
  /\ state \notin {"Open", "CloseSent", "CloseReceived"}
  /\ ~wroteClose /\ ~readClose

\* Until the connection was made there is no socket, or only connecting has got to it.
NothingYet ==
  /\ attached => connectStarted /\ pc["connect"] \notin {"scope", "register", "abort", "make", "shutdown"}
  /\ NotOpened => Untouched

\* What is known about the closing handshake.
CloseInv == NothingYet /\ (Quiet => Recorded)

\* What opens nothing, lets nobody through a gate and exchanges no Close frame.
LEMMA StillUntouched ==
  ASSUME NotOpened => Untouched, NotOpened' => NotOpened, UNCHANGED <<wroteClose, readClose>>,
         state' = state \/ state' \in {"Connecting", "Aborted", "Closed"},
         \A a \in Ops \ {"connect"} : pc'[a] = pc[a] \/ pc'[a] \in Before
  PROVE  (NotOpened => Untouched)'
BY DEF Untouched

\* Before the connection is open the gates hold: no operation gets to a frame.
LEMMA UntouchedNext ==
  Shape /\ InPlace /\ CountExact /\ NothingYet /\ [Next]_vars => (NotOpened => Untouched)'
<1> SUFFICES ASSUME Shape, InPlace, CountExact, NothingYet, [Next]_vars PROVE (NotOpened => Untouched)' OBVIOUS
<1> DEFINE Goal == (NotOpened => Untouched)'
<1>0. NotOpened => Untouched BY DEF NothingYet
<1> USE DEF At, closes
<1>1. ASSUME StartConnect PROVE Goal
  BY <1>0, <1>1, StillUntouched, Moves, ActorFacts DEF StartConnect, NotOpened, Opened, Before, Framed, Ops
<1>2. ASSUME UserCalls PROVE Goal
  BY <1>0, <1>2, StillUntouched, Moves, ActorFacts DEF UserCalls, NotOpened, Opened, Before, Framed, Ops
<1>3. ASSUME Cancel PROVE Goal
  BY <1>0, <1>3, StillUntouched, Moves, ActorFacts DEF Cancel, NotOpened, Opened, Before, Framed, Ops
<1>4. ASSUME CancelCalls PROVE Goal
  BY <1>0, <1>4, StillUntouched, Moves, ActorFacts DEF CancelCalls, NotOpened, Opened, Before, Framed, Ops
<1>5. ASSUME Destroy PROVE Goal
  BY <1>0, <1>5, StillUntouched, Moves, ActorFacts DEF Destroy, NotOpened, Opened, Before, Framed, Ops
<1>6. ASSUME NEW a \in Ops, Start(a) PROVE Goal
  BY <1>0, <1>6, StillUntouched, Moves, ActorFacts DEF Start, NotOpened, Opened, Before, Framed, Ops
<1>7. ASSUME NEW a \in Ops, Scope(a) PROVE Goal
  BY <1>0, <1>7, StillUntouched, Moves, ActorFacts DEF Scope, NotOpened, Opened, Before, Framed, Ops
<1>8. ASSUME NEW a \in Ops, Register(a) PROVE Goal
  BY <1>0, <1>8, StillUntouched, Moves, ActorFacts DEF Register, Body, NotOpened, Opened, Before, Framed, Ops
<1>9. ASSUME NEW a \in Ops, Unregister(a) PROVE Goal
  BY <1>0, <1>9, StillUntouched, Moves, ActorFacts DEF Unregister, NotOpened, Opened, Before, Framed, Ops
<1>10. ASSUME NEW a \in Ops, Release(a) PROVE Goal
  BY <1>0, <1>10, StillUntouched, Moves, ActorFacts DEF Release, NotOpened, Opened, Before, Framed, Ops
<1>11. ASSUME NEW a \in Ops, NotifyIdle(a) PROVE Goal
  <2>1. \A b \in Ops : pc'[b] = pc[b] \/ (pc[b] \in {"spawn", "notify"} /\ pc'[b] \in {"idle", "unregister"})
    BY <1>11, ActorFacts DEF NotifyIdle, InPlace, Ops
  <2>2. UNCHANGED <<state, wroteClose, readClose, connectStarted>> BY <1>11 DEF NotifyIdle
  <2> QED BY <1>0, <2>1, <2>2, StillUntouched DEF NotOpened, Opened, Before, Framed, Ops
<1>12. ASSUME NEW a \in Actors, Abort(a) PROVE Goal
  <2>1. /\ \A b \in Actors \ {a} : pc'[b] = pc[b]
        /\ pc[a] \in {"abort", "dispose", "shutdown"} /\ UNCHANGED <<wroteClose, readClose, connectStarted>>
    BY <1>12, Moves, ActorFacts DEF Abort, AbortedState
  <2>2. state' = state \/ state' \in {"Aborted", "Closed"} BY <1>12 DEF Abort, AbortedState
  <2>3. a \in Ops \ {"connect"} => pc'[a] \in Before
    BY <1>12, Moves, ActorFacts DEF Abort, AbortedState, Before, Framed
  <2>4. NotOpened' => NotOpened BY <2>1, ActorFacts DEF NotOpened, Opened
  <2> QED BY <1>0, <2>1, <2>2, <2>3, <2>4, StillUntouched, ActorFacts
<1>13. ASSUME NEW a \in Actors, Dispose(a) PROVE Goal
  <2>1. /\ \A b \in Actors \ {a} : pc'[b] = pc[b]
        /\ pc[a] \in {"abort", "dispose", "shutdown"} /\ UNCHANGED <<wroteClose, readClose, connectStarted>>
    BY <1>13, Moves, ActorFacts DEF Dispose, Disposed, Body
  <2>2. state' = state \/ state' \in {"Aborted", "Closed"} BY <1>13 DEF Dispose, Disposed, Body
  <2>3. a \in Ops \ {"connect"} => pc'[a] \in Before
    <3>1. ASSUME a \in Ops \ {"connect"} PROVE Go(a, "shutdown") \/ Go(a, "gate") \/ Go(a, "unregister")
      BY <1>13, <3>1 DEF Dispose, Disposed, Body, Ops
    <3> QED BY <3>1, Moves DEF Before, Framed
  <2>4. NotOpened' => NotOpened BY <2>1, ActorFacts DEF NotOpened, Opened
  <2> QED BY <1>0, <2>1, <2>2, <2>3, <2>4, StillUntouched, ActorFacts
<1>14. ASSUME NEW a \in Actors, Shutdown(a) PROVE Goal
  <2>1. /\ \A b \in Actors \ {a} : pc'[b] = pc[b]
        /\ pc[a] \in {"abort", "dispose", "shutdown"} /\ UNCHANGED <<wroteClose, readClose, connectStarted>>
    BY <1>14, Moves, ActorFacts DEF Shutdown, Disposed, Body, ShutdownTakes
  <2>2. state' = state \/ state' \in {"Aborted", "Closed"} BY <1>14 DEF Shutdown, Disposed, Body, ShutdownTakes
  <2>3. a \in Ops \ {"connect"} => pc'[a] \in Before
    <3>1. ASSUME a \in Ops \ {"connect"} PROVE Go(a, "gate") \/ Go(a, "unregister")
      BY <1>14, <3>1 DEF Shutdown, Disposed, Body, Ops
    <3> QED BY <3>1, Moves DEF Before, Framed
  <2>4. NotOpened' => NotOpened BY <2>1, ActorFacts DEF NotOpened, Opened
  <2> QED BY <1>0, <2>1, <2>2, <2>3, <2>4, StillUntouched, ActorFacts
<1>15. ASSUME PublishSocket PROVE Goal
  BY <1>0, <1>15, StillUntouched, Moves, ActorFacts DEF PublishSocket, NotOpened, Opened, Before, Framed, Ops
<1>16. ASSUME Connect PROVE Goal
  BY <1>0, <1>16, StillUntouched, Moves, ActorFacts DEF Connect, NotOpened, Opened, Before, Framed, Ops
<1>17. ASSUME ReadResponse PROVE Goal
  BY <1>0, <1>17, StillUntouched, Moves, ActorFacts DEF ReadResponse, NotOpened, Opened, Before, Framed, Ops
<1>18. ASSUME StoreOpen PROVE Goal
  <2>1. pc["connect"] = "open" /\ pc'["connect"] = "keepAlive" /\ connectStarted' = connectStarted
    BY <1>18, Moves, ActorFacts DEF StoreOpen
  <2>2. connectStarted BY <2>1 DEF CountExact, InCall
  <2> QED BY <2>1, <2>2 DEF NotOpened, Opened
<1>19. ASSUME PublishKeepAlive PROVE Goal
  BY <1>0, <1>19, StillUntouched, Moves, ActorFacts DEF PublishKeepAlive, NotOpened, Opened, Before, Framed, Ops
<1>20. ASSUME SpawnHeart PROVE Goal
  <2>1. \A b \in Ops : pc'[b] = pc[b] \/ (pc[b] \in {"spawn", "notify"} /\ pc'[b] \in {"idle", "unregister"})
    BY <1>20, ActorFacts DEF SpawnHeart, InPlace, Ops
  <2>2. UNCHANGED <<state, wroteClose, readClose, connectStarted>> BY <1>20 DEF SpawnHeart
  <2> QED BY <1>0, <2>1, <2>2, StillUntouched DEF NotOpened, Opened, Before, Framed, Ops
<1>21. ASSUME NEW a \in Ops, Gate(a) PROVE Goal
  <2>1. /\ pc[a] = "gate" /\ \A b \in Actors \ {a} : pc'[b] = pc[b]
        /\ UNCHANGED <<state, wroteClose, readClose, connectStarted>>
    BY <1>21, Moves, ActorFacts DEF Gate
  <2>2. a # "connect" BY <2>1, ActorFacts DEF InPlace, Places, Framed
  <2>3. NotOpened' => NotOpened BY <2>1, <2>2, ActorFacts DEF NotOpened
  <2>4. NotOpened => state \notin {"Open", "CloseSent", "CloseReceived"} BY <1>0 DEF Untouched
  <2>5. NotOpened => pc'[a] \in {"unregister", "again"}
    BY <1>21, <2>2, <2>4, Moves, ActorFacts DEF Gate, Allowed, Ops
  <2> QED BY <1>0, <2>1, <2>3, <2>5, ActorFacts DEF Untouched, Before, Framed
<1>22. ASSUME NEW a \in Ops \cup {"heart"}, Ref(a) PROVE Goal
  <2>0. a \in Actors /\ pc[a] \in Places(a) BY ActorFacts DEF InPlace
  <2>1. a # "connect" /\ pc[a] \notin Before BY <1>22, <2>0 DEF Ref, Places, Before, Framed
  <2>2. a = "heart" \/ ~NotOpened BY <1>0, <2>1, ActorFacts DEF Untouched, Ops
  <2>3. connectStarted' = connectStarted /\ \A b \in Actors \ {a} : pc'[b] = pc[b] BY <1>22, <2>0, Moves DEF Ref
  <2>4. CASE ~NotOpened BY <2>1, <2>3, <2>4, ActorFacts DEF NotOpened
  <2>5. CASE a = "heart"
    <3>1. UNCHANGED <<state, wroteClose, readClose>> BY <1>22, <2>5 DEF Ref, Shape
    <3> QED BY <1>0, <2>3, <2>5, <3>1, StillUntouched, ActorFacts DEF NotOpened, Ops
  <2> QED BY <2>2, <2>4, <2>5
<1>23. ASSUME NEW a \in Ops \cup {"heart"}, Write(a) PROVE Goal
  <2>0. a \in Actors /\ pc[a] \in Places(a) BY ActorFacts DEF InPlace
  <2>1. a # "connect" /\ pc[a] \notin Before BY <1>23, <2>0 DEF Write, Places, Before, Framed
  <2>2. a = "heart" \/ ~NotOpened BY <1>0, <2>1, ActorFacts DEF Untouched, Ops
  <2>3. connectStarted' = connectStarted /\ \A b \in Actors \ {a} : pc'[b] = pc[b] BY <1>23, <2>0, Moves DEF Write
  <2>4. CASE ~NotOpened BY <2>1, <2>3, <2>4, ActorFacts DEF NotOpened
  <2>5. CASE a = "heart"
    <3>1. UNCHANGED <<state, wroteClose, readClose>> BY <1>23, <2>5 DEF Write, Shape
    <3> QED BY <1>0, <2>3, <2>5, <3>1, StillUntouched, ActorFacts DEF NotOpened, Ops
  <2> QED BY <2>2, <2>4, <2>5
<1>24. ASSUME NEW a \in Ops, ReadFails(a) PROVE Goal
  <2>0. a \in Actors /\ pc[a] \in Places(a) BY ActorFacts DEF InPlace
  <2>1. a # "connect" /\ pc[a] \notin Before BY <1>24, <2>0 DEF ReadFails, Places, Before, Framed
  <2>2. a = "heart" \/ ~NotOpened BY <1>0, <2>1, ActorFacts DEF Untouched, Ops
  <2>3. connectStarted' = connectStarted /\ \A b \in Actors \ {a} : pc'[b] = pc[b] BY <1>24, <2>0, Moves DEF ReadFails
  <2>4. CASE ~NotOpened BY <2>1, <2>3, <2>4, ActorFacts DEF NotOpened
  <2>5. CASE a = "heart"
    <3>1. UNCHANGED <<state, wroteClose, readClose>> BY <1>24, <2>5 DEF ReadFails, Shape
    <3> QED BY <1>0, <2>3, <2>5, <3>1, StillUntouched, ActorFacts DEF NotOpened, Ops
  <2> QED BY <2>2, <2>4, <2>5
<1>25. ASSUME MarkOutput PROVE Goal
  <2>1. pc["output"] \notin Before BY <1>25 DEF MarkOutput, Before, Framed
  <2>2. ~NotOpened BY <1>0, <2>1, ActorFacts DEF Untouched, Ops
  <2>3. pc'["connect"] = pc["connect"] /\ connectStarted' = connectStarted BY <1>25, Moves, ActorFacts DEF MarkOutput
  <2> QED BY <2>2, <2>3 DEF NotOpened
<1>26. ASSUME StoreCloseSent PROVE Goal
  <2>1. pc["close"] \notin Before BY <1>26 DEF StoreCloseSent, Before, Framed
  <2>2. ~NotOpened BY <1>0, <2>1, ActorFacts DEF Untouched, Ops
  <2>3. pc'["connect"] = pc["connect"] /\ connectStarted' = connectStarted BY <1>26, Moves, ActorFacts DEF StoreCloseSent
  <2> QED BY <2>2, <2>3 DEF NotOpened
<1>27. ASSUME CloseAgain PROVE Goal
  <2>1. /\ pc["close"] \in {"again", "loop"} /\ \A b \in Actors \ {"close"} : pc'[b] = pc[b]
        /\ UNCHANGED <<state, wroteClose, readClose, connectStarted>>
    BY <1>27, Moves, ActorFacts DEF CloseAgain
  <2>2. NotOpened' => NotOpened BY <2>1, ActorFacts DEF NotOpened
  <2>3. NotOpened => pc["close"] = "again" /\ state # "CloseSent" BY <1>0, <2>1 DEF Untouched, Before, Framed, Ops
  <2>4. NotOpened => pc'["close"] = "unregister" BY <1>27, <2>3, Moves, ActorFacts DEF CloseAgain
  <2> QED BY <1>0, <2>1, <2>2, <2>4, ActorFacts DEF Untouched, Before, Framed
<1>28. ASSUME CloseReads PROVE Goal
  <2>1. pc["close"] \notin Before BY <1>28 DEF CloseReads, Before, Framed
  <2>2. ~NotOpened BY <1>0, <2>1, ActorFacts DEF Untouched, Ops
  <2>3. pc'["connect"] = pc["connect"] /\ connectStarted' = connectStarted BY <1>28, Moves, ActorFacts DEF CloseReads
  <2> QED BY <2>2, <2>3 DEF NotOpened
<1>29. ASSUME MarkClosed PROVE Goal
  <2>1. pc["close"] \notin Before BY <1>29 DEF MarkClosed, Before, Framed
  <2>2. ~NotOpened BY <1>0, <2>1, ActorFacts DEF Untouched, Ops
  <2>3. pc'["connect"] = pc["connect"] /\ connectStarted' = connectStarted BY <1>29, Moves, ActorFacts DEF MarkClosed
  <2> QED BY <2>2, <2>3 DEF NotOpened
<1>30. ASSUME ReceiveFrame PROVE Goal
  <2>1. pc["receive"] \notin Before BY <1>30 DEF ReceiveFrame, Before, Framed
  <2>2. ~NotOpened BY <1>0, <2>1, ActorFacts DEF Untouched, Ops
  <2>3. pc'["connect"] = pc["connect"] /\ connectStarted' = connectStarted BY <1>30, Moves, ActorFacts DEF ReceiveFrame
  <2> QED BY <2>2, <2>3 DEF NotOpened
<1>31. ASSUME MarkReceived PROVE Goal
  <2>1. pc["receive"] \notin Before BY <1>31 DEF MarkReceived, Before, Framed
  <2>2. ~NotOpened BY <1>0, <2>1, ActorFacts DEF Untouched, Ops
  <2>3. pc'["connect"] = pc["connect"] /\ connectStarted' = connectStarted BY <1>31, Moves, ActorFacts DEF MarkReceived
  <2> QED BY <2>2, <2>3 DEF NotOpened
<1>32. ASSUME Tick PROVE Goal
  BY <1>0, <1>32, StillUntouched, Moves, ActorFacts DEF Tick, NotOpened, Opened, Before, Framed, Ops
<1>33. ASSUME Beat PROVE Goal
  BY <1>0, <1>33, StillUntouched, Moves, ActorFacts DEF Beat, NotOpened, Opened, Before, Framed, Ops
<1>34. ASSUME StopKeepAlive PROVE Goal
  BY <1>0, <1>34, StillUntouched, Moves, ActorFacts DEF StopKeepAlive, NotOpened, Opened, Before, Framed, Ops
<1>35. ASSUME JoinHeart PROVE Goal
  <2>1. \A b \in Ops : pc'[b] = pc[b] \/ (pc[b] \in {"spawn", "notify"} /\ pc'[b] \in {"idle", "unregister"})
    BY <1>35, ActorFacts DEF JoinHeart, InPlace, Ops
  <2>2. UNCHANGED <<state, wroteClose, readClose, connectStarted>> BY <1>35 DEF JoinHeart
  <2> QED BY <1>0, <2>1, <2>2, StillUntouched DEF NotOpened, Opened, Before, Framed, Ops
<1>36. ASSUME ShutForWait PROVE Goal
  BY <1>0, <1>36, StillUntouched, Moves, ActorFacts DEF ShutForWait, NotOpened, Opened, Before, Framed, Ops
<1>37. ASSUME WaitIdle PROVE Goal
  BY <1>0, <1>37, StillUntouched, Moves, ActorFacts DEF WaitIdle, NotOpened, Opened, Before, Framed, Ops
<1>38. ASSUME Answer PROVE Goal
  BY <1>0, <1>38, StillUntouched, Moves, ActorFacts DEF Answer, NotOpened, Opened, Before, Framed, Ops
<1>39. ASSUME PeerSends PROVE Goal
  BY <1>0, <1>39, StillUntouched, Moves, ActorFacts DEF PeerSends, NotOpened, Opened, Before, Framed, Ops
<1>40. ASSUME PeerDrops PROVE Goal
  BY <1>0, <1>40, StillUntouched, Moves, ActorFacts DEF PeerDrops, NotOpened, Opened, Before, Framed, Ops
<1>41. ASSUME UNCHANGED vars PROVE Goal
  BY <1>0, <1>41, StillUntouched, Moves, ActorFacts DEF vars, NotOpened, Opened, Before, Framed, Ops
<1> QED BY <1>1, <1>2, <1>3, <1>4, <1>5, <1>6, <1>7, <1>8, <1>9, <1>10, <1>11, <1>12, <1>13, <1>14, <1>15, <1>16, <1>17, <1>18, <1>19, <1>20, <1>21, <1>22, <1>23, <1>24, <1>25, <1>26, <1>27, <1>28, <1>29, <1>30, <1>31, <1>32, <1>33, <1>34, <1>35, <1>36, <1>37, <1>38, <1>39, <1>40, <1>41
        DEF Next, Frame, OpStep, Handshake, Disposing, HeartStep, DtorStep, Actors, Ops
\* No socket before connecting, and no Close frame before it is over.
LEMMA NothingYetNext == 
  Shape /\ InPlace /\ CountExact /\ NothingYet /\ [Next]_vars => NothingYet'
<1> SUFFICES ASSUME Shape, InPlace, CountExact, NothingYet, [Next]_vars PROVE NothingYet' OBVIOUS
<1> DEFINE Early == {"scope", "register", "abort", "make", "shutdown"}
<1>1. attached' => connectStarted' /\ pc'["connect"] \notin Early
  <2> USE DEF At, socket, NothingYet
  <2>1. ASSUME StartConnect PROVE attached' => connectStarted' /\ pc'["connect"] \notin Early
    BY Moves, ActorFacts, <2>1 DEF StartConnect
  <2>2. ASSUME UserCalls PROVE attached' => connectStarted' /\ pc'["connect"] \notin Early
    BY Moves, ActorFacts, <2>2 DEF UserCalls
  <2>3. ASSUME Cancel PROVE attached' => connectStarted' /\ pc'["connect"] \notin Early
    BY Moves, ActorFacts, <2>3 DEF Cancel
  <2>4. ASSUME CancelCalls PROVE attached' => connectStarted' /\ pc'["connect"] \notin Early
    BY Moves, ActorFacts, <2>4 DEF CancelCalls
  <2>5. ASSUME Destroy PROVE attached' => connectStarted' /\ pc'["connect"] \notin Early
    BY Moves, ActorFacts, <2>5 DEF Destroy
  <2>6. ASSUME NEW a \in Ops, Start(a) PROVE attached' => connectStarted' /\ pc'["connect"] \notin Early
    BY Moves, ActorFacts, <2>6 DEF Start
  <2>7. ASSUME NEW a \in Ops, Scope(a) PROVE attached' => connectStarted' /\ pc'["connect"] \notin Early
    BY Moves, ActorFacts, <2>7 DEF Scope
  <2>8. ASSUME NEW a \in Ops, Register(a) PROVE attached' => connectStarted' /\ pc'["connect"] \notin Early
    BY Moves, ActorFacts, <2>8 DEF Register, Body
  <2>9. ASSUME NEW a \in Ops, Unregister(a) PROVE attached' => connectStarted' /\ pc'["connect"] \notin Early
    BY Moves, ActorFacts, <2>9 DEF Unregister
  <2>10. ASSUME NEW a \in Ops, Release(a) PROVE attached' => connectStarted' /\ pc'["connect"] \notin Early
    BY Moves, ActorFacts, <2>10 DEF Release
  <2>11. ASSUME NEW a \in Ops, NotifyIdle(a) PROVE attached' => connectStarted' /\ pc'["connect"] \notin Early
    <3>1. pc'["connect"] = pc["connect"] \/ pc'["connect"] = "idle" BY <2>11, ActorFacts DEF NotifyIdle, InPlace
    <3> QED BY <2>11, <3>1 DEF NotifyIdle
  <2>12. ASSUME NEW a \in Actors, Abort(a) PROVE attached' => connectStarted' /\ pc'["connect"] \notin Early
    BY Moves, ActorFacts, <2>12 DEF Abort, AbortedState
  <2>13. ASSUME NEW a \in Actors, Dispose(a) PROVE attached' => connectStarted' /\ pc'["connect"] \notin Early
    BY Moves, ActorFacts, <2>13 DEF Dispose, Disposed, Body
  <2>14. ASSUME NEW a \in Actors, Shutdown(a) PROVE attached' => connectStarted' /\ pc'["connect"] \notin Early
    BY Moves, ActorFacts, <2>14 DEF Shutdown, Disposed, Body, ShutdownTakes
  <2>15. ASSUME PublishSocket PROVE attached' => connectStarted' /\ pc'["connect"] \notin Early
    <3>1. connectStarted BY <2>15 DEF PublishSocket, CountExact, InCall
    <3>2. pc'["connect"] \in {"connecting", "dispose"} BY <2>15, Moves, ActorFacts DEF PublishSocket
    <3> QED BY <2>15, <3>1, <3>2 DEF PublishSocket
  <2>16. ASSUME Connect PROVE attached' => connectStarted' /\ pc'["connect"] \notin Early
    BY Moves, ActorFacts, <2>16 DEF Connect
  <2>17. ASSUME ReadResponse PROVE attached' => connectStarted' /\ pc'["connect"] \notin Early
    BY Moves, ActorFacts, <2>17 DEF ReadResponse
  <2>18. ASSUME StoreOpen PROVE attached' => connectStarted' /\ pc'["connect"] \notin Early
    BY Moves, ActorFacts, <2>18 DEF StoreOpen
  <2>19. ASSUME PublishKeepAlive PROVE attached' => connectStarted' /\ pc'["connect"] \notin Early
    BY Moves, ActorFacts, <2>19 DEF PublishKeepAlive
  <2>20. ASSUME SpawnHeart PROVE attached' => connectStarted' /\ pc'["connect"] \notin Early
    <3>1. pc'["connect"] = "unregister" BY <2>20, ActorFacts DEF SpawnHeart, InPlace
    <3> QED BY <2>20, <3>1 DEF SpawnHeart
  <2>21. ASSUME NEW a \in Ops, Gate(a) PROVE attached' => connectStarted' /\ pc'["connect"] \notin Early
    BY Moves, ActorFacts, <2>21 DEF Gate, Allowed
  <2>22. ASSUME NEW a \in Ops \cup {"heart"}, Ref(a) PROVE attached' => connectStarted' /\ pc'["connect"] \notin Early
    BY Moves, ActorFacts, <2>22 DEF Ref
  <2>23. ASSUME NEW a \in Ops \cup {"heart"}, Write(a) PROVE attached' => connectStarted' /\ pc'["connect"] \notin Early
    <3>1. a # "connect" BY <2>23, ActorFacts DEF Write, InPlace, Places, Framed
    <3>2. pc'["connect"] = pc["connect"] BY <2>23, <3>1, Moves, ActorFacts DEF Write
    <3> QED BY <2>23, <3>2 DEF Write
  <2>24. ASSUME NEW a \in Ops, ReadFails(a) PROVE attached' => connectStarted' /\ pc'["connect"] \notin Early
    BY Moves, ActorFacts, <2>24 DEF ReadFails
  <2>25. ASSUME MarkOutput PROVE attached' => connectStarted' /\ pc'["connect"] \notin Early
    BY Moves, ActorFacts, <2>25 DEF MarkOutput, OutputClosed
  <2>26. ASSUME StoreCloseSent PROVE attached' => connectStarted' /\ pc'["connect"] \notin Early
    BY Moves, ActorFacts, <2>26 DEF StoreCloseSent
  <2>27. ASSUME CloseAgain PROVE attached' => connectStarted' /\ pc'["connect"] \notin Early
    BY Moves, ActorFacts, <2>27 DEF CloseAgain
  <2>28. ASSUME CloseReads PROVE attached' => connectStarted' /\ pc'["connect"] \notin Early
    BY Moves, ActorFacts, <2>28 DEF CloseReads
  <2>41. ASSUME MarkClosed PROVE attached' => connectStarted' /\ pc'["connect"] \notin Early
    BY Moves, ActorFacts, <2>41 DEF MarkClosed
  <2>29. ASSUME ReceiveFrame PROVE attached' => connectStarted' /\ pc'["connect"] \notin Early
    BY Moves, ActorFacts, <2>29 DEF ReceiveFrame, Answers
  <2>30. ASSUME MarkReceived PROVE attached' => connectStarted' /\ pc'["connect"] \notin Early
    BY Moves, ActorFacts, <2>30 DEF MarkReceived
  <2>31. ASSUME Tick PROVE attached' => connectStarted' /\ pc'["connect"] \notin Early
    BY Moves, ActorFacts, <2>31 DEF Tick
  <2>32. ASSUME Beat PROVE attached' => connectStarted' /\ pc'["connect"] \notin Early
    BY Moves, ActorFacts, <2>32 DEF Beat
  <2>33. ASSUME StopKeepAlive PROVE attached' => connectStarted' /\ pc'["connect"] \notin Early
    BY Moves, ActorFacts, <2>33 DEF StopKeepAlive, ShutdownTakes
  <2>34. ASSUME JoinHeart PROVE attached' => connectStarted' /\ pc'["connect"] \notin Early
    <3>1. pc'["connect"] = pc["connect"] BY <2>34, ActorFacts DEF JoinHeart, InPlace
    <3> QED BY <2>34, <3>1 DEF JoinHeart
  <2>35. ASSUME ShutForWait PROVE attached' => connectStarted' /\ pc'["connect"] \notin Early
    BY Moves, ActorFacts, <2>35 DEF ShutForWait, ShutdownTakes
  <2>36. ASSUME WaitIdle PROVE attached' => connectStarted' /\ pc'["connect"] \notin Early
    BY Moves, ActorFacts, <2>36 DEF WaitIdle
  <2>37. ASSUME Answer PROVE attached' => connectStarted' /\ pc'["connect"] \notin Early
    BY Moves, ActorFacts, <2>37 DEF Answer
  <2>38. ASSUME PeerSends PROVE attached' => connectStarted' /\ pc'["connect"] \notin Early
    BY Moves, ActorFacts, <2>38 DEF PeerSends
  <2>39. ASSUME PeerDrops PROVE attached' => connectStarted' /\ pc'["connect"] \notin Early
    BY Moves, ActorFacts, <2>39 DEF PeerDrops
  <2>40. ASSUME UNCHANGED vars PROVE attached' => connectStarted' /\ pc'["connect"] \notin Early
    BY Moves, ActorFacts, <2>40 DEF vars
  <2> QED BY <2>1, <2>2, <2>3, <2>4, <2>5, <2>6, <2>7, <2>8, <2>9, <2>10, <2>11, <2>12, <2>13, <2>14, <2>15, <2>16, <2>17, <2>18, <2>19, <2>20, <2>21, <2>22, <2>23, <2>24, <2>25, <2>26, <2>27, <2>28, <2>29, <2>30, <2>31, <2>32, <2>33, <2>34, <2>35, <2>36, <2>37, <2>38, <2>39, <2>40, <2>41
          DEF Next, Frame, OpStep, Handshake, Disposing, HeartStep, DtorStep, Actors, Ops
<1> QED BY <1>1, UntouchedNext DEF NothingYet

\* The heartbeat starts when connecting has nothing left to do but to return.
HeartLater == pc["heart"] # "idle" => connectStarted /\ pc["connect"] \in {"unregister", "release", "notify", "idle"}

\* Only SpawnHeart starts it.
LEMMA HeartNext == 
  Shape /\ InPlace /\ CountExact /\ HeartLater /\ [Next]_vars => HeartLater'
<1> SUFFICES ASSUME Shape, InPlace, CountExact, HeartLater, [Next]_vars PROVE HeartLater' OBVIOUS
<1> USE DEF At
<1>1. ASSUME StartConnect PROVE HeartLater'
  <2>1. ~connectStarted BY <1>1 DEF StartConnect
  <2> QED BY <1>1, <2>1, Moves, ActorFacts DEF StartConnect, HeartLater
<1>2. ASSUME UserCalls PROVE HeartLater' BY Moves, ActorFacts, <1>2 DEF UserCalls, HeartLater
<1>3. ASSUME Cancel PROVE HeartLater' BY Moves, ActorFacts, <1>3 DEF Cancel, HeartLater
<1>4. ASSUME CancelCalls PROVE HeartLater' BY Moves, ActorFacts, <1>4 DEF CancelCalls, HeartLater
<1>5. ASSUME Destroy PROVE HeartLater' BY Moves, ActorFacts, <1>5 DEF Destroy, HeartLater
<1>6. ASSUME NEW a \in Ops, Start(a) PROVE HeartLater'
  <2>1. a # "connect" /\ a # "heart" BY <1>6 DEF Start, Ops
  <2> QED BY <1>6, <2>1, Moves, ActorFacts DEF Start, HeartLater
<1>7. ASSUME NEW a \in Ops, Scope(a) PROVE HeartLater' BY Moves, ActorFacts, <1>7 DEF Scope, HeartLater
<1>8. ASSUME NEW a \in Ops, Register(a) PROVE HeartLater' BY Moves, ActorFacts, <1>8 DEF Register, Body, HeartLater
<1>9. ASSUME NEW a \in Ops, Unregister(a) PROVE HeartLater' BY Moves, ActorFacts, <1>9 DEF Unregister, HeartLater
<1>10. ASSUME NEW a \in Ops, Release(a) PROVE HeartLater' BY Moves, ActorFacts, <1>10 DEF Release, HeartLater
<1>11. ASSUME NEW a \in Ops, NotifyIdle(a) PROVE HeartLater'
  <2>1. \A b \in Actors : pc'[b] = pc[b] \/ (pc[b] = "notify" /\ pc'[b] = "idle") \/ (pc[b] = "parked" /\ pc'[b] = "waiting")
    BY <1>11, ActorFacts DEF NotifyIdle, WokenBy, InPlace
  <2> QED BY <1>11, <2>1, ActorFacts DEF NotifyIdle, HeartLater
<1>12. ASSUME NEW a \in Actors, Abort(a) PROVE HeartLater' BY Moves, ActorFacts, <1>12 DEF Abort, AbortedState, HeartLater
<1>13. ASSUME NEW a \in Actors, Dispose(a) PROVE HeartLater' BY Moves, ActorFacts, <1>13 DEF Dispose, Disposed, Body, HeartLater
<1>14. ASSUME NEW a \in Actors, Shutdown(a) PROVE HeartLater' BY Moves, ActorFacts, <1>14 DEF Shutdown, Disposed, Body, ShutdownTakes, HeartLater
<1>15. ASSUME PublishSocket PROVE HeartLater' BY Moves, ActorFacts, <1>15 DEF PublishSocket, HeartLater
<1>16. ASSUME Connect PROVE HeartLater' BY Moves, ActorFacts, <1>16 DEF Connect, HeartLater
<1>17. ASSUME ReadResponse PROVE HeartLater' BY Moves, ActorFacts, <1>17 DEF ReadResponse, HeartLater
<1>18. ASSUME StoreOpen PROVE HeartLater' BY Moves, ActorFacts, <1>18 DEF StoreOpen, HeartLater
<1>19. ASSUME PublishKeepAlive PROVE HeartLater' BY Moves, ActorFacts, <1>19 DEF PublishKeepAlive, HeartLater
<1>20. ASSUME SpawnHeart PROVE HeartLater'
  <2>1. pc["connect"] = "spawn" /\ pc'["connect"] = "unregister" BY <1>20, ActorFacts DEF SpawnHeart, InPlace
  <2>2. connectStarted' BY <1>20, <2>1 DEF SpawnHeart, CountExact, InCall, Shape
  <2> QED BY <2>1, <2>2 DEF HeartLater
<1>21. ASSUME NEW a \in Ops, Gate(a) PROVE HeartLater' BY Moves, ActorFacts, <1>21 DEF Gate, Allowed, HeartLater
<1>22. ASSUME NEW a \in Ops \cup {"heart"}, Ref(a) PROVE HeartLater' BY Moves, ActorFacts, <1>22 DEF Ref, HeartLater
<1>23. ASSUME NEW a \in Ops \cup {"heart"}, Write(a) PROVE HeartLater'
  <2>1. a # "connect" BY <1>23, ActorFacts DEF Write, InPlace, Places, Framed
  <2>2. pc["heart"] # "idle" \/ a # "heart" BY <1>23 DEF Write
  <2> QED BY <1>23, <2>1, <2>2, Moves, ActorFacts DEF Write, HeartLater
<1>24. ASSUME NEW a \in Ops, ReadFails(a) PROVE HeartLater' BY Moves, ActorFacts, <1>24 DEF ReadFails, HeartLater
<1>25. ASSUME MarkOutput PROVE HeartLater' BY Moves, ActorFacts, <1>25 DEF MarkOutput, OutputClosed, HeartLater
<1>26. ASSUME StoreCloseSent PROVE HeartLater' BY Moves, ActorFacts, <1>26 DEF StoreCloseSent, HeartLater
<1>27. ASSUME CloseAgain PROVE HeartLater' BY Moves, ActorFacts, <1>27 DEF CloseAgain, HeartLater
<1>28. ASSUME CloseReads PROVE HeartLater' BY Moves, ActorFacts, <1>28 DEF CloseReads, HeartLater
<1>41. ASSUME MarkClosed PROVE HeartLater' BY Moves, ActorFacts, <1>41 DEF MarkClosed, HeartLater
<1>29. ASSUME ReceiveFrame PROVE HeartLater' BY Moves, ActorFacts, <1>29 DEF ReceiveFrame, Answers, HeartLater
<1>30. ASSUME MarkReceived PROVE HeartLater' BY Moves, ActorFacts, <1>30 DEF MarkReceived, HeartLater
<1>31. ASSUME Tick PROVE HeartLater' BY Moves, ActorFacts, <1>31 DEF Tick, HeartLater
<1>32. ASSUME Beat PROVE HeartLater' BY Moves, ActorFacts, <1>32 DEF Beat, HeartLater
<1>33. ASSUME StopKeepAlive PROVE HeartLater' BY Moves, ActorFacts, <1>33 DEF StopKeepAlive, ShutdownTakes, HeartLater
<1>34. ASSUME JoinHeart PROVE HeartLater'
  <2>1. pc'["connect"] = pc["connect"] /\ (pc'["heart"] # "idle" => pc["heart"] # "idle")
    BY <1>34, ActorFacts DEF JoinHeart, InPlace
  <2> QED BY <1>34, <2>1 DEF JoinHeart, HeartLater
<1>35. ASSUME ShutForWait PROVE HeartLater' BY Moves, ActorFacts, <1>35 DEF ShutForWait, ShutdownTakes, HeartLater
<1>36. ASSUME WaitIdle PROVE HeartLater' BY Moves, ActorFacts, <1>36 DEF WaitIdle, HeartLater
<1>37. ASSUME Answer PROVE HeartLater' BY Moves, ActorFacts, <1>37 DEF Answer, HeartLater
<1>38. ASSUME PeerSends PROVE HeartLater' BY Moves, ActorFacts, <1>38 DEF PeerSends, HeartLater
<1>39. ASSUME PeerDrops PROVE HeartLater' BY Moves, ActorFacts, <1>39 DEF PeerDrops, HeartLater
<1>40. ASSUME UNCHANGED vars PROVE HeartLater' BY Moves, ActorFacts, <1>40 DEF vars, HeartLater
<1> QED BY <1>1, <1>2, <1>3, <1>4, <1>5, <1>6, <1>7, <1>8, <1>9, <1>10, <1>11, <1>12, <1>13, <1>14, <1>15, <1>16, <1>17, <1>18, <1>19, <1>20, <1>21, <1>22, <1>23, <1>24, <1>25, <1>26, <1>27, <1>28, <1>29, <1>30, <1>31, <1>32, <1>33, <1>34, <1>35, <1>36, <1>37, <1>38, <1>39, <1>40, <1>41
        DEF Next, Frame, OpStep, Handshake, Disposing, HeartStep, DtorStep, Actors, Ops

\* Nothing that was disposed of is opened again: whoever is to dispose of the socket
\* does, and only StoreOpen takes connecting on to where it has opened.
KeepsQuiet ==
  /\ attached' => attached \/ pc'["connect"] \notin Opened
  /\ connectStarted' => connectStarted \/ pc'["connect"] \notin Opened
  /\ attached' => \A a \in Actors : pc[a] = "dispose" => pc'[a] = "dispose"
  /\ attached' /\ pc'["connect"] \in Opened => pc["connect"] \in Opened

\* Every other step keeps to that.
LEMMA QuietKept == 
  Shape /\ InPlace /\ CountExact /\ NothingYet /\ HeartLater /\ [Next]_vars
    => StoreOpen \/ KeepsQuiet
<1> SUFFICES ASSUME Shape, InPlace, CountExact, NothingYet, HeartLater, [Next]_vars PROVE StoreOpen \/ KeepsQuiet OBVIOUS
<1> USE DEF At, socket
<1>1. ASSUME StartConnect PROVE KeepsQuiet
  <2>1. ~connectStarted /\ pc["connect"] # "dispose" BY <1>1 DEF StartConnect, CountExact, InCall
  <2>2. ~attached' BY <1>1, <2>1 DEF StartConnect, NothingYet
  <2> QED BY <1>1, <2>1, <2>2, Moves, ActorFacts DEF KeepsQuiet, Opened, StartConnect
<1>2. ASSUME UserCalls PROVE KeepsQuiet BY Moves, ActorFacts, <1>2 DEF UserCalls, Opened, KeepsQuiet
<1>3. ASSUME Cancel PROVE KeepsQuiet BY Moves, ActorFacts, <1>3 DEF Cancel, Opened, KeepsQuiet
<1>4. ASSUME CancelCalls PROVE KeepsQuiet BY Moves, ActorFacts, <1>4 DEF CancelCalls, Opened, KeepsQuiet
<1>5. ASSUME Destroy PROVE KeepsQuiet
  <2>1. pc["dtor"] = "idle" BY <1>5 DEF Destroy, Alive
  <2> QED BY <1>5, <2>1, Moves, ActorFacts DEF Destroy, KeepsQuiet
<1>6. ASSUME NEW a \in Ops, Start(a) PROVE KeepsQuiet BY Moves, ActorFacts, <1>6 DEF Start, Opened, KeepsQuiet
<1>7. ASSUME NEW a \in Ops, Scope(a) PROVE KeepsQuiet
  <2>1. a = "connect" => ~attached BY <1>7 DEF Scope, NothingYet
  <2> QED BY <1>7, <2>1, Moves, ActorFacts DEF Scope, KeepsQuiet, Opened
<1>8. ASSUME NEW a \in Ops, Register(a) PROVE KeepsQuiet BY Moves, ActorFacts, <1>8 DEF Register, Body, Opened, KeepsQuiet
<1>9. ASSUME NEW a \in Ops, Unregister(a) PROVE KeepsQuiet BY Moves, ActorFacts, <1>9 DEF Unregister, Opened, KeepsQuiet
<1>10. ASSUME NEW a \in Ops, Release(a) PROVE KeepsQuiet BY Moves, ActorFacts, <1>10 DEF Release, Opened, KeepsQuiet
<1>11. ASSUME NEW a \in Ops, NotifyIdle(a) PROVE KeepsQuiet
  <2>1. \A b \in Actors : pc'[b] = pc[b] \/ (pc[b] = "notify" /\ pc'[b] = "idle") \/ (pc[b] = "parked" /\ pc'[b] = "waiting")
    BY <1>11, ActorFacts DEF NotifyIdle, WokenBy, InPlace
  <2> QED BY <1>11, <2>1, ActorFacts DEF NotifyIdle, KeepsQuiet, Opened
<1>12. ASSUME NEW a \in Actors, Abort(a) PROVE KeepsQuiet BY Moves, ActorFacts, <1>12 DEF Abort, AbortedState, Opened, KeepsQuiet
<1>13. ASSUME NEW a \in Actors, Dispose(a) PROVE KeepsQuiet BY Moves, ActorFacts, <1>13 DEF Dispose, Disposed, Body, Opened, KeepsQuiet
<1>14. ASSUME NEW a \in Actors, Shutdown(a) PROVE KeepsQuiet
  <2>1. a = "connect" => ~attached BY <1>14 DEF Shutdown, NothingYet
  <2> QED BY <1>14, <2>1, Moves, ActorFacts DEF Shutdown, Disposed, KeepsQuiet, Opened
<1>15. ASSUME PublishSocket PROVE KeepsQuiet BY Moves, ActorFacts, <1>15 DEF PublishSocket, Opened, KeepsQuiet
<1>16. ASSUME Connect PROVE KeepsQuiet BY Moves, ActorFacts, <1>16 DEF Connect, Opened, KeepsQuiet
<1>17. ASSUME ReadResponse PROVE KeepsQuiet BY Moves, ActorFacts, <1>17 DEF ReadResponse, Opened, KeepsQuiet
<1>18. ASSUME PublishKeepAlive PROVE KeepsQuiet BY Moves, ActorFacts, <1>18 DEF PublishKeepAlive, Opened, KeepsQuiet
<1>19. ASSUME SpawnHeart PROVE KeepsQuiet
  <2>1. pc["connect"] = "spawn" /\ \A b \in Actors \ {"connect", "heart"} : pc'[b] = pc[b]
    BY <1>19, ActorFacts DEF SpawnHeart, InPlace
  <2>2. pc["heart"] = "idle" BY <2>1 DEF HeartLater
  <2> QED BY <1>19, <2>1, <2>2, ActorFacts DEF SpawnHeart, KeepsQuiet, Opened
<1>20. ASSUME NEW a \in Ops, Gate(a) PROVE KeepsQuiet BY Moves, ActorFacts, <1>20 DEF Gate, Allowed, Opened, KeepsQuiet
<1>21. ASSUME NEW a \in Ops \cup {"heart"}, Ref(a) PROVE KeepsQuiet BY Moves, ActorFacts, <1>21 DEF Ref, Opened, KeepsQuiet
<1>22. ASSUME NEW a \in Ops \cup {"heart"}, Write(a) PROVE KeepsQuiet
  <2>1. a # "connect" BY <1>22, ActorFacts DEF Write, InPlace, Places, Framed
  <2> QED BY <1>22, <2>1, Moves, ActorFacts DEF Write, KeepsQuiet
<1>23. ASSUME NEW a \in Ops, ReadFails(a) PROVE KeepsQuiet
  <2>1. a # "connect" BY <1>23, ActorFacts DEF ReadFails, InPlace, Places, Framed
  <2> QED BY <1>23, <2>1, Moves, ActorFacts DEF ReadFails, KeepsQuiet
<1>24. ASSUME MarkOutput PROVE KeepsQuiet BY Moves, ActorFacts, <1>24 DEF MarkOutput, OutputClosed, Opened, KeepsQuiet
<1>25. ASSUME StoreCloseSent PROVE KeepsQuiet BY Moves, ActorFacts, <1>25 DEF StoreCloseSent, Opened, KeepsQuiet
<1>26. ASSUME CloseAgain PROVE KeepsQuiet BY Moves, ActorFacts, <1>26 DEF CloseAgain, Opened, KeepsQuiet
<1>27. ASSUME CloseReads PROVE KeepsQuiet BY Moves, ActorFacts, <1>27 DEF CloseReads, Opened, KeepsQuiet
<1>40. ASSUME MarkClosed PROVE KeepsQuiet BY Moves, ActorFacts, <1>40 DEF MarkClosed, Opened, KeepsQuiet
<1>28. ASSUME ReceiveFrame PROVE KeepsQuiet BY Moves, ActorFacts, <1>28 DEF ReceiveFrame, Answers, Opened, KeepsQuiet
<1>29. ASSUME MarkReceived PROVE KeepsQuiet BY Moves, ActorFacts, <1>29 DEF MarkReceived, Opened, KeepsQuiet
<1>30. ASSUME Tick PROVE KeepsQuiet BY Moves, ActorFacts, <1>30 DEF Tick, Opened, KeepsQuiet
<1>31. ASSUME Beat PROVE KeepsQuiet BY Moves, ActorFacts, <1>31 DEF Beat, Opened, KeepsQuiet
<1>32. ASSUME StopKeepAlive PROVE KeepsQuiet BY Moves, ActorFacts, <1>32 DEF StopKeepAlive, ShutdownTakes, Opened, KeepsQuiet
<1>33. ASSUME JoinHeart PROVE KeepsQuiet
  <2>1. pc'["connect"] = pc["connect"] /\ \A b \in Actors : pc[b] = "dispose" => pc'[b] = "dispose"
    BY <1>33, ActorFacts DEF JoinHeart, InPlace
  <2> QED BY <1>33, <2>1 DEF JoinHeart, KeepsQuiet
<1>34. ASSUME ShutForWait PROVE KeepsQuiet BY Moves, ActorFacts, <1>34 DEF ShutForWait, ShutdownTakes, Opened, KeepsQuiet
<1>35. ASSUME WaitIdle PROVE KeepsQuiet BY Moves, ActorFacts, <1>35 DEF WaitIdle, Opened, KeepsQuiet
<1>36. ASSUME Answer PROVE KeepsQuiet BY Moves, ActorFacts, <1>36 DEF Answer, Opened, KeepsQuiet
<1>37. ASSUME PeerSends PROVE KeepsQuiet BY Moves, ActorFacts, <1>37 DEF PeerSends, Opened, KeepsQuiet
<1>38. ASSUME PeerDrops PROVE KeepsQuiet BY Moves, ActorFacts, <1>38 DEF PeerDrops, Opened, KeepsQuiet
<1>39. ASSUME UNCHANGED vars PROVE KeepsQuiet BY Moves, ActorFacts, <1>39 DEF vars, Opened, KeepsQuiet
<1> QED BY <1>1, <1>2, <1>3, <1>4, <1>5, <1>6, <1>7, <1>8, <1>9, <1>10, <1>11, <1>12, <1>13, <1>14, <1>15, <1>16, <1>17, <1>18, <1>19, <1>20, <1>21, <1>22, <1>23, <1>24, <1>25, <1>26, <1>27, <1>28, <1>29, <1>30, <1>31, <1>32, <1>33, <1>34, <1>35, <1>36, <1>37, <1>38, <1>39, <1>40
        DEF Next, Frame, OpStep, Handshake, Disposing, HeartStep, DtorStep, Actors, Ops

\* Between a Close frame and the critical section that records it.
Marks == {"mark", "store", "closed", "finish"}

\* Where CloseAsync waits for a Close frame, or an operation has one to record.
Closing == {"loop", "loopRef", "read"} \cup Marks

\* What neither exchanges a Close frame nor records one, and enters no such place, leaves
\* the record as it is.
LEMMA StillRecorded ==
  ASSUME Recorded, UNCHANGED <<state, wroteClose, readClose, overwritten>>,
         \A a \in {"output", "close", "receive"} :
           pc'[a] = pc[a] \/ (pc[a] \notin Marks /\ pc'[a] \notin Closing)
  PROVE  Recorded'
BY DEF Recorded, RecordedWrite, RecordedRead, Marks, Closing

\* While nothing disposes of the connection, the state records the Close frames.
LEMMA RecordedKept == 
  Shape /\ InPlace /\ Quiet /\ Recorded /\ Quiet' /\ [Next]_vars
    => StoreOpen \/ Recorded'
<1> SUFFICES ASSUME Shape, InPlace, Quiet, Recorded, Quiet', [Next]_vars PROVE StoreOpen \/ Recorded' OBVIOUS
<1> USE DEF At, closes
<1>1. ASSUME StartConnect PROVE Recorded'
  BY <1>1 DEF StartConnect, Quiet
<1>2. ASSUME UserCalls PROVE Recorded' BY StillRecorded, Moves, ActorFacts, <1>2 DEF UserCalls, Marks, Closing
<1>3. ASSUME Cancel PROVE Recorded' BY StillRecorded, Moves, ActorFacts, <1>3 DEF Cancel, Marks, Closing
<1>4. ASSUME CancelCalls PROVE Recorded' BY StillRecorded, Moves, ActorFacts, <1>4 DEF CancelCalls, Marks, Closing
<1>5. ASSUME Destroy PROVE Recorded' BY StillRecorded, Moves, ActorFacts, <1>5 DEF Destroy, Marks, Closing
<1>6. ASSUME NEW a \in Ops, Start(a) PROVE Recorded'
  <2> QED BY <1>6, StillRecorded, Moves, ActorFacts DEF Start, Marks, Closing
<1>7. ASSUME NEW a \in Ops, Scope(a) PROVE Recorded' BY StillRecorded, Moves, ActorFacts, <1>7 DEF Scope, Marks, Closing
<1>8. ASSUME NEW a \in Ops, Register(a) PROVE Recorded' BY StillRecorded, Moves, ActorFacts, <1>8 DEF Register, Body, Marks, Closing
<1>9. ASSUME NEW a \in Ops, Unregister(a) PROVE Recorded' BY StillRecorded, Moves, ActorFacts, <1>9 DEF Unregister, Marks, Closing
<1>10. ASSUME NEW a \in Ops, Release(a) PROVE Recorded' BY StillRecorded, Moves, ActorFacts, <1>10 DEF Release, Marks, Closing
<1>11. ASSUME NEW a \in Ops, NotifyIdle(a) PROVE Recorded'
  <2>1. \A b \in Actors : pc'[b] = pc[b] \/ (pc[b] \in {"notify", "parked"} /\ pc'[b] \in {"idle", "waiting"})
    BY <1>11, ActorFacts DEF NotifyIdle, WokenBy, InPlace
  <2> QED BY <1>11, <2>1, StillRecorded, ActorFacts DEF NotifyIdle, WokenBy, Marks, Closing
<1>12. ASSUME NEW a \in Actors, Abort(a) PROVE Recorded'
  BY <1>12, Moves, ActorFacts DEF Abort, Quiet
<1>13. ASSUME NEW a \in Actors, Dispose(a) PROVE Recorded'
  BY <1>13 DEF Dispose, Quiet
<1>14. ASSUME NEW a \in Actors, Shutdown(a) PROVE Recorded' BY StillRecorded, Moves, ActorFacts, <1>14 DEF Shutdown, Disposed, Body, ShutdownTakes, Marks, Closing
<1>15. ASSUME PublishSocket PROVE Recorded' BY StillRecorded, Moves, ActorFacts, <1>15 DEF PublishSocket, Marks, Closing
<1>16. ASSUME Connect PROVE Recorded' BY StillRecorded, Moves, ActorFacts, <1>16 DEF Connect, Marks, Closing
<1>17. ASSUME ReadResponse PROVE Recorded' BY StillRecorded, Moves, ActorFacts, <1>17 DEF ReadResponse, Marks, Closing
<1>18. ASSUME PublishKeepAlive PROVE Recorded' BY StillRecorded, Moves, ActorFacts, <1>18 DEF PublishKeepAlive, Marks, Closing
<1>19. ASSUME SpawnHeart PROVE Recorded'
  <2>1. \A b \in Actors \ {"connect", "heart"} : pc'[b] = pc[b]
    BY <1>19, ActorFacts DEF SpawnHeart, InPlace
  <2> QED BY <1>19, <2>1, StillRecorded, ActorFacts DEF SpawnHeart, Marks, Closing
<1>20. ASSUME NEW a \in Ops, Gate(a) PROVE Recorded' BY StillRecorded, Moves, ActorFacts, <1>20 DEF Gate, Marks, Closing
<1>21. ASSUME NEW a \in Ops \cup {"heart"}, Ref(a) PROVE Recorded'
  <2>0. a \in Actors /\ pc[a] \in Places(a) BY ActorFacts DEF InPlace
  <2>1. \A b \in Actors \ {a} : pc'[b] = pc[b] BY <1>21, <2>0, Moves DEF Ref
  <2>2. pc'[a] \in {"tick", "unregister", "read", "write"} BY <1>21, <2>0, Moves DEF Ref
  <2>3. pc[a] \in {"ref", "loopRef", "pongRef"} BY <1>21 DEF Ref
  <2>4. a = "close" => (pc'[a] = "read" => pc[a] = "loopRef") BY <1>21, <2>0, <2>3, Moves DEF Ref, Places, Framed
  <2>5. UNCHANGED <<state, wroteClose, readClose, overwritten>> BY <1>21 DEF Ref
  <2> QED BY <2>1, <2>2, <2>3, <2>4, <2>5, ActorFacts DEF Recorded, RecordedWrite, RecordedRead
<1>22. ASSUME NEW a \in Ops \cup {"heart"}, Write(a) PROVE Recorded'
  <2>0. a \in Actors /\ pc[a] \in Places(a) /\ pc[a] = "write" BY <1>22, ActorFacts DEF InPlace, Write
  <2>1. \A b \in Actors \ {a} : pc'[b] = pc[b] BY <1>22, <2>0, Moves DEF Write
  <2>2. a \in {"send", "output", "close", "receive", "heart"} BY <2>0 DEF Places, Framed, Ops
  <2>3. UNCHANGED <<state, readClose, overwritten>> BY <1>22 DEF Write
  <2>4. CASE a \in {"send", "receive", "heart"}
    <3>1. wroteClose' = wroteClose BY <1>22, <2>4 DEF Write, Shape
    <3>2. a = "receive" => pc'[a] \in {"ref", "unregister"} BY <1>22, <2>0, Moves DEF Write, Written
    <3> QED BY <2>0, <2>1, <2>3, <2>4, <3>1, <3>2, StillRecorded, ActorFacts DEF Marks, Closing
  <2>5. CASE a \in {"output", "close"}
    <3>1. \/ pc'[a] = Written(a) /\ wroteClose'
          \/ pc'[a] = "unregister" /\ wroteClose' = wroteClose
      BY <1>22, <2>0, <2>5, Moves DEF Write
    <3>2. a = "output" => Written(a) = "mark" BY DEF Written
    <3>3. a = "close" => Written(a) = "store" BY DEF Written
    <3> QED BY <2>0, <2>1, <2>3, <2>5, <3>1, <3>2, <3>3, ActorFacts DEF Recorded, RecordedWrite, RecordedRead
  <2> QED BY <2>2, <2>4, <2>5
<1>23. ASSUME NEW a \in Ops, ReadFails(a) PROVE Recorded'
  <2>1. pc'[a] = "unregister" /\ pc[a] = "read" /\ \A b \in Actors \ {a} : pc'[b] = pc[b]
    BY <1>23, Moves, ActorFacts DEF ReadFails
  <2> QED BY <1>23, <2>1, StillRecorded, ActorFacts DEF ReadFails, Marks, Closing
<1>24. ASSUME MarkOutput PROVE Recorded'
  <2>1. /\ pc["output"] = "mark" /\ pc'["output"] = "unregister"
        /\ \A b \in Actors \ {"output"} : pc'[b] = pc[b]
    BY <1>24, Moves, ActorFacts DEF MarkOutput
  <2>2. /\ state' = OutputClosed /\ UNCHANGED <<wroteClose, readClose>>
        /\ overwritten' = (overwritten \/ state = "Closed")
    BY <1>24 DEF MarkOutput, StoresOver
  <2> QED BY <2>1, <2>2, ActorFacts DEF OutputClosed, Recorded, RecordedWrite, RecordedRead
<1>25. ASSUME StoreCloseSent PROVE Recorded'
  <2>1. /\ pc["close"] = "store" /\ pc'["close"] = "again"
        /\ \A b \in Actors \ {"close"} : pc'[b] = pc[b]
    BY <1>25, Moves, ActorFacts DEF StoreCloseSent
  <2>2. /\ state' = "CloseSent" /\ UNCHANGED <<wroteClose, readClose>>
        /\ overwritten' = (overwritten \/ state \in {"CloseReceived", "Closed"})
    BY <1>25 DEF StoreCloseSent, StoresOver
  <2> QED BY <2>1, <2>2, ActorFacts DEF Recorded, RecordedWrite, RecordedRead
<1>26. ASSUME CloseAgain PROVE Recorded'
  <2>1. /\ pc["close"] \in {"again", "loop"} /\ \A b \in Actors \ {"close"} : pc'[b] = pc[b]
    BY <1>26, Moves, ActorFacts DEF CloseAgain
  <2>2. \/ pc'["close"] = "unregister"
        \/ pc["close"] = "again" /\ state = "CloseSent" /\ pc'["close"] = "loop"
        \/ pc["close"] = "loop" /\ pc'["close"] = "loopRef"
    BY <1>26, Moves, ActorFacts DEF CloseAgain
  <2>3. UNCHANGED <<state, wroteClose, readClose, overwritten>> BY <1>26 DEF CloseAgain
  <2> QED BY <2>1, <2>2, <2>3, ActorFacts DEF Recorded, RecordedWrite, RecordedRead
<1>27. ASSUME CloseReads PROVE Recorded'
  <2>1. PICK frame \in Readable :
          /\ Go("close", CASE frame.kind = "bad" -> "unregister" [] frame.kind = "close" -> "finish"
                           [] OTHER -> "loop")
          /\ readClose' = (readClose \/ frame.kind = "close")
    BY <1>27 DEF CloseReads
  <2>2. /\ pc["close"] = "read" /\ pc'["close"] \in {"unregister", "loop", "finish"}
        /\ (pc'["close"] = "finish" <=> frame.kind = "close")
        /\ \A b \in Actors \ {"close"} : pc'[b] = pc[b]
    BY <1>27, <2>1, Moves, ActorFacts DEF CloseReads
  <2>3. UNCHANGED <<state, wroteClose, overwritten>> BY <1>27 DEF CloseReads
  <2>4. CASE frame.kind = "close"
    <3>1. readClose' /\ pc'["close"] = "finish" BY <2>1, <2>2, <2>4
    <3> QED BY <2>2, <2>3, <3>1, ActorFacts DEF Recorded, RecordedWrite, RecordedRead
  <2>5. CASE frame.kind # "close"
    <3>1. readClose' = readClose /\ pc'["close"] \in {"unregister", "loop"} BY <2>1, <2>2, <2>5 DEF Shape
    <3> QED BY <2>2, <2>3, <3>1, ActorFacts DEF Recorded, RecordedWrite, RecordedRead
  <2> QED BY <2>4, <2>5
<1>40. ASSUME MarkClosed PROVE Recorded'
  <2>1. /\ pc["close"] = "finish" /\ pc'["close"] = "loop"
        /\ \A b \in Actors \ {"close"} : pc'[b] = pc[b]
    BY <1>40, Moves, ActorFacts DEF MarkClosed
  <2>2. state' = "Closed" /\ UNCHANGED <<wroteClose, readClose, overwritten>> BY <1>40 DEF MarkClosed
  <2> QED BY <2>1, <2>2, ActorFacts DEF Recorded, RecordedWrite, RecordedRead
<1>28. ASSUME ReceiveFrame PROVE Recorded'
  <2>1. PICK frame \in Readable :
          /\ Go("receive", CASE frame.kind = "ping" -> "pongRef" [] frame.kind = "pong" -> "ref"
                             [] frame.kind = "close" -> "closed" [] OTHER -> "unregister")
          /\ readClose' = (readClose \/ frame.kind = "close")
    BY <1>28 DEF ReceiveFrame
  <2>2. /\ pc["receive"] = "read" /\ pc'["receive"] \in {"pongRef", "ref", "closed", "unregister"}
        /\ (pc'["receive"] = "closed" <=> frame.kind = "close")
        /\ \A b \in Actors \ {"receive"} : pc'[b] = pc[b]
    BY <1>28, <2>1, Moves, ActorFacts DEF ReceiveFrame
  <2>3. UNCHANGED <<state, wroteClose, overwritten>> BY <1>28 DEF ReceiveFrame
  <2>4. CASE frame.kind = "close"
    <3>1. readClose' /\ pc'["receive"] = "closed" BY <2>1, <2>2, <2>4
    <3> QED BY <2>2, <2>3, <3>1, ActorFacts DEF Recorded, RecordedWrite, RecordedRead
  <2>5. CASE frame.kind # "close"
    <3>1. readClose' = readClose /\ pc'["receive"] \in {"pongRef", "ref", "unregister"} BY <2>1, <2>2, <2>5 DEF Shape
    <3> QED BY <2>2, <2>3, <3>1, ActorFacts DEF Recorded, RecordedWrite, RecordedRead
  <2> QED BY <2>4, <2>5
<1>29. ASSUME MarkReceived PROVE Recorded'
  <2>1. /\ pc["receive"] = "closed" /\ pc'["receive"] = "unregister"
        /\ \A b \in Actors \ {"receive"} : pc'[b] = pc[b]
    BY <1>29, Moves, ActorFacts DEF MarkReceived
  <2>2. /\ state' = IF state = "CloseSent" THEN "Closed" ELSE "CloseReceived"
        /\ UNCHANGED <<wroteClose, readClose>> /\ overwritten' = (overwritten \/ state = "Closed")
    BY <1>29 DEF MarkReceived, StoresOver
  <2> QED BY <2>1, <2>2, ActorFacts DEF Recorded, RecordedWrite, RecordedRead
<1>30. ASSUME Tick PROVE Recorded' BY StillRecorded, Moves, ActorFacts, <1>30 DEF Tick, Marks, Closing
<1>31. ASSUME Beat PROVE Recorded' BY StillRecorded, Moves, ActorFacts, <1>31 DEF Beat, Marks, Closing
<1>32. ASSUME StopKeepAlive PROVE Recorded' BY StillRecorded, Moves, ActorFacts, <1>32 DEF StopKeepAlive, ShutdownTakes, Marks, Closing
<1>33. ASSUME JoinHeart PROVE Recorded'
  <2>1. \A b \in Actors \ {"dtor", "heart"} : pc'[b] = pc[b]
    BY <1>33, ActorFacts DEF JoinHeart, InPlace
  <2> QED BY <1>33, <2>1, StillRecorded, ActorFacts DEF JoinHeart, Marks, Closing
<1>34. ASSUME ShutForWait PROVE Recorded' BY StillRecorded, Moves, ActorFacts, <1>34 DEF ShutForWait, ShutdownTakes, Marks, Closing
<1>35. ASSUME WaitIdle PROVE Recorded' BY StillRecorded, Moves, ActorFacts, <1>35 DEF WaitIdle, Marks, Closing
<1>36. ASSUME Answer PROVE Recorded' BY StillRecorded, Moves, ActorFacts, <1>36 DEF Answer, Marks, Closing
<1>37. ASSUME PeerSends PROVE Recorded' BY StillRecorded, Moves, ActorFacts, <1>37 DEF PeerSends, Marks, Closing
<1>38. ASSUME PeerDrops PROVE Recorded' BY StillRecorded, Moves, ActorFacts, <1>38 DEF PeerDrops, Marks, Closing
<1>39. ASSUME UNCHANGED vars PROVE Recorded' BY StillRecorded, Moves, ActorFacts, <1>39 DEF vars, Marks, Closing
<1> QED BY <1>1, <1>2, <1>3, <1>4, <1>5, <1>6, <1>7, <1>8, <1>9, <1>10, <1>11, <1>12, <1>13, <1>14, <1>15, <1>16, <1>17, <1>18, <1>19, <1>20, <1>21, <1>22, <1>23, <1>24, <1>25, <1>26, <1>27, <1>28, <1>29, <1>30, <1>31, <1>32, <1>33, <1>34, <1>35, <1>36, <1>37, <1>38, <1>39, <1>40
        DEF Next, Frame, OpStep, Handshake, Disposing, HeartStep, DtorStep, Actors, Ops

\* The state records the Close frames from StoreOpen on, until the socket is disposed of.
LEMMA RecordedNext ==
  Shape /\ InPlace /\ CountExact /\ HeartLater /\ CloseInv /\ [Next]_vars => (Quiet => Recorded)'
<1> SUFFICES ASSUME Shape, InPlace, CountExact, HeartLater, CloseInv, [Next]_vars, Quiet' PROVE Recorded'
  OBVIOUS
<1>0. NothingYet /\ (Quiet => Recorded) BY DEF CloseInv
<1>1. CASE StoreOpen
  <2>1. /\ pc["connect"] = "open" /\ \A b \in Actors \ {"connect"} : pc'[b] = pc[b]
    BY <1>1, Moves, ActorFacts DEF StoreOpen, At
  <2>2. Untouched BY <1>0, <2>1 DEF NothingYet, NotOpened, Opened
  <2>3. state' = "Open" /\ ~wroteClose' /\ ~readClose' BY <1>1, <2>2 DEF StoreOpen, closes, Untouched
  <2>4. \A a \in {"output", "close", "receive"} : pc'[a] \in Before
    BY <2>1, <2>2, ActorFacts DEF Untouched, Ops
  <2> QED BY <2>3, <2>4 DEF Recorded, RecordedWrite, RecordedRead, Before, Framed
<1>2. CASE ~StoreOpen
  <2>1. KeepsQuiet BY <1>0, <1>2, QuietKept
  <2>2. Quiet BY <2>1 DEF KeepsQuiet, Quiet, Opened
  <2> QED BY <1>0, <1>2, <2>2, RecordedKept
<1> QED BY <1>1, <1>2

\* Who changes what is known of the pings.
LEMMA PingsChange == [Next]_vars => UNCHANGED <<pingSent, pingPayload, pongs>> \/ Beat \/ ReceiveFrame
BY DEF Next, Frame, OpStep, Handshake, Disposing, HeartStep, DtorStep, vars, heartbeat, StartConnect,
      UserCalls, Cancel, CancelCalls, Destroy, Start, Scope, Register, Unregister, Release, NotifyIdle,
      Abort, Dispose, Shutdown, PublishSocket, Connect, ReadResponse, StoreOpen, PublishKeepAlive,
      SpawnHeart, Gate, Ref, Write, ReadFails, MarkOutput, StoreCloseSent, CloseAgain, CloseReads,
      MarkClosed, MarkReceived, Tick, StopKeepAlive, JoinHeart, ShutForWait, WaitIdle, Answer, PeerSends, PeerDrops

\* A ping is taken for answered only by its pong.
LEMMA PongNext == Shape /\ PongAnswersPing /\ [Next]_vars => PongAnswersPing'
<1> SUFFICES ASSUME Shape, PongAnswersPing, [Next]_vars PROVE PongAnswersPing' OBVIOUS
<1>1. CASE UNCHANGED <<pingSent, pingPayload, pongs>> BY <1>1 DEF PongAnswersPing
<1>2. CASE Beat BY <1>2 DEF Beat, PongAnswersPing
<1>3. CASE ReceiveFrame
  <2>1. PICK frame \in Readable :
          /\ pingSent' = (pingSent /\ ~(frame.kind = "pong" /\ Answers(frame)))
          /\ pongs' = IF frame.kind = "pong" THEN pongs \cup ({frame.payload} \ {0}) ELSE pongs
    BY <1>3 DEF ReceiveFrame
  <2>2. pingPayload' = pingPayload /\ pongs \subseteq pongs' BY <1>3, <2>1 DEF ReceiveFrame
  <2>3. CASE pingSent' = pingSent BY <2>2, <2>3 DEF PongAnswersPing
  <2>4. CASE pingSent' # pingSent
    <3>1. frame.kind = "pong" /\ frame.payload = pingPayload BY <2>1, <2>4 DEF Answers, Shape
    <3>2. pingPayload > 0 => pingPayload \in pongs' BY <2>1, <3>1 DEF Shape
    <3> QED BY <2>2, <3>2 DEF PongAnswersPing
  <2> QED BY <2>3, <2>4
<1> QED BY <1>1, <1>2, <1>3, PingsChange

\* The inductive invariant.
SocketIInv == Shape /\ InPlace /\ CountExact /\ HeartLater /\ CloseInv /\ PongAnswersPing

\* It holds at the start.
LEMMA SocketInit == Init => SocketIInv
<1> SUFFICES ASSUME Init PROVE SocketIInv OBVIOUS
<1>1. Shape
  <2>1. plan.frames \in Nat /\ MaxPings \in Nat BY SocketAssumption DEF Init
  <2>2. pingPayload \in Nat /\ pingPayload <= MaxPings /\ sent \in Nat /\ sent <= plan.frames
    BY <2>1 DEF Init
  <2>3. registered \subseteq Ops /\ todo \subseteq Ops /\ calling \subseteq Ops /\ inline \subseteq Ops
    BY DEF Init
  <2>4. state \in States /\ plan \in Plans BY DEF Init, States
  <2> QED BY <2>2, <2>3, <2>4 DEF Init, Shape
<1>2. InPlace /\ (\A a \in Actors : pc[a] = "idle")
  BY DEF Init, InPlace, Places, Framed, Actors, Ops
<1>3. CountExact
  <2>1. Calls = {} BY <1>2, ActorFacts DEF Calls, InCall
  <2> QED BY <1>2, <2>1, ActorFacts, FS_EmptySet DEF CountExact, Init, InCall
<1>4. HeartLater BY <1>2, ActorFacts DEF HeartLater
<1>5. CloseInv
  <2>1. ~attached /\ ~wroteClose /\ ~readClose /\ state = "None" BY DEF Init
  <2>2. Untouched BY <1>2, <2>1, ActorFacts DEF Untouched, Before, Framed
  <2> QED BY <2>1, <2>2 DEF CloseInv, NothingYet, Quiet
<1>6. PongAnswersPing BY DEF Init, PongAnswersPing
<1> QED BY <1>1, <1>2, <1>3, <1>4, <1>5, <1>6 DEF SocketIInv

\* Every step keeps it.
LEMMA SocketNext == SocketIInv /\ [Next]_vars => SocketIInv'
BY ShapeNext, PlacesNext, CountNext, HeartNext, NothingYetNext, RecordedNext, PongNext
   DEF SocketIInv, CloseInv

\* What the invariant says of the places an object can be seen in.
LEMMA SocketFacts == SocketIInv => SocketInv /\ CloseIsMutual /\ PongAnswersPing
<1> SUFFICES ASSUME SocketIInv PROVE SocketInv /\ CloseIsMutual
  BY DEF SocketIInv
<1> USE DEF SocketIInv
<1>1. TypeOK
  <2>1. inFlight \in 0 .. Cardinality(Ops) BY CallsFinite DEF CountExact
  <2>2. pingPayload \in 0 .. MaxPings /\ sent \in 0 .. plan.frames
    BY SocketAssumption DEF Shape
  <2> QED BY <2>1, <2>2 DEF TypeOK, Shape
<1>2. OutlivesOperations
  <2>1. At("dtor", "gone") => Cardinality(Calls) = 0 BY DEF CountExact, At
  <2>2. At("dtor", "gone") => Calls = {} BY <2>1, CallsFinite, FS_EmptySet
  <2> QED BY <2>2 DEF OutlivesOperations, Calls
<1>3. CloseIsMutual
  <2> SUFFICES ASSUME attached, ~InCall("connect"), \A a \in Actors : ~At(a, "dispose")
               PROVE  /\ state = "Closed" => wroteClose /\ readClose
                      /\ state = "CloseReceived" => readClose
                      /\ wroteClose /\ readClose /\ ~overwritten /\ (\A a \in Ops : ~InCall(a))
                           => state \in {"Closed", "Aborted"}
    BY DEF CloseIsMutual
  <2>1. Quiet BY DEF CloseInv, NothingYet, Quiet, InCall, At
  <2>2. Recorded BY <2>1 DEF CloseInv
  <2>3. (\A a \in Ops : ~InCall(a)) => pc["output"] # "mark" /\ pc["close"] \notin {"store", "finish"} /\ pc["receive"] # "closed"
    BY DEF InCall, Ops
  <2> QED BY <2>2, <2>3 DEF Recorded, RecordedWrite, RecordedRead
<1> QED BY <1>1, <1>2, <1>3 DEF SocketInv

\* The state is well formed, the count of operations in flight stays in its bounds, and
\* the destructor ends only when no worker is in a call.
THEOREM ObjectOutlivesOperations == Spec => []SocketInv
BY SocketInit, SocketNext, SocketFacts, PTL DEF Spec

\* A socket that says Closed has exchanged Close frames both ways and one that says
\* CloseReceived has read one, whatever calls run beside one another; one that has
\* exchanged both says so unless a store wiped out what it had recorded.
THEOREM ClosingIsMutual == Spec => []CloseIsMutual
BY SocketInit, SocketNext, SocketFacts, PTL DEF Spec

\* A ping is answered by the pong with its payload and by no other.
THEOREM PongsAnswerPings == Spec => []PongAnswersPing
BY SocketInit, SocketNext, SocketFacts, PTL DEF Spec

=============================================================================
