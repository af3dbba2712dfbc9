-------------------------- MODULE ChannelContract --------------------------
(***************************************************************************)
(* What a channel promises to those who only see items go in and come out: *)
(* an item enters at most once and before the channel is sealed; it leaves *)
(* once, either read, oldest first, or, if the channel is lossy, given up  *)
(* at the moment another item arrives; sealing loses nothing.              *)
(***************************************************************************)
EXTENDS Naturals, Sequences

CONSTANT Items

VARIABLES buffer, read, lost, sealed, lossy

contract == <<buffer, read, lost, sealed, lossy>>

Init ==
  /\ buffer = <<>>
  /\ read = <<>>
  /\ lost = {}
  /\ sealed = FALSE
  /\ lossy \in BOOLEAN

\* An item that was never seen before.
Fresh(i) ==
  /\ \A k \in 1..Len(buffer) : buffer[k] # i
  /\ \A k \in 1..Len(read) : read[k] # i
  /\ i \notin lost

Accept(i) ==
  /\ ~sealed /\ Fresh(i)
  /\ buffer' = Append(buffer, i)
  /\ UNCHANGED <<read, lost, sealed, lossy>>

Discard(i) ==
  /\ ~sealed /\ lossy /\ Fresh(i)
  /\ lost' = lost \cup {i}
  /\ UNCHANGED <<buffer, read, sealed, lossy>>

\* The new item takes the place of the one at position k.
Displace(i, k) ==
  /\ ~sealed /\ lossy /\ Fresh(i)
  /\ lost' = lost \cup {buffer[k]}
  /\ buffer' = Append(SubSeq(buffer, 1, k - 1) \o SubSeq(buffer, k + 1, Len(buffer)), i)
  /\ UNCHANGED <<read, sealed, lossy>>

Deliver ==
  /\ buffer # <<>>
  /\ read' = Append(read, Head(buffer))
  /\ buffer' = Tail(buffer)
  /\ UNCHANGED <<lost, sealed, lossy>>

Seal ==
  /\ ~sealed
  /\ sealed' = TRUE
  /\ UNCHANGED <<buffer, read, lost, lossy>>

Next ==
  \/ \E i \in Items : Accept(i) \/ Discard(i) \/ \E k \in 1..Len(buffer) : Displace(i, k)
  \/ Deliver
  \/ Seal

Spec == Init /\ [][Next]_contract
=============================================================================
