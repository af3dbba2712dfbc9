------------------------- MODULE MCClientWebSocket -------------------------
(* The programs that the runs of ClientWebSocket look at. *)
EXTENDS ClientWebSocket

Plan(ops, stops, keepAlive, frames) ==
  [ops |-> ops \cup {"connect"}, stops |-> stops, keepAlive |-> keepAlive, early |-> FALSE,
   frames |-> frames]

\* A program that does not wait for ConnectAsync.
Early(p) == [p EXCEPT !.early = TRUE]

\* Each plan has one or two operations in flight, beside one another or beside ways to
\* stop them.
MCPlans ==
  { Plan({"receive", "output"}, {"destroy"}, "none", 1),
    Plan({"receive", "send"}, {"cancel"}, "none", 0),
    Plan({"receive"}, {"cancel", "destroy"}, "none", 1),
    Plan({"receive"}, {"abort"}, "none", 1),
    Plan({"receive", "close"}, {}, "none", 2),
    Plan({"output", "close"}, {}, "none", 1),
    Plan({"close"}, {"cancel"}, "none", 1),
    Plan({"send"}, {"dispose", "destroy"}, "pong", 0),
    Plan({"receive"}, {}, "ping", 2),
    Plan({"receive"}, {"destroy"}, "ping", 0),
    Early(Plan({"close"}, {"dispose"}, "none", 0)),
    Early(Plan({"receive"}, {"destroy"}, "none", 1)) }

\* A program that cancels or destroys while it connects, closes or receives.
CancellingPlans == {Plan({"receive", "close"}, {"cancel"}, "none", 1)}

DestroyingPlans == {Plan({}, {"destroy"}, "pong", 0)}
============================================================================
