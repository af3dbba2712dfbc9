------------------------------- MODULE MCTask -------------------------------
(***************************************************************************)
(* Three tasks and two threads.  Between them the plans have every kind of *)
(* task, continuations that leave out some outcomes, a WhenAll and a       *)
(* WhenAny over a future and a task without one, and an Unwrap of a task   *)
(* that returns a task and of a WhenAny, before and after it has ended.    *)
(***************************************************************************)
EXTENDS Task, TLC

CONSTANTS t1, t2, t3, u1, u2

MCTasks == {t1, t2, t3}
MCUsers == {u1, u2}

Made(kind, of, by) == [kind |-> kind, of |-> of, by |-> by, notOn |-> {}]
Then(s, by, excluded) == [kind |-> "then", of |-> <<s>>, by |-> by, notOn |-> excluded]

Program(a, b, c) == (t1 :> a) @@ (t2 :> b) @@ (t3 :> c)

MCPlans == {
  Program(Made("source", <<>>, u1), Then(t1, u1, {"RanToCompletion"}), Made("all", <<t2, t1>>, u2)),
  Program(Made("source", <<>>, u1), Then(t1, u1, {"Faulted", "Canceled"}), Made("any", <<t2, t1>>, u2)),
  Program(Made("action", <<>>, u1), Made("action", <<t1>>, u2), Made("unwrap", <<t2>>, u1)),
  Program(Made("token", <<>>, u1), Made("any", <<t1>>, u2), Made("unwrap", <<t2>>, u1)) }
=============================================================================
