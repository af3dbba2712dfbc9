----------------------------- MODULE MCChannel -----------------------------
(* Constants for model-checking Channel. *)
EXTENDS Channel

EveryCapacity == {-1, 0, 1}
=============================================================================
