---------------------------- MODULE Int32Counts ----------------------------
(***************************************************************************)
(* The signed machine integers that the counting primitives keep: intcs,   *)
(* whose largest value is IntMax, and the arguments their callers pass.    *)
(***************************************************************************)
EXTENDS Integers

CONSTANTS IntMax,         \* Int32.MaxValue
          InitialCounts,  \* arguments of the constructors and of Reset
          Amounts         \* arguments of Release, Signal and AddCount

ASSUME IntMaxAssumption == IntMax \in Nat \ {0}

\* What the calls do not reject outright.
ASSUME ArgumentsAssumption == InitialCounts \subseteq 0..IntMax /\ Amounts \subseteq 1..IntMax

\* The value of n in a register of the width of intcs: additions wrap around as
\* the hardware's do.
Wrap(n) == ((n + IntMax + 1) % (2 * (IntMax + 1))) - (IntMax + 1)
=============================================================================
