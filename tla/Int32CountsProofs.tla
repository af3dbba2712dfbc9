------------------------ MODULE Int32CountsProofs ------------------------
(* Facts about Wrap that the proofs of the counting primitives share. *)
EXTENDS Int32Counts, TLAPS

\* A number below the divisor is its own remainder.
LEMMA SmallRemainder ==
  ASSUME NEW m \in Nat \ {0}, NEW x \in 0..(m - 1)
  PROVE  x % m = x
OBVIOUS

\* A value that fits the register is stored as it is.
LEMMA WrapIdentity ==
  ASSUME NEW n \in -(IntMax + 1)..IntMax
  PROVE  Wrap(n) = n
<1> DEFINE m == 2 * (IntMax + 1)
           x == n + IntMax + 1
<1>1. m \in Nat \ {0} /\ x \in 0..(m - 1) BY IntMaxAssumption
<1>2. x % m = x
  <2> HIDE DEF m, x
  <2> QED BY <1>1, SmallRemainder
<1>3. Wrap(n) = x - (IntMax + 1) BY <1>2 DEF Wrap
<1> QED BY <1>3, IntMaxAssumption
=============================================================================
