-------------------------------- MODULE MCOT --------------------------------
(***************************************************************************)
(* Instance of module OT for TLC: the subgroup of order 11 of the integers *)
(* modulo 23, generated by 2, and a few private values: for some of them   *)
(* an option's base is the identity.                                       *)
(***************************************************************************)
EXTENDS OT

P == 23
Q == 11

ModMul(x, y) == (x * y) % P

ModExp(x, e) ==
  LET power[n \in 0 .. e] == IF n = 0 THEN 1 ELSE ModMul(power[n-1], x)
  IN  power[e]

Subgroup  == {ModExp(2, e) : e \in 0 .. Q-1}
Exponents == {1, 2, 6, Q-1}

MulTable == [x \in Subgroup |-> [y \in Subgroup |-> ModMul(x, y)]]
ExpTable == [x \in Subgroup |-> [e \in Exponents \cup Option |-> ModExp(x, e)]]
InvTable == [x \in Subgroup |-> CHOOSE y \in Subgroup : ModMul(x, y) = 1]

\* A damaged ciphertext may decrypt to any digit; one that is not a bit is enough.
AnyDigit == 0 .. 2
=============================================================================
