------------------------------- MODULE Group --------------------------------
(***************************************************************************)
(* What an oblivious transfer needs of the group its public values are     *)
(* in.  Module OT assumes it of its parameters, and it is proved of the    *)
(* integers modulo DL_P that module KeyBlocks computes with.               *)
(***************************************************************************)

\* Products, powers and inverses are those of mul, exp and inv; gen generates.
TransferGroup(Elements, gen, one, Exponents, Choices, mul, exp, inv) ==
  /\ gen \in Elements /\ one \in Elements
  /\ mul \in [Elements -> [Elements -> Elements]]
  /\ exp \in [Elements -> [Exponents \cup Choices -> Elements]]
  /\ inv \in [Elements -> Elements]
  /\ \A x, y, z \in Elements : mul[mul[x][y]][inv[z]] = x <=> y = z
  /\ \A e, f \in Exponents : exp[exp[gen][e]][f] = exp[exp[gen][f]][e]
  /\ \A e \in Exponents : \A i, j \in Choices :
       exp[exp[gen][e]][i] = exp[exp[gen][e]][j] => i = j
  /\ \A e \in Exponents : \A x, y \in Elements : exp[x][e] = exp[y][e] => x = y
=============================================================================
