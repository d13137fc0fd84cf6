-------------------------------- MODULE MPC --------------------------------
(***************************************************************************)
(* What the program promises, with no shares and no messages: every party  *)
(* learns the circuit's output on everybody's inputs, and learns it once.  *)
(* README.md: "secure multi-party computation (MPC) on any arbitrary       *)
(* boolean circuit".                                                       *)
(***************************************************************************)
CONSTANTS
  Party,
  Inputs,     \* the possible input vectors
  Circuit,    \* Circuit[x]: the output on the inputs x
  NoOutput

VARIABLES
  input,      \* the inputs of this execution
  result      \* result[p]: the output p has printed

vars == <<input, result>>

Init ==
  /\ input \in Inputs
  /\ result = [p \in Party |-> NoOutput]

Learn(p) ==
  /\ result[p] = NoOutput
  /\ result' = [result EXCEPT ![p] = Circuit[input]]
  /\ UNCHANGED input

Next == \E p \in Party : Learn(p)

Spec == Init /\ [][Next]_vars
FairSpec == Spec /\ \A p \in Party : WF_vars(Learn(p))
=============================================================================
