------------------------------- MODULE MCGMW -------------------------------
(***************************************************************************)
(* Instances of module GMW for TLC.  EvalValue is the reference semantics: *)
(* the gates evaluated one after the other on clear bits.                  *)
(***************************************************************************)
EXTENDS GMW, TLC

\* One gate; v ranges over a singleton so that TLC evaluates it only once.
Eval(g, u) ==
  CHOOSE r \in {[v EXCEPT ![g.output] = GateOp(g.type, v[g.lhs], v[g.rhs])] :
                  v \in {u}} : TRUE

EvalValue ==
  [x \in Inputs |->
    LET run[k \in 0 .. NumGate] ==
          IF k = 0
          THEN [w \in Wire |-> IF w \in InputWire THEN x[w] ELSE 0]
          ELSE Eval(Gates[k-1], run[k-1])
    IN  run[NumGate]]

G(t, l, r, o) == [type |-> t, lhs |-> l, rhs |-> r, output |-> o]

\* One wire of each kind of gate: NOT (w0 AND w1), and its XOR with w1.
SmallGates == 0 :> G("AND", 0, 1, 2) @@ 1 :> G("NOT", 2, 0, 3)
                @@ 2 :> G("XOR", 3, 1, 4)
SmallOwner == 0 :> 2 @@ 1 :> 0

\* A full adder; the output wires are the sum and the carry.
AdderGates == 0 :> G("XOR", 0, 1, 3) @@ 1 :> G("AND", 0, 1, 4)
                @@ 2 :> G("AND", 3, 2, 5) @@ 3 :> G("XOR", 3, 2, 6)
                @@ 4 :> G("XOR", 4, 5, 7)
AdderOwner == 0 :> 1 @@ 1 :> 0 @@ 2 :> 1

\* One AND gate on a single input wire, of party 1.
SquareGates == 0 :> G("AND", 0, 0, 1)
SquareOwner == 0 :> 1

\* circuits/and.txt, with the owners and values of
\* test/two-parties/and_input.txt.
AndGates == 0 :> G("AND", 0, 1, 2)
AndOwner == 0 :> 0 @@ 1 :> 1
AndInput == 0 :> 1 @@ 1 :> 1

\* test/expected-output/and-output.txt:1, "0": what the two parties of that
\* test print at the end.
ExpectedAndOutput ==
  \A p \in Party : input = AndInput /\ output[p] # NoOutput =>
    output[p] = (0 :> 0)
=============================================================================
