------------------------------ MODULE MCFiles ------------------------------
(***************************************************************************)
(* Instances for TLC of the modules about what is read from files: Bristol *)
(* and Inputs.  They share no variable, so TLC looks at one of them at a   *)
(* time, the one file chosen at the start, while the other stays in one of *)
(* its own initial states.                                                 *)
(***************************************************************************)
EXTENDS Bristol, Inputs

VARIABLE kind   \* "circuit" or "input": the files that are read

filesVars == <<kind, bristolVars, inputsVars>>

\* AND, XOR, INV, and two names parse_circuit does not know.
SomeGates == {<<2, 1, 0, 1, 2, "A">>, <<2, 1, 2, 0, 3, "X">>, <<1, 1, 2, 1, "I">>,
              <<2, 1, 1, 3, 2, "N">>, <<1, 1, 3, 0, "E">>}

\* Owners 0 and 1, for 1 also a value that is no bit, an owner that does not exist,
\* a word, and nothing.
SomeInputs == {<<0, 1>>, <<1, 0>>, <<1, 3>>, <<2, 0>>, <<NaN, 1>>, <<>>}

\* The initial states, with one initial state for the part that does not step.
FilesInit ==
  /\ kind \in {"circuit", "input"}
  /\ kind # "circuit" =>
       /\ lines = <<<<1, 1, 2, 1, "I">>>> /\ cut = 0
       /\ tmp = 9 /\ lhs = 9 /\ rhs = 9 /\ output = 9 /\ str = "A"
  /\ kind # "input" => file = [p \in Party |-> <<>>]
  /\ BristolInit /\ InputsInit

CircuitStep == kind = "circuit" /\ BristolNext /\ UNCHANGED <<kind, inputsVars>>

InInput(A) == kind = "input" /\ A /\ UNCHANGED <<kind, bristolVars>>
InputStep  == InInput(InputsNext)

\* The fairness of Inputs; Bristol states none.
FilesFairness ==
  /\ WF_filesVars(InInput(Setup))
  /\ \A p \in Party : WF_filesVars(InInput(Step(p)))

FilesSpec == FilesInit /\ [][CircuitStep \/ InputStep]_filesVars /\ FilesFairness
=============================================================================
