------------------------------- MODULE Bristol -------------------------------
(***************************************************************************)
(* parse_circuit (circuit.cxx) on files that may end too early.  No result *)
(* of fscanf is looked at: a conversion that finds nothing leaves its      *)
(* variable as it was, the loop goes on to num_gate, and the variables     *)
(* live outside the loop, uninitialised before the first gate.             *)
(*                                                                         *)
(* A file is its sequence of tokens after the header, cut off between two  *)
(* tokens; of a gate's name only the first letter is looked at.            *)
(***************************************************************************)
EXTENDS Integers, Sequences, SequencesExt

CONSTANTS
  NumWire,   \* num_wire of the header
  GateLines, \* the gate lines that occur
  MaxGate,   \* bound on num_gate
  Junk       \* numbers an uninitialised int may hold

Wire == 0 .. NumWire-1

ASSUME LinesAssumption ==
  /\ NumWire \in Nat /\ MaxGate \in Nat
  /\ \A l \in GateLines :
       \/ /\ Len(l) = 6 /\ l = <<2, 1, l[3], l[4], l[5], l[6]>>
          /\ {l[3], l[4], l[5]} \subseteq Wire
       \/ Len(l) = 5 /\ l = <<1, 1, l[3], l[4], l[5]>> /\ {l[3], l[4]} \subseteq Wire

VARIABLES
  lines,    \* the gates the file was written with
  rest,     \* tokens not yet read
  cut,      \* tokens of the file in all
  i, tmp, lhs, rhs, output, str,   \* the locals of parse_circuit
  scanned,  \* the scan at the top of the loop body is done
  gates     \* circuit.gates

locals == <<tmp, lhs, rhs, output, str>>
bristolVars == <<lines, rest, cut, i, locals, scanned, gates>>

Gate(type, l, r, o) == [type |-> type, lhs |-> l, rhs |-> r, output |-> o]

\* gates.resize: all zero, and no type of gate is 0.
Blank == Gate("none", 0, 0, 0)

BristolInit ==
  /\ lines \in UNION {[1 .. k -> GateLines] : k \in 1 .. MaxGate}
  /\ cut \in 0 .. Len(FlattenSeq(lines))
  /\ rest = SubSeq(FlattenSeq(lines), 1, cut)
  /\ i = 1 /\ scanned = FALSE
  /\ tmp \in Junk /\ lhs \in Junk /\ rhs \in Junk /\ output \in Junk
  /\ str \in {"A", "X", "?"}
  /\ gates = [g \in DOMAIN lines |-> Blank]

Scan_EOF(k, old) == IF k <= Len(rest) THEN rest[k] ELSE -1
\* What the k-th conversion of an fscanf leaves in a variable.
Scan(k, old) == IF k <= Len(rest) THEN rest[k] ELSE old
ScanName(k) == IF k <= Len(rest) THEN rest[k] ELSE str
Skip(k) == rest' = SubSeq(rest, k + 1, Len(rest))

More == i <= Len(lines)

\* fscanf(f, "%d", &tmp)
ScanInputs ==
  /\ More /\ ~scanned
  /\ tmp' = Scan(1, tmp) /\ Skip(1) /\ scanned' = TRUE
  /\ UNCHANGED <<lines, cut, i, lhs, rhs, output, str, gates>>

Name_Swapped(s) == IF s = "A" THEN "XOR" ELSE IF s = "X" THEN "AND" ELSE "none"
\* A name that starts with neither letter leaves the gate blank.
Name(s) == IF s = "A" THEN "AND" ELSE IF s = "X" THEN "XOR" ELSE "none"

TwoInputs ==
  /\ tmp = 2
  /\ tmp' = Scan(1, tmp) /\ lhs' = Scan(2, lhs) /\ rhs' = Scan(3, rhs)
  /\ output' = Scan(4, output) /\ str' = ScanName(5) /\ Skip(5)
  /\ gates' = IF Name(str') = "none" THEN gates
              ELSE [gates EXCEPT ![i] = Gate(Name(str'), lhs', rhs', output')]

\* Whatever its name, a gate of one input is a NOT.
OneInput ==
  /\ tmp = 1
  /\ tmp' = Scan(1, tmp) /\ lhs' = Scan(2, lhs) /\ UNCHANGED rhs
  /\ output' = Scan(3, output) /\ str' = ScanName(4) /\ Skip(4)
  /\ gates' = [gates EXCEPT ![i] = Gate("NOT", lhs', 0, output')]

Neither == tmp \notin {1, 2} /\ UNCHANGED <<locals, rest, gates>>

\* The body of the loop after that.
ScanGate ==
  /\ More /\ scanned
  /\ TwoInputs \/ OneInput \/ Neither
  /\ i' = i + 1 /\ scanned' = FALSE
  /\ UNCHANGED <<lines, cut>>

Done == ~More

BristolNext ==
  \/ ScanInputs
  \/ ScanGate
  \/ Done /\ UNCHANGED bristolVars

BristolSpec == BristolInit /\ [][BristolNext]_bristolVars

-----------------------------------------------------------------------------
(***************************************************************************)
(* Properties.                                                             *)
(***************************************************************************)
\* What a line of the file means.
Meaning(l) ==
  IF l[1] = 1 THEN Gate("NOT", l[3], 0, l[4])
  ELSE IF l[6] \in {"A", "X"} THEN Gate(IF l[6] = "A" THEN "AND" ELSE "XOR", l[3], l[4], l[5])
  ELSE Blank

\* Tokens of the first g lines.
TokensOf(g) == Len(FlattenSeq(SubSeq(lines, 1, g)))
WholeLines == {g \in DOMAIN lines : TokensOf(g) <= cut}

\* However the file ends, the gates whose lines are there in full are right:
\* nothing of an earlier line stays behind in a later gate (circuit.cxx, the
\* locals declared before the loop).
WholeLinesRight == \A g \in WholeLines : g < i => gates[g] = Meaning(lines[g])

\* A gate that is missing at the end of the file is made of what the last
\* lines left behind.  Once a gate of two inputs has been read, that names
\* only wires the file names, so evaluating it stays within shares.
StaysInRange ==
  (\E g \in WholeLines : lines[g][1] = 2) =>
    \A g \in DOMAIN gates : {gates[g].lhs, gates[g].rhs, gates[g].output} \subseteq Wire

\* The first input and the output of a line, of either form.
LhsOf(l)    == l[3]
OutputOf(l) == l[Len(l) - 1]

\* A file that ends between two lines is not noticed (circuit.cxx, the results of
\* fscanf): each gate that is missing becomes one more NOT, from the first input
\* of the last line that is there into that line's output, whether that line has
\* one input or two, and participant evaluates it like any other.
MissingBecomeNot ==
  \A last \in DOMAIN lines : Done /\ TokensOf(last) = cut =>
    \A g \in last + 1 .. Len(lines) :
      gates[g] = Gate("NOT", LhsOf(lines[last]), 0, OutputOf(lines[last]))
=============================================================================
