------------------------------- MODULE Inputs -------------------------------
(***************************************************************************)
(* The input files and the initial wire sharing they drive.  Each          *)
(* participant is given a file of its own with a line "party:value" for    *)
(* every input wire, also for those it does not own (util.cxx,             *)
(* parse_input; participant.cxx, initial wire sharing).  Nothing compares  *)
(* the files or checks them against the circuit.                           *)
(*                                                                         *)
(* A file is the sequence of pieces between its line ends, a line the      *)
(* sequence of its parts between colons: numbers, or NaN for a text in     *)
(* which std::stoi finds none.                                             *)
(***************************************************************************)
EXTENDS Integers, Sequences, FiniteSets, SequencesExt

CONSTANTS
  N,          \* num_parties
  NumShares,  \* circuit.num_wire, the size of shares
  InputLines, \* the lines that occur in an input file
  MaxLines,   \* bound on its length
  NaN         \* a part std::stoi throws at

Party == 0 .. N-1
Bit == {0, 1}

ASSUME InputsAssumption ==
  /\ N \in Nat \ {0} /\ NumShares \in Nat /\ MaxLines \in Nat
  /\ InputLines \subseteq Seq(Int \cup {NaN}) /\ <<>> \in InputLines

VARIABLES
  file,      \* file[p]: the pieces of p's input file
  input,     \* input[p]: what parse_input makes of it
  pc,        \* "parse", "setup", "share", "evaluate"; or how p ended: "threw",
             \* or "undefined" after an access past the end of a vector
  line,      \* line[p]: the sharing loop's i, counted from 1
  shares,    \* shares[p][i]
  chan       \* chan[p][q]: shares p has sent and q has not read

inputsVars == <<file, input, pc, line, shares, chan>>

InputsInit ==
  /\ file \in [Party -> UNION {[1 .. k -> InputLines] : k \in 0 .. MaxLines}]
  /\ input = [p \in Party |-> <<>>]
  /\ pc = [p \in Party |-> "parse"]
  /\ line = [p \in Party |-> 1]
  /\ shares = [p \in Party |-> [i \in 1 .. NumShares |-> 0]]
  /\ chan = [p \in Party |-> [q \in Party |-> <<>>]]

Goto(p, where) == pc' = [pc EXCEPT ![p] = where]

-----------------------------------------------------------------------------
(***************************************************************************)
(* Parsing, and the setup behind it.                                       *)
(***************************************************************************)
\* string_split: getline sees no piece after the last line end.
StringSplit(pieces) ==
  IF pieces # <<>> /\ Last(pieces) = <<>> THEN Front(pieces) ELSE pieces

\* parts[0] and parts[1] are read without a look at how many there are.
LineOutcome(parts) ==
  IF parts = <<>> THEN "undefined"
  ELSE IF parts[1] = NaN THEN "threw"
  ELSE IF Len(parts) = 1 THEN "undefined"
  ELSE IF parts[2] = NaN THEN "threw" ELSE "good"

\* parse_input: the first line that does not hold two numbers ends it.
ParseInput(p) ==
  LET lines == StringSplit(file[p])
      bad == {i \in DOMAIN lines : LineOutcome(lines[i]) # "good"}
  IN  /\ pc[p] = "parse"
      /\ \/ /\ bad = {} /\ Goto(p, "setup")
            /\ input' = [input EXCEPT ![p] =
                 [i \in DOMAIN lines |-> [owner |-> lines[i][1], value |-> lines[i][2]]]]
         \/ /\ \E i \in bad : /\ \A j \in bad : i <= j
                              /\ Goto(p, LineOutcome(lines[i]))
            /\ UNCHANGED input
      /\ UNCHANGED <<file, line, shares, chan>>

\* Module Setup: it takes every party to get one of them through.
Setup ==
  /\ \A p \in Party : pc[p] = "setup"
  /\ pc' = [p \in Party |-> "share"]
  /\ UNCHANGED <<file, input, line, shares, chan>>

-----------------------------------------------------------------------------
(***************************************************************************)
(* Initial wire sharing.                                                   *)
(***************************************************************************)
Sharing(p) == pc[p] = "share" /\ line[p] <= Len(input[p])
Owner_OneBased(p) == input[p][line[p]].owner - 1
Owner(p) == input[p][line[p]].owner

Store(p, share) ==
  /\ shares' = [shares EXCEPT ![p][line[p]] = share]
  /\ line' = [line EXCEPT ![p] = @ + 1]

Parity(bits) == Cardinality({q \in DOMAIN bits : bits[q] = 1}) % 2

\* operator^ on an int and a bit, which changes the lowest bit only.
IntXor(x, b) == IF x % 2 = 0 THEN x + b ELSE x - b

\* A bit for each of the others; the owner's own share is the only one with more
\* bits, those of a target that is not 0 or 1.
GenerateShares(p, target) ==
  {[q \in Party |-> IF q = p THEN IntXor(target, Parity(bits)) ELSE bits[q]] :
     bits \in [Party \ {p} -> Bit]}

Deal_HigherOnly(p) ==
  /\ Sharing(p) /\ line[p] <= NumShares /\ Owner(p) = p
  /\ \E s \in GenerateShares(p, input[p][line[p]].value) :
       /\ chan' = [chan EXCEPT ![p] = [q \in Party |->
                     IF q <= p THEN @[q] ELSE Append(@[q], s[q])]]
       /\ Store(p, s[p])
  /\ UNCHANGED <<file, input, pc>>
\* The owner: generate_shares, and a message to each of the others.
Deal(p) ==
  /\ Sharing(p) /\ line[p] <= NumShares /\ Owner(p) = p
  /\ \E s \in GenerateShares(p, input[p][line[p]].value) :
       /\ chan' = [chan EXCEPT ![p] = [q \in Party |->
                     IF q = p THEN @[q] ELSE Append(@[q], s[q])]]
       /\ Store(p, s[p])
  /\ UNCHANGED <<file, input, pc>>

\* The others: ReceiveSecretShare.
Receive(p) ==
  /\ Sharing(p) /\ line[p] <= NumShares
  /\ Owner(p) \in Party \ {p} /\ chan[Owner(p)][p] # <<>>
  /\ chan' = [chan EXCEPT ![Owner(p)][p] = Tail(@)]
  /\ Store(p, Head(chan[Owner(p)][p]))
  /\ UNCHANGED <<file, input, pc>>

\* shares[i] with more lines than wires; the share is not followed further.
Overrun(p) ==
  /\ Sharing(p) /\ line[p] > NumShares /\ Owner(p) \in Party
  /\ Goto(p, "undefined")
  /\ UNCHANGED <<file, input, line, shares, chan>>

NoSuchParty_Skip(p) ==
  /\ Sharing(p) /\ Owner(p) \notin Party
  /\ line' = [line EXCEPT ![p] = @ + 1]
  /\ UNCHANGED <<file, input, pc, shares, chan>>
\* peer_links.at(wire_owner) throws.
NoSuchParty(p) ==
  /\ Sharing(p) /\ Owner(p) \notin Party
  /\ Goto(p, "threw")
  /\ UNCHANGED <<file, input, line, shares, chan>>

\* "Received EOF."
OwnerGone(p) ==
  /\ Sharing(p) /\ Owner(p) \in Party \ {p} /\ chan[Owner(p)][p] = <<>>
  /\ pc[Owner(p)] \in {"threw", "undefined"}
  /\ Goto(p, "threw")
  /\ UNCHANGED <<file, input, line, shares, chan>>

EndSharing(p) ==
  /\ pc[p] = "share" /\ ~Sharing(p)
  /\ Goto(p, "evaluate")
  /\ UNCHANGED <<file, input, line, shares, chan>>

Step(p) ==
  \/ ParseInput(p) \/ Deal(p) \/ Receive(p) \/ Overrun(p)
  \/ NoSuchParty(p) \/ OwnerGone(p) \/ EndSharing(p)

InputsNext == Setup \/ \E p \in Party : Step(p)

InputsSpec == InputsInit /\ [][InputsNext]_inputsVars /\ WF_inputsVars(Setup) /\ \A p \in Party : WF_inputsVars(Step(p))

-----------------------------------------------------------------------------
(***************************************************************************)
(* Properties.                                                             *)
(***************************************************************************)
\* All files could be parsed, have no more lines than the circuit has wires, and
\* name the same owners; they may differ in the values.
SameOwners ==
  /\ \A p \in Party : pc[p] \in {"share", "evaluate", "threw"} /\ Len(input[p]) <= NumShares
  /\ \A p, q \in Party :
       /\ DOMAIN input[p] = DOMAIN input[q] /\ input[p] # <<>>
       /\ \A i \in DOMAIN input[p] : input[p][i].owner = input[q][i].owner

\* The XOR of all shares of a wire that p owns.
Recombined(p, s) == IntXor(s[p], Parity([q \in Party \ {p} |-> s[q]]))

\* Then every wire is shared with the value in its owner's file, any int, whatever
\* the other files say there; what leaves the owner are bits; and no share is left
\* in a socket, where the first AND gate would read it.
OwnersDecide ==
  SameOwners /\ (\A p \in Party : pc[p] = "evaluate") =>
    \A p, q \in Party :
      /\ chan[p][q] = <<>>
      /\ \A i \in DOMAIN input[p] : input[p][i].owner = p =>
           /\ Recombined(p, [r \in Party |-> shares[r][i]]) = input[p][i].value
           /\ q # p => shares[q][i] \in Bit

\* If they name owners that do not exist, nobody gets past the first such line,
\* and that is the only line at which anybody throws.
ThrowTogether ==
  SameOwners => \A p \in Party :
    LET foreign == {i \in DOMAIN input[p] : input[p][i].owner \notin Party}
    IN  /\ \A i \in foreign : line[p] <= i
        /\ pc[p] = "threw" => line[p] \in foreign
        /\ pc[p] = "evaluate" => foreign = {}

\* And nobody waits for ever for a share.
NobodyWaits ==
  \A p \in Party : (SameOwners /\ pc[p] = "share") ~> pc[p] # "share"
=============================================================================
