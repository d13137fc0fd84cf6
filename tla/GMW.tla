-------------------------------- MODULE GMW --------------------------------
(***************************************************************************)
(* The circuit-evaluation part of a participant (src/src/cmd/              *)
(* participant.cxx): N processes deal out the shares of the input wires,   *)
(* evaluate the gates in file order, with one oblivious transfer per pair  *)
(* of parties and AND gate, then gossip their output shares and XOR them.  *)
(*                                                                         *)
(* Every pair of parties is joined by one TCP connection, so chan[p][q] is *)
(* a FIFO queue.  socket_read blocks, socket_send does not (module Setup   *)
(* models how connections and keys come about, module OT what happens      *)
(* inside one transfer).  A read is an action of its own; local work and   *)
(* the sends that follow it up to the next read are part of that action,   *)
(* except that each gate is a separate step.                               *)
(***************************************************************************)
EXTENDS Integers, Sequences, FiniteSets

CONSTANTS
  N,             \* num_parties, the number of lines of the address file
  NumWire,       \* circuit.num_wire
  NumGate,       \* circuit.num_gate
  Gates,         \* circuit.gates
  NumInput,      \* input.size(), the lines of the input file
  Owner,         \* InitialWireInput::party_index of each input wire
  OutputLength,  \* circuit.output_length
  Value,         \* reference semantics: input values -> value of every wire
  NoOutput       \* a participant has not printed "Final output is" yet

Party       == 0 .. N-1
Wire        == 0 .. NumWire-1
InputWire   == 0 .. NumInput-1
GateIndex   == 0 .. NumGate-1
OutputIndex == 0 .. OutputLength-1
Bit         == {0, 1}

Inputs  == [InputWire -> Bit]
Outputs == [OutputIndex -> Bit]

Gate == [type : {"AND", "XOR", "NOT"}, lhs : Wire, rhs : Wire, output : Wire]

\* C++ ^ on bits.
Xor(a, b) == IF a = b THEN 0 ELSE 1

\* XOR of one bit per party.
XorOver(f) == Cardinality({p \in Party : f[p] = 1}) % 2

\* What a gate computes on clear bits.
GateOp(type, a, b) ==
  IF type = "AND" THEN a * b ELSE IF type = "XOR" THEN Xor(a, b) ELSE 1 - a

\* v gives every wire the value the circuit computes from the inputs x.
IsEvaluation(x, v) ==
  /\ \A w \in InputWire : v[w] = x[w]
  /\ \A k \in GateIndex : LET g == Gates[k] IN
       v[g.output] = GateOp(g.type, v[g.lhs], v[g.rhs])

\* The output of the circuit: the values of the last output_length wires.
ClearOutput == [x \in Inputs |->
  [i \in OutputIndex |-> Value[x][NumWire - OutputLength + i]]]

\* The wires that have a value before gate k is evaluated.
Defined(k) == InputWire \cup {Gates[j].output : j \in 0 .. k-1}

ASSUME PartiesAssumption == N \in Nat \ {0}

\* What every file in src/circuits satisfies and parse_circuit trusts: indices
\* in range, every wire written once, and read only after it was written.
ASSUME CircuitAssumption ==
  /\ NumWire \in Nat /\ NumGate \in Nat /\ NumInput \in 0 .. NumWire
  /\ OutputLength \in 0 .. NumWire
  /\ Gates \in [GateIndex -> Gate]
  /\ \A k \in GateIndex :
       /\ Gates[k].output \notin Defined(k)
       /\ Gates[k].lhs \in Defined(k)
       /\ Gates[k].type # "NOT" => Gates[k].rhs \in Defined(k)

\* The output wires are among those that get a value.
ASSUME OutputAssumption ==
  \A i \in OutputIndex : NumWire - OutputLength + i \in Defined(NumGate)

ASSUME OwnerAssumption == Owner \in [InputWire -> Party]

ASSUME ValueAssumption ==
  /\ Value \in [Inputs -> [Wire -> Bit]]
  /\ \A x \in Inputs : IsEvaluation(x, Value[x])
  /\ NoOutput \notin Outputs

VARIABLES
  input,     \* the values of the input file; never changes
  pc,        \* where the participant is, see Init
  wire,      \* loop variable of the initial wire sharing
  gate,      \* loop variable of the circuit evaluation
  peer,      \* loop variable over the other parties
  shares,    \* the vector of wire shares
  acc,       \* ot_accumulator
  bit,       \* bit[k][p][q]: generate_bit() of p for q at AND gate k
  dealt,     \* dealt[w]: the vector generate_shares returned for wire w
  gathered,  \* all_shares, by the party they come from
  output,    \* final_output
  chan       \* chan[p][q]: sent by p, not yet read by q

vars == <<input, pc, wire, gate, peer, shares, acc, bit, dealt, gathered,
          output, chan>>

(***************************************************************************)
(* Messages.  slot is not on the wire: it records the step of the protocol *)
(* a message was sent for, so that properties can speak about it.          *)
(***************************************************************************)
ShareSlot(w)  == w
OfferSlot(k)  == NumInput + 3*k
AnswerSlot(k) == NumInput + 3*k + 1
ValuesSlot(k) == NumInput + 3*k + 2
GossipSlot    == NumInput + 3*NumGate

InitialShare(w, b) ==
  [type |-> "InitialShare", slot |-> ShareSlot(w), share_value |-> b]
SenderPublic(k) == [type |-> "SenderToReceiver_OTPublicValue",
                    slot |-> OfferSlot(k)]
ReceiverPublic(k) == [type |-> "ReceiverToSender_OTPublicValue",
                      slot |-> AnswerSlot(k)]
EncryptedValues(k, m) == [type |-> "SenderToReceiver_OTEncryptedValues",
                          slot |-> ValuesSlot(k), encryptions |-> m]
FinalGossip(s) ==
  [type |-> "FinalGossip", slot |-> GossipSlot, bit_string |-> s]

Message ==
  [type : {"InitialShare"}, slot : Nat, share_value : Bit]
    \cup [type : {"SenderToReceiver_OTPublicValue",
                  "ReceiverToSender_OTPublicValue"}, slot : Nat]
    \cup [type : {"SenderToReceiver_OTEncryptedValues"}, slot : Nat,
          encryptions : [0..3 -> Bit]]
    \cup [type : {"FinalGossip"}, slot : Nat, bit_string : Outputs]

\* deserialize asserts the type of the message at the head of the stream.
CanRead(p, q, type) == chan[q][p] # <<>> /\ Head(chan[q][p]).type = type

(***************************************************************************)
(* The loops "for i in 0..num_parties-1, skipping my_party".               *)
(***************************************************************************)
FirstPeer(p)   == IF p = 0 THEN 1 ELSE 0
NextPeer(p, i) == IF i + 1 = p THEN i + 2 ELSE i + 1

Init ==
  /\ input \in Inputs
  /\ pc = [p \in Party |-> "run"]
  /\ wire = [p \in Party |-> 0]
  /\ gate = [p \in Party |-> 0]
  /\ peer = [p \in Party |-> FirstPeer(p)]
  /\ shares = [p \in Party |-> [w \in Wire |-> 0]]
  /\ acc = [p \in Party |-> 0]
  /\ bit = [k \in GateIndex |-> [p \in Party |-> [q \in Party |-> 0]]]
  /\ dealt = [w \in InputWire |-> [p \in Party |-> 0]]
  /\ gathered = [p \in Party |-> [q \in Party |-> [i \in OutputIndex |-> 0]]]
  /\ output = [p \in Party |-> NoOutput]
  /\ chan = [p \in Party |-> [q \in Party |-> <<>>]]

-----------------------------------------------------------------------------
(***************************************************************************)
(* Initial wire sharing.                                                   *)
(***************************************************************************)
Sharing(p) == pc[p] = "run" /\ wire[p] < NumInput

\* ShareDriver::generate_shares: random bits for the others, and for the owner
\* the XOR of those bits with the target.
GenerateShares(p, target) ==
  {s \in [Party -> Bit] :
     s[p] = Xor(XorOver([s EXCEPT ![p] = 0]), target)}

\* The owner of the wire generates its shares and sends one to every other party.
DealShares(p) ==
  LET w == wire[p] IN
  /\ Sharing(p) /\ Owner[w] = p
  /\ \E s \in GenerateShares(p, input[w]) :
       /\ dealt' = [dealt EXCEPT ![w] = s]
       /\ shares' = [shares EXCEPT ![p][w] = s[p]]
       /\ chan' = [chan EXCEPT ![p] = [q \in Party |->
            IF q = p THEN @[q] ELSE Append(@[q], InitialShare(w, s[q]))]]
  /\ wire' = [wire EXCEPT ![p] = w + 1]
  /\ UNCHANGED <<input, pc, gate, peer, acc, bit, gathered, output>>

\* Everybody else reads its share from the owner's connection.
ReceiveSecretShare(p) ==
  LET w == wire[p]
      q == Owner[w] IN
  /\ Sharing(p) /\ q # p /\ CanRead(p, q, "InitialShare")
  /\ shares' = [shares EXCEPT ![p][w] = Head(chan[q][p]).share_value]
  /\ chan' = [chan EXCEPT ![q][p] = Tail(@)]
  /\ wire' = [wire EXCEPT ![p] = w + 1]
  /\ UNCHANGED <<input, pc, gate, peer, acc, bit, dealt, gathered, output>>

-----------------------------------------------------------------------------
(***************************************************************************)
(* Circuit evaluation.                                                     *)
(***************************************************************************)
Evaluating(p) == wire[p] = NumInput /\ gate[p] < NumGate

Left(p, k)  == shares[p][Gates[k].lhs]
Right(p, k) == shares[p][Gates[k].rhs]

\* A gate without communication; only party 0 flips its share of a NOT gate.
LocalShare(p, k) ==
  IF Gates[k].type = "XOR" THEN Xor(Left(p, k), Right(p, k))
  ELSE IF p = 0 THEN 1 - Left(p, k) ELSE Left(p, k)

LocalGate(p) ==
  LET k == gate[p] IN
  /\ pc[p] = "run" /\ Evaluating(p) /\ Gates[k].type \in {"XOR", "NOT"}
  /\ shares' = [shares EXCEPT ![p][Gates[k].output] = LocalShare(p, k)]
  /\ gate' = [gate EXCEPT ![p] = k + 1]
  /\ UNCHANGED <<input, pc, wire, peer, acc, bit, dealt, gathered, output, chan>>

AtAnd(p) == Evaluating(p) /\ Gates[gate[p]].type = "AND"

SenderChoices_Swapped(b, left, right) ==
  [c \in 0..3 |-> CASE c = 0 -> b
                    [] c = 1 -> Xor(b, left)
                    [] c = 2 -> Xor(b, right)
                    [] c = 3 -> Xor(Xor(b, left), right)]

\* The options a sender with shares left and right offers, masked by b.
SenderChoices(b, left, right) ==
  [c \in 0..3 |-> CASE c = 0 -> b
                    [] c = 1 -> Xor(b, right)
                    [] c = 2 -> Xor(b, left)
                    [] c = 3 -> Xor(Xor(b, left), right)]

\* The option a receiver with shares left and right asks for.
ChoiceBit(left, right) == IF left = 0 THEN IF right = 0 THEN 0 ELSE 2
                                      ELSE IF right = 0 THEN 1 ELSE 3

\* OT_send, first part: towards a party with a larger index, draw the mask
\* and send the public value.
OTOffer(p) ==
  LET k == gate[p]
      q == peer[p] IN
  /\ pc[p] = "run" /\ AtAnd(p) /\ q \in Party /\ p < q
  /\ \E b \in Bit : bit' = [bit EXCEPT ![k][p][q] = b]
  /\ chan' = [chan EXCEPT ![p][q] = Append(@, SenderPublic(k))]
  /\ pc' = [pc EXCEPT ![p] = "offered"]
  /\ UNCHANGED <<input, wire, gate, peer, shares, acc, dealt, gathered, output>>

\* OT_recv, first part: read the sender's public value and answer it.
OTAnswer(p) ==
  LET q == peer[p] IN
  /\ pc[p] = "run" /\ AtAnd(p) /\ q < p
  /\ CanRead(p, q, "SenderToReceiver_OTPublicValue")
  /\ chan' = [chan EXCEPT ![q][p] = Tail(@),
                          ![p][q] = Append(@, ReceiverPublic(gate[p]))]
  /\ pc' = [pc EXCEPT ![p] = "answered"]
  /\ UNCHANGED <<input, wire, gate, peer, shares, acc, bit, dealt, gathered, output>>

\* The end of one turn of the loop over the peers of an AND gate.
Accumulate(p, ot_response) ==
  /\ acc' = [acc EXCEPT ![p] = @ + ot_response]
  /\ peer' = [peer EXCEPT ![p] = NextPeer(p, @)]
  /\ pc' = [pc EXCEPT ![p] = "run"]

OTTransfer_NoRead(p) ==
  LET k == gate[p]
      q == peer[p]
      b == bit[k][p][q] IN
  /\ pc[p] = "offered"
  /\ chan' = [chan EXCEPT
       ![p][q] = Append(@, EncryptedValues(k, SenderChoices(b, Left(p, k), Right(p, k))))]
  /\ Accumulate(p, b)
  /\ UNCHANGED <<input, wire, gate, shares, bit, dealt, gathered, output>>

\* OT_send, second part: read the answer and send the encrypted options.
OTTransfer(p) ==
  LET k == gate[p]
      q == peer[p]
      b == bit[k][p][q] IN
  /\ pc[p] = "offered" /\ CanRead(p, q, "ReceiverToSender_OTPublicValue")
  /\ chan' = [chan EXCEPT ![q][p] = Tail(@),
       ![p][q] = Append(@, EncryptedValues(k, SenderChoices(b, Left(p, k), Right(p, k))))]
  /\ Accumulate(p, b)
  /\ UNCHANGED <<input, wire, gate, shares, bit, dealt, gathered, output>>

\* OT_recv, second part: read the encrypted options and open the chosen one.
OTReceive(p) ==
  LET k == gate[p]
      q == peer[p] IN
  /\ pc[p] = "answered" /\ CanRead(p, q, "SenderToReceiver_OTEncryptedValues")
  /\ chan' = [chan EXCEPT ![q][p] = Tail(@)]
  /\ Accumulate(p, Head(chan[q][p]).encryptions[ChoiceBit(Left(p, k), Right(p, k))])
  /\ UNCHANGED <<input, wire, gate, shares, bit, dealt, gathered, output>>

AndShare_Unreduced(p, k) == acc[p] + Left(p, k) * Right(p, k)
\* ot_accumulator with the local product, modulo 2.
AndShare(p, k) == (acc[p] + Left(p, k) * Right(p, k)) % 2

\* After the last peer: the accumulated bits and the local product.
FinishAnd(p) ==
  LET k == gate[p] IN
  /\ pc[p] = "run" /\ AtAnd(p) /\ peer[p] = N
  /\ shares' = [shares EXCEPT ![p][Gates[k].output] = AndShare(p, k)]
  /\ acc' = [acc EXCEPT ![p] = 0]
  /\ gate' = [gate EXCEPT ![p] = k + 1]
  /\ peer' = [peer EXCEPT ![p] = FirstPeer(p)]
  /\ UNCHANGED <<input, pc, wire, bit, dealt, gathered, output, chan>>

-----------------------------------------------------------------------------
(***************************************************************************)
(* Output gathering.                                                       *)
(***************************************************************************)
OutputShare_OffByOne(p) ==
  [i \in OutputIndex |-> shares[p][NumWire - OutputLength + i - 1]]
\* output_share: the shares of the last output_length wires.
OutputShare(p) ==
  [i \in OutputIndex |-> shares[p][NumWire - OutputLength + i]]

\* GossipSend to every other party, before reading from any.
GossipSend(p) ==
  /\ pc[p] = "run" /\ wire[p] = NumInput /\ gate[p] = NumGate
  /\ gathered' = [gathered EXCEPT ![p][p] = OutputShare(p)]
  /\ chan' = [chan EXCEPT ![p] = [q \in Party |->
       IF q = p THEN @[q] ELSE Append(@[q], FinalGossip(OutputShare(p)))]]
  /\ pc' = [pc EXCEPT ![p] = "gather"]
  /\ UNCHANGED <<input, wire, gate, peer, shares, acc, bit, dealt, output>>

GossipReceive(p) ==
  LET q == peer[p] IN
  /\ pc[p] = "gather" /\ q \in Party /\ CanRead(p, q, "FinalGossip")
  /\ gathered' = [gathered EXCEPT ![p][q] = Head(chan[q][p]).bit_string]
  /\ chan' = [chan EXCEPT ![q][p] = Tail(@)]
  /\ peer' = [peer EXCEPT ![p] = NextPeer(p, @)]
  /\ UNCHANGED <<input, pc, wire, gate, shares, acc, bit, dealt, output>>

GatheredAll_OffByOne(p) == peer[p] >= N - 1
GatheredAll(p) == peer[p] = N

\* Final XORing; the participant prints the result and exits.
FinalXor(p) ==
  /\ pc[p] = "gather" /\ GatheredAll(p)
  /\ output' = [output EXCEPT ![p] =
       [i \in OutputIndex |-> XorOver([q \in Party |-> gathered[p][q][i]])]]
  /\ pc' = [pc EXCEPT ![p] = "done"]
  /\ UNCHANGED <<input, wire, gate, peer, shares, acc, bit, dealt, gathered, chan>>

-----------------------------------------------------------------------------
Step(p) ==
  \/ DealShares(p) \/ ReceiveSecretShare(p)
  \/ LocalGate(p)
  \/ OTOffer(p) \/ OTAnswer(p) \/ OTTransfer(p) \/ OTReceive(p) \/ FinishAnd(p)
  \/ GossipSend(p) \/ GossipReceive(p) \/ FinalXor(p)

Terminated == \A p \in Party : pc[p] = "done"

\* All participants have exited; nothing is left to do.
Terminating == Terminated /\ UNCHANGED vars

Next == (\E p \in Party : Step(p)) \/ Terminating

\* Every participant is a running process that is scheduled again and again.
Fairness == \A p \in Party : WF_vars(Step(p))

Spec == Init /\ [][Next]_vars
FairSpec == Spec /\ Fairness

-----------------------------------------------------------------------------
(***************************************************************************)
(* Properties.                                                             *)
(***************************************************************************)

\* The variables have the types of the program's variables: in particular a
\* share is a bit, although ot_accumulator is a plain int (participant.cxx).
TypeOK ==
  /\ input \in Inputs
  /\ pc \in [Party -> {"run", "offered", "answered", "gather", "done"}]
  /\ wire \in [Party -> 0 .. NumInput]
  /\ gate \in [Party -> 0 .. NumGate]
  /\ peer \in [Party -> 0 .. N]
  /\ shares \in [Party -> [Wire -> Bit]]
  /\ acc \in [Party -> Nat]
  /\ bit \in [GateIndex -> [Party -> [Party -> Bit]]]
  /\ dealt \in [InputWire -> [Party -> Bit]]
  /\ gathered \in [Party -> [Party -> Outputs]]
  /\ output \in [Party -> Outputs \cup {NoOutput}]
  /\ chan \in [Party -> [Party -> Seq(Message)]]

\* The step for which p, with the control state it is in, reads from q.
Reading(p, q, slot) ==
  \/ Sharing(p) /\ Owner[wire[p]] = q /\ q # p /\ slot = ShareSlot(wire[p])
  \/ /\ peer[p] = q /\ q \in Party
     /\ \/ pc[p] = "run" /\ AtAnd(p) /\ q < p /\ slot = OfferSlot(gate[p])
        \/ pc[p] = "offered" /\ slot = AnswerSlot(gate[p])
        \/ pc[p] = "answered" /\ slot = ValuesSlot(gate[p])
        \/ pc[p] = "gather" /\ slot = GossipSlot

\* A message carries neither a wire nor a gate number, so the parties must
\* stay in step by order alone: whatever is at the head of the stream a party
\* reads from was sent for the very wire, gate and transfer phase it is at
\* (peer_link.cxx, socket_read in every receiving function).
LockStep ==
  \A p, q \in Party : \A slot \in 0 .. GossipSlot :
    Reading(p, q, slot) /\ chan[q][p] # <<>> => Head(chan[q][p]).slot = slot

\* p has computed its share of wire w.
Computed(p, w) ==
  \/ w \in InputWire /\ w < wire[p]
  \/ wire[p] = NumInput /\ \E k \in 0 .. gate[p]-1 : Gates[k].output = w

\* The central invariant of the protocol: the shares of a wire XOR to the
\* value the circuit gives that wire, however far the parties have drifted
\* apart (participant.cxx, circuit evaluation).
ShareCorrect ==
  \A w \in Wire : (\A p \in Party : Computed(p, w)) =>
    XorOver([p \in Party |-> shares[p][w]]) = Value[input][w]

\* Nothing is written to a participant that has returned from main and so
\* closed its sockets, and it leaves nothing unread behind; otherwise a slower
\* party would get a reset instead of the data (participant.cxx, gathering).
CleanExit ==
  \A p, q \in Party : pc[p] = "done" /\ q # p =>
    chan[q][p] = <<>> /\ pc[q] \in {"gather", "done"}

\* The handshake of each transfer keeps a fast party at most two messages
\* ahead once its reader is past the input wires, whatever the circuit's size,
\* so the evaluation never depends on large socket buffers.
Backlog ==
  \A p, q \in Party : q # p /\ wire[q] = NumInput => Len(chan[p][q]) <= 2

\* Every participant prints the clear value of the circuit, once, and does so
\* eventually: the protocol implements the ideal computation of module MPC.
Ideal == INSTANCE MPC WITH result <- output, Circuit <- ClearOutput
ImplementsMPC == Ideal!FairSpec
=============================================================================
