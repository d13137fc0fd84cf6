----------------------------- MODULE GMWProofs -----------------------------
(***************************************************************************)
(* Safety of modules GMW and Session, for every number of parties, circuit *)
(* and input, and whoever dies:                                            *)
(* the types of its variables, the order of what travels between two       *)
(* parties, and then what the shares are: whatever the parties' relative   *)
(* speeds, the shares of a wire XOR to the value the circuit gives it, and *)
(* so every party prints the circuit's output.                             *)
(***************************************************************************)
EXTENDS Session, Basics

\* Where the loops of a participant can be: the transfers belong to an AND
\* gate and a peer on the right side of the party, and what comes after the
\* circuit comes after its last gate.
ControlOf(p) ==
  /\ pc[p] # "run" => wire[p] = NumInput
  /\ pc[p] \in {"offered", "answered"} => AtAnd(p) /\ peer[p] \in Party
  /\ pc[p] = "offered" => p < peer[p]
  /\ pc[p] = "answered" => peer[p] < p
  /\ pc[p] \in {"gather", "done"} => gate[p] = NumGate
  /\ pc[p] = "done" => peer[p] = N
  /\ pc[p] = "run" /\ ~AtAnd(p) => peer[p] = FirstPeer(p)
  /\ wire[p] < NumInput => gate[p] = 0
  /\ peer[p] # p

Control == \A p \in Party : ControlOf(p)

TypeInv == TypeOK /\ Control

-----------------------------------------------------------------------------
(***************************************************************************)
(* Lemmas about the helpers.                                               *)
(***************************************************************************)
\* The parties are finitely many, and so is any set of them.
LEMMA PartyFinite ==
  /\ IsFiniteSet(Party)
  /\ \A S \in SUBSET Party : IsFiniteSet(S) /\ Cardinality(S) \in Nat
<1>1. IsFiniteSet(Party)
  BY PartiesAssumption, FS_Interval DEF Party
<1> QED
  BY <1>1, FS_Subset, FS_CardinalityType

\* The XOR of one bit per party is a bit.
LEMMA XorOverType == ASSUME NEW f PROVE XorOver(f) \in Bit
<1>1. Cardinality({p \in Party : f[p] = 1}) \in Nat
  BY PartyFinite
<1> QED
  BY <1>1 DEF XorOver, Bit

LEMMA XorType == \A x, y : Xor(x, y) \in Bit
  BY DEF Xor, Bit

\* The constants as the proofs use them.
LEMMA CircuitFacts ==
  /\ N \in Nat /\ N > 0
  /\ NumWire \in Nat /\ NumGate \in Nat /\ NumInput \in Nat /\ OutputLength \in Nat
  /\ NumInput <= NumWire /\ OutputLength <= NumWire
  /\ \A w \in InputWire : w \in Wire /\ Owner[w] \in Party
  /\ \A i \in OutputIndex : NumWire - OutputLength + i \in Wire
  /\ \A k \in GateIndex : /\ Gates[k].type \in {"AND", "XOR", "NOT"}
                          /\ Gates[k].lhs \in Wire /\ Gates[k].rhs \in Wire
                          /\ Gates[k].output \in Wire
<1>1. /\ N \in Nat /\ N > 0
      /\ NumWire \in Nat /\ NumGate \in Nat /\ NumInput \in Nat /\ OutputLength \in Nat
      /\ NumInput <= NumWire /\ OutputLength <= NumWire
  BY PartiesAssumption, CircuitAssumption
<1>2. \A w \in InputWire : w \in Wire /\ Owner[w] \in Party
  BY <1>1, OwnerAssumption DEF InputWire, Wire
<1>3. \A i \in OutputIndex : NumWire - OutputLength + i \in Wire
  BY <1>1 DEF OutputIndex, Wire
<1>4. Gates \in [GateIndex -> Gate]
  BY CircuitAssumption
<1> QED
  BY <1>1, <1>2, <1>3, <1>4 DEF Gate

\* The loops over the peers stay within 0 .. N and skip the party itself.
LEMMA PeerLoop ==
  ASSUME NEW p \in Party
  PROVE  /\ FirstPeer(p) \in 0 .. N /\ FirstPeer(p) # p
         /\ \A i \in Party : i # p => NextPeer(p, i) \in 0 .. N /\ NextPeer(p, i) # p
  BY CircuitFacts DEF Party, FirstPeer, NextPeer

\* The options a sender offers are bits.
LEMMA ChoicesType ==
  ASSUME NEW b \in Bit, NEW left \in Bit, NEW right \in Bit
  PROVE  /\ SenderChoices(b, left, right) \in [0..3 -> Bit]
         /\ ChoiceBit(left, right) \in 0..3
  BY XorType DEF SenderChoices, ChoiceBit

LEMMA AndShareType ==
  ASSUME NEW x \in Nat, NEW left \in Bit, NEW right \in Bit
  PROVE  (x + left * right) % 2 \in Bit
<1>1. left * right \in Nat
  BY DEF Bit
<1> QED
  BY <1>1 DEF Bit

\* Appending to a channel of messages, and reading from one.
LEMMA ChannelAppend ==
  ASSUME NEW c \in Seq(Message), NEW m \in Message
  PROVE  Append(c, m) \in Seq(Message)
  OBVIOUS

LEMMA ChannelRead ==
  ASSUME NEW c \in Seq(Message), c # <<>>
  PROVE  Head(c) \in Message /\ Tail(c) \in Seq(Message)
  BY HeadTailProperties

\* The messages the actions send are messages.
LEMMA MessageType ==
  /\ \A w \in InputWire : \A x \in Bit : InitialShare(w, x) \in Message
  /\ \A k \in GateIndex :
       /\ SenderPublic(k) \in Message /\ ReceiverPublic(k) \in Message
       /\ \A m \in [0..3 -> Bit] : EncryptedValues(k, m) \in Message
  /\ \A s \in Outputs : FinalGossip(s) \in Message
<1>1. /\ \A w \in InputWire : ShareSlot(w) \in Nat
      /\ \A k \in GateIndex :
           OfferSlot(k) \in Nat /\ AnswerSlot(k) \in Nat /\ ValuesSlot(k) \in Nat
      /\ GossipSlot \in Nat
  BY CircuitFacts
     DEF InputWire, GateIndex, ShareSlot, OfferSlot, AnswerSlot, ValuesSlot, GossipSlot
<1>2. \A w \in InputWire : \A x \in Bit : InitialShare(w, x) \in Message
  BY <1>1 DEF InitialShare, Message
<1>3. ASSUME NEW k \in GateIndex
      PROVE  /\ SenderPublic(k) \in Message /\ ReceiverPublic(k) \in Message
             /\ \A m \in [0..3 -> Bit] : EncryptedValues(k, m) \in Message
  BY <1>1, <1>3 DEF SenderPublic, ReceiverPublic, EncryptedValues, Message
<1>4. \A s \in Outputs : FinalGossip(s) \in Message
  BY <1>1 DEF FinalGossip, Message
<1> QED
  BY <1>2, <1>3, <1>4

\* What a message of each type holds.
LEMMA MessageFields ==
  \A m \in Message :
    /\ m.slot \in Nat
    /\ m.type = "InitialShare" => m.share_value \in Bit
    /\ m.type = "SenderToReceiver_OTEncryptedValues" =>
         m.encryptions \in [0..3 -> Bit]
    /\ m.type = "FinalGossip" => m.bit_string \in Outputs
  BY DEF Message

-----------------------------------------------------------------------------
(***************************************************************************)
(* What one send, one read, a read with its answer, and a send to every    *)
(* other party do to the channels.                                         *)
(***************************************************************************)
Channels == [Party -> [Party -> Seq(Message)]]

LEMMA SendOne ==
  ASSUME NEW c \in Channels, NEW p \in Party, NEW q \in Party, NEW m \in Message
  PROVE  [c EXCEPT ![p][q] = Append(@, m)] \in Channels
<1>1. Append(c[p][q], m) \in Seq(Message)
  BY ChannelAppend DEF Channels
<1> QED
  BY <1>1 DEF Channels

LEMMA ReadOne ==
  ASSUME NEW c \in Channels, NEW p \in Party, NEW q \in Party, c[q][p] # <<>>
  PROVE  [c EXCEPT ![q][p] = Tail(@)] \in Channels
<1>1. Tail(c[q][p]) \in Seq(Message)
  BY ChannelRead DEF Channels
<1> QED
  BY <1>1 DEF Channels

LEMMA ReadAndSend ==
  ASSUME NEW c \in Channels, NEW p \in Party, NEW q \in Party, p # q,
         c[q][p] # <<>>, NEW m \in Message
  PROVE  [c EXCEPT ![q][p] = Tail(@), ![p][q] = Append(@, m)] \in Channels
<1>1. Tail(c[q][p]) \in Seq(Message) /\ Append(c[p][q], m) \in Seq(Message)
  BY ChannelRead, ChannelAppend DEF Channels
<1> QED
  BY <1>1 DEF Channels

LEMMA SendAll ==
  ASSUME NEW c \in [Party -> Seq(Message)], NEW p \in Party, NEW M \in [Party -> Message]
  PROVE  [q \in Party |-> IF q = p THEN c[q] ELSE Append(c[q], M[q])]
           \in [Party -> Seq(Message)]
<1>1. \A q \in Party : Append(c[q], M[q]) \in Seq(Message)
  BY ChannelAppend
<1> QED
  BY <1>1

-----------------------------------------------------------------------------
(***************************************************************************)
(* Type correctness.                                                       *)
(***************************************************************************)
LEMMA TypeInit == Init => TypeInv
<1> SUFFICES ASSUME Init PROVE TypeInv
  OBVIOUS
<1>1. TypeOK
  BY CircuitFacts, PeerLoop, EmptySeq DEF Init, TypeOK, Outputs, Bit, Party
<1>2. Control
  BY CircuitFacts, PeerLoop DEF Init, Control, ControlOf
<1> QED
  BY <1>1, <1>2 DEF TypeInv

\* The facts about a participant that its actions use.
LEMMA TypeFacts ==
  ASSUME TypeInv, NEW p \in Party
  PROVE  /\ chan \in Channels
         /\ wire[p] \in 0 .. NumInput /\ gate[p] \in 0 .. NumGate
         /\ peer[p] \in 0 .. N /\ peer[p] # p
         /\ acc[p] \in Nat
         /\ \A w \in Wire : shares[p][w] \in Bit
         /\ \A k \in GateIndex : Left(p, k) \in Bit /\ Right(p, k) \in Bit
         /\ \A k \in GateIndex : \A q \in Party : bit[k][p][q] \in Bit
         /\ OutputShare(p) \in Outputs
<1>1. \A w \in Wire : shares[p][w] \in Bit
  BY DEF TypeInv, TypeOK
<1>2. \A k \in GateIndex : Left(p, k) \in Bit /\ Right(p, k) \in Bit
  BY <1>1, CircuitFacts DEF Left, Right
<1>3. OutputShare(p) \in Outputs
  BY <1>1, CircuitFacts DEF OutputShare, Outputs
<1> QED
  BY <1>1, <1>2, <1>3 DEF TypeInv, TypeOK, Control, ControlOf, Channels

\* A participant's loops are its own: only the one that steps can disturb them.
LEMMA ControlStep ==
  ASSUME TypeInv, NEW p \in Party, ControlOf(p)',
         \A r \in Party \ {p} : /\ pc'[r] = pc[r] /\ wire'[r] = wire[r]
                                /\ gate'[r] = gate[r] /\ peer'[r] = peer[r]
  PROVE  Control'
<1> SUFFICES ASSUME NEW r \in Party, r # p
             PROVE  ControlOf(r)'
  BY DEF Control
<1> QED
  BY DEF TypeInv, Control, ControlOf, AtAnd, Evaluating

\* One more wire is shared; nothing else moves.
LEMMA SharingControl ==
  ASSUME TypeInv, NEW p \in Party, Sharing(p),
         wire' = [wire EXCEPT ![p] = wire[p] + 1], UNCHANGED <<pc, gate, peer>>
  PROVE  Control'
<1>1. /\ wire[p] + 1 \in 0 .. NumInput /\ wire[p] < NumInput /\ NumInput \in Nat
      /\ wire[p] \in Nat /\ pc[p] = "run"
  BY CircuitFacts DEF TypeInv, TypeOK, Sharing
<1>2. gate[p] = 0 /\ peer[p] = FirstPeer(p)
  BY <1>1 DEF TypeInv, Control, ControlOf, AtAnd, Evaluating
<1>3. ControlOf(p)'
  BY <1>1, <1>2 DEF TypeInv, TypeOK, Control, ControlOf
<1> QED
  BY <1>3, ControlStep DEF TypeInv, TypeOK

LEMMA TypeNext == TypeInv /\ [Next]_vars => TypeInv'
<1> SUFFICES ASSUME TypeInv, [Next]_vars PROVE TypeInv'
  OBVIOUS
<1> USE DEF TypeInv
<1>1. CASE UNCHANGED vars
  BY <1>1 DEF vars, TypeOK, Control, ControlOf, AtAnd, Evaluating
<1>2. ASSUME NEW p \in Party, Step(p) PROVE TypeInv'
  <2>0. /\ chan \in Channels
        /\ wire[p] \in 0 .. NumInput /\ gate[p] \in 0 .. NumGate
        /\ peer[p] \in 0 .. N /\ peer[p] # p
        /\ acc[p] \in Nat
        /\ \A w \in Wire : shares[p][w] \in Bit
        /\ \A k \in GateIndex : Left(p, k) \in Bit /\ Right(p, k) \in Bit
        /\ \A k \in GateIndex : \A q \in Party : bit[k][p][q] \in Bit
        /\ OutputShare(p) \in Outputs
    BY TypeFacts
  <2>1. CASE DealShares(p)
    <3>1. PICK s \in GenerateShares(p, input[wire[p]]) :
            /\ dealt' = [dealt EXCEPT ![wire[p]] = s]
            /\ shares' = [shares EXCEPT ![p][wire[p]] = s[p]]
            /\ chan' = [chan EXCEPT ![p] = [q \in Party |->
                 IF q = p THEN @[q] ELSE Append(@[q], InitialShare(wire[p], s[q]))]]
      BY <2>1 DEF DealShares
    <3>2. s \in [Party -> Bit] /\ wire[p] \in InputWire /\ wire[p] + 1 \in 0 .. NumInput
      BY <2>0, <2>1, CircuitFacts DEF GenerateShares, DealShares, Sharing, InputWire
    <3>3. PICK M \in [Party -> Message] :
            M = [q \in Party |-> InitialShare(wire[p], s[q])]
      BY <3>2, MessageType
    <3>4. chan' \in Channels
      <4> DEFINE e == [q \in Party |->
                         IF q = p THEN chan[p][q] ELSE Append(chan[p][q], M[q])]
      <4>1. chan' = [chan EXCEPT ![p] = e]
        BY <3>1, <3>3
      <4>2. chan[p] \in [Party -> Seq(Message)]
        BY <2>0 DEF Channels
      <4>3. e \in [Party -> Seq(Message)]
        BY <4>2, SendAll
      <4> HIDE DEF e
      <4> QED
        BY <2>0, <4>1, <4>3 DEF Channels
    <3>5. TypeOK'
      BY <2>1, <3>1, <3>2, <3>4, CircuitFacts
         DEF TypeOK, DealShares, Channels
    <3>6. Control'
      BY <2>1, SharingControl DEF DealShares
    <3> QED
      BY <3>5, <3>6
  <2>2. CASE ReceiveSecretShare(p)
    <3> DEFINE w == wire[p]
               q == Owner[w]
    <3>1. w \in InputWire /\ q \in Party /\ w + 1 \in 0 .. NumInput
      BY <2>0, <2>2, CircuitFacts DEF ReceiveSecretShare, Sharing, InputWire
    <3>2. chan' \in Channels
      BY <2>0, <2>2, <3>1, ReadOne DEF ReceiveSecretShare, CanRead
    <3>3. Head(chan[q][p]).share_value \in Bit
      <4>1. chan[q][p] \in Seq(Message) /\ chan[q][p] # <<>>
        BY <2>0, <2>2, <3>1 DEF ReceiveSecretShare, CanRead, Channels
      <4>2. Head(chan[q][p]) \in Message
        BY <4>1, ChannelRead
      <4> QED
        BY <2>2, <4>2, MessageFields DEF ReceiveSecretShare, CanRead
    <3>4. TypeOK'
      BY <2>2, <3>1, <3>2, <3>3, CircuitFacts
         DEF TypeOK, ReceiveSecretShare, Channels
    <3>5. Control'
      BY <2>2, SharingControl DEF ReceiveSecretShare
    <3> QED
      BY <3>4, <3>5
  <2>3. CASE LocalGate(p)
    <3>1. gate[p] \in GateIndex /\ gate[p] + 1 \in 0 .. NumGate
      BY <2>0, <2>3, CircuitFacts DEF LocalGate, Evaluating, GateIndex
    <3>2. LocalShare(p, gate[p]) \in Bit
      BY <2>0, <3>1, XorType DEF LocalShare, Bit
    <3>3. TypeOK'
      BY <2>3, <3>1, <3>2, CircuitFacts DEF TypeOK, LocalGate
    <3>4. ControlOf(p)'
      BY <2>0, <2>3, <3>1, CircuitFacts
         DEF TypeOK, LocalGate, Control, ControlOf, AtAnd, Evaluating
    <3> QED
      BY <2>3, <3>3, <3>4, ControlStep DEF LocalGate, TypeOK
  <2>4. CASE OTOffer(p)
    <3>1. /\ gate[p] \in GateIndex /\ peer[p] \in Party
          /\ SenderPublic(gate[p]) \in Message
      BY <2>0, <2>4, CircuitFacts, MessageType DEF OTOffer, AtAnd, Evaluating, GateIndex
    <3>2. chan' \in Channels
      BY <2>0, <2>4, <3>1, SendOne DEF OTOffer
    <3>3. TypeOK'
      <4>1. bit' \in [GateIndex -> [Party -> [Party -> Bit]]]
        BY <2>0, <2>4, <3>1 DEF TypeOK, OTOffer
      <4>2. pc' \in [Party -> {"run", "offered", "answered", "gather", "done"}]
        BY <2>0, <2>4 DEF TypeOK, OTOffer
      <4>3. UNCHANGED <<input, wire, gate, peer, shares, acc, dealt, gathered, output>>
        BY <2>4 DEF OTOffer
      <4> QED
        BY <2>0, <3>2, <4>1, <4>2, <4>3 DEF TypeOK, Channels
    <3>4. ControlOf(p)'
      BY <2>0, <2>4, <3>1 DEF TypeOK, OTOffer, Control, ControlOf, AtAnd, Evaluating
    <3> QED
      BY <2>4, <3>3, <3>4, ControlStep DEF OTOffer, TypeOK
  <2>5. CASE OTAnswer(p)
    <3>1. /\ gate[p] \in GateIndex /\ peer[p] \in Party
          /\ ReceiverPublic(gate[p]) \in Message
      BY <2>0, <2>5, CircuitFacts, MessageType
         DEF OTAnswer, AtAnd, Evaluating, GateIndex, Party
    <3>2. chan' \in Channels
      BY <2>0, <2>5, <3>1, ReadAndSend DEF OTAnswer, CanRead
    <3>3. TypeOK'
      BY <2>5, <3>1, <3>2 DEF TypeOK, OTAnswer, Channels
    <3>4. ControlOf(p)'
      BY <2>0, <2>5, <3>1 DEF TypeOK, OTAnswer, Control, ControlOf, AtAnd, Evaluating
    <3> QED
      BY <2>5, <3>3, <3>4, ControlStep DEF OTAnswer, TypeOK
  <2>6. CASE OTTransfer(p)
    <3> DEFINE k == gate[p]
               q == peer[p]
               b == bit[k][p][q]
    <3>1. k \in GateIndex /\ q \in Party /\ q # p
      BY <2>0, <2>6, CircuitFacts
         DEF OTTransfer, Control, ControlOf, AtAnd, Evaluating, GateIndex
    <3>2. b \in Bit /\ acc[p] + b \in Nat
      BY <2>0, <3>1 DEF Bit
    <3>3. EncryptedValues(k, SenderChoices(b, Left(p, k), Right(p, k))) \in Message
      BY <2>0, <3>1, <3>2, ChoicesType, MessageType
    <3>4. chan' \in Channels
      BY <2>0, <2>6, <3>1, <3>3, ReadAndSend DEF OTTransfer, CanRead
    <3>5. NextPeer(p, q) \in 0 .. N /\ NextPeer(p, q) # p
      BY <3>1, PeerLoop
    <3>6. TypeOK'
      BY <2>6, <3>2, <3>4, <3>5 DEF TypeOK, OTTransfer, Accumulate, Channels
    <3>7. ControlOf(p)'
      BY <2>0, <2>6, <3>5
         DEF TypeOK, OTTransfer, Accumulate, Control, ControlOf, AtAnd, Evaluating
    <3> QED
      BY <2>6, <3>6, <3>7, ControlStep DEF OTTransfer, Accumulate, TypeOK
  <2>7. CASE OTReceive(p)
    <3> DEFINE k == gate[p]
               q == peer[p]
               c == ChoiceBit(Left(p, k), Right(p, k))
               x == Head(chan[q][p]).encryptions[c]
    <3>1. k \in GateIndex /\ q \in Party /\ q # p
      BY <2>0, <2>7, CircuitFacts
         DEF OTReceive, Control, ControlOf, AtAnd, Evaluating, GateIndex
    <3>2. chan' \in Channels
      BY <2>0, <2>7, <3>1, ReadOne DEF OTReceive, CanRead
    <3>3. x \in Bit
      <4>1. chan[q][p] \in Seq(Message) /\ chan[q][p] # <<>>
        BY <2>0, <2>7, <3>1 DEF OTReceive, CanRead, Channels
      <4>2. Head(chan[q][p]).encryptions \in [0..3 -> Bit]
        BY <2>7, <4>1, ChannelRead, MessageFields DEF OTReceive, CanRead
      <4>3. c \in 0..3
        BY <2>0, <3>1, ChoicesType
      <4> QED
        BY <4>2, <4>3
    <3>4. acc[p] + x \in Nat
      BY <2>0, <3>3 DEF Bit
    <3>5. NextPeer(p, q) \in 0 .. N /\ NextPeer(p, q) # p
      BY <3>1, PeerLoop
    <3>6. TypeOK'
      BY <2>7, <3>2, <3>4, <3>5 DEF TypeOK, OTReceive, Accumulate, Channels
    <3>7. ControlOf(p)'
      BY <2>0, <2>7, <3>5
         DEF TypeOK, OTReceive, Accumulate, Control, ControlOf, AtAnd, Evaluating
    <3> QED
      BY <2>7, <3>6, <3>7, ControlStep DEF OTReceive, Accumulate, TypeOK
  <2>8. CASE FinishAnd(p)
    <3>1. gate[p] \in GateIndex /\ gate[p] + 1 \in 0 .. NumGate
      BY <2>0, <2>8, CircuitFacts DEF FinishAnd, AtAnd, Evaluating, GateIndex
    <3>2. AndShare(p, gate[p]) \in Bit
      BY <2>0, <3>1, AndShareType DEF AndShare
    <3>3. TypeOK'
      BY <2>8, <3>1, <3>2, CircuitFacts, PeerLoop DEF TypeOK, FinishAnd
    <3>4. ControlOf(p)'
      BY <2>0, <2>8, <3>1, CircuitFacts, PeerLoop
         DEF TypeOK, FinishAnd, Control, ControlOf, AtAnd, Evaluating
    <3> QED
      BY <2>8, <3>3, <3>4, ControlStep DEF FinishAnd, TypeOK
  <2>9. CASE GossipSend(p)
    <3>1. PICK M \in [Party -> Message] : M = [q \in Party |-> FinalGossip(OutputShare(p))]
      BY <2>0, MessageType
    <3>2. chan' \in Channels
      <4> DEFINE e == [q \in Party |->
                         IF q = p THEN chan[p][q] ELSE Append(chan[p][q], M[q])]
      <4>1. chan' = [chan EXCEPT ![p] = e]
        BY <2>9, <3>1 DEF GossipSend
      <4>2. chan[p] \in [Party -> Seq(Message)]
        BY <2>0 DEF Channels
      <4>3. e \in [Party -> Seq(Message)]
        BY <4>2, SendAll
      <4> HIDE DEF e
      <4> QED
        BY <2>0, <4>1, <4>3 DEF Channels
    <3>3. TypeOK'
      BY <2>0, <2>9, <3>2 DEF TypeOK, GossipSend, Channels
    <3>4. ControlOf(p)'
      BY <2>9, CircuitFacts
         DEF TypeOK, GossipSend, Control, ControlOf, AtAnd, Evaluating
    <3> QED
      BY <2>9, <3>3, <3>4, ControlStep DEF GossipSend, TypeOK
  <2>10. CASE GossipReceive(p)
    <3> DEFINE q == peer[p]
    <3>1. q \in Party /\ q # p
      BY <2>0, <2>10 DEF GossipReceive
    <3>2. chan' \in Channels
      BY <2>0, <2>10, <3>1, ReadOne DEF GossipReceive, CanRead
    <3>3. Head(chan[q][p]).bit_string \in Outputs
      <4>1. chan[q][p] \in Seq(Message) /\ chan[q][p] # <<>>
        BY <2>0, <2>10, <3>1 DEF GossipReceive, CanRead, Channels
      <4> QED
        BY <2>10, <4>1, ChannelRead, MessageFields DEF GossipReceive, CanRead
    <3>4. NextPeer(p, q) \in 0 .. N /\ NextPeer(p, q) # p
      BY <3>1, PeerLoop
    <3>5. TypeOK'
      BY <2>10, <3>1, <3>2, <3>3, <3>4 DEF TypeOK, GossipReceive, Channels
    <3>6. ControlOf(p)'
      BY <2>0, <2>10, <3>4
         DEF TypeOK, GossipReceive, Control, ControlOf, AtAnd, Evaluating
    <3> QED
      BY <2>10, <3>5, <3>6, ControlStep DEF GossipReceive, TypeOK
  <2>11. CASE FinalXor(p)
    <3>1. [i \in OutputIndex |-> XorOver([q \in Party |-> gathered[p][q][i]])] \in Outputs
      BY XorOverType DEF Outputs
    <3>2. TypeOK'
      BY <2>11, <3>1 DEF TypeOK, FinalXor
    <3>3. ControlOf(p)'
      BY <2>11 DEF TypeOK, FinalXor, GatheredAll, Control, ControlOf, AtAnd, Evaluating
    <3> QED
      BY <2>11, <3>2, <3>3, ControlStep DEF FinalXor, TypeOK
  <2> QED
    BY <1>2, <2>1, <2>2, <2>3, <2>4, <2>5, <2>6, <2>7, <2>8, <2>9, <2>10, <2>11
       DEF Step
<1> QED
  BY <1>1, <1>2 DEF Next, Terminating

\* The variables keep the types the code gives them, whatever the circuit, the
\* number of parties, their inputs and their speeds; in particular a share is
\* always a bit (participant.cxx).
THEOREM TypeCorrect == Spec => []TypeOK
<1>1. TypeInv => TypeOK
  BY DEF TypeInv
<1> QED
  BY TypeInit, TypeNext, <1>1, PTL DEF Spec

-----------------------------------------------------------------------------
(***************************************************************************)
(* What travels between two parties, for every number of parties and every *)
(* circuit: parties that put no gate or wire number into their messages    *)
(* never take one message for another, exit cleanly, and never get more    *)
(* than two messages ahead of a reader.                                    *)
(*                                                                         *)
(* The slots p ever uses towards q are known in advance (Plan).  A party's *)
(* control state fixes how far it is along that plan as a sender (SendPos) *)
(* and as a reader (ReadPos).  A channel always holds, in order, exactly   *)
(* the planned slots between its reader's and its sender's positions.      *)
(***************************************************************************)
IsAnd(k) == Gates[k].type = "AND"

\* The slots of the messages that p sends to q during the whole protocol.
Plan(p, q) ==
  {s \in 0 .. GossipSlot :
     \/ s \in InputWire /\ Owner[s] = p
     \/ \E k \in GateIndex :
          /\ IsAnd(k)
          /\ \/ p < q /\ s \in {OfferSlot(k), ValuesSlot(k)}
             \/ q < p /\ s = AnswerSlot(k)
     \/ s = GossipSlot}

\* p has sent to q what it plans to send in slots below SendPos(p, q), and
\* nothing else.
SendPos(p, q) ==
  IF wire[p] < NumInput THEN wire[p]
  ELSE IF pc[p] \in {"gather", "done"} THEN GossipSlot + 1
  ELSE OfferSlot(gate[p]) + (IF peer[p] < q THEN 0
                             ELSE IF peer[p] > q THEN 3
                             ELSE IF pc[p] = "run" THEN 0 ELSE 2)

\* p has read from q what q sends in slots below ReadPos(p, q), and nothing else.
ReadPos(p, q) ==
  IF wire[p] < NumInput THEN wire[p]
  ELSE IF pc[p] \in {"gather", "done"}
       THEN GossipSlot + (IF peer[p] > q THEN 1 ELSE 0)
  ELSE OfferSlot(gate[p]) + (IF peer[p] < q THEN 0
                             ELSE IF peer[p] > q THEN 3
                             ELSE IF pc[p] = "run" THEN 0
                             ELSE IF pc[p] = "offered" THEN 1 ELSE 2)

\* The slots of the messages in a channel.
Slots(c) == [i \in 1 .. Len(c) |-> c[i].slot]

Ordered(p, q) ==
  InOrder(Slots(chan[p][q]), ReadPos(q, p), SendPos(p, q), Plan(p, q))

ChannelInv == \A p, q \in Party : p # q => Ordered(p, q)

-----------------------------------------------------------------------------
(***************************************************************************)
(* Channels in order: what moving one end, sending and reading do to them. *)
(***************************************************************************)
LEMMA SlotsType ==
  ASSUME NEW c \in Seq(Message)
  PROVE  /\ Slots(c) \in Seq(Nat) /\ Len(Slots(c)) = Len(c)
         /\ \A i \in 1 .. Len(c) : Slots(c)[i] = c[i].slot
<1>1. Len(c) \in Nat /\ \A i \in 1 .. Len(c) : c[i] \in Message
  BY LenProperties
<1>2. \A i \in 1 .. Len(c) : c[i].slot \in Nat
  BY <1>1, MessageFields
<1> QED
  BY <1>1, <1>2 DEF Slots

\* Sending and reading messages is sending and reading their slots.
LEMMA SlotsAppend ==
  ASSUME NEW c \in Seq(Message), NEW m \in Message
  PROVE  Slots(Append(c, m)) = Append(Slots(c), m.slot)
<1>1. Len(c) \in Nat
  BY LenProperties
<1> QED
  BY <1>1, SlotsType DEF Slots

LEMMA SlotsRead ==
  ASSUME NEW c \in Seq(Message), c # <<>>
  PROVE  /\ Slots(Tail(c)) = Tail(Slots(c))
         /\ Slots(c) # <<>> /\ Head(c).slot = Head(Slots(c))
<1>1. Len(c) \in Nat \ {0} /\ Head(c) = c[1]
  BY EmptySeq, LenProperties
<1>2. Len(Tail(c)) = Len(c) - 1 /\ \A i \in 1 .. Len(Tail(c)) : Tail(c)[i] = c[i+1]
  BY HeadTailProperties
<1> QED
  BY <1>1, <1>2, SlotsType DEF Slots

-----------------------------------------------------------------------------
(***************************************************************************)
(* The plan, and the positions of a party along it.                        *)
(***************************************************************************)
LEMMA SlotFacts ==
  /\ GossipSlot \in Nat /\ GossipSlot = OfferSlot(NumGate) /\ OfferSlot(0) = NumInput
  /\ \A k \in 0 .. NumGate :
       /\ OfferSlot(k) \in Nat /\ OfferSlot(k) <= GossipSlot /\ NumInput <= OfferSlot(k)
       /\ AnswerSlot(k) = OfferSlot(k) + 1 /\ ValuesSlot(k) = OfferSlot(k) + 2
       /\ OfferSlot(k+1) = OfferSlot(k) + 3
  /\ \A k \in GateIndex : OfferSlot(k) + 3 <= GossipSlot
  BY CircuitFacts DEF GossipSlot, OfferSlot, AnswerSlot, ValuesSlot, GateIndex

LEMMA PlanType == \A p, q \in Party : Plan(p, q) \in SUBSET Nat
  BY SlotFacts DEF Plan

\* The plan up to the first gate: one slot per wire the sender owns.
LEMMA PlanShare ==
  ASSUME NEW p \in Party, NEW q \in Party, NEW w \in InputWire
  PROVE  /\ Owner[w] = p => w \in Plan(p, q)
         /\ \A s \in Plan(p, q) : w <= s /\ s < w + 1 => s = w /\ Owner[w] = p
<1>1. w \in Nat /\ w < NumInput /\ w \in 0 .. GossipSlot
  BY CircuitFacts, SlotFacts DEF InputWire, GossipSlot
<1>2. ASSUME NEW s \in Plan(p, q), w <= s, s < w + 1
      PROVE  s = w /\ Owner[w] = p
  <2>1. s = w
    BY <1>1, <1>2, PlanType
  <2>2. ASSUME NEW k \in GateIndex PROVE w < OfferSlot(k) /\ OfferSlot(k) \in Nat
    BY <1>1, CircuitFacts DEF OfferSlot, GateIndex
  <2>3. w < GossipSlot /\ GossipSlot \in Nat
    BY <1>1, CircuitFacts DEF GossipSlot
  <2> QED
    BY <1>1, <2>1, <2>2, <2>3 DEF Plan, ValuesSlot, AnswerSlot, OfferSlot
<1> QED
  BY <1>1, <1>2 DEF Plan

\* The plan within one gate.
LEMMA PlanGate ==
  ASSUME NEW p \in Party, NEW q \in Party, NEW k \in GateIndex
  PROVE  /\ IsAnd(k) /\ p < q => OfferSlot(k) \in Plan(p, q) /\ ValuesSlot(k) \in Plan(p, q)
         /\ IsAnd(k) /\ q < p => AnswerSlot(k) \in Plan(p, q)
         /\ \A s \in Plan(p, q) :
              OfferSlot(k) <= s /\ s < OfferSlot(k) + 3 =>
                /\ IsAnd(k)
                /\ \/ p < q /\ s \in {OfferSlot(k), ValuesSlot(k)}
                   \/ q < p /\ s = AnswerSlot(k)
<1>1. /\ k \in 0 .. NumGate /\ OfferSlot(k) \in Nat /\ OfferSlot(k) + 3 <= GossipSlot
      /\ AnswerSlot(k) = OfferSlot(k) + 1 /\ ValuesSlot(k) = OfferSlot(k) + 2
      /\ GossipSlot \in Nat /\ NumInput \in Nat /\ NumInput <= OfferSlot(k)
  BY CircuitFacts, SlotFacts DEF GateIndex
<1>2. ASSUME NEW s \in Plan(p, q), OfferSlot(k) <= s, s < OfferSlot(k) + 3
      PROVE  /\ IsAnd(k)
             /\ \/ p < q /\ s \in {OfferSlot(k), ValuesSlot(k)}
                \/ q < p /\ s = AnswerSlot(k)
  <2>1. s \in Nat /\ s # GossipSlot /\ s \notin InputWire
    BY <1>1, <1>2, PlanType DEF InputWire
  <2>2. PICK j \in GateIndex : /\ IsAnd(j)
                               /\ \/ p < q /\ s \in {OfferSlot(j), ValuesSlot(j)}
                                  \/ q < p /\ s = AnswerSlot(j)
    BY <2>1 DEF Plan
  <2>3. j = k
    BY <1>2, <2>1, <2>2, CircuitFacts
       DEF OfferSlot, AnswerSlot, ValuesSlot, GateIndex
  <2> QED
    BY <2>2, <2>3
<1>3. OfferSlot(k) \in 0 .. GossipSlot /\ AnswerSlot(k) \in 0 .. GossipSlot
      /\ ValuesSlot(k) \in 0 .. GossipSlot
  BY <1>1
<1> QED
  BY <1>2, <1>3 DEF Plan

\* The plan ends with the gossip.
LEMMA PlanGossip ==
  ASSUME NEW p \in Party, NEW q \in Party
  PROVE  /\ GossipSlot \in Plan(p, q)
         /\ \A s \in Plan(p, q) : GossipSlot <= s => s = GossipSlot
  BY SlotFacts DEF Plan

PositionsTyped ==
  \A p, q \in Party : SendPos(p, q) \in Nat /\ ReadPos(p, q) \in Nat

LEMMA PositionType == TypeInv => PositionsTyped
<1> SUFFICES ASSUME TypeInv, NEW p \in Party, NEW q \in Party
             PROVE  SendPos(p, q) \in Nat /\ ReadPos(p, q) \in Nat
  BY DEF PositionsTyped
<1>1. wire[p] \in Nat /\ gate[p] \in 0 .. NumGate
  BY CircuitFacts DEF TypeInv, TypeOK
<1>2. OfferSlot(gate[p]) \in Nat /\ GossipSlot \in Nat
  BY <1>1, SlotFacts
<1> QED
  BY <1>1, <1>2 DEF SendPos, ReadPos

-----------------------------------------------------------------------------
(***************************************************************************)
(* What a step of p does to its channel to q, and to the one from q.       *)
(***************************************************************************)
\* n is the only slot of S from a up to b.
OnlySlot(n, a, b, S) ==
  n \in S /\ a <= n /\ n < b /\ \A s \in S : a <= s /\ s < b => s = n

NoSlot(a, b, S) == a <= b /\ \A s \in S : ~(a <= s /\ s < b)

Quiet(p, q) ==
  /\ chan'[p][q] = chan[p][q]
  /\ NoSlot(SendPos(p, q), SendPos(p, q)', Plan(p, q))

Sends(p, q) ==
  \E m \in Message : \E n \in Nat :
    /\ m.slot = n /\ chan'[p][q] = Append(chan[p][q], m)
    /\ OnlySlot(n, SendPos(p, q), SendPos(p, q)', Plan(p, q))

Idle(p, q) ==
  /\ chan'[q][p] = chan[q][p]
  /\ NoSlot(ReadPos(p, q), ReadPos(p, q)', Plan(q, p))

Reads(p, q) ==
  /\ chan[q][p] # <<>> /\ chan'[q][p] = Tail(chan[q][p])
  /\ OnlySlot(ReadPos(p, q), ReadPos(p, q), ReadPos(p, q)', Plan(q, p))

\* Only p moves, and on each of its channels as one of the above.
Moves(p) ==
  /\ \A r \in Party \ {p} : /\ pc'[r] = pc[r] /\ wire'[r] = wire[r]
                            /\ gate'[r] = gate[r] /\ peer'[r] = peer[r]
  /\ \A r, s \in Party \ {p} : chan'[r][s] = chan[r][s]
  /\ \A q \in Party \ {p} : /\ Quiet(p, q) \/ Sends(p, q)
                            /\ Idle(p, q) \/ Reads(p, q)

LEMMA SendSide ==
  ASSUME TypeInv, TypeInv', NEW p \in Party, NEW q \in Party, Ordered(p, q),
         ReadPos(q, p)' = ReadPos(q, p), Quiet(p, q) \/ Sends(p, q)
  PROVE  Ordered(p, q)'
<1> DEFINE c == chan[p][q]
           lo == ReadPos(q, p)
           hi == SendPos(p, q)
           hi2 == SendPos(p, q)'
           S == Plan(p, q)
<1>0. PositionsTyped /\ PositionsTyped'
  BY PositionType, PTL
<1>1. /\ c \in Seq(Message) /\ Slots(c) \in Seq(Nat)
      /\ lo \in Nat /\ hi \in Nat /\ hi2 \in Nat /\ S \in SUBSET Nat
  BY <1>0, SlotsType, PlanType DEF TypeInv, TypeOK, PositionsTyped
<1>2. InOrder(Slots(c), lo, hi, S)
  BY DEF Ordered
<1>3. SUFFICES InOrder(Slots(chan'[p][q]), lo, hi2, S)
  BY DEF Ordered, Plan
<1> HIDE DEF c, lo, hi, hi2, S
<1>4. CASE Quiet(p, q)
  <2>1. chan'[p][q] = c /\ hi <= hi2 /\ \A s \in S : ~(hi <= s /\ s < hi2)
    BY <1>4 DEF Quiet, NoSlot, c, hi, hi2, S
  <2> QED
    BY <1>1, <1>2, <2>1, SenderAdvances
<1>5. CASE Sends(p, q)
  <2>1. PICK m \in Message, n \in Nat :
          /\ m.slot = n /\ chan'[p][q] = Append(c, m)
          /\ n \in S /\ hi <= n /\ n < hi2 /\ \A s \in S : hi <= s /\ s < hi2 => s = n
    BY <1>5 DEF Sends, OnlySlot, c, hi, hi2, S
  <2>2. Slots(chan'[p][q]) = Append(Slots(c), n)
    BY <1>1, <2>1, SlotsAppend
  <2>3. InOrder(Append(Slots(c), n), lo, hi2, S)
    BY <1>1, <1>2, <2>1, SenderSends
  <2> QED
    BY <2>2, <2>3
<1> QED
  BY <1>4, <1>5

LEMMA ReadSide ==
  ASSUME TypeInv, TypeInv', NEW p \in Party, NEW q \in Party, Ordered(q, p),
         SendPos(q, p)' = SendPos(q, p), Idle(p, q) \/ Reads(p, q)
  PROVE  Ordered(q, p)'
<1> DEFINE c == chan[q][p]
           lo == ReadPos(p, q)
           lo2 == ReadPos(p, q)'
           hi == SendPos(q, p)
           S == Plan(q, p)
<1>0. PositionsTyped /\ PositionsTyped'
  BY PositionType, PTL
<1>1. /\ c \in Seq(Message) /\ Slots(c) \in Seq(Nat)
      /\ lo \in Nat /\ lo2 \in Nat /\ hi \in Nat /\ S \in SUBSET Nat
  BY <1>0, SlotsType, PlanType DEF TypeInv, TypeOK, PositionsTyped
<1>2. InOrder(Slots(c), lo, hi, S)
  BY DEF Ordered
<1>3. SUFFICES InOrder(Slots(chan'[q][p]), lo2, hi, S)
  BY DEF Ordered, Plan
<1> HIDE DEF c, lo, lo2, hi, S
<1>4. CASE Idle(p, q)
  <2>1. chan'[q][p] = c /\ lo <= lo2 /\ \A s \in S : ~(lo <= s /\ s < lo2)
    BY <1>4 DEF Idle, NoSlot, c, lo, lo2, S
  <2> QED
    BY <1>1, <1>2, <2>1, ReaderAdvances
<1>5. CASE Reads(p, q)
  <2>1. /\ c # <<>> /\ chan'[q][p] = Tail(c)
        /\ lo \in S /\ lo < lo2 /\ \A s \in S : lo <= s /\ s < lo2 => s = lo
    BY <1>5 DEF Reads, OnlySlot, c, lo, lo2, S
  <2>2. Slots(c) # <<>> /\ Slots(chan'[q][p]) = Tail(Slots(c))
    BY <1>1, <2>1, SlotsRead
  <2>3. InOrder(Tail(Slots(c)), lo2, hi, S)
    BY <1>1, <1>2, <2>1, <2>2, ReaderReads
  <2> QED
    BY <2>2, <2>3
<1> QED
  BY <1>4, <1>5

\* Such a step keeps all channels in order.
LEMMA MovesOrdered ==
  ASSUME TypeInv, TypeInv', ChannelInv, NEW p \in Party, Moves(p)
  PROVE  ChannelInv'
<1>1. ASSUME NEW r \in Party \ {p}, NEW s \in Party
      PROVE  SendPos(r, s)' = SendPos(r, s) /\ ReadPos(r, s)' = ReadPos(r, s)
  BY DEF Moves, SendPos, ReadPos
<1>2. SUFFICES ASSUME NEW r \in Party, NEW s \in Party, r # s
               PROVE  Ordered(r, s)'
  BY DEF ChannelInv
<1>3. Ordered(r, s)
  BY <1>2 DEF ChannelInv
<1>4. CASE r = p
  BY <1>1, <1>2, <1>3, <1>4, SendSide DEF Moves
<1>5. CASE s = p
  BY <1>1, <1>2, <1>3, <1>5, ReadSide DEF Moves
<1>6. CASE r # p /\ s # p
  <2>1. chan'[r][s] = chan[r][s]
    BY <1>6 DEF Moves
  <2>2. ReadPos(s, r)' = ReadPos(s, r) /\ SendPos(r, s)' = SendPos(r, s)
    BY <1>1, <1>6
  <2> QED
    BY <1>3, <2>1, <2>2 DEF Ordered, Plan
<1> QED
  BY <1>4, <1>5, <1>6

-----------------------------------------------------------------------------
(***************************************************************************)
(* Every action moves its party in that way.                               *)
(***************************************************************************)
\* The loops over the peers: nobody comes before the first, and going to the
\* next one passes nobody.
LEMMA PeerOrder ==
  ASSUME NEW p \in Party, NEW q \in Party \ {p}
  PROVE  /\ FirstPeer(p) \in Int /\ FirstPeer(p) <= q
         /\ \A i \in Party : /\ NextPeer(p, i) \in Int /\ NextPeer(p, i) > i
                             /\ i < q => NextPeer(p, i) <= q
                             /\ i > q => NextPeer(p, i) > q
  BY CircuitFacts DEF Party, FirstPeer, NextPeer

LEMMA SharingPositions ==
  ASSUME TypeInv, NEW p \in Party, NEW q \in Party \ {p}, Sharing(p),
         wire' = [wire EXCEPT ![p] = wire[p] + 1], UNCHANGED <<pc, gate, peer>>
  PROVE  /\ wire[p] \in InputWire
         /\ SendPos(p, q) = wire[p] /\ SendPos(p, q)' = wire[p] + 1
         /\ ReadPos(p, q) = wire[p] /\ ReadPos(p, q)' = wire[p] + 1
<1>1. /\ pc[p] = "run" /\ wire[p] \in Nat /\ wire[p] < NumInput /\ NumInput \in Nat
      /\ gate[p] = 0 /\ peer[p] = FirstPeer(p) /\ wire'[p] = wire[p] + 1
  BY CircuitFacts
     DEF Sharing, TypeInv, TypeOK, Control, ControlOf, AtAnd, Evaluating
<1>2. peer[p] \in Int /\ peer[p] <= q /\ q \in Int /\ OfferSlot(0) = NumInput
  BY <1>1, PeerOrder, SlotFacts, CircuitFacts DEF Party
<1> QED
  BY <1>1, <1>2 DEF SendPos, ReadPos, InputWire

LEMMA DealSharesMoves ==
  ASSUME TypeInv, NEW p \in Party, DealShares(p)
  PROVE  Moves(p)
<1> DEFINE w == wire[p]
<1>1. PICK x \in GenerateShares(p, input[w]) :
        chan' = [chan EXCEPT ![p] = [q \in Party |->
                   IF q = p THEN @[q] ELSE Append(@[q], InitialShare(w, x[q]))]]
  BY DEF DealShares
<1>2. /\ x \in [Party -> Bit] /\ Sharing(p) /\ Owner[w] = p
      /\ wire' = [wire EXCEPT ![p] = w + 1] /\ UNCHANGED <<pc, gate, peer>>
  BY DEF DealShares, GenerateShares
<1>3. ASSUME NEW q \in Party \ {p}
      PROVE  Sends(p, q) /\ Idle(p, q)
  <2>1. /\ w \in InputWire
        /\ SendPos(p, q) = w /\ SendPos(p, q)' = w + 1
        /\ ReadPos(p, q) = w /\ ReadPos(p, q)' = w + 1
    BY <1>2, SharingPositions
  <2>2. /\ chan'[p][q] = Append(chan[p][q], InitialShare(w, x[q]))
        /\ chan'[q][p] = chan[q][p]
    BY <1>1 DEF TypeInv, TypeOK
  <2>3. /\ InitialShare(w, x[q]) \in Message /\ InitialShare(w, x[q]).slot = w
        /\ w \in Nat /\ w < w + 1
    BY <1>2, <2>1, MessageType DEF InitialShare, ShareSlot, InputWire
  <2>4. OnlySlot(w, w, w + 1, Plan(p, q))
    BY <1>2, <2>1, <2>3, PlanShare DEF OnlySlot
  <2>5. NoSlot(w, w + 1, Plan(q, p))
    BY <1>2, <2>1, <2>3, PlanShare DEF NoSlot
  <2>6. Sends(p, q)
    BY <2>1, <2>2, <2>3, <2>4 DEF Sends
  <2> QED
    BY <2>1, <2>2, <2>5, <2>6 DEF Idle
<1>4. \A r, s \in Party \ {p} : chan'[r][s] = chan[r][s]
  BY <1>1 DEF TypeInv, TypeOK
<1> QED
  BY <1>2, <1>3, <1>4 DEF Moves, TypeInv, TypeOK

LEMMA ReceiveSecretShareMoves ==
  ASSUME TypeInv, NEW p \in Party, ReceiveSecretShare(p)
  PROVE  Moves(p)
<1> DEFINE w == wire[p]
           o == Owner[w]
<1>1. /\ Sharing(p) /\ o # p /\ chan[o][p] # <<>>
      /\ chan' = [chan EXCEPT ![o][p] = Tail(@)]
      /\ wire' = [wire EXCEPT ![p] = w + 1] /\ UNCHANGED <<pc, gate, peer>>
  BY DEF ReceiveSecretShare, CanRead
<1>2. w \in InputWire /\ w \in Nat /\ o \in Party
  BY <1>1, CircuitFacts DEF Sharing, InputWire, TypeInv, TypeOK
<1> HIDE DEF w, o
<1>3. ASSUME NEW q \in Party \ {p}
      PROVE  Quiet(p, q) /\ (Idle(p, q) \/ Reads(p, q))
  <2>1. /\ SendPos(p, q) = w /\ SendPos(p, q)' = w + 1
        /\ ReadPos(p, q) = w /\ ReadPos(p, q)' = w + 1
    BY <1>1, SharingPositions DEF w
  <2>2. NoSlot(w, w + 1, Plan(p, q))
    BY <1>1, <1>2, PlanShare DEF NoSlot, o
  <2>3. chan'[p][q] = chan[p][q]
    BY <1>1, <1>2 DEF TypeInv, TypeOK
  <2>4. CASE q = o
    <3>1. OnlySlot(w, w, w + 1, Plan(q, p))
      BY <1>2, <2>4, PlanShare DEF OnlySlot, o
    <3>2. chan'[q][p] = Tail(chan[q][p])
      BY <1>1, <1>2, <2>4 DEF TypeInv, TypeOK
    <3> QED
      BY <1>1, <2>1, <2>2, <2>3, <2>4, <3>1, <3>2 DEF Quiet, Reads
  <2>5. CASE q # o
    <3>1. NoSlot(w, w + 1, Plan(q, p))
      BY <1>2, <2>5, PlanShare DEF NoSlot, o
    <3>2. chan'[q][p] = chan[q][p]
      BY <1>1, <1>2, <2>5 DEF TypeInv, TypeOK
    <3> QED
      BY <2>1, <2>2, <2>3, <3>1, <3>2 DEF Quiet, Idle
  <2> QED
    BY <2>4, <2>5
<1>4. \A r, s \in Party \ {p} : chan'[r][s] = chan[r][s]
  BY <1>1, <1>2 DEF TypeInv, TypeOK
<1> QED
  BY <1>1, <1>3, <1>4 DEF Moves, TypeInv, TypeOK

\* The slots of the gate p is at.
LEMMA GateFacts ==
  ASSUME TypeInv, NEW p \in Party, Evaluating(p)
  PROVE  /\ gate[p] \in GateIndex /\ gate[p] \in 0 .. NumGate
         /\ wire[p] = NumInput /\ NumInput \in Nat
         /\ OfferSlot(gate[p]) \in Nat
         /\ AnswerSlot(gate[p]) = OfferSlot(gate[p]) + 1
         /\ ValuesSlot(gate[p]) = OfferSlot(gate[p]) + 2
         /\ OfferSlot(gate[p] + 1) = OfferSlot(gate[p]) + 3
<1>1. gate[p] \in GateIndex /\ gate[p] \in 0 .. NumGate
  BY CircuitFacts DEF TypeInv, TypeOK, Evaluating, GateIndex
<1> QED
  BY <1>1, CircuitFacts, SlotFacts DEF Evaluating

\* Where the next gate begins.
LEMMA NextGatePositions ==
  ASSUME TypeInv, NEW p \in Party, NEW q \in Party \ {p}, Evaluating(p), pc[p] = "run",
         gate' = [gate EXCEPT ![p] = gate[p] + 1], peer'[p] = FirstPeer(p),
         UNCHANGED <<pc, wire>>
  PROVE  /\ SendPos(p, q)' = OfferSlot(gate[p]) + 3
         /\ ReadPos(p, q)' = OfferSlot(gate[p]) + 3
<1>1. /\ gate'[p] = gate[p] + 1 /\ pc'[p] = "run" /\ wire'[p] = NumInput
      /\ NumInput \in Nat
      /\ OfferSlot(gate[p]) \in Nat /\ OfferSlot(gate[p] + 1) = OfferSlot(gate[p]) + 3
  BY GateFacts DEF TypeInv, TypeOK
<1>2. peer'[p] \in Int /\ q \in Int /\ peer'[p] <= q
  BY PeerOrder, CircuitFacts DEF Party
<1> QED
  BY <1>1, <1>2 DEF SendPos, ReadPos

LEMMA LocalGateMoves ==
  ASSUME TypeInv, NEW p \in Party, LocalGate(p)
  PROVE  Moves(p)
<1> DEFINE k == gate[p]
<1>1. /\ Evaluating(p) /\ pc[p] = "run" /\ ~IsAnd(k) /\ peer[p] = FirstPeer(p)
      /\ gate' = [gate EXCEPT ![p] = k + 1] /\ UNCHANGED <<pc, wire, peer, chan>>
  BY DEF LocalGate, IsAnd, TypeInv, Control, ControlOf, AtAnd
<1>2. k \in GateIndex /\ OfferSlot(k) \in Nat /\ wire[p] = NumInput /\ NumInput \in Nat
  BY <1>1, GateFacts
<1>3. ASSUME NEW q \in Party \ {p}
      PROVE  Quiet(p, q) /\ Idle(p, q)
  <2>1. SendPos(p, q)' = OfferSlot(k) + 3 /\ ReadPos(p, q)' = OfferSlot(k) + 3
    BY <1>1, NextGatePositions
  <2>2. peer[p] \in Int /\ q \in Int /\ peer[p] <= q
    BY <1>1, PeerOrder, CircuitFacts DEF Party
  <2>3. SendPos(p, q) = OfferSlot(k) /\ ReadPos(p, q) = OfferSlot(k)
    BY <1>1, <1>2, <2>2 DEF SendPos, ReadPos
  <2>4. /\ NoSlot(OfferSlot(k), OfferSlot(k) + 3, Plan(p, q))
        /\ NoSlot(OfferSlot(k), OfferSlot(k) + 3, Plan(q, p))
    BY <1>1, <1>2, PlanGate DEF NoSlot
  <2> QED
    BY <1>1, <2>1, <2>3, <2>4 DEF Quiet, Idle
<1> QED
  BY <1>1, <1>3 DEF Moves, TypeInv, TypeOK

LEMMA FinishAndMoves ==
  ASSUME TypeInv, NEW p \in Party, FinishAnd(p)
  PROVE  Moves(p)
<1> DEFINE k == gate[p]
<1>1. /\ Evaluating(p) /\ pc[p] = "run" /\ peer[p] = N
      /\ gate' = [gate EXCEPT ![p] = k + 1]
      /\ peer' = [peer EXCEPT ![p] = FirstPeer(p)] /\ UNCHANGED <<pc, wire, chan>>
  BY DEF FinishAnd, AtAnd
<1>2. k \in GateIndex /\ OfferSlot(k) \in Nat /\ wire[p] = NumInput /\ NumInput \in Nat
  BY <1>1, GateFacts
<1>3. ASSUME NEW q \in Party \ {p}
      PROVE  Quiet(p, q) /\ Idle(p, q)
  <2>1. SendPos(p, q)' = OfferSlot(k) + 3 /\ ReadPos(p, q)' = OfferSlot(k) + 3
    BY <1>1, NextGatePositions DEF TypeInv, TypeOK
  <2>2. N \in Int /\ q \in Int /\ N > q
    BY CircuitFacts DEF Party
  <2>3. SendPos(p, q) = OfferSlot(k) + 3 /\ ReadPos(p, q) = OfferSlot(k) + 3
    BY <1>1, <1>2, <2>2 DEF SendPos, ReadPos
  <2>4. \A S : NoSlot(OfferSlot(k) + 3, OfferSlot(k) + 3, S \cap Nat)
    BY <1>2 DEF NoSlot
  <2>5. Plan(p, q) \cap Nat = Plan(p, q) /\ Plan(q, p) \cap Nat = Plan(q, p)
    BY PlanType
  <2>6. /\ NoSlot(OfferSlot(k) + 3, OfferSlot(k) + 3, Plan(p, q))
        /\ NoSlot(OfferSlot(k) + 3, OfferSlot(k) + 3, Plan(q, p))
    BY <2>4, <2>5
  <2> QED
    BY <1>1, <2>1, <2>3, <2>6 DEF Quiet, Idle
<1> QED
  BY <1>1, <1>3 DEF Moves, TypeInv, TypeOK

LEMMA NoSlotHere ==
  ASSUME NEW a \in Nat, NEW S \in SUBSET Nat
  PROVE  NoSlot(a, a, S)
  BY DEF NoSlot

\* A step of a transfer leaves the channels with the other peers alone.
LEMMA OtherPeers ==
  ASSUME TypeInv, NEW p \in Party, NEW q \in Party \ {p}, AtAnd(p),
         peer[p] \in Party, q # peer[p],
         pc[p] \in {"run", "offered", "answered"},
         pc'[p] \in {"run", "offered", "answered"}, UNCHANGED <<wire, gate>>,
         peer'[p] = peer[p] \/ (pc'[p] = "run" /\ peer'[p] = NextPeer(p, peer[p])),
         chan'[p][q] = chan[p][q], chan'[q][p] = chan[q][p]
  PROVE  Quiet(p, q) /\ Idle(p, q)
<1>1. wire[p] = NumInput /\ NumInput \in Nat /\ OfferSlot(gate[p]) \in Nat
  BY GateFacts DEF AtAnd
<1>2. /\ peer[p] \in Int /\ peer'[p] \in Int /\ q \in Int
      /\ peer[p] < q => peer'[p] <= q
      /\ peer[p] > q => peer'[p] > q
  BY PeerOrder, CircuitFacts DEF Party
<1>3. PICK b \in Nat : b = OfferSlot(gate[p])
  BY <1>1
<1>4. CASE peer[p] > q
  <2>1. /\ SendPos(p, q) = b + 3 /\ SendPos(p, q)' = b + 3
        /\ ReadPos(p, q) = b + 3 /\ ReadPos(p, q)' = b + 3
    BY <1>1, <1>2, <1>3, <1>4 DEF SendPos, ReadPos
  <2> QED
    BY <2>1, NoSlotHere, PlanType DEF Quiet, Idle
<1>5. CASE peer[p] < q
  <2>1. SendPos(p, q) = b /\ ReadPos(p, q) = b
    BY <1>1, <1>2, <1>3, <1>5 DEF SendPos, ReadPos
  <2>2. peer'[p] = q => pc'[p] = "run"
    BY <1>2, <1>5
  <2>3. SendPos(p, q)' = b /\ ReadPos(p, q)' = b
    BY <1>1, <1>2, <1>3, <1>5, <2>2 DEF SendPos, ReadPos
  <2> QED
    BY <2>1, <2>3, NoSlotHere, PlanType DEF Quiet, Idle
<1> QED
  BY <1>2, <1>4, <1>5

\* Where p is with the peer of its current transfer, and where it is when it
\* has left that peer.
LEMMA TransferPositions ==
  ASSUME TypeInv, NEW p \in Party, AtAnd(p), peer[p] \in Party,
         pc[p] \in {"run", "offered", "answered"}, UNCHANGED <<wire, gate>>,
         NEW q, q = peer[p], NEW b, b = OfferSlot(gate[p])
  PROVE  /\ b \in Nat /\ gate[p] \in GateIndex /\ IsAnd(gate[p])
         /\ AnswerSlot(gate[p]) = b + 1 /\ ValuesSlot(gate[p]) = b + 2
         /\ SendPos(p, q) = IF pc[p] = "run" THEN b ELSE b + 2
         /\ ReadPos(p, q) = IF pc[p] = "run" THEN b
                            ELSE IF pc[p] = "offered" THEN b + 1 ELSE b + 2
         /\ peer'[p] = q /\ pc'[p] \in {"offered", "answered"} =>
              /\ SendPos(p, q)' = b + 2
              /\ ReadPos(p, q)' = IF pc'[p] = "offered" THEN b + 1 ELSE b + 2
         /\ peer'[p] = NextPeer(p, q) /\ pc'[p] = "run" =>
              SendPos(p, q)' = b + 3 /\ ReadPos(p, q)' = b + 3
<1>1. /\ wire[p] = NumInput /\ NumInput \in Nat /\ b \in Nat
      /\ gate[p] \in GateIndex /\ IsAnd(gate[p])
      /\ AnswerSlot(gate[p]) = b + 1 /\ ValuesSlot(gate[p]) = b + 2
  BY GateFacts DEF AtAnd, IsAnd
<1>2. q \in Int /\ NextPeer(p, q) \in Int /\ NextPeer(p, q) > q
  BY CircuitFacts DEF Party, NextPeer
<1> QED
  BY <1>1, <1>2 DEF SendPos, ReadPos

\* The slots of one transfer between p and q, for the steps of its two sides.
LEMMA TransferSlots ==
  ASSUME NEW p \in Party, NEW q \in Party, p < q, NEW k \in GateIndex, IsAnd(k),
         NEW b, b = OfferSlot(k)
  PROVE  /\ OnlySlot(b, b, b + 2, Plan(p, q)) /\ OnlySlot(b + 2, b + 2, b + 3, Plan(p, q))
         /\ OnlySlot(b + 1, b, b + 2, Plan(q, p)) /\ OnlySlot(b + 1, b + 1, b + 3, Plan(q, p))
         /\ NoSlot(b, b + 1, Plan(q, p)) /\ NoSlot(b + 2, b + 3, Plan(q, p))
<1>1. b \in Nat /\ AnswerSlot(k) = b + 1 /\ ValuesSlot(k) = b + 2 /\ ~(q < p)
  BY CircuitFacts, SlotFacts DEF GateIndex, Party
<1>2. /\ b \in Plan(p, q) /\ b + 2 \in Plan(p, q)
      /\ \A s \in Plan(p, q) : s \in Nat /\ (b <= s /\ s < b + 3 => s = b \/ s = b + 2)
  BY <1>1, PlanGate, PlanType
<1>3. /\ b + 1 \in Plan(q, p)
      /\ \A s \in Plan(q, p) : s \in Nat /\ (b <= s /\ s < b + 3 => s = b + 1)
  BY <1>1, PlanGate, PlanType
<1> QED
  BY <1>1, <1>2, <1>3 DEF OnlySlot, NoSlot

LEMMA OTOfferMoves ==
  ASSUME TypeInv, NEW p \in Party, OTOffer(p)
  PROVE  Moves(p)
<1> DEFINE k == gate[p]
           q0 == peer[p]
           b == OfferSlot(k)
<1>1. /\ AtAnd(p) /\ pc[p] = "run" /\ q0 \in Party /\ p < q0 /\ q0 # p
      /\ chan' = [chan EXCEPT ![p][q0] = Append(@, SenderPublic(k))]
      /\ pc' = [pc EXCEPT ![p] = "offered"] /\ UNCHANGED <<wire, gate, peer>>
  BY CircuitFacts DEF OTOffer, Party
<1>2. /\ b \in Nat /\ k \in GateIndex /\ IsAnd(k)
      /\ AnswerSlot(k) = b + 1 /\ ValuesSlot(k) = b + 2
      /\ SendPos(p, q0) = b /\ SendPos(p, q0)' = b + 2
      /\ ReadPos(p, q0) = b /\ ReadPos(p, q0)' = b + 1
  BY <1>1, TransferPositions DEF TypeInv, TypeOK
<1>3. Sends(p, q0)
  <2>1. SenderPublic(k) \in Message /\ SenderPublic(k).slot = b
    BY <1>2, MessageType DEF SenderPublic
  <2>2. chan'[p][q0] = Append(chan[p][q0], SenderPublic(k))
    BY <1>1 DEF TypeInv, TypeOK
  <2>3. OnlySlot(b, b, b + 2, Plan(p, q0))
    BY <1>1, <1>2, TransferSlots
  <2> QED
    BY <1>2, <2>1, <2>2, <2>3 DEF Sends
<1>4. Idle(p, q0)
  <2>1. chan'[q0][p] = chan[q0][p]
    BY <1>1 DEF TypeInv, TypeOK
  <2>2. NoSlot(b, b + 1, Plan(q0, p))
    BY <1>1, <1>2, TransferSlots
  <2> QED
    BY <1>2, <2>1, <2>2 DEF Idle
<1>5. ASSUME NEW q \in Party \ {p}, q # q0
      PROVE  Quiet(p, q) /\ Idle(p, q)
  <2>1. chan'[p][q] = chan[p][q] /\ chan'[q][p] = chan[q][p]
    BY <1>1, <1>5 DEF TypeInv, TypeOK
  <2>2. /\ pc[p] \in {"run", "offered", "answered"}
        /\ pc'[p] \in {"run", "offered", "answered"}
        /\ peer'[p] = peer[p] /\ UNCHANGED <<wire, gate>>
    BY <1>1 DEF TypeInv, TypeOK
  <2>3. AtAnd(p) /\ peer[p] \in Party /\ q # peer[p]
    BY <1>1, <1>5
  <2> QED
    BY <2>1, <2>2, <2>3, OtherPeers
<1>6. \A r, s \in Party \ {p} : chan'[r][s] = chan[r][s]
  BY <1>1 DEF TypeInv, TypeOK
<1> QED
  BY <1>1, <1>3, <1>4, <1>5, <1>6 DEF Moves, TypeInv, TypeOK

LEMMA OTAnswerMoves ==
  ASSUME TypeInv, NEW p \in Party, OTAnswer(p)
  PROVE  Moves(p)
<1> DEFINE k == gate[p]
           q0 == peer[p]
           b == OfferSlot(k)
<1>0. q0 \in Party /\ q0 # p
  BY CircuitFacts DEF OTAnswer, TypeInv, TypeOK, Party
<1>1. /\ AtAnd(p) /\ pc[p] = "run" /\ q0 < p /\ chan[q0][p] # <<>>
      /\ chan' = [chan EXCEPT ![q0][p] = Tail(@), ![p][q0] = Append(@, ReceiverPublic(k))]
      /\ pc' = [pc EXCEPT ![p] = "answered"] /\ UNCHANGED <<wire, gate, peer>>
  BY DEF OTAnswer, CanRead
<1>2. /\ b \in Nat /\ k \in GateIndex /\ IsAnd(k)
      /\ AnswerSlot(k) = b + 1
      /\ SendPos(p, q0) = b /\ SendPos(p, q0)' = b + 2
      /\ ReadPos(p, q0) = b /\ ReadPos(p, q0)' = b + 2
  BY <1>0, <1>1, TransferPositions DEF TypeInv, TypeOK
<1>3. Sends(p, q0)
  <2>1. ReceiverPublic(k) \in Message /\ ReceiverPublic(k).slot = b + 1 /\ b + 1 \in Nat
    BY <1>2, MessageType DEF ReceiverPublic
  <2>2. chan'[p][q0] = Append(chan[p][q0], ReceiverPublic(k))
    BY <1>0, <1>1 DEF TypeInv, TypeOK
  <2>3. OnlySlot(b + 1, b, b + 2, Plan(p, q0))
    BY <1>0, <1>1, <1>2, TransferSlots
  <2> QED
    BY <1>2, <2>1, <2>2, <2>3 DEF Sends
<1>4. Reads(p, q0)
  <2>1. chan'[q0][p] = Tail(chan[q0][p])
    BY <1>0, <1>1 DEF TypeInv, TypeOK
  <2>2. OnlySlot(b, b, b + 2, Plan(q0, p))
    BY <1>0, <1>1, <1>2, TransferSlots
  <2> QED
    BY <1>1, <1>2, <2>1, <2>2 DEF Reads
<1>5. ASSUME NEW q \in Party \ {p}, q # q0
      PROVE  Quiet(p, q) /\ Idle(p, q)
  <2>1. chan'[p][q] = chan[p][q] /\ chan'[q][p] = chan[q][p]
    BY <1>0, <1>1, <1>5 DEF TypeInv, TypeOK
  <2>2. pc'[p] = "answered" /\ peer'[p] = peer[p]
    BY <1>1 DEF TypeInv, TypeOK
  <2> QED
    BY <1>0, <1>1, <1>5, <2>1, <2>2, OtherPeers
<1>6. \A r, s \in Party \ {p} : chan'[r][s] = chan[r][s]
  BY <1>0, <1>1 DEF TypeInv, TypeOK
<1> QED
  BY <1>0, <1>1, <1>3, <1>4, <1>5, <1>6 DEF Moves, TypeInv, TypeOK

LEMMA OTTransferMoves ==
  ASSUME TypeInv, NEW p \in Party, OTTransfer(p)
  PROVE  Moves(p)
<1> DEFINE k == gate[p]
           b == OfferSlot(k)
<1>0. PICK q0 \in Party : q0 = peer[p] /\ p < q0 /\ q0 # p /\ AtAnd(p)
  BY DEF OTTransfer, TypeInv, Control, ControlOf
<1> DEFINE options == SenderChoices(bit[k][p][q0], Left(p, k), Right(p, k))
<1>1. /\ pc[p] = "offered" /\ chan[q0][p] # <<>>
      /\ chan' = [chan EXCEPT ![q0][p] = Tail(@),
                              ![p][q0] = Append(@, EncryptedValues(k, options))]
      /\ pc' = [pc EXCEPT ![p] = "run"]
      /\ peer' = [peer EXCEPT ![p] = NextPeer(p, q0)] /\ UNCHANGED <<wire, gate>>
  BY <1>0 DEF OTTransfer, CanRead, Accumulate, TypeInv, TypeOK
<1>2. /\ b \in Nat /\ k \in GateIndex /\ IsAnd(k) /\ ValuesSlot(k) = b + 2
      /\ SendPos(p, q0) = b + 2 /\ SendPos(p, q0)' = b + 3
      /\ ReadPos(p, q0) = b + 1 /\ ReadPos(p, q0)' = b + 3
  <2>1. pc'[p] = "run" /\ peer'[p] = NextPeer(p, q0)
    BY <1>1 DEF TypeInv, TypeOK
  <2>2. pc[p] \in {"run", "offered", "answered"} /\ pc[p] # "run"
    BY <1>1
  <2>3. UNCHANGED <<wire, gate>>
    BY <1>1
  <2>4. b \in Nat /\ k \in GateIndex /\ IsAnd(k) /\ ValuesSlot(k) = b + 2
    BY <1>0, <2>2, <2>3, TransferPositions
  <2>5. SendPos(p, q0) = b + 2 /\ ReadPos(p, q0) = b + 1
    BY <1>0, <1>1, <2>2, <2>3, TransferPositions
  <2>6. SendPos(p, q0)' = b + 3 /\ ReadPos(p, q0)' = b + 3
    BY <1>0, <2>1, <2>2, <2>3, TransferPositions
  <2> QED
    BY <2>4, <2>5, <2>6
<1>3. Sends(p, q0)
  <2>1. options \in [0..3 -> Bit]
    <3>1. bit[k][p][q0] \in Bit
      BY <1>0, <1>2 DEF TypeInv, TypeOK
    <3>2. Left(p, k) \in Bit /\ Right(p, k) \in Bit
      BY <1>2, CircuitFacts DEF TypeInv, TypeOK, Left, Right
    <3> QED
      BY <3>1, <3>2, ChoicesType
  <2> HIDE DEF options
  <2>2. /\ EncryptedValues(k, options) \in Message
        /\ EncryptedValues(k, options).slot = b + 2 /\ b + 2 \in Nat
    BY <1>2, <2>1, MessageType DEF EncryptedValues
  <2>3. chan'[p][q0] = Append(chan[p][q0], EncryptedValues(k, options))
    BY <1>0, <1>1 DEF TypeInv, TypeOK
  <2>4. OnlySlot(b + 2, b + 2, b + 3, Plan(p, q0))
    BY <1>0, <1>2, TransferSlots
  <2> QED
    BY <1>2, <2>2, <2>3, <2>4 DEF Sends
<1> HIDE DEF options
<1>4. Reads(p, q0)
  <2>1. chan'[q0][p] = Tail(chan[q0][p])
    BY <1>0, <1>1 DEF TypeInv, TypeOK
  <2>2. OnlySlot(b + 1, b + 1, b + 3, Plan(q0, p))
    BY <1>0, <1>2, TransferSlots
  <2> QED
    BY <1>1, <1>2, <2>1, <2>2 DEF Reads
<1>5. ASSUME NEW q \in Party \ {p}, q # q0
      PROVE  Quiet(p, q) /\ Idle(p, q)
  <2>1. chan'[p][q] = chan[p][q] /\ chan'[q][p] = chan[q][p]
    BY <1>0, <1>1, <1>5 DEF TypeInv, TypeOK
  <2>2. pc'[p] = "run" /\ peer'[p] = NextPeer(p, peer[p])
    BY <1>0, <1>1 DEF TypeInv, TypeOK
  <2> QED
    BY <1>0, <1>1, <1>5, <2>1, <2>2, OtherPeers
<1>6. \A r, s \in Party \ {p} : chan'[r][s] = chan[r][s]
  BY <1>0, <1>1 DEF TypeInv, TypeOK
<1> QED
  BY <1>0, <1>1, <1>3, <1>4, <1>5, <1>6 DEF Moves, TypeInv, TypeOK

LEMMA OTReceiveMoves ==
  ASSUME TypeInv, NEW p \in Party, OTReceive(p)
  PROVE  Moves(p)
<1> DEFINE k == gate[p]
           b == OfferSlot(k)
<1>0. PICK q0 \in Party : q0 = peer[p] /\ q0 < p /\ q0 # p /\ AtAnd(p)
  BY DEF OTReceive, TypeInv, Control, ControlOf
<1>1. /\ pc[p] = "answered" /\ chan[q0][p] # <<>>
      /\ chan' = [chan EXCEPT ![q0][p] = Tail(@)]
      /\ pc' = [pc EXCEPT ![p] = "run"]
      /\ peer' = [peer EXCEPT ![p] = NextPeer(p, q0)] /\ UNCHANGED <<wire, gate>>
  BY <1>0 DEF OTReceive, CanRead, Accumulate, TypeInv, TypeOK
<1>2. /\ b \in Nat /\ k \in GateIndex /\ IsAnd(k)
      /\ SendPos(p, q0) = b + 2 /\ SendPos(p, q0)' = b + 3
      /\ ReadPos(p, q0) = b + 2 /\ ReadPos(p, q0)' = b + 3
  <2>1. pc'[p] = "run" /\ peer'[p] = NextPeer(p, q0)
    BY <1>1 DEF TypeInv, TypeOK
  <2>2. pc[p] \in {"run", "offered", "answered"} /\ pc[p] # "run"
    BY <1>1
  <2>3. UNCHANGED <<wire, gate>>
    BY <1>1
  <2>4. b \in Nat /\ k \in GateIndex /\ IsAnd(k)
    BY <1>0, <2>2, <2>3, TransferPositions
  <2>5. SendPos(p, q0) = b + 2 /\ ReadPos(p, q0) = b + 2
    BY <1>0, <1>1, <2>2, <2>3, TransferPositions
  <2>6. SendPos(p, q0)' = b + 3 /\ ReadPos(p, q0)' = b + 3
    BY <1>0, <2>1, <2>2, <2>3, TransferPositions
  <2> QED
    BY <2>4, <2>5, <2>6
<1>3. Quiet(p, q0)
  <2>1. chan'[p][q0] = chan[p][q0]
    BY <1>0, <1>1 DEF TypeInv, TypeOK
  <2>2. NoSlot(b + 2, b + 3, Plan(p, q0))
    BY <1>0, <1>2, TransferSlots
  <2> QED
    BY <1>2, <2>1, <2>2 DEF Quiet
<1>4. Reads(p, q0)
  <2>1. chan'[q0][p] = Tail(chan[q0][p])
    BY <1>0, <1>1 DEF TypeInv, TypeOK
  <2>2. OnlySlot(b + 2, b + 2, b + 3, Plan(q0, p))
    BY <1>0, <1>2, TransferSlots
  <2> QED
    BY <1>1, <1>2, <2>1, <2>2 DEF Reads
<1>5. ASSUME NEW q \in Party \ {p}, q # q0
      PROVE  Quiet(p, q) /\ Idle(p, q)
  <2>1. chan'[p][q] = chan[p][q] /\ chan'[q][p] = chan[q][p]
    BY <1>0, <1>1, <1>5 DEF TypeInv, TypeOK
  <2>2. pc'[p] = "run" /\ peer'[p] = NextPeer(p, peer[p])
    BY <1>0, <1>1 DEF TypeInv, TypeOK
  <2> QED
    BY <1>0, <1>1, <1>5, <2>1, <2>2, OtherPeers
<1>6. \A r, s \in Party \ {p} : chan'[r][s] = chan[r][s]
  BY <1>0, <1>1 DEF TypeInv, TypeOK
<1> QED
  BY <1>0, <1>1, <1>3, <1>4, <1>5, <1>6 DEF Moves, TypeInv, TypeOK

LEMMA GossipSendMoves ==
  ASSUME TypeInv, NEW p \in Party, GossipSend(p)
  PROVE  Moves(p)
<1> DEFINE m == FinalGossip(OutputShare(p))
           g == GossipSlot
<1>1. /\ pc[p] = "run" /\ wire[p] = NumInput /\ gate[p] = NumGate
      /\ chan' = [chan EXCEPT ![p] = [q \in Party |->
                    IF q = p THEN @[q] ELSE Append(@[q], m)]]
      /\ pc' = [pc EXCEPT ![p] = "gather"] /\ UNCHANGED <<wire, gate, peer>>
  BY DEF GossipSend
<1>2. m \in Message /\ m.slot = g /\ g \in Nat /\ g = OfferSlot(NumGate)
  <2>1. OutputShare(p) \in Outputs
    BY CircuitFacts DEF OutputShare, Outputs, TypeInv, TypeOK
  <2> QED
    BY <2>1, MessageType, SlotFacts DEF FinalGossip
<1> HIDE DEF m, g
<1>3. ASSUME NEW q \in Party \ {p}
      PROVE  Sends(p, q) /\ Idle(p, q)
  <2>1. peer[p] \in Int /\ q \in Int /\ peer[p] <= q
    <3>1. ~AtAnd(p)
      BY <1>1, CircuitFacts DEF AtAnd, Evaluating
    <3> QED
      BY <1>1, <3>1, PeerOrder, CircuitFacts DEF Party, TypeInv, Control, ControlOf
  <2>2. /\ SendPos(p, q) = g /\ SendPos(p, q)' = g + 1
        /\ ReadPos(p, q) = g /\ ReadPos(p, q)' = g
    <3>1. pc'[p] = "gather" /\ NumInput \in Nat /\ OfferSlot(gate[p]) = g
      BY <1>1, <1>2, CircuitFacts DEF TypeInv, TypeOK
    <3> QED
      BY <1>1, <1>2, <2>1, <3>1 DEF SendPos, ReadPos, g
  <2>3. chan'[p][q] = Append(chan[p][q], m) /\ chan'[q][p] = chan[q][p]
    BY <1>1 DEF TypeInv, TypeOK
  <2>4. OnlySlot(g, g, g + 1, Plan(p, q))
    BY <1>2, PlanGossip DEF OnlySlot, g
  <2>5. NoSlot(g, g, Plan(q, p))
    BY <1>2, NoSlotHere, PlanType
  <2>6. Sends(p, q)
    BY <1>2, <2>2, <2>3, <2>4 DEF Sends
  <2> QED
    BY <2>2, <2>3, <2>5, <2>6 DEF Idle
<1>4. \A r, s \in Party \ {p} : chan'[r][s] = chan[r][s]
  BY <1>1 DEF TypeInv, TypeOK
<1> QED
  BY <1>1, <1>3, <1>4 DEF Moves, TypeInv, TypeOK

LEMMA GossipReceiveMoves ==
  ASSUME TypeInv, NEW p \in Party, GossipReceive(p)
  PROVE  Moves(p)
<1> DEFINE q0 == peer[p]
           g == GossipSlot
<1>1. /\ pc[p] = "gather" /\ q0 \in Party /\ q0 # p /\ chan[q0][p] # <<>>
      /\ chan' = [chan EXCEPT ![q0][p] = Tail(@)]
      /\ peer' = [peer EXCEPT ![p] = NextPeer(p, q0)] /\ UNCHANGED <<pc, wire, gate>>
  BY DEF GossipReceive, CanRead, TypeInv, TypeOK, Control, ControlOf
<1>2. wire[p] = NumInput /\ NumInput \in Nat /\ g \in Nat
  BY <1>1, CircuitFacts, SlotFacts DEF TypeInv, Control, ControlOf
<1>3. ASSUME NEW q \in Party \ {p}
      PROVE  Quiet(p, q) /\ (Idle(p, q) \/ Reads(p, q))
  <2>1. /\ q0 \in Int /\ q \in Int /\ peer'[p] = NextPeer(p, q0) /\ NextPeer(p, q0) \in Int
        /\ NextPeer(p, q0) > q0
        /\ q0 < q => NextPeer(p, q0) <= q
        /\ q0 > q => NextPeer(p, q0) > q
    <3>1. peer'[p] = NextPeer(p, q0)
      BY <1>1 DEF TypeInv, TypeOK
    <3>2. q0 \in Int /\ q \in Int
      BY <1>1, CircuitFacts DEF Party
    <3> QED
      BY <1>1, <3>1, <3>2, PeerOrder
  <2>2. /\ SendPos(p, q) = g + 1 /\ SendPos(p, q)' = g + 1
        /\ ReadPos(p, q) = g + (IF q0 > q THEN 1 ELSE 0)
        /\ ReadPos(p, q)' = g + (IF peer'[p] > q THEN 1 ELSE 0)
    BY <1>1, <1>2 DEF SendPos, ReadPos
  <2>3. Quiet(p, q)
    <3>1. chan'[p][q] = chan[p][q]
      BY <1>1 DEF TypeInv, TypeOK
    <3>2. NoSlot(g + 1, g + 1, Plan(p, q))
      BY <1>2, NoSlotHere, PlanType
    <3> QED
      BY <2>2, <3>1, <3>2 DEF Quiet
  <2>4. CASE q = q0
    <3>1. ReadPos(p, q) = g /\ ReadPos(p, q)' = g + 1
      BY <1>2, <2>1, <2>2, <2>4
    <3>2. OnlySlot(g, g, g + 1, Plan(q, p))
      BY <1>2, PlanGossip, PlanType DEF OnlySlot
    <3>3. chan'[q][p] = Tail(chan[q][p])
      BY <1>1, <2>4 DEF TypeInv, TypeOK
    <3> QED
      BY <1>1, <2>3, <2>4, <3>1, <3>2, <3>3 DEF Reads
  <2>5. CASE q # q0
    <3>1. ReadPos(p, q)' = ReadPos(p, q) /\ ReadPos(p, q) \in Nat
      BY <1>2, <2>1, <2>2, <2>5
    <3>2. chan'[q][p] = chan[q][p]
      BY <1>1, <2>5 DEF TypeInv, TypeOK
    <3> QED
      BY <2>3, <3>1, <3>2, NoSlotHere, PlanType DEF Idle
  <2> QED
    BY <2>4, <2>5
<1>4. \A r, s \in Party \ {p} : chan'[r][s] = chan[r][s]
  BY <1>1 DEF TypeInv, TypeOK
<1> QED
  BY <1>1, <1>3, <1>4 DEF Moves, TypeInv, TypeOK

LEMMA FinalXorMoves ==
  ASSUME TypeInv, NEW p \in Party, FinalXor(p)
  PROVE  Moves(p)
<1>1. /\ pc[p] = "gather" /\ pc' = [pc EXCEPT ![p] = "done"]
      /\ UNCHANGED <<wire, gate, peer, chan>>
  BY DEF FinalXor
<1>2. wire[p] = NumInput /\ NumInput \in Nat /\ GossipSlot \in Nat
  BY <1>1, CircuitFacts, SlotFacts DEF TypeInv, Control, ControlOf
<1>3. ASSUME NEW q \in Party \ {p}
      PROVE  Quiet(p, q) /\ Idle(p, q)
  <2>1. /\ SendPos(p, q) \in Nat /\ SendPos(p, q)' = SendPos(p, q)
        /\ ReadPos(p, q) \in Nat /\ ReadPos(p, q)' = ReadPos(p, q)
    BY <1>1, <1>2 DEF SendPos, ReadPos, TypeInv, TypeOK
  <2> QED
    BY <1>1, <2>1, NoSlotHere, PlanType DEF Quiet, Idle
<1> QED
  BY <1>1, <1>3 DEF Moves, TypeInv, TypeOK

-----------------------------------------------------------------------------
(***************************************************************************)
(* Channels are always in order, and hence the parties in step.            *)
(***************************************************************************)
LEMMA ChannelInit == Init => ChannelInv
<1> SUFFICES ASSUME Init, NEW p \in Party, NEW q \in Party, p # q
             PROVE  Ordered(p, q)
  BY DEF ChannelInv
<1>1. /\ chan[p][q] = <<>> /\ wire[p] = 0 /\ wire[q] = 0 /\ gate[p] = 0 /\ gate[q] = 0
      /\ pc[p] = "run" /\ pc[q] = "run"
      /\ peer[p] = FirstPeer(p) /\ peer[q] = FirstPeer(q)
  BY DEF Init
<1>2. /\ peer[p] \in Int /\ peer[p] <= q /\ peer[q] \in Int /\ peer[q] <= p
      /\ p \in Int /\ q \in Int
  BY <1>1, PeerOrder, CircuitFacts DEF Party
<1>3. NumInput \in Nat /\ OfferSlot(0) = NumInput
  BY CircuitFacts, SlotFacts
<1>4. SendPos(p, q) = 0 /\ ReadPos(q, p) = 0
  BY <1>1, <1>2, <1>3 DEF SendPos, ReadPos
<1>5. Len(Slots(chan[p][q])) = 0
  BY <1>1 DEF Slots
<1>6. Plan(p, q) \in SUBSET Nat
  BY PlanType
<1> QED
  BY <1>4, <1>5, <1>6 DEF Ordered, InOrder

LEMMA ChannelNext ==
  TypeInv /\ TypeInv' /\ ChannelInv /\ [Next]_vars => ChannelInv'
<1> SUFFICES ASSUME TypeInv, TypeInv', ChannelInv, [Next]_vars PROVE ChannelInv'
  OBVIOUS
<1>1. ASSUME NEW p \in Party, Step(p) PROVE Moves(p)
  BY <1>1, DealSharesMoves, ReceiveSecretShareMoves, LocalGateMoves, OTOfferMoves,
     OTAnswerMoves, OTTransferMoves, OTReceiveMoves, FinishAndMoves,
     GossipSendMoves, GossipReceiveMoves, FinalXorMoves DEF Step
<1>2. CASE \E p \in Party : Step(p)
  BY <1>1, <1>2, MovesOrdered
<1>3. CASE UNCHANGED vars
  <2>1. chan' = chan /\ pc' = pc /\ wire' = wire /\ gate' = gate /\ peer' = peer
    BY <1>3 DEF vars
  <2>2. ASSUME NEW p \in Party, NEW q \in Party
        PROVE  SendPos(p, q)' = SendPos(p, q) /\ ReadPos(q, p)' = ReadPos(q, p)
    BY <2>1 DEF SendPos, ReadPos
  <2> QED
    BY <2>1, <2>2 DEF ChannelInv, Ordered, Plan
<1> QED
  BY <1>2, <1>3 DEF Next, Terminating

\* A party that reads is at a slot planned for the channel it reads from.
LEMMA ReadingPosition ==
  ASSUME TypeInv, NEW p \in Party, NEW q \in Party, NEW slot \in Nat,
         Reading(p, q, slot)
  PROVE  p # q /\ slot = ReadPos(p, q) /\ slot \in Plan(q, p)
<1>0. p \in Int /\ q \in Int /\ NumInput \in Nat
  BY CircuitFacts DEF Party
<1>1. CASE Sharing(p) /\ Owner[wire[p]] = q /\ q # p /\ slot = ShareSlot(wire[p])
  <2>1. wire[p] \in InputWire /\ wire[p] < NumInput
    BY <1>0, <1>1 DEF Sharing, TypeInv, TypeOK, InputWire
  <2> QED
    BY <1>1, <2>1, PlanShare DEF ShareSlot, ReadPos
<1>2. ASSUME peer[p] = q, pc[p] \in {"run", "offered", "answered"}, AtAnd(p)
      PROVE  /\ wire[p] = NumInput /\ gate[p] \in GateIndex /\ IsAnd(gate[p])
             /\ OfferSlot(gate[p]) \in Nat /\ OfferSlot(gate[p]) + 1 = AnswerSlot(gate[p])
             /\ OfferSlot(gate[p]) + 2 = ValuesSlot(gate[p])
             /\ ReadPos(p, q) = OfferSlot(gate[p]) +
                  (IF pc[p] = "run" THEN 0 ELSE IF pc[p] = "offered" THEN 1 ELSE 2)
  <2>1. /\ wire[p] = NumInput /\ gate[p] \in GateIndex /\ IsAnd(gate[p])
        /\ OfferSlot(gate[p]) \in Nat /\ OfferSlot(gate[p]) + 1 = AnswerSlot(gate[p])
        /\ OfferSlot(gate[p]) + 2 = ValuesSlot(gate[p])
    BY <1>2, GateFacts DEF AtAnd, IsAnd
  <2> QED
    BY <1>0, <1>2, <2>1 DEF ReadPos
<1>3. CASE peer[p] = q /\ pc[p] = "run" /\ AtAnd(p) /\ q < p /\ slot = OfferSlot(gate[p])
  BY <1>0, <1>2, <1>3, PlanGate
<1>4. CASE peer[p] = q /\ pc[p] = "offered" /\ slot = AnswerSlot(gate[p])
  <2>1. AtAnd(p) /\ p < q
    BY <1>4 DEF TypeInv, Control, ControlOf
  <2> QED
    BY <1>0, <1>2, <1>4, <2>1, PlanGate
<1>5. CASE peer[p] = q /\ pc[p] = "answered" /\ slot = ValuesSlot(gate[p])
  <2>1. AtAnd(p) /\ q < p
    BY <1>5 DEF TypeInv, Control, ControlOf
  <2> QED
    BY <1>0, <1>2, <1>5, <2>1, PlanGate
<1>6. CASE peer[p] = q /\ pc[p] = "gather" /\ slot = GossipSlot
  <2>1. wire[p] = NumInput /\ q # p
    BY <1>6 DEF TypeInv, Control, ControlOf
  <2> QED
    BY <1>0, <1>6, <2>1, PlanGossip, SlotFacts DEF ReadPos
<1> QED
  BY <1>1, <1>3, <1>4, <1>5, <1>6 DEF Reading

LEMMA InStep == TypeInv /\ ChannelInv => LockStep
<1> SUFFICES ASSUME TypeInv, ChannelInv, NEW p \in Party, NEW q \in Party,
                    NEW slot \in 0 .. GossipSlot,
                    Reading(p, q, slot), chan[q][p] # <<>>
             PROVE  Head(chan[q][p]).slot = slot
  BY DEF LockStep
<1>1. p # q /\ slot = ReadPos(p, q) /\ slot \in Plan(q, p)
  BY ReadingPosition, SlotFacts
<1>2. /\ chan[q][p] \in Seq(Message) /\ Slots(chan[q][p]) \in Seq(Nat)
      /\ Slots(chan[q][p]) # <<>>
      /\ Head(chan[q][p]).slot = Head(Slots(chan[q][p]))
  BY SlotsType, SlotsRead DEF TypeInv, TypeOK
<1>3. ReadPos(p, q) \in Nat /\ SendPos(q, p) \in Nat /\ Plan(q, p) \in SUBSET Nat
  BY PositionType, PlanType DEF PositionsTyped
<1>4. InOrder(Slots(chan[q][p]), ReadPos(p, q), SendPos(q, p), Plan(q, p))
  BY <1>1 DEF ChannelInv, Ordered
<1>5. Head(Slots(chan[q][p])) = ReadPos(p, q)
  BY <1>1, <1>2, <1>3, <1>4, HeadSlot
<1> QED
  BY <1>1, <1>2, <1>5

-----------------------------------------------------------------------------
(***************************************************************************)
(* What the order of the channels implies for exits and for buffers.       *)
(***************************************************************************)
\* The loop variables of p as numbers.
LEMMA LoopVariables ==
  ASSUME TypeInv, NEW p \in Party
  PROVE  /\ pc[p] \in {"run", "offered", "answered", "gather", "done"}
         /\ wire[p] \in Nat /\ NumInput \in Nat /\ wire[p] <= NumInput
         /\ gate[p] \in Nat /\ NumGate \in Nat /\ gate[p] <= NumGate
         /\ gate[p] \in 0 .. NumGate /\ OfferSlot(gate[p]) \in Nat
         /\ peer[p] \in Int /\ p \in Int
         /\ GossipSlot \in Nat /\ NumInput <= GossipSlot
<1>1. /\ pc[p] \in {"run", "offered", "answered", "gather", "done"}
      /\ wire[p] \in 0 .. NumInput /\ gate[p] \in 0 .. NumGate /\ peer[p] \in 0 .. N
  BY DEF TypeInv, TypeOK
<1>2. NumInput <= GossipSlot
  BY CircuitFacts DEF GossipSlot
<1>3. OfferSlot(gate[p]) \in Nat /\ GossipSlot \in Nat
  BY <1>1, SlotFacts
<1> QED
  BY <1>1, <1>2, <1>3, CircuitFacts DEF Party

\* What p has read from q, q has sent.
LEMMA ReadWasSent ==
  ASSUME ChannelInv, NEW p \in Party, NEW q \in Party \ {p}, NEW s \in Plan(q, p),
         s < ReadPos(p, q)
  PROVE  s < SendPos(q, p)
  BY DEF ChannelInv, Ordered, InOrder

\* Only a party that has sent its output shares is past the last slot.
LEMMA PastGossip ==
  ASSUME TypeInv, NEW p \in Party, NEW q \in Party \ {p}, GossipSlot < SendPos(p, q)
  PROVE  pc[p] \in {"gather", "done"}
<1> SUFFICES ASSUME pc[p] \notin {"gather", "done"} PROVE FALSE
  OBVIOUS
<1>1. /\ wire[p] \in Nat /\ NumInput \in Nat /\ wire[p] <= NumInput
      /\ gate[p] \in Nat /\ NumGate \in Nat /\ gate[p] <= NumGate
      /\ GossipSlot \in Nat /\ NumInput <= GossipSlot /\ OfferSlot(gate[p]) \in Nat
      /\ pc[p] \in {"run", "offered", "answered"}
  BY LoopVariables
<1>2. ~(wire[p] < NumInput)
  BY <1>1 DEF SendPos
<1>3. CASE gate[p] = NumGate
  <2>1. pc[p] = "run" /\ peer[p] = FirstPeer(p)
    <3>1. ~AtAnd(p)
      BY <1>1, <1>3 DEF AtAnd, Evaluating
    <3> QED
      BY <1>1, <3>1 DEF TypeInv, Control, ControlOf
  <2>2. peer[p] \in Int /\ q \in Int /\ peer[p] <= q
    BY <2>1, PeerOrder, CircuitFacts DEF Party
  <2>3. SendPos(p, q) = GossipSlot
    BY <1>1, <1>2, <1>3, <2>1, <2>2, SlotFacts DEF SendPos
  <2> QED
    BY <1>1, <2>3
<1>4. CASE gate[p] # NumGate
  <2>1. OfferSlot(gate[p]) + 3 <= GossipSlot
    BY <1>1, <1>4, SlotFacts DEF GateIndex
  <2> QED
    BY <1>1, <1>2, <2>1 DEF SendPos
<1> QED
  BY <1>3, <1>4

LEMMA ExitIsClean == TypeInv /\ ChannelInv => CleanExit
<1> SUFFICES ASSUME TypeInv, ChannelInv, NEW p \in Party, NEW q \in Party,
                    pc[p] = "done", q # p
             PROVE  chan[q][p] = <<>> /\ pc[q] \in {"gather", "done"}
  BY DEF CleanExit
<1> DEFINE c == Slots(chan[q][p])
<1>1. ReadPos(p, q) = GossipSlot + 1 /\ GossipSlot \in Nat
  <2>1. wire[p] = NumInput /\ peer[p] = N /\ N > q /\ NumInput \in Nat
    BY CircuitFacts DEF Party, TypeInv, Control, ControlOf
  <2> QED
    BY <2>1, SlotFacts DEF ReadPos
<1>2. pc[q] \in {"gather", "done"}
  <2>1. GossipSlot \in Plan(q, p)
    BY PlanGossip
  <2> QED
    BY <1>1, <2>1, ReadWasSent, PastGossip
<1>3. /\ chan[q][p] \in Seq(Message) /\ Len(c) = Len(chan[q][p]) /\ Len(c) \in Nat
      /\ \A i \in 1 .. Len(c) : c[i] \in Plan(q, p) /\ GossipSlot + 1 <= c[i]
  BY <1>1, SlotsType DEF TypeInv, TypeOK, ChannelInv, Ordered, InOrder
<1>4. \A i \in 1 .. Len(c) : FALSE
  BY <1>1, <1>3, PlanGossip, PlanType
<1>5. Len(chan[q][p]) = 0
  BY <1>3, <1>4
<1> QED
  BY <1>2, <1>3, <1>5, EmptySeq

\* Within the transfers of gate k: a sender that has sent its options has read
\* the answer, and a receiver that has answered has read the offer; and whoever
\* offers is at the gate.
LEMMA Handshake ==
  ASSUME TypeInv, NEW p \in Party, NEW q \in Party \ {p}, NEW k \in GateIndex,
         NEW b, b = OfferSlot(k)
  PROVE  /\ p < q /\ b < SendPos(p, q) => b < ReadPos(p, q)
         /\ p < q /\ b + 2 < SendPos(p, q) => b + 1 < ReadPos(p, q)
         /\ q < p /\ b + 1 < SendPos(p, q) => b + 1 < ReadPos(p, q)
<1>1. /\ wire[p] \in 0 .. NumInput /\ NumInput \in Nat
      /\ b \in Nat /\ NumInput <= b /\ b + 3 <= GossipSlot /\ GossipSlot \in Nat
  BY CircuitFacts, SlotFacts DEF TypeInv, TypeOK, GateIndex
<1>2. CASE wire[p] < NumInput
  BY <1>1, <1>2 DEF SendPos
<1>3. CASE wire[p] = NumInput /\ pc[p] \in {"gather", "done"}
  BY <1>1, <1>3 DEF ReadPos
<1>4. CASE wire[p] = NumInput /\ pc[p] \in {"run", "offered", "answered"}
  <2>1. PICK o \in Nat : /\ o = OfferSlot(gate[p])
                         /\ o + 3 <= b \/ o = b \/ b + 3 <= o
    <3>1. /\ gate[p] \in Nat /\ k \in Nat /\ NumInput \in Nat
          /\ OfferSlot(gate[p]) = NumInput + 3 * gate[p] /\ b = NumInput + 3 * k
          /\ OfferSlot(gate[p]) \in Nat
      BY LoopVariables, CircuitFacts DEF OfferSlot, GateIndex
    <3>2. gate[p] < k \/ gate[p] = k \/ k < gate[p]
      BY <3>1
    <3> QED
      BY <3>1, <3>2
  <2>2. /\ p \in Int /\ q \in Int /\ peer[p] \in Int
        /\ pc[p] = "offered" => p < peer[p]
        /\ pc[p] = "answered" => peer[p] < p
    BY LoopVariables, CircuitFacts DEF Party, TypeInv, Control, ControlOf
  <2>3. CASE peer[p] < q
    BY <1>1, <1>4, <2>1, <2>2, <2>3 DEF SendPos, ReadPos
  <2>4. CASE peer[p] > q
    BY <1>1, <1>4, <2>1, <2>2, <2>4 DEF SendPos, ReadPos
  <2>5. CASE peer[p] = q
    BY <1>1, <1>4, <2>1, <2>2, <2>5 DEF SendPos, ReadPos
  <2> QED
    BY <2>2, <2>3, <2>4, <2>5
<1> QED
  BY <1>1, <1>2, <1>3, <1>4 DEF TypeInv, TypeOK

LEMMA BacklogBound == TypeInv /\ ChannelInv => Backlog
<1> SUFFICES ASSUME TypeInv, ChannelInv, NEW p \in Party, NEW q \in Party, q # p,
                    wire[q] = NumInput, ~(Len(chan[p][q]) <= 2)
             PROVE  FALSE
  BY DEF Backlog
<1>1. PICK c \in Seq(Nat) :
        /\ c = Slots(chan[p][q]) /\ Len(c) \in Nat /\ Len(c) > 2
        /\ InOrder(c, ReadPos(q, p), SendPos(p, q), Plan(p, q))
  BY SlotsType DEF TypeInv, TypeOK, ChannelInv, Ordered
\* The first three messages of the channel, in the order of their slots.
<1>2. PICK x \in Plan(p, q), y \in Plan(p, q), z \in Plan(p, q) :
        ReadPos(q, p) <= x /\ x < y /\ y < z /\ z < SendPos(p, q)
  <2>1. 1 \in 1 .. Len(c) /\ 2 \in 1 .. Len(c) /\ 3 \in 1 .. Len(c)
    BY <1>1
  <2>2. /\ c[1] \in Plan(p, q) /\ c[2] \in Plan(p, q) /\ c[3] \in Plan(p, q)
        /\ ReadPos(q, p) <= c[1] /\ c[3] < SendPos(p, q)
    BY <1>1, <2>1 DEF InOrder
  <2>3. c[1] < c[2] /\ c[2] < c[3]
    BY <1>1, <2>1 DEF InOrder
  <2> QED
    BY <2>2, <2>3
<1>3. /\ x \in Nat /\ y \in Nat /\ z \in Nat /\ p \in Int /\ q \in Int
      /\ NumInput \in Nat /\ GossipSlot \in Nat
      /\ ReadPos(q, p) \in Nat /\ SendPos(p, q) \in Nat
  BY PlanType, PositionType, CircuitFacts, SlotFacts DEF Party, PositionsTyped
\* They are slots of transfers; the second one belongs to gate k.
<1>4. NumInput <= x /\ y < GossipSlot
  <2>1. NumInput <= ReadPos(q, p)
    <3>1. PICK o \in Nat : o = OfferSlot(gate[q]) /\ NumInput <= o
      BY LoopVariables, SlotFacts
    <3>2. wire[q] = NumInput /\ peer[q] \in Int /\ NumInput <= GossipSlot
      BY LoopVariables, SlotFacts
    <3> QED
      BY <1>3, <3>1, <3>2 DEF ReadPos
  <2> QED
    BY <1>2, <1>3, <2>1, PlanGossip
<1>5. PICK k \in GateIndex, b \in Nat :
        /\ b = OfferSlot(k) /\ IsAnd(k)
        /\ \/ p < q /\ y \in {b, b + 2}
           \/ q < p /\ y = b + 1
  <2>1. y \notin InputWire /\ y # GossipSlot
    BY <1>2, <1>3, <1>4 DEF InputWire
  <2>2. PICK k \in GateIndex :
          /\ IsAnd(k)
          /\ \/ p < q /\ y \in {OfferSlot(k), ValuesSlot(k)}
             \/ q < p /\ y = AnswerSlot(k)
    BY <2>1 DEF Plan
  <2> QED
    <3>1. PICK b \in Nat : b = OfferSlot(k) /\ AnswerSlot(k) = b + 1 /\ ValuesSlot(k) = b + 2
      <4>1. k \in 0 .. NumGate
        BY CircuitFacts DEF GateIndex
      <4> QED
        BY <4>1, SlotFacts
    <3> QED
      BY <2>2, <3>1
\* So q is past the first one.
<1>6. CASE p < q
  <2>1. b + 2 < SendPos(p, q)
    <3>1. y = b => b + 2 <= z
      BY <1>2, <1>3, <1>5, <1>6, TransferSlots DEF OnlySlot
    <3> QED
      BY <1>2, <1>3, <1>5, <1>6, <3>1
  <2>2. b + 1 < ReadPos(p, q) /\ b + 1 \in Plan(q, p)
    BY <1>5, <1>6, <2>1, Handshake, TransferSlots DEF OnlySlot
  <2>3. b + 1 < SendPos(q, p)
    BY <1>6, <2>2, ReadWasSent
  <2>4. b + 1 < ReadPos(q, p)
    BY <1>3, <1>5, <1>6, <2>3, Handshake
  <2>5. y = b + 2 => x <= b
    BY <1>2, <1>3, <1>5, <1>6, <2>4, TransferSlots DEF OnlySlot
  <2> QED
    BY <1>2, <1>3, <1>5, <1>6, <2>4, <2>5
<1>7. CASE q < p
  <2>1. b + 1 < SendPos(p, q)
    BY <1>2, <1>3, <1>5, <1>7
  <2>2. b < ReadPos(p, q) /\ b \in Plan(q, p)
    <3>1. b + 1 < ReadPos(p, q) /\ ReadPos(p, q) \in Nat
      BY <1>5, <1>7, <2>1, Handshake, PositionType DEF PositionsTyped
    <3> QED
      BY <1>3, <1>5, <1>7, <3>1, TransferSlots DEF OnlySlot
  <2>3. b < SendPos(q, p)
    BY <1>7, <2>2, ReadWasSent
  <2>4. b < ReadPos(q, p)
    BY <1>5, <1>7, <2>3, Handshake
  <2>5. x < b \/ x = b + 1
    BY <1>2, <1>3, <1>5, <1>7, <2>4, TransferSlots DEF OnlySlot, NoSlot
  <2> QED
    BY <1>2, <1>3, <1>5, <1>7, <2>4, <2>5
<1> QED
  BY <1>3, <1>6, <1>7

-----------------------------------------------------------------------------
LEMMA Invariance == Spec => [](TypeInv /\ ChannelInv)
<1>1. Init => TypeInv /\ ChannelInv
  BY TypeInit, ChannelInit
<1>2. TypeInv /\ ChannelInv /\ [Next]_vars => (TypeInv /\ ChannelInv)'
  BY TypeNext, ChannelNext
<1> QED
  BY <1>1, <1>2, PTL DEF Spec

\* For every number of parties and every circuit, whatever a party reads was
\* sent for the very wire, gate and transfer phase it is at (peer_link.cxx and
\* the receiving functions of participant.cxx).
THEOREM InLockStep == Spec => []LockStep
  BY InStep, Invariance, PTL

\* For every number of parties and every circuit, a participant that exits has
\* read all that was sent to it, and nobody will write to it again
\* (participant.cxx, the gathering of the outputs before main returns).
THEOREM ExitsCleanly == Spec => []CleanExit
  BY ExitIsClean, Invariance, PTL

\* For every number of parties and every circuit, at most two unread messages
\* lie between two parties once the reader is past the input wires
\* (participant.cxx, the circuit evaluation over blocking sockets).
THEOREM BoundedBacklog == Spec => []Backlog
  BY BacklogBound, Invariance, PTL

-----------------------------------------------------------------------------
(***************************************************************************)
(* The shares.  The invariant says what each party's shares, its           *)
(* accumulator and each message on its way hold, in terms of the random    *)
(* bits drawn.  The shares of an AND gate are then the row sums of an      *)
(* N * N table of bits whose diagonal holds the parties' own products, and *)
(* in which two cells that mirror each other, filled by one transfer, add  *)
(* up to the two mixed products: the table adds up to the product of the   *)
(* two shared values.                                                      *)
(*                                                                         *)
(* First bits, and XOR over an initial segment of the parties.             *)
(***************************************************************************)
\* The XOR of the first n bits of f.
Parity(f, n) == Cardinality({i \in 0 .. n-1 : f[i] = 1}) % 2

LEMMA XorBits ==
  ASSUME NEW a \in Bit, NEW b \in Bit, NEW c \in Bit, NEW d \in Bit
  PROVE  /\ Xor(a, b) \in Bit /\ a * b \in Bit
         /\ Xor(a, b) = (a + b) % 2
         /\ Xor(Xor(a, b), Xor(c, d)) = Xor(Xor(a, c), Xor(b, d))
         /\ Xor(a, 0) = a /\ Xor(a, a) = 0 /\ Xor(a, b) = Xor(b, a)
         /\ Xor(a, Xor(a, b)) = b
         /\ a * Xor(b, c) = Xor(a * b, a * c)
         /\ a * 0 = 0 /\ a * 1 = a /\ a * b = b * a
  BY DEF Xor, Bit

LEMMA ParityStep ==
  ASSUME NEW f, NEW n \in Nat
  PROVE  /\ Parity(f, n) \in Bit
         /\ Parity(f, 0) = 0
         /\ f[n] \in Bit => Parity(f, n + 1) = Xor(Parity(f, n), f[n])
<1> DEFINE S == {i \in 0 .. n-1 : f[i] = 1}
           T == {i \in 0 .. (n + 1) - 1 : f[i] = 1}
<1>1. IsFiniteSet(S) /\ Cardinality(S) \in Nat
  <2>1. IsFiniteSet(0 .. n-1) /\ S \in SUBSET (0 .. n-1)
    BY FS_Interval
  <2> HIDE DEF S
  <2> QED
    BY <2>1, FS_Subset, FS_CardinalityType
<1>2. Parity(f, n) \in Bit
  BY <1>1 DEF Parity, Bit
<1>3. Parity(f, 0) = 0
  <2>1. {i \in 0 .. 0-1 : f[i] = 1} = {}
    OBVIOUS
  <2> QED
    BY <2>1, FS_EmptySet DEF Parity
<1>4. ASSUME f[n] = 1 PROVE Parity(f, n + 1) = Xor(Parity(f, n), 1)
  <2>1. T = S \cup {n} /\ n \notin S
    BY <1>4
  <2>2. Cardinality(T) = Cardinality(S) + 1
    BY <1>1, <2>1, FS_AddElement
  <2>3. PICK c \in Nat : c = Cardinality(S)
    BY <1>1
  <2>4. (c + 1) % 2 = Xor(c % 2, 1)
    BY DEF Xor
  <2> QED
    BY <2>2, <2>3, <2>4 DEF Parity
<1>5. ASSUME f[n] = 0 PROVE Parity(f, n + 1) = Xor(Parity(f, n), 0)
  <2>1. T = S
    BY <1>5
  <2> QED
    BY <1>2, <2>1, XorBits DEF Parity, Bit
<1> QED
  BY <1>2, <1>3, <1>4, <1>5 DEF Bit

\* It depends on the first n bits only.
LEMMA ParitySame ==
  ASSUME NEW f, NEW g, NEW n \in Nat, \A i \in 0 .. n-1 : f[i] = g[i]
  PROVE  Parity(f, n) = Parity(g, n)
<1>1. {i \in 0 .. n-1 : f[i] = 1} = {i \in 0 .. n-1 : g[i] = 1}
  OBVIOUS
<1> QED
  BY <1>1 DEF Parity

LEMMA ParityZero ==
  ASSUME NEW f, NEW n \in Nat, \A i \in 0 .. n-1 : f[i] = 0
  PROVE  Parity(f, n) = 0
<1>1. {i \in 0 .. n-1 : f[i] = 1} = {}
  OBVIOUS
<1> QED
  BY <1>1, FS_EmptySet DEF Parity

\* XOR is additive.
LEMMA ParityXor ==
  ASSUME NEW f, NEW g, NEW h, NEW n \in Nat,
         \A i \in 0 .. n-1 : f[i] \in Bit /\ g[i] \in Bit /\ h[i] = Xor(f[i], g[i])
  PROVE  Parity(h, n) = Xor(Parity(f, n), Parity(g, n))
<1> DEFINE S == {m \in Nat : m <= n => Parity(h, m) = Xor(Parity(f, m), Parity(g, m))}
<1>1. 0 \in S
  BY ParityStep, XorBits DEF Bit
<1>2. ASSUME NEW m \in S, m + 1 <= n
      PROVE  Parity(h, m + 1) = Xor(Parity(f, m + 1), Parity(g, m + 1))
  <2>1. m \in Nat /\ m \in 0 .. n-1 /\ Parity(h, m) = Xor(Parity(f, m), Parity(g, m))
    BY <1>2
  <2>2. f[m] \in Bit /\ g[m] \in Bit /\ h[m] = Xor(f[m], g[m]) /\ h[m] \in Bit
    BY <2>1, XorType
  <2>3. /\ Parity(f, m) \in Bit /\ Parity(g, m) \in Bit
        /\ Parity(f, m + 1) = Xor(Parity(f, m), f[m])
        /\ Parity(g, m + 1) = Xor(Parity(g, m), g[m])
        /\ Parity(h, m + 1) = Xor(Parity(h, m), h[m])
    BY <2>1, <2>2, ParityStep
  <2>4. Xor(Xor(Parity(f, m), Parity(g, m)), Xor(f[m], g[m])) =
          Xor(Xor(Parity(f, m), f[m]), Xor(Parity(g, m), g[m]))
    <3>1. \A a, b, c, d \in Bit : Xor(Xor(a, b), Xor(c, d)) = Xor(Xor(a, c), Xor(b, d))
      BY XorBits
    <3> QED
      BY <2>2, <2>3, <3>1
  <2> QED
    BY <2>1, <2>2, <2>3, <2>4
<1>3. \A m \in S : m + 1 \in S
  BY <1>2
<1>4. n \in S
  <2> HIDE DEF S
  <2>1. S \in SUBSET Nat
    BY DEF S
  <2> QED
    BY <1>1, <1>3, <2>1, SetInduction
<1> QED
  BY <1>4

LEMMA ParityScale ==
  ASSUME NEW f, NEW h, NEW n \in Nat, NEW a \in Bit,
         \A i \in 0 .. n-1 : f[i] \in Bit /\ h[i] = a * f[i]
  PROVE  Parity(h, n) = a * Parity(f, n)
<1>1. CASE a = 0
  <2>1. \A i \in 0 .. n-1 : h[i] = 0
    BY <1>1 DEF Bit
  <2>2. Parity(f, n) \in Bit
    BY ParityStep
  <2> QED
    BY <1>1, <2>1, <2>2, ParityZero DEF Bit
<1>2. CASE a = 1
  <2>1. \A i \in 0 .. n-1 : h[i] = f[i]
    BY <1>2 DEF Bit
  <2>2. Parity(f, n) \in Bit
    BY ParityStep
  <2> QED
    BY <1>2, <2>1, <2>2, ParitySame DEF Bit
<1> QED
  BY <1>1, <1>2 DEF Bit

\* A single bit.
LEMMA ParitySingle ==
  ASSUME NEW f, NEW n \in Nat, NEW k \in 0 .. n-1, f[k] \in Bit,
         \A i \in 0 .. n-1 : i # k => f[i] = 0
  PROVE  Parity(f, n) = f[k]
<1>1. CASE f[k] = 0
  BY <1>1, ParityZero
<1>2. CASE f[k] = 1
  <2>1. {i \in 0 .. n-1 : f[i] = 1} = {k}
    BY <1>2
  <2>2. Cardinality({k}) = 1
    BY FS_Singleton
  <2>3. Parity(f, n) = Cardinality({k}) % 2
    BY <2>1 DEF Parity
  <2> QED
    BY <1>2, <2>2, <2>3
<1> QED
  BY <1>1, <1>2 DEF Bit

\* The bits of a square matrix whose diagonal holds the products l[i] * r[i] and
\* in which the entries across the diagonal differ by l[i]*r[j] + l[j]*r[i] add up
\* to the product of the sums: what the transfers of an AND gate are for.
Rows(m, n) == [i \in 0 .. n-1 |-> Parity(m[i], n)]

LEMMA SquareProduct ==
  ASSUME NEW m, NEW l, NEW r, NEW n \in Nat,
         \A i \in 0 .. n-1 : l[i] \in Bit /\ r[i] \in Bit /\ m[i][i] = l[i] * r[i],
         \A i, j \in 0 .. n-1 : m[i][j] \in Bit,
         \A i, j \in 0 .. n-1 : i < j =>
           Xor(m[i][j], m[j][i]) = Xor(l[i] * r[j], l[j] * r[i])
  PROVE  Parity(Rows(m, n), n) = Parity(l, n) * Parity(r, n)
<1> DEFINE S == {k \in Nat : k <= n =>
                   Parity(Rows(m, k), k) = Parity(l, k) * Parity(r, k)}
<1>1. 0 \in S
  BY ParityStep DEF Bit
<1>2. ASSUME NEW k \in S, k + 1 <= n
      PROVE  Parity(Rows(m, k + 1), k + 1) = Parity(l, k + 1) * Parity(r, k + 1)
  <2>1. /\ k \in Nat /\ k \in 0 .. n-1 /\ k <= n
        /\ \A i \in 0 .. k-1 : i \in 0 .. n-1 /\ i < k
        /\ Parity(Rows(m, k), k) = Parity(l, k) * Parity(r, k)
    BY <1>2
  <2> DEFINE column == [i \in 0 .. k-1 |-> m[i][k]]
             across == [i \in 0 .. k-1 |-> Xor(m[i][k], m[k][i])]
             lr == [i \in 0 .. k-1 |-> l[i] * r[k]]
             rl == [i \in 0 .. k-1 |-> l[k] * r[i]]
  <2>2. \A i \in 0 .. k : Parity(m[i], k) \in Bit /\ Parity(m[i], k + 1) = Xor(Parity(m[i], k), m[i][k])
    <3>1. \A i \in 0 .. k : m[i][k] \in Bit
      BY <2>1
    <3> QED
      BY <2>1, <3>1, ParityStep
  <2>3. Parity(Rows(m, k + 1), k) = Xor(Parity(Rows(m, k), k), Parity(column, k))
    <3>1. \A i \in 0 .. k-1 :
            /\ Rows(m, k)[i] \in Bit /\ column[i] \in Bit
            /\ Rows(m, k + 1)[i] = Xor(Rows(m, k)[i], column[i])
      BY <2>1, <2>2 DEF Rows
    <3> HIDE DEF column
    <3> QED
      BY <2>1, <3>1, ParityXor
  <2>4. Xor(Parity(column, k), Parity(m[k], k)) = Parity(across, k)
    <3>1. \A i \in 0 .. k-1 :
            column[i] \in Bit /\ m[k][i] \in Bit /\ across[i] = Xor(column[i], m[k][i])
      BY <2>1
    <3> HIDE DEF column, across
    <3> QED
      BY <2>1, <3>1, ParityXor
  <2>5. Parity(across, k) = Xor(Parity(lr, k), Parity(rl, k))
    <3>1. \A i \in 0 .. k-1 :
            lr[i] \in Bit /\ rl[i] \in Bit /\ across[i] = Xor(lr[i], rl[i])
      <4>1. ASSUME NEW i \in 0 .. k-1
            PROVE  l[i] * r[k] \in Bit /\ l[k] * r[i] \in Bit
        <5>1. l[i] \in Bit /\ r[k] \in Bit /\ l[k] \in Bit /\ r[i] \in Bit
          BY <2>1
        <5> QED
          BY <5>1, XorBits
      <4> QED
        BY <2>1, <4>1
    <3> HIDE DEF across, lr, rl
    <3> QED
      BY <2>1, <3>1, ParityXor
  <2>6. Parity(lr, k) = r[k] * Parity(l, k) /\ Parity(rl, k) = l[k] * Parity(r, k)
    <3>1. l[k] \in Bit /\ r[k] \in Bit
      BY <2>1
    <3>2. \A i \in 0 .. k-1 : l[i] \in Bit /\ lr[i] = r[k] * l[i]
      <4>1. \A i \in 0 .. k-1 : l[i] \in Bit
        BY <2>1
      <4> QED
        BY <3>1, <4>1, XorBits
    <3>3. \A i \in 0 .. k-1 : r[i] \in Bit /\ rl[i] = l[k] * r[i]
      BY <2>1
    <3> HIDE DEF lr, rl
    <3> QED
      BY <2>1, <3>1, <3>2, <3>3, ParityScale
  <2>7. /\ Parity(Rows(m, k + 1), k + 1) =
             Xor(Parity(Rows(m, k + 1), k), Xor(Parity(m[k], k), l[k] * r[k]))
        /\ Parity(l, k + 1) = Xor(Parity(l, k), l[k])
        /\ Parity(r, k + 1) = Xor(Parity(r, k), r[k])
    <3>1. m[k][k] = l[k] * r[k]
      BY <2>1
    <3>2. Rows(m, k + 1)[k] = Xor(Parity(m[k], k), l[k] * r[k])
      BY <2>1, <2>2, <3>1 DEF Rows
    <3>3. l[k] \in Bit /\ r[k] \in Bit /\ Rows(m, k + 1)[k] \in Bit
      BY <2>1, <3>2, XorType
    <3> QED
      BY <2>1, <3>2, <3>3, ParityStep
  <2>8. /\ Parity(column, k) \in Bit /\ Parity(m[k], k) \in Bit
        /\ Parity(l, k) \in Bit /\ Parity(r, k) \in Bit /\ l[k] \in Bit /\ r[k] \in Bit
    BY <2>1, ParityStep
  <2>9. PICK C, M, L, R, a, b \in Bit :
          /\ C = Parity(column, k) /\ M = Parity(m[k], k)
          /\ L = Parity(l, k) /\ R = Parity(r, k) /\ a = l[k] /\ b = r[k]
    BY <2>8
  <2>10. Xor(C, M) = Xor(b * L, a * R)
    BY <2>4, <2>5, <2>6, <2>9
  <2>11. Xor(Xor(L * R, C), Xor(M, a * b)) = Xor(L, a) * Xor(R, b)
    BY <2>10 DEF Bit, Xor
  <2> QED
    <3>1. Parity(Rows(m, k + 1), k + 1) = Xor(Xor(L * R, C), Xor(M, a * b))
      BY <2>1, <2>3, <2>7, <2>9
    <3> QED
      BY <2>7, <2>9, <2>11, <3>1
<1>3. \A k \in S : k + 1 \in S
  BY <1>2
<1>4. n \in S
  <2> HIDE DEF S
  <2>1. S \in SUBSET Nat
    BY DEF S
  <2> QED
    BY <1>1, <1>3, <2>1, SetInduction
<1> QED
  BY <1>4

-----------------------------------------------------------------------------
(***************************************************************************)
(* The invariant: what the shares, the accumulators and the messages hold. *)
(***************************************************************************)
\* The bit that p gets from its transfer with q at gate k.
Obtained(k, p, q) ==
  IF p < q THEN bit[k][p][q]
  ELSE SenderChoices(bit[k][q][p], Left(q, k), Right(q, k))[ChoiceBit(Left(p, k), Right(p, k))]

\* All bits that p adds up at gate k, without and with its own product.
FromPeers(k, p) == [q \in Party |-> IF q = p THEN 0 ELSE Obtained(k, p, q)]
Products(k, p) ==
  [q \in Party |-> IF q = p THEN Left(p, k) * Right(p, k) ELSE Obtained(k, p, q)]

\* The share of p of the output of gate k.
GateShare(p, k) == IF IsAnd(k) THEN XorOver(Products(k, p)) ELSE LocalShare(p, k)

\* A party's shares of the wires it is past are those the owners dealt...
InputShares(p) == \A w \in InputWire : w < wire[p] => shares[p][w] = dealt[w][p]

\* ... and those the gates it is past give it.
GateShares(p) ==
  \A k \in GateIndex : k < gate[p] => shares[p][Gates[k].output] = GateShare(p, k)

\* ot_accumulator holds the bits from the peers p is past at its gate.
Accumulated(p) ==
  /\ AtAnd(p) => acc[p] % 2 = Parity(FromPeers(gate[p], p), peer[p])
  /\ ~AtAnd(p) => acc[p] = 0

\* all_shares holds the true output shares of the peers p is past.
GatheredOf(p) ==
  pc[p] \in {"gather", "done"} =>
    \A q \in Party : q = p \/ q < peer[p] => gathered[p][q] = OutputShare(q)

\* The shares an owner dealt add up to the input.
DealtRight ==
  \A w \in InputWire : w < wire[Owner[w]] => XorOver(dealt[w]) = input[w]

\* What a message m from p to q holds.
Content(p, q, m) ==
  \/ \E w \in InputWire : m = InitialShare(w, dealt[w][q])
  \/ \E k \in GateIndex : m = SenderPublic(k) \/ m = ReceiverPublic(k)
  \/ \E k \in GateIndex :
       IsAnd(k) /\ m = EncryptedValues(k, SenderChoices(bit[k][p][q], Left(p, k), Right(p, k)))
  \/ m = FinalGossip(OutputShare(p))

Contents ==
  \A p, q \in Party : p # q =>
    \A i \in 1 .. Len(chan[p][q]) : Content(p, q, chan[p][q][i])

ShareInv ==
  /\ \A p \in Party : InputShares(p) /\ GateShares(p) /\ Accumulated(p) /\ GatheredOf(p)
  /\ DealtRight
  /\ Contents

-----------------------------------------------------------------------------
(***************************************************************************)
(* The circuit, and how far a party is in it.                              *)
(***************************************************************************)
LEMMA WireFacts ==
  ASSUME NEW j \in GateIndex
  PROVE  /\ \A w \in InputWire : w # Gates[j].output
         /\ \A k \in GateIndex : k < j => Gates[k].output # Gates[j].output
         /\ \A k \in GateIndex : k <= j =>
              /\ Gates[k].lhs # Gates[j].output
              /\ Gates[k].type # "NOT" => Gates[k].rhs # Gates[j].output
<1>1. /\ Gates[j].output \notin Defined(j)
      /\ \A k \in GateIndex : /\ Gates[k].lhs \in Defined(k)
                              /\ Gates[k].type # "NOT" => Gates[k].rhs \in Defined(k)
  BY CircuitAssumption
<1>2. NumGate \in Nat
  BY CircuitFacts
<1>3. \A k \in GateIndex : k <= j => Defined(k) \subseteq Defined(j)
  BY <1>2 DEF GateIndex, Defined
<1>4. InputWire \subseteq Defined(j) /\ \A k \in GateIndex : k < j => Gates[k].output \in Defined(j)
  BY <1>2 DEF GateIndex, Defined
<1> QED
  BY <1>1, <1>3, <1>4

\* p is past its transfer with q at gate k.
Past(p, q, k) ==
  /\ wire[p] = NumInput
  /\ k < gate[p] \/ (k = gate[p] /\ q < peer[p])

\* p is at gate k, or past it.
Reached(p, k) == wire[p] = NumInput /\ k <= gate[p]

LEMMA PastSent ==
  ASSUME TypeInv, NEW p \in Party, NEW q \in Party \ {p}, NEW k \in GateIndex,
         ValuesSlot(k) < SendPos(p, q)
  PROVE  Past(p, q, k)
<1>1. /\ k \in Nat /\ k < NumGate /\ NumGate \in Nat /\ NumInput \in Nat
      /\ ValuesSlot(k) = NumInput + 3*k + 2 /\ wire[p] \in 0 .. NumInput
      /\ gate[p] \in 0 .. NumGate /\ OfferSlot(gate[p]) = NumInput + 3*gate[p]
      /\ peer[p] \in Int /\ q \in Int
  BY CircuitFacts, LoopVariables DEF GateIndex, ValuesSlot, OfferSlot, Party, TypeInv, TypeOK
<1>2. wire[p] = NumInput
  BY <1>1 DEF SendPos
<1>3. CASE pc[p] \in {"gather", "done"}
  BY <1>1, <1>2, <1>3 DEF TypeInv, Control, ControlOf, Past
<1>4. CASE pc[p] \notin {"gather", "done"}
  <2>1. k < gate[p] \/ k = gate[p] \/ k > gate[p]
    BY <1>1
  <2>2. SendPos(p, q) = NumInput + 3*gate[p] + (IF peer[p] < q THEN 0
                          ELSE IF peer[p] > q THEN 3
                          ELSE IF pc[p] = "run" THEN 0 ELSE 2)
    BY <1>1, <1>2, <1>4 DEF SendPos
  <2> QED
    BY <1>1, <1>2, <2>1, <2>2 DEF Past
<1> QED
  BY <1>3, <1>4

LEMMA PastRead ==
  ASSUME TypeInv, NEW p \in Party, NEW q \in Party \ {p}, NEW k \in GateIndex, Past(p, q, k)
  PROVE  ValuesSlot(k) < ReadPos(p, q)
<1>1. /\ k \in Nat /\ k < NumGate /\ NumGate \in Nat /\ NumInput \in Nat
      /\ ValuesSlot(k) = NumInput + 3*k + 2 /\ wire[p] = NumInput
      /\ gate[p] \in 0 .. NumGate /\ OfferSlot(gate[p]) = NumInput + 3*gate[p]
      /\ GossipSlot = NumInput + 3*NumGate
      /\ peer[p] \in Int /\ q \in Int
  BY CircuitFacts, LoopVariables
     DEF GateIndex, ValuesSlot, OfferSlot, GossipSlot, Party, TypeInv, TypeOK, Past
<1>2. CASE pc[p] \in {"gather", "done"}
  BY <1>1, <1>2 DEF ReadPos
<1>3. CASE pc[p] \notin {"gather", "done"}
  <2>1. ReadPos(p, q) = NumInput + 3*gate[p] + (IF peer[p] < q THEN 0
                          ELSE IF peer[p] > q THEN 3
                          ELSE IF pc[p] = "run" THEN 0
                          ELSE IF pc[p] = "offered" THEN 1 ELSE 2)
    BY <1>1, <1>3 DEF ReadPos
  <2> QED
    BY <1>1, <2>1 DEF Past
<1> QED
  BY <1>2, <1>3

\* A receiver that is past a transfer has a sender that is.
LEMMA SenderPast ==
  ASSUME TypeInv, ChannelInv, NEW p \in Party, NEW q \in Party, q < p,
         NEW k \in GateIndex, IsAnd(k), Past(p, q, k)
  PROVE  Past(q, p, k)
<1>1. q # p
  BY CircuitFacts DEF Party
<1>2. ValuesSlot(k) \in Plan(q, p)
  BY PlanGate
<1> QED
  BY <1>1, <1>2, PastRead, ReadWasSent, PastSent

\* Who has read a share of an input wire has an owner that dealt it.
LEMMA OwnerPast ==
  ASSUME TypeInv, ChannelInv, NEW p \in Party, NEW w \in InputWire, w < wire[p]
  PROVE  w < wire[Owner[w]]
<1>1. PICK o \in Party : o = Owner[w]
  BY CircuitFacts
<1>2. CASE o = p
  BY <1>1, <1>2
<1>3. CASE o # p
  <2>1. /\ w \in Nat /\ w < NumInput /\ NumInput \in Nat
        /\ wire[p] \in 0 .. NumInput /\ wire[o] \in 0 .. NumInput
    BY CircuitFacts DEF InputWire, TypeInv, TypeOK
  <2>2. w \in Plan(o, p)
    BY <1>1, PlanShare
  <2>3. w < ReadPos(p, o)
    <3>1. PICK b \in Nat : b = OfferSlot(gate[p]) /\ NumInput <= b
      BY LoopVariables, SlotFacts
    <3> QED
      BY <2>1, <3>1, LoopVariables DEF ReadPos
  <2>4. w < SendPos(o, p)
    BY <1>3, <2>2, <2>3, ReadWasSent
  <2> QED
    BY <1>1, <2>1, <2>4 DEF SendPos
<1> QED
  BY <1>2, <1>3

-----------------------------------------------------------------------------
(***************************************************************************)
(* What a step may overwrite, and what it leaves alone.                    *)
(***************************************************************************)
LEMMA OneBit ==
  ASSUME NEW f \in [GateIndex -> [Party -> [Party -> Bit]]], NEW b,
         NEW k \in GateIndex, NEW p \in Party, NEW q \in Party,
         NEW j \in GateIndex, NEW r \in Party, NEW s \in Party,
         NEW e, e = [f EXCEPT ![k][p][q] = b], e[j][r][s] # f[j][r][s]
  PROVE  j = k /\ r = p /\ s = q
<1> DEFINE h == [f[k][p] EXCEPT ![q] = b]
           g == [f[k] EXCEPT ![p] = h]
<1>1. e = [f EXCEPT ![k] = g]
  OBVIOUS
<1>2. CASE j # k
  BY <1>1, <1>2
<1>3. CASE j = k
  <2>1. e[j] = g
    BY <1>1, <1>3
  <2>2. g[r] = IF r = p THEN h ELSE f[k][r]
    OBVIOUS
  <2>3. r = p /\ h[s] # f[k][p][s]
    BY <1>3, <2>1, <2>2
  <2> QED
    BY <1>3, <2>3
<1> QED
  BY <1>2, <1>3

LEMMA Overwritten ==
  ASSUME TypeInv, NEW r \in Party, Step(r)
  PROVE  /\ input' = input
         /\ \A p \in Party : \A w \in Wire : shares'[p][w] # shares[p][w] =>
              /\ p = r /\ pc[p] = "run"
              /\ \/ wire[p] < NumInput /\ w = wire[p]
                 \/ Evaluating(p) /\ w = Gates[gate[p]].output
         /\ \A k \in GateIndex : \A p, q \in Party : bit'[k][p][q] # bit[k][p][q] =>
              k = gate[r] /\ q = peer[r] /\ p = r
         /\ \A w \in InputWire : dealt'[w] # dealt[w] => Owner[w] = r /\ wire[r] = w
<1> USE DEF TypeInv, TypeOK
<1>1. CASE DealShares(r)
  <2>1. PICK x : /\ dealt' = [dealt EXCEPT ![wire[r]] = x]
                 /\ shares' = [shares EXCEPT ![r][wire[r]] = x[r]]
    BY <1>1 DEF DealShares
  <2> QED
    BY <1>1, <2>1 DEF DealShares, Sharing
<1>2. CASE ReceiveSecretShare(r)
  BY <1>2 DEF ReceiveSecretShare, Sharing
<1>3. CASE LocalGate(r)
  BY <1>3 DEF LocalGate
<1>4. CASE FinishAnd(r)
  BY <1>4 DEF FinishAnd, AtAnd
<1>5. CASE OTOffer(r)
  <2>1. PICK b : bit' = [bit EXCEPT ![gate[r]][r][peer[r]] = b]
    BY <1>5 DEF OTOffer
  <2>2. shares' = shares /\ dealt' = dealt /\ input' = input
    BY <1>5 DEF OTOffer
  <2>3. PICK k \in GateIndex, q \in Party : k = gate[r] /\ q = peer[r]
    BY <1>5, GateFacts DEF OTOffer, AtAnd
  <2>4. ASSUME NEW j \in GateIndex, NEW p \in Party, NEW s \in Party,
               bit'[j][p][s] # bit[j][p][s]
        PROVE  j = k /\ p = r /\ s = q
    <3>1. bit' = [bit EXCEPT ![k][r][q] = b]
      BY <2>1, <2>3
    <3>2. bit \in [GateIndex -> [Party -> [Party -> Bit]]]
      OBVIOUS
    <3> HIDE DEF TypeInv, TypeOK
    <3> QED
      BY <2>4, <3>1, <3>2, OneBit
  <2> QED
    BY <2>2, <2>3, <2>4
<1>6. CASE OTAnswer(r) \/ OTTransfer(r) \/ OTReceive(r)
  BY <1>6 DEF OTAnswer, OTTransfer, OTReceive
<1>7. CASE GossipSend(r) \/ GossipReceive(r) \/ FinalXor(r)
  BY <1>7 DEF GossipSend, GossipReceive, FinalXor
<1> QED
  BY <1>1, <1>2, <1>3, <1>4, <1>5, <1>6, <1>7 DEF Step

LEMMA SharesKept ==
  ASSUME TypeInv, NEW r \in Party, Step(r), NEW p \in Party
  PROVE  /\ \A w \in InputWire : w < wire[p] => shares'[p][w] = shares[p][w]
         /\ \A k \in GateIndex : k < gate[p] =>
              shares'[p][Gates[k].output] = shares[p][Gates[k].output]
         /\ \A k \in GateIndex : Reached(p, k) =>
              /\ Left(p, k)' = Left(p, k)
              /\ Gates[k].type # "NOT" => Right(p, k)' = Right(p, k)
         /\ pc[p] # "run" => shares'[p] = shares[p]
<1>0. /\ \A w \in InputWire : w \in Wire /\ w \in Int
      /\ \A k \in GateIndex : /\ Gates[k].output \in Wire /\ Gates[k].lhs \in Wire
                              /\ Gates[k].rhs \in Wire
      /\ wire[p] \in Int /\ NumInput \in Int
      /\ Evaluating(p) => gate[p] \in GateIndex /\ wire[p] = NumInput
      /\ wire[p] < NumInput => gate[p] = 0
      /\ \A k \in GateIndex : k \in Int /\ 0 =< k
  <2>1. /\ \A w \in InputWire : w \in Wire /\ w \in Int
        /\ NumInput \in Int /\ \A k \in GateIndex : k \in Int /\ 0 =< k
    BY CircuitFacts DEF InputWire, GateIndex
  <2>2. wire[p] \in Int /\ (wire[p] < NumInput => gate[p] = 0)
    BY LoopVariables DEF TypeInv, Control, ControlOf
  <2> QED
    BY <2>1, <2>2, CircuitFacts, GateFacts
<1>1. \A w \in Wire : shares'[p][w] # shares[p][w] =>
        /\ pc[p] = "run"
        /\ \/ wire[p] < NumInput /\ w = wire[p]
           \/ Evaluating(p) /\ w = Gates[gate[p]].output
  BY Overwritten
<1>2. ASSUME NEW w \in InputWire, w < wire[p] PROVE shares'[p][w] = shares[p][w]
  BY <1>0, <1>1, <1>2, WireFacts
<1>3. ASSUME NEW k \in GateIndex, k < gate[p]
      PROVE  shares'[p][Gates[k].output] = shares[p][Gates[k].output]
  BY <1>0, <1>1, <1>3, WireFacts
<1>4. ASSUME NEW k \in GateIndex, Reached(p, k)
      PROVE  /\ Left(p, k)' = Left(p, k)
             /\ Gates[k].type # "NOT" => Right(p, k)' = Right(p, k)
  BY <1>0, <1>1, <1>4, WireFacts DEF Reached, Left, Right
<1>5. ASSUME pc[p] # "run" PROVE shares'[p] = shares[p]
  <2>1. \A w \in Wire : shares'[p][w] = shares[p][w]
    BY <1>1, <1>5
  <2>2. shares[p] \in [Wire -> Bit] /\ shares'[p] \in [Wire -> Bit]
    <3>1. TypeInv'
      BY TypeNext DEF Next
    <3> QED
      BY <3>1 DEF TypeInv, TypeOK
  <2> QED
    BY <2>1, <2>2
<1> QED
  BY <1>2, <1>3, <1>4, <1>5

LEMMA ObtainedKept ==
  ASSUME TypeInv, ChannelInv, NEW r \in Party, Step(r),
         NEW p \in Party, NEW q \in Party \ {p}, NEW k \in GateIndex, IsAnd(k), Past(p, q, k)
  PROVE  Obtained(k, p, q)' = Obtained(k, p, q)
<1>1. /\ p \in Int /\ q \in Int /\ k \in Int /\ gate[p] \in Int /\ gate[q] \in Int
      /\ peer[p] \in Int /\ peer[q] \in Int
      /\ Gates[k].type # "NOT"
  BY CircuitFacts DEF Party, GateIndex, TypeInv, TypeOK, IsAnd
<1>2. CASE p < q
  <2>1. bit'[k][p][q] = bit[k][p][q]
    BY <1>1, Overwritten DEF Past
  <2> QED
    BY <1>2, <2>1 DEF Obtained
<1>3. CASE q < p
  <2>1. Past(q, p, k)
    BY <1>3, SenderPast
  <2>2. bit'[k][q][p] = bit[k][q][p]
    BY <1>1, <2>1, Overwritten DEF Past
  <2>3. Reached(p, k) /\ Reached(q, k)
    BY <1>1, <2>1 DEF Past, Reached
  <2>4. /\ Left(p, k)' = Left(p, k) /\ Right(p, k)' = Right(p, k)
        /\ Left(q, k)' = Left(q, k) /\ Right(q, k)' = Right(q, k)
    BY <1>1, <2>3, SharesKept
  <2>5. ~(p < q)
    BY <1>1, <1>3
  <2> QED
    BY <2>2, <2>4, <2>5 DEF Obtained
<1> QED
  BY <1>1, <1>2, <1>3

-----------------------------------------------------------------------------
(***************************************************************************)
(* The helpers of the loops over the parties and of one transfer.          *)
(***************************************************************************)
LEMMA FirstPeerParity ==
  ASSUME NEW p \in Party, NEW f, f[p] = 0
  PROVE  Parity(f, FirstPeer(p)) = 0
<1>1. FirstPeer(p) \in Nat /\ \A i \in 0 .. FirstPeer(p) - 1 : i = p
  BY CircuitFacts DEF Party, FirstPeer
<1> QED
  BY <1>1, ParityZero

LEMMA NextPeerParity ==
  ASSUME NEW p \in Party, NEW i \in Party \ {p}, NEW f, f[p] = 0, f[i] \in Bit
  PROVE  Parity(f, NextPeer(p, i)) = Xor(Parity(f, i), f[i])
<1>1. p \in Nat /\ i \in Nat
  BY CircuitFacts DEF Party
<1>2. Parity(f, i + 1) = Xor(Parity(f, i), f[i]) /\ Parity(f, i + 1) \in Bit
  BY <1>1, ParityStep
<1>3. CASE i + 1 = p
  <2>1. Parity(f, p + 1) = Xor(Parity(f, p), f[p])
    BY <1>1, ParityStep DEF Bit
  <2>2. Parity(f, p + 1) = Parity(f, p)
    BY <1>2, <1>3, <2>1 DEF Xor, Bit
  <2>3. NextPeer(p, i) = p + 1
    BY <1>1, <1>3 DEF NextPeer
  <2> QED
    BY <1>2, <1>3, <2>2, <2>3
<1>4. CASE i + 1 # p
  BY <1>2, <1>4 DEF NextPeer
<1> QED
  BY <1>3, <1>4

\* The two bits of one transfer add up to the two mixed products.
LEMMA TransferBits ==
  ASSUME NEW b \in Bit, NEW l \in Bit, NEW r \in Bit, NEW l2 \in Bit, NEW r2 \in Bit
  PROVE  /\ SenderChoices(b, l, r)[ChoiceBit(l2, r2)] \in Bit
         /\ Xor(b, SenderChoices(b, l, r)[ChoiceBit(l2, r2)]) = Xor(l * r2, r * l2)
<1>1. /\ SenderChoices(b, l, r)[0] = b /\ SenderChoices(b, l, r)[1] = Xor(b, r)
      /\ SenderChoices(b, l, r)[2] = Xor(b, l) /\ SenderChoices(b, l, r)[3] = Xor(Xor(b, l), r)
  BY DEF SenderChoices
<1>2. CASE l2 = 0 /\ r2 = 0
  BY <1>1, <1>2 DEF ChoiceBit, Xor, Bit
<1>3. CASE l2 = 1 /\ r2 = 0
  BY <1>1, <1>3 DEF ChoiceBit, Xor, Bit
<1>4. CASE l2 = 0 /\ r2 = 1
  BY <1>1, <1>4 DEF ChoiceBit, Xor, Bit
<1>5. CASE l2 = 1 /\ r2 = 1
  BY <1>1, <1>5 DEF ChoiceBit, Xor, Bit
<1> QED
  BY <1>2, <1>3, <1>4, <1>5 DEF Bit

LEMMA XorOverParity == ASSUME NEW f PROVE XorOver(f) = Parity(f, N)
  BY DEF XorOver, Parity, Party

\* A bit that is zero but for one party, and a bit that differs for one party.
LEMMA XorOverOne ==
  ASSUME NEW p \in Party, NEW f, f[p] \in Bit, \A q \in Party : q # p => f[q] = 0
  PROVE  XorOver(f) = f[p]
  BY CircuitFacts, XorOverParity, ParitySingle DEF Party

\* The bits of f and g are the same but for those of party p, which differ by b.
DifferAt(f, g, p, b) ==
  /\ b \in Bit
  /\ \A q \in Party : f[q] \in Bit /\ g[q] \in Bit
  /\ \A q \in Party : q # p => g[q] = f[q]
  /\ g[p] = Xor(f[p], b)

LEMMA XorOverChange ==
  ASSUME NEW p \in Party, NEW f, NEW g, NEW b, DifferAt(f, g, p, b)
  PROVE  XorOver(g) = Xor(XorOver(f), b)
<1>0. /\ b \in Bit /\ g[p] = Xor(f[p], b)
      /\ \A q \in Party : f[q] \in Bit /\ g[q] \in Bit /\ (q # p => g[q] = f[q])
  BY DEF DifferAt
<1> DEFINE d == [q \in Party |-> IF q = p THEN b ELSE 0]
<1>1. XorOver(d) = b
  <2>1. d[p] = b /\ \A q \in Party : q # p => d[q] = 0
    OBVIOUS
  <2> HIDE DEF d
  <2> QED
    BY <1>0, <2>1, XorOverOne
<1>2. \A q \in Party : f[q] \in Bit /\ d[q] \in Bit /\ g[q] = Xor(f[q], d[q])
  BY <1>0, XorBits DEF Bit
<1> HIDE DEF d
<1>3. Parity(g, N) = Xor(Parity(f, N), Parity(d, N))
  BY <1>2, CircuitFacts, ParityXor DEF Party
<1> QED
  BY <1>1, <1>3, XorOverParity

\* generate_shares returns shares of the target.
LEMMA SharesOfTarget ==
  ASSUME NEW p \in Party, NEW t \in Bit, NEW s \in GenerateShares(p, t)
  PROVE  s \in [Party -> Bit] /\ XorOver(s) = t
<1>1. PICK e : e = [s EXCEPT ![p] = 0]
  OBVIOUS
<1>2. s \in [Party -> Bit] /\ s[p] = Xor(XorOver(e), t)
  BY <1>1 DEF GenerateShares
<1>3. PICK a \in Bit : a = XorOver(e)
  BY XorOverType
<1>4. PICK b \in Bit : b = s[p]
  BY <1>2
<1>5. e[p] = 0 /\ \A q \in Party : e[q] \in Bit /\ (q # p => s[q] = e[q])
  BY <1>1, <1>2 DEF Bit
<1>6. b = Xor(0, b) /\ Xor(a, Xor(a, t)) = t /\ b = Xor(a, t)
  BY <1>2, <1>3, <1>4, XorBits DEF Xor, Bit
<1>7. DifferAt(e, s, p, b)
  BY <1>2, <1>4, <1>5, <1>6 DEF DifferAt
<1>8. XorOver(s) = Xor(XorOver(e), b)
  BY <1>7, XorOverChange
<1> QED
  BY <1>2, <1>3, <1>6, <1>8

LEMMA SharesFromTarget ==
  ASSUME NEW p \in Party, NEW t \in Bit, NEW s \in [Party -> Bit], XorOver(s) = t
  PROVE  s \in GenerateShares(p, t)
<1>1. PICK e : e = [s EXCEPT ![p] = 0]
  OBVIOUS
<1>2. PICK a \in Bit, b \in Bit : a = XorOver(e) /\ b = s[p]
  BY XorOverType
<1>3. e[p] = 0 /\ \A q \in Party : e[q] \in Bit /\ (q # p => s[q] = e[q])
  BY <1>1 DEF Bit
<1>4. b = Xor(0, b) /\ Xor(a, Xor(a, b)) = b
  BY <1>2, XorBits DEF Xor, Bit
<1>5. DifferAt(e, s, p, b)
  BY <1>2, <1>3, <1>4 DEF DifferAt
<1>6. t = Xor(a, b)
  BY <1>2, <1>5, XorOverChange
<1>7. s[p] = Xor(XorOver(e), t)
  BY <1>2, <1>4, <1>6
<1> QED
  BY <1>1, <1>7 DEF GenerateShares

\* For every owner p, value t and party r, whatever the others hold of a sharing can be
\* completed in exactly one way to one generate_shares returns: as the bits are uniform, all
\* shares but one say nothing of the value (share_driver.cxx, generate_shares).
THEOREM SharesHideTarget ==
  \A p, r \in Party : \A t \in Bit : \A f \in [Party -> Bit] :
    \E s \in GenerateShares(p, t) :
      /\ \A q \in Party \ {r} : s[q] = f[q]
      /\ \A u \in GenerateShares(p, t) : (\A q \in Party \ {r} : u[q] = f[q]) => u = s
<1> SUFFICES ASSUME NEW p \in Party, NEW r \in Party, NEW t \in Bit, NEW f \in [Party -> Bit]
             PROVE  \E s \in GenerateShares(p, t) :
                      /\ \A q \in Party \ {r} : s[q] = f[q]
                      /\ \A u \in GenerateShares(p, t) :
                           (\A q \in Party \ {r} : u[q] = f[q]) => u = s
  OBVIOUS
<1>1. PICK a \in Bit, b \in Bit, c \in Bit :
        a = XorOver(f) /\ b = Xor(a, t) /\ c = Xor(f[r], b) /\ Xor(a, b) = t
  BY XorOverType, XorType, XorBits
<1>2. PICK s \in [Party -> Bit] : s = [f EXCEPT ![r] = c]
  BY <1>1
<1>3. s[r] = c /\ \A q \in Party : s[q] \in Bit /\ f[q] \in Bit /\ (q # r => s[q] = f[q])
  BY <1>2
<1>4. XorOver(s) = t
  <2>1. DifferAt(f, s, r, b)
    BY <1>1, <1>3 DEF DifferAt
  <2> QED
    BY <1>1, <2>1, XorOverChange
<1>5. s \in GenerateShares(p, t)
  BY <1>4, SharesFromTarget
<1>6. ASSUME NEW u \in GenerateShares(p, t), \A q \in Party \ {r} : u[q] = f[q]
      PROVE  u = s
  <2>1. u \in [Party -> Bit] /\ XorOver(u) = t
    BY SharesOfTarget
  <2>2. \A q \in Party : s[q] \in Bit /\ u[q] \in Bit /\ (q # r => u[q] = s[q])
    BY <1>3, <1>6, <2>1
  <2>3. PICK x \in Bit : x = Xor(s[r], u[r]) /\ u[r] = Xor(s[r], x)
    <3>1. s[r] \in Bit /\ u[r] \in Bit
      BY <2>2
    <3> QED
      BY <3>1, XorBits
  <2>4. t = Xor(t, x)
    <3>1. DifferAt(s, u, r, x)
      BY <2>2, <2>3 DEF DifferAt
    <3>2. XorOver(u) = Xor(XorOver(s), x)
      BY <3>1, XorOverChange
    <3> QED
      BY <1>4, <2>1, <3>2
  <2>5. x = 0
    BY <2>4 DEF Xor, Bit
  <2>6. u[r] = s[r]
    <3>1. s[r] \in Bit
      BY <2>2
    <3> QED
      BY <2>3, <2>5, <3>1, XorBits
  <2>7. \A q \in Party : u[q] = s[q]
    BY <2>2, <2>6
  <2> QED
    BY <2>1, <2>7
<1> QED
  BY <1>3, <1>5, <1>6

LEMMA ObtainedType ==
  ASSUME TypeInv, NEW k \in GateIndex, NEW p \in Party, NEW q \in Party
  PROVE  Obtained(k, p, q) \in Bit
<1>1. /\ bit[k][p][q] \in Bit /\ bit[k][q][p] \in Bit
      /\ Left(p, k) \in Bit /\ Right(p, k) \in Bit /\ Left(q, k) \in Bit /\ Right(q, k) \in Bit
  BY TypeFacts
<1> QED
  BY <1>1, TransferBits DEF Obtained

-----------------------------------------------------------------------------
(***************************************************************************)
(* What messages hold stays true, and is true of new ones.                 *)
(***************************************************************************)
LEMMA MovesOfStep == ASSUME TypeInv, NEW r \in Party, Step(r) PROVE Moves(r)
  BY DealSharesMoves, ReceiveSecretShareMoves, LocalGateMoves, OTOfferMoves,
     OTAnswerMoves, OTTransferMoves, OTReceiveMoves, FinishAndMoves,
     GossipSendMoves, GossipReceiveMoves, FinalXorMoves DEF Step

\* Where the messages of a channel are in the plan.
LEMMA Underway ==
  ASSUME TypeInv, ChannelInv, NEW p \in Party, NEW q \in Party \ {p},
         NEW i \in 1 .. Len(chan[p][q])
  PROVE  /\ chan[p][q][i] \in Message /\ chan[p][q][i].slot \in Plan(p, q)
         /\ chan[p][q][i].slot < SendPos(p, q)
<1>1. PICK c \in Seq(Message) : c = chan[p][q]
  BY DEF TypeInv, TypeOK
<1>2. InOrder(Slots(c), ReadPos(q, p), SendPos(p, q), Plan(p, q))
  BY <1>1 DEF ChannelInv, Ordered
<1>3. Len(Slots(c)) = Len(c) /\ Slots(c)[i] = c[i].slot
  BY <1>1, SlotsType
<1>4. c[i] \in Message
  BY <1>1
<1> QED
  BY <1>1, <1>2, <1>3, <1>4 DEF InOrder

LEMMA DealtKept ==
  ASSUME TypeInv, ChannelInv, NEW r \in Party, Step(r),
         NEW p \in Party, NEW w \in InputWire, w < wire[p]
  PROVE  dealt'[w] = dealt[w]
<1>1. w < wire[Owner[w]]
  BY OwnerPast
<1>2. wire[r] \in Int /\ w \in Int
  BY LoopVariables, CircuitFacts DEF InputWire
<1> QED
  BY <1>1, <1>2, Overwritten

LEMMA ContentKept ==
  ASSUME TypeInv, ChannelInv, NEW r \in Party, Step(r),
         NEW p \in Party, NEW q \in Party \ {p}, NEW m \in Message,
         m.slot \in Plan(p, q), m.slot < SendPos(p, q), Content(p, q, m)
  PROVE  Content(p, q, m)'
<1>1. ASSUME NEW w \in InputWire, m = InitialShare(w, dealt[w][q])
      PROVE  Content(p, q, m)'
  <2>1. m.slot = w /\ w \in Nat /\ w < NumInput /\ NumInput \in Nat
    BY <1>1, CircuitFacts DEF InitialShare, ShareSlot, InputWire
  <2>2. Owner[w] = p
    BY <2>1, PlanShare
  <2>3. w < wire[p]
    BY <2>1, LoopVariables DEF SendPos
  <2>4. dealt'[w] = dealt[w]
    BY <2>3, DealtKept
  <2> QED
    BY <1>1, <2>4 DEF Content
<1>2. ASSUME NEW k \in GateIndex, m = SenderPublic(k) \/ m = ReceiverPublic(k)
      PROVE  Content(p, q, m)'
  BY <1>2 DEF Content
<1>3. ASSUME NEW k \in GateIndex, IsAnd(k),
             m = EncryptedValues(k, SenderChoices(bit[k][p][q], Left(p, k), Right(p, k)))
      PROVE  Content(p, q, m)'
  <2>1. m.slot = ValuesSlot(k)
    BY <1>3 DEF EncryptedValues
  <2>2. Past(p, q, k)
    BY <2>1, PastSent
  <2>3. /\ p \in Int /\ q \in Int /\ k \in Int /\ gate[p] \in Int /\ peer[p] \in Int
        /\ Gates[k].type # "NOT"
    BY <1>3, CircuitFacts DEF Party, GateIndex, TypeInv, TypeOK, IsAnd
  <2>4. bit'[k][p][q] = bit[k][p][q]
    BY <2>2, <2>3, Overwritten DEF Past
  <2>5. Reached(p, k)
    BY <2>2, <2>3 DEF Past, Reached
  <2>6. Left(p, k)' = Left(p, k) /\ Right(p, k)' = Right(p, k)
    BY <2>3, <2>5, SharesKept
  <2> QED
    BY <1>3, <2>4, <2>6 DEF Content
<1>4. ASSUME m = FinalGossip(OutputShare(p)) PROVE Content(p, q, m)'
  <2>1. m.slot = GossipSlot
    BY <1>4 DEF FinalGossip
  <2>2. pc[p] # "run"
    BY <2>1, PastGossip
  <2>3. shares'[p] = shares[p]
    BY <2>2, SharesKept
  <2>4. OutputShare(p)' = OutputShare(p)
    BY <2>3 DEF OutputShare
  <2> QED
    BY <1>4, <2>4 DEF Content
<1> QED
  BY <1>1, <1>2, <1>3, <1>4 DEF Content

\* What a step sends to q.
SentRight(r, q) ==
  \/ chan'[r][q] = chan[r][q]
  \/ \E m \in Message : chan'[r][q] = Append(chan[r][q], m) /\ Content(r, q, m)'

LEMMA TransferSent ==
  ASSUME TypeInv, NEW r \in Party, NEW q \in Party \ {r},
         OTOffer(r) \/ OTAnswer(r) \/ OTTransfer(r) \/ OTReceive(r)
  PROVE  SentRight(r, q)
<1>1. /\ gate[r] \in GateIndex /\ IsAnd(gate[r]) /\ peer[r] \in Party \ {r}
      /\ \A k \in GateIndex : SenderPublic(k) \in Message /\ ReceiverPublic(k) \in Message
      /\ chan \in [Party -> [Party -> Seq(Message)]]
  <2>1. ControlOf(r) /\ peer[r] \in 0 .. N /\ r \in 0 .. N-1
    BY DEF TypeInv, TypeOK, Control, Party
  <2>2. ASSUME OTOffer(r) \/ OTAnswer(r) PROVE AtAnd(r) /\ peer[r] \in Party
    <3>1. AtAnd(r) /\ (peer[r] \in Party \/ peer[r] < r)
      BY <2>2 DEF OTOffer, OTAnswer
    <3> QED
      BY <2>1, <3>1, CircuitFacts DEF Party
  <2>3. ASSUME OTTransfer(r) \/ OTReceive(r) PROVE AtAnd(r) /\ peer[r] \in Party
    BY <2>1, <2>3 DEF OTTransfer, OTReceive, ControlOf
  <2>4. AtAnd(r) /\ peer[r] \in Party /\ peer[r] # r
    BY <2>1, <2>2, <2>3 DEF ControlOf
  <2> QED
    BY <2>4, GateFacts, MessageType DEF AtAnd, IsAnd, TypeInv, TypeOK
<1>2. PICK k \in GateIndex, o \in Party \ {r} : k = gate[r] /\ o = peer[r] /\ IsAnd(k)
  BY <1>1
<1>3. CASE OTOffer(r)
  <2>1. chan' = [chan EXCEPT ![r][o] = Append(@, SenderPublic(k))]
    BY <1>2, <1>3 DEF OTOffer
  <2>2. Content(r, q, SenderPublic(k))'
    BY DEF Content
  <2> QED
    BY <1>1, <2>1, <2>2 DEF SentRight
<1>4. CASE OTAnswer(r)
  <2>1. chan' = [chan EXCEPT ![o][r] = Tail(@), ![r][o] = Append(@, ReceiverPublic(k))]
    BY <1>2, <1>4 DEF OTAnswer
  <2>2. Content(r, q, ReceiverPublic(k))'
    BY DEF Content
  <2> QED
    BY <1>1, <2>1, <2>2 DEF SentRight
<1>5. CASE OTTransfer(r)
  <2>1. PICK m : m = EncryptedValues(k, SenderChoices(bit[k][r][o], Left(r, k), Right(r, k)))
    OBVIOUS
  <2>2. /\ chan' = [chan EXCEPT ![o][r] = Tail(@), ![r][o] = Append(@, m)]
        /\ bit' = bit /\ shares' = shares
    BY <1>2, <1>5, <2>1 DEF OTTransfer
  <2>3. bit[k][r][o] \in Bit /\ Left(r, k) \in Bit /\ Right(r, k) \in Bit
    BY TypeFacts
  <2>4. m \in Message
    BY <2>1, <2>3, ChoicesType, MessageType
  <2>5. Content(r, o, m)'
    BY <1>2, <2>1, <2>2 DEF Content, Left, Right
  <2>6. CASE q = o
    <3>1. chan'[r][q] = Append(chan[r][q], m)
      BY <1>1, <2>2, <2>6
    <3> QED
      BY <2>4, <2>5, <2>6, <3>1 DEF SentRight
  <2>7. CASE q # o
    BY <1>1, <2>2, <2>7 DEF SentRight
  <2> QED
    BY <2>6, <2>7
<1>6. CASE OTReceive(r)
  <2>1. chan' = [chan EXCEPT ![o][r] = Tail(@)]
    BY <1>2, <1>6 DEF OTReceive
  <2> QED
    BY <1>1, <2>1 DEF SentRight
<1> QED
  BY <1>3, <1>4, <1>5, <1>6

LEMMA SentContent ==
  ASSUME TypeInv, NEW r \in Party, Step(r), NEW q \in Party \ {r}
  PROVE  SentRight(r, q)
<1>0. chan \in [Party -> [Party -> Seq(Message)]]
  BY DEF TypeInv, TypeOK
<1>1. CASE DealShares(r)
  <2>1. PICK w \in InputWire : w = wire[r]
    BY <1>1, LoopVariables DEF DealShares, Sharing, InputWire
  <2>2. PICK x \in GenerateShares(r, input[w]) :
          /\ dealt' = [dealt EXCEPT ![w] = x]
          /\ chan' = [chan EXCEPT ![r] = [p \in Party |->
               IF p = r THEN @[p] ELSE Append(@[p], InitialShare(w, x[p]))]]
    <3>1. PICK x \in GenerateShares(r, input[wire[r]]) :
            /\ dealt' = [dealt EXCEPT ![wire[r]] = x]
            /\ chan' = [chan EXCEPT ![r] = [p \in Party |->
                 IF p = r THEN @[p] ELSE Append(@[p], InitialShare(wire[r], x[p]))]]
      BY <1>1 DEF DealShares
    <3> QED
      BY <2>1, <3>1
  <2>3. PICK m : m = InitialShare(w, x[q])
    OBVIOUS
  <2>4. m \in Message
    BY <2>3, MessageType DEF GenerateShares
  <2>5. dealt'[w] = x
    BY <2>2 DEF TypeInv, TypeOK
  <2>6. Content(r, q, m)'
    BY <2>3, <2>5 DEF Content
  <2>7. chan'[r][q] = Append(chan[r][q], m)
    BY <1>0, <2>2, <2>3
  <2> QED
    BY <2>4, <2>6, <2>7 DEF SentRight
<1>2. CASE ReceiveSecretShare(r)
  <2>1. PICK o \in Party \ {r} : o = Owner[wire[r]]
    BY <1>2, LoopVariables, CircuitFacts DEF ReceiveSecretShare, Sharing, InputWire
  <2>2. chan' = [chan EXCEPT ![o][r] = Tail(@)]
    BY <1>2, <2>1 DEF ReceiveSecretShare
  <2> QED
    BY <1>0, <2>1, <2>2 DEF SentRight
<1>3. CASE LocalGate(r) \/ FinishAnd(r) \/ FinalXor(r)
  BY <1>3 DEF LocalGate, FinishAnd, FinalXor, SentRight
<1>4. CASE OTOffer(r) \/ OTAnswer(r) \/ OTTransfer(r) \/ OTReceive(r)
  BY <1>4, TransferSent
<1>5. CASE GossipSend(r)
  <2>1. PICK m \in Message : m = FinalGossip(OutputShare(r))
    BY MessageType, TypeFacts
  <2>2. /\ shares' = shares
        /\ chan' = [chan EXCEPT ![r] = [p \in Party |->
             IF p = r THEN @[p] ELSE Append(@[p], m)]]
    BY <1>5, <2>1 DEF GossipSend
  <2>3. Content(r, q, m)'
    BY <2>1, <2>2 DEF Content, OutputShare
  <2>4. chan'[r][q] = Append(chan[r][q], m)
    BY <1>0, <2>2
  <2> QED
    BY <2>3, <2>4 DEF SentRight
<1>6. CASE GossipReceive(r)
  <2>1. PICK o \in Party \ {r} : o = peer[r]
    BY <1>6 DEF GossipReceive, TypeInv, Control, ControlOf
  <2>2. chan' = [chan EXCEPT ![o][r] = Tail(@)]
    BY <1>6, <2>1 DEF GossipReceive
  <2> QED
    BY <1>0, <2>1, <2>2 DEF SentRight
<1> QED
  BY <1>1, <1>2, <1>3, <1>4, <1>5, <1>6 DEF Step

LEMMA ContentsNext ==
  ASSUME TypeInv, ChannelInv, Contents, NEW r \in Party, Step(r)
  PROVE  Contents'
<1> SUFFICES ASSUME NEW p \in Party, NEW q \in Party, p # q, NEW i \in 1 .. Len(chan'[p][q]),
                    NEW n, n = chan'[p][q][i]
             PROVE  Content(p, q, n)'
  BY DEF Contents
<1>1. PICK c \in Seq(Message) : c = chan[p][q]
  BY DEF TypeInv, TypeOK
<1>2. ASSUME NEW j \in 1 .. Len(c), n = c[j] PROVE Content(p, q, n)'
  <2>1. n \in Message /\ n.slot \in Plan(p, q) /\ n.slot < SendPos(p, q)
    BY <1>1, <1>2, Underway
  <2>2. Content(p, q, n)
    BY <1>1, <1>2 DEF Contents
  <2> QED
    BY <2>1, <2>2, ContentKept
<1>3. CASE chan'[p][q] = c
  BY <1>2, <1>3
<1>4. CASE c # <<>> /\ chan'[p][q] = Tail(c)
  <2>1. /\ Len(c) \in Nat /\ Len(Tail(c)) = Len(c) - 1
        /\ \A j \in 1 .. Len(Tail(c)) : Tail(c)[j] = c[j+1]
    BY <1>4, HeadTailProperties, LenProperties
  <2>2. i + 1 \in 1 .. Len(c) /\ n = c[i+1]
    BY <1>4, <2>1
  <2> QED
    BY <1>2, <2>2
<1>5. ASSUME NEW m \in Message, chan'[p][q] = Append(c, m), Content(p, q, m)'
      PROVE  Content(p, q, n)'
  <2>1. /\ Len(c) \in Nat /\ Len(Append(c, m)) = Len(c) + 1
        /\ Append(c, m)[Len(c) + 1] = m /\ \A j \in 1 .. Len(c) : Append(c, m)[j] = c[j]
    BY AppendProperties, LenProperties
  <2>2. CASE i \in 1 .. Len(c)
    BY <1>2, <1>5, <2>1, <2>2
  <2>3. CASE i = Len(c) + 1
    <3>1. n = m
      BY <1>5, <2>1, <2>3
    <3> QED
      BY <1>5, <3>1
  <2>4. i \in 1 .. Len(c) \/ i = Len(c) + 1
    BY <1>5, <2>1
  <2> QED
    BY <2>2, <2>3, <2>4
<1>6. CASE p = r
  <2>1. SentRight(r, q)
    BY <1>6, SentContent
  <2> QED
    BY <1>1, <1>3, <1>5, <1>6, <2>1 DEF SentRight
<1>7. CASE p # r /\ q = r
  BY <1>1, <1>3, <1>4, <1>7, MovesOfStep DEF Moves, Idle, Reads
<1>8. CASE p # r /\ q # r
  BY <1>1, <1>3, <1>8, MovesOfStep DEF Moves
<1> QED
  BY <1>6, <1>7, <1>8

-----------------------------------------------------------------------------
(***************************************************************************)
(* What a party finds at the head of the stream it reads from.             *)
(***************************************************************************)
LEMMA HeadContent ==
  ASSUME TypeInv, ChannelInv, Contents, NEW p \in Party, NEW q \in Party \ {p},
         NEW slot \in 0 .. GossipSlot, Reading(p, q, slot), chan[q][p] # <<>>
  PROVE  LET m == Head(chan[q][p]) IN m \in Message /\ m.slot = slot /\ Content(q, p, m)
<1>1. PICK c \in Seq(Message) : c = chan[q][p]
  BY DEF TypeInv, TypeOK
<1>2. c[1] = Head(c) /\ 1 \in 1 .. Len(c) /\ Head(c) \in Message
  BY <1>1, EmptySeq, LenProperties, ChannelRead
<1>3. Content(q, p, c[1])
  BY <1>1, <1>2 DEF Contents
<1>4. Head(c).slot = slot
  BY <1>1, InStep DEF LockStep
<1> QED
  BY <1>1, <1>2, <1>3, <1>4

LEMMA TypeField ==
  /\ \A w, x : InitialShare(w, x).type = "InitialShare" /\ InitialShare(w, x).slot = w
              /\ InitialShare(w, x).share_value = x
  /\ \A k : SenderPublic(k).type = "SenderToReceiver_OTPublicValue"
  /\ \A k : ReceiverPublic(k).type = "ReceiverToSender_OTPublicValue"
  /\ \A k, x : EncryptedValues(k, x).type = "SenderToReceiver_OTEncryptedValues"
              /\ EncryptedValues(k, x).slot = ValuesSlot(k)
              /\ EncryptedValues(k, x).encryptions = x
  /\ \A x : FinalGossip(x).type = "FinalGossip" /\ FinalGossip(x).bit_string = x
  BY DEF InitialShare, SenderPublic, ReceiverPublic, EncryptedValues, FinalGossip, ShareSlot

LEMMA ContentByType ==
  ASSUME NEW q \in Party, NEW p \in Party, NEW m, Content(q, p, m)
  PROVE  /\ m.type = "InitialShare" => \E w \in InputWire : m = InitialShare(w, dealt[w][p])
         /\ m.type = "SenderToReceiver_OTEncryptedValues" =>
              \E k \in GateIndex :
                m = EncryptedValues(k, SenderChoices(bit[k][q][p], Left(q, k), Right(q, k)))
         /\ m.type = "FinalGossip" => m = FinalGossip(OutputShare(q))
<1>1. ASSUME NEW k \in GateIndex, m = SenderPublic(k) \/ m = ReceiverPublic(k)
      PROVE  m.type \in {"SenderToReceiver_OTPublicValue", "ReceiverToSender_OTPublicValue"}
  BY <1>1, TypeField
<1>2. ASSUME NEW w \in InputWire, m = InitialShare(w, dealt[w][p])
      PROVE  m.type = "InitialShare"
  BY <1>2, TypeField
<1>3. ASSUME NEW k \in GateIndex,
             m = EncryptedValues(k, SenderChoices(bit[k][q][p], Left(q, k), Right(q, k)))
      PROVE  m.type = "SenderToReceiver_OTEncryptedValues"
  BY <1>3, TypeField
<1>4. ASSUME m = FinalGossip(OutputShare(q)) PROVE m.type = "FinalGossip"
  BY <1>4, TypeField
<1> QED
  BY <1>1, <1>2, <1>3, <1>4 DEF Content

LEMMA ShareAtHead ==
  ASSUME TypeInv, ChannelInv, Contents, NEW p \in Party, ReceiveSecretShare(p)
  PROVE  Head(chan[Owner[wire[p]]][p]).share_value = dealt[wire[p]][p]
<1>1. PICK w \in InputWire, o \in Party \ {p} : w = wire[p] /\ o = Owner[w]
  BY LoopVariables, CircuitFacts DEF ReceiveSecretShare, Sharing, InputWire
<1>2. Sharing(p) /\ chan[o][p] # <<>> /\ Head(chan[o][p]).type = "InitialShare"
  BY <1>1 DEF ReceiveSecretShare, CanRead
<1>3. w \in 0 .. GossipSlot /\ Reading(p, o, w)
  <2>1. w \in 0 .. GossipSlot
    BY CircuitFacts DEF InputWire, GossipSlot
  <2> QED
    BY <1>1, <1>2, <2>1 DEF Reading, ShareSlot
<1>4. PICK m : m = Head(chan[o][p]) /\ m.slot = w /\ Content(o, p, m)
  BY <1>2, <1>3, HeadContent
<1>5. PICK w2 \in InputWire : m = InitialShare(w2, dealt[w2][p])
  BY <1>2, <1>4, ContentByType
<1>6. w2 = w /\ m.share_value = dealt[w2][p]
  BY <1>4, <1>5, TypeField
<1> QED
  BY <1>1, <1>4, <1>6

LEMMA ValuesAtHead ==
  ASSUME TypeInv, ChannelInv, Contents, NEW p \in Party, OTReceive(p),
         NEW k \in GateIndex, k = gate[p], NEW q \in Party \ {p}, q = peer[p]
  PROVE  Head(chan[q][p]).encryptions = SenderChoices(bit[k][q][p], Left(q, k), Right(q, k))
<1>1. /\ pc[p] = "answered" /\ chan[q][p] # <<>>
      /\ Head(chan[q][p]).type = "SenderToReceiver_OTEncryptedValues"
  BY DEF OTReceive, CanRead
<1>2. ValuesSlot(k) \in 0 .. GossipSlot /\ Reading(p, q, ValuesSlot(k))
  BY <1>1, CircuitFacts DEF Reading, ValuesSlot, GossipSlot, GateIndex
<1>3. PICK m : m = Head(chan[q][p]) /\ m.slot = ValuesSlot(k) /\ Content(q, p, m)
  BY <1>1, <1>2, HeadContent
<1>4. PICK j \in GateIndex :
        m = EncryptedValues(j, SenderChoices(bit[j][q][p], Left(q, j), Right(q, j)))
  BY <1>1, <1>3, ContentByType
<1>5. /\ m.slot = ValuesSlot(j)
      /\ m.encryptions = SenderChoices(bit[j][q][p], Left(q, j), Right(q, j))
  BY <1>4, TypeField
<1>6. j = k
  BY <1>3, <1>5, CircuitFacts DEF ValuesSlot, GateIndex
<1> QED
  BY <1>3, <1>5, <1>6

LEMMA GossipAtHead ==
  ASSUME TypeInv, ChannelInv, Contents, NEW p \in Party, GossipReceive(p),
         NEW q \in Party \ {p}, q = peer[p]
  PROVE  Head(chan[q][p]).bit_string = OutputShare(q)
<1>1. /\ pc[p] = "gather" /\ chan[q][p] # <<>>
      /\ Head(chan[q][p]).type = "FinalGossip"
  BY DEF GossipReceive, CanRead
<1>2. GossipSlot \in 0 .. GossipSlot /\ Reading(p, q, GossipSlot)
  BY <1>1, SlotFacts DEF Reading
<1>3. PICK m : m = Head(chan[q][p]) /\ Content(q, p, m)
  BY <1>1, <1>2, HeadContent
<1>4. m = FinalGossip(OutputShare(q))
  BY <1>1, <1>3, ContentByType
<1> QED
  BY <1>3, <1>4, TypeField

-----------------------------------------------------------------------------
(***************************************************************************)
(* Every part of the invariant is kept by every step.                      *)
(***************************************************************************)
LEMMA Unmoved ==
  ASSUME TypeInv, NEW r \in Party, Step(r), NEW p \in Party \ {r}
  PROVE  /\ pc'[p] = pc[p] /\ wire'[p] = wire[p] /\ gate'[p] = gate[p] /\ peer'[p] = peer[p]
         /\ acc'[p] = acc[p] /\ gathered'[p] = gathered[p]
<1>1. acc \in [Party -> Nat] /\ gathered \in [Party -> [Party -> Outputs]]
  BY DEF TypeInv, TypeOK
<1>2. CASE DealShares(r) \/ ReceiveSecretShare(r) \/ LocalGate(r) \/ OTOffer(r) \/ OTAnswer(r)
  BY <1>2, MovesOfStep
     DEF Moves, DealShares, ReceiveSecretShare, LocalGate, OTOffer, OTAnswer
<1>3. CASE OTTransfer(r) \/ OTReceive(r)
  <2>1. (\E x : acc' = [acc EXCEPT ![r] = x]) /\ gathered' = gathered
    BY <1>3 DEF OTTransfer, OTReceive, Accumulate
  <2> QED
    BY <1>1, <2>1, MovesOfStep DEF Moves
<1>4. CASE FinishAnd(r) \/ FinalXor(r)
  BY <1>1, <1>4, MovesOfStep DEF Moves, FinishAnd, FinalXor
<1>5. CASE GossipSend(r) \/ GossipReceive(r)
  <2>1. (\E q, x : gathered' = [gathered EXCEPT ![r][q] = x]) /\ acc' = acc
    BY <1>5 DEF GossipSend, GossipReceive
  <2> QED
    BY <1>1, <2>1, MovesOfStep DEF Moves
<1> QED
  BY <1>2, <1>3, <1>4, <1>5 DEF Step

LEMMA DealtRightNext ==
  ASSUME TypeInv, ChannelInv, DealtRight, NEW r \in Party, Step(r)
  PROVE  DealtRight'
<1> SUFFICES ASSUME NEW w \in InputWire, NEW o \in Party, o = Owner[w], w < wire'[o]
             PROVE  XorOver(dealt'[w]) = input'[w]
  BY CircuitFacts DEF DealtRight
<1>1. input' = input
  BY Overwritten
<1>2. w \in Nat /\ wire[o] \in Nat /\ wire[o] <= NumInput /\ NumInput \in Nat /\ w < NumInput
  BY LoopVariables, CircuitFacts DEF InputWire
<1>3. CASE w < wire[o]
  <2>1. dealt'[w] = dealt[w]
    BY <1>3, DealtKept
  <2> QED
    BY <1>1, <1>3, <2>1 DEF DealtRight
<1>4. CASE ~(w < wire[o])
  <2>1. o = r /\ wire'[r] # wire[r]
    BY <1>2, <1>4, Unmoved
  <2>2. DealShares(r) \/ ReceiveSecretShare(r)
    BY <2>1 DEF Step, LocalGate, OTOffer, OTAnswer, OTTransfer, OTReceive, FinishAnd,
                GossipSend, GossipReceive, FinalXor
  <2>3. wire' = [wire EXCEPT ![r] = wire[r] + 1]
    BY <2>2 DEF DealShares, ReceiveSecretShare
  <2>4. w = wire[r]
    BY <1>2, <1>4, <2>1, <2>3 DEF TypeInv, TypeOK
  <2>5. DealShares(r)
    BY <2>1, <2>2, <2>4 DEF ReceiveSecretShare
  <2>6. PICK s \in GenerateShares(r, input[w]) : dealt' = [dealt EXCEPT ![w] = s]
    BY <2>4, <2>5 DEF DealShares
  <2>7. dealt'[w] = s
    BY <2>6 DEF TypeInv, TypeOK
  <2>8. input[w] \in Bit
    BY DEF TypeInv, TypeOK, Inputs
  <2> QED
    BY <1>1, <2>6, <2>7, <2>8, SharesOfTarget
<1> QED
  BY <1>3, <1>4

LEMMA InputSharesNext ==
  ASSUME TypeInv, ChannelInv, Contents, NEW r \in Party, Step(r),
         NEW p \in Party, InputShares(p)
  PROVE  InputShares(p)'
<1> SUFFICES ASSUME NEW w \in InputWire, w < wire'[p]
             PROVE  shares'[p][w] = dealt'[w][p]
  BY DEF InputShares
<1>1. CASE w < wire[p]
  <2>1. dealt'[w] = dealt[w] /\ shares'[p][w] = shares[p][w]
    BY <1>1, DealtKept, SharesKept
  <2> QED
    BY <1>1, <2>1 DEF InputShares
<1>2. CASE ~(w < wire[p])
  <2>0. /\ w \in Nat /\ wire[p] \in Nat /\ wire[p] <= NumInput /\ NumInput \in Nat
        /\ w < NumInput /\ w \in Wire
    BY LoopVariables, CircuitFacts DEF InputWire
  <2>1. p = r /\ wire'[r] # wire[r]
    BY <1>2, <2>0, Unmoved
  <2>2. DealShares(r) \/ ReceiveSecretShare(r)
    BY <2>1 DEF Step, LocalGate, OTOffer, OTAnswer, OTTransfer, OTReceive, FinishAnd,
                GossipSend, GossipReceive, FinalXor
  <2>3. wire' = [wire EXCEPT ![r] = wire[r] + 1]
    BY <2>2 DEF DealShares, ReceiveSecretShare
  <2>4. w = wire[r]
    BY <1>2, <2>0, <2>1, <2>3 DEF TypeInv, TypeOK
  <2>5. CASE DealShares(r)
    <3>1. PICK s : /\ dealt' = [dealt EXCEPT ![w] = s]
                   /\ shares' = [shares EXCEPT ![r][w] = s[r]]
      BY <2>4, <2>5 DEF DealShares
    <3> QED
      BY <2>0, <2>1, <3>1 DEF TypeInv, TypeOK
  <2>6. CASE ReceiveSecretShare(r)
    <3>1. /\ shares' = [shares EXCEPT ![r][w] = Head(chan[Owner[w]][r]).share_value]
          /\ dealt' = dealt
      BY <2>4, <2>6 DEF ReceiveSecretShare
    <3>2. Head(chan[Owner[w]][r]).share_value = dealt[w][r]
      BY <2>4, <2>6, ShareAtHead
    <3> QED
      BY <2>0, <2>1, <3>1, <3>2 DEF TypeInv, TypeOK
  <2> QED
    BY <2>2, <2>5, <2>6
<1> QED
  BY <1>1, <1>2

LEMMA GatheredNext ==
  ASSUME TypeInv, TypeInv', ChannelInv, Contents, NEW r \in Party, Step(r),
         NEW p \in Party, GatheredOf(p)
  PROVE  GatheredOf(p)'
<1> SUFFICES ASSUME pc'[p] \in {"gather", "done"}, NEW q \in Party, q = p \/ q < peer'[p]
             PROVE  gathered'[p][q] = OutputShare(q)'
  BY DEF GatheredOf
<1>0. gathered \in [Party -> [Party -> Outputs]]
  BY DEF TypeInv, TypeOK
<1>1. ASSUME pc[p] \in {"gather", "done"}, q = p \/ q < peer[p]
      PROVE  OutputShare(q)' = OutputShare(q) /\ gathered[p][q] = OutputShare(q)
  <2>1. CASE q = p
    BY <1>1, <2>1, SharesKept DEF GatheredOf, OutputShare
  <2>2. CASE q # p
    <3>1. wire[p] = NumInput /\ peer[p] \in Int /\ q \in Int /\ GossipSlot \in Nat
      BY <1>1, LoopVariables DEF TypeInv, Control, ControlOf
    <3>2. GossipSlot < ReadPos(p, q)
      <4>1. q < peer[p] /\ ReadPos(p, q) = GossipSlot + (IF peer[p] > q THEN 1 ELSE 0)
        BY <1>1, <2>2, <3>1, LoopVariables DEF ReadPos
      <4> QED
        BY <3>1, <4>1
    <3>3. GossipSlot < SendPos(q, p)
      BY <2>2, <3>2, PlanGossip, ReadWasSent
    <3>4. pc[q] # "run"
      BY <2>2, <3>3, PastGossip
    <3> QED
      BY <1>1, <3>4, SharesKept DEF GatheredOf, OutputShare
  <2> QED
    BY <2>1, <2>2
<1>2. CASE p # r
  BY <1>1, <1>2, Unmoved
<1>3. CASE p = r /\ GossipSend(r)
  <2>1. /\ gathered' = [gathered EXCEPT ![p][p] = OutputShare(p)]
        /\ peer' = peer /\ shares' = shares
    BY <1>3 DEF GossipSend
  <2>2. peer[p] = FirstPeer(p)
    BY <1>3, CircuitFacts DEF GossipSend, AtAnd, Evaluating, TypeInv, Control, ControlOf
  <2>3. q = p
    BY <2>1, <2>2, CircuitFacts DEF FirstPeer, Party
  <2> QED
    BY <1>0, <2>1, <2>3 DEF OutputShare
<1>4. CASE p = r /\ GossipReceive(r)
  <2>1. PICK o \in Party \ {p} : o = peer[p]
    BY <1>4 DEF GossipReceive, TypeInv, Control, ControlOf
  <2>2. /\ gathered' = [gathered EXCEPT ![p][o] = Head(chan[o][p]).bit_string]
        /\ peer' = [peer EXCEPT ![p] = NextPeer(p, o)]
        /\ shares' = shares /\ pc[p] = "gather"
    BY <1>4, <2>1 DEF GossipReceive, TypeInv, TypeOK
  <2>3. Head(chan[o][p]).bit_string = OutputShare(o)
    BY <1>4, <2>1, GossipAtHead
  <2>4. CASE q = o
    BY <1>0, <2>2, <2>3, <2>4 DEF OutputShare
  <2>5. CASE q # o
    <3>1. peer'[p] = NextPeer(p, o)
      BY <2>2 DEF TypeInv, TypeOK
    <3>2. q = p \/ q < o
      BY <2>1, <2>5, <3>1, CircuitFacts DEF NextPeer, Party
    <3>3. gathered'[p][q] = gathered[p][q]
      BY <1>0, <2>2, <2>5
    <3> QED
      BY <1>1, <2>1, <2>2, <3>2, <3>3
  <2> QED
    BY <2>4, <2>5
<1>5. CASE p = r /\ FinalXor(r)
  <2>1. gathered' = gathered /\ peer' = peer /\ pc[p] = "gather"
    BY <1>5 DEF FinalXor
  <2> QED
    BY <1>1, <2>1
<1>6. pc[r] \notin {"gather", "done"} /\ p = r => GossipSend(r)
  BY DEF Step, DealShares, ReceiveSecretShare, LocalGate, OTOffer, OTAnswer, OTTransfer,
         OTReceive, FinishAnd, GossipReceive, FinalXor, Accumulate, TypeInv, TypeOK
<1>7. pc[r] \in {"gather", "done"} => GossipReceive(r) \/ FinalXor(r)
  BY DEF Step, DealShares, ReceiveSecretShare, LocalGate, OTOffer, OTAnswer, OTTransfer,
         OTReceive, FinishAnd, GossipSend, GossipReceive, FinalXor, Sharing
<1> QED
  BY <1>2, <1>3, <1>4, <1>5, <1>6, <1>7

\* The share of a gate is settled once the transfers it takes are over.
LEMMA GateShareKept ==
  ASSUME TypeInv, ChannelInv, NEW r \in Party, Step(r),
         NEW p \in Party, NEW k \in GateIndex, Reached(p, k),
         IsAnd(k) => \A q \in Party \ {p} : Past(p, q, k)
  PROVE  GateShare(p, k)' = GateShare(p, k)
<1>1. /\ Left(p, k)' = Left(p, k)
      /\ Gates[k].type # "NOT" => Right(p, k)' = Right(p, k)
  BY SharesKept
<1>2. CASE IsAnd(k)
  <2>1. \A q \in Party \ {p} : Obtained(k, p, q)' = Obtained(k, p, q)
    BY <1>2, ObtainedKept
  <2>2. Products(k, p)' = Products(k, p)
    BY <1>1, <1>2, <2>1 DEF Products, IsAnd
  <2>3. XorOver(Products(k, p))' = XorOver(Products(k, p))
    BY <2>2 DEF XorOver
  <2> QED
    BY <1>2, <2>3 DEF GateShare, IsAnd
<1>3. CASE ~IsAnd(k)
  <2>1. LocalShare(p, k)' = LocalShare(p, k)
    BY <1>1 DEF LocalShare
  <2> QED
    BY <1>3, <2>1 DEF GateShare, IsAnd
<1> QED
  BY <1>2, <1>3

LEMMA ModXor ==
  ASSUME NEW a \in Nat, NEW x \in Bit
  PROVE  (a + x) % 2 = Xor(a % 2, x)
<1>1. PICK m \in 0 .. 1 : m = a % 2
  OBVIOUS
<1>2. CASE x = 0
  BY <1>1, <1>2 DEF Xor
<1>3. CASE x = 1
  BY <1>1, <1>3 DEF Xor
<1> QED
  BY <1>2, <1>3 DEF Bit

\* The accumulated bits with the local product are the share of an AND gate.
LEMMA AndShareRight ==
  ASSUME TypeInv, NEW p \in Party, Accumulated(p), AtAnd(p), peer[p] = N,
         NEW k \in GateIndex, k = gate[p]
  PROVE  AndShare(p, k) = XorOver(Products(k, p))
<1> DEFINE f == FromPeers(k, p)
           g == Products(k, p)
<1>1. PICK x \in Bit, a \in Nat : x = Left(p, k) * Right(p, k) /\ a = acc[p]
  BY TypeFacts, XorBits
<1>2. \A q \in Party : f[q] \in Bit /\ g[q] \in Bit
  BY <1>1, ObtainedType DEF FromPeers, Products, Bit
<1>3. \A q \in Party : q # p => g[q] = f[q]
  BY DEF FromPeers, Products
<1>4. f[p] = 0 /\ g[p] = x
  BY <1>1 DEF FromPeers, Products
<1>5. a % 2 = XorOver(f)
  BY <1>1, XorOverParity DEF Accumulated
<1>6. x = Xor(0, x)
  BY DEF Xor, Bit
<1> HIDE DEF f, g
<1>7. DifferAt(f, g, p, x)
  BY <1>2, <1>3, <1>4, <1>6 DEF DifferAt
<1>8. XorOver(g) = Xor(XorOver(f), x)
  BY <1>7, XorOverChange
<1>9. AndShare(p, k) = (a + x) % 2
  BY <1>1 DEF AndShare
<1> QED
  BY <1>5, <1>8, <1>9, ModXor DEF g

LEMMA GateSharesNext ==
  ASSUME TypeInv, ChannelInv, NEW r \in Party, Step(r),
         NEW p \in Party, GateShares(p), Accumulated(p)
  PROVE  GateShares(p)'
<1> SUFFICES ASSUME NEW k \in GateIndex, k < gate'[p]
             PROVE  shares'[p][Gates[k].output] = GateShare(p, k)'
  BY DEF GateShares
<1>0. /\ k \in Int /\ gate[p] \in Nat /\ wire[p] <= NumInput /\ wire[p] \in Nat /\ NumInput \in Nat
      /\ (wire[p] < NumInput => gate[p] = 0) /\ 0 =< k
      /\ Gates[k].output \in Wire
  BY LoopVariables, CircuitFacts DEF GateIndex, TypeInv, Control, ControlOf
<1>1. CASE k < gate[p]
  <2>1. Reached(p, k) /\ \A q \in Party : Past(p, q, k)
    BY <1>0, <1>1 DEF Reached, Past
  <2> QED
    BY <1>1, <2>1, GateShareKept, SharesKept DEF GateShares
<1>2. CASE ~(k < gate[p])
  <2>1. p = r /\ gate'[r] # gate[r]
    BY <1>0, <1>2, Unmoved
  <2>2. LocalGate(r) \/ FinishAnd(r)
    BY <2>1 DEF Step, DealShares, ReceiveSecretShare, OTOffer, OTAnswer, OTTransfer, OTReceive,
                GossipSend, GossipReceive, FinalXor
  <2>3. gate' = [gate EXCEPT ![r] = gate[r] + 1] /\ Evaluating(r) /\ pc[r] = "run"
    BY <2>2 DEF LocalGate, FinishAnd, AtAnd
  <2>4. k = gate[r]
    BY <1>0, <1>2, <2>1, <2>3 DEF TypeInv, TypeOK
  <2>5. Reached(p, k)
    BY <1>0, <2>1, <2>3, <2>4 DEF Reached, Evaluating
  <2>6. CASE LocalGate(r)
    <3>1. /\ shares' = [shares EXCEPT ![p][Gates[k].output] = LocalShare(p, k)]
          /\ ~IsAnd(k)
      BY <2>1, <2>4, <2>6 DEF LocalGate, IsAnd
    <3>2. shares'[p][Gates[k].output] = GateShare(p, k)
      BY <1>0, <3>1 DEF GateShare, TypeInv, TypeOK
    <3> QED
      BY <2>5, <3>1, <3>2, GateShareKept
  <2>7. CASE FinishAnd(r)
    <3>1. /\ shares' = [shares EXCEPT ![p][Gates[k].output] = AndShare(p, k)]
          /\ IsAnd(k) /\ AtAnd(p) /\ peer[p] = N
      BY <2>1, <2>4, <2>7 DEF FinishAnd, AtAnd, IsAnd
    <3>2. shares'[p][Gates[k].output] = GateShare(p, k)
      BY <1>0, <2>1, <2>4, <3>1, AndShareRight DEF GateShare, TypeInv, TypeOK
    <3>3. \A q \in Party : Past(p, q, k)
      BY <2>1, <2>4, <2>5, <3>1, CircuitFacts DEF Past, Reached, Party
    <3> QED
      BY <2>5, <3>2, <3>3, GateShareKept
  <2> QED
    BY <2>2, <2>6, <2>7
<1> QED
  BY <1>1, <1>2

\* The bits p has added up do not change any more.
LEMMA PrefixKept ==
  ASSUME TypeInv, ChannelInv, NEW r \in Party, Step(r), NEW p \in Party, AtAnd(p),
         NEW k \in GateIndex, k = gate[p], NEW n \in Nat, n = peer[p]
  PROVE  Parity(FromPeers(k, p), n)' = Parity(FromPeers(k, p), n)
<1>1. wire[p] = NumInput /\ IsAnd(k) /\ n <= N
  BY DEF AtAnd, Evaluating, IsAnd, TypeInv, TypeOK
<1>2. ASSUME NEW i \in 0 .. n-1 PROVE FromPeers(k, p)'[i] = FromPeers(k, p)[i]
  <2>1. i \in Party
    BY <1>1, CircuitFacts DEF Party
  <2>2. CASE i = p
    BY <2>1, <2>2 DEF FromPeers
  <2>3. CASE i # p
    <3>1. Past(p, i, k)
      BY <1>1 DEF Past
    <3>2. Obtained(k, p, i)' = Obtained(k, p, i)
      BY <1>1, <2>1, <2>3, <3>1, ObtainedKept
    <3> QED
      BY <2>1, <2>3, <3>2 DEF FromPeers
  <2> QED
    BY <2>2, <2>3
<1>3. Parity(FromPeers(k, p)', n) = Parity(FromPeers(k, p), n)
  BY <1>2, ParitySame
<1> QED
  BY <1>3 DEF Parity

LEMMA AccumulatedFresh ==
  ASSUME NEW p \in Party, acc'[p] = 0, peer'[p] = FirstPeer(p)
  PROVE  Accumulated(p)'
<1>1. PICK k : k = gate'[p]
  OBVIOUS
<1>2. FromPeers(k, p)'[p] = 0
  BY DEF FromPeers
<1>3. Parity(FromPeers(k, p)', FirstPeer(p)) = 0
  BY <1>2, FirstPeerParity
<1>4. Parity(FromPeers(gate[p], p), peer[p])' = 0
  BY <1>1, <1>3 DEF Parity
<1> QED
  BY <1>4 DEF Accumulated

LEMMA AccumulatedStays ==
  ASSUME TypeInv, ChannelInv, NEW r \in Party, Step(r), NEW p \in Party, Accumulated(p),
         wire'[p] = wire[p], gate'[p] = gate[p], acc'[p] = acc[p],
         AtAnd(p) => peer'[p] = peer[p]
  PROVE  Accumulated(p)'
<1>1. AtAnd(p)' <=> AtAnd(p)
  BY DEF AtAnd, Evaluating
<1>2. CASE AtAnd(p)
  <2>1. PICK k \in GateIndex, n \in Nat : k = gate[p] /\ n = peer[p]
    BY <1>2, GateFacts, CircuitFacts, TypeFacts DEF AtAnd
  <2>2. Parity(FromPeers(k, p), n)' = Parity(FromPeers(k, p), n)
    BY <1>2, <2>1, PrefixKept
  <2>3. Parity(FromPeers(gate[p], p), peer[p])' = Parity(FromPeers(k, p), n)'
    BY <1>2, <2>1
  <2> QED
    BY <1>1, <1>2, <2>1, <2>2, <2>3 DEF Accumulated
<1>3. CASE ~AtAnd(p)
  BY <1>1, <1>3 DEF Accumulated
<1> QED
  BY <1>2, <1>3

\* One more transfer is over.
LEMMA AccumulatedOne ==
  ASSUME TypeInv, NEW p \in Party, Accumulated(p), AtAnd(p),
         NEW k \in GateIndex, k = gate[p], NEW q \in Party \ {p}, q = peer[p],
         NEW x, x = Obtained(k, p, q), shares' = shares, bit' = bit,
         gate' = gate, wire' = wire, acc'[p] = acc[p] + x, peer'[p] = NextPeer(p, q)
  PROVE  Accumulated(p)'
<1> DEFINE f == FromPeers(k, p)
<1>1. x \in Bit
  BY ObtainedType
<1>2. f[p] = 0 /\ f[q] = x
  BY DEF FromPeers
<1>3. f' = f
  BY DEF FromPeers, Obtained, Left, Right
<1>4. acc[p] % 2 = Parity(f, q)
  BY DEF Accumulated
<1>5. Parity(FromPeers(gate[p], p), peer[p])' = Parity(f, NextPeer(p, q))
  BY <1>3 DEF Parity
<1> HIDE DEF f
<1>6. Parity(f, NextPeer(p, q)) = Xor(Parity(f, q), x)
  BY <1>1, <1>2, NextPeerParity
<1>7. (acc[p] + x) % 2 = Xor(acc[p] % 2, x)
  BY <1>1, ModXor DEF TypeInv, TypeOK
<1>8. AtAnd(p)'
  BY DEF AtAnd, Evaluating
<1> QED
  BY <1>4, <1>5, <1>6, <1>7, <1>8 DEF Accumulated

LEMMA AccumulatedNext ==
  ASSUME TypeInv, ChannelInv, Contents, NEW r \in Party, Step(r),
         NEW p \in Party, Accumulated(p)
  PROVE  Accumulated(p)'
<1> USE DEF TypeInv, TypeOK
<1>1. CASE p # r
  <2> HIDE DEF TypeInv, TypeOK
  <2> QED
    BY <1>1, Unmoved, AccumulatedStays
<1>2. CASE p = r /\ (DealShares(r) \/ ReceiveSecretShare(r) \/ LocalGate(r))
  <2>1. acc' = acc /\ peer' = peer /\ ~AtAnd(p) /\ pc[p] = "run"
    BY <1>2, CircuitFacts
       DEF DealShares, ReceiveSecretShare, LocalGate, Sharing, AtAnd, Evaluating
  <2>2. acc'[p] = 0 /\ peer'[p] = FirstPeer(p)
    BY <2>1 DEF Accumulated, Control, ControlOf
  <2> QED
    BY <2>2, AccumulatedFresh
<1>3. CASE p = r /\ FinishAnd(r)
  <2>1. acc'[p] = 0 /\ peer'[p] = FirstPeer(p)
    BY <1>3 DEF FinishAnd
  <2> QED
    BY <2>1, AccumulatedFresh
<1>4. CASE p = r /\ (OTOffer(r) \/ OTAnswer(r) \/ GossipSend(r) \/ FinalXor(r))
  <2>1. wire' = wire /\ gate' = gate /\ acc' = acc /\ peer' = peer
    BY <1>4 DEF OTOffer, OTAnswer, GossipSend, FinalXor
  <2> HIDE DEF TypeInv, TypeOK
  <2> QED
    BY <2>1, AccumulatedStays
<1>5. CASE p = r /\ GossipReceive(r)
  <2>1. wire' = wire /\ gate' = gate /\ acc' = acc /\ ~AtAnd(p)
    BY <1>5, CircuitFacts DEF GossipReceive, AtAnd, Evaluating, Control, ControlOf
  <2> HIDE DEF TypeInv, TypeOK
  <2> QED
    BY <2>1, AccumulatedStays
<1>6. CASE p = r /\ (OTTransfer(r) \/ OTReceive(r))
  <2>1. /\ AtAnd(p) /\ peer[p] \in Party \ {p} /\ gate[p] \in GateIndex
        /\ (OTTransfer(r) => p < peer[p]) /\ (OTReceive(r) => peer[p] < p)
    <3>1. /\ AtAnd(p) /\ peer[p] \in Party \ {p}
          /\ (OTTransfer(r) => p < peer[p]) /\ (OTReceive(r) => peer[p] < p)
      BY <1>6 DEF OTTransfer, OTReceive, Control, ControlOf
    <3> HIDE DEF TypeInv, TypeOK
    <3> QED
      BY <3>1, GateFacts DEF AtAnd
  <2>2. PICK k \in GateIndex, q \in Party \ {p} : k = gate[p] /\ q = peer[p]
    BY <2>1
  <2>3. /\ shares' = shares /\ bit' = bit /\ gate' = gate /\ wire' = wire
        /\ peer' = [peer EXCEPT ![p] = NextPeer(p, q)]
    BY <1>6, <2>2 DEF OTTransfer, OTReceive, Accumulate
  <2>4. acc' = [acc EXCEPT ![p] = acc[p] + Obtained(k, p, q)]
    <3>1. CASE OTTransfer(r)
      BY <1>6, <2>1, <2>2, <3>1 DEF OTTransfer, Accumulate, Obtained
    <3>2. CASE OTReceive(r)
      <4>1. ~(p < q)
        BY <2>1, <2>2, <3>2, CircuitFacts DEF Party
      <4>2. Head(chan[q][p]).encryptions = SenderChoices(bit[k][q][p], Left(q, k), Right(q, k))
        <5> HIDE DEF TypeInv, TypeOK
        <5> QED
          BY <1>6, <2>2, <3>2, ValuesAtHead
      <4> QED
        BY <1>6, <2>2, <3>2, <4>1, <4>2 DEF OTReceive, Accumulate, Obtained
    <3> QED
      BY <1>6, <3>1, <3>2
  <2>5. acc'[p] = acc[p] + Obtained(k, p, q) /\ peer'[p] = NextPeer(p, q)
    BY <2>3, <2>4
  <2> HIDE DEF TypeInv, TypeOK
  <2> QED
    BY <2>1, <2>2, <2>3, <2>5, AccumulatedOne
<1> QED
  BY <1>1, <1>2, <1>3, <1>4, <1>5, <1>6 DEF Step

-----------------------------------------------------------------------------
LEMMA ShareInit == Init => ShareInv
<1> SUFFICES ASSUME Init PROVE ShareInv
  OBVIOUS
<1>1. ASSUME NEW p \in Party
      PROVE  /\ wire[p] = 0 /\ gate[p] = 0 /\ acc[p] = 0 /\ pc[p] = "run"
             /\ peer[p] = FirstPeer(p)
             /\ \A q \in Party : chan[p][q] = <<>>
  BY DEF Init
<1>2. (\A w \in InputWire : ~(w < 0)) /\ (\A k \in GateIndex : ~(k < 0))
  BY CircuitFacts DEF InputWire, GateIndex
<1>3. ASSUME NEW p \in Party
      PROVE  InputShares(p) /\ GateShares(p) /\ Accumulated(p) /\ GatheredOf(p)
  <2>1. InputShares(p) /\ GateShares(p) /\ GatheredOf(p)
    BY <1>1, <1>2 DEF InputShares, GateShares, GatheredOf
  <2>2. FromPeers(gate[p], p)[p] = 0
    BY DEF FromPeers
  <2>3. Accumulated(p)
    BY <1>1, <2>2, FirstPeerParity DEF Accumulated
  <2> QED
    BY <2>1, <2>3
<1>4. DealtRight
  BY <1>1, <1>2, CircuitFacts DEF DealtRight
<1>5. Contents
  BY <1>1, EmptySeq DEF Contents
<1> QED
  BY <1>3, <1>4, <1>5 DEF ShareInv

LEMMA ShareStutter == ShareInv /\ UNCHANGED vars => ShareInv'
<1> SUFFICES ASSUME ShareInv, UNCHANGED vars PROVE ShareInv'
  OBVIOUS
<1>1. /\ input' = input /\ pc' = pc /\ wire' = wire /\ gate' = gate /\ peer' = peer
      /\ shares' = shares /\ acc' = acc /\ bit' = bit /\ dealt' = dealt
      /\ gathered' = gathered /\ chan' = chan
  BY DEF vars
<1>2. ASSUME NEW p \in Party
      PROVE  InputShares(p)' /\ GateShares(p)' /\ Accumulated(p)' /\ GatheredOf(p)'
  <2>1. InputShares(p) /\ GateShares(p) /\ Accumulated(p) /\ GatheredOf(p)
    BY DEF ShareInv
  <2>2. InputShares(p)'
    BY <1>1, <2>1 DEF InputShares
  <2>3. GateShares(p)'
    BY <1>1, <2>1
       DEF GateShares, GateShare, Products, Obtained, LocalShare, Left, Right, XorOver
  <2>4. Accumulated(p)'
    <3>1. FromPeers(gate[p], p)' = FromPeers(gate[p], p)
      BY <1>1 DEF FromPeers, Obtained, Left, Right
    <3> QED
      BY <1>1, <2>1, <3>1 DEF Accumulated, AtAnd, Evaluating, Parity
  <2>5. GatheredOf(p)'
    BY <1>1, <2>1 DEF GatheredOf, OutputShare
  <2> QED
    BY <2>2, <2>3, <2>4, <2>5
<1>3. DealtRight'
  BY <1>1 DEF ShareInv, DealtRight, XorOver
<1>4. Contents'
  <2> SUFFICES ASSUME NEW p \in Party, NEW q \in Party, p # q, NEW i \in 1 .. Len(chan'[p][q]),
                      NEW n, n = chan'[p][q][i]
               PROVE  Content(p, q, n)'
    BY DEF Contents
  <2>1. Content(p, q, n)
    BY <1>1 DEF ShareInv, Contents
  <2>2. OutputShare(p)' = OutputShare(p)
    BY <1>1 DEF OutputShare
  <2>3. \A k \in GateIndex : Left(p, k)' = Left(p, k) /\ Right(p, k)' = Right(p, k)
    BY <1>1 DEF Left, Right
  <2>4. Content(p, q, n)' <=> Content(p, q, n)
    BY <1>1, <2>2, <2>3 DEF Content
  <2> QED
    BY <2>1, <2>4
<1> QED
  BY <1>2, <1>3, <1>4 DEF ShareInv

LEMMA ShareNext ==
  TypeInv /\ TypeInv' /\ ChannelInv /\ ShareInv /\ [Next]_vars => ShareInv'
<1> SUFFICES ASSUME TypeInv, TypeInv', ChannelInv, ShareInv, [Next]_vars PROVE ShareInv'
  OBVIOUS
<1>1. ASSUME NEW r \in Party, Step(r) PROVE ShareInv'
  <2>1. Contents /\ DealtRight
    BY DEF ShareInv
  <2>2. ASSUME NEW p \in Party
        PROVE  InputShares(p)' /\ GateShares(p)' /\ Accumulated(p)' /\ GatheredOf(p)'
    <3>1. InputShares(p) /\ GateShares(p) /\ Accumulated(p) /\ GatheredOf(p)
      BY DEF ShareInv
    <3> QED
      BY <1>1, <2>1, <3>1, InputSharesNext, GateSharesNext, AccumulatedNext, GatheredNext
  <2>3. DealtRight' /\ Contents'
    BY <1>1, <2>1, DealtRightNext, ContentsNext
  <2> QED
    BY <2>2, <2>3 DEF ShareInv
<1>2. CASE UNCHANGED vars
  BY <1>2, ShareStutter
<1> QED
  BY <1>1, <1>2 DEF Next, Terminating

-----------------------------------------------------------------------------
(***************************************************************************)
(* From the invariant to the values of the wires.                          *)
(***************************************************************************)
\* The shares of wire w add up to its value.
WireRight(w) == XorOver([p \in Party |-> shares[p][w]]) = Value[input][w]

LEMMA XorOverSame ==
  ASSUME NEW f, NEW g, \A p \in Party : f[p] = g[p]
  PROVE  XorOver(f) = XorOver(g)
  BY DEF XorOver

LEMMA ValueFacts ==
  ASSUME TypeInv
  PROVE  /\ \A w \in Wire : Value[input][w] \in Bit
         /\ \A w \in InputWire : Value[input][w] = input[w]
         /\ \A k \in GateIndex :
              Value[input][Gates[k].output] =
                GateOp(Gates[k].type, Value[input][Gates[k].lhs], Value[input][Gates[k].rhs])
<1>1. input \in Inputs
  BY DEF TypeInv, TypeOK
<1>2. IsEvaluation(input, Value[input]) /\ Value[input] \in [Wire -> Bit]
  BY <1>1, ValueAssumption
<1> QED
  BY <1>2 DEF IsEvaluation

LEMMA InputRight ==
  ASSUME TypeInv, ShareInv, NEW w \in InputWire, \A p \in Party : w < wire[p]
  PROVE  WireRight(w)
<1>1. \A p \in Party : [q \in Party |-> shares[q][w]][p] = dealt[w][p]
  BY DEF ShareInv, InputShares
<1>2. XorOver([q \in Party |-> shares[q][w]]) = XorOver(dealt[w])
  BY <1>1, XorOverSame
<1>3. XorOver(dealt[w]) = input[w]
  BY CircuitFacts DEF ShareInv, DealtRight
<1> QED
  BY <1>2, <1>3, ValueFacts DEF WireRight

LEMMA XorRight ==
  ASSUME TypeInv, NEW k \in GateIndex, Gates[k].type = "XOR",
         WireRight(Gates[k].lhs), WireRight(Gates[k].rhs),
         \A p \in Party : shares[p][Gates[k].output] = GateShare(p, k)
  PROVE  WireRight(Gates[k].output)
<1> DEFINE f == [p \in Party |-> Left(p, k)]
           g == [p \in Party |-> Right(p, k)]
           h == [p \in Party |-> shares[p][Gates[k].output]]
<1>1. \A p \in Party : f[p] \in Bit /\ g[p] \in Bit /\ h[p] = Xor(f[p], g[p])
  BY TypeFacts DEF GateShare, IsAnd, LocalShare
<1>2. XorOver(f) = Value[input][Gates[k].lhs] /\ XorOver(g) = Value[input][Gates[k].rhs]
  BY DEF WireRight, Left, Right
<1>3. WireRight(Gates[k].output) <=> XorOver(h) = Value[input][Gates[k].output]
  BY DEF WireRight
<1> HIDE DEF f, g, h
<1>4. Parity(h, N) = Xor(Parity(f, N), Parity(g, N))
  BY <1>1, CircuitFacts, ParityXor DEF Party
<1> QED
  BY <1>2, <1>3, <1>4, XorOverParity, ValueFacts DEF GateOp

LEMMA NotRight ==
  ASSUME TypeInv, NEW k \in GateIndex, Gates[k].type = "NOT", WireRight(Gates[k].lhs),
         \A p \in Party : shares[p][Gates[k].output] = GateShare(p, k)
  PROVE  WireRight(Gates[k].output)
<1> DEFINE f == [p \in Party |-> Left(p, k)]
           h == [p \in Party |-> shares[p][Gates[k].output]]
<1>0. 0 \in Party /\ 1 \in Bit
  BY CircuitFacts DEF Party, Bit
<1>1. \A p \in Party : f[p] \in Bit /\ h[p] \in Bit
  BY TypeFacts, CircuitFacts
<1>2. /\ h[0] = Xor(f[0], 1)
      /\ \A p \in Party : p # 0 => h[p] = f[p]
  BY <1>0, <1>1 DEF GateShare, IsAnd, LocalShare, Xor, Bit
<1>3. XorOver(f) = Value[input][Gates[k].lhs]
  BY DEF WireRight, Left
<1>4. WireRight(Gates[k].output) <=> XorOver(h) = Value[input][Gates[k].output]
  BY DEF WireRight
<1> HIDE DEF f, h
<1>5. XorOver(h) = Xor(XorOver(f), 1)
  <2>1. DifferAt(f, h, 0, 1)
    BY <1>0, <1>1, <1>2 DEF DifferAt
  <2> QED
    BY <1>0, <2>1, XorOverChange
<1>6. PICK v \in Bit : v = Value[input][Gates[k].lhs]
  BY ValueFacts, CircuitFacts
<1>7. Value[input][Gates[k].output] = 1 - v
  BY <1>6, ValueFacts DEF GateOp
<1>8. Xor(v, 1) = 1 - v
  BY DEF Xor, Bit
<1> QED
  BY <1>3, <1>4, <1>5, <1>6, <1>7, <1>8

\* The N * N products of an AND gate, each pair shared by one transfer.
LEMMA AndRight ==
  ASSUME TypeInv, NEW k \in GateIndex, Gates[k].type = "AND",
         WireRight(Gates[k].lhs), WireRight(Gates[k].rhs),
         \A p \in Party : shares[p][Gates[k].output] = GateShare(p, k)
  PROVE  WireRight(Gates[k].output)
<1> DEFINE l == [p \in Party |-> Left(p, k)]
           r == [p \in Party |-> Right(p, k)]
           m == [p \in Party |-> Products(k, p)]
           h == [p \in Party |-> shares[p][Gates[k].output]]
<1>0. Party = 0 .. N-1 /\ N \in Nat
  BY CircuitFacts DEF Party
<1>1. \A i \in Party : l[i] \in Bit /\ r[i] \in Bit /\ m[i][i] = l[i] * r[i]
  BY TypeFacts DEF Products
<1>2. \A i, j \in Party : m[i][j] \in Bit
  <2> SUFFICES ASSUME NEW i \in Party, NEW j \in Party PROVE m[i][j] \in Bit
    OBVIOUS
  <2>1. Left(i, k) * Right(i, k) \in Bit /\ Obtained(k, i, j) \in Bit
    BY TypeFacts, XorBits, ObtainedType
  <2> QED
    BY <2>1 DEF Products
<1>3. ASSUME NEW i \in Party, NEW j \in Party, i < j
      PROVE  Xor(m[i][j], m[j][i]) = Xor(l[i] * r[j], l[j] * r[i])
  <2>1. i # j /\ ~(j < i)
    BY <1>0, <1>3
  <2>2. PICK b \in Bit, li \in Bit, ri \in Bit, lj \in Bit, rj \in Bit :
          /\ b = bit[k][i][j] /\ li = l[i] /\ ri = r[i] /\ lj = l[j] /\ rj = r[j]
    BY <1>1, TypeFacts
  <2>3. m[i][j] = b /\ m[j][i] = SenderChoices(b, li, ri)[ChoiceBit(lj, rj)]
    BY <1>3, <2>1, <2>2 DEF Products, Obtained
  <2>4. Xor(b, SenderChoices(b, li, ri)[ChoiceBit(lj, rj)]) = Xor(li * rj, ri * lj)
    BY TransferBits
  <2>5. ri * lj = lj * ri
    BY DEF Bit
  <2> QED
    BY <2>2, <2>3, <2>4, <2>5
<1>4. \A i \in Party : h[i] = Parity(m[i], N)
  BY XorOverParity DEF GateShare, IsAnd
<1>5. XorOver(l) = Value[input][Gates[k].lhs] /\ XorOver(r) = Value[input][Gates[k].rhs]
  BY DEF WireRight, Left, Right
<1>6. WireRight(Gates[k].output) <=> XorOver(h) = Value[input][Gates[k].output]
  BY DEF WireRight
<1> HIDE DEF l, r, m, h
<1>7. Parity(Rows(m, N), N) = Parity(l, N) * Parity(r, N)
  BY <1>0, <1>1, <1>2, <1>3, SquareProduct
<1>8. Parity(h, N) = Parity(Rows(m, N), N)
  <2>1. \A i \in 0 .. N-1 : h[i] = Rows(m, N)[i]
    BY <1>0, <1>4 DEF Rows
  <2> QED
    BY <1>0, <2>1, ParitySame
<1> QED
  BY <1>5, <1>6, <1>7, <1>8, XorOverParity, ValueFacts DEF GateOp

\* Every gate all parties have evaluated has the right output: no first gate
\* in the order of the file can be wrong.
LEMMA GatesRight ==
  ASSUME TypeInv, ShareInv, NEW k \in GateIndex, \A p \in Party : k < gate[p]
  PROVE  WireRight(Gates[k].output)
<1> DEFINE Evaluated(j) == \A p \in Party : j < gate[p]
           Wrong == {j \in GateIndex : Evaluated(j) /\ ~WireRight(Gates[j].output)}
<1> SUFFICES ASSUME Wrong # {} PROVE FALSE
  OBVIOUS
<1>1. Wrong \in SUBSET Nat
  BY CircuitFacts DEF GateIndex
<1>2. PICK j \in Wrong : \A i \in Wrong : j <= i
  <2> HIDE DEF Wrong
  <2> QED
    BY <1>1, LeastElement
<1>3. j \in GateIndex /\ Evaluated(j) /\ ~WireRight(Gates[j].output)
  BY <1>2
<1>4. j \in Nat /\ j < NumGate /\ NumGate \in Nat
  BY <1>3, CircuitFacts DEF GateIndex
<1>5. ASSUME NEW i \in GateIndex, i < j PROVE WireRight(Gates[i].output)
  <2>1. Evaluated(i)
    <3> SUFFICES ASSUME NEW p \in Party PROVE i < gate[p]
      OBVIOUS
    <3>1. j < gate[p] /\ gate[p] \in Nat /\ i \in Int
      BY <1>3, LoopVariables, CircuitFacts DEF GateIndex
    <3> QED
      BY <1>4, <1>5, <3>1
  <2>2. i \in Int
    BY CircuitFacts DEF GateIndex
  <2>3. i \notin Wrong
    BY <1>2, <1>4, <1>5, <2>2
  <2> QED
    BY <2>1, <2>3
<1>6. ASSUME NEW w \in InputWire PROVE WireRight(w)
  <2>1. ASSUME NEW p \in Party PROVE w < wire[p]
    <3>1. 0 < gate[p]
      BY <1>3, <1>4, LoopVariables
    <3>2. wire[p] = NumInput
      BY <3>1, LoopVariables DEF TypeInv, Control, ControlOf
    <3> QED
      BY <3>2, CircuitFacts DEF InputWire
  <2> QED
    BY <2>1, InputRight
<1>7. ASSUME NEW w \in Defined(j) PROVE WireRight(w)
  <2>1. CASE w \in InputWire
    BY <1>6, <2>1
  <2>2. CASE w \notin InputWire
    <3>1. PICK i \in 0 .. j-1 : w = Gates[i].output
      BY <2>2 DEF Defined
    <3>2. i \in GateIndex /\ i < j
      BY <1>4 DEF GateIndex
    <3> QED
      BY <1>5, <3>1, <3>2
  <2> QED
    BY <2>1, <2>2
<1>8. /\ WireRight(Gates[j].lhs)
      /\ Gates[j].type # "NOT" => WireRight(Gates[j].rhs)
  BY <1>3, <1>7, CircuitAssumption
<1>9. \A p \in Party : shares[p][Gates[j].output] = GateShare(p, j)
  BY <1>3 DEF ShareInv, GateShares
<1> QED
  BY <1>3, <1>8, <1>9, CircuitFacts, AndRight, XorRight, NotRight

LEMMA SharesRight == TypeInv /\ ShareInv => ShareCorrect
<1> SUFFICES ASSUME TypeInv, ShareInv, NEW w \in Wire, \A p \in Party : Computed(p, w)
             PROVE  WireRight(w)
  BY DEF ShareCorrect, WireRight
<1>1. CASE w \in InputWire
  <2>1. ASSUME NEW p \in Party PROVE w < wire[p]
    BY <1>1, CircuitFacts DEF Computed, InputWire
  <2> QED
    BY <1>1, <2>1, InputRight
<1>2. CASE w \notin InputWire
  <2>1. ASSUME NEW p \in Party
        PROVE  \E k \in GateIndex : k < gate[p] /\ Gates[k].output = w
    <3>1. PICK k \in 0 .. gate[p]-1 : Gates[k].output = w
      BY <1>2 DEF Computed
    <3>2. gate[p] \in Nat /\ gate[p] <= NumGate /\ NumGate \in Nat
      BY LoopVariables
    <3>3. k \in GateIndex /\ k < gate[p]
      BY <3>2 DEF GateIndex
    <3> QED
      BY <3>1, <3>3
  <2>2. 0 \in Party
    BY CircuitFacts DEF Party
  <2>3. PICK k \in GateIndex : Gates[k].output = w
    BY <2>1, <2>2
  <2>4. ASSUME NEW j \in GateIndex, Gates[j].output = w PROVE j = k
    BY <2>3, <2>4, WireFacts, CircuitFacts DEF GateIndex
  <2>5. \A p \in Party : k < gate[p]
    BY <2>1, <2>4
  <2> QED
    BY <2>3, <2>5, GatesRight
<1> QED
  BY <1>1, <1>2

-----------------------------------------------------------------------------
LEMMA ShareInvariance == Spec => [](TypeInv /\ ChannelInv /\ ShareInv)
<1>1. Init => TypeInv /\ ChannelInv /\ ShareInv
  BY TypeInit, ChannelInit, ShareInit
<1>2. TypeInv /\ ChannelInv /\ ShareInv /\ [Next]_vars =>
        (TypeInv /\ ChannelInv /\ ShareInv)'
  BY TypeNext, ChannelNext, ShareNext
<1> QED
  BY <1>1, <1>2, PTL DEF Spec

\* For every number of parties and every circuit, the shares of a wire XOR to
\* the value the circuit gives it, as soon as all parties have computed theirs
\* and however far they have drifted apart (participant.cxx, circuit evaluation).
THEOREM SharesCorrect == Spec => []ShareCorrect
  BY SharesRight, ShareInvariance, PTL

-----------------------------------------------------------------------------
(***************************************************************************)
(* What the parties print.                                                 *)
(***************************************************************************)
\* Only FinalXor prints.
Silent == \A p \in Party : pc[p] # "done" => output[p] = NoOutput

\* Everything a party XORs in the end is there, and its XOR is the output.
LEMMA FinalRight ==
  ASSUME TypeInv, ChannelInv, ShareInv, NEW p \in Party, FinalXor(p)
  PROVE  [i \in OutputIndex |-> XorOver([q \in Party |-> gathered[p][q][i]])]
           = ClearOutput[input]
<1>1. pc[p] = "gather" /\ peer[p] = N
  BY DEF FinalXor, GatheredAll
<1>2. ASSUME NEW q \in Party PROVE gathered[p][q] = OutputShare(q)
  <2>1. q < peer[p]
    BY <1>1, CircuitFacts DEF Party
  <2> QED
    BY <1>1, <2>1 DEF ShareInv, GatheredOf
<1>3. ASSUME NEW q \in Party PROVE wire[q] = NumInput /\ gate[q] = NumGate
  <2>1. pc[q] \in {"gather", "done"}
    <3>1. CASE q = p
      BY <1>1, <3>1
    <3>2. CASE q # p
      <4>1. wire[p] = NumInput /\ q < peer[p] /\ peer[p] \in Int /\ q \in Int
        BY <1>1, CircuitFacts DEF Party, TypeInv, Control, ControlOf
      <4>2. ReadPos(p, q) = GossipSlot + 1
        BY <1>1, <4>1, LoopVariables DEF ReadPos
      <4>3. GossipSlot < SendPos(q, p)
        BY <3>2, <4>2, SlotFacts, PlanGossip, ReadWasSent
      <4> QED
        BY <3>2, <4>3, PastGossip
    <3> QED
      BY <3>1, <3>2
  <2> QED
    BY <2>1 DEF TypeInv, Control, ControlOf
<1>4. ASSUME NEW i \in OutputIndex
      PROVE  XorOver([q \in Party |-> gathered[p][q][i]])
               = Value[input][NumWire - OutputLength + i]
  <2>1. PICK w \in Wire : w = NumWire - OutputLength + i /\ w \in Defined(NumGate)
    BY CircuitFacts, OutputAssumption
  <2>2. ASSUME NEW q \in Party PROVE Computed(q, w)
    BY <1>3, <2>1, CircuitFacts DEF Computed, Defined, InputWire
  <2>3. WireRight(w)
    BY <2>2, SharesRight DEF ShareCorrect, WireRight
  <2>4. \A q \in Party : gathered[p][q][i] = shares[q][w]
    BY <1>2, <2>1 DEF OutputShare
  <2>5. XorOver([q \in Party |-> gathered[p][q][i]]) = XorOver([q \in Party |-> shares[q][w]])
    BY <2>4, XorOverSame
  <2> QED
    BY <2>1, <2>3, <2>5 DEF WireRight
<1>5. input \in Inputs
  BY DEF TypeInv, TypeOK
<1> QED
  BY <1>4, <1>5 DEF ClearOutput

LEMMA SilentNext == TypeInv /\ Silent /\ [Next]_vars => Silent'
<1> SUFFICES ASSUME TypeInv, Silent, [Next]_vars, NEW p \in Party, pc'[p] # "done"
             PROVE  output'[p] = NoOutput
  BY DEF Silent
<1>1. ASSUME NEW r \in Party, Step(r) PROVE output'[p] = NoOutput
  <2>1. CASE FinalXor(r)
    <3>1. /\ pc' = [pc EXCEPT ![r] = "done"]
          /\ \E x : output' = [output EXCEPT ![r] = x]
      BY <2>1 DEF FinalXor
    <3> QED
      BY <3>1 DEF Silent, TypeInv, TypeOK
  <2>2. CASE ~FinalXor(r)
    <3>1. output' = output
      BY <1>1, <2>2 DEF Step, DealShares, ReceiveSecretShare, LocalGate, OTOffer, OTAnswer,
         OTTransfer, OTReceive, FinishAnd, GossipSend, GossipReceive
    <3>2. pc[p] # "done"
      <4>1. CASE p # r
        BY <1>1, <4>1, Unmoved
      <4>2. CASE p = r
        BY <1>1, <2>2, <4>2 DEF Step, DealShares, ReceiveSecretShare, Sharing, LocalGate,
           OTOffer, OTAnswer, OTTransfer, OTReceive, FinishAnd, GossipSend, GossipReceive
      <4> QED
        BY <4>1, <4>2
    <3> QED
      BY <3>1, <3>2 DEF Silent
  <2> QED
    BY <2>1, <2>2
<1>2. CASE UNCHANGED vars
  <2>1. pc' = pc /\ output' = output
    BY <1>2 DEF vars
  <2> QED
    BY <2>1 DEF Silent
<1> QED
  BY <1>1, <1>2 DEF Next, Terminating

LEMMA IdealStep ==
  TypeInv /\ ChannelInv /\ ShareInv /\ Silent /\ [Next]_vars => [Ideal!Next]_(Ideal!vars)
<1> SUFFICES ASSUME TypeInv, ChannelInv, ShareInv, Silent, [Next]_vars
             PROVE  Ideal!Next \/ UNCHANGED Ideal!vars
  OBVIOUS
<1>1. ASSUME NEW r \in Party, Step(r) PROVE Ideal!Next \/ UNCHANGED Ideal!vars
  <2>1. input' = input
    BY <1>1, Overwritten
  <2>2. CASE FinalXor(r)
    <3>1. output' = [output EXCEPT ![r] = ClearOutput[input]]
      BY <2>2, FinalRight DEF FinalXor
    <3>2. output[r] = NoOutput
      BY <2>2 DEF FinalXor, Silent
    <3> QED
      BY <2>1, <3>1, <3>2 DEF Ideal!Next, Ideal!Learn
  <2>3. CASE ~FinalXor(r)
    <3>1. output' = output
      BY <1>1, <2>3 DEF Step, DealShares, ReceiveSecretShare, LocalGate, OTOffer, OTAnswer,
         OTTransfer, OTReceive, FinishAnd, GossipSend, GossipReceive
    <3> QED
      BY <2>1, <3>1 DEF Ideal!vars
  <2> QED
    BY <2>2, <2>3
<1>2. CASE UNCHANGED vars
  BY <1>2 DEF vars, Ideal!vars
<1> QED
  BY <1>1, <1>2 DEF Next, Terminating

\* For every number of parties and every circuit, what a party prints is the
\* circuit's output on everybody's inputs, and it prints once: the protocol
\* implements the ideal computation (participant.cxx, main).
THEOREM ImplementsIdeal == Spec => Ideal!Spec
<1>1. Init => Ideal!Init /\ Silent
  BY DEF Init, Ideal!Init, Silent
<1>2. TypeInv /\ Silent /\ [Next]_vars => Silent'
  BY SilentNext
<1>3. Spec => []Silent
  BY <1>1, <1>2, ShareInvariance, PTL DEF Spec
<1> QED
  BY <1>1, <1>3, IdealStep, ShareInvariance, PTL DEF Spec, Ideal!Spec

-----------------------------------------------------------------------------
(***************************************************************************)
(* Module Session: an evaluation in which some parties stop early, so that *)
(* what is proved of the channels and the shares holds in it; what is left *)
(* is how the ends of the processes relate to it.                          *)
(***************************************************************************)
STypeInv ==
  /\ status \in [Party -> {"up", "exited", "crashed", "failed"}]
  /\ unsent \in [Party -> SUBSET Party]

\* Only a party that has its result exits; what a dead party did not write
\* stays at the end of its channel, as nobody can read it.
Ends ==
  /\ \A p \in Party : status[p] = "exited" => pc[p] = "done"
  /\ \A p \in Party : output[p] # NoOutput => pc[p] = "done"
  /\ \A p, q \in Party : p \in unsent[q] =>
       p # q /\ status[q] \in {"crashed", "failed"} /\ chan[q][p] # <<>>

SInv == TypeInv /\ ChannelInv /\ STypeInv /\ Ends /\ FailureHasCause

-----------------------------------------------------------------------------
(***************************************************************************)
(* Every step of a session is a step of the evaluation, or none.           *)
(***************************************************************************)
LEMMA SessionStep == [SNext]_svars => [Next]_vars
<1> SUFFICES ASSUME SNext \/ UNCHANGED svars PROVE Next \/ UNCHANGED vars
  OBVIOUS
<1>1. ASSUME NEW p \in Party, SStep(p) \/ SDie(p) PROVE Step(p) \/ UNCHANGED vars
  <2>1. CASE Work(p)
    BY <2>1 DEF Work
  <2>2. CASE Exit(p) \/ ReadFails(p) \/ Crash(p)
    BY <2>2 DEF Exit, ReadFails, Crash
  <2>3. CASE WriteFails(p) \/ CrashSending(p)
    BY <2>3 DEF WriteFails, CrashSending, CutShort, Step
  <2> QED
    BY <1>1, <2>1, <2>2, <2>3 DEF SStep, SDie
<1>2. CASE UNCHANGED svars
  BY <1>2 DEF svars
<1> QED
  BY <1>1, <1>2 DEF SNext, Next

\* A session is an evaluation as far as module GMW is concerned, so that the
\* theorems about GMW hold in it (participant.cxx, the process around it).
THEOREM SessionIsEvaluation == SSpec => Spec
<1>1. SInit => Init
  BY DEF SInit
<1> QED
  BY <1>1, SessionStep, PTL DEF SSpec, Spec

\* For every number of parties and every circuit, and whoever dies when, a
\* result that is printed is the circuit's output (participant.cxx, main).
THEOREM PrintedIsRight == SSpec => ResultsRight
  BY SessionIsEvaluation, ImplementsIdeal DEF ResultsRight

-----------------------------------------------------------------------------
\* What a step of p takes from the channel of q, it reads.
LEMMA TakesByReading ==
  ASSUME TypeInv, NEW p \in Party, NEW q \in Party \ {p}, Step(p),
         chan'[q][p] # chan[q][p]
  PROVE  ReadsFrom(p, q) /\ chan[q][p] # <<>> /\ chan'[q][p] = Tail(chan[q][p])
<1>0. /\ \A w \in InputWire : ShareSlot(w) \in 0 .. GossipSlot
      /\ \A k \in GateIndex : /\ OfferSlot(k) \in 0 .. GossipSlot
                              /\ AnswerSlot(k) \in 0 .. GossipSlot
                              /\ ValuesSlot(k) \in 0 .. GossipSlot
      /\ GossipSlot \in 0 .. GossipSlot
  <2>1. NumInput \in Nat /\ NumGate \in Nat
    BY CircuitFacts
  <2> QED
    BY <2>1 DEF ShareSlot, OfferSlot, AnswerSlot, ValuesSlot, GossipSlot, InputWire, GateIndex
<1>1. CASE DealShares(p) \/ LocalGate(p) \/ OTOffer(p) \/ FinishAnd(p) \/ GossipSend(p) \/ FinalXor(p)
  BY <1>1 DEF DealShares, LocalGate, OTOffer, FinishAnd, GossipSend, FinalXor, TypeInv, TypeOK
<1>2. CASE ReceiveSecretShare(p)
  <2>1. Sharing(p) /\ wire[p] \in InputWire
    <3>1. Sharing(p) /\ wire[p] \in 0 .. NumInput
      BY <1>2 DEF ReceiveSecretShare, TypeInv, TypeOK
    <3> QED
      BY <3>1, CircuitFacts DEF Sharing, InputWire
  <2>2. Owner[wire[p]] = q
    BY <1>2, <2>1, OwnerAssumption DEF ReceiveSecretShare, TypeInv, TypeOK
  <2>3. chan[q][p] # <<>> /\ chan'[q][p] = Tail(chan[q][p])
    BY <1>2, <2>2 DEF ReceiveSecretShare, CanRead, TypeInv, TypeOK
  <2> QED
    BY <1>0, <2>1, <2>2, <2>3 DEF ReadsFrom, Reading
<1>3. CASE OTAnswer(p) \/ OTTransfer(p) \/ OTReceive(p)
  <2>1. /\ chan[peer[p]][p] # <<>>
        /\ chan'[q][p] = IF q = peer[p] THEN Tail(chan[q][p]) ELSE chan[q][p]
    <3>0. PICK q0 \in Party : q0 = peer[p] /\ q0 # p
      <4>1. /\ peer[p] \in 0 .. N /\ peer[p] # p /\ N \in Nat /\ p \in 0 .. N-1
            /\ pc[p] \in {"offered", "answered"} => peer[p] \in Party
        BY CircuitFacts, TypeFacts DEF TypeInv, Control, ControlOf, Party
      <4> QED
        BY <1>3, <4>1 DEF OTAnswer, OTTransfer, OTReceive, Party
    <3>1. CASE OTAnswer(p)
      <4>1. /\ chan' = [chan EXCEPT ![q0][p] = Tail(@), ![p][q0] = Append(@, ReceiverPublic(gate[p]))]
            /\ chan[q0][p] # <<>>
        BY <3>0, <3>1 DEF OTAnswer, CanRead
      <4> QED
        BY <3>0, <4>1 DEF TypeInv, TypeOK
    <3>2. CASE OTTransfer(p)
      <4>1. PICK m : /\ chan' = [chan EXCEPT ![q0][p] = Tail(@), ![p][q0] = Append(@, m)]
                     /\ chan[q0][p] # <<>>
        BY <3>0, <3>2 DEF OTTransfer, CanRead
      <4> QED
        BY <3>0, <4>1 DEF TypeInv, TypeOK
    <3>3. CASE OTReceive(p)
      BY <3>0, <3>3 DEF OTReceive, CanRead, TypeInv, TypeOK
    <3> QED
      BY <1>3, <3>1, <3>2, <3>3
  <2>3. peer[p] = q /\ chan[q][p] # <<>> /\ chan'[q][p] = Tail(chan[q][p])
    BY <2>1
  <2>2. AtAnd(p) /\ gate[p] \in GateIndex
    <3>1. AtAnd(p)
      BY <1>3 DEF OTAnswer, OTTransfer, OTReceive, TypeInv, Control, ControlOf
    <3> QED
      BY <3>1, GateFacts DEF AtAnd
  <2> QED
    BY <1>0, <1>3, <2>2, <2>3 DEF ReadsFrom, Reading, OTAnswer, OTTransfer, OTReceive
<1>4. CASE GossipReceive(p)
  <2>1. peer[p] = q /\ chan[q][p] # <<>> /\ chan'[q][p] = Tail(chan[q][p]) /\ pc[p] = "gather"
    BY <1>4 DEF GossipReceive, CanRead, TypeInv, TypeOK
  <2> QED
    BY <1>0, <2>1 DEF ReadsFrom, Reading
<1> QED
  BY <1>1, <1>2, <1>3, <1>4 DEF Step

\* A result is printed by the step that ends the evaluation of the party.
LEMMA ResultStep ==
  ASSUME TypeInv, NEW p \in Party, Step(p)
  PROVE  /\ pc[p] # "done"
         /\ \A r \in Party \ {p} : output'[r] = output[r]
         /\ output'[p] = output[p] \/ pc'[p] = "done"
<1>1. CASE FinalXor(p)
  BY <1>1 DEF FinalXor, TypeInv, TypeOK
<1>2. CASE DealShares(p) \/ ReceiveSecretShare(p)
  BY <1>2 DEF DealShares, ReceiveSecretShare, Sharing
<1>3. CASE LocalGate(p) \/ OTOffer(p) \/ OTAnswer(p) \/ OTTransfer(p) \/ OTReceive(p)
  BY <1>3 DEF LocalGate, OTOffer, OTAnswer, OTTransfer, OTReceive
<1>4. CASE FinishAnd(p) \/ GossipSend(p) \/ GossipReceive(p)
  BY <1>4 DEF FinishAnd, GossipSend, GossipReceive
<1> QED
  BY <1>1, <1>2, <1>3, <1>4 DEF Step

LEMMA StepMoves ==
  ASSUME TypeInv, NEW p \in Party, Step(p)
  PROVE  Moves(p)
BY DealSharesMoves, ReceiveSecretShareMoves, LocalGateMoves, OTOfferMoves,
   OTAnswerMoves, OTTransferMoves, OTReceiveMoves, FinishAndMoves,
   GossipSendMoves, GossipReceiveMoves, FinalXorMoves DEF Step

LEMMA WorkEnds ==
  ASSUME TypeInv, STypeInv, Ends, NEW p \in Party, Work(p)
  PROVE  Ends'
<1>1. /\ Step(p) /\ Up(p) /\ status' = status /\ unsent' = unsent
      /\ \A q \in Party : ReadsFrom(p, q) => ~EndOfStream(p, q)
  BY DEF Work
<1>2. /\ \A r \in Party \ {p} : pc'[r] = pc[r]
      /\ \A r, s \in Party \ {p} : chan'[r][s] = chan[r][s]
  BY <1>1, StepMoves DEF Moves
<1>3. \A r \in Party : status'[r] = "exited" => pc'[r] = "done"
  BY <1>1, <1>2 DEF Ends, Up
<1>4. \A r \in Party : output'[r] # NoOutput => pc'[r] = "done"
  BY <1>1, <1>2, ResultStep DEF Ends
<1>5. ASSUME NEW r \in Party, NEW q \in Party, r \in unsent'[q]
      PROVE  r # q /\ status'[q] \in {"crashed", "failed"} /\ chan'[q][r] # <<>>
  <2>1. r # q /\ status[q] \in {"crashed", "failed"} /\ chan[q][r] # <<>> /\ q # p
    BY <1>1, <1>5 DEF Ends, Up
  <2>2. CASE r = p /\ chan'[q][p] # chan[q][p]
    <3>1. ReadsFrom(p, q) /\ chan'[q][p] = Tail(chan[q][p])
      BY <1>1, <2>1, <2>2, TakesByReading
    <3>2. Unread(p, q) # 0 /\ p \in unsent[q]
      BY <1>1, <1>5, <2>1, <2>2, <3>1 DEF EndOfStream, Gone
    <3>3. chan[q][p] \in Seq(Message) /\ Len(chan[q][p]) - 1 # 0
      BY <3>2 DEF Unread, TypeInv, TypeOK
    <3>4. Len(Tail(chan[q][p])) = Len(chan[q][p]) - 1
      BY <2>1, <2>2, <3>3
    <3>5. chan'[q][p] # <<>>
      BY <2>1, <2>2, <3>1, <3>3, <3>4, ChannelRead, EmptySeq
    <3> QED
      BY <1>1, <2>1, <2>2, <3>5
  <2>3. CASE r # p \/ chan'[q][p] = chan[q][p]
    BY <1>1, <1>2, <2>1, <2>3
  <2> QED
    BY <2>2, <2>3
<1> QED
  BY <1>3, <1>4, <1>5 DEF Ends

\* A loop of sends broken off by the end of the process.
LEMMA CutShortEnds ==
  ASSUME TypeInv, STypeInv, Ends, NEW p \in Party, NEW i \in Party,
         NEW how \in {"crashed", "failed"}, Up(p), CutShort(p, i, how)
  PROVE  Ends' /\ STypeInv' /\ status' = [status EXCEPT ![p] = how] /\ Step(p)
<1>1. /\ DealShares(p) \/ GossipSend(p)
      /\ unsent' = [unsent EXCEPT ![p] = {q \in Party : q >= i /\ q # p}]
      /\ status' = [status EXCEPT ![p] = how]
  BY DEF CutShort, End
<1>2. \A q \in Party \ {p} : \E m : chan'[p][q] = Append(chan[p][q], m)
  <2>1. CASE DealShares(p)
    <3>1. PICK s : chan' = [chan EXCEPT ![p] = [q \in Party |->
            IF q = p THEN @[q] ELSE Append(@[q], InitialShare(wire[p], s[q]))]]
      BY <2>1 DEF DealShares
    <3>2. \A q \in Party \ {p} : chan'[p][q] = Append(chan[p][q], InitialShare(wire[p], s[q]))
      BY <3>1 DEF TypeInv, TypeOK
    <3> QED
      BY <3>2
  <2>2. CASE GossipSend(p)
    BY <2>2 DEF GossipSend, TypeInv, TypeOK
  <2> QED
    BY <1>1, <2>1, <2>2
<1>3. \A r, q \in Party : r # p => chan'[r][q] = chan[r][q]
  BY <1>1 DEF DealShares, GossipSend, TypeInv, TypeOK
<1>4. \A q \in Party \ {p} : chan'[p][q] # <<>>
  <2> SUFFICES ASSUME NEW q \in Party \ {p}, NEW m PROVE Append(chan[p][q], m) # <<>>
    BY <1>2
  <2>1. chan[p][q] \in Seq(Message)
    BY DEF TypeInv, TypeOK
  <2> QED
    BY <2>1
<1>5. Step(p)
  BY <1>1 DEF Step
<1>6. \A r \in Party \ {p} : pc'[r] = pc[r] /\ output'[r] = output[r]
  BY <1>5, StepMoves, ResultStep DEF Moves
<1>7. \A r \in Party : status'[r] = "exited" => pc'[r] = "done"
  BY <1>1, <1>6 DEF Ends, STypeInv
<1>8. \A r \in Party : output'[r] # NoOutput => pc'[r] = "done"
  BY <1>5, <1>6, ResultStep DEF Ends
<1>9. \A r, q \in Party : r \in unsent'[q] =>
        r # q /\ status'[q] \in {"crashed", "failed"} /\ chan'[q][r] # <<>>
  BY <1>1, <1>3, <1>4 DEF Ends, STypeInv
<1>10. STypeInv'
  BY <1>1 DEF STypeInv
<1> QED
  BY <1>1, <1>5, <1>7, <1>8, <1>9, <1>10 DEF Ends

-----------------------------------------------------------------------------
(***************************************************************************)
(* Failures.                                                               *)
(***************************************************************************)
\* From a party that has exited, nobody is cut off.
LEMMA ExitCutsNobodyOff ==
  ASSUME TypeInv, ChannelInv, STypeInv, Ends,
         NEW p \in Party, NEW q \in Party, status[q] = "exited"
  PROVE  /\ ReadsFrom(p, q) => ~EndOfStream(p, q) /\ ~Reset(p, q)
         /\ WritesTo(p, q) => ~Reset(p, q)
<1>1. pc[q] = "done"
  BY DEF Ends
<1>2. p # q => chan[p][q] = <<>> /\ pc[p] \in {"gather", "done"}
  BY <1>1, ExitIsClean DEF CleanExit
<1>3. ASSUME ReadsFrom(p, q)
      PROVE  ~EndOfStream(p, q) /\ ~Reset(p, q)
  <2>1. PICK slot \in 0 .. GossipSlot : Reading(p, q, slot)
    BY <1>3 DEF ReadsFrom
  <2>2. p # q /\ slot = ReadPos(p, q) /\ slot \in Plan(q, p)
    BY <2>1, ReadingPosition, SlotFacts
  <2>3. SendPos(q, p) = GossipSlot + 1
    <3>1. wire[q] = NumInput /\ NumInput \in Nat
      BY <1>1, CircuitFacts DEF TypeInv, Control, ControlOf
    <3> QED
      BY <1>1, <3>1 DEF SendPos
  <2>4. slot \in Nat /\ slot < SendPos(q, p)
    BY <2>1, <2>3, SlotFacts
  <2>5. InOrder(Slots(chan[q][p]), ReadPos(p, q), SendPos(q, p), Plan(q, p))
    BY <2>2 DEF ChannelInv, Ordered
  <2>6. \E i \in 1 .. Len(Slots(chan[q][p])) : Slots(chan[q][p])[i] = slot
    BY <2>2, <2>4, <2>5 DEF InOrder
  <2>7. Len(chan[q][p]) # 0
    BY <2>6 DEF Slots, TypeInv, TypeOK
  <2>8. p \notin unsent[q]
    BY DEF Ends
  <2>9. ~EndOfStream(p, q)
    BY <2>7, <2>8 DEF EndOfStream, Unread, TypeInv, TypeOK
  <2> QED
    BY <1>2, <2>2, <2>9 DEF Reset
<1>4. WritesTo(p, q) => ~Reset(p, q)
  BY <1>2 DEF WritesTo, Reset
<1> QED
  BY <1>3, <1>4

\* A read or write that fails involves a party that did not exit.
LEMMA FailureStep ==
  ASSUME TypeInv, ChannelInv, STypeInv, Ends, FailureHasCause, NEW p \in Party,
         ReadFails(p) \/ WriteFails(p)
  PROVE  \E r \in Party : status[r] = "crashed"
<1>1. PICK q \in Party : /\ Gone(q)
                         /\ \/ ReadsFrom(p, q) /\ (EndOfStream(p, q) \/ Reset(p, q))
                            \/ WritesTo(p, q) /\ Reset(p, q)
  BY DEF ReadFails, WriteFails, EndOfStream, Reset
<1>2. status[q] # "exited"
  BY <1>1, ExitCutsNobodyOff
<1> QED
  BY <1>1, <1>2 DEF Gone, FailureHasCause

LEMMA SessionNext == SInv /\ [SNext]_svars => SInv'
<1> SUFFICES ASSUME SInv, [SNext]_svars PROVE SInv'
  OBVIOUS
<1> USE DEF SInv
<1>1. TypeInv' /\ ChannelInv'
  BY SessionStep, TypeNext, ChannelNext
<1>2. ASSUME NEW p \in Party, Work(p)
      PROVE  STypeInv' /\ Ends' /\ FailureHasCause'
  <2>1. status' = status /\ unsent' = unsent
    BY <1>2 DEF Work
  <2> QED
    BY <1>2, <2>1, WorkEnds DEF STypeInv, FailureHasCause
\* The ends of processes, one party at a time.
<1>3. ASSUME NEW p \in Party, NEW how \in {"exited", "crashed", "failed"},
             Up(p), End(p, how), UNCHANGED <<vars, unsent>>, how = "exited" => pc[p] = "done"
      PROVE  STypeInv' /\ Ends'
  <2>1. /\ pc' = pc /\ output' = output /\ chan' = chan /\ unsent' = unsent
        /\ \A r \in Party : status'[r] = IF r = p THEN how ELSE status[r]
    BY <1>3 DEF vars, End, STypeInv
  <2>2. STypeInv'
    BY <1>3 DEF End, STypeInv
  <2>3. \A r \in Party : status'[r] = "exited" => pc'[r] = "done"
    BY <1>3, <2>1 DEF Ends
  <2>4. \A r, q \in Party : r \in unsent'[q] => q # p
    BY <1>3, <2>1 DEF Ends, Up
  <2>5. \A r, q \in Party : r \in unsent'[q] =>
          r # q /\ status'[q] \in {"crashed", "failed"} /\ chan'[q][r] # <<>>
    BY <2>1, <2>4 DEF Ends
  <2> QED
    BY <2>1, <2>2, <2>3, <2>5 DEF Ends
<1>4. ASSUME NEW p \in Party, NEW how \in {"exited", "crashed"}, Up(p), End(p, how)
      PROVE  FailureHasCause'
  <2>1. \A r \in Party : status'[r] = IF r = p THEN how ELSE status[r]
    BY <1>4 DEF End, STypeInv
  <2> QED
    BY <1>4, <2>1 DEF FailureHasCause, Up
<1>5. ASSUME NEW p \in Party, ReadFails(p) \/ WriteFails(p)
      PROVE  FailureHasCause'
  <2>1. PICK r \in Party : status[r] = "crashed"
    BY <1>5, FailureStep
  <2>2. Up(p) /\ status' = [status EXCEPT ![p] = "failed"]
    BY <1>5 DEF ReadFails, WriteFails, CutShort, End
  <2>3. status'[r] = "crashed"
    BY <2>1, <2>2 DEF Up, STypeInv
  <2> QED
    BY <2>3 DEF FailureHasCause
<1>6. ASSUME NEW p \in Party, SStep(p) \/ SDie(p)
      PROVE  STypeInv' /\ Ends' /\ FailureHasCause'
  <2>1. CASE Work(p)
    BY <1>2, <2>1
  <2>2. CASE Exit(p)
    BY <1>3, <1>4, <2>2 DEF Exit
  <2>3. CASE Crash(p)
    BY <1>3, <1>4, <2>3 DEF Crash
  <2>4. CASE CrashSending(p)
    <3>1. PICK i \in Party : Up(p) /\ CutShort(p, i, "crashed")
      BY <2>4 DEF CrashSending
    <3>2. STypeInv' /\ Ends' /\ End(p, "crashed")
      BY <3>1, CutShortEnds DEF End
    <3> QED
      BY <1>4, <3>1, <3>2
  <2>5. CASE ReadFails(p)
    BY <1>3, <1>5, <2>5 DEF ReadFails
  <2>6. CASE WriteFails(p)
    <3>1. PICK i \in Party :
            /\ Up(p)
            /\ \/ End(p, "failed") /\ UNCHANGED <<vars, unsent>>
               \/ CutShort(p, i, "failed")
      BY <2>6 DEF WriteFails
    <3>2. STypeInv' /\ Ends'
      BY <1>3, <3>1, CutShortEnds
    <3> QED
      BY <1>5, <2>6, <3>2
  <2> QED
    BY <1>6, <2>1, <2>2, <2>3, <2>4, <2>5, <2>6 DEF SStep, SDie
<1>7. CASE UNCHANGED svars
  <2>1. /\ status' = status /\ unsent' = unsent
        /\ pc' = pc /\ output' = output /\ chan' = chan
    BY <1>7 DEF svars, vars
  <2>2. STypeInv' /\ Ends' /\ FailureHasCause'
    BY <2>1 DEF STypeInv, Ends, FailureHasCause
  <2> QED
    BY <1>1, <2>2
<1> QED
  BY <1>1, <1>6, <1>7 DEF SNext

LEMMA SessionInit == SInit => SInv
<1> SUFFICES ASSUME SInit PROVE SInv
  OBVIOUS
<1>1. Init /\ status = [p \in Party |-> "up"] /\ unsent = [p \in Party |-> {}]
  BY DEF SInit
<1>2. TypeInv /\ ChannelInv
  BY <1>1, TypeInit, ChannelInit
<1>3. \A p \in Party : output[p] = NoOutput
  BY <1>1 DEF Init
<1>4. STypeInv /\ Ends /\ FailureHasCause
  BY <1>1, <1>3 DEF STypeInv, Ends, FailureHasCause
<1> QED
  BY <1>2, <1>4 DEF SInv

LEMMA SessionInvariance == SSpec => []SInv
  BY SessionInit, SessionNext, PTL DEF SSpec

\* For every number of parties and every circuit, no read or write of a
\* participant ever fails unless some participant was killed or threw by
\* itself: returning from main does no harm (participant.cxx, end of main).
THEOREM ExitsAreHarmless == SSpec => []FailureHasCause
<1>1. SInv => FailureHasCause
  BY DEF SInv
<1> QED
  BY <1>1, SessionInvariance, PTL

\* For every number of parties and every circuit, and whoever dies when, a
\* result is printed only by a party to which each of the others has written
\* its whole output share (participant.cxx, gathering).
THEOREM ResultsNeedAll == SSpec => []ResultNeedsAll
<1>1. SInv => ResultNeedsAll
  <2> SUFFICES ASSUME SInv, NEW p \in Party, NEW q \in Party, output[p] # NoOutput, q # p
               PROVE  pc[q] \in {"gather", "done"} /\ p \notin unsent[q]
    BY DEF ResultNeedsAll
  <2>1. chan[q][p] = <<>> /\ pc[q] \in {"gather", "done"}
    BY ExitIsClean DEF SInv, Ends, CleanExit
  <2> QED
    BY <2>1 DEF SInv, Ends
<1> QED
  BY <1>1, SessionInvariance, PTL

\* The state has the types of the program's variables, in every session.
THEOREM SessionTypes == SSpec => []STypeOK
<1>1. SInv => STypeOK
  BY DEF SInv, TypeInv, STypeInv, STypeOK
<1> QED
  BY <1>1, SessionInvariance, PTL
=============================================================================
