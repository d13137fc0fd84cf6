------------------------------ MODULE OTProofs ------------------------------
(***************************************************************************)
(* Safety of the oblivious transfer of module OT, for every group that has *)
(* the laws of TransferGroup and whatever damage is done to frames.        *)
(***************************************************************************)
EXTENDS OT, SequenceTheorems, TLAPS

SenderFrame ==
  FrameOf("SenderToReceiver_OTPublicValue", Element)
    \cup FrameOf("SenderToReceiver_OTEncryptedValues", [Option -> Encryption])
ReceiverFrame == FrameOf("ReceiverToSender_OTPublicValue", Element)

\* What the frames under way hold: the sender's public value, the receiver's
\* shifted one, and the options under keys of which only the chosen one is the
\* receiver's.
Offer  == Exp[G][a]
Answer == Mul[Exp[G][b]][Exp[Offer][choice]]
Shared == Exp[Offer][b]

ValuesContent(c) ==
  /\ c \in [Option -> Encryption]
  /\ \A i \in Option : c[i].option = m[i] /\ (c[i].key = Shared <=> i = choice)

\* Which frames can be under way, by the progress of the two sides.
Control ==
  /\ Len(s2r) <= 1 /\ Len(r2s) <= 1
  /\ spc = "start" => rpc = "start" /\ s2r = <<>>
  /\ spc = "offered" /\ rpc # "start" => s2r = <<>>
  /\ rpc = "start" => r2s = <<>>
  /\ rpc = "answered" => A = Offer
  /\ rpc \in {"start", "answered"} => result = None

Contents ==
  /\ s2r # <<>> /\ s2r[1].type = "SenderToReceiver_OTPublicValue" =>
       rpc = "start" /\ s2r[1].content = Offer
  /\ s2r # <<>> /\ s2r[1].type = "SenderToReceiver_OTEncryptedValues" =>
       rpc # "start" /\ A = Offer /\ ValuesContent(s2r[1].content)
  /\ r2s # <<>> => A = Offer /\ r2s[1].content = Answer
  /\ s2r # <<>> /\ s2r[1].valid => s2r[1].intact

IInv == TypeOK /\ Control /\ Contents

-----------------------------------------------------------------------------
\* The operations stay in the group.
LEMMA GroupClosure ==
  /\ G \in Element
  /\ \A x, y \in Element : Mul[x][y] \in Element
  /\ \A x \in Element : \A e \in Exponent \cup Option : Exp[x][e] \in Element
  /\ \A x \in Element : Inv[x] \in Element
<1>1. /\ G \in Element
      /\ Mul \in [Element -> [Element -> Element]]
      /\ Exp \in [Element -> [Exponent \cup Option -> Element]]
      /\ Inv \in [Element -> Element]
  BY GroupAssumption, Zenon DEF TransferGroup
<1> QED
  BY <1>1

\* The laws of the group, one by one.
LEMMA Cancellation ==
  \A x, y, z \in Element : Mul[Mul[x][y]][Inv[z]] = x <=> y = z
  BY GroupAssumption, Zenon DEF TransferGroup

LEMMA Commutation == \A e, f \in Exponent : Exp[Exp[G][e]][f] = Exp[Exp[G][f]][e]
  BY GroupAssumption, Zenon DEF TransferGroup

LEMMA DistinctPowers ==
  \A e \in Exponent : \A i, j \in Option :
    Exp[Exp[G][e]][i] = Exp[Exp[G][e]][j] => i = j
  BY GroupAssumption, Zenon DEF TransferGroup

LEMMA DistinctBases ==
  \A e \in Exponent : \A x, y \in Element : Exp[x][e] = Exp[y][e] => x = y
  BY GroupAssumption, Zenon DEF TransferGroup

\* The key the sender derives for option i from the receiver's answer is the
\* receiver's key exactly when i is the receiver's choice.
LEMMA OptionKeys ==
  ASSUME a \in Exponent, b \in Exponent, choice \in Option
  PROVE  /\ Offer \in Element /\ Answer \in Element
         /\ \A i \in Option : OptionKey(Answer, i) \in Element
         /\ \A i \in Option : OptionKey(Answer, i) = Shared <=> i = choice
<1> DEFINE X == Exp[G][b]
<1>1. Offer \in Element /\ X \in Element /\ Exp[Offer][choice] \in Element
  BY GroupClosure DEF Offer
<1>2. Answer \in Element
  BY <1>1, GroupClosure DEF Answer
<1>3. SUFFICES ASSUME NEW i \in Option
               PROVE  /\ OptionKey(Answer, i) \in Element
                      /\ OptionKey(Answer, i) = Shared <=> i = choice
  BY <1>1, <1>2
<1> DEFINE Base == Mul[Mul[X][Exp[Offer][choice]]][Inv[Exp[Offer][i]]]
<1>4. OptionKey(Answer, i) = Exp[Base][a]
  BY DEF OptionKey, OptionBase, Answer, Offer
<1>5. Exp[Offer][i] \in Element /\ Base \in Element
  BY <1>1, GroupClosure
<1>6. Base = X <=> Exp[Offer][choice] = Exp[Offer][i]
  <2>1. PICK x \in Element, y \in Element, z \in Element :
          x = X /\ y = Exp[Offer][choice] /\ z = Exp[Offer][i]
    BY <1>1, <1>5
  <2>2. Mul[Mul[x][y]][Inv[z]] = x <=> y = z
    BY Cancellation
  <2> QED
    BY <2>1, <2>2
<1>7. Exp[Offer][choice] = Exp[Offer][i] <=> i = choice
  BY DistinctPowers DEF Offer
<1>8. Exp[Base][a] = Exp[X][a] <=> Base = X
  BY <1>1, <1>5, DistinctBases
<1>9. Shared = Exp[X][a]
  BY Commutation DEF Shared, Offer
<1>10. Exp[Base][a] \in Element
  BY <1>5, GroupClosure
<1> QED
  BY <1>4, <1>6, <1>7, <1>8, <1>9, <1>10

\* A queue of at most one frame that is not empty, and one after an Append.
LEMMA ShortQueue ==
  ASSUME NEW S, NEW q \in Seq(S), Len(q) <= 1, q # <<>>
  PROVE  /\ Head(q) = q[1] /\ Head(q) \in S
         /\ Tail(q) = <<>> /\ Tail(q) \in Seq(S)
<1>0. Len(q) \in Nat \ {0}
  BY EmptySeq, Zenon
<1>1. Len(q) = 1
  BY <1>0
<1>2. Head(q) \in S /\ Tail(q) \in Seq(S) /\ Len(Tail(q)) = 0
  BY <1>1, HeadTailProperties
<1>3. Tail(q) = <<>>
  BY <1>2, EmptySeq
<1>4. Head(q) = q[1]
  BY <1>1
<1> QED
  BY <1>2, <1>3, <1>4

LEMMA AppendToEmpty ==
  ASSUME NEW S, NEW x \in S
  PROVE  /\ Append(<<>>, x) \in Seq(S) /\ Append(<<>>, x) # <<>>
         /\ Len(Append(<<>>, x)) = 1 /\ Append(<<>>, x)[1] = x
  OBVIOUS

\* Damage changes neither the type nor the content of a frame, and the queue
\* it is in keeps its length.
LEMMA DamageKeepsContent ==
  ASSUME NEW S, NEW q \in Seq(S), Len(q) <= 1, NEW r, DamageOne(q, r),
         \A f \in S : Damaged(f) \subseteq S
  PROVE  /\ r \in Seq(S) /\ Len(r) = Len(q) /\ q # <<>> /\ r # <<>>
         /\ \E f \in Damaged(q[1]) : r[1] = f
<1>1. PICK i \in DOMAIN q : \E f \in Damaged(q[i]) : r = [q EXCEPT ![i] = f]
  BY DEF DamageOne
<1>1a. PICK f \in Damaged(q[i]) : r = [q EXCEPT ![i] = f]
  BY <1>1
<1>2. DOMAIN q = 1 .. Len(q) /\ Len(q) \in Nat
  BY LenProperties
<1>3. i = 1 /\ Len(q) = 1
  BY <1>1, <1>2
<1>4. q[1] \in S
  BY <1>3, ElementOfSeq
<1>5. f \in S
  BY <1>1a, <1>3, <1>4
<1>6. r \in Seq(S) /\ Len(r) = 1 /\ r[1] = f
  BY <1>1a, <1>2, <1>3, <1>5, ExceptSeq
<1>7. q # <<>> /\ r # <<>>
  <2>1. Len(<<>>) = 0
    OBVIOUS
  <2> QED
    BY <1>3, <1>6, <2>1
<1> QED
  BY <1>1a, <1>3, <1>6, <1>7

LEMMA DamagedFrames ==
  /\ \A f \in SenderFrame : \A g \in Damaged(f) :
       /\ g \in SenderFrame /\ g.type = f.type /\ g.content = f.content
       /\ ~g.valid
  /\ \A f \in ReceiverFrame : \A g \in Damaged(f) :
       g \in ReceiverFrame /\ g.type = f.type /\ g.content = f.content
  BY DEF Damaged, SenderFrame, ReceiverFrame, FrameOf

\* The empty queue is a queue of frames.
LEMMA EmptyQueues ==
  /\ <<>> \in Seq(SenderFrame) /\ <<>> \in Seq(ReceiverFrame) /\ Len(<<>>) = 0
  BY EmptySeq

-----------------------------------------------------------------------------
LEMMA InitInv == Init => IInv
<1> SUFFICES ASSUME Init PROVE IInv
  OBVIOUS
<1>1. TypeOK
  BY EmptyQueues, GroupAssumption, ResultAssumption
     DEF TransferGroup, Init, TypeOK, SenderFrame, ReceiverFrame
<1>2. Control
  BY EmptyQueues DEF Init, Control
<1>3. Contents
  BY DEF Init, Contents
<1> QED
  BY <1>1, <1>2, <1>3 DEF IInv

LEMMA NextInv == IInv /\ [Next]_vars => IInv'
<1> SUFFICES ASSUME IInv, [Next]_vars PROVE IInv'
  OBVIOUS
<1> USE DEF IInv, SenderFrame, ReceiverFrame
<1>0. /\ Offer \in Element /\ Answer \in Element
      /\ Len(s2r) <= 1 /\ s2r \in Seq(SenderFrame)
      /\ Len(r2s) <= 1 /\ r2s \in Seq(ReceiverFrame)
  BY OptionKeys DEF TypeOK, Control
<1>1. CASE SendPublic
  <2> DEFINE f == Frame("SenderToReceiver_OTPublicValue", Exp[G][a])
  <2>1. f \in SenderFrame
    BY <1>0 DEF Frame, FrameOf, Offer
  <2>2. /\ s2r' \in Seq(SenderFrame) /\ s2r' # <<>>
        /\ Len(s2r') = 1 /\ s2r'[1] = f
    BY <1>1, <2>1, AppendToEmpty DEF SendPublic, Control
  <2>3. TypeOK'
    BY <1>1, <2>2 DEF TypeOK, SendPublic
  <2>4. Control'
    BY <1>1, <2>2 DEF Control, SendPublic, Offer
  <2>5. Contents'
    BY <1>1, <2>2 DEF Contents, Control, SendPublic, Offer, Answer, Frame
  <2> QED
    BY <2>3, <2>4, <2>5
<1>2. CASE SenderTransfer
  <2>1. /\ r2s # <<>> /\ Head(r2s) = r2s[1] /\ Tail(r2s) = <<>>
        /\ rpc # "start" /\ s2r = <<>> /\ spc = "offered"
    BY <1>0, <1>2, ShortQueue DEF SenderTransfer, Control
  <2>2. Head(r2s).content = Answer /\ A = Offer
    BY <2>1 DEF Contents
  <2>3. PICK c : c = [i \in Option |->
                        [key |-> OptionKey(Answer, i), option |-> m[i]]]
    OBVIOUS
  <2> DEFINE f == Frame("SenderToReceiver_OTEncryptedValues", c)
  <2>4. ValuesContent(c)
    <3>1. m \in [Option -> Bit]
      BY DEF TypeOK
    <3>2. PICK K : K = [i \in Option |-> OptionKey(Answer, i)]
      OBVIOUS
    <3>3. /\ \A i \in Option : K[i] \in Element
          /\ \A i \in Option : K[i] = Shared <=> i = choice
      BY <3>2, OptionKeys DEF TypeOK
    <3>4. c = [i \in Option |-> [key |-> K[i], option |-> m[i]]]
      BY <2>3, <3>2, Zenon
    <3> QED
      BY <3>1, <3>3, <3>4 DEF ValuesContent, Encryption
  <2>5. f \in SenderFrame
    BY <2>4 DEF Frame, FrameOf, ValuesContent
  <2>6. /\ s2r' \in Seq(SenderFrame) /\ s2r' # <<>>
        /\ Len(s2r') = 1 /\ s2r'[1] = f
    BY <1>2, <2>1, <2>2, <2>3, <2>5, AppendToEmpty DEF SenderTransfer
  <2>7. r2s' = <<>>
    BY <1>2, <2>1 DEF SenderTransfer
  <2>8. TypeOK'
    BY <1>2, <2>6, <2>7, EmptyQueues DEF TypeOK, SenderTransfer
  <2>9. Control'
    BY <1>2, <2>1, <2>6, <2>7, EmptyQueues DEF Control, SenderTransfer, Offer
  <2>10. Contents'
    <3>1. ValuesContent(c)' /\ (A = Offer)' /\ (rpc # "start")'
      BY <1>2, <2>1, <2>2, <2>4 DEF SenderTransfer, ValuesContent, Offer, Shared
    <3>2. /\ s2r'[1].content = c /\ s2r'[1].intact /\ s2r'[1].valid
          /\ s2r'[1].type = "SenderToReceiver_OTEncryptedValues"
      BY <2>6 DEF Frame
    <3> QED
      BY <2>6, <2>7, <3>1, <3>2 DEF Contents
  <2> QED
    BY <2>8, <2>9, <2>10
<1>3. CASE SenderRejects \/ SenderEOF
  <2>1. r2s' = <<>>
    BY <1>0, <1>3, ShortQueue DEF SenderRejects, SenderEOF
  <2>2. spc = "offered" /\ spc' = "failed"
    BY <1>3 DEF SenderRejects, SenderEOF, SenderFails
  <2>3. UNCHANGED <<rpc, m, choice, a, b, A, verified, result, s2r>>
    BY <1>3 DEF SenderRejects, SenderEOF, SenderFails
  <2>4. TypeOK'
    BY <2>1, <2>2, <2>3, EmptyQueues DEF TypeOK
  <2>5. Control'
    BY <2>1, <2>2, <2>3, EmptyQueues DEF Control, Offer
  <2>6. Contents'
    BY <2>1, <2>3 DEF Contents, ValuesContent, Offer, Answer, Shared
  <2> QED
    BY <2>4, <2>5, <2>6
<1>4. CASE ReceiverAnswer
  <2> DEFINE f == Frame("ReceiverToSender_OTPublicValue", Answer)
  <2>1. /\ s2r # <<>> /\ Head(s2r) = s2r[1] /\ Tail(s2r) = <<>>
        /\ Head(s2r) \in SenderFrame
        /\ rpc = "start" /\ r2s = <<>>
    BY <1>0, <1>4, ShortQueue DEF ReceiverAnswer, Control
  <2>2. Head(s2r).content = Offer
    BY <2>1 DEF Contents, FrameOf
  <2>3. ShiftedPublic(Offer) = Answer
    BY DEF ShiftedPublic, Answer
  <2>4. f \in ReceiverFrame
    BY <1>0 DEF Frame, FrameOf
  <2>5. /\ r2s' \in Seq(ReceiverFrame) /\ r2s' # <<>>
        /\ Len(r2s') = 1 /\ r2s'[1] = f
    BY <1>4, <2>1, <2>2, <2>3, <2>4, AppendToEmpty DEF ReceiverAnswer
  <2>6. s2r' = <<>> /\ A' = Offer /\ rpc' = "answered" /\ verified' \in BOOLEAN
    BY <1>4, <2>1, <2>2 DEF ReceiverAnswer, FrameOf
  <2>7. UNCHANGED <<spc, m, choice, a, b, result>>
    BY <1>4 DEF ReceiverAnswer
  <2>8. TypeOK'
    BY <1>0, <2>5, <2>6, <2>7, EmptyQueues DEF TypeOK
  <2>9. spc # "start" /\ result = None
    BY <2>1 DEF Control
  <2>10. Control'
    BY <2>5, <2>6, <2>7, <2>9, EmptyQueues DEF Control, Offer
  <2>11. Contents'
    BY <2>5, <2>6, <2>7 DEF Contents, Offer, Answer, Frame
  <2> QED
    BY <2>8, <2>10, <2>11
<1>5. CASE ReceiverFinish
  <2>1. /\ s2r # <<>> /\ Head(s2r) = s2r[1] /\ Tail(s2r) = <<>>
        /\ Head(s2r) \in SenderFrame /\ rpc = "answered"
    BY <1>0, <1>5, ShortQueue DEF ReceiverFinish
  <2>2. Head(s2r).content[choice].option \in Bit
    BY <2>1 DEF Contents, FrameOf, ValuesContent, Encryption, TypeOK
  <2>3. result' \in Garbage
    BY <1>5, <2>2, ResultAssumption DEF ReceiverFinish, Opened
  <2>4. s2r' = <<>> /\ rpc' = "done"
    BY <1>5, <2>1 DEF ReceiverFinish
  <2>5. UNCHANGED <<spc, m, choice, a, b, A, verified, r2s>>
    BY <1>5 DEF ReceiverFinish
  <2>6. TypeOK'
    BY <2>3, <2>4, <2>5, EmptyQueues DEF TypeOK
  <2>7. Control'
    BY <2>1, <2>4, <2>5, EmptyQueues DEF Control, Offer
  <2>8. Contents'
    BY <2>4, <2>5 DEF Contents, Offer, Answer
  <2> QED
    BY <2>6, <2>7, <2>8
<1>6. CASE ReceiverRejects \/ ReceiverThrows \/ ReceiverEOF
  <2>1. s2r' = <<>>
    BY <1>0, <1>6, ShortQueue DEF ReceiverRejects, ReceiverThrows, ReceiverEOF
  <2>2. /\ rpc \in {"start", "answered"} /\ rpc' = "failed"
        /\ spc = "start" => s2r # <<>> \/ spc = "failed"
    BY <1>6 DEF ReceiverRejects, ReceiverThrows, ReceiverEOF, ReceiverFails
  <2>3. UNCHANGED <<spc, m, choice, a, b, A, result, r2s>> /\ verified' \in BOOLEAN
    BY <1>6 DEF ReceiverRejects, ReceiverThrows, ReceiverEOF, ReceiverFails, TypeOK
  <2>4. TypeOK'
    BY <2>1, <2>2, <2>3, EmptyQueues DEF TypeOK
  <2>5. Control'
    BY <2>1, <2>2, <2>3, EmptyQueues DEF Control, Offer
  <2>6. Contents'
    BY <2>1, <2>3 DEF Contents, Offer, Answer
  <2> QED
    BY <2>4, <2>5, <2>6
<1>7. CASE Damage
  <2>1. UNCHANGED <<spc, rpc, m, choice, a, b, A, verified, result>>
    BY <1>7 DEF Damage
  <2>2. CASE DamageOne(s2r, s2r') /\ UNCHANGED r2s
    <3>1. /\ s2r' \in Seq(SenderFrame) /\ Len(s2r') = Len(s2r)
          /\ s2r # <<>> /\ s2r' # <<>>
          /\ \E f \in Damaged(s2r[1]) : s2r'[1] = f
      <4>1. \A f \in SenderFrame : Damaged(f) \subseteq SenderFrame
        BY DamagedFrames
      <4> HIDE DEF SenderFrame
      <4> QED
        BY <1>0, <2>2, <4>1, DamageKeepsContent
    <3>2. s2r[1] \in SenderFrame
      BY <1>0, <3>1, ShortQueue
    <3>3. /\ s2r'[1].type = s2r[1].type /\ s2r'[1].content = s2r[1].content
          /\ ~s2r'[1].valid
      BY <3>1, <3>2, DamagedFrames
    <3>4. TypeOK'
      BY <2>1, <2>2, <3>1 DEF TypeOK
    <3>5. Control'
      BY <2>1, <2>2, <3>1 DEF Control, Offer
    <3>6. Contents'
      BY <2>1, <2>2, <3>1, <3>3
         DEF Contents, ValuesContent, Offer, Answer, Shared
    <3> QED
      BY <3>4, <3>5, <3>6
  <2>3. CASE DamageOne(r2s, r2s') /\ UNCHANGED s2r
    <3>1. /\ r2s' \in Seq(ReceiverFrame) /\ Len(r2s') = Len(r2s)
          /\ r2s # <<>> /\ r2s' # <<>>
          /\ \E f \in Damaged(r2s[1]) : r2s'[1] = f
      <4>1. \A f \in ReceiverFrame : Damaged(f) \subseteq ReceiverFrame
        BY DamagedFrames
      <4> QED
        BY <1>0, <2>3, <4>1, DamageKeepsContent
    <3>2. r2s[1] \in ReceiverFrame
      BY <1>0, <3>1, ShortQueue
    <3>3. r2s'[1].content = r2s[1].content
      BY <3>1, <3>2, DamagedFrames
    <3>4. TypeOK'
      BY <2>1, <2>3, <3>1 DEF TypeOK
    <3>5. Control'
      BY <2>1, <2>3, <3>1 DEF Control, Offer
    <3>6. Contents'
      BY <2>1, <2>3, <3>1, <3>3
         DEF Contents, ValuesContent, Offer, Answer, Shared
    <3> QED
      BY <3>4, <3>5, <3>6
  <2> QED
    BY <1>7, <2>2, <2>3 DEF Damage
<1>8. CASE UNCHANGED vars
  BY <1>8 DEF vars, TypeOK, Control, Contents, ValuesContent, Offer, Answer, Shared
<1> QED
  BY <1>1, <1>2, <1>3, <1>4, <1>5, <1>6, <1>7, <1>8
     DEF Next, Sender, Receiver, Terminating

-----------------------------------------------------------------------------
THEOREM Invariance == Spec => []IInv
  BY InitInv, NextInv, PTL DEF Spec

\* Every variable keeps its type; in particular public values never leave the
\* group (OT_send and OT_recv, peer_link.cxx).
THEOREM TypeCorrect == Spec => []TypeOK
<1>1. IInv => TypeOK
  BY DEF IInv
<1> QED
  BY <1>1, Invariance, PTL

\* The receiver's key opens none of the other options (OT_send, the loop over
\* the keys).
THEOREM OnlyChosenOpens == Spec => []OnlyChosen
<1>1. IInv => OnlyChosen
  <2> SUFFICES ASSUME IInv, NEW n \in DOMAIN s2r,
                      s2r[n].type = "SenderToReceiver_OTEncryptedValues",
                      NEW i \in Option \ {choice}
               PROVE  s2r[n].content[i].key # ReceiverKey
    BY DEF OnlyChosen
  <2>1. n = 1 /\ s2r # <<>>
    BY LenProperties, EmptySeq DEF IInv, TypeOK, Control
  <2> QED
    BY <2>1 DEF IInv, Contents, ValuesContent, ReceiverKey, Shared
<1> QED
  BY <1>1, Invariance, PTL

\* What OT_recv makes of a valid last frame.
LEMMA FinishChosen ==
  IInv /\ ReceiverFinish /\ Head(s2r).valid => result' = m[choice]
<1> SUFFICES ASSUME IInv, ReceiverFinish, Head(s2r).valid
             PROVE  result' = m[choice]
  OBVIOUS
<1>1. s2r # <<>> /\ Head(s2r) = s2r[1] /\ Head(s2r) \in SenderFrame
  BY ShortQueue DEF ReceiverFinish, IInv, TypeOK, Control, SenderFrame
<1>2. s2r[1].type = "SenderToReceiver_OTEncryptedValues" /\ s2r[1].intact
  BY <1>1 DEF IInv, Contents, SenderFrame, FrameOf, ReceiverFinish
<1>3. A = Offer /\ ValuesContent(s2r[1].content) /\ choice \in Option
  BY <1>1, <1>2 DEF IInv, Contents, TypeOK
<1>4. ReceiverKey = Shared
  BY <1>3 DEF ReceiverKey, Shared
<1>5. Opened(Head(s2r)) = {m[choice]}
  BY <1>1, <1>2, <1>3, <1>4 DEF Opened, ValuesContent
<1> QED
  BY <1>5 DEF ReceiverFinish

\* Undamaged options reach the receiver as the one it chose (OT_recv).
THEOREM ChosenOptionReturned == Spec => ChosenOption
<1>1. IInv /\ [Next]_vars =>
        [rpc = "answered" /\ rpc' = "done" /\ Head(s2r).valid
           => result' = m[choice]]_vars
  <2> SUFFICES ASSUME IInv, Next, rpc = "answered", rpc' = "done", Head(s2r).valid
               PROVE  result' = m[choice]
    BY DEF vars
  <2>1. ReceiverFinish
    BY DEF Next, Sender, Receiver, Terminating, vars, Damage, SendPublic,
           SenderTransfer, SenderRejects, SenderEOF, SenderFails, ReceiverAnswer,
           ReceiverRejects, ReceiverThrows, ReceiverEOF, ReceiverFails
  <2> QED
    BY <2>1, FinishChosen
<1> QED
  BY <1>1, Invariance, PTL DEF Spec, ChosenOption

\* What is under way to the receiver, as the ideal transfer sees it.
Tampered == s2r # <<>> /\ ~Head(s2r).valid

\* What a side writes is valid, and what it writes goes into an empty queue.
LEMMA NothingTampered ==
  IInv /\ (SendPublic \/ SenderTransfer) => ~Tampered /\ ~Tampered'
<1> SUFFICES ASSUME IInv, SendPublic \/ SenderTransfer
             PROVE  ~Tampered /\ ~Tampered'
  OBVIOUS
<1>1. s2r = <<>>
  <2>1. CASE SendPublic
    BY <2>1 DEF SendPublic, IInv, Control
  <2>2. CASE SenderTransfer
    BY <2>2 DEF SenderTransfer, IInv, Control
  <2> QED
    BY <2>1, <2>2
<1>2. \E type, content : s2r' = Append(s2r, Frame(type, content))
  BY Zenon DEF SendPublic, SenderTransfer
<1>3. PICK type, content : s2r' = Append(s2r, Frame(type, content))
  BY <1>2
<1>4. s2r' = <<Frame(type, content)>>
  BY <1>1, <1>3
<1>5. Head(s2r') = Frame(type, content)
  BY <1>4
<1> QED
  BY <1>1, <1>5 DEF Tampered, Frame

\* What OT_recv can return for any last frame.
LEMMA FinishAny == IInv /\ ReceiverFinish => result' \in Garbage
<1> SUFFICES ASSUME IInv, ReceiverFinish PROVE result' \in Garbage
  OBVIOUS
<1>1. s2r # <<>> /\ Head(s2r) = s2r[1] /\ Head(s2r) \in SenderFrame
  BY ShortQueue DEF ReceiverFinish, IInv, TypeOK, Control, SenderFrame
<1>2. s2r[1].type = "SenderToReceiver_OTEncryptedValues"
  BY <1>1 DEF IInv, Contents, SenderFrame, FrameOf, ReceiverFinish
<1>3. ValuesContent(s2r[1].content) /\ choice \in Option /\ m \in [Option -> Bit]
  BY <1>1, <1>2 DEF IInv, Contents, TypeOK
<1>4. s2r[1].content[choice].option \in Garbage
  BY <1>3, ResultAssumption DEF ValuesContent
<1> QED
  BY <1>1, <1>4 DEF ReceiverFinish, Opened

\* The receiver empties its queue by a read.
LEMMA NothingAfterRead ==
  IInv /\ s2r # <<>> /\ s2r' = Tail(s2r) => s2r' = <<>>
  BY ShortQueue DEF IInv, TypeOK, Control, SenderFrame

\* A frame is damaged at most once, so it was valid before.
LEMMA ShortDamage ==
  ASSUME IInv, DamageOne(s2r, s2r')
  PROVE  s2r # <<>> /\ Head(s2r).valid
<1>1. PICK i \in DOMAIN s2r : s2r[i].valid
  BY DEF DamageOne
<1>2. s2r \in Seq(SenderFrame) /\ Len(s2r) <= 1
  BY DEF IInv, TypeOK, Control, SenderFrame
<1>3. Len(s2r) \in Nat /\ DOMAIN s2r = 1 .. Len(s2r)
  BY <1>2, LenProperties
<1>4. i = 1 /\ Len(s2r) = 1
  BY <1>1, <1>2, <1>3
<1>5. s2r # <<>>
  BY <1>4, EmptySeq
<1> QED
  BY <1>1, <1>2, <1>4, <1>5, ShortQueue

\* OT_send and OT_recv implement the ideal transfer, whatever is damaged on the
\* way (its fairness is only model-checked).
THEOREM ImplementsIdeal == Spec => Ideal!Spec
<1>1. Init => Ideal!Init
  BY DEF Init, Ideal!Init
<1>2. IInv /\ [Next]_vars => [Ideal!Next]_(Ideal!vars)
  <2> SUFFICES ASSUME IInv, [Next]_vars
               PROVE  [Ideal!Next]_(Ideal!vars)
    OBVIOUS
  <2> DEFINE Outcome == IF rpc = "failed" THEN Failed ELSE result
  <2> HIDE DEF Outcome
  <2>0. /\ UNCHANGED <<m, choice>> /\ Tampered' = Tampered /\ UNCHANGED Outcome
             => UNCHANGED Ideal!vars
        /\ UNCHANGED <<m, choice, Outcome>> /\ ~Tampered /\ Tampered' => Ideal!Tamper
        /\ UNCHANGED <<m, choice>> /\ Outcome = None /\ ~Tampered /\ ~Tampered'
             /\ Outcome' = m[choice] => Ideal!Deliver
        /\ UNCHANGED <<m, choice>> /\ Outcome = None /\ Tampered /\ ~Tampered'
             /\ Outcome' \in Garbage => Ideal!Mislead
        /\ UNCHANGED <<m, choice>> /\ Outcome = None /\ ~Tampered'
             /\ Outcome' = Failed => Ideal!Fail
    BY DEF Outcome, Tampered, Ideal!vars, Ideal!Tamper, Ideal!Deliver, Ideal!Mislead,
           Ideal!Fail
  <2>1. CASE ReceiverFinish
    <3>1. s2r' = <<>> /\ ~Tampered'
      BY <2>1, NothingAfterRead DEF ReceiverFinish, Tampered
    <3>2. Outcome = None /\ Outcome' = result' /\ UNCHANGED <<m, choice>>
      BY <2>1 DEF Outcome, ReceiverFinish, IInv, Control
    <3>3. CASE Tampered
      BY <2>0, <2>1, <3>1, <3>2, <3>3, FinishAny DEF Ideal!Next, Ideal!Finish
    <3>4. CASE ~Tampered
      <4>1. Head(s2r).valid
        BY <2>1, <3>4 DEF Tampered, ReceiverFinish
      <4> QED
        BY <2>0, <2>1, <3>1, <3>2, <3>4, <4>1, FinishChosen
           DEF Ideal!Next, Ideal!Finish
    <3> QED
      BY <3>3, <3>4
  <2>2. CASE ReceiverRejects \/ ReceiverThrows \/ ReceiverEOF
    <3>1. s2r' = <<>> /\ ~Tampered'
      BY <2>2, NothingAfterRead DEF ReceiverRejects, ReceiverThrows, ReceiverEOF, Tampered
    <3>2. Outcome = None /\ Outcome' = Failed /\ UNCHANGED <<m, choice>>
      BY <2>2 DEF Outcome, ReceiverRejects, ReceiverThrows, ReceiverEOF, ReceiverFails,
                  IInv, Control
    <3> QED
      BY <2>0, <3>1, <3>2 DEF Ideal!Next, Ideal!Finish
  <2>3. CASE SendPublic \/ SenderTransfer
    <3>1. UNCHANGED <<m, choice, Outcome>>
      BY <2>3 DEF SendPublic, SenderTransfer, Outcome
    <3> QED
      BY <2>0, <2>3, <3>1, NothingTampered DEF Tampered
  <2>4. CASE SenderRejects \/ SenderEOF \/ UNCHANGED vars
    <3>1. UNCHANGED <<m, choice, Outcome, s2r>>
      BY <2>4 DEF SenderRejects, SenderEOF, SenderFails, vars, Outcome
    <3> QED
      BY <2>0, <3>1 DEF Tampered
  <2>5. CASE ReceiverAnswer
    <3>1. UNCHANGED <<m, choice, Outcome>>
      BY <2>5 DEF ReceiverAnswer, Outcome
    <3>2. s2r' = <<>> /\ ~Tampered'
      BY <2>5, NothingAfterRead DEF ReceiverAnswer, Tampered
    <3>3. ~Tampered
      BY <2>5 DEF ReceiverAnswer, Tampered
    <3> QED
      BY <2>0, <3>1, <3>2, <3>3 DEF Tampered
  <2>6. CASE Damage
    <3>1. UNCHANGED <<m, choice, Outcome>>
      BY <2>6 DEF Damage, Outcome
    <3>2. CASE Tampered' = Tampered
      BY <2>0, <3>1, <3>2
    <3>3. CASE Tampered' # Tampered
      <4>1. DamageOne(s2r, s2r') /\ s2r # <<>> /\ Head(s2r).valid
        BY <2>6, <3>3, ShortDamage DEF Damage, Tampered, IInv, TypeOK, Control, SenderFrame
      <4> QED
        BY <2>0, <3>1, <3>3, <4>1 DEF Tampered, Ideal!Next
    <3> QED
      BY <3>2, <3>3
  <2> QED
    BY <2>1, <2>2, <2>3, <2>4, <2>5, <2>6 DEF Next, Sender, Receiver, Terminating
<1> QED
  BY <1>1, <1>2, Invariance, PTL DEF Spec, Ideal!Spec
=============================================================================
