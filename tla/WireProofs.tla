----------------------------- MODULE WireProofs -----------------------------
(***************************************************************************)
(* Theorems about the byte streams between the parties.                    *)
(*                                                                         *)
(* Frames, for every byte, size of an int, capacity of the stream and      *)
(* sequence of calls of socket_send: frames arrive whole, once and in order *)
(* however the bytes are cut, and socket_read throws for no other reason   *)
(* than an end of the stream or an oversize frame.                         *)
(*                                                                         *)
(* Blocking, for every number of parties, list of owners, number of AND    *)
(* gates and length of the messages: a run over finite socket buffers stops *)
(* nowhere but in the loop of sends of GossipSend, and there whenever the  *)
(* output does not fit.  Every call main makes gets a slot, such that a    *)
(* party's calls come in the order of their slots and, before the          *)
(* gathering, what one party sends the other reads in the same slot.  Then *)
(* the party in the least slot, or its peer, can always move.              *)
(***************************************************************************)
EXTENDS Frames, Blocking, Basics

-----------------------------------------------------------------------------
(***************************************************************************)
(* Arithmetic of a word.                                                   *)
(***************************************************************************)
LEMMA FrameSizeFacts ==
  /\ FrameBase \in Nat /\ FrameBase > 1 /\ FrameBase % 2 = 0
  /\ IntSize \in Nat /\ IntSize > 0 /\ Capacity \in Nat
  BY SizesAssumption

\* BytePower is the power it is meant to be.
LEMMA PowerFacts ==
  /\ BytePower \in [0 .. IntSize -> Nat] /\ BytePower[0] = 1
  /\ \A k \in 1 .. IntSize : BytePower[k] = BytePower[k-1] * FrameBase
  /\ \A k \in 0 .. IntSize : BytePower[k] > 0
<1>1. FrameBase \in Nat /\ FrameBase > 0 /\ IntSize \in Nat
  BY FrameSizeFacts
<1>2. BytePower \in [0 .. IntSize -> Nat] /\ Powers(BytePower, FrameBase, IntSize)
  BY <1>1, RecursivePowers DEF BytePower
<1> QED
  BY <1>2 DEF Powers

\* The bytes of a word, and what they add up to.
LEMMA HtonlType ==
  ASSUME NEW n \in Nat
  PROVE  /\ Htonl(n) \in [1 .. IntSize -> FrameByte]
         /\ Htonl(n) \in Seq(FrameByte) /\ Len(Htonl(n)) = IntSize
<1>1. ASSUME NEW i \in 1 .. IntSize
      PROVE  (n \div BytePower[IntSize - i]) % FrameBase \in FrameByte
  <2>1. IntSize - i \in 0 .. IntSize
    BY FrameSizeFacts
  <2>2. PICK d \in Nat : d = BytePower[IntSize - i] /\ d > 0
    BY <2>1, PowerFacts
  <2>3. PICK x \in Nat : x = n \div d
    BY <2>2
  <2>4. x % FrameBase \in 0 .. FrameBase-1
    BY <2>3, FrameSizeFacts
  <2> QED
    BY <2>2, <2>3, <2>4 DEF FrameByte
<1>2. Htonl(n) \in [1 .. IntSize -> FrameByte]
  BY <1>1 DEF Htonl
<1> QED
  BY <1>2, FrameSizeFacts

LEMMA WordFacts ==
  ASSUME NEW b \in [1 .. IntSize -> FrameByte]
  PROVE  /\ WordOf(b) \in [0 .. IntSize -> Nat] /\ WordOf(b)[0] = 0
         /\ \A i \in 1 .. IntSize : WordOf(b)[i] = WordOf(b)[i-1] * FrameBase + b[i]
<1> DEFINE F(f) == [i \in 0 .. IntSize |-> IF i = 0 THEN 0 ELSE f[i-1] * FrameBase + b[i]]
<1>1. PICK e \in [0 .. IntSize -> Nat] :
        e[0] = 0 /\ \A i \in 1 .. IntSize : e[i] = e[i-1] * FrameBase + b[i]
  <2>1. b \in [1 .. IntSize -> Nat]
    BY FrameSizeFacts DEF FrameByte
  <2>2. 0 \in Nat /\ IntSize \in Nat /\ FrameBase \in Nat
    BY FrameSizeFacts
  <2>3. \A m \in Nat : \A g \in [1 .. IntSize -> Nat] :
          \E e \in [0 .. IntSize -> Nat] :
            e[0] = 0 /\ \A i \in 1 .. IntSize : e[i] = e[i-1] * m + g[i]
    BY <2>2, Recurrence
  <2> QED
    BY <2>1, <2>2, <2>3
<1>2. e = F(e)
  <2>1. \A i \in 0 .. IntSize : e[i] = IF i = 0 THEN 0 ELSE e[i-1] * FrameBase + b[i]
    BY <1>1, FrameSizeFacts
  <2> QED
    BY <1>1, <2>1
<1>3. WordOf(b) = F(WordOf(b))
  <2>1. WordOf(b) = CHOOSE f : f = F(f)
    BY DEF WordOf
  <2> HIDE DEF F
  <2> QED
    BY <1>2, <2>1
<1> DEFINE S == {i \in 0 .. IntSize : WordOf(b)[i] \in Nat}
<1>4. WordOf(b)[0] = 0
  BY <1>3, FrameSizeFacts
<1>5. \A i \in 1 .. IntSize : WordOf(b)[i] = WordOf(b)[i-1] * FrameBase + b[i]
  BY <1>3, FrameSizeFacts
<1>6. ASSUME NEW i \in 0 .. IntSize-1, i \in S PROVE i + 1 \in S
  <2>1. i + 1 \in 1 .. IntSize /\ (i + 1) - 1 = i
    BY FrameSizeFacts
  <2>2. PICK x \in Nat, y \in Nat : x = WordOf(b)[i] /\ y = b[i+1]
    BY <1>6, <2>1, FrameSizeFacts DEF FrameByte
  <2>3. x * FrameBase + y \in Nat
    BY FrameSizeFacts
  <2> QED
    <3>1. WordOf(b)[i+1] = x * FrameBase + y
      BY <1>5, <2>1, <2>2
    <3> QED
      BY <2>1, <2>3, <3>1, FrameSizeFacts
<1>7. \A i \in 0 .. IntSize : i \in S
  <2>1. 0 \in S
    BY <1>4, FrameSizeFacts
  <2> HIDE DEF S
  <2> QED
    BY <1>6, <2>1, BoundedInduction, FrameSizeFacts
<1>8. WordOf(b) \in [0 .. IntSize -> Nat]
  <2>1. WordOf(b) = [i \in 0 .. IntSize |-> WordOf(b)[i]]
    BY <1>3
  <2> QED
    BY <1>7, <2>1
<1> QED
  BY <1>4, <1>5, <1>8

\* ntohl undoes htonl.
LEMMA WordOfHtonl ==
  ASSUME NEW n \in Nat, n < BytePower[IntSize]
  PROVE  WordOf(Htonl(n))[IntSize] = n
<1>0. PICK b \in [1 .. IntSize -> FrameByte] : b = Htonl(n)
  BY HtonlType
<1> DEFINE S == {i \in 0 .. IntSize : WordOf(b)[i] = n \div BytePower[IntSize - i]}
<1>1. 0 \in S
  <2>1. PICK d \in Nat : d = BytePower[IntSize] /\ d > 0 /\ IntSize - 0 = IntSize
    BY PowerFacts, FrameSizeFacts
  <2>3. n \div d = 0
    BY <2>1, SmallQuotient
  <2> QED
    BY <2>1, <2>3, WordFacts, FrameSizeFacts
<1>2. ASSUME NEW i \in 0 .. IntSize-1, i \in S PROVE i + 1 \in S
  <2>1. /\ i + 1 \in 1 .. IntSize /\ (i + 1) - 1 = i
        /\ IntSize - i \in 1 .. IntSize /\ IntSize - (i + 1) \in 0 .. IntSize
        /\ (IntSize - i) - 1 = IntSize - (i + 1)
    BY FrameSizeFacts
  <2>2. PICK d \in Nat : d = BytePower[IntSize - (i + 1)] /\ d > 0
    BY <2>1, PowerFacts
  <2>3. BytePower[IntSize - i] = d * FrameBase
    BY <2>1, <2>2, PowerFacts
  <2>4. PICK m \in Nat : m = FrameBase /\ m > 0
    BY FrameSizeFacts
  <2>5. PICK c : c = n \div (d * m) /\ WordOf(b)[i] = c
    BY <1>2, <2>3, <2>4
  <2>6. c * m + ((n \div d) % m) = n \div d
    BY <2>2, <2>4, <2>5, HornerStep
  <2>7. b[i+1] = (n \div d) % m
    BY <1>0, <2>1, <2>2, <2>4 DEF Htonl
  <2>8. WordOf(b)[i+1] = WordOf(b)[i] * m + b[i+1]
    BY <2>1, <2>4, WordFacts
  <2>9. WordOf(b)[i+1] = n \div d
    BY <2>5, <2>6, <2>7, <2>8
  <2> QED
    BY <2>1, <2>2, <2>9, FrameSizeFacts
<1>3. IntSize \in S
  <2>1. \A i \in 0 .. IntSize : i \in S
    <3> HIDE DEF S
    <3> QED
      BY <1>1, <1>2, BoundedInduction, FrameSizeFacts
  <2> HIDE DEF S
  <2> QED
    BY <2>1, FrameSizeFacts
<1>4. n \div BytePower[IntSize - IntSize] = n
  <2>1. BytePower[IntSize - IntSize] = 1
    BY PowerFacts, FrameSizeFacts
  <2>2. n \div 1 = n
    BY SmallQuotient
  <2> QED
    BY <2>1, <2>2
<1> QED
  BY <1>0, <1>3, <1>4

\* What socket_read makes of the length of a frame: the length, if it fits.
LEMMA LengthRead ==
  ASSUME NEW n \in Nat, n < BytePower[IntSize]
  PROVE  /\ n <= MaxInt => Ntohl(Htonl(n)) = n
         /\ n > MaxInt => Ntohl(Htonl(n)) < 0
<1>0. PICK d \in Nat : d = BytePower[IntSize] /\ n < d
  BY PowerFacts, FrameSizeFacts
<1>1. PICK h \in Int : h = MaxInt
  BY <1>0 DEF MaxInt
<1>2. Ntohl(Htonl(n)) = IF n > h THEN n - d ELSE n
  BY <1>0, <1>1, WordOfHtonl DEF Ntohl
<1> QED
  BY <1>0, <1>1, <1>2

-----------------------------------------------------------------------------
(***************************************************************************)
(* The invariant: what has been sent and not been returned is the tail of  *)
(* one long text, the frames of all calls one after the other, and the     *)
(* reader knows where in it it stands.                                     *)
(***************************************************************************)
AllCalls == sent \o toSend

Frame(m) == Htonl(Len(m)) \o m

\* Where in the text the frames of the calls c end.
FrameEnds(c) ==
  LET end[j \in 0 .. Len(c)] == IF j = 0 THEN 0 ELSE end[j-1] + (IntSize + Len(c[j]))
  IN  end

\* u is the text of the first b of the calls c from byte k + 1 on; frames up to
\* the r-th do not matter any more.
Pending(u, c, r, b, k) ==
  /\ k + Len(u) = FrameEnds(c)[b]
  /\ \A j \in r+1 .. b : \A i \in 1 .. IntSize + Len(c[j]) :
       k < FrameEnds(c)[j-1] + i => u[FrameEnds(c)[j-1] + i - k] = Frame(c[j])[i]

\* Bytes that have been handed to socket_send and not yet been used.
Unread == got \o (stream \o out)

\* How many calls have begun, and how many bytes have been used.
Begun == Len(sent) + IF out = <<>> THEN 0 ELSE 1
Used  == FrameEnds(AllCalls)[Len(received)] + IF phase = "data" THEN IntSize ELSE 0

FramesTypeOK ==
  /\ toSend \in Seq(Seq(FrameByte)) /\ sent \in Seq(Seq(FrameByte))
  /\ received \in Seq(Seq(FrameByte))
  /\ out \in Seq(FrameByte) /\ stream \in Seq(FrameByte) /\ got \in Seq(FrameByte)
  /\ open \in BOOLEAN /\ phase \in {"length", "data", "threw"} /\ want \in Nat

SendInv ==
  /\ AllCalls \in Streams
  /\ out # <<>> => toSend # <<>> /\ Len(out) <= IntSize + Len(Head(toSend))

ReadInv ==
  /\ Len(received) <= Len(sent)
  /\ \A i \in 1 .. Len(received) : received[i] = sent[i]
  /\ Len(got) <= want
  /\ phase = "length" => want = IntSize
  /\ phase = "data" => Len(received) < Begun /\ want = Len(AllCalls[Len(received) + 1])

TextInv == Reading => Pending(Unread, AllCalls, Len(received), Begun, Used)

FramesInv == FramesTypeOK /\ SendInv /\ ReadInv /\ TextInv /\ ThrowsForCause

Text == Seq(FrameByte)

-----------------------------------------------------------------------------
(***************************************************************************)
(* Facts about the text.                                                   *)
(***************************************************************************)
LEMMA FrameType ==
  ASSUME NEW m \in Text
  PROVE  Frame(m) \in Text /\ Len(Frame(m)) = IntSize + Len(m)
<1>1. Len(m) \in Nat
  BY DEF Text
<1>2. PICK h \in Seq(FrameByte) : h = Htonl(Len(m)) /\ Len(h) = IntSize
  BY <1>1, HtonlType
<1>3. h \o m \in Seq(FrameByte) /\ Len(h \o m) = Len(h) + Len(m)
  BY ConcatProperties DEF Text
<1> QED
  BY <1>2, <1>3 DEF Frame, Text

\* The first bytes of a frame are its length, the others its data.
LEMMA FrameParts ==
  ASSUME NEW m \in Text
  PROVE  /\ \A i \in 1 .. IntSize : Frame(m)[i] = Htonl(Len(m))[i]
         /\ \A i \in 1 .. Len(m) : Frame(m)[IntSize + i] = m[i]
<1>1. Len(m) \in Nat
  BY DEF Text
<1>2. PICK h \in Seq(FrameByte) : h = Htonl(Len(m)) /\ Len(h) = IntSize
  BY <1>1, HtonlType
<1>3. \A i \in 1 .. Len(h) + Len(m) :
        (h \o m)[i] = IF i <= Len(h) THEN h[i] ELSE m[i - Len(h)]
  BY ConcatProperties DEF Text
<1>4. ASSUME NEW i \in 1 .. IntSize PROVE (h \o m)[i] = h[i]
  BY <1>1, <1>2, <1>3, FrameSizeFacts
<1>5. ASSUME NEW i \in 1 .. Len(m) PROVE (h \o m)[IntSize + i] = m[i]
  <2>1. /\ IntSize + i \in 1 .. IntSize + Len(m) /\ ~(IntSize + i <= IntSize)
        /\ (IntSize + i) - IntSize = i
    BY <1>1, FrameSizeFacts
  <2> QED
    BY <1>2, <1>3, <2>1
<1> QED
  BY <1>2, <1>4, <1>5 DEF Frame

LEMMA EndsFacts ==
  ASSUME NEW c \in Seq(Text)
  PROVE  /\ FrameEnds(c) \in [0 .. Len(c) -> Nat] /\ FrameEnds(c)[0] = 0
         /\ \A j \in 1 .. Len(c) : FrameEnds(c)[j] = FrameEnds(c)[j-1] + (IntSize + Len(c[j]))
<1> DEFINE F(f) == [j \in 0 .. Len(c) |->
                      IF j = 0 THEN 0 ELSE f[j-1] + (IntSize + Len(c[j]))]
<1>0. /\ Len(c) \in Nat
      /\ \A j \in 1 .. Len(c) : Len(c[j]) \in Nat
  BY DEF Text
<1>1. PICK g \in [1 .. Len(c) -> Nat] : \A j \in 1 .. Len(c) : g[j] = IntSize + Len(c[j])
  <2>1. [j \in 1 .. Len(c) |-> IntSize + Len(c[j])] \in [1 .. Len(c) -> Nat]
    BY <1>0, FrameSizeFacts
  <2> QED
    BY <2>1
<1>2. PICK e \in [0 .. Len(c) -> Nat] :
        e[0] = 0 /\ \A j \in 1 .. Len(c) : e[j] = e[j-1] * 1 + g[j]
  <2>1. 0 \in Nat /\ 1 \in Nat
    OBVIOUS
  <2>2. \A m \in Nat : \A f \in [1 .. Len(c) -> Nat] :
          \E e \in [0 .. Len(c) -> Nat] :
            e[0] = 0 /\ \A j \in 1 .. Len(c) : e[j] = e[j-1] * m + f[j]
    BY <1>0, <2>1, Recurrence
  <2> QED
    BY <2>1, <2>2
<1>3. ASSUME NEW j \in 1 .. Len(c)
      PROVE  e[j] = e[j-1] + (IntSize + Len(c[j])) /\ e[j-1] \in Nat
  <2>1. j - 1 \in 0 .. Len(c)
    BY <1>0
  <2>2. PICK x \in Nat, y \in Nat : x = e[j-1] /\ y = g[j]
    BY <2>1
  <2>3. e[j] = x * 1 + y /\ x * 1 = x
    BY <1>2, <2>2
  <2> QED
    BY <1>1, <2>2, <2>3
<1>4. e = F(e)
  <2>1. \A j \in 0 .. Len(c) : e[j] = IF j = 0 THEN 0 ELSE e[j-1] + (IntSize + Len(c[j]))
    BY <1>0, <1>2, <1>3
  <2> QED
    BY <1>2, <2>1
<1>5. FrameEnds(c) = F(FrameEnds(c))
  <2>1. FrameEnds(c) = CHOOSE f : f = F(f)
    BY DEF FrameEnds
  <2> HIDE DEF F
  <2> QED
    BY <1>4, <2>1
<1> DEFINE S == {j \in 0 .. Len(c) : FrameEnds(c)[j] \in Nat}
<1>6. FrameEnds(c)[0] = 0
  BY <1>0, <1>5
<1>7. \A j \in 1 .. Len(c) : FrameEnds(c)[j] = FrameEnds(c)[j-1] + (IntSize + Len(c[j]))
  BY <1>0, <1>5
<1>8. ASSUME NEW j \in 0 .. Len(c)-1, j \in S PROVE j + 1 \in S
  <2>1. j + 1 \in 1 .. Len(c) /\ (j + 1) - 1 = j
    BY <1>0
  <2> QED
    BY <1>0, <1>7, <1>8, <2>1, FrameSizeFacts
<1>9. \A j \in 0 .. Len(c) : j \in S
  <2>1. 0 \in S
    BY <1>0, <1>6
  <2> HIDE DEF S
  <2> QED
    BY <1>0, <1>8, <2>1, BoundedInduction
<1>10. FrameEnds(c) \in [0 .. Len(c) -> Nat]
  <2>1. FrameEnds(c) = [j \in 0 .. Len(c) |-> FrameEnds(c)[j]]
    BY <1>5
  <2> QED
    BY <1>9, <2>1
<1> QED
  BY <1>6, <1>7, <1>10

\* Later frames end later.
LEMMA EndsGrow ==
  ASSUME NEW c \in Seq(Text), NEW i \in 0 .. Len(c), NEW j \in i .. Len(c)
  PROVE  FrameEnds(c)[i] <= FrameEnds(c)[j]
<1> DEFINE S == {k \in 0 .. Len(c) : i <= k => FrameEnds(c)[i] <= FrameEnds(c)[k]}
<1>0. Len(c) \in Nat
  OBVIOUS
<1>1. 0 \in S
  <2>1. i <= 0 => i = 0
    OBVIOUS
  <2>2. FrameEnds(c)[0] <= FrameEnds(c)[0]
    BY EndsFacts
  <2> QED
    BY <1>0, <2>1, <2>2
<1>2. ASSUME NEW k \in 0 .. Len(c)-1, k \in S PROVE k + 1 \in S
  <2>1. k + 1 \in 1 .. Len(c) /\ (k + 1) - 1 = k /\ k \in 0 .. Len(c) /\ k + 1 \in 0 .. Len(c)
    BY <1>0
  <2>2. PICK x \in Nat, y \in Nat, z \in Nat, l \in Nat :
          x = FrameEnds(c)[i] /\ y = FrameEnds(c)[k] /\ z = FrameEnds(c)[k+1] /\ z = y + (IntSize + l)
    <3>1. c[k+1] \in Text /\ Len(c[k+1]) \in Nat
      BY <2>1 DEF Text
    <3>2. FrameEnds(c)[i] \in Nat /\ FrameEnds(c)[k] \in Nat /\ FrameEnds(c)[k+1] \in Nat
      BY <2>1, EndsFacts
    <3>3. FrameEnds(c)[k+1] = FrameEnds(c)[k] + (IntSize + Len(c[k+1]))
      BY <2>1, EndsFacts
    <3> QED
      BY <3>1, <3>2, <3>3
  <2>3. i <= k => x <= y
    BY <1>2, <2>2
  <2>4. i <= k + 1 => x <= z
    <3>1. CASE i = k + 1
      <4>1. x = z
        BY <2>2, <3>1
      <4> QED
        BY <4>1
    <3>2. CASE i # k + 1
      BY <2>2, <2>3, <3>2, FrameSizeFacts
    <3> QED
      BY <3>1, <3>2
  <2> QED
    BY <2>1, <2>2, <2>4
<1>3. \A k \in 0 .. Len(c) : k \in S
  <2> HIDE DEF S
  <2> QED
    BY <1>0, <1>1, <1>2, BoundedInduction
<1>4. j \in S
  <2>1. j \in 0 .. Len(c)
    OBVIOUS
  <2> HIDE DEF S
  <2> QED
    BY <1>3, <2>1
<1> QED
  BY <1>4

\* Byte i of a frame that starts after e of g bytes, of which k + n are used.
LEMMA Position ==
  ASSUME NEW e \in Nat, NEW w \in Nat, NEW g \in Nat, e + w <= g, NEW i \in 1 .. w,
         NEW k \in Nat, NEW n \in Nat, NEW q \in Nat, (k + n) + q = g
  PROVE  /\ k + n < e + i =>
              /\ e + i - k \in 1 .. n + q /\ ~(e + i - k <= n)
              /\ (e + i - k) - n = e + i - (k + n)
         /\ k < e + i => e + i - k \in 1 .. n + q
  OBVIOUS

\* Bytes that have been used are no longer needed.
LEMMA Cut ==
  ASSUME NEW x \in Text, NEW y \in Text, NEW c \in Seq(Text),
         NEW b \in 0 .. Len(c), NEW r \in 0 .. b, NEW r2 \in r .. b, NEW k \in Nat,
         Pending(x \o y, c, r, b, k)
  PROVE  Pending(y, c, r2, b, k + Len(x))
<1>1. /\ Len(x) \in Nat /\ Len(y) \in Nat /\ Len(x \o y) = Len(x) + Len(y)
      /\ \A i \in 1 .. Len(x) + Len(y) : (x \o y)[i] = IF i <= Len(x) THEN x[i] ELSE y[i - Len(x)]
  BY ConcatProperties DEF Text
<1>2. PICK n \in Nat : n = Len(x)
  BY <1>1
<1>3. k + Len(x \o y) = FrameEnds(c)[b]
  BY DEF Pending
<1>4. (k + n) + Len(y) = FrameEnds(c)[b]
  BY <1>1, <1>2, <1>3
<1>5. ASSUME NEW j \in r2+1 .. b, NEW i \in 1 .. IntSize + Len(c[j]),
             k + n < FrameEnds(c)[j-1] + i
      PROVE  y[FrameEnds(c)[j-1] + i - (k + n)] = Frame(c[j])[i]
  <2>1. /\ j \in 1 .. Len(c) /\ j - 1 \in 0 .. Len(c) /\ j \in r+1 .. b /\ j \in 0 .. Len(c)
        /\ b \in j .. Len(c) /\ Len(c) \in Nat
    OBVIOUS
  <2>2. c[j] \in Text /\ Len(c[j]) \in Nat
    BY <2>1 DEF Text
  <2>3. PICK e \in Nat, f \in Nat, l \in Nat, g \in Nat :
          /\ e = FrameEnds(c)[j-1] /\ f = FrameEnds(c)[j] /\ f = e + (IntSize + l) /\ l = Len(c[j])
          /\ g = FrameEnds(c)[b] /\ f <= g
    <3>1. FrameEnds(c)[j-1] \in Nat /\ FrameEnds(c)[j] \in Nat /\ FrameEnds(c)[b] \in Nat
      BY <2>1, EndsFacts
    <3>2. FrameEnds(c)[j] = FrameEnds(c)[j-1] + (IntSize + Len(c[j]))
      BY <2>1, EndsFacts
    <3>3. FrameEnds(c)[j] <= FrameEnds(c)[b]
      BY <2>1, EndsGrow
    <3> QED
      BY <2>2, <3>1, <3>2, <3>3
  <2>4. k < e + i /\ k + n < e + i
    BY <1>5, <2>3
  <2>5. (x \o y)[e + i - k] = Frame(c[j])[i]
    BY <2>1, <2>3, <2>4 DEF Pending
  <2>6. /\ e + i - k \in 1 .. n + Len(y) /\ ~(e + i - k <= n)
        /\ (e + i - k) - n = e + i - (k + n)
    <3>1. PICK q \in Nat : q = Len(y) /\ (k + n) + q = g
      BY <1>1, <1>4, <2>3
    <3>2. PICK w \in Nat : w = IntSize + l /\ i \in 1 .. w /\ e + w <= g
      BY <2>3, FrameSizeFacts
    <3>4. e + i - k \in 1 .. n + q /\ ~(e + i - k <= n) /\ (e + i - k) - n = e + i - (k + n)
      BY <2>4, <3>1, <3>2, Position
    <3> QED
      BY <3>1, <3>4
  <2>7. (x \o y)[e + i - k] = y[(e + i - k) - n]
    BY <1>1, <1>2, <2>6
  <2> QED
    BY <2>3, <2>5, <2>6, <2>7
<1> QED
  BY <1>2, <1>4, <1>5 DEF Pending

\* A call of socket_send adds its frame.
LEMMA Extend ==
  ASSUME NEW u \in Text, NEW c \in Seq(Text),
         NEW b \in 0 .. Len(c), NEW r \in 0 .. b, NEW k \in Nat, b < Len(c),
         Pending(u, c, r, b, k)
  PROVE  Pending(u \o Frame(c[b+1]), c, r, b + 1, k)
<1>0. PICK m \in Text : m = c[b+1]
  OBVIOUS
<1>1. PICK f \in Text, l \in Nat : f = Frame(m) /\ l = Len(m) /\ Len(f) = IntSize + l
  <2>1. Len(m) \in Nat
    BY DEF Text
  <2> QED
    BY <2>1, FrameType
<1>2. /\ Len(u) \in Nat /\ Len(f) \in Nat /\ Len(u \o f) = Len(u) + Len(f)
      /\ \A i \in 1 .. Len(u) + Len(f) : (u \o f)[i] = IF i <= Len(u) THEN u[i] ELSE f[i - Len(u)]
  BY ConcatProperties DEF Text
<1>3. PICK n \in Nat, e \in Nat :
        n = Len(u) /\ e = FrameEnds(c)[b] /\ k + n = e /\ FrameEnds(c)[b+1] = e + (IntSize + l)
  <2>1. b + 1 \in 1 .. Len(c) /\ (b + 1) - 1 = b
    OBVIOUS
  <2>2. FrameEnds(c)[b] \in Nat /\ FrameEnds(c)[b+1] = FrameEnds(c)[b] + (IntSize + Len(c[b+1]))
    BY <2>1, EndsFacts
  <2>3. k + Len(u) = FrameEnds(c)[b]
    BY DEF Pending
  <2> QED
    BY <1>0, <1>1, <1>2, <2>2, <2>3
<1>4. k + Len(u \o f) = FrameEnds(c)[b+1]
  BY <1>1, <1>2, <1>3, FrameSizeFacts
<1>5. ASSUME NEW j \in r+1 .. b+1, NEW i \in 1 .. IntSize + Len(c[j]), k < FrameEnds(c)[j-1] + i
      PROVE  (u \o f)[FrameEnds(c)[j-1] + i - k] = Frame(c[j])[i]
  <2>1. CASE j = b + 1
    <3>1. c[j] = m /\ FrameEnds(c)[j-1] = e /\ i \in 1 .. IntSize + l /\ k + n = e
      <4>1. j - 1 = b
        BY <2>1
      <4> QED
        BY <1>0, <1>1, <1>3, <1>5, <2>1, <4>1
    <3>2. e + i - k \in 1 .. n + (IntSize + l) /\ ~(e + i - k <= n) /\ (e + i - k) - n = i
      BY <3>1, FrameSizeFacts
    <3>3. (u \o f)[e + i - k] = f[(e + i - k) - n]
      BY <1>1, <1>2, <1>3, <3>2
    <3> QED
      BY <1>1, <3>1, <3>2, <3>3
  <2>2. CASE j # b + 1
    <3>1. /\ j \in r+1 .. b /\ j \in 1 .. Len(c) /\ j - 1 \in 0 .. Len(c) /\ j \in 0 .. Len(c)
          /\ b \in j .. Len(c)
      BY <2>2
    <3>2. PICK d \in Nat, h \in Nat, q \in Nat :
            d = FrameEnds(c)[j-1] /\ h = FrameEnds(c)[j] /\ h = d + (IntSize + q) /\ q = Len(c[j]) /\ h <= e
      <4>1. FrameEnds(c)[j-1] \in Nat /\ FrameEnds(c)[j] \in Nat /\ Len(c[j]) \in Nat
        <5>1. c[j] \in Text
          BY <3>1
        <5>2. Len(c[j]) \in Nat
          BY <5>1 DEF Text
        <5>3. FrameEnds(c)[j-1] \in Nat /\ FrameEnds(c)[j] \in Nat
          BY <3>1, EndsFacts
        <5> QED
          BY <5>2, <5>3
      <4>2. FrameEnds(c)[j] = FrameEnds(c)[j-1] + (IntSize + Len(c[j]))
        BY <3>1, EndsFacts
      <4>3. FrameEnds(c)[j] <= FrameEnds(c)[b]
        BY <3>1, EndsGrow
      <4> QED
        BY <1>3, <4>1, <4>2, <4>3
    <3>3. k < d + i
      BY <1>5, <3>2
    <3>4. u[d + i - k] = Frame(c[j])[i]
      BY <3>1, <3>2, <3>3 DEF Pending
    <3>5. i \in 1 .. IntSize + q
      BY <1>5, <3>2
    <3>6. d + i - k \in 1 .. n /\ d + i - k \in 1 .. n + Len(f)
      <4>1. PICK w \in Nat : w = IntSize + q /\ i \in 1 .. w /\ d + w <= e
        BY <3>2, <3>5, FrameSizeFacts
      <4>2. (k + 0) + n = e
        BY <1>3
      <4>3. d + i - k \in 1 .. 0 + n
        BY <1>3, <3>3, <4>1, <4>2, Position
      <4>4. PICK z \in Nat : z = Len(f)
        BY <1>2
      <4> QED
        BY <1>3, <4>3, <4>4
    <3>7. (u \o f)[d + i - k] = u[d + i - k]
      BY <1>2, <1>3, <3>6
    <3> QED
      BY <3>2, <3>4, <3>7
  <2> QED
    BY <2>1, <2>2
<1>6. Pending(u \o f, c, r, b + 1, k)
  BY <1>4, <1>5 DEF Pending
<1> QED
  BY <1>0, <1>1, <1>6

-----------------------------------------------------------------------------
(***************************************************************************)
(* The steps.                                                              *)
(***************************************************************************)
LEMMA Associative ==
  ASSUME NEW x \in Text, NEW y \in Text, NEW z \in Text
  PROVE  (x \o y) \o z = x \o (y \o z)
  BY ConcatAssociative DEF Text

\* Moving the first k elements of y to the end of x.
LEMMA MoveFirst ==
  ASSUME NEW x \in Text, NEW y \in Text, NEW k \in 1 .. Len(y)
  PROVE  /\ SubSeq(y, 1, k) \in Text /\ Len(SubSeq(y, 1, k)) = k
         /\ SubSeq(y, k + 1, Len(y)) \in Text /\ Len(SubSeq(y, k + 1, Len(y))) = Len(y) - k
         /\ (x \o SubSeq(y, 1, k)) \o SubSeq(y, k + 1, Len(y)) = x \o y
<1>0. Len(y) \in Nat /\ \A i \in 1 .. Len(y) : y[i] \in FrameByte
  BY DEF Text
<1>1. SubSeq(y, 1, k) \in Seq(FrameByte) /\ Len(SubSeq(y, 1, k)) = k
  <2>1. \A i \in 1 .. k : y[i] \in FrameByte
    BY <1>0
  <2> QED
    BY <1>0, <2>1, SubSeqProperties
<1>2. SubSeq(y, k + 1, Len(y)) \in Seq(FrameByte) /\ Len(SubSeq(y, k + 1, Len(y))) = Len(y) - k
  <2>1. \A i \in k + 1 .. Len(y) : y[i] \in FrameByte
    BY <1>0
  <2>2. k + 1 \in Int /\ Len(y) \in Int /\ (k + 1 <= Len(y) \/ Len(y) = k)
    BY <1>0
  <2>3. /\ SubSeq(y, k + 1, Len(y)) \in Seq(FrameByte)
        /\ Len(SubSeq(y, k + 1, Len(y))) =
             IF k + 1 <= Len(y) THEN Len(y) - (k + 1) + 1 ELSE 0
    BY <2>1, <2>2, SubSeqProperties
  <2> QED
    BY <1>0, <2>3
<1>3. SubSeq(y, 1, k) \o SubSeq(y, k + 1, Len(y)) = y
  <2>1. 1 \in 1 .. Len(y) + 1 /\ k \in 1 - 1 .. Len(y) /\ Len(y) \in k .. Len(y)
    BY <1>0
  <2>2. SubSeq(y, 1, k) \o SubSeq(y, k + 1, Len(y)) = SubSeq(y, 1, Len(y))
    BY <2>1, ConcatAdjacentSubSeq DEF Text
  <2> QED
    BY <2>2, SubSeqFull DEF Text
<1>4. (x \o SubSeq(y, 1, k)) \o SubSeq(y, k + 1, Len(y)) = x \o y
  <2>1. PICK v \in Text, z \in Text : v = SubSeq(y, 1, k) /\ z = SubSeq(y, k + 1, Len(y))
    BY <1>1, <1>2 DEF Text
  <2>2. (x \o v) \o z = x \o (v \o z)
    BY Associative
  <2> QED
    BY <1>3, <2>1, <2>2
<1> QED
  BY <1>1, <1>2, <1>4 DEF Text

LEMMA StreamFacts ==
  ASSUME NEW s \in Streams
  PROVE  s \in Seq(Text) /\ \A i \in 1 .. Len(s) : Len(s[i]) < BytePower[IntSize]
  BY StreamsAssumption DEF Text

LEMMA StateFacts ==
  ASSUME FramesInv
  PROVE  /\ Len(sent) \in Nat /\ Len(toSend) \in Nat /\ Len(received) \in Nat
         /\ Len(out) \in Nat /\ Len(stream) \in Nat /\ Len(got) \in Nat
         /\ AllCalls \in Seq(Text) /\ Len(AllCalls) = Len(sent) + Len(toSend)
         /\ \A i \in 1 .. Len(sent) : AllCalls[i] = sent[i]
         /\ toSend # <<>> =>
              Head(toSend) \in Text /\ AllCalls[Len(sent) + 1] = Head(toSend) /\ Len(sent) < Len(AllCalls)
         /\ Begun \in 0 .. Len(AllCalls) /\ Len(sent) <= Begun
         /\ Len(received) \in 0 .. Begun /\ Len(received) \in 0 .. Len(AllCalls)
         /\ FrameEnds(AllCalls)[Len(received)] \in Nat /\ Used \in Nat
         /\ Unread \in Text /\ Len(Unread) = Len(got) + (Len(stream) + Len(out))
<1>1. /\ toSend \in Seq(Text) /\ sent \in Seq(Text) /\ received \in Seq(Text)
      /\ out \in Text /\ stream \in Text /\ got \in Text
  BY DEF FramesInv, FramesTypeOK, Text
<1>2. /\ Len(sent) \in Nat /\ Len(toSend) \in Nat /\ Len(received) \in Nat
      /\ Len(out) \in Nat /\ Len(stream) \in Nat /\ Len(got) \in Nat
  BY <1>1 DEF Text
<1>3. /\ AllCalls \in Seq(Text) /\ Len(AllCalls) = Len(sent) + Len(toSend)
      /\ \A i \in 1 .. Len(sent) + Len(toSend) :
           AllCalls[i] = IF i <= Len(sent) THEN sent[i] ELSE toSend[i - Len(sent)]
  BY <1>1, ConcatProperties DEF AllCalls
<1>4. \A i \in 1 .. Len(sent) : AllCalls[i] = sent[i]
  BY <1>2, <1>3
<1>5. ASSUME toSend # <<>>
      PROVE  Head(toSend) \in Text /\ AllCalls[Len(sent) + 1] = Head(toSend) /\ Len(sent) < Len(AllCalls)
  <2>1. Head(toSend) \in Text /\ Head(toSend) = toSend[1] /\ Len(toSend) > 0
    BY <1>1, <1>5
  <2>2. /\ Len(sent) + 1 \in 1 .. Len(sent) + Len(toSend) /\ ~(Len(sent) + 1 <= Len(sent))
        /\ (Len(sent) + 1) - Len(sent) = 1
    BY <1>2, <2>1
  <2> QED
    BY <1>2, <1>3, <2>1, <2>2
<1>6. Begun \in 0 .. Len(AllCalls) /\ Len(sent) <= Begun
  <2>1. out # <<>> => Len(sent) < Len(AllCalls)
    BY <1>5 DEF FramesInv, SendInv
  <2> QED
    BY <1>2, <1>3, <2>1 DEF Begun
<1>7. Len(received) <= Len(sent)
  BY DEF FramesInv, ReadInv
<1>8. Len(received) \in 0 .. Begun /\ Len(received) \in 0 .. Len(AllCalls)
  BY <1>2, <1>3, <1>6, <1>7
<1>9. FrameEnds(AllCalls)[Len(received)] \in Nat
  BY <1>3, <1>8, EndsFacts
<1>10. Used \in Nat
  BY <1>9, FrameSizeFacts DEF Used
<1>11. Unread \in Text /\ Len(Unread) = Len(got) + (Len(stream) + Len(out))
  <2>1. stream \o out \in Text /\ Len(stream \o out) = Len(stream) + Len(out)
    BY <1>1, ConcatProperties DEF Text
  <2> QED
    BY <1>1, <2>1, ConcatProperties DEF Text, Unread
<1> QED
  BY <1>2, <1>3, <1>4, <1>5, <1>6, <1>8, <1>9, <1>10, <1>11

LEMMA InvInit == FramesInit => FramesInv
<1> SUFFICES ASSUME FramesInit PROVE FramesInv
  OBVIOUS
<1>1. toSend \in Seq(Text) /\ AllCalls = toSend
  <2>1. toSend \in Seq(Text)
    BY StreamFacts DEF FramesInit
  <2> QED
    BY <2>1, ConcatEmptySeq DEF FramesInit, AllCalls
<1>2. Len(toSend) \in Nat /\ FrameEnds(AllCalls)[0] = 0
  BY <1>1, EndsFacts
<1>3. FramesTypeOK
  BY <1>1, FrameSizeFacts DEF FramesInit, FramesTypeOK, Text
<1>4. SendInv /\ ReadInv /\ ThrowsForCause
  BY <1>1, FrameSizeFacts DEF FramesInit, SendInv, ReadInv, ThrowsForCause
<1>5. TextInv
  <2>1. Unread = <<>> /\ Len(received) = 0 /\ Begun = 0 /\ Used = 0
    <3>1. /\ Begun = 0 + 0 /\ Used = FrameEnds(AllCalls)[0] + 0 /\ Len(received) = 0
      BY DEF FramesInit, Begun, Used
    <3>2. Unread = <<>>
      BY DEF FramesInit, Unread
    <3> QED
      BY <1>2, <3>1, <3>2
  <2>2. Pending(<<>>, AllCalls, 0, 0, 0)
    BY <1>2 DEF Pending
  <2> QED
    BY <2>1, <2>2 DEF TextInv
<1> QED
  BY <1>3, <1>4, <1>5 DEF FramesInv

\* What stays when neither the calls nor what has been returned change, and the
\* bytes not used yet are the same, however they are divided.
LEMMA SameText ==
  ASSUME FramesInv, AllCalls' = AllCalls, received' = received, phase' = phase,
         Unread' = Unread, Begun' = Begun
  PROVE  TextInv'
<1>1. Used' = Used
  BY DEF Used
<1>2. Reading' => Reading
  BY DEF Reading
<1>3. Reading => Pending(Unread, AllCalls, Len(received), Begun, Used)
  BY DEF FramesInv, TextInv
<1>4. Pending(Unread, AllCalls, Len(received), Begun, Used)' <=>
        Pending(Unread, AllCalls, Len(received), Begun, Used)
  BY <1>1 DEF Pending
<1> QED
  BY <1>2, <1>3, <1>4 DEF TextInv

LEMMA CauseKept ==
  ASSUME FramesInv, AllCalls' = AllCalls, received' = received, phase' = phase,
         ~open => open' = open /\ sent' = sent
  PROVE  ThrowsForCause'
<1>1. Oversize' <=> Oversize
  BY DEF Oversize, AllCalls
<1> QED
  BY <1>1 DEF FramesInv, FramesTypeOK, ThrowsForCause

LEMMA SocketSendStep == FramesInv /\ SocketSend => FramesInv'
<1> SUFFICES ASSUME FramesInv, SocketSend PROVE FramesInv'
  OBVIOUS
<1>1. /\ out = <<>> /\ toSend # <<>> /\ out' = Frame(Head(toSend))
      /\ toSend' = toSend /\ sent' = sent /\ received' = received /\ open' = open
      /\ stream' = stream /\ phase' = phase /\ want' = want /\ got' = got
  BY DEF SocketSend, Frame
<1>2. PICK m \in Text, f \in Text :
        /\ m = Head(toSend) /\ f = Frame(m) /\ f = out' /\ Len(m) \in Nat
        /\ Len(f) = IntSize + Len(m) /\ f # <<>>
  <2>1. PICK m \in Text : m = Head(toSend)
    BY <1>1, StateFacts
  <2>2. Len(m) \in Nat
    BY DEF Text
  <2>3. Frame(m) \in Text /\ Len(Frame(m)) = IntSize + Len(m)
    BY FrameType
  <2>4. Frame(m) # <<>>
    BY <2>2, <2>3, FrameSizeFacts
  <2> QED
    BY <1>1, <2>1, <2>2, <2>3, <2>4
<1>3. AllCalls' = AllCalls
  BY <1>1 DEF AllCalls
<1>4. Begun = Len(sent) /\ Begun' = Len(sent) + 1 /\ Len(sent) \in Nat
  BY <1>1, <1>2, StateFacts DEF Begun
<1>5. FramesTypeOK'
  BY <1>1, <1>2 DEF FramesInv, FramesTypeOK, Text
<1>6. SendInv'
  BY <1>1, <1>2, <1>3 DEF FramesInv, SendInv
<1>7. ReadInv'
  <2>1. Len(received) < Begun => Len(received) < Begun'
    BY <1>4, StateFacts
  <2> QED
    BY <1>1, <1>3, <2>1 DEF FramesInv, ReadInv
<1>8. TextInv'
  <2> SUFFICES ASSUME Reading PROVE Pending(Unread', AllCalls, Len(received), Len(sent) + 1, Used)
    BY <1>1, <1>3, <1>4 DEF TextInv, Reading, Used
  <2>1. /\ AllCalls \in Seq(Text) /\ Unread \in Text /\ Used \in Nat
        /\ Len(sent) \in 0 .. Len(AllCalls) /\ Len(received) \in 0 .. Len(sent)
        /\ Len(sent) < Len(AllCalls) /\ AllCalls[Len(sent) + 1] = m
    BY <1>1, <1>2, <1>4, StateFacts
  <2>2. Pending(Unread, AllCalls, Len(received), Len(sent), Used)
    BY <1>4 DEF FramesInv, TextInv
  <2>3. Pending(Unread \o Frame(AllCalls[Len(sent) + 1]), AllCalls, Len(received), Len(sent) + 1, Used)
    BY <2>1, <2>2, Extend
  <2>4. Unread' = Unread \o f
    <3>1. got \in Text /\ stream \in Text
      BY DEF FramesInv, FramesTypeOK, Text
    <3>2. stream \o out = stream /\ Unread = got \o stream
      BY <1>1, <3>1, ConcatEmptySeq DEF Text, Unread
    <3>3. (got \o stream) \o f = got \o (stream \o f)
      BY <3>1, Associative
    <3>4. Unread' = got \o (stream \o f)
      BY <1>1, <1>2 DEF Unread
    <3> QED
      BY <3>2, <3>3, <3>4
  <2> QED
    BY <1>2, <2>1, <2>3, <2>4
<1>9. ThrowsForCause'
  BY <1>1, <1>3, CauseKept
<1> QED
  BY <1>5, <1>6, <1>7, <1>8, <1>9 DEF FramesInv

LEMMA WriteSomeStep ==
  ASSUME FramesInv, NEW k \in 1 .. Len(out), WriteSome(k)
  PROVE  FramesInv' /\ AllCalls' = AllCalls
<1>0. /\ toSend \in Seq(Text) /\ sent \in Seq(Text)
      /\ out \in Text /\ stream \in Text /\ got \in Text /\ Len(out) \in Nat
  BY DEF FramesInv, FramesTypeOK, Text
<1>1. /\ open /\ open' = open /\ phase' = phase /\ want' = want /\ got' = got
      /\ received' = received /\ out # <<>>
      /\ stream' = stream \o SubSeq(out, 1, k) /\ out' = SubSeq(out, k + 1, Len(out))
  BY <1>0 DEF WriteSome
<1>2. /\ toSend # <<>> /\ Head(toSend) \in Text /\ Tail(toSend) \in Seq(Text)
      /\ Len(out) <= IntSize + Len(Head(toSend)) /\ Len(Head(toSend)) \in Nat
  <2>1. toSend # <<>> /\ Len(out) <= IntSize + Len(Head(toSend))
    BY <1>1 DEF FramesInv, SendInv
  <2>2. Head(toSend) \in Text /\ Tail(toSend) \in Seq(Text)
    BY <1>0, <2>1
  <2> QED
    BY <2>1, <2>2 DEF Text
<1>3. PICK v \in Text, w \in Text :
        /\ v = SubSeq(out, 1, k) /\ w = SubSeq(out, k + 1, Len(out))
        /\ Len(v) = k /\ Len(w) = Len(out) - k /\ (stream \o v) \o w = stream \o out
  BY <1>0, MoveFirst
<1>4. stream' \in Text /\ out' \in Text /\ Unread' = Unread
  <2>1. stream \o v \in Text
    BY <1>0, ConcatProperties DEF Text
  <2>2. stream' = stream \o v /\ out' = w
    BY <1>1, <1>3
  <2> QED
    BY <1>1, <1>3, <2>1, <2>2 DEF Unread
<1>5. /\ AllCalls' = AllCalls /\ Begun' = Begun /\ Begun = Len(sent) + 1
      /\ toSend' \in Seq(Text) /\ sent' \in Seq(Text)
      /\ Len(sent) <= Len(sent') /\ Len(sent) \in Nat /\ Len(sent') \in Nat
      /\ \A i \in 1 .. Len(sent) : sent'[i] = sent[i]
      /\ out' # <<>> => toSend' = toSend
  <2>0. Begun = Len(sent) + 1 /\ Len(sent) \in Nat
    BY <1>1, StateFacts DEF Begun
  <2>1. CASE k = Len(out)
    <3>1. PICK m \in Text, t \in Seq(Text) : m = Head(toSend) /\ t = Tail(toSend)
      BY <1>2
    <3>2. sent' = Append(sent, m) /\ toSend' = t
      BY <2>1, <3>1 DEF WriteSome
    <3>3. /\ Append(sent, m) \in Seq(Text) /\ Len(Append(sent, m)) = Len(sent) + 1
          /\ \A i \in 1 .. Len(sent) : Append(sent, m)[i] = sent[i]
      BY <1>0, AppendProperties
    <3>4. out' = <<>>
      <4>1. Len(w) = 0
        BY <1>0, <1>3, <2>1
      <4>2. w = <<>>
        BY <4>1, EmptySeq DEF Text
      <4> QED
        BY <1>1, <1>3, <4>2
    <3>5. Append(sent, m) \o t = sent \o toSend
      <4>1. Append(sent, m) = sent \o <<m>> /\ <<m>> \in Seq(Text)
        BY <1>0, AppendIsConcat
      <4>2. (sent \o <<m>>) \o t = sent \o (<<m>> \o t)
        BY <1>0, <4>1, ConcatAssociative
      <4>3. <<m>> \o t = toSend
        BY <1>0, <1>2, <3>1
      <4> QED
        BY <4>1, <4>2, <4>3
    <3>6. AllCalls' = AllCalls
      BY <3>2, <3>5 DEF AllCalls
    <3>7. Begun' = Len(sent') + 0
      BY <3>4 DEF Begun
    <3> QED
      BY <2>0, <3>1, <3>2, <3>3, <3>4, <3>6, <3>7
  <2>2. CASE k # Len(out)
    <3>1. toSend' = toSend /\ sent' = sent
      BY <2>2 DEF WriteSome
    <3>2. out' # <<>>
      <4>1. Len(w) > 0
        BY <1>0, <1>3, <2>2
      <4>2. w # <<>>
        BY <4>1
      <4> QED
        BY <1>1, <1>3, <4>2
    <3> QED
      BY <1>0, <1>1, <2>0, <3>1, <3>2 DEF AllCalls, Begun
  <2> QED
    BY <2>1, <2>2
<1>6. FramesTypeOK'
  BY <1>1, <1>4, <1>5 DEF FramesInv, FramesTypeOK, Text
<1>7. SendInv'
  <2>1. out' # <<>> => toSend' # <<>> /\ Len(out') <= IntSize + Len(Head(toSend'))
    <3>1. Len(out') <= Len(out) /\ Len(out') \in Nat
      BY <1>0, <1>1, <1>3
    <3> QED
      BY <1>0, <1>2, <1>5, <3>1, FrameSizeFacts
  <2> QED
    BY <1>5, <2>1 DEF FramesInv, SendInv
<1>8. ReadInv'
  <2>1. Len(received) <= Len(sent) /\ \A i \in 1 .. Len(received) : received[i] = sent[i]
    BY DEF FramesInv, ReadInv
  <2>2. Len(received) <= Len(sent') /\ \A i \in 1 .. Len(received) : received[i] = sent'[i]
    BY <1>5, <2>1, StateFacts
  <2> QED
    BY <1>1, <1>5, <2>2 DEF FramesInv, ReadInv
<1>9. TextInv'
  BY <1>1, <1>4, <1>5, SameText
<1>10. ThrowsForCause'
  BY <1>1, <1>5, CauseKept
<1> QED
  BY <1>5, <1>6, <1>7, <1>8, <1>9, <1>10 DEF FramesInv

LEMMA CloseStep == FramesInv /\ Close => FramesInv'
<1> SUFFICES ASSUME FramesInv, Close PROVE FramesInv'
  OBVIOUS
<1>1. /\ open /\ open' = FALSE /\ toSend' = toSend /\ out' = out /\ stream' = stream
      /\ phase' = phase /\ want' = want /\ got' = got /\ sent' = sent /\ received' = received
  BY DEF Close
<1>2. AllCalls' = AllCalls /\ Begun' = Begun /\ Unread' = Unread
  BY <1>1 DEF AllCalls, Begun, Unread
<1>3. FramesTypeOK' /\ SendInv' /\ ReadInv'
  BY <1>1, <1>2 DEF FramesInv, FramesTypeOK, SendInv, ReadInv
<1>4. TextInv'
  BY <1>1, <1>2, SameText
<1>5. ThrowsForCause'
  BY <1>1, <1>2, CauseKept
<1> QED
  BY <1>3, <1>4, <1>5 DEF FramesInv

LEMMA ReadSomeStep ==
  ASSUME FramesInv, NEW k \in 1 .. Len(stream), ReadSome(k)
  PROVE  FramesInv'
<1>0. /\ out \in Text /\ stream \in Text /\ got \in Text /\ want \in Nat
      /\ Len(got) \in Nat /\ Len(stream) \in Nat
  BY DEF FramesInv, FramesTypeOK, Text
<1>1. /\ toSend' = toSend /\ out' = out /\ open' = open /\ phase' = phase /\ want' = want
      /\ sent' = sent /\ received' = received /\ Len(got) + k <= want
      /\ got' = got \o SubSeq(stream, 1, k) /\ stream' = SubSeq(stream, k + 1, Len(stream))
  BY DEF ReadSome
<1>2. PICK v \in Text, w \in Text :
        /\ v = SubSeq(stream, 1, k) /\ w = SubSeq(stream, k + 1, Len(stream))
        /\ Len(v) = k /\ (got \o v) \o w = got \o stream
  BY <1>0, MoveFirst
<1>3. got' = got \o v /\ stream' = w /\ got \o v \in Text /\ Len(got \o v) = Len(got) + k
  <2>1. got \o v \in Text /\ Len(got \o v) = Len(got) + Len(v)
    BY <1>0, ConcatProperties DEF Text
  <2> QED
    BY <1>1, <1>2, <2>1
<1>4. Unread' = Unread
  <2>1. PICK g \in Text : g = got \o v
    BY <1>3
  <2>2. (g \o w) \o out = g \o (w \o out)
    BY <1>0, Associative
  <2>3. (got \o stream) \o out = got \o (stream \o out)
    BY <1>0, Associative
  <2> QED
    BY <1>1, <1>2, <1>3, <2>1, <2>2, <2>3 DEF Unread
<1>5. AllCalls' = AllCalls /\ Begun' = Begun
  BY <1>1 DEF AllCalls, Begun
<1>6. FramesTypeOK'
  BY <1>1, <1>3 DEF FramesInv, FramesTypeOK, Text
<1>7. SendInv'
  BY <1>1, <1>5 DEF FramesInv, SendInv
<1>8. ReadInv'
  <2>1. Len(got') <= want'
    BY <1>1, <1>3
  <2> QED
    BY <1>1, <1>5, <2>1 DEF FramesInv, ReadInv
<1>9. TextInv'
  BY <1>1, <1>4, <1>5, SameText
<1>10. ThrowsForCause'
  BY <1>1, <1>5, CauseKept
<1> QED
  BY <1>6, <1>7, <1>8, <1>9, <1>10 DEF FramesInv

\* Where the reader stands in the text when it has read what it wants.
LEMMA ReaderAt ==
  ASSUME FramesInv, Reading
  PROVE  /\ Pending(got \o (stream \o out), AllCalls, Len(received), Begun, Used)
         /\ got \in Text /\ stream \o out \in Text /\ Len(stream \o out) = Len(stream) + Len(out)
         /\ Used + (Len(got) + (Len(stream) + Len(out))) = FrameEnds(AllCalls)[Begun]
         /\ \A i \in 1 .. Len(got) : (got \o (stream \o out))[i] = got[i]
<1>1. /\ out \in Text /\ stream \in Text /\ got \in Text /\ Len(got) \in Nat
      /\ Len(stream) \in Nat /\ Len(out) \in Nat
  BY DEF FramesInv, FramesTypeOK, Text
<1>2. Pending(Unread, AllCalls, Len(received), Begun, Used)
  BY DEF FramesInv, TextInv
<1>3. stream \o out \in Text /\ Len(stream \o out) = Len(stream) + Len(out)
  BY <1>1, ConcatProperties DEF Text
<1>4. Used + Len(Unread) = FrameEnds(AllCalls)[Begun]
  BY <1>2 DEF Pending
<1>5. Used + (Len(got) + (Len(stream) + Len(out))) = FrameEnds(AllCalls)[Begun]
  BY <1>4, StateFacts
<1>6. PICK t \in Text : t = stream \o out
  BY <1>3
<1>7. \A i \in 1 .. Len(got) + Len(t) :
        (got \o t)[i] = IF i <= Len(got) THEN got[i] ELSE t[i - Len(got)]
  BY <1>1, ConcatProperties DEF Text
<1>8. Len(t) \in Nat
  BY DEF Text
<1>9. ASSUME NEW i \in 1 .. Len(got) PROVE (got \o t)[i] = got[i]
  BY <1>1, <1>7, <1>8
<1> QED
  BY <1>1, <1>2, <1>3, <1>5, <1>6, <1>9 DEF Unread

\* The next frame: it has begun, and its first bytes are those to be read.
LEMMA NextFrame ==
  ASSUME FramesInv, phase = "length", Len(got) = want
  PROVE  /\ Len(received) < Begun
         /\ AllCalls[Len(received) + 1] \in Text
         /\ got = Htonl(Len(AllCalls[Len(received) + 1]))
<1>1. PICK r \in Nat, c \in Seq(Text), b \in Nat :
        /\ r = Len(received) /\ c = AllCalls /\ b = Begun /\ r \in 0 .. b /\ b \in 0 .. Len(c)
  BY StateFacts
<1>2. Used = FrameEnds(c)[r]
  <2>1. Used = FrameEnds(c)[r] + 0 /\ FrameEnds(c)[r] \in Nat
    BY <1>1, StateFacts DEF Used
  <2> QED
    BY <2>1
<1>3. /\ Len(got) = IntSize /\ got \in Text /\ Len(stream) \in Nat /\ Len(out) \in Nat
      /\ Reading
  BY DEF FramesInv, FramesTypeOK, ReadInv, Text, Reading
<1>4. PICK e \in Nat : e = FrameEnds(c)[r] /\ e + (IntSize + (Len(stream) + Len(out))) = FrameEnds(c)[b]
  BY <1>1, <1>2, <1>3, ReaderAt, StateFacts
<1>5. r < b
  <2>1. r = b => FALSE
    BY <1>3, <1>4, FrameSizeFacts
  <2> QED
    BY <1>1, <2>1
<1>6. PICK m \in Text : m = c[r+1]
  BY <1>1, <1>5
<1>7. ASSUME NEW i \in 1 .. IntSize PROVE got[i] = Htonl(Len(m))[i]
  <2>1. PICK n \in Nat : n = Len(m)
    BY DEF Text
  <2>2. r + 1 \in r+1 .. b /\ i \in 1 .. IntSize + n /\ (r + 1) - 1 = r
    BY <1>1, <1>5, <2>1, FrameSizeFacts
  <2>3. e < e + i /\ e + i - e = i
    BY FrameSizeFacts
  <2>4. (got \o (stream \o out))[i] = Frame(m)[i]
    <3>1. Pending(got \o (stream \o out), c, r, b, e)
      BY <1>1, <1>2, <1>3, <1>4, ReaderAt
    <3>2. FrameEnds(c)[(r + 1) - 1] = e
      BY <1>4, <2>2
    <3> QED
      BY <1>6, <2>1, <2>2, <2>3, <3>1, <3>2 DEF Pending
  <2>5. Frame(m)[i] = Htonl(Len(m))[i]
    BY FrameParts
  <2> QED
    BY <1>3, <2>4, <2>5, ReaderAt
<1>8. got = Htonl(Len(m))
  <2>1. Len(m) \in Nat
    BY DEF Text
  <2>2. PICK h \in Seq(FrameByte) : h = Htonl(Len(m)) /\ Len(h) = IntSize
    BY <2>1, HtonlType
  <2>3. got \in Seq(FrameByte) /\ Len(got) = Len(h) /\ \A i \in 1 .. Len(got) : got[i] = h[i]
    BY <1>3, <1>7, <2>2 DEF Text
  <2> QED
    BY <2>2, <2>3, SeqEqual
<1> QED
  BY <1>1, <1>5, <1>6, <1>8

LEMMA GotLengthStep == FramesInv /\ GotLength => FramesInv'
<1> SUFFICES ASSUME FramesInv, GotLength PROVE FramesInv'
  OBVIOUS
<1>1. /\ phase = "length" /\ Len(got) = want /\ got' = <<>> /\ toSend' = toSend /\ out' = out
      /\ open' = open /\ stream' = stream /\ sent' = sent /\ received' = received
  BY DEF GotLength
<1>2. PICK r \in Nat, m \in Text, n \in Nat :
        /\ r = Len(received) /\ r < Begun /\ r + 1 \in 1 .. Len(AllCalls)
        /\ m = AllCalls[r + 1] /\ n = Len(m) /\ got = Htonl(n)
  <2>1. /\ Len(received) \in Nat /\ Len(received) < Begun /\ Begun \in 0 .. Len(AllCalls)
        /\ AllCalls[Len(received) + 1] \in Text
        /\ got = Htonl(Len(AllCalls[Len(received) + 1]))
    BY <1>1, NextFrame, StateFacts
  <2>2. Len(AllCalls[Len(received) + 1]) \in Nat
    BY <2>1 DEF Text
  <2>3. Len(received) + 1 \in 1 .. Len(AllCalls)
    BY <2>1
  <2> QED
    BY <2>1, <2>2, <2>3
<1>3. n < BytePower[IntSize]
  <2>1. AllCalls \in Streams
    BY DEF FramesInv, SendInv
  <2> QED
    BY <1>2, <2>1, StreamFacts
<1>4. PICK h \in Int : h = MaxInt
  <2>1. PICK d \in Nat : d = BytePower[IntSize]
    BY PowerFacts, FrameSizeFacts
  <2> QED
    BY <2>1 DEF MaxInt
<1>5. PICK l : l = Ntohl(got) /\ (n <= h => l = n) /\ (n > h => l < 0)
  BY <1>2, <1>3, <1>4, LengthRead
<1>6. AllCalls' = AllCalls /\ Begun' = Begun /\ Unread' = stream \o out
  <2>1. stream \o out \in Text
    BY <1>1, ReaderAt DEF Reading
  <2>2. <<>> \o (stream \o out) = stream \o out
    BY <2>1, ConcatEmptySeq DEF Text
  <2> QED
    BY <1>1, <2>2 DEF AllCalls, Begun, Unread
<1>7. SendInv'
  BY <1>1, <1>6 DEF FramesInv, SendInv
<1>8. want \in Nat /\ Len(got') = 0
  BY <1>1 DEF FramesInv, FramesTypeOK
<1>9. CASE l < 0
  <2>1. phase' = "threw" /\ want' = want
    BY <1>5, <1>9 DEF GotLength
  <2>2. FramesTypeOK'
    BY <1>1, <1>8, <2>1 DEF FramesInv, FramesTypeOK
  <2>3. ReadInv'
    BY <1>1, <1>6, <1>8, <2>1 DEF FramesInv, ReadInv
  <2>4. TextInv'
    BY <2>1 DEF TextInv, Reading
  <2>5. n > h
    BY <1>2, <1>5, <1>9
  <2>6. Oversize'
    <3>1. Len(received') + 1 <= Len(AllCalls') /\ Len(AllCalls'[Len(received') + 1]) > MaxInt
      BY <1>1, <1>2, <1>4, <1>6, <2>5
    <3> QED
      BY <3>1 DEF Oversize, AllCalls
  <2> QED
    BY <1>7, <2>2, <2>3, <2>4, <2>6 DEF FramesInv, ThrowsForCause
<1>10. CASE ~(l < 0)
  <2>1. l = n
    BY <1>4, <1>5, <1>10
  <2>2. phase' = "data" /\ want' = n
    BY <1>5, <1>10, <2>1 DEF GotLength
  <2>3. FramesTypeOK'
    BY <1>1, <1>2, <2>2 DEF FramesInv, FramesTypeOK
  <2>4. ReadInv'
    BY <1>1, <1>2, <1>6, <1>8, <2>2 DEF FramesInv, ReadInv
  <2>5. TextInv'
    <3>1. PICK y \in Text : y = stream \o out
      BY <1>1, ReaderAt DEF Reading
    <3>2. Pending(got \o y, AllCalls, r, Begun, Used)
      BY <1>1, <1>2, <3>1, ReaderAt DEF Reading
    <3>3. /\ AllCalls \in Seq(Text) /\ Begun \in 0 .. Len(AllCalls) /\ r \in 0 .. Begun
          /\ r \in r .. Begun /\ Used \in Nat /\ got \in Text
      BY <1>1, <1>2, StateFacts, ReaderAt DEF Reading
    <3>4. Pending(y, AllCalls, r, Begun, Used + Len(got))
      BY <3>1, <3>2, <3>3, Cut
    <3>5. Used' = Used + Len(got)
      <4>1. PICK e \in Nat : e = FrameEnds(AllCalls)[Len(received)]
        BY StateFacts
      <4>2. Used = e + 0 /\ Used' = e + IntSize
        BY <1>1, <1>6, <2>2, <4>1 DEF Used
      <4>3. Len(got) = IntSize
        BY <1>1 DEF FramesInv, ReadInv
      <4> QED
        BY <4>1, <4>2, <4>3
    <3> QED
      BY <1>1, <1>2, <1>6, <3>1, <3>4, <3>5 DEF TextInv
  <2>6. ThrowsForCause'
    BY <2>2 DEF ThrowsForCause
  <2> QED
    BY <1>7, <2>3, <2>4, <2>5, <2>6 DEF FramesInv
<1> QED
  BY <1>9, <1>10

\* The data that has been read are those of the next call, which has returned.
LEMMA DataRead ==
  ASSUME FramesInv, phase = "data", Len(got) = want
  PROVE  /\ Len(received) < Len(sent) /\ got = sent[Len(received) + 1]
         /\ FrameEnds(AllCalls)[Len(received) + 1] = Used + Len(got)
<1>1. PICK r \in Nat, c \in Seq(Text), b \in Nat :
        /\ r = Len(received) /\ c = AllCalls /\ b = Begun /\ r < b /\ b \in 0 .. Len(c)
  BY StateFacts DEF FramesInv, ReadInv
<1>2. PICK m \in Text, n \in Nat : m = c[r+1] /\ n = Len(m) /\ Len(got) = n
  <2>1. r + 1 \in 1 .. Len(c) /\ want = Len(c[r+1])
    BY <1>1 DEF FramesInv, ReadInv
  <2>2. c[r+1] \in Text /\ Len(c[r+1]) \in Nat
    BY <2>1 DEF Text
  <2> QED
    BY <2>1, <2>2
<1>3. PICK e \in Nat :
        e = FrameEnds(c)[r] /\ Used = e + IntSize /\ FrameEnds(c)[r+1] = e + (IntSize + n)
  <2>1. FrameEnds(c)[r] \in Nat /\ Used = FrameEnds(c)[r] + IntSize
    BY <1>1, StateFacts DEF Used
  <2>2. r + 1 \in 1 .. Len(c) /\ (r + 1) - 1 = r
    BY <1>1
  <2>3. FrameEnds(c)[r+1] = FrameEnds(c)[r] + (IntSize + Len(c[r+1]))
    BY <2>2, EndsFacts
  <2> QED
    BY <1>2, <2>1, <2>3
<1>4. PICK x \in Nat, y \in Nat :
        x = Len(stream) /\ y = Len(out) /\ (e + IntSize) + (n + (x + y)) = FrameEnds(c)[b]
  <2>1. Used + (Len(got) + (Len(stream) + Len(out))) = FrameEnds(c)[b]
    BY <1>1, ReaderAt DEF Reading
  <2> QED
    BY <1>2, <1>3, <2>1, StateFacts
<1>5. Len(received) < Len(sent)
  <2> SUFFICES ASSUME ~(Len(received) < Len(sent)) PROVE FALSE
    OBVIOUS
  <2>1. Len(sent) \in Nat /\ r = Len(sent)
    BY <1>1, StateFacts DEF FramesInv, ReadInv
  <2>2. out # <<>> /\ b = r + 1
    BY <1>1, <2>1 DEF Begun
  <2>3. y > 0
    <3>1. out \in Text
      BY DEF FramesInv, FramesTypeOK, Text
    <3> QED
      BY <1>4, <2>2, <3>1, EmptySeq DEF Text
  <2>4. (e + IntSize) + (n + (x + y)) = e + (IntSize + n)
    BY <1>3, <1>4, <2>2
  <2> QED
    BY <2>3, <2>4, FrameSizeFacts
<1>6. m = sent[r+1]
  <2>1. r + 1 \in 1 .. Len(sent)
    BY <1>1, <1>5, StateFacts
  <2> QED
    BY <1>1, <1>2, <2>1, StateFacts
<1>7. ASSUME NEW i \in 1 .. n PROVE got[i] = m[i]
  <2>1. /\ r + 1 \in r+1 .. b /\ (r + 1) - 1 = r /\ IntSize + i \in 1 .. IntSize + n
        /\ e + IntSize < e + (IntSize + i) /\ e + (IntSize + i) - (e + IntSize) = i
    BY <1>1, FrameSizeFacts
  <2>2. Pending(got \o (stream \o out), c, r, b, e + IntSize)
    BY <1>1, <1>3, ReaderAt DEF Reading
  <2>3. (got \o (stream \o out))[i] = Frame(m)[IntSize + i]
    <3>1. IntSize + i \in 1 .. IntSize + Len(c[r+1])
      BY <1>2, <2>1
    <3>2. (got \o (stream \o out))[FrameEnds(c)[(r+1) - 1] + (IntSize + i) - (e + IntSize)]
             = Frame(c[r+1])[IntSize + i]
      BY <1>3, <2>1, <2>2, <3>1 DEF Pending
    <3>3. FrameEnds(c)[(r+1) - 1] = e
      BY <1>3, <2>1
    <3> QED
      BY <1>2, <2>1, <3>2, <3>3
  <2>4. Frame(m)[IntSize + i] = m[i]
    BY <1>2, FrameParts
  <2>5. (got \o (stream \o out))[i] = got[i]
    BY <1>2, ReaderAt DEF Reading
  <2> QED
    BY <2>3, <2>4, <2>5
<1>8. got = m
  <2>1. got \in Text
    BY ReaderAt DEF Reading
  <2> QED
    BY <1>2, <1>7, <2>1, SeqEqual DEF Text
<1>9. FrameEnds(c)[r+1] = Used + Len(got)
  <2>1. e + (IntSize + n) = (e + IntSize) + n
    BY FrameSizeFacts
  <2> QED
    BY <1>2, <1>3, <2>1
<1> QED
  BY <1>1, <1>5, <1>6, <1>8, <1>9

LEMMA GotDataStep == FramesInv /\ GotData => FramesInv'
<1> SUFFICES ASSUME FramesInv, GotData PROVE FramesInv'
  OBVIOUS
<1>1. /\ phase = "data" /\ Len(got) = want /\ got' = <<>> /\ phase' = "length"
      /\ want' = IntSize /\ received' = Append(received, got)
      /\ toSend' = toSend /\ out' = out /\ open' = open /\ stream' = stream /\ sent' = sent
  BY DEF GotData
<1>2. PICK r \in Nat, y \in Text :
        /\ r = Len(received) /\ r < Len(sent) /\ got = sent[r+1] /\ y = stream \o out
        /\ FrameEnds(AllCalls)[r+1] = Used + Len(got) /\ got \in Text
  BY <1>1, DataRead, ReaderAt, StateFacts DEF Reading
<1>3. /\ received \in Seq(Text) /\ received' \in Seq(Text) /\ Len(received') = r + 1
      /\ \A i \in 1 .. r : received'[i] = received[i]
      /\ received'[r+1] = got
  <2>1. received \in Seq(Text)
    BY DEF FramesInv, FramesTypeOK, Text
  <2> QED
    BY <1>1, <1>2, <2>1, AppendProperties
<1>4. AllCalls' = AllCalls /\ Begun' = Begun /\ Unread' = y
  <2>1. <<>> \o y = y
    BY ConcatEmptySeq DEF Text
  <2> QED
    BY <1>1, <1>2, <2>1 DEF AllCalls, Begun, Unread
<1>5. FramesTypeOK'
  BY <1>1, <1>3, FrameSizeFacts DEF FramesInv, FramesTypeOK, Text
<1>6. SendInv'
  BY <1>1, <1>4 DEF FramesInv, SendInv
<1>7. ReadInv'
  <2>1. Len(sent) \in Nat /\ \A i \in 1 .. r : received[i] = sent[i]
    BY <1>2, StateFacts DEF FramesInv, ReadInv
  <2>2. ASSUME NEW i \in 1 .. r + 1 PROVE received'[i] = sent[i]
    <3>1. CASE i \in 1 .. r
      BY <1>3, <2>1, <3>1
    <3>2. CASE i = r + 1
      BY <1>2, <1>3, <3>2
    <3> QED
      BY <3>1, <3>2
  <2>3. Len(received') <= Len(sent) /\ Len(got') <= want'
    <3>1. r + 1 <= Len(sent)
      BY <1>2, <2>1
    <3>2. 0 <= IntSize /\ Len(<<>>) = 0
      BY FrameSizeFacts
    <3> QED
      BY <1>1, <1>3, <3>1, <3>2
  <2> QED
    BY <1>1, <1>3, <2>2, <2>3 DEF ReadInv
<1>8. TextInv'
  <2>1. /\ AllCalls \in Seq(Text) /\ Begun \in 0 .. Len(AllCalls) /\ r \in 0 .. Begun
        /\ r + 1 \in r .. Begun /\ Used \in Nat
    <3>1. Len(sent) <= Begun /\ Len(sent) \in Nat /\ Begun \in 0 .. Len(AllCalls)
      BY StateFacts
    <3>2. PICK b \in Nat : b = Begun /\ r + 1 <= b
      BY <1>2, <3>1
    <3>3. r \in 0 .. b /\ r + 1 \in r .. b
      BY <3>2
    <3> QED
      BY <3>1, <3>2, <3>3, StateFacts
  <2>2. Pending(got \o y, AllCalls, r, Begun, Used)
    BY <1>1, <1>2, ReaderAt DEF Reading
  <2>3. Pending(y, AllCalls, r + 1, Begun, Used + Len(got))
    BY <1>2, <2>1, <2>2, Cut
  <2>4. Used' = Used + Len(got)
    <3>1. Used' = FrameEnds(AllCalls)[r+1] + 0
      BY <1>1, <1>3, <1>4 DEF Used
    <3>2. Len(got) \in Nat
      BY StateFacts
    <3> QED
      BY <1>2, <2>1, <3>1, <3>2
  <2> QED
    BY <1>3, <1>4, <2>3, <2>4 DEF TextInv
<1>9. ThrowsForCause'
  BY <1>1 DEF ThrowsForCause
<1> QED
  BY <1>5, <1>6, <1>7, <1>8, <1>9 DEF FramesInv

\* At the end of the stream a read is short only if every call has been answered.
LEMMA EndOfFileStep == FramesInv /\ EndOfFile => FramesInv'
<1> SUFFICES ASSUME FramesInv, EndOfFile PROVE FramesInv'
  OBVIOUS
<1>1. /\ Reading /\ ~open /\ stream = <<>> /\ Len(got) < want /\ phase' = "threw"
      /\ toSend' = toSend /\ out' = out /\ open' = open /\ stream' = stream
      /\ want' = want /\ got' = got /\ sent' = sent /\ received' = received
  BY DEF EndOfFile
<1>2. PICK r \in Nat, c \in Seq(Text), b \in Nat, s \in Nat, x \in Nat, y \in Nat :
        /\ r = Len(received) /\ c = AllCalls /\ b = Begun /\ s = Len(sent) /\ r <= s
        /\ x = Len(got) /\ y = Len(out) /\ Len(stream) = 0
        /\ s <= b /\ b \in 0 .. Len(c) /\ s \in 0 .. Len(c) /\ Len(c) \in Nat
  <2>1. Len(sent) \in 0 .. Len(AllCalls) /\ Len(AllCalls) \in Nat /\ Begun \in 0 .. Len(AllCalls)
    BY StateFacts
  <2>2. /\ Len(received) \in Nat /\ AllCalls \in Seq(Text) /\ Begun \in Nat /\ Len(sent) \in Nat
        /\ Len(got) \in Nat /\ Len(out) \in Nat /\ Len(sent) <= Begun
    BY <2>1, StateFacts
  <2>3. Len(received) <= Len(sent) /\ Len(stream) = 0
    BY <1>1 DEF FramesInv, ReadInv
  <2> QED
    BY <2>1, <2>2, <2>3
\* The frames of all calls that have returned were there to be read.
<1>3. PICK u \in Nat, f \in Nat : u = Used /\ f = FrameEnds(c)[s] /\ f <= u + x
  <2>1. Used \in Nat /\ FrameEnds(c)[s] \in Nat /\ FrameEnds(c)[b] \in Nat
    BY <1>2, StateFacts, EndsFacts
  <2>2. PICK u \in Nat, f \in Nat, g \in Nat :
          u = Used /\ f = FrameEnds(c)[s] /\ g = FrameEnds(c)[b] /\ u + (x + (0 + y)) = g
    BY <1>1, <1>2, <2>1, ReaderAt
  <2>3. CASE out = <<>>
    <3>1. b = s /\ y = 0
      BY <1>2, <2>3 DEF Begun
    <3>2. f = g
      BY <2>2, <3>1
    <3>3. u + (x + (0 + y)) = u + x
      BY <3>1
    <3>4. f = u + x
      BY <2>2, <3>2, <3>3
    <3>5. f <= u + x
      BY <3>4
    <3> QED
      BY <2>2, <3>5
  <2>4. CASE out # <<>>
    <3>1. b = s + 1 /\ s + 1 \in 1 .. Len(c) /\ (s + 1) - 1 = s
      <4>1. b = s + 1
        BY <1>2, <2>4 DEF Begun
      <4> QED
        BY <1>2, <4>1
    <3>2. PICK m \in Text, n \in Nat :
            m = Head(toSend) /\ c[s+1] = m /\ n = Len(m) /\ y <= IntSize + n
      <4>1. /\ toSend # <<>> /\ Len(out) <= IntSize + Len(Head(toSend))
            /\ Head(toSend) \in Text /\ AllCalls[Len(sent) + 1] = Head(toSend)
        BY <2>4, StateFacts DEF FramesInv, SendInv
      <4>2. Len(Head(toSend)) \in Nat
        BY <4>1 DEF Text
      <4> QED
        BY <1>2, <4>1, <4>2
    <3>3. FrameEnds(c)[s+1] = FrameEnds(c)[s] + (IntSize + Len(c[s+1]))
      BY <3>1, EndsFacts
    <3>4. g = f + (IntSize + n)
      BY <2>2, <3>1, <3>2, <3>3
    <3>5. f <= u + x
      BY <2>2, <3>2, <3>4, FrameSizeFacts
    <3> QED
      BY <2>2, <3>5
  <2> QED
    BY <2>3, <2>4
<1>4. r = s
  <2> SUFFICES ASSUME r < s PROVE FALSE
    BY <1>2
  <2>1. /\ r + 1 \in 1 .. Len(c) /\ (r + 1) - 1 = r /\ r + 1 \in 0 .. Len(c)
        /\ s \in r + 1 .. Len(c) /\ r \in 0 .. Len(c)
    BY <1>2
  <2>2. PICK n \in Nat : n = Len(c[r+1])
    <3>1. c[r+1] \in Text
      BY <2>1
    <3> QED
      BY <3>1 DEF Text
  <2>3. PICK e \in Nat, h \in Nat :
          e = FrameEnds(c)[r] /\ h = FrameEnds(c)[r+1] /\ h = e + (IntSize + n) /\ h <= f
    <3>1. FrameEnds(c)[r] \in Nat /\ FrameEnds(c)[r+1] \in Nat
      BY <2>1, EndsFacts
    <3>2. FrameEnds(c)[r+1] = FrameEnds(c)[r] + (IntSize + Len(c[r+1]))
      BY <2>1, EndsFacts
    <3>3. FrameEnds(c)[r+1] <= FrameEnds(c)[s]
      BY <2>1, EndsGrow
    <3> QED
      BY <1>3, <2>2, <3>1, <3>2, <3>3
  <2>4. CASE phase = "length"
    <3>1. u = e + 0
      BY <1>2, <1>3, <2>3, <2>4 DEF Used
    <3>2. x < IntSize
      BY <1>1, <1>2, <2>4 DEF FramesInv, ReadInv
    <3> QED
      BY <1>3, <2>3, <3>1, <3>2, FrameSizeFacts
  <2>5. CASE phase = "data"
    <3>1. u = e + IntSize
      BY <1>2, <1>3, <2>3, <2>5 DEF Used
    <3>2. x < n
      BY <1>1, <1>2, <2>2, <2>5 DEF FramesInv, ReadInv
    <3> QED
      <4>1. e + (IntSize + n) <= (e + IntSize) + x
        BY <1>3, <2>3, <3>1
      <4> QED
        BY <3>2, <4>1, FrameSizeFacts
  <2> QED
    BY <1>1, <2>4, <2>5 DEF Reading
<1>5. received = sent
  <2>1. /\ received \in Seq(Text) /\ sent \in Seq(Text)
        /\ \A i \in 1 .. Len(received) : received[i] = sent[i]
    BY DEF FramesInv, FramesTypeOK, ReadInv, Text
  <2> QED
    BY <1>2, <1>4, <2>1, SeqEqual
<1>6. AllCalls' = AllCalls /\ Begun' = Begun
  BY <1>1 DEF AllCalls, Begun
<1>7. FramesTypeOK' /\ SendInv'
  BY <1>1, <1>6 DEF FramesInv, FramesTypeOK, SendInv
<1>8. ReadInv'
  BY <1>1, <1>6 DEF FramesInv, ReadInv
<1>9. TextInv' /\ ThrowsForCause'
  BY <1>1, <1>5 DEF TextInv, Reading, ThrowsForCause
<1> QED
  BY <1>7, <1>8, <1>9 DEF FramesInv

LEMMA InvNext == FramesInv /\ [FramesNext]_framesVars => FramesInv'
<1> SUFFICES ASSUME FramesInv, [FramesNext]_framesVars PROVE FramesInv'
  OBVIOUS
<1>1. CASE UNCHANGED framesVars
  BY <1>1 DEF framesVars, FramesInv, FramesTypeOK, SendInv, ReadInv, TextInv, ThrowsForCause,
              Oversize, AllCalls, Begun, Unread, Used, Reading
<1>2. CASE Sender
  BY <1>2, SocketSendStep, WriteSomeStep DEF Sender
<1>3. CASE Close
  BY <1>3, CloseStep
<1>4. CASE Reader
  BY <1>4, ReadSomeStep, GotLengthStep, GotDataStep, EndOfFileStep DEF Reader
<1> QED
  BY <1>1, <1>2, <1>3, <1>4 DEF FramesNext

LEMMA FramesInvariance == FramesSpec => []FramesInv
<1>1. FramesInit => FramesInv
  BY InvInit
<1>2. FramesInv /\ [FramesNext]_framesVars => FramesInv'
  BY InvNext
<1> QED
  BY <1>1, <1>2, PTL DEF FramesSpec

\* socket_read throws only when the stream has ended and it has returned all
\* that was sent, or at a frame whose length is no int; it never takes a frame
\* for a shorter or a longer one, whatever the sizes and however bytes are cut.
THEOREM OnlyThrowsForCause == FramesSpec => []ThrowsForCause
<1>1. FramesInv => ThrowsForCause
  BY DEF FramesInv
<1> QED
  BY <1>1, FramesInvariance, PTL

\* A step of Frames sends one frame, returns the next one, or does neither.
LEMMA FifoStep ==
  FramesInv /\ [FramesNext]_framesVars => [ImplementsFIFO!Next]_<<sent, received>>
<1> SUFFICES ASSUME FramesInv, [FramesNext]_framesVars
             PROVE  ImplementsFIFO!Next \/ UNCHANGED <<sent, received>>
  OBVIOUS
<1>1. ASSUME NEW k \in 1 .. Len(out), WriteSome(k)
      PROVE  ImplementsFIFO!Next \/ UNCHANGED <<sent, received>>
  <2>1. CASE k = Len(out)
    <3>1. sent' = Append(sent, Head(toSend)) /\ received' = received
      BY <1>1, <2>1 DEF WriteSome
    <3>2. /\ AllCalls \in Streams /\ AllCalls \in Seq(Text) /\ Len(sent) + 1 \in 1 .. Len(AllCalls)
          /\ AllCalls[Len(sent) + 1] = Head(toSend)
      <4>1. out # <<>>
        BY <1>1, StateFacts
      <4>2. toSend # <<>> /\ AllCalls \in Streams
        BY <4>1 DEF FramesInv, SendInv
      <4>3. /\ AllCalls \in Seq(Text) /\ Len(AllCalls) \in Nat /\ Len(sent) \in Nat
            /\ Len(sent) < Len(AllCalls) /\ AllCalls[Len(sent) + 1] = Head(toSend)
        BY <4>2, StateFacts
      <4> QED
        BY <4>2, <4>3
    <3>3. Head(toSend) \in UNION {{s[i] : i \in DOMAIN s} : s \in Streams}
      <4>1. DOMAIN AllCalls = 1 .. Len(AllCalls)
        BY <3>2
      <4> QED
        BY <3>2, <4>1
    <3> QED
      BY <3>1, <3>3 DEF ImplementsFIFO!Next, ImplementsFIFO!Send
  <2>2. CASE k # Len(out)
    BY <1>1, <2>2 DEF WriteSome
  <2> QED
    BY <2>1, <2>2
<1>2. ASSUME GotData PROVE ImplementsFIFO!Next
  <2>1. received' = Append(received, got) /\ sent' = sent
    BY <1>2 DEF GotData
  <2>2. Len(received) < Len(sent) /\ got = sent[Len(received) + 1]
    BY <1>2, DataRead DEF GotData
  <2> QED
    BY <2>1, <2>2 DEF ImplementsFIFO!Next, ImplementsFIFO!Receive
<1>3. ASSUME SocketSend \/ Close \/ (\E k \in 1 .. Len(stream) : ReadSome(k)) \/ GotLength
             \/ EndOfFile \/ UNCHANGED framesVars
      PROVE  UNCHANGED <<sent, received>>
  BY <1>3 DEF SocketSend, Close, ReadSome, GotLength, EndOfFile, framesVars
<1> QED
  BY <1>1, <1>2, <1>3 DEF FramesNext, Sender, Reader

\* A connection is a FIFO of frames, for every capacity of the kernels' buffers,
\* every number of bytes of an int and every sequence of calls of socket_send,
\* wherever the sender stops: what the other modules take a channel to be.
THEOREM FramesAreFIFO == FramesSpec => Channel
<1>1. FramesInit => ImplementsFIFO!Init
  BY DEF FramesInit, ImplementsFIFO!Init
<1>2. FramesInv /\ [FramesNext]_framesVars => [ImplementsFIFO!Next]_<<sent, received>>
  BY FifoStep
<1> QED
  BY <1>1, <1>2, FramesInvariance, PTL DEF FramesSpec, Channel, ImplementsFIFO!Spec

-----------------------------------------------------------------------------
(***************************************************************************)
(* What a party calls, and in which slot.                                  *)
(***************************************************************************)
\* Every line of the input file, every AND gate and the gathering has a round of
\* its own.  In round k the slots are k * Width + i.
Width  == 6 * N
Rounds == Len(Owner) + NumAnd
SlotOf(k, i) == k * Width + i
Round(s) == s \div Width
Inner(s) == s % Width

\* The slots of the gathering, and the end of them all.
GatherSlot == SlotOf(Rounds, 0)
PutSlot(q) == GatherSlot + q
GetSlot(q) == GatherSlot + N + q
EndSlot    == SlotOf(Rounds, 2 * N)

\* The other party of the transfer in slot s of an AND gate of p.  The transfer
\* of p and q is in the three slots from 3 * (p + q).
Place(p, q, j) == 3 * (p + q) + j
Partner(p, s) == Inner(s) \div 3 - p
Message(s) == Inner(s) % 3

\* p has a call in slot s.
Calls(p, s) ==
  LET k == Round(s)
      i == Inner(s)
  IN  \/ /\ k < Len(Owner)
         /\ IF Owner[k + 1] = p THEN i \in Party \ {p} ELSE i = p
      \/ Len(Owner) <= k /\ k < Rounds /\ Partner(p, s) \in Party \ {p}
      \/ k = Rounds /\ (i \in Party \ {p} \/ i - N \in Party \ {p})

CallSlots(p) == {s \in 0 .. EndSlot - 1 : Calls(p, s)}

\* The call, where size is the length of the gossip frame.
Call(p, size, s) ==
  LET k == Round(s)
      i == Inner(s)
      q == Partner(p, s)
  IN  IF k < Len(Owner)
      THEN IF Owner[k + 1] = p THEN Put(i, ShareSize) ELSE Get(Owner[k + 1], ShareSize)
      ELSE IF k < Rounds
      THEN IF Message(s) = 0
           THEN IF p < q THEN Put(q, PublicSize) ELSE Get(q, PublicSize)
           ELSE IF Message(s) = 1
           THEN IF p < q THEN Get(q, PublicSize) ELSE Put(q, PublicSize)
           ELSE IF p < q THEN Put(q, ValuesSize) ELSE Get(q, ValuesSize)
      ELSE IF i < N THEN Put(i, size) ELSE Get(i - N, size)

AnyCall == [op : {"put", "get"}, peer : Party, size : Nat \ {0}]

\* The list t has p's calls in the slots from a up to b, at the slots c.
Lists(t, c, p, size, a, b) ==
  /\ t \in Seq(AnyCall) /\ c \in Seq(Nat) /\ Len(c) = Len(t)
  /\ InOrder(c, a, b, CallSlots(p))
  /\ \A n \in 1 .. Len(t) : t[n] = Call(p, size, c[n])

Covers(t, p, size, a, b) == \E c : Lists(t, c, p, size, a, b)
-----------------------------------------------------------------------------
(***************************************************************************)
(* Numbers.                                                                *)
(***************************************************************************)
LEMMA PartyFacts ==
  /\ N \in Nat /\ 0 < N /\ \A p \in Party : p \in Nat /\ p < N
  /\ Len(Owner) \in Nat /\ NumAnd \in Nat /\ Rounds \in Nat /\ Len(Owner) <= Rounds
  /\ Width \in Nat /\ 0 < Width /\ Rounds = Len(Owner) + NumAnd
  /\ \A i \in 1 .. Len(Owner) : Owner[i] \in Party
<1>1. N \in Nat /\ 0 < N /\ NumAnd \in Nat
  BY BlockingAssumption
<1>2. Len(Owner) \in Nat /\ \A i \in 1 .. Len(Owner) : Owner[i] \in Party
  BY BlockingAssumption, LenProperties
<1> QED
  BY <1>1, <1>2 DEF Party, Width, Rounds

LEMMA Product ==
  \A w \in Nat : \A k, l \in Nat :
    /\ k * w \in Nat /\ (k + 1) * w = k * w + w
    /\ k < l => k * w + w <= l * w
<1> SUFFICES ASSUME NEW w \in Nat, NEW k \in Nat, NEW l \in Nat
             PROVE  /\ k * w \in Nat /\ (k + 1) * w = k * w + w
                    /\ k < l => k * w + w <= l * w
  OBVIOUS
<1>1. k * w \in Nat /\ (k + 1) * w = k * w + w
  OBVIOUS
<1>2. ASSUME k < l PROVE k * w + w <= l * w
  <2>1. PICK d \in Nat : l = k + 1 + d
    <3>1. l - k - 1 \in Nat /\ l = k + 1 + (l - k - 1)
      BY <1>2
    <3> QED
      BY <3>1
  <2>2. l * w = k * w + w + d * w
    BY <2>1
  <2>3. d * w \in Nat
    OBVIOUS
  <2> QED
    BY <1>1, <2>2, <2>3
<1> QED
  BY <1>1, <1>2

\* A slot gives back its round and its place there.
LEMMA Decode ==
  ASSUME NEW k \in Nat, NEW i \in Nat, i < Width
  PROVE  SlotOf(k, i) \in Nat /\ Round(SlotOf(k, i)) = k /\ Inner(SlotOf(k, i)) = i
<1>1. PICK w \in Nat : w = Width /\ i < w /\ 0 < w
  BY PartyFacts
<1>2. (k * w + i) \div w = k /\ (k * w + i) % w = i
  BY <1>1
<1>3. k * w + i \in Nat
  BY Product
<1> QED
  BY <1>1, <1>2, <1>3 DEF SlotOf, Round, Inner

\* And so does every number.
LEMMA Encode ==
  ASSUME NEW s \in Nat
  PROVE  /\ Round(s) \in Nat /\ Inner(s) \in Nat /\ Inner(s) < Width
         /\ s = SlotOf(Round(s), Inner(s))
<1>1. PICK w \in Nat : w = Width /\ 0 < w
  BY PartyFacts
<1>2. s \div w \in Nat /\ s % w \in Nat /\ s % w < w /\ s = (s \div w) * w + (s % w)
  BY <1>1
<1> QED
  BY <1>1, <1>2 DEF SlotOf, Round, Inner

-----------------------------------------------------------------------------
(***************************************************************************)
(* Lists of calls.                                                         *)
(***************************************************************************)
LEMMA AsSeq ==
  ASSUME NEW T, NEW n \in Nat, NEW s \in [1 .. n -> T]
  PROVE  s \in Seq(T) /\ Len(s) = n
  OBVIOUS

\* Where the slots of a round are.
LEMMA InRound ==
  ASSUME NEW k \in Nat
  PROVE  \E z, w \in Nat :
           /\ w = Width /\ 0 < w /\ z = SlotOf(k, 0) /\ z = k * w /\ SlotOf(k + 1, 0) = z + w
           /\ \A i \in Nat : SlotOf(k, i) = z + i
<1>1. PICK w \in Nat : w = Width /\ 0 < w
  BY PartyFacts
<1>2. k * w \in Nat /\ (k + 1) * w = k * w + w
  BY Product
<1>3. PICK z \in Nat : z = SlotOf(k, 0) /\ z = k * w
  BY <1>1, <1>2 DEF SlotOf
<1>4. SlotOf(k + 1, 0) = z + w
  BY <1>1, <1>2, <1>3 DEF SlotOf
<1>5. ASSUME NEW i \in Nat PROVE SlotOf(k, i) = z + i
  BY <1>1, <1>3 DEF SlotOf
<1> QED
  BY <1>1, <1>3, <1>4, <1>5

LEMMA LaterRound ==
  ASSUME NEW k \in Nat, NEW l \in Nat, k <= l
  PROVE  SlotOf(k, 0) <= SlotOf(l, 0)
<1>1. PICK z \in Nat, w \in Nat : w = Width /\ z = SlotOf(k, 0) /\ z = k * w
  BY InRound
<1>2. l * w \in Nat /\ (k < l => k * w + w <= l * w) /\ SlotOf(l, 0) = l * w
  BY <1>1, Product DEF SlotOf
<1> QED
  BY <1>1, <1>2

\* The slots before the gathering.
LEMMA EarlySlot ==
  ASSUME NEW k \in Nat, k < Rounds, NEW i \in Nat, i < Width
  PROVE  SlotOf(k, i) \in 0 .. EndSlot - 1 /\ SlotOf(k, i) < GatherSlot
<1>1. PICK z \in Nat, w \in Nat :
        w = Width /\ z = SlotOf(k, 0) /\ SlotOf(k + 1, 0) = z + w /\ SlotOf(k, i) = z + i
  BY InRound
<1>2. PICK e \in Nat : e = GatherSlot /\ EndSlot = e + 2 * N
  <2>1. Rounds \in Nat /\ 2 * N \in Nat
    BY PartyFacts
  <2> QED
    BY <2>1, InRound DEF EndSlot, GatherSlot
<1>3. z + w <= e
  <2>1. k + 1 \in Nat /\ Rounds \in Nat /\ k + 1 <= Rounds
    BY PartyFacts
  <2> QED
    BY <1>1, <1>2, <2>1, LaterRound DEF GatherSlot
<1> QED
  BY <1>1, <1>2, <1>3, PartyFacts

\* No slots, no calls.
LEMMA CoversNothing ==
  ASSUME NEW p, NEW size, NEW a \in Nat, NEW b \in Nat, a <= b,
         \A s \in CallSlots(p) : ~(a <= s /\ s < b)
  PROVE  Covers(<<>>, p, size, a, b)
<1>1. \A s \in CallSlots(p) : s \in Nat
  BY DEF CallSlots
<1>2. InOrder(<<>>, a, b, CallSlots(p))
  BY <1>1 DEF InOrder
<1>3. Lists(<<>>, <<>>, p, size, a, b)
  BY <1>2 DEF Lists
<1> QED
  BY <1>3 DEF Covers

\* One slot, one call.
LEMMA CoversOne ==
  ASSUME NEW p, NEW size, NEW a \in Nat, NEW b \in Nat, NEW n \in CallSlots(p),
         a <= n, n < b, \A s \in CallSlots(p) : a <= s /\ s < b => s = n,
         NEW call \in AnyCall, call = Call(p, size, n)
  PROVE  Covers(<<call>>, p, size, a, b)
<1>1. \A s \in CallSlots(p) : s \in Nat
  BY DEF CallSlots
<1>2. <<n>> \in Seq(Nat) /\ Len(<<n>>) = 1 /\ <<n>>[1] = n
  BY <1>1
<1>3. InOrder(<<n>>, a, b, CallSlots(p))
  BY <1>1, <1>2 DEF InOrder
<1>4. <<call>> \in Seq(AnyCall) /\ Len(<<call>>) = 1 /\ <<call>>[1] = call
  OBVIOUS
<1>5. Lists(<<call>>, <<n>>, p, size, a, b)
  BY <1>2, <1>3, <1>4 DEF Lists
<1> QED
  BY <1>5 DEF Covers

LEMMA CoversJoined ==
  ASSUME NEW p, NEW size, NEW a \in Nat, NEW b \in Nat, NEW c \in Nat, a <= b, b <= c,
         NEW t, Covers(t, p, size, a, b), NEW u, Covers(u, p, size, b, c)
  PROVE  Covers(t \o u, p, size, a, c)
<1>1. PICK x : Lists(t, x, p, size, a, b)
  BY DEF Covers
<1>2. PICK y : Lists(u, y, p, size, b, c)
  BY DEF Covers
<1>3. x \in Seq(Nat) /\ y \in Seq(Nat) /\ t \in Seq(AnyCall) /\ u \in Seq(AnyCall)
  BY <1>1, <1>2 DEF Lists
<1>4. PICK m \in Nat, n \in Nat : m = Len(x) /\ n = Len(y) /\ m = Len(t) /\ n = Len(u)
  BY <1>1, <1>2, <1>3, LenProperties DEF Lists
<1>5. CallSlots(p) \in SUBSET Nat
  BY DEF CallSlots
<1>6. InOrder(x \o y, a, c, CallSlots(p))
  BY <1>1, <1>2, <1>3, <1>5, Joined DEF Lists
<1>7. /\ x \o y \in Seq(Nat) /\ Len(x \o y) = m + n
      /\ \A i \in 1 .. m + n : (x \o y)[i] = IF i <= m THEN x[i] ELSE y[i - m]
  <2>1. /\ x \o y \in Seq(Nat) /\ Len(x \o y) = Len(x) + Len(y)
        /\ \A i \in 1 .. Len(x) + Len(y) :
             (x \o y)[i] = IF i <= Len(x) THEN x[i] ELSE y[i - Len(x)]
    BY <1>3, ConcatProperties
  <2> QED
    BY <1>4, <2>1
<1>8. /\ t \o u \in Seq(AnyCall) /\ Len(t \o u) = m + n
      /\ \A i \in 1 .. m + n : (t \o u)[i] = IF i <= m THEN t[i] ELSE u[i - m]
  BY <1>3, <1>4, ConcatProperties
<1>9. ASSUME NEW i \in 1 .. m + n PROVE (t \o u)[i] = Call(p, size, (x \o y)[i])
  <2>1. CASE i <= m
    <3>1. i \in 1 .. m
      BY <2>1
    <3>2. t[i] = Call(p, size, x[i])
      BY <1>1, <1>4, <3>1 DEF Lists
    <3> QED
      BY <1>7, <1>8, <2>1, <3>2
  <2>2. CASE ~(i <= m)
    <3>1. i - m \in 1 .. n
      BY <2>2
    <3>2. u[i - m] = Call(p, size, y[i - m])
      BY <1>2, <1>4, <3>1 DEF Lists
    <3> QED
      BY <1>7, <1>8, <2>2, <3>2
  <2> QED
    BY <2>1, <2>2
<1>10. Lists(t \o u, x \o y, p, size, a, c)
  BY <1>6, <1>7, <1>8, <1>9 DEF Lists
<1> QED
  BY <1>10 DEF Covers

\* More slots without a call, before and after.
LEMMA CoversMore ==
  ASSUME NEW p, NEW size, NEW a \in Nat, NEW b \in Nat, NEW c \in Nat, NEW d \in Nat,
         a <= b, b <= c, c <= d, NEW t, Covers(t, p, size, b, c),
         \A s \in CallSlots(p) : a <= s /\ s < d => b <= s /\ s < c
  PROVE  Covers(t, p, size, a, d)
<1>1. PICK x : Lists(t, x, p, size, b, c)
  BY DEF Covers
<1>2. \A s \in CallSlots(p) : s \in Nat
  BY DEF CallSlots
<1>3. x \in Seq(Nat) /\ Len(x) \in Nat /\ InOrder(x, b, c, CallSlots(p))
  BY <1>1, LenProperties DEF Lists
<1>4. InOrder(x, a, d, CallSlots(p))
  BY <1>2, <1>3 DEF InOrder
<1>5. Lists(t, x, p, size, a, d)
  BY <1>1, <1>4 DEF Lists
<1> QED
  BY <1>5 DEF Covers

-----------------------------------------------------------------------------
(***************************************************************************)
(* The programs.                                                           *)
(***************************************************************************)
LEMMA SizeFacts ==
  /\ BufferSize \in Nat /\ 0 < BufferSize /\ MaxGossip \in Nat
  /\ \A q \in Party, size \in {ShareSize, PublicSize, ValuesSize} :
       Put(q, size) \in AnyCall /\ Get(q, size) \in AnyCall
  /\ \A q \in Party, size \in 1 .. MaxGossip :
       Put(q, size) \in AnyCall /\ Get(q, size) \in AnyCall
  BY BlockingAssumption DEF Put, Get, AnyCall

\* Others(p) are all parties but p, in order.
LEMMA OthersFacts ==
  ASSUME NEW p \in Party, NEW i \in 1 .. N-1
  PROVE  /\ DOMAIN Others(p) = 1 .. N-1
         /\ Others(p)[i] = IF i <= p THEN i - 1 ELSE i
         /\ Others(p)[i] \in Party \ {p}
  BY PartyFacts DEF Others, Party

\* A loop over the others that needs the same number of slots for each.
LEMMA OthersCover ==
  ASSUME NEW p \in Party, NEW size, NEW s \in Seq(Seq(AnyCall)), Len(s) = N - 1,
         NEW base \in Nat, NEW w \in {1, 3},
         \A i \in 1 .. N-1 : \A q \in Party : q = Others(p)[i] =>
           Covers(s[i], p, size, base + w * q, base + w * q + w),
         \A x \in CallSlots(p) : ~(base + w * p <= x /\ x < base + w * p + w)
  PROVE  Covers(FlattenSeq(s), p, size, base, base + w * N)
<1>1. N \in Nat /\ 0 < N /\ p \in Nat /\ p < N
  BY PartyFacts
<1>2. PICK e \in [0 .. N-1 -> Seq(AnyCall)] :
        /\ e[0] = <<>> /\ FlattenSeq(s) = e[N-1]
        /\ \A i \in 1 .. N-1 : e[i] = e[i-1] \o s[i]
  <2>1. PICK e \in [0 .. Len(s) -> Seq(AnyCall)] :
          /\ e[0] = <<>> /\ FlattenSeq(s) = e[Len(s)]
          /\ \A i \in 1 .. Len(s) : e[i] = e[i-1] \o s[i]
    BY Flatten
  <2> QED
    BY <2>1
<1> DEFINE B(i) == base + w * (IF i <= p THEN i ELSE i + 1)
           S == {i \in 0 .. N-1 : Covers(e[i], p, size, base, B(i))}
<1>3. 0 \in S
  <2>1. B(0) = base
    BY <1>1
  <2>2. Covers(<<>>, p, size, base, base)
    <3>1. \A x \in CallSlots(p) : x \in Nat
      BY DEF CallSlots
    <3> QED
      BY <3>1, CoversNothing
  <2> QED
    BY <1>1, <1>2, <2>1, <2>2
<1>4. ASSUME NEW i \in 0 .. N-1-1, i \in S PROVE i + 1 \in S
  <2>1. i + 1 \in 1 .. N-1 /\ (i + 1) - 1 = i
    BY <1>1
  <2>2. e[i+1] = e[i] \o s[i+1]
    BY <1>2, <2>1
  <2>3. PICK q \in Party \ {p} : q = Others(p)[i+1] /\ q = IF i + 1 <= p THEN i ELSE i + 1
    BY <2>1, OthersFacts
  <2>4. q \in Nat /\ i \in Nat
    BY <2>3, PartyFacts
  <2>5. PICK x \in Nat, y \in Nat, z \in Nat :
          /\ x = B(i) /\ y = base + w * q /\ z = B(i + 1) /\ x <= y /\ z = y + w
          /\ x = y \/ (x = base + w * p /\ y = base + w * p + w)
    <3>1. PICK u \in Nat, v \in Nat :
            /\ u = (IF i <= p THEN i ELSE i + 1) /\ v = (IF i + 1 <= p THEN i + 1 ELSE i + 1 + 1)
            /\ v = q + 1 /\ (u = q \/ (u = p /\ q = p + 1))
      <4>1. PICK u, v :
              u = (IF i <= p THEN i ELSE i + 1) /\ v = (IF i + 1 <= p THEN i + 1 ELSE i + 1 + 1)
        OBVIOUS
      <4>2. u \in Nat /\ v \in Nat /\ v = q + 1 /\ (u = q \/ (u = p /\ q = p + 1))
        <5>1. CASE i + 1 <= p
          BY <1>1, <2>3, <2>4, <4>1, <5>1
        <5>2. CASE ~(i + 1 <= p)
          BY <1>1, <2>3, <2>4, <4>1, <5>2
        <5> QED
          BY <5>1, <5>2
      <4> QED
        BY <4>1, <4>2
    <3>2. base + w * u \in Nat /\ base + w * q \in Nat /\ base + w * v \in Nat
      BY <2>4
    <3>3. /\ base + w * u <= base + w * q /\ base + w * v = base + w * q + w
          /\ \/ base + w * u = base + w * q
             \/ base + w * u = base + w * p /\ base + w * q = base + w * p + w
      <4>1. CASE w = 1
        BY <1>1, <2>4, <3>1, <4>1
      <4>2. CASE w = 3
        BY <1>1, <2>4, <3>1, <4>2
      <4> QED
        BY <4>1, <4>2
    <3> QED
      BY <3>1, <3>2, <3>3
  <2>6. Covers(s[i+1], p, size, y, z)
    BY <2>1, <2>3, <2>5
  <2>7. \A n \in CallSlots(p) : x <= n /\ n < z => y <= n /\ n < z
    <3>2. \A n \in CallSlots(p) : n \in Nat
      BY DEF CallSlots
    <3>3. PICK a \in Nat : a = base + w * p
      BY <1>1
    <3>4. \A n \in CallSlots(p) : ~(a <= n /\ n < a + w)
      BY <3>3
    <3>5. x = y \/ (x = a /\ y = a + w)
      BY <2>5, <3>3
    <3>6. SUFFICES ASSUME NEW n \in CallSlots(p), x <= n PROVE y <= n
      OBVIOUS
    <3>7. n \in Nat
      BY <3>2
    <3>8. CASE x = a /\ y = a + w
      <4>1. ~(n < y)
        BY <3>4, <3>6, <3>8
      <4> QED
        BY <3>7, <4>1
    <3> QED
      BY <3>5, <3>6, <3>8
  <2>8. Covers(s[i+1], p, size, x, z)
    <3>1. x <= y /\ y <= z /\ z <= z
      BY <2>5
    <3> QED
      BY <2>6, <2>7, <3>1, CoversMore
  <2>9. Covers(e[i], p, size, base, x)
    BY <1>4, <2>5
  <2>10. base <= x /\ x <= z
    BY <1>1, <2>4, <2>5
  <2>11. Covers(e[i+1], p, size, base, z)
    BY <2>2, <2>8, <2>9, <2>10, CoversJoined
  <2> QED
    BY <1>1, <2>1, <2>5, <2>11
<1>5. Covers(e[N-1], p, size, base, B(N-1))
  <2>1. \A i \in 0 .. N-1 : i \in S
    <3> HIDE DEF S
    <3>1. N - 1 \in Nat
      BY <1>1
    <3> QED
      BY <1>3, <1>4, <3>1, BoundedInduction
  <2>2. N - 1 \in S
    <3> HIDE DEF S
    <3> QED
      BY <1>1, <2>1
  <2> QED
    BY <2>2
<1>6. PICK x \in Nat, y \in Nat :
        /\ x = B(N-1) /\ y = base + w * N /\ base <= x /\ x <= y
        /\ x = y \/ (x = base + w * p /\ y = base + w * p + w)
  <2>1. PICK u \in Nat : u = (IF N-1 <= p THEN N-1 ELSE N-1+1) /\ (u = N \/ (u = p /\ N = p + 1))
    <3>1. PICK u : u = (IF N-1 <= p THEN N-1 ELSE N-1+1)
      OBVIOUS
    <3>2. u \in Nat /\ (u = N \/ (u = p /\ N = p + 1))
      BY <1>1, <3>1
    <3> QED
      BY <3>1, <3>2
  <2>2. /\ base + w * u \in Nat /\ base + w * N \in Nat
        /\ base <= base + w * u /\ base + w * u <= base + w * N
        /\ \/ base + w * u = base + w * N
           \/ base + w * u = base + w * p /\ base + w * N = base + w * p + w
    <3>1. CASE w = 1
      BY <1>1, <2>1, <3>1
    <3>2. CASE w = 3
      BY <1>1, <2>1, <3>2
    <3> QED
      BY <3>1, <3>2
  <2>3. B(N-1) = base + w * u
    BY <2>1
  <2>4. PICK x \in Nat, y \in Nat : x = base + w * u /\ y = base + w * N
    BY <2>2
  <2>5. /\ x = B(N-1) /\ y = base + w * N /\ base <= x /\ x <= y
        /\ x = y \/ (x = base + w * p /\ y = base + w * p + w)
    <3> HIDE DEF B
    <3> QED
      BY <2>2, <2>3, <2>4
  <2> HIDE DEF B
  <2> QED
    BY <2>5
<1>7. Covers(e[N-1], p, size, base, y)
  <2>1. \A n \in CallSlots(p) : n \in Nat
    BY DEF CallSlots
  <2>2. PICK a \in Nat : a = base + w * p
    BY <1>1
  <2>3. \A n \in CallSlots(p) : base <= n /\ n < y => base <= n /\ n < x
    BY <1>6, <2>1, <2>2
  <2>4. Covers(e[N-1], p, size, base, x)
    BY <1>5, <1>6
  <2> QED
    BY <1>6, <2>3, <2>4, CoversMore
<1> QED
  BY <1>2, <1>6, <1>7

\* The slots of the wire sharing: the owner has one for each of the others, who
\* have the one that is their own.
LEMMA ShareSlots ==
  ASSUME NEW p \in Party, NEW k \in 0 .. Len(Owner) - 1
  PROVE  /\ \A i \in 0 .. Width - 1 :
              SlotOf(k, i) \in CallSlots(p) <=>
                IF Owner[k + 1] = p THEN i \in Party \ {p} ELSE i = p
         /\ \A size : \A i \in Party :
              Call(p, size, SlotOf(k, i)) =
                IF Owner[k + 1] = p THEN Put(i, ShareSize) ELSE Get(Owner[k + 1], ShareSize)
         /\ \A s \in CallSlots(p) : SlotOf(k, 0) <= s /\ s < SlotOf(k + 1, 0) =>
              \E i \in 0 .. Width - 1 : s = SlotOf(k, 0) + i /\ s = SlotOf(k, i)
<1>1. k \in Nat /\ k < Len(Owner) /\ k + 1 <= Rounds /\ k + 1 \in Nat
  BY PartyFacts
<1>2. \A i \in Party : i \in 0 .. Width - 1 /\ i \in Nat
  BY PartyFacts DEF Width
<1>3. ASSUME NEW i \in 0 .. Width - 1
      PROVE  /\ SlotOf(k, i) \in 0 .. EndSlot - 1
             /\ Round(SlotOf(k, i)) = k /\ Inner(SlotOf(k, i)) = i
  <2>1. i \in Nat /\ i < Width /\ k < Rounds
    BY <1>1, PartyFacts
  <2> QED
    BY <1>1, <2>1, Decode, EarlySlot
<1>4. ASSUME NEW i \in 0 .. Width - 1
      PROVE  SlotOf(k, i) \in CallSlots(p) <=>
               IF Owner[k + 1] = p THEN i \in Party \ {p} ELSE i = p
  <2>1. ~(Len(Owner) <= k) /\ k # Rounds
    BY <1>1, PartyFacts
  <2> QED
    BY <1>1, <1>3, <2>1 DEF CallSlots, Calls
<1>5. ASSUME NEW size, NEW i \in Party
      PROVE  Call(p, size, SlotOf(k, i)) =
               IF Owner[k + 1] = p THEN Put(i, ShareSize) ELSE Get(Owner[k + 1], ShareSize)
  BY <1>1, <1>2, <1>3 DEF Call
<1>6. ASSUME NEW s \in CallSlots(p), SlotOf(k, 0) <= s, s < SlotOf(k + 1, 0)
      PROVE  \E i \in 0 .. Width - 1 : s = SlotOf(k, 0) + i /\ s = SlotOf(k, i)
  <2>1. s \in Nat
    BY DEF CallSlots
  <2>2. PICK z \in Nat, w \in Nat :
          /\ z = SlotOf(k, 0) /\ w = Width /\ SlotOf(k + 1, 0) = z + w
          /\ \A i \in Nat : SlotOf(k, i) = z + i
    BY <1>1, InRound
  <2>3. z <= s /\ s < z + w
    BY <1>6, <2>2
  <2>4. s - z \in 0 .. w - 1 /\ s - z \in Nat /\ s = z + (s - z)
    BY <2>1, <2>3
  <2> QED
    BY <2>2, <2>4
<1> QED
  BY <1>4, <1>5, <1>6

LEMMA ShareCover ==
  ASSUME NEW p \in Party, NEW k \in 0 .. Len(Owner) - 1, NEW size
  PROVE  /\ ShareLine(p, Owner[k + 1]) \in Seq(AnyCall)
         /\ Covers(ShareLine(p, Owner[k + 1]), p, size, SlotOf(k, 0), SlotOf(k + 1, 0))
<1>1. /\ k \in Nat /\ k < Len(Owner) /\ k + 1 \in 1 .. Len(Owner)
      /\ p \in Nat /\ p < N /\ N \in Nat /\ Owner[k + 1] \in Party
  BY PartyFacts
<1>2. PICK z \in Nat, w \in Nat :
        /\ w = Width /\ 0 < w /\ z = SlotOf(k, 0) /\ SlotOf(k + 1, 0) = z + w
        /\ \A i \in Nat : SlotOf(k, i) = z + i
  BY <1>1, InRound
<1>3. w = 6 * N /\ \A q \in Party : q \in Nat /\ q \in 0 .. Width - 1 /\ q < N /\ q < w
  <2>1. Width = 6 * N
    BY DEF Width
  <2>2. ASSUME NEW q \in Party PROVE q \in Nat /\ q < N
    BY PartyFacts
  <2>3. ASSUME NEW q \in Nat, q < N PROVE q \in 0 .. 6 * N - 1 /\ q < 6 * N
    BY <1>1, <2>3
  <2> QED
    BY <1>2, <2>1, <2>2, <2>3
<1>4. ASSUME NEW s \in CallSlots(p), z <= s, s < z + w
      PROVE  \E i \in 0 .. Width - 1 :
               /\ s = z + i /\ s = SlotOf(k, i) /\ i \in Nat
               /\ IF Owner[k + 1] = p THEN i \in Party \ {p} ELSE i = p
  <2>1. PICK i \in 0 .. Width - 1 : s = z + i /\ s = SlotOf(k, i)
    BY <1>2, <1>4, ShareSlots
  <2>2. i \in Nat
    OBVIOUS
  <2>3. SlotOf(k, i) \in CallSlots(p)
    BY <1>4, <2>1
  <2>4. IF Owner[k + 1] = p THEN i \in Party \ {p} ELSE i = p
    BY <2>3, ShareSlots
  <2> QED
    BY <2>1, <2>2, <2>4
<1>5. CASE Owner[k + 1] = p
  <2> DEFINE s == [i \in 1 .. N-1 |-> <<Put(Others(p)[i], ShareSize)>>]
  <2>1. ShareLine(p, Owner[k + 1]) = FlattenSeq(s)
    <3>1. DOMAIN Others(p) = 1 .. N-1
      BY DEF Others
    <3> QED
      BY <1>5, <3>1 DEF ShareLine, ForEach
  <2>2. ASSUME NEW i \in 1 .. N-1, NEW q \in Party, q = Others(p)[i]
        PROVE  /\ s[i] \in Seq(AnyCall)
               /\ Covers(s[i], p, size, z + 1 * q, z + 1 * q + 1)
    <3>1. q \in Party \ {p} /\ q \in Nat
      BY <2>2, OthersFacts, PartyFacts
    <3>2. SlotOf(k, q) \in CallSlots(p) /\ SlotOf(k, q) = z + q
      BY <1>2, <1>3, <1>5, <3>1, ShareSlots
    <3>3. Call(p, size, SlotOf(k, q)) = Put(q, ShareSize)
      BY <1>5, ShareSlots
    <3>4. Put(q, ShareSize) \in AnyCall
      BY SizeFacts
    <3>5. PICK n \in CallSlots(p) : n = SlotOf(k, q) /\ n = z + q
      BY <3>2
    <3>6. \A x \in CallSlots(p) : z + q <= x /\ x < z + q + 1 => x = n
      <4>1. \A x \in CallSlots(p) : x \in Nat
        BY DEF CallSlots
      <4> QED
        BY <3>1, <3>5, <4>1
    <3>7. Covers(<<Put(q, ShareSize)>>, p, size, z + q, z + q + 1)
      <4>1. z + q \in Nat /\ z + q + 1 \in Nat /\ z + q <= n /\ n < z + q + 1
        BY <3>1, <3>5
      <4> QED
        BY <3>3, <3>4, <3>5, <3>6, <4>1, CoversOne
    <3>8. s[i] = <<Put(q, ShareSize)>> /\ 1 * q = q
      BY <2>2, <3>1
    <3>9. <<Put(q, ShareSize)>> \in Seq(AnyCall)
      BY <3>4
    <3> HIDE DEF s
    <3> QED
      BY <3>7, <3>8, <3>9
  <2>3. s \in Seq(Seq(AnyCall)) /\ Len(s) = N - 1
    <3>1. \A i \in 1 .. N-1 : s[i] \in Seq(AnyCall)
      BY <2>2, OthersFacts
    <3>2. N - 1 \in Nat
      BY <1>1
    <3>3. s \in [1 .. N-1 -> Seq(AnyCall)]
      BY <3>1
    <3> HIDE DEF s
    <3> QED
      BY <3>2, <3>3, AsSeq
  <2>4. \A x \in CallSlots(p) : ~(z + 1 * p <= x /\ x < z + 1 * p + 1)
    <3> SUFFICES ASSUME NEW x \in CallSlots(p), z + p <= x, x < z + p + 1 PROVE FALSE
      BY <1>1
    <3>1. x \in Nat /\ x = z + p /\ x < z + w /\ z <= x
      BY <1>1, <1>3 DEF CallSlots
    <3>2. PICK i \in Nat : x = z + i /\ i # p
      BY <1>4, <1>5, <3>1
    <3> QED
      BY <1>1, <3>1, <3>2
  <2>5. Covers(FlattenSeq(s), p, size, z, z + 1 * N)
    <3> HIDE DEF s
    <3> QED
      BY <2>2, <2>3, <2>4, OthersCover
  <2>6. \A x \in CallSlots(p) : z <= x /\ x < z + w => z <= x /\ x < z + N
    <3> SUFFICES ASSUME NEW x \in CallSlots(p), z <= x, x < z + w PROVE x < z + N
      OBVIOUS
    <3>1. PICK i \in Nat : x = z + i /\ i < N
      BY <1>3, <1>4, <1>5
    <3> QED
      BY <1>1, <3>1
  <2>7. Covers(FlattenSeq(s), p, size, z, z + w)
    <3> HIDE DEF s
    <3>1. /\ z <= z /\ z <= z + N /\ z + N <= z + w /\ z + N \in Nat /\ z + w \in Nat
          /\ z + 1 * N = z + N
      BY <1>1, <1>3
    <3> QED
      BY <2>5, <2>6, <3>1, CoversMore
  <2>8. FlattenSeq(s) \in Seq(AnyCall)
    <3> HIDE DEF s
    <3> QED
      BY <2>7 DEF Covers, Lists
  <2> QED
    BY <1>2, <2>1, <2>7, <2>8
<1>6. CASE Owner[k + 1] # p
  <2>1. ShareLine(p, Owner[k + 1]) = <<Get(Owner[k + 1], ShareSize)>>
    BY <1>6 DEF ShareLine
  <2>2. PICK n \in CallSlots(p) : n = SlotOf(k, p) /\ n = z + p
    BY <1>1, <1>2, <1>3, <1>6, ShareSlots
  <2>3. Get(Owner[k + 1], ShareSize) \in AnyCall
    BY <1>1, SizeFacts
  <2>4. Get(Owner[k + 1], ShareSize) = Call(p, size, n)
    <3>1. Call(p, size, SlotOf(k, p)) =
            IF Owner[k + 1] = p THEN Put(p, ShareSize) ELSE Get(Owner[k + 1], ShareSize)
      BY ShareSlots
    <3> QED
      BY <1>6, <2>2, <3>1
  <2>5. \A x \in CallSlots(p) : z <= x /\ x < z + w => x = n
    BY <1>4, <1>6, <2>2
  <2>6. z <= n /\ n < z + w /\ z + w \in Nat
    <3>1. p < w
      BY <1>3
    <3> QED
      BY <1>1, <2>2, <3>1
  <2>7. Covers(<<Get(Owner[k + 1], ShareSize)>>, p, size, z, z + w)
    BY <2>3, <2>4, <2>5, <2>6, CoversOne
  <2> QED
    BY <1>2, <2>1, <2>3, <2>7
<1> QED
  BY <1>5, <1>6

\* The slots of an AND gate: three for each of the others.
LEMMA GateSlots ==
  ASSUME NEW p \in Party, NEW k \in Len(Owner) .. Rounds - 1
  PROVE  /\ \A q \in Party \ {p} : \A j \in 0 .. 2 : \A s :
              s = SlotOf(k, Place(p, q, j)) =>
                /\ s \in CallSlots(p) /\ s < GatherSlot /\ Round(s) = k
                /\ Message(s) = j /\ Partner(p, s) = q
         /\ \A s \in CallSlots(p) : SlotOf(k, 0) <= s /\ s < SlotOf(k + 1, 0) =>
              \E q \in Party \ {p} : \E j \in 0 .. 2 :
                s = SlotOf(k, 0) + Place(p, q, j) /\ s = SlotOf(k, Place(p, q, j))
<1>1. k \in Nat /\ ~(k < Len(Owner)) /\ k < Rounds /\ Len(Owner) <= k
  BY PartyFacts
<1>2. Width = 6 * N /\ N \in Nat /\ p \in Nat /\ p < N
  BY PartyFacts DEF Width
<1>3. ASSUME NEW q \in Party \ {p}, NEW j \in 0 .. 2
      PROVE  /\ SlotOf(k, Place(p, q, j)) \in CallSlots(p)
             /\ SlotOf(k, Place(p, q, j)) < GatherSlot
             /\ Round(SlotOf(k, Place(p, q, j))) = k
             /\ Message(SlotOf(k, Place(p, q, j))) = j
             /\ Partner(p, SlotOf(k, Place(p, q, j))) = q
  <2>1. q \in Nat /\ q < N
    BY PartyFacts
  <2>2. PICK i \in Nat : i = Place(p, q, j) /\ i < 6 * N /\ i \div 3 = p + q /\ i % 3 = j
    BY <1>2, <2>1 DEF Place
  <2>3. /\ SlotOf(k, i) \in 0 .. EndSlot - 1 /\ SlotOf(k, i) < GatherSlot
        /\ Round(SlotOf(k, i)) = k /\ Inner(SlotOf(k, i)) = i
    BY <1>1, <1>2, <2>2, Decode, EarlySlot
  <2>4. Message(SlotOf(k, i)) = j /\ Partner(p, SlotOf(k, i)) = q
    BY <1>2, <2>1, <2>2, <2>3 DEF Message, Partner
  <2>5. Calls(p, SlotOf(k, i))
    BY <1>1, <2>3, <2>4 DEF Calls
  <2> QED
    BY <2>2, <2>3, <2>4, <2>5 DEF CallSlots
<1>4. ASSUME NEW s \in CallSlots(p), SlotOf(k, 0) <= s, s < SlotOf(k + 1, 0)
      PROVE  \E q \in Party \ {p} : \E j \in 0 .. 2 :
               s = SlotOf(k, 0) + Place(p, q, j) /\ s = SlotOf(k, Place(p, q, j))
  <2>1. s \in Nat /\ Calls(p, s)
    BY DEF CallSlots
  <2>2. PICK z \in Nat, w \in Nat :
          /\ z = SlotOf(k, 0) /\ w = Width /\ SlotOf(k + 1, 0) = z + w
          /\ \A i \in Nat : SlotOf(k, i) = z + i
    BY <1>1, InRound
  <2>3. z <= s /\ s < z + w
    BY <1>4, <2>2
  <2>4. PICK i \in Nat : s = z + i /\ i < w
    <3>1. s - z \in Nat /\ s = z + (s - z) /\ s - z < w
      BY <2>1, <2>3
    <3> QED
      BY <3>1
  <2>5. s = SlotOf(k, i) /\ Round(s) = k /\ Inner(s) = i
    BY <1>1, <2>2, <2>4, Decode
  <2>6. Partner(p, s) \in Party \ {p} /\ Partner(p, s) = i \div 3 - p
    BY <1>1, <2>1, <2>5, PartyFacts DEF Calls, Partner
  <2>7. PICK q \in Party \ {p} : q = i \div 3 - p /\ q \in Nat
    BY <2>6, PartyFacts
  <2>8. PICK j \in 0 .. 2 : i = Place(p, q, j)
    <3>1. i % 3 \in 0 .. 2 /\ i = 3 * (p + q) + (i % 3)
      BY <1>2, <2>7
    <3> QED
      BY <3>1 DEF Place
  <2>9. s = z + Place(p, q, j)
    BY <1>2, <2>4, <2>7, <2>8
  <2> QED
    BY <2>2, <2>5, <2>8, <2>9
<1> QED
  BY <1>3, <1>4

LEMMA ThreeCalls ==
  ASSUME NEW T, NEW x \in T, NEW y \in T, NEW z \in T
  PROVE  (<<x>> \o <<y>>) \o <<z>> = <<x, y, z>>
<1>1. <<x>> \o <<y>> = <<x, y>>
  <2>1. <<x>> \in Seq(T) /\ Len(<<x>>) = 1 /\ <<x>>[1] = x
    OBVIOUS
  <2>2. Append(<<x>>, y) = <<x>> \o <<y>>
    BY <2>1, AppendIsConcat
  <2>3. /\ Append(<<x>>, y) \in Seq(T) /\ Len(Append(<<x>>, y)) = 2
        /\ Append(<<x>>, y)[1] = x /\ Append(<<x>>, y)[2] = y
    <3>1. 1 + 1 = 2 /\ 1 \in 1 .. 1
      OBVIOUS
    <3> QED
      BY <2>1, <3>1, AppendProperties
  <2>4. <<x, y>> \in Seq(T) /\ Len(<<x, y>>) = 2 /\ <<x, y>>[1] = x /\ <<x, y>>[2] = y
    OBVIOUS
  <2>5. \A i \in 1 .. 2 : i = 1 \/ i = 2
    OBVIOUS
  <2> QED
    BY <2>2, <2>3, <2>4, <2>5, SeqEqual
<1>2. <<x, y>> \o <<z>> = <<x, y, z>>
  <2>1. <<x, y>> \in Seq(T) /\ Len(<<x, y>>) = 2 /\ <<x, y>>[1] = x /\ <<x, y>>[2] = y
    OBVIOUS
  <2>2. Append(<<x, y>>, z) = <<x, y>> \o <<z>>
    BY <2>1, AppendIsConcat
  <2>3. /\ Append(<<x, y>>, z) \in Seq(T) /\ Len(Append(<<x, y>>, z)) = 3
        /\ Append(<<x, y>>, z)[1] = x /\ Append(<<x, y>>, z)[2] = y
        /\ Append(<<x, y>>, z)[3] = z
    <3>1. 2 + 1 = 3 /\ 1 \in 1 .. 2 /\ 2 \in 1 .. 2
      OBVIOUS
    <3> QED
      BY <2>1, <3>1, AppendProperties
  <2>4. /\ <<x, y, z>> \in Seq(T) /\ Len(<<x, y, z>>) = 3
        /\ <<x, y, z>>[1] = x /\ <<x, y, z>>[2] = y /\ <<x, y, z>>[3] = z
    OBVIOUS
  <2>5. \A i \in 1 .. 3 : i = 1 \/ i = 2 \/ i = 3
    OBVIOUS
  <2> QED
    BY <2>2, <2>3, <2>4, <2>5, SeqEqual
<1> QED
  BY <1>1, <1>2

LEMMA AndCover ==
  ASSUME NEW p \in Party, NEW k \in Len(Owner) .. Rounds - 1, NEW size
  PROVE  /\ AndGate(p) \in Seq(AnyCall)
         /\ Covers(AndGate(p), p, size, SlotOf(k, 0), SlotOf(k + 1, 0))
<1>1. /\ k \in Nat /\ p \in Nat /\ p < N /\ N \in Nat /\ Len(Owner) <= k /\ k < Rounds
      /\ ~(k < Len(Owner))
  BY PartyFacts
<1>2. PICK z \in Nat, w \in Nat :
        /\ w = Width /\ 0 < w /\ z = SlotOf(k, 0) /\ SlotOf(k + 1, 0) = z + w
        /\ \A i \in Nat : SlotOf(k, i) = z + i
  BY <1>1, InRound
<1>3. w = 6 * N
  BY <1>2 DEF Width
<1> DEFINE s == [i \in 1 .. N-1 |-> IF p < Others(p)[i] THEN OTSend(Others(p)[i])
                                                        ELSE OTRecv(Others(p)[i])]
           base == z + 3 * p
<1>4. AndGate(p) = FlattenSeq(s)
  <2>1. DOMAIN Others(p) = 1 .. N-1
    BY DEF Others
  <2> QED
    BY <2>1 DEF AndGate, ForEach
<1>5. ASSUME NEW q \in Party \ {p}, NEW t, t = IF p < q THEN OTSend(q) ELSE OTRecv(q)
      PROVE  t \in Seq(AnyCall) /\ Covers(t, p, size, base + 3 * q, base + 3 * q + 3)
  <2>1. q \in Nat
    BY PartyFacts
  <2>2. PICK y \in Nat : y = base + 3 * q /\ y = z + 3 * (p + q)
    BY <1>1, <2>1
  <2>3. ASSUME NEW j \in 0 .. 2
        PROVE  /\ y + j \in CallSlots(p) /\ Round(y + j) = k /\ Message(y + j) = j
               /\ Partner(p, y + j) = q
    <3>1. Place(p, q, j) \in Nat /\ y + j = z + Place(p, q, j)
      BY <1>1, <2>1, <2>2 DEF Place
    <3>2. y + j = SlotOf(k, Place(p, q, j))
      BY <1>2, <3>1
    <3> QED
      BY <3>2, GateSlots
  <2>4. ASSUME NEW j \in 0 .. 2, NEW call \in AnyCall, call = Call(p, size, y + j)
        PROVE  Covers(<<call>>, p, size, y + j, y + j + 1)
    <3>1. PICK n \in CallSlots(p) : n = y + j
      BY <2>3
    <3>2. n \in Nat /\ \A x \in CallSlots(p) : x \in Nat
      BY DEF CallSlots
    <3>3. \A x \in CallSlots(p) : n <= x /\ x < n + 1 => x = n
      BY <3>2
    <3>4. Covers(<<call>>, p, size, n, n + 1)
      BY <2>4, <3>1, <3>2, <3>3, CoversOne
    <3> QED
      BY <3>1, <3>4
  <2>5. PICK c1 \in AnyCall, c2 \in AnyCall, c3 \in AnyCall :
          /\ c1 = Call(p, size, y) /\ c2 = Call(p, size, y + 1) /\ c3 = Call(p, size, y + 2)
          /\ t = <<c1, c2, c3>>
    <3>1. /\ Round(y) = k /\ Message(y) = 0 /\ Partner(p, y) = q
          /\ Round(y + 1) = k /\ Message(y + 1) = 1 /\ Partner(p, y + 1) = q
          /\ Round(y + 2) = k /\ Message(y + 2) = 2 /\ Partner(p, y + 2) = q
      <4>1. y + 0 = y
        OBVIOUS
      <4> QED
        BY <2>3, <4>1
    <3>2. \A l \in {ShareSize, PublicSize, ValuesSize} : Put(q, l) \in AnyCall /\ Get(q, l) \in AnyCall
      BY SizeFacts
    <3>3. CASE p < q
      <4>1. /\ Call(p, size, y) = Put(q, PublicSize) /\ Call(p, size, y + 1) = Get(q, PublicSize)
            /\ Call(p, size, y + 2) = Put(q, ValuesSize)
        BY <1>1, <3>1, <3>3 DEF Call
      <4>2. t = <<Put(q, PublicSize), Get(q, PublicSize), Put(q, ValuesSize)>>
        BY <1>5, <3>3 DEF OTSend
      <4> QED
        BY <3>2, <4>1, <4>2
    <3>4. CASE ~(p < q)
      <4>1. /\ Call(p, size, y) = Get(q, PublicSize) /\ Call(p, size, y + 1) = Put(q, PublicSize)
            /\ Call(p, size, y + 2) = Get(q, ValuesSize)
        BY <1>1, <3>1, <3>4 DEF Call
      <4>2. t = <<Get(q, PublicSize), Put(q, PublicSize), Get(q, ValuesSize)>>
        BY <1>5, <3>4 DEF OTRecv
      <4> QED
        BY <3>2, <4>1, <4>2
    <3> QED
      BY <3>3, <3>4
  <2>6. /\ Covers(<<c1>>, p, size, y, y + 1) /\ Covers(<<c2>>, p, size, y + 1, y + 2)
        /\ Covers(<<c3>>, p, size, y + 2, y + 3)
    <3>1. y + 0 = y /\ y + 0 + 1 = y + 1 /\ y + 1 + 1 = y + 2 /\ y + 2 + 1 = y + 3
      OBVIOUS
    <3>2. Covers(<<c1>>, p, size, y + 0, y + 0 + 1)
      BY <2>4, <2>5, <3>1
    <3>3. Covers(<<c2>>, p, size, y + 1, y + 1 + 1)
      BY <2>4, <2>5
    <3>4. Covers(<<c3>>, p, size, y + 2, y + 2 + 1)
      BY <2>4, <2>5
    <3> QED
      BY <3>1, <3>2, <3>3, <3>4
  <2>7. Covers(<<c1>> \o <<c2>>, p, size, y, y + 2)
    <3>1. y <= y + 1 /\ y + 1 <= y + 2 /\ y + 1 \in Nat /\ y + 2 \in Nat
      OBVIOUS
    <3> QED
      BY <2>6, <3>1, CoversJoined
  <2>8. Covers((<<c1>> \o <<c2>>) \o <<c3>>, p, size, y, y + 3)
    <3>1. y <= y + 2 /\ y + 2 <= y + 3 /\ y + 3 \in Nat /\ y + 2 \in Nat
      OBVIOUS
    <3> QED
      BY <2>6, <2>7, <3>1, CoversJoined
  <2>9. (<<c1>> \o <<c2>>) \o <<c3>> = t /\ t \in Seq(AnyCall)
    <3>1. (<<c1>> \o <<c2>>) \o <<c3>> = <<c1, c2, c3>>
      BY ThreeCalls
    <3>2. <<c1, c2, c3>> \in Seq(AnyCall)
      OBVIOUS
    <3> QED
      BY <2>5, <3>1, <3>2
  <2> QED
    BY <2>2, <2>8, <2>9
<1>6. ASSUME NEW i \in 1 .. N-1, NEW q \in Party, q = Others(p)[i]
      PROVE  s[i] \in Seq(AnyCall) /\ Covers(s[i], p, size, base + 3 * q, base + 3 * q + 3)
  <2>1. q \in Party \ {p}
    BY <1>6, OthersFacts
  <2>2. s[i] = IF p < q THEN OTSend(q) ELSE OTRecv(q)
    BY <1>6
  <2> HIDE DEF s, base
  <2> QED
    BY <1>5, <2>1, <2>2
<1>7. s \in Seq(Seq(AnyCall)) /\ Len(s) = N - 1
  <2>1. \A i \in 1 .. N-1 : s[i] \in Seq(AnyCall)
    <3> HIDE DEF s, base
    <3> QED
      BY <1>6, OthersFacts
  <2>2. N - 1 \in Nat
    BY <1>1
  <2>3. s \in [1 .. N-1 -> Seq(AnyCall)]
    BY <2>1
  <2> HIDE DEF s
  <2> QED
    BY <2>2, <2>3, AsSeq
<1>8. ASSUME NEW x \in CallSlots(p), z <= x, x < z + w
      PROVE  \E q \in Party \ {p} : \E j \in 0 .. 2 : x = base + 3 * q + j /\ q \in Nat /\ q < N
  <2>1. PICK q \in Party \ {p}, j \in 0 .. 2 : x = z + 3 * (p + q) + j
    <3>1. SlotOf(k, 0) <= x /\ x < SlotOf(k + 1, 0)
      BY <1>2, <1>8
    <3>2. PICK q \in Party \ {p}, j \in 0 .. 2 : x = SlotOf(k, 0) + Place(p, q, j)
      BY <3>1, GateSlots
    <3>3. Place(p, q, j) = 3 * (p + q) + j /\ q \in Nat
      BY PartyFacts DEF Place
    <3>4. x = z + 3 * (p + q) + j
      BY <1>1, <1>2, <3>2, <3>3
    <3> QED
      BY <3>4
  <2>2. q \in Nat /\ q < N
    BY PartyFacts
  <2>3. x = base + 3 * q + j
    BY <1>1, <2>1, <2>2
  <2> QED
    BY <2>2, <2>3
<1>9. base \in Nat /\ base + 3 * p + 3 <= z + w /\ z <= base /\ base + 3 * N <= z + w
  BY <1>1, <1>3
<1>10. \A x \in CallSlots(p) : ~(base + 3 * p <= x /\ x < base + 3 * p + 3)
  <2> SUFFICES ASSUME NEW x \in CallSlots(p), base + 3 * p <= x, x < base + 3 * p + 3
               PROVE  FALSE
    OBVIOUS
  <2>1. x \in Nat
    BY DEF CallSlots
  <2>2. z <= x /\ x < z + w
    BY <1>1, <1>3, <1>9, <2>1
  <2>3. PICK q \in Party \ {p}, j \in 0 .. 2 : x = base + 3 * q + j /\ q \in Nat
    BY <1>8, <2>2
  <2> QED
    BY <1>1, <2>3
<1>11. Covers(FlattenSeq(s), p, size, base, base + 3 * N)
  <2> HIDE DEF s, base
  <2> QED
    BY <1>6, <1>7, <1>9, <1>10, OthersCover
<1>12. \A x \in CallSlots(p) : z <= x /\ x < z + w => base <= x /\ x < base + 3 * N
  <2> SUFFICES ASSUME NEW x \in CallSlots(p), z <= x, x < z + w
               PROVE  base <= x /\ x < base + 3 * N
    OBVIOUS
  <2>1. PICK q \in Party \ {p}, j \in 0 .. 2 : x = base + 3 * q + j /\ q \in Nat /\ q < N
    BY <1>8
  <2> QED
    BY <1>1, <2>1
<1>13. Covers(FlattenSeq(s), p, size, z, z + w)
  <2>1. base <= base + 3 * N /\ base + 3 * N \in Nat /\ z + w \in Nat
    <3> HIDE DEF base
    <3>1. PICK y \in Nat : y = base
      BY <1>9
    <3>2. y <= y + 3 * N /\ y + 3 * N \in Nat
      BY <1>1
    <3>3. z + w \in Nat
      OBVIOUS
    <3> QED
      BY <3>1, <3>2, <3>3
  <2> HIDE DEF s, base
  <2> QED
    BY <1>9, <1>11, <1>12, <2>1, CoversMore
<1>14. FlattenSeq(s) \in Seq(AnyCall)
  <2> HIDE DEF s, base
  <2> QED
    BY <1>13 DEF Covers, Lists
<1> HIDE DEF s, base
<1> QED
  BY <1>2, <1>4, <1>13, <1>14

\* The slots of the gathering: first all sends, then all reads.
LEMMA GatherFacts ==
  \E z \in Nat :
    /\ z = GatherSlot /\ EndSlot = z + 2 * N /\ Width = 6 * N /\ N \in Nat
    /\ \A i \in Nat : SlotOf(Rounds, i) = z + i
    /\ \A q \in Party : PutSlot(q) = z + q /\ GetSlot(q) = z + N + q
<1>1. Rounds \in Nat /\ N \in Nat /\ 2 * N \in Nat /\ Width = 6 * N
  BY PartyFacts DEF Width
<1>2. PICK z \in Nat : z = SlotOf(Rounds, 0) /\ \A i \in Nat : SlotOf(Rounds, i) = z + i
  BY <1>1, InRound
<1> QED
  BY <1>1, <1>2 DEF GatherSlot, EndSlot, PutSlot, GetSlot

LEMMA GatherPlaces ==
  ASSUME NEW q \in Party
  PROVE  \E g, x, y \in Nat :
           /\ g = GatherSlot /\ x = PutSlot(q) /\ y = GetSlot(q) /\ g + N \in Nat
           /\ g <= x /\ x < g + N /\ g + N <= y /\ g <= y /\ x < EndSlot /\ y < EndSlot
<1>1. q \in Nat /\ q < N
  BY PartyFacts
<1>2. PICK g \in Nat :
        /\ g = GatherSlot /\ EndSlot = g + 2 * N /\ N \in Nat
        /\ PutSlot(q) = g + q /\ GetSlot(q) = g + N + q
  BY GatherFacts
<1>3. PICK x \in Nat, y \in Nat : x = g + q /\ y = g + N + q
  BY <1>1, <1>2
<1>4. /\ g + N \in Nat /\ g <= x /\ x < g + N /\ g + N <= y /\ g <= y
      /\ x < g + 2 * N /\ y < g + 2 * N
  BY <1>1, <1>2, <1>3
<1> QED
  BY <1>2, <1>3, <1>4

LEMMA GatherSlots ==
  ASSUME NEW p \in Party
  PROVE  /\ \A q \in Party \ {p} :
              /\ PutSlot(q) \in CallSlots(p) /\ GetSlot(q) \in CallSlots(p)
              /\ \A size : Call(p, size, PutSlot(q)) = Put(q, size)
              /\ \A size : Call(p, size, GetSlot(q)) = Get(q, size)
         /\ \A s \in CallSlots(p) : GatherSlot <= s =>
              \E q \in Party \ {p} : s = PutSlot(q) \/ s = GetSlot(q)
<1>1. PICK z \in Nat :
        /\ z = GatherSlot /\ EndSlot = z + 2 * N /\ Width = 6 * N /\ N \in Nat
        /\ \A i \in Nat : SlotOf(Rounds, i) = z + i
        /\ \A q \in Party : PutSlot(q) = z + q /\ GetSlot(q) = z + N + q
  BY GatherFacts
<1>2. /\ Rounds \in Nat /\ Len(Owner) \in Nat /\ ~(Rounds < Len(Owner)) /\ ~(Rounds < Rounds)
      /\ p \in Nat /\ p < N
  BY PartyFacts
<1>3. ASSUME NEW i \in Nat, i < 2 * N
      PROVE  Round(z + i) = Rounds /\ Inner(z + i) = i /\ z + i \in 0 .. EndSlot - 1
  <2>1. i < Width /\ z + i \in 0 .. EndSlot - 1
    BY <1>1, <1>3
  <2>2. z + i = SlotOf(Rounds, i)
    BY <1>1
  <2>3. Round(SlotOf(Rounds, i)) = Rounds /\ Inner(SlotOf(Rounds, i)) = i
    BY <1>2, <2>1, Decode
  <2> QED
    BY <2>1, <2>2, <2>3
<1>4. ASSUME NEW q \in Party \ {p}
      PROVE  /\ PutSlot(q) \in CallSlots(p) /\ GetSlot(q) \in CallSlots(p)
             /\ \A size : Call(p, size, PutSlot(q)) = Put(q, size)
             /\ \A size : Call(p, size, GetSlot(q)) = Get(q, size)
  <2>1. q \in Nat /\ q < N
    BY PartyFacts
  <2>2. PICK x \in Nat, y \in Nat :
          x = z + q /\ y = z + (N + q) /\ x = PutSlot(q) /\ y = GetSlot(q)
    BY <1>1, <2>1
  <2>3. N + q \in Nat /\ N + q < 2 * N /\ q < 2 * N /\ ~(N + q < N) /\ (N + q) - N = q
    BY <1>1, <2>1
  <2>4. /\ Round(x) = Rounds /\ Inner(x) = q /\ x \in 0 .. EndSlot - 1
        /\ Round(y) = Rounds /\ Inner(y) = N + q /\ y \in 0 .. EndSlot - 1
    BY <1>3, <2>1, <2>2, <2>3
  <2>5. Calls(p, x) /\ Calls(p, y)
    BY <1>2, <2>3, <2>4 DEF Calls
  <2>6. \A size : Call(p, size, x) = Put(q, size) /\ Call(p, size, y) = Get(q, size)
    BY <1>2, <2>1, <2>3, <2>4 DEF Call
  <2> QED
    BY <2>2, <2>4, <2>5, <2>6 DEF CallSlots
<1>5. ASSUME NEW s \in CallSlots(p), GatherSlot <= s
      PROVE  \E q \in Party \ {p} : s = PutSlot(q) \/ s = GetSlot(q)
  <2>1. s \in 0 .. EndSlot - 1 /\ Calls(p, s)
    BY DEF CallSlots
  <2>2. PICK i \in Nat : s = z + i /\ i < 2 * N
    <3>1. s - z \in Nat /\ s = z + (s - z) /\ s - z < 2 * N
      BY <1>1, <1>5, <2>1
    <3> QED
      BY <3>1
  <2>3. Round(s) = Rounds /\ Inner(s) = i
    BY <1>3, <2>2
  <2>4. i \in Party \ {p} \/ i - N \in Party \ {p}
    BY <1>2, <2>1, <2>3 DEF Calls
  <2>5. CASE i \in Party \ {p}
    BY <1>1, <2>2, <2>5
  <2>6. ASSUME NEW q \in Party \ {p}, q = i - N PROVE s = GetSlot(q)
    <3>1. q \in Nat
      BY PartyFacts
    <3>2. s = z + N + q
      BY <1>1, <2>2, <2>6, <3>1
    <3> QED
      BY <1>1, <3>2
  <2> QED
    BY <2>4, <2>5, <2>6
<1> QED
  BY <1>4, <1>5

LEMMA GatherCover ==
  ASSUME NEW p \in Party, NEW size \in 1 .. MaxGossip
  PROVE  Covers(Gather(p, size), p, size, GatherSlot, EndSlot)
<1>1. PICK z \in Nat :
        /\ z = GatherSlot /\ EndSlot = z + 2 * N /\ Width = 6 * N /\ N \in Nat
        /\ \A i \in Nat : SlotOf(Rounds, i) = z + i
        /\ \A q \in Party : PutSlot(q) = z + q /\ GetSlot(q) = z + N + q
  BY GatherFacts
<1>2. p \in Nat /\ p < N /\ 0 < N
  BY PartyFacts
<1> DEFINE s == [i \in 1 .. N-1 |-> <<Put(Others(p)[i], size)>>]
           t == [i \in 1 .. N-1 |-> <<Get(Others(p)[i], size)>>]
<1>3. Gather(p, size) = FlattenSeq(s) \o FlattenSeq(t)
  <2>1. DOMAIN Others(p) = 1 .. N-1
    BY DEF Others
  <2> QED
    BY <2>1 DEF Gather, ForEach
<1>4. ASSUME NEW x \in CallSlots(p), z <= x
      PROVE  \E q \in Nat : /\ x \in Nat /\ q < N /\ q # p
                            /\ x = z + q \/ x = z + N + q
  <2>1. PICK q \in Party \ {p} : x = PutSlot(q) \/ x = GetSlot(q)
    BY <1>1, <1>4, GatherSlots
  <2>2. q \in Nat /\ q < N
    BY PartyFacts
  <2>3. x \in Nat
    BY DEF CallSlots
  <2> QED
    BY <1>1, <2>1, <2>2, <2>3
<1>5. ASSUME NEW base \in {z, z + N}, NEW q \in Party \ {p}, NEW call \in AnyCall,
             NEW n \in CallSlots(p), n = base + q, call = Call(p, size, n)
      PROVE  <<call>> \in Seq(AnyCall) /\ Covers(<<call>>, p, size, base + 1 * q, base + 1 * q + 1)
  <2>1. q \in Nat /\ n \in Nat
    BY PartyFacts DEF CallSlots
  <2>2. base + 1 * q = n
    BY <1>1, <1>5, <2>1
  <2>3. \A x \in CallSlots(p) : n <= x /\ x < n + 1 => x = n
    <3>1. \A x \in CallSlots(p) : x \in Nat
      BY DEF CallSlots
    <3> QED
      BY <2>1, <3>1
  <2>4. n <= n /\ n < n + 1 /\ n + 1 \in Nat
    BY <2>1
  <2> QED
    BY <1>5, <2>1, <2>2, <2>3, <2>4, CoversOne
<1>6. ASSUME NEW i \in 1 .. N-1, NEW q \in Party, q = Others(p)[i]
      PROVE  /\ s[i] \in Seq(AnyCall) /\ Covers(s[i], p, size, z + 1 * q, z + 1 * q + 1)
             /\ t[i] \in Seq(AnyCall) /\ Covers(t[i], p, size, z + N + 1 * q, z + N + 1 * q + 1)
  <2>1. q \in Party \ {p} /\ q \in Nat
    BY <1>6, OthersFacts, PartyFacts
  <2>2. Put(q, size) \in AnyCall /\ Get(q, size) \in AnyCall
    BY SizeFacts
  <2>3. /\ PutSlot(q) \in CallSlots(p) /\ Put(q, size) = Call(p, size, PutSlot(q))
        /\ GetSlot(q) \in CallSlots(p) /\ Get(q, size) = Call(p, size, GetSlot(q))
    BY <2>1, GatherSlots
  <2>4. PutSlot(q) = z + q /\ GetSlot(q) = (z + N) + q
    BY <1>1
  <2>5. s[i] = <<Put(q, size)>> /\ t[i] = <<Get(q, size)>>
    BY <1>6
  <2> HIDE DEF s, t
  <2>6. s[i] \in Seq(AnyCall) /\ Covers(s[i], p, size, z + 1 * q, z + 1 * q + 1)
    BY <1>5, <2>1, <2>2, <2>3, <2>4, <2>5
  <2>7. t[i] \in Seq(AnyCall) /\ Covers(t[i], p, size, z + N + 1 * q, z + N + 1 * q + 1)
    BY <1>5, <2>1, <2>2, <2>3, <2>4, <2>5
  <2> QED
    BY <2>6, <2>7
<1>7. s \in Seq(Seq(AnyCall)) /\ Len(s) = N - 1 /\ t \in Seq(Seq(AnyCall)) /\ Len(t) = N - 1
  <2>1. \A i \in 1 .. N-1 : s[i] \in Seq(AnyCall) /\ t[i] \in Seq(AnyCall)
    <3> HIDE DEF s, t
    <3> QED
      BY <1>6, OthersFacts
  <2>2. N - 1 \in Nat
    BY <1>1, <1>2
  <2>3. s \in [1 .. N-1 -> Seq(AnyCall)] /\ t \in [1 .. N-1 -> Seq(AnyCall)]
    BY <2>1
  <2> HIDE DEF s, t
  <2> QED
    BY <2>2, <2>3, AsSeq
<1>8. ASSUME NEW base \in {z, z + N}, NEW x \in CallSlots(p)
      PROVE  ~(base + 1 * p <= x /\ x < base + 1 * p + 1)
  <2> SUFFICES ASSUME base + p <= x, x < base + p + 1 PROVE FALSE
    BY <1>2
  <2>1. x \in Nat /\ x = base + p /\ z <= x
    BY <1>1, <1>2 DEF CallSlots
  <2>2. PICK q \in Nat : q < N /\ q # p /\ (x = z + q \/ x = z + N + q)
    BY <1>4, <2>1
  <2> QED
    BY <1>1, <1>2, <2>1, <2>2
<1>9. Covers(FlattenSeq(s), p, size, z, z + 1 * N)
  <2> HIDE DEF s
  <2> QED
    BY <1>6, <1>7, <1>8, OthersCover
<1>10. Covers(FlattenSeq(t), p, size, z + N, z + N + 1 * N)
  <2>1. z + N \in Nat
    BY <1>1
  <2> HIDE DEF t
  <2> QED
    BY <1>6, <1>7, <1>8, <2>1, OthersCover
<1>11. z + 1 * N = z + N /\ z + N + 1 * N = EndSlot /\ z <= z + N /\ z + N <= EndSlot
       /\ z + N \in Nat /\ EndSlot \in Nat
  BY <1>1
<1> HIDE DEF s, t
<1> QED
  BY <1>1, <1>3, <1>9, <1>10, <1>11, CoversJoined

\* A loop with a round for each turn.
LEMMA RoundsCover ==
  ASSUME NEW p, NEW size, NEW a \in Nat, NEW s \in Seq(Seq(AnyCall)),
         \A i \in 1 .. Len(s) : \A k \in Nat : k + 1 = a + i =>
           Covers(s[i], p, size, SlotOf(k, 0), SlotOf(k + 1, 0))
  PROVE  Covers(FlattenSeq(s), p, size, SlotOf(a, 0), SlotOf(a + Len(s), 0))
<1>1. PICK n \in Nat : n = Len(s)
  BY LenProperties
<1>2. PICK e \in [0 .. n -> Seq(AnyCall)] :
        /\ e[0] = <<>> /\ FlattenSeq(s) = e[n]
        /\ \A i \in 1 .. n : e[i] = e[i-1] \o s[i]
  BY <1>1, Flatten
<1>3. \A k \in Nat : SlotOf(k, 0) \in Nat
  BY InRound
<1> DEFINE S == {i \in 0 .. n : Covers(e[i], p, size, SlotOf(a, 0), SlotOf(a + i, 0))}
<1>4. 0 \in S
  <2>1. PICK z \in Nat : z = SlotOf(a, 0)
    BY <1>3
  <2>2. \A x \in CallSlots(p) : ~(z <= x /\ x < z)
    BY DEF CallSlots
  <2>3. Covers(<<>>, p, size, z, z)
    BY <2>2, CoversNothing
  <2> QED
    BY <1>2, <2>1, <2>3
<1>5. ASSUME NEW i \in 0 .. n-1, i \in S PROVE i + 1 \in S
  <2>1. i + 1 \in 1 .. n /\ (i + 1) - 1 = i /\ a + i \in Nat /\ (a + i) + 1 = a + (i + 1) /\ a <= a + i
        /\ a + i <= a + (i + 1) /\ a + (i + 1) \in Nat
    BY <1>1
  <2>2. e[i+1] = e[i] \o s[i+1]
    BY <1>2, <2>1
  <2>3. PICK k \in Nat : k = a + i /\ k + 1 = a + (i + 1)
    BY <2>1
  <2>4. Covers(s[i+1], p, size, SlotOf(k, 0), SlotOf(k + 1, 0))
    BY <1>1, <2>1, <2>3
  <2>5. PICK x \in Nat, y \in Nat, z \in Nat :
          x = SlotOf(a, 0) /\ y = SlotOf(k, 0) /\ z = SlotOf(k + 1, 0)
    <3>1. k + 1 \in Nat
      OBVIOUS
    <3> QED
      BY <1>3, <3>1
  <2>6. x <= y /\ y <= z
    BY <2>1, <2>3, <2>5, LaterRound
  <2>7. Covers(e[i], p, size, x, y)
    BY <1>5, <2>3, <2>5
  <2>8. Covers(e[i+1], p, size, x, z)
    BY <2>2, <2>4, <2>5, <2>6, <2>7, CoversJoined
  <2> QED
    BY <2>1, <2>3, <2>5, <2>8
<1>6. n \in S
  <2> HIDE DEF S
  <2>1. \A i \in 0 .. n : i \in S
    BY <1>4, <1>5, BoundedInduction
  <2> QED
    BY <2>1
<1> QED
  BY <1>1, <1>2, <1>6

\* main calls what Call says, in the order of the slots.
LEMMA ProgramCover ==
  ASSUME NEW p \in Party, NEW size \in 1 .. MaxGossip
  PROVE  Covers(Program(p, size), p, size, 0, EndSlot)
<1>1. PICK l \in Nat, n \in Nat :
        l = Len(Owner) /\ n = NumAnd /\ Rounds = l + n /\ \A i \in 1 .. l : Owner[i] \in Party
  BY PartyFacts
<1> DEFINE s == [i \in 1 .. l |-> ShareLine(p, Owner[i])]
           t == [i \in 1 .. n |-> AndGate(p)]
<1>2. Program(p, size) = (FlattenSeq(s) \o FlattenSeq(t)) \o Gather(p, size)
  <2>1. DOMAIN Owner = 1 .. l
    BY <1>1, BlockingAssumption, LenProperties
  <2>2. DOMAIN [g \in 1 .. NumAnd |-> p] = 1 .. n
    BY <1>1
  <2>3. ForEach(Owner, LAMBDA owner : ShareLine(p, owner)) = FlattenSeq(s)
    BY <2>1 DEF ForEach
  <2>4. ForEach([g \in 1 .. NumAnd |-> p], AndGate) = FlattenSeq(t)
    <3>1. [i \in DOMAIN [g \in 1 .. NumAnd |-> p] |-> AndGate([g \in 1 .. NumAnd |-> p][i])] = t
      BY <1>1
    <3> QED
      BY <3>1 DEF ForEach
  <2> HIDE DEF s, t
  <2> QED
    BY <2>3, <2>4 DEF Program
<1>3. ASSUME NEW i \in 1 .. l, NEW k \in Nat, k + 1 = 0 + i
      PROVE  s[i] \in Seq(AnyCall) /\ Covers(s[i], p, size, SlotOf(k, 0), SlotOf(k + 1, 0))
  <2>1. k \in 0 .. Len(Owner) - 1 /\ k + 1 = i
    BY <1>1, <1>3
  <2>2. s[i] = ShareLine(p, Owner[k + 1])
    BY <2>1
  <2> HIDE DEF s
  <2> QED
    BY <2>1, <2>2, ShareCover
<1>4. ASSUME NEW i \in 1 .. n, NEW k \in Nat, k + 1 = l + i
      PROVE  t[i] \in Seq(AnyCall) /\ Covers(t[i], p, size, SlotOf(k, 0), SlotOf(k + 1, 0))
  <2>1. k \in Len(Owner) .. Rounds - 1
    BY <1>1, <1>4
  <2>2. t[i] = AndGate(p)
    OBVIOUS
  <2> HIDE DEF t
  <2> QED
    BY <2>1, <2>2, AndCover
<1>5. s \in Seq(Seq(AnyCall)) /\ Len(s) = l /\ t \in Seq(Seq(AnyCall)) /\ Len(t) = n
  <2>1. ASSUME NEW i \in 1 .. l PROVE s[i] \in Seq(AnyCall)
    <3>1. PICK k \in Nat : k + 1 = 0 + i
      <4>1. i - 1 \in Nat /\ (i - 1) + 1 = 0 + i
        OBVIOUS
      <4> QED
        BY <4>1
    <3> HIDE DEF s
    <3> QED
      BY <1>3, <3>1
  <2>2. ASSUME NEW i \in 1 .. n PROVE t[i] \in Seq(AnyCall)
    <3>1. PICK k \in Nat : k + 1 = l + i
      <4>1. l + i - 1 \in Nat /\ (l + i - 1) + 1 = l + i
        OBVIOUS
      <4> QED
        BY <4>1
    <3> HIDE DEF t
    <3> QED
      BY <1>4, <3>1
  <2>3. s \in [1 .. l -> Seq(AnyCall)] /\ t \in [1 .. n -> Seq(AnyCall)]
    BY <2>1, <2>2
  <2> HIDE DEF s, t
  <2> QED
    BY <2>3, AsSeq
<1>6. Covers(FlattenSeq(s), p, size, SlotOf(0, 0), SlotOf(0 + l, 0))
  <2> HIDE DEF s
  <2> QED
    BY <1>3, <1>5, RoundsCover
<1>7. Covers(FlattenSeq(t), p, size, SlotOf(l, 0), SlotOf(l + n, 0))
  <2> HIDE DEF t
  <2> QED
    BY <1>4, <1>5, RoundsCover
<1>8. PICK x \in Nat, y \in Nat, z \in Nat :
        /\ x = SlotOf(l, 0) /\ y = GatherSlot /\ y = SlotOf(l + n, 0) /\ z = EndSlot
        /\ 0 <= x /\ x <= y /\ y <= z /\ SlotOf(0, 0) = 0 /\ SlotOf(0 + l, 0) = x
  <2>1. l + n \in Nat /\ l <= l + n /\ 0 + l = l
    OBVIOUS
  <2>2. SlotOf(l, 0) \in Nat /\ SlotOf(l + n, 0) \in Nat /\ SlotOf(l, 0) <= SlotOf(l + n, 0)
    BY <2>1, InRound, LaterRound
  <2>3. SlotOf(0, 0) = 0
    BY PartyFacts DEF SlotOf
  <2>4. GatherSlot = SlotOf(l + n, 0)
    BY <1>1 DEF GatherSlot
  <2>5. EndSlot \in Nat /\ GatherSlot <= EndSlot
    BY GatherFacts
  <2> QED
    BY <2>1, <2>2, <2>3, <2>4, <2>5
<1> HIDE DEF s, t
<1>9. Covers(FlattenSeq(s) \o FlattenSeq(t), p, size, 0, y)
  BY <1>6, <1>7, <1>8, CoversJoined
<1>10. Covers(Gather(p, size), p, size, y, z)
  BY <1>8, GatherCover
<1>11. Covers((FlattenSeq(s) \o FlattenSeq(t)) \o Gather(p, size), p, size, 0, z)
  BY <1>8, <1>9, <1>10, CoversJoined
<1> QED
  BY <1>2, <1>8, <1>11

-----------------------------------------------------------------------------
(***************************************************************************)
(* The place of a party.                                                   *)
(***************************************************************************)
\* A party with the calls t ahead of it stands in slot s: in that of the first of
\* them, or at the end.
Stands(t, p, size, s) ==
  /\ Covers(t, p, size, s, EndSlot)
  /\ s \in 0 .. EndSlot
  /\ t = <<>> => s = EndSlot
  /\ t # <<>> => s \in CallSlots(p) /\ Head(t) = Call(p, size, s)

\* The call in slot s is this operation, on the connection with q.
CallAt(op, p, q, size, s) ==
  s \in CallSlots(p) /\ Call(p, size, s).op = op /\ Call(p, size, s).peer = q
Amount(op, p, q, size, s) ==
  IF CallAt(op, p, q, size, s) THEN Call(p, size, s).size ELSE 0

\* Total[s]: the bytes of all the calls before slot s.
IsTotal(e, op, p, q, size) ==
  /\ e \in [0 .. EndSlot -> Nat] /\ e[0] = 0
  /\ \A i \in 1 .. EndSlot : e[i] = e[i-1] + Amount(op, p, q, size, i - 1)
Total(op, p, q, size) == CHOOSE e : IsTotal(e, op, p, q, size)

\* The same and the m bytes already moved of the call in slot s.
Done(op, p, q, size, s, m) ==
  Total(op, p, q, size)[s] + IF CallAt(op, p, q, size, s) THEN m ELSE 0

EndFacts == EndSlot \in Nat /\ GatherSlot \in Nat /\ GatherSlot <= EndSlot

LEMMA Ends == EndFacts
  BY GatherFacts DEF EndFacts

\* The place after the slots before a, which hold no calls of t.
LEMMA FindPlace ==
  ASSUME NEW p \in Party, NEW size, NEW t, NEW a \in 0 .. EndSlot, Covers(t, p, size, a, EndSlot)
  PROVE  \E s \in a .. EndSlot :
           Stands(t, p, size, s) /\ \A x \in CallSlots(p) : ~(a <= x /\ x < s)
<1>1. PICK c : Lists(t, c, p, size, a, EndSlot)
  BY DEF Covers
<1>2. PICK e \in Nat : e = EndSlot
  BY Ends DEF EndFacts
<1>3. CallSlots(p) \in SUBSET Nat /\ \A x \in CallSlots(p) : x < e
  BY <1>2 DEF CallSlots
<1>4. /\ t \in Seq(AnyCall) /\ c \in Seq(Nat) /\ Len(c) = Len(t) /\ InOrder(c, a, e, CallSlots(p))
      /\ \A n \in 1 .. Len(t) : t[n] = Call(p, size, c[n])
  BY <1>1, <1>2 DEF Lists
<1>5. CASE t = <<>>
  <2>1. c = <<>> /\ Len(c) = 0
    BY <1>4, <1>5, EmptySeq, LenProperties
  <2>2. \A x \in CallSlots(p) : ~(a <= x /\ x < e)
    BY <1>4, <2>1 DEF InOrder
  <2>3. InOrder(c, e, e, CallSlots(p))
    <3>1. a \in Nat /\ a <= e
      BY <1>2
    <3> QED
      BY <1>3, <1>4, <2>2, <3>1, ReaderAdvances
  <2>4. Lists(t, c, p, size, e, e)
    BY <1>4, <2>3 DEF Lists
  <2>5. Stands(t, p, size, e)
    BY <1>2, <1>5, <2>4 DEF Stands, Covers
  <2> QED
    BY <1>2, <2>2, <2>5
<1>6. CASE t # <<>>
  <2>1. /\ Len(t) \in Nat /\ 1 \in 1 .. Len(t) /\ Head(t) = t[1]
        /\ Len(c) \in Nat /\ 1 \in 1 .. Len(c) /\ c[1] \in Nat
    BY <1>4, <1>6, EmptySeq, LenProperties, HeadTailProperties, ElementOfSeq
  <2>2. PICK s \in Nat : s = c[1] /\ s \in CallSlots(p) /\ a <= s /\ s < e
    BY <1>4, <2>1 DEF InOrder
  <2>3. ASSUME NEW x \in CallSlots(p), a <= x, x < s PROVE FALSE
    <3>1. PICK i \in 1 .. Len(c) : c[i] = x
      BY <1>3, <1>4, <2>3 DEF InOrder
    <3>2. i # 1 /\ 1 < i
      BY <2>1, <2>2, <2>3, <3>1, <1>3
    <3>3. c[1] < c[i]
      BY <1>4, <2>1, <3>1, <3>2 DEF InOrder
    <3> QED
      BY <2>2, <2>3, <3>1, <3>3, <1>3
  <2>4. InOrder(c, s, e, CallSlots(p))
    BY <1>2, <1>3, <1>4, <2>2, <2>3, ReaderAdvances
  <2>5. Lists(t, c, p, size, s, e)
    BY <1>4, <2>4 DEF Lists
  <2>6. Head(t) = Call(p, size, s)
    BY <1>4, <2>1, <2>2
  <2>7. Stands(t, p, size, s)
    BY <1>2, <1>6, <2>2, <2>5, <2>6 DEF Stands, Covers
  <2> QED
    BY <1>2, <2>2, <2>3, <2>7
<1> QED
  BY <1>5, <1>6

\* The place after the call in slot s.
LEMMA NextPlace ==
  ASSUME NEW p \in Party, NEW size, NEW t, t # <<>>, NEW s, Stands(t, p, size, s)
  PROVE  \E s2 \in s + 1 .. EndSlot :
           Stands(Tail(t), p, size, s2) /\ \A x \in CallSlots(p) : s <= x /\ x < s2 => x = s
<1>1. PICK c : Lists(t, c, p, size, s, EndSlot)
  BY DEF Covers, Stands
<1>2. PICK e \in Nat : e = EndSlot
  BY Ends DEF EndFacts
<1>3. CallSlots(p) \in SUBSET Nat /\ \A x \in CallSlots(p) : x < e
  BY <1>2 DEF CallSlots
<1>4. /\ t \in Seq(AnyCall) /\ c \in Seq(Nat) /\ Len(c) = Len(t) /\ InOrder(c, s, e, CallSlots(p))
      /\ \A n \in 1 .. Len(t) : t[n] = Call(p, size, c[n])
  BY <1>1, <1>2 DEF Lists
<1>5. s \in CallSlots(p) /\ s \in Nat /\ s < e /\ s + 1 \in Nat /\ s < s + 1
  BY <1>3 DEF Stands
<1>6. c # <<>> /\ Len(t) \in Nat
  BY <1>4, EmptySeq, LenProperties
<1>7. InOrder(Tail(c), s + 1, e, CallSlots(p))
  <2>1. \A x \in CallSlots(p) : s <= x /\ x < s + 1 => x = s
    BY <1>3, <1>5
  <2> QED
    BY <1>3, <1>4, <1>5, <1>6, <2>1, ReaderReads
<1>8. /\ Tail(t) \in Seq(AnyCall) /\ Tail(c) \in Seq(Nat) /\ Len(Tail(t)) = Len(t) - 1
      /\ Len(Tail(c)) = Len(Tail(t))
      /\ \A i \in 1 .. Len(t) - 1 : Tail(t)[i] = t[i+1] /\ Tail(c)[i] = c[i+1]
  <2>1. /\ Tail(t) \in Seq(AnyCall) /\ Len(Tail(t)) = Len(t) - 1
        /\ \A i \in 1 .. Len(Tail(t)) : Tail(t)[i] = t[i+1]
    BY <1>4, HeadTailProperties
  <2>2. /\ Tail(c) \in Seq(Nat) /\ Len(Tail(c)) = Len(c) - 1
        /\ \A i \in 1 .. Len(Tail(c)) : Tail(c)[i] = c[i+1]
    BY <1>4, <1>6, HeadTailProperties
  <2> QED
    BY <1>4, <2>1, <2>2
<1>9. Lists(Tail(t), Tail(c), p, size, s + 1, e)
  <2>1. \A i \in 1 .. Len(t) - 1 : i + 1 \in 1 .. Len(t)
    BY <1>6
  <2> QED
    BY <1>4, <1>7, <1>8, <2>1 DEF Lists
<1>10. PICK a \in 0 .. EndSlot : a = s + 1 /\ Covers(Tail(t), p, size, a, EndSlot)
  BY <1>2, <1>5, <1>9 DEF Covers
<1>11. PICK s2 \in a .. EndSlot :
         Stands(Tail(t), p, size, s2) /\ \A x \in CallSlots(p) : ~(a <= x /\ x < s2)
  BY <1>10, FindPlace
<1>12. \A x \in CallSlots(p) : s <= x /\ x < s2 => x = s
  BY <1>3, <1>5, <1>10, <1>11
<1> QED
  BY <1>10, <1>11, <1>12

\* Every slot holds a proper call.
LEMMA ProperCall ==
  ASSUME NEW p \in Party, NEW size \in 1 .. MaxGossip, NEW s \in CallSlots(p)
  PROVE  Call(p, size, s) \in AnyCall
<1>1. PICK c : Lists(Program(p, size), c, p, size, 0, EndSlot)
  BY ProgramCover DEF Covers
<1>2. s \in Nat /\ 0 <= s /\ s < EndSlot
  BY Ends DEF CallSlots, EndFacts
<1>3. PICK i \in 1 .. Len(c) : c[i] = s
  BY <1>1, <1>2 DEF Lists, InOrder
<1>4. Program(p, size) \in Seq(AnyCall) /\ i \in 1 .. Len(Program(p, size))
  BY <1>1, <1>3 DEF Lists
<1>5. Program(p, size)[i] \in AnyCall
  BY <1>4, ElementOfSeq
<1>6. Program(p, size)[i] = Call(p, size, s)
  BY <1>1, <1>3, <1>4 DEF Lists
<1> QED
  BY <1>5, <1>6

\* Everybody calls others only.
LEMMA OtherPeer ==
  ASSUME NEW p \in Party, NEW size \in 1 .. MaxGossip, NEW s \in CallSlots(p)
  PROVE  \E op \in {"put", "get"}, q \in Party \ {p} : CallAt(op, p, q, size, s)
<1>1. Call(p, size, s) \in AnyCall
  BY ProperCall
<1>2. Calls(p, s)
  BY DEF CallSlots
<1>3. Call(p, size, s).peer # p
  <2>1. p \in Nat /\ N \in Nat /\ p < N /\ Len(Owner) \in Nat /\ Rounds \in Nat /\ Len(Owner) <= Rounds
    BY PartyFacts
  <2>2. s \in Nat
    BY DEF CallSlots
  <2>3. \A r, n : Put(r, n).peer = r /\ Get(r, n).peer = r
    BY DEF Put, Get
  <2>4. CASE Round(s) < Len(Owner)
    <3>1. Call(p, size, s).peer = IF Owner[Round(s) + 1] = p THEN Inner(s) ELSE Owner[Round(s) + 1]
      BY <2>3, <2>4 DEF Call
    <3>2. Owner[Round(s) + 1] = p => Inner(s) # p
      <4>1. Round(s) \in Nat
        BY <2>2, Encode
      <4>2. ~(Len(Owner) <= Round(s)) /\ Round(s) # Rounds
        BY <2>1, <2>4, <4>1
      <4> QED
        BY <1>2, <4>2 DEF Calls
    <3> QED
      BY <3>1, <3>2
  <2>5. CASE ~(Round(s) < Len(Owner)) /\ Round(s) < Rounds
    <3>1. Call(p, size, s).peer = Partner(p, s)
      BY <2>3, <2>5 DEF Call
    <3> QED
      BY <1>2, <2>1, <2>5, <3>1 DEF Calls
  <2>6. CASE ~(Round(s) < Len(Owner)) /\ ~(Round(s) < Rounds)
    <3>1. Call(p, size, s).peer = IF Inner(s) < N THEN Inner(s) ELSE Inner(s) - N
      BY <2>3, <2>6 DEF Call
    <3>2. Inner(s) \in Party \ {p} \/ Inner(s) - N \in Party \ {p}
      BY <1>2, <2>6 DEF Calls
    <3>3. \A r \in Party : r \in Nat /\ r < N
      BY PartyFacts
    <3>4. Inner(s) \in Nat
      BY <2>2, Encode
    <3> QED
      BY <2>1, <3>1, <3>2, <3>3, <3>4
  <2> QED
    BY <2>4, <2>5, <2>6
<1> QED
  BY <1>1, <1>3 DEF CallAt, AnyCall

-----------------------------------------------------------------------------
(***************************************************************************)
(* Bytes.                                                                  *)
(***************************************************************************)
LEMMA AmountIsNat ==
  ASSUME NEW op, NEW p \in Party, NEW q, NEW size \in 1 .. MaxGossip, NEW s
  PROVE  /\ Amount(op, p, q, size, s) \in Nat
         /\ CallAt(op, p, q, size, s) => 0 < Amount(op, p, q, size, s)
         /\ ~CallAt(op, p, q, size, s) => Amount(op, p, q, size, s) = 0
<1>1. s \in CallSlots(p) => Call(p, size, s).size \in Nat /\ 0 < Call(p, size, s).size
  BY ProperCall DEF AnyCall
<1> QED
  BY <1>1 DEF Amount, CallAt

LEMMA TotalFacts ==
  ASSUME NEW op, NEW p \in Party, NEW q, NEW size \in 1 .. MaxGossip
  PROVE  IsTotal(Total(op, p, q, size), op, p, q, size)
<1>1. PICK n \in Nat : n = EndSlot
  BY Ends DEF EndFacts
<1>2. PICK g : g = [i \in 1 .. n |-> Amount(op, p, q, size, i - 1)]
  OBVIOUS
<1>3. g \in [1 .. n -> Nat] /\ \A i \in 1 .. n : g[i] = Amount(op, p, q, size, i - 1)
  <2>1. \A i \in 1 .. n : Amount(op, p, q, size, i - 1) \in Nat
    BY AmountIsNat
  <2> QED
    BY <1>2, <2>1
<1>4. PICK e \in [0 .. n -> Nat] : e[0] = 0 /\ \A i \in 1 .. n : e[i] = e[i-1] + g[i]
  BY <1>1, <1>3, Sums
<1>5. \A i \in 1 .. n : e[i] = e[i-1] + Amount(op, p, q, size, i - 1)
  BY <1>3, <1>4
<1>6. IsTotal(e, op, p, q, size)
  BY <1>1, <1>4, <1>5 DEF IsTotal
<1> QED
  BY <1>6 DEF Total

\* A total never falls, and stays the same where there are no such calls.
LEMMA TotalGrows ==
  ASSUME NEW op, NEW p \in Party, NEW q, NEW size \in 1 .. MaxGossip,
         NEW a \in 0 .. EndSlot, NEW b \in 0 .. EndSlot, a <= b
  PROVE  /\ Total(op, p, q, size)[a] \in Nat /\ Total(op, p, q, size)[b] \in Nat
         /\ Total(op, p, q, size)[a] <= Total(op, p, q, size)[b]
         /\ (\A x \in CallSlots(p) : a <= x /\ x < b => ~CallAt(op, p, q, size, x))
              => Total(op, p, q, size)[a] = Total(op, p, q, size)[b]
<1>1. PICK n \in Nat : n = EndSlot
  BY Ends DEF EndFacts
<1>2. PICK e \in [0 .. n -> Nat] :
        e = Total(op, p, q, size) /\ \A i \in 1 .. n : e[i] = e[i-1] + Amount(op, p, q, size, i - 1)
  BY <1>1, TotalFacts DEF IsTotal
<1>3. PICK d \in Nat : b = a + d /\ b \in 0 .. n /\ a \in 0 .. n
  <2>1. b - a \in Nat /\ b = a + (b - a)
    BY <1>1
  <2> QED
    BY <1>1, <2>1
<1> DEFINE Quiet(i) == \A x \in CallSlots(p) : a <= x /\ x < i => ~CallAt(op, p, q, size, x)
           S == {i \in 0 .. d : e[a] <= e[a + i] /\ (Quiet(a + i) => e[a] = e[a + i])}
<1>4. 0 \in S
  BY <1>3
<1>5. ASSUME NEW i \in 0 .. d-1, i \in S PROVE i + 1 \in S
  <2>1. PICK j \in Nat : j = a + i /\ a + (i + 1) = j + 1 /\ j \in 0 .. n /\ j + 1 \in 1 .. n /\ a <= j
    BY <1>3
  <2>2. e[j+1] = e[j] + Amount(op, p, q, size, j)
    <3>1. (j + 1) - 1 = j
      OBVIOUS
    <3> QED
      BY <1>2, <2>1, <3>1
  <2>3. Amount(op, p, q, size, j) \in Nat /\ e[a] \in Nat /\ e[j] \in Nat
    BY <1>3, <2>1, AmountIsNat
  <2>4. e[a] <= e[j] /\ (Quiet(j) => e[a] = e[j])
    BY <1>5, <2>1
  <2>5. ASSUME Quiet(j + 1) PROVE Quiet(j) /\ Amount(op, p, q, size, j) = 0
    <3>1. \A x \in CallSlots(p) : x \in Nat
      BY DEF CallSlots
    <3>2. Quiet(j)
      BY <2>1, <2>5, <3>1
    <3>3. ~CallAt(op, p, q, size, j)
      BY <2>1, <2>5 DEF CallAt
    <3> QED
      BY <3>2, <3>3, AmountIsNat
  <2>6. e[a] <= e[j+1] /\ (Quiet(j + 1) => e[a] = e[j+1])
    <3> HIDE DEF Quiet
    <3> QED
      BY <2>2, <2>3, <2>4, <2>5
  <2>7. i + 1 \in 0 .. d
    OBVIOUS
  <2> HIDE DEF Quiet
  <2> QED
    BY <2>1, <2>6, <2>7
<1>6. d \in S
  <2> HIDE DEF S
  <2>1. \A i \in 0 .. d : i \in S
    BY <1>4, <1>5, BoundedInduction
  <2> QED
    BY <2>1
<1>7. e[a] <= e[b] /\ (Quiet(b) => e[a] = e[b]) /\ e[a] \in Nat /\ e[b] \in Nat
  BY <1>3, <1>6
<1> QED
  BY <1>2, <1>7

\* The step over the one call in slot s.
LEMMA TotalStep ==
  ASSUME NEW op, NEW p \in Party, NEW q, NEW size \in 1 .. MaxGossip,
         NEW s \in Nat, NEW b \in s + 1 .. EndSlot,
         \A x \in CallSlots(p) : s <= x /\ x < b => x = s
  PROVE  Total(op, p, q, size)[b] = Total(op, p, q, size)[s] + Amount(op, p, q, size, s)
<1>1. PICK n \in Nat : n = EndSlot
  BY Ends DEF EndFacts
<1>2. PICK e \in [0 .. n -> Nat] :
        e = Total(op, p, q, size) /\ \A i \in 1 .. n : e[i] = e[i-1] + Amount(op, p, q, size, i - 1)
  BY <1>1, TotalFacts DEF IsTotal
<1>3. PICK a \in Nat : a = s + 1 /\ a \in 1 .. n /\ a - 1 = s /\ a <= b /\ b \in 0 .. n
  BY <1>1
<1>4. e[a] = e[s] + Amount(op, p, q, size, s)
  BY <1>2, <1>3
<1>5. \A x \in CallSlots(p) : ~(a <= x /\ x < b)
  <2>1. \A x \in CallSlots(p) : x \in Nat
    BY DEF CallSlots
  <2> QED
    BY <1>3, <2>1
<1>6. a \in 0 .. EndSlot /\ b \in 0 .. EndSlot
  BY <1>1, <1>3
<1>7. Total(op, p, q, size)[a] = Total(op, p, q, size)[b]
  BY <1>3, <1>5, <1>6, TotalGrows
<1> QED
  BY <1>2, <1>4, <1>7

\* Before the gathering what one sends the other reads, in the same slot.
LEMMA SameSlot ==
  ASSUME NEW p \in Party, NEW q \in Party, p # q, NEW size \in 1 .. MaxGossip,
         NEW s \in Nat, s < GatherSlot
  PROVE  /\ CallAt("put", p, q, size, s) <=> CallAt("get", q, p, size, s)
         /\ Amount("put", p, q, size, s) = Amount("get", q, p, size, s)
<1>1. /\ p \in Nat /\ p < N /\ q \in Nat /\ q < N /\ N \in Nat /\ Len(Owner) \in Nat /\ Rounds \in Nat
      /\ Len(Owner) <= Rounds
  BY PartyFacts
<1>2. PICK k \in Nat, i \in Nat : k = Round(s) /\ i = Inner(s) /\ k < Rounds
  <2>1. PICK l \in Nat, j \in Nat : l = Round(s) /\ j = Inner(s) /\ s = SlotOf(l, j)
    BY Encode
  <2>2. SlotOf(l, 0) <= s
    BY <2>1, InRound
  <2>3. l < Rounds
    <3>1. \A k \in Nat : SlotOf(k, 0) \in Nat
      BY InRound
    <3>2. Rounds <= l => SlotOf(Rounds, 0) <= SlotOf(l, 0)
      BY <1>1, LaterRound
    <3> QED
      BY <1>1, <2>2, <3>1, <3>2 DEF GatherSlot
  <2> QED
    BY <2>1, <2>3
<1>3. s \in 0 .. EndSlot - 1
  BY Ends DEF EndFacts
<1>4. PICK m \in Nat : m = Message(s) /\ m \in {0, 1, 2}
  BY <1>2 DEF Message
<1>5. PICK j \in Nat : Partner(p, s) = j - p /\ Partner(q, s) = j - q
  BY <1>2 DEF Partner
<1>6. CASE k < Len(Owner)
  <2>1. s \in CallSlots(p) <=> IF Owner[k + 1] = p THEN i \in Party \ {p} ELSE i = p
    BY <1>1, <1>2, <1>3, <1>6 DEF CallSlots, Calls
  <2>2. s \in CallSlots(q) <=> IF Owner[k + 1] = q THEN i \in Party \ {q} ELSE i = q
    BY <1>1, <1>2, <1>3, <1>6 DEF CallSlots, Calls
  <2>3. Call(p, size, s) = IF Owner[k + 1] = p THEN Put(i, ShareSize) ELSE Get(Owner[k + 1], ShareSize)
    BY <1>2, <1>6 DEF Call
  <2>4. Call(q, size, s) = IF Owner[k + 1] = q THEN Put(i, ShareSize) ELSE Get(Owner[k + 1], ShareSize)
    BY <1>2, <1>6 DEF Call
  <2> QED
    BY <2>1, <2>2, <2>3, <2>4 DEF CallAt, Amount, Put, Get
<1>7. CASE ~(k < Len(Owner))
  <2>1. \A r \in {p, q} : s \in CallSlots(r) <=> Partner(r, s) \in Party \ {r}
    BY <1>1, <1>2, <1>3, <1>7 DEF CallSlots, Calls
  <2>2. /\ Partner(p, s) = q => Partner(q, s) = p
        /\ Partner(q, s) = p => Partner(p, s) = q
    BY <1>1, <1>5
  <2>3. \A r \in {p, q} : Call(r, size, s) =
          IF m = 0
          THEN IF r < Partner(r, s) THEN Put(Partner(r, s), PublicSize) ELSE Get(Partner(r, s), PublicSize)
          ELSE IF m = 1
          THEN IF r < Partner(r, s) THEN Get(Partner(r, s), PublicSize) ELSE Put(Partner(r, s), PublicSize)
          ELSE IF r < Partner(r, s) THEN Put(Partner(r, s), ValuesSize) ELSE Get(Partner(r, s), ValuesSize)
    BY <1>2, <1>4, <1>7 DEF Call
  <2>4. CASE Partner(p, s) = q
    <3>1. Partner(q, s) = p /\ s \in CallSlots(p) /\ s \in CallSlots(q)
      BY <2>1, <2>2, <2>4
    <3>2. (p < q /\ ~(q < p)) \/ (q < p /\ ~(p < q))
      BY <1>1
    <3> QED
      BY <1>4, <2>3, <2>4, <3>1, <3>2 DEF CallAt, Amount, Put, Get
  <2>5. CASE Partner(p, s) # q
    <3>1. Partner(q, s) # p
      BY <2>2, <2>5
    <3>2. Call(p, size, s).peer = Partner(p, s) /\ Call(q, size, s).peer = Partner(q, s)
      BY <2>3 DEF Put, Get
    <3> QED
      BY <2>5, <3>1, <3>2 DEF CallAt, Amount
  <2> QED
    BY <2>4, <2>5
<1> QED
  BY <1>6, <1>7

LEMMA SameTotal ==
  ASSUME NEW p \in Party, NEW q \in Party, p # q, NEW size \in 1 .. MaxGossip,
         NEW s \in 0 .. GatherSlot
  PROVE  Total("put", p, q, size)[s] = Total("get", q, p, size)[s]
<1>1. PICK n \in Nat, g \in Nat : n = EndSlot /\ g = GatherSlot /\ g <= n
  BY Ends DEF EndFacts
<1>2. PICK e : e = Total("put", p, q, size) /\ IsTotal(e, "put", p, q, size)
  BY TotalFacts
<1>3. PICK f : f = Total("get", q, p, size) /\ IsTotal(f, "get", q, p, size)
  BY TotalFacts
<1> DEFINE S == {i \in 0 .. g : e[i] = f[i]}
<1>4. 0 \in S
  BY <1>2, <1>3 DEF IsTotal
<1>5. ASSUME NEW i \in 0 .. g-1, i \in S PROVE i + 1 \in S
  <2>1. i + 1 \in 1 .. n /\ i + 1 \in 0 .. g /\ (i + 1) - 1 = i /\ i \in Nat /\ i < g
    BY <1>1
  <2>2. e[i+1] = e[i] + Amount("put", p, q, size, i)
    BY <1>1, <1>2, <2>1 DEF IsTotal
  <2>3. f[i+1] = f[i] + Amount("get", q, p, size, i)
    BY <1>1, <1>3, <2>1 DEF IsTotal
  <2>4. Amount("put", p, q, size, i) = Amount("get", q, p, size, i)
    BY <1>1, <2>1, SameSlot
  <2>5. e[i+1] = f[i+1]
    BY <1>5, <2>2, <2>3, <2>4
  <2> QED
    BY <2>1, <2>5
<1>6. s \in S
  <2> HIDE DEF S
  <2>1. \A i \in 0 .. g : i \in S
    BY <1>4, <1>5, BoundedInduction
  <2> QED
    BY <1>1, <2>1
<1> QED
  BY <1>2, <1>3, <1>6

\* In the gathering p puts to q in one slot, and gets from q in one.
LEMMA GatherCalls ==
  ASSUME NEW p \in Party, NEW q \in Party, p # q, NEW size, NEW s \in Nat, GatherSlot <= s
  PROVE  /\ CallAt("put", p, q, size, s) <=> s = PutSlot(q)
         /\ CallAt("get", p, q, size, s) <=> s = GetSlot(q)
         /\ Amount("put", p, q, size, PutSlot(q)) = size
         /\ Amount("get", p, q, size, GetSlot(q)) = size
<1>1. /\ PutSlot(q) \in CallSlots(p) /\ Call(p, size, PutSlot(q)) = Put(q, size)
      /\ GetSlot(q) \in CallSlots(p) /\ Call(p, size, GetSlot(q)) = Get(q, size)
  BY GatherSlots
<1>2. ASSUME s \in CallSlots(p)
      PROVE  \E r \in Party \ {p} : \/ s = PutSlot(r) /\ Call(p, size, s) = Put(r, size)
                                    \/ s = GetSlot(r) /\ Call(p, size, s) = Get(r, size)
  <2>1. PICK r \in Party \ {p} : s = PutSlot(r) \/ s = GetSlot(r)
    BY <1>2, GatherSlots
  <2>2. Call(p, size, PutSlot(r)) = Put(r, size) /\ Call(p, size, GetSlot(r)) = Get(r, size)
    BY GatherSlots
  <2> QED
    BY <2>1, <2>2
<1>3. /\ "put" # "get"
      /\ \A r : Put(r, size).op = "put" /\ Put(r, size).peer = r /\ Put(r, size).size = size
      /\ \A r : Get(r, size).op = "get" /\ Get(r, size).peer = r /\ Get(r, size).size = size
  BY DEF Put, Get
<1>4. CallAt("put", p, q, size, s) <=> s = PutSlot(q)
  BY <1>1, <1>2, <1>3 DEF CallAt
<1>5. CallAt("get", p, q, size, s) <=> s = GetSlot(q)
  BY <1>1, <1>2, <1>3 DEF CallAt
<1>6. Amount("put", p, q, size, PutSlot(q)) = size /\ Amount("get", p, q, size, GetSlot(q)) = size
  BY <1>1, <1>3 DEF Amount, CallAt
<1> QED
  BY <1>4, <1>5, <1>6

\* The totals in the gathering: size more after the one call.
LEMMA GatherTotal ==
  ASSUME NEW p \in Party, NEW q \in Party, p # q, NEW size \in 1 .. MaxGossip,
         NEW s \in 0 .. EndSlot, GatherSlot <= s
  PROVE  /\ Total("put", p, q, size)[s] =
              Total("put", p, q, size)[GatherSlot] + (IF s <= PutSlot(q) THEN 0 ELSE size)
         /\ Total("get", p, q, size)[s] =
              Total("get", p, q, size)[GatherSlot] + (IF s <= GetSlot(q) THEN 0 ELSE size)
<1>1. PICK n \in Nat, g \in Nat : n = EndSlot /\ g = GatherSlot /\ g <= n
  BY Ends DEF EndFacts
<1>2. ASSUME NEW op \in {"put", "get"}, NEW m \in Nat, g <= m, m < n,
             \A x \in Nat : g <= x => (CallAt(op, p, q, size, x) <=> x = m),
             Amount(op, p, q, size, m) = size
      PROVE  Total(op, p, q, size)[s] =
               Total(op, p, q, size)[g] + (IF s <= m THEN 0 ELSE size)
  <2>1. g \in 0 .. EndSlot /\ s \in 0 .. EndSlot /\ g <= s /\ \A x \in CallSlots(p) : x \in Nat
    BY <1>1 DEF CallSlots
  <2>2. Total(op, p, q, size)[g] \in Nat /\ Total(op, p, q, size)[s] \in Nat
    BY <2>1, TotalGrows
  <2>3. CASE s <= m
    <3>1. \A x \in CallSlots(p) : g <= x /\ x < s => ~CallAt(op, p, q, size, x)
      BY <1>2, <2>1, <2>3
    <3>2. Total(op, p, q, size)[g] = Total(op, p, q, size)[s]
      BY <2>1, <3>1, TotalGrows
    <3> QED
      BY <2>2, <2>3, <3>2
  <2>4. CASE ~(s <= m)
    <3>1. PICK a \in Nat : a = m + 1 /\ a \in m + 1 .. EndSlot /\ a \in 0 .. EndSlot /\ a <= s
                           /\ m \in 0 .. EndSlot
      BY <1>1, <1>2, <2>1, <2>4
    <3>2. \A x \in CallSlots(p) : g <= x /\ x < m => ~CallAt(op, p, q, size, x)
      BY <1>2, <2>1
    <3>3. Total(op, p, q, size)[g] = Total(op, p, q, size)[m]
      BY <1>2, <2>1, <3>1, <3>2, TotalGrows
    <3>4. \A x \in CallSlots(p) : m <= x /\ x < a => x = m
      BY <2>1, <3>1
    <3>5. Total(op, p, q, size)[a] = Total(op, p, q, size)[m] + size
      BY <1>2, <3>1, <3>4, TotalStep
    <3>6. \A x \in CallSlots(p) : a <= x /\ x < s => ~CallAt(op, p, q, size, x)
      BY <1>2, <2>1, <3>1
    <3>7. Total(op, p, q, size)[a] = Total(op, p, q, size)[s]
      <4>1. a \in 0 .. EndSlot /\ s \in 0 .. EndSlot /\ a <= s
        BY <3>1
      <4> QED
        BY <3>6, <4>1, TotalGrows
    <3> QED
      BY <2>4, <3>3, <3>5, <3>7
  <2> QED
    BY <2>3, <2>4
<1>3. PICK x \in Nat, y \in Nat :
        x = PutSlot(q) /\ y = GetSlot(q) /\ g <= x /\ x < n /\ g <= y /\ y < n
  BY <1>1, GatherPlaces
<1>4. \A z \in Nat : g <= z => (CallAt("put", p, q, size, z) <=> z = x)
  BY <1>1, <1>3, GatherCalls
<1>5. \A z \in Nat : g <= z => (CallAt("get", p, q, size, z) <=> z = y)
  BY <1>1, <1>3, GatherCalls
<1>6. Amount("put", p, q, size, x) = size /\ Amount("get", p, q, size, y) = size
  BY <1>1, <1>3, GatherCalls
<1>7. Total("put", p, q, size)[s] = Total("put", p, q, size)[g] + (IF s <= x THEN 0 ELSE size)
  BY <1>2, <1>3, <1>4, <1>6
<1>8. Total("get", p, q, size)[s] = Total("get", p, q, size)[g] + (IF s <= y THEN 0 ELSE size)
  BY <1>2, <1>3, <1>5, <1>6
<1> QED
  BY <1>1, <1>3, <1>7, <1>8

\* What is done in slot s lies between the totals around it.
LEMMA DoneBounds ==
  ASSUME NEW op, NEW p \in Party, NEW q, NEW size \in 1 .. MaxGossip,
         NEW s \in 0 .. EndSlot, NEW m \in Nat,
         CallAt(op, p, q, size, s) => m < Amount(op, p, q, size, s)
  PROVE  /\ Done(op, p, q, size, s, m) \in Nat
         /\ \A b \in 0 .. EndSlot : b <= s => Total(op, p, q, size)[b] <= Done(op, p, q, size, s, m)
         /\ \A b \in 0 .. EndSlot : s < b =>
              /\ Done(op, p, q, size, s, m) <= Total(op, p, q, size)[b]
              /\ CallAt(op, p, q, size, s) => Done(op, p, q, size, s, m) < Total(op, p, q, size)[b]
<1>1. PICK n \in Nat : n = EndSlot
  BY Ends DEF EndFacts
<1>2. PICK x \in Nat, d \in Nat :
        /\ x = Total(op, p, q, size)[s] /\ d = Done(op, p, q, size, s, m)
        /\ d = x + IF CallAt(op, p, q, size, s) THEN m ELSE 0
  <2>1. Total(op, p, q, size)[s] \in Nat
    BY <1>1, TotalGrows
  <2> QED
    BY <2>1 DEF Done
<1>3. ASSUME NEW b \in 0 .. EndSlot, b <= s PROVE Total(op, p, q, size)[b] <= d
  <2>1. Total(op, p, q, size)[b] \in Nat /\ Total(op, p, q, size)[b] <= x
    BY <1>2, <1>3, TotalGrows
  <2> QED
    BY <1>2, <2>1
<1>4. ASSUME NEW b \in 0 .. EndSlot, s < b
      PROVE  d <= Total(op, p, q, size)[b] /\ (CallAt(op, p, q, size, s) => d < Total(op, p, q, size)[b])
  <2>1. PICK a \in Nat : a = s + 1 /\ a \in s + 1 .. EndSlot /\ a \in 0 .. EndSlot /\ a <= b /\ s \in Nat
    BY <1>1, <1>4
  <2>2. \A z \in CallSlots(p) : s <= z /\ z < a => z = s
    <3>1. \A z \in CallSlots(p) : z \in Nat
      BY DEF CallSlots
    <3> QED
      BY <2>1, <3>1
  <2>3. Total(op, p, q, size)[a] = x + Amount(op, p, q, size, s)
    <3>1. Total(op, p, q, size)[a] = Total(op, p, q, size)[s] + Amount(op, p, q, size, s)
      BY <2>1, <2>2, TotalStep
    <3> QED
      BY <1>2, <3>1
  <2>4. Total(op, p, q, size)[a] \in Nat /\ Total(op, p, q, size)[b] \in Nat
        /\ Total(op, p, q, size)[a] <= Total(op, p, q, size)[b]
    BY <2>1, TotalGrows
  <2>5. Amount(op, p, q, size, s) \in Nat
    BY AmountIsNat
  <2> QED
    BY <1>2, <2>3, <2>4, <2>5
<1> QED
  BY <1>2, <1>3, <1>4

\* A party has one call at a time.
LEMMA OneCall ==
  ASSUME NEW op, NEW p, NEW q, NEW size, NEW s, CallAt(op, p, q, size, s)
  PROVE  \A op2, q2 : CallAt(op2, p, q2, size, s) <=> op2 = op /\ q2 = q
  BY DEF CallAt

-----------------------------------------------------------------------------
(***************************************************************************)
(* The inductive invariant: every party stands somewhere, the pipes hold   *)
(* what has been put and not been got, and nobody is past the loop of      *)
(* sends of a gathering that does not fit the buffers.                     *)
(***************************************************************************)
TypeOK ==
  /\ gossip \in 1 .. MaxGossip
  /\ todo \in [Party -> Seq(AnyCall)]
  /\ moved \in [Party -> Nat]
  /\ pipe \in [Party -> [Party -> Nat]]

EachStands(pos) ==
  \A p \in Party :
    /\ Stands(todo[p], p, gossip, pos[p])
    /\ todo[p] # <<>> => moved[p] < Head(todo[p]).size

PipesHold(pos) ==
  \A p, q \in Party :
    /\ pipe[p][q] <= BufferSize
    /\ pipe[p][q] + Done("get", q, p, gossip, pos[q], moved[q]) =
         Done("put", p, q, gossip, pos[p], moved[p])

InSendLoop(pos) ==
  N > 1 /\ gossip > BufferSize => \A p \in Party : pos[p] < GatherSlot + N

Placed(pos) == EachStands(pos) /\ PipesHold(pos) /\ InSendLoop(pos)

BlockingInv == TypeOK /\ \E pos \in [Party -> Nat] : Placed(pos)

-----------------------------------------------------------------------------
\* There is a slot in the send loop in which p has a call, if there are others.
LEMMA SendLoopSlot ==
  ASSUME NEW p \in Party, N > 1
  PROVE  \E s \in CallSlots(p) : s \in Nat /\ GatherSlot <= s /\ s < GatherSlot + N
<1>1. PICK q \in Party \ {p} : q \in Nat /\ q < N
  <2>1. p \in Nat /\ N \in Nat /\ 0 < N
    BY PartyFacts
  <2>2. IF p = 0 THEN 1 \in Party \ {p} ELSE 0 \in Party \ {p}
    BY <2>1 DEF Party
  <2> QED
    BY <2>1, <2>2, PartyFacts
<1>2. PutSlot(q) \in CallSlots(p)
  BY GatherSlots
<1>3. PutSlot(q) \in Nat /\ GatherSlot <= PutSlot(q) /\ PutSlot(q) < GatherSlot + N
  BY <1>1, GatherFacts
<1> QED
  BY <1>2, <1>3

LEMMA InitPlaced ==
  ASSUME BlockingInit
  PROVE  BlockingInv
<1>1. gossip \in 1 .. MaxGossip
  BY DEF BlockingInit
<1>2. 0 \in 0 .. EndSlot
  BY Ends DEF EndFacts
<1>3. ASSUME NEW p \in Party
      PROVE  /\ todo[p] \in Seq(AnyCall) /\ Covers(todo[p], p, gossip, 0, EndSlot)
             /\ \E s \in 0 .. EndSlot :
                  Stands(todo[p], p, gossip, s) /\ \A x \in CallSlots(p) : ~(0 <= x /\ x < s)
  <2>1. todo[p] = Program(p, gossip)
    BY DEF BlockingInit
  <2>2. Covers(todo[p], p, gossip, 0, EndSlot)
    BY <1>1, <2>1, ProgramCover
  <2>3. todo[p] \in Seq(AnyCall)
    BY <2>2 DEF Covers, Lists
  <2> QED
    BY <1>2, <2>2, <2>3, FindPlace
<1>4. PICK pos \in [Party -> Nat] :
        \A p \in Party :
          /\ pos[p] \in 0 .. EndSlot /\ Stands(todo[p], p, gossip, pos[p])
          /\ \A x \in CallSlots(p) : ~(0 <= x /\ x < pos[p])
  <2>1. PICK f : f = [p \in Party |-> CHOOSE s \in 0 .. EndSlot :
                  Stands(todo[p], p, gossip, s) /\ \A x \in CallSlots(p) : ~(0 <= x /\ x < s)]
    OBVIOUS
  <2>2. \A p \in Party :
          /\ f[p] \in 0 .. EndSlot /\ Stands(todo[p], p, gossip, f[p])
          /\ \A x \in CallSlots(p) : ~(0 <= x /\ x < f[p])
    BY <1>3, <2>1
  <2>3. f \in [Party -> Nat]
    BY <2>1, <2>2, Ends DEF EndFacts
  <2> QED
    BY <2>2, <2>3
<1>5. TypeOK
  <2>1. DOMAIN todo = Party /\ todo = [p \in Party |-> todo[p]]
    BY DEF BlockingInit
  <2>2. todo \in [Party -> Seq(AnyCall)]
    BY <1>3, <2>1
  <2>3. moved \in [Party -> Nat] /\ pipe \in [Party -> [Party -> Nat]]
    BY DEF BlockingInit
  <2> QED
    BY <1>1, <2>2, <2>3 DEF TypeOK
<1>6. EachStands(pos)
  <2>1. ASSUME NEW p \in Party, todo[p] # <<>> PROVE moved[p] < Head(todo[p]).size
    <3>1. Head(todo[p]) \in AnyCall
      BY <1>3, <2>1, HeadTailProperties, ElementOfSeq
    <3> QED
      BY <3>1 DEF AnyCall, BlockingInit
  <2> QED
    BY <1>4, <2>1 DEF EachStands
<1>7. ASSUME NEW op, NEW p \in Party, NEW q
      PROVE  Done(op, p, q, gossip, pos[p], moved[p]) = 0
  <2>1. Total(op, p, q, gossip)[0] = 0
    BY <1>1, TotalFacts DEF IsTotal
  <2>2. \A x \in CallSlots(p) : 0 <= x /\ x < pos[p] => ~CallAt(op, p, q, gossip, x)
    BY <1>4
  <2>3. Total(op, p, q, gossip)[0] = Total(op, p, q, gossip)[pos[p]]
    <3>1. pos[p] \in 0 .. EndSlot /\ 0 <= pos[p]
      BY <1>2, <1>4
    <3> QED
      BY <1>1, <1>2, <2>2, <3>1, TotalGrows
  <2>4. moved[p] = 0
    BY DEF BlockingInit
  <2> QED
    BY <2>1, <2>3, <2>4 DEF Done
<1>8. PipesHold(pos)
  <2>1. \A p, q \in Party : pipe[p][q] = 0
    BY DEF BlockingInit
  <2> QED
    BY <1>7, <2>1, SizeFacts DEF PipesHold
<1>9. InSendLoop(pos)
  <2>1. ASSUME NEW p \in Party, N > 1 PROVE pos[p] < GatherSlot + N
    <3>1. PICK s \in CallSlots(p) : s \in Nat /\ s < GatherSlot + N
      BY <2>1, SendLoopSlot
    <3>2. ~(s < pos[p])
      BY <1>4, <3>1
    <3>3. GatherSlot + N \in Nat
      BY Ends, PartyFacts DEF EndFacts
    <3> QED
      BY <3>1, <3>2, <3>3
  <2> QED
    BY <2>1 DEF InSendLoop
<1> QED
  BY <1>4, <1>5, <1>6, <1>8, <1>9 DEF BlockingInv, Placed

\* One more byte of p's call: its place, and what it has done.
LEMMA Moves ==
  ASSUME TypeOK, NEW pos \in [Party -> Nat], EachStands(pos),
         NEW p \in Party, todo[p] # <<>>, Progress(p)
  PROVE  /\ todo' \in [Party -> Seq(AnyCall)] /\ moved' \in [Party -> Nat]
         /\ \A r \in Party \ {p} : todo'[r] = todo[r] /\ moved'[r] = moved[r]
         /\ \E s \in pos[p] .. EndSlot :
              /\ Stands(todo'[p], p, gossip, s)
              /\ todo'[p] # <<>> => moved'[p] < Head(todo'[p]).size
              /\ \A op, q :
                   Done(op, p, q, gossip, s, moved'[p]) =
                     Done(op, p, q, gossip, pos[p], moved[p])
                       + IF CallAt(op, p, q, gossip, pos[p]) THEN 1 ELSE 0
              /\ s # pos[p] =>
                   /\ moved[p] + 1 = Call(p, gossip, pos[p]).size
                   /\ \A x \in CallSlots(p) : pos[p] <= x /\ x < s => x = pos[p]
<1>1. PICK a \in Nat, m \in Nat, t \in Seq(AnyCall) : a = pos[p] /\ m = moved[p] /\ t = todo[p]
  BY DEF TypeOK
<1>2. gossip \in 1 .. MaxGossip /\ EndSlot \in Nat
  BY Ends DEF TypeOK, EndFacts
<1>3. Stands(t, p, gossip, a) /\ m < Head(t).size /\ t # <<>>
  BY <1>1 DEF EachStands
<1>4. a \in CallSlots(p) /\ a \in 0 .. EndSlot /\ Head(t) = Call(p, gossip, a)
  BY <1>3 DEF Stands
<1>5. Call(p, gossip, a) \in AnyCall
  BY <1>2, <1>4, ProperCall
<1>6. ASSUME NEW op, NEW q
      PROVE  /\ Amount(op, p, q, gossip, a) \in Nat
             /\ CallAt(op, p, q, gossip, a) => Amount(op, p, q, gossip, a) = Call(p, gossip, a).size
             /\ ~CallAt(op, p, q, gossip, a) => Amount(op, p, q, gossip, a) = 0
             /\ Total(op, p, q, gossip)[a] \in Nat
  <2>1. a <= a
    BY <1>2
  <2>2. Total(op, p, q, gossip)[a] \in Nat
    BY <1>2, <1>4, <2>1, TotalGrows
  <2> QED
    BY <1>2, <1>4, <2>2, AmountIsNat DEF Amount
<1>7. PICK z \in Nat : z = Call(p, gossip, a).size
  BY <1>5 DEF AnyCall
<1>8. CASE m + 1 = z
  <2>1. todo' = [todo EXCEPT ![p] = Tail(@)] /\ moved' = [moved EXCEPT ![p] = 0]
    BY <1>1, <1>4, <1>7, <1>8 DEF Progress
  <2>2. Tail(t) \in Seq(AnyCall)
    BY <1>3, HeadTailProperties
  <2>3. /\ todo' \in [Party -> Seq(AnyCall)] /\ moved' \in [Party -> Nat]
        /\ todo'[p] = Tail(t) /\ moved'[p] = 0
        /\ \A r \in Party \ {p} : todo'[r] = todo[r] /\ moved'[r] = moved[r]
    BY <1>1, <2>1, <2>2 DEF TypeOK
  <2>4. PICK s \in a + 1 .. EndSlot :
          Stands(Tail(t), p, gossip, s) /\ \A x \in CallSlots(p) : a <= x /\ x < s => x = a
    BY <1>3, NextPlace
  <2>5. s \in a .. EndSlot /\ s \in Nat
    BY <2>4
  <2>6. Tail(t) # <<>> => 0 < Head(Tail(t)).size
    <3>1. ASSUME Tail(t) # <<>> PROVE Head(Tail(t)) \in AnyCall
      BY <2>2, <3>1, HeadTailProperties
    <3>2. \A call \in AnyCall : 0 < call.size
      BY DEF AnyCall
    <3> QED
      BY <3>1, <3>2
  <2>7. ASSUME NEW op, NEW q
        PROVE  Done(op, p, q, gossip, s, 0) =
                 Done(op, p, q, gossip, a, m) + IF CallAt(op, p, q, gossip, a) THEN 1 ELSE 0
    <3>1. Total(op, p, q, gossip)[s] = Total(op, p, q, gossip)[a] + Amount(op, p, q, gossip, a)
      BY <1>2, <2>4, TotalStep
    <3>2. PICK x \in Nat, y \in Nat :
            x = Total(op, p, q, gossip)[a] /\ y = Amount(op, p, q, gossip, a)
      BY <1>6
    <3>3. Done(op, p, q, gossip, s, 0) = x + y
      BY <3>1, <3>2 DEF Done
    <3>4. Done(op, p, q, gossip, a, m) = x + IF CallAt(op, p, q, gossip, a) THEN m ELSE 0
      BY <3>2 DEF Done
    <3>5. IF CallAt(op, p, q, gossip, a) THEN y = m + 1 ELSE y = 0
      BY <1>6, <1>7, <1>8, <3>2
    <3> QED
      BY <3>3, <3>4, <3>5
  <2> QED
    BY <1>1, <1>7, <1>8, <2>3, <2>4, <2>5, <2>6, <2>7
<1>9. CASE m + 1 # z
  <2>1. todo' = todo /\ moved' = [moved EXCEPT ![p] = @ + 1]
    BY <1>1, <1>4, <1>7, <1>9 DEF Progress
  <2>2. /\ todo' \in [Party -> Seq(AnyCall)] /\ moved' \in [Party -> Nat]
        /\ todo'[p] = t /\ moved'[p] = m + 1
        /\ \A r \in Party \ {p} : todo'[r] = todo[r] /\ moved'[r] = moved[r]
    BY <1>1, <2>1 DEF TypeOK
  <2>3. m + 1 < Head(t).size
    BY <1>3, <1>4, <1>7, <1>9
  <2>4. ASSUME NEW op, NEW q
        PROVE  Done(op, p, q, gossip, a, m + 1) =
                 Done(op, p, q, gossip, a, m) + IF CallAt(op, p, q, gossip, a) THEN 1 ELSE 0
    <3>1. PICK x \in Nat : x = Total(op, p, q, gossip)[a]
      BY <1>6
    <3> QED
      BY <3>1 DEF Done
  <2>5. a \in a .. EndSlot
    BY <1>4
  <2> QED
    BY <1>1, <1>3, <2>2, <2>3, <2>4, <2>5
<1> QED
  BY <1>8, <1>9

\* What the invariant says of what is done.
LEMMA DoneFacts ==
  ASSUME TypeOK, NEW pos \in [Party -> Nat], EachStands(pos), NEW p \in Party, NEW op, NEW q
  PROVE  /\ pos[p] \in 0 .. EndSlot /\ moved[p] \in Nat /\ gossip \in 1 .. MaxGossip
         /\ CallAt(op, p, q, gossip, pos[p]) => moved[p] < Amount(op, p, q, gossip, pos[p])
         /\ Done(op, p, q, gossip, pos[p], moved[p]) \in Nat
<1>1. pos[p] \in 0 .. EndSlot /\ moved[p] \in Nat /\ gossip \in 1 .. MaxGossip
  BY DEF TypeOK, EachStands, Stands
<1>2. ASSUME CallAt(op, p, q, gossip, pos[p])
      PROVE  moved[p] < Amount(op, p, q, gossip, pos[p])
  <2>1. pos[p] \in CallSlots(p) /\ Amount(op, p, q, gossip, pos[p]) = Call(p, gossip, pos[p]).size
    BY <1>2 DEF CallAt, Amount
  <2>2. pos[p] < EndSlot /\ pos[p] # EndSlot
    BY <2>1, Ends DEF CallSlots, EndFacts
  <2>3. todo[p] # <<>> /\ Head(todo[p]) = Call(p, gossip, pos[p]) /\ moved[p] < Head(todo[p]).size
    BY <2>2 DEF EachStands, Stands
  <2> QED
    BY <2>1, <2>3
<1>3. Done(op, p, q, gossip, pos[p], moved[p]) \in Nat
  BY <1>1, <1>2, DoneBounds
<1> QED
  BY <1>1, <1>2, <1>3

\* At in the model is CallAt at the party's place.
LEMMA HeadCall ==
  ASSUME TypeOK, NEW pos, EachStands(pos), NEW p \in Party, NEW op, NEW q
  PROVE  At(p, op, q) <=> CallAt(op, p, q, gossip, pos[p])
<1>1. Stands(todo[p], p, gossip, pos[p])
  BY DEF EachStands
<1>2. CASE todo[p] = <<>>
  BY <1>1, <1>2, Ends DEF Stands, CallAt, CallSlots, At, EndFacts
<1>3. CASE todo[p] # <<>>
  BY <1>1, <1>3 DEF Stands, CallAt, At
<1> QED
  BY <1>2, <1>3

\* What has been done in the gathering.
LEMMA DoneGather ==
  ASSUME NEW p \in Party, NEW q \in Party, p # q, NEW size \in 1 .. MaxGossip,
         NEW s \in 0 .. EndSlot, NEW m \in Nat,
         \A op : CallAt(op, p, q, size, s) => m < Amount(op, p, q, size, s)
  PROVE  \E x, y \in Nat :
           /\ x = Total("put", p, q, size)[GatherSlot] /\ y = Total("get", p, q, size)[GatherSlot]
           /\ s < GatherSlot + N => Done("get", p, q, size, s, m) <= y
           /\ GatherSlot <= s => Done("get", p, q, size, s, m) >= y
           /\ s = PutSlot(q) => Done("put", p, q, size, s, m) = x + m /\ m < size
           /\ s = GetSlot(q) => Done("get", p, q, size, s, m) = y + m /\ m < size
           /\ PutSlot(q) < s => Done("put", p, q, size, s, m) >= x + size
<1>1. PICK n \in Nat, g \in Nat : n = EndSlot /\ g = GatherSlot /\ g <= n /\ g \in 0 .. EndSlot
  BY Ends DEF EndFacts
<1>2. PICK x \in Nat, y \in Nat :
        x = Total("put", p, q, size)[g] /\ y = Total("get", p, q, size)[g]
  BY <1>1, TotalGrows
<1>3. PICK u \in Nat, v \in Nat :
        /\ u = PutSlot(q) /\ v = GetSlot(q) /\ g <= u /\ u < g + N /\ g + N <= v /\ g + N \in Nat
  BY <1>1, GatherPlaces
<1>4. /\ Done("get", p, q, size, s, m) \in Nat /\ Done("put", p, q, size, s, m) \in Nat /\ s \in Nat
      /\ size \in Nat
  BY <1>1, DoneBounds
<1>5. ASSUME s < g + N PROVE Done("get", p, q, size, s, m) <= y
  <2>1. CASE s < g
    BY <1>1, <1>2, <2>1, DoneBounds
  <2>2. CASE ~(s < g)
    <3>1. g <= s /\ s <= v /\ s # v
      BY <1>1, <1>3, <1>4, <1>5, <2>2
    <3>2. ~CallAt("get", p, q, size, s)
      BY <1>1, <1>3, <1>4, <3>1, GatherCalls
    <3>3. Total("get", p, q, size)[s] = y + 0
      BY <1>1, <1>2, <1>3, <3>1, GatherTotal
    <3> QED
      BY <3>2, <3>3 DEF Done
  <2> QED
    BY <2>1, <2>2
<1>6. ASSUME g <= s PROVE Done("get", p, q, size, s, m) >= y
  <2>1. Total("get", p, q, size)[g] <= Done("get", p, q, size, s, m)
    BY <1>1, <1>6, DoneBounds
  <2> QED
    BY <1>2, <1>4, <2>1
<1>7. ASSUME s = u PROVE Done("put", p, q, size, s, m) = x + m /\ m < size
  <2>1. CallAt("put", p, q, size, s) /\ Amount("put", p, q, size, s) = size
    BY <1>1, <1>3, <1>7, GatherCalls
  <2>2. Total("put", p, q, size)[s] = x + 0
    BY <1>1, <1>2, <1>3, <1>7, GatherTotal
  <2> QED
    BY <2>1, <2>2 DEF Done
<1>8. ASSUME s = v PROVE Done("get", p, q, size, s, m) = y + m /\ m < size
  <2>1. CallAt("get", p, q, size, s) /\ Amount("get", p, q, size, s) = size
    BY <1>1, <1>3, <1>8, GatherCalls
  <2>2. Total("get", p, q, size)[s] = y + 0
    BY <1>1, <1>2, <1>3, <1>8, GatherTotal
  <2> QED
    BY <2>1, <2>2 DEF Done
<1>9. ASSUME u < s PROVE Done("put", p, q, size, s, m) >= x + size
  <2>1. g <= s /\ ~(s <= u)
    BY <1>1, <1>3, <1>4, <1>9
  <2>2. Total("put", p, q, size)[s] = x + size
    BY <1>1, <1>2, <1>3, <2>1, GatherTotal
  <2>3. Total("put", p, q, size)[s] <= Done("put", p, q, size, s, m)
    <3>1. s <= s /\ (CallAt("put", p, q, size, s) => m < Amount("put", p, q, size, s))
      BY <1>4
    <3> QED
      BY <3>1, DoneBounds
  <2> QED
    BY <1>2, <1>4, <2>2, <2>3
<1> QED
  BY <1>1, <1>2, <1>3, <1>5, <1>6, <1>7, <1>8, <1>9

\* A party in the send loop of a gathering that does not fit the buffers has
\* filled the one before its call ends.
LEMMA SendFills ==
  ASSUME TypeOK, NEW pos \in [Party -> Nat], Placed(pos), N > 1, gossip > BufferSize,
         NEW p \in Party, NEW q \in Party, p # q, pos[p] = PutSlot(q), moved[p] + 1 = gossip
  PROVE  pipe[p][q] >= BufferSize
<1>1. EachStands(pos) /\ PipesHold(pos) /\ InSendLoop(pos)
  BY DEF Placed
<1>2. /\ pos[p] \in 0 .. EndSlot /\ pos[q] \in 0 .. EndSlot /\ gossip \in 1 .. MaxGossip
      /\ moved[p] \in Nat /\ moved[q] \in Nat
      /\ \A op : CallAt(op, p, q, gossip, pos[p]) => moved[p] < Amount(op, p, q, gossip, pos[p])
      /\ \A op : CallAt(op, q, p, gossip, pos[q]) => moved[q] < Amount(op, q, p, gossip, pos[q])
  BY <1>1, DoneFacts
<1>3. PICK x \in Nat : /\ x = Total("put", p, q, gossip)[GatherSlot]
                       /\ Done("put", p, q, gossip, pos[p], moved[p]) = x + moved[p]
  BY <1>2, DoneGather
<1>4. PICK y \in Nat : /\ y = Total("get", q, p, gossip)[GatherSlot]
                       /\ Done("get", q, p, gossip, pos[q], moved[q]) <= y
  <2>1. pos[q] < GatherSlot + N
    BY <1>1 DEF InSendLoop
  <2> QED
    BY <1>2, <2>1, DoneGather
<1>5. x = y
  <2>1. GatherSlot \in 0 .. GatherSlot
    BY Ends DEF EndFacts
  <2> QED
    BY <1>2, <1>3, <1>4, <2>1, SameTotal
<1>6. pipe[p][q] + Done("get", q, p, gossip, pos[q], moved[q]) = x + moved[p]
  BY <1>1, <1>3 DEF PipesHold
<1>7. pipe[p][q] \in Nat /\ Done("get", q, p, gossip, pos[q], moved[q]) \in Nat
  BY <1>1, DoneFacts DEF TypeOK
<1> QED
  BY <1>2, <1>4, <1>5, <1>6, <1>7, SizeFacts

LEMMA StepPlaced ==
  ASSUME BlockingInv, BlockingNext
  PROVE  BlockingInv'
<1>1. PICK pos \in [Party -> Nat] : Placed(pos)
  BY DEF BlockingInv
<1>2. TypeOK /\ EachStands(pos) /\ PipesHold(pos) /\ InSendLoop(pos)
  BY <1>1 DEF BlockingInv, Placed
<1>3. PICK p \in Party, q \in Party : Write(p, q) \/ Read(p, q)
  BY DEF BlockingNext, Step
<1>4. PICK op \in {"put", "get"} :
        /\ At(p, op, q) /\ Progress(p) /\ UNCHANGED gossip /\ todo[p] # <<>>
        /\ op = "put" => pipe[p][q] < BufferSize /\ pipe' = [pipe EXCEPT ![p][q] = @ + 1]
        /\ op = "get" => pipe[q][p] > 0 /\ pipe' = [pipe EXCEPT ![q][p] = @ - 1]
  BY <1>3 DEF Write, Read, CanWrite, CanRead, At
<1>5. CallAt(op, p, q, gossip, pos[p])
  BY <1>2, <1>4, HeadCall
<1>6. PICK s \in pos[p] .. EndSlot :
        /\ todo' \in [Party -> Seq(AnyCall)] /\ moved' \in [Party -> Nat]
        /\ \A r \in Party \ {p} : todo'[r] = todo[r] /\ moved'[r] = moved[r]
        /\ Stands(todo'[p], p, gossip, s)
        /\ todo'[p] # <<>> => moved'[p] < Head(todo'[p]).size
        /\ \A o, r : Done(o, p, r, gossip, s, moved'[p]) =
                       Done(o, p, r, gossip, pos[p], moved[p])
                         + IF CallAt(o, p, r, gossip, pos[p]) THEN 1 ELSE 0
        /\ s # pos[p] =>
             /\ moved[p] + 1 = Call(p, gossip, pos[p]).size
             /\ \A x \in CallSlots(p) : pos[p] <= x /\ x < s => x = pos[p]
  BY <1>2, <1>4, Moves
<1>7. PICK pos2 \in [Party -> Nat] : pos2[p] = s /\ \A r \in Party \ {p} : pos2[r] = pos[r]
  <2>1. s \in Nat
    BY <1>6
  <2>2. [pos EXCEPT ![p] = s] \in [Party -> Nat]
    BY <2>1
  <2> QED
    BY <2>2
<1>8. EachStands(pos2)'
  <2>1. ASSUME NEW r \in Party
        PROVE  /\ Stands(todo'[r], r, gossip', pos2[r])
               /\ todo'[r] # <<>> => moved'[r] < Head(todo'[r]).size
    BY <1>2, <1>4, <1>6, <1>7 DEF EachStands
  <2> QED
    BY <2>1 DEF EachStands
<1>9. pipe' \in [Party -> [Party -> Nat]] /\ PipesHold(pos2)'
  <2>1. ASSUME NEW o \in {"put", "get"}, NEW a \in Party, NEW b \in Party
        PROVE  /\ Done(o, a, b, gossip, pos[a], moved[a]) \in Nat
               /\ Done(o, a, b, gossip, pos2[a], moved'[a]) =
                    Done(o, a, b, gossip, pos[a], moved[a])
                      + IF a = p /\ b = q /\ o = op THEN 1 ELSE 0
    <3>1. Done(o, a, b, gossip, pos[a], moved[a]) \in Nat
      BY <1>2, DoneFacts
    <3>2. CASE a = p
      <4>1. CallAt(o, p, b, gossip, pos[p]) <=> o = op /\ b = q
        BY <1>5, OneCall
      <4> QED
        BY <1>6, <1>7, <3>1, <3>2, <4>1
    <3>3. CASE a # p
      BY <1>6, <1>7, <3>1, <3>3
    <3> QED
      BY <3>1, <3>2, <3>3
  <2>2. \A a, b \in Party : pipe[a][b] \in Nat /\ pipe[a][b] <= BufferSize
    BY <1>2 DEF TypeOK, PipesHold
  <2>3. \A a, b \in Party :
          pipe[a][b] + Done("get", b, a, gossip, pos[b], moved[b]) =
            Done("put", a, b, gossip, pos[a], moved[a])
    BY <1>2 DEF PipesHold
  <2>4. CASE op = "put"
    <3>1. /\ pipe' \in [Party -> [Party -> Nat]]
          /\ \A a, b \in Party : pipe'[a][b] = IF a = p /\ b = q THEN pipe[a][b] + 1 ELSE pipe[a][b]
      <4>1. pipe \in [Party -> [Party -> Nat]] /\ pipe[p][q] + 1 \in Nat
        BY <1>2, <2>2 DEF TypeOK
      <4>2. pipe' = [pipe EXCEPT ![p] = [@ EXCEPT ![q] = pipe[p][q] + 1]]
        BY <1>4, <2>4, <4>1
      <4> QED
        BY <4>1, <4>2
    <3>2. pipe[p][q] + 1 <= BufferSize
      BY <1>4, <2>2, <2>4, SizeFacts
    <3>3. ASSUME NEW a \in Party, NEW b \in Party
          PROVE  /\ pipe'[a][b] <= BufferSize
                 /\ pipe'[a][b] + Done("get", b, a, gossip', pos2[b], moved'[b]) =
                      Done("put", a, b, gossip', pos2[a], moved'[a])
      <4>1. Done("get", b, a, gossip, pos2[b], moved'[b]) = Done("get", b, a, gossip, pos[b], moved[b])
        BY <2>1, <2>4
      <4>2. Done("put", a, b, gossip, pos2[a], moved'[a]) =
              Done("put", a, b, gossip, pos[a], moved[a]) + IF a = p /\ b = q THEN 1 ELSE 0
        BY <2>1, <2>4
      <4>3. /\ Done("get", b, a, gossip, pos[b], moved[b]) \in Nat
            /\ Done("put", a, b, gossip, pos[a], moved[a]) \in Nat
        BY <2>1
      <4>4. pipe'[a][b] = pipe[a][b] + (IF a = p /\ b = q THEN 1 ELSE 0) /\ pipe'[a][b] <= BufferSize
        BY <2>2, <3>1, <3>2
      <4>5. pipe[a][b] \in Nat /\ pipe[a][b] + Done("get", b, a, gossip, pos[b], moved[b]) =
              Done("put", a, b, gossip, pos[a], moved[a])
        BY <2>2, <2>3
      <4>6. gossip' = gossip
        BY <1>4
      <4> QED
        BY <4>1, <4>2, <4>3, <4>4, <4>5, <4>6
    <3> QED
      BY <3>1, <3>3 DEF PipesHold
  <2>5. CASE op = "get"
    <3>1. /\ pipe' \in [Party -> [Party -> Nat]]
          /\ \A a, b \in Party : pipe'[a][b] = IF a = q /\ b = p THEN pipe[a][b] - 1 ELSE pipe[a][b]
      <4>1. pipe \in [Party -> [Party -> Nat]] /\ pipe[q][p] - 1 \in Nat
        BY <1>2, <1>4, <2>2, <2>5 DEF TypeOK
      <4>2. pipe' = [pipe EXCEPT ![q] = [@ EXCEPT ![p] = pipe[q][p] - 1]]
        BY <1>4, <2>5, <4>1
      <4> QED
        BY <4>1, <4>2
    <3>3. ASSUME NEW a \in Party, NEW b \in Party
          PROVE  /\ pipe'[a][b] <= BufferSize
                 /\ pipe'[a][b] + Done("get", b, a, gossip', pos2[b], moved'[b]) =
                      Done("put", a, b, gossip', pos2[a], moved'[a])
      <4>1. Done("get", b, a, gossip, pos2[b], moved'[b]) =
              Done("get", b, a, gossip, pos[b], moved[b]) + IF a = q /\ b = p THEN 1 ELSE 0
        BY <2>1, <2>5
      <4>2. Done("put", a, b, gossip, pos2[a], moved'[a]) = Done("put", a, b, gossip, pos[a], moved[a])
        BY <2>1, <2>5
      <4>3. /\ Done("get", b, a, gossip, pos[b], moved[b]) \in Nat
            /\ Done("put", a, b, gossip, pos[a], moved[a]) \in Nat
        BY <2>1
      <4>4. pipe'[a][b] = pipe[a][b] - (IF a = q /\ b = p THEN 1 ELSE 0) /\ pipe'[a][b] <= BufferSize
        BY <2>2, <3>1, SizeFacts
      <4>5. pipe[a][b] \in Nat /\ pipe[a][b] + Done("get", b, a, gossip, pos[b], moved[b]) =
              Done("put", a, b, gossip, pos[a], moved[a])
        BY <2>2, <2>3
      <4>6. gossip' = gossip
        BY <1>4
      <4> QED
        BY <4>1, <4>2, <4>3, <4>4, <4>5, <4>6
    <3> QED
      BY <3>1, <3>3 DEF PipesHold
  <2> QED
    BY <2>4, <2>5
<1>10. InSendLoop(pos2)'
  <2>1. SUFFICES ASSUME N > 1, gossip > BufferSize PROVE pos2[p] < GatherSlot + N
    <3>1. ASSUME N > 1, gossip > BufferSize, pos2[p] < GatherSlot + N, NEW r \in Party
          PROVE  pos2[r] < GatherSlot + N
      BY <1>2, <1>7, <3>1 DEF InSendLoop
    <3> QED
      BY <1>4, <3>1 DEF InSendLoop
  <2>2. pos[p] \in Nat /\ pos[p] < GatherSlot + N /\ GatherSlot + N \in Nat /\ GatherSlot \in Nat
    BY <1>2, <2>1, Ends, PartyFacts DEF InSendLoop, EndFacts
  <2>3. CASE s = pos[p]
    BY <1>7, <2>2, <2>3
  <2>4. CASE s # pos[p] /\ pos[p] < GatherSlot
    <3>1. PICK z \in CallSlots(p) : z \in Nat /\ GatherSlot <= z /\ z < GatherSlot + N
      BY <2>1, SendLoopSlot
    <3>2. ~(z < s)
      <4>1. z # pos[p] /\ pos[p] <= z
        BY <2>2, <2>4, <3>1
      <4> QED
        BY <1>6, <2>4, <4>1
    <3> QED
      BY <1>6, <1>7, <2>2, <3>1, <3>2
  <2>5. CASE s # pos[p] /\ ~(pos[p] < GatherSlot)
    <3>1. pos[p] \in CallSlots(p) /\ GatherSlot <= pos[p] /\ gossip \in 1 .. MaxGossip
      BY <1>2, <1>5, <2>2, <2>5 DEF CallAt, TypeOK
    <3>2. PICK r \in Party \ {p} : pos[p] = PutSlot(r) \/ pos[p] = GetSlot(r)
      BY <3>1, GatherSlots
    <3>3. pos[p] = PutSlot(r)
      <4>1. PICK g \in Nat : g = GatherSlot /\ \A x \in Party : GetSlot(x) = g + N + x
        BY GatherFacts
      <4>2. r \in Nat /\ N \in Nat
        BY PartyFacts
      <4>3. GetSlot(r) >= g + N
        BY <4>1, <4>2
      <4> QED
        BY <2>2, <3>2, <4>1, <4>2, <4>3
    <3>4. Call(p, gossip, pos[p]) = Put(r, gossip)
      BY <3>3, GatherSlots
    <3>5. op = "put" /\ q = r /\ Call(p, gossip, pos[p]).size = gossip
      BY <1>5, <3>4 DEF CallAt, Put
    <3>6. moved[p] + 1 = gossip
      BY <1>6, <2>5, <3>5
    <3>7. pipe[p][q] >= BufferSize
      BY <1>1, <1>2, <2>1, <3>2, <3>3, <3>5, <3>6, SendFills
    <3>8. pipe[p][q] < BufferSize /\ pipe[p][q] \in Nat
      BY <1>2, <1>4, <3>5 DEF TypeOK
    <3> QED
      BY <3>7, <3>8, SizeFacts
  <2> QED
    BY <2>3, <2>4, <2>5
<1>11. TypeOK'
  BY <1>2, <1>4, <1>6, <1>9 DEF TypeOK
<1> QED
  BY <1>7, <1>8, <1>9, <1>10, <1>11 DEF BlockingInv, Placed

THEOREM BlockingInvariant == BlockingSpec => []BlockingInv
<1>1. BlockingInit => BlockingInv
  BY InitPlaced
<1>2. BlockingInv /\ [BlockingNext]_blockingVars => BlockingInv'
  <2>1. ASSUME BlockingInv, UNCHANGED blockingVars PROVE BlockingInv'
    BY <2>1 DEF blockingVars, BlockingInv, TypeOK, Placed, EachStands, PipesHold, InSendLoop
  <2> QED
    BY <2>1, StepPlaced
<1> QED
  BY <1>1, <1>2, PTL DEF BlockingSpec

-----------------------------------------------------------------------------
(***************************************************************************)
(* Who can be stuck.                                                       *)
(***************************************************************************)
\* The party that stands furthest back, before the gathering, can move, or its
\* peer can.
LEMMA LastMoves ==
  ASSUME TypeOK, NEW pos \in [Party -> Nat], Placed(pos), Stuck,
         NEW p \in Party, \A q \in Party : pos[p] <= pos[q]
  PROVE  GatherSlot <= pos[p]
<1>1. EachStands(pos) /\ PipesHold(pos)
  BY DEF Placed
<1>2. \A a, b \in Party : ~CanWrite(a, b) /\ ~CanRead(a, b)
  BY DEF Stuck
<1>3. gossip \in 1 .. MaxGossip /\ BufferSize \in Nat /\ 0 < BufferSize
  BY SizeFacts DEF TypeOK
<1>4. GatherSlot \in Nat /\ EndSlot \in Nat /\ GatherSlot <= EndSlot
  BY Ends DEF EndFacts
<1> SUFFICES ASSUME pos[p] < GatherSlot PROVE FALSE
  BY <1>4
<1>5. PICK s \in Nat : s = pos[p] /\ s < GatherSlot /\ s \in 0 .. GatherSlot /\ s \in 0 .. EndSlot
  BY <1>4
<1>6. s \in CallSlots(p)
  BY <1>1, <1>4, <1>5 DEF EachStands, Stands
<1>7. PICK op \in {"put", "get"}, q \in Party \ {p} : CallAt(op, p, q, gossip, s)
  BY <1>3, <1>6, OtherPeer
<1>8. At(p, op, q)
  BY <1>1, <1>5, <1>7, HeadCall
<1>9. PICK a \in Nat, b \in Nat, w \in Nat, v \in Nat :
        /\ a = Done("put", p, q, gossip, pos[p], moved[p])
        /\ b = Done("get", q, p, gossip, pos[q], moved[q])
        /\ w = pipe[p][q] /\ w + b = a
        /\ v = pipe[q][p]
        /\ v + Done("get", p, q, gossip, pos[p], moved[p]) =
             Done("put", q, p, gossip, pos[q], moved[q])
  <2>1. /\ Done("put", p, q, gossip, pos[p], moved[p]) \in Nat
        /\ Done("get", q, p, gossip, pos[q], moved[q]) \in Nat
    BY <1>1, DoneFacts
  <2>2. pipe[p][q] \in Nat /\ pipe[q][p] \in Nat
    BY DEF TypeOK
  <2> QED
    BY <1>1, <2>1, <2>2 DEF PipesHold
<1>10. PICK c \in Nat, d \in Nat :
         /\ c = Done("get", p, q, gossip, pos[p], moved[p])
         /\ d = Done("put", q, p, gossip, pos[q], moved[q])
  BY <1>1, DoneFacts
<1>11. /\ pos[q] \in 0 .. EndSlot /\ s <= pos[q] /\ pos[q] \in Nat
       /\ moved[q] \in Nat /\ moved[p] \in Nat
       /\ \A o : CallAt(o, q, p, gossip, pos[q]) => moved[q] < Amount(o, q, p, gossip, pos[q])
       /\ \A o : CallAt(o, p, q, gossip, s) => moved[p] < Amount(o, p, q, gossip, s)
  BY <1>1, <1>4, <1>5, DoneFacts
<1>12. CASE op = "put"
  <2>1. CallAt("get", q, p, gossip, s)
    BY <1>3, <1>5, <1>7, <1>12, SameSlot
  <2>2. w >= BufferSize
    BY <1>2, <1>3, <1>8, <1>9, <1>12 DEF CanWrite
  <2>3. CASE pos[q] = s
    <3>1. At(q, "get", p)
      BY <1>1, <2>1, <2>3, HeadCall
    <3>2. CanRead(q, p)
      BY <1>3, <1>9, <2>2, <3>1 DEF CanRead
    <3> QED
      BY <1>2, <3>2
  <2>4. CASE pos[q] # s
    <3>1. PICK e \in Nat : e = s + 1 /\ e \in 0 .. GatherSlot /\ e \in 0 .. EndSlot /\ e <= pos[q] /\ s < e
      BY <1>4, <1>5, <1>11, <2>4
    <3>2. a < Total("put", p, q, gossip)[e]
      <4>1. CallAt("put", p, q, gossip, s) /\ moved[p] < Amount("put", p, q, gossip, s)
        BY <1>7, <1>11, <1>12
      <4>2. Done("put", p, q, gossip, s, moved[p]) < Total("put", p, q, gossip)[e]
        BY <1>3, <1>5, <1>11, <3>1, <4>1, DoneBounds
      <4> QED
        BY <1>5, <1>9, <4>2
    <3>3. Total("get", q, p, gossip)[e] <= b
      BY <1>3, <1>9, <1>11, <3>1, DoneBounds
    <3>4. Total("put", p, q, gossip)[e] = Total("get", q, p, gossip)[e]
      BY <1>3, <3>1, SameTotal
    <3>5. Total("get", q, p, gossip)[e] \in Nat
      <4>1. e <= e
        BY <3>1
      <4> QED
        BY <1>3, <3>1, <4>1, TotalGrows
    <3> QED
      BY <1>9, <3>2, <3>3, <3>4, <3>5
  <2> QED
    BY <2>3, <2>4
<1>13. CASE op = "get"
  <2>1. CallAt("put", q, p, gossip, s)
    BY <1>3, <1>5, <1>7, <1>13, SameSlot
  <2>2. v = 0
    BY <1>2, <1>8, <1>9, <1>13 DEF CanRead
  <2>3. CASE pos[q] = s
    <3>1. At(q, "put", p)
      BY <1>1, <2>1, <2>3, HeadCall
    <3>2. CanWrite(q, p)
      BY <1>3, <1>9, <2>2, <3>1 DEF CanWrite
    <3> QED
      BY <1>2, <3>2
  <2>4. CASE pos[q] # s
    <3>1. PICK e \in Nat : e = s + 1 /\ e \in 0 .. GatherSlot /\ e \in 0 .. EndSlot /\ e <= pos[q] /\ s < e
      BY <1>4, <1>5, <1>11, <2>4
    <3>2. c < Total("get", p, q, gossip)[e]
      <4>1. CallAt("get", p, q, gossip, s) /\ moved[p] < Amount("get", p, q, gossip, s)
        BY <1>7, <1>11, <1>13
      <4>2. Done("get", p, q, gossip, s, moved[p]) < Total("get", p, q, gossip)[e]
        BY <1>3, <1>5, <1>11, <3>1, <4>1, DoneBounds
      <4> QED
        BY <1>5, <1>10, <4>2
    <3>3. Total("put", q, p, gossip)[e] <= d
      BY <1>3, <1>10, <1>11, <3>1, DoneBounds
    <3>4. Total("put", q, p, gossip)[e] = Total("get", p, q, gossip)[e]
      BY <1>3, <3>1, SameTotal
    <3>5. Total("get", p, q, gossip)[e] \in Nat
      <4>1. e <= e
        BY <3>1
      <4> QED
        BY <1>3, <3>1, <4>1, TotalGrows
    <3>6. v + c = d
      BY <1>9, <1>10
    <3> QED
      BY <1>9, <2>2, <3>2, <3>3, <3>4, <3>5, <3>6
  <2> QED
    BY <2>3, <2>4
<1> QED
  BY <1>12, <1>13

\* Then everybody stands in the gathering.
LEMMA AllGather ==
  ASSUME TypeOK, NEW pos \in [Party -> Nat], Placed(pos), Stuck, NEW r \in Party
  PROVE  GatherSlot <= pos[r] /\ pos[r] \in Nat
<1>1. {pos[p] : p \in Party} \in SUBSET Nat /\ pos[r] \in {pos[p] : p \in Party}
  OBVIOUS
<1>2. PICK n \in {pos[p] : p \in Party} : \A m \in {pos[p] : p \in Party} : n <= m
  BY <1>1, LeastElement
<1>3. PICK p \in Party : pos[p] = n
  OBVIOUS
<1>4. GatherSlot <= pos[p]
  BY <1>2, <1>3, LastMoves
<1>5. pos[p] <= pos[r] /\ pos[p] \in Nat /\ pos[r] \in Nat /\ GatherSlot \in Nat
  BY <1>1, <1>2, <1>3, Ends DEF EndFacts
<1> QED
  BY <1>4, <1>5

\* Somebody stands in the send loop, so the gathering does not fit.
LEMMA SomeoneSends ==
  ASSUME TypeOK, NEW pos \in [Party -> Nat], Placed(pos), Stuck
  PROVE  gossip > BufferSize /\ N > 1
<1>1. EachStands(pos) /\ PipesHold(pos)
  BY DEF Placed
<1>2. \A a, b \in Party : ~CanWrite(a, b) /\ ~CanRead(a, b)
  BY DEF Stuck
<1>3. gossip \in 1 .. MaxGossip /\ BufferSize \in Nat /\ 0 < BufferSize /\ gossip \in Nat
  BY SizeFacts DEF TypeOK
<1>4. PICK g \in Nat : g = GatherSlot /\ g <= EndSlot /\ EndSlot \in Nat /\ g \in 0 .. g
  BY Ends DEF EndFacts
<1>5. ASSUME NEW p \in Party, NEW q \in Party \ {p}
      PROVE  /\ pos[p] \in 0 .. EndSlot /\ g <= pos[p] /\ pos[p] \in Nat /\ moved[p] \in Nat
             /\ \A o : CallAt(o, p, q, gossip, pos[p]) => moved[p] < Amount(o, p, q, gossip, pos[p])
             /\ \A o : Done(o, p, q, gossip, pos[p], moved[p]) \in Nat
             /\ pipe[p][q] \in Nat
             /\ pipe[p][q] + Done("get", q, p, gossip, pos[q], moved[q]) =
                  Done("put", p, q, gossip, pos[p], moved[p])
             /\ Total("put", p, q, gossip)[g] = Total("get", q, p, gossip)[g]
  <2>1. /\ pos[p] \in 0 .. EndSlot /\ g <= pos[p] /\ pos[p] \in Nat /\ moved[p] \in Nat
        /\ pipe[p][q] \in Nat
    BY <1>1, <1>4, AllGather, DoneFacts DEF TypeOK
  <2>2. \A o : /\ CallAt(o, p, q, gossip, pos[p]) => moved[p] < Amount(o, p, q, gossip, pos[p])
               /\ Done(o, p, q, gossip, pos[p], moved[p]) \in Nat
    BY <1>1, DoneFacts
  <2>3. pipe[p][q] + Done("get", q, p, gossip, pos[q], moved[q]) =
          Done("put", p, q, gossip, pos[p], moved[p])
    BY <1>1 DEF PipesHold
  <2>4. Total("put", p, q, gossip)[g] = Total("get", q, p, gossip)[g]
    BY <1>3, <1>4, SameTotal
  <2> QED
    BY <2>1, <2>2, <2>3, <2>4
<1>6. ASSUME NEW p \in Party, NEW q \in Party \ {p}, pos[p] = PutSlot(q)
      PROVE  gossip > BufferSize
  <2>1. CallAt("put", p, q, gossip, pos[p])
    BY <1>4, <1>5, <1>6, GatherCalls
  <2>2. At(p, "put", q)
    BY <1>1, <2>1, HeadCall
  <2>3. pipe[p][q] >= BufferSize
    BY <1>2, <1>3, <1>5, <2>2 DEF CanWrite
  <2>4. PICK x \in Nat : /\ x = Total("put", p, q, gossip)[g] /\ moved[p] < gossip
                         /\ Done("put", p, q, gossip, pos[p], moved[p]) = x + moved[p]
    BY <1>3, <1>4, <1>5, <1>6, DoneGather
  <2>5. PICK y \in Nat : /\ y = Total("get", q, p, gossip)[g]
                         /\ Done("get", q, p, gossip, pos[q], moved[q]) >= y
    BY <1>3, <1>4, <1>5, DoneGather
  <2>6. x = y
    BY <1>5, <2>4, <2>5
  <2>7. Done("get", q, p, gossip, pos[q], moved[q]) \in Nat /\ pipe[p][q] \in Nat /\ moved[p] \in Nat
    BY <1>5
  <2>8. pipe[p][q] + Done("get", q, p, gossip, pos[q], moved[q]) = x + moved[p]
    BY <1>5, <2>4
  <2> QED
    BY <1>3, <2>3, <2>4, <2>5, <2>6, <2>7, <2>8
<1>7. ASSUME NEW p \in Party, NEW q \in Party \ {p}, pos[p] = GetSlot(q)
      PROVE  \E r \in Party \ {q} : pos[q] = PutSlot(r)
  <2>1. CallAt("get", p, q, gossip, pos[p])
    BY <1>4, <1>5, <1>7, GatherCalls
  <2>2. At(p, "get", q)
    BY <1>1, <2>1, HeadCall
  <2>3. pipe[q][p] = 0
    BY <1>2, <1>5, <2>2 DEF CanRead
  <2>4. PICK y \in Nat : /\ y = Total("get", p, q, gossip)[g] /\ moved[p] < gossip
                         /\ Done("get", p, q, gossip, pos[p], moved[p]) = y + moved[p]
    BY <1>3, <1>4, <1>5, <1>7, DoneGather
  <2>5. PICK x \in Nat : /\ x = Total("put", q, p, gossip)[g]
                         /\ PutSlot(p) < pos[q] =>
                              Done("put", q, p, gossip, pos[q], moved[q]) >= x + gossip
    BY <1>3, <1>4, <1>5, DoneGather
  <2>6. x = y
    BY <1>5, <2>4, <2>5
  <2>7. /\ pipe[q][p] + (y + moved[p]) = Done("put", q, p, gossip, pos[q], moved[q])
        /\ Done("put", q, p, gossip, pos[q], moved[q]) \in Nat /\ moved[p] \in Nat
    BY <1>5, <2>4
  <2>8. ~(PutSlot(p) < pos[q])
    BY <1>3, <2>3, <2>4, <2>5, <2>6, <2>7
  <2>9. PICK u \in Nat : u = PutSlot(p) /\ u < EndSlot /\ u < g + N
    <3>1. PutSlot(p) = g + p /\ EndSlot = g + 2 * N
      BY <1>4, GatherFacts
    <3>2. p \in Nat /\ N \in Nat /\ p < N
      BY PartyFacts
    <3> QED
      BY <3>1, <3>2
  <2>10. pos[q] \in CallSlots(q)
    <3>1. pos[q] # EndSlot
      BY <1>4, <1>5, <2>8, <2>9
    <3> QED
      BY <1>1, <3>1 DEF EachStands, Stands
  <2>11. PICK r \in Party \ {q} : pos[q] = PutSlot(r) \/ pos[q] = GetSlot(r)
    BY <1>4, <1>5, <2>10, GatherSlots
  <2>12. pos[q] # GetSlot(r)
    <3>1. PICK z \in Nat : z = g /\ GetSlot(r) = z + N + r
      BY <1>4, GatherFacts
    <3>2. r \in Nat /\ N \in Nat
      BY PartyFacts
    <3> QED
      BY <1>5, <2>8, <2>9, <3>1, <3>2
  <2> QED
    BY <2>11, <2>12
<1>8. PICK p \in Party : todo[p] # <<>>
  BY DEF Stuck, AllDone
<1>9. pos[p] \in CallSlots(p) /\ g <= pos[p]
  BY <1>1, <1>4, <1>8, AllGather DEF EachStands, Stands
<1>10. PICK q \in Party \ {p} : pos[p] = PutSlot(q) \/ pos[p] = GetSlot(q)
  BY <1>4, <1>9, GatherSlots
<1>11. gossip > BufferSize
  BY <1>6, <1>7, <1>10
<1>12. N > 1
  BY <1>10, PartyFacts
<1> QED
  BY <1>11, <1>12


-----------------------------------------------------------------------------
(***************************************************************************)
(* How many calls are left.                                                *)
(***************************************************************************)
LEMMA InOrderCount ==
  ASSUME NEW c \in Seq(Nat), NEW lo \in Nat, NEW hi \in Nat, NEW S \in SUBSET Nat,
         InOrder(c, lo, hi, S)
  PROVE  /\ IsFiniteSet({s \in S : lo <= s /\ s < hi})
         /\ Cardinality({s \in S : lo <= s /\ s < hi}) = Len(c)
<1> DEFINE X == {s \in S : lo <= s /\ s < hi}
<1>1. Len(c) \in Nat /\ DOMAIN c = 1 .. Len(c) /\ c \in [1 .. Len(c) -> Nat]
  BY LenProperties
<1>2. c \in [1 .. Len(c) -> X]
  BY <1>1 DEF InOrder
<1>3. ASSUME NEW i \in 1 .. Len(c), NEW j \in 1 .. Len(c), c[i] = c[j] PROVE i = j
  <2>1. i < j \/ j < i \/ i = j
    BY <1>1
  <2>2. c[i] \in Nat /\ c[j] \in Nat
    BY <1>1
  <2>3. (i < j => c[i] < c[j]) /\ (j < i => c[j] < c[i])
    BY DEF InOrder
  <2> QED
    BY <1>3, <2>1, <2>2, <2>3
<1>4. \A x \in X : \E i \in 1 .. Len(c) : c[i] = x
  BY DEF InOrder
<1>5. c \in Bijection(1 .. Len(c), X)
  BY <1>2, <1>3, <1>4 DEF Bijection, Injection, Surjection, IsInjective
<1>6. ExistsBijection(1 .. Len(c), X)
  BY <1>5 DEF ExistsBijection
<1>7. IsFiniteSet(1 .. Len(c)) /\ Cardinality(1 .. Len(c)) = Len(c)
  <2>1. PICK n \in Nat : n = Len(c)
    BY <1>1
  <2>2. IsFiniteSet(1 .. n) /\ Cardinality(1 .. n) = IF 1 > n THEN 0 ELSE n - 1 + 1
    <3>1. 1 \in Int /\ n \in Int
      OBVIOUS
    <3> QED
      BY <3>1, FS_Interval
  <2> QED
    BY <1>1, <2>1, <2>2
<1> HIDE DEF X
<1>8. IsFiniteSet(X) /\ Cardinality(X) = Len(c)
  BY <1>6, <1>7, FS_Bijection
<1> QED
  BY <1>8 DEF X

\* The sends and the reads of the gathering are N - 1 each.
LEMMA GatherCount ==
  ASSUME NEW p \in Party
  PROVE  /\ IsFiniteSet({PutSlot(q) : q \in Party \ {p}})
         /\ Cardinality({PutSlot(q) : q \in Party \ {p}}) = N - 1
         /\ IsFiniteSet({GetSlot(q) : q \in Party \ {p}})
         /\ Cardinality({GetSlot(q) : q \in Party \ {p}}) = N - 1
<1> DEFINE O == Party \ {p}
<1>1. N \in Nat /\ 0 < N /\ p \in Party
  BY PartyFacts
<1>2. IsFiniteSet(O) /\ Cardinality(O) = N - 1
  <2>1. IsFiniteSet(Party) /\ Cardinality(Party) = N
    <3>1. IsFiniteSet(0 .. N-1) /\ Cardinality(0 .. N-1) = IF 0 > N-1 THEN 0 ELSE N-1 - 0 + 1
      <4>1. 0 \in Int /\ N-1 \in Int
        BY <1>1
      <4> QED
        BY <4>1, FS_Interval
    <3> QED
      BY <1>1, <3>1 DEF Party
  <2> QED
    BY <1>1, <2>1, FS_RemoveElement
<1>3. PICK z \in Nat : \A q \in Party : PutSlot(q) = z + q /\ GetSlot(q) = z + N + q /\ q \in Nat
  BY GatherFacts, PartyFacts
<1>4. ASSUME NEW f, NEW T, f \in [O -> T], \A q, r \in O : f[q] = f[r] => q = r,
             \A x \in T : \E q \in O : f[q] = x
      PROVE  IsFiniteSet(T) /\ Cardinality(T) = N - 1
  <2> HIDE DEF O
  <2>1. f \in Bijection(O, T)
    BY <1>4 DEF Bijection, Injection, Surjection, IsInjective
  <2>2. ExistsBijection(O, T)
    BY <2>1 DEF ExistsBijection
  <2> QED
    BY <1>2, <2>2, FS_Bijection
<1>5. IsFiniteSet({PutSlot(q) : q \in O}) /\ Cardinality({PutSlot(q) : q \in O}) = N - 1
  <2>1. PICK f : f = [q \in O |-> PutSlot(q)]
    OBVIOUS
  <2>2. f \in [O -> {PutSlot(q) : q \in O}] /\ \A x \in {PutSlot(q) : q \in O} : \E q \in O : f[q] = x
    BY <2>1
  <2>3. \A q, r \in O : f[q] = f[r] => q = r
    BY <1>3, <2>1
  <2> QED
    BY <1>4, <2>2, <2>3
<1>6. IsFiniteSet({GetSlot(q) : q \in O}) /\ Cardinality({GetSlot(q) : q \in O}) = N - 1
  <2>1. PICK f : f = [q \in O |-> GetSlot(q)]
    OBVIOUS
  <2>2. f \in [O -> {GetSlot(q) : q \in O}] /\ \A x \in {GetSlot(q) : q \in O} : \E q \in O : f[q] = x
    BY <2>1
  <2>3. \A q, r \in O : f[q] = f[r] => q = r
    BY <1>1, <1>3, <2>1
  <2> QED
    BY <1>4, <2>2, <2>3
<1> QED
  BY <1>5, <1>6

\* In the send loop a party has N to 2 * (N - 1) calls left, after it fewer.
LEMMA CallsLeft ==
  ASSUME NEW p \in Party, NEW size, NEW t, NEW s, Stands(t, p, size, s), N > 1
  PROVE  /\ Len(t) \in Nat
         /\ s < GatherSlot + N => N <= Len(t)
         /\ GatherSlot <= s => Len(t) <= 2 * (N - 1)
<1>1. PICK c : Lists(t, c, p, size, s, EndSlot)
  BY DEF Stands, Covers
<1>2. PICK e \in Nat, g \in Nat :
        /\ e = EndSlot /\ g = GatherSlot /\ e = g + 2 * N /\ N \in Nat
        /\ \A q \in Party : PutSlot(q) = g + q /\ GetSlot(q) = g + N + q /\ q \in Nat /\ q < N
  BY GatherFacts, PartyFacts
<1>3. s \in 0 .. e /\ s \in Nat /\ CallSlots(p) \in SUBSET Nat /\ \A x \in CallSlots(p) : x < e
  BY <1>2 DEF Stands, CallSlots
<1> DEFINE X == {x \in CallSlots(p) : s <= x /\ x < e}
           P == {PutSlot(q) : q \in Party \ {p}}
           G == {GetSlot(q) : q \in Party \ {p}}
<1>4. PICK n \in Nat : n = Len(t) /\ IsFiniteSet(X) /\ Cardinality(X) = n
  <2>1. c \in Seq(Nat) /\ Len(c) = Len(t) /\ InOrder(c, s, e, CallSlots(p)) /\ Len(c) \in Nat
    BY <1>1, <1>2, LenProperties DEF Lists
  <2> QED
    BY <1>2, <1>3, <2>1, InOrderCount
<1>5. IsFiniteSet(P) /\ Cardinality(P) = N - 1 /\ IsFiniteSet(G) /\ Cardinality(G) = N - 1
  BY GatherCount
<1>6. ASSUME s < g + N PROVE N <= n
  <2>1. s \in CallSlots(p)
    <3>1. s # e
      BY <1>2, <1>3, <1>6
    <3> QED
      BY <1>2, <3>1 DEF Stands
  <2>2. s \notin G
    BY <1>2, <1>3, <1>6
  <2>3. ASSUME NEW q \in Party \ {p} PROVE GetSlot(q) \in X
    <3>1. GetSlot(q) \in CallSlots(p)
      BY GatherSlots
    <3> QED
      BY <1>2, <1>3, <1>6, <3>1
  <2>4. G \cup {s} \in SUBSET X
    BY <1>3, <2>1, <2>3
  <2> HIDE DEF G, X
  <2>5. IsFiniteSet(G \cup {s}) /\ Cardinality(G \cup {s}) = (N - 1) + 1
    BY <1>5, <2>2, FS_AddElement
  <2>6. Cardinality(G \cup {s}) <= Cardinality(X)
    BY <1>4, <2>4, FS_Subset
  <2> QED
    BY <1>2, <1>4, <2>5, <2>6
<1>7. ASSUME g <= s PROVE n <= 2 * (N - 1)
  <2>1. ASSUME NEW x \in X PROVE x \in P \cup G
    <3>1. x \in CallSlots(p) /\ GatherSlot <= x
      BY <1>2, <1>3, <1>7
    <3>2. PICK q \in Party \ {p} : x = PutSlot(q) \/ x = GetSlot(q)
      BY <3>1, GatherSlots
    <3> QED
      BY <3>2
  <2> HIDE DEF P, G, X
  <2>2. /\ IsFiniteSet(P \cup G)
        /\ Cardinality(P \cup G) = Cardinality(P) + Cardinality(G) - Cardinality(P \cap G)
    BY <1>5, FS_Union
  <2>3. Cardinality(P \cap G) \in Nat /\ Cardinality(P \cup G) \in Nat
    <3>1. P \cap G \in SUBSET P
      OBVIOUS
    <3>2. IsFiniteSet(P \cap G)
      BY <1>5, <3>1, FS_Subset
    <3> QED
      BY <2>2, <3>2, FS_CardinalityType
  <2>4. Cardinality(X) <= Cardinality(P \cup G)
    <3>1. X \in SUBSET (P \cup G)
      BY <2>1
    <3> QED
      BY <2>2, <3>1, FS_Subset
  <2> QED
    BY <1>2, <1>4, <1>5, <2>2, <2>3, <2>4
<1> QED
  BY <1>2, <1>4, <1>6, <1>7

-----------------------------------------------------------------------------
(***************************************************************************)
(* The theorems.                                                           *)
(***************************************************************************)
\* The parties of a run only stop when the output does not fit the socket
\* buffers, and then all of them are in the loop of sends of GossipSend.
THEOREM OnlyGossipSticks == BlockingSpec => []SticksOnlyInGossip
<1>1. BlockingInv => SticksOnlyInGossip
  <2> SUFFICES ASSUME BlockingInv, Stuck
               PROVE  gossip > BufferSize /\ \A p \in Party : SendsOutput(p)
    BY DEF SticksOnlyInGossip
  <2>1. PICK pos \in [Party -> Nat] : Placed(pos)
    BY DEF BlockingInv
  <2>2. TypeOK /\ EachStands(pos) /\ InSendLoop(pos)
    BY <2>1 DEF BlockingInv, Placed
  <2>3. gossip > BufferSize /\ N > 1
    BY <2>1, <2>2, SomeoneSends
  <2>4. ASSUME NEW p \in Party PROVE SendsOutput(p)
    <3>1. PICK g \in Nat :
            /\ g = GatherSlot /\ EndSlot = g + 2 * N /\ N \in Nat
            /\ \A q \in Party : PutSlot(q) = g + q /\ GetSlot(q) = g + N + q /\ q \in Nat
      BY GatherFacts, PartyFacts
    <3>2. g <= pos[p] /\ pos[p] < g + N /\ pos[p] \in Nat
      BY <2>1, <2>2, <2>3, <3>1, AllGather DEF InSendLoop
    <3>3. Stands(todo[p], p, gossip, pos[p]) /\ pos[p] # EndSlot
      BY <2>2, <3>1, <3>2 DEF EachStands
    <3>4. pos[p] \in CallSlots(p)
      BY <3>3 DEF Stands
    <3>5. PICK q \in Party \ {p} : pos[p] = PutSlot(q) \/ pos[p] = GetSlot(q)
      BY <3>1, <3>2, <3>4, GatherSlots
    <3>6. pos[p] = PutSlot(q)
      BY <3>1, <3>2, <3>5
    <3>7. CallAt("put", p, q, gossip, pos[p])
      BY <3>1, <3>2, <3>6, GatherCalls
    <3>8. At(p, "put", q)
      BY <2>2, <3>7, HeadCall
    <3>9. Len(todo[p]) \in N .. 2 * (N - 1)
      BY <2>3, <3>1, <3>2, <3>3, CallsLeft
    <3> QED
      BY <3>8, <3>9 DEF SendsOutput
  <2> QED
    BY <2>3, <2>4
<1> QED
  BY <1>1, BlockingInvariant, PTL

\* A run whose output does not fit the buffers is for ever before the reads of the
\* gathering: each party has a send of that loop to make, so nobody is ever done.
LongOutputSticks ==
  N > 1 /\ gossip > BufferSize => ~AllDone /\ \A p \in Party : Len(todo[p]) >= N

\* What the run of EveryRunEnds shows of one instance holds of all: with two parties
\* or more, whatever the circuit, the buffers and the order of events, a run whose
\* output does not fit the buffers does not end (participant.cxx, the loop of
\* GossipSend before that of GossipReceive).
THEOREM LongOutputsStick == BlockingSpec => []LongOutputSticks
<1>1. BlockingInv => LongOutputSticks
  <2> SUFFICES ASSUME BlockingInv, N > 1, gossip > BufferSize
               PROVE  ~AllDone /\ \A p \in Party : Len(todo[p]) >= N
    BY DEF LongOutputSticks
  <2>1. PICK pos \in [Party -> Nat] : EachStands(pos) /\ InSendLoop(pos)
    BY DEF BlockingInv, Placed
  <2>2. gossip \in Nat /\ BufferSize \in Nat /\ N \in Nat
    BY SizeFacts, PartyFacts DEF BlockingInv, TypeOK
  <2>3. ASSUME NEW p \in Party PROVE Len(todo[p]) >= N
    <3>1. pos[p] < GatherSlot + N /\ Stands(todo[p], p, gossip, pos[p])
      BY <2>1 DEF InSendLoop, EachStands
    <3>2. Len(todo[p]) \in Nat /\ N <= Len(todo[p])
      BY <3>1, CallsLeft
    <3> QED
      BY <2>2, <3>2
  <2>4. ~AllDone
    <3>1. 0 \in Party
      BY <2>2 DEF Party
    <3>2. Len(todo[0]) >= N
      BY <2>3, <3>1
    <3>3. Len(<<>>) = 0
      OBVIOUS
    <3>4. ~(0 >= N)
      BY <2>2
    <3>5. todo[0] # <<>>
      BY <3>2, <3>3, <3>4
    <3> QED
      BY <3>1, <3>5 DEF AllDone
  <2> QED
    BY <2>3, <2>4
<1> QED
  BY <1>1, BlockingInvariant, PTL
=============================================================================
