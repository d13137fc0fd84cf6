---------------------------- MODULE BytesProofs -----------------------------
(***************************************************************************)
(* Theorems about the bytes of the protocol.                               *)
(*                                                                         *)
(* Messages, for every set of strings and keys, size of a byte, a size_t   *)
(* and a block, and number of options: what deserialize reads is what      *)
(* serialize wrote, and it never reads past the end.  The positions at which *)
(* the strings of a message start are where the reader stands before it    *)
(* reads them, the words in front of them are their lengths, and decryption *)
(* undoes encryption.                                                      *)
(*                                                                         *)
(* KeyBlocks, for every group whose order is a prime, length of a block and *)
(* number of options: the receiver's key is that of the option it chose and *)
(* of no other.  Encoding loses nothing but leading zeros, which padding   *)
(* puts back, so the keys are powers of G; and those are equal only if     *)
(* their exponents are modulo the order.                                   *)
(***************************************************************************)
EXTENDS Messages, KeyBlocks, Group, Basics

LEMMA ByteFacts ==
  /\ Base \in Nat /\ Base > 11 /\ SizeT \in Nat /\ SizeT > 0
  /\ BlockSize \in Nat /\ BlockSize > 0 /\ BlockSize < Base
  /\ MaxOptions \in Nat /\ MaxOptions < WordPower[SizeT]
  /\ \A k \in Keys : k \in Byte
  BY BytesAssumption DEF Byte

LEMMA WordPowers == Powers(WordPower, Base, SizeT)
  BY ByteFacts, RecursivePowers DEF WordPower

LEMMA WordPowerFacts ==
  /\ WordPower[0] = 1
  /\ \A k \in 0 .. SizeT : WordPower[k] \in Nat /\ WordPower[k] > 0
  /\ \A k \in 1 .. SizeT : WordPower[k] = WordPower[k-1] * Base
  BY WordPowers DEF Powers

\* How one more digit adds to the number.
LEMMA DigitStep ==
  ASSUME NEW z \in Nat, NEW d \in Nat, d > 0, NEW m \in Nat, m > 0
  PROVE  z % (d * m) = (z % d) + ((z \div d) % m) * d
<1>1. PICK q \in Nat, r \in Nat : q = z \div d /\ r = z % d /\ r < d /\ q * d + r = z
  BY Division
<1>2. PICK p \in Nat, t \in Nat : p = q \div m /\ t = q % m /\ t < m /\ p * m + t = q
  BY Division
<1>3. PICK c \in Nat, u \in Nat : c = d * m /\ c > 0 /\ u = r + t * d
  BY <1>1, <1>2
<1>4. z = c * p + u
  BY <1>1, <1>2, <1>3
<1>5. u < c
  <2>1. PICK y \in Nat : m = t + 1 + y
    BY <1>2
  <2>2. c = t * d + d + y * d /\ y * d \in Nat /\ t * d \in Nat
    BY <1>3, <2>1
  <2> QED
    BY <1>1, <1>3, <2>2
<1>6. z % c = u
  <2>1. Leaves(z, c, p, u)
    BY <1>3, <1>4, <1>5 DEF Leaves
  <2> QED
    BY <2>1, Remainder
<1> QED
  BY <1>1, <1>2, <1>3, <1>6

LEMMA Words ==
  ASSUME NEW z \in Nat
  PROVE  /\ Word(z) \in Seq(Byte) /\ Len(Word(z)) = SizeT
         /\ \A k \in 1 .. SizeT : Word(z)[k] = (z \div WordPower[k-1]) % Base /\ Word(z)[k] \in Byte
<1>0. SizeT \in Nat
  BY ByteFacts
<1>1. ASSUME NEW k \in 1 .. SizeT PROVE (z \div WordPower[k-1]) % Base \in Byte
  <2>1. k - 1 \in 0 .. SizeT
    BY <1>0
  <2>2. PICK d \in Nat : d = WordPower[k-1] /\ d > 0
    BY <2>1, WordPowerFacts
  <2>3. PICK q \in Nat : q = z \div d
    BY <2>2, Division
  <2>4. q % Base \in 0 .. Base-1
    BY ByteFacts
  <2> QED
    BY <2>2, <2>3, <2>4 DEF Byte
<1>2. PICK l \in Nat : l = SizeT
  BY ByteFacts
<1>3. Word(z) \in [1 .. l -> Byte] /\ \A k \in 1 .. l : Word(z)[k] = (z \div WordPower[k-1]) % Base
  BY <1>1, <1>2 DEF Word
<1>4. Word(z) \in Seq(Byte) /\ Len(Word(z)) = l
  BY <1>3
<1> QED
  BY <1>1, <1>2, <1>3, <1>4

\* get_string reads back the length that put_string wrote.
LEMMA ReadWord ==
  ASSUME NEW z \in Nat, z < WordPower[SizeT], NEW i \in Nat,
         \A k \in 1 .. SizeT : ByteAt(i + k) = Word(z)[k]
  PROVE  WordAt(i) = z
<1>0. SizeT \in Nat /\ SizeT \in 0 .. SizeT
  BY ByteFacts
<1> DEFINE F(f) == [k \in 0 .. SizeT |->
                      IF k = 0 THEN 0 ELSE f[k-1] + ByteAt(i + k) * WordPower[k-1]]
           g == CHOOSE f : f = F(f)
           v == [k \in 0 .. SizeT |-> z % WordPower[k]]
<1>1. ASSUME NEW k \in 1 .. SizeT
      PROVE  z % WordPower[k] = (z % WordPower[k-1]) + ByteAt(i + k) * WordPower[k-1]
  <2>1. k - 1 \in 0 .. SizeT
    BY <1>0
  <2>2. PICK d \in Nat : d = WordPower[k-1] /\ d > 0 /\ WordPower[k] = d * Base
    BY <2>1, WordPowerFacts
  <2>3. z % (d * Base) = (z % d) + ((z \div d) % Base) * d
    <3>1. Base \in Nat /\ Base > 0
      BY ByteFacts
    <3> QED
      BY <2>2, <3>1, DigitStep
  <2>4. ByteAt(i + k) = (z \div d) % Base
    BY <2>2, Words
  <2> QED
    BY <2>2, <2>3, <2>4
<1>2. z % WordPower[0] = 0
  <2>1. z = 1 * z + 0
    OBVIOUS
  <2>2. Leaves(z, 1, z, 0)
    BY <2>1 DEF Leaves
  <2>3. z % 1 = 0
    BY <2>2, Remainder
  <2> QED
    BY <2>3, WordPowerFacts
<1>3. v = F(v)
  <2>1. ASSUME NEW k \in 0 .. SizeT PROVE v[k] = F(v)[k]
    <3>1. CASE k = 0
      BY <1>2, <3>1
    <3>2. CASE k # 0
      <4>1. k \in 1 .. SizeT /\ k - 1 \in 0 .. SizeT
        BY <1>0, <3>2
      <4>2. v[k] = v[k-1] + ByteAt(i + k) * WordPower[k-1]
        BY <1>1, <4>1
      <4> QED
        BY <3>2, <4>2
    <3> QED
      BY <3>1, <3>2
  <2> HIDE DEF F
  <2>2. v = [k \in 0 .. SizeT |-> v[k]] /\ F(v) = [k \in 0 .. SizeT |-> F(v)[k]]
    BY DEF F
  <2> HIDE DEF v
  <2> QED
    BY <2>1, <2>2
<1>4. g = F(g)
  <2> HIDE DEF F, v
  <2> QED
    BY <1>3
<1>5. WordAt(i) = g[SizeT]
  BY DEF WordAt
<1> HIDE DEF g
<1> DEFINE S == {k \in 0 .. SizeT : g[k] = v[k]}
<1>6. 0 \in S
  <2>1. 0 \in 0 .. SizeT /\ v[0] = 0
    BY <1>0, <1>2
  <2>2. g[0] = 0
    <3> HIDE DEF v
    <3> QED
      BY <1>4, <2>1
  <2> HIDE DEF v
  <2> QED
    BY <2>1, <2>2
<1>7. ASSUME NEW k \in 0 .. SizeT-1, k \in S PROVE k + 1 \in S
  <2>1. k + 1 \in 1 .. SizeT /\ k + 1 \in 0 .. SizeT /\ k \in 0 .. SizeT /\ (k + 1) - 1 = k /\ k + 1 # 0
    BY <1>0
  <2>2. g[k+1] = g[k] + ByteAt(i + (k + 1)) * WordPower[k]
    <3> HIDE DEF v, S
    <3> QED
      BY <1>4, <2>1
  <2>3. v[k+1] = v[k] + ByteAt(i + (k + 1)) * WordPower[k]
    BY <1>1, <2>1
  <2> HIDE DEF v
  <2> QED
    BY <1>7, <2>1, <2>2, <2>3
<1>8. SizeT \in S
  <2> HIDE DEF S
  <2> QED
    BY <1>0, <1>6, <1>7, BoundedInduction
<1>9. v[SizeT] = z
  <2>1. PICK d \in Nat : d = WordPower[SizeT] /\ d > 0
    BY <1>0, WordPowerFacts
  <2>2. z = d * 0 + z
    BY <2>1
  <2>3. z % d = z
    <3>1. Leaves(z, d, 0, z)
      BY <2>1, <2>2 DEF Leaves
    <3> QED
      BY <3>1, Remainder
  <2> QED
    BY <1>0, <2>1, <2>3
<1> QED
  <2> HIDE DEF v
  <2> QED
    BY <1>5, <1>8, <1>9

-----------------------------------------------------------------------------
(***************************************************************************)
(* Where the parts of a message are.                                       *)
(***************************************************************************)
LEMMA TypeFacts ==
  /\ DOMAIN TypeByte = {"HMACTagged_Wrapper", "DHPublicValue", "SenderPublic", "ReceiverPublic",
                        "EncryptedValues", "InitialShare", "FinalGossip"}
  /\ \A t, u \in DOMAIN TypeByte : TypeByte[t] \in Byte /\ (TypeByte[t] = TypeByte[u] => t = u)
<1>1. DOMAIN TypeByte = {"HMACTagged_Wrapper", "DHPublicValue", "SenderPublic", "ReceiverPublic",
                         "EncryptedValues", "InitialShare", "FinalGossip"}
  BY DEF TypeByte
<1>2. /\ TypeByte["HMACTagged_Wrapper"] = 1 /\ TypeByte["DHPublicValue"] = 2
      /\ TypeByte["SenderPublic"] = 3 /\ TypeByte["ReceiverPublic"] = 4
      /\ TypeByte["EncryptedValues"] = 5 /\ TypeByte["InitialShare"] = 10
      /\ TypeByte["FinalGossip"] = 11
  BY DEF TypeByte
<1>3. ASSUME NEW t \in DOMAIN TypeByte PROVE TypeByte[t] \in Byte
  BY <1>1, <1>2, ByteFacts DEF Byte
<1>4. ASSUME NEW t \in DOMAIN TypeByte, NEW u \in DOMAIN TypeByte, TypeByte[t] = TypeByte[u]
      PROVE  t = u
  BY <1>1, <1>2, <1>4
<1> QED
  BY <1>1, <1>3, <1>4

LEMMA MessageFacts ==
  ASSUME NEW m \in Message
  PROVE  /\ m = [type |-> m.type, fields |-> m.fields]
         /\ m.type \in DOMAIN TypeByte \ {"HMACTagged_Wrapper"}
         /\ m.fields \in Seq(Texts)
         /\ m.type # "EncryptedValues" => Len(m.fields) = 1
         /\ m.type = "EncryptedValues" => \E k \in 0 .. MaxOptions : Len(m.fields) = k + k
<1>1. ASSUME NEW t, t \in DOMAIN TypeByte \ {"HMACTagged_Wrapper", "EncryptedValues"}, m \in OneString(t)
      PROVE  /\ m = [type |-> m.type, fields |-> m.fields]
             /\ m.type = t
             /\ m.fields \in Seq(Texts) /\ Len(m.fields) = 1
  <2>1. PICK s \in Texts : m = [type |-> t, fields |-> <<s>>]
    BY <1>1 DEF OneString
  <2>2. <<s>> \in Seq(Texts) /\ Len(<<s>>) = 1
    OBVIOUS
  <2> QED
    BY <2>1, <2>2
<1>2. CASE m \in EncryptedValues
  <2>0. PICK k \in 0 .. MaxOptions :
          \E ss \in [1 .. 2 * k -> Texts] : m = [type |-> "EncryptedValues", fields |-> ss]
    BY <1>2 DEF EncryptedValues
  <2>1. PICK ss \in [1 .. 2 * k -> Texts] : m = [type |-> "EncryptedValues", fields |-> ss]
    BY <2>0
  <2>2. PICK c \in Nat : c = 2 * k /\ c = k + k
    BY ByteFacts
  <2>3. ss \in Seq(Texts) /\ Len(ss) = c
    BY <2>1, <2>2
  <2> QED
    BY <2>1, <2>2, <2>3, TypeFacts
<1> QED
  BY <1>1, <1>2, TypeFacts DEF Message, PublicValue, OTPublicValue, ShareOrGossip

LEMMA Wider ==
  ASSUME NEW S, NEW T, S \subseteq T, NEW s \in Seq(S)
  PROVE  s \in Seq(T)
<1>1. PICK l \in Nat : l = Len(s) /\ s \in [1 .. l -> S]
  BY LenProperties
<1>2. s \in [1 .. l -> T]
  BY <1>1
<1> QED
  BY <1>2

\* What stands where when one sequence follows another.
Follows(w, c, d) ==
  /\ Len(w) = Len(c) + Len(d)
  /\ \A i \in 1 .. Len(c) : w[i] = c[i]
  /\ \A i \in 1 .. Len(d) : w[Len(c) + i] = d[i]

LEMMA Concat ==
  ASSUME NEW T, NEW c \in Seq(T), NEW d \in Seq(T)
  PROVE  c \o d \in Seq(T) /\ Follows(c \o d, c, d)
<1>1. PICK w \in Seq(T), l \in Nat, k \in Nat :
        /\ w = c \o d /\ l = Len(c) /\ k = Len(d) /\ Len(w) = l + k
        /\ \A i \in 1 .. l + k : w[i] = IF i <= l THEN c[i] ELSE d[i - l]
  <2>1. PICK l \in Nat, k \in Nat : l = Len(c) /\ k = Len(d)
    BY LenProperties
  <2>2. /\ c \o d \in Seq(T) /\ Len(c \o d) = l + k
        /\ \A i \in 1 .. l + k : (c \o d)[i] = IF i <= l THEN c[i] ELSE d[i - l]
    BY <2>1, ConcatProperties
  <2> QED
    BY <2>1, <2>2
<1>2. ASSUME NEW i \in 1 .. l PROVE w[i] = c[i]
  <2>1. i \in 1 .. l + k /\ i <= l
    OBVIOUS
  <2> QED
    BY <1>1, <2>1
<1>3. ASSUME NEW i \in 1 .. k PROVE w[l + i] = d[i]
  <2>1. l + i \in 1 .. l + k /\ ~ (l + i <= l) /\ (l + i) - l = i
    OBVIOUS
  <2> QED
    BY <1>1, <2>1
<1> QED
  BY <1>1, <1>2, <1>3 DEF Follows

Pieces(X) == [i \in DOMAIN X.fields |-> PutString(X.fields[i])]
Count(X) == IF X.type = "EncryptedValues" THEN Word(Len(X.fields) \div 2) ELSE <<>>

\* In what is written for X, string g and its length take up the places after e[g-1],
\* up to e[g].
Laid(X, e) ==
  /\ e \in [0 .. Len(X.fields) -> Nat] /\ e[0] = 1 + Len(Count(X))
  /\ \A g \in 1 .. Len(X.fields) : e[g] = (e[g-1] + SizeT) + Len(X.fields[g])
  /\ \A g \in 0 .. Len(X.fields) : e[g] >= 1 /\ e[g] <= Len(Serialize(X))
  /\ e[Len(X.fields)] = Len(Serialize(X))
  /\ Serialize(X)[1] = TypeByte[X.type]
  /\ \A i \in 1 .. Len(Count(X)) : Serialize(X)[1 + i] = Count(X)[i]
  /\ \A g \in 1 .. Len(X.fields) :
       /\ \A i \in 1 .. SizeT : Serialize(X)[e[g-1] + i] = Word(Len(X.fields[g]))[i]
       /\ \A i \in 1 .. Len(X.fields[g]) :
            Serialize(X)[(e[g-1] + SizeT) + i] = X.fields[g][i]

\* The head of a message: its type and the count, of l bytes.
IsHead(h, X, l) ==
  /\ h = <<TypeByte[X.type]>> \o Count(X)
  /\ l = Len(Count(X)) /\ Len(h) = 1 + l
  /\ h[1] = TypeByte[X.type] /\ \A i \in 1 .. l : h[1 + i] = Count(X)[i]

LEMMA Heads ==
  ASSUME NEW T, Byte \subseteq T, NEW X, X.type \in DOMAIN TypeByte, X.fields \in Seq(Seq(T))
  PROVE  \E h \in Seq(T), l \in Nat : IsHead(h, X, l)
<1>1. PICK c \in Seq(T), l \in Nat : c = Count(X) /\ l = Len(c)
  <2>1. CASE X.type = "EncryptedValues"
    <3>1. PICK z \in Nat : z = Len(X.fields) \div 2
      <4>1. PICK l \in Nat : l = Len(X.fields)
        BY LenProperties
      <4>2. l \div 2 \in Nat
        OBVIOUS
      <4> QED
        BY <4>1, <4>2
    <3>2. Word(z) \in Seq(T) /\ Len(Word(z)) \in Nat
      <4>1. Word(z) \in Seq(Byte) /\ Len(Word(z)) \in Nat
        BY Words, ByteFacts
      <4> QED
        BY <4>1, Wider
    <3> QED
      BY <2>1, <3>1, <3>2 DEF Count
  <2>2. CASE X.type # "EncryptedValues"
    <3>1. <<>> \in Seq(T) /\ Len(<<>>) = 0
      OBVIOUS
    <3> QED
      BY <2>2, <3>1 DEF Count
  <2> QED
    BY <2>1, <2>2
<1>2. PICK t \in Seq(T) : t = <<TypeByte[X.type]>> /\ Len(t) = 1 /\ t[1] = TypeByte[X.type]
  <2>1. PICK v \in T : v = TypeByte[X.type]
    BY TypeFacts
  <2>2. <<v>> \in Seq(T) /\ Len(<<v>>) = 1 /\ <<v>>[1] = v
    OBVIOUS
  <2> QED
    BY <2>1, <2>2
<1>3. PICK h \in Seq(T) : h = t \o c /\ Follows(h, t, c)
  BY Concat
<1>4. /\ Len(h) = 1 + l /\ h[1] = TypeByte[X.type]
      /\ \A i \in 1 .. l : h[1 + i] = c[i]
  BY <1>1, <1>2, <1>3 DEF Follows
<1>5. IsHead(h, X, l)
  BY <1>1, <1>2, <1>3, <1>4, Zenon DEF IsHead
<1> QED
  BY <1>5

\* One piece.
LEMMA Piece ==
  ASSUME NEW T, Byte \subseteq T, NEW s \in Seq(T)
  PROVE  /\ PutString(s) \in Seq(T) /\ Len(PutString(s)) = SizeT + Len(s)
         /\ \A i \in 1 .. SizeT : PutString(s)[i] = Word(Len(s))[i]
         /\ \A i \in 1 .. Len(s) : PutString(s)[SizeT + i] = s[i]
<1>1. Len(s) \in Nat
  BY LenProperties
<1>2. Word(Len(s)) \in Seq(Byte) /\ Len(Word(Len(s))) = SizeT
  BY <1>1, Words
<1>3. PICK w \in Seq(T) : w = Word(Len(s)) /\ Len(w) = SizeT
  BY <1>2, Wider
<1>4. w \o s \in Seq(T) /\ Follows(w \o s, w, s)
  BY Concat
<1> QED
  BY <1>3, <1>4 DEF Follows, PutString

LEMMA Layout ==
  ASSUME NEW T, Byte \subseteq T, NEW X, X.type \in DOMAIN TypeByte, X.fields \in Seq(Seq(T))
  PROVE  Serialize(X) \in Seq(T) /\ \E e : Laid(X, e)
<1>1. PICK fs \in Seq(Seq(T)), l \in Nat :
        fs = X.fields /\ l = Len(fs) /\ \A g \in 1 .. l : fs[g] \in Seq(T) /\ Len(fs[g]) \in Nat
  <2>1. PICK fs \in Seq(Seq(T)), l \in Nat : fs = X.fields /\ l = Len(fs)
    BY LenProperties
  <2>2. \A g \in 1 .. l : fs[g] \in Seq(T)
    BY <2>1
  <2>3. \A g \in 1 .. l : Len(fs[g]) \in Nat
    BY <2>2, LenProperties
  <2> QED
    BY <2>1, <2>2, <2>3
<1>2. PICK s \in Seq(Seq(T)) :
        /\ s = Pieces(X) /\ Len(s) = l
        /\ \A g \in 1 .. l :
             /\ Len(s[g]) = SizeT + Len(fs[g])
             /\ \A i \in 1 .. SizeT : s[g][i] = Word(Len(fs[g]))[i]
             /\ \A i \in 1 .. Len(fs[g]) : s[g][SizeT + i] = fs[g][i]
  <2>1. Pieces(X) = [g \in 1 .. l |-> PutString(fs[g])]
    BY <1>1 DEF Pieces
  <2>2. \A g \in 1 .. l : PutString(fs[g]) \in Seq(T)
    BY <1>1, Piece
  <2>3. Pieces(X) \in Seq(Seq(T)) /\ Len(Pieces(X)) = l
    BY <2>1, <2>2
  <2>4. PICK s \in Seq(Seq(T)) :
          s = Pieces(X) /\ Len(s) = l /\ \A g \in 1 .. l : s[g] = PutString(fs[g])
    BY <2>1, <2>3
  <2>5. ASSUME NEW g \in 1 .. l
        PROVE  /\ Len(s[g]) = SizeT + Len(fs[g])
               /\ \A i \in 1 .. SizeT : s[g][i] = Word(Len(fs[g]))[i]
               /\ \A i \in 1 .. Len(fs[g]) : s[g][SizeT + i] = fs[g][i]
    <3>1. PICK f \in Seq(T) : f = fs[g] /\ s[g] = PutString(f)
      BY <1>1, <2>4
    <3> QED
      BY <3>1, Piece
  <2> QED
    BY <2>4, <2>5
<1>3. PICK h \in Seq(T), p \in Nat : IsHead(h, X, p)
  BY Heads
<1>4. PICK c \in Nat : c = 1 + p /\ c >= 1
  OBVIOUS
<1>5. /\ h = <<TypeByte[X.type]>> \o Count(X) /\ Len(h) = c
      /\ p = Len(Count(X)) /\ h[1] = TypeByte[X.type]
      /\ \A i \in 1 .. p : h[1 + i] = Count(X)[i]
  BY <1>3, <1>4 DEF IsHead
<1>6. PICK t \in Nat : t = SizeT
  BY ByteFacts
<1>7. PICK w \in Seq(T) : w = FlattenSeq(s) /\ \E d : EndsOfPieces(d, s)
  BY FlattenPieces
<1>8. PICK d : EndsOfPieces(d, s)
  BY <1>7
<1>9. PICK x \in Seq(T) : x = Serialize(X) /\ x = h \o w /\ Follows(x, h, w)
  <2>1. Serialize(X) = (<<TypeByte[X.type]>> \o Count(X)) \o FlattenSeq(Pieces(X))
    BY DEF Serialize, Pieces, Count
  <2>2. h \o w \in Seq(T) /\ Follows(h \o w, h, w)
    BY Concat
  <2> QED
    BY <1>2, <1>5, <1>7, <2>1, <2>2
<1>10. /\ d \in [0 .. l -> Nat] /\ d[0] = 0 /\ d[l] = Len(w)
       /\ \A g \in 1 .. l : d[g] = d[g-1] + Len(s[g])
       /\ \A g \in 0 .. l : d[g] <= d[l]
       /\ \A g \in 1 .. l : \A i \in 1 .. Len(s[g]) : w[d[g-1] + i] = s[g][i]
  BY <1>2, <1>7, <1>8 DEF EndsOfPieces
<1>11. PICK e \in [0 .. l -> Nat] : \A g \in 0 .. l : e[g] = c + d[g]
  <2>1. \A g \in 0 .. l : c + d[g] \in Nat
    BY <1>10
  <2>2. [g \in 0 .. l |-> c + d[g]] \in [0 .. l -> Nat]
    BY <2>1
  <2> QED
    BY <2>2
<1>12. e[0] = 1 + Len(Count(X))
  <2>1. 0 \in 0 .. l
    OBVIOUS
  <2> QED
    BY <1>4, <1>5, <1>10, <1>11, <2>1
<1>13. \A g \in 1 .. l : Len(s[g]) = t + Len(fs[g])
  BY <1>2, <1>6
<1>14. \A g \in 1 .. l : g \in 0 .. l /\ g - 1 \in 0 .. l
  OBVIOUS
<1>15. ASSUME NEW g \in 1 .. l PROVE e[g] = (e[g-1] + SizeT) + Len(fs[g])
  <2>1. PICK y \in Nat, z \in Nat : y = d[g-1] /\ z = Len(fs[g])
    BY <1>1, <1>10, <1>14
  <2>2. d[g] = y + (t + z)
    BY <1>10, <1>13, <2>1
  <2>3. e[g] = c + (y + (t + z)) /\ e[g-1] = c + y
    BY <1>11, <1>14, <2>1, <2>2
  <2>4. e[g] = (e[g-1] + t) + z
    BY <2>3
  <2> QED
    BY <1>6, <2>1, <2>4
<1>16. Len(x) = c + d[l]
  BY <1>5, <1>9, <1>10 DEF Follows
<1>17. ASSUME NEW g \in 0 .. l PROVE e[g] >= 1 /\ e[g] <= Len(x)
  <2>0. l \in 0 .. l /\ d[l] \in Nat
    BY <1>10
  <2>1. PICK y \in Nat, z \in Nat : y = d[g] /\ z = d[l]
    BY <1>10, <2>0
  <2>2. e[g] = c + y /\ Len(x) = c + z /\ y <= z
    BY <1>10, <1>11, <1>16, <2>1
  <2>3. c + y >= 1 /\ c + y <= c + z
    <3>1. c >= 1 /\ y <= z
      BY <1>4, <2>2
    <3> QED
      BY <3>1
  <2> QED
    BY <2>2, <2>3
<1>18. e[l] = Len(x)
  <2>1. l \in 0 .. l
    OBVIOUS
  <2> QED
    BY <1>11, <1>16, <2>1
<1>19. /\ x[1] = TypeByte[X.type]
       /\ \A i \in 1 .. Len(Count(X)) : x[1 + i] = Count(X)[i]
  <2>1. \A i \in 1 .. c : x[i] = h[i]
    BY <1>5, <1>9 DEF Follows
  <2>2. 1 \in 1 .. c /\ \A i \in 1 .. p : 1 + i \in 1 .. c
    BY <1>4
  <2> QED
    BY <1>5, <2>1, <2>2
<1>20. ASSUME NEW g \in 1 .. l, NEW i \in Nat, i \in 1 .. Len(s[g])
       PROVE  x[e[g-1] + i] = s[g][i]
  <2>1. PICK y \in Nat : y = d[g-1] /\ e[g-1] = c + y
    BY <1>10, <1>11, <1>14
  <2>2. PICK u \in Nat : u = Len(s[g]) /\ i \in 1 .. u
    <3>1. Len(s[g]) \in Nat
      BY <1>1, <1>13
    <3> QED
      BY <1>20, <3>1
  <2>3. w[y + i] = s[g][i]
    BY <1>10, <1>20, <2>1
  <2>4. y + i \in 1 .. Len(w)
    <3>1. PICK z \in Nat, v \in Nat : z = d[g] /\ v = d[l] /\ Len(w) = v /\ z <= v
      <4>1. l \in 0 .. l
        OBVIOUS
      <4>2. d[g] \in Nat /\ d[l] \in Nat /\ d[g] <= d[l]
        BY <1>10, <1>14, <4>1
      <4> QED
        BY <1>10, <4>2
    <3>2. z = y + u
      BY <1>10, <2>1, <2>2, <3>1
    <3>3. i >= 1 /\ i <= u
      BY <2>2
    <3>4. y + i >= 1 /\ y + i <= v
      BY <3>1, <3>2, <3>3
    <3> QED
      BY <3>1, <3>4
  <2>5. x[c + (y + i)] = w[y + i]
    BY <1>5, <1>9, <2>4 DEF Follows
  <2>6. e[g-1] + i = c + (y + i)
    BY <2>1
  <2> QED
    BY <2>3, <2>5, <2>6
<1>21. ASSUME NEW g \in 1 .. l, NEW i \in 1 .. SizeT
       PROVE  x[e[g-1] + i] = Word(Len(fs[g]))[i]
  <2>1. PICK y \in Nat : y = Len(fs[g]) /\ Len(s[g]) = t + y
    BY <1>1, <1>13
  <2>2. i \in Nat /\ i \in 1 .. Len(s[g])
    BY <1>6, <2>1
  <2>3. s[g][i] = Word(Len(fs[g]))[i]
    BY <1>2
  <2> QED
    BY <1>20, <2>2, <2>3
<1>22. ASSUME NEW g \in 1 .. l, NEW i \in 1 .. Len(fs[g])
       PROVE  x[(e[g-1] + SizeT) + i] = fs[g][i]
  <2>1. PICK y \in Nat : y = Len(fs[g]) /\ Len(s[g]) = t + y
    BY <1>1, <1>13
  <2>2. i \in 1 .. y
    BY <2>1
  <2>3. t + i \in Nat /\ t + i \in 1 .. Len(s[g])
    BY <2>1, <2>2
  <2>4. x[e[g-1] + (t + i)] = s[g][t + i]
    BY <1>20, <2>3
  <2>5. s[g][t + i] = fs[g][i]
    BY <1>2, <1>6
  <2>6. PICK v \in Nat : v = e[g-1]
    BY <1>11, <1>14
  <2>7. v + (t + i) = (v + t) + i
    BY <2>2
  <2> QED
    BY <1>6, <2>4, <2>5, <2>6, <2>7
<1>23. Laid(X, e)
  <2>1. X.fields = fs /\ Serialize(X) = x /\ Len(fs) = l
    BY <1>1, <1>9
  <2>2. /\ e \in [0 .. Len(X.fields) -> Nat] /\ e[0] = 1 + Len(Count(X))
        /\ \A g \in 1 .. Len(X.fields) : e[g] = (e[g-1] + SizeT) + Len(X.fields[g])
    BY <1>12, <1>15, <2>1
  <2>3. /\ \A g \in 0 .. Len(X.fields) : e[g] >= 1 /\ e[g] <= Len(Serialize(X))
        /\ e[Len(X.fields)] = Len(Serialize(X))
    BY <1>17, <1>18, <2>1
  <2>4. \A g \in 1 .. Len(X.fields) :
          /\ \A i \in 1 .. SizeT : Serialize(X)[e[g-1] + i] = Word(Len(X.fields[g]))[i]
          /\ \A i \in 1 .. Len(X.fields[g]) :
               Serialize(X)[(e[g-1] + SizeT) + i] = X.fields[g][i]
    BY <1>21, <1>22, <2>1
  <2>5. /\ Serialize(X)[1] = TypeByte[X.type]
        /\ \A i \in 1 .. Len(Count(X)) : Serialize(X)[1 + i] = Count(X)[i]
    BY <1>19, <2>1
  <2> QED
    BY <2>2, <2>3, <2>4, <2>5 DEF Laid
<1> QED
  BY <1>9, <1>23

-----------------------------------------------------------------------------
(***************************************************************************)
(* What can be read back.                                                  *)
(***************************************************************************)
\* X has the strings its type says, and their lengths are size_ts.
Shaped(X) ==
  /\ X.type \in DOMAIN TypeByte
  /\ \A g \in 1 .. Len(X.fields) : Len(X.fields[g]) < WordPower[SizeT]
  /\ X.type = "HMACTagged_Wrapper" => Len(X.fields) = 3
  /\ X.type = "EncryptedValues" =>
       \E c \in Nat : c < WordPower[SizeT] /\ Len(X.fields) = c + c
  /\ X.type \notin {"HMACTagged_Wrapper", "EncryptedValues"} => Len(X.fields) = 1

Readable(X) ==
  /\ Shaped(X) /\ \E e : Laid(X, e)
  /\ \E T : Byte \subseteq T /\ X.fields \in Seq(Seq(T)) /\ Serialize(X) \in Seq(T)

LEMMA Readables ==
  ASSUME NEW T, Byte \subseteq T, NEW X, X.fields \in Seq(Seq(T)), Shaped(X)
  PROVE  Readable(X) /\ Serialize(X) \in Seq(T)
<1>1. Serialize(X) \in Seq(T) /\ \E e : Laid(X, e)
  BY Layout DEF Shaped
<1> QED
  BY <1>1 DEF Readable

LEMMA MessagesReadable ==
  ASSUME NEW m \in Message
  PROVE  Readable(m) /\ Serialize(m) \in Seq(Byte)
<1>1. m.fields \in Seq(Seq(Byte))
  BY MessageFacts, BytesAssumption, Wider
<1>2. PICK l \in Nat : l = Len(m.fields) /\ \A g \in 1 .. l : m.fields[g] \in Seq(Byte)
  BY <1>1, LenProperties
<1>3. Serialize(m) \in Seq(Byte) /\ \E e : Laid(m, e)
  BY <1>1, Layout, MessageFacts
<1>4. PICK w \in Nat, s \in Nat : w = WordPower[SizeT] /\ s = Len(Serialize(m)) /\ s < w
  <2>1. PICK s \in Nat : s = Len(Serialize(m))
    BY <1>3, LenProperties
  <2>2. SizeT \in 0 .. SizeT
    BY ByteFacts
  <2>3. PICK w \in Nat : w = WordPower[SizeT]
    BY <2>2, WordPowerFacts
  <2>4. s + BlockSize < w
    BY <2>1, <2>3, SizesFit
  <2> QED
    BY <2>1, <2>3, <2>4, ByteFacts
<1>5. ASSUME NEW g \in 1 .. l PROVE Len(m.fields[g]) < WordPower[SizeT]
  <2>1. PICK e : Laid(m, e)
    BY <1>3
  <2>2. g \in 0 .. l /\ g - 1 \in 0 .. l
    OBVIOUS
  <2>3. PICK y \in Nat, z \in Nat, v \in Nat, t \in Nat :
          y = e[g-1] /\ z = e[g] /\ v = Len(m.fields[g]) /\ t = SizeT
    <3>1. e[g-1] \in Nat /\ e[g] \in Nat
      BY <1>2, <2>1, <2>2 DEF Laid
    <3>2. Len(m.fields[g]) \in Nat /\ SizeT \in Nat
      BY <1>2, LenProperties, ByteFacts
    <3> QED
      BY <3>1, <3>2
  <2>4. z = (y + t) + v /\ z <= s
    BY <1>2, <1>4, <2>1, <2>2, <2>3 DEF Laid
  <2>5. v <= s
    BY <2>4
  <2>6. v < w
    BY <1>4, <2>5
  <2> QED
    BY <1>4, <2>3, <2>6
<1>6. m.type = "EncryptedValues" =>
        \E c \in Nat : c < WordPower[SizeT] /\ Len(m.fields) = c + c
  <2>1. SUFFICES ASSUME m.type = "EncryptedValues"
                 PROVE  \E c \in Nat : c < WordPower[SizeT] /\ Len(m.fields) = c + c
    OBVIOUS
  <2>2. PICK c \in 0 .. MaxOptions : Len(m.fields) = c + c
    BY <2>1, MessageFacts
  <2>3. c \in Nat /\ c <= MaxOptions /\ MaxOptions < w /\ MaxOptions \in Nat
    BY <1>4, ByteFacts
  <2>4. c < w
    BY <2>3
  <2> QED
    BY <1>4, <2>2, <2>3, <2>4
<1>7. Shaped(m)
  BY <1>2, <1>5, <1>6, MessageFacts DEF Shaped
<1> QED
  BY <1>1, <1>3, <1>7, Readables

-----------------------------------------------------------------------------
(***************************************************************************)
(* Encryption.                                                             *)
(***************************************************************************)
LEMMA Subtracted ==
  ASSUME NEW x \in Byte, NEW y \in Byte, NEW z \in Byte
  PROVE  (x + y + z) % Base \in Byte /\ (((x + y + z) % Base) - y - z) % Base = x
<1>1. PICK d \in Nat : d = Base /\ d > 0
  BY ByteFacts
<1>2. x \in Nat /\ y \in Nat /\ z \in Nat /\ x < d
  BY <1>1 DEF Byte
<1>3. PICK q \in Int, r \in Nat : r = (x + y + z) % d /\ r < d /\ x + y + z = d * q + r
  <2>1. PICK u \in Int : u = x + y + z
    BY <1>2
  <2>2. PICK q \in Int, r \in Nat : r = u % d /\ r < d /\ u = d * q + r
    BY <1>1, IntDivision
  <2> QED
    BY <2>1, <2>2
<1>4. PICK w \in Int, p \in Int : w = r - y - z /\ p = -q
  BY <1>2
<1>5. Leaves(w, d, p, x)
  <2>1. d * (-q) = -(d * q)
    BY <1>1
  <2>2. w = d * p + x
    BY <1>2, <1>3, <1>4, <2>1
  <2> QED
    BY <1>1, <1>2, <2>2 DEF Leaves
<1>6. w % d = x
  BY <1>5, Remainder
<1>7. r \in Byte
  BY <1>1, <1>3 DEF Byte
<1> QED
  BY <1>1, <1>3, <1>4, <1>6, <1>7

LEMMA Paddings ==
  ASSUME NEW s \in Seq(Byte)
  PROVE  \E k \in 1 .. BlockSize : /\ Padding(s) \in Seq(Byte) /\ Len(Padding(s)) = k
                                   /\ Padding(s)[k] = k
<1>1. PICK l \in Nat, d \in Nat : l = Len(s) /\ d = BlockSize /\ d > 0 /\ d < Base
  BY LenProperties, ByteFacts
<1>2. PICK r \in Nat : r = l % d /\ r < d
  BY <1>1
<1>3. PICK k \in 1 .. d : k = d - (l % d)
  <2>1. d - r \in 1 .. d
    BY <1>1, <1>2
  <2> QED
    BY <1>2, <2>1
<1>4. Padding(s) = [i \in 1 .. k |-> k]
  BY <1>1, <1>3 DEF Padding
<1>5. k \in Nat /\ k \in Byte
  BY <1>1, ByteFacts DEF Byte
<1>6. [i \in 1 .. k |-> k] \in Seq(Byte) /\ Len([i \in 1 .. k |-> k]) = k /\ k \in 1 .. k
  BY <1>5
<1> QED
  BY <1>1, <1>4, <1>6

LEMMA Ciphers ==
  ASSUME NEW secret \in Byte, NEW iv \in [1 .. BlockSize -> Byte], NEW s \in Seq(Byte)
  PROVE  /\ AESEncrypt(secret, iv, s) \in Seq(Byte)
         /\ \E k \in 1 .. BlockSize : Len(AESEncrypt(secret, iv, s)) = Len(s) + k
         /\ AESDecrypt(secret, iv, AESEncrypt(secret, iv, s)) = s
<1>1. PICK k \in 1 .. BlockSize, pad \in Seq(Byte) : pad = Padding(s) /\ Len(pad) = k /\ pad[k] = k
  BY Paddings
<1>2. PICK l \in Nat, t \in Nat : l = Len(s) /\ t = l + k /\ k \in Nat /\ k > 0
  BY LenProperties, ByteFacts
<1>3. PICK p \in Seq(Byte) :
        /\ p = s \o pad /\ Len(p) = t /\ p[t] = k
        /\ \A i \in 1 .. l : p[i] = s[i]
  <2>1. s \o pad \in Seq(Byte) /\ Follows(s \o pad, s, pad)
    BY Concat
  <2>2. k \in 1 .. k
    BY <1>2
  <2> QED
    BY <1>1, <1>2, <2>1, <2>2 DEF Follows
<1>4. DOMAIN p = 1 .. t /\ \A i \in 1 .. t : p[i] \in Byte
  BY <1>3
<1>5. ASSUME NEW i \in 1 .. t PROVE iv[((i-1) % BlockSize) + 1] \in Byte
  <2>1. PICK d \in Nat : d = BlockSize /\ d > 0
    BY ByteFacts
  <2>2. (i - 1) % d \in 0 .. d-1
    BY <2>1
  <2>3. ((i - 1) % d) + 1 \in 1 .. d
    BY <2>1, <2>2
  <2> QED
    BY <2>1, <2>3
<1>6. PICK c \in Seq(Byte) :
        /\ c = AESEncrypt(secret, iv, s) /\ Len(c) = t /\ DOMAIN c = 1 .. t
        /\ \A i \in 1 .. t : c[i] = (p[i] + secret + iv[((i-1) % BlockSize) + 1]) % Base
  <2>1. AESEncrypt(secret, iv, s)
          = [i \in 1 .. t |-> (p[i] + secret + iv[((i-1) % BlockSize) + 1]) % Base]
    BY <1>1, <1>3, <1>4 DEF AESEncrypt
  <2>2. \A i \in 1 .. t : (p[i] + secret + iv[((i-1) % BlockSize) + 1]) % Base \in Byte
    BY <1>4, <1>5, Subtracted
  <2>3. AESEncrypt(secret, iv, s) \in [1 .. t -> Byte]
    BY <2>1, <2>2
  <2>4. AESEncrypt(secret, iv, s) \in Seq(Byte) /\ Len(AESEncrypt(secret, iv, s)) = t
    BY <1>2, <2>3
  <2> QED
    BY <2>1, <2>3, <2>4
<1>7. [i \in DOMAIN c |-> (c[i] - secret - iv[((i-1) % BlockSize) + 1]) % Base] = p
  <2>1. ASSUME NEW i \in 1 .. t
        PROVE  (c[i] - secret - iv[((i-1) % BlockSize) + 1]) % Base = p[i]
    <3>1. PICK x \in Byte, v \in Byte : x = p[i] /\ v = iv[((i-1) % BlockSize) + 1]
      BY <1>4, <1>5
    <3>2. c[i] = (x + secret + v) % Base
      BY <1>6, <3>1
    <3> QED
      BY <3>1, <3>2, Subtracted
  <2>2. p = [i \in 1 .. t |-> p[i]]
    BY <1>4
  <2> QED
    BY <1>6, <2>1, <2>2
<1>8. AESDecrypt(secret, iv, c) = SubSeq(p, 1, t - k)
  BY <1>3, <1>7 DEF AESDecrypt
<1>9. SubSeq(p, 1, l) = s
  <2>1. SubSeq(p, 1, l) = [i \in 1 .. l |-> p[i]]
    BY <1>2, <1>3
  <2>2. [i \in 1 .. l |-> p[i]] = [i \in 1 .. l |-> s[i]]
    BY <1>3
  <2>3. s = [i \in 1 .. l |-> s[i]]
    BY <1>2
  <2> QED
    BY <2>1, <2>2, <2>3
<1>10. t - k = l
  BY <1>2
<1> QED
  BY <1>2, <1>6, <1>8, <1>9, <1>10

\* The wrapper of a message.
Ivs == [1 .. BlockSize -> {0, Base-1}]
Sealed(secret, iv, m) ==
  LET c == AESEncrypt(secret, iv, Serialize(m)) IN Wrapper(c, iv, HMAC(secret, iv \o c))

LEMMA SealedFacts ==
  ASSUME NEW m \in Message, NEW secret \in Keys, NEW iv \in Ivs
  PROVE  /\ Readable(Sealed(secret, iv, m))
         /\ Sealed(secret, iv, m).type = "HMACTagged_Wrapper"
         /\ \E c, mac : /\ Sealed(secret, iv, m).fields = <<c, iv, mac>>
                        /\ c = AESEncrypt(secret, iv, Serialize(m))
                        /\ mac = HMAC(secret, iv \o c)
                        /\ AESDecrypt(secret, iv, c) = Serialize(m)
<1>1. PICK s \in Seq(Byte), l \in Nat, w \in Nat :
        /\ s = Serialize(m) /\ l = Len(s) /\ w = WordPower[SizeT] /\ l + BlockSize < w
  <2>1. PICK s \in Seq(Byte), l \in Nat : s = Serialize(m) /\ l = Len(s)
    BY MessagesReadable, LenProperties
  <2>2. SizeT \in 0 .. SizeT
    BY ByteFacts
  <2>3. PICK w \in Nat : w = WordPower[SizeT]
    BY <2>2, WordPowerFacts
  <2>4. l + BlockSize < w
    BY <2>1, <2>3, SizesFit
  <2> QED
    BY <2>1, <2>3, <2>4
<1>2. PICK z \in Nat : z = BlockSize /\ z > 0 /\ l + z < w
  BY <1>1, ByteFacts
<1>3. secret \in Byte /\ iv \in [1 .. BlockSize -> Byte] /\ iv \in Seq(Byte) /\ Len(iv) = z
  <2>1. 0 \in Byte /\ Base - 1 \in Byte
    BY ByteFacts DEF Byte
  <2>2. iv \in [1 .. BlockSize -> Byte]
    BY <2>1 DEF Ivs
  <2>3. iv \in Seq(Byte) /\ Len(iv) = z
    BY <1>2, <2>2
  <2> QED
    BY <2>2, <2>3, ByteFacts
<1>4. PICK c \in Seq(Byte) :
        /\ c = AESEncrypt(secret, iv, s) /\ AESDecrypt(secret, iv, c) = s
        /\ \E k \in 1 .. BlockSize : Len(c) = l + k
  BY <1>1, <1>3, Ciphers
<1>5. Len(c) < w
  <2>1. PICK k \in 1 .. z : Len(c) = l + k
    BY <1>2, <1>4
  <2> QED
    BY <1>2, <2>1
<1>6. PICK mac, x : mac = HMAC(secret, iv \o c) /\ mac = <<x>>
  BY DEF HMAC
<1>7. PICK T : T = Byte \cup {x}
  OBVIOUS
<1>8. mac \in Seq(T) /\ Len(mac) = 1
  BY <1>6, <1>7
<1>9. c \in Seq(T) /\ iv \in Seq(T)
  <2>1. Byte \subseteq T
    BY <1>7
  <2> QED
    BY <1>3, <2>1, Wider
<1>10. PICK X : X = Sealed(secret, iv, m) /\ X = Wrapper(c, iv, mac)
  BY <1>1, <1>4, <1>6 DEF Sealed
<1>11. X.type = "HMACTagged_Wrapper" /\ X.fields = <<c, iv, mac>>
  BY <1>10 DEF Wrapper
<1>12. X.fields \in Seq(Seq(T)) /\ Len(X.fields) = 3
  <2>1. <<c, iv, mac>> \in Seq(Seq(T)) /\ Len(<<c, iv, mac>>) = 3
    BY <1>8, <1>9
  <2> QED
    BY <1>11, <2>1
<1>13. \A g \in 1 .. 3 : Len(X.fields[g]) < w
  <2>1. X.fields[1] = c /\ X.fields[2] = iv /\ X.fields[3] = mac
    BY <1>11
  <2>2. z < w /\ 1 < w
    BY <1>2
  <2>3. \A g \in 1 .. 3 : g = 1 \/ g = 2 \/ g = 3
    OBVIOUS
  <2> QED
    BY <1>3, <1>5, <1>8, <2>1, <2>2, <2>3
<1>14. Shaped(X)
  BY <1>1, <1>11, <1>12, <1>13, TypeFacts DEF Shaped
<1>15. Readable(X)
  <2>1. Byte \subseteq T
    BY <1>7
  <2> QED
    BY <1>12, <1>14, <2>1, Readables
<1> QED
  BY <1>1, <1>4, <1>6, <1>10, <1>11, <1>15

-----------------------------------------------------------------------------
(***************************************************************************)
(* Reading, one string at a time.                                          *)
(***************************************************************************)
\* The first j strings of X have been read.
ReadSome(X, e, j) ==
  /\ Laid(X, e) /\ j \in 0 .. Len(X.fields)
  /\ n = e[j] /\ left = Len(X.fields) - j /\ fields = SubSeq(X.fields, 1, j)
Reading(X) == data = Serialize(X) /\ \E e, j : ReadSome(X, e, j)

\* What is where in a sequence.
LEMMA Places ==
  ASSUME NEW T, NEW s \in Seq(T)
  PROVE  \A i \in 1 .. Len(s) : i \in DOMAIN s
  OBVIOUS

\* The next string of X, of length z, is where the reader is.
NextIs(X, e, j, z) ==
  /\ z = Len(X.fields[j+1]) /\ WordAt(n) = z
  /\ j + 1 \in 1 .. Len(X.fields) /\ e[j+1] = (n + SizeT) + z /\ e[j+1] <= Len(data)
  /\ [i \in 1 .. z |-> ByteAt((n + SizeT) + i)] = X.fields[j+1]

LEMMA NextString ==
  ASSUME NEW X, Readable(X), data = Serialize(X), NEW e, NEW j, ReadSome(X, e, j), left > 0
  PROVE  \E z \in Nat : NextIs(X, e, j, z)
<1>1. PICK T : X.fields \in Seq(Seq(T)) /\ data \in Seq(T)
  BY DEF Readable
<1>2. PICK l \in Nat, c \in Nat, t \in Nat :
        l = Len(X.fields) /\ c = Len(data) /\ t = SizeT /\ t > 0
  BY <1>1, LenProperties, ByteFacts
<1>3. j \in Nat /\ j \in 0 .. l-1 /\ j \in 0 .. l /\ j + 1 \in 1 .. l /\ j + 1 \in 0 .. l /\ (j + 1) - 1 = j
  BY <1>2 DEF ReadSome
<1>4. PICK f \in Seq(T), z \in Nat : f = X.fields[j+1] /\ z = Len(f)
  BY <1>1, <1>2, <1>3, LenProperties
<1>5. z < WordPower[SizeT]
  BY <1>2, <1>3, <1>4 DEF Readable, Shaped
<1>6. /\ e \in [0 .. l -> Nat] /\ n = e[j]
      /\ \A g \in 1 .. l : e[g] = (e[g-1] + SizeT) + Len(X.fields[g])
      /\ \A g \in 0 .. l : e[g] >= 1 /\ e[g] <= c
      /\ \A g \in 1 .. l :
           /\ \A i \in 1 .. SizeT : data[e[g-1] + i] = Word(Len(X.fields[g]))[i]
           /\ \A i \in 1 .. Len(X.fields[g]) :
                data[(e[g-1] + SizeT) + i] = X.fields[g][i]
  BY <1>2 DEF ReadSome, Laid
<1>7. n \in Nat /\ e[j+1] = (n + t) + z /\ e[j+1] <= c /\ n >= 1
  BY <1>2, <1>3, <1>4, <1>6
<1>8. \A i \in 1 .. c : ByteAt(i) = data[i]
  BY <1>1, <1>2, Places DEF ByteAt
<1>9. \A i \in 1 .. SizeT : ByteAt(n + i) = Word(z)[i]
  <2>1. ASSUME NEW i \in 1 .. t PROVE ByteAt(n + i) = Word(z)[i]
    <3>1. n + i \in 1 .. c
      BY <1>7
    <3>2. data[n + i] = Word(z)[i]
      BY <1>2, <1>3, <1>4, <1>6
    <3> QED
      BY <1>8, <3>1, <3>2
  <2> QED
    BY <1>2, <2>1
<1>10. WordAt(n) = z
  BY <1>5, <1>7, <1>9, ReadWord
<1>11. \A i \in 1 .. z : ByteAt((n + SizeT) + i) = f[i]
  <2>1. ASSUME NEW i \in 1 .. z PROVE ByteAt((n + SizeT) + i) = f[i]
    <3>1. (n + t) + i \in 1 .. c
      BY <1>7
    <3>2. data[(n + SizeT) + i] = f[i]
      BY <1>3, <1>4, <1>6
    <3> QED
      BY <1>2, <1>8, <3>1, <3>2
  <2> QED
    BY <2>1
<1>12. [i \in 1 .. z |-> ByteAt((n + SizeT) + i)] = f
  <2>1. f = [i \in 1 .. z |-> f[i]]
    BY <1>4
  <2> QED
    BY <1>11, <2>1
<1> QED
  BY <1>2, <1>3, <1>4, <1>7, <1>10, <1>12 DEF NextIs

LEMMA Longer ==
  ASSUME NEW T, NEW s \in Seq(T), NEW j \in 0 .. Len(s)-1
  PROVE  Append(SubSeq(s, 1, j), s[j+1]) = SubSeq(s, 1, j+1)
<1>1. PICK l \in Nat : l = Len(s) /\ j \in 0 .. l-1
  BY LenProperties
<1>2. SubSeq(s, 1, j) = [i \in 1 .. j |-> s[i]] /\ SubSeq(s, 1, j+1) = [i \in 1 .. j+1 |-> s[i]]
  BY <1>1
<1>3. \A i \in 1 .. j+1 : s[i] \in T
  BY <1>1
<1>4. PICK c \in Seq(T), d \in Seq(T) :
        /\ c = [i \in 1 .. j |-> s[i]] /\ Len(c) = j /\ d = [i \in 1 .. j+1 |-> s[i]] /\ Len(d) = j + 1
  <2>0. PICK k \in Nat : k = j + 1 /\ j \in Nat
    BY <1>1
  <2>1. [i \in 1 .. j |-> s[i]] \in [1 .. j -> T] /\ [i \in 1 .. k |-> s[i]] \in [1 .. k -> T]
    BY <1>1, <1>3, <2>0
  <2>2. /\ [i \in 1 .. j |-> s[i]] \in Seq(T) /\ Len([i \in 1 .. j |-> s[i]]) = j
        /\ [i \in 1 .. k |-> s[i]] \in Seq(T) /\ Len([i \in 1 .. k |-> s[i]]) = k
    BY <2>0, <2>1
  <2> QED
    BY <2>0, <2>2
<1>5. PICK x \in T : x = s[j+1]
  BY <1>1, <1>3
<1>6. Append(c, x) \in Seq(T) /\ Len(Append(c, x)) = j + 1
  BY <1>4
<1>7. \A i \in 1 .. j+1 : Append(c, x)[i] = d[i]
  BY <1>1, <1>4, <1>5
<1>8. Append(c, x) = d
  BY <1>4, <1>6, <1>7, SeqEqual
<1> QED
  BY <1>2, <1>4, <1>5, <1>8

LEMMA StringStep ==
  ASSUME NEW X, Readable(X), Reading(X), GetString
  PROVE  Reading(X)'
<1>1. PICK e, j : ReadSome(X, e, j)
  BY DEF Reading
<1>2. left > 0 /\ data = Serialize(X)
  BY DEF Reading, GetString
<1>3. \E z \in Nat : NextIs(X, e, j, z)
  BY ONLY Readable(X), <1>1, <1>2, NextString
<1>4. PICK z \in Nat :
        /\ WordAt(n) = z /\ j + 1 \in 1 .. Len(X.fields) /\ e[j+1] = (n + SizeT) + z
        /\ [i \in 1 .. z |-> ByteAt((n + SizeT) + i)] = X.fields[j+1]
  BY <1>3 DEF NextIs
<1>5. PICK T : X.fields \in Seq(Seq(T))
  BY DEF Readable
<1>6. PICK l \in Nat : l = Len(X.fields)
  BY <1>5, LenProperties
<1>7. j \in 0 .. l /\ j \in Nat /\ j + 1 \in 0 .. l /\ j \in 0 .. l-1
  BY <1>1, <1>4, <1>6 DEF ReadSome
<1>8. n' = e[j+1]
  BY <1>4 DEF GetString
<1>9. left' = l - (j + 1)
  <2>1. left = l - j /\ left' = left - 1
    BY <1>1, <1>6 DEF ReadSome, GetString
  <2> QED
    BY <1>7, <2>1
<1>10. fields' = SubSeq(X.fields, 1, j+1)
  <2>1. fields' = Append(SubSeq(X.fields, 1, j), X.fields[j+1])
    BY <1>1, <1>4 DEF ReadSome, GetString
  <2> QED
    BY <1>5, <1>6, <1>7, <2>1, Longer
<1>11. ReadSome(X, e, j+1)'
  BY <1>1, <1>6, <1>7, <1>8, <1>9, <1>10 DEF ReadSome
<1>12. data' = Serialize(X)
  BY <1>2 DEF GetString
<1> QED
  BY <1>11, <1>12 DEF Reading

\* The assertions compare types.
LEMMA FirstByte ==
  ASSUME NEW X, Readable(X), data = Serialize(X)
  PROVE  ByteAt(1) = TypeByte[X.type]
<1>1. PICK T, e : data \in Seq(T) /\ X.fields \in Seq(Seq(T)) /\ Laid(X, e)
  BY DEF Readable
<1>2. PICK l \in Nat, c \in Nat : l = Len(X.fields) /\ c = Len(data)
  BY <1>1, LenProperties
<1>3. e[0] >= 1 /\ e[0] <= c /\ e[0] \in Nat
  BY <1>1, <1>2 DEF Laid
<1>4. 1 \in DOMAIN data
  <2>1. 1 \in 1 .. c
    BY <1>3
  <2> QED
    BY <1>1, <1>2, <2>1
<1>5. data[1] = TypeByte[X.type]
  BY <1>1 DEF Laid
<1> QED
  BY <1>4, <1>5 DEF ByteAt

LEMMA TypeStep ==
  ASSUME NEW X, Readable(X), data = Serialize(X), X.type = Target, fields = <<>>, n = 0, GetType
  PROVE  Reading(X)' /\ stage' = stage
<1>1. ByteAt(1) = TypeByte[Target]
  BY FirstByte
<1>2. stage' = stage /\ fields' = <<>> /\ data' = Serialize(X)
  BY <1>1 DEF GetType
<1>3. PICK T, e : data \in Seq(T) /\ X.fields \in Seq(Seq(T)) /\ Laid(X, e)
  BY DEF Readable
<1>4. PICK l \in Nat, c \in Nat : l = Len(X.fields) /\ c = Len(data) /\ 0 \in 0 .. l
  BY <1>3, LenProperties
<1>5. e[0] = 1 + Len(Count(X)) /\ e[0] <= c /\ \A i \in 1 .. Len(Count(X)) : data[1 + i] = Count(X)[i]
  BY <1>3, <1>4 DEF Laid
<1>6. n' = e[0] /\ left' = l
  <2>1. CASE Target = "EncryptedValues"
    <3>1. PICK k \in Nat : k < WordPower[SizeT] /\ l = k + k
      BY <1>4, <2>1 DEF Readable, Shaped
    <3>2. l \div 2 = k
      BY <3>1
    <3>3. Count(X) = Word(k) /\ Len(Count(X)) = SizeT
      BY <1>4, <2>1, <3>2, Words DEF Count
    <3>4. ASSUME NEW i \in 1 .. SizeT PROVE ByteAt(1 + i) = Word(k)[i]
      <4>1. PICK t \in Nat : t = SizeT
        BY ByteFacts
      <4>2. 1 + i \in 1 .. c /\ data[1 + i] = Word(k)[i]
        BY <1>5, <3>3, <4>1
      <4> QED
        BY <1>3, <1>4, <4>2, Places DEF ByteAt
    <3>5. WordAt(1) = k
      BY <3>1, <3>4, ReadWord
    <3>6. n' = 1 + SizeT /\ left' = 2 * WordAt(1)
      BY <1>1, <2>1 DEF GetType
    <3>7. 2 * k = l
      BY <3>1
    <3> QED
      BY <1>5, <3>3, <3>5, <3>6, <3>7
  <2>2. CASE Target # "EncryptedValues"
    <3>1. Len(Count(X)) = 0
      BY <2>2 DEF Count
    <3>2. n' = 1
      BY <1>1, <2>2 DEF GetType
    <3>3. left' = l
      BY <1>1, <1>4, <2>2 DEF GetType, Readable, Shaped
    <3> QED
      BY <1>5, <3>1, <3>2, <3>3
  <2> QED
    BY <2>1, <2>2
<1>7. SubSeq(X.fields, 1, 0) = <<>>
  BY <1>3
<1>8. ReadSome(X, e, 0)'
  BY <1>2, <1>3, <1>4, <1>6, <1>7 DEF ReadSome
<1> QED
  BY <1>2, <1>8 DEF Reading

\* Where the reader is, and all it has when no string is left.
LEMMA ReadingFacts ==
  ASSUME NEW X, Readable(X), Reading(X)
  PROVE  /\ n \in Nat /\ n >= 1 /\ n <= Len(data)
         /\ left = 0 => fields = X.fields /\ n = Len(data)
<1>1. PICK e, j : ReadSome(X, e, j)
  BY DEF Reading
<1>2. PICK T : X.fields \in Seq(Seq(T)) /\ Serialize(X) \in Seq(T)
  BY DEF Readable
<1>3. PICK l \in Nat, c \in Nat : l = Len(X.fields) /\ c = Len(data) /\ data = Serialize(X)
  BY <1>2, LenProperties DEF Reading
<1>4. /\ e \in [0 .. l -> Nat] /\ n = e[j] /\ j \in 0 .. l /\ left = l - j
      /\ \A g \in 0 .. l : e[g] >= 1 /\ e[g] <= c
      /\ e[l] = c /\ fields = SubSeq(X.fields, 1, j)
  BY <1>1, <1>3 DEF ReadSome, Laid
<1>5. ASSUME left = 0 PROVE fields = X.fields /\ n = c
  <2>1. j = l
    BY <1>4, <1>5
  <2>2. SubSeq(X.fields, 1, l) = X.fields
    BY <1>2, <1>3
  <2> QED
    BY <1>4, <2>1, <2>2
<1> QED
  BY <1>3, <1>4, <1>5

-----------------------------------------------------------------------------
(***************************************************************************)
(* The invariant.                                                          *)
(***************************************************************************)
AtStart == n = 0 /\ left = 0 /\ fields = <<>>

\* How far the reader is with message m, whose wrapper is X.
InWrapper(m, X) ==
  /\ stage = "wrapper" /\ expected # "DHPublicValue"
  /\ \/ AtStart /\ m.type = "DHPublicValue" /\ data = Serialize(m)
     \/ AtStart /\ m.type # "DHPublicValue" /\ data = Serialize(X)
     \/ m.type # "DHPublicValue" /\ Reading(X)
InMessage(m, X) ==
  /\ stage = "message" /\ verified
  /\ \/ AtStart /\ data = Serialize(m)
     \/ AtStart /\ data = Serialize(X) /\ expected = "DHPublicValue" /\ m.type # "DHPublicValue"
     \/ expected = m.type /\ Reading(m)
AtReturn(m) ==
  /\ stage = "returned" /\ verified /\ expected = m.type
  /\ fields = m.fields /\ left = 0 /\ n = Len(data)
AtAbort(m) == stage = "aborted" /\ AtStart /\ expected # m.type

Phase(m, X) ==
  /\ data \in {Serialize(m), Serialize(X)}
  /\ InWrapper(m, X) \/ InMessage(m, X) \/ AtReturn(m) \/ AtAbort(m)

MessagesInv ==
  /\ message \in Message /\ key \in Keys
  /\ expected \in DOMAIN TypeByte \ {"HMACTagged_Wrapper"}
  /\ \E iv \in Ivs : Phase(message, Sealed(key, iv, message))

LEMMA MessagesStart == MessagesInit => MessagesInv
<1> SUFFICES ASSUME MessagesInit PROVE MessagesInv
  OBVIOUS
<1>1. PICK m, secret : m = message /\ secret = key
  OBVIOUS
<1>2. m \in Message /\ secret \in Keys /\ AtStart
  BY <1>1 DEF MessagesInit, AtStart
<1>3. PICK iv \in Ivs :
        data = IF m.type = "DHPublicValue" THEN Serialize(m) ELSE EncryptAndTag(secret, iv, m)
  BY <1>1 DEF MessagesInit, Ivs
<1>4. PICK X : X = Sealed(secret, iv, m) /\ EncryptAndTag(secret, iv, m) = Serialize(X)
  BY DEF Sealed, EncryptAndTag
<1>5. data = IF m.type = "DHPublicValue" THEN Serialize(m) ELSE Serialize(X)
  BY <1>3, <1>4
<1>6. verified = (expected = "DHPublicValue") /\ stage = IF verified THEN "message" ELSE "wrapper"
  BY DEF MessagesInit
<1>7. Phase(m, X)
  <2>1. CASE expected = "DHPublicValue"
    BY <1>2, <1>5, <1>6, <2>1 DEF Phase, InMessage
  <2>2. CASE expected # "DHPublicValue"
    BY <1>2, <1>5, <1>6, <2>2 DEF Phase, InWrapper
  <2> QED
    BY <2>1, <2>2
<1> QED
  BY <1>1, <1>2, <1>4, <1>7 DEF MessagesInv, MessagesInit

\* Another type than the one the reader wants.
LEMMA Refused ==
  ASSUME NEW X, Readable(X), data = Serialize(X), X.type # Target,
         expected \in DOMAIN TypeByte, GetType
  PROVE  stage' = "aborted" /\ UNCHANGED <<n, left, message, key, expected, data, fields, verified>>
<1>1. ByteAt(1) = TypeByte[X.type]
  BY FirstByte
<1>2. Target \in DOMAIN TypeByte /\ X.type \in DOMAIN TypeByte
  BY TypeFacts DEF Target, Readable, Shaped
<1>3. ByteAt(1) # TypeByte[Target]
  BY <1>1, <1>2, TypeFacts
<1> QED
  BY <1>3 DEF GetType

LEMMA PhaseStep ==
  ASSUME NEW m, NEW X, NEW secret, NEW c, NEW iv, NEW mac,
         Readable(m), Readable(X), m.type # "HMACTagged_Wrapper", X.type = "HMACTagged_Wrapper",
         X.fields = <<c, iv, mac>>, mac = HMAC(secret, iv \o c),
         AESDecrypt(secret, iv, c) = Serialize(m),
         key = secret, expected \in DOMAIN TypeByte \ {"HMACTagged_Wrapper"},
         Phase(m, X), [MessagesNext]_messagesVars
  PROVE  Phase(m, X)' /\ UNCHANGED <<message, key, expected>>
<1>0. UNCHANGED <<message, key, expected>>
  BY DEF MessagesNext, messagesVars, GetType, GetString, DecryptAndVerify, Return
<1>1. CASE GetType
  <2>1. stage \in {"wrapper", "message"} /\ n = 0 /\ data' = data /\ fields' = fields /\ verified' = verified
    BY <1>1 DEF GetType
  <2>2. ~ Reading(X) /\ ~ Reading(m)
    BY <2>1, ReadingFacts
  <2>3. CASE stage = "wrapper"
    <3>1. Target = "HMACTagged_Wrapper" /\ AtStart /\ expected # "DHPublicValue"
      BY <2>2, <2>3 DEF Target, Phase, InWrapper, InMessage, AtReturn, AtAbort
    <3>2. CASE m.type = "DHPublicValue" /\ data = Serialize(m)
      <4>1. stage' = "aborted" /\ UNCHANGED <<n, left, expected, data, fields>>
        BY <1>1, <3>1, <3>2, Refused
      <4> QED
        BY <1>0, <3>1, <3>2, <4>1 DEF Phase, AtAbort, AtStart
    <3>3. CASE m.type # "DHPublicValue" /\ data = Serialize(X)
      <4>1. Reading(X)' /\ stage' = stage
        BY <1>1, <2>1, <3>1, <3>3, TypeStep DEF AtStart
      <4> QED
        BY <1>0, <2>1, <2>3, <3>1, <3>3, <4>1 DEF Phase, InWrapper
    <3> QED
      BY <2>2, <2>3, <3>2, <3>3 DEF Phase, InWrapper, InMessage, AtReturn, AtAbort
  <2>4. CASE stage = "message"
    <3>1. Target = expected /\ AtStart /\ verified
      BY <2>2, <2>4 DEF Target, Phase, InWrapper, InMessage, AtReturn, AtAbort
    <3>2. CASE data = Serialize(m) /\ expected = m.type
      <4>1. Reading(m)' /\ stage' = stage
        BY <1>1, <2>1, <3>1, <3>2, TypeStep DEF AtStart
      <4> QED
        BY <1>0, <2>1, <2>4, <3>1, <3>2, <4>1 DEF Phase, InMessage
    <3>3. CASE data = Serialize(m) /\ expected # m.type
      <4>1. stage' = "aborted" /\ UNCHANGED <<n, left, expected, data, fields>>
        BY <1>1, <3>1, <3>3, Refused
      <4> QED
        BY <1>0, <3>1, <3>3, <4>1 DEF Phase, AtAbort, AtStart
    <3>4. CASE data = Serialize(X) /\ expected = "DHPublicValue" /\ m.type # "DHPublicValue"
      <4>1. stage' = "aborted" /\ UNCHANGED <<n, left, expected, data, fields>>
        BY <1>1, <3>1, <3>4, Refused
      <4> QED
        BY <1>0, <3>1, <3>4, <4>1 DEF Phase, AtAbort, AtStart
    <3> QED
      BY <2>2, <2>4, <3>2, <3>3, <3>4 DEF Phase, InWrapper, InMessage, AtReturn, AtAbort
  <2> QED
    BY <2>1, <2>3, <2>4
<1>2. CASE GetString
  <2>1. n > 0 /\ left > 0 /\ data' = data /\ stage' = stage /\ verified' = verified
    BY <1>2 DEF GetString
  <2>2. ~ AtStart /\ left # 0
    BY <2>1 DEF AtStart
  <2>3. CASE stage = "wrapper" /\ m.type # "DHPublicValue" /\ Reading(X) /\ expected # "DHPublicValue"
    <3>1. Reading(X)'
      BY <1>2, <2>3, StringStep
    <3> QED
      BY <1>0, <2>1, <2>3, <3>1 DEF Phase, InWrapper
  <2>4. CASE stage = "message" /\ verified /\ expected = m.type /\ Reading(m)
    <3>1. Reading(m)'
      BY <1>2, <2>4, StringStep
    <3> QED
      BY <1>0, <2>1, <2>4, <3>1 DEF Phase, InMessage
  <2> QED
    BY <2>2, <2>3, <2>4 DEF Phase, InWrapper, InMessage, AtReturn, AtAbort
<1>3. CASE DecryptAndVerify
  <2>1. stage = "wrapper" /\ n > 0 /\ left = 0
    BY <1>3 DEF DecryptAndVerify
  <2>2. Reading(X)
    BY <2>1 DEF Phase, InWrapper, InMessage, AtReturn, AtAbort, AtStart
  <2>3. fields[1] = c /\ fields[2] = iv /\ fields[3] = mac
    BY <2>1, <2>2, ReadingFacts
  <2>4. verified' /\ data' = Serialize(m) /\ stage' = "message" /\ AtStart'
    BY <1>3, <2>3 DEF DecryptAndVerify, Open, AtStart
  <2>5. InMessage(m, X)'
    BY <2>4 DEF InMessage
  <2>6. data' \in {Serialize(m), Serialize(X)}
    BY <2>4
  <2> QED
    BY <1>0, <2>5, <2>6 DEF Phase
<1>4. CASE Return
  <2>1. stage = "message" /\ n > 0 /\ left = 0
    BY <1>4 DEF Return
  <2>2. Reading(m) /\ verified /\ expected = m.type
    BY <2>1 DEF Phase, InWrapper, InMessage, AtReturn, AtAbort, AtStart
  <2>3. fields = m.fields /\ n = Len(data)
    BY <2>1, <2>2, ReadingFacts
  <2>4. stage' = "returned" /\ UNCHANGED <<expected, data, n, left, fields, verified>>
    BY <1>4 DEF Return
  <2>5. AtReturn(m)'
    BY <2>1, <2>2, <2>3, <2>4 DEF AtReturn
  <2>6. data' \in {Serialize(m), Serialize(X)}
    BY <2>4 DEF Phase
  <2> QED
    BY <1>0, <2>5, <2>6 DEF Phase
<1>5. CASE UNCHANGED messagesVars
  BY <1>5 DEF messagesVars, Phase, InWrapper, InMessage, AtReturn, AtAbort, AtStart,
              Reading, ReadSome
<1> QED
  BY <1>0, <1>1, <1>2, <1>3, <1>4, <1>5 DEF MessagesNext

LEMMA MessagesStep == MessagesInv /\ [MessagesNext]_messagesVars => MessagesInv'
<1> SUFFICES ASSUME MessagesInv, [MessagesNext]_messagesVars PROVE MessagesInv'
  OBVIOUS
<1>1. PICK m \in Message, secret \in Keys, iv \in Ivs :
        m = message /\ secret = key /\ Phase(m, Sealed(secret, iv, m))
  BY DEF MessagesInv
<1>2. PICK X : X = Sealed(secret, iv, m)
  OBVIOUS
<1>3. PICK c, mac : /\ X.fields = <<c, iv, mac>> /\ mac = HMAC(secret, iv \o c)
                    /\ AESDecrypt(secret, iv, c) = Serialize(m)
                    /\ Readable(X) /\ X.type = "HMACTagged_Wrapper"
  BY <1>2, SealedFacts
<1>4. Readable(m) /\ m.type # "HMACTagged_Wrapper"
  BY MessagesReadable, MessageFacts
<1>5. Phase(m, X)' /\ UNCHANGED <<message, key, expected>>
  BY <1>1, <1>2, <1>3, <1>4, PhaseStep DEF MessagesInv
<1> QED
  BY <1>1, <1>2, <1>5 DEF MessagesInv

THEOREM MessagesRead == MessagesSpec => []MessagesInv
<1>1. MessagesInit => MessagesInv
  BY MessagesStart
<1>2. MessagesInv /\ [MessagesNext]_messagesVars => MessagesInv'
  BY MessagesStep
<1> QED
  BY <1>1, <1>2, PTL DEF MessagesSpec

\* Whatever the strings and keys, and however many options, a message is read back as
\* it was, to its last byte and with a valid tag, or it was not the expected one.
THEOREM MessagesRoundTrip == MessagesSpec => []RoundTrip
<1>1. ASSUME MessagesInv PROVE RoundTrip
  <2>1. PICK m, X : m \in Message /\ m = message /\ Phase(m, X)
    BY <1>1 DEF MessagesInv
  <2>2. m = [type |-> m.type, fields |-> m.fields]
    BY <2>1, MessageFacts
  <2> QED
    BY <2>1, <2>2 DEF RoundTrip, Phase, InWrapper, InMessage, AtReturn, AtAbort
<1> QED
  BY <1>1, MessagesRead, PTL

\* Nothing beyond the end of a message is read, whatever it is and whatever the reader
\* expects.
THEOREM MessagesReadInside == MessagesSpec => []ReadsInside
<1>1. ASSUME MessagesInv PROVE ReadsInside
  <2>1. PICK m \in Message, secret \in Keys, iv \in Ivs :
          m = message /\ Phase(m, Sealed(secret, iv, m))
    BY <1>1 DEF MessagesInv
  <2>2. PICK X : X = Sealed(secret, iv, m) /\ Readable(X)
    BY SealedFacts
  <2>3. Readable(m)
    BY MessagesReadable
  <2>4. Len(data) \in Nat
    <3>1. \E T : data \in Seq(T)
      BY <2>1, <2>2, <2>3 DEF Phase, Readable
    <3> QED
      BY <3>1, LenProperties
  <2>5. CASE AtStart
    BY <2>4, <2>5 DEF AtStart, ReadsInside
  <2>6. ASSUME NEW Y, Readable(Y), Reading(Y) PROVE ReadsInside
    <3>1. n \in Nat /\ n <= Len(data)
      BY <2>6, ReadingFacts
    <3>2. ASSUME left > 0 PROVE n + SizeT <= Len(data) /\ (n + SizeT) + WordAt(n) <= Len(data)
      <4>1. PICK e, j : ReadSome(Y, e, j) /\ data = Serialize(Y)
        BY <2>6 DEF Reading
      <4>2. Readable(Y) /\ left > 0
        BY <2>6, <3>2
      <4>3. \E z \in Nat : NextIs(Y, e, j, z)
        BY ONLY <4>1, <4>2, NextString
      <4>4. PICK z \in Nat : WordAt(n) = z /\ e[j+1] = (n + SizeT) + z /\ e[j+1] <= Len(data)
        BY <4>3 DEF NextIs
      <4>5. PICK t \in Nat, c \in Nat : t = SizeT /\ c = Len(data)
        BY <2>4, ByteFacts
      <4>6. (n + t) + z <= c /\ n + t <= c
        BY <3>1, <4>4, <4>5
      <4> QED
        BY <4>4, <4>5, <4>6
    <3> QED
      BY <3>1, <3>2 DEF ReadsInside
  <2>7. CASE AtReturn(m)
    BY <2>4, <2>7 DEF AtReturn, ReadsInside
  <2> QED
    BY <2>1, <2>2, <2>3, <2>5, <2>6, <2>7 DEF Phase, InWrapper, InMessage, AtAbort
<1> QED
  BY <1>1, MessagesRead, PTL

LEMMA ConstantFacts ==
  /\ P \in Nat /\ P > 2 /\ Q \in Nat /\ Q > 1 /\ Q > 0
  /\ G \in Nat /\ G > 1 /\ G < P /\ ModExp(G, Q) = 1
  /\ Radix \in Nat /\ Radix > 1 /\ Length \in Nat /\ Length > 0
  /\ NumOptions \in Nat /\ NumOptions <= Q /\ NumOptions > 0
  BY BlocksAssumption

LEMMA RadixPowers == Powers(RadixPower, Radix, Length) /\ P < RadixPower[Length]
<1>1. Powers(RadixPower, Radix, Length)
  BY ConstantFacts, RecursivePowers DEF RadixPower
<1> QED
  BY <1>1, BlocksAssumption

-----------------------------------------------------------------------------
(***************************************************************************)
(* Powers modulo P.                                                        *)
(***************************************************************************)
Residue == 0 .. P-1
Times(x, y) == (x * y) % P

LEMMA TimesFacts ==
  /\ 0 \in Residue /\ 1 \in Residue /\ G \in Residue /\ \A x \in Residue : x \in Nat
  /\ \A x, y \in Nat : Times(x, y) \in Residue /\ Times(x, y) = Times(y, x)
  /\ \A x, y, z \in Nat : Times(Times(x, y), z) = Times(x, Times(y, z))
  /\ \A x \in Residue : Times(x, 1) = x /\ Times(1, x) = x /\ Times(0, x) = 0
<1>1. 0 \in Residue /\ 1 \in Residue /\ G \in Residue /\ \A x \in Residue : x \in Nat
  BY ConstantFacts DEF Residue
<1>2. ASSUME NEW x \in Nat, NEW y \in Nat
      PROVE  Times(x, y) \in Residue /\ Times(x, y) = Times(y, x)
  <2>1. x * y = y * x /\ x * y \in Nat
    OBVIOUS
  <2>2. PICK z \in Nat : z = x * y
    BY <2>1
  <2>3. z % P \in 0 .. P-1
    BY ConstantFacts
  <2> QED
    BY <2>1, <2>2, <2>3 DEF Times, Residue
<1>3. ASSUME NEW x \in Nat, NEW y \in Nat, NEW z \in Nat
      PROVE  Times(Times(x, y), z) = Times(x, Times(y, z))
  <2>1. PICK u \in Nat, w \in Nat : u = x * y /\ w = y * z
    OBVIOUS
  <2>2. u * z = w * x
    BY <2>1
  <2>0. PICK d \in Nat : d = P /\ d > 0
    BY ConstantFacts
  <2>3. ((u % d) * z) % d = (u * z) % d
    BY <2>0, ReducedFactor
  <2>4. ((w % d) * x) % d = (w * x) % d
    BY <2>0, ReducedFactor
  <2>5. PICK t \in Nat : t = w % P
    BY ConstantFacts, Division
  <2>6. t * x = x * t
    OBVIOUS
  <2>7. ((u % P) * z) % P = ((w % P) * x) % P
    BY <2>0, <2>2, <2>3, <2>4
  <2> QED
    BY <2>1, <2>5, <2>6, <2>7 DEF Times
<1>4. ASSUME NEW x \in Residue PROVE Times(x, 1) = x /\ Times(1, x) = x /\ Times(0, x) = 0
  <2>1. x \in Nat /\ x < P /\ x = P * 0 + x /\ 0 = P * 0 + 0
    BY ConstantFacts DEF Residue
  <2>2. x % P = x /\ 0 % P = 0
    <3>1. Leaves(x, P, 0, x) /\ Leaves(0, P, 0, 0)
      BY <2>1, ConstantFacts DEF Leaves
    <3> QED
      BY <3>1, Remainder
  <2>3. x * 1 = x /\ 1 * x = x /\ 0 * x = 0
    BY <2>1
  <2> QED
    BY <2>2, <2>3 DEF Times
<1> QED
  BY <1>1, <1>2, <1>3, <1>4

\* The powers of x up to the k-th.
IsExp(e, x, k) ==
  e \in [0 .. k -> Residue] /\ e[0] = 1 /\ \A j \in 1 .. k : e[j] = Times(e[j-1], x)

LEMMA ExpExists ==
  ASSUME NEW x \in Nat, NEW k \in Nat
  PROVE  \E e : IsExp(e, x, k)
<1>1. PICK f \in [Residue -> Residue] : \A y \in Residue : f[y] = Times(y, x)
  <2>1. \A y \in Residue : Times(y, x) \in Residue
    BY TimesFacts
  <2>2. [y \in Residue |-> Times(y, x)] \in [Residue -> Residue]
    BY <2>1
  <2> QED
    BY <2>2
<1>2. PICK e : Iterates(e, 1, f, k, Residue)
  BY TimesFacts, Iteration
<1>3. e \in [0 .. k -> Residue] /\ e[0] = 1 /\ \A j \in 1 .. k : e[j] = f[e[j-1]]
  BY <1>2 DEF Iterates
<1>4. ASSUME NEW j \in 1 .. k PROVE e[j] = Times(e[j-1], x)
  <2>1. j - 1 \in 0 .. k
    OBVIOUS
  <2> QED
    BY <1>1, <1>3, <2>1
<1> QED
  BY <1>3, <1>4 DEF IsExp

LEMMA ExpIs ==
  ASSUME NEW x \in Nat, NEW k \in Nat, NEW e, IsExp(e, x, k)
  PROVE  ModExp(x, k) = e[k]
<1> DEFINE F(f) == [j \in 0 .. k |-> IF j = 0 THEN 1 ELSE (f[j-1] * x) % P]
           g == CHOOSE f : f = F(f)
<1>1. e = F(e)
  <2>1. \A j \in 0 .. k : e[j] = IF j = 0 THEN 1 ELSE (e[j-1] * x) % P
    BY DEF IsExp, Times
  <2>2. e = [j \in 0 .. k |-> e[j]]
    BY DEF IsExp
  <2> QED
    BY <2>1, <2>2
<1>2. g = F(g)
  <2> HIDE DEF F
  <2> QED
    BY <1>1
<1>3. ModExp(x, k) = g[k]
  BY DEF ModExp
<1> HIDE DEF g
<1> DEFINE S == {j \in 0 .. k : g[j] = e[j]}
<1>4. 0 \in S
  BY <1>2 DEF IsExp
<1>5. ASSUME NEW j \in 0 .. k-1, j \in S PROVE j + 1 \in S
  <2>1. j + 1 \in 1 .. k /\ j + 1 \in 0 .. k /\ (j + 1) - 1 = j /\ j + 1 # 0
    OBVIOUS
  <2>2. g[j+1] = (g[j] * x) % P
    BY <1>2, <2>1
  <2>3. e[j+1] = (e[j] * x) % P
    BY <2>1 DEF IsExp, Times
  <2> QED
    BY <1>5, <2>1, <2>2, <2>3
<1>6. \A j \in 0 .. k : j \in S
  <2> HIDE DEF S
  <2> QED
    BY <1>4, <1>5, BoundedInduction
<1> QED
  BY <1>3, <1>6

LEMMA ExpFacts ==
  ASSUME NEW x \in Nat
  PROVE  /\ ModExp(x, 0) = 1
         /\ \A k \in Nat : /\ ModExp(x, k) \in Residue /\ ModExp(x, k) \in Nat
                           /\ ModExp(x, k+1) = Times(ModExp(x, k), x)
<1>1. ModExp(x, 0) = 1
  <2>1. PICK e : IsExp(e, x, 0)
    BY ExpExists
  <2>2. ModExp(x, 0) = e[0]
    BY <2>1, ExpIs
  <2> QED
    BY <2>1, <2>2 DEF IsExp
<1>2. ASSUME NEW k \in Nat
      PROVE  /\ ModExp(x, k) \in Residue /\ ModExp(x, k) \in Nat
             /\ ModExp(x, k+1) = Times(ModExp(x, k), x)
  <2>0. k + 1 \in Nat /\ k + 1 \in 1 .. k+1 /\ k \in 0 .. k+1 /\ (k + 1) - 1 = k /\ k \in 0 .. k
    OBVIOUS
  <2>1. PICK e : IsExp(e, x, k+1)
    BY <2>0, ExpExists
  <2>2. ModExp(x, k+1) = e[k+1]
    BY <2>0, <2>1, ExpIs
  <2> DEFINE d == [j \in 0 .. k |-> e[j]]
  <2>3. IsExp(d, x, k)
    <3>1. \A j \in 0 .. k : j \in 0 .. k+1
      OBVIOUS
    <3>2. d \in [0 .. k -> Residue] /\ d[0] = 1
      BY <2>1, <3>1 DEF IsExp
    <3>3. ASSUME NEW j \in 1 .. k PROVE d[j] = Times(d[j-1], x)
      <4>1. j \in 1 .. k+1 /\ j \in 0 .. k /\ j - 1 \in 0 .. k
        OBVIOUS
      <4>2. e[j] = Times(e[j-1], x)
        BY <2>1, <4>1 DEF IsExp
      <4> QED
        BY <4>1, <4>2
    <3> QED
      BY <3>2, <3>3 DEF IsExp
  <2>4. ModExp(x, k) = d[k]
    <3> HIDE DEF d
    <3> QED
      BY <2>3, ExpIs
  <2>5. ModExp(x, k) = e[k] /\ e[k] \in Residue /\ e[k+1] = Times(e[k], x)
    BY <2>0, <2>1, <2>4 DEF IsExp
  <2> QED
    BY <2>2, <2>5, TimesFacts
<1> QED
  BY <1>1, <1>2

LEMMA ExpAdd ==
  ASSUME NEW x \in Nat, NEW j \in Nat, NEW k \in Nat
  PROVE  ModExp(x, j + k) = Times(ModExp(x, j), ModExp(x, k))
<1> DEFINE S == {i \in Nat : ModExp(x, j + i) = Times(ModExp(x, j), ModExp(x, i))}
<1>1. 0 \in S
  <2>1. j + 0 = j
    OBVIOUS
  <2> QED
    BY <2>1, ExpFacts, TimesFacts
<1>2. ASSUME NEW i \in S PROVE i + 1 \in S
  <2>1. i \in Nat /\ i + 1 \in Nat /\ j + i \in Nat /\ j + (i + 1) = (j + i) + 1
    OBVIOUS
  <2>2. ModExp(x, j + (i + 1)) = Times(ModExp(x, j + i), x)
    BY <2>1, ExpFacts
  <2>3. ModExp(x, j + i) = Times(ModExp(x, j), ModExp(x, i))
    BY <1>2
  <2>4. PICK c \in Nat, d \in Nat : c = ModExp(x, j) /\ d = ModExp(x, i)
    BY <2>1, ExpFacts
  <2>5. Times(Times(c, d), x) = Times(c, Times(d, x))
    BY TimesFacts
  <2>6. ModExp(x, i + 1) = Times(d, x)
    BY <2>1, <2>4, ExpFacts
  <2>7. ModExp(x, j + (i + 1)) = Times(ModExp(x, j), ModExp(x, i + 1))
    BY <2>2, <2>3, <2>4, <2>5, <2>6
  <2> QED
    BY <2>1, <2>7
<1>3. S \in SUBSET Nat
  OBVIOUS
<1>4. \A i \in Nat : i \in S
  <2> HIDE DEF S
  <2> QED
    BY <1>1, <1>2, <1>3, SetInduction
<1> QED
  BY <1>4

LEMMA ExpTimes ==
  ASSUME NEW x \in Nat, NEW j \in Nat, NEW k \in Nat
  PROVE  ModExp(ModExp(x, j), k) = ModExp(x, j * k)
<1>0. PICK y \in Nat : y = ModExp(x, j)
  BY ExpFacts
<1> DEFINE S == {i \in Nat : ModExp(y, i) = ModExp(x, j * i)}
<1>1. 0 \in S
  <2>1. j * 0 = 0
    OBVIOUS
  <2> QED
    BY <2>1, ExpFacts
<1>2. ASSUME NEW i \in S PROVE i + 1 \in S
  <2>1. i \in Nat /\ i + 1 \in Nat
    OBVIOUS
  <2>2. j * i \in Nat /\ j * (i + 1) = j * i + j
    BY <2>1
  <2>3. ModExp(y, i + 1) = Times(ModExp(y, i), y)
    BY <2>1, ExpFacts
  <2>4. ModExp(x, j * i + j) = Times(ModExp(x, j * i), ModExp(x, j))
    BY <2>2, ExpAdd
  <2>5. ModExp(y, i) = ModExp(x, j * i)
    BY <1>2
  <2>6. ModExp(y, i + 1) = ModExp(x, j * (i + 1))
    BY <1>0, <2>2, <2>3, <2>4, <2>5
  <2> QED
    BY <2>1, <2>6
<1>3. S \in SUBSET Nat
  OBVIOUS
<1>4. \A i \in Nat : i \in S
  <2> HIDE DEF S
  <2> QED
    BY <1>1, <1>2, <1>3, SetInduction
<1> QED
  BY <1>0, <1>4

-----------------------------------------------------------------------------
(***************************************************************************)
(* The powers of G: G has the prime order Q.                               *)
(***************************************************************************)
Pow(k) == ModExp(G, k)

LEMMA PowFacts ==
  /\ Pow(0) = 1 /\ Pow(1) = G /\ Pow(Q) = 1
  /\ \A k \in Nat : Pow(k) \in Residue /\ Pow(k) \in Nat
  /\ \A j, k \in Nat : Pow(j + k) = Times(Pow(j), Pow(k)) /\ ModExp(Pow(j), k) = Pow(j * k)
<1>1. G \in Nat /\ Pow(Q) = 1
  BY ConstantFacts DEF Pow
<1>2. Pow(0) = 1 /\ \A k \in Nat : Pow(k) \in Residue /\ Pow(k) \in Nat
  BY <1>1, ExpFacts DEF Pow
<1>3. ASSUME NEW j \in Nat, NEW k \in Nat
      PROVE  Pow(j + k) = Times(Pow(j), Pow(k)) /\ ModExp(Pow(j), k) = Pow(j * k)
  BY <1>1, ExpAdd, ExpTimes DEF Pow
<1>4. Pow(1) = G
  <2>1. ModExp(G, 0 + 1) = Times(ModExp(G, 0), G)
    BY <1>1, ExpFacts
  <2>2. 0 + 1 = 1
    OBVIOUS
  <2> QED
    BY <1>2, <2>1, <2>2, TimesFacts DEF Pow
<1> QED
  BY <1>1, <1>2, <1>3, <1>4

\* An exponent may be taken modulo one that gives 1.
LEMMA Period ==
  \A m, s, r \in Nat : Pow(m) = 1 => Pow(m * s + r) = Pow(r)
<1> SUFFICES ASSUME NEW m \in Nat, Pow(m) = 1, NEW s \in Nat, NEW r \in Nat
             PROVE  Pow(m * s + r) = Pow(r)
  OBVIOUS
<1> DEFINE S == {i \in Nat : Pow(m * i) = 1}
<1>1. 0 \in S
  <2>1. m * 0 = 0
    OBVIOUS
  <2> QED
    BY <2>1, PowFacts
<1>2. ASSUME NEW i \in S PROVE i + 1 \in S
  <2>1. i \in Nat /\ i + 1 \in Nat
    OBVIOUS
  <2>2. m * i \in Nat /\ m * (i + 1) = m * i + m
    BY <2>1
  <2>3. Pow(m * i + m) = Times(Pow(m * i), Pow(m))
    BY <2>2, PowFacts
  <2>4. Times(1, 1) = 1 /\ Pow(m * i) = 1
    BY <1>2, TimesFacts
  <2>5. Pow(m * (i + 1)) = 1
    BY <2>2, <2>3, <2>4
  <2> QED
    BY <2>1, <2>5
<1>3. \A i \in Nat : i \in S
  <2>1. S \in SUBSET Nat
    OBVIOUS
  <2> HIDE DEF S
  <2> QED
    BY <1>1, <1>2, <2>1, SetInduction
<1>4. m * s \in Nat /\ Pow(m * s) = 1
  BY <1>3
<1>5. Pow(m * s + r) = Times(Pow(m * s), Pow(r))
  BY <1>4, PowFacts
<1> QED
  BY <1>4, <1>5, PowFacts, TimesFacts

LEMMA WholeOrders == \A s, r \in Nat : Pow(Q * s + r) = Pow(r)
<1>1. Q \in Nat /\ Pow(Q) = 1
  BY ConstantFacts, PowFacts
<1>2. ASSUME NEW s \in Nat, NEW r \in Nat PROVE Pow(Q * s + r) = Pow(r)
  BY <1>1, Period
<1> QED
  BY <1>2

LEMMA Order ==
  ASSUME NEW j \in Nat, Pow(j) = 1
  PROVE  j % Q = 0
<1>0. Q \in Nat /\ Q > 0 /\ Q > 1 /\ Pow(Q) = 1
  BY ConstantFacts, PowFacts
<1>1. PICK s \in Nat, r \in Nat : s = j \div Q /\ r = j % Q /\ r < Q /\ s * Q + r = j
  BY <1>0, Division
<1>2. Pow(r) = 1
  <2>1. j = Q * s + r
    BY <1>0, <1>1
  <2> QED
    BY <1>0, <2>1, Period
<1>3. CASE r = 0
  BY <1>1, <1>3
<1>4. CASE r # 0
  <2> DEFINE S == {k \in Nat : k > 0 /\ Pow(k) = 1}
  <2>1. S \in SUBSET Nat /\ r \in S
    BY <1>1, <1>2, <1>4
  <2>2. PICK m \in S : \A k \in S : m <= k
    <3> HIDE DEF S
    <3> QED
      BY <2>1, LeastElement
  <2>3. m \in Nat /\ m > 0 /\ m < Q /\ Pow(m) = 1
    BY <1>0, <1>1, <2>1, <2>2
  <2>4. m # 1
    BY <2>3, PowFacts, ConstantFacts
  <2>5. PICK q \in Nat, t \in Nat : q = Q \div m /\ t = Q % m /\ t < m /\ q * m + t = Q
    BY <1>0, <2>3, Division
  <2>6. Pow(t) = 1
    <3>1. Q = m * q + t
      BY <1>0, <2>3, <2>5
    <3>2. Pow(m * q + t) = Pow(t)
      <4> HIDE DEF S
      <4> QED
        BY <2>3, Period
    <3> QED
      BY <1>0, <3>1, <3>2
  <2>7. t = 0
    BY <2>2, <2>5, <2>6
  <2>8. m \in 2 .. Q-1 /\ Q % m = 0
    BY <1>0, <2>3, <2>4, <2>5, <2>7
  <2> QED
    BY <2>8, BlocksAssumption
<1> QED
  BY <1>3, <1>4

\* What Q divides as a product it divides as one of the factors.
LEMMA Euclid ==
  \A z, w \in Nat : \A d \in 1 .. Q-1 : w = d * z /\ w % Q = 0 => z % Q = 0
<1> SUFFICES ASSUME NEW z \in Nat, NEW w \in Nat, NEW d \in 1 .. Q-1, w = d * z, w % Q = 0
             PROVE  z % Q = 0
  OBVIOUS
<1>0. Q \in Nat /\ Q > 0 /\ Q > 1
  BY ConstantFacts
<1> DEFINE Divides(k) == \E y \in Nat : k * z = Q * y
           S == {k \in Nat : k > 0 /\ Divides(k)}
<1>1. d \in S
  <2>1. PICK y \in Nat, t \in Nat : y = w \div Q /\ t = w % Q /\ t < Q /\ y * Q + t = w
    BY <1>0, Division
  <2>2. w = Q * y
    BY <1>0, <2>1
  <2>3. Divides(d)
    BY <2>2
  <2>4. d \in Nat /\ d > 0
    BY <1>0
  <2> HIDE DEF Divides
  <2> QED
    BY <2>3, <2>4
<1>2. PICK m \in S : \A k \in S : m <= k
  <2>1. S \in SUBSET Nat
    OBVIOUS
  <2> HIDE DEF S
  <2> QED
    BY <1>1, <2>1, LeastElement
<1>3. m \in Nat /\ m > 0 /\ m <= d /\ m < Q
  <2>1. m <= d
    <3> HIDE DEF S
    <3> QED
      BY <1>1, <1>2
  <2>2. m \in Nat /\ m > 0
    <3> HIDE DEF Divides
    <3> QED
      BY <1>2
  <2> QED
    BY <1>0, <2>1, <2>2
<1>4. PICK y \in Nat : m * z = Q * y
  BY <1>2
<1>5. CASE m = 1
  <2>1. z = Q * y + 0
    BY <1>0, <1>4, <1>5
  <2> QED
    <3>1. Leaves(z, Q, y, 0)
      BY <1>0, <2>1 DEF Leaves
    <3> QED
      BY <3>1, Remainder
<1>6. CASE m # 1
  <2>1. PICK q \in Nat, t \in Nat : q = Q \div m /\ t = Q % m /\ t < m /\ q * m + t = Q
    BY <1>0, <1>3, Division
  <2>2. m \in 2 .. Q-1 /\ t # 0
    <3>1. m \in 2 .. Q-1
      BY <1>0, <1>3, <1>6
    <3> QED
      BY <2>1, <3>1, BlocksAssumption
  <2>3. PICK u \in Int : u = z - q * y
    BY <1>0
  <2>4. t * z = Q * u
    <3>1. (q * m + t) * z = q * (m * z) + t * z
      BY <1>3
    <3>2. q * (Q * y) = Q * (q * y) /\ Q * (z - q * y) = Q * z - Q * (q * y)
      BY <1>0
    <3> QED
      BY <1>4, <2>1, <2>3, <3>1, <3>2
  <2>5. u \in Nat
    <3>1. t * z \in Nat
      OBVIOUS
    <3>2. u < 0 => Q * u < 0
      BY <1>0
    <3> QED
      BY <2>4, <3>1, <3>2
  <2>6. t \in S
    <3>1. Divides(t)
      BY <2>4, <2>5
    <3> HIDE DEF Divides
    <3> QED
      BY <2>1, <2>2, <3>1
  <2>7. m <= t
    <3> HIDE DEF S
    <3> QED
      BY <1>2, <2>6
  <2> QED
    BY <1>3, <2>1, <2>7
<1> QED
  BY <1>5, <1>6

\* What z and z plus a multiple of Q have in common.
LEMMA Shift ==
  \A z, s, w \in Int : w = Q * s + z => w % Q = z % Q
<1> SUFFICES ASSUME NEW z \in Int, NEW s \in Int, NEW w \in Int, w = Q * s + z
             PROVE  w % Q = z % Q
  OBVIOUS
<1>0. Q \in Nat /\ Q > 0
  BY ConstantFacts
<1>1. PICK q \in Int, t \in Nat : t = z % Q /\ t < Q /\ z = Q * q + t
  BY <1>0, IntDivision
<1>2. PICK u \in Int : u = s + q
  OBVIOUS
<1>3. w = Q * u + t
  BY <1>0, <1>1, <1>2
<1>4. w % Q = t
  <2>1. PICK d \in Nat : d = Q /\ d > 0
    BY <1>0
  <2>2. w = d * u + t /\ t < d
    BY <1>1, <1>3, <2>1
  <2>3. Leaves(w, d, u, t)
    BY <2>2 DEF Leaves
  <2>4. w % d = t
    BY <2>3, Remainder
  <2> QED
    BY <2>1, <2>4
<1> QED
  BY <1>1, <1>4

\* Pow(InverseExp(k)) is the inverse of Pow(k).
InverseExp(k) == k * (Q - 1)

LEMMA Inverses ==
  ASSUME NEW k \in Nat
  PROVE  /\ InverseExp(k) \in Nat /\ Pow(k) # 0 /\ Pow(k) \in 1 .. P-1
         /\ Times(Pow(k), Pow(InverseExp(k))) = 1
         /\ ModInv(Pow(k)) = Pow(InverseExp(k))
<1>0. Q \in Nat /\ Q > 1
  BY ConstantFacts
<1>1. InverseExp(k) \in Nat /\ k + InverseExp(k) = Q * k + 0
  BY <1>0 DEF InverseExp
<1>2. Times(Pow(k), Pow(InverseExp(k))) = 1
  <2>1. Pow(k + InverseExp(k)) = Times(Pow(k), Pow(InverseExp(k)))
    BY <1>1, PowFacts
  <2>2. Pow(Q * k + 0) = Pow(0)
    BY <1>0, WholeOrders
  <2> QED
    BY <1>1, <2>1, <2>2, PowFacts
<1>3. \A i \in Nat : Pow(i) \in Nat /\ Pow(i) \in Residue
  BY PowFacts
<1>4. Pow(k) # 0
  <2>1. Times(0, Pow(InverseExp(k))) = 0
    BY <1>1, <1>3, TimesFacts
  <2> QED
    BY <1>2, <2>1
<1>5. Pow(InverseExp(k)) # 0
  <2>1. Times(Pow(InverseExp(k)), Pow(k)) = 1
    BY <1>1, <1>2, <1>3, TimesFacts
  <2>2. Times(0, Pow(k)) = 0
    BY <1>3, TimesFacts
  <2> QED
    BY <2>1, <2>2
<1>6. \A x \in Residue : x # 0 => x \in 1 .. P-1
  BY ConstantFacts DEF Residue
<1>7. PICK u \in Nat, w \in Nat : u = Pow(k) /\ w = Pow(InverseExp(k))
  BY <1>1, <1>3
<1>8. u \in 1 .. P-1 /\ w \in 1 .. P-1 /\ u \in Residue /\ w \in Residue
  BY <1>1, <1>3, <1>4, <1>5, <1>6, <1>7
<1>9. ModInv(u) = w
  <2>1. (u * w) % P = 1
    BY <1>2, <1>7 DEF Times
  <2>2. ASSUME NEW y \in 1 .. P-1, (u * y) % P = 1 PROVE y = w
    <3>1. y \in Residue /\ y \in Nat
      BY ConstantFacts DEF Residue
    <3>2. Times(u, y) = 1 /\ Times(u, w) = 1
      BY <2>1, <2>2 DEF Times
    <3>3. Times(Times(w, u), y) = Times(w, Times(u, y))
      BY <3>1, TimesFacts
    <3>4. Times(w, u) = 1
      BY <3>2, TimesFacts
    <3>5. Times(1, y) = y /\ Times(w, 1) = w
      BY <1>8, <3>1, TimesFacts
    <3> QED
      BY <3>2, <3>3, <3>4, <3>5
  <2> QED
    BY <1>8, <2>1, <2>2 DEF ModInv
<1> QED
  BY <1>1, <1>2, <1>4, <1>7, <1>8, <1>9

\* Two powers of G are equal only if their exponents are, modulo Q.
LEMMA EqualPowers ==
  ASSUME NEW j \in Nat, NEW k \in Nat, Pow(j) = Pow(k)
  PROVE  (j + InverseExp(k)) % Q = 0
<1>1. InverseExp(k) \in Nat /\ Times(Pow(k), Pow(InverseExp(k))) = 1
  BY Inverses
<1>2. Pow(j + InverseExp(k)) = Times(Pow(j), Pow(InverseExp(k)))
  BY <1>1, PowFacts
<1>3. Pow(j + InverseExp(k)) = 1 /\ j + InverseExp(k) \in Nat
  BY <1>1, <1>2
<1> QED
  BY <1>3, Order

-----------------------------------------------------------------------------
(***************************************************************************)
(* Integers in blocks of bytes.                                            *)
(***************************************************************************)
\* v[i] is what the first i of the k bytes of the block stand for.
IsDecoding(v, block, k) ==
  /\ Len(block) = k /\ v \in [0 .. k -> Nat] /\ v[0] = 0
  /\ \A i \in 1 .. k : v[i] = v[i-1] * Radix + block[i]

LEMMA DecodeIs ==
  ASSUME NEW k \in Nat, NEW block, NEW v, IsDecoding(v, block, k)
  PROVE  Decode(block, k) = v[k]
<1>0. /\ Len(block) = k /\ v \in [0 .. k -> Nat] /\ v[0] = 0
      /\ \A i \in 1 .. k : v[i] = v[i-1] * Radix + block[i]
  BY DEF IsDecoding
<1> DEFINE F(f) == [i \in 0 .. k |->
                      IF i = 0 THEN 0
                      ELSE f[i-1] * Radix + (IF i <= Len(block) THEN block[i] ELSE Radix - 1)]
           g == CHOOSE f : f = F(f)
<1>1. v = F(v)
  <2>1. ASSUME NEW i \in 0 .. k PROVE v[i] = F(v)[i]
    <3>1. CASE i = 0
      BY <1>0, <3>1
    <3>2. CASE i # 0
      <4>1. i \in 1 .. k /\ i <= Len(block)
        BY <1>0, <3>2
      <4> QED
        BY <1>0, <3>2, <4>1
    <3> QED
      BY <3>1, <3>2
  <2>2. v = [i \in 0 .. k |-> v[i]]
    BY <1>0
  <2> QED
    BY <2>1, <2>2
<1>2. g = F(g)
  <2> HIDE DEF F
  <2> QED
    BY <1>1
<1>3. Decode(block, k) = g[k]
  BY DEF Decode
<1> HIDE DEF g
<1> DEFINE S == {i \in 0 .. k : g[i] = v[i]}
<1>4. 0 \in S
  <2>1. 0 \in 0 .. k
    OBVIOUS
  <2> QED
    BY <1>0, <1>2, <2>1
<1>5. ASSUME NEW i \in 0 .. k-1, i \in S PROVE i + 1 \in S
  <2>1. i + 1 \in 1 .. k /\ i + 1 \in 0 .. k /\ (i + 1) - 1 = i /\ i + 1 # 0 /\ i + 1 <= Len(block)
    BY <1>0
  <2>2. g[i+1] = g[i] * Radix + block[i+1]
    BY <1>2, <2>1
  <2>3. v[i+1] = v[i] * Radix + block[i+1]
    BY <1>0, <2>1
  <2> QED
    BY <1>5, <2>1, <2>2, <2>3
<1>6. \A i \in 0 .. k : i \in S
  <2> HIDE DEF S
  <2> QED
    BY <1>4, <1>5, BoundedInduction
<1> QED
  BY <1>3, <1>6

LEMMA RadixFacts ==
  /\ Radix \in Nat /\ Radix > 1 /\ Length \in Nat /\ Length > 0 /\ P \in Nat /\ P > 2
  /\ RadixPower[0] = 1 /\ P < RadixPower[Length]
  /\ \A k \in 0 .. Length : RadixPower[k] \in Nat /\ RadixPower[k] > 0
  /\ \A k \in 1 .. Length : RadixPower[k] = RadixPower[k-1] * Radix
  BY RadixPowers, ConstantFacts DEF Powers

\* Integers read back what Encode wrote, if it had enough bytes.
LEMMA Encoded ==
  ASSUME NEW x \in Nat, NEW k \in 0 .. Length, x < RadixPower[k]
  PROVE  /\ Encode(x, k) \in Seq(Nat) /\ Len(Encode(x, k)) = k
         /\ Decode(Encode(x, k), k) = x
<1>0. k \in Nat /\ Radix \in Nat /\ Radix > 0
  BY RadixFacts
<1> DEFINE block == Encode(x, k)
           v == [i \in 0 .. k |-> x \div RadixPower[k-i]]
<1>1. ASSUME NEW i \in 0 .. k
      PROVE  k - i \in 0 .. Length /\ RadixPower[k-i] \in Nat /\ RadixPower[k-i] > 0
  <2>1. k - i \in 0 .. Length
    BY RadixFacts
  <2> QED
    BY <2>1, RadixFacts
<1>2. ASSUME NEW i \in 0 .. k PROVE x \div RadixPower[k-i] \in Nat
  <2>1. PICK d \in Nat : d = RadixPower[k-i] /\ d > 0
    BY <1>1
  <2>2. x \div d \in Nat
    BY <2>1, Division
  <2> QED
    BY <2>1, <2>2
<1>3. ASSUME NEW i \in 1 .. k PROVE (x \div RadixPower[k-i]) % Radix \in Nat
  <2>1. i \in 0 .. k
    OBVIOUS
  <2>2. PICK y \in Nat : y = x \div RadixPower[k-i]
    BY <1>2, <2>1
  <2>3. y % Radix \in Nat
    BY <1>0
  <2> QED
    BY <2>2, <2>3
<1>4. block \in Seq(Nat) /\ Len(block) = k
      /\ \A i \in 1 .. k : block[i] = (x \div RadixPower[k-i]) % Radix
  BY <1>0, <1>3 DEF Encode
<1>5. v \in [0 .. k -> Nat]
  BY <1>2
<1>6. v[0] = 0
  <2>1. 0 \in 0 .. k /\ k - 0 = k
    BY <1>0
  <2>2. PICK d \in Nat : d = RadixPower[k] /\ d > 0
    BY RadixFacts
  <2>3. x \div d = 0
    BY <2>2, SmallQuotient
  <2> QED
    BY <2>1, <2>2, <2>3
<1>7. v[k] = x
  <2>1. k \in 0 .. k /\ k - k = 0
    BY <1>0
  <2>2. x \div 1 = x
    BY SmallQuotient
  <2> QED
    BY <2>1, <2>2, RadixFacts
<1>8. ASSUME NEW i \in 1 .. k PROVE v[i] = v[i-1] * Radix + block[i]
  <2>1. i \in 0 .. k /\ i - 1 \in 0 .. k /\ k - (i - 1) \in 1 .. Length
        /\ (k - (i - 1)) - 1 = k - i
    BY <1>0, RadixFacts
  <2>2. PICK d \in Nat : d = RadixPower[k-i] /\ d > 0
    BY <1>1, <2>1
  <2>3. RadixPower[k-(i-1)] = d * Radix
    BY <2>1, <2>2, RadixFacts
  <2>4. v[i-1] = x \div (d * Radix) /\ v[i] = x \div d
    BY <2>1, <2>2, <2>3
  <2>5. v[i-1] * Radix + ((x \div d) % Radix) = x \div d
    BY <1>0, <2>2, <2>4, HornerStep
  <2>6. block[i] = (x \div d) % Radix
    BY <1>4, <2>2
  <2> QED
    BY <2>4, <2>5, <2>6
<1>9. Decode(block, k) = v[k]
  <2>1. IsDecoding(v, block, k)
    <3> HIDE DEF block, v
    <3> QED
      BY <1>4, <1>5, <1>6, <1>8 DEF IsDecoding
  <2> HIDE DEF block, v
  <2> QED
    BY <1>0, <2>1, DecodeIs
<1> QED
  BY <1>4, <1>7, <1>9

LEMMA Growing == \A j, k \in 0 .. Length : j <= k => RadixPower[j] <= RadixPower[k]
<1> SUFFICES ASSUME NEW j \in 0 .. Length PROVE \A k \in 0 .. Length : j <= k => RadixPower[j] <= RadixPower[k]
  OBVIOUS
<1> DEFINE S == {k \in 0 .. Length : j <= k => RadixPower[j] <= RadixPower[k]}
<1>1. 0 \in S
  BY RadixFacts
<1>2. ASSUME NEW k \in 0 .. Length-1, k \in S PROVE k + 1 \in S
  <2>1. k + 1 \in 1 .. Length /\ k + 1 \in 0 .. Length /\ (k + 1) - 1 = k /\ k \in 0 .. Length
    BY RadixFacts
  <2>2. PICK x \in Nat, y \in Nat, m \in Nat :
          x = RadixPower[j] /\ y = RadixPower[k] /\ m = Radix /\ m > 1 /\ x > 0
    BY <2>1, RadixFacts
  <2>3. RadixPower[k+1] = y * m
    BY <2>1, <2>2, RadixFacts
  <2>4. y <= y * m
    BY <2>2
  <2>5. j <= k + 1 => j <= k \/ j = k + 1
    BY <2>1
  <2>6. j = k + 1 => RadixPower[j] = RadixPower[k+1] /\ x = y * m
    BY <2>2, <2>3
  <2>7. j <= k => x <= y
    BY <1>2, <2>2
  <2>8. j <= k + 1 => x <= y * m
    BY <2>2, <2>4, <2>5, <2>6, <2>7
  <2> QED
    BY <2>1, <2>2, <2>3, <2>8
<1>3. \A k \in 0 .. Length : k \in S
  <2> HIDE DEF S
  <2> QED
    BY <1>1, <1>2, RadixFacts, BoundedInduction
<1> QED
  BY <1>3

\* Leading zeros make the block the one of full length.
LEMMA PaddedEncoding ==
  ASSUME NEW x \in Nat, NEW k \in 0 .. Length, x < RadixPower[k]
  PROVE  Padded(Encode(x, k)) = Encode(x, Length)
<1>0. /\ k \in Nat /\ Length \in Nat /\ Radix \in Nat /\ Radix > 0 /\ k <= Length
      /\ Encode(x, k) \in Seq(Nat) /\ Len(Encode(x, k)) = k
  <2>1. Encode(x, k) \in Seq(Nat) /\ Len(Encode(x, k)) = k
    BY Encoded
  <2> QED
    BY <2>1, RadixFacts
<1>1. x < RadixPower[Length] /\ Length \in 0 .. Length
  <2>1. Length \in 0 .. Length
    BY <1>0
  <2> QED
    BY <1>0, <2>1, RadixFacts, Growing
<1>2. Encode(x, Length) \in Seq(Nat) /\ Len(Encode(x, Length)) = Length
  BY <1>1, Encoded
<1>3. PICK zeros \in Seq(Nat), block \in Seq(Nat), whole \in Seq(Nat) :
        /\ zeros = [i \in 1 .. Length - k |-> 0] /\ Len(zeros) = Length - k
        /\ block = Encode(x, k) /\ Len(block) = k
        /\ whole = Encode(x, Length) /\ Len(whole) = Length
  <2>1. PICK m \in Nat : m = Length - k
    BY <1>0
  <2>2. [i \in 1 .. m |-> 0] \in Seq(Nat) /\ Len([i \in 1 .. m |-> 0]) = m
    OBVIOUS
  <2> QED
    BY <1>0, <1>2, <2>1, <2>2
<1>4. zeros \o block \in Seq(Nat) /\ Len(zeros \o block) = Length
  BY <1>0, <1>3, ConcatProperties
<1>5. ASSUME NEW i \in 1 .. Length PROVE (zeros \o block)[i] = whole[i]
  <2>1. whole[i] = (x \div RadixPower[Length-i]) % Radix
    BY <1>3 DEF Encode
  <2>2. CASE i <= Length - k
    <3>1. (zeros \o block)[i] = 0
      <4>1. zeros[i] = 0 /\ i <= Len(zeros) /\ i \in 1 .. Len(zeros) + Len(block)
        BY <1>0, <1>3, <2>2
      <4> QED
        BY <4>1, ConcatProperties
    <3>2. Length - i \in 0 .. Length /\ k <= Length - i
      BY <1>0, <2>2
    <3>3. PICK d \in Nat : d = RadixPower[Length-i] /\ d > 0 /\ x < d
      <4>1. PICK c \in Nat, d \in Nat : c = RadixPower[k] /\ d = RadixPower[Length-i] /\ d > 0
        BY <3>2, RadixFacts
      <4>2. c <= d
        BY <3>2, <4>1, Growing
      <4> QED
        BY <4>1, <4>2
    <3>4. x \div d = 0
      BY <3>3, SmallQuotient
    <3>5. 0 % Radix = 0
      BY <1>0
    <3> QED
      BY <2>1, <3>1, <3>3, <3>4, <3>5
  <2>3. CASE i > Length - k
    <3>1. PICK j \in 1 .. k : j = i - (Length - k) /\ k - j = Length - i
      BY <1>0, <2>3
    <3>2. (zeros \o block)[i] = block[j]
      <4>1. i \in 1 .. Len(zeros) + Len(block) /\ ~ (i <= Len(zeros)) /\ i - Len(zeros) = j
        BY <1>0, <1>3, <2>3, <3>1
      <4> QED
        BY <4>1, ConcatProperties
    <3>3. block[j] = (x \div RadixPower[k-j]) % Radix
      BY <1>3 DEF Encode
    <3> QED
      BY <2>1, <3>1, <3>2, <3>3
  <2>4. i <= Length - k \/ i > Length - k
    BY <1>0
  <2> QED
    BY <2>2, <2>3, <2>4
<1>6. zeros \o block = whole
  BY <1>3, <1>4, <1>5, SeqEqual
<1> QED
  BY <1>3, <1>6 DEF Padded

LEMMA Blocks ==
  ASSUME NEW x \in Residue
  PROVE  /\ Decode(Encode(x, Length), Length) = x
         /\ ByteblockToInteger(Encode(x, Length)) = x
         /\ ByteblockToInteger(IntegerToByteblock(x)) = x
         /\ Padded(Encode(x, Length)) = Encode(x, Length)
         /\ Padded(IntegerToByteblock(x)) = Encode(x, Length)
         /\ Encode(x, Length) # NoKey /\ IntegerToByteblock(x) # NoKey
<1>0. x \in Nat /\ x < RadixPower[Length] /\ Length \in 1 .. Length
  <2>1. Length \in 0 .. Length /\ Length \in 1 .. Length
    BY RadixFacts
  <2>2. PICK d \in Nat : d = RadixPower[Length] /\ P < d
    BY <2>1, RadixFacts
  <2> QED
    BY <2>1, <2>2, RadixFacts DEF Residue
<1>1. ASSUME NEW k \in 1 .. Length, x < RadixPower[k]
      PROVE  /\ Decode(Encode(x, k), k) = x /\ ByteblockToInteger(Encode(x, k)) = x
             /\ Padded(Encode(x, k)) = Encode(x, Length) /\ Encode(x, k) # NoKey
  <2>1. k \in 0 .. Length /\ k # 0
    OBVIOUS
  <2>2. Len(Encode(x, k)) = k /\ Decode(Encode(x, k), k) = x
    BY <1>0, <1>1, <2>1, Encoded
  <2>3. Padded(Encode(x, k)) = Encode(x, Length)
    BY <1>0, <1>1, <2>1, PaddedEncoding
  <2>4. Encode(x, k) # NoKey
    <3>1. Len(<<>>) = 0
      OBVIOUS
    <3> QED
      BY <2>1, <2>2, <3>1 DEF NoKey
  <2> QED
    BY <2>2, <2>3, <2>4 DEF ByteblockToInteger
<1>2. PICK k \in 1 .. Length : k = MinEncodedSize(x) /\ x < RadixPower[k]
  <2> DEFINE S == {k \in Nat : k \in 1 .. Length /\ x < RadixPower[k]}
  <2>1. S \in SUBSET Nat /\ Length \in S
    BY <1>0
  <2>2. PICK k \in S : \A j \in S : k <= j
    <3> HIDE DEF S
    <3> QED
      BY <2>1, LeastElement
  <2>3. ASSUME NEW j \in 1 .. k-1 PROVE x >= RadixPower[j]
    <3>1. j \in Nat /\ j \in 1 .. Length /\ j \in 0 .. Length /\ ~ (k <= j)
      <4>1. k \in 1 .. Length /\ Length \in Nat
        BY RadixFacts
      <4> HIDE DEF S
      <4> QED
        BY <4>1
    <3>2. RadixPower[j] \in Nat
      BY <3>1, RadixFacts
    <3>3. j \notin S
      <4> HIDE DEF S
      <4> QED
        BY <2>2, <3>1
    <3> QED
      BY <1>0, <3>1, <3>2, <3>3
  <2>4. k \in 1 .. Length /\ x < RadixPower[k]
    BY <2>2
  <2> QED
    BY <2>3, <2>4 DEF MinEncodedSize
<1> QED
  BY <1>0, <1>1, <1>2 DEF IntegerToByteblock

-----------------------------------------------------------------------------
(***************************************************************************)
(* The keys of a transfer.                                                 *)
(***************************************************************************)
LEMMA SharedKeys ==
  ASSUME NEW s \in Nat, NEW k \in Nat, NEW public,
         public \in {Encode(Pow(k), Length), IntegerToByteblock(Pow(k))}
  PROVE  SharedKey(s, public) = IF k % Q = 0 THEN NoKey ELSE Encode(Pow(k * s), Length)
<1>1. PICK y \in Residue : y = Pow(k) /\ y \in 1 .. P-1
  BY PowFacts, Inverses
<1>2. Decode(Padded(public), Length) = y
  <2>1. Padded(public) = Encode(y, Length)
    BY <1>1, Blocks
  <2> QED
    BY <2>1, Blocks
<1>3. y \in 2 .. P-1 <=> y # 1
  BY <1>1, ConstantFacts
<1>4. y = 1 <=> k % Q = 0
  <2>1. ASSUME k % Q = 0 PROVE y = 1
    <3>0. Q \in Nat /\ Q > 0 /\ 0 \in Nat
      BY ConstantFacts
    <3>1. PICK q \in Nat, t \in Nat : t = k % Q /\ q * Q + t = k
      BY <3>0, Division
    <3>2. k = Q * q + 0
      BY <2>1, <3>0, <3>1
    <3>3. Pow(Q * q + 0) = Pow(0)
      BY <3>0, WholeOrders
    <3> QED
      BY <1>1, <3>2, <3>3, PowFacts
  <2> QED
    BY <1>1, <2>1, Order
<1>5. ModExp(y, s) = Pow(k * s)
  BY <1>1, PowFacts
<1> QED
  BY <1>2, <1>3, <1>4, <1>5 DEF SharedKey

\* The exponent of the base that the sender takes for an option, and the key from it.
OptionExponent(i) == (b + a * choice) + InverseExp(a * i)
OptionKey(i) == IF OptionExponent(i) % Q = 0 THEN NoKey
                ELSE Encode(Pow(OptionExponent(i) * a), Length)

KeyInv ==
  /\ a \in 1 .. Q-1 /\ b \in 1 .. Q-1 /\ choice \in Option
  /\ senderPublic \in {NoKey, Encode(Pow(a), Length)}
  /\ receiverPublic \in {NoKey, IntegerToByteblock(Pow(b + a * choice))}
  /\ receiverPublic # NoKey => senderPublic # NoKey
  /\ chosenKey \in {NoKey, Encode(Pow(a * b), Length)}
  /\ optionKeys \in {<<>>, [i \in Option |-> OptionKey(i)]}

LEMMA ValueFacts ==
  ASSUME a \in 1 .. Q-1, b \in 1 .. Q-1, choice \in Option
  PROVE  /\ a \in Nat /\ a > 0 /\ a < Q /\ b \in Nat /\ b > 0 /\ b < Q
         /\ choice \in Nat /\ choice < Q
         /\ \A i \in Option : /\ i \in Nat /\ i < Q /\ a * i \in Nat
                              /\ InverseExp(a * i) \in Nat /\ OptionExponent(i) \in Nat
         /\ a * b \in Nat /\ b + a * choice \in Nat
         /\ a % Q # 0 /\ b % Q # 0
<1>1. /\ a \in Nat /\ a > 0 /\ a < Q /\ b \in Nat /\ b > 0 /\ b < Q
      /\ choice \in Nat /\ choice < Q /\ \A i \in Option : i \in Nat /\ i < Q
  BY ConstantFacts DEF Option
<1>2. a * b \in Nat /\ a * choice \in Nat /\ b + a * choice \in Nat
  BY <1>1
<1>3. ASSUME NEW i \in Option
      PROVE  a * i \in Nat /\ InverseExp(a * i) \in Nat /\ OptionExponent(i) \in Nat
  <2>1. a * i \in Nat
    BY <1>1
  <2>2. PICK k \in Nat : k = a * i
    BY <2>1
  <2>3. InverseExp(k) \in Nat
    BY Inverses
  <2> QED
    BY <1>2, <2>2, <2>3 DEF OptionExponent
<1>4. \A z \in Nat : z > 0 /\ z < Q => z % Q # 0
  <2>1. ASSUME NEW z \in Nat, z > 0, z < Q PROVE z % Q = z
    <3>1. z = Q * 0 + z /\ Q \in Nat /\ Q > 0 /\ 0 \in Int
      BY ConstantFacts
    <3>2. Leaves(z, Q, 0, z)
      BY <2>1, <3>1 DEF Leaves
    <3> QED
      BY <3>2, Remainder
  <2> QED
    BY <2>1
<1> QED
  BY <1>1, <1>2, <1>3, <1>4

LEMMA KeyInit == KeyBlocksInit => KeyInv
  BY DEF KeyBlocksInit, KeyInv

LEMMA KeyStep == KeyInv /\ [KeyBlocksNext]_keyBlocksVars => KeyInv'
<1> SUFFICES ASSUME KeyInv, [KeyBlocksNext]_keyBlocksVars PROVE KeyInv'
  OBVIOUS
<1>0. a \in 1 .. Q-1 /\ b \in 1 .. Q-1 /\ choice \in Option
  BY DEF KeyInv
<1>1. CASE OfferPublic
  BY <1>1 DEF OfferPublic, KeyInv, Pow, OptionKey, OptionExponent
<1>2. CASE Answer
  <2>1. senderPublic = Encode(Pow(a), Length)
    BY <1>2 DEF Answer, KeyInv
  <2>2. PICK j \in Nat, k \in Nat, c \in Nat : j = a /\ k = b /\ c = choice
    BY <1>0, ValueFacts
  <2>3. PICK u \in Residue, v \in Residue : u = Pow(j) /\ v = Pow(k)
    BY PowFacts
  <2>4. /\ ByteblockToInteger(senderPublic) = u
        /\ ByteblockToInteger(Encode(ModExp(G, b), Length)) = v
    BY <2>1, <2>2, <2>3, Blocks DEF Pow
  <2>5. ModExp(u, c) = Pow(j * c) /\ j * c \in Nat
    BY <2>3, PowFacts
  <2>6. Times(v, Pow(j * c)) = Pow(k + j * c)
    BY <2>3, <2>5, PowFacts
  <2>7. receiverPublic' = IntegerToByteblock(Pow(b + a * choice))
    BY <1>2, <2>2, <2>4, <2>5, <2>6 DEF Answer, Times
  <2>8. receiverPublic' = IntegerToByteblock(Pow(b + a * choice))' /\ senderPublic # NoKey
    BY <1>2, <2>7 DEF Answer, Pow
  <2> QED
    BY <1>2, <2>8 DEF Answer, KeyInv, Pow, OptionKey, OptionExponent
<1>3. CASE ReceiverKey
  <2>1. senderPublic = Encode(Pow(a), Length)
    BY <1>3 DEF ReceiverKey, KeyInv
  <2>2. PICK j \in Nat, k \in Nat : j = a /\ k = b /\ j % Q # 0
    BY <1>0, ValueFacts
  <2>3. SharedKey(k, senderPublic) = Encode(Pow(j * k), Length)
    BY <2>1, <2>2, SharedKeys
  <2>4. chosenKey' = Encode(Pow(a * b), Length)
    BY <1>3, <2>2, <2>3 DEF ReceiverKey
  <2> QED
    BY <1>3, <2>4 DEF ReceiverKey, KeyInv, Pow, OptionKey, OptionExponent
<1>4. CASE SenderKeys
  <2>1. /\ senderPublic = Encode(Pow(a), Length)
        /\ receiverPublic = IntegerToByteblock(Pow(b + a * choice))
    BY <1>4 DEF SenderKeys, KeyInv
  <2>2. PICK j \in Nat, w \in Nat : j = a /\ w = b + a * choice
    BY <1>0, ValueFacts
  <2>3. PICK u \in Residue, v \in Residue : u = Pow(j) /\ v = Pow(w)
    BY PowFacts
  <2>4. ByteblockToInteger(senderPublic) = u /\ ByteblockToInteger(receiverPublic) = v
    BY <2>1, <2>2, <2>3, Blocks
  <2> DEFINE base(i) == (v * ModInv(ModExp(u, i))) % P
  <2>5. ASSUME NEW i \in Option
        PROVE  SharedKey(a, IntegerToByteblock(base(i))) = OptionKey(i)
    <3>1. PICK l \in Nat : l = i /\ j * l \in Nat /\ InverseExp(j * l) \in Nat
      BY <1>0, <2>2, ValueFacts
    <3>2. ModExp(u, l) = Pow(j * l)
      BY <2>3, PowFacts
    <3>3. ModInv(Pow(j * l)) = Pow(InverseExp(j * l))
      BY <3>1, Inverses
    <3>4. Times(v, Pow(InverseExp(j * l))) = Pow(w + InverseExp(j * l))
      BY <2>3, <3>1, PowFacts
    <3>5. PICK m \in Nat : m = w + InverseExp(j * l) /\ m = OptionExponent(i)
      BY <2>2, <3>1 DEF OptionExponent
    <3>6. base(i) = Pow(m)
      BY <3>1, <3>2, <3>3, <3>4, <3>5 DEF Times
    <3>7. SharedKey(j, IntegerToByteblock(Pow(m)))
            = IF m % Q = 0 THEN NoKey ELSE Encode(Pow(m * j), Length)
      BY SharedKeys
    <3> QED
      BY <2>2, <3>5, <3>6, <3>7 DEF OptionKey
  <2>6. optionKeys' = [i \in Option |-> SharedKey(a, IntegerToByteblock(base(i)))]
    BY <1>4, <2>4 DEF SenderKeys
  <2>7. optionKeys' = [i \in Option |-> OptionKey(i)]
    <3> HIDE DEF base
    <3> QED
      BY <2>5, <2>6
  <2>8. optionKeys' = [i \in Option |-> OptionKey(i)]'
    BY <1>4, <2>7 DEF SenderKeys, Pow, OptionKey, OptionExponent
  <2> QED
    BY <1>4, <2>8 DEF SenderKeys, KeyInv, Pow
<1>5. CASE UNCHANGED keyBlocksVars
  BY <1>5 DEF keyBlocksVars, KeyInv, Pow, OptionKey, OptionExponent
<1> QED
  BY <1>1, <1>2, <1>3, <1>4, <1>5 DEF KeyBlocksNext

\* What every reachable state of a transfer satisfies.
THEOREM KeysComputed == KeyBlocksSpec => []KeyInv
<1>1. KeyBlocksInit => KeyInv
  BY KeyInit
<1>2. KeyInv /\ [KeyBlocksNext]_keyBlocksVars => KeyInv'
  BY KeyStep
<1> QED
  BY <1>1, <1>2, PTL DEF KeyBlocksSpec

\* The options differ by less than Q, so no other one has the chosen one's key.
LEMMA OtherKeys ==
  ASSUME a \in 1 .. Q-1, b \in 1 .. Q-1, choice \in Option, NEW i \in Option
  PROVE  Pow(OptionExponent(i) * a) = Pow(a * b) <=> i = choice
<1>0. /\ Q \in Nat /\ Q > 1
      /\ a \in 1 .. Q-1 /\ a \in Nat /\ b \in Nat /\ choice \in Nat /\ choice < Q
      /\ i \in Nat /\ i < Q /\ OptionExponent(i) \in Nat
  BY ConstantFacts, ValueFacts
<1>1. PICK x \in Nat, y \in Nat, c \in Nat, l \in Nat, q \in Nat, r \in Nat :
        x = a /\ y = b /\ c = choice /\ l = i /\ q = Q /\ r = Q - 1 /\ q = r + 1
  BY <1>0
<1>2. OptionExponent(i) = (y + x * c) + (x * l) * r
  BY <1>1 DEF OptionExponent, InverseExp
<1>3. ASSUME i = choice PROVE Pow(OptionExponent(i) * a) = Pow(a * b)
  <2>1. ((y + x * c) + (x * c) * r) * x = q * (x * c * x) + x * y
    BY <1>1
  <2>2. x * c * x \in Nat /\ x * y \in Nat
    OBVIOUS
  <2>3. PICK s \in Nat, z \in Nat : s = x * c * x /\ z = x * y
    BY <2>2
  <2>4. Pow(Q * s + z) = Pow(z)
    BY WholeOrders
  <2>5. OptionExponent(i) * a = q * s + z
    BY <1>1, <1>2, <1>3, <2>1, <2>3
  <2> QED
    BY <1>1, <2>3, <2>4, <2>5
<1>4. ASSUME i # choice, Pow(OptionExponent(i) * a) = Pow(a * b) PROVE FALSE
  <2>1. PICK w \in Nat : w = OptionExponent(i) * a + InverseExp(a * b) /\ w % Q = 0
    <3>1. OptionExponent(i) * a \in Nat /\ a * b \in Nat /\ InverseExp(a * b) \in Nat
      BY <1>0, Inverses
    <3> QED
      BY <1>4, <3>1, EqualPowers
  <2>2. w = ((y + x * c) + (x * l) * r) * x + (x * y) * r
    BY <1>1, <1>2, <2>1 DEF InverseExp
  <2>3. CASE choice > i
    <3>1. PICK d \in Nat : c = l + d /\ d \in 1 .. Q-1
      BY <1>0, <1>1, <2>3
    <3>2. PICK s \in Nat, u \in Nat, v \in Nat :
            s = x * y + x * l * x /\ u = x * d /\ v = x * u
      BY <3>1
    <3>3. w = q * s + v
      BY <1>1, <2>2, <3>1, <3>2
    <3>4. v % Q = 0
      <4>1. w = Q * s + v /\ s \in Int /\ v \in Int /\ w \in Int
        BY <1>1, <3>3
      <4> QED
        BY <2>1, <4>1, Shift, Zenon
    <3>5. u % Q = 0
      BY <1>0, <1>1, <3>2, <3>4, Euclid
    <3>6. d % Q = 0
      BY <1>0, <1>1, <3>2, <3>5, Euclid
    <3> QED
      BY <1>0, <3>1, <3>6, ValueFacts
  <2>4. CASE choice < i
    <3>1. PICK d \in Nat : l = c + d /\ d \in 1 .. Q-1
      BY <1>0, <1>1, <2>4
    <3>2. PICK s \in Nat, t \in Nat, u \in Nat, v \in Nat :
            s = x * y + x * c * x /\ t = r * d /\ u = x * t /\ v = x * u
      BY <3>1
    <3>3. w = q * s + v
      BY <1>1, <2>2, <3>1, <3>2
    <3>4. v % Q = 0
      <4>1. w = Q * s + v /\ s \in Int /\ v \in Int /\ w \in Int
        BY <1>1, <3>3
      <4> QED
        BY <2>1, <4>1, Shift, Zenon
    <3>5. u % Q = 0
      BY <1>0, <1>1, <3>2, <3>4, Euclid
    <3>6. t % Q = 0
      BY <1>0, <1>1, <3>2, <3>5, Euclid
    <3>7. r \in 1 .. Q-1
      BY <1>0, <1>1
    <3>8. d % Q = 0
      BY <1>1, <3>2, <3>6, <3>7, Euclid
    <3> QED
      BY <1>0, <3>1, <3>8, ValueFacts
  <2> QED
    BY <1>0, <1>4, <2>3, <2>4
<1> QED
  BY <1>3, <1>4

\* The exponent of an option's base, modulo Q.
LEMMA Exponents ==
  ASSUME a \in 1 .. Q-1, b \in 1 .. Q-1, choice \in Option, NEW i \in Option
  PROVE  OptionExponent(i) % Q = (b + a * (choice - i)) % Q
<1>1. Q \in Nat /\ Q > 1 /\ a \in Nat /\ b \in Nat /\ choice \in Nat /\ i \in Nat
  BY ConstantFacts, ValueFacts
<1>2. PICK s \in Int, z \in Int, w \in Int :
        /\ s = a * i /\ z = b + a * (choice - i) /\ w = OptionExponent(i)
  BY <1>1, ValueFacts
<1>3. w = Q * s + z
  <2>1. w = (b + a * choice) + (a * i) * (Q - 1)
    BY <1>2 DEF OptionExponent, InverseExp
  <2>2. (a * i) * (Q - 1) = Q * (a * i) - a * i /\ a * (choice - i) = a * choice - a * i
    BY <1>1
  <2>3. a * i \in Nat /\ a * choice \in Nat /\ Q * (a * i) \in Nat
    BY <1>1
  <2> QED
    BY <1>1, <1>2, <2>1, <2>2, <2>3
<1> QED
  BY <1>2, <1>3, Shift, Zenon

LEMMA KeyResults ==
  ASSUME KeyInv, Finished, NEW i \in Option
  PROVE  /\ (optionKeys[i] = chosenKey) = (i = choice)
         /\ optionKeys[i] = NoKey <=> (b + a * (choice - i)) % Q = 0
<1>0. a \in 1 .. Q-1 /\ b \in 1 .. Q-1 /\ choice \in Option
  BY DEF KeyInv
<1>1. PICK m \in Nat, u \in Nat, w \in Nat :
        m = OptionExponent(i) /\ u = m * a /\ w = a * b
  <2>1. OptionExponent(i) \in Nat /\ a \in Nat /\ a * b \in Nat
    BY <1>0, ValueFacts
  <2> QED
    BY <2>1
<1>2. PICK x \in Residue, y \in Residue : x = Pow(u) /\ y = Pow(w)
  BY PowFacts
<1>3. chosenKey = Encode(y, Length) /\ optionKeys[i] = OptionKey(i)
  BY <1>1, <1>2 DEF KeyInv, Finished
<1>4. OptionKey(i) = IF m % Q = 0 THEN NoKey ELSE Encode(x, Length)
  BY <1>1, <1>2 DEF OptionKey
<1>5. Encode(x, Length) # NoKey /\ Encode(y, Length) # NoKey
  BY Blocks
<1>6. Encode(x, Length) = Encode(y, Length) <=> x = y
  <2>1. Decode(Encode(x, Length), Length) = x /\ Decode(Encode(y, Length), Length) = y
    BY Blocks
  <2> QED
    BY <2>1
<1>7. x = y <=> i = choice
  BY <1>0, <1>1, <1>2, OtherKeys
<1>8. m % Q = (b + a * (choice - i)) % Q
  BY <1>0, <1>1, Exponents
<1>9. i = choice => m % Q # 0
  <2>1. a \in Nat /\ b \in Nat /\ b % Q # 0 /\ choice \in Nat
    BY <1>0, ValueFacts
  <2>2. i = choice => b + a * (choice - i) = b
    BY <2>1
  <2> QED
    BY <1>8, <2>1, <2>2
<1>10. optionKeys[i] = NoKey <=> m % Q = 0
  BY <1>3, <1>4, <1>5
<1>11. (optionKeys[i] = chosenKey) = (i = choice)
  <2>1. CASE m % Q = 0
    BY <1>3, <1>4, <1>5, <1>9, <2>1
  <2>2. CASE m % Q # 0
    BY <1>3, <1>4, <1>6, <1>7, <2>2
  <2> QED
    BY <2>1, <2>2
<1> QED
  BY <1>8, <1>10, <1>11

\* Whatever the group of prime order, the private values and the choice, the receiver
\* computes the key of its option and of no other.
THEOREM ChosenKey == KeyBlocksSpec => []ChosenKeyOnly
<1>1. KeyInv => ChosenKeyOnly
  BY KeyResults DEF ChosenKeyOnly
<1> QED
  BY <1>1, KeysComputed, PTL

\* The sender fails at no option but one whose base is the identity.
THEOREM IdentityRefused == KeyBlocksSpec => []OnlyIdentityRefused
<1>1. KeyInv => OnlyIdentityRefused
  BY KeyResults DEF OnlyIdentityRefused
<1> QED
  BY <1>1, KeysComputed, PTL

-----------------------------------------------------------------------------
(***************************************************************************)
(* The group that module OT takes for granted.                             *)
(***************************************************************************)
Subgroup     == {Pow(k) : k \in Nat}
PrivateValue == 1 .. Q-1

MulTable == [x \in Subgroup |-> [y \in Subgroup |-> Times(x, y)]]
ExpTable == [x \in Subgroup |-> [e \in PrivateValue \cup Option |-> ModExp(x, e)]]
InvTable == [x \in Subgroup |-> ModInv(x)]

LEMMA ExponentFacts ==
  \A e \in PrivateValue \cup Option : e \in Nat /\ e < Q
  BY ConstantFacts DEF PrivateValue, Option

\* The operations do not lead out of it.
LEMMA SubgroupClosed ==
  /\ G \in Subgroup /\ 1 \in Subgroup /\ Subgroup \subseteq Residue
  /\ \A x, y \in Subgroup : Times(x, y) \in Subgroup
  /\ \A x \in Subgroup : \A e \in Nat : ModExp(x, e) \in Subgroup
  /\ \A x \in Subgroup : ModInv(x) \in Subgroup /\ Times(x, ModInv(x)) = 1
<1>1. G \in Subgroup /\ 1 \in Subgroup
  <2>1. 0 \in Nat /\ 1 \in Nat /\ Pow(0) = 1 /\ Pow(1) = G
    BY PowFacts
  <2>2. Pow(0) \in Subgroup /\ Pow(1) \in Subgroup
    BY <2>1 DEF Subgroup
  <2> QED
    BY <2>1, <2>2
<1>2. Subgroup \subseteq Residue
  BY PowFacts DEF Subgroup
<1>3. ASSUME NEW x \in Subgroup, NEW y \in Subgroup PROVE Times(x, y) \in Subgroup
  <2>1. PICK j \in Nat, k \in Nat : x = Pow(j) /\ y = Pow(k)
    BY DEF Subgroup
  <2>2. Times(x, y) = Pow(j + k) /\ j + k \in Nat
    BY <2>1, PowFacts
  <2> QED
    BY <2>2 DEF Subgroup
<1>4. ASSUME NEW x \in Subgroup, NEW e \in Nat PROVE ModExp(x, e) \in Subgroup
  <2>1. PICK j \in Nat : x = Pow(j)
    BY DEF Subgroup
  <2>2. ModExp(x, e) = Pow(j * e) /\ j * e \in Nat
    BY <2>1, PowFacts
  <2> QED
    BY <2>2 DEF Subgroup
<1>5. ASSUME NEW x \in Subgroup PROVE ModInv(x) \in Subgroup /\ Times(x, ModInv(x)) = 1
  <2>1. PICK j \in Nat : x = Pow(j)
    BY DEF Subgroup
  <2>2. /\ InverseExp(j) \in Nat /\ ModInv(x) = Pow(InverseExp(j))
        /\ Times(x, Pow(InverseExp(j))) = 1
    BY <2>1, Inverses
  <2> QED
    BY <2>2 DEF Subgroup
<1> QED
  BY <1>1, <1>2, <1>3, <1>4, <1>5

\* A factor of a product can be taken away.
LEMMA Cancelled ==
  ASSUME NEW x \in Subgroup, NEW y \in Residue, NEW z \in Residue, Times(x, y) = Times(x, z)
  PROVE  y = z
<1>1. PICK v \in Residue : v = ModInv(x) /\ Times(x, v) = 1
  BY SubgroupClosed
<1>2. x \in Nat /\ y \in Nat /\ z \in Nat /\ v \in Nat
  BY SubgroupClosed, TimesFacts
<1>3. Times(v, Times(x, y)) = y
  <2>1. Times(Times(v, x), y) = Times(v, Times(x, y)) /\ Times(v, x) = 1
    BY <1>1, <1>2, TimesFacts
  <2> QED
    BY <2>1, TimesFacts
<1>4. Times(v, Times(x, z)) = z
  <2>1. Times(Times(v, x), z) = Times(v, Times(x, z)) /\ Times(v, x) = 1
    BY <1>1, <1>2, TimesFacts
  <2> QED
    BY <2>1, TimesFacts
<1> QED
  BY <1>3, <1>4

\* What is multiplied and divided by the same is what it was.
LEMMA Divided ==
  ASSUME NEW x \in Subgroup, NEW y \in Subgroup, NEW z \in Subgroup
  PROVE  Times(Times(x, y), ModInv(z)) = x <=> y = z
<1>1. PICK v \in Subgroup : v = ModInv(z) /\ Times(z, v) = 1
  BY SubgroupClosed
<1>2. /\ x \in Residue /\ y \in Residue /\ z \in Residue /\ v \in Residue
      /\ x \in Nat /\ y \in Nat /\ z \in Nat /\ v \in Nat
  BY SubgroupClosed, TimesFacts
<1>3. Times(Times(x, y), v) = Times(x, Times(y, v)) /\ Times(x, 1) = x
  BY <1>2, TimesFacts
<1>4. ASSUME Times(x, Times(y, v)) = x PROVE y = z
  <2>1. Times(y, v) \in Residue /\ 1 \in Residue
    BY <1>2, TimesFacts
  <2>2. Times(x, Times(y, v)) = Times(x, 1)
    BY <1>3, <1>4
  <2>3. Times(y, v) = 1
    BY <2>1, <2>2, Cancelled
  <2>4. Times(v, y) = Times(v, z)
    BY <1>1, <1>2, <2>3, TimesFacts
  <2> QED
    BY <1>2, <2>4, Cancelled
<1> QED
  BY <1>1, <1>3, <1>4

\* No exponent below the order identifies different powers.
LEMMA PowerOfPower ==
  \A e \in PrivateValue : \A j, z, u, w \in Nat :
    u = e * j /\ w = e * (j + z) /\ Pow(u) = Pow(w) => z % Q = 0
<1> SUFFICES ASSUME NEW e \in PrivateValue, NEW j \in Nat, NEW z \in Nat, NEW u \in Nat, NEW w \in Nat,
                    u = e * j, w = e * (j + z), Pow(u) = Pow(w)
             PROVE  z % Q = 0
  OBVIOUS
<1>1. PICK y \in Nat : y = e * z /\ w = u + y
  BY ExponentFacts
<1>2. Pow(w) = Times(Pow(u), Pow(y)) /\ Pow(u) \in Subgroup /\ Pow(y) \in Residue
  BY <1>1, PowFacts DEF Subgroup
<1>3. Times(Pow(u), Pow(y)) = Times(Pow(u), 1) /\ 1 \in Residue
  BY <1>2, PowFacts, TimesFacts
<1>4. Pow(y) = 1
  BY <1>2, <1>3, Cancelled
<1>5. y % Q = 0
  BY <1>4, Order
<1> QED
  BY <1>1, <1>5, Euclid DEF PrivateValue

LEMMA PowersApart ==
  /\ \A e \in PrivateValue : \A i, j \in Option : Pow(e * i) = Pow(e * j) => i = j
  /\ \A e \in PrivateValue : \A j, k \in Nat : Pow(j * e) = Pow(k * e) => Pow(j) = Pow(k)
<1>0. Q \in Nat /\ Q > 0
  BY ConstantFacts
<1>1. ASSUME NEW e \in PrivateValue, NEW j \in Nat, NEW z \in Nat, Pow(e * j) = Pow(e * (j + z))
      PROVE  z % Q = 0
  <2>1. PICK u \in Nat, w \in Nat : u = e * j /\ w = e * (j + z)
    BY ExponentFacts
  <2> QED
    BY <1>1, <2>1, PowerOfPower
<1>2. ASSUME NEW j \in Nat, NEW k \in Nat PROVE \E z \in Nat : k = j + z \/ j = k + z
  <2>1. CASE j <= k
    <3>1. k - j \in Nat /\ k = j + (k - j)
      BY <2>1
    <3> QED
      BY <3>1
  <2>2. CASE k < j
    <3>1. j - k \in Nat /\ j = k + (j - k)
      BY <2>2
    <3> QED
      BY <3>1
  <2> QED
    BY <2>1, <2>2
<1>3. ASSUME NEW e \in PrivateValue, NEW i \in Option, NEW j \in Option, Pow(e * i) = Pow(e * j)
      PROVE  i = j
  <2>1. i \in Nat /\ i < Q /\ j \in Nat /\ j < Q
    BY ExponentFacts
  <2>2. PICK z \in Nat : j = i + z \/ i = j + z
    BY <1>2, <2>1
  <2>3. z % Q = 0
    BY <1>1, <1>3, <2>1, <2>2
  <2>4. z < Q
    BY <1>0, <2>1, <2>2
  <2>5. z = 0
    <3>1. PICK q \in Nat, r \in Nat : r = z % Q /\ q * Q + r = z /\ q = z \div Q
      BY <1>0, Division
    <3>2. q = 0
      BY <1>0, <2>4, <3>1, SmallQuotient
    <3>3. q * Q = 0
      BY <1>0, <3>2
    <3> QED
      BY <2>3, <3>1, <3>3
  <2> QED
    BY <2>1, <2>2, <2>5
<1>4. ASSUME NEW e \in PrivateValue, NEW j \in Nat, NEW k \in Nat, Pow(j * e) = Pow(k * e)
      PROVE  Pow(j) = Pow(k)
  <2>1. j * e = e * j /\ k * e = e * k
    BY ExponentFacts
  <2>2. PICK z \in Nat : k = j + z \/ j = k + z
    BY <1>2
  <2>3. z % Q = 0
    BY <1>1, <1>4, <2>1, <2>2
  <2>4. PICK s \in Nat : z = Q * s
    <3>1. PICK q \in Nat, r \in Nat : r = z % Q /\ q * Q + r = z
      BY <1>0, Division
    <3>2. z = Q * q
      BY <1>0, <2>3, <3>1
    <3> QED
      BY <3>2
  <2>5. Pow(j + z) = Pow(j) /\ Pow(k + z) = Pow(k)
    <3>1. j + z = Q * s + j /\ k + z = Q * s + k
      BY <1>0, <2>4
    <3> QED
      BY <3>1, WholeOrders
  <2> QED
    BY <2>2, <2>5
<1> QED
  BY <1>3, <1>4

\* The integers modulo P with the private values that are drawn are a group such as
\* module OT takes for granted (crypto_driver.cxx and peer_link.cxx, where options
\* are told apart by powers of the sender's public value).
THEOREM KeysAreInAGroup ==
  TransferGroup(Subgroup, G, 1, PrivateValue, Option, MulTable, ExpTable, InvTable)
<1>1. /\ MulTable \in [Subgroup -> [Subgroup -> Subgroup]]
      /\ ExpTable \in [Subgroup -> [PrivateValue \cup Option -> Subgroup]]
      /\ InvTable \in [Subgroup -> Subgroup]
  <2>1. \A x \in Subgroup : [y \in Subgroup |-> Times(x, y)] \in [Subgroup -> Subgroup]
    BY SubgroupClosed
  <2>2. \A x \in Subgroup :
          [e \in PrivateValue \cup Option |-> ModExp(x, e)] \in [PrivateValue \cup Option -> Subgroup]
    BY ExponentFacts, SubgroupClosed
  <2> QED
    BY <2>1, <2>2, SubgroupClosed DEF MulTable, ExpTable, InvTable
<1>2. /\ \A x, y \in Subgroup : MulTable[x][y] = Times(x, y)
      /\ \A x \in Subgroup : \A e \in PrivateValue \cup Option : ExpTable[x][e] = ModExp(x, e)
      /\ \A x \in Subgroup : InvTable[x] = ModInv(x)
  BY DEF MulTable, ExpTable, InvTable
<1>3. \A x, y, z \in Subgroup : MulTable[MulTable[x][y]][InvTable[z]] = x <=> y = z
  <2>1. \A x, y, z \in Subgroup :
          MulTable[MulTable[x][y]][InvTable[z]] = Times(Times(x, y), ModInv(z))
    BY <1>2, SubgroupClosed
  <2> QED
    BY <2>1, Divided
<1>4. ASSUME NEW e \in PrivateValue, NEW f \in PrivateValue \cup Option
      PROVE  ExpTable[ExpTable[G][e]][f] = Pow(e * f)
  <2>1. e \in Nat /\ f \in Nat
    BY ExponentFacts
  <2>2. G \in Subgroup /\ ExpTable[G][e] = Pow(e)
    BY <1>2, SubgroupClosed DEF Pow
  <2>3. Pow(e) \in Subgroup /\ ModExp(Pow(e), f) = Pow(e * f)
    BY <2>1, PowFacts DEF Subgroup
  <2> QED
    BY <1>2, <2>2, <2>3
<1>5. \A e, f \in PrivateValue : ExpTable[ExpTable[G][e]][f] = ExpTable[ExpTable[G][f]][e]
  <2>1. \A e, f \in PrivateValue : e * f = f * e
    BY ExponentFacts
  <2> QED
    BY <1>4, <2>1
<1>6. \A e \in PrivateValue : \A i, j \in Option :
        ExpTable[ExpTable[G][e]][i] = ExpTable[ExpTable[G][e]][j] => i = j
  BY <1>4, PowersApart
<1>7. ASSUME NEW e \in PrivateValue, NEW x \in Subgroup, NEW y \in Subgroup,
             ExpTable[x][e] = ExpTable[y][e]
      PROVE  x = y
  <2>1. PICK j \in Nat, k \in Nat : x = Pow(j) /\ y = Pow(k)
    BY DEF Subgroup
  <2>2. ExpTable[x][e] = ModExp(x, e) /\ ExpTable[y][e] = ModExp(y, e) /\ e \in Nat
    BY <1>2, ExponentFacts
  <2>3. ModExp(Pow(j), e) = Pow(j * e) /\ ModExp(Pow(k), e) = Pow(k * e)
    BY <2>2, PowFacts
  <2>4. Pow(j * e) = Pow(k * e)
    BY <1>7, <2>1, <2>2, <2>3
  <2> QED
    BY <2>1, <2>4, PowersApart
<1>8. G \in Subgroup /\ 1 \in Subgroup
  BY SubgroupClosed
<1> QED
  BY <1>1, <1>3, <1>5, <1>6, <1>7, <1>8 DEF TransferGroup
=============================================================================
