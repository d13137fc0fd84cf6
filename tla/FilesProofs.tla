---------------------------- MODULE FilesProofs ----------------------------
(***************************************************************************)
(* Theorems about modules Inputs and Bristol, for every number of parties  *)
(* and all files.  When the input files name the same owners, every wire   *)
(* is shared with the value its owner's file gives it, no share is left    *)
(* unread, and only a line that names nobody stops anybody.  However a     *)
(* circuit file ends, the gates whose lines are there are right.           *)
(*                                                                         *)
(* The slots of Basics are here the lines of the input files: the channel  *)
(* from p to q holds the shares of p's lines from q's line to p's.         *)
(***************************************************************************)
EXTENDS Bristol, Inputs, Basics

-----------------------------------------------------------------------------
(***************************************************************************)
(* The shares in a channel.                                                *)
(***************************************************************************)
\* The channel c to q holds the shares dealt for the lines sl, which are those of
\* S from lo up to hi.
Holds(c, sl, lo, hi, S, dealt, q) ==
  /\ c \in Seq(Int) /\ sl \in Seq(Nat) /\ Len(sl) = Len(c)
  /\ InOrder(sl, lo, hi, S)
  /\ \A n \in 1 .. Len(c) : c[n] = dealt[sl[n]][q]

Carries(c, lo, hi, S, dealt, q) == \E sl : Holds(c, sl, lo, hi, S, dealt, q)

Deals == [Nat -> [Party -> Int]]

LEMMA CarriesNothing ==
  ASSUME NEW lo, NEW hi \in Nat, NEW S \in SUBSET Nat, lo = hi, NEW dealt, NEW q
  PROVE  Carries(<<>>, lo, hi, S, dealt, q)
<1>1. InOrder(<<>>, lo, hi, S)
  BY DEF InOrder
<1>2. Holds(<<>>, <<>>, lo, hi, S, dealt, q)
  BY <1>1 DEF Holds
<1> QED
  BY <1>2 DEF Carries

\* The owner deals line hi: nobody has seen a share of it.
LEMMA CarriesMore ==
  ASSUME NEW lo \in Nat, NEW hi \in Nat, NEW S \in SUBSET Nat, hi \in S,
         NEW dealt \in Deals, NEW s \in [Party -> Int], NEW q \in Party,
         NEW c, Carries(c, lo, hi, S, dealt, q)
  PROVE  Carries(Append(c, s[q]), lo, hi + 1, S, [dealt EXCEPT ![hi] = s], q)
<1>1. PICK sl : Holds(c, sl, lo, hi, S, dealt, q)
  BY DEF Carries
<1>2. /\ c \in Seq(Int) /\ sl \in Seq(Nat) /\ Len(sl) = Len(c) /\ InOrder(sl, lo, hi, S)
      /\ \A n \in 1 .. Len(c) : c[n] = dealt[sl[n]][q]
  BY <1>1 DEF Holds
<1>3. PICK d : d = [dealt EXCEPT ![hi] = s]
  OBVIOUS
<1>4. d[hi] = s /\ \A x \in Nat : x # hi => d[x] = dealt[x]
  BY <1>3 DEF Deals
<1>5. InOrder(Append(sl, hi), lo, hi + 1, S)
  <2>1. hi + 1 \in Nat /\ hi <= hi /\ hi < hi + 1 /\ \A x \in S : hi <= x /\ x < hi + 1 => x = hi
    OBVIOUS
  <2> QED
    BY <1>2, <2>1, SenderSends
<1>6. s[q] \in Int /\ Len(c) \in Nat
  BY <1>2, LenProperties
<1>7. /\ Append(c, s[q]) \in Seq(Int) /\ Len(Append(c, s[q])) = Len(c) + 1
      /\ Append(c, s[q])[Len(c) + 1] = s[q]
      /\ \A n \in 1 .. Len(c) : Append(c, s[q])[n] = c[n]
  BY <1>2, <1>6, AppendProperties
<1>8. /\ Append(sl, hi) \in Seq(Nat) /\ Len(Append(sl, hi)) = Len(c) + 1
      /\ Append(sl, hi)[Len(c) + 1] = hi
      /\ \A n \in 1 .. Len(c) : Append(sl, hi)[n] = sl[n]
  BY <1>2, AppendProperties
<1>9. ASSUME NEW n \in 1 .. Len(c) + 1 PROVE Append(c, s[q])[n] = d[Append(sl, hi)[n]][q]
  <2>1. CASE n = Len(c) + 1
    BY <1>4, <1>7, <1>8, <2>1
  <2>2. CASE n \in 1 .. Len(c)
    <3>1. sl[n] \in Nat /\ sl[n] < hi
      BY <1>2, <2>2 DEF InOrder
    <3>2. d[sl[n]] = dealt[sl[n]]
      BY <1>4, <3>1
    <3> QED
      BY <1>2, <1>7, <1>8, <2>2, <3>2
  <2> QED
    BY <1>6, <2>1, <2>2, LastOrBefore
<1>10. Holds(Append(c, s[q]), Append(sl, hi), lo, hi + 1, S, d, q)
  BY <1>5, <1>7, <1>8, <1>9 DEF Holds
<1> QED
  BY <1>3, <1>10 DEF Carries

\* Another owner deals line m.
LEMMA CarriesSame ==
  ASSUME NEW lo, NEW hi, NEW S \in SUBSET Nat, NEW m \in Nat, m \notin S,
         NEW dealt \in Deals, NEW s \in [Party -> Int], NEW q \in Party,
         NEW c, Carries(c, lo, hi, S, dealt, q)
  PROVE  Carries(c, lo, hi, S, [dealt EXCEPT ![m] = s], q)
<1>1. PICK sl : Holds(c, sl, lo, hi, S, dealt, q)
  BY DEF Carries
<1>2. PICK d : d = [dealt EXCEPT ![m] = s]
  OBVIOUS
<1>3. \A x \in Nat : x # m => d[x] = dealt[x]
  BY <1>2 DEF Deals
<1>4. ASSUME NEW n \in 1 .. Len(c) PROVE c[n] = d[sl[n]][q]
  <2>1. sl[n] \in S /\ c[n] = dealt[sl[n]][q]
    BY <1>1 DEF Holds, InOrder
  <2> QED
    BY <1>3, <2>1
<1>5. Holds(c, sl, lo, hi, S, d, q)
  BY <1>1, <1>4 DEF Holds
<1> QED
  BY <1>2, <1>5 DEF Carries

\* The sender passes a line of somebody else.
LEMMA CarriesSent ==
  ASSUME NEW lo \in Nat, NEW hi \in Nat, NEW S \in SUBSET Nat, hi \notin S,
         NEW dealt, NEW q, NEW c, Carries(c, lo, hi, S, dealt, q)
  PROVE  Carries(c, lo, hi + 1, S, dealt, q)
<1>1. PICK sl : Holds(c, sl, lo, hi, S, dealt, q)
  BY DEF Carries
<1>2. hi + 1 \in Nat /\ hi <= hi + 1 /\ \A s \in S : ~(hi <= s /\ s < hi + 1)
  OBVIOUS
<1>3. InOrder(sl, lo, hi + 1, S)
  BY <1>1, <1>2, SenderAdvances DEF Holds
<1>4. Holds(c, sl, lo, hi + 1, S, dealt, q)
  BY <1>1, <1>3 DEF Holds
<1> QED
  BY <1>4 DEF Carries

\* The reader passes a line that is not the sender's.
LEMMA CarriesPast ==
  ASSUME NEW lo \in Nat, NEW hi \in Nat, NEW S \in SUBSET Nat, lo \notin S,
         NEW dealt, NEW q, NEW c, Carries(c, lo, hi, S, dealt, q)
  PROVE  Carries(c, lo + 1, hi, S, dealt, q)
<1>1. PICK sl : Holds(c, sl, lo, hi, S, dealt, q)
  BY DEF Carries
<1>2. lo + 1 \in Nat /\ lo <= lo + 1 /\ \A s \in S : ~(lo <= s /\ s < lo + 1)
  OBVIOUS
<1>3. InOrder(sl, lo + 1, hi, S)
  BY <1>1, <1>2, ReaderAdvances DEF Holds
<1>4. Holds(c, sl, lo + 1, hi, S, dealt, q)
  BY <1>1, <1>3 DEF Holds
<1> QED
  BY <1>4 DEF Carries

\* The reader reads its share of line lo.
LEMMA CarriesRead ==
  ASSUME NEW lo \in Nat, NEW hi \in Nat, NEW S \in SUBSET Nat, lo \in S,
         NEW dealt, NEW q, NEW c, c # <<>>, Carries(c, lo, hi, S, dealt, q)
  PROVE  Head(c) = dealt[lo][q] /\ Carries(Tail(c), lo + 1, hi, S, dealt, q)
<1>1. PICK sl : Holds(c, sl, lo, hi, S, dealt, q)
  BY DEF Carries
<1>2. /\ c \in Seq(Int) /\ sl \in Seq(Nat) /\ Len(sl) = Len(c) /\ InOrder(sl, lo, hi, S)
      /\ \A n \in 1 .. Len(c) : c[n] = dealt[sl[n]][q]
  BY <1>1 DEF Holds
<1>3. Len(c) \in Nat /\ Len(c) # 0 /\ sl # <<>>
  BY <1>2, EmptySeq, LenProperties
<1>4. Head(sl) = lo
  BY <1>2, <1>3, HeadSlot
<1>5. Head(c) = c[1] /\ Head(sl) = sl[1] /\ 1 \in 1 .. Len(c)
  BY <1>2, <1>3, HeadTailProperties
<1>6. Head(c) = dealt[lo][q]
  BY <1>2, <1>4, <1>5
<1>7. InOrder(Tail(sl), lo + 1, hi, S)
  <2>1. lo + 1 \in Nat /\ lo < lo + 1 /\ \A s \in S : lo <= s /\ s < lo + 1 => s = lo
    OBVIOUS
  <2> QED
    BY <1>2, <1>3, <2>1, ReaderReads
<1>8. /\ Tail(c) \in Seq(Int) /\ Len(Tail(c)) = Len(c) - 1
      /\ \A n \in 1 .. Len(Tail(c)) : Tail(c)[n] = c[n+1]
  BY <1>2, HeadTailProperties
<1>9. /\ Tail(sl) \in Seq(Nat) /\ Len(Tail(sl)) = Len(sl) - 1
      /\ \A n \in 1 .. Len(Tail(sl)) : Tail(sl)[n] = sl[n+1]
  BY <1>2, <1>3, HeadTailProperties
<1>10. ASSUME NEW n \in 1 .. Len(Tail(c)) PROVE Tail(c)[n] = dealt[Tail(sl)[n]][q]
  <2>1. n + 1 \in 1 .. Len(c)
    BY <1>3, <1>8
  <2> QED
    BY <1>2, <1>8, <1>9, <2>1
<1>11. Holds(Tail(c), Tail(sl), lo + 1, hi, S, dealt, q)
  BY <1>2, <1>7, <1>8, <1>9, <1>10 DEF Holds
<1> QED
  BY <1>6, <1>11 DEF Carries

\* Nothing is left once the reader is past the sender's lines.
LEMMA CarriesAll ==
  ASSUME NEW lo \in Nat, NEW S \in SUBSET Nat,
         NEW dealt, NEW q, NEW c, Carries(c, lo, lo, S, dealt, q)
  PROVE  c = <<>>
<1>1. PICK sl : Holds(c, sl, lo, lo, S, dealt, q)
  BY DEF Carries
<1>2. c \in Seq(Int) /\ Len(sl) = Len(c) /\ Len(c) \in Nat /\ sl \in Seq(Nat)
  BY <1>1, LenProperties DEF Holds
<1>3. ASSUME Len(c) # 0 PROVE FALSE
  <2>1. 1 \in 1 .. Len(sl) /\ sl[1] \in Nat
    BY <1>2, <1>3, ElementOfSeq
  <2>2. lo <= sl[1] /\ sl[1] < lo
    BY <1>1, <2>1 DEF Holds, InOrder
  <2> QED
    BY <2>1, <2>2
<1> QED
  BY <1>2, <1>3, EmptySeq

-----------------------------------------------------------------------------
(***************************************************************************)
(* The inductive invariant.                                                *)
(***************************************************************************)
Line == [owner : Int, value : Int]

TypeOK ==
  /\ file \in [Party -> Seq(InputLines)]
  /\ input \in [Party -> Seq(Line)]
  /\ pc \in [Party -> {"parse", "setup", "share", "evaluate", "threw", "undefined"}]
  /\ line \in [Party -> Nat \ {0}]
  /\ shares \in [Party -> [1 .. NumShares -> Int]]
  /\ chan \in [Party -> [Party -> Seq(Int)]]

\* Until the last party is through the setup nobody sends.
Before ==
  \A p \in Party :
    /\ pc[p] \in {"parse", "setup", "threw", "undefined"}
    /\ pc[p] # "setup" => input[p] = <<>>
    /\ line[p] = 1 /\ \A q \in Party : chan[p][q] = <<>>

After == \A p \in Party : pc[p] \in {"share", "evaluate", "threw", "undefined"}

\* SameOwners, but for the control.
SameFiles ==
  /\ \A p \in Party : Len(input[p]) <= NumShares
  /\ \A p, q \in Party :
       /\ DOMAIN input[p] = DOMAIN input[q] /\ input[p] # <<>>
       /\ \A x \in DOMAIN input[p] : input[p][x].owner = input[q][x].owner

\* The owners of the lines, then.
Count == Len(input[0])
OwnerOf(x) == input[0][x].owner
LinesOf(p) == {x \in 1 .. Count : OwnerOf(x) = p}

\* How far p is: all lines before its own name a party.
PlaceOf(p) ==
  /\ line[p] \in 1 .. Count + 1
  /\ \A x \in 1 .. Count : x < line[p] => OwnerOf(x) \in Party
  /\ pc[p] \in {"share", "evaluate", "threw"}
  /\ pc[p] = "threw" => line[p] <= Count /\ OwnerOf(line[p]) \notin Party
  /\ pc[p] = "evaluate" => line[p] = Count + 1

\* Its shares are those dealt, and those it dealt are shares of its values.
SharesOf(p, dealt) ==
  /\ \A x \in 1 .. Count : x < line[p] => shares[p][x] = dealt[x][p]
  /\ \A x \in LinesOf(p) : x < line[p] => dealt[x] \in GenerateShares(p, input[p][x].value)

ChannelsOf(p, dealt) ==
  /\ chan[p][p] = <<>>
  /\ \A q \in Party \ {p} : Carries(chan[p][q], line[q], line[p], LinesOf(p), dealt, q)

Shared(dealt) ==
  \A p \in Party : PlaceOf(p) /\ SharesOf(p, dealt) /\ ChannelsOf(p, dealt)

InputsInv ==
  /\ TypeOK
  /\ Before \/ (After /\ (SameFiles => \E dealt \in Deals : Shared(dealt)))

-----------------------------------------------------------------------------
LEMMA PartyZero == N \in Nat /\ 0 \in Party /\ NumShares \in Nat
  BY InputsAssumption DEF Party

\* What generate_shares returns: ints that recombine to the target, and bits but
\* for the owner's.
LEMMA ParityIsBit ==
  ASSUME NEW p \in Party, NEW bits, DOMAIN bits = Party \ {p}
  PROVE  Parity(bits) \in Bit
<1>1. IsFiniteSet(Party)
  BY InputsAssumption, FS_Interval DEF Party
<1>2. IsFiniteSet({q \in Party \ {p} : bits[q] = 1})
  BY <1>1, FS_Subset
<1>3. PICK c \in Nat : c = Cardinality({q \in Party \ {p} : bits[q] = 1})
  BY <1>2, FS_CardinalityType
<1>4. c % 2 \in Bit
  BY DEF Bit
<1> QED
  BY <1>3, <1>4 DEF Parity

LEMMA XorTwice ==
  ASSUME NEW x \in Int, NEW b \in Bit
  PROVE  IntXor(x, b) \in Int /\ IntXor(IntXor(x, b), b) = x
<1>1. CASE b = 0
  BY <1>1 DEF IntXor
<1>2. CASE b = 1
  BY <1>2 DEF IntXor
<1> QED
  BY <1>1, <1>2 DEF Bit

LEMMA SharesOfTarget ==
  ASSUME NEW p \in Party, NEW target \in Int, NEW s \in GenerateShares(p, target)
  PROVE  /\ s \in [Party -> Int]
         /\ Recombined(p, s) = target
         /\ \A q \in Party : q # p => s[q] \in Bit
<1>1. PICK bits \in [Party \ {p} -> Bit] :
        s = [q \in Party |-> IF q = p THEN IntXor(target, Parity(bits)) ELSE bits[q]]
  BY DEF GenerateShares
<1>2. Parity(bits) \in Bit
  BY ParityIsBit
<1>3. s[p] = IntXor(target, Parity(bits)) /\ s[p] \in Int
  BY <1>1, <1>2, XorTwice
<1>4. \A q \in Party : q # p => s[q] = bits[q] /\ s[q] \in Bit
  BY <1>1
<1>5. \A q \in Party : s[q] \in Int
  BY <1>3, <1>4 DEF Bit
<1>6. bits = [q \in Party \ {p} |-> s[q]]
  BY <1>4
<1>7. Recombined(p, s) = target
  BY <1>2, <1>3, <1>6, XorTwice DEF Recombined
<1> QED
  BY <1>1, <1>4, <1>5, <1>7

LEMMA FileFacts ==
  ASSUME TypeOK, SameFiles
  PROVE  /\ Count \in Nat /\ 0 < Count /\ Count <= NumShares
         /\ \A p \in Party : LinesOf(p) \in SUBSET Nat
         /\ \A p \in Party : /\ Len(input[p]) = Count /\ DOMAIN input[p] = 1 .. Count
                             /\ \A x \in 1 .. Count : input[p][x].owner = OwnerOf(x)
<1>1. \A p \in Party : /\ Len(input[p]) \in Nat /\ DOMAIN input[p] = 1 .. Len(input[p])
  BY LenProperties DEF TypeOK
<1>2. Count \in Nat /\ DOMAIN input[0] = 1 .. Count /\ 0 < Count /\ Count <= NumShares
  <2>1. input[0] \in Seq(Line) /\ input[0] # <<>> /\ Len(input[0]) <= NumShares
    BY PartyZero DEF TypeOK, SameFiles
  <2>2. Len(input[0]) \in Nat \ {0} /\ DOMAIN input[0] = 1 .. Len(input[0])
    BY <1>1, <2>1, EmptySeq, PartyZero
  <2> QED
    BY <2>1, <2>2 DEF Count
<1>3. ASSUME NEW p \in Party
      PROVE  /\ Len(input[p]) = Count /\ DOMAIN input[p] = 1 .. Count
             /\ \A x \in 1 .. Count : input[p][x].owner = OwnerOf(x)
  <2>1. /\ DOMAIN input[p] = DOMAIN input[0]
        /\ \A x \in DOMAIN input[0] : input[0][x].owner = input[p][x].owner
    BY PartyZero DEF SameFiles
  <2>2. 1 .. Len(input[p]) = 1 .. Count /\ Len(input[p]) \in Nat
    BY <1>1, <1>2, <2>1
  <2>3. Len(input[p]) = Count
    BY <1>2, <2>2
  <2> QED
    BY <1>2, <2>1, <2>3 DEF OwnerOf
<1> QED
  BY <1>2, <1>3 DEF LinesOf

LEMMA InitInv == InputsInit => InputsInv
<1> SUFFICES ASSUME InputsInit PROVE InputsInv
  OBVIOUS
<1>1. \A k \in 0 .. MaxLines : \A f \in [1 .. k -> InputLines] : f \in Seq(InputLines)
  <2> SUFFICES ASSUME NEW k \in 0 .. MaxLines, NEW f \in [1 .. k -> InputLines]
               PROVE  f \in Seq(InputLines)
    OBVIOUS
  <2>1. k \in Nat
    BY InputsAssumption
  <2> QED
    BY <2>1, SeqDef
<1>2. file \in [Party -> Seq(InputLines)]
  <2>1. /\ file \in [Party -> UNION {[1 .. k -> InputLines] : k \in 0 .. MaxLines}]
    BY DEF InputsInit
  <2>2. \A p \in Party : file[p] \in Seq(InputLines)
    BY <1>1, <2>1
  <2> QED
    BY <2>1, <2>2
<1>3. input \in [Party -> Seq(Line)] /\ \A p \in Party : input[p] = <<>>
  <2>1. <<>> \in Seq(Line)
    BY EmptySeq
  <2> QED
    BY <2>1 DEF InputsInit
<1>4. chan \in [Party -> [Party -> Seq(Int)]] /\ \A p, q \in Party : chan[p][q] = <<>>
  <2>1. <<>> \in Seq(Int)
    BY EmptySeq
  <2> QED
    BY <2>1 DEF InputsInit
<1>5. line \in [Party -> Nat \ {0}] /\ shares \in [Party -> [1 .. NumShares -> Int]]
  BY DEF InputsInit
<1>6. pc \in [Party -> {"parse", "setup", "share", "evaluate", "threw", "undefined"}]
  BY DEF InputsInit
<1>7. Before
  BY <1>3, <1>4 DEF Before, InputsInit
<1> QED
  BY <1>2, <1>3, <1>4, <1>5, <1>6, <1>7 DEF InputsInv, TypeOK

-----------------------------------------------------------------------------
(***************************************************************************)
(* The steps before the sharing.                                           *)
(***************************************************************************)
\* A line that can be parsed begins with two numbers.
LEMMA GoodLine ==
  ASSUME NEW parts \in InputLines, LineOutcome(parts) = "good"
  PROVE  parts[1] \in Int /\ parts[2] \in Int
<1>1. parts \in Seq(Int \cup {NaN}) /\ parts # <<>>
  BY InputsAssumption DEF LineOutcome
<1>2. PICK k \in Nat : k = Len(parts) /\ k # 0 /\ k # 1
  BY <1>1, EmptySeq DEF LineOutcome
<1>3. parts[1] \in Int \cup {NaN} /\ parts[2] \in Int \cup {NaN}
  <2>1. 1 \in 1 .. k /\ 2 \in 1 .. k
    BY <1>2
  <2> QED
    BY <1>1, <1>2, <2>1, ElementOfSeq
<1>4. parts[1] # NaN /\ parts[2] # NaN
  BY DEF LineOutcome
<1> QED
  BY <1>3, <1>4

LEMMA ParseStep ==
  ASSUME InputsInv, NEW p \in Party, ParseInput(p)
  PROVE  InputsInv'
<1>1. TypeOK /\ Before
  <2>1. ~After
    BY DEF After, ParseInput
  <2> QED
    BY <2>1 DEF InputsInv
<1>2. PICK pieces : pieces = StringSplit(file[p])
  OBVIOUS
<1>3. pieces \in Seq(InputLines)
  <2>1. file[p] \in Seq(InputLines)
    BY <1>1 DEF TypeOK
  <2>2. ASSUME file[p] # <<>> PROVE Front(file[p]) \in Seq(InputLines)
    <3>1. Len(file[p]) \in Nat /\ Len(file[p]) # 0
      BY <2>1, <2>2, EmptySeq
    <3>2. SubSeq(file[p], 1, Len(file[p]) - 1) \in Seq(InputLines)
      <4>1. 1 \in Int /\ Len(file[p]) - 1 \in Int
        BY <3>1
      <4>2. \A x \in 1 .. Len(file[p]) - 1 : file[p][x] \in InputLines
        BY <2>1, <3>1, ElementOfSeq
      <4> QED
        BY <2>1, <3>1, <4>1, <4>2
    <3> QED
      BY <3>2 DEF Front
  <2> QED
    BY <1>2, <2>1, <2>2 DEF StringSplit
<1>4. CASE /\ Goto(p, "setup")
           /\ \A x \in DOMAIN pieces : LineOutcome(pieces[x]) = "good"
           /\ input' = [input EXCEPT ![p] =
                [x \in DOMAIN pieces |-> [owner |-> pieces[x][1], value |-> pieces[x][2]]]]
  <2>1. [x \in DOMAIN pieces |-> [owner |-> pieces[x][1], value |-> pieces[x][2]]] \in Seq(Line)
    <3>1. Len(pieces) \in Nat /\ DOMAIN pieces = 1 .. Len(pieces)
      BY <1>3, LenProperties
    <3>2. ASSUME NEW x \in 1 .. Len(pieces)
          PROVE  [owner |-> pieces[x][1], value |-> pieces[x][2]] \in Line
      <4>1. pieces[x] \in InputLines /\ LineOutcome(pieces[x]) = "good"
        BY <1>3, <1>4, <3>1, ElementOfSeq
      <4> QED
        BY <4>1, GoodLine DEF Line
    <3> QED
      BY <3>1, <3>2
  <2>2. TypeOK'
    BY <1>1, <1>4, <2>1 DEF TypeOK, ParseInput, Goto
  <2>3. ASSUME NEW r \in Party
        PROVE  /\ pc'[r] \in {"parse", "setup", "threw", "undefined"}
               /\ pc'[r] # "setup" => input'[r] = <<>>
    <3>1. CASE r = p
      BY <1>1, <1>4, <3>1 DEF Before, ParseInput, Goto, TypeOK
    <3>2. CASE r # p
      <4>1. input'[r] = input[r] /\ pc'[r] = pc[r]
        BY <1>1, <1>4, <3>2 DEF Goto, TypeOK
      <4> QED
        BY <1>1, <4>1 DEF Before
    <3> QED
      BY <3>1, <3>2
  <2>4. Before'
    BY <1>1, <2>3 DEF Before, ParseInput
  <2> QED
    BY <2>2, <2>4 DEF InputsInv
<1>5. CASE /\ \E x \in DOMAIN pieces :
                Goto(p, LineOutcome(pieces[x])) /\ LineOutcome(pieces[x]) # "good"
           /\ UNCHANGED input
  <2>1. PICK x \in DOMAIN pieces :
          Goto(p, LineOutcome(pieces[x])) /\ LineOutcome(pieces[x]) # "good"
    BY <1>5
  <2>2. LineOutcome(pieces[x]) \in {"threw", "undefined"}
    BY <2>1 DEF LineOutcome
  <2>3. input[p] = <<>>
    BY <1>1 DEF Before, ParseInput
  <2>4. Before'
    BY <1>1, <1>5, <2>1, <2>2, <2>3 DEF Before, ParseInput, Goto, TypeOK
  <2>5. TypeOK'
    BY <1>1, <1>5, <2>1, <2>2 DEF TypeOK, ParseInput, Goto
  <2> QED
    BY <2>4, <2>5 DEF InputsInv
<1> QED
  BY <1>2, <1>4, <1>5 DEF ParseInput

LEMMA SetupStep ==
  ASSUME InputsInv, Setup
  PROVE  InputsInv'
<1>1. TypeOK /\ Before
  <2>1. ~After
    BY PartyZero DEF After, Setup
  <2> QED
    BY <2>1 DEF InputsInv
<1>2. UNCHANGED <<file, input, line, shares, chan>> /\ \A p \in Party : pc'[p] = "share"
  BY DEF Setup
<1>3. TypeOK' /\ After'
  BY <1>1, <1>2 DEF TypeOK, After, Setup
<1>4. ASSUME SameFiles' PROVE \E dealt \in Deals : Shared(dealt)'
  <2>1. SameFiles
    BY <1>2, <1>4 DEF SameFiles
  <2>2. PICK dealt \in Deals : TRUE
    <3>1. [x \in Nat |-> [p \in Party |-> 0]] \in Deals
      BY DEF Deals
    <3> QED
      BY <3>1
  <2>3. Count \in Nat /\ \A p \in Party : LinesOf(p) \in SUBSET Nat
    BY <1>1, <2>1, FileFacts
  <2>4. \A p \in Party : line[p] = 1 /\ \A q \in Party : chan[p][q] = <<>>
    BY <1>1 DEF Before
  <2>5. Count' = Count /\ \A p : LinesOf(p)' = LinesOf(p)
    BY <1>2 DEF Count, LinesOf, OwnerOf
  <2>6. ASSUME NEW p \in Party PROVE PlaceOf(p)' /\ SharesOf(p, dealt)' /\ ChannelsOf(p, dealt)'
    <3>1. PlaceOf(p)'
      BY <1>2, <2>3, <2>4, <2>5 DEF PlaceOf
    <3>2. SharesOf(p, dealt)'
      <4>1. \A x \in 1 .. Count : ~(x < 1)
        BY <2>3
      <4>2. \A x \in LinesOf(p) : x \in 1 .. Count
        BY DEF LinesOf
      <4> QED
        BY <1>2, <2>4, <2>5, <4>1, <4>2 DEF SharesOf
    <3>3. ASSUME NEW q \in Party \ {p}
          PROVE  Carries(chan[p][q], line[q], line[p], LinesOf(p), dealt, q)
      BY <2>3, <2>4, CarriesNothing
    <3>4. ChannelsOf(p, dealt)'
      BY <1>2, <2>4, <2>5, <3>3 DEF ChannelsOf
    <3> QED
      BY <3>1, <3>2, <3>4
  <2> QED
    BY <2>6 DEF Shared
<1> QED
  BY <1>3, <1>4 DEF InputsInv

-----------------------------------------------------------------------------
(***************************************************************************)
(* The steps of the sharing.                                               *)
(***************************************************************************)
\* What p knows while it shares.
LEMMA SharingFacts ==
  ASSUME InputsInv, NEW p \in Party, pc[p] = "share"
  PROVE  TypeOK /\ After /\ (SameFiles => \E dealt \in Deals : Shared(dealt))
<1>1. ~Before
  BY DEF Before
<1> QED
  BY <1>1 DEF InputsInv

\* It is enough to look at equal files.
LEMMA SharingStep ==
  ASSUME InputsInv, NEW p \in Party, pc[p] = "share", TypeOK', After', UNCHANGED input,
         \A dealt \in Deals : SameFiles /\ Shared(dealt) => \E d \in Deals : Shared(d)'
  PROVE  InputsInv'
<1>1. SameFiles' => SameFiles
  BY DEF SameFiles
<1> QED
  BY <1>1, SharingFacts DEF InputsInv

\* The line p is at.
LEMMA AtLine ==
  ASSUME TypeOK, SameFiles, NEW dealt \in Deals, Shared(dealt), NEW p \in Party, Sharing(p)
  PROVE  /\ Count \in Nat /\ line[p] \in 1 .. Count /\ line[p] <= NumShares
         /\ Owner(p) = OwnerOf(line[p])
         /\ \A r \in Party : line[p] \in LinesOf(r) <=> Owner(p) = r
<1>1. Count \in Nat /\ Count <= NumShares /\ Len(input[p]) = Count
      /\ \A x \in 1 .. Count : input[p][x].owner = OwnerOf(x)
  BY FileFacts
<1>2. line[p] \in 1 .. Count + 1 /\ line[p] <= Count
  BY <1>1 DEF Sharing, Shared, PlaceOf
<1>3. line[p] \in 1 .. Count /\ line[p] <= NumShares
  BY <1>1, <1>2, PartyZero
<1> QED
  BY <1>1, <1>3 DEF Owner, LinesOf

\* p moves on to the next line.
LEMMA NextPlace ==
  ASSUME TypeOK, SameFiles, NEW dealt \in Deals, Shared(dealt), NEW p \in Party, Sharing(p),
         Owner(p) \in Party, UNCHANGED <<input, pc>>, line' = [line EXCEPT ![p] = @ + 1]
  PROVE  \A r \in Party : PlaceOf(r)'
<1>1. Count \in Nat /\ line[p] \in 1 .. Count /\ Owner(p) = OwnerOf(line[p])
  BY AtLine
<1>2. Count' = Count /\ \A x : OwnerOf(x)' = OwnerOf(x)
  BY DEF Count, OwnerOf
<1>3. SUFFICES ASSUME NEW r \in Party PROVE PlaceOf(r)'
  OBVIOUS
<1>4. PlaceOf(r)
  BY DEF Shared
<1>5. CASE r # p
  <2>1. line'[r] = line[r] /\ pc'[r] = pc[r]
    BY <1>5 DEF TypeOK
  <2> QED
    BY <1>2, <1>4, <2>1 DEF PlaceOf
<1>6. CASE r = p
  <2>1. line'[r] = line[r] + 1 /\ pc'[r] = "share"
    BY <1>6 DEF TypeOK, Sharing
  <2>2. PICK x \in 1 .. Count : x = line[r]
    BY <1>1, <1>6
  <2>3. line'[r] \in 1 .. Count + 1
    BY <1>1, <2>1, <2>2
  <2>4. ASSUME NEW j \in 1 .. Count, j < line'[r] PROVE OwnerOf(j) \in Party
    <3>1. j = x \/ j < x
      BY <1>1, <2>1, <2>2, <2>4
    <3> QED
      BY <1>1, <1>4, <1>6, <2>2, <3>1 DEF PlaceOf
  <2> QED
    BY <1>2, <2>1, <2>3, <2>4 DEF PlaceOf
<1> QED
  BY <1>5, <1>6

\* The value on the line p is at.
LEMMA SharedValue ==
  ASSUME TypeOK, NEW p \in Party, Sharing(p)
  PROVE  input[p][line[p]].value \in Int
<1>1. input[p] \in Seq(Line) /\ line[p] \in 1 .. Len(input[p])
  BY LenProperties DEF TypeOK, Sharing
<1>2. input[p][line[p]] \in Line
  BY <1>1, ElementOfSeq
<1> QED
  BY <1>2 DEF Line

LEMMA DealStep ==
  ASSUME InputsInv, NEW p \in Party, Deal(p)
  PROVE  InputsInv'
<1>1. pc[p] = "share" /\ UNCHANGED <<file, input, pc>> /\ Sharing(p) /\ Owner(p) = p
  BY DEF Deal, Sharing
<1>2. TypeOK /\ After
  BY <1>1, SharingFacts
<1>3. PICK s \in [Party -> Int] :
        /\ s \in GenerateShares(p, input[p][line[p]].value)
        /\ chan' = [chan EXCEPT ![p] = [q \in Party |->
                      IF q = p THEN @[q] ELSE Append(@[q], s[q])]]
        /\ Store(p, s[p])
  <2>1. PICK s \in GenerateShares(p, input[p][line[p]].value) :
          /\ chan' = [chan EXCEPT ![p] = [q \in Party |->
                        IF q = p THEN @[q] ELSE Append(@[q], s[q])]]
          /\ Store(p, s[p])
    BY DEF Deal
  <2>2. input[p][line[p]].value \in Int
    BY <1>1, <1>2, SharedValue
  <2>3. s \in [Party -> Int]
    BY <2>2, SharesOfTarget
  <2> QED
    BY <2>1, <2>3
<1>4. /\ \A r, q \in Party : chan'[r][q] = IF r = p /\ q # p THEN Append(chan[p][q], s[q])
                                                          ELSE chan[r][q]
      /\ chan' \in [Party -> [Party -> Seq(Int)]]
  <2>1. ASSUME NEW q \in Party
        PROVE  chan[p][q] \in Seq(Int) /\ Append(chan[p][q], s[q]) \in Seq(Int)
    <3>1. chan[p][q] \in Seq(Int) /\ s[q] \in Int
      BY <1>2 DEF TypeOK
    <3> QED
      BY <3>1, AppendProperties
  <2>2. PICK row : row = [q \in Party |-> IF q = p THEN chan[p][q] ELSE Append(chan[p][q], s[q])]
    OBVIOUS
  <2>3. row \in [Party -> Seq(Int)]
    BY <2>1, <2>2
  <2>4. chan' = [chan EXCEPT ![p] = row] /\ chan \in [Party -> [Party -> Seq(Int)]]
    BY <1>2, <1>3, <2>2 DEF TypeOK
  <2> QED
    BY <2>2, <2>3, <2>4
<1>5. line' = [line EXCEPT ![p] = @ + 1] /\ shares' = [shares EXCEPT ![p][line[p]] = s[p]]
  BY <1>3 DEF Store
<1>6. line' \in [Party -> Nat \ {0}] /\ shares' \in [Party -> [1 .. NumShares -> Int]]
  <2>1. PICK row : row = [shares[p] EXCEPT ![line[p]] = s[p]]
    OBVIOUS
  <2>2. row \in [1 .. NumShares -> Int]
    BY <1>2, <1>3, <2>1 DEF TypeOK
  <2>3. shares' = [shares EXCEPT ![p] = row]
    BY <1>2, <1>5, <2>1 DEF TypeOK
  <2>4. shares' \in [Party -> [1 .. NumShares -> Int]]
    BY <1>2, <2>2, <2>3 DEF TypeOK
  <2>5. line' \in [Party -> Nat \ {0}]
    BY <1>2, <1>5 DEF TypeOK
  <2> QED
    BY <2>4, <2>5
<1>7. TypeOK' /\ After'
  BY <1>1, <1>2, <1>4, <1>6 DEF TypeOK, After
<1>8. ASSUME NEW dealt \in Deals, SameFiles, Shared(dealt)
      PROVE  \E d \in Deals : Shared(d)'
  <2>1. /\ Count \in Nat /\ line[p] \in 1 .. Count /\ line[p] <= NumShares
        /\ \A r \in Party : line[p] \in LinesOf(r) <=> p = r
    BY <1>1, <1>2, <1>8, AtLine
  <2>2. PICK x \in Nat : x = line[p] /\ x \in 1 .. NumShares
    BY <2>1, PartyZero
  <2>3. PICK d \in Deals : d = [dealt EXCEPT ![x] = s]
    <3>1. [dealt EXCEPT ![x] = s] \in Deals
      BY <1>3 DEF Deals
    <3> QED
      BY <3>1
  <2>4. d[x] = s /\ \A j \in Nat : j # x => d[j] = dealt[j]
    BY <2>3 DEF Deals
  <2>5. \A r \in Party : LinesOf(r) \in SUBSET Nat /\ LinesOf(r)' = LinesOf(r)
    BY <1>1 DEF LinesOf, Count, OwnerOf
  <2>6. \A r \in Party : line[r] \in Nat /\ line'[r] = IF r = p THEN x + 1 ELSE line[r]
    BY <1>2, <1>5, <2>2 DEF TypeOK
  <2>7. \A r \in Party : PlaceOf(r) /\ SharesOf(r, dealt) /\ ChannelsOf(r, dealt)
    BY <1>8 DEF Shared
  <2>8. \A r \in Party : r # p => line[r] <= x
    <3> SUFFICES ASSUME NEW r \in Party, r # p PROVE line[r] <= x
      OBVIOUS
    <3>1. Carries(chan[p][r], line[r], x, LinesOf(p), dealt, r)
      BY <2>2, <2>7 DEF ChannelsOf
    <3>2. \A m \in LinesOf(p) : m < line[r] => m < x
      BY <3>1 DEF Carries, Holds, InOrder
    <3>3. x \in LinesOf(p)
      BY <2>1, <2>2
    <3> QED
      BY <2>6, <3>2, <3>3
  <2>9. \A r \in Party : \A j \in 1 .. NumShares :
          shares'[r][j] = IF r = p /\ j = x THEN s[p] ELSE shares[r][j]
    <3>1. PICK row : row = [shares[p] EXCEPT ![x] = s[p]]
      OBVIOUS
    <3>2. shares' = [shares EXCEPT ![p] = row] /\ shares \in [Party -> [1 .. NumShares -> Int]]
      BY <1>2, <1>5, <2>2, <3>1 DEF TypeOK
    <3> QED
      BY <2>2, <3>1, <3>2
  <2>10. \A r \in Party : PlaceOf(r)'
    BY <1>1, <1>2, <1>5, <1>8, NextPlace
  <2>11. \A r \in Party : SharesOf(r, d)'
    <3>1. Count' = Count /\ Count <= NumShares
      BY <1>1, <1>2, <1>8, FileFacts DEF Count
    <3> SUFFICES ASSUME NEW r \in Party PROVE SharesOf(r, d)'
      OBVIOUS
    <3>2. ASSUME NEW j \in 1 .. Count, j < line'[r]
          PROVE  \/ j = x /\ r = p
                 \/ j # x /\ j < line[r] /\ d[j] = dealt[j] /\ shares'[r][j] = shares[r][j]
      <4>1. j \in Nat /\ j \in 1 .. NumShares
        BY <2>1, <3>1, PartyZero
      <4>2. CASE r = p
        <5>1. j = x \/ j < x
          BY <2>6, <3>2, <4>1, <4>2
        <5>2. j < x => j # x /\ x = line[r]
          BY <2>2, <4>1, <4>2
        <5> QED
          BY <2>4, <2>9, <4>1, <4>2, <5>1, <5>2
      <4>3. CASE r # p
        <5>1. j < line[r] /\ line[r] <= x /\ line[r] \in Nat
          BY <2>6, <2>8, <3>2, <4>3
        <5>2. j # x
          BY <4>1, <5>1
        <5> QED
          BY <2>4, <2>9, <4>1, <4>3, <5>1, <5>2
      <4> QED
        BY <4>2, <4>3
    <3>3. ASSUME NEW j \in 1 .. Count, j < line'[r] PROVE shares'[r][j] = d[j][r]
      <4>1. CASE j = x /\ r = p
        BY <2>2, <2>4, <2>9, <4>1
      <4>2. CASE j < line[r] /\ d[j] = dealt[j] /\ shares'[r][j] = shares[r][j]
        BY <2>7, <4>2 DEF SharesOf
      <4> QED
        BY <3>2, <3>3, <4>1, <4>2
    <3>4. ASSUME NEW j \in LinesOf(r), j < line'[r] PROVE d[j] \in GenerateShares(r, input[r][j].value)
      <4>0. j \in 1 .. Count
        BY DEF LinesOf
      <4>1. CASE j = x /\ r = p
        BY <1>3, <2>2, <2>4, <4>1
      <4>2. CASE j < line[r] /\ d[j] = dealt[j]
        BY <2>7, <4>2 DEF SharesOf
      <4> QED
        BY <3>2, <3>4, <4>0, <4>1, <4>2
    <3> QED
      BY <1>1, <2>5, <3>1, <3>3, <3>4 DEF SharesOf
  <2>12. ASSUME NEW r \in Party, NEW q \in Party \ {r}
         PROVE  Carries(chan'[r][q], line'[q], line'[r], LinesOf(r), d, q)
    <3>1. Carries(chan[r][q], line[q], line[r], LinesOf(r), dealt, q)
      BY <2>7 DEF ChannelsOf
    <3>2. line[q] \in Nat /\ line[r] \in Nat /\ LinesOf(r) \in SUBSET Nat /\ q \in Party
      BY <2>5, <2>6
    <3>3. CASE r = p
      <4>1. x \in LinesOf(p) /\ line'[q] = line[q] /\ line'[r] = x + 1 /\ line[r] = x
        BY <2>1, <2>2, <2>6, <3>3
      <4>2. chan'[r][q] = Append(chan[r][q], s[q])
        BY <1>4, <3>3
      <4>3. Carries(Append(chan[r][q], s[q]), line[q], x + 1, LinesOf(r), d, q)
        BY <2>3, <3>1, <3>2, <3>3, <4>1, CarriesMore
      <4> QED
        BY <4>1, <4>2, <4>3
    <3>4. CASE r # p
      <4>1. x \notin LinesOf(r) /\ line'[r] = line[r] /\ chan'[r][q] = chan[r][q]
        BY <1>4, <2>1, <2>2, <2>6, <3>4
      <4>2. Carries(chan[r][q], line[q], line[r], LinesOf(r), d, q)
        BY <2>3, <3>1, <3>2, <4>1, CarriesSame
      <4>3. CASE q = p
        <5>1. line[q] = x /\ line'[q] = x + 1
          BY <2>2, <2>6, <4>3
        <5>2. Carries(chan[r][q], x + 1, line[r], LinesOf(r), d, q)
          BY <3>2, <4>1, <4>2, <5>1, CarriesPast
        <5> QED
          BY <4>1, <5>1, <5>2
      <4>4. CASE q # p
        BY <2>6, <4>1, <4>2, <4>4
      <4> QED
        BY <4>3, <4>4
    <3> QED
      BY <3>3, <3>4
  <2>13. \A r \in Party : ChannelsOf(r, d)'
    <3>1. \A r \in Party : chan'[r][r] = <<>>
      BY <1>4, <2>7 DEF ChannelsOf
    <3> QED
      BY <2>5, <2>12, <3>1 DEF ChannelsOf
  <2> QED
    BY <2>10, <2>11, <2>13 DEF Shared
<1> QED
  BY <1>1, <1>7, <1>8, SharingStep

LEMMA ReceiveStep ==
  ASSUME InputsInv, NEW p \in Party, Receive(p)
  PROVE  InputsInv'
<1>1. pc[p] = "share" /\ UNCHANGED <<file, input, pc>> /\ Sharing(p)
  BY DEF Receive, Sharing
<1>2. TypeOK /\ After
  BY <1>1, SharingFacts
<1>3. PICK o \in Party \ {p} : o = Owner(p)
  BY DEF Receive
<1>4. chan[o][p] # <<>> /\ chan' = [chan EXCEPT ![o][p] = Tail(@)]
      /\ Store(p, Head(chan[o][p]))
  BY <1>3 DEF Receive
<1>5. chan[o][p] \in Seq(Int) /\ Head(chan[o][p]) \in Int /\ Tail(chan[o][p]) \in Seq(Int)
  <2>1. chan[o][p] \in Seq(Int)
    BY <1>2 DEF TypeOK
  <2> QED
    BY <1>4, <2>1, HeadTailProperties
<1>6. /\ \A r, q \in Party : chan'[r][q] = IF r = o /\ q = p THEN Tail(chan[o][p]) ELSE chan[r][q]
      /\ chan' \in [Party -> [Party -> Seq(Int)]]
  <2>1. PICK row : row = [chan[o] EXCEPT ![p] = Tail(chan[o][p])]
    OBVIOUS
  <2>2. row \in [Party -> Seq(Int)]
    BY <1>2, <1>5, <2>1 DEF TypeOK
  <2>3. chan' = [chan EXCEPT ![o] = row] /\ chan \in [Party -> [Party -> Seq(Int)]]
    BY <1>2, <1>4, <2>1 DEF TypeOK
  <2> QED
    BY <1>2, <2>1, <2>2, <2>3
<1>7. /\ line' = [line EXCEPT ![p] = @ + 1]
      /\ shares' = [shares EXCEPT ![p][line[p]] = Head(chan[o][p])]
  BY <1>4 DEF Store
<1>8. line' \in [Party -> Nat \ {0}] /\ shares' \in [Party -> [1 .. NumShares -> Int]]
      /\ \A r \in Party : \A j \in 1 .. NumShares :
           shares'[r][j] = IF r = p /\ j = line[p] THEN Head(chan[o][p]) ELSE shares[r][j]
  <2>1. PICK row : row = [shares[p] EXCEPT ![line[p]] = Head(chan[o][p])]
    OBVIOUS
  <2>2. row \in [1 .. NumShares -> Int]
    BY <1>2, <1>5, <2>1 DEF TypeOK
  <2>3. shares' = [shares EXCEPT ![p] = row]
    BY <1>2, <1>7, <2>1 DEF TypeOK
  <2>4. shares' \in [Party -> [1 .. NumShares -> Int]]
    BY <1>2, <2>2, <2>3 DEF TypeOK
  <2>5. line' \in [Party -> Nat \ {0}]
    BY <1>2, <1>7 DEF TypeOK
  <2>6. \A r \in Party : \A j \in 1 .. NumShares :
          shares'[r][j] = IF r = p /\ j = line[p] THEN Head(chan[o][p]) ELSE shares[r][j]
    BY <1>2, <2>1, <2>3 DEF TypeOK
  <2> QED
    BY <2>4, <2>5, <2>6
<1>9. TypeOK' /\ After'
  BY <1>1, <1>2, <1>6, <1>8 DEF TypeOK, After
<1>10. ASSUME NEW dealt \in Deals, SameFiles, Shared(dealt)
       PROVE  Shared(dealt)'
  <2>1. /\ Count \in Nat /\ line[p] \in 1 .. Count /\ line[p] <= NumShares
        /\ \A r \in Party : line[p] \in LinesOf(r) <=> o = r
    BY <1>1, <1>2, <1>3, <1>10, AtLine
  <2>2. PICK x \in Nat : x = line[p] /\ x \in 1 .. NumShares
    BY <2>1, PartyZero
  <2>3. \A r \in Party : LinesOf(r) \in SUBSET Nat /\ LinesOf(r)' = LinesOf(r)
    BY <1>1 DEF LinesOf, Count, OwnerOf
  <2>4. \A r \in Party : line[r] \in Nat /\ line'[r] = IF r = p THEN x + 1 ELSE line[r]
    BY <1>2, <1>7, <2>2 DEF TypeOK
  <2>5. \A r \in Party : PlaceOf(r) /\ SharesOf(r, dealt) /\ ChannelsOf(r, dealt)
    BY <1>10 DEF Shared
  <2>6. \A r \in Party : PlaceOf(r)'
    BY <1>1, <1>2, <1>3, <1>7, <1>10, NextPlace
  <2>7. /\ Head(chan[o][p]) = dealt[x][p]
        /\ Carries(Tail(chan[o][p]), x + 1, line[o], LinesOf(o), dealt, p)
    <3>1. Carries(chan[o][p], x, line[o], LinesOf(o), dealt, p)
      BY <1>3, <2>2, <2>5 DEF ChannelsOf
    <3>2. line[o] \in Nat /\ LinesOf(o) \in SUBSET Nat /\ x \in LinesOf(o)
      BY <1>3, <2>1, <2>2, <2>3, <2>4
    <3> QED
      BY <1>4, <3>1, <3>2, CarriesRead
  <2>8. \A r \in Party : SharesOf(r, dealt)'
    <3>1. Count' = Count /\ Count <= NumShares
      BY <1>1, <1>2, <1>10, FileFacts DEF Count
    <3> SUFFICES ASSUME NEW r \in Party PROVE SharesOf(r, dealt)'
      OBVIOUS
    <3>2. ASSUME NEW j \in 1 .. Count, j < line'[r] PROVE (j = x /\ r = p) \/ j < line[r]
      BY <2>1, <2>2, <2>4, <3>2
    <3>3. ASSUME NEW j \in 1 .. Count, j < line'[r] PROVE shares'[r][j] = dealt[j][r]
      <4>1. j \in 1 .. NumShares
        BY <2>1, <3>1, PartyZero
      <4>2. CASE j = x /\ r = p
        BY <1>8, <2>2, <2>7, <4>1, <4>2
      <4>3. CASE j < line[r] /\ ~(j = x /\ r = p)
        BY <1>8, <2>2, <2>5, <4>1, <4>3 DEF SharesOf
      <4> QED
        BY <3>2, <3>3, <4>2, <4>3
    <3>4. ASSUME NEW j \in LinesOf(r), j < line'[r] PROVE dealt[j] \in GenerateShares(r, input[r][j].value)
      <4>1. j \in 1 .. Count
        BY DEF LinesOf
      <4>2. CASE j = x /\ r = p
        <5>1. o = p
          BY <2>1, <2>2, <4>2
        <5> QED
          BY <1>3, <5>1
      <4>3. CASE j < line[r]
        BY <2>5, <4>3 DEF SharesOf
      <4> QED
        BY <3>2, <3>4, <4>1, <4>2, <4>3
    <3> QED
      BY <1>1, <2>3, <3>1, <3>3, <3>4 DEF SharesOf
  <2>9. ASSUME NEW r \in Party, NEW q \in Party \ {r}
        PROVE  Carries(chan'[r][q], line'[q], line'[r], LinesOf(r), dealt, q)
    <3>1. Carries(chan[r][q], line[q], line[r], LinesOf(r), dealt, q)
      BY <2>5 DEF ChannelsOf
    <3>2. line[q] \in Nat /\ line[r] \in Nat /\ LinesOf(r) \in SUBSET Nat
      BY <2>3, <2>4
    <3>3. CASE r = p
      <4>1. x \notin LinesOf(r) /\ line[r] = x /\ line'[r] = x + 1 /\ line'[q] = line[q]
            /\ chan'[r][q] = chan[r][q]
        BY <1>3, <1>6, <2>1, <2>2, <2>4, <3>3
      <4>2. Carries(chan[r][q], line[q], x + 1, LinesOf(r), dealt, q)
        BY <3>1, <3>2, <4>1, CarriesSent
      <4> QED
        BY <4>1, <4>2
    <3>4. CASE r = o /\ q = p
      BY <1>3, <1>6, <2>4, <2>7, <3>4
    <3>5. CASE r # o /\ q = p
      <4>1. x \notin LinesOf(r) /\ line[q] = x /\ line'[q] = x + 1 /\ line'[r] = line[r]
            /\ chan'[r][q] = chan[r][q]
        BY <1>6, <2>1, <2>2, <2>4, <3>5
      <4>2. Carries(chan[r][q], x + 1, line[r], LinesOf(r), dealt, q)
        BY <3>1, <3>2, <4>1, CarriesPast
      <4> QED
        BY <4>1, <4>2
    <3>6. CASE r # p /\ q # p
      BY <1>6, <2>4, <3>1, <3>6
    <3> QED
      BY <3>3, <3>4, <3>5, <3>6
  <2>10. \A r \in Party : ChannelsOf(r, dealt)'
    <3>1. \A r \in Party : chan'[r][r] = <<>>
      BY <1>3, <1>6, <2>5 DEF ChannelsOf
    <3> QED
      BY <2>3, <2>9, <3>1 DEF ChannelsOf
  <2> QED
    BY <2>6, <2>8, <2>10 DEF Shared
<1> QED
  BY <1>1, <1>9, <1>10, SharingStep

\* A step that only moves p elsewhere in the program.
LEMMA EndStep ==
  ASSUME InputsInv, NEW p \in Party, pc[p] = "share",
         NEW w \in {"evaluate", "threw", "undefined"}, Goto(p, w),
         UNCHANGED <<file, input, line, shares, chan>>,
         \A dealt \in Deals : SameFiles /\ Shared(dealt) =>
           /\ w # "undefined"
           /\ w = "threw" => line[p] <= Count /\ OwnerOf(line[p]) \notin Party
           /\ w = "evaluate" => line[p] = Count + 1
  PROVE  InputsInv'
<1>1. TypeOK /\ After
  BY SharingFacts
<1>2. \A r \in Party : pc'[r] = IF r = p THEN w ELSE pc[r]
  BY <1>1 DEF Goto, TypeOK
<1>3. TypeOK' /\ After'
  BY <1>1, <1>2 DEF TypeOK, After, Goto
<1>4. ASSUME NEW dealt \in Deals, SameFiles, Shared(dealt)
      PROVE  Shared(dealt)'
  <2>1. Count' = Count /\ (\A x : OwnerOf(x)' = OwnerOf(x)) /\ \A r : LinesOf(r)' = LinesOf(r)
    BY DEF Count, OwnerOf, LinesOf
  <2>2. ASSUME NEW r \in Party PROVE PlaceOf(r)' /\ SharesOf(r, dealt)' /\ ChannelsOf(r, dealt)'
    <3>1. PlaceOf(r) /\ SharesOf(r, dealt) /\ ChannelsOf(r, dealt)
      BY <1>4 DEF Shared
    <3>2. SharesOf(r, dealt)' /\ ChannelsOf(r, dealt)'
      BY <2>1, <3>1 DEF SharesOf, ChannelsOf
    <3>3. PlaceOf(r)'
      BY <1>2, <1>4, <2>1, <3>1 DEF PlaceOf
    <3> QED
      BY <3>2, <3>3
  <2> QED
    BY <2>2 DEF Shared
<1> QED
  BY <1>3, <1>4, SharingStep

LEMMA OverrunStep ==
  ASSUME InputsInv, NEW p \in Party, Overrun(p)
  PROVE  InputsInv'
<1>1. pc[p] = "share" /\ Sharing(p) /\ ~(line[p] <= NumShares)
  <2>1. line[p] \in Nat /\ NumShares \in Nat
    BY PartyZero DEF InputsInv, TypeOK
  <2> QED
    BY <2>1 DEF Overrun, Sharing
<1>2. \A dealt \in Deals : ~(SameFiles /\ Shared(dealt))
  BY <1>1, AtLine, SharingFacts
<1> QED
  BY <1>1, <1>2, EndStep DEF Overrun

LEMMA NoSuchPartyStep ==
  ASSUME InputsInv, NEW p \in Party, NoSuchParty(p)
  PROVE  InputsInv'
<1>1. pc[p] = "share" /\ Sharing(p) /\ Owner(p) \notin Party
  BY DEF NoSuchParty, Sharing
<1>2. ASSUME NEW dealt \in Deals, SameFiles, Shared(dealt)
      PROVE  line[p] <= Count /\ OwnerOf(line[p]) \notin Party
  BY <1>1, <1>2, AtLine, SharingFacts
<1> QED
  BY <1>1, <1>2, EndStep DEF NoSuchParty

\* The owner has dealt the line, or would not have stopped before it.
LEMMA OwnerGoneStep ==
  ASSUME InputsInv, NEW p \in Party, OwnerGone(p)
  PROVE  InputsInv'
<1>1. pc[p] = "share" /\ Sharing(p)
  BY DEF OwnerGone, Sharing
<1>2. PICK o \in Party \ {p} : o = Owner(p) /\ chan[o][p] = <<>> /\ pc[o] \in {"threw", "undefined"}
  BY DEF OwnerGone
<1>3. ASSUME NEW dealt \in Deals, SameFiles, Shared(dealt) PROVE FALSE
  <2>1. TypeOK
    BY <1>1, SharingFacts
  <2>2. /\ Count \in Nat /\ line[p] \in 1 .. Count /\ line[p] \in LinesOf(o)
        /\ OwnerOf(line[p]) = o
    BY <1>1, <1>2, <1>3, <2>1, AtLine
  <2>3. line[o] <= Count /\ OwnerOf(line[o]) \notin Party /\ line[o] \in 1 .. Count + 1
    BY <1>2, <1>3 DEF Shared, PlaceOf
  <2>4. line[o] \in 1 .. Count /\ ~(line[o] < line[p])
    <3>1. \A x \in 1 .. Count : x < line[p] => OwnerOf(x) \in Party
      BY <1>3 DEF Shared, PlaceOf
    <3>2. line[o] \in 1 .. Count
      BY <2>2, <2>3
    <3> QED
      BY <2>3, <3>1, <3>2
  <2>5. line[o] # line[p]
    BY <1>2, <2>2, <2>3
  <2>6. ~(line[p] < line[o])
    <3>1. Carries(chan[o][p], line[p], line[o], LinesOf(o), dealt, p)
      BY <1>2, <1>3 DEF Shared, ChannelsOf
    <3>2. PICK sl : Holds(<<>>, sl, line[p], line[o], LinesOf(o), dealt, p)
      BY <1>2, <3>1 DEF Carries
    <3>3. \A n : n \notin 1 .. Len(sl)
      BY <3>2 DEF Holds
    <3>4. line[p] <= line[p]
      BY <2>2
    <3> QED
      BY <2>2, <3>2, <3>3, <3>4 DEF Holds, InOrder
  <2> QED
    BY <2>2, <2>4, <2>5, <2>6
<1> QED
  BY <1>1, <1>3, EndStep DEF OwnerGone

LEMMA EndSharingStep ==
  ASSUME InputsInv, NEW p \in Party, EndSharing(p)
  PROVE  InputsInv'
<1>1. pc[p] = "share" /\ ~Sharing(p)
  BY DEF EndSharing
<1>2. ASSUME NEW dealt \in Deals, SameFiles, Shared(dealt)
      PROVE  line[p] = Count + 1
  <2>1. Count \in Nat /\ Len(input[p]) = Count
    BY <1>1, <1>2, FileFacts, SharingFacts
  <2>2. line[p] \in 1 .. Count + 1 /\ ~(line[p] <= Count)
    BY <1>1, <1>2, <2>1 DEF Sharing, Shared, PlaceOf
  <2> QED
    BY <2>1, <2>2
<1> QED
  BY <1>1, <1>2, EndStep DEF EndSharing

LEMMA StutterStep ==
  ASSUME InputsInv, UNCHANGED inputsVars
  PROVE  InputsInv'
<1>1. UNCHANGED <<file, input, pc, line, shares, chan>>
  BY DEF inputsVars
<1>2. TypeOK' /\ (Before => Before') /\ (After => After') /\ (SameFiles' => SameFiles)
  BY <1>1 DEF InputsInv, TypeOK, Before, After, SameFiles
<1>3. ASSUME NEW dealt, Shared(dealt) PROVE Shared(dealt)'
  <2>1. /\ Count' = Count /\ (\A x : OwnerOf(x)' = OwnerOf(x)) /\ \A p : LinesOf(p)' = LinesOf(p)
    BY <1>1 DEF Count, OwnerOf, LinesOf
  <2>2. ASSUME NEW p \in Party PROVE PlaceOf(p)' /\ SharesOf(p, dealt)' /\ ChannelsOf(p, dealt)'
    <3>1. PlaceOf(p) /\ SharesOf(p, dealt) /\ ChannelsOf(p, dealt)
      BY <1>3 DEF Shared
    <3>2. PlaceOf(p)'
      BY <1>1, <2>1, <3>1 DEF PlaceOf
    <3>3. SharesOf(p, dealt)' /\ ChannelsOf(p, dealt)'
      BY <1>1, <2>1, <3>1 DEF SharesOf, ChannelsOf
    <3> QED
      BY <3>2, <3>3
  <2> QED
    BY <2>2 DEF Shared
<1> QED
  BY <1>2, <1>3 DEF InputsInv

\* Whatever the files are, the invariant holds.
THEOREM InputsInvariant == InputsSpec => []InputsInv
<1>1. InputsInv /\ [InputsNext]_inputsVars => InputsInv'
  BY SetupStep, ParseStep, DealStep, ReceiveStep, OverrunStep, NoSuchPartyStep,
     OwnerGoneStep, EndSharingStep, StutterStep DEF InputsNext, Step
<1> QED
  BY InitInv, <1>1, PTL DEF InputsSpec

-----------------------------------------------------------------------------
(***************************************************************************)
(* What follows.                                                           *)
(***************************************************************************)
\* When the files name the same owners and every line could be parsed.
LEMMA SameOwnersFacts ==
  ASSUME InputsInv, SameOwners
  PROVE  TypeOK /\ SameFiles /\ \E dealt \in Deals : Shared(dealt)
<1>1. SameFiles
  BY DEF SameOwners, SameFiles
<1>2. ~Before
  <2>1. 0 \in Party /\ pc[0] \in {"share", "evaluate", "threw"} /\ input[0] # <<>>
    BY PartyZero DEF SameOwners
  <2> QED
    BY <2>1 DEF SameOwners, Before
<1> QED
  BY <1>1, <1>2 DEF InputsInv

\* When everybody is through the sharing, each wire is shared with the value in its
\* owner's file, any int, whatever the other files say, and no share is left in a socket
\* (the initial sharing loop of participant.cxx), for every number of parties and
\* all files.
THEOREM WiresShared == InputsSpec => []OwnersDecide
<1>1. ASSUME InputsInv PROVE OwnersDecide
  <2> SUFFICES ASSUME SameOwners, \A p \in Party : pc[p] = "evaluate",
                      NEW p \in Party, NEW q \in Party
               PROVE  /\ chan[p][q] = <<>>
                      /\ \A x \in DOMAIN input[p] : input[p][x].owner = p =>
                           /\ Recombined(p, [r \in Party |-> shares[r][x]]) = input[p][x].value
                           /\ q # p => shares[q][x] \in Bit
    BY DEF OwnersDecide
  <2>1. TypeOK /\ SameFiles
    BY <1>1, SameOwnersFacts
  <2>2. PICK dealt \in Deals : Shared(dealt)
    BY <1>1, SameOwnersFacts
  <2>3. Count \in Nat /\ LinesOf(p) \in SUBSET Nat /\ DOMAIN input[p] = 1 .. Count
        /\ \A x \in 1 .. Count : input[p][x].owner = OwnerOf(x)
    BY <2>1, FileFacts
  <2>4. \A r \in Party : line[r] = Count + 1 /\ SharesOf(r, dealt) /\ ChannelsOf(r, dealt)
    BY <2>2 DEF Shared, PlaceOf
  <2>5. \A x \in 1 .. Count : x < Count + 1
    BY <2>3
  <2>6. chan[p][q] = <<>>
    <3>1. CASE q # p
      <4>1. Carries(chan[p][q], Count + 1, Count + 1, LinesOf(p), dealt, q)
        BY <2>4, <3>1 DEF ChannelsOf
      <4>2. Count + 1 \in Nat
        BY <2>3
      <4> QED
        BY <2>3, <4>1, <4>2, CarriesAll
    <3> QED
      BY <2>4, <3>1 DEF ChannelsOf
  <2>7. ASSUME NEW x \in DOMAIN input[p], input[p][x].owner = p
        PROVE  /\ Recombined(p, [r \in Party |-> shares[r][x]]) = input[p][x].value
               /\ q # p => shares[q][x] \in Bit
    <3>1. x \in 1 .. Count /\ x \in LinesOf(p) /\ x \in Nat
      BY <2>3, <2>7 DEF LinesOf
    <3>2. \A r \in Party : shares[r][x] = dealt[x][r]
      BY <2>4, <2>5, <3>1 DEF SharesOf
    <3>3. dealt[x] = [r \in Party |-> shares[r][x]]
      <4>1. dealt[x] \in [Party -> Int]
        BY <3>1 DEF Deals
      <4> QED
        BY <3>2, <4>1
    <3>4. input[p][x].value \in Int
      <4>1. input[p] \in Seq(Line) /\ x \in 1 .. Len(input[p])
        BY <2>1, <2>7, LenProperties DEF TypeOK
      <4>2. input[p][x] \in Line
        BY <4>1, ElementOfSeq
      <4> QED
        BY <4>2 DEF Line
    <3>5. dealt[x] \in GenerateShares(p, input[p][x].value)
      BY <2>4, <2>5, <3>1 DEF SharesOf
    <3>6. Recombined(p, dealt[x]) = input[p][x].value /\ (q # p => dealt[x][q] \in Bit)
      BY <3>4, <3>5, SharesOfTarget
    <3> QED
      BY <3>2, <3>3, <3>6
  <2> QED
    BY <2>6, <2>7
<1> QED
  BY InputsInvariant, <1>1, PTL

\* Only a line that names nobody stops anybody, and it stops all (peer_links.at in
\* the same loop).
THEOREM NobodyStopsAlone == InputsSpec => []ThrowTogether
<1>1. ASSUME InputsInv PROVE ThrowTogether
  <2> SUFFICES ASSUME SameOwners, NEW p \in Party, NEW foreign,
                      foreign = {x \in DOMAIN input[p] : input[p][x].owner \notin Party}
               PROVE  /\ \A x \in foreign : line[p] <= x
                      /\ pc[p] = "threw" => line[p] \in foreign
                      /\ pc[p] = "evaluate" => foreign = {}
    BY DEF ThrowTogether
  <2>1. TypeOK /\ SameFiles
    BY <1>1, SameOwnersFacts
  <2>2. PICK dealt \in Deals : Shared(dealt)
    BY <1>1, SameOwnersFacts
  <2>3. Count \in Nat /\ foreign = {x \in 1 .. Count : OwnerOf(x) \notin Party}
    BY <2>1, FileFacts
  <2>4. PlaceOf(p)
    BY <2>2 DEF Shared
  <2>5. \A x \in foreign : line[p] <= x
    BY <2>3, <2>4 DEF PlaceOf
  <2>6. pc[p] = "threw" => line[p] \in foreign
    BY <2>3, <2>4 DEF PlaceOf
  <2>7. pc[p] = "evaluate" => foreign = {}
    BY <2>3, <2>4, <2>5 DEF PlaceOf
  <2> QED
    BY <2>5, <2>6, <2>7
<1> QED
  BY InputsInvariant, <1>1, PTL

-----------------------------------------------------------------------------
(***************************************************************************)
(* Circuit files.                                                          *)
(***************************************************************************)
\* What a file consists of.
Token == {l[k] : l \in GateLines, k \in 1 .. 6}
Text == FlattenSeq(lines)

\* r is what is left of the file from token t + 1 on.
RestAt(r, t) ==
  /\ r \in Seq(Token)
  /\ Len(r) = IF t <= cut THEN cut - t ELSE 0
  /\ \A k \in 1 .. Len(r) : r[k] = Text[t + k]

\* The tokens read, as long as there are any to read.
Consumed == IF scanned THEN TokensOf(i-1) + 1 ELSE TokensOf(i-1)

FileOK ==
  /\ lines \in Seq(GateLines) /\ cut \in 0 .. Len(Text)
  /\ i \in 1 .. Len(lines) + 1 /\ scanned \in BOOLEAN
  /\ gates = [g \in DOMAIN lines |-> gates[g]]

\* The loop keeps in step with the lines up to the end of the file.
ReadInStep ==
  /\ RestAt(rest, Consumed)
  /\ scanned /\ Consumed <= cut => i \in DOMAIN lines /\ tmp = lines[i][1]

GatesSoFar ==
  \A g \in DOMAIN lines :
    /\ g < i /\ TokensOf(g) <= cut => gates[g] = Meaning(lines[g])
    /\ i <= g => gates[g] = Blank

\* A line of two inputs that is there in full.
WholeWithTwo(g) == g \in DOMAIN lines /\ TokensOf(g) <= cut /\ lines[g][1] = 2

InWire(gate) == {gate.lhs, gate.rhs, gate.output} \subseteq Wire

LocalsInRange ==
  \A g : WholeWithTwo(g) =>
    /\ g < i => {lhs, rhs, output} \subseteq Wire
    /\ \A h \in DOMAIN lines : InWire(gates[h])

AfterTheEnd ==
  \A g \in DOMAIN lines : TokensOf(g) = cut /\ g < i =>
    /\ tmp = 1 /\ lhs = LhsOf(lines[g]) /\ output = OutputOf(lines[g])
    /\ \A h \in DOMAIN lines : g < h /\ h < i => gates[h] = Gate("NOT", lhs, 0, output)

BristolInv == FileOK /\ ReadInStep /\ GatesSoFar /\ LocalsInRange /\ AfterTheEnd

LEMMA LineFacts ==
  ASSUME NEW l \in GateLines
  PROVE  /\ l \in Seq(Token)
         /\ \/ /\ Len(l) = 6 /\ l[1] = 2 /\ l[2] = 1 /\ {l[3], l[4], l[5]} \subseteq Wire
               /\ Meaning(l) = IF Name(l[6]) = "none" THEN Blank
                               ELSE Gate(Name(l[6]), l[3], l[4], l[5])
            \/ /\ Len(l) = 5 /\ l[1] = 1 /\ l[2] = 1 /\ {l[3], l[4]} \subseteq Wire
               /\ Meaning(l) = Gate("NOT", l[3], 0, l[4])
<1>1. \A k \in 1 .. 6 : l[k] \in Token
  BY DEF Token
<1>2. CASE /\ Len(l) = 6 /\ l = <<2, 1, l[3], l[4], l[5], l[6]>>
           /\ {l[3], l[4], l[5]} \subseteq Wire
  <2>1. l[1] = 2 /\ l[2] = 1
    BY <1>2
  <2>2. l \in Seq(Token)
    <3>1. <<2, 1, l[3], l[4], l[5], l[6]>> \in Seq(Token)
      <4>1. 2 \in Token /\ 1 \in Token
        BY <1>1, <2>1
      <4> QED
        BY <1>1, <4>1
    <3> QED
      BY <1>2, <3>1
  <2>3. Meaning(l) = IF Name(l[6]) = "none" THEN Blank ELSE Gate(Name(l[6]), l[3], l[4], l[5])
    BY <2>1 DEF Meaning, Name
  <2> QED
    BY <1>2, <2>1, <2>2, <2>3
<1>3. CASE Len(l) = 5 /\ l = <<1, 1, l[3], l[4], l[5]>> /\ {l[3], l[4]} \subseteq Wire
  <2>1. l[1] = 1 /\ l[2] = 1
    BY <1>3
  <2>2. l \in Seq(Token)
    <3>1. <<1, 1, l[3], l[4], l[5]>> \in Seq(Token)
      <4>1. 1 \in Token
        BY <1>1, <2>1
      <4> QED
        BY <1>1, <4>1
    <3> QED
      BY <1>3, <3>1
  <2>3. Meaning(l) = Gate("NOT", l[3], 0, l[4])
    BY <2>1 DEF Meaning
  <2> QED
    BY <1>3, <2>1, <2>2, <2>3
<1> QED
  BY <1>2, <1>3, LinesAssumption

LEMMA TokenFacts ==
  ASSUME lines \in Seq(GateLines)
  PROVE  /\ Len(lines) \in Nat /\ DOMAIN lines = 1 .. Len(lines)
         /\ Text \in Seq(Token) /\ Len(Text) \in Nat
         /\ TokensOf(0) = 0 /\ TokensOf(Len(lines)) = Len(Text)
         /\ \A g \in 0 .. Len(lines) : TokensOf(g) \in Nat
         /\ \A g \in 1 .. Len(lines) :
              /\ lines[g] \in GateLines
              /\ TokensOf(g) = TokensOf(g-1) + Len(lines[g])
              /\ \A k \in 1 .. Len(lines[g]) : Text[TokensOf(g-1) + k] = lines[g][k]
<1>1. Len(lines) \in Nat /\ DOMAIN lines = 1 .. Len(lines)
      /\ \A g \in 1 .. Len(lines) : lines[g] \in GateLines
  BY LenProperties
<1>2. lines \in Seq(Seq(Token))
  <2>1. \A l \in GateLines : l \in Seq(Token)
    BY LineFacts
  <2> QED
    BY <1>1, <2>1
<1>3. PICK e \in [0 .. Len(lines) -> Nat] :
        /\ e[0] = 0 /\ \A g \in 1 .. Len(lines) : e[g] = e[g-1] + Len(lines[g])
        /\ Text \in Seq(Token)
        /\ \A g \in 0 .. Len(lines) : e[g] = TokensOf(g) /\ e[g] <= e[Len(lines)]
        /\ e[Len(lines)] = Len(Text)
        /\ \A g \in 1 .. Len(lines) : \A k \in 1 .. Len(lines[g]) :
             Text[e[g-1] + k] = lines[g][k]
  <2>1. PICK e : EndsOfPieces(e, lines)
    BY <1>2, FlattenPieces
  <2>2. Text \in Seq(Token)
    BY <1>2, FlattenPieces DEF Text
  <2> QED
    BY <2>1, <2>2, Zenon DEF EndsOfPieces, Text, TokensOf
<1>4. \A g \in 1 .. Len(lines) : g \in 0 .. Len(lines) /\ g - 1 \in 0 .. Len(lines)
  BY <1>1
<1>5. 0 \in 0 .. Len(lines) /\ Len(lines) \in 0 .. Len(lines)
  BY <1>1
<1>6. TokensOf(0) = 0 /\ TokensOf(Len(lines)) = Len(Text)
      /\ \A g \in 0 .. Len(lines) : TokensOf(g) \in Nat
  BY <1>3, <1>5
<1>7. ASSUME NEW g \in 1 .. Len(lines)
      PROVE  /\ TokensOf(g) = TokensOf(g-1) + Len(lines[g])
             /\ \A k \in 1 .. Len(lines[g]) : Text[TokensOf(g-1) + k] = lines[g][k]
  <2>1. e[g] = TokensOf(g) /\ e[g-1] = TokensOf(g-1)
    BY <1>3, <1>4
  <2> QED
    BY <1>3, <2>1
<1>8. Text \in Seq(Token) /\ Len(Text) \in Nat
  BY <1>3, LenProperties
<1> QED
  BY <1>1, <1>6, <1>7, <1>8

\* Later lines end later.
LEMMA TokensGrow ==
  ASSUME lines \in Seq(GateLines)
  PROVE  \A h \in 0 .. Len(lines) : \A g \in 0 .. h : TokensOf(g) <= TokensOf(h)
<1> DEFINE S == {h \in 0 .. Len(lines) : \A g \in 0 .. h : TokensOf(g) <= TokensOf(h)}
<1>1. Len(lines) \in Nat /\ TokensOf(0) \in Nat
  BY TokenFacts
<1>2. 0 \in S
  BY <1>1
<1>3. ASSUME NEW h \in 0 .. Len(lines) - 1, h \in S PROVE h + 1 \in S
  <2>1. h + 1 \in 1 .. Len(lines) /\ h + 1 \in 0 .. Len(lines) /\ h \in 0 .. Len(lines)
        /\ (h + 1) - 1 = h
    BY <1>1
  <2>2. lines[h+1] \in GateLines /\ TokensOf(h + 1) = TokensOf(h) + Len(lines[h+1])
        /\ TokensOf(h) \in Nat
    BY <2>1, TokenFacts
  <2>3. Len(lines[h+1]) \in Nat
    BY <2>2, LineFacts
  <2>4. PICK a \in Nat, b \in Nat : a = TokensOf(h) /\ b = TokensOf(h + 1) /\ a <= b
    BY <2>2, <2>3
  <2>5. ASSUME NEW g \in 0 .. h + 1 PROVE TokensOf(g) <= b
    <3>1. CASE g = h + 1
      BY <2>4, <3>1
    <3>2. CASE g \in 0 .. h
      <4>1. TokensOf(g) \in Nat /\ TokensOf(g) <= a
        BY <1>3, <2>1, <2>4, <3>2, TokenFacts
      <4> QED
        BY <2>4, <4>1
    <3> QED
      BY <2>1, <3>1, <3>2
  <2> QED
    BY <2>1, <2>4, <2>5
<1> QED
  <2>1. \A h \in 0 .. Len(lines) : h \in S
    <3> HIDE DEF S
    <3> QED
      BY <1>1, <1>2, <1>3, BoundedInduction
  <2> QED
    BY <2>1

\* fscanf takes tokens away.
LEMMA SkipRest ==
  ASSUME cut \in Nat, NEW t \in Nat, NEW k \in Nat, RestAt(rest, t), Skip(k)
  PROVE  /\ rest' \in Seq(Token)
         /\ Len(rest') = IF t + k <= cut THEN cut - (t + k) ELSE 0
         /\ \A j \in 1 .. Len(rest') : rest'[j] = Text[(t + k) + j]
<1>1. PICK n \in Nat : n = Len(rest) /\ n = (IF t <= cut THEN cut - t ELSE 0)
  BY LenProperties DEF RestAt
<1>2. PICK m \in Nat : m = IF t + k <= cut THEN cut - (t + k) ELSE 0
  <2>1. (IF t + k <= cut THEN cut - (t + k) ELSE 0) \in Nat
    OBVIOUS
  <2> QED
    BY <2>1
<1>3. m = IF k <= n THEN n - k ELSE 0
  BY <1>1, <1>2
<1>4. rest' = [j \in 1 .. m |-> rest[k + j]]
  <2>1. rest' = [j \in 1 .. (n - (k + 1) + 1) |-> rest[(k + 1) + j - 1]]
    BY <1>1 DEF Skip
  <2>2. 1 .. (n - (k + 1) + 1) = 1 .. m
    BY <1>3
  <2>3. \A j \in 1 .. m : (k + 1) + j - 1 = k + j
    OBVIOUS
  <2> QED
    BY <2>1, <2>2, <2>3
<1>5. \A j \in 1 .. m : k + j \in 1 .. n
  BY <1>3
<1>6. rest' \in Seq(Token) /\ Len(rest') = m
  <2>1. \A j \in 1 .. m : rest[k + j] \in Token
    BY <1>1, <1>5, ElementOfSeq DEF RestAt
  <2> QED
    BY <1>4, <2>1
<1>7. ASSUME NEW j \in 1 .. m PROVE rest'[j] = Text[(t + k) + j]
  <2>1. rest[k + j] = Text[t + (k + j)]
    BY <1>1, <1>5 DEF RestAt
  <2>2. t + (k + j) = (t + k) + j
    OBVIOUS
  <2> QED
    BY <1>4, <2>1, <2>2
<1> QED
  BY <1>2, <1>6, <1>7

-----------------------------------------------------------------------------
LEMMA BristolInitInv == BristolInit => BristolInv
<1> SUFFICES ASSUME BristolInit PROVE BristolInv
  OBVIOUS
<1>1. lines \in Seq(GateLines) /\ 1 \in 1 .. Len(lines) + 1
  <2>1. PICK k \in 1 .. MaxGate : lines \in [1 .. k -> GateLines]
    BY DEF BristolInit
  <2>2. k \in Nat
    BY LinesAssumption
  <2> QED
    BY <2>1, <2>2
<1>2. cut \in 0 .. Len(Text) /\ Len(Text) \in Nat /\ Text \in Seq(Token) /\ TokensOf(0) = 0
      /\ DOMAIN lines = 1 .. Len(lines) /\ Len(lines) \in Nat
  BY <1>1, TokenFacts DEF BristolInit, Text
<1>3. i = 1 /\ scanned = FALSE /\ rest = SubSeq(Text, 1, cut)
      /\ gates = [g \in DOMAIN lines |-> Blank]
  BY DEF BristolInit, Text
<1>4. FileOK
  BY <1>1, <1>2, <1>3 DEF FileOK
<1>5. Consumed = 0
  BY <1>2, <1>3 DEF Consumed
<1>6. RestAt(rest, 0)
  <2>1. cut \in Nat /\ \A k \in 1 .. cut : k \in 1 .. Len(Text) /\ 0 + k = k
    BY <1>2
  <2>2. rest = [k \in 1 .. cut |-> Text[k]]
    <3>1. rest \in Seq(Token) /\ Len(rest) = cut /\ \A k \in 1 .. cut : rest[k] = Text[k]
      <4>1. 1 \in 1 .. Len(Text) + 1 /\ cut \in 0 .. Len(Text) /\ cut - 1 + 1 = cut
        BY <1>2
      <4> QED
        BY <1>2, <1>3, <2>1, <4>1
    <3>2. DOMAIN rest = 1 .. cut /\ rest = [k \in DOMAIN rest |-> rest[k]]
      BY <3>1, LenProperties
    <3> QED
      BY <3>1, <3>2
  <2>3. \A k \in 1 .. cut : Text[k] \in Token
    BY <1>2, <2>1, ElementOfSeq
  <2>4. rest \in Seq(Token) /\ Len(rest) = cut
    BY <2>1, <2>2, <2>3
  <2>5. 0 <= cut /\ cut - 0 = cut
    BY <2>1
  <2> QED
    BY <2>1, <2>2, <2>4, <2>5 DEF RestAt
<1>7. ReadInStep
  BY <1>3, <1>5, <1>6 DEF ReadInStep
<1>8. \A g \in DOMAIN lines : ~(g < i)
  BY <1>2, <1>3
<1>9. GatesSoFar
  BY <1>3, <1>8 DEF GatesSoFar
<1>10. ASSUME NEW g, WholeWithTwo(g) PROVE /\ ~(g < i)
                                           /\ \A h \in DOMAIN lines : InWire(gates[h])
  <2>1. g \in DOMAIN lines /\ lines[g] \in GateLines
    BY <1>1, <1>2, <1>10, TokenFacts DEF WholeWithTwo
  <2>2. \E x : x \in Wire
    BY <2>1, LineFacts
  <2>3. 0 \in Wire
    BY <2>2, LinesAssumption DEF Wire
  <2> QED
    BY <1>3, <1>8, <2>1, <2>3 DEF InWire, Blank, Gate
<1>11. LocalsInRange
  BY <1>10 DEF LocalsInRange
<1>12. AfterTheEnd
  BY <1>8 DEF AfterTheEnd
<1> QED
  BY <1>4, <1>7, <1>9, <1>11, <1>12 DEF BristolInv

\* The line the loop is at.
LEMMA LineNow ==
  ASSUME BristolInv, More
  PROVE  /\ lines \in Seq(GateLines) /\ Len(lines) \in Nat /\ DOMAIN lines = 1 .. Len(lines)
         /\ i \in 1 .. Len(lines) /\ i \in Nat /\ cut \in Nat
         /\ i - 1 \in 0 .. Len(lines) /\ lines[i] \in GateLines
         /\ TokensOf(i-1) \in Nat /\ TokensOf(i) = TokensOf(i-1) + Len(lines[i])
         /\ \A g \in DOMAIN lines : TokensOf(g) \in Nat /\ g \in Nat
         /\ \A k \in 1 .. Len(lines[i]) : Text[TokensOf(i-1) + k] = lines[i][k]
<1>1. lines \in Seq(GateLines) /\ cut \in 0 .. Len(Text) /\ i \in 1 .. Len(lines) + 1
  BY DEF BristolInv, FileOK
<1>2. Len(lines) \in Nat /\ DOMAIN lines = 1 .. Len(lines) /\ Len(Text) \in Nat
  BY <1>1, TokenFacts
<1>3. i \in 1 .. Len(lines) /\ i \in Nat /\ cut \in Nat /\ i - 1 \in 0 .. Len(lines)
  BY <1>1, <1>2 DEF More
<1>4. \A g \in 1 .. Len(lines) : g \in 0 .. Len(lines) /\ g \in Nat
  BY <1>2
<1> QED
  BY <1>1, <1>2, <1>3, <1>4, TokenFacts

LEMMA ScanInputsStep ==
  ASSUME BristolInv, ScanInputs
  PROVE  BristolInv'
<1>1. More /\ ~scanned /\ scanned' = TRUE /\ tmp' = Scan(1, tmp) /\ Skip(1)
      /\ UNCHANGED <<lines, cut, i, lhs, rhs, output, str, gates>>
  BY DEF ScanInputs
<1>2. PICK t \in Nat : t = TokensOf(i-1) /\ Consumed = t /\ Consumed' = t + 1
  BY <1>1, LineNow DEF Consumed, TokensOf
<1>3. RestAt(rest, t) /\ cut \in Nat
  BY <1>1, <1>2, LineNow DEF BristolInv, ReadInStep
<1>4. RestAt(rest, t + 1)'
  BY <1>1, <1>3, SkipRest DEF RestAt, Text
<1>5. FileOK'
  BY <1>1 DEF BristolInv, FileOK, Text
<1>6. ReadInStep'
  <2>1. ASSUME t + 1 <= cut PROVE tmp' = lines[i][1]
    <3>1. 1 <= Len(rest) /\ rest[1] = Text[t + 1]
      <4>1. t <= cut /\ 1 <= cut - t
        BY <1>3, <2>1
      <4>2. Len(rest) = cut - t /\ 1 \in 1 .. cut - t
        BY <1>3, <4>1 DEF RestAt
      <4> QED
        BY <1>3, <4>1, <4>2 DEF RestAt
    <3>2. Text[t + 1] = lines[i][1]
      <4>1. 1 \in 1 .. Len(lines[i])
        <5>1. lines[i] \in GateLines
          BY <1>1, LineNow
        <5>2. Len(lines[i]) \in {5, 6}
          BY <5>1, LineFacts
        <5>3. PICK c \in {5, 6} : c = Len(lines[i])
          BY <5>2
        <5> QED
          BY <5>3
      <4> QED
        BY <1>1, <1>2, <4>1, LineNow
    <3> QED
      BY <1>1, <3>1, <3>2 DEF Scan
  <2>2. RestAt(rest, Consumed)'
    BY <1>2, <1>4 DEF RestAt
  <2> QED
    BY <1>1, <1>2, <2>1, <2>2, LineNow DEF ReadInStep
<1>7. GatesSoFar' /\ LocalsInRange'
  BY <1>1 DEF BristolInv, GatesSoFar, LocalsInRange, WholeWithTwo, TokensOf
<1>8. AfterTheEnd'
  <2> SUFFICES ASSUME NEW g \in DOMAIN lines, TokensOf(g) = cut, g < i
               PROVE  /\ tmp' = 1 /\ lhs = LhsOf(lines[g]) /\ output = OutputOf(lines[g])
                      /\ \A h \in DOMAIN lines : g < h /\ h < i =>
                           gates[h] = Gate("NOT", lhs, 0, output)
    BY <1>1 DEF AfterTheEnd, TokensOf
  <2>1. /\ tmp = 1 /\ lhs = LhsOf(lines[g]) /\ output = OutputOf(lines[g])
        /\ \A h \in DOMAIN lines : g < h /\ h < i => gates[h] = Gate("NOT", lhs, 0, output)
    BY DEF BristolInv, AfterTheEnd
  <2>2. cut <= t
    <3>1. g \in 0 .. i - 1
      BY <1>1, LineNow
    <3> QED
      BY <1>1, <1>2, <3>1, LineNow, TokensGrow
  <2>3. ~(1 <= Len(rest))
    BY <1>3, <2>2 DEF RestAt
  <2> QED
    BY <1>1, <2>1, <2>3 DEF Scan
<1> QED
  BY <1>5, <1>6, <1>7, <1>8 DEF BristolInv

-----------------------------------------------------------------------------
\* The rest of the line the loop is at.
LEMMA GateNow ==
  ASSUME BristolInv, ScanGate
  PROVE  \E t \in Nat :
           /\ t = TokensOf(i-1) + 1 /\ RestAt(rest, t) /\ t <= TokensOf(i)
           /\ TokensOf(i) = t + (Len(lines[i]) - 1)
           /\ t <= cut => tmp = lines[i][1]
           /\ cut < t => Len(rest) = 0
           /\ \A k \in 1 .. Len(lines[i]) - 1 : Text[t + k] = lines[i][k+1]
<1>1. More /\ scanned
  BY DEF ScanGate
<1>2. PICK t \in Nat, s \in Nat : s = TokensOf(i-1) /\ t = s + 1 /\ Consumed = t
  BY <1>1, LineNow DEF Consumed
<1>3. RestAt(rest, t) /\ (t <= cut => tmp = lines[i][1])
  BY <1>1, <1>2 DEF BristolInv, ReadInStep
<1>4. PICK c \in {5, 6} : c = Len(lines[i])
  <2>1. lines[i] \in GateLines
    BY <1>1, LineNow
  <2>2. Len(lines[i]) \in {5, 6}
    BY <2>1, LineFacts
  <2> QED
    BY <2>2
<1>5. TokensOf(i) = s + c /\ \A k \in 1 .. c : Text[s + k] = lines[i][k]
  BY <1>1, <1>2, <1>4, LineNow
<1>6. ASSUME NEW k \in 1 .. c - 1 PROVE Text[t + k] = lines[i][k+1]
  <2>1. k + 1 \in 1 .. c /\ s + (k + 1) = t + k
    BY <1>2, <1>4
  <2>2. Text[s + (k + 1)] = lines[i][k+1]
    BY <1>5, <2>1
  <2> QED
    BY <2>1, <2>2
<1>7. TokensOf(i) = t + (c - 1) /\ t <= t + (c - 1)
  <2>1. s + c = t + (c - 1) /\ t <= t + (c - 1)
    <3>1. t \in Nat /\ s \in Nat /\ t = s + 1 /\ (c = 5 \/ c = 6)
      BY <1>2, <1>4
    <3> QED
      BY <3>1
  <2> QED
    BY <1>5, <2>1
<1>8. cut < t => Len(rest) = 0
  <2>1. cut \in Nat
    BY <1>1, LineNow
  <2> QED
    BY <1>3, <2>1 DEF RestAt
<1> QED
  BY <1>2, <1>3, <1>4, <1>6, <1>7, <1>8

\* What the conversions of this line find.
LEMMA ScanLine ==
  ASSUME BristolInv, ScanGate, NEW k \in 1 .. Len(lines[i]) - 1, NEW old
  PROVE  /\ TokensOf(i) <= cut => Scan(k, old) = lines[i][k+1]
         /\ Scan(k, old) \in {old, lines[i][k+1]}
<1>1. PICK t \in Nat :
        /\ RestAt(rest, t) /\ TokensOf(i) = t + (Len(lines[i]) - 1)
        /\ Text[t + k] = lines[i][k+1]
  BY GateNow
<1>2. PICK c \in {5, 6} : c = Len(lines[i]) /\ k \in 1 .. c - 1
  <2>1. lines[i] \in GateLines
    BY LineNow DEF ScanGate
  <2>2. Len(lines[i]) \in {5, 6}
    BY <2>1, LineFacts
  <2> QED
    BY <2>2
<1>3. PICK n \in Nat : n = Len(rest) /\ n = (IF t <= cut THEN cut - t ELSE 0)
  BY <1>1, LenProperties DEF RestAt
<1>4. k <= n => rest[k] = lines[i][k+1]
  <2>1. ASSUME k <= n PROVE k \in 1 .. n
    BY <1>2, <2>1
  <2> QED
    BY <1>1, <1>3, <2>1 DEF RestAt
<1>5. TokensOf(i) <= cut => k <= n
  <2>1. cut \in Nat
    BY LineNow DEF ScanGate
  <2>2. ASSUME t + (c - 1) <= cut PROVE k <= n
    BY <1>2, <1>3, <2>1, <2>2
  <2> QED
    BY <1>1, <1>2, <2>2
<1> QED
  BY <1>3, <1>4, <1>5 DEF Scan

LEMMA PastScan ==
  ASSUME BristolInv, ScanGate, cut <= TokensOf(i-1)
  PROVE  \A k \in 1 .. 5 : \A old : Scan(k, old) = old
<1>1. Len(rest) = 0
  <2>1. PICK t \in Nat : t = TokensOf(i-1) + 1 /\ (cut < t => Len(rest) = 0)
    BY GateNow
  <2>2. cut \in Nat /\ TokensOf(i-1) \in Nat
    BY LineNow DEF ScanGate
  <2> QED
    BY <2>1, <2>2
<1> QED
  BY <1>1 DEF Scan

\* Gates are filled in one by one.
LEMMA OneGate ==
  ASSUME BristolInv, ScanGate
  PROVE  /\ i \in DOMAIN lines /\ i \in Nat /\ gates[i] = Blank
         /\ gates' = [g \in DOMAIN lines |-> gates'[g]]
         /\ \A h \in DOMAIN lines : h # i => gates'[h] = gates[h]
         /\ \A gate : gates' = [gates EXCEPT ![i] = gate] => gates'[i] = gate
<1>1. i \in DOMAIN lines /\ i \in Nat
  BY LineNow DEF ScanGate
<1>2. gates = [g \in DOMAIN lines |-> gates[g]] /\ gates[i] = Blank
  <2>1. i <= i
    BY <1>1
  <2> QED
    BY <1>1, <2>1 DEF BristolInv, FileOK, GatesSoFar
<1>3. gates' = gates \/ \E gate : gates' = [gates EXCEPT ![i] = gate]
  BY DEF ScanGate, TwoInputs, OneInput, Neither
<1>4. ASSUME NEW gate, gates' = [gates EXCEPT ![i] = gate]
      PROVE  gates' = [g \in DOMAIN lines |-> IF g = i THEN gate ELSE gates[g]]
  BY <1>2, <1>4
<1>5. ASSUME NEW gate, gates' = [gates EXCEPT ![i] = gate]
      PROVE  /\ gates'[i] = gate
             /\ gates' = [g \in DOMAIN lines |-> gates'[g]]
             /\ \A h \in DOMAIN lines : h # i => gates'[h] = gates[h]
  BY <1>1, <1>4, <1>5
<1> QED
  BY <1>1, <1>2, <1>3, <1>5

\* A line that is there in full makes the gate it means.
LEMMA WholeLine ==
  ASSUME BristolInv, ScanGate, TokensOf(i) <= cut
  PROVE  /\ tmp' = 1 /\ gates'[i] = Meaning(lines[i])
         /\ lhs' = LhsOf(lines[i]) /\ output' = OutputOf(lines[i])
         /\ lines[i][1] = 2 => {lhs', rhs', output'} \subseteq Wire
         /\ \E t \in Nat : RestAt(rest, t) /\ t <= cut /\ TokensOf(i) = t + (Len(lines[i]) - 1)
                           /\ Skip(Len(lines[i]) - 1)
<1>1. PICK t \in Nat : RestAt(rest, t) /\ t <= cut /\ TokensOf(i) = t + (Len(lines[i]) - 1)
                       /\ tmp = lines[i][1]
  <2>1. PICK t \in Nat : RestAt(rest, t) /\ t <= TokensOf(i) /\ (t <= cut => tmp = lines[i][1])
                         /\ TokensOf(i) = t + (Len(lines[i]) - 1)
    BY GateNow
  <2>2. cut \in Nat /\ TokensOf(i) \in Nat
    BY LineNow DEF ScanGate
  <2> QED
    BY <2>1, <2>2
<1>2. lines[i] \in GateLines
  BY LineNow DEF ScanGate
<1>3. CASE /\ Len(lines[i]) = 6 /\ lines[i][1] = 2 /\ lines[i][2] = 1
           /\ {lines[i][3], lines[i][4], lines[i][5]} \subseteq Wire
           /\ Meaning(lines[i]) = IF Name(lines[i][6]) = "none" THEN Blank
                ELSE Gate(Name(lines[i][6]), lines[i][3], lines[i][4], lines[i][5])
  <2>1. TwoInputs
    BY <1>1, <1>3 DEF ScanGate, OneInput, Neither
  <2>2. \A k \in 1 .. 5 : \A old : Scan(k, old) = lines[i][k+1]
    <3>1. Len(lines[i]) - 1 = 5
      BY <1>3
    <3> QED
      BY <3>1, ScanLine
  <2>3. /\ tmp' = lines[i][2] /\ lhs' = lines[i][3] /\ rhs' = lines[i][4]
        /\ output' = lines[i][5] /\ str' = lines[i][6] /\ Skip(5)
        /\ gates' = IF Name(str') = "none" THEN gates
                    ELSE [gates EXCEPT ![i] = Gate(Name(str'), lhs', rhs', output')]
    <3>1. ScanName(5) = Scan(5, str)
      BY DEF ScanName, Scan
    <3>2. /\ Scan(1, tmp) = lines[i][2] /\ Scan(2, lhs) = lines[i][3]
          /\ Scan(3, rhs) = lines[i][4] /\ Scan(4, output) = lines[i][5]
          /\ Scan(5, str) = lines[i][6]
      <4>1. 1 + 1 = 2 /\ 2 + 1 = 3 /\ 3 + 1 = 4 /\ 4 + 1 = 5 /\ 5 + 1 = 6
        OBVIOUS
      <4>2. 1 \in 1 .. 5 /\ 2 \in 1 .. 5 /\ 3 \in 1 .. 5 /\ 4 \in 1 .. 5 /\ 5 \in 1 .. 5
        OBVIOUS
      <4> QED
        BY <2>2, <4>1, <4>2
    <3> QED
      BY <2>1, <3>1, <3>2 DEF TwoInputs
  <2>4. gates'[i] = Meaning(lines[i])
    BY <1>3, <2>3, OneGate
  <2>5. Len(lines[i]) - 1 = 5
    BY <1>3
  <2>6. lhs' = LhsOf(lines[i]) /\ output' = OutputOf(lines[i])
    BY <2>3, <2>5 DEF LhsOf, OutputOf
  <2> QED
    BY <1>1, <1>3, <2>3, <2>4, <2>5, <2>6
<1>4. CASE /\ Len(lines[i]) = 5 /\ lines[i][1] = 1 /\ lines[i][2] = 1
           /\ {lines[i][3], lines[i][4]} \subseteq Wire
           /\ Meaning(lines[i]) = Gate("NOT", lines[i][3], 0, lines[i][4])
  <2>1. OneInput
    BY <1>1, <1>4 DEF ScanGate, TwoInputs, Neither
  <2>2. \A k \in 1 .. 4 : \A old : Scan(k, old) = lines[i][k+1]
    <3>1. Len(lines[i]) - 1 = 4
      BY <1>4
    <3> QED
      BY <3>1, ScanLine
  <2>3. /\ tmp' = lines[i][2] /\ lhs' = lines[i][3] /\ output' = lines[i][4] /\ Skip(4)
        /\ gates' = [gates EXCEPT ![i] = Gate("NOT", lhs', 0, output')]
    <3>1. Scan(1, tmp) = lines[i][2] /\ Scan(2, lhs) = lines[i][3] /\ Scan(3, output) = lines[i][4]
      <4>1. 1 + 1 = 2 /\ 2 + 1 = 3 /\ 3 + 1 = 4
        OBVIOUS
      <4>2. 1 \in 1 .. 4 /\ 2 \in 1 .. 4 /\ 3 \in 1 .. 4
        OBVIOUS
      <4> QED
        BY <2>2, <4>1, <4>2
    <3> QED
      BY <2>1, <3>1 DEF OneInput
  <2>4. gates'[i] = Meaning(lines[i])
    BY <1>4, <2>3, OneGate
  <2>5. Len(lines[i]) - 1 = 4
    BY <1>4
  <2>6. lhs' = LhsOf(lines[i]) /\ output' = OutputOf(lines[i])
    BY <2>3, <2>5 DEF LhsOf, OutputOf
  <2> QED
    BY <1>1, <1>4, <2>3, <2>4, <2>5, <2>6
<1> QED
  BY <1>2, <1>3, <1>4, LineFacts

\* A line that breaks off takes the other numbers from what was there before.
LEMMA PartLine ==
  ASSUME BristolInv, ScanGate, {lhs, rhs, output} \subseteq Wire
  PROVE  {lhs', rhs', output'} \subseteq Wire /\ InWire(gates'[i])
<1>0. 0 \in Wire
  BY LinesAssumption DEF Wire
<1>1. PICK t \in Nat : /\ t = TokensOf(i-1) + 1 /\ RestAt(rest, t)
                       /\ t <= cut => tmp = lines[i][1]
  BY GateNow
<1>2. cut \in Nat /\ TokensOf(i-1) \in Nat /\ lines[i] \in GateLines
  BY LineNow DEF ScanGate
<1>3. CASE t <= cut
  <2>1. CASE /\ Len(lines[i]) = 6 /\ lines[i][1] = 2
             /\ {lines[i][3], lines[i][4], lines[i][5]} \subseteq Wire
    <3>1. TwoInputs
      BY <1>1, <1>3, <2>1 DEF ScanGate, OneInput, Neither
    <3>2. \A k \in 1 .. 5 : \A old : Scan(k, old) \in {old, lines[i][k+1]}
      <4>1. Len(lines[i]) - 1 = 5
        BY <2>1
      <4> QED
        BY <4>1, ScanLine
    <3>3. /\ Scan(2, lhs) \in {lhs, lines[i][3]} /\ Scan(3, rhs) \in {rhs, lines[i][4]}
          /\ Scan(4, output) \in {output, lines[i][5]}
      <4>1. 2 + 1 = 3 /\ 3 + 1 = 4 /\ 4 + 1 = 5 /\ 2 \in 1 .. 5 /\ 3 \in 1 .. 5 /\ 4 \in 1 .. 5
        OBVIOUS
      <4> QED
        BY <3>2, <4>1
    <3>4. {lhs', rhs', output'} \subseteq Wire
      BY <2>1, <3>1, <3>3 DEF TwoInputs
    <3>5. CASE gates' = gates
      BY <1>0, <3>4, <3>5, OneGate DEF InWire, Blank, Gate
    <3>6. CASE gates' = [gates EXCEPT ![i] = Gate(Name(str'), lhs', rhs', output')]
      BY <3>4, <3>6, OneGate DEF InWire, Gate
    <3> QED
      BY <3>1, <3>4, <3>5, <3>6 DEF TwoInputs
  <2>2. CASE Len(lines[i]) = 5 /\ lines[i][1] = 1 /\ {lines[i][3], lines[i][4]} \subseteq Wire
    <3>1. OneInput
      BY <1>1, <1>3, <2>2 DEF ScanGate, TwoInputs, Neither
    <3>2. \A k \in 1 .. 4 : \A old : Scan(k, old) \in {old, lines[i][k+1]}
      <4>1. Len(lines[i]) - 1 = 4
        BY <2>2
      <4> QED
        BY <4>1, ScanLine
    <3>3. Scan(2, lhs) \in {lhs, lines[i][3]} /\ Scan(3, output) \in {output, lines[i][4]}
      <4>1. 2 + 1 = 3 /\ 3 + 1 = 4 /\ 2 \in 1 .. 4 /\ 3 \in 1 .. 4
        OBVIOUS
      <4> QED
        BY <3>2, <4>1
    <3>4. {lhs', rhs', output'} \subseteq Wire
      BY <2>2, <3>1, <3>3 DEF OneInput
    <3> QED
      BY <1>0, <3>1, <3>4, OneGate DEF OneInput, InWire, Gate
  <2> QED
    BY <1>2, <2>1, <2>2, LineFacts
<1>4. CASE ~(t <= cut)
  <2>1. \A k \in 1 .. 5 : \A old : Scan(k, old) = old
    <3>1. cut <= TokensOf(i-1)
      BY <1>1, <1>2, <1>4
    <3> QED
      BY <3>1, PastScan
  <2>2. /\ Scan(2, lhs) = lhs /\ Scan(3, rhs) = rhs /\ Scan(4, output) = output
        /\ Scan(3, output) = output
    BY <2>1
  <2>3. lhs' = lhs /\ rhs' = rhs /\ output' = output
    BY <2>2 DEF ScanGate, TwoInputs, OneInput, Neither, locals
  <2>4. CASE gates' = gates
    BY <1>0, <2>3, <2>4, OneGate DEF InWire, Blank, Gate
  <2>5. CASE gates' = [gates EXCEPT ![i] = Gate(Name(str'), lhs', rhs', output')]
    BY <2>3, <2>5, OneGate DEF InWire, Gate
  <2>6. CASE gates' = [gates EXCEPT ![i] = Gate("NOT", lhs', 0, output')]
    BY <1>0, <2>3, <2>6, OneGate DEF InWire, Gate
  <2> QED
    BY <2>3, <2>4, <2>5, <2>6 DEF ScanGate, TwoInputs, OneInput, Neither
<1> QED
  BY <1>3, <1>4

\* Past the end the loop makes one gate after the other of the same numbers.
LEMMA MissingLine ==
  ASSUME BristolInv, ScanGate, cut <= TokensOf(i-1), tmp = 1
  PROVE  tmp' = 1 /\ lhs' = lhs /\ output' = output /\ gates'[i] = Gate("NOT", lhs, 0, output)
<1>1. OneInput
  BY DEF ScanGate, TwoInputs, Neither
<1>2. Scan(1, tmp) = tmp /\ Scan(2, lhs) = lhs /\ Scan(3, output) = output
  BY PastScan
<1> QED
  BY <1>1, <1>2, OneGate DEF OneInput

LEMMA RestAfterGate ==
  ASSUME BristolInv, ScanGate
  PROVE  \E t \in Nat : t = TokensOf(i) /\ RestAt(rest, t)'
<1>0. PICK e \in Nat : e = TokensOf(i)
  BY LineNow DEF ScanGate
<1>1. UNCHANGED <<lines, cut>> /\ TokensOf(i) \in Nat /\ cut \in Nat /\ TokensOf(i-1) \in Nat
  BY LineNow DEF ScanGate
<1>2. CASE TokensOf(i) <= cut
  <2>1. PICK t \in Nat, k \in Nat :
          RestAt(rest, t) /\ k = Len(lines[i]) - 1 /\ TokensOf(i) = t + k /\ Skip(k)
    <3>1. lines[i] \in GateLines
      BY LineNow DEF ScanGate
    <3>2. Len(lines[i]) - 1 \in Nat
      BY <3>1, LineFacts
    <3> QED
      BY <1>2, <3>2, WholeLine
  <2>2. /\ rest' \in Seq(Token)
        /\ Len(rest') = IF t + k <= cut THEN cut - (t + k) ELSE 0
        /\ \A j \in 1 .. Len(rest') : rest'[j] = Text[(t + k) + j]
    BY <1>1, <2>1, SkipRest
  <2>3. e = t + k
    BY <1>0, <2>1
  <2>4. RestAt(rest, e)'
    BY <1>1, <2>2, <2>3 DEF RestAt, Text
  <2> QED
    BY <1>0, <2>4
<1>3. CASE ~(TokensOf(i) <= cut)
  <2>1. PICK t \in Nat : /\ t = TokensOf(i-1) + 1 /\ RestAt(rest, t) /\ t <= TokensOf(i)
                         /\ TokensOf(i) = t + (Len(lines[i]) - 1)
                         /\ t <= cut => tmp = lines[i][1]
                         /\ cut < t => Len(rest) = 0
    BY GateNow
  <2>2. rest' \in Seq(Token) /\ Len(rest') = 0
    <3>1. CASE cut < t
      <4>1. rest = <<>>
        BY <2>1, <3>1, EmptySeq DEF RestAt
      <4>2. \A k \in Nat : SubSeq(rest, k + 1, Len(rest)) = <<>>
        BY <4>1
      <4>3. rest' = <<>>
        BY <4>1, <4>2 DEF ScanGate, TwoInputs, OneInput, Neither, Skip
      <4> QED
        BY <4>3
    <3>2. CASE ~(cut < t)
      <4>1. PICK k \in Nat : k = Len(lines[i]) - 1 /\ Skip(k)
        <5>1. lines[i] \in GateLines
          BY LineNow DEF ScanGate
        <5>2. tmp = lines[i][1]
          BY <1>1, <2>1, <3>2
        <5>3. CASE Len(lines[i]) = 6 /\ lines[i][1] = 2
          <6>1. Skip(5) /\ 5 = Len(lines[i]) - 1
            BY <5>2, <5>3 DEF ScanGate, TwoInputs, OneInput, Neither
          <6> QED
            BY <6>1
        <5>4. CASE Len(lines[i]) = 5 /\ lines[i][1] = 1
          <6>1. Skip(4) /\ 4 = Len(lines[i]) - 1
            BY <5>2, <5>4 DEF ScanGate, TwoInputs, OneInput, Neither
          <6> QED
            BY <6>1
        <5> QED
          BY <5>1, <5>3, <5>4, LineFacts
      <4>2. ~(t + k <= cut)
        BY <1>3, <2>1, <4>1
      <4> QED
        BY <1>1, <2>1, <4>1, <4>2, SkipRest
    <3> QED
      BY <3>1, <3>2
  <2>3. \A k : k \notin 1 .. Len(rest')
    BY <2>2
  <2> QED
    BY <1>0, <1>1, <1>3, <2>2, <2>3 DEF RestAt
<1> QED
  BY <1>2, <1>3

LEMMA ScanGateStep ==
  ASSUME BristolInv, ScanGate
  PROVE  BristolInv'
<1>1. More /\ i' = i + 1 /\ scanned' = FALSE /\ UNCHANGED <<lines, cut>>
  BY DEF ScanGate
<1>2. /\ lines \in Seq(GateLines) /\ Len(lines) \in Nat /\ DOMAIN lines = 1 .. Len(lines)
      /\ i \in 1 .. Len(lines) /\ i \in Nat /\ cut \in Nat
      /\ \A g \in DOMAIN lines : TokensOf(g) \in Nat /\ g \in Nat
  BY <1>1, LineNow
<1>3. (i + 1) - 1 = i /\ i + 1 \in 1 .. Len(lines) + 1
      /\ \A g \in DOMAIN lines : g < i + 1 <=> (g < i \/ g = i)
  BY <1>2
<1>4. \A g : TokensOf(g)' = TokensOf(g) /\ WholeWithTwo(g)' = WholeWithTwo(g)
  BY <1>1 DEF TokensOf, WholeWithTwo
<1>5. \A g \in DOMAIN lines : \A h \in DOMAIN lines : g <= h => TokensOf(g) <= TokensOf(h)
  <2> SUFFICES ASSUME NEW g \in DOMAIN lines, NEW h \in DOMAIN lines, g <= h
               PROVE  TokensOf(g) <= TokensOf(h)
    OBVIOUS
  <2>1. h \in 0 .. Len(lines) /\ g \in 0 .. h
    BY <1>2
  <2> QED
    BY <1>2, <2>1, TokensGrow
<1>6. FileOK'
  BY <1>1, <1>2, <1>3, OneGate DEF BristolInv, FileOK, Text
<1>7. ReadInStep'
  <2>1. PICK t \in Nat : t = TokensOf(i) /\ RestAt(rest, t)'
    BY RestAfterGate
  <2>2. Consumed' = t
    BY <1>1, <1>3, <2>1 DEF Consumed, TokensOf
  <2> QED
    BY <1>1, <2>1, <2>2 DEF ReadInStep, RestAt
<1>8. GatesSoFar'
  <2> SUFFICES ASSUME NEW g \in DOMAIN lines
               PROVE  /\ g < i + 1 /\ TokensOf(g) <= cut => gates'[g] = Meaning(lines[g])
                      /\ i + 1 <= g => gates'[g] = Blank
    BY <1>1, <1>4 DEF GatesSoFar
  <2>1. CASE g = i
    <3>1. ~(i + 1 <= g)
      BY <1>2, <2>1
    <3> QED
      BY <2>1, <3>1, WholeLine
  <2>2. CASE g # i
    <3>1. gates'[g] = gates[g] /\ (g < i + 1 => g < i) /\ (i + 1 <= g => i <= g)
      BY <1>2, <2>2, OneGate
    <3> QED
      BY <3>1 DEF BristolInv, GatesSoFar
  <2> QED
    BY <2>1, <2>2
<1>9. LocalsInRange'
  <2> SUFFICES ASSUME NEW g, WholeWithTwo(g)
               PROVE  /\ g < i + 1 => {lhs', rhs', output'} \subseteq Wire
                      /\ \A h \in DOMAIN lines : InWire(gates'[h])
    BY <1>1, <1>4 DEF LocalsInRange, InWire
  <2>1. g \in DOMAIN lines /\ TokensOf(g) <= cut /\ lines[g][1] = 2
    BY DEF WholeWithTwo
  <2>2. /\ g < i => {lhs, rhs, output} \subseteq Wire
        /\ \A h \in DOMAIN lines : InWire(gates[h])
    BY DEF BristolInv, LocalsInRange
  <2>3. (g < i + 1 => {lhs', rhs', output'} \subseteq Wire) /\ InWire(gates'[i])
    <3>1. CASE g < i
      BY <2>2, <3>1, PartLine
    <3>2. CASE ~(g < i)
      <4>1. TokensOf(i) <= cut
        <5>1. i <= g /\ i \in DOMAIN lines
          BY <1>2, <2>1, <3>2
        <5>2. TokensOf(i) <= TokensOf(g) /\ TokensOf(i) \in Nat /\ TokensOf(g) \in Nat
          BY <1>2, <1>5, <2>1, <5>1
        <5> QED
          BY <1>2, <2>1, <5>2
      <4>2. gates'[i] = Meaning(lines[i])
        BY <4>1, WholeLine
      <4>3. InWire(Meaning(lines[i]))
        <5>1. lines[i] \in GateLines /\ 0 \in Wire
          <6>1. lines[i] \in GateLines
            BY <1>1, LineNow
          <6>2. \E x : x \in Wire
            BY <6>1, LineFacts
          <6> QED
            BY <6>1, <6>2, LinesAssumption DEF Wire
        <5> QED
          BY <5>1, LineFacts DEF InWire, Blank, Gate
      <4>4. g < i + 1 => g = i
        BY <1>3, <2>1, <3>2
      <4> QED
        BY <2>1, <4>1, <4>2, <4>3, <4>4, WholeLine
    <3> QED
      BY <3>1, <3>2
  <2>4. \A h \in DOMAIN lines : h # i => InWire(gates'[h])
    BY <2>2, OneGate
  <2> QED
    BY <2>3, <2>4
<1>10. AfterTheEnd'
  <2> SUFFICES ASSUME NEW g \in DOMAIN lines, TokensOf(g) = cut, g < i + 1
               PROVE  /\ tmp' = 1 /\ lhs' = LhsOf(lines[g]) /\ output' = OutputOf(lines[g])
                      /\ \A h \in DOMAIN lines : g < h /\ h < i + 1 =>
                           gates'[h] = Gate("NOT", lhs', 0, output')
    BY <1>1, <1>4 DEF AfterTheEnd
  <2>1. CASE g = i
    <3>1. TokensOf(i) <= cut
      BY <1>2, <2>1
    <3>2. \A h \in DOMAIN lines : ~(g < h /\ h < i + 1)
      BY <1>2, <2>1
    <3> QED
      BY <2>1, <3>1, <3>2, WholeLine
  <2>2. CASE g < i
    <3>1. /\ tmp = 1 /\ lhs = LhsOf(lines[g]) /\ output = OutputOf(lines[g])
          /\ \A h \in DOMAIN lines : g < h /\ h < i => gates[h] = Gate("NOT", lhs, 0, output)
      BY <2>2 DEF BristolInv, AfterTheEnd
    <3>2. cut <= TokensOf(i-1)
      <4>1. i - 1 \in DOMAIN lines /\ g <= i - 1
        BY <1>2, <2>2
      <4> QED
        BY <1>5, <4>1
    <3>3. tmp' = 1 /\ lhs' = lhs /\ output' = output /\ gates'[i] = Gate("NOT", lhs, 0, output)
      BY <3>1, <3>2, MissingLine
    <3>4. ASSUME NEW h \in DOMAIN lines, g < h, h < i + 1
          PROVE  gates'[h] = Gate("NOT", lhs', 0, output')
      <4>1. h < i \/ h = i
        BY <1>3, <3>4
      <4>2. h < i => h # i
        BY <1>2
      <4> QED
        BY <3>1, <3>3, <3>4, <4>1, <4>2, OneGate
    <3> QED
      BY <3>1, <3>3, <3>4
  <2> QED
    BY <1>3, <2>1, <2>2
<1> QED
  BY <1>6, <1>7, <1>8, <1>9, <1>10 DEF BristolInv

LEMMA BristolStutter ==
  ASSUME BristolInv, UNCHANGED bristolVars
  PROVE  BristolInv'
<1>1. UNCHANGED <<lines, rest, cut, i, tmp, lhs, rhs, output, str, scanned, gates>>
  BY DEF bristolVars, locals
<1>2. FileOK' /\ ReadInStep' /\ GatesSoFar'
  BY <1>1 DEF BristolInv, FileOK, ReadInStep, GatesSoFar, RestAt, Consumed, TokensOf, Text
<1>3. LocalsInRange' /\ AfterTheEnd'
  BY <1>1 DEF BristolInv, LocalsInRange, AfterTheEnd, WholeWithTwo, TokensOf
<1> QED
  BY <1>2, <1>3 DEF BristolInv

\* The invariant, for every list of gates and every place where the file ends.
THEOREM BristolInvariant == BristolSpec => []BristolInv
<1>1. BristolInv /\ [BristolNext]_bristolVars => BristolInv'
  BY ScanInputsStep, ScanGateStep, BristolStutter DEF BristolNext
<1> QED
  BY BristolInitInv, <1>1, PTL DEF BristolSpec

\* The gates whose lines are there in full are right, whatever parse_circuit's
\* variables held before (circuit.cxx), for every file and every place it ends at.
THEOREM WholeLinesAreRight == BristolSpec => []WholeLinesRight
<1>1. BristolInv => WholeLinesRight
  BY DEF BristolInv, GatesSoFar, WholeLinesRight, WholeLines
<1> QED
  BY BristolInvariant, <1>1, PTL

\* Once a line of two inputs is there in full, no gate names a wire the circuit
\* does not have (circuit.cxx, the locals declared before the loop).
THEOREM GatesStayInRange == BristolSpec => []StaysInRange
<1>1. ASSUME BristolInv, NEW g \in WholeLines, lines[g][1] = 2
      PROVE  \A h \in DOMAIN gates : {gates[h].lhs, gates[h].rhs, gates[h].output} \subseteq Wire
  <2>1. WholeWithTwo(g)
    BY <1>1 DEF WholeWithTwo, WholeLines
  <2>2. DOMAIN gates = DOMAIN lines
    BY <1>1 DEF BristolInv, FileOK
  <2>3. \A h \in DOMAIN lines : InWire(gates[h])
    BY <1>1, <2>1 DEF BristolInv, LocalsInRange
  <2> QED
    BY <2>2, <2>3 DEF InWire
<1>2. BristolInv => StaysInRange
  BY <1>1 DEF StaysInRange
<1> QED
  BY BristolInvariant, <1>2, PTL

\* A file that ends between two lines is filled up with NOT gates from the first
\* input of its last line, of either form, into that line's output (circuit.cxx, the
\* loop to num_gate), for every file and every such place.
THEOREM MissingGatesAreNots == BristolSpec => []MissingBecomeNot
<1>1. ASSUME BristolInv PROVE MissingBecomeNot
  <2> SUFFICES ASSUME NEW g \in DOMAIN lines, Done, TokensOf(g) = cut,
                      NEW h \in g + 1 .. Len(lines)
               PROVE  gates[h] = Gate("NOT", LhsOf(lines[g]), 0, OutputOf(lines[g]))
    BY DEF MissingBecomeNot
  <2>1. lines \in Seq(GateLines) /\ i \in 1 .. Len(lines) + 1
    BY <1>1 DEF BristolInv, FileOK
  <2>2. DOMAIN lines = 1 .. Len(lines) /\ Len(lines) \in Nat
    BY <2>1, TokenFacts
  <2>3. g < i /\ h < i /\ g < h /\ h \in DOMAIN lines
    BY <2>1, <2>2 DEF Done, More
  <2> QED
    BY <1>1, <2>3 DEF BristolInv, AfterTheEnd
<1> QED
  BY BristolInvariant, <1>1, PTL
=============================================================================
