------------------------------- MODULE Basics -------------------------------
(***************************************************************************)
(* What the proofs about several modules need: induction, recursive        *)
(* functions, and sequences that list the members of a set in order.       *)
(*                                                                         *)
(* Induction is stated with sets: the induction theorems of the library    *)
(* take an operator as a parameter, which the provers cannot instantiate,  *)
(* but they do know that finite sets are well-founded by inclusion, and    *)
(* the sets 0 .. n-1 are ordered as the numbers n are.                     *)
(***************************************************************************)
EXTENDS Integers, SequencesExt, FiniteSetTheorems, SequenceTheorems, TLAPS

\* A set of naturals that is not empty has a least element.
LEMMA LeastElement ==
  ASSUME NEW S \in SUBSET Nat, S # {}
  PROVE  \E n \in S : \A m \in S : n <= m
<1> DEFINE T == {0 .. (n - 1) : n \in S}
<1>1. T \subseteq FiniteSubsetsOf(Nat) /\ T # {}
  <2>1. ASSUME NEW n \in S PROVE 0 .. (n - 1) \in FiniteSubsetsOf(Nat)
    BY FS_Interval DEF FiniteSubsetsOf
  <2> QED
    BY <2>1
<1>2. \E X \in T : \A Y \in T : ~(<<Y, X>> \in StrictSubsetOrdering(Nat))
  <2> HIDE DEF T
  <2> QED
    BY <1>1, FS_StrictSubsetOrderingWellFounded, WFMin
<1>3. PICK n \in S :
        \A m \in S : ~(<<0 .. (m - 1), 0 .. (n - 1)>> \in StrictSubsetOrdering(Nat))
  BY <1>2
<1>4. ASSUME NEW m \in S, m < n PROVE FALSE
  <2>1. 0 .. (m - 1) \subseteq 0 .. (n - 1) /\ 0 .. (n - 1) \subseteq Nat
    BY <1>4
  <2>2. m \in 0 .. (n - 1) /\ m \notin 0 .. (m - 1)
    BY <1>4
  <2> QED
    BY <1>3, <2>1, <2>2 DEF StrictSubsetOrdering
<1> QED
  BY <1>4

\* A set with 0, and with n + 1 if it has n, has all naturals.
LEMMA SetInduction ==
  ASSUME NEW S \in SUBSET Nat, 0 \in S, \A n \in S : n + 1 \in S
  PROVE  \A n \in Nat : n \in S
<1> SUFFICES ASSUME Nat \ S # {} PROVE FALSE
  OBVIOUS
<1>1. PICK n \in Nat \ S : \A m \in Nat \ S : n <= m
  BY LeastElement
<1>2. n - 1 \in Nat /\ n - 1 \in S
  BY <1>1
<1> QED
  BY <1>1, <1>2

\* The same up to a bound.
LEMMA BoundedInduction ==
  ASSUME NEW n \in Nat, NEW S, 0 \in S, \A i \in 0 .. n-1 : i \in S => i + 1 \in S
  PROVE  \A i \in 0 .. n : i \in S
<1> SUFFICES ASSUME (0 .. n) \ S # {} PROVE FALSE
  OBVIOUS
<1>1. (0 .. n) \ S \in SUBSET Nat
  OBVIOUS
<1>2. PICK i \in (0 .. n) \ S : \A j \in (0 .. n) \ S : i <= j
  BY <1>1, LeastElement
<1>3. i - 1 \in 0 .. n-1 /\ i - 1 \in S /\ (i - 1) + 1 = i
  BY <1>2
<1> QED
  BY <1>2, <1>3

\* A recurrence has a solution, so that the recursive functions of the modules are
\* what their equations say.
LEMMA Recurrence ==
  \A n, a, m \in Nat : \A g \in [1 .. n -> Nat] :
    \E e \in [0 .. n -> Nat] :
      e[0] = a /\ \A i \in 1 .. n : e[i] = e[i-1] * m + g[i]
<1> SUFFICES ASSUME NEW n \in Nat, NEW a \in Nat, NEW m \in Nat, NEW g \in [1 .. n -> Nat]
             PROVE  \E e \in [0 .. n -> Nat] :
                      e[0] = a /\ \A i \in 1 .. n : e[i] = e[i-1] * m + g[i]
  OBVIOUS
<1> DEFINE Solved(e, i) ==
             /\ e \in [0 .. i -> Nat] /\ e[0] = a
             /\ \A j \in 1 .. i : e[j] = e[j-1] * m + g[j]
           S == {i \in 0 .. n : \E e : Solved(e, i)}
<1>1. 0 \in S
  <2>1. Solved([j \in 0 .. 0 |-> a], 0)
    OBVIOUS
  <2> HIDE DEF Solved
  <2> QED
    BY <2>1
<1>2. ASSUME NEW i \in 0 .. n-1, i \in S PROVE i + 1 \in S
  <2>1. PICK e : Solved(e, i)
    BY <1>2
  <2>2. PICK z \in Nat : z = e[i] * m + g[i+1]
    <3>1. i \in 0 .. i /\ i + 1 \in 1 .. n
      OBVIOUS
    <3>2. e[i] \in Nat /\ g[i+1] \in Nat
      BY <2>1, <3>1
    <3>3. PICK x \in Nat, y \in Nat : x = e[i] /\ y = g[i+1]
      BY <3>2
    <3>4. x * m + y \in Nat
      OBVIOUS
    <3> QED
      BY <3>3, <3>4
  <2> DEFINE d == [j \in 0 .. i+1 |-> IF j = i + 1 THEN z ELSE e[j]]
  <2>3. d \in [0 .. i+1 -> Nat] /\ d[0] = a
    BY <2>1, <2>2
  <2>4. ASSUME NEW j \in 1 .. i+1 PROVE d[j] = d[j-1] * m + g[j]
    <3>1. CASE j = i + 1
      <4>1. d[j] = z /\ d[j-1] = e[i] /\ (i + 1) - 1 = i
        BY <3>1
      <4> QED
        BY <2>2, <3>1, <4>1
    <3>2. CASE j # i + 1
      <4>1. j \in 1 .. i /\ d[j] = e[j] /\ d[j-1] = e[j-1]
        BY <3>2
      <4> QED
        BY <2>1, <4>1
    <3> QED
      BY <3>1, <3>2
  <2>5. Solved(d, i + 1)
    BY <2>3, <2>4
  <2> HIDE DEF Solved, d
  <2> QED
    BY <1>2, <2>5
<1>3. \A i \in 0 .. n : i \in S
  <2> HIDE DEF S
  <2> QED
    BY <1>1, <1>2, BoundedInduction
<1>4. PICK e : Solved(e, n)
  <2>1. n \in S
    <3> HIDE DEF S
    <3> QED
      BY <1>3
  <2> HIDE DEF Solved
  <2> QED
    BY <2>1
<1> QED
  BY <1>4

\* So has a sum.
LEMMA Sums ==
  ASSUME NEW n \in Nat, NEW g \in [1 .. n -> Nat]
  PROVE  \E e \in [0 .. n -> Nat] : e[0] = 0 /\ \A i \in 1 .. n : e[i] = e[i-1] + g[i]
<1>1. PICK a \in Nat, m \in Nat : a = 0 /\ m = 1
  OBVIOUS
<1>2. \A h \in [1 .. n -> Nat] :
        \E e \in [0 .. n -> Nat] : e[0] = a /\ \A i \in 1 .. n : e[i] = e[i-1] * m + h[i]
  BY Recurrence, Zenon
<1>3. PICK e \in [0 .. n -> Nat] : e[0] = a /\ \A i \in 1 .. n : e[i] = e[i-1] * m + g[i]
  BY <1>2, Zenon
<1>4. ASSUME NEW i \in 1 .. n PROVE e[i] = e[i-1] + g[i]
  <2>1. e[i-1] \in Nat
    OBVIOUS
  <2>2. PICK x \in Nat : x = e[i-1]
    BY <2>1
  <2>3. x * m = x
    BY <1>1
  <2>4. e[i] = e[i-1] * m + g[i]
    BY <1>3
  <2> QED
    BY <2>2, <2>3, <2>4
<1> QED
  BY <1>1, <1>3, <1>4

\* e starts with x, and each member is made from the one before by f.
Iterates(e, x, f, n, T) ==
  e \in [0 .. n -> T] /\ e[0] = x /\ \A i \in 1 .. n : e[i] = f[e[i-1]]

LEMMA Iteration ==
  ASSUME NEW T, NEW a \in T, NEW f \in [T -> T], NEW n \in Nat
  PROVE  \E e : Iterates(e, a, f, n, T)
<1> DEFINE Made(e, i) ==
             /\ e \in [0 .. i -> T] /\ e[0] = a
             /\ \A j \in 1 .. i : e[j] = f[e[j-1]]
           S == {i \in 0 .. n : \E e : Made(e, i)}
<1>1. 0 \in S
  <2>1. Made([j \in 0 .. 0 |-> a], 0)
    OBVIOUS
  <2> HIDE DEF Made
  <2> QED
    BY <2>1
<1>2. ASSUME NEW i \in 0 .. n-1, i \in S PROVE i + 1 \in S
  <2>1. PICK e : Made(e, i)
    BY <1>2
  <2>2. PICK z \in T : z = f[e[i]]
    <3>1. i \in 0 .. i
      OBVIOUS
    <3> QED
      BY <2>1, <3>1
  <2> DEFINE d == [j \in 0 .. i+1 |-> IF j = i + 1 THEN z ELSE e[j]]
  <2>3. d \in [0 .. i+1 -> T] /\ d[0] = a
    BY <2>1, <2>2
  <2>4. ASSUME NEW j \in 1 .. i+1 PROVE d[j] = f[d[j-1]]
    <3>1. CASE j = i + 1
      <4>1. d[j] = z /\ d[j-1] = e[i] /\ (i + 1) - 1 = i
        BY <3>1
      <4> QED
        BY <2>2, <3>1, <4>1
    <3>2. CASE j # i + 1
      <4>1. j \in 1 .. i /\ d[j] = e[j] /\ d[j-1] = e[j-1]
        BY <3>2
      <4> QED
        BY <2>1, <4>1
    <3> QED
      BY <3>1, <3>2
  <2>5. Made(d, i + 1)
    BY <2>3, <2>4
  <2> HIDE DEF Made, d
  <2> QED
    BY <1>2, <2>5
<1>3. n \in S
  <2>1. \A i \in 0 .. n : i \in S
    <3> HIDE DEF S
    <3> QED
      BY <1>1, <1>2, BoundedInduction
  <2> HIDE DEF S
  <2> QED
    BY <2>1
<1>4. PICK e : Made(e, n)
  <2> HIDE DEF Made
  <2> QED
    BY <1>3
<1> QED
  BY <1>4 DEF Iterates

-----------------------------------------------------------------------------
(***************************************************************************)
(* Quotients, remainders and powers.                                       *)
(***************************************************************************)
\* A quotient is the only number of its kind.
LEMMA Quotient ==
  ASSUME NEW d \in Nat, d > 0, NEW s \in Nat, NEW r \in Nat, r < d, NEW n \in Nat, n = d * s + r
  PROVE  n \div d = s
<1>1. PICK q \in Nat, t \in Nat : q = n \div d /\ t = n % d /\ n = d * q + t /\ t < d
  OBVIOUS
<1>2. CASE q < s
  <2>1. d * q + d <= d * s
    <3>1. PICK u \in Nat : s = q + 1 + u
      BY <1>2
    <3>2. d * s = d * q + d + d * u /\ d * u \in Nat /\ d * q \in Nat
      BY <3>1
    <3> QED
      BY <3>2
  <2> QED
    BY <1>1, <2>1
<1>3. CASE s < q
  <2>1. d * s + d <= d * q
    <3>1. PICK u \in Nat : q = s + 1 + u
      BY <1>3
    <3>2. d * q = d * s + d + d * u /\ d * u \in Nat /\ d * s \in Nat
      BY <3>1
    <3> QED
      BY <3>2
  <2> QED
    BY <1>1, <2>1
<1> QED
  BY <1>1, <1>2, <1>3

LEMMA Division ==
  ASSUME NEW n \in Nat, NEW d \in Nat, d > 0
  PROVE  \E q, t \in Nat : q = n \div d /\ t = n % d /\ t < d /\ q * d + t = n
<1>1. PICK q \in Nat, t \in Nat : q = n \div d /\ t = n % d /\ n = d * q + t /\ t < d
  OBVIOUS
<1>2. q * d + t = n
  BY <1>1
<1> QED
  BY <1>1, <1>2

\* Dividing twice is dividing by the product.
LEMMA Quotients ==
  ASSUME NEW n \in Nat, NEW d \in Nat, d > 0, NEW b \in Nat, b > 0
  PROVE  n \div (d * b) = (n \div d) \div b
<1>1. PICK q \in Nat, r \in Nat : q = n \div d /\ n = d * q + r /\ r < d
  OBVIOUS
<1>2. PICK s \in Nat, t \in Nat : s = q \div b /\ q = b * s + t /\ t < b
  OBVIOUS
<1>3. PICK e \in Nat : e = d * b /\ e > 0
  OBVIOUS
<1>4. PICK u \in Nat : u = d * t + r
  OBVIOUS
<1>5. u < e
  <2>1. PICK v \in Nat : b = t + 1 + v
    BY <1>2
  <2>2. d * b = d * t + d + d * v /\ d * v \in Nat /\ d * t \in Nat
    BY <2>1
  <2> QED
    BY <1>1, <1>3, <1>4, <2>2
<1>6. n = e * s + u
  <2>1. d * q = (d * b) * s + d * t
    BY <1>2
  <2> QED
    BY <1>1, <1>3, <1>4, <2>1
<1>7. n \div e = s
  BY <1>3, <1>5, <1>6, Quotient
<1> QED
  BY <1>1, <1>2, <1>3, <1>7

LEMMA IntDivision ==
  ASSUME NEW n \in Int, NEW d \in Nat, d > 0
  PROVE  \E q \in Int, t \in Nat : t = n % d /\ t < d /\ n = d * q + t
  OBVIOUS

\* Dividing x by d leaves r.
Leaves(x, d, q, r) ==
  /\ x \in Int /\ d \in Nat /\ q \in Int /\ r \in Nat
  /\ x = d * q + r /\ r < d

\* A remainder is the only number of its kind.
LEMMA Remainder == \A x, d, q, r : Leaves(x, d, q, r) => x % d = r
<1> SUFFICES ASSUME NEW x \in Int, NEW d \in Nat, NEW s \in Int, NEW r \in Nat,
                    x = d * s + r, r < d
             PROVE  x % d = r
  BY DEF Leaves
<1>0. d > 0
  OBVIOUS
<1>1. PICK q \in Int, t \in Nat : t = x % d /\ x = d * q + t /\ t < d
  BY <1>0, IntDivision
<1>2. CASE q < s
  <2>1. PICK u \in Nat : s = q + 1 + u
    BY <1>2
  <2>2. d * s = d * q + d + d * u /\ d * u \in Nat /\ d * q \in Int
    BY <2>1
  <2> QED
    BY <1>1, <2>2
<1>3. CASE s < q
  <2>1. PICK u \in Nat : q = s + 1 + u
    BY <1>3
  <2>2. d * q = d * s + d + d * u /\ d * u \in Nat /\ d * s \in Int
    BY <2>1
  <2> QED
    BY <1>1, <2>2
<1> QED
  BY <1>1, <1>2, <1>3

\* A factor may be reduced before it is multiplied.
LEMMA ReducedFactor ==
  ASSUME NEW x \in Nat, NEW y \in Nat, NEW d \in Nat, d > 0
  PROVE  ((x % d) * y) % d = (x * y) % d
<1>1. PICK q \in Int, t \in Nat : t = x % d /\ t < d /\ x = d * q + t
  BY IntDivision
<1>2. PICK z \in Nat : z = t * y
  OBVIOUS
<1>3. PICK p \in Int, r \in Nat : r = z % d /\ r < d /\ z = d * p + r
  BY IntDivision
<1>4. PICK s \in Int : s = q * y + p
  OBVIOUS
<1>5. PICK w \in Nat : w = x * y
  OBVIOUS
<1>6. w = d * s + r
  <2>1. (d * q + t) * y = d * (q * y) + t * y
    OBVIOUS
  <2>2. d * (q * y + p) = d * (q * y) + d * p
    OBVIOUS
  <2> QED
    BY <1>1, <1>2, <1>3, <1>4, <1>5, <2>1, <2>2
<1>7. w % d = r
  <2>1. Leaves(w, d, s, r)
    BY <1>3, <1>6 DEF Leaves
  <2> QED
    BY <2>1, Remainder
<1> QED
  BY <1>1, <1>2, <1>3, <1>5, <1>7

\* p[k] is m to the power k, for k up to n.
Powers(p, m, n) ==
  /\ p[0] = 1
  /\ \A k \in 1 .. n : p[k] = p[k-1] * m
  /\ \A k \in 0 .. n : p[k] \in Nat /\ p[k] > 0

LEMMA PowersExist ==
  ASSUME NEW n \in Nat, NEW m \in Nat, m > 0
  PROVE  \E p \in [0 .. n -> Nat] : Powers(p, m, n)
<1>1. PICK T : T = Nat \ {0}
  OBVIOUS
<1>2. PICK f \in [T -> T] : \A y \in T : f[y] = y * m
  <2>1. \A y \in T : y * m \in T
    BY <1>1
  <2>2. [y \in T |-> y * m] \in [T -> T]
    BY <2>1
  <2> QED
    BY <2>2
<1>3. PICK p : Iterates(p, 1, f, n, T)
  <2>1. 1 \in T
    BY <1>1
  <2> QED
    BY <2>1, Iteration
<1>4. ASSUME NEW k \in 1 .. n PROVE p[k] = p[k-1] * m
  <2>1. p[k-1] \in T
    BY <1>3 DEF Iterates
  <2> QED
    BY <1>2, <1>3, <2>1 DEF Iterates
<1>5. \A k \in 0 .. n : p[k] \in Nat /\ p[k] > 0
  BY <1>1, <1>3 DEF Iterates
<1>6. p \in [0 .. n -> Nat]
  BY <1>3, <1>5 DEF Iterates
<1> QED
  BY <1>3, <1>4, <1>5, <1>6 DEF Powers, Iterates

\* The recursive functions of the modules that are such powers.
LEMMA RecursivePowers ==
  ASSUME NEW n \in Nat, NEW m \in Nat, m > 0,
         NEW g, g = CHOOSE f : f = [k \in 0 .. n |-> IF k = 0 THEN 1 ELSE f[k-1] * m]
  PROVE  Powers(g, m, n) /\ g \in [0 .. n -> Nat]
<1> DEFINE F(f) == [k \in 0 .. n |-> IF k = 0 THEN 1 ELSE f[k-1] * m]
<1>1. PICK p \in [0 .. n -> Nat] : Powers(p, m, n)
  BY PowersExist
<1>2. p = F(p)
  <2>1. \A k \in 0 .. n : p[k] = IF k = 0 THEN 1 ELSE p[k-1] * m
    <3>1. \A k \in 0 .. n : k = 0 \/ k \in 1 .. n
      OBVIOUS
    <3>2. ASSUME NEW k \in 0 .. n PROVE p[k] = IF k = 0 THEN 1 ELSE p[k-1] * m
      <4>1. CASE k = 0
        BY <1>1, <4>1 DEF Powers
      <4>2. CASE k \in 1 .. n
        BY <1>1, <4>2 DEF Powers
      <4> QED
        BY <3>1, <4>1, <4>2
    <3> QED
      BY <3>2
  <2>2. p = [k \in 0 .. n |-> p[k]]
    BY <1>1 DEF Powers
  <2> QED
    BY <2>1, <2>2
<1>3. g = F(g)
  <2>1. g = CHOOSE f : f = F(f)
    OBVIOUS
  <2> HIDE DEF F
  <2> QED
    BY <1>2, <2>1
<1> DEFINE S == {k \in 0 .. n : g[k] \in Nat /\ g[k] > 0}
<1>4. g[0] = 1
  <2>1. 0 \in 0 .. n
    OBVIOUS
  <2> QED
    BY <1>3, <2>1
<1>5. ASSUME NEW k \in 1 .. n PROVE g[k] = g[k-1] * m
  <2>1. k # 0 /\ k \in 0 .. n
    OBVIOUS
  <2> QED
    BY <1>3, <2>1
<1>6. ASSUME NEW k \in 0 .. n-1, k \in S PROVE k + 1 \in S
  <2>1. k + 1 \in 1 .. n /\ k + 1 \in 0 .. n /\ (k + 1) - 1 = k
    OBVIOUS
  <2>2. PICK x \in Nat : x = g[k] /\ x > 0
    BY <1>6
  <2>3. x * m \in Nat /\ x * m > 0
    BY <2>2
  <2> QED
    BY <1>5, <2>1, <2>2, <2>3
<1>7. \A k \in 0 .. n : k \in S
  <2>1. 0 \in S
    BY <1>4
  <2> HIDE DEF S
  <2> QED
    BY <1>6, <2>1, BoundedInduction
<1>8. g \in [0 .. n -> Nat]
  <2>1. g = [k \in 0 .. n |-> g[k]]
    BY <1>3
  <2> QED
    BY <1>7, <2>1
<1> QED
  BY <1>4, <1>5, <1>7, <1>8 DEF Powers

LEMMA HornerStep ==
  ASSUME NEW x \in Nat, NEW d \in Nat, d > 0, NEW m \in Nat, m > 0,
         NEW c, c = x \div (d * m)
  PROVE  c * m + ((x \div d) % m) = x \div d
<1>1. PICK w \in Nat : w = x \div d
  BY Division
<1>2. c = w \div m
  BY <1>1, Quotients
<1>3. PICK y \in Nat, z \in Nat : y = w \div m /\ z = w % m /\ y * m + z = w
  BY Division
<1>4. c * m + (w % m) = y * m + z
  <2>1. c = y
    BY <1>2, <1>3
  <2> QED
    BY <1>3, <2>1, Zenon
<1> QED
  BY <1>1, <1>3, <1>4

LEMMA SmallQuotient ==
  ASSUME NEW x \in Nat, NEW d \in Nat, d > 0
  PROVE  /\ x < d => x \div d = 0
         /\ x \div 1 = x
<1>1. PICK z \in Nat, u \in Nat : z = 0 /\ u = 1
  OBVIOUS
<1>2. x < d => x \div d = z
  <2>1. x = d * z + x
    BY <1>1
  <2> QED
    BY <2>1, Quotient
<1>3. x \div u = x
  <2>1. x = u * x + z /\ z < u
    BY <1>1
  <2> QED
    BY <1>1, <2>1, Quotient
<1> QED
  BY <1>1, <1>2, <1>3

-----------------------------------------------------------------------------
(***************************************************************************)
(* Slots in order: what is done in slots lo, lo + 1, ..., hi - 1, by       *)
(* somebody who has something to do only in the slots S.                   *)
(***************************************************************************)
\* The slots c are, in order, exactly those of S from lo up to hi, and the
\* reader, at lo, is not ahead of the sender, at hi.
InOrder(c, lo, hi, S) ==
  /\ \A i \in 1 .. Len(c) : c[i] \in S /\ lo <= c[i] /\ c[i] < hi
  /\ \A i, j \in 1 .. Len(c) : i < j => c[i] < c[j]
  /\ \A s \in S : lo <= s /\ s < hi => \E i \in 1 .. Len(c) : c[i] = s
  /\ \A s \in S : s < lo => s < hi

\* The sender moves on past slots it has nothing to send in.
LEMMA SenderAdvances ==
  ASSUME NEW c \in Seq(Nat), NEW lo \in Nat, NEW hi \in Nat, NEW hi2 \in Nat,
         NEW S \in SUBSET Nat,
         InOrder(c, lo, hi, S), hi <= hi2, \A s \in S : ~(hi <= s /\ s < hi2)
  PROVE  InOrder(c, lo, hi2, S)
  BY DEF InOrder

\* The reader moves on past slots it gets nothing in.
LEMMA ReaderAdvances ==
  ASSUME NEW c \in Seq(Nat), NEW lo \in Nat, NEW lo2 \in Nat, NEW hi \in Nat,
         NEW S \in SUBSET Nat,
         InOrder(c, lo, hi, S), lo <= lo2, \A s \in S : ~(lo <= s /\ s < lo2)
  PROVE  InOrder(c, lo2, hi, S)
  BY DEF InOrder

LEMMA LastOrBefore == \A l \in Nat : \A j \in 1 .. l+1 : j = l + 1 \/ j \in 1 .. l
  OBVIOUS

\* The sender sends in the only slot planned up to its new position.
LEMMA SenderSends ==
  ASSUME NEW c \in Seq(Nat), NEW lo \in Nat, NEW hi \in Nat, NEW hi2 \in Nat,
         NEW S \in SUBSET Nat,
         InOrder(c, lo, hi, S), NEW n \in S, hi <= n, n < hi2,
         \A s \in S : hi <= s /\ s < hi2 => s = n
  PROVE  InOrder(Append(c, n), lo, hi2, S)
<1>0. n \in Nat /\ \A s \in S : s \in Nat
  OBVIOUS
<1>1. PICK d \in Seq(Nat) :
        /\ d = Append(c, n) /\ Len(d) = Len(c) + 1 /\ d[Len(c) + 1] = n
        /\ \A i \in 1 .. Len(c) : d[i] = c[i]
  <2>1. /\ Append(c, n) \in Seq(Nat) /\ Len(Append(c, n)) = Len(c) + 1
        /\ Append(c, n)[Len(c) + 1] = n
        /\ \A i \in 1 .. Len(c) : Append(c, n)[i] = c[i]
    BY <1>0, AppendProperties
  <2> QED
    BY <2>1
<1>2. lo <= n
  BY <1>0 DEF InOrder
<1>3. \A i \in 1 .. Len(d) : d[i] \in S /\ lo <= d[i] /\ d[i] < hi2
  BY <1>0, <1>1, <1>2 DEF InOrder
<1>4. \A i, j \in 1 .. Len(d) : i < j => d[i] < d[j]
  <2> SUFFICES ASSUME NEW i \in 1 .. Len(d), NEW j \in 1 .. Len(d), i < j
               PROVE  d[i] < d[j]
    OBVIOUS
  <2>1. Len(c) \in Nat /\ i \in 1 .. Len(c) /\ d[i] = c[i] /\ c[i] < hi
    BY <1>1, LenProperties DEF InOrder
  <2>2. CASE j = Len(c) + 1
    BY <1>0, <1>1, <2>1, <2>2
  <2>3. CASE j \in 1 .. Len(c)
    BY <1>1, <2>1, <2>3 DEF InOrder
  <2>4. j = Len(c) + 1 \/ j \in 1 .. Len(c)
    <3>1. PICK l \in Nat : l = Len(c) /\ Len(d) = l + 1 /\ j \in 1 .. l + 1
      BY <1>1, <2>1
    <3>2. j = l + 1 \/ j \in 1 .. l
      BY <3>1, LastOrBefore
    <3> QED
      BY <3>1, <3>2
  <2> QED
    BY <2>2, <2>3, <2>4
<1>5. \A s \in S : lo <= s /\ s < hi2 => \E i \in 1 .. Len(d) : d[i] = s
  <2> SUFFICES ASSUME NEW s \in S, lo <= s, s < hi2
               PROVE  \E i \in 1 .. Len(d) : d[i] = s
    OBVIOUS
  <2>1. CASE s = n
    BY <1>1, <2>1, LenProperties
  <2>2. CASE s < hi
    <3>1. PICK i \in 1 .. Len(c) : c[i] = s
      BY <2>2 DEF InOrder
    <3> QED
      BY <1>1, <3>1, LenProperties
  <2> QED
    BY <1>0, <2>1, <2>2
<1>6. \A s \in S : s < lo => s < hi2
  BY <1>0 DEF InOrder
<1> QED
  BY <1>1, <1>3, <1>4, <1>5, <1>6 DEF InOrder

\* The reader finds the slot of its position at the head of the channel...
LEMMA HeadSlot ==
  ASSUME NEW c \in Seq(Nat), c # <<>>, NEW lo \in Nat, NEW hi \in Nat,
         NEW S \in SUBSET Nat, InOrder(c, lo, hi, S), lo \in S
  PROVE  Head(c) = lo
<1>1. Len(c) \in Nat /\ 1 \in 1 .. Len(c) /\ Head(c) = c[1]
  BY EmptySeq, LenProperties
<1>2. c[1] \in S /\ lo <= c[1] /\ c[1] < hi
  BY <1>1 DEF InOrder
<1>3. PICK i \in 1 .. Len(c) : c[i] = lo
  BY <1>2 DEF InOrder
<1>4. 1 < i => c[1] < c[i]
  BY <1>1 DEF InOrder
<1> QED
  BY <1>1, <1>2, <1>3, <1>4

\* ... and has the rest of the channel before it when it moves on.
LEMMA ReaderReads ==
  ASSUME NEW c \in Seq(Nat), c # <<>>, NEW lo \in Nat, NEW lo2 \in Nat, NEW hi \in Nat,
         NEW S \in SUBSET Nat,
         InOrder(c, lo, hi, S), lo \in S, lo < lo2,
         \A s \in S : lo <= s /\ s < lo2 => s = lo
  PROVE  InOrder(Tail(c), lo2, hi, S)
<1>1. PICK d \in Seq(Nat) :
        /\ d = Tail(c) /\ Len(d) = Len(c) - 1
        /\ \A i \in 1 .. Len(d) : d[i] = c[i+1]
  BY HeadTailProperties
<1>2. /\ Len(c) \in Nat /\ 1 \in 1 .. Len(c) /\ c[1] = lo
      /\ \A i \in 1 .. Len(d) : i + 1 \in 1 .. Len(c)
  BY <1>1, HeadSlot, EmptySeq, LenProperties
<1>3. \A i \in 1 .. Len(c) : c[i] \in S /\ lo <= c[i] /\ c[i] < hi
  BY DEF InOrder
<1>4. \A i \in 1 .. Len(d) : d[i] \in S /\ lo2 <= d[i] /\ d[i] < hi
  <2> SUFFICES ASSUME NEW i \in 1 .. Len(d)
               PROVE  d[i] \in S /\ lo2 <= d[i] /\ d[i] < hi
    OBVIOUS
  <2>1. i + 1 \in 1 .. Len(c) /\ 1 < i + 1
    BY <1>2
  <2>2. c[1] < c[i+1]
    BY <1>2, <2>1 DEF InOrder
  <2> QED
    BY <1>1, <1>2, <1>3, <2>1, <2>2
<1>5. \A i, j \in 1 .. Len(d) : i < j => d[i] < d[j]
  BY <1>1, <1>2 DEF InOrder
<1>6. \A s \in S : lo2 <= s /\ s < hi => \E i \in 1 .. Len(d) : d[i] = s
  <2> SUFFICES ASSUME NEW s \in S, lo2 <= s, s < hi
               PROVE  \E i \in 1 .. Len(d) : d[i] = s
    OBVIOUS
  <2>1. PICK i \in 1 .. Len(c) : c[i] = s
    BY DEF InOrder
  <2>2. i # 1
    BY <1>2, <2>1
  <2>3. i - 1 \in 1 .. Len(d) /\ (i - 1) + 1 = i
    BY <1>1, <1>2, <2>2
  <2> QED
    BY <1>1, <2>1, <2>3
<1>7. \A s \in S : s < lo2 => s < hi
  BY <1>2, <1>3 DEF InOrder
<1> QED
  BY <1>1, <1>4, <1>5, <1>6, <1>7 DEF InOrder

\* One list after the other.
LEMMA Joined ==
  ASSUME NEW c \in Seq(Nat), NEW d \in Seq(Nat), NEW a \in Nat, NEW b \in Nat, NEW e \in Nat,
         NEW S \in SUBSET Nat, a <= b, b <= e, InOrder(c, a, b, S), InOrder(d, b, e, S)
  PROVE  InOrder(c \o d, a, e, S)
<1>1. PICK m \in Nat, n \in Nat : m = Len(c) /\ n = Len(d)
  BY LenProperties
<1>2. PICK f \in Seq(Nat) :
        /\ f = c \o d /\ Len(f) = m + n
        /\ \A i \in 1 .. m : f[i] = c[i]
        /\ \A i \in 1 .. n : f[i + m] = d[i]
  <2>1. PICK f \in Seq(Nat) :
          /\ f = c \o d /\ Len(f) = Len(c) + Len(d)
          /\ \A i \in 1 .. Len(c) + Len(d) : f[i] = IF i <= Len(c) THEN c[i] ELSE d[i - Len(c)]
    <3>1. /\ c \o d \in Seq(Nat) /\ Len(c \o d) = Len(c) + Len(d)
          /\ \A i \in 1 .. Len(c) + Len(d) :
               (c \o d)[i] = IF i <= Len(c) THEN c[i] ELSE d[i - Len(c)]
      BY ConcatProperties
    <3> QED
      BY <3>1
  <2>2. \A i \in 1 .. m + n : f[i] = IF i <= m THEN c[i] ELSE d[i - m]
    BY <1>1, <2>1
  <2>3. ASSUME NEW i \in 1 .. n PROVE f[i + m] = d[i]
    <3>1. i + m \in 1 .. m + n /\ ~(i + m <= m) /\ (i + m) - m = i
      OBVIOUS
    <3> QED
      BY <2>2, <3>1
  <2>4. ASSUME NEW i \in 1 .. m PROVE f[i] = c[i]
    <3>1. i \in 1 .. m + n /\ i <= m
      OBVIOUS
    <3> QED
      BY <2>2, <3>1
  <2> QED
    BY <1>1, <2>1, <2>3, <2>4
<1>3. \A i \in 1 .. m + n : i \in 1 .. m \/ \E j \in 1 .. n : i = j + m
  <2> SUFFICES ASSUME NEW i \in 1 .. m + n, i \notin 1 .. m PROVE \E j \in 1 .. n : i = j + m
    OBVIOUS
  <2>1. i - m \in 1 .. n /\ i = (i - m) + m
    OBVIOUS
  <2> QED
    BY <2>1
<1>4. /\ \A i \in 1 .. m : c[i] \in S /\ a <= c[i] /\ c[i] < b
      /\ \A i \in 1 .. n : d[i] \in S /\ b <= d[i] /\ d[i] < e
  BY <1>1 DEF InOrder
<1>5. \A s \in S : s \in Nat
  OBVIOUS
<1>6. \A i \in 1 .. m + n : f[i] \in S /\ a <= f[i] /\ f[i] < e
  <2> SUFFICES ASSUME NEW i \in 1 .. m + n PROVE f[i] \in S /\ a <= f[i] /\ f[i] < e
    OBVIOUS
  <2>1. CASE i \in 1 .. m
    BY <1>2, <1>4, <1>5, <2>1
  <2>2. ASSUME NEW j \in 1 .. n, i = j + m PROVE f[i] \in S /\ a <= f[i] /\ f[i] < e
    <3>1. f[i] = d[j] /\ d[j] \in S /\ d[j] \in Nat /\ b <= d[j] /\ d[j] < e
      BY <1>2, <1>4, <1>5, <2>2
    <3> QED
      BY <3>1
  <2> QED
    BY <1>3, <2>1, <2>2
<1>7. \A i, j \in 1 .. m + n : i < j => f[i] < f[j]
  <2> SUFFICES ASSUME NEW i \in 1 .. m + n, NEW j \in 1 .. m + n, i < j PROVE f[i] < f[j]
    OBVIOUS
  <2>1. CASE j \in 1 .. m
    <3>1. i \in 1 .. m
      BY <2>1
    <3> QED
      BY <1>1, <1>2, <2>1, <3>1 DEF InOrder
  <2>2. ASSUME NEW l \in 1 .. n, j = l + m PROVE f[i] < f[j]
    <3>1. CASE i \in 1 .. m
      <4>1. PICK x \in Nat, y \in Nat : x = c[i] /\ y = d[l]
        BY <1>4, <1>5, <3>1
      <4>2. f[i] = x /\ f[j] = y /\ x < b /\ b <= y
        BY <1>2, <1>4, <2>2, <3>1, <4>1
      <4> QED
        BY <4>2
    <3>2. ASSUME NEW k \in 1 .. n, i = k + m PROVE f[i] < f[j]
      <4>0. k < l
        BY <2>2, <3>2
      <4>1. f[i] = d[k] /\ f[j] = d[l]
        BY <1>2, <2>2, <3>2
      <4> QED
        BY <1>1, <4>0, <4>1 DEF InOrder
    <3> QED
      BY <1>3, <3>1, <3>2
  <2> QED
    BY <1>3, <2>1, <2>2
<1>8. \A s \in S : a <= s /\ s < e => \E i \in 1 .. m + n : f[i] = s
  <2> SUFFICES ASSUME NEW s \in S, a <= s, s < e PROVE \E i \in 1 .. m + n : f[i] = s
    OBVIOUS
  <2>1. CASE s < b
    <3>1. PICK i \in 1 .. m : c[i] = s
      BY <1>1, <2>1 DEF InOrder
    <3>2. i \in 1 .. m + n
      OBVIOUS
    <3> QED
      BY <1>2, <3>1, <3>2
  <2>2. CASE b <= s
    <3>1. PICK i \in 1 .. n : d[i] = s
      BY <1>1, <2>2 DEF InOrder
    <3>2. i + m \in 1 .. m + n
      OBVIOUS
    <3> QED
      BY <1>2, <3>1, <3>2
  <2> QED
    BY <1>5, <2>1, <2>2
<1>9. \A s \in S : s < a => s < e
  BY <1>5
<1> QED
  BY <1>2, <1>6, <1>7, <1>8, <1>9 DEF InOrder

-----------------------------------------------------------------------------
(***************************************************************************)
(* Sequences of sequences, one after the other.                            *)
(***************************************************************************)
\* FlattenSeq puts one piece after the other.
LEMMA Flatten ==
  ASSUME NEW T, NEW s \in Seq(Seq(T))
  PROVE  \E e \in [0 .. Len(s) -> Seq(T)] :
           /\ e[0] = <<>> /\ FlattenSeq(s) = e[Len(s)]
           /\ \A i \in 1 .. Len(s) : e[i] = e[i-1] \o s[i]
<1>1. PICK n \in Nat : n = Len(s) /\ \A i \in 1 .. n : s[i] \in Seq(T)
  BY LenProperties
<1> DEFINE Joins(e, i) ==
             /\ e \in [0 .. i -> Seq(T)] /\ e[0] = <<>>
             /\ \A j \in 1 .. i : e[j] = e[j-1] \o s[j]
           S == {i \in 0 .. n : \E e : Joins(e, i)}
<1>2. 0 \in S
  <2>1. Joins([j \in 0 .. 0 |-> <<>>], 0)
    OBVIOUS
  <2> HIDE DEF Joins
  <2> QED
    BY <2>1
<1>3. ASSUME NEW i \in 0 .. n-1, i \in S PROVE i + 1 \in S
  <2>1. PICK e : Joins(e, i)
    BY <1>3
  <2>2. PICK z \in Seq(T) : z = e[i] \o s[i+1]
    <3>1. e[i] \in Seq(T) /\ s[i+1] \in Seq(T)
      BY <1>1, <2>1
    <3> QED
      BY <3>1, ConcatProperties
  <2> DEFINE d == [j \in 0 .. i+1 |-> IF j = i + 1 THEN z ELSE e[j]]
  <2>3. d \in [0 .. i+1 -> Seq(T)] /\ d[0] = <<>>
    BY <2>1, <2>2
  <2>4. ASSUME NEW j \in 1 .. i+1 PROVE d[j] = d[j-1] \o s[j]
    <3>1. CASE j = i + 1
      <4>1. d[j] = z /\ d[j-1] = e[i]
        BY <3>1
      <4> QED
        BY <2>2, <3>1, <4>1
    <3>2. CASE j # i + 1
      <4>1. j \in 1 .. i /\ d[j] = e[j] /\ d[j-1] = e[j-1]
        BY <3>2
      <4> QED
        BY <2>1, <4>1
    <3> QED
      BY <3>1, <3>2
  <2>5. Joins(d, i + 1)
    BY <2>3, <2>4
  <2> HIDE DEF Joins, d
  <2> QED
    BY <1>3, <2>5
<1>4. \A i \in 0 .. n : i \in S
  <2> HIDE DEF S
  <2> QED
    BY <1>2, <1>3, BoundedInduction
<1>5. PICK e : Joins(e, n)
  <2>1. n \in S
    <3> HIDE DEF S
    <3> QED
      BY <1>4
  <2> HIDE DEF Joins
  <2> QED
    BY <2>1
<1>6. FlattenSeq(s) = e[n]
  <2>1. CASE n = 0
    <3>1. s = <<>>
      BY <1>1, <2>1, EmptySeq
    <3> QED
      BY <1>1, <1>5, <2>1, <3>1 DEF FlattenSeq
  <2>2. CASE n > 0
    <3> DEFINE Pieces(f) == f = [i \in 1 .. n |-> IF i = 1 THEN s[i] ELSE f[i-1] \o s[i]]
               flatten == CHOOSE f : Pieces(f)
    <3>1. FlattenSeq(s) = flatten[n]
      BY <1>1, <2>2 DEF FlattenSeq
    <3>2. Pieces([i \in 1 .. n |-> e[i]])
      <4>1. ASSUME NEW i \in 1 .. n
            PROVE  e[i] = IF i = 1 THEN s[i] ELSE [j \in 1 .. n |-> e[j]][i-1] \o s[i]
        <5>1. CASE i = 1
          <6>0. 1 \in 1 .. n /\ 1 - 1 = 0
            BY <2>2
          <6>1. e[1] = <<>> \o s[1] /\ s[1] \in Seq(T)
            BY <1>1, <1>5, <6>0
          <6> QED
            BY <5>1, <6>1, ConcatEmptySeq
        <5>2. CASE i # 1
          <6>1. i - 1 \in 1 .. n
            BY <5>2
          <6> QED
            BY <1>5, <5>2, <6>1
        <5> QED
          BY <5>1, <5>2
      <4> QED
        BY <4>1
    <3>3. Pieces(flatten)
      <4> HIDE DEF Pieces
      <4> QED
        BY <3>2
    <3> DEFINE E == {i \in 0 .. n : i = 0 \/ flatten[i] = e[i]}
    <3>4. ASSUME NEW i \in 0 .. n-1, i \in E PROVE i + 1 \in E
      <4> HIDE DEF flatten
      <4>0. i + 1 \in 1 .. n /\ (i + 1) - 1 = i
        OBVIOUS
      <4>1. flatten[i+1] = IF i + 1 = 1 THEN s[i+1] ELSE flatten[(i+1)-1] \o s[i+1]
        <5>1. flatten = [j \in 1 .. n |-> IF j = 1 THEN s[j] ELSE flatten[j-1] \o s[j]]
          BY <3>3
        <5> QED
          BY <4>0, <5>1
      <4>2. e[i+1] = e[(i+1)-1] \o s[i+1]
        BY <1>5, <4>0
      <4>3. CASE i = 0
        <5>0. 1 \in 1 .. n /\ 1 - 1 = 0
          BY <2>2
        <5>1. e[1] = <<>> \o s[1] /\ s[1] \in Seq(T)
          BY <1>1, <1>5, <5>0
        <5>2. e[1] = s[1]
          BY <5>1, ConcatEmptySeq
        <5> QED
          BY <4>1, <4>3, <5>2
      <4>4. CASE i # 0
        <5>1. flatten[i] = e[i] /\ i + 1 # 1
          BY <3>4, <4>4
        <5>2. flatten[i+1] = e[i+1]
          BY <4>0, <4>1, <4>2, <5>1
        <5> QED
          BY <4>0, <5>2
      <4> QED
        BY <4>3, <4>4
    <3>5. \A i \in 0 .. n : i \in E
      <4>1. 0 \in E
        OBVIOUS
      <4> HIDE DEF E
      <4> QED
        BY <3>4, <4>1, BoundedInduction
    <3>6. flatten[n] = e[n]
      <4>1. n \in E
        <5> HIDE DEF E
        <5> QED
          BY <3>5
      <4> HIDE DEF flatten
      <4> QED
        BY <2>2, <4>1
    <3> QED
      BY <3>1, <3>6
  <2> QED
    BY <2>1, <2>2
<1> QED
  BY <1>1, <1>5, <1>6

LEMMA Shifted == \A a, m \in Nat : \A k \in 1 .. m : a + k \in 1 .. a + m
  OBVIOUS

\* Piece g takes up the places after e[g-1], up to e[g], of the whole.
EndsOfPieces(e, s) ==
  /\ e \in [0 .. Len(s) -> Nat]
  /\ e[0] = 0 /\ \A g \in 1 .. Len(s) : e[g] = e[g-1] + Len(s[g])
  /\ \A g \in 0 .. Len(s) : e[g] = Len(FlattenSeq(SubSeq(s, 1, g))) /\ e[g] <= e[Len(s)]
  /\ e[Len(s)] = Len(FlattenSeq(s))
  /\ \A g \in 1 .. Len(s) : \A k \in 1 .. Len(s[g]) : FlattenSeq(s)[e[g-1] + k] = s[g][k]

LEMMA FlattenPieces ==
  ASSUME NEW T, NEW s \in Seq(Seq(T))
  PROVE  FlattenSeq(s) \in Seq(T) /\ \E e : EndsOfPieces(e, s)
<1>1. PICK n \in Nat : n = Len(s) /\ \A g \in 1 .. n : s[g] \in Seq(T) /\ Len(s[g]) \in Nat
  BY LenProperties
<1>2. PICK f \in [0 .. n -> Seq(T)] :
        /\ f[0] = <<>> /\ FlattenSeq(s) = f[n]
        /\ \A g \in 1 .. n : f[g] = f[g-1] \o s[g]
  BY <1>1, Flatten
<1>3. \A g \in 0 .. n : f[g] \in Seq(T) /\ Len(f[g]) \in Nat
  BY <1>2, LenProperties
<1>4. ASSUME NEW j \in 0 .. n-1
      PROVE  /\ Len(f[j+1]) = Len(f[j]) + Len(s[j+1])
             /\ \A k \in 1 .. Len(f[j]) : f[j+1][k] = f[j][k]
             /\ \A k \in 1 .. Len(s[j+1]) : f[j+1][Len(f[j]) + k] = s[j+1][k]
  <2>1. j \in 0 .. n /\ j + 1 \in 1 .. n /\ (j + 1) - 1 = j
    BY <1>1
  <2>2. PICK c \in Seq(T), d \in Seq(T) : c = f[j] /\ d = s[j+1] /\ f[j+1] = c \o d
    BY <1>1, <1>2, <1>3, <2>1
  <2>3. PICK l \in Nat, m \in Nat : l = Len(c) /\ m = Len(d)
    BY LenProperties
  <2>4. /\ Len(c \o d) = l + m
        /\ \A k \in 1 .. l + m : (c \o d)[k] = IF k <= l THEN c[k] ELSE d[k - l]
    BY <2>3, ConcatProperties
  <2>5. ASSUME NEW k \in 1 .. l PROVE (c \o d)[k] = c[k]
    <3>1. k \in 1 .. l + m /\ k <= l
      OBVIOUS
    <3> QED
      BY <2>4, <3>1
  <2>6. ASSUME NEW k \in 1 .. m PROVE (c \o d)[l + k] = d[k]
    <3>1. l + k \in 1 .. l + m /\ ~(l + k <= l) /\ (l + k) - l = k
      OBVIOUS
    <3> QED
      BY <2>4, <3>1
  <2> QED
    BY <2>2, <2>3, <2>4, <2>5, <2>6
<1> DEFINE Begins(g, j) == /\ Len(f[g]) <= Len(f[j])
                           /\ \A k \in 1 .. Len(f[g]) : f[j][k] = f[g][k]
           Starts(j) == \A g \in 0 .. j : Begins(g, j)
           S == {j \in 0 .. n : Starts(j)}
<1>5. 0 \in S
  <2>1. Len(f[0]) \in Nat /\ 0 \in 0 .. n
    BY <1>1, <1>3
  <2>2. \A g \in 0 .. 0 : g = 0
    OBVIOUS
  <2>3. Begins(0, 0)
    BY <2>1
  <2> HIDE DEF Begins
  <2> QED
    BY <2>1, <2>2, <2>3
<1>6. ASSUME NEW j \in 0 .. n-1, j \in S PROVE j + 1 \in S
  <2>1. j + 1 \in 0 .. n /\ j \in 0 .. n
    BY <1>1
  <2>2. PICK a \in Nat, d \in Nat : a = Len(f[j]) /\ d = Len(s[j+1]) /\ Len(f[j+1]) = a + d
    <3>1. Len(f[j]) \in Nat /\ Len(s[j+1]) \in Nat
      BY <1>1, <1>3, <2>1
    <3>2. Len(f[j+1]) = Len(f[j]) + Len(s[j+1])
      BY <1>4
    <3> HIDE DEF S
    <3> QED
      BY <3>1, <3>2
  <2>3. \A k \in 1 .. a : f[j+1][k] = f[j][k]
    BY <1>4, <2>2
  <2>4. ASSUME NEW g \in 0 .. j PROVE Begins(g, j + 1)
    <3>1. Begins(g, j)
      BY <1>6
    <3>2. PICK c \in Nat : c = Len(f[g])
      <4>1. g \in 0 .. n
        BY <2>1
      <4> HIDE DEF S
      <4> QED
        BY <1>3, <4>1
    <3>3. c <= a /\ \A k \in 1 .. c : f[j][k] = f[g][k]
      BY <2>2, <3>1, <3>2
    <3>4. c <= a + d /\ \A k \in 1 .. c : k \in 1 .. a
      BY <3>3
    <3> HIDE DEF S
    <3> QED
      BY <2>2, <2>3, <3>2, <3>3, <3>4
  <2>5. Begins(j + 1, j + 1)
    <3> HIDE DEF S
    <3> QED
      BY <2>2
  <2>6. \A g \in 0 .. j+1 : g \in 0 .. j \/ g = j + 1
    BY <1>1
  <2> HIDE DEF Begins
  <2> QED
    BY <2>1, <2>4, <2>5, <2>6
<1>7. Starts(n)
  <2>1. n \in S
    <3>1. n \in 0 .. n
      BY <1>1
    <3> HIDE DEF S
    <3> QED
      BY <1>1, <1>5, <1>6, <3>1, BoundedInduction
  <2> QED
    BY <2>1
<1> HIDE DEF Starts, S, Begins
<1>8. ASSUME NEW g \in 0 .. n PROVE FlattenSeq(SubSeq(s, 1, g)) = f[g]
  <2>1. PICK t \in Seq(Seq(T)) : t = SubSeq(s, 1, g) /\ Len(t) = g /\ \A j \in 1 .. g : t[j] = s[j]
    <3>1. g \in Nat /\ \A j \in 1 .. g : j \in 1 .. n
      BY <1>1
    <3>2. /\ SubSeq(s, 1, g) \in Seq(Seq(T)) /\ Len(SubSeq(s, 1, g)) = g
          /\ \A j \in 1 .. g : SubSeq(s, 1, g)[j] = s[j]
      <4>1. SubSeq(s, 1, g) = [j \in 1 .. g |-> s[j]]
        BY <1>1, <3>1
      <4>2. \A j \in 1 .. g : s[j] \in Seq(T)
        BY <1>1, <3>1
      <4> QED
        BY <3>1, <4>1, <4>2
    <3> QED
      BY <3>2
  <2>2. PICK h \in [0 .. g -> Seq(T)] :
          /\ h[0] = <<>> /\ FlattenSeq(t) = h[g]
          /\ \A j \in 1 .. g : h[j] = h[j-1] \o t[j]
    <3>1. PICK h \in [0 .. Len(t) -> Seq(T)] :
            /\ h[0] = <<>> /\ FlattenSeq(t) = h[Len(t)]
            /\ \A j \in 1 .. Len(t) : h[j] = h[j-1] \o t[j]
      BY Flatten
    <3> QED
      BY <2>1, <3>1
  <2> DEFINE E == {j \in 0 .. g : h[j] = f[j]}
  <2>3. 0 \in E
    BY <1>2, <2>2
  <2>4. ASSUME NEW j \in 0 .. g-1, j \in E PROVE j + 1 \in E
    <3>1. j + 1 \in 0 .. g /\ j + 1 \in 1 .. g /\ j + 1 \in 1 .. n /\ (j + 1) - 1 = j
      BY <1>1
    <3>2. h[j+1] = h[j] \o s[j+1]
      BY <2>1, <2>2, <3>1
    <3>3. f[j+1] = f[j] \o s[j+1]
      BY <1>2, <3>1
    <3> QED
      BY <2>4, <3>1, <3>2, <3>3
  <2>5. g \in E
    <3>1. g \in Nat /\ g \in 0 .. g
      BY <1>1
    <3> HIDE DEF E
    <3>2. \A j \in 0 .. g : j \in E
      BY <2>3, <2>4, <3>1, BoundedInduction
    <3> QED
      BY <3>1, <3>2
  <2> QED
    BY <2>1, <2>2, <2>5
<1>9. PICK e \in [0 .. n -> Nat] : \A g \in 0 .. n : e[g] = Len(f[g])
  <2>1. [g \in 0 .. n |-> Len(f[g])] \in [0 .. n -> Nat]
    BY <1>3
  <2> QED
    BY <2>1
<1>10. e[0] = 0 /\ \A g \in 1 .. n : e[g] = e[g-1] + Len(s[g])
  <2>1. ASSUME NEW g \in 1 .. n PROVE e[g] = e[g-1] + Len(s[g])
    <3>1. PICK j \in 0 .. n-1 : g = j + 1 /\ g - 1 = j /\ g \in 0 .. n /\ j \in 0 .. n
      BY <1>1
    <3>2. Len(f[j+1]) = Len(f[j]) + Len(s[j+1])
      BY <1>4
    <3> QED
      BY <1>9, <3>1, <3>2
  <2>2. 0 \in 0 .. n /\ f[0] = <<>> /\ e[0] = Len(f[0])
    BY <1>1, <1>2, <1>9
  <2> QED
    BY <2>1, <2>2
<1>11. ASSUME NEW g \in 1 .. n, NEW k \in 1 .. Len(s[g]) PROVE f[n][e[g-1] + k] = s[g][k]
  <2>1. PICK j \in 0 .. n-1 : g = j + 1 /\ g - 1 = j /\ g \in 0 .. n /\ j \in 0 .. n
    BY <1>1
  <2>2. PICK a \in Nat, m \in Nat : a = Len(f[j]) /\ m = Len(s[g])
    BY <1>1, <1>3, <2>1
  <2>3. Len(f[g]) = a + m
    BY <1>4, <2>1, <2>2
  <2>4. k \in 1 .. m /\ a + k \in 1 .. a + m
    <3>1. k \in 1 .. m
      BY <2>2
    <3> QED
      BY <3>1, Shifted
  <2>5. f[n][a + k] = f[g][a + k]
    BY <1>7, <2>1, <2>3, <2>4 DEF Starts, Begins
  <2>6. f[g][a + k] = s[g][k]
    BY <1>4, <2>1, <2>2, <2>4
  <2> QED
    BY <1>9, <2>1, <2>2, <2>5, <2>6
<1>12. \A g \in 0 .. n : e[g] = Len(FlattenSeq(SubSeq(s, 1, g))) /\ e[g] <= e[n]
  <2>1. n \in 0 .. n
    BY <1>1
  <2> QED
    BY <1>7, <1>8, <1>9, <2>1 DEF Starts, Begins
<1> QED
  <2>1. n \in 0 .. n
    BY <1>1
  <2>2. e[n] = Len(FlattenSeq(s)) /\ FlattenSeq(s) \in Seq(T)
    BY <1>2, <1>9, <2>1
  <2>3. \A g \in 1 .. n : \A k \in 1 .. Len(s[g]) : FlattenSeq(s)[e[g-1] + k] = s[g][k]
    BY <1>2, <1>11
  <2>4. EndsOfPieces(e, s)
    BY <1>1, <1>10, <1>12, <2>2, <2>3, Zenon DEF EndsOfPieces
  <2> QED
    BY <2>2, <2>4
=============================================================================
