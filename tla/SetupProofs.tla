---------------------------- MODULE SetupProofs ----------------------------
(***************************************************************************)
(* Theorems about module Setup, for every number of parties, with and      *)
(* without late handshakes.                                                *)
(*                                                                         *)
(* Every link carries one public value in each direction, first from the   *)
(* lower to the higher party, and shares after it (LinkInv), as long as a  *)
(* party reads from the peer it takes its socket for.  That it does even   *)
(* if the sockets are labelled wrongly is shown by the order of the reads: *)
(* let p be about to read from r in the place of i.  All before i were     *)
(* right, so r is above i.  If r had sent p its value, r would have read   *)
(* that of i, so i would be past its link to r, and, as it goes down, past *)
(* its link to p before; so it would have p's answer, which p has not sent.*)
(***************************************************************************)
EXTENDS Setup, SequenceTheorems, TLAPS

-----------------------------------------------------------------------------
(***************************************************************************)
(* The invariants.                                                         *)
(***************************************************************************)
States == {"listen", "connect", "sleep", "read_first", "send_first",
           "sent_first", "ready", "sharing"}

\* Where the loop variable is in each loop.
ControlOf(p) ==
  /\ pc[p] \in {"listen", "read_first"} => idx[p] =< p
  /\ pc[p] \in {"connect", "send_first"} => p =< idx[p]
  /\ pc[p] \in {"sleep", "sent_first"} => p < idx[p]

TypeInv == TypeOK /\ \A p \in Party : ControlOf(p)

\* How many connections s has accepted, and whether c has connected to s.
Accepted(s) == IF pc[s] = "listen" THEN idx[s] ELSE s
Dialled(c, s) ==
  /\ c < s
  /\ pc[c] # "listen"
  /\ pc[c] \in {"connect", "sleep"} => idx[c] < s

\* Has a sent b its public value, and has a read that of b?
Through(a) == pc[a] \in {"ready", "sharing"}
Answered(a, b) ==
  \/ Through(a) \/ pc[a] \in {"send_first", "sent_first"}
  \/ pc[a] = "read_first" /\ b < idx[a]
Out(a, b) ==
  IF b < a THEN Answered(a, b)
  ELSE \/ Through(a)
       \/ pc[a] \in {"send_first", "sent_first"} /\ idx[a] < b
       \/ pc[a] = "sent_first" /\ idx[a] = b
In(a, b) ==
  IF b < a THEN Answered(a, b)
  ELSE Through(a) \/ (pc[a] \in {"send_first", "sent_first"} /\ idx[a] < b)

Shared(a) == pc[a] = "sharing"

\* What is on its way from a to b, and the key a has for b.
LinkOf(a, b) ==
  /\ In(b, a) => Out(a, b)
  /\ keys[a][b] = IF In(a, b) THEN {PublicValue(a, b), PublicValue(b, a)} ELSE {}
  /\ Out(a, b) /\ ~In(b, a) =>
       chan[a][b] = IF Shared(a) THEN <<PublicValue(a, b), Share(a)>>
                                 ELSE <<PublicValue(a, b)>>
  /\ ~Out(a, b) \/ In(b, a) =>
       chan[a][b] = IF Shared(a) THEN <<Share(a)>> ELSE <<>>

LinkInv ==
  /\ \A a, b \in Party : a # b => LinkOf(a, b)
  /\ \A a \in Party : keys[a][a] = {} /\ chan[a][a] = <<>>

-----------------------------------------------------------------------------
(***************************************************************************)
(* Facts about the loops and about short sequences.                        *)
(***************************************************************************)
LEMMA PartyFacts ==
  /\ N \in Nat /\ N >= 1
  /\ Party \subseteq Nat
  /\ \A p \in Party : p \in Int /\ 0 =< p /\ p =< N-1
  /\ \A p \in Int : 0 =< p /\ p =< N-1 => p \in Party
  /\ NoOne \notin Party
BY SetupAssumption DEF Party

LEMMA LoopFacts ==
  /\ NextLoop("listen") = "connect"
  /\ NextLoop("connect") = "read_first"
  /\ NextLoop("read_first") = "send_first"
  /\ NextLoop("send_first") = "ready"
  /\ \A l \in {Loops[n] : n \in 1..4} :
       l \in {"listen", "connect", "read_first", "send_first"}
  /\ Loops[1] = "listen"
<1>1. /\ Loops[1] = "listen" /\ Loops[2] = "connect" /\ Loops[3] = "read_first"
      /\ Loops[4] = "send_first" /\ Loops[5] = "ready"
  BY DEF Loops
<1>2. \A n \in 1..4 : n = 1 \/ n = 2 \/ n = 3 \/ n = 4
  OBVIOUS
<1>3. (CHOOSE n \in 1..4 : Loops[n] = "listen") = 1
  BY <1>1, <1>2
<1>4. (CHOOSE n \in 1..4 : Loops[n] = "connect") = 2
  BY <1>1, <1>2
<1>5. (CHOOSE n \in 1..4 : Loops[n] = "read_first") = 3
  BY <1>1, <1>2
<1>6. (CHOOSE n \in 1..4 : Loops[n] = "send_first") = 4
  BY <1>1, <1>2
<1>7. \A l \in {Loops[n] : n \in 1..4} :
        l \in {"listen", "connect", "read_first", "send_first"}
  BY <1>1, <1>2
<1>8. NextLoop("listen") = Loops[1 + 1] /\ NextLoop("connect") = Loops[1 + 2]
  BY <1>3, <1>4 DEF NextLoop
<1>9. NextLoop("read_first") = Loops[1 + 3] /\ NextLoop("send_first") = Loops[1 + 4]
  BY <1>5, <1>6 DEF NextLoop
<1> QED
  BY <1>1, <1>7, <1>8, <1>9

LEMMA ShortSequences ==
  ASSUME NEW x, NEW y
  PROVE  /\ Append(<<>>, x) = <<x>>
         /\ Append(<<x>>, y) = <<x, y>>
         /\ Head(<<x>>) = x /\ Tail(<<x>>) = <<>>
         /\ Head(<<x, y>>) = x /\ Tail(<<x, y>>) = <<y>>
         /\ <<x>> # <<>> /\ <<x, y>> # <<>>
<1>1. Append(<<>>, x) = <<x>>
  OBVIOUS
<1>2. Append(<<x>>, y) = <<x, y>>
  <2>1. <<x>> \in Seq({x, y}) /\ <<x, y>> \in Seq({x, y})
    OBVIOUS
  <2>2. PICK d \in Seq({x, y}) : d = Append(<<x>>, y)
    BY <2>1, AppendProperties
  <2>3. Len(d) = 2 /\ d[1] = x /\ d[2] = y
    BY <2>1, <2>2
  <2>4. Len(<<x, y>>) = 2 /\ <<x, y>>[1] = x /\ <<x, y>>[2] = y
    OBVIOUS
  <2>5. \A i \in 1 .. Len(d) : d[i] = <<x, y>>[i]
    BY <2>3, <2>4
  <2> QED
    BY <2>1, <2>2, <2>3, <2>4, <2>5, SeqEqual
<1>3. Head(<<x>>) = x
  OBVIOUS
<1>4. Head(<<x, y>>) = x
  OBVIOUS
<1>5. <<x>> # <<>> /\ <<x, y>> # <<>>
  OBVIOUS
<1>6. Tail(<<x>>) = <<>>
  OBVIOUS
<1>7. Tail(<<x, y>>) = <<y>>
  OBVIOUS
<1> QED
  BY <1>1, <1>2, <1>3, <1>4, <1>5, <1>6, <1>7

-----------------------------------------------------------------------------
(***************************************************************************)
(* Types and control.                                                      *)
(***************************************************************************)
LEMMA TypesInit == Init => TypeInv
<1> SUFFICES ASSUME Init PROVE TypeInv
  OBVIOUS
<1>1. /\ pc = [p \in Party |-> "listen"] /\ idx = [p \in Party |-> 0]
  BY LoopFacts DEF Init, LoopStart
<1>2. 0 \in 0 .. N-1
  BY PartyFacts
<1>3. TypeOK
  BY <1>1, <1>2 DEF Init, TypeOK
<1> QED
  BY <1>1, <1>3, PartyFacts DEF TypeInv, ControlOf

\* The moves of a party from state k, variable i0, to state l, variable i.
Move(p, k, i0, l, i) ==
  \/ k = "listen" /\ i0 < p /\ l = "listen" /\ i \in {i0, i0 + 1}
  \/ k = "listen" /\ i0 = p /\ l = "connect" /\ i = N-1
  \/ k = "connect" /\ i0 > p /\ l = "connect" /\ i = i0 - 1
  \/ k = "connect" /\ i0 > p /\ l = "sleep" /\ i = i0
  \/ k = "sleep" /\ l = "connect" /\ i = i0
  \/ k = "connect" /\ i0 = p /\ l = "read_first" /\ i = 0
  \/ k = "read_first" /\ i0 < p /\ l = "read_first" /\ i = i0 + 1
  \/ k = "read_first" /\ i0 = p /\ l = "send_first" /\ i = N-1
  \/ k = "send_first" /\ i0 > p /\ l = "sent_first" /\ i = i0
  \/ k = "sent_first" /\ l = "send_first" /\ i = i0 - 1
  \/ k = "send_first" /\ i0 = p /\ l = "ready" /\ i = 0
  \/ k = "ready" /\ l = "sharing" /\ i = i0

LEMMA Numbers ==
  ASSUME TypeInv, NEW p \in Party
  PROVE  /\ N \in Int /\ p \in Int /\ 0 =< p /\ p =< N-1
         /\ idx[p] \in Int /\ 0 =< idx[p] /\ idx[p] =< N-1 /\ idx[p] \in Party
         /\ pc[p] \in States
<1>1. idx[p] \in 0 .. N-1 /\ pc[p] \in States
  BY DEF TypeInv, TypeOK, States
<1> QED
  BY <1>1, PartyFacts DEF Party

LEMMA Moves ==
  ASSUME TypeInv, NEW p \in Party, Step(p)
  PROVE  \E l, i : /\ pc' = [pc EXCEPT ![p] = l] /\ idx' = [idx EXCEPT ![p] = i]
                   /\ Move(p, pc[p], idx[p], l, i)
<1>0. /\ N \in Int /\ p \in Int /\ 0 =< p /\ p =< N-1
      /\ idx[p] \in Int /\ 0 =< idx[p] /\ idx[p] =< N-1
      /\ pc = [pc EXCEPT ![p] = pc[p]] /\ idx = [idx EXCEPT ![p] = idx[p]]
      /\ pc[p] \in {"listen", "read_first"} => idx[p] =< p
      /\ pc[p] \in {"connect", "send_first"} => p =< idx[p]
  BY Numbers DEF TypeInv, TypeOK, ControlOf
<1>2. CASE EndLoop(p)
  <2>1. pc[p] \in {"listen", "connect", "read_first", "send_first"} /\ idx[p] = p
    BY <1>2, LoopFacts DEF EndLoop, LoopOver
  <2>2. /\ pc' = [pc EXCEPT ![p] = NextLoop(pc[p])]
        /\ idx' = [idx EXCEPT ![p] = LoopStart(NextLoop(pc[p]))]
    BY <1>2 DEF EndLoop
  <2>3. Move(p, pc[p], idx[p], NextLoop(pc[p]), LoopStart(NextLoop(pc[p])))
    BY <2>1, LoopFacts DEF Move, LoopStart
  <2> QED
    BY <2>2, <2>3
<1>3. CASE OpenAcceptor(p)
  <2>1. pc' = pc /\ idx' = idx /\ pc[p] = "listen" /\ idx[p] < p
    BY <1>3 DEF OpenAcceptor
  <2> QED
    BY <1>0, <2>1 DEF Move
<1>4. CASE Accept(p)
  <2>1. /\ pc' = pc /\ idx' = [idx EXCEPT ![p] = idx[p] + 1]
        /\ pc[p] = "listen" /\ idx[p] < p
    BY <1>4 DEF Accept
  <2> QED
    BY <1>0, <2>1 DEF Move
<1>5. CASE Connect(p)
  <2>1. /\ pc' = pc /\ idx' = [idx EXCEPT ![p] = idx[p] - 1]
        /\ pc[p] = "connect" /\ idx[p] > p
    BY <1>5 DEF Connect, Dialling
  <2> QED
    BY <1>0, <2>1 DEF Move
<1>6. CASE ConnectRefused(p)
  <2>1. /\ pc' = [pc EXCEPT ![p] = "sleep"] /\ idx' = idx
        /\ pc[p] = "connect" /\ idx[p] > p
    BY <1>6 DEF ConnectRefused, Dialling
  <2> QED
    BY <1>0, <2>1 DEF Move
<1>7. CASE Retry(p)
  <2>1. pc' = [pc EXCEPT ![p] = "connect"] /\ idx' = idx /\ pc[p] = "sleep"
    BY <1>7 DEF Retry
  <2> QED
    BY <1>0, <2>1 DEF Move
<1>8. CASE ReadFirst(p)
  <2>1. /\ pc' = pc /\ idx' = [idx EXCEPT ![p] = idx[p] + 1]
        /\ pc[p] = "read_first" /\ idx[p] < p
    BY <1>8 DEF ReadFirst
  <2> QED
    BY <1>0, <2>1 DEF Move
<1>9. CASE SendFirst(p)
  <2>1. /\ pc' = [pc EXCEPT ![p] = "sent_first"] /\ idx' = idx
        /\ pc[p] = "send_first" /\ idx[p] > p
    BY <1>9 DEF SendFirst
  <2> QED
    BY <1>0, <2>1 DEF Move
<1>10. CASE ReadAnswer(p)
  <2>1. /\ pc' = [pc EXCEPT ![p] = "send_first"] /\ idx' = [idx EXCEPT ![p] = idx[p] - 1]
        /\ pc[p] = "sent_first"
    BY <1>10 DEF ReadAnswer
  <2> QED
    BY <1>0, <2>1 DEF Move
<1>11. CASE FirstShares(p)
  <2>1. pc' = [pc EXCEPT ![p] = "sharing"] /\ idx' = idx /\ pc[p] = "ready"
    BY <1>11 DEF FirstShares
  <2> QED
    BY <1>0, <2>1 DEF Move
<1> QED
  BY <1>2, <1>3, <1>4, <1>5, <1>6, <1>7, <1>8, <1>9, <1>10, <1>11 DEF Step

\* A party's loop variable stays where its loop lets it.
LEMMA ControlStep ==
  ASSUME TypeInv, NEW p \in Party, Step(p)
  PROVE  /\ pc' \in [Party -> States] /\ idx' \in [Party -> 0 .. N-1]
         /\ \A q \in Party : ControlOf(q)'
<1>1. PICK l, i : /\ pc' = [pc EXCEPT ![p] = l] /\ idx' = [idx EXCEPT ![p] = i]
                  /\ Move(p, pc[p], idx[p], l, i)
  BY Moves
<1>2. /\ N \in Int /\ p \in Int /\ 0 =< p /\ p =< N-1
      /\ idx[p] \in Int /\ 0 =< idx[p] /\ idx[p] =< N-1
      /\ pc[p] \in {"sleep", "sent_first"} => p < idx[p]
  BY Numbers DEF TypeInv, ControlOf
<1>3. /\ i \in Int /\ 0 =< i /\ i =< N-1 /\ l \in States
      /\ l \in {"listen", "read_first"} => i =< p
      /\ l \in {"connect", "send_first"} => p =< i
      /\ l \in {"sleep", "sent_first"} => p < i
  BY <1>1, <1>2 DEF Move, States
<1>4. i \in 0 .. N-1
  BY <1>2, <1>3
<1>5. pc \in [Party -> States] /\ idx \in [Party -> 0 .. N-1]
  BY DEF TypeInv, TypeOK, States
<1>6. ASSUME NEW q \in Party PROVE ControlOf(q)'
  BY <1>1, <1>3, <1>5 DEF ControlOf, TypeInv
<1> QED
  BY <1>1, <1>3, <1>4, <1>5, <1>6

Message == Party \X Party

LEMMA Update ==
  ASSUME NEW S, NEW f \in [Party -> [Party -> S]],
         NEW a \in Party, NEW b \in Party, NEW v \in S
  PROVE  /\ [f EXCEPT ![a][b] = v] \in [Party -> [Party -> S]]
         /\ \A c, d \in Party :
              [f EXCEPT ![a][b] = v][c][d] = IF c = a /\ d = b THEN v ELSE f[c][d]
OBVIOUS

\* The sockets p uses in its next step lead where it takes them to lead.
PeersRight(p) ==
  /\ ReadFirst(p) \/ SendFirst(p) \/ ReadAnswer(p) => sockets[p][idx[p]] = idx[p]
  /\ FirstShares(p) => \A i \in Party : sockets[p][i] = IF i = p THEN NoOne ELSE i

LEMMA TypesStep ==
  ASSUME TypeInv, NEW p \in Party, PeersRight(p), Step(p)
  PROVE  TypeInv'
<1>0. PICK i \in Party : i = idx[p]
  BY Numbers
<1>1. /\ pc' \in [Party -> States] /\ idx' \in [Party -> 0 .. N-1]
      /\ \A q \in Party : ControlOf(q)'
  BY ControlStep
<1>2. /\ listening \in [Party -> BOOLEAN] /\ backlog \in [Party -> Seq(Party)]
      /\ sockets \in [Party -> [Party -> Party \cup {NoOne}]]
      /\ keys \in [Party -> [Party -> SUBSET Message]]
      /\ chan \in [Party -> [Party -> Seq(Message)]]
      /\ inflight \in SUBSET (Party \X Party)
  BY DEF TypeInv, TypeOK, Message
<1>3. inflight' \in SUBSET (Party \X Party)
  <2>1. inflight' = inflight \/ inflight' = inflight \cup {<<p, i>>}
    BY <1>0 DEF Step, EndLoop, OpenAcceptor, Accept, Connect,
       ConnectRefused, Retry, ReadFirst, SendFirst, ReadAnswer, FirstShares
  <2> QED
    BY <1>0, <1>2, <2>1
<1> SUFFICES /\ listening' \in [Party -> BOOLEAN] /\ backlog' \in [Party -> Seq(Party)]
             /\ sockets' \in [Party -> [Party -> Party \cup {NoOne}]]
             /\ keys' \in [Party -> [Party -> SUBSET Message]]
             /\ chan' \in [Party -> [Party -> Seq(Message)]]
  BY <1>1, <1>3 DEF TypeInv, TypeOK, States, Message
<1>4. CASE EndLoop(p) \/ ConnectRefused(p) \/ Retry(p)
  BY <1>2, <1>4 DEF EndLoop, ConnectRefused, Retry
<1>5. CASE OpenAcceptor(p)
  BY <1>2, <1>5 DEF OpenAcceptor
<1>6. CASE Accept(p)
  <2>1. Head(backlog[p]) \in Party /\ Tail(backlog[p]) \in Seq(Party)
    BY <1>2, <1>6 DEF Accept
  <2> QED
    BY <1>0, <1>2, <1>6, <2>1 DEF Accept
<1>7. CASE Connect(p)
  <2>1. /\ sockets' = [sockets EXCEPT ![p][i] = i]
        /\ backlog' = backlog \/ backlog' = [backlog EXCEPT ![i] = Append(@, p)]
        /\ UNCHANGED <<listening, keys, chan>>
    BY <1>0, <1>7 DEF Connect
  <2>2. sockets' \in [Party -> [Party -> Party \cup {NoOne}]]
    BY <1>0, <1>2, <2>1
  <2>3. backlog' \in [Party -> Seq(Party)]
    <3>1. backlog[i] \in Seq(Party)
      BY <1>2
    <3>2. PICK b \in Seq(Party) : b = Append(backlog[i], p)
      BY <3>1, AppendProperties
    <3> QED
      BY <1>0, <1>2, <2>1, <3>2
  <2> QED
    BY <1>2, <2>1, <2>2, <2>3
<1>8. CASE ReadFirst(p) \/ SendFirst(p) \/ ReadAnswer(p)
  <2>1. UNCHANGED <<listening, backlog, sockets>>
    BY <1>8 DEF ReadFirst, SendFirst, ReadAnswer
  <2>2. i # p /\ sockets[p][i] = i
    <3>1. idx[p] < p \/ p < idx[p]
      <4>1. pc[p] = "sent_first" => p < idx[p]
        BY DEF TypeInv, ControlOf
      <4> QED
        BY <1>8, <4>1 DEF ReadFirst, SendFirst, ReadAnswer
    <3> QED
      BY <1>0, <1>8, <3>1, Numbers DEF PeersRight
  <2>3. Append(chan[p][i], PublicValue(p, i)) \in Seq(Message) /\ PublicValue(p, i) \in Message
    <3>1. PublicValue(p, i) \in Message
      BY DEF PublicValue, Message
    <3>2. chan[p][i] \in Seq(Message)
      BY <1>2
    <3> QED
      BY <3>1, <3>2, AppendProperties
  <2>4. CASE SendFirst(p)
    <3>1. PICK s \in Seq(Message) : s = Append(chan[p][i], PublicValue(p, i))
      BY <2>3
    <3>2. chan' = [chan EXCEPT ![p][i] = s] /\ keys' = keys
      BY <1>0, <2>2, <2>4, <3>1 DEF SendFirst
    <3> QED
      BY <1>2, <2>1, <3>2, Update
  <2>5. CASE ReadFirst(p) \/ ReadAnswer(p)
    <3>0. /\ chan[i][p] # <<>>
          /\ keys' = [keys EXCEPT ![p][i] = {PublicValue(p, i), Head(chan[i][p])}]
          /\ \/ chan' = [chan EXCEPT ![i][p] = Tail(@)]
             \/ chan' = [chan EXCEPT ![i][p] = Tail(@),
                                     ![p][i] = Append(@, PublicValue(p, i))]
      BY <1>0, <2>2, <2>5 DEF ReadFirst, ReadAnswer, SharedSecret
    <3>1. Head(chan[i][p]) \in Message /\ Tail(chan[i][p]) \in Seq(Message)
      BY <1>2, <3>0
    <3>2. PICK k \in SUBSET Message : k = {PublicValue(p, i), Head(chan[i][p])}
      BY <2>3, <3>1
    <3>3. keys' \in [Party -> [Party -> SUBSET Message]]
      BY <1>2, <3>0, <3>2, Update
    <3>4. PICK s \in Seq(Message) : s = Tail(chan[i][p])
      BY <3>1
    <3>5. PICK c \in [Party -> [Party -> Seq(Message)]] : c = [chan EXCEPT ![i][p] = s]
      BY <1>2, Update
    <3>6. PICK t \in Seq(Message) : t = Append(chan[p][i], PublicValue(p, i))
      BY <2>3
    <3>7. chan' = c \/ chan' = [c EXCEPT ![p][i] = t]
      <4>1. c[p][i] = chan[p][i]
        BY <1>2, <2>2, <3>5
      <4> QED
        BY <1>2, <3>0, <3>4, <3>5, <3>6, <4>1
    <3>8. chan' \in [Party -> [Party -> Seq(Message)]]
      <4>1. [c EXCEPT ![p][i] = t] \in [Party -> [Party -> Seq(Message)]]
        BY Update
      <4> QED
        BY <3>5, <3>7, <4>1
    <3> QED
      BY <1>2, <2>1, <3>3, <3>8
  <2> QED
    BY <1>8, <2>4, <2>5
<1>9. CASE FirstShares(p)
  <2>1. Share(p) \in Message
    BY DEF Share, Message
  <2>2. UNCHANGED <<listening, backlog, sockets, keys>>
    BY <1>9 DEF FirstShares
  <2>3. PICK f : /\ chan' = [chan EXCEPT ![p] = f]
                 /\ f = [r \in Party |-> IF \E j \in Party : sockets[p][j] = r
                           THEN Append(chan[p][r], Share(p)) ELSE chan[p][r]]
    BY <1>2, <1>9 DEF FirstShares
  <2>4. \A r \in Party : Append(chan[p][r], Share(p)) \in Seq(Message)
    BY <1>2, <2>1
  <2>5. f \in [Party -> Seq(Message)]
    BY <1>2, <2>3, <2>4
  <2> QED
    BY <1>2, <2>2, <2>3, <2>5
<1> QED
  BY <1>4, <1>5, <1>6, <1>7, <1>8, <1>9 DEF Step

\* Only Accept and Connect change who has dialled and who was accepted.
LEMMA QuietMove ==
  ASSUME TypeInv, NEW p \in Party, Step(p), ~Accept(p), ~Connect(p)
  PROVE  /\ \A s \in Party : Accepted(s)' = Accepted(s)
         /\ \A c, s \in Party : Dialled(c, s)' <=> Dialled(c, s)
<1>1. PICK l, i : /\ pc' = [pc EXCEPT ![p] = l] /\ idx' = [idx EXCEPT ![p] = i]
                  /\ Move(p, pc[p], idx[p], l, i)
  BY Moves
<1>2. /\ N \in Int /\ p \in Int /\ 0 =< p /\ p =< N-1
      /\ idx[p] \in Int /\ 0 =< idx[p] /\ idx[p] =< N-1
  BY Numbers
<1>3. /\ pc'[p] = l /\ idx'[p] = i
      /\ \A q \in Party \ {p} : pc'[q] = pc[q] /\ idx'[q] = idx[q]
  BY <1>1 DEF TypeInv, TypeOK
<1>4. pc[p] = "listen" /\ l = "listen" => i = idx[p]
  <2>1. CASE EndLoop(p)
    BY <1>3, <2>1, LoopFacts DEF EndLoop, TypeInv, TypeOK
  <2>2. CASE ~EndLoop(p)
    <3>1. pc[p] = "listen" => idx' = idx
      BY <2>2 DEF Step, OpenAcceptor, ConnectRefused, Retry, Dialling,
                  ReadFirst, SendFirst, ReadAnswer, FirstShares
    <3> QED
      BY <1>3, <3>1
  <2> QED
    BY <2>1, <2>2
<1>5. ~(pc[p] = "connect" /\ l = "connect")
  <2>1. CASE EndLoop(p)
    BY <1>3, <2>1, LoopFacts DEF EndLoop, TypeInv, TypeOK
  <2>2. CASE ~EndLoop(p)
    BY <1>3, <2>2 DEF Step, OpenAcceptor, ConnectRefused, Retry, Dialling,
                  ReadFirst, SendFirst, ReadAnswer, FirstShares, TypeInv, TypeOK
  <2> QED
    BY <2>1, <2>2
<1>6. Accepted(p)' = Accepted(p)
  BY <1>1, <1>2, <1>3, <1>4 DEF Accepted, Move
<1>7. ASSUME NEW s \in Party PROVE Dialled(p, s)' <=> Dialled(p, s)
  <2>1. s \in Int /\ s =< N-1
    BY PartyFacts
  <2> QED
    BY <1>1, <1>2, <1>3, <1>5, <2>1 DEF Dialled, Move
<1> QED
  BY <1>3, <1>6, <1>7 DEF Accepted, Dialled

-----------------------------------------------------------------------------
(***************************************************************************)
(* The links.                                                              *)
(***************************************************************************)
LEMMA LinkInit == Init => LinkInv
<1> SUFFICES ASSUME Init PROVE LinkInv
  OBVIOUS
<1>1. ASSUME NEW a \in Party, NEW b \in Party
      PROVE  /\ ~In(a, b) /\ ~Out(a, b) /\ ~Shared(a)
             /\ keys[a][b] = {} /\ chan[a][b] = <<>>
  BY LoopFacts DEF Init, In, Out, Answered, Through, Shared
<1> QED
  BY <1>1 DEF LinkInv, LinkOf

\* The steps of a party that is not at a link change nothing there.
LEMMA IdleMove ==
  ASSUME TypeInv, NEW p \in Party, Step(p),
         ~ReadFirst(p), ~SendFirst(p), ~ReadAnswer(p), ~FirstShares(p)
  PROVE  /\ keys' = keys /\ chan' = chan
         /\ \A a, b \in Party : a # b =>
              (In(a, b)' <=> In(a, b)) /\ (Out(a, b)' <=> Out(a, b))
         /\ \A a \in Party : Shared(a)' <=> Shared(a)
<1>1. PICK l, i : /\ pc' = [pc EXCEPT ![p] = l] /\ idx' = [idx EXCEPT ![p] = i]
                  /\ Move(p, pc[p], idx[p], l, i)
  BY Moves
<1>2. /\ N \in Int /\ p \in Int /\ 0 =< p /\ p =< N-1
      /\ idx[p] \in Int /\ 0 =< idx[p] /\ idx[p] =< N-1
  BY Numbers
<1>3. /\ pc'[p] = l /\ idx'[p] = i
      /\ \A q \in Party \ {p} : pc'[q] = pc[q] /\ idx'[q] = idx[q]
  BY <1>1 DEF TypeInv, TypeOK
<1>4. keys' = keys /\ chan' = chan
  BY DEF Step, EndLoop, OpenAcceptor, Accept, Connect, ConnectRefused, Retry
<1>5. \/ pc[p] \in {"listen", "connect", "sleep"} /\ l \in {"listen", "connect", "sleep"}
      \/ pc[p] = "connect" /\ l = "read_first" /\ i = 0
      \/ pc[p] = "read_first" /\ idx[p] = p /\ l = "send_first" /\ i = N-1
      \/ pc[p] = "send_first" /\ idx[p] = p /\ l = "ready"
  <2>1. CASE EndLoop(p)
    <3>1. /\ pc[p] \in {"listen", "connect", "read_first", "send_first"}
          /\ idx[p] = p
      BY <2>1, LoopFacts DEF EndLoop, LoopOver
    <3> QED
      BY <1>1, <1>2, <3>1 DEF Move
  <2>2. CASE ~EndLoop(p)
    <3>1. pc[p] \in {"listen", "connect", "sleep"} /\ pc'[p] \in {"listen", "connect", "sleep"}
      BY <2>2 DEF Step, OpenAcceptor, Accept, Connect, ConnectRefused, Retry,
                  Dialling, TypeInv, TypeOK
    <3> QED
      BY <1>3, <3>1
  <2> QED
    BY <2>1, <2>2
<1>6. ASSUME NEW b \in Party, b # p
      PROVE  (In(p, b)' <=> In(p, b)) /\ (Out(p, b)' <=> Out(p, b))
  <2>1. b \in Int /\ 0 =< b /\ b =< N-1
    BY PartyFacts
  <2> QED
    BY <1>2, <1>3, <1>5, <1>6, <2>1 DEF In, Out, Answered, Through
<1>7. Shared(p)' <=> Shared(p)
  BY <1>3, <1>5 DEF Shared
<1> QED
  BY <1>3, <1>4, <1>6, <1>7 DEF In, Out, Answered, Through, Shared

\* What the three steps of p at its link to i do to the counts of it.
LinkCounts(p, i) ==
  /\ i # p /\ ~Shared(p) /\ \A a \in Party : Shared(a)' <=> Shared(a)
  /\ \A a, b \in Party : a # p =>
       (In(a, b)' <=> In(a, b)) /\ (Out(a, b)' <=> Out(a, b))
  /\ \A b \in Party : b # p =>
       /\ In(p, b)' <=> In(p, b) \/ (b = i /\ ~SendFirst(p))
       /\ Out(p, b)' <=> Out(p, b) \/ (b = i /\ ~ReadAnswer(p))
  /\ ~SendFirst(p) => ~In(p, i)
  /\ ~ReadAnswer(p) => ~Out(p, i)

LEMMA LinkMove ==
  ASSUME TypeInv, NEW p \in Party, NEW i \in Party, i = idx[p],
         Step(p), ReadFirst(p) \/ SendFirst(p) \/ ReadAnswer(p)
  PROVE  LinkCounts(p, i)
<1>1. PICK l, j : /\ pc' = [pc EXCEPT ![p] = l] /\ idx' = [idx EXCEPT ![p] = j]
  BY Moves
<1>2. /\ p \in Int /\ i \in Int
      /\ \A b \in Party : b \in Int
  BY PartyFacts
<1>3. /\ pc'[p] = l /\ idx'[p] = j
      /\ \A q \in Party \ {p} : pc'[q] = pc[q] /\ idx'[q] = idx[q]
  BY <1>1 DEF TypeInv, TypeOK
<1>4. \/ pc[p] = "read_first" /\ i < p /\ l = "read_first" /\ j = i + 1 /\ ReadFirst(p)
      \/ pc[p] = "send_first" /\ p < i /\ l = "sent_first" /\ j = i /\ SendFirst(p)
      \/ pc[p] = "sent_first" /\ p < i /\ l = "send_first" /\ j = i - 1 /\ ReadAnswer(p)
  <2>1. CASE ReadFirst(p)
    BY <1>3, <2>1 DEF ReadFirst, TypeInv, TypeOK
  <2>2. CASE SendFirst(p)
    BY <1>3, <2>2 DEF SendFirst, TypeInv, TypeOK
  <2>3. CASE ReadAnswer(p)
    BY <1>3, <2>3 DEF ReadAnswer, TypeInv, TypeOK, ControlOf
  <2> QED
    BY <2>1, <2>2, <2>3
<1>5. /\ ReadFirst(p) => pc[p] = "read_first"
      /\ SendFirst(p) => pc[p] = "send_first"
      /\ ReadAnswer(p) => pc[p] = "sent_first"
  BY DEF ReadFirst, SendFirst, ReadAnswer
<1>6. ASSUME NEW b \in Party, b # p
      PROVE  /\ In(p, b)' <=> In(p, b) \/ (b = i /\ ~SendFirst(p))
             /\ Out(p, b)' <=> Out(p, b) \/ (b = i /\ ~ReadAnswer(p))
  BY <1>2, <1>3, <1>4, <1>5, <1>6 DEF In, Out, Answered, Through
<1>7. /\ i # p
      /\ ~SendFirst(p) => ~In(p, i)
      /\ ~ReadAnswer(p) => ~Out(p, i)
  BY <1>2, <1>4, <1>5 DEF In, Out, Answered, Through
<1>8. ~Shared(p) /\ \A a \in Party : Shared(a)' <=> Shared(a)
  BY <1>3, <1>4 DEF Shared
<1> QED
  BY <1>3, <1>6, <1>7, <1>8 DEF LinkCounts, In, Out, Answered, Through

\* What is read for a public value is the public value of the peer.
LEMMA ReadsPublicValue ==
  ASSUME LinkInv, NEW a \in Party, NEW b \in Party, a # b,
         chan[a][b] # <<>>, ~In(b, a)
  PROVE  /\ Out(a, b) /\ Head(chan[a][b]) = PublicValue(a, b)
         /\ Tail(chan[a][b]) = IF Shared(a) THEN <<Share(a)>> ELSE <<>>
<1>1. LinkOf(a, b)
  BY DEF LinkInv
<1>2. Shared(a) => Out(a, b)
  BY DEF Shared, Out, Answered, Through
<1>3. Out(a, b)
  BY <1>1, <1>2 DEF LinkOf
<1>4. CASE Shared(a)
  <2>1. chan[a][b] = <<PublicValue(a, b), Share(a)>>
    BY <1>1, <1>3, <1>4 DEF LinkOf
  <2>2. /\ Head(<<PublicValue(a, b), Share(a)>>) = PublicValue(a, b)
        /\ Tail(<<PublicValue(a, b), Share(a)>>) = <<Share(a)>>
    BY ShortSequences
  <2> QED
    BY <1>3, <1>4, <2>1, <2>2
<1>5. CASE ~Shared(a)
  <2>1. chan[a][b] = <<PublicValue(a, b)>>
    BY <1>1, <1>3, <1>5 DEF LinkOf
  <2>2. /\ Head(<<PublicValue(a, b)>>) = PublicValue(a, b)
        /\ Tail(<<PublicValue(a, b)>>) = <<>>
    BY ShortSequences
  <2> QED
    BY <1>3, <1>5, <2>1, <2>2
<1> QED
  BY <1>4, <1>5

\* A link whose ends have not moved is as it was.
LEMMA LinkKept ==
  ASSUME NEW a \in Party, NEW b \in Party, LinkOf(a, b),
         In(a, b)' <=> In(a, b), Out(a, b)' <=> Out(a, b), In(b, a)' <=> In(b, a),
         Shared(a)' <=> Shared(a), keys'[a][b] = keys[a][b], chan'[a][b] = chan[a][b]
  PROVE  LinkOf(a, b)'
BY DEF LinkOf

LEMMA LinksUntouched ==
  ASSUME LinkInv, pc' = pc, idx' = idx, keys' = keys, chan' = chan
  PROVE  LinkInv'
<1>1. /\ \A a, b \in Party : (In(a, b)' <=> In(a, b)) /\ (Out(a, b)' <=> Out(a, b))
      /\ \A a \in Party : Shared(a)' <=> Shared(a)
  BY DEF In, Out, Answered, Through, Shared
<1>2. ASSUME NEW a \in Party, NEW b \in Party, a # b PROVE LinkOf(a, b)'
  BY <1>1, <1>2, LinkKept DEF LinkInv
<1> QED
  BY <1>2 DEF LinkInv

LEMMA IdleStep ==
  ASSUME TypeInv, LinkInv, NEW p \in Party, Step(p),
         ~ReadFirst(p), ~SendFirst(p), ~ReadAnswer(p), ~FirstShares(p)
  PROVE  LinkInv'
<1>1. ASSUME NEW a \in Party, NEW b \in Party, a # b PROVE LinkOf(a, b)'
  BY <1>1, IdleMove, LinkKept DEF LinkInv
<1> QED
  BY <1>1, IdleMove DEF LinkInv

\* The variables that a step of p at its link to i changes.
LinkChanges(p, i) ==
  /\ ~SendFirst(p) => chan[i][p] # <<>>
  /\ \A a, b \in Party :
       keys'[a][b] = IF a = p /\ b = i /\ ~SendFirst(p)
                     THEN {PublicValue(p, i), Head(chan[i][p])} ELSE keys[a][b]
  /\ \A a, b \in Party :
       chan'[a][b] = IF a = p /\ b = i /\ ~ReadAnswer(p)
                     THEN Append(chan[p][i], PublicValue(p, i))
                     ELSE IF a = i /\ b = p /\ ~SendFirst(p)
                     THEN Tail(chan[i][p]) ELSE chan[a][b]

LEMMA LinkEffect ==
  ASSUME TypeInv, NEW p \in Party, PeersRight(p), NEW i \in Party, i = idx[p], i # p,
         ReadFirst(p) \/ SendFirst(p) \/ ReadAnswer(p)
  PROVE  LinkChanges(p, i)
<1>0. /\ sockets[p][i] = i
      /\ ReadFirst(p) => pc[p] = "read_first"
      /\ SendFirst(p) => pc[p] = "send_first"
      /\ ReadAnswer(p) => pc[p] = "sent_first"
  BY DEF PeersRight, ReadFirst, SendFirst, ReadAnswer
<1>1. /\ keys \in [Party -> [Party -> SUBSET (Party \X Party)]]
      /\ chan \in [Party -> [Party -> Seq(Party \X Party)]]
  BY DEF TypeInv, TypeOK
<1>2. CASE ReadFirst(p)
  <2>1. /\ chan[i][p] # <<>>
        /\ keys' = [keys EXCEPT ![p][i] = {PublicValue(p, i), Head(chan[i][p])}]
        /\ chan' = [chan EXCEPT ![i][p] = Tail(@), ![p][i] = Append(@, PublicValue(p, i))]
    BY <1>0, <1>2 DEF ReadFirst, SharedSecret
  <2> QED
    BY <1>0, <1>1, <1>2, <2>1 DEF LinkChanges
<1>3. CASE SendFirst(p)
  <2>1. /\ keys' = keys
        /\ chan' = [chan EXCEPT ![p][i] = Append(@, PublicValue(p, i))]
    BY <1>0, <1>3 DEF SendFirst
  <2> QED
    BY <1>0, <1>1, <1>3, <2>1 DEF LinkChanges
<1>4. CASE ReadAnswer(p)
  <2>1. /\ chan[i][p] # <<>>
        /\ keys' = [keys EXCEPT ![p][i] = {PublicValue(p, i), Head(chan[i][p])}]
        /\ chan' = [chan EXCEPT ![i][p] = Tail(@)]
    BY <1>0, <1>4 DEF ReadAnswer, SharedSecret
  <2> QED
    BY <1>0, <1>1, <1>4, <2>1 DEF LinkChanges
<1> QED
  BY <1>2, <1>3, <1>4

LEMMA LinkStep ==
  ASSUME TypeInv, LinkInv, NEW p \in Party, PeersRight(p),
         Step(p), ReadFirst(p) \/ SendFirst(p) \/ ReadAnswer(p)
  PROVE  LinkInv'
<1>0. PICK i \in Party : i = idx[p]
  BY Numbers
<1>1. LinkCounts(p, i) /\ i # p
  <2>1. LinkCounts(p, i)
    BY <1>0, LinkMove
  <2> QED
    BY <2>1 DEF LinkCounts
<1>2. LinkChanges(p, i)
  BY <1>0, <1>1, LinkEffect
<1>3. LinkOf(p, i) /\ LinkOf(i, p)
  BY <1>1 DEF LinkInv, LinkCounts
<1>4. ~SendFirst(p) =>
        /\ Out(i, p) /\ Head(chan[i][p]) = PublicValue(i, p)
        /\ Tail(chan[i][p]) = IF Shared(i) THEN <<Share(i)>> ELSE <<>>
  BY <1>1, <1>2, ReadsPublicValue DEF LinkCounts, LinkChanges
<1>5. LinkOf(p, i)'
  <2>1. keys'[p][i] = IF In(p, i)' THEN {PublicValue(p, i), PublicValue(i, p)} ELSE {}
    BY <1>1, <1>2, <1>3, <1>4 DEF LinkOf, LinkCounts, LinkChanges
  <2>2. CASE ReadAnswer(p)
    <3>1. ~SendFirst(p)
      BY <2>2 DEF ReadAnswer, SendFirst
    <3> QED
      BY <1>1, <1>2, <1>3, <2>1, <2>2, <3>1 DEF LinkOf, LinkCounts, LinkChanges
  <2>3. CASE ~ReadAnswer(p)
    <3>1. ~Out(p, i) /\ ~In(i, p) /\ chan[p][i] = <<>>
      BY <1>1, <1>3, <2>3 DEF LinkOf, LinkCounts
    <3>2. chan'[p][i] = <<PublicValue(p, i)>>
      BY <1>2, <2>3, <3>1, ShortSequences DEF LinkChanges
    <3> QED
      BY <1>1, <2>1, <2>3, <3>1, <3>2 DEF LinkOf, LinkCounts
  <2> QED
    BY <2>2, <2>3
<1>6. LinkOf(i, p)'
  <2>1. keys'[i][p] = keys[i][p]
    BY <1>1, <1>2 DEF LinkCounts, LinkChanges
  <2>2. CASE SendFirst(p)
    BY <1>1, <1>2, <1>3, <2>1, <2>2 DEF LinkOf, LinkCounts, LinkChanges
  <2>3. CASE ~SendFirst(p)
    BY <1>1, <1>2, <1>3, <1>4, <2>1, <2>3 DEF LinkOf, LinkCounts, LinkChanges
  <2> QED
    BY <2>2, <2>3
<1>7. ASSUME NEW a \in Party, NEW b \in Party, a # b PROVE LinkOf(a, b)'
  <2>1. CASE (a = p /\ b = i) \/ (a = i /\ b = p)
    BY <1>5, <1>6, <2>1
  <2>2. CASE ~((a = p /\ b = i) \/ (a = i /\ b = p))
    <3>1. keys'[a][b] = keys[a][b] /\ chan'[a][b] = chan[a][b]
      BY <1>2, <2>2 DEF LinkChanges
    <3>2. /\ In(a, b)' <=> In(a, b)
          /\ Out(a, b)' <=> Out(a, b)
          /\ In(b, a)' <=> In(b, a)
      BY <1>1, <1>7, <2>2 DEF LinkCounts
    <3> QED
      BY <1>1, <1>7, <3>1, <3>2, LinkKept DEF LinkInv, LinkCounts
  <2> QED
    BY <2>1, <2>2
<1> QED
  BY <1>1, <1>2, <1>7 DEF LinkInv, LinkCounts, LinkChanges

LEMMA SharesStep ==
  ASSUME TypeInv, LinkInv, NEW p \in Party, PeersRight(p), Step(p), FirstShares(p)
  PROVE  LinkInv'
<1>1. /\ pc[p] = "ready" /\ pc' = [pc EXCEPT ![p] = "sharing"] /\ idx' = idx /\ keys' = keys
  BY DEF FirstShares
<1>2. \A r \in Party : (\E i \in Party : sockets[p][i] = r) <=> r # p
  BY PartyFacts DEF PeersRight
<1>3. \A a, r \in Party : chan'[a][r] = IF a = p /\ r # p
                                     THEN Append(chan[p][r], Share(p)) ELSE chan[a][r]
  <2>1. chan \in [Party -> [Party -> Seq(Party \X Party)]]
    BY DEF TypeInv, TypeOK
  <2>2. chan' = [chan EXCEPT ![p] = [r \in Party |->
          IF \E i \in Party : sockets[p][i] = r THEN Append(chan[p][r], Share(p)) ELSE chan[p][r]]]
    BY <2>1 DEF FirstShares
  <2> QED
    BY <1>2, <2>1, <2>2
<1>4. /\ \A a, b \in Party : (In(a, b)' <=> In(a, b)) /\ (Out(a, b)' <=> Out(a, b))
      /\ \A a \in Party : Shared(a)' <=> Shared(a) \/ a = p
      /\ \A b \in Party : Out(p, b)
      /\ ~Shared(p)
  BY <1>1 DEF In, Out, Answered, Through, Shared, TypeInv, TypeOK
<1>5. ASSUME NEW b \in Party, b # p PROVE LinkOf(p, b)'
  <2>1. LinkOf(p, b)
    BY <1>5 DEF LinkInv
  <2>2. chan[p][b] = IF In(b, p) THEN <<>> ELSE <<PublicValue(p, b)>>
    BY <1>4, <2>1 DEF LinkOf
  <2>3. chan'[p][b] = IF In(b, p) THEN <<Share(p)>> ELSE <<PublicValue(p, b), Share(p)>>
    <3>1. chan'[p][b] = Append(chan[p][b], Share(p))
      BY <1>3, <1>5
    <3>2. CASE In(b, p)
      BY <2>2, <3>1, <3>2, ShortSequences
    <3>3. CASE ~In(b, p)
      BY <2>2, <3>1, <3>3, ShortSequences
    <3> QED
      BY <3>2, <3>3
  <2> QED
    BY <1>1, <1>4, <2>1, <2>3 DEF LinkOf
<1>6. ASSUME NEW a \in Party, NEW b \in Party, a # b PROVE LinkOf(a, b)'
  <2>1. CASE a = p
    BY <1>5, <1>6, <2>1
  <2>2. CASE a # p
    BY <1>1, <1>3, <1>4, <1>6, <2>2, LinkKept DEF LinkInv
  <2> QED
    BY <2>1, <2>2
<1> QED
  BY <1>1, <1>3, <1>6 DEF LinkInv

LEMMA LinksStep ==
  ASSUME TypeInv, LinkInv, NEW p \in Party, PeersRight(p), Step(p)
  PROVE  LinkInv'
BY IdleStep, LinkStep, SharesStep

-----------------------------------------------------------------------------
(***************************************************************************)
(* How Accept and Connect change who has dialled and who was accepted.     *)
(***************************************************************************)
LEMMA AcceptMove ==
  ASSUME TypeInv, NEW p \in Party, Accept(p)
  PROVE  /\ pc[p] = "listen" /\ idx[p] < p /\ Accepted(p) = idx[p] /\ Accepted(p)' = idx[p] + 1
         /\ \A s \in Party \ {p} : Accepted(s)' = Accepted(s)
         /\ \A c, s \in Party : Dialled(c, s)' <=> Dialled(c, s)
         /\ \A s \in Party : ~Dialled(p, s)
<1>1. pc' = pc /\ idx' = [idx EXCEPT ![p] = idx[p] + 1] /\ pc[p] = "listen" /\ idx[p] < p
  BY DEF Accept
<1> QED
  BY <1>1 DEF Accepted, Dialled, TypeInv, TypeOK

LEMMA ConnectMove ==
  ASSUME TypeInv, NEW p \in Party, NEW t \in Party, t = idx[p], Connect(p)
  PROVE  /\ pc[p] = "connect" /\ p < t /\ ~Dialled(p, t)
         /\ \A s \in Party : Accepted(s)' = Accepted(s)
         /\ \A c, s \in Party : Dialled(c, s)' <=> Dialled(c, s) \/ (c = p /\ s = t)
<1>1. /\ pc[p] = "connect" /\ p < t /\ pc' = pc /\ idx' = [idx EXCEPT ![p] = t - 1]
      /\ t \in Int /\ p \in Int
  BY PartyFacts DEF Connect, Dialling
<1>2. ASSUME NEW s \in Party PROVE Dialled(p, s)' <=> Dialled(p, s) \/ s = t
  <2>1. s \in Int
    BY PartyFacts
  <2>2. idx'[p] = t - 1 /\ pc'[p] = "connect"
    BY <1>1 DEF TypeInv, TypeOK
  <2> QED
    BY <1>1, <2>1, <2>2 DEF Dialled
<1>3. ~Dialled(p, t)
  BY <1>1 DEF Dialled
<1> QED
  BY <1>1, <1>2, <1>3 DEF Accepted, Dialled, TypeInv, TypeOK

-----------------------------------------------------------------------------
(***************************************************************************)
(* Who is at the other end of the sockets, when handshakes may be late:    *)
(* parties below s are connected to s at most once, in whatever order.     *)
(***************************************************************************)
CallersOf(s) ==
  /\ \A n \in 1 .. Len(backlog[s]) :
       /\ Dialled(backlog[s][n], s) /\ <<backlog[s][n], s>> \notin inflight
       /\ \A m \in 1 .. Len(backlog[s]) : m # n => backlog[s][m] # backlog[s][n]
  /\ \A c \in Party : <<c, s>> \in inflight => Dialled(c, s)
  /\ \A j \in Party : j < Accepted(s) =>
       /\ sockets[s][j] \in Party /\ Dialled(sockets[s][j], s)
       /\ <<sockets[s][j], s>> \notin inflight
       /\ \A n \in 1 .. Len(backlog[s]) : backlog[s][n] # sockets[s][j]
       /\ \A k \in Party : k < Accepted(s) /\ k # j => sockets[s][k] # sockets[s][j]
  /\ \A i \in Party : ~(i < Accepted(s)) =>
       sockets[s][i] = IF Dialled(s, i) THEN i ELSE NoOne

\* The sockets p has read a public value from lead where they should.
RightSoFar(p) ==
  /\ pc[p] = "read_first" => \A j \in Party : j < idx[p] => sockets[p][j] = j
  /\ pc[p] \in {"send_first", "sent_first", "ready", "sharing"} =>
       \A j \in Party : j < p => sockets[p][j] = j

LagInv ==
  /\ TypeInv /\ LinkInv
  /\ \A p \in Party : CallersOf(p) /\ RightSoFar(p)

\* The argument at the top of this module.
LEMMA ReadsFromRight ==
  ASSUME LagInv, NEW p \in Party, NEW i \in Party, i = idx[p], ReadFirst(p)
  PROVE  sockets[p][i] = i
<1>1. PICK r : r = sockets[p][i]
  OBVIOUS
<1>2. pc[p] = "read_first" /\ i < p /\ chan[r][p] # <<>> /\ Accepted(p) = p
  BY <1>1 DEF ReadFirst, Accepted
<1>0. /\ \A j \in Party : j < p =>
           /\ sockets[p][j] \in Party /\ Dialled(sockets[p][j], p)
           /\ \A k \in Party : k < p /\ k # j => sockets[p][k] # sockets[p][j]
      /\ \A a, b \in Party : a # b => LinkOf(a, b)
  <2>1. CallersOf(p) /\ \A a, b \in Party : a # b => LinkOf(a, b)
    BY DEF LagInv, LinkInv
  <2>2. ASSUME NEW j \in Party, j < p
        PROVE  /\ sockets[p][j] \in Party /\ Dialled(sockets[p][j], p)
               /\ \A k \in Party : k < p /\ k # j => sockets[p][k] # sockets[p][j]
    BY <1>2, <2>1, <2>2 DEF CallersOf
  <2> QED
    BY <2>1, <2>2
<1>3. r \in Party /\ r < p
  BY <1>0, <1>1, <1>2 DEF Dialled
<1>4. i \in Int /\ p \in Int /\ r \in Int
  BY <1>3, PartyFacts
<1> SUFFICES ASSUME r # i PROVE FALSE
  BY <1>1
<1>5. i < r
  <2>1. CASE r < i
    <3>1. sockets[p][r] = r
      BY <1>2, <1>3, <2>1 DEF LagInv, RightSoFar
    <3>2. sockets[p][r] # sockets[p][i]
      BY <1>0, <1>2, <1>3
    <3> QED
      BY <1>1, <3>1, <3>2
  <2> QED
    BY <1>4, <2>1
<1>6. ~In(p, r)
  BY <1>2, <1>3, <1>4, <1>5 DEF In, Answered, Through
<1>7. Out(r, p)
  <2>1. LinkInv /\ r # p
    BY <1>3, <1>4 DEF LagInv
  <2> QED
    BY <1>2, <1>3, <1>6, <2>1, ReadsPublicValue
<1>8. In(r, i)
  BY <1>2, <1>3, <1>4, <1>5, <1>7 DEF In, Out, Answered, Through
<1>9. Out(i, r)
  BY <1>0, <1>3, <1>8 DEF LinkOf
<1>10. In(i, p)
  <2>1. idx[i] \in Int
    BY Numbers DEF LagInv
  <2> QED
    BY <1>2, <1>3, <1>4, <1>5, <1>9, <2>1 DEF In, Out, Answered, Through
<1>11. Out(p, i)
  <2>1. i # p
    BY <1>2, <1>4
  <2> QED
    BY <1>0, <1>10, <2>1 DEF LinkOf
<1> QED
  BY <1>2, <1>4, <1>11 DEF Out, Answered, Through

LEMMA LagPeersRight ==
  ASSUME LagInv, NEW p \in Party
  PROVE  PeersRight(p)
<1>1. PICK i \in Party : i = idx[p]
  BY Numbers DEF LagInv
<1>2. p \in Int /\ \A j \in Party : j \in Int
  BY PartyFacts
<1>3. ASSUME pc[p] \notin {"listen", "connect", "sleep"}, NEW j \in Party, ~(j < p)
      PROVE  sockets[p][j] = IF j = p THEN NoOne ELSE j
  BY <1>2, <1>3 DEF LagInv, CallersOf, Accepted, Dialled
<1>4. ASSUME ReadFirst(p) PROVE sockets[p][i] = i
  BY <1>1, <1>4, ReadsFromRight
<1>5. ASSUME SendFirst(p) \/ ReadAnswer(p) PROVE sockets[p][i] = i
  <2>1. p < i
    BY <1>1, <1>5 DEF SendFirst, ReadAnswer, LagInv, TypeInv, ControlOf
  <2>2. pc[p] \notin {"listen", "connect", "sleep"}
    BY <1>5 DEF SendFirst, ReadAnswer
  <2>3. ~(i < p) /\ i # p
    BY <1>2, <2>1
  <2> QED
    BY <1>3, <2>2, <2>3
<1>6. ASSUME FirstShares(p), NEW j \in Party
      PROVE  sockets[p][j] = IF j = p THEN NoOne ELSE j
  <2>1. pc[p] = "ready"
    BY <1>6 DEF FirstShares
  <2>2. RightSoFar(p)
    BY DEF LagInv
  <2>3. \A k \in Party : k < p => sockets[p][k] = k
    BY <2>1, <2>2 DEF RightSoFar
  <2>4. CASE j < p
    <3>1. j # p
      BY <1>2, <2>4
    <3> QED
      BY <2>3, <2>4, <3>1
  <2>5. CASE ~(j < p)
    BY <1>3, <2>1, <2>5
  <2> QED
    BY <2>4, <2>5
<1> QED
  BY <1>1, <1>4, <1>5, <1>6 DEF PeersRight

\* The queues after a step that changes neither them nor who has dialled.
LEMMA CallersKept ==
  ASSUME NEW s \in Party, CallersOf(s), backlog'[s] = backlog[s], sockets'[s] = sockets[s],
         \A c \in Party : <<c, s>> \in inflight' <=> <<c, s>> \in inflight,
         \A n \in 1 .. Len(backlog[s]) : backlog[s][n] \in Party,
         Accepted(s)' = Accepted(s),
         \A a \in Party : Dialled(a, s)' <=> Dialled(a, s),
         \A i \in Party : Dialled(s, i)' <=> Dialled(s, i)
  PROVE  CallersOf(s)'
BY DEF CallersOf

LEMMA CallersAccept ==
  ASSUME TypeInv, NEW p \in Party, CallersOf(p), Accept(p)
  PROVE  CallersOf(p)'
<1>1. PICK a, b : a = idx[p] /\ b = backlog[p]
  OBVIOUS
<1>2. /\ a \in Int /\ p \in Int /\ 0 =< a /\ a \in Party
      /\ \A j \in Party : j \in Int
  BY <1>1, Numbers, PartyFacts
<1>3. b \in Seq(Party) /\ b # <<>> /\ Len(b) \in Nat /\ Len(b) > 0
  BY <1>1 DEF Accept, TypeInv, TypeOK
<1>4. /\ Accepted(p) = a /\ Accepted(p)' = a + 1
      /\ \A c, s \in Party : Dialled(c, s)' <=> Dialled(c, s)
      /\ \A s \in Party : ~Dialled(p, s)
  BY <1>1, AcceptMove
<1>5. PICK h \in Party : h = b[1]
  BY <1>3
<1>6. /\ backlog'[p] = Tail(b) /\ inflight' = inflight
      /\ sockets'[p] = [sockets[p] EXCEPT ![a] = h]
  BY <1>1, <1>3, <1>5 DEF Accept, TypeInv, TypeOK
<1>7. /\ Len(Tail(b)) = Len(b) - 1
      /\ \A n \in 1 .. Len(Tail(b)) : Tail(b)[n] = b[n + 1]
  BY <1>3
<1>8. \A j \in Party : sockets'[p][j] = IF j = a THEN h ELSE sockets[p][j]
  BY <1>2, <1>6 DEF TypeInv, TypeOK
<1>9. /\ \A n \in 1 .. Len(b) :
           /\ b[n] \in Party /\ Dialled(b[n], p) /\ <<b[n], p>> \notin inflight
           /\ \A m \in 1 .. Len(b) : m # n => b[m] # b[n]
      /\ \A c \in Party : <<c, p>> \in inflight => Dialled(c, p)
      /\ \A j \in Party : j < a =>
           /\ sockets[p][j] \in Party /\ Dialled(sockets[p][j], p)
           /\ <<sockets[p][j], p>> \notin inflight
           /\ \A n \in 1 .. Len(b) : b[n] # sockets[p][j]
           /\ \A k \in Party : k < a /\ k # j => sockets[p][k] # sockets[p][j]
      /\ \A i \in Party : ~(i < a) => sockets[p][i] = NoOne
  <2>1. \A n \in 1 .. Len(b) : b[n] \in Party
    BY <1>3
  <2>2. \A n \in 1 .. Len(b) :
          /\ Dialled(b[n], p) /\ <<b[n], p>> \notin inflight
          /\ \A m \in 1 .. Len(b) : m # n => b[m] # b[n]
    BY <1>1 DEF CallersOf
  <2>3. \A c \in Party : <<c, p>> \in inflight => Dialled(c, p)
    BY DEF CallersOf
  <2>4. \A j \in Party : j < a =>
          /\ sockets[p][j] \in Party /\ Dialled(sockets[p][j], p)
          /\ <<sockets[p][j], p>> \notin inflight
          /\ \A n \in 1 .. Len(b) : b[n] # sockets[p][j]
          /\ \A k \in Party : k < a /\ k # j => sockets[p][k] # sockets[p][j]
    BY <1>1, <1>4 DEF CallersOf
  <2>5. \A i \in Party : ~(i < a) => sockets[p][i] = NoOne
    BY <1>4 DEF CallersOf
  <2> QED
    BY <2>1, <2>2, <2>3, <2>4, <2>5
<1>10. ASSUME NEW n \in 1 .. Len(Tail(b))
       PROVE  /\ Dialled(Tail(b)[n], p)' /\ <<Tail(b)[n], p>> \notin inflight
              /\ \A m \in 1 .. Len(Tail(b)) : m # n => Tail(b)[m] # Tail(b)[n]
  <2>1. n + 1 \in 1 .. Len(b) /\ Tail(b)[n] = b[n + 1]
    BY <1>3, <1>7
  <2>2. ASSUME NEW m \in 1 .. Len(Tail(b)), m # n PROVE Tail(b)[m] # Tail(b)[n]
    <3>1. m + 1 \in 1 .. Len(b) /\ Tail(b)[m] = b[m + 1] /\ m + 1 # n + 1
      BY <1>3, <1>7, <2>2
    <3> QED
      BY <1>9, <2>1, <3>1
  <2> QED
    BY <1>4, <1>9, <2>1, <2>2
<1>11. /\ Dialled(h, p)' /\ <<h, p>> \notin inflight
       /\ \A n \in 1 .. Len(Tail(b)) : Tail(b)[n] # h
       /\ \A j \in Party : j < a => sockets[p][j] # h
  <2>1. 1 \in 1 .. Len(b)
    BY <1>3
  <2>2. ASSUME NEW n \in 1 .. Len(Tail(b)) PROVE Tail(b)[n] # h
    <3>1. n + 1 \in 1 .. Len(b) /\ n + 1 # 1 /\ Tail(b)[n] = b[n + 1]
      BY <1>3, <1>7
    <3> QED
      BY <1>5, <1>9, <2>1, <3>1
  <2> QED
    BY <1>4, <1>5, <1>9, <2>1, <2>2
<1>12. ASSUME NEW j \in Party, j < a + 1
       PROVE  \E c \in Party :
                /\ sockets'[p][j] = c /\ Dialled(c, p)' /\ <<c, p>> \notin inflight
                /\ \A n \in 1 .. Len(Tail(b)) : Tail(b)[n] # c
                /\ \A k \in Party : k < a + 1 /\ k # j => sockets'[p][k] # c
  <2>0. \A k \in Party : k < a + 1 <=> k < a \/ k = a
    BY <1>2
  <2>1. CASE j = a
    <3>1. sockets'[p][j] = h
      BY <1>2, <1>8, <2>1
    <3>2. ASSUME NEW k \in Party, k < a + 1, k # j PROVE sockets'[p][k] # h
      BY <1>8, <1>11, <2>0, <2>1, <3>2
    <3> QED
      BY <1>11, <3>1, <3>2
  <2>2. CASE j # a
    <3>1. j < a
      BY <1>12, <2>0, <2>2
    <3>2. PICK c \in Party : c = sockets[p][j]
      BY <1>9, <3>1
    <3>3. /\ sockets'[p][j] = c /\ Dialled(c, p)' /\ <<c, p>> \notin inflight
          /\ \A n \in 1 .. Len(b) : b[n] # c
      BY <1>4, <1>8, <1>9, <2>2, <3>1, <3>2
    <3>4. ASSUME NEW k \in Party, k < a + 1, k # j PROVE sockets'[p][k] # c
      <4>1. CASE k = a
        BY <1>8, <1>11, <3>1, <3>2, <4>1
      <4>2. CASE k # a
        BY <1>8, <1>9, <2>0, <3>1, <3>2, <3>4, <4>2
      <4> QED
        BY <4>1, <4>2
    <3>5. ASSUME NEW n \in 1 .. Len(Tail(b)) PROVE Tail(b)[n] # c
      <4>1. n + 1 \in 1 .. Len(b) /\ Tail(b)[n] = b[n + 1]
        BY <1>3, <1>7
      <4> QED
        BY <3>3, <4>1
    <3> QED
      BY <3>3, <3>4, <3>5
  <2> QED
    BY <2>1, <2>2
<1>13. ASSUME NEW i \in Party, ~(i < a + 1) PROVE sockets'[p][i] = NoOne
  BY <1>2, <1>8, <1>9, <1>13
<1>14. \A c \in Party : <<c, p>> \in inflight => Dialled(c, p)'
  BY <1>4, <1>9
<1>15. \A i \in Party : ~Dialled(p, i)'
  BY <1>4
<1>16. (\A n \in 1 .. Len(backlog[p]) :
          /\ Dialled(backlog[p][n], p) /\ <<backlog[p][n], p>> \notin inflight
          /\ \A m \in 1 .. Len(backlog[p]) : m # n => backlog[p][m] # backlog[p][n])'
  BY <1>6, <1>10 DEF Dialled
<1>17. (\A j \in Party : j < Accepted(p) =>
          /\ sockets[p][j] \in Party /\ Dialled(sockets[p][j], p)
          /\ <<sockets[p][j], p>> \notin inflight
          /\ \A n \in 1 .. Len(backlog[p]) : backlog[p][n] # sockets[p][j]
          /\ \A k \in Party : k < Accepted(p) /\ k # j => sockets[p][k] # sockets[p][j])'
  <2> SUFFICES ASSUME NEW j \in Party, (j < Accepted(p))'
      PROVE  (/\ sockets[p][j] \in Party /\ Dialled(sockets[p][j], p)
              /\ <<sockets[p][j], p>> \notin inflight
              /\ \A n \in 1 .. Len(backlog[p]) : backlog[p][n] # sockets[p][j]
              /\ \A k \in Party : k < Accepted(p) /\ k # j => sockets[p][k] # sockets[p][j])'
    OBVIOUS
  <2>1. PICK c \in Party :
          /\ sockets'[p][j] = c /\ Dialled(c, p)' /\ <<c, p>> \notin inflight
          /\ \A n \in 1 .. Len(Tail(b)) : Tail(b)[n] # c
          /\ \A k \in Party : k < a + 1 /\ k # j => sockets'[p][k] # c
    BY <1>4, <1>12
  <2>2. Dialled(sockets[p][j], p)'
    BY <2>1 DEF Dialled
  <2> QED
    BY <1>4, <1>6, <2>1, <2>2
<1>18. (\A i \in Party : ~(i < Accepted(p)) =>
          sockets[p][i] = IF Dialled(p, i) THEN i ELSE NoOne)'
  BY <1>4, <1>13, <1>15
<1>19. (\A c \in Party : <<c, p>> \in inflight => Dialled(c, p))'
  BY <1>6, <1>14
<1> QED
  BY <1>16, <1>17, <1>18, <1>19 DEF CallersOf

\* One more caller of s, in its accept queue or on the way to it.
LEMMA CallersMore ==
  ASSUME TypeInv, NEW s \in Party, NEW c \in Party, CallersOf(s),
         sockets'[s] = sockets[s], Accepted(s)' = Accepted(s),
         \A a \in Party : Dialled(a, s)' <=> Dialled(a, s) \/ a = c,
         \A i \in Party : Dialled(s, i)' <=> Dialled(s, i),
         \A n \in 1 .. Len(backlog[s]) : backlog[s][n] # c,
         \A j \in Party : j < Accepted(s) => sockets[s][j] # c,
         \/ /\ backlog'[s] = Append(backlog[s], c)
            /\ \A a \in Party : <<a, s>> \in inflight' <=> <<a, s>> \in inflight /\ a # c
         \/ /\ backlog'[s] = backlog[s]
            /\ \A a \in Party : <<a, s>> \in inflight' <=> <<a, s>> \in inflight \/ a = c
  PROVE  CallersOf(s)'
<1>1. PICK b \in Seq(Party) : b = backlog[s]
  BY DEF TypeInv, TypeOK
<1>2. PICK d : d = backlog'[s]
  OBVIOUS
<1>3. /\ \A n \in 1 .. Len(b) :
           /\ b[n] \in Party /\ Dialled(b[n], s) /\ <<b[n], s>> \notin inflight /\ b[n] # c
           /\ \A m \in 1 .. Len(b) : m # n => b[m] # b[n]
      /\ \A a \in Party : <<a, s>> \in inflight => Dialled(a, s)
      /\ \A j \in Party : j < Accepted(s) =>
           /\ sockets[s][j] \in Party /\ Dialled(sockets[s][j], s) /\ sockets[s][j] # c
           /\ <<sockets[s][j], s>> \notin inflight
           /\ \A n \in 1 .. Len(b) : b[n] # sockets[s][j]
           /\ \A k \in Party : k < Accepted(s) /\ k # j => sockets[s][k] # sockets[s][j]
      /\ \A i \in Party : ~(i < Accepted(s)) =>
           sockets[s][i] = IF Dialled(s, i) THEN i ELSE NoOne
  BY <1>1 DEF CallersOf
<1>4. \/ /\ Len(d) = Len(b) + 1
         /\ \A n \in 1 .. Len(d) : n = Len(d) \/ n \in 1 .. Len(b)
         /\ \A n \in 1 .. Len(d) : d[n] = IF n = Len(d) THEN c ELSE b[n]
         /\ Len(d) \notin 1 .. Len(b)
         /\ \A a \in Party : <<a, s>> \in inflight' <=> <<a, s>> \in inflight /\ a # c
      \/ /\ d = b
         /\ \A a \in Party : <<a, s>> \in inflight' <=> <<a, s>> \in inflight \/ a = c
  <2>1. CASE /\ d = Append(b, c)
             /\ \A a \in Party : <<a, s>> \in inflight' <=> <<a, s>> \in inflight /\ a # c
    <3>1. /\ Len(d) = Len(b) + 1 /\ Len(b) \in Nat
          /\ \A n \in 1 .. Len(b) : d[n] = b[n]
          /\ d[Len(b) + 1] = c
      BY <1>1, <2>1, AppendProperties
    <3>2. /\ \A n \in 1 .. Len(d) : n = Len(d) \/ n \in 1 .. Len(b)
          /\ Len(d) \notin 1 .. Len(b)
      BY <3>1
    <3> QED
      BY <2>1, <3>1, <3>2
  <2> QED
    BY <1>1, <1>2, <2>1
<1>5. ASSUME NEW n \in 1 .. Len(d)
      PROVE  /\ d[n] \in Party /\ Dialled(d[n], s)' /\ <<d[n], s>> \notin inflight'
             /\ \A m \in 1 .. Len(d) : m # n => d[m] # d[n]
  <2>1. CASE d = b
    BY <1>3, <1>4, <2>1
  <2>2. CASE d # b /\ n = Len(d)
    BY <1>3, <1>4, <2>2
  <2>3. CASE d # b /\ n # Len(d)
    <3>1. n \in 1 .. Len(b) /\ d[n] = b[n]
      BY <1>4, <2>3
    <3>2. Dialled(b[n], s)' /\ <<b[n], s>> \notin inflight'
      BY <1>3, <1>4, <2>3, <3>1
    <3>3. ASSUME NEW m \in 1 .. Len(d), m # n PROVE d[m] # d[n]
      <4>1. CASE m = Len(d)
        BY <1>3, <1>4, <2>3, <3>1, <4>1
      <4>2. CASE m # Len(d)
        <5>1. m \in 1 .. Len(b) /\ d[m] = b[m]
          BY <1>4, <2>3, <4>2
        <5> QED
          BY <1>3, <3>1, <3>3, <5>1
      <4> QED
        BY <4>1, <4>2
    <3> QED
      BY <1>3, <3>1, <3>2, <3>3
  <2> QED
    BY <2>1, <2>2, <2>3
<1>6. (\A n \in 1 .. Len(backlog[s]) :
          /\ Dialled(backlog[s][n], s) /\ <<backlog[s][n], s>> \notin inflight
          /\ \A m \in 1 .. Len(backlog[s]) : m # n => backlog[s][m] # backlog[s][n])'
  BY <1>2, <1>5 DEF Dialled
<1>7. (\A a \in Party : <<a, s>> \in inflight => Dialled(a, s))'
  BY <1>3, <1>4
<1>8. (\A j \in Party : j < Accepted(s) =>
          /\ sockets[s][j] \in Party /\ Dialled(sockets[s][j], s)
          /\ <<sockets[s][j], s>> \notin inflight
          /\ \A n \in 1 .. Len(backlog[s]) : backlog[s][n] # sockets[s][j]
          /\ \A k \in Party : k < Accepted(s) /\ k # j => sockets[s][k] # sockets[s][j])'
  <2> SUFFICES ASSUME NEW j \in Party, j < Accepted(s)
      PROVE  (/\ sockets[s][j] \in Party /\ Dialled(sockets[s][j], s)
              /\ <<sockets[s][j], s>> \notin inflight
              /\ \A n \in 1 .. Len(backlog[s]) : backlog[s][n] # sockets[s][j]
              /\ \A k \in Party : k < Accepted(s) /\ k # j => sockets[s][k] # sockets[s][j])'
    OBVIOUS
  <2>1. PICK a \in Party : a = sockets[s][j] /\ Dialled(a, s) /\ a # c
    BY <1>3
  <2>2. sockets'[s][j] = a /\ Dialled(a, s)' /\ <<a, s>> \notin inflight'
    BY <1>3, <1>4, <2>1
  <2>3. Dialled(sockets[s][j], s)'
    BY <2>2 DEF Dialled
  <2>4. \A n \in 1 .. Len(d) : d[n] # a
    BY <1>3, <1>4, <2>1
  <2>5. \A k \in Party : k < Accepted(s)' /\ k # j => sockets'[s][k] # a
    BY <1>3, <2>1
  <2> QED
    BY <1>2, <2>2, <2>3, <2>4, <2>5
<1>9. (\A i \in Party : ~(i < Accepted(s)) =>
          sockets[s][i] = IF Dialled(s, i) THEN i ELSE NoOne)'
  BY <1>3
<1> QED
  BY <1>6, <1>7, <1>8, <1>9 DEF CallersOf

\* The caller itself: only its own socket is new.
LEMMA CallersDialled ==
  ASSUME TypeInv, NEW p \in Party, NEW t \in Party, CallersOf(p), t = idx[p], Connect(p)
  PROVE  CallersOf(p)'
<1>1. /\ pc[p] = "connect" /\ p < t /\ ~Dialled(p, t)
      /\ \A s \in Party : Accepted(s)' = Accepted(s)
      /\ \A c, s \in Party : Dialled(c, s)' <=> Dialled(c, s) \/ (c = p /\ s = t)
  BY ConnectMove
<1>2. p \in Int /\ t \in Int /\ Accepted(p) = p
  BY <1>1, PartyFacts DEF Accepted
<1>3. /\ backlog'[p] = backlog[p]
      /\ \A c \in Party : <<c, p>> \in inflight' <=> <<c, p>> \in inflight
      /\ \A i \in Party : sockets'[p][i] = IF i = t THEN t ELSE sockets[p][i]
  <2>1. p # t
    BY <1>1, <1>2
  <2>2. sockets' = [sockets EXCEPT ![p][t] = t]
    BY DEF Connect
  <2>3. \/ backlog' = backlog /\ inflight' = inflight \cup {<<p, t>>}
        \/ backlog' = [backlog EXCEPT ![t] = Append(@, p)] /\ inflight' = inflight
    BY DEF Connect
  <2>4. \A c \in Party : <<c, p>> # <<p, t>>
    BY <2>1
  <2> QED
    BY <2>1, <2>2, <2>3, <2>4 DEF TypeInv, TypeOK
<1>4. \A a \in Party : Dialled(a, p)' <=> Dialled(a, p)
  BY <1>1, <1>2
<1>5. \A j \in Party : j < Accepted(p) => sockets'[p][j] = sockets[p][j]
  BY <1>1, <1>2, <1>3
<1>6. (\A i \in Party : ~(i < Accepted(p)) =>
          sockets[p][i] = IF Dialled(p, i) THEN i ELSE NoOne)'
  BY <1>1, <1>3 DEF CallersOf
<1>7. \A n \in 1 .. Len(backlog[p]) : backlog[p][n] \in Party
  BY DEF TypeInv, TypeOK
<1>8. (\A n \in 1 .. Len(backlog[p]) :
          /\ Dialled(backlog[p][n], p) /\ <<backlog[p][n], p>> \notin inflight
          /\ \A m \in 1 .. Len(backlog[p]) : m # n => backlog[p][m] # backlog[p][n])'
  <2> SUFFICES ASSUME NEW n \in 1 .. Len(backlog[p])
      PROVE (/\ Dialled(backlog[p][n], p) /\ <<backlog[p][n], p>> \notin inflight
             /\ \A m \in 1 .. Len(backlog[p]) : m # n => backlog[p][m] # backlog[p][n])'
    BY <1>3
  <2>1. PICK a \in Party : a = backlog[p][n]
    BY <1>7
  <2>2. Dialled(a, p)' /\ <<a, p>> \notin inflight'
    BY <1>3, <1>4, <2>1 DEF CallersOf
  <2>3. Dialled(backlog[p][n], p)'
    BY <1>3, <2>1, <2>2 DEF Dialled
  <2> QED
    BY <1>3, <2>1, <2>2, <2>3 DEF CallersOf
<1>9. (\A j \in Party : j < Accepted(p) =>
          /\ sockets[p][j] \in Party /\ Dialled(sockets[p][j], p)
          /\ <<sockets[p][j], p>> \notin inflight
          /\ \A n \in 1 .. Len(backlog[p]) : backlog[p][n] # sockets[p][j]
          /\ \A k \in Party : k < Accepted(p) /\ k # j => sockets[p][k] # sockets[p][j])'
  <2> SUFFICES ASSUME NEW j \in Party, j < Accepted(p)
      PROVE  (/\ sockets[p][j] \in Party /\ Dialled(sockets[p][j], p)
              /\ <<sockets[p][j], p>> \notin inflight
              /\ \A n \in 1 .. Len(backlog[p]) : backlog[p][n] # sockets[p][j]
              /\ \A k \in Party : k < Accepted(p) /\ k # j => sockets[p][k] # sockets[p][j])'
    BY <1>1
  <2>1. PICK a \in Party : a = sockets[p][j] /\ Dialled(a, p) /\ <<a, p>> \notin inflight
    BY DEF CallersOf
  <2>2. sockets'[p][j] = a /\ Dialled(a, p)' /\ <<a, p>> \notin inflight'
    BY <1>3, <1>4, <1>5, <2>1
  <2>3. Dialled(sockets[p][j], p)'
    BY <2>2 DEF Dialled
  <2>4. \A n \in 1 .. Len(backlog[p]) : backlog[p][n] # a
    BY <2>1 DEF CallersOf
  <2>5. \A k \in Party : k < Accepted(p)' /\ k # j => sockets'[p][k] # a
    BY <1>1, <1>5, <2>1 DEF CallersOf
  <2> QED
    BY <1>3, <2>2, <2>3, <2>4, <2>5
<1>10. (\A c \in Party : <<c, p>> \in inflight => Dialled(c, p))'
  BY <1>3, <1>4 DEF CallersOf
<1> QED
  BY <1>6, <1>8, <1>9, <1>10 DEF CallersOf

LEMMA CallersStep ==
  ASSUME TypeInv, \A s \in Party : CallersOf(s), NEW p \in Party, Step(p)
  PROVE  \A s \in Party : CallersOf(s)'
<1>0. \A s \in Party : \A n \in 1 .. Len(backlog[s]) : backlog[s][n] \in Party
  BY DEF TypeInv, TypeOK
<1>1. CASE Accept(p)
  <2>1. /\ \A s \in Party \ {p} : /\ backlog'[s] = backlog[s] /\ sockets'[s] = sockets[s]
                                 /\ Accepted(s)' = Accepted(s)
        /\ inflight' = inflight
        /\ \A c, s \in Party : Dialled(c, s)' <=> Dialled(c, s)
    BY <1>1, AcceptMove DEF Accept, TypeInv, TypeOK
  <2>2. ASSUME NEW s \in Party, s # p PROVE CallersOf(s)'
    BY <1>0, <2>1, <2>2, CallersKept
  <2> QED
    BY <1>1, <2>2, CallersAccept
<1>2. CASE Connect(p)
  <2>1. PICK t \in Party : t = idx[p]
    BY Numbers
  <2>2. /\ p < t /\ ~Dialled(p, t)
        /\ \A s \in Party : Accepted(s)' = Accepted(s)
        /\ \A c, s \in Party : Dialled(c, s)' <=> Dialled(c, s) \/ (c = p /\ s = t)
    BY <1>2, <2>1, ConnectMove
  <2>3. p # t
    BY <2>2, PartyFacts
  <2>4. /\ sockets' = [sockets EXCEPT ![p][t] = t]
        /\ \/ backlog' = backlog /\ inflight' = inflight \cup {<<p, t>>}
           \/ backlog' = [backlog EXCEPT ![t] = Append(@, p)] /\ inflight' = inflight
    BY <1>2, <2>1 DEF Connect
  <2>5. \A s \in Party \ {p} : sockets'[s] = sockets[s]
    BY <2>4 DEF TypeInv, TypeOK
  <2>6. CallersOf(p)'
    BY <1>2, <2>1, CallersDialled
  <2>7. CallersOf(t)'
    <3>1. /\ \A n \in 1 .. Len(backlog[t]) : backlog[t][n] # p
          /\ \A j \in Party : j < Accepted(t) => sockets[t][j] # p
          /\ <<p, t>> \notin inflight
      BY <2>2 DEF CallersOf
    <3>2. \/ /\ backlog'[t] = Append(backlog[t], p)
             /\ \A a \in Party : <<a, t>> \in inflight' <=> <<a, t>> \in inflight /\ a # p
          \/ /\ backlog'[t] = backlog[t]
             /\ \A a \in Party : <<a, t>> \in inflight' <=> <<a, t>> \in inflight \/ a = p
      <4>1. CASE backlog' = backlog /\ inflight' = inflight \cup {<<p, t>>}
        <5>1. \A a \in Party : <<a, t>> = <<p, t>> <=> a = p
          OBVIOUS
        <5> QED
          BY <4>1, <5>1
      <4>2. CASE backlog' = [backlog EXCEPT ![t] = Append(@, p)] /\ inflight' = inflight
        <5>1. backlog'[t] = Append(backlog[t], p)
          BY <4>2 DEF TypeInv, TypeOK
        <5> QED
          BY <3>1, <4>2, <5>1
      <4> QED
        BY <2>4, <4>1, <4>2
    <3>3. /\ \A a \in Party : Dialled(a, t)' <=> Dialled(a, t) \/ a = p
          /\ \A i \in Party : Dialled(t, i)' <=> Dialled(t, i)
      BY <2>2, <2>3
    <3> QED
      BY <2>2, <2>3, <2>5, <3>1, <3>2, <3>3, CallersMore
  <2>8. ASSUME NEW s \in Party, s # p, s # t PROVE CallersOf(s)'
    <3>1. /\ backlog'[s] = backlog[s] /\ sockets'[s] = sockets[s]
          /\ \A c \in Party : <<c, s>> \in inflight' <=> <<c, s>> \in inflight
      BY <2>4, <2>5, <2>8 DEF TypeInv, TypeOK
    <3>2. CallersOf(s) /\ \A n \in 1 .. Len(backlog[s]) : backlog[s][n] \in Party
      BY <1>0
    <3>3. /\ \A a \in Party : Dialled(a, s)' <=> Dialled(a, s)
          /\ \A i \in Party : Dialled(s, i)' <=> Dialled(s, i)
      BY <2>2, <2>8
    <3> QED
      BY <2>2, <3>1, <3>2, <3>3, CallersKept
  <2> QED
    BY <2>6, <2>7, <2>8
<1>3. CASE ~Accept(p) /\ ~Connect(p)
  <2>1. /\ \A s \in Party : Accepted(s)' = Accepted(s)
        /\ \A c, s \in Party : Dialled(c, s)' <=> Dialled(c, s)
    BY <1>3, QuietMove
  <2>2. backlog' = backlog /\ sockets' = sockets /\ inflight' = inflight
    BY <1>3 DEF Step, EndLoop, OpenAcceptor, ConnectRefused, Retry, ReadFirst,
                SendFirst, ReadAnswer, FirstShares
  <2> QED
    BY <1>0, <2>1, <2>2, CallersKept
<1> QED
  BY <1>1, <1>2, <1>3

LEMMA CallersEstablished ==
  ASSUME TypeInv, \A s \in Party : CallersOf(s),
         NEW c \in Party, NEW s \in Party, Established(c, s)
  PROVE  \A r \in Party : CallersOf(r)'
<1>1. /\ <<c, s>> \in inflight /\ inflight' = inflight \ {<<c, s>>}
      /\ backlog' = [backlog EXCEPT ![s] = Append(@, c)] /\ sockets' = sockets
      /\ pc' = pc /\ idx' = idx
  BY DEF Established
<1>2. /\ \A r \in Party : Accepted(r)' = Accepted(r)
      /\ \A a, r \in Party : Dialled(a, r)' <=> Dialled(a, r)
  BY <1>1 DEF Accepted, Dialled
<1>3. CallersOf(s)'
  <2>1. /\ Dialled(c, s)
        /\ \A n \in 1 .. Len(backlog[s]) : backlog[s][n] # c
        /\ \A j \in Party : j < Accepted(s) => sockets[s][j] # c
    BY <1>1 DEF CallersOf
  <2>2. \A a \in Party : <<a, s>> \in inflight' <=> <<a, s>> \in inflight /\ a # c
    <3>1. \A a \in Party : <<a, s>> = <<c, s>> <=> a = c
      OBVIOUS
    <3> QED
      BY <1>1, <3>1
  <2>3. backlog'[s] = Append(backlog[s], c)
    BY <1>1 DEF TypeInv, TypeOK
  <2>4. \A a \in Party : Dialled(a, s)' <=> Dialled(a, s) \/ a = c
    BY <1>2, <2>1
  <2> QED
    BY <1>1, <1>2, <2>1, <2>2, <2>3, <2>4, CallersMore
<1>4. ASSUME NEW r \in Party, r # s PROVE CallersOf(r)'
  <2>1. \A a \in Party : <<a, r>> \in inflight' <=> <<a, r>> \in inflight
    <3>1. \A a \in Party : <<a, r>> # <<c, s>>
      BY <1>4
    <3> QED
      BY <1>1, <3>1
  <2>2. backlog'[r] = backlog[r] /\ sockets'[r] = sockets[r]
    BY <1>1, <1>4 DEF TypeInv, TypeOK
  <2>3. \A n \in 1 .. Len(backlog[r]) : backlog[r][n] \in Party
    BY DEF TypeInv, TypeOK
  <2> QED
    BY <1>2, <2>1, <2>2, <2>3, CallersKept
<1> QED
  BY <1>3, <1>4

LEMMA RightStep ==
  ASSUME LagInv, NEW p \in Party, Step(p)
  PROVE  \A q \in Party : RightSoFar(q)'
<1>1. PICK l, i : /\ pc' = [pc EXCEPT ![p] = l] /\ idx' = [idx EXCEPT ![p] = i]
                  /\ Move(p, pc[p], idx[p], l, i)
  BY Moves DEF LagInv
<1>2. /\ p \in Int /\ idx[p] \in Int /\ 0 =< idx[p]
      /\ \A j \in Party : j \in Int /\ 0 =< j
  BY Numbers, PartyFacts DEF LagInv
<1>3. /\ pc'[p] = l /\ idx'[p] = i
      /\ \A q \in Party \ {p} : pc'[q] = pc[q] /\ idx'[q] = idx[q]
  BY <1>1 DEF LagInv, TypeInv, TypeOK
<1>4. /\ \A q \in Party \ {p} : sockets'[q] = sockets[q]
      /\ pc[p] \notin {"listen", "connect"} => sockets' = sockets
  <2>1. CASE Accept(p)
    BY <2>1 DEF Accept, LagInv, TypeInv, TypeOK
  <2>2. CASE Connect(p)
    BY <2>2 DEF Connect, Dialling, LagInv, TypeInv, TypeOK
  <2>3. CASE ~Accept(p) /\ ~Connect(p)
    BY <2>3 DEF Step, EndLoop, OpenAcceptor, ConnectRefused, Retry, ReadFirst,
                SendFirst, ReadAnswer, FirstShares
  <2> QED
    BY <2>1, <2>2, <2>3
<1>5. ASSUME pc[p] = "read_first", idx[p] < p PROVE sockets[p][idx[p]] = idx[p]
  <2>1. ReadFirst(p)
    BY <1>2, <1>5 DEF Step, EndLoop, LoopOver, OpenAcceptor, Accept, Connect, ConnectRefused,
       Dialling, Retry, SendFirst, ReadAnswer, FirstShares
  <2> QED
    BY <2>1, LagPeersRight DEF PeersRight
<1>6. ASSUME NEW q \in Party, q # p PROVE RightSoFar(q)'
  BY <1>3, <1>4, <1>6 DEF LagInv, RightSoFar
<1>7. RightSoFar(p)'
  <2>1. RightSoFar(p)
    BY DEF LagInv
  <2>2. ASSUME l = "read_first", NEW j \in Party, j < i PROVE sockets'[p][j] = j
    <3>1. CASE pc[p] = "connect"
      BY <1>1, <1>2, <2>2, <3>1 DEF Move
    <3>2. CASE pc[p] # "connect"
      <4>1. pc[p] = "read_first" /\ i = idx[p] + 1 /\ idx[p] < p
        BY <1>1, <2>2, <3>2 DEF Move
      <4>2. j < idx[p] \/ j = idx[p]
        BY <1>2, <2>2, <4>1
      <4> QED
        BY <1>4, <1>5, <2>1, <4>1, <4>2 DEF RightSoFar
    <3> QED
      BY <3>1, <3>2
  <2>3. ASSUME l \in {"send_first", "sent_first", "ready", "sharing"}, NEW j \in Party, j < p
        PROVE  sockets'[p][j] = j
    <3>1. \/ pc[p] = "read_first" /\ idx[p] = p
          \/ pc[p] \in {"send_first", "sent_first", "ready", "sharing"}
      BY <1>1, <2>3 DEF Move
    <3> QED
      BY <1>4, <2>1, <2>3, <3>1 DEF RightSoFar
  <2> QED
    BY <1>3, <2>2, <2>3 DEF RightSoFar
<1> QED
  BY <1>6, <1>7

-----------------------------------------------------------------------------
(***************************************************************************)
(* What the invariants say of keys and messages, also used with deaths.    *)
(***************************************************************************)
LEMMA LinksAgree == LinkInv => KeysAgree
<1> SUFFICES ASSUME LinkInv, NEW p \in Party, NEW q \in Party
             PROVE  /\ keys[p][q] # {} /\ keys[q][p] # {} => keys[p][q] = keys[q][p]
                    /\ \A r, s \in Party :
                         keys[p][q] # {} /\ keys[p][q] = keys[r][s] => {p, q} = {r, s}
  BY DEF KeysAgree
<1>1. \A a, b \in Party : keys[a][b] # {} =>
        a # b /\ keys[a][b] = {<<a, b>>, <<b, a>>}
  BY DEF LinkInv, LinkOf, PublicValue
<1>2. keys[p][q] # {} /\ keys[q][p] # {} => keys[p][q] = keys[q][p]
  <2>1. {<<p, q>>, <<q, p>>} = {<<q, p>>, <<p, q>>}
    OBVIOUS
  <2> QED
    BY <1>1, <2>1
<1>3. ASSUME NEW r \in Party, NEW s \in Party,
             keys[p][q] # {}, keys[p][q] = keys[r][s]
      PROVE  {p, q} = {r, s}
  <2>1. {<<p, q>>, <<q, p>>} = {<<r, s>>, <<s, r>>}
    BY <1>1, <1>3
  <2>2. <<p, q>> = <<r, s>> \/ <<p, q>> = <<s, r>>
    BY <2>1
  <2>3. (p = r /\ q = s) \/ (p = s /\ q = r)
    BY <2>2
  <2> QED
    BY <2>3
<1> QED
  BY <1>2, <1>3

LEMMA OnlySharesLeft ==
  ASSUME LinkInv, NEW p \in Party, Ready(p), NEW q \in Party,
         NEW n \in DOMAIN chan[q][p]
  PROVE  chan[q][p][n] = Share(q)
<1>1. chan[q][p] = <<>> \/ chan[q][p] = <<Share(q)>>
  BY DEF Ready, LinkInv, LinkOf, In, Answered, Through
<1> QED
  BY <1>1

-----------------------------------------------------------------------------
(***************************************************************************)
(* The theorems.                                                           *)
(***************************************************************************)
LEMMA LagInit == Init => LagInv
<1> SUFFICES ASSUME Init PROVE LagInv
  OBVIOUS
<1>1. ASSUME NEW p \in Party
      PROVE  /\ pc[p] = "listen" /\ idx[p] = 0 /\ Len(backlog[p]) = 0
             /\ \A i \in Party : sockets[p][i] = NoOne
  BY LoopFacts DEF Init, LoopStart
<1>2. inflight = {}
  BY DEF Init
<1>3. ASSUME NEW s \in Party PROVE CallersOf(s)
  <2>1. Accepted(s) = 0 /\ \A i \in Party : 0 =< i /\ i \in Int /\ ~Dialled(s, i)
    BY <1>1, PartyFacts DEF Accepted, Dialled
  <2> QED
    BY <1>1, <1>2, <2>1 DEF CallersOf
<1>4. ASSUME NEW p \in Party PROVE RightSoFar(p)
  BY <1>1 DEF RightSoFar
<1> QED
  BY <1>3, <1>4, TypesInit, LinkInit DEF LagInv

LEMMA LagStep == LagInv /\ [Next]_vars => LagInv'
<1> SUFFICES ASSUME LagInv, Next \/ UNCHANGED vars PROVE LagInv'
  OBVIOUS
<1>0. TypeInv /\ LinkInv /\ \A s \in Party : CallersOf(s) /\ RightSoFar(s)
  BY DEF LagInv
<1>1. ASSUME NEW p \in Party, Step(p) PROVE LagInv'
  <2>1. PeersRight(p)
    BY LagPeersRight
  <2>2. TypeInv'
    BY <1>0, <1>1, <2>1, TypesStep
  <2>3. LinkInv'
    BY <1>0, <1>1, <2>1, LinksStep
  <2>4. \A s \in Party : CallersOf(s)'
    BY <1>0, <1>1, CallersStep
  <2>5. \A s \in Party : RightSoFar(s)'
    BY <1>1, RightStep
  <2> QED
    BY <2>2, <2>3, <2>4, <2>5 DEF LagInv
<1>2. ASSUME NEW c \in Party, NEW s \in Party, Established(c, s) PROVE LagInv'
  <2>1. /\ pc' = pc /\ idx' = idx /\ listening' = listening /\ sockets' = sockets
        /\ keys' = keys /\ chan' = chan /\ inflight' = inflight \ {<<c, s>>}
        /\ backlog' = [backlog EXCEPT ![s] = Append(@, c)]
    BY <1>2 DEF Established
  <2>2. TypeInv'
    <3>1. backlog' \in [Party -> Seq(Party)]
      <4>1. backlog \in [Party -> Seq(Party)] /\ backlog[s] \in Seq(Party)
        BY <1>0 DEF TypeInv, TypeOK
      <4>2. PICK b \in Seq(Party) : b = Append(backlog[s], c)
        BY <4>1, AppendProperties
      <4> QED
        BY <2>1, <4>1, <4>2
    <3>2. inflight' \in SUBSET (Party \X Party)
      BY <1>0, <2>1 DEF TypeInv, TypeOK
    <3>3. TypeOK'
      BY <1>0, <2>1, <3>1, <3>2 DEF TypeInv, TypeOK
    <3>4. \A p \in Party : ControlOf(p)'
      BY <1>0, <2>1 DEF TypeInv, ControlOf
    <3> QED
      BY <3>3, <3>4 DEF TypeInv
  <2>3. LinkInv'
    BY <1>0, <2>1, LinksUntouched
  <2>4. \A r \in Party : CallersOf(r)'
    BY <1>0, <1>2, CallersEstablished
  <2>5. \A p \in Party : RightSoFar(p)'
    BY <1>0, <2>1 DEF RightSoFar
  <2> QED
    BY <2>2, <2>3, <2>4, <2>5 DEF LagInv
<1>3. CASE UNCHANGED vars
  <2>1. /\ pc' = pc /\ idx' = idx /\ listening' = listening /\ sockets' = sockets
        /\ keys' = keys /\ chan' = chan /\ inflight' = inflight /\ backlog' = backlog
    BY <1>3 DEF vars
  <2>2. TypeInv'
    BY <1>0, <2>1 DEF TypeInv, TypeOK, ControlOf
  <2>3. LinkInv'
    BY <1>0, <2>1, LinksUntouched
  <2>4. \A s \in Party : CallersOf(s)'
    <3>1. /\ \A s \in Party : Accepted(s)' = Accepted(s)
          /\ \A a, s \in Party : Dialled(a, s)' <=> Dialled(a, s)
      BY <2>1 DEF Accepted, Dialled
    <3>2. \A s \in Party : \A n \in 1 .. Len(backlog[s]) : backlog[s][n] \in Party
      BY <1>0 DEF TypeInv, TypeOK
    <3> QED
      BY <1>0, <2>1, <3>1, <3>2, CallersKept
  <2>5. \A p \in Party : RightSoFar(p)'
    BY <1>0, <2>1 DEF RightSoFar
  <2> QED
    BY <2>2, <2>3, <2>4, <2>5 DEF LagInv
<1> QED
  BY <1>1, <1>2, <1>3 DEF Next, Continue

LEMMA LagInvariant == Spec => []LagInv
BY LagInit, LagStep, PTL DEF Spec

\* However late handshakes complete, a party that gets through the setup has
\* every socket under the right index ("Map from party index to their socket").
THEOREM MislabelledNeverReady == Spec => []ReadyMeansLabelled
<1>1. LagInv => ReadyMeansLabelled
  <2> SUFFICES ASSUME LagInv, NEW p \in Party, Ready(p), NEW i \in Party, i # p
               PROVE  sockets[p][i] = i
    BY DEF ReadyMeansLabelled
  <2>1. p \in Int /\ i \in Int
    BY PartyFacts
  <2>2. CASE i < p
    BY <2>2 DEF LagInv, RightSoFar, Ready
  <2>3. CASE p < i
    BY <2>1, <2>3 DEF LagInv, CallersOf, Accepted, Dialled, Ready
  <2> QED
    BY <2>1, <2>2, <2>3
<1> QED
  BY <1>1, LagInvariant, PTL

\* The two ends of a link agree on a secret that is theirs alone, and shares that
\* overtake the end of the setup are not taken for public values, with late
\* handshakes too (participant.cxx "key exchange").
THEOREM KeysAgreeWhenLate == Spec => []KeysAgree
<1>1. LagInv => KeysAgree
  BY LinksAgree DEF LagInv
<1> QED
  BY <1>1, LagInvariant, PTL
=============================================================================
