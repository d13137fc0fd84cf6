------------------------- MODULE SetupFaultsProofs -------------------------
(***************************************************************************)
(* Theorems about module SetupFaults, for every number of parties, whoever *)
(* dies.  What travels over the links is settled by SetupProofs; here it   *)
(* is who is at the other end of them.  A party dials nobody before it has *)
(* accepted all parties below it, and each of those had dialled it before, *)
(* going down; so they have dialled everybody above it too, and the        *)
(* parties reach each accept queue in the order 0, 1, 2, ...: accept()     *)
(* need not ask who called.                                                *)
(***************************************************************************)
EXTENDS SetupFaults, SetupProofs

-----------------------------------------------------------------------------
(***************************************************************************)
(* The invariant.                                                          *)
(***************************************************************************)
AliveInv ==
  /\ inflight = {}
  /\ alive \in [Party -> {"up", "crashed", "failed"}]
  /\ \A p \in Party : Gone(p) => ~listening[p]

\* The parties that have dialled s are the first ones, and s has accepted the
\* first ones of these.
QueueOf(s) ==
  /\ Gone(s) => backlog[s] = <<>>
  /\ ~Gone(s) =>
       /\ Accepted(s) + Len(backlog[s]) =< s
       /\ \A c \in Party : c < s =>
            (Dialled(c, s) <=> c < Accepted(s) + Len(backlog[s]))
       /\ \A n \in 1 .. Len(backlog[s]) : backlog[s][n] = Accepted(s) + n - 1

SocketsOf(p) ==
  \A i \in Party :
    sockets[p][i] = IF (i < p /\ i < Accepted(p)) \/ Dialled(p, i) THEN i ELSE NoOne

QueueInv == \A p \in Party : QueueOf(p) /\ SocketsOf(p)

SetupInv == TypeInv /\ AliveInv /\ QueueInv /\ LinkInv

-----------------------------------------------------------------------------
(***************************************************************************)
(* The accept queues.                                                      *)
(***************************************************************************)
LEMMA QueueInit == FInit => QueueInv
<1> SUFFICES ASSUME FInit PROVE QueueInv
  OBVIOUS
<1>1. ASSUME NEW p \in Party
      PROVE  /\ pc[p] = "listen" /\ idx[p] = 0 /\ backlog[p] = <<>> /\ ~Gone(p)
             /\ \A i \in Party : sockets[p][i] = NoOne
  BY LoopFacts DEF FInit, Init, LoopStart, Gone
<1>2. ASSUME NEW p \in Party PROVE QueueOf(p)
  <2>1. Len(backlog[p]) = 0 /\ Accepted(p) = 0 /\ p \in Int /\ 0 =< p
    BY <1>1, PartyFacts DEF Accepted
  <2>2. \A c \in Party : ~Dialled(c, p) /\ c \in Int /\ 0 =< c
    BY <1>1, PartyFacts DEF Dialled
  <2> QED
    BY <1>1, <2>1, <2>2 DEF QueueOf
<1>3. ASSUME NEW p \in Party PROVE SocketsOf(p)
  BY <1>1, PartyFacts DEF SocketsOf, Accepted, Dialled
<1> QED
  BY <1>2, <1>3 DEF QueueInv

\* A party in the key exchange or past it has the sockets of all others.
LEMMA AllSockets ==
  ASSUME TypeInv, QueueInv, NEW p \in Party,
         pc[p] \notin {"listen", "connect", "sleep"}, NEW i \in Party
  PROVE  sockets[p][i] = IF i = p THEN NoOne ELSE i
<1>1. i \in Int /\ p \in Int
  BY PartyFacts
<1> QED
  BY <1>1 DEF QueueInv, SocketsOf, Accepted, Dialled

\* A step that changes neither keeps the queues as they are.
LEMMA QueueQuiet ==
  ASSUME TypeInv, QueueInv, NEW p \in Party, Work(p), ~Accept(p), ~Connect(p)
  PROVE  QueueInv'
<1>1. backlog' = backlog /\ sockets' = sockets /\ alive' = alive
  BY DEF Work, Step, EndLoop, OpenAcceptor, ConnectRefused, Retry, ReadFirst,
         SendFirst, ReadAnswer, FirstShares
<1>2. /\ \A s \in Party : Accepted(s)' = Accepted(s)
      /\ \A c, s \in Party : Dialled(c, s)' <=> Dialled(c, s)
  BY QuietMove DEF Work
<1>3. ASSUME NEW s \in Party PROVE QueueOf(s)'
  BY <1>1, <1>2 DEF QueueInv, QueueOf, Gone
<1>4. ASSUME NEW s \in Party PROVE SocketsOf(s)'
  BY <1>1, <1>2 DEF QueueInv, SocketsOf
<1> QED
  BY <1>3, <1>4 DEF QueueInv

LEMMA QueueAccept ==
  ASSUME TypeInv, QueueInv, NEW p \in Party, Work(p), Accept(p)
  PROVE  QueueInv'
<1>1. PICK a, b, L : a = idx[p] /\ b = backlog[p] /\ L = Len(b)
  OBVIOUS
<1>2. /\ a \in Int /\ p \in Int /\ a < p /\ 0 =< a /\ L \in Nat /\ a \in Party
      /\ b \in Seq(Party) /\ b # <<>>
  <2>1. a \in Int /\ p \in Int /\ 0 =< a /\ a \in Party
    BY <1>1, Numbers
  <2>2. a < p /\ b # <<>> /\ b \in Seq(Party)
    BY <1>1 DEF Accept, TypeInv, TypeOK
  <2> QED
    BY <1>1, <2>1, <2>2
<1>3. /\ a + L =< p
      /\ \A c \in Party : c < p => (Dialled(c, p) <=> c < a + L)
      /\ \A n \in 1 .. L : b[n] = a + n - 1
  BY <1>1 DEF QueueInv, QueueOf, Accepted, Accept, Work
<1>4. /\ pc' = pc /\ alive' = alive /\ idx' = [idx EXCEPT ![p] = a + 1]
      /\ backlog' = [backlog EXCEPT ![p] = Tail(b)]
      /\ pc[p] = "listen" /\ ~Gone(p)
  BY <1>1 DEF Accept, Work
<1>5. Head(b) = a /\ Len(Tail(b)) = L - 1
      /\ \A n \in 1 .. Len(Tail(b)) : Tail(b)[n] = b[n + 1]
  BY <1>1, <1>2, <1>3
<1>6. sockets' = [sockets EXCEPT ![p][a] = a]
  BY <1>1, <1>5 DEF Accept
<1>7. /\ Accepted(p) = a /\ Accepted(p)' = a + 1
      /\ \A s \in Party \ {p} : Accepted(s)' = Accepted(s)
      /\ \A c, s \in Party : Dialled(c, s)' <=> Dialled(c, s)
      /\ \A s \in Party : ~Dialled(p, s)
  BY <1>1, AcceptMove
<1>8. ASSUME NEW s \in Party PROVE QueueOf(s)'
  <2>1. CASE s = p
    <3>1. backlog'[p] = Tail(b) /\ ~Gone(p)'
      BY <1>4 DEF TypeInv, TypeOK, Gone
    <3>2. (a + 1) + (L - 1) =< p
      BY <1>2, <1>3
    <3>3. \A c \in Party : c < p => (Dialled(c, p)' <=> c < (a + 1) + (L - 1))
      <4>1. (a + 1) + (L - 1) = a + L
        BY <1>2
      <4> QED
        BY <1>3, <1>7, <4>1
    <3>4. \A n \in 1 .. L-1 : Tail(b)[n] = (a + 1) + n - 1
      BY <1>2, <1>3, <1>5
    <3> QED
      BY <1>5, <1>7, <2>1, <3>1, <3>2, <3>3, <3>4 DEF QueueOf
  <2>2. CASE s # p
    <3>1. backlog'[s] = backlog[s]
      BY <1>4, <2>2 DEF TypeInv, TypeOK
    <3> QED
      BY <1>4, <1>7, <2>2, <3>1 DEF QueueInv, QueueOf, Gone
  <2> QED
    BY <2>1, <2>2
<1>9. ASSUME NEW s \in Party, NEW i \in Party
      PROVE  sockets'[s][i] = IF (i < s /\ i < Accepted(s)') \/ Dialled(s, i)' THEN i ELSE NoOne
  <2>1. sockets'[s][i] = IF s = p /\ i = a THEN a ELSE sockets[s][i]
    <3>1. sockets \in [Party -> [Party -> Party \cup {NoOne}]] /\ a \in Party \cup {NoOne}
      BY <1>2 DEF TypeInv, TypeOK
    <3> QED
      BY <1>2, <1>6, <3>1, Update
  <2>2. sockets[s][i] = IF (i < s /\ i < Accepted(s)) \/ Dialled(s, i) THEN i ELSE NoOne
    BY DEF QueueInv, SocketsOf
  <2>3. i \in Int
    BY PartyFacts
  <2>4. CASE s = p
    <3>1. (i < p /\ i < a + 1) <=> (i < p /\ i < a) \/ i = a
      BY <1>2, <2>3
    <3> QED
      BY <1>7, <2>1, <2>2, <2>4, <3>1
  <2> QED
    BY <1>7, <2>1, <2>2, <2>4
<1> QED
  BY <1>8, <1>9 DEF QueueInv, SocketsOf

LEMMA QueueConnect ==
  ASSUME TypeInv, AliveInv, QueueInv, NEW p \in Party, Work(p), Connect(p)
  PROVE  QueueInv'
<1>1. PICK t \in Party : t = idx[p]
  BY Numbers
<1>2. /\ t \in Int /\ p \in Int /\ p < t /\ 0 =< p
      /\ pc[p] = "connect" /\ ~Gone(p)
      /\ pc' = pc /\ alive' = alive
      /\ idx' = [idx EXCEPT ![p] = t - 1]
      /\ sockets' = [sockets EXCEPT ![p][t] = t]
      /\ backlog' = [backlog EXCEPT ![t] = Append(@, p)]
  BY <1>1, PartyFacts, LoopbackAssumption DEF Connect, Dialling, Work
<1>3. ~Gone(t)
  BY <1>1 DEF Connect, AliveInv
<1>4. PICK b, L : b = backlog[t] /\ L = Len(b)
  OBVIOUS
<1>5. b \in Seq(Party) /\ L \in Nat /\ Accepted(t) \in Int
  BY <1>2, <1>4, Numbers DEF TypeInv, TypeOK, Accepted
<1>6. /\ \A c \in Party : c < t => (Dialled(c, t) <=> c < Accepted(t) + L)
      /\ \A n \in 1 .. L : b[n] = Accepted(t) + n - 1
  BY <1>3, <1>4 DEF QueueInv, QueueOf
\* All parties below p have dialled p, and before that t.
<1>7. ASSUME NEW j \in Party, j < p PROVE Dialled(j, t)
  <2>1. Dialled(j, p)
    <3>1. Accepted(p) = p
      BY <1>2 DEF Accepted
    <3>2. Len(backlog[p]) \in Nat /\ j \in Int
      BY PartyFacts DEF TypeInv, TypeOK
    <3>3. Dialled(j, p) <=> j < p + Len(backlog[p])
      BY <1>2, <1>7, <3>1 DEF QueueInv, QueueOf
    <3> QED
      BY <1>2, <1>7, <3>2, <3>3
  <2>2. j \in Int /\ idx[j] \in Int
    BY Numbers
  <2> QED
    BY <1>2, <1>7, <2>1, <2>2 DEF Dialled
<1>8. Accepted(t) + L = p
  <2>1. ~Dialled(p, t)
    BY <1>1, <1>2 DEF Dialled
  <2>2. p >= Accepted(t) + L
    BY <1>2, <1>5, <1>6, <2>1
  <2>3. CASE p = 0
    <3>1. 0 =< Accepted(t)
      BY <1>2, Numbers DEF Accepted
    <3> QED
      BY <1>2, <1>5, <2>2, <2>3, <3>1
  <2>4. CASE p > 0
    <3>1. p - 1 \in Party
      BY <1>2, <2>4, PartyFacts
    <3>2. p - 1 < Accepted(t) + L
      BY <1>2, <1>6, <1>7, <3>1
    <3> QED
      BY <1>2, <1>5, <2>2, <3>2
  <2> QED
    BY <1>2, <2>3, <2>4
<1>9. /\ \A s \in Party : Accepted(s)' = Accepted(s)
      /\ \A c, s \in Party : Dialled(c, s)' <=> Dialled(c, s) \/ (c = p /\ s = t)
  BY <1>1, ConnectMove
<1>10. ASSUME NEW s \in Party PROVE QueueOf(s)'
  <2>1. CASE s = t
    <3>1. backlog'[t] = Append(b, p) /\ ~Gone(t)'
      BY <1>2, <1>3, <1>4 DEF TypeInv, TypeOK, Gone
    <3>2. /\ Len(Append(b, p)) = L + 1
          /\ \A n \in 1 .. L + 1 : Append(b, p)[n] = IF n = L + 1 THEN p ELSE b[n]
      BY <1>4, <1>5
    <3>3. Accepted(t)' + (L + 1) =< t
      BY <1>2, <1>5, <1>8, <1>9
    <3>4. \A c \in Party : c < t => (Dialled(c, t)' <=> c < Accepted(t)' + (L + 1))
      <4>1. \A c \in Party : c \in Int
        BY PartyFacts
      <4> QED
        BY <1>2, <1>5, <1>6, <1>8, <1>9, <4>1
    <3>5. \A n \in 1 .. L + 1 : Append(b, p)[n] = Accepted(t)' + n - 1
      BY <1>2, <1>5, <1>6, <1>8, <1>9, <3>2
    <3> QED
      BY <2>1, <3>1, <3>2, <3>3, <3>4, <3>5 DEF QueueOf
  <2>2. CASE s # t
    <3>1. backlog'[s] = backlog[s]
      BY <1>2, <2>2 DEF TypeInv, TypeOK
    <3> QED
      BY <1>2, <1>9, <2>2, <3>1 DEF QueueInv, QueueOf, Gone
  <2> QED
    BY <2>1, <2>2
<1>11. ASSUME NEW s \in Party, NEW i \in Party
      PROVE  sockets'[s][i] = IF (i < s /\ i < Accepted(s)') \/ Dialled(s, i)' THEN i ELSE NoOne
  <2>1. sockets'[s][i] = IF s = p /\ i = t THEN t ELSE sockets[s][i]
    <3>1. sockets \in [Party -> [Party -> Party \cup {NoOne}]] /\ t \in Party \cup {NoOne}
      BY DEF TypeInv, TypeOK
    <3> QED
      BY <1>2, <3>1, Update
  <2>2. sockets[s][i] = IF (i < s /\ i < Accepted(s)) \/ Dialled(s, i) THEN i ELSE NoOne
    BY DEF QueueInv, SocketsOf
  <2> QED
    BY <1>9, <2>1, <2>2
<1> QED
  BY <1>10, <1>11 DEF QueueInv, SocketsOf

LEMMA QueueStep ==
  ASSUME TypeInv, AliveInv, QueueInv, NEW p \in Party, Work(p)
  PROVE  QueueInv'
BY QueueQuiet, QueueAccept, QueueConnect

LEMMA FaultsPeersRight ==
  ASSUME TypeInv, QueueInv, NEW p \in Party
  PROVE  PeersRight(p)
<1>1. PICK i \in Party : i = idx[p]
  BY Numbers
<1>2. ASSUME ReadFirst(p) \/ SendFirst(p) \/ ReadAnswer(p) PROVE sockets[p][i] = i
  <2>1. pc[p] \notin {"listen", "connect", "sleep"}
    BY <1>2 DEF ReadFirst, SendFirst, ReadAnswer
  <2>2. idx[p] < p \/ p < idx[p]
    <3>1. pc[p] = "sent_first" => p < idx[p]
      BY DEF TypeInv, ControlOf
    <3> QED
      BY <1>2, <3>1 DEF ReadFirst, SendFirst, ReadAnswer
  <2>3. i # p
    BY <1>1, <2>2, PartyFacts
  <2> QED
    BY <2>1, <2>3, AllSockets
<1>3. ASSUME FirstShares(p), NEW j \in Party
      PROVE  sockets[p][j] = IF j = p THEN NoOne ELSE j
  <2>1. pc[p] = "ready"
    BY <1>3 DEF FirstShares
  <2> QED
    BY <2>1, AllSockets
<1> QED
  BY <1>1, <1>2, <1>3 DEF PeersRight

LEMMA AliveStep ==
  ASSUME TypeInv, AliveInv, NEW p \in Party, Work(p)
  PROVE  AliveInv'
<1>1. alive' = alive /\ ~Gone(p)
  BY DEF Work
<1>2. inflight' = inflight
  BY LoopbackAssumption DEF Work, Step, EndLoop, OpenAcceptor, Accept, Connect,
     ConnectRefused, Retry, ReadFirst, SendFirst, ReadAnswer, FirstShares
<1>3. listening' = listening \/ listening' = [listening EXCEPT ![p] = TRUE]
  BY DEF Work, Step, EndLoop, OpenAcceptor, Accept, Connect, ConnectRefused, Retry,
         ReadFirst, SendFirst, ReadAnswer, FirstShares
<1>4. \A q \in Party : Gone(q)' => ~listening'[q]
  BY <1>1, <1>3 DEF AliveInv, Gone, TypeInv, TypeOK
<1> QED
  BY <1>1, <1>2, <1>4 DEF AliveInv

-----------------------------------------------------------------------------
(***************************************************************************)
(* The theorems.                                                           *)
(***************************************************************************)
\* A process that ends leaves its accept queue to nobody, and all else alone.
LEMMA EndStep ==
  ASSUME SetupInv, NEW p \in Party, NEW how \in {"crashed", "failed"}, End(p, how)
  PROVE  SetupInv'
<1>1. /\ alive' = [alive EXCEPT ![p] = how]
      /\ listening' = [listening EXCEPT ![p] = FALSE]
      /\ backlog' = [backlog EXCEPT ![p] = <<>>]
      /\ pc' = pc /\ idx' = idx /\ inflight' = inflight
      /\ sockets' = sockets /\ keys' = keys /\ chan' = chan
  BY DEF End
<1>2. /\ TypeOK /\ alive \in [Party -> {"up", "crashed", "failed"}]
      /\ listening \in [Party -> BOOLEAN] /\ backlog \in [Party -> Seq(Party)]
  BY DEF SetupInv, TypeInv, TypeOK, AliveInv
<1>3. /\ \A q \in Party \ {p} : (Gone(q)' <=> Gone(q)) /\ backlog'[q] = backlog[q]
                             /\ listening'[q] = listening[q]
      /\ Gone(p)' /\ backlog'[p] = <<>> /\ ~listening'[p]
  BY <1>1, <1>2 DEF Gone
<1>4. TypeInv' /\ AliveInv'
  <2>1. TypeOK'
    BY <1>1, <1>2 DEF TypeOK
  <2>2. ASSUME NEW q \in Party PROVE ControlOf(q)'
    BY <1>1 DEF SetupInv, TypeInv, ControlOf
  <2>3. alive' \in [Party -> {"up", "crashed", "failed"}]
    BY <1>1, <1>2
  <2>4. inflight' = {}
    BY <1>1 DEF SetupInv, AliveInv
  <2>5. ASSUME NEW q \in Party, Gone(q)' PROVE ~listening'[q]
    BY <1>3, <2>5 DEF SetupInv, AliveInv
  <2> QED
    BY <2>1, <2>2, <2>3, <2>4, <2>5 DEF TypeInv, AliveInv
<1>5. QueueInv'
  <2>1. /\ \A s \in Party : Accepted(s)' = Accepted(s)
        /\ \A c, s \in Party : Dialled(c, s)' <=> Dialled(c, s)
    BY <1>1 DEF Accepted, Dialled
  <2>2. ASSUME NEW s \in Party PROVE QueueOf(s)'
    <3>1. CASE s = p
      BY <1>3, <3>1 DEF QueueOf
    <3>2. CASE s # p
      BY <1>3, <2>1, <3>2 DEF SetupInv, QueueInv, QueueOf
    <3> QED
      BY <3>1, <3>2
  <2>3. ASSUME NEW s \in Party PROVE SocketsOf(s)'
    BY <1>1, <2>1 DEF SetupInv, QueueInv, SocketsOf
  <2> QED
    BY <2>2, <2>3 DEF QueueInv
<1>6. LinkInv'
  BY <1>1, LinksUntouched DEF SetupInv
<1> QED
  BY <1>4, <1>5, <1>6 DEF SetupInv

LEMMA SetupStep == SetupInv /\ [FNext]_fvars => SetupInv'
<1> SUFFICES ASSUME SetupInv, FNext \/ UNCHANGED fvars PROVE SetupInv'
  OBVIOUS
<1>1. ASSUME NEW p \in Party, Work(p) PROVE SetupInv'
  <2>1. TypeInv /\ AliveInv /\ QueueInv /\ LinkInv /\ Step(p)
    BY <1>1 DEF SetupInv, Work
  <2>2. PeersRight(p)
    BY <2>1, FaultsPeersRight
  <2>3. TypeInv'
    BY <2>1, <2>2, TypesStep
  <2>4. LinkInv'
    BY <2>1, <2>2, LinksStep
  <2>5. QueueInv'
    BY <1>1, <2>1, QueueStep
  <2>6. AliveInv'
    BY <1>1, <2>1, AliveStep
  <2> QED
    BY <2>3, <2>4, <2>5, <2>6 DEF SetupInv
<1>2. ASSUME NEW p \in Party, Crash(p) \/ ReadFails(p) \/ LinkFails(p) PROVE SetupInv'
  <2>1. End(p, "crashed") \/ End(p, "failed")
    BY <1>2 DEF Crash, ReadFails, LinkFails
  <2> QED
    BY <2>1, EndStep
<1>3. CASE UNCHANGED fvars
  <2>1. /\ pc' = pc /\ idx' = idx /\ listening' = listening /\ backlog' = backlog
        /\ inflight' = inflight /\ sockets' = sockets /\ keys' = keys /\ chan' = chan
        /\ alive' = alive
    BY <1>3 DEF fvars, vars
  <2>2. TypeInv'
    BY <2>1 DEF SetupInv, TypeInv, TypeOK, ControlOf
  <2>3. AliveInv'
    BY <2>1 DEF SetupInv, AliveInv, Gone
  <2>4. QueueInv'
    BY <2>1 DEF SetupInv, QueueInv, QueueOf, SocketsOf, Accepted, Dialled, Gone
  <2>5. LinkInv'
    BY <2>1, LinksUntouched DEF SetupInv
  <2> QED
    BY <2>2, <2>3, <2>4, <2>5 DEF SetupInv
<1> QED
  BY <1>1, <1>2, <1>3 DEF FNext, FStep

LEMMA SetupInvariant == FSpec => []SetupInv
<1>1. FInit => SetupInv
  <2> SUFFICES ASSUME FInit PROVE SetupInv
    OBVIOUS
  <2>1. TypeInv /\ LinkInv /\ QueueInv
    BY TypesInit, LinkInit, QueueInit DEF FInit
  <2>2. AliveInv
    BY DEF FInit, Init, AliveInv, Gone
  <2> QED
    BY <2>1, <2>2 DEF SetupInv
<1> QED
  BY <1>1, SetupStep, PTL DEF FSpec

\* The setup keeps its types whoever dies (participant.cxx, the setup loops).
THEOREM SetupTypes == FSpec => []TypeOK
<1>1. SetupInv => TypeOK
  BY DEF SetupInv, TypeInv
<1> QED
  BY <1>1, SetupInvariant, PTL

\* accept() never hands a socket to the wrong index, for any number of parties
\* and whoever dies ("Map from party index to their socket").
THEOREM AcceptInOrder == FSpec => []SocketsLabelled
<1>1. SetupInv => SocketsLabelled
  BY DEF SetupInv, QueueInv, SocketsOf, SocketsLabelled
<1> QED
  BY <1>1, SetupInvariant, PTL

\* Both ends of a link derive their keys from the same secret, and from no other
\* link's (participant.cxx "key exchange").
THEOREM LinkKeysAgree == FSpec => []KeysAgree
<1>1. SetupInv => KeysAgree
  BY LinksAgree DEF SetupInv
<1> QED
  BY <1>1, SetupInvariant, PTL

\* Nobody is left in an accept queue that is no longer served, and no public
\* value is left for the reads of shares (participant.cxx, after the setup).
THEOREM SetupLeavesNothing == FSpec => []NothingLeftOver
<1>1. SetupInv => NothingLeftOver
  <2> SUFFICES ASSUME SetupInv, NEW p \in Party
               PROVE  /\ pc[p] # "listen" => backlog[p] = <<>>
                      /\ Ready(p) => \A q \in Party : \A n \in DOMAIN chan[q][p] :
                           chan[q][p][n] = Share(q)
    BY DEF NothingLeftOver
  <2>1. ASSUME pc[p] # "listen" PROVE backlog[p] = <<>>
    <3>1. CASE Gone(p)
      BY <3>1 DEF SetupInv, QueueInv, QueueOf
    <3>2. CASE ~Gone(p)
      <4>1. p + Len(backlog[p]) =< p
        BY <2>1, <3>2 DEF SetupInv, QueueInv, QueueOf, Accepted
      <4>2. backlog[p] \in Seq(Party) /\ p \in Int
        BY PartyFacts DEF SetupInv, TypeInv, TypeOK
      <4>3. Len(backlog[p]) = 0
        BY <4>1, <4>2
      <4> QED
        BY <4>2, <4>3, EmptySeq
    <3> QED
      BY <3>1, <3>2
  <2> QED
    BY <2>1, OnlySharesLeft DEF SetupInv
<1> QED
  BY <1>1, SetupInvariant, PTL
=============================================================================
