------------------------------- MODULE Setup -------------------------------
(***************************************************************************)
(* How the participants get connected (src/src/cmd/participant.cxx,        *)
(* "establish sockets" and "key exchange", with NetworkDriverImpl::listen  *)
(* and connect): party p accepts p connections, then dials the parties     *)
(* above it from the highest down, retrying every 3 seconds while a peer   *)
(* does not listen yet; then it exchanges a Diffie-Hellman key over each   *)
(* socket, reading first towards lower and sending first towards higher    *)
(* parties.  Nobody waits for the others then: the owner of the first      *)
(* input wire sends its shares while others still exchange keys.           *)
(*                                                                         *)
(* accept() does not say who called: the i-th accepted socket is stored as *)
(* the socket of party i, so the order of the accept queues matters.  A    *)
(* connect() returns when the SYN-ACK arrives; the server's kernel queues  *)
(* the connection when the final ACK arrives.  If AckMayLag is FALSE both  *)
(* happen at once (loopback, the addresses of the repository's tests); if  *)
(* it is TRUE the final ACK may be delayed or resent.                      *)
(***************************************************************************)
EXTENDS Integers, Sequences, FiniteSets

CONSTANTS
  N,          \* num_parties
  AckMayLag,  \* can a connection be queued after the client's connect returned
  NoOne       \* no socket in this place of the map

Party == 0 .. N-1

ASSUME SetupAssumption ==
  /\ N \in Nat \ {0}
  /\ AckMayLag \in BOOLEAN
  /\ NoOne \notin Party

VARIABLES
  pc,         \* the loop of main a participant is in, see NextLoop
  idx,        \* that loop's variable i
  listening,  \* the static acceptor of listen() is bound
  backlog,    \* backlog[s]: clients in the accept queue of s
  inflight,   \* <<c, s>>: c's connect returned, s has not queued c yet
  sockets,    \* sockets[p][i]: who is at the other end of sockets[i]
  keys,       \* keys[p][i]: the secret peer_links[i] derived its keys from
  chan        \* chan[p][q]: public values and shares sent by p, not yet
              \* read by q

vars == <<pc, idx, listening, backlog, inflight, sockets, keys, chan>>

(***************************************************************************)
(* The four loops of main, in order.  "listen" and "read_first" count from *)
(* 0 up to my_party - 1, "connect" and "send_first" from num_parties - 1   *)
(* down to my_party + 1, so each of them ends when idx is my_party.        *)
(***************************************************************************)
Loops_ConnectFirst ==
  <<"connect", "listen", "read_first", "send_first", "ready">>
Loops_SendFirst ==
  <<"listen", "connect", "send_first", "read_first", "ready">>
Loops == <<"listen", "connect", "read_first", "send_first", "ready">>

NextLoop(l) == Loops[1 + CHOOSE n \in 1..4 : Loops[n] = l]

LoopStart_OffByOne(l) == IF l \in {"connect", "send_first"} THEN N ELSE 0
LoopStart(l) == IF l \in {"connect", "send_first"} THEN N-1 ELSE 0

Init ==
  /\ pc = [p \in Party |-> Loops[1]]
  /\ idx = [p \in Party |-> LoopStart(Loops[1])]
  /\ listening = [p \in Party |-> FALSE]
  /\ backlog = [p \in Party |-> <<>>]
  /\ inflight = {}
  /\ sockets = [p \in Party |-> [i \in Party |-> NoOne]]
  /\ keys = [p \in Party |-> [i \in Party |-> {}]]
  /\ chan = [p \in Party |-> [q \in Party |-> <<>>]]

LoopOver_Early(p) == idx[p] = p \/ (pc[p] = "listen" /\ idx[p] = p - 1)
LoopOver(p) == idx[p] = p

EndLoop(p) ==
  /\ pc[p] \in {Loops[n] : n \in 1..4} /\ LoopOver(p)
  /\ pc' = [pc EXCEPT ![p] = NextLoop(@)]
  /\ idx' = [idx EXCEPT ![p] = LoopStart(NextLoop(pc[p]))]
  /\ UNCHANGED <<listening, backlog, inflight, sockets, keys, chan>>

-----------------------------------------------------------------------------
\* NetworkDriverImpl::listen, first call: the acceptor is bound to my_port.
OpenAcceptor(p) ==
  /\ pc[p] = "listen" /\ idx[p] < p /\ ~listening[p]
  /\ listening' = [listening EXCEPT ![p] = TRUE]
  /\ UNCHANGED <<pc, idx, backlog, inflight, sockets, keys, chan>>

\* The socket accepted in turn i becomes sockets[i].
Accept(p) ==
  /\ pc[p] = "listen" /\ idx[p] < p /\ listening[p] /\ backlog[p] # <<>>
  /\ sockets' = [sockets EXCEPT ![p][idx[p]] = Head(backlog[p])]
  /\ backlog' = [backlog EXCEPT ![p] = Tail(@)]
  /\ idx' = [idx EXCEPT ![p] = @ + 1]
  /\ UNCHANGED <<pc, listening, inflight, keys, chan>>

Dialling(p) == pc[p] = "connect" /\ idx[p] > p

\* NetworkDriverImpl::connect succeeds.
Connect(p) ==
  LET i == idx[p] IN
  /\ Dialling(p) /\ listening[i]
  /\ sockets' = [sockets EXCEPT ![p][i] = i]
  /\ idx' = [idx EXCEPT ![p] = i - 1]
  /\ \/ /\ AckMayLag
        /\ inflight' = inflight \cup {<<p, i>>}
        /\ UNCHANGED backlog
     \/ /\ backlog' = [backlog EXCEPT ![i] = Append(@, p)]
        /\ UNCHANGED inflight
  /\ UNCHANGED <<pc, listening, keys, chan>>

\* It is refused: the exception is caught and the loop sleeps for 3 seconds.
ConnectRefused(p) ==
  /\ Dialling(p) /\ ~listening[idx[p]]
  /\ pc' = [pc EXCEPT ![p] = "sleep"]
  /\ UNCHANGED <<idx, listening, backlog, inflight, sockets, keys, chan>>

Retry_NextPeer(p) ==
  /\ pc[p] = "sleep"
  /\ pc' = [pc EXCEPT ![p] = "connect"]
  /\ idx' = [idx EXCEPT ![p] = @ - 1]
  /\ UNCHANGED <<listening, backlog, inflight, sockets, keys, chan>>
Retry(p) ==
  /\ pc[p] = "sleep"
  /\ pc' = [pc EXCEPT ![p] = "connect"]
  /\ UNCHANGED <<idx, listening, backlog, inflight, sockets, keys, chan>>

\* The final ACK of c's handshake reaches s.
Established(c, s) ==
  /\ <<c, s>> \in inflight
  /\ inflight' = inflight \ {<<c, s>>}
  /\ backlog' = [backlog EXCEPT ![s] = Append(@, c)]
  /\ UNCHANGED <<pc, idx, listening, sockets, keys, chan>>

-----------------------------------------------------------------------------
(***************************************************************************)
(* Key exchange.  The private value a party draws for peer_links[i] is     *)
(* known by the pair <<party, i>>; the secret two parties agree on is the  *)
(* set of the two values it depends on.  AES_key and HMAC_key are derived  *)
(* from it with different salts.                                           *)
(***************************************************************************)
PublicValue(p, i) == <<p, i>>
SharedSecret_OneSided(mine, theirs) == {theirs}
SharedSecret(mine, theirs) == {mine, theirs}

\* peer_links.at(i) throws if there is no link to party i.
Linked(p, i) == sockets[p][i] # NoOne

\* ReadFirstHandleKeyExchange on peer_links[i]: read, answer, derive the keys.
ReadFirst(p) ==
  LET i == idx[p]
      r == sockets[p][i] IN
  /\ pc[p] = "read_first" /\ i < p /\ Linked(p, i) /\ chan[r][p] # <<>>
  /\ keys' = [keys EXCEPT ![p][i] =
                SharedSecret(PublicValue(p, i), Head(chan[r][p]))]
  /\ chan' = [chan EXCEPT ![r][p] = Tail(@),
                          ![p][r] = Append(@, PublicValue(p, i))]
  /\ idx' = [idx EXCEPT ![p] = i + 1]
  /\ UNCHANGED <<pc, listening, backlog, inflight, sockets>>

\* SendFirstHandleKeyExchange on peer_links[i], up to the read.
SendFirst(p) ==
  LET i == idx[p]
      r == sockets[p][i] IN
  /\ pc[p] = "send_first" /\ i > p /\ Linked(p, i)
  /\ chan' = [chan EXCEPT ![p][r] = Append(@, PublicValue(p, i))]
  /\ pc' = [pc EXCEPT ![p] = "sent_first"]
  /\ UNCHANGED <<idx, listening, backlog, inflight, sockets, keys>>

\* ... and the rest of it.
ReadAnswer(p) ==
  LET i == idx[p]
      r == sockets[p][i] IN
  /\ pc[p] = "sent_first" /\ chan[r][p] # <<>>
  /\ keys' = [keys EXCEPT ![p][i] =
                SharedSecret(PublicValue(p, i), Head(chan[r][p]))]
  /\ chan' = [chan EXCEPT ![r][p] = Tail(@)]
  /\ pc' = [pc EXCEPT ![p] = "send_first"]
  /\ idx' = [idx EXCEPT ![p] = i - 1]
  /\ UNCHANGED <<listening, backlog, inflight, sockets>>

-----------------------------------------------------------------------------
\* A share of p's: no public value has this form.
Share(p) == <<p, p>>

\* p, through with its setup, owns the first input wire and sends the shares of
\* it to all others.  (One owner in all: whoever gets here first.  All others
\* read before they send, see module GMW.)
FirstShares(p) ==
  /\ pc[p] = "ready" /\ \A q \in Party : pc[q] # "sharing"
  /\ pc' = [pc EXCEPT ![p] = "sharing"]
  /\ chan' = [chan EXCEPT ![p] = [r \in Party |->
       IF \E i \in Party : sockets[p][i] = r THEN Append(@[r], Share(p)) ELSE @[r]]]
  /\ UNCHANGED <<idx, listening, backlog, inflight, sockets, keys>>

-----------------------------------------------------------------------------
Step(p) ==
  \/ EndLoop(p) \/ OpenAcceptor(p) \/ Accept(p)
  \/ Connect(p) \/ ConnectRefused(p) \/ Retry(p)
  \/ ReadFirst(p) \/ SendFirst(p) \/ ReadAnswer(p)
  \/ FirstShares(p)

Ready(p) == pc[p] \in {"ready", "sharing"}

\* Setup is over; main goes on with the secret shares (module GMW).
Continue == (\A p \in Party : Ready(p)) /\ UNCHANGED vars

Next ==
  \/ \E p \in Party : Step(p)
  \/ \E c, s \in Party : Established(c, s)
  \/ Continue

Spec == Init /\ [][Next]_vars

-----------------------------------------------------------------------------
TypeOK ==
  /\ pc \in [Party -> {"listen", "connect", "sleep", "read_first",
                       "send_first", "sent_first", "ready", "sharing"}]
  /\ idx \in [Party -> 0 .. N-1]
  /\ listening \in [Party -> BOOLEAN]
  /\ backlog \in [Party -> Seq(Party)]
  /\ inflight \in SUBSET (Party \X Party)
  /\ sockets \in [Party -> [Party -> Party \cup {NoOne}]]
  /\ keys \in [Party -> [Party -> SUBSET (Party \X Party)]]
  /\ chan \in [Party -> [Party -> Seq(Party \X Party)]]

\* "Map from party index to their socket" (participant.cxx:56): although
\* accept() returns sockets in arrival order, sockets[i] leads to party i, also
\* when parties die: a party dials nobody before it has accepted all those below.
SocketsLabelled ==
  \A p, i \in Party : sockets[p][i] \in {NoOne, i}

\* However sockets are labelled, a participant that gets through the key
\* exchange has every socket under the right index: a mislabelled socket can
\* make participants wait for ever, but never sends a share to the wrong party.
ReadyMeansLabelled ==
  \A p \in Party : Ready(p) =>
    \A i \in Party \ {p} : sockets[p][i] = i

\* The two ends of a link hold the same secret, and no secret serves two links;
\* in particular a share that overtakes the end of the setup is not taken for a
\* public value.
KeysAgree ==
  \A p, q \in Party :
    /\ keys[p][q] # {} /\ keys[q][p] # {} => keys[p][q] = keys[q][p]
    /\ \A r, s \in Party :
         keys[p][q] # {} /\ keys[p][q] = keys[r][s] => {p, q} = {r, s}

\* A party that has stopped accepting has nobody left in its accept queue, and
\* one that goes on to the shares has no public value left to read, which it
\* would take for a share (participant.cxx, number of listens and connects).
NothingLeftOver ==
  \A p \in Party :
    /\ pc[p] # "listen" => backlog[p] = <<>>
    /\ Ready(p) => \A q \in Party : \A n \in DOMAIN chan[q][p] :
         chan[q][p][n] = Share(q)
=============================================================================
