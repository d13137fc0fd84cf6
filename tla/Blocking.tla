------------------------------ MODULE Blocking ------------------------------
(***************************************************************************)
(* A session over sockets whose buffers are finite.  Module GMW lets a     *)
(* party send whatever it likes; here socket_send blocks until the kernels *)
(* have taken the whole message, BufferSize bytes at most ahead of the     *)
(* reader.  What is sent does not matter, only how much and in which       *)
(* order, so a party is the list of the sends and reads main makes after   *)
(* the setup.                                                              *)
(***************************************************************************)
EXTENDS Naturals, Sequences, SequencesExt

CONSTANTS
  N,          \* num_parties
  Owner,      \* the owners of the input lines, in order
  NumAnd,     \* how many AND gates the circuit has
  BufferSize, \* bytes the kernels hold of one direction of a connection
  ShareSize, PublicSize, ValuesSize,   \* lengths of the frames, in bytes
  MaxGossip   \* bound on the length of the frame that holds the output

Party == 0 .. N-1

ASSUME BlockingAssumption ==
  /\ N \in Nat \ {0} /\ NumAnd \in Nat
  /\ Owner \in Seq(Party)
  /\ {BufferSize, ShareSize, PublicSize, ValuesSize, MaxGossip} \subseteq Nat \ {0}

VARIABLES
  gossip,   \* the length of the gossip frame, which the circuit determines
  todo,     \* todo[p]: the sends and reads p has still to make
  moved,    \* moved[p]: bytes of the first of them already written or read
  pipe      \* pipe[p][q]: bytes p has written to q and q has not read

blockingVars == <<gossip, todo, moved, pipe>>

-----------------------------------------------------------------------------
(***************************************************************************)
(* What main does.                                                         *)
(***************************************************************************)
Put(q, size) == [op |-> "put", peer |-> q, size |-> size]
Get(q, size) == [op |-> "get", peer |-> q, size |-> size]

Others(p) == [i \in 1 .. N-1 |-> IF i <= p THEN i - 1 ELSE i]
ForEach(s, F(_)) == FlattenSeq([i \in DOMAIN s |-> F(s[i])])

\* The initial wire sharing, one line of the input file.
ShareLine(p, owner) ==
  IF owner = p
  THEN ForEach(Others(p), LAMBDA q : <<Put(q, ShareSize)>>)
  ELSE <<Get(owner, ShareSize)>>

OTSend_EagerValues(q) == <<Put(q, PublicSize), Put(q, ValuesSize), Get(q, PublicSize)>>
OTSend(q) == <<Put(q, PublicSize), Get(q, PublicSize), Put(q, ValuesSize)>>
OTRecv(q) == <<Get(q, PublicSize), Put(q, PublicSize), Get(q, ValuesSize)>>

\* An AND gate: one transfer with each of the others.
AndGate(p) == ForEach(Others(p), LAMBDA q : IF p < q THEN OTSend(q) ELSE OTRecv(q))

Gather_ReadFirst(p, size) ==
  ForEach(Others(p), LAMBDA q : <<Get(q, size)>>) \o
  ForEach(Others(p), LAMBDA q : <<Put(q, size)>>)
\* The output gathering: all sends, then all reads.
Gather(p, size) ==
  ForEach(Others(p), LAMBDA q : <<Put(q, size)>>) \o
  ForEach(Others(p), LAMBDA q : <<Get(q, size)>>)

Program(p, size) ==
  ForEach(Owner, LAMBDA owner : ShareLine(p, owner)) \o
  ForEach([g \in 1 .. NumAnd |-> p], AndGate) \o
  Gather(p, size)

-----------------------------------------------------------------------------
BlockingInit ==
  /\ gossip \in 1 .. MaxGossip
  /\ todo = [p \in Party |-> Program(p, gossip)]
  /\ moved = [p \in Party |-> 0]
  /\ pipe = [p \in Party |-> [q \in Party |-> 0]]

At(p, op, q) == todo[p] # <<>> /\ Head(todo[p]).op = op /\ Head(todo[p]).peer = q

\* One more byte of p's present call is moved; the call returns after the last.
Progress(p) ==
  IF moved[p] + 1 = Head(todo[p]).size
  THEN todo' = [todo EXCEPT ![p] = Tail(@)] /\ moved' = [moved EXCEPT ![p] = 0]
  ELSE moved' = [moved EXCEPT ![p] = @ + 1] /\ UNCHANGED todo

CanWrite(p, q) == At(p, "put", q) /\ pipe[p][q] < BufferSize
CanRead(p, q)  == At(p, "get", q) /\ pipe[q][p] > 0

\* boost::asio::write in socket_send.
Write(p, q) ==
  /\ CanWrite(p, q)
  /\ pipe' = [pipe EXCEPT ![p][q] = @ + 1]
  /\ Progress(p) /\ UNCHANGED gossip

\* boost::asio::read in socket_read.
Read(p, q) ==
  /\ CanRead(p, q)
  /\ pipe' = [pipe EXCEPT ![q][p] = @ - 1]
  /\ Progress(p) /\ UNCHANGED gossip

Step(p) == \E q \in Party : Write(p, q) \/ Read(p, q)

BlockingNext == \E p \in Party : Step(p)

BlockingSpec == BlockingInit /\ [][BlockingNext]_blockingVars /\ \A p \in Party : WF_blockingVars(Step(p))

-----------------------------------------------------------------------------
(***************************************************************************)
(* Properties.                                                             *)
(***************************************************************************)
AllDone == \A p \in Party : todo[p] = <<>>
Stuck == ~AllDone /\ \A p, q \in Party : ~CanWrite(p, q) /\ ~CanRead(p, q)
SendsOutput(p) == \E q \in Party : At(p, "put", q) /\ Len(todo[p]) \in N .. 2*(N-1)

\* The only place where everybody can wait for everybody, however long the
\* other messages are, is the loop of GossipSend (participant.cxx), and only
\* when the output does not fit the socket buffers; then all parties are in it.
SticksOnlyInGossip == Stuck => gossip > BufferSize /\ \A p \in Party : SendsOutput(p)

\* A run whose output fits ends, although single shares, public values or
\* option lists may be longer than the buffers.
ShortOutputEnds == gossip <= BufferSize => <>AllDone

\* "The Goldreich-Micali-Wigderson (GMW) protocol is a protocol allows for secure
\* multi-party computation (MPC) on any arbitrary boolean circuit." (README.md:3):
\* a run ends however long the output of the circuit is.
EveryRunEnds == <>AllDone
=============================================================================
