------------------------------- MODULE Session -------------------------------
(***************************************************************************)
(* The evaluation of module GMW by processes that end.  A participant ends *)
(* when main returns, when an exception nobody catches terminates it, or   *)
(* when it is killed; the kernel then closes its sockets, and its peers    *)
(* find out at their next read from it (EOF), or at a reset.               *)
(*                                                                         *)
(* The variables of GMW change as in GMW.  What TCP makes of a dead peer   *)
(* is a matter of status and of chan:                                      *)
(*   - what a party wrote before it ended can still be read, then comes    *)
(*     EOF;                                                                *)
(*   - if the party left data unread, or is written to after it ended, the *)
(*     connection is reset: from then on reads and writes on it may fail,  *)
(*     and data still under way may be lost.                               *)
(***************************************************************************)
EXTENDS GMW

CONSTANT Mortal   \* the participants that may be killed or throw by themselves

ASSUME MortalAssumption == Mortal \subseteq Party

VARIABLES
  status,   \* status[p]: "up", "exited", "crashed" (by itself), "failed"
            \* (because a read or a write on a socket failed)
  unsent    \* unsent[p]: the peers to which p, dead in a loop of sends, did
            \* not write the last message chan holds for them

svars == <<vars, status, unsent>>

SInit == Init /\ status = [p \in Party |-> "up"] /\ unsent = [p \in Party |-> {}]

Up(p)   == status[p] = "up"
Gone(p) == status[p] \in {"exited", "crashed", "failed"}

\* The process of p ends; its sockets are closed.
End(p, how) == status' = [status EXCEPT ![p] = how]

-----------------------------------------------------------------------------
(***************************************************************************)
(* The sockets.                                                            *)
(***************************************************************************)
\* p and q are connected, q is gone and has not read all that p wrote.
Reset(p, q) == Gone(q) /\ chan[p][q] # <<>>

Unread_Partial(p, q) == Len(chan[q][p])
\* Messages q has written to p, in full, and p has not read.
Unread(p, q) == Len(chan[q][p]) - (IF p \in unsent[q] THEN 1 ELSE 0)

EndOfStream_Crash(p, q) == status[q] = "crashed" /\ Unread(p, q) = 0
\* Nothing more can be read from q.
EndOfStream(p, q) == Gone(q) /\ Unread(p, q) = 0

\* The control state of p makes it read from q, or write to q, next.
ReadsFrom(p, q) == \E slot \in 0 .. GossipSlot : Reading(p, q, slot)
WritesTo(p, q) ==
  /\ q # p /\ pc[p] = "run"
  /\ \/ Sharing(p) /\ Owner[wire[p]] = p
     \/ AtAnd(p) /\ peer[p] = q /\ p < q
     \/ wire[p] = NumInput /\ gate[p] = NumGate

-----------------------------------------------------------------------------
(***************************************************************************)
(* Actions.                                                                *)
(***************************************************************************)
\* A step of the evaluation; a read gets something only if it was written.
Work(p) ==
  /\ Up(p) /\ Step(p)
  /\ \A q \in Party : ReadsFrom(p, q) => ~EndOfStream(p, q)
  /\ UNCHANGED <<status, unsent>>

\* main returns.
Exit(p) ==
  /\ Up(p) /\ pc[p] = "done"
  /\ End(p, "exited")
  /\ UNCHANGED <<vars, unsent>>

\* p is killed, or throws by itself (OT_send and OT_recv do for a public value
\* that Agree refuses): anywhere between two steps ...
Crash(p) ==
  /\ Up(p) /\ p \in Mortal
  /\ End(p, "crashed")
  /\ UNCHANGED <<vars, unsent>>

\* The loop of sends p is in, broken off before it reaches party i.
CutShort(p, i, how) ==
  /\ DealShares(p) \/ GossipSend(p)
  /\ unsent' = [unsent EXCEPT ![p] = {q \in Party : q >= i /\ q # p}]
  /\ End(p, how)

\* ... or in the middle of a loop of sends.
CrashSending(p) ==
  /\ Up(p) /\ p \in Mortal
  /\ \E i \in Party : CutShort(p, i, "crashed")

\* socket_read throws "Received EOF.", also when the error is a reset.
ReadFails(p) ==
  /\ Up(p)
  /\ \E q \in Party : ReadsFrom(p, q) /\ (EndOfStream(p, q) \/ Reset(p, q))
  /\ End(p, "failed")
  /\ UNCHANGED <<vars, unsent>>

\* boost::asio::write in socket_send throws.
WriteFails(p) ==
  /\ Up(p)
  /\ \E q \in Party :
       /\ WritesTo(p, q) /\ Reset(p, q)
       /\ \/ AtAnd(p) /\ End(p, "failed") /\ UNCHANGED <<vars, unsent>>
          \/ CutShort(p, q, "failed")

SStep(p) == Work(p) \/ Exit(p) \/ ReadFails(p) \/ WriteFails(p)
SDie(p)  == Crash(p) \/ CrashSending(p)

AllGone == \A p \in Party : Gone(p)

SNext ==
  \/ \E p \in Party : SStep(p) \/ SDie(p)
  \/ AllGone /\ UNCHANGED svars

SSpec == SInit /\ [][SNext]_svars

\* Processes are scheduled; no process has to die.
SFairSpec == SSpec /\ \A p \in Party : WF_svars(SStep(p))

-----------------------------------------------------------------------------
(***************************************************************************)
(* Properties.                                                             *)
(***************************************************************************)
STypeOK ==
  /\ TypeOK
  /\ status \in [Party -> {"up", "exited", "crashed", "failed"}]
  /\ unsent \in [Party -> SUBSET Party]

\* Nobody fails unless somebody crashed: that the others return from main and
\* close their sockets, at their own time, harms no one (participant.cxx, from
\* the gossip to the end of main; peer_link.cxx, GossipReceive).
FailureHasCause ==
  (\E p \in Party : status[p] = "failed") => \E p \in Party : status[p] = "crashed"

\* Nobody has printed a result unless each of the others has written its
\* output share to it, whoever died when (participant.cxx, gathering).
ResultNeedsAll ==
  \A p, q \in Party : output[p] # NoOutput /\ q # p =>
    pc[q] \in {"gather", "done"} /\ p \notin unsent[q]

\* Whatever happens to the others, no process waits for ever: it exits, or it
\* ends by an exception (network_driver.cxx, socket_read).
EveryoneStops == \A p \in Party : <>Gone(p)

\* A result that is printed is the right one, whoever dies.
ResultsRight == Ideal!Spec
=============================================================================
