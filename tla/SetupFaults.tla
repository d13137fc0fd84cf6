---------------------------- MODULE SetupFaults ----------------------------
(***************************************************************************)
(* The setup of module Setup by processes that may die.  Nothing in the    *)
(* setup has a time limit: connect retries for ever, accept and            *)
(* socket_read block until something comes.  A process that ends takes its *)
(* acceptor with it, the connections queued there are reset, and whoever   *)
(* reads from it gets what it wrote and then EOF.                          *)
(*                                                                         *)
(* For the loopback network only: a connection is queued when connect()    *)
(* returns.  Sending shares to a party that has died is a matter of module *)
(* Session.                                                                *)
(***************************************************************************)
EXTENDS Setup

ASSUME LoopbackAssumption == ~AckMayLag

VARIABLE alive   \* alive[p]: "up", "crashed" by itself, or "failed": an
                 \* exception of socket_send or socket_read

fvars == <<vars, alive>>

FInit == Init /\ alive = [p \in Party |-> "up"]

Gone(p) == alive[p] # "up"

\* The process of p ends and its acceptor is closed.
End(p, how) ==
  /\ alive' = [alive EXCEPT ![p] = how]
  /\ listening' = [listening EXCEPT ![p] = FALSE]
  /\ backlog' = [backlog EXCEPT ![p] = <<>>]
  /\ UNCHANGED <<pc, idx, inflight, sockets, keys, chan>>

Work(p) == ~Gone(p) /\ Step(p) /\ UNCHANGED alive

\* p is killed, or throws: a port that is taken, a file it cannot parse.
Crash(p) == ~Gone(p) /\ End(p, "crashed")

\* The socket p reads from, or is about to write to.
Peer(p) == sockets[p][idx[p]]
AtLink(p) ==
  /\ Linked(p, idx[p])
  /\ \/ pc[p] = "read_first" /\ idx[p] < p
     \/ pc[p] = "send_first" /\ idx[p] > p
     \/ pc[p] = "sent_first"

ReadFails_Answer(p) ==
  /\ ~Gone(p) /\ pc[p] = "sent_first"
  /\ Gone(Peer(p)) /\ chan[Peer(p)][p] = <<>>
  /\ End(p, "failed")
\* "Received EOF."
ReadFails(p) ==
  /\ ~Gone(p) /\ AtLink(p) /\ pc[p] # "send_first"
  /\ Gone(Peer(p)) /\ chan[Peer(p)][p] = <<>>
  /\ End(p, "failed")

\* A write to a process that has ended, or a reset before the read.
LinkFails(p) ==
  /\ ~Gone(p) /\ AtLink(p)
  /\ Gone(Peer(p)) /\ (pc[p] = "send_first" \/ chan[p][Peer(p)] # <<>>)
  /\ End(p, "failed")

FStep(p) == Work(p) \/ ReadFails(p) \/ LinkFails(p)

FNext ==
  \/ \E p \in Party : FStep(p) \/ Crash(p)
  \/ (\A p \in Party : Gone(p) \/ Ready(p)) /\ UNCHANGED fvars

FSpec == FInit /\ [][FNext]_fvars /\ \A p \in Party : WF_fvars(FStep(p))

-----------------------------------------------------------------------------
(***************************************************************************)
(* Properties.                                                             *)
(***************************************************************************)
\* Nobody fails, and nobody waits for ever, unless somebody crashed.
OnlyCrashesHurt ==
  <>(\E p \in Party : alive[p] = "crashed")
    \/ <>[](\A p \in Party : Ready(p) /\ ~Gone(p))

\* A party may wait for ever in accept, or dial for ever, because another died.
\* But once the parties that still run have all their sockets, each of them
\* gets through the key exchange or ends by an exception.
Connected == \A p \in Party :
  Gone(p) \/ Ready(p) \/ pc[p] \in {"read_first", "send_first", "sent_first"}
LinkedEnds == Connected ~> \A p \in Party : Gone(p) \/ Ready(p)
=============================================================================
