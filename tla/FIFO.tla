-------------------------------- MODULE FIFO --------------------------------
(***************************************************************************)
(* What the modules above the network take one direction of a connection   *)
(* to be: messages arrive whole, once and in order.  A message that was    *)
(* not sent in full when its sender ended is not sent at all.              *)
(***************************************************************************)
EXTENDS Sequences, Naturals

CONSTANT Data

VARIABLES sent, received

Init == sent = <<>> /\ received = <<>>

Send(m) == sent' = Append(sent, m) /\ UNCHANGED received

Receive ==
  /\ Len(received) < Len(sent)
  /\ received' = Append(received, sent[Len(received) + 1])
  /\ UNCHANGED sent

Next == (\E m \in Data : Send(m)) \/ Receive

Spec == Init /\ [][Next]_<<sent, received>>
=============================================================================
