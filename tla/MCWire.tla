------------------------------- MODULE MCWire -------------------------------
(***************************************************************************)
(* Instances for TLC of the modules below the protocol: Frames, Blocking,  *)
(* Messages and KeyBlocks.  They share no variable and a state of one says *)
(* nothing about another, so TLC looks at one of them at a time, the layer *)
(* chosen at the start, while the others stay in one of their own initial  *)
(* states.                                                                 *)
(***************************************************************************)
EXTENDS Frames, Blocking, Messages, KeyBlocks

VARIABLE layer   \* the module that takes steps

wireVars == <<layer, framesVars, blockingVars, messagesVars, keyBlocksVars>>

\* No data, less than the kernels buffer, more than that, and (4 > 2^3/2 - 1)
\* a length that is negative as an int.
Samples   == {<<>>, <<1>>, <<0, 1, 1>>, <<1, 0, 0, 1>>}
FrameRuns == {<<x, y, z>> : x, y, z \in Samples} \cup {<<>>}

FiveLines  == <<2, 0, 3, 0, 1>>
ThreeTexts == {<<>>, <<0>>, <<11, 1, 0>>}

FirstMessage == [type |-> "DHPublicValue", fields |-> <<<<>>>>]

\* The initial states, with one initial state for a layer that does not step.
WireInit ==
  /\ layer \in {"frames", "blocking", "messages", "keys"}
  /\ layer # "frames" => toSend = <<>>
  /\ layer # "blocking" => gossip = MaxGossip
  /\ layer # "messages" => message = FirstMessage /\ expected = "DHPublicValue"
  /\ layer # "keys" => a = 1 /\ b = 1 /\ choice = 0
  /\ FramesInit /\ BlockingInit /\ MessagesInit /\ KeyBlocksInit

InFrames(A) ==
  layer = "frames" /\ A /\ UNCHANGED <<layer, blockingVars, messagesVars, keyBlocksVars>>
InBlocking(A) ==
  layer = "blocking" /\ A /\ UNCHANGED <<layer, framesVars, messagesVars, keyBlocksVars>>

FramesStep   == InFrames(FramesNext)
BlockingStep == InBlocking(BlockingNext)
MessagesStep ==
  /\ layer = "messages" /\ MessagesNext
  /\ UNCHANGED <<layer, framesVars, blockingVars, keyBlocksVars>>
KeyBlocksStep ==
  /\ layer = "keys" /\ KeyBlocksNext
  /\ UNCHANGED <<layer, framesVars, blockingVars, messagesVars>>

\* The fairness of Frames and Blocking; the other two state none.
WireFairness ==
  /\ WF_wireVars(InFrames(Sender)) /\ WF_wireVars(InFrames(Reader))
  /\ \A p \in Party : WF_wireVars(InBlocking(Step(p)))

WireSpec ==
  /\ WireInit
  /\ [][FramesStep \/ BlockingStep \/ MessagesStep \/ KeyBlocksStep]_wireVars
  /\ WireFairness
=============================================================================
