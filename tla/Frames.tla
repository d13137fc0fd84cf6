------------------------------- MODULE Frames -------------------------------
(***************************************************************************)
(* One direction of a TCP connection, byte by byte: calls of socket_send   *)
(* on one side and of socket_read on the other (network_driver.cxx), and   *)
(* between them a stream that holds at most Capacity bytes, takes as many  *)
(* bytes at a time as it likes and hands out as many as it likes.          *)
(***************************************************************************)
EXTENDS Integers, Sequences

CONSTANTS
  FrameBase,  \* how many values a byte has
  IntSize,    \* sizeof(int): the bytes of a frame's length
  Capacity,   \* bytes the two kernels buffer for this direction
  Streams     \* the sequences of calls of socket_send to look at

FrameByte == 0 .. FrameBase-1

\* FrameBase to the power k, by which the k-th byte of a word from below counts.
BytePower[k \in 0 .. IntSize] == IF k = 0 THEN 1 ELSE BytePower[k-1] * FrameBase

MaxInt == BytePower[IntSize] \div 2 - 1

ASSUME SizesAssumption ==
  /\ FrameBase \in Nat /\ FrameBase % 2 = 0 /\ FrameBase > 0
  /\ IntSize \in Nat \ {0} /\ Capacity \in Nat \ {0}

\* Frames are shorter than 2^32 bytes: their length fits a word, if not an int.
ASSUME StreamsAssumption ==
  \A s \in Streams :
    /\ s \in Seq(Seq(FrameByte))
    /\ \A i \in 1 .. Len(s) : Len(s[i]) < BytePower[IntSize]

VARIABLES
  toSend,    \* the calls of socket_send to come
  out,       \* bytes of the present call not yet taken by the stream
  open,      \* the sender has not closed its end
  stream,    \* bytes written and not yet read
  phase,     \* the reader reads a "length" or "data", or has thrown
  want,      \* transfer_exactly: the bytes its present read needs
  got,       \* those it has
  sent,      \* the frames whose socket_send has returned
  received   \* what the calls of socket_read have returned

framesVars == <<toSend, out, open, stream, phase, want, got, sent, received>>

FramesInit ==
  /\ toSend \in Streams /\ out = <<>> /\ open = TRUE
  /\ stream = <<>>
  /\ phase = "length" /\ want = IntSize /\ got = <<>>
  /\ sent = <<>> /\ received = <<>>

\* htonl: the most significant byte comes first in memory ...
Htonl(n) == [i \in 1 .. IntSize |-> (n \div BytePower[IntSize - i]) % FrameBase]

\* ... and the first byte counts most again, the sum of the first i in word[i] ...
WordOf_HostOrder(b) ==
  LET word[i \in 0 .. IntSize] == IF i = 0 THEN 0 ELSE word[i-1] + b[i] * BytePower[i-1]
  IN  word
WordOf(b) ==
  LET word[i \in 0 .. IntSize] == IF i = 0 THEN 0 ELSE word[i-1] * FrameBase + b[i]
  IN  word

\* ... when ntohl's result is put into an int.
Ntohl(b) ==
  LET n == WordOf(b)[IntSize] IN IF n > MaxInt THEN n - BytePower[IntSize] ELSE n

-----------------------------------------------------------------------------
(***************************************************************************)
(* The sender.                                                             *)
(***************************************************************************)
\* socket_send is called: the length, then the data.
SocketSend ==
  /\ open /\ out = <<>> /\ toSend # <<>>
  /\ out' = Htonl(Len(Head(toSend))) \o Head(toSend)
  /\ UNCHANGED <<toSend, open, stream, phase, want, got, sent, received>>

\* boost::asio::write hands over some more bytes, and returns after the last.
WriteSome(k) ==
  /\ open /\ k \in 1 .. Len(out) /\ Len(stream) + k <= Capacity
  /\ stream' = stream \o SubSeq(out, 1, k)
  /\ out' = SubSeq(out, k + 1, Len(out))
  /\ IF k = Len(out)
     THEN sent' = Append(sent, Head(toSend)) /\ toSend' = Tail(toSend)
     ELSE UNCHANGED <<toSend, sent>>
  /\ UNCHANGED <<open, phase, want, got, received>>

\* The sender ends, after its last call or at any point before.
Close ==
  /\ open /\ open' = FALSE
  /\ UNCHANGED <<toSend, out, stream, phase, want, got, sent, received>>

-----------------------------------------------------------------------------
(***************************************************************************)
(* The reader.                                                             *)
(***************************************************************************)
Reading == phase \in {"length", "data"}

\* boost::asio::read takes some of the bytes it still needs.
ReadSome(k) ==
  /\ Reading /\ k \in 1 .. Len(stream) /\ Len(got) + k <= want
  /\ got' = got \o SubSeq(stream, 1, k)
  /\ stream' = SubSeq(stream, k + 1, Len(stream))
  /\ UNCHANGED <<toSend, out, open, phase, want, sent, received>>

\* The length is there; a negative one makes data.resize throw.
GotLength ==
  /\ phase = "length" /\ Len(got) = want
  /\ LET length == Ntohl(got) IN
       IF length < 0 THEN phase' = "threw" /\ UNCHANGED want
                     ELSE phase' = "data" /\ want' = length
  /\ got' = <<>>
  /\ UNCHANGED <<toSend, out, open, stream, sent, received>>

\* The data is there: socket_read returns, and is called again.
GotData ==
  /\ phase = "data" /\ Len(got) = want
  /\ received' = Append(received, got)
  /\ phase' = "length" /\ want' = IntSize /\ got' = <<>>
  /\ UNCHANGED <<toSend, out, open, stream, sent>>

EndOfFile_LengthOnly ==
  /\ ~open /\ stream = <<>> /\ Len(got) < want
  /\ IF phase = "length"
     THEN phase' = "threw" /\ UNCHANGED <<want, got, received>>
     ELSE /\ phase = "data"
          /\ received' = Append(received, got \o [i \in 1 .. want - Len(got) |-> 0])
          /\ phase' = "length" /\ want' = IntSize /\ got' = <<>>
  /\ UNCHANGED <<toSend, out, open, stream, sent>>
\* Either read ends early: "Received EOF.".
EndOfFile ==
  /\ Reading /\ ~open /\ stream = <<>> /\ Len(got) < want
  /\ phase' = "threw"
  /\ UNCHANGED <<toSend, out, open, stream, want, got, sent, received>>

-----------------------------------------------------------------------------
Sender == SocketSend \/ \E k \in 1 .. Len(out) : WriteSome(k)
Reader == (\E k \in 1 .. Len(stream) : ReadSome(k)) \/ GotLength \/ GotData \/ EndOfFile

\* Both processes have ended.
Over == phase = "threw" /\ ~open

FramesNext ==
  \/ Sender \/ Close \/ Reader
  \/ Over /\ UNCHANGED framesVars

\* Both processes are scheduled; the sender need not close.
FramesSpec == FramesInit /\ [][FramesNext]_framesVars /\ WF_framesVars(Sender) /\ WF_framesVars(Reader)

-----------------------------------------------------------------------------
(***************************************************************************)
(* Properties.                                                             *)
(***************************************************************************)
\* However the bytes are cut up, and wherever the sender stops, socket_read
\* returns the frames of socket_send, whole, once and in order.
ImplementsFIFO == INSTANCE FIFO WITH Data <- UNION {{s[i] : i \in DOMAIN s} : s \in Streams}
Channel == ImplementsFIFO!Spec

\* The frame that comes next does not fit an int.
Oversize ==
  LET calls == sent \o toSend
      next == Len(received) + 1
  IN  next <= Len(calls) /\ Len(calls[next]) > MaxInt

\* socket_read throws only when every frame that was sent has been returned
\* and the sender has closed, or at a frame whose length does not fit an int.
ThrowsForCause == phase = "threw" => (~open /\ received = sent) \/ Oversize

\* Unless its sender closes early, a frame arrives even if it is longer than
\* what the kernels buffer, up to the first one that does not fit an int; that
\* one makes the reader throw rather than wait (or return a shorter frame).
AllArrive ==
  <>(~open) \/ <>(toSend = <<>> /\ received = sent) \/ <>(phase = "threw" /\ Oversize)
=============================================================================
