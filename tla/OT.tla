--------------------------------- MODULE OT ---------------------------------
(***************************************************************************)
(* One 1-out-of-4 oblivious transfer between two parties whose link is     *)
(* keyed: PeerLink::OT_send and PeerLink::OT_recv (src/src/pkg/            *)
(* peer_link.cxx).  Every message is a frame of encrypt_and_tag; a frame   *)
(* may be damaged on its way, which decrypt_and_verify notices.  A thrown  *)
(* exception ends the process, since main catches none, and the other side *)
(* reads EOF.                                                              *)
(*                                                                         *)
(* The group of the Diffie-Hellman values is a parameter: Mul, Exp and Inv *)
(* stand for the modular operations of Crypto++, of which only the laws of *)
(* TransferGroup are used.                                                 *)
(***************************************************************************)
EXTENDS Integers, Sequences, Group

CONSTANTS
  Element,      \* the subgroup generated by G
  G,            \* DL_G
  Identity,     \* the integer 1
  Exponent,     \* private DH values
  Mul,          \* Mul[x][y]: product modulo DL_P
  Exp,          \* Exp[x][e]: ModularExponentiation
  Inv,          \* Inv[x]: EuclideanMultiplicativeInverse
  Garbage,      \* what a damaged ciphertext may decrypt to
  None,         \* no result yet
  Failed        \* instead of a result: the receiver has thrown

Option == 0 .. 3
Bit    == {0, 1}

ASSUME GroupAssumption ==
  TransferGroup(Element, G, Identity, Exponent, Option, Mul, Exp, Inv)

ASSUME ResultAssumption ==
  /\ Bit \subseteq Garbage
  /\ None \notin Garbage /\ Failed \notin Garbage /\ None # Failed

VARIABLES
  spc,        \* sender: start, offered, sent, failed
  rpc,        \* receiver: start, answered, done, failed
  m,          \* the sender's options
  choice,     \* choice_bit of the receiver
  a,          \* the sender's private value (dh_priv_key of OT_send)
  b,          \* the receiver's private value (dh_priv_key of OT_recv)
  A,          \* the sender's public value, as the receiver read it
  verified,   \* the receiver's local of that name
  result,     \* what OT_recv returns
  s2r,        \* frames from the sender to the receiver
  r2s         \* frames from the receiver to the sender

vars == <<spc, rpc, m, choice, a, b, A, verified, result, s2r, r2s>>

\* A frame: its type and content, whether its HMAC is valid, and whether the
\* content survived.
Frame(type, content) ==
  [type |-> type, content |-> content, valid |-> TRUE, intact |-> TRUE]

\* AES_encrypt of one option with the key derived from a group element.
Encryption == [key : Element, option : Bit]

Init ==
  /\ spc = "start" /\ rpc = "start"
  /\ m \in [Option -> Bit] /\ choice \in Option
  /\ a \in Exponent /\ b \in Exponent
  /\ A = Identity
  /\ verified = FALSE
  /\ result = None
  /\ s2r = <<>> /\ r2s = <<>>

-----------------------------------------------------------------------------
(***************************************************************************)
(* The sender.                                                             *)
(***************************************************************************)
\* OT_send: DH_initialize, and the public value goes out.
SendPublic ==
  /\ spc = "start"
  /\ s2r' = Append(s2r, Frame("SenderToReceiver_OTPublicValue", Exp[G][a]))
  /\ spc' = "offered"
  /\ UNCHANGED <<rpc, m, choice, a, b, A, verified, result, r2s>>

OptionBase_Same(B, i) == B
\* k_i, the public value of the receiver with A^i divided out.
OptionBase(B, i) == Mul[B][Inv[Exp[Exp[G][a]][i]]]

\* DH_generate_shared_key with the sender's private value.
OptionKey(B, i) == Exp[OptionBase(B, i)][a]

\* Agree refuses the identity, and DH_generate_shared_key then throws.
Agreeable(x) == x # Identity

SenderFails ==
  /\ spc' = "failed"
  /\ UNCHANGED <<rpc, m, choice, a, b, A, verified, result, s2r>>

\* OT_send: the answer is valid, and every option can be encrypted.
SenderTransfer ==
  LET f == Head(r2s) IN
  /\ spc = "offered" /\ r2s # <<>> /\ f.valid
  /\ \A i \in Option : Agreeable(OptionBase(f.content, i))
  /\ s2r' = Append(s2r, Frame("SenderToReceiver_OTEncryptedValues",
       [i \in Option |-> [key |-> OptionKey(f.content, i), option |-> m[i]]]))
  /\ r2s' = Tail(r2s)
  /\ spc' = "sent"
  /\ UNCHANGED <<rpc, m, choice, a, b, A, verified, result>>

\* OT_send throws: an invalid HMAC, or no shared secret for some option.
SenderRejects ==
  LET f == Head(r2s) IN
  /\ spc = "offered" /\ r2s # <<>>
  /\ f.valid => \E i \in Option : ~Agreeable(OptionBase(f.content, i))
  /\ r2s' = Tail(r2s)
  /\ SenderFails

\* socket_read throws because the receiver's process is gone.
SenderEOF ==
  /\ spc = "offered" /\ r2s = <<>> /\ rpc = "failed"
  /\ UNCHANGED r2s
  /\ SenderFails

-----------------------------------------------------------------------------
(***************************************************************************)
(* The receiver.                                                           *)
(***************************************************************************)
ShiftedPublic_Unreduced(x) == Exp[G][b] * Exp[x][choice]
ShiftedPublic_Unshifted(x) == Exp[G][b]
\* B, the receiver's public value shifted by its choice.
ShiftedPublic(x) == Mul[Exp[G][b]][Exp[x][choice]]

\* OT_recv: the sender's public value is valid; draw b and answer.
ReceiverAnswer ==
  LET f == Head(s2r) IN
  /\ rpc = "start" /\ s2r # <<>> /\ f.valid
  /\ verified' = f.valid
  /\ A' = f.content
  /\ r2s' = Append(r2s,
       Frame("ReceiverToSender_OTPublicValue", ShiftedPublic(f.content)))
  /\ s2r' = Tail(s2r)
  /\ rpc' = "answered"
  /\ UNCHANGED <<spc, m, choice, a, b, result>>

ReceiverFails ==
  /\ rpc' = "failed"
  /\ UNCHANGED <<spc, m, choice, a, b, A, result, r2s>>

\* OT_recv throws on an invalid public value.
ReceiverRejects ==
  /\ rpc = "start" /\ s2r # <<>> /\ ~Head(s2r).valid
  /\ verified' = FALSE
  /\ s2r' = Tail(s2r)
  /\ ReceiverFails

\* The key of the chosen option, derived from the sender's public value.
ReceiverKey == Exp[A][b]

\* AES_decrypt and stoi: what OT_recv can return for the frame f.
Opened(f) ==
  IF f.intact /\ f.content[choice].key = ReceiverKey
  THEN {f.content[choice].option}
  ELSE Garbage

\* OT_recv, after the second read.  The code checks the flag of the first
\* read, not verified_2.
ReceiverFinish ==
  LET f == Head(s2r) IN
  /\ rpc = "answered" /\ s2r # <<>> /\ verified /\ Agreeable(A)
  /\ result' \in Opened(f)
  /\ s2r' = Tail(s2r)
  /\ rpc' = "done"
  /\ UNCHANGED <<spc, m, choice, a, b, A, verified, r2s>>

\* OT_recv throws after the second read: an invalid flag, no shared secret, or
\* a plaintext that cannot be decrypted, deserialized or read as a number.
ReceiverThrows ==
  LET f == Head(s2r) IN
  /\ rpc = "answered" /\ s2r # <<>>
  /\ ~verified \/ ~Agreeable(A) \/ ~f.intact \/ f.content[choice].key # ReceiverKey
  /\ s2r' = Tail(s2r)
  /\ UNCHANGED verified
  /\ ReceiverFails

ReceiverEOF_FirstOnly ==
  /\ rpc = "start" /\ s2r = <<>> /\ spc = "failed"
  /\ UNCHANGED <<verified, s2r>>
  /\ ReceiverFails
ReceiverEOF ==
  /\ rpc \in {"start", "answered"} /\ s2r = <<>> /\ spc = "failed"
  /\ UNCHANGED <<verified, s2r>>
  /\ ReceiverFails

-----------------------------------------------------------------------------
\* The HMAC, or the bytes it protects, change while a frame is under way.
Damaged(f) ==
  {[f EXCEPT !.valid = FALSE, !.intact = intact] : intact \in BOOLEAN}

DamageOne(frames, frames_next) ==
  \E i \in DOMAIN frames : \E f \in Damaged(frames[i]) :
    frames[i].valid /\ frames_next = [frames EXCEPT ![i] = f]

Damage ==
  /\ \/ DamageOne(s2r, s2r') /\ UNCHANGED r2s
     \/ DamageOne(r2s, r2s') /\ UNCHANGED s2r
  /\ UNCHANGED <<spc, rpc, m, choice, a, b, A, verified, result>>

Sender   == SendPublic \/ SenderTransfer \/ SenderRejects \/ SenderEOF
Receiver == \/ ReceiverAnswer \/ ReceiverRejects
            \/ ReceiverFinish \/ ReceiverThrows \/ ReceiverEOF

\* Both functions have returned or thrown.
Finished == spc \in {"sent", "failed"} /\ rpc \in {"done", "failed"}
Terminating == Finished /\ UNCHANGED vars

Next == Sender \/ Receiver \/ Damage \/ Terminating

Spec == Init /\ [][Next]_vars
FairSpec == Spec /\ WF_vars(Sender) /\ WF_vars(Receiver)

-----------------------------------------------------------------------------
(***************************************************************************)
(* Properties.                                                             *)
(***************************************************************************)
FrameOf(type, contents) ==
  [type : {type}, content : contents, valid : BOOLEAN, intact : BOOLEAN]

\* The variables have the types of the program's variables: in particular
\* public values stay in the group (peer_link.cxx, reduced modulo DL_P).
TypeOK ==
  /\ spc \in {"start", "offered", "sent", "failed"}
  /\ rpc \in {"start", "answered", "done", "failed"}
  /\ m \in [Option -> Bit] /\ choice \in Option
  /\ a \in Exponent /\ b \in Exponent
  /\ A \in Element
  /\ verified \in BOOLEAN
  /\ result \in Garbage \cup {None}
  /\ s2r \in Seq(FrameOf("SenderToReceiver_OTPublicValue", Element)
       \cup FrameOf("SenderToReceiver_OTEncryptedValues", [Option -> Encryption]))
  /\ r2s \in Seq(FrameOf("ReceiverToSender_OTPublicValue", Element))

\* Whenever the encrypted options reach OT_recv undamaged, it returns the
\* sender's option at the receiver's choice: the keys the two sides derive
\* separately, from different public values, meet at that option.
ChosenOption ==
  [][rpc = "answered" /\ rpc' = "done" /\ Head(s2r).valid
       => result' = m[choice]]_vars

\* The receiver's key opens no option but the chosen one: otherwise the sum of
\* an AND gate would tell it the sender's shares.
OnlyChosen ==
  \A n \in DOMAIN s2r : s2r[n].type = "SenderToReceiver_OTEncryptedValues" =>
    \A i \in Option \ {choice} : s2r[n].content[i].key # ReceiverKey

\* "Disconnect and throw errors only for invalid MACs" (peer_link.cxx:119):
\* a side that reads a frame with an invalid HMAC throws.
RejectsInvalidMac ==
  [][/\ s2r # <<>> /\ s2r' = Tail(s2r) /\ ~Head(s2r).valid => rpc' = "failed"
     /\ r2s # <<>> /\ r2s' = Tail(r2s) /\ ~Head(r2s).valid => spc' = "failed"]_vars

\* Both functions return or throw: nobody waits for a frame of a process that
\* has thrown.
BothReturn == <>Finished

\* The receiver gets exactly the chosen option or the transfer fails, whatever
\* happens to the public values on their way; only damage to the encrypted
\* options themselves may make it return something else (see RejectsInvalidMac).
\* OT_send and OT_recv implement the ideal transfer of module IdealOT.
Ideal == INSTANCE IdealOT WITH Pending <- None,
  tampered <- s2r # <<>> /\ ~Head(s2r).valid,
  outcome  <- IF rpc = "failed" THEN Failed ELSE result
ImplementsIdealOT == Ideal!FairSpec
=============================================================================
