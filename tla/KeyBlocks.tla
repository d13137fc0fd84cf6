----------------------------- MODULE KeyBlocks -----------------------------
(***************************************************************************)
(* How the keys of one oblivious transfer are computed from blocks of      *)
(* bytes.  Module OT takes public values to be elements of a group; in the *)
(* code they change between integers and byte blocks, and                  *)
(* integer_to_byteblock (util.cxx) leaves leading zero bytes out, so a     *)
(* block is sometimes shorter than the one Crypto++ reads.                 *)
(***************************************************************************)
EXTENDS Integers, Sequences

CONSTANTS
  P, Q, G,    \* DL_P, DL_Q, DL_G: a prime, the prime order of G mod P, and G
  Radix,      \* how many values a byte has
  Length,     \* PublicKeyLength() and AgreedValueLength(), the bytes of P
  NumOptions  \* m.size() in OT_send

\* Radix to the power k.
RadixPower[k \in 0 .. Length] == IF k = 0 THEN 1 ELSE RadixPower[k-1] * Radix

\* ModularExponentiation
ModExp(x, k) ==
  LET e[j \in 0 .. k] == IF j = 0 THEN 1 ELSE (e[j-1] * x) % P
  IN  e[k]

\* That P is prime is not needed.
ASSUME BlocksAssumption ==
  /\ P \in Nat /\ G \in 2 .. P-1 /\ ModExp(G, Q) = 1
  /\ Q \in Nat \ {0, 1} /\ \A d \in 2 .. Q-1 : Q % d # 0
  /\ Radix \in Nat \ {0, 1} /\ Length \in Nat \ {0} /\ P < RadixPower[Length]
  /\ NumOptions \in 1 .. Q

Option == 0 .. NumOptions-1

\* MinEncodedSize: no leading zeros, and one byte for zero.
MinEncodedSize(x) ==
  CHOOSE k \in 1 .. Length : x < RadixPower[k] /\ \A j \in 1 .. k-1 : x >= RadixPower[j]

\* Integer::Encode, the most significant byte first.
Encode(x, k) == [i \in 1 .. k |-> (x \div RadixPower[k-i]) % Radix]

IntegerToByteblock(x) == Encode(x, MinEncodedSize(x))

\* Integer::Decode of the first k bytes at block; past its end is anything.
Decode(block, k) ==
  LET v[i \in 0 .. k] ==
        IF i = 0 THEN 0
        ELSE v[i-1] * Radix + (IF i <= Len(block) THEN block[i] ELSE Radix - 1)
  IN  v[k]
ByteblockToInteger(block) == Decode(block, Len(block))

\* EuclideanMultiplicativeInverse
ModInv(x) == CHOOSE y \in 1 .. P-1 : (x * y) % P = 1

Padded_None(block) == block
\* SecByteBlock(NULL, n) is n zero bytes.
Padded(block) == [i \in 1 .. Length - Len(block) |-> 0] \o block

NoKey == <<>>

\* DH_generate_shared_key; it throws for a public value that Agree refuses.
SharedKey(private, public) ==
  LET y == Decode(Padded(public), Length)
  IN  IF y \in 2 .. P-1 THEN Encode(ModExp(y, private), Length) ELSE NoKey

VARIABLES
  a, b, choice,       \* the private values, and the receiver's choice_bit
  senderPublic,       \* the block in SenderToReceiver_OTPublicValue
  receiverPublic,     \* the block in ReceiverToSender_OTPublicValue
  optionKeys, chosenKey   \* the sender's k for each option, the receiver's kc

keyBlocksVars == <<a, b, choice, senderPublic, receiverPublic, optionKeys, chosenKey>>

\* GenerateKeyPair draws private values below the group's order.
KeyBlocksInit ==
  /\ a \in 1 .. Q-1 /\ b \in 1 .. Q-1 /\ choice \in Option
  /\ senderPublic = NoKey /\ receiverPublic = NoKey
  /\ optionKeys = <<>> /\ chosenKey = NoKey

\* OT_send, 1): dh_pub_key has its full length.
OfferPublic ==
  /\ senderPublic = NoKey
  /\ senderPublic' = Encode(ModExp(G, a), Length)
  /\ UNCHANGED <<a, b, choice, receiverPublic, optionKeys, chosenKey>>

\* OT_recv, 2): dh_pub_key, shifted by the choice, goes through an integer.
Answer ==
  /\ senderPublic # NoKey /\ receiverPublic = NoKey
  /\ LET A == ByteblockToInteger(senderPublic)
         B == ByteblockToInteger(Encode(ModExp(G, b), Length))
     IN  receiverPublic' = IntegerToByteblock((B * ModExp(A, choice)) % P)
  /\ UNCHANGED <<a, b, choice, senderPublic, optionKeys, chosenKey>>

\* OT_recv, 3)
ReceiverKey ==
  /\ receiverPublic # NoKey /\ chosenKey = NoKey
  /\ chosenKey' = SharedKey(b, senderPublic)
  /\ UNCHANGED <<a, b, choice, senderPublic, receiverPublic, optionKeys>>

\* OT_send, 3)
SenderKeys ==
  /\ receiverPublic # NoKey /\ optionKeys = <<>>
  /\ LET A == ByteblockToInteger(senderPublic)
         B == ByteblockToInteger(receiverPublic)
         Base_i(i) == (B * ModInv(ModExp(A, i))) % P
     IN  optionKeys' = [i \in Option |-> SharedKey(a, IntegerToByteblock(Base_i(i)))]
  /\ UNCHANGED <<a, b, choice, senderPublic, receiverPublic, chosenKey>>

Finished == chosenKey # NoKey /\ optionKeys # <<>>

KeyBlocksNext ==
  \/ OfferPublic \/ Answer \/ ReceiverKey \/ SenderKeys
  \/ Finished /\ UNCHANGED keyBlocksVars

KeyBlocksSpec == KeyBlocksInit /\ [][KeyBlocksNext]_keyBlocksVars

-----------------------------------------------------------------------------
(***************************************************************************)
(* Properties.                                                             *)
(***************************************************************************)
\* Whatever the private values, so whatever leading zeros the blocks have had,
\* the receiver's key is, byte for byte, the key of the option it chose and of
\* no other (peer_link.cxx, 97-101 and 137-163; util.cxx, integer_to_byteblock).
ChosenKeyOnly ==
  Finished => \A i \in Option : (optionKeys[i] = chosenKey) = (i = choice)

\* No transfer fails but for the one public value that Agree refuses: the
\* identity, which one option's base is for a few pairs of private values.
OnlyIdentityRefused ==
  Finished => \A i \in Option :
    optionKeys[i] = NoKey <=> (b + a * (choice - i)) % Q = 0
=============================================================================
