------------------------------ MODULE Messages ------------------------------
(***************************************************************************)
(* The bytes of a message (messages.cxx, encrypt_and_tag and               *)
(* decrypt_and_verify of crypto_driver.cxx): what serialize writes on one  *)
(* side, deserialize reads on the other, one field at a time, with no      *)
(* separators between fields and an index that only get_string's return    *)
(* value keeps in step.  The other modules take a message that arrives to  *)
(* be the record that was sent; this one checks it.                        *)
(*                                                                         *)
(* Bytes count from 1 here and from 0 in the code.                         *)
(***************************************************************************)
EXTENDS Integers, Sequences, SequencesExt

CONSTANTS
  Base,       \* how many values a byte has
  SizeT,      \* sizeof(size_t)
  BlockSize,  \* AES::BLOCKSIZE
  Texts,      \* the strings and byte blocks that occur in a field
  MaxOptions, \* bound on the length of encryptions
  Keys        \* a key of a link; each link has one for AES and one for HMAC

Byte == 0 .. Base-1

\* Base to the power k; a size_t is less than WordPower[SizeT].
WordPower[k \in 0 .. SizeT] == IF k = 0 THEN 1 ELSE WordPower[k-1] * Base

\* The highest type is 11; a padding byte is at most BlockSize; m.size() is a size_t.
ASSUME BytesAssumption ==
  /\ Base \in Nat /\ Base > 11 /\ SizeT \in Nat \ {0}
  /\ BlockSize \in 1 .. Base-1
  /\ Texts \subseteq Seq(Byte) /\ Keys \subseteq Byte
  /\ MaxOptions \in Nat /\ MaxOptions < WordPower[SizeT]

TypeByte_Copied ==
  [HMACTagged_Wrapper |-> 1, DHPublicValue |-> 2, SenderPublic |-> 3,
   ReceiverPublic |-> 3, EncryptedValues |-> 5, InitialShare |-> 10, FinalGossip |-> 11]
TypeByte ==
  [HMACTagged_Wrapper |-> 1, DHPublicValue |-> 2, SenderPublic |-> 3,
   ReceiverPublic |-> 4, EncryptedValues |-> 5, InitialShare |-> 10, FinalGossip |-> 11]

\* A message is its type and its strings; those of EncryptedValues are the
\* encryptions and then as many ivs.
OneString(t) == {[type |-> t, fields |-> <<s>>] : s \in Texts}

PublicValue   == OneString("DHPublicValue")
OTPublicValue == OneString("SenderPublic") \cup OneString("ReceiverPublic")
ShareOrGossip == OneString("InitialShare") \cup OneString("FinalGossip")
EncryptedValues ==
  {[type |-> "EncryptedValues", fields |-> ss] :
     ss \in UNION {[1 .. 2 * k -> Texts] : k \in 0 .. MaxOptions}}

Message == PublicValue \cup OTPublicValue \cup ShareOrGossip \cup EncryptedValues

Wrapper(payload, iv, mac) ==
  [type |-> "HMACTagged_Wrapper", fields |-> <<payload, iv, mac>>]

-----------------------------------------------------------------------------
(***************************************************************************)
(* Writing.                                                                *)
(***************************************************************************)
\* memcpy of a size_t, on a little-endian machine.
Word(k) == [i \in 1 .. SizeT |-> (k \div WordPower[i-1]) % Base]

PutString_WholeLength(s) == Word(SizeT + Len(s)) \o s
\* put_string
PutString(s) == Word(Len(s)) \o s

\* serialize
Serialize(m) ==
  <<TypeByte[m.type]>>
    \o (IF m.type = "EncryptedValues" THEN Word(Len(m.fields) \div 2) ELSE <<>>)
    \o FlattenSeq([i \in DOMAIN m.fields |-> PutString(m.fields[i])])

\* A vector's size is a size_t, also when the padding has been added.
ASSUME SizesFit == \A m \in Message : Len(Serialize(m)) + BlockSize < WordPower[SizeT]

\* CBC, as far as it matters: a whole number of blocks, the last one filled up
\* with bytes that say how many they are, and nothing of the text in the clear.
Padding(s) == LET k == BlockSize - (Len(s) % BlockSize) IN [i \in 1 .. k |-> k]
AESEncrypt(key, iv, s) ==
  LET p == s \o Padding(s)
  IN  [i \in DOMAIN p |-> (p[i] + key + iv[((i-1) % BlockSize) + 1]) % Base]
AESDecrypt(key, iv, c) ==
  LET p == [i \in DOMAIN c |-> (c[i] - key - iv[((i-1) % BlockSize) + 1]) % Base]
  IN  SubSeq(p, 1, Len(p) - p[Len(p)])

\* A digest that depends on the key, on the bytes and on their places.
HMAC(key, s) ==
  <<FoldLeft(LAMBDA h, b : (3 * h + b + 1) % Base, key, s)>>

EncryptAndTag(k, iv, m) ==
  LET c == AESEncrypt(k, iv, Serialize(m))
  IN  Serialize(Wrapper(c, iv, HMAC(k, iv \o c)))

-----------------------------------------------------------------------------
(***************************************************************************)
(* Reading.                                                                *)
(***************************************************************************)
VARIABLES
  message,   \* what is sent, and
  key,       \* under which key
  expected,  \* the type of the message object the reader deserializes into
  data,      \* the bytes being read
  stage,     \* "wrapper" or "message": which deserialize; "returned", "aborted"
  n,         \* bytes read of data
  left,      \* strings still to read
  fields,    \* strings read
  verified   \* decrypt_and_verify's second result

messagesVars == <<message, key, expected, data, stage, n, left, fields, verified>>

\* What memory holds beyond the vector is anything; 0 will do.
ByteAt(i) == IF i \in DOMAIN data THEN data[i] ELSE 0
WordAt(i) ==
  LET w[k \in 0 .. SizeT] == IF k = 0 THEN 0 ELSE w[k-1] + ByteAt(i + k) * WordPower[k-1]
  IN  w[SizeT]

Open(stageNow, dataNow) ==
  /\ stage' = stageNow /\ data' = dataNow /\ n' = 0 /\ left' = 0 /\ fields' = <<>>

\* Key exchange messages travel as they are, all others in a wrapper; and the
\* reader of one looks for no wrapper.
MessagesInit ==
  /\ message \in Message /\ key \in Keys
  /\ expected \in DOMAIN TypeByte \ {"HMACTagged_Wrapper"}
  /\ \E iv \in [1 .. BlockSize -> {0, Base-1}] :
       data = IF message.type = "DHPublicValue" THEN Serialize(message)
                                                ELSE EncryptAndTag(key, iv, message)
  /\ verified = (expected = "DHPublicValue")
  /\ stage = IF verified THEN "message" ELSE "wrapper"
  /\ n = 0 /\ left = 0 /\ fields = <<>>

Target == IF stage = "wrapper" THEN "HMACTagged_Wrapper" ELSE expected

\* assert(data[0] == ...) and, for EncryptedValues, the count.
GetType ==
  /\ stage \in {"wrapper", "message"} /\ n = 0
  /\ IF ByteAt(1) # TypeByte[Target]
     THEN stage' = "aborted" /\ UNCHANGED <<n, left>>
     ELSE /\ CASE Target = "HMACTagged_Wrapper" -> n' = 1 /\ left' = 3
               [] Target = "EncryptedValues"    -> n' = 1 + SizeT /\ left' = 2 * WordAt(1)
               [] OTHER                         -> n' = 1 /\ left' = 1
          /\ UNCHANGED stage
  /\ UNCHANGED <<message, key, expected, data, fields, verified>>

\* n += get_string(...)
GetString ==
  /\ n > 0 /\ left > 0
  /\ fields' = Append(fields, [i \in 1 .. WordAt(n) |-> ByteAt(n + SizeT + i)])
  /\ n' = n + SizeT + WordAt(n) /\ left' = left - 1
  /\ UNCHANGED <<message, key, expected, data, stage, verified>>

\* The wrapper is read: verify, decrypt, and go on with what was inside.
DecryptAndVerify ==
  /\ stage = "wrapper" /\ n > 0 /\ left = 0
  /\ LET c == fields[1]  iv == fields[2] IN
       /\ verified' = (HMAC(key, iv \o c) = fields[3])
       /\ Open("message", AESDecrypt(key, iv, c))
  /\ UNCHANGED <<message, key, expected>>

Return ==
  /\ stage = "message" /\ n > 0 /\ left = 0
  /\ stage' = "returned"
  /\ UNCHANGED <<message, key, expected, data, n, left, fields, verified>>

MessagesNext ==
  \/ GetType \/ GetString \/ DecryptAndVerify \/ Return
  \/ stage \in {"returned", "aborted"} /\ UNCHANGED messagesVars

MessagesSpec == MessagesInit /\ [][MessagesNext]_messagesVars

-----------------------------------------------------------------------------
(***************************************************************************)
(* Properties.                                                             *)
(***************************************************************************)
\* deserialize gives back the fields of serialize, with a valid tag, has used up
\* every byte it was given, and refuses a message if and only if the reader
\* expects another type than the one that comes (messages.cxx, the assertions).
RoundTrip ==
  /\ stage = "returned" =>
       /\ [type |-> expected, fields |-> fields] = message
       /\ verified /\ n = Len(data)
  /\ stage = "aborted" => expected # message.type

\* No read of a length word or of a string passes the end of the bytes, also
\* when the reader expects another type than the one that comes.
ReadsInside ==
  /\ n <= Len(data)
  /\ left > 0 => n + SizeT <= Len(data) /\ n + SizeT + WordAt(n) <= Len(data)
=============================================================================
