# A verification of the GMW participant

The repository is an implementation of the Goldreich-Micali-Wigderson protocol:
N processes ("participants"), each started with the same address file, circuit
file and input file and its own index, evaluate a boolean circuit on secret
shares of the input wires, and all print the clear output. This directory holds
TLA+ models of that program, the TLC runs that check them, and TLAPS proofs.

Paths below are relative to the repository: `participant.cxx` is
`src/cmd/participant.cxx`, `peer_link.cxx` is `src/pkg/peer_link.cxx`, the
drivers are in `src/drivers/`, the shared code in `src-shared/`.

## 1. The system

A participant is a single-threaded process with blocking sockets. All
concurrency is between the N processes; they share nothing but one TCP
connection per pair.

| part | state | operations | talks to |
|---|---|---|---|
| `participant.cxx` main | `sockets`, `peer_links`, `shares`, `ot_accumulator`, `output_share`, `all_shares` | six phases in order: sockets, key exchange, wire sharing, circuit, gathering, final XOR | calls everything below |
| `PeerLink` | socket, `AES_key`, `HMAC_key` | key exchange (read first / send first), `SendSecretShare`, `ReceiveSecretShare`, `OT_send`, `OT_recv`, `GossipSend`, `GossipReceive` | its peer's `PeerLink`, by frames |
| `NetworkDriver` | `io_context`, a static acceptor | `listen`, `connect` (retries for ever), `socket_send`, `socket_read` | kernel |
| `CryptoDriver` | none | Diffie-Hellman, AES-CBC, HMAC, HKDF; `encrypt_and_tag`, `decrypt_and_verify` | Crypto++ |
| `ShareDriver` | `my_party`, `num_parties` | `generate_shares` | |
| messages | none | `serialize`, `deserialize` (asserts the type byte) | |
| circuit, input and address files | none | `parse_circuit`, `parse_input`, `parse_addrs` | |
| `OTDriver`, `CLIDriver`, logger | | dead code, terminal output | |

What makes it hard:

* **No message says what it is for.** Nothing in a message names the wire, the
  gate or the transfer phase. Parties agree on the meaning of the next frame
  by order alone, while they run at different speeds.
* **Circular waits.** In every phase each party blocks on the others one after
  the other: accepts before connects, reads before sends, transfers in index
  order. That this never closes a cycle is a property of all loops together.
* **Arrival order.** `accept()` does not name its caller, yet its result is
  filed under a party index.
* **Exceptions end a process.** Nobody catches; the peers see EOF or a reset in
  the middle of whatever they were doing, and there is no time limit anywhere.
* **Blocking writes.** `socket_send` returns when the kernels have taken all
  bytes; two parties that write to each other, or a circle of them, may stop.
* **Unchecked input.** `fscanf` results, the number of lines of an input file and
  the owners it names are not looked at.
* **Arithmetic of the transfer.** The options, the choice code and the keys on
  the two sides must meet at exactly one of four places.
* **Early exit.** A party returns from `main` as soon as it has its result.

What makes each part correct:

* circuit evaluation: the shares of a wire XOR to the wire's value; everybody
  prints the clear output; every read gets the message meant for it; nobody
  leaves before the others have what they need; no deadlock;
* setup: each socket under the right index, the same key at the two ends of a
  link and at no other link, nothing left over, everybody gets through;
* oblivious transfer: the receiver gets the chosen option and can open no
  other, an invalid HMAC is refused, nobody is left waiting;
* deaths: whoever dies when, nobody prints a result it has not the shares for,
  survivors end rather than wait, and a return from `main` harms nobody;
* the connection: frames arrive whole and in order however the bytes are cut;
  nothing but an output longer than the socket buffers can block everybody;
* messages: `deserialize` inverts `serialize`, never reads past the end and
  refuses other types; the two sides of a transfer derive the same bytes;
* files: what is there in full is read right; input files of the participants
  need only agree on the owners of wires.

The hazards this list comes from are in `PROJECT.json`, each at its line.

## 2. Modules

| module | what it is | code |
|---|---|---|
| `MPC` | abstract: every party learns the output of the circuit, once | README of the repository |
| `GMW` | wire sharing, circuit evaluation, gathering, for N parties | `participant.cxx` 105-316, `share_driver.cxx`, frames of `peer_link.cxx` |
| `MCGMW` | circuits, owners and reference values for TLC | `circuits/and.txt`, `test/two-parties` |
| `Session`, `MCSession` | `GMW` by processes that exit, die, meet EOF and resets | `network_driver.cxx` 59-105, loops of sends in `participant.cxx` |
| `GMWProofs` | theorems about `GMW` and `Session`: control, channels, shares, the output, and deaths | |
| `Setup`, `MCSetup` | accept queues, connects, retries, key exchange | `participant.cxx` 49-103, `network_driver.cxx`, `peer_link.cxx` 195-259 |
| `SetupFaults`, `MCSetupFaults` | `Setup` by processes that may die | the same, and `network_driver.cxx` 59-105 |
| `SetupProofs` | theorems about `Setup`, late handshakes included | |
| `SetupFaultsProofs` | theorems about `SetupFaults` | |
| `IdealOT` | abstract: the chosen option is delivered, or the transfer fails; tampering is all that can mislead the receiver | |
| `Group` | the laws of the group a transfer computes in | Crypto++ |
| `OT`, `MCOT` | one transfer, with its group arithmetic, HMACs and failures | `peer_link.cxx` 63-169, `crypto_driver.cxx` |
| `OTProofs` | theorems about `OT` | |
| `FIFO` | abstract: messages arrive whole, once, in order | |
| `Frames` | one direction of a connection, byte by byte | `network_driver.cxx` 68-105 |
| `Blocking` | the sends and reads of a session over finite buffers | `participant.cxx` 111-293, `peer_link.cxx` |
| `MCBlocking` | `Blocking` by itself for TLC | |
| `WireProofs` | theorems about `Frames` and `Blocking` | |
| `Basics` | induction, division and powers, sequences in the order of a plan, sequences put one after the other, for the proofs | |
| `Messages` | the bytes of a message, written and read field by field | `messages.cxx`, `crypto_driver.cxx` 25-73, 126-206 |
| `KeyBlocks` | the keys of a transfer, computed from byte blocks | `util.cxx` 51-65, `crypto_driver.cxx` 78-105, `peer_link.cxx` |
| `BytesProofs` | theorems about `Messages` and `KeyBlocks` | |
| `MCWire` | `Frames`, `Blocking`, `Messages`, `KeyBlocks` for TLC | |
| `Bristol` | `parse_circuit`, on files that may end early | `circuit.cxx` |
| `Inputs` | `parse_input`, and the wire sharing that input files drive | `util.cxx` 122-188, `participant.cxx` 114-151 |
| `FilesProofs` | theorems about `Bristol` and `Inputs` | |
| `MCFiles` | `Bristol` and `Inputs` for TLC | |

How they build on each other: `Session` EXTENDS `GMW` and `SetupFaults` EXTENDS
`Setup` with the life and death of processes. `GMW`, `Session` and `Setup` take a
connection to be a queue of messages: `Frames` implements that queue (`FIFO`) by
bytes, and `Messages` shows that what is read from the bytes is the record that
was written. `GMW` takes a transfer to deliver the chosen option: `OT` implements
that (`IdealOT`) by group elements, and `KeyBlocks` shows that byte blocks stand
for the group elements; that those have the laws `OT` takes for granted (`Group`)
is proved of the integers modulo `DL_P` in `BytesProofs`. `Blocking` takes the order of sends and reads from `GMW`
and asks what unbounded queues hide.

### GMW

`pc`, `wire`, `gate` and `peer` are the position of a participant: `wire` and
`gate` are the loop variables of the wire sharing and of the circuit, `peer`
that of the loops over the other parties; `pc` says which read of a transfer it
waits at. `shares` and `acc` are the program's variables of that name,
`gathered` is `all_shares` and `output` what it prints. `chan[p][q]` is the TCP
stream from p to q as a queue of messages. `dealt` and `bit` keep random bits
the program draws: `bit` is read again when the transfer goes on, `dealt` and
the field `slot` of a message are there for properties only.

One action per blocking read: the read, the local work after it and the sends
up to the next read belong to one action, because nobody else can see
anything in between but the sends, and sends do not block in this model. Each
local gate is an action of its own. The secret bits are real: `GenerateShares`
and the mask of `OTOffer` range over every outcome of the generators.

A transfer appears here by its three messages. What the receiver gets out of the
third is the option at `ChoiceBit`; that this is right is what module `OT`
establishes for a single transfer, from the group laws. A frame of an
unexpected type fails an assertion in the program; here its reader gets stuck,
which the runs would report as a deadlock.

The order of `all_shares` in the program is own share first, then by index;
`gathered` is indexed by party instead, as XOR does not depend on it.

### Setup

One `pc` value per loop of main (plus the 3 second sleep and the point between
the two halves of `SendFirstHandleKeyExchange`), `idx` is the loop's `i`.
`backlog[s]` is the accept queue of s. A `connect` that finds no listener is
refused and retried. A `connect` returns when the SYN-ACK arrives, while the
server's kernel queues the connection when the final ACK arrives: with
`AckMayLag = FALSE` both happen at once, which is what a loopback interface does
and what the repository's address files use; with `TRUE` the second can be late
(`Established`, external code). A secret is the set of the two private values it
depends on, so two ends agree exactly when the program's keys are equal.
The setup has no end that all parties share: a party that is through goes on, and
the owner of the first input wire (any one party) sends its shares to all others
at once (`FirstShares`), while they may still exchange keys with one another.

### OT

One call of `OT_send` against one call of `OT_recv` over a keyed link. The
Diffie-Hellman group is a parameter with only the laws the argument uses
(`TransferGroup`); TLC takes the subgroup of order 11 modulo 23. A frame has
a flag for its HMAC and one for its bytes, and `Damage` may clear them while it
is under way, which keeps the two apart as the code does: `decrypt_and_verify`
returns a flag *and* a plaintext. A thrown exception is the state `failed`, and
the peer then meets EOF. `verified` is the local variable that the second check
looks at.

### Session

`status[p]` is the life of a process: `up`, `exited` from `main`, `crashed` by
itself (killed, or a throw of its own), or `failed` because a read or a write on
a socket failed. All variables of `GMW` change as in `GMW`, so a step of
`Session` is a step of `GMW` or leaves its variables alone. A dead process can
leave a loop of sends unfinished: `unsent[p]` names the peers its last messages
did not reach. (`CutShort` puts the messages of the whole loop into `chan` and
the missing ones into `unsent`; `Unread` never counts those.) TCP is modelled by
two facts: what was written before a close can be read, then comes EOF; and when
the dead process had not read everything, a reset may overtake that data and
fail reads and writes.

### SetupFaults

A process that dies during the setup closes its acceptor, and the connections
queued there are reset. `ReadFails` is `socket_read` meeting EOF, `LinkFails` a
write or a read after a reset. There is no timeout in the code, so a survivor in
`accept` or in the retry loop of `connect` may stay there for ever; only those
that have all their sockets must end.

### Frames and Blocking

`Frames` is one call sequence of `socket_send` against `socket_read` over a
stream that holds `Capacity` bytes. `boost::asio::write` hands over any positive
number of bytes at a time, `boost::asio::read` takes any; the sender may close at
any point. The length is put into an int in network order (`Htonl`, `Ntohl`), with
its sign bit: bytes have two values and an int three of them, so that a length
that turns negative is reached.

`Blocking` gives each party the list of sends and reads `main` makes after the
setup, in order, and moves them byte by byte through pipes of `BufferSize` bytes.
`todo[p]` is what is left of the list. Contents do not matter here.

### Messages and KeyBlocks

`Messages` serializes a message of any of the seven types that are used,
encrypts and tags it unless it belongs to the key exchange, and reads it back
into an object of every type, one action per field; `n` and `left` are the index
and the fields to go. AES-CBC is a stand-in that pads as CBC does, and HMAC a
digest of the bytes and their places. `assert` is taken to be compiled in.

`KeyBlocks` computes the public values and keys of one transfer as
`peer_link.cxx` and `crypto_driver.cxx` do, through blocks of digits in which
`integer_to_byteblock` leaves out leading zeros.

### Bristol and Inputs

`Bristol` is the loop of `parse_circuit` on a sequence of tokens cut off
anywhere. A conversion at the end of the file leaves its variable as it was, and
the variables outlive the loop, uninitialised before the first gate.

`Inputs` gives every party an input file of its own, with lines that hold numbers,
words or nothing, and runs `parse_input` and the wire sharing on it. A number may
be any int: `generate_shares` XORs random bits into it (`IntXor`), so the higher bits
of a value that is not 0 or 1 stay in its owner's share, and the others get bits all
the same. An access past the end of a vector ends in `undefined`, which is not
followed further.

## 3. Runs

| run | instance | checks |
|---|---|---|
| `gmw_small3` | 3 parties, AND, NOT, XOR, two inputs of different owners, two outputs | `TypeOK`, `ShareCorrect`, `CleanExit`, `Backlog`, `ImplementsMPC` |
| `gmw_adder2` | 2 parties, full adder: 2 ANDs and 3 XORs, 3 inputs, 2 outputs | `LockStep`, `ImplementsMPC` |
| `session_crash3` | 3 parties, one AND gate, any of them may die | `STypeOK`, `FailureHasCause`, `ResultNeedsAll`, `ResultsRight`, `EveryoneStops` |
| `setup_loopback4` | 4 parties, no lag, any of them may die | `TypeOK`, `SocketsLabelled`, `KeysAgree`, `NothingLeftOver`, `OnlyCrashesHurt`, `LinkedEnds` |
| `setup_lag4` | 4 parties, final ACKs may lag | `ReadyMeansLabelled` |
| `ot_transfer` | all options, choices, 16 pairs of private values, any frame may be damaged | `TypeOK`, `OnlyChosen`, `ChosenOption`, `BothReturn`, `ImplementsIdealOT` |
| `wire` | `Frames`: | `ThrowsForCause`, `Channel`, `AllArrive` |
| | `Blocking`: | `SticksOnlyInGossip`, `ShortOutputEnds` |
| | `Messages`: | `RoundTrip`, `ReadsInside` |
| | `KeyBlocks`: | `ChosenKeyOnly`, `OnlyIdentityRefused` |
| `files` | `Bristol`: | `WholeLinesRight`, `StaysInRange`, `MissingBecomeNot` |
| | `Inputs`: | `OwnersDecide`, `ThrowTogether`, `NobodyWaits` |
| `gossip_long3`, `ot_mac`, `setup_lag3`, `gmw_and2` | | the findings, see below |

`wire` and `files` check several modules that share no variable: the first step
chooses one of them, and the others stay in an initial state of theirs. TLC looks
at the sum of their state spaces, not at their product.

What they show:

* `ShareCorrect`: for every wire that all parties have computed, their shares
  XOR to the value of the wire in the clear. It relates N processes that may
  be several gates apart.
* `ImplementsMPC`: `GMW` refines `MPC` under fairness, so every participant
  prints the right string once and none waits for ever.
* `LockStep`: whatever is at the head of the stream a party is about to read was
  sent for the wire, gate and phase the party is at. `Backlog`: past the input
  wires at most two messages of a sender are unread, however long the circuit.
* `CleanExit`: when a participant has left `main` everybody else has sent it
  all it will ever send and it has read all of it.
* `FailureHasCause`: if no process dies by itself, no read or write of anybody
  fails, although parties return from `main` and close their sockets while
  others are still in the gathering. `ResultNeedsAll`: a party that has a result
  was sent an output share by everybody, also when the sender died in its loop.
  `ResultsRight`: the results printed are those of `MPC`, whoever dies.
  `EveryoneStops`: every process exits or ends by an exception.
* `SocketsLabelled`, `ReadyMeansLabelled`, `KeysAgree`, `NothingLeftOver`: the
  setup, with and without late handshakes, and with deaths. With late ones
  deadlock checking is off in `setup_lag4`, as a mislabelled setup does hang;
  what that run shows is that it hangs *before* anybody sends a share. The runs
  include parties whose first shares reach others that are still exchanging
  keys: no share is taken for a public value.
* `OnlyCrashesHurt`: unless somebody crashes, everybody gets through the setup,
  and nobody fails. `LinkedEnds`: after a crash, those that have all their
  sockets get through or end; deadlock checking is off because a party that has
  not may wait in `accept` for ever.
* `Channel`: `Frames` implements `FIFO`, wherever the sender stops. `AllArrive`,
  `ThrowsForCause`: frames of any length that fits an int arrive; the first one
  that does not makes the reader throw instead of returning something else.
* `SticksOnlyInGossip`, `ShortOutputEnds`: the parties block each other only when
  the gossip frame is longer than what the kernels hold of one direction, and
  then in the loop of `GossipSend`; single shares, public values and option lists
  may be longer than that. That they do then is a finding, see below.
* `RoundTrip`, `ReadsInside`: the layout of messages. `ChosenKeyOnly`,
  `OnlyIdentityRefused`: the keys meet at the chosen option and nowhere else,
  and nothing but the identity as a public value makes a transfer throw.
* `WholeLinesRight`, `StaysInRange`, `MissingBecomeNot`: a circuit file that ends
  early. No error is reported: gates that are missing after a whole line become
  NOT gates from the first input of that line, of one input or two, into its output;
  and after one gate of two inputs, wherever the file ends, all stay in range.
* `OwnersDecide`, `ThrowTogether`, `NobodyWaits`: input files that agree on the
  owners share every wire with the value in its owner's file, be it a bit or not;
  an owner that does not exist stops all parties at the same line.
* `ChosenOption`, `OnlyChosen`, `BothReturn`, `ImplementsIdealOT`: the
  transfer. Damage is never required to happen, so `ImplementsIdealOT` also says
  of undamaged transfers that they deliver the chosen option or fail; that a
  tampered final message may mislead the receiver is part of `IdealOT` because of
  the missing check that `ot_mac` shows.

Bounds. Three parties are the smallest number at which a party both sends and
receives transfers and a message can overtake another over a third party; four
let a party accept two connections and dial one. The circuits have every gate
kind, an AND fed by another gate, two ANDs in a row, outputs that are not all
wires, and inputs owned by different parties; all inputs and random bits are
explored. The crash run has a single AND gate with one transfer between each two
of three parties, which is where deaths can interleave with every kind of read. In `MCOT` the private values 1, 2, 6 and 10 include pairs for
which one of the sender's bases is the identity, so that the failing path is
reached. No counter grows without the instance ending.

The other bounds. `Frames`: up to three frames of 0, 1, 3 and 4 bytes where the
kernels hold 2 and an int ends at 3, so frames that fit, that do not fit the
buffer and that do not fit an int follow each other in every order. `Blocking`:
four parties, five input lines, two AND gates, buffers of 2 bytes, frames of 3
and 4, a gossip of 1 to 4; in `gossip_long3` three parties, an input line each, one
AND gate, and buffers of 2 bytes, in which everything fits but an output of 3. `Messages`: fields of length 0, 1 and 3 with blocks of
2, so padding of both kinds occurs, up to two options, all types sent against
all types expected. `KeyBlocks`: all private values of a group of order 11, in
blocks of three digits of base 3, of which six of the eleven elements need fewer.
`Bristol`: up to three gates, so two lines
can be missing after one that is there, and two values for an uninitialised int,
one in the range of wires and one outside. `Inputs`: two parties, two wires, up
to three lines, so that a file can have more lines than there are wires; one of
the lines has the value 3, which is odd and has a bit besides the lowest.

Fairness. Each participant is a process the operating system keeps scheduling,
so `WF(Step(p))` per party; in `OT` one `WF` per side. A TCP handshake whose
packets are retransmitted completes in the end, but no liveness is claimed with
late ones. Damage and death are never required to happen, nor not to. In `Frames`
each of the two processes is scheduled and the sender need not close; in
`Blocking` and `Inputs` `WF(Step(p))` per party. `Messages`, `KeyBlocks` and
`Bristol` are single computations and claim no liveness.

Findings, each a violation run:

1. `gossip_long3`: every participant writes its output to all others
   (`participant.cxx:281`) before it reads anybody's (`participant.cxx:292`). When the
   output frame is longer than the socket buffers hold, all of them stop in the first
   loop for ever, although the program is for "any arbitrary boolean circuit"
   (`README.md:3`). The buffers of a loopback connection take at least some hundred
   thousand bytes and an output wire takes one byte, so no circuit of
   the repository comes near. That no such run ends, for any
   number of parties from two on, is the theorem `LongOutputsStick`.
2. `ot_mac`: after the second read `OT_recv` checks `verified` where it means
   `verified_2` (`peer_link.cxx:153`), so an invalid HMAC on the final message
   goes unnoticed, against the comment at `peer_link.cxx:119`.
3. `setup_lag3`: the map "from party index to their socket"
   (`participant.cxx:56`) is filled in arrival order; over a network in which
   handshakes can complete out of order it can be wrong, and the setup hangs.
4. `gmw_and2`: `test/expected-output/and-output.txt` says 0 for the two-party
   AND of 1 and 1; the program prints 1.

## 4. Proofs

`OTProofs` proves, for every group with the laws of `TransferGroup`, all
private values and all damage: type correctness, `OnlyChosen`, `ChosenOption`,
and that `OT` implements `IdealOT!Spec`, where what has been tampered with is
the frame on its way to the receiver. The inductive invariant
says what the frames under way and the receiver's locals hold, in terms of the
private values, at each pair of control points; the group laws then turn
"the key of option i equals the receiver's key" into "A^i = A^choice", and that
into i = choice. The invariant is needed because the keys are computed at
different times from different messages.

`GMWProofs` proves `TypeOK` of `GMW` for every number of parties, circuit,
distribution of the inputs and values of them. `TypeOK` alone is not inductive:
that `peer` is a party when a transfer goes on, that a transfer belongs to an
AND gate, and that nobody is at the gathering before its last gate, has to be
known to type the next step. `Control` says this, per party, as `ControlOf`, and
each action only has to be checked for the party that takes it (`ControlStep`).

It also proves `LockStep`, `CleanExit` and `Backlog` from one invariant,
`ChannelInv`. The slots a party p ever uses towards q are a fixed set, `Plan`. The
control state of p says how far it is along that plan (`SendPos`), and how far
it is in reading q's (`ReadPos`). A channel holds, in increasing order, exactly
the planned slots from its reader's position up to its sender's, and no reader
is ahead of its sender. Every action is shown to move each end of each channel
in one of two ways (`Moves`): past slots nothing is planned in, with the channel
unchanged, or past exactly one planned slot, with one message sent or read. That
these moves keep a channel in order is a matter of sequences alone
(`SenderSends`, `ReaderReads`). Then the head of a channel is at its reader's
position (`InStep`); a party past the last slot has an empty channel before it
(`ExitIsClean`); and a third unread message would need an answer that its sender
can only have read after the reader had passed the first (`BacklogBound`).

Its second part proves `ShareCorrect` (`SharesCorrect`), and that every execution is one
of `MPC!Spec` without its fairness (`ImplementsIdeal`): every participant prints
the string the circuit has in the clear, once. Knowing what is under way is not
enough here, one must know what it says. `ShareInv` adds to `ChannelInv`:
every message holds the value its slot stands for, in terms of the random bits
drawn (`Contents`); shares of input wires are those dealt, which XOR to the input
(`DealtRight`, `InputShares`); a share of a gate that a party has passed is
the gate's function of its shares before it (`GateShares`), where for an AND gate
it is the XOR of its own product and of what its transfers gave it; the accumulator
is the same XOR over the peers done so far (`Accumulated`); `all_shares` has the
output shares of those read from (`GatheredOf`). With that, correctness of an AND
gate is a statement about one N x N table of bits (`SquareProduct`): row p sums
to the new share of p, a cell on the diagonal is a product of p's own shares, and
two cells that mirror each other are a mask and the same mask XORed
with the two mixed products, so the table XORs to the product of the
parities. The induction over the gates of the circuit (`GatesRight`) is where
"defined before it is read" is needed.

That shares say nothing is a statement about `generate_shares` alone
(`SharesHideTarget`): for every owner, value and party left out, what all the others
hold can be completed in exactly one way to a vector it returns. Its bits are
uniform, so all shares but one are distributed alike for both values. What
the messages of a whole run say is not counted.

Its last part is about `Session`. A session is a behaviour of `GMW`
(`SessionIsEvaluation`), so all of this holds whoever dies, and whatever a process
prints is the right string (`PrintedIsRight`). The types hold too
(`SessionTypes`); `FailureHasCause` (`ExitsAreHarmless`) as, while nobody crashed, a
party that has exited has, by `ChannelInv`, sent all it will ever send and
read all it was sent, so nobody can meet an EOF or a reset; and `ResultNeedsAll`
(`ResultsNeedAll`) as a party whose loop of sends was cut short is dead and stays
at the position at which it died.

`WireProofs` proves for every base, width of an int, buffer and sequence of
frames that `Frames` implements `FIFO` (`FramesAreFIFO`), and `ThrowsForCause`
(`OnlyThrowsForCause`). Counting bytes is not enough, as the reader takes the
number of bytes to expect out of bytes. The invariant `TextInv` says that the
bytes in the stream, with those the two sides hold in their buffers, are the text of
all frames from the reader's position to the sender's, where the text of a frame
is its length word and its bytes; the reader's cursor is at a boundary of that
text (`FrameEnds`). `Ntohl` inverts `Htonl` on every length below the sign bit
(`WordOfHtonl`): a digit expansion of any number of digits in any base, by
induction over the digits.

Its second part proves `SticksOnlyInGossip` (`OnlyGossipSticks`), and that runs with an
output that does not fit never end (`LongOutputsStick`: everybody keeps a send of the
output and all its reads before it), for every number of parties, list of owners, number
of AND gates and length of messages and buffers. The second says of all instances
what the violation of `EveryRunEnds` shows of one. A list of calls says nothing of who
waits for whom, so first every call gets a slot (`Calls`, `Call`): a round of slots
per input line, per AND gate, and for the gathering, with the transfer of p and q
in three slots from 3(p + q) on. `ProgramCover` shows that the program of a party
is its calls in the order of its slots, and `SameSlot` that before the gathering what
one party sends the other reads in the same slot. The invariant `Placed` says that
each party stands in one slot, that each pipe holds what has been put into it up to
the sender's place less what has been got from it up to the reader's, and that
with an output longer than the buffers nobody is past the loop of sends: the first
to get out of it would have put more into a pipe than it holds, as nobody reads
yet (`SendFills`). In a state in which nobody can move, the party in the least slot
cannot be before the gathering: its peer stands in the same slot, and then one
of the two can move, or further on, and then its bytes are there or room is
(`LastMoves`). A party that waits for a read in the gathering waits for one that still
sends (`SomeoneSends`), and one that cannot send has filled the buffers. How many
calls are left in the loop, which is what these statements speak of, is a matter of
counting slots (`CallsLeft`).

`BytesProofs` proves `RoundTrip` (`MessagesRoundTrip`) and `ReadsInside`
(`MessagesReadInside`) for every set of strings and keys, size of a byte, a `size_t`
and a block, and number of options. A message is laid out at positions e[0], ..., e[l]
(`Laid`), where from each one a word with the length of the next string and then
the string reach to the next, and the last is the end; every message and every wrapper
has such positions (`Layout`), as concatenation keeps each piece at its place. The
reader does not know them: it finds each by reading the word at the one before. So the
invariant says that it stands at one of them and has the strings before it
(`ReadSome`), that a word reads back as the number that was written (`ReadWord`, for
any number below the range of a `size_t`), and, across the two objects it reads one
after the other, in which phase it is (`Phase`): in the wrapper of the message, in the
message, returned with all of it, or stopped at its first byte as another type was
expected. From the wrapper to the message leads that decryption undoes encryption
(`Ciphers`): a sum modulo the base is taken back byte by byte, and the last byte says
how much padding there is.

Its second part proves `ChosenKeyOnly` (`ChosenKey`) and `OnlyIdentityRefused`
(`IdentityRefused`) for every modulus, every generator of prime order, every base and
length of blocks that hold the modulus, and every number of options up to the order.
Nothing about numbers is assumed: powers modulo P add up and multiply (`ExpAdd`,
`ExpTimes`), they return to 1 exactly at the multiples of Q (`Order`, from Q being prime by
`Euclid`, which takes the least positive number whose product with the other factor Q
divides), and each has an inverse that is a power again (`Inverses`). A number that
is encoded in enough digits is decoded to itself (`Encoded`), and padding a block
without its leading zeros gives the block with them (`PaddedEncoding`), so what
`integer_to_byteblock` leaves out never matters (`Blocks`). The invariant `KeyInv` says of
each block which power of G it encodes. The receiver's key has the exponent a*b, that
of the sender at option i is a*(b + a*choice - a*i), and these are equal modulo Q only at
the choice, as options differ by less than Q (`OtherKeys`); the exponent of a base is
a multiple of Q exactly when the base is the identity (`Exponents`).

The same facts give `KeysAreInAGroup`: the powers of G with products, powers and inverses
modulo P, the private values 1..Q-1 and the options are such a group as `TransferGroup`
describes. So `OTProofs` does not rest on laws that the program's integers might not have.

`FilesProofs` proves `OwnersDecide` (`WiresShared`) and `ThrowTogether`
(`NobodyStopsAlone`) for every number of parties and all files. Both speak of files
that name the same owners, which nobody checks and no step changes, so the invariant
is about all files but says much only of those: then each channel holds the
shares of its sender's lines from the reader's line up to the sender's
(`ChannelsOf`), where the shares are those of one list `dealt` of what owners drew, which XOR to the owner's
value, a bit or not (`SharesOfTarget`, `SharedValue`); every party has what was dealt of the lines it is past (`SharesOf`); and all lines it is past
name a party (`PlaceOf`). An owner can draw the shares of a line as
nobody is past that line yet, which the channels say too. That the owner of the line
somebody waits at has ended cannot be: its own line would name nobody, and
lie before the one the other is at (`OwnerGoneStep`).

Its second part proves `WholeLinesRight` (`WholeLinesAreRight`), `StaysInRange`
(`GatesStayInRange`) and `MissingBecomeNot` (`MissingGatesAreNots`) for every list of
lines, every place the file can end at and whatever the locals hold at first. The
invariant says that the loop keeps in step with the lines up to the end of the
file (`ReadInStep`: what is left to read is the text from `Consumed` on), that the gates
made so far are those of the lines that are there in full (`GatesSoFar`), that
after the first whole line of two inputs the locals name wires (`LocalsInRange`), and that
after an end between two lines every turn finds 1 in `tmp`, and in `lhs` and `output`
the first input and the output of the last line, of which it makes a NOT
(`AfterTheEnd`). What one line breaking off leaves in the locals has to be known to
say what the next turn makes of it (`PartLine`, `MissingLine`).

`Basics` gives the induction that `GatesRight`, the parities of `GMWProofs`, the
digits and totals of `WireProofs` and the powers of `BytesProofs` rest on; the facts about
quotients, remainders and positional numbers those need (`Remainder`, `Quotients`,
`RecursivePowers`, `HornerStep`); what `GMWProofs`, `WireProofs` and `FilesProofs` need to know of sequences that list
a plan in order (`InOrder`), and where each piece is in what `FlattenSeq` makes of
the pieces (`FlattenPieces`). The induction theorems of the library
take an operator as a parameter, which the provers cannot instantiate; stated over
sets of naturals the same fact follows from the library's theorem that
finite sets are well-founded by inclusion, as 0..n-1 is included in 0..m-1 when
n < m.

`SetupProofs` and `SetupFaultsProofs` prove the invariants of the setup for every
number of parties. `LinkInv` says, link by link and from the control points of
its ends alone, what is under way and which keys are there: one public value in
each direction, the lower party's first, then shares. It is kept as long as a
party reads from the peer it takes its socket for. Why it does differs. When
handshakes complete at once, `QueueInv` shows that parties reach every accept
queue in the order 0, 1, 2, ...: a party dials nobody before it has accepted all
parties below it, and each of these dialled all parties above before it;
that gives `SocketsLabelled` (`AcceptInOrder`), and with `LinkInv` `KeysAgree`
(`LinkKeysAgree`) and `NothingLeftOver` (`SetupLeavesNothing`), whoever dies.
When handshakes can be late the sockets may be labelled wrongly, and `LagInv`
says of them only that nobody is in two of them (`CallersOf`) and that those
already read from were right (`RightSoFar`). The order of the reads does the
rest (`ReadsFromRight`): were p to read the value of r in the place of i, then r
would have the value of i, which would have p's, which p has not sent. So a party
that gets through has all sockets right (`MislabelledNeverReady`), and keys agree
there too (`KeysAgreeWhenLate`).

The assumptions are those of the modules: at least one party, no late handshakes
in `SetupFaults`, an even base in `Frames`, gate lines of the two forms the circuit files have in
`Bristol`, input lines whose parts are ints or something `std::stoi` throws at in `Inputs`, and for `GMW` a circuit whose indices are in range. The shares alone also need that wires are written once
and defined before they are read, that the output wires are among them, and that
`Value` is an evaluation of the circuit: what the circuit files of the repository
satisfy and `parse_circuit` does not check.

In `Messages` the lengths of all messages, with their padding, fit a `size_t`
(`SizesFit`), which is what a vector in memory guarantees. In `KeyBlocks` Q is a prime and
the order of G, and P fits the block: so for the constants `DL_P`, `DL_Q` and `DL_G`
of `constants.hpp`. That P is prime is not needed. `KeysAreInAGroup` is
about as many options as `KeyBlocks` has; `OT` has the four of the program.

Only model-checked: liveness (`OnlyCrashesHurt`, `LinkedEnds`, `EveryoneStops`,
`BothReturn`, `AllArrive`, `ShortOutputEnds`, `NobodyWaits`, the fairness parts
of `ImplementsMPC` and `ImplementsIdealOT`), which is out of the prover's reach. Every
invariant and every action property of the passing runs is also proved.

## 5. Not modelled, and what comes next

Not modelled on purpose:

* `OTDriver`: its bodies are commented out and nothing constructs it.
  `CLIDriver`, the logger and log lines: output only.
* The bits of AES, HKDF and SHA-256 (Crypto++), and how random their generators
  are. `hash_inputs`, `put_bool`, `put_integer` and their readers: not called.
* Address files (`parse_addrs`): taken to be well formed and the same for all
  participants. The header of a circuit file, tokens that
  are cut in the middle or are not numbers, and gate names longer than the buffer
  they are scanned into.
* What gates and the output make of a wire whose value in the input file is not 0
  or 1: `Inputs` follows such a value up to its shares, but `GMW` and `MPC` compute
  with bits. (A share with more digits would also shift those after it in the output.)
* The destruction of the static acceptor after `main` (listed as a hazard).
* `disconnect` of the network driver: nothing calls it.

Done: the protocol (`GMW`), the transfer (`OT`), the setup, deaths (`Session`,
`SetupFaults`), the connection (`Frames`, `Blocking`), messages and key blocks,
files; proofs of every safety property. What is left, in order of importance:

1. What the messages of a whole evaluation tell a set of parties that pool them:
   `SharesHideTarget` counts for one call of `generate_shares`.
2. Circuit files whose tokens are cut in the middle or are not numbers.
