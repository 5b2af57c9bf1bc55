# RemoteDrone: a verification development

RemoteDrone (C, `src/`) connects a drone and a base station over UDP or a pipe.
The two establish a session key (ECDH with signatures), then exchange
authenticated messages: commands and status updates, which are acknowledged, a
video feed, which is not, and signs of life. Each side is one process that
loops over `stateMachineBaseStation` or `stateMachineDrone`; a thread beside the
drone's loop collects the live feed.

This directory holds TLA+ models of the protocol, of the buffers around it and
of the algorithms under it, the TLC configurations that check them, and proofs
for TLAPS.

## The system

| Part | Code | State | Operations | Interacts through |
|---|---|---|---|---|
| Sequence numbers | `sm/enc_dec.c:3-25` | none | `addOneSeqNb`, `addMultSeqNb`, `diffSeqNb` | called by all channels |
| Key establishment (KEP) | `sm/bs_kep_sm.c`, `sm/drone_kep_sm.c` | `KEP_ctx`, `kepState`, `sessionKey` | one handler per state, one state per iteration | `receivedMessage`, `systemState`, four message types |
| Request machine | `sm/session_req_sm.c` | `MESS_ctx`, `messState` | idle, encrypt, send, wait, verify | `receivedMessage`, input and output callbacks, `systemState` |
| Response machine | `sm/session_res_sm.c` | `MESS_ctx`, `messState` | idle, verify, react, ack, nack, send | the same |
| Channel set-up | `sm/session_init_sm.c` | `MESS_ctx` | `init_COMM_ctx`, ... | called at power-on and by `clearSession...` |
| Loops | `main/main_base_station.c`, `main/main_drone.c` | `systemState`, `receivedMessage` | poll, dispatch to five machines, start, quit, clear | all of the above, keyboard |
| Decoding and checks | `sm/enc_dec.c:120-437` | `receivedMessage` | `pollAndDecode`, `checkReceivedMessage`, `encodeMessage` | framing, video buffer |
| Video buffer | `sm/enc_dec.c:27-118` | `video_buffer`, `video_valid`, `nbFreePlaces` (static) | remove, flush, copy | `receivedMessage`, `feed.expectedSequenceNb` |
| Framing | `sm/udp_io.c`, `sm/udp.c:66-115` | `IO_ctx`, packet buffer | `transmit`, `receive`, `send_message`, `receive_message` | bytes on the network |
| Live feed | `sm/check_input.c:47-117` | `feedBuffer`, `readOffset`, `writeOffset`, `FEED_ACTIVE` | the thread `monitorFeedInput`, the callback `checkFeedInput` | shared variables without a lock |
| Input and output | `sm/check_input.c`, `sm/write_output.c` | `FEED_ACTIVE`, `STAT_ACTIVE`, `LAST_CHECK` | callbacks of the channels | flags, clock |
| Numbers, curve, signatures | `crypto/mod_arithmetic.c`, `ec_arithmetic.c`, `ecdh.c`, `ecdsa.c`, `general/params.c` | none | arithmetic modulo p and n, `pointAdd`, scalar multiples, sign, check | called by KEP |
| Ciphers and hash | `crypto/aes.c`, `aegis.c`, `sha3.c` | contexts on the stack | AES, AEGIS-128, SHA3-256 | AEGIS by every message; SHA-3 by signatures; AES by the generator |
| Random bits | `crypto/crt_drbg.c` | key, counter, entropy buffer | seed, reseed, generate | called by ECDH and ECDSA |

What makes the system hard to test, with the line each hazard bites at, is the
list `hazards` in `PROJECT.json`. In short:

- **One received message, many readers.** An iteration polls unless a message
  is pending, and runs each state machine for one step. A machine handles a
  message over several iterations, so it matters when exactly a handler marks
  the message used. In a session five machines share it.
- **A network that loses, repeats, delays and damages messages**, those of
  earlier runs and sessions included, against retransmission with a limit.
- **Numbers that wrap around** and skip 0.
- **State that outlives a session**: the received message, the video buffer,
  the expected numbers, the flags.
- **Messages read in pieces.**
- **Two threads and a ring buffer** with two offsets and no lock.
- **Code that hardly ever runs**: carries, equal points, full blocks.

## Modules

| Module | Models | Correctness |
|---|---|---|
| `SeqNb` | the operations on sequence numbers, for any width | the operations agree with counting messages |
| `KeyEstablishment` | both KEP state machines and the loops around them | `SessionAgreement`: agreement on key and numbers, one session per contribution; KEP ends |
| `SessionAgreement` | (abstract) offers, numbers of offers that are spoilt, sessions entered and adopted | |
| `KeyEstablishmentInv` | the inductive invariant | |
| `Session` | one acknowledged channel, request and response machine, over several sessions | `ReliableChannel`: in order, at most once, in its session; acknowledged means done; a request ends |
| `ReliableChannel` | (abstract) requests made and carried out | |
| `Dispatch` | one process in a session: five machines, one received message, the keep-alive, a peer that may be gone | a message being handled stays; one handler; polling never stops; a session whose peer is gone ends |
| `VideoBuffer` | the feed as the base station receives it | order of pictures; the count of free places |
| `Framing` | byte stuffing, packets, reassembly | messages intact, in order, eventually; length bound |
| `FeedRing` | the thread of the live feed, the ring buffer, the loop that empties it | packets fit; in order and complete until an offset turns back |
| `ModArithmetic`, `Curve`, `Ecdsa` | long numbers word by word, the curve, key agreement and signatures | arithmetic modulo a number; the group law; both sides agree; signatures verify |
| `Aes`, `Aegis`, `Sha3` | the ciphers and the hash, byte by byte | the standards; messages open, damaged ones do not |
| `Drbg` | where the generator's entropy comes from and goes | every byte is used once |
| `Standards` | (reference) the curve's group law, AES and SHA3-256 as their standards define them | |
| `MCAlgorithms` | the algorithms on bounded inputs | one invariant per algorithm |
| `SeqNbProofs`, `KeyEstablishmentProofs`, `SessionProofs`, `DispatchProofs`, `VideoBufferProofs`, `FramingProofs`, `FeedRingProofs`, `AlgorithmProofs` | theorems and proofs | |
| other `MC...` | small instances for TLC | |

`KeyEstablishment`, `Session` and `VideoBuffer` extend `SeqNb`. `Session` and
`VideoBuffer` let sessions begin as `SessionAgreement` says, which
`KeyEstablishment` is shown to implement: the drone enters a session under a
fresh key while the base station is in none, and the base station adopts the
session the drone entered, with matching numbers. `SessionAgreement` promises those
in both directions except after one mishap, a damaged number in KEP3 (see
*What the MAC does not cover*): then the drone may expect another number than the
base station will send. `Session` and `VideoBuffer` say nothing of such a session.

### How state and actions correspond to the code

**An action is one iteration of the loop of one process**: the poll at its head
(`Polled`), unless a message is pending, and the whole handler of the current
state. This is where the interleaving with the poll comes from, and it is why a
handler that marks a message used and leaves its contents for the next state is
visible in the model. `Message_valid` and `Message_repeated` keep their names;
all statuses that leave nothing to handle are `Message_used`, except in
`Framing` and `VideoBuffer`, where they matter.

**Network.** `net` is the set of all messages ever sent. A poll yields nothing
or any of them, so loss, repetition, delay and reordering are all there, across
runs and sessions. During key establishment that includes messages of earlier
sessions (`MESS`): they are compared with a number of their own channel, so they may
have any status, and the handlers' last branches retransmit because of them. With
`BitErrors` (`damage` in `Session`), what is put on the
network may be damaged instead. Where the MAC covers the damaged byte, the MAC
fits no key any more. Elsewhere a field changes unnoticed: the point and the
number of KEP1, which has no MAC, and what stands in the last block of the header,
which the MAC does not cover (`aegis_ad` below): the number of KEP3, the number KEP4
acknowledges, the number of a request, the number an answer acknowledges.

**Cryptography.** A contribution to the key is a fresh number, a key is the pair
of both contributions (the shared point is symmetric in them). A MAC verifies
under the key it was made with; signatures cover the two points the key is made
of, so they verify in the same cases. Nothing else is assumed.

**Time.** A timeout may expire whenever a machine waits. In KEP a pending
message goes first; in `MESS_wait` the timeout goes first. Both as in the code.

**Undefined values.** The feed's expected number before the first session
(`VideoBuffer`) is whatever memory held. So are the states of the two ALIVE
machines at power-on: `initializeBaseSession` and `initializeDroneSession` do not
set them, in a structure on the stack of `main`; only clearing a session does.
`Dispatch` takes them from `PowerOnStates`. A machine that powers on in
the middle of handling a message uses up whatever is pending. The machine whose
message that was then uses up the next one, and so on for as long as messages come
without a pause. So the claims about the shared message begin when, for the first
time, no machine is handling one (`settled`, a history variable that only the
properties read): at the next pause or the end of the first session, at the latest.
From then on they hold in that session and all later ones. Such a machine may also
follow a null pointer to a message that never came, which ends the process.

`Dispatch` leaves contents open (does a MAC verify, does a number fit) and runs
the five machines one after the other in the order the code gives them; `Session`
has the contents for one channel. The keep-alive is `lapsed`: more than
`MICRO_INTERVAL` has passed since `LAST_CHECK`. Once the peer is gone, what arrives
is copies of old messages and messages of strangers, nothing new and authentic.

`Framing` models the scan of the buffer a byte at a time; `polling` says whether
control is inside `receive`.

**Threads.** In `FeedRing` a step is one access of a thread to a variable the
other may change, so an expression that reads an offset twice is two steps. The
offsets are aligned 32-bit integers, so an access is not torn. A byte of the feed
is its number, so what the loop is handed shows what was lost or repeated.

**Algorithms** are operators that return what the code leaves behind its
pointers; arrays start at 0, words wrap around. `ModArithmetic` and `Curve` have the
width of a word, the number of words and the curve as constants; tables of
`params.c` are computed from them. `Curve` takes products, sums and differences modulo
p as those of numbers, which `ArithmeticIsModular` shows the words of `ModArithmetic`
to compute; inverses and everything modulo n it computes with words. AES, AEGIS and SHA-3 are at their real size.
In `Drbg` a byte is the place it was read from; what AES makes of it is left out.

**What the MAC does not cover** the protocol modules take from `Aegis`: the last
block of the associated data. In KEP2 that block holds the end of the curve point,
which the signature covers. In KEP3 it holds the message's number, which nothing
covers. `KEP2_wait` also takes a KEP3 with `Message_repeated`, and `KEP4_verify`
takes over its number (`drone_kep_sm.c:119-121`, `169`), so if damage turns that
number into the one before it, the drone enters the session expecting a number the
base station never sends next. `NumberKept` says of a key that no KEP3 was
transmitted under it with another number than the base station gave it; the
agreement on the numbers of that direction is claimed for such keys only, that
on the key and on the other direction's numbers for all. `Session` has lines on which
damage always shows (`covered`) and lines on which it does not (`anywhere`). On the
latter a request may be taken for another and an acknowledgement for that of
another request, so order, at most once and the numbers are claimed for the former
only (`DamageShows`), and for the latter that requests end. `Dispatch` leaves open
what a message contains, and in `VideoBuffer` the number of a picture is intact.

## Runs

| Run | Question | Result |
|---|---|---|
| `algorithms` | do the algorithms compute what their reference definitions say | holds |
| `kep_reorder` | agreement, inductive invariant and refinement, two runs each side, no damage | holds |
| `kep_bit_errors` | with damaged messages, one run: agreement and refinement, on the numbers towards the drone as long as KEP3's number was not damaged; KEP ends, also when nothing arrives or damaged messages provoke retransmissions | holds |
| `session` | a channel the base station requests on, over two sessions with numbers that overlap, and two the drone requests on, with damage and NACKs: order, at most once, acknowledged means done, as long as damage shows; a request ends | holds |
| `dispatch` | the shared message, in either program; polling never stops; a half-open session ends | holds |
| `video_buffer` | order of pictures and count of free places, two sessions | holds |
| `framing` | reassembly, on a network with and without order | holds |
| `feed_ring` | the ring buffer: room for packets, nothing lost until it turns back | holds |
| `kep_stale_point` | `KEP2_compute` uses the KEP1 its predecessor saw | **violated** |
| `video_flush` | a full buffer loads the lowest number | **violated** |
| `feed_wrap` | the loop is handed bytes of the feed it has not had | **violated** |
| `aegis_ad` | the MAC covers all of the associated data | **violated** |

All finish within three minutes on two cores.

The four violations are disagreements between a comment in the code and what the
code does; `findings` in `PROJECT.json` quotes both. They are consistent with
the properties that hold.

- *`kep_stale_point`.* The model continues past `KEP2_compute` without a point as
  `Crashed`, so the agreement is also checked in runs in which it occurs.
- *`video_flush`.* A forced flush that is out of order loses pictures, but never
  shows one late (`ShownInOrder`).
- *`feed_wrap`.* The writer starts again at the front without saying where it
  stopped; the reader turns back by its own rule and counts what is available by
  a third. No access leaves the buffer on the writer's side (`PacketFits`).
- *`aegis_ad`.* `associatedData` copies the last block from `ad`, not from `ad + i`.
  Both sides do, so everything opens (`IntactMessagesOpen`).

Three more disagreements are visible in the definitions but have no run.
`MESS_verify` marks a message used before its number is acknowledged; in KEP4 the
acknowledged number is that of the message received last (`KEP4_compute`), and the
base station's check makes such a KEP4 a KEP4 that is not accepted.
`ECInValidRange` is said to accept the numbers in [1, ..., n-1]
(`ec_arithmetic.c:3-5`), but refuses those of them whose top word is that of n
(`ScalarsInRange`, and the theorem `ValidRange`); for P-256, with words of 32 or
64 bits, that is about one number in 2^64. And the rest of a message that is too long
is decoded as a message of its own when it is read in two polls (`Incomplete` in
`Framing`), where it still has to pass the checks and the MAC.

### Bounds and why they are enough

- *Sequence numbers* have 6 to 13 values instead of 2^32. Every run starts next to
  the wrap-around, so it is crossed; the theorems of `SeqNbProofs` hold for all
  widths. `Session` needs more numbers than requests in a session, and
  `VideoBuffer` that no message comes into the window a second time
  (`SessionAssumption`, `VideoBufferAssumption`): a session of the code ends
  long before 2^32 messages.
- *Runs and sessions*: two, so that messages, caches and buffers of an old one
  meet the new one. `kep_bit_errors` and the status channels of `session`
  have one, with damage.
- *Damage* leaves a number of `DamagedSeqNbs`: in `session` one that the next
  request may carry, in `kep_bit_errors` the number of KEP1: a KEP3 with it counts as
  repeated and is taken, and a KEP4 that acknowledges it is refused.
- *Transmissions*: 2 or 3 instead of 10: first, repeated, and used up.
- *Requests*: 2 per session: the number before, the current, the next. On the line
  with damage anywhere 1: only its end is claimed.
- *States at power-on*: those in which no message is being handled. The theorems of
  `DispatchProofs` hold for all eight. (So do the two liveness properties, with a limit
  of one transmission, but TLC takes longer than is useful beside the other runs.)
- *Video buffer*: 2 places, a window of 3, up to 5 messages in a session: the
  buffer fills before the window ends, and messages leave the window.
- *Framing*: two messages of 1 or 2 bytes over the alphabet of `ESC`, `FLAG` and
  a plain byte, every pair of them. Packets of 3 bytes hold some stuffed messages
  and cut others, between an `ESC` and its byte among other places; the remains
  of two may exceed the longest message.

- *Ring buffer*: 13 bytes for packets of 2 and messages of 4, and 15 bytes sent: an
  overrun, which leaves five packets, happens, as does turning back on either
  side, at different places; `Word` is large enough that only differences that are
  negative in the code wrap around.
- *Long numbers*: three words of two bits, all pairs below p = 59 and n = 53: every
  carry there is, through a word that is all ones and out of the top word among
  them. The curve shares with P-256 what the code relies on: a = p - 3, odd prime
  order, top words of p and n that are all ones and above b's (which is why
  `ECInValidRange` gets away with comparing with b). Every pair of points is added,
  with Z coordinates that are 1 and that are not.
- *Bytes*: every value of a byte through the rounds of AES, in every place for some
  of them; messages with and without payload and with a last block that is not
  full, and associated data with a last block of 4 and of 16 bytes; hashes of up to
  two blocks, around the length at which the padding needs a block of its own, in
  one call and two.
- *Entropy*: every length the source may deliver, up to a full buffer of 256, and
  enough calls for the counter to wrap around.

`MaxRuns`, `MaxSessions`, `MaxRequests`, `MaxFeed`, `MaxMessages` and
`MaxReceived` are bounds of the model only; the other constants are the code's
parameters.

### Fairness

The loops run forever, so the iterations of a process are weakly fair. Starting,
quitting and everything the network does are not fair; in particular no message
need ever arrive. Timeouts: in KEP a machine that keeps waiting is eventually
past its timeout (`WF` of the timeout actions). In a session the timeout is
looked at before anything else, whenever the machine waits, so a machine that
waits again and again, having handled messages in between, must still see it
(`SF` of `MESS_timeout_Req`): time is the same clock in all those visits.
In `Dispatch` an iteration with a pending message is weakly fair; that the
interval of the keep-alive passes is weakly fair (`Lapse`); the request ALIVE that
waits again and again is eventually past its timeout (`SF` of `AliveTimesOut`, as
above); and between messages the loop sometimes finds nothing to receive (`SF` of
`Quiet`). The last is a real assumption: while a message for the responder of ALIVE
is pending the requester gets no turn, so a stream of such messages without a
pause would keep a half-open session up.
In `FeedRing` both threads are weakly fair: the operating system schedules them and
the loop calls `checkFeedInput` again and again. The model reads `FEED_ACTIVE`
whenever the source does; it is not volatile, so a compiler may do otherwise.
`Framing` needs, for `AllArrive` only, that a packet on a reliable pipe is not on
its way forever (`SF` of `Read`).

## Proofs

`KeyEstablishmentProofs` proves, for every value of the constants (any number of
runs, transmissions, numbers, with or without damage):

- `TypeCorrect`: `Spec => []TypeOK`
- `Inductive`: `Spec => []IInv`
- `BaseAgreement`, `DroneAgreement`, `SessionsAreDistinct`: the three agreement
  properties
- `Implementation`: `Spec => ImplementsAgreement`, the refinement of
  `SessionAgreement`.

The argument. The agreement is not inductive: whether the base station is right
to trust a KEP4 depends on where the KEP4 may have come from. `IInv`
(`KeyEstablishmentInv`) says that (1) an offer uses a point the base station
drew and no two use the same; (2) a session was offered and uses a point the
drone drew, and some KEP3 under its key announced the number the drone expects;
(3) a KEP3 on the network whose MAC verifies belongs to an offer, and such a KEP4 to
a session, numbers included; (4) between drawing a point and using it, no offer and
no session contains it; (5) while the drone is in a session, its key and numbers are
that session's. The MAC of a KEP3 says nothing of its number, so (2) only has a KEP3
that announced it; that this is the number of the offer follows if the key's number was
kept (`NumberKept`), which is where the exception in the agreement comes from. Each action is one step of the induction, and TLC checks `IInv`
in `kep_reorder`. The refinement needs nothing more: every action of the base
station keeps its abstract state, leaves, offers, adopts or spoils the number of an
offer by transmitting a KEP3 that gets damaged (`BsMoves`), every action of the drone
keeps, leaves or enters (`DrMoves`); that the drone enters
under a contribution of the base station no session used follows from no two
offers sharing one. The assumptions are the named `ASSUME`s on the constants.

`SeqNbProofs` proves that the increment is the addition of one, that additions
compose, that distance and addition are inverse to each other (on the numbers a
message may carry), and that the two tests of the feed window accept the same
messages, for every width and window.

`FeedRingProofs` proves for every size of the ring buffer, of packets and of
messages, and for any length of the feed:

- `TypeCorrect`: neither offset runs away;
- `PacketsFit`: the thread never receives a packet beyond the end of the buffer;
- `InOrder`: `InOrderUntilTurned`.

The invariant is `IInv`: the bounds of the offsets where the threads are about to
use them (`RoomOK`), and, as long as no offset has turned back (`OrderOK`), that the
buffer holds the feed up to what was received, the reader is where it has
delivered to, and what it is about to take ends before the writer. It holds
although either thread acts on an offset read earlier, because until then the
writer only moves ahead. That the difference of the offsets, taken modulo the
word, is the difference, is `Unsigned`.

`SessionProofs` proves for every number of sessions and requests, every limit on
transmissions, every width and first number, every line with or without damage:

- `Typing`, `Acknowledged` (`AcknowledgedIsDone`), `InStep` (`NumbersStayInStep`);
- `Implementation`: `Spec => ImplementsChannel`, the refinement of
  `ReliableChannel`.

None of these is inductive, because an old request or acknowledgement may turn up
at any time. The invariant `IInv` says (1) whose key every message, cache and
process has, and what a machine in a state relies on (`KeysOK`, `StatesOK`);
(2) that either history is the requests of the session in order, the responder's at
most one behind (`HistoryOK`); (3) that every message with a MAC bears the number of
the request it carries or of a request that was handed over, and either side's
number is that of the request it is at (`Numbered`). The third speaks of the first
number of a session that may be long over, which no variable keeps, so the
invariant says that there is a function `first` that gives it for every session,
and every step extends or keeps it. Without damage that the MAC does not show, the
numbers then tell a new request from an old one.

`DispatchProofs` proves, for either program, every limit on transmissions and every
state the ALIVE machines may power on in, `Typing`, `MessageStays`
(`HandledMessageIsThere`) and `HandledOnce` (at most one machine handles a message:
`OneMachineHandles`). The invariant `Sound`, which takes hold once the process has
`settled`, says which message a machine that handles one relies on, and the rest of
the invariant that without a session no machine handles one: KEP may leave a message
pending. That it takes hold is immediate, since a
process in which no machine handles a message satisfies it. One call of one machine leaves
the states of the others alone, keeps the message or uses it up, and does not touch
a message that is not for it (`Good`); since the machine a message is for is called
first, every later call finds a message that is not for it or none (`LaterCall`).

`VideoBufferProofs` proves for every size of the buffer, window, width and number
of messages:

- `TypeCorrect`, `PlaceToSpare` (`FreePlacesCounted`), `InOrder` (`ShownInOrder`).

The order rests on the invariant that a message of the latest session bears the
number of its index, and that the expected number is that of an index beyond all
that was shown; the window being shorter than a cycle, a message in it is then not
an old one. What `flushVideoBuffer` chooses is the least element of a set of
distances; that there is one (`Least`) follows from the library's theorem that < is
well-founded on the natural numbers. `force` is 0 or 1, as
the `uint8_t` of the code.

`FramingProofs` proves for every set of messages, any number of them, every length of
messages and of packets:

- `TypeCorrect`, `Orderly` (`InOrderIntact`), `Intact` (`EachIntact`).

The invariant `Inv` says, for a network that keeps the order, that the receiver is in the
first message that was not received and that what is pending (`Pending`, the buffer
and the packets not yet read) is the rest of that message and the messages after
it; for one that does not, that it is in some message that was sent, of which the
rest is in the buffer. `Reading` is the place in a message, and `ReadByte` says what
the next byte does to it: it leads to a later place in the message, and only at the
end is it a FLAG that is not escaped. A message is never too long on the way,
because the receiver has room for one byte more than the longest. Stuffing and
packets are made with `FlattenSeq`, which is recursive; what the proofs need of it
(`FlattenConcat`, `FlattenCons`, `CutWhole`: the packets of a string are the string
again) is shown by the absence of a least counterexample (`Least`), in place of
an induction. The run `framing` is the small instance.

`AlgorithmProofs` proves for all parameters what `algorithms` checks on small ones,
as far as it can be proved. Five of the theorems are invariants of `MCAlgorithms`,
whose inputs of the kinds they speak of are all the numbers there are (`InputsAre`,
what an input consists of, is the inductive invariant):

- `SeqNbsAgree` (`SequenceNumbersAgree`), from the theorems of `SeqNbProofs`;
- `ModularArithmetic` (`ArithmeticIsModular`): `mod_add`, `mod_sub` and `montMul`, for
  any number and width of words and any odd modulus. `Part(a, k)` is the value of the
  lowest `k` words, and a carry or borrow after `k` words is what it is short of.
  `montMul` adds up the product row by row (`RowsAre`), and then clears it from below,
  word by word, with multiples of the modulus (`RowsCleared`): what is left is the
  product divided by R, less than twice the modulus;
- `InversesAreInverses` (`InversesInvert`): `mod_inv` for any odd prime modulus.
  `Inverting` is the loop invariant (of the two numbers being reduced each is the
  argument times its companion, modulo the modulus, and they have no common divisor);
  their sum falls in every round, so the loop ends (`LoopExists`);
- `ValidRange` (`ScalarsInRange`): `ECInValidRange` compares with `b` where `n` is meant,
  and yet accepts only scalars in range, as `b`'s top word is below `n`'s: only the top
  word ever decides. It refuses scalars with `n`'s top word;
- `EntropyIsUsedOnce` (`EntropyUsedOnce`): any sizes of the buffer and of a seed. The
  invariant `Counted` is that what was copied so far is in one seed, once
  (`OnceUpTo`), and the rest of the buffer fresh; the loop runs often enough
  (`ReseedsAll`); later calls find nothing to read (`LaterCall`), for a counter that
  cannot get to `RESEED_INTERVAL`. `CallsCount` says it of any number of calls.

Two theorems are about operators only:

- `FieldOperations`: `mul`, `plus` and `minus` of `Curve`, which look their results up
  as numbers modulo p, give the very words that `montMul`, `mod_add` and `mod_sub`
  compute, so what `Curve` is abstracted to is what the code does;
- `SealedMessagesOpen`: for every key, IV, header and payload of any lengths, what
  `aegisEncryptMessage` makes of a message, `aegisDecryptMessage` accepts, and gives the
  message back. It is the first half of `IntactMessagesOpen`. The exclusive or is its own
  inverse (`XorTwice`, from the bits); encrypting and decrypting go through the same
  states, since both take up the plaintext, zeros after its end (`XcryptOpens`); equal
  states have equal tags.

The assumptions are the named `ASSUME`s: `ModAssumption`, `CurveAssumption` (p and n
are odd primes that fit the words, n above half of what fits, and the top word of b is
below that of n: all true of P-256), `DrbgAssumption` (a counter of 64 bits never gets
to 2e48). TLC evaluates them for the small instance. The functions of these modules are recursive up to a bound,
and such a function is the value of a `CHOOSE`: `Recursion` shows once that there is
one, and `UpTo` follows it from one argument to the next, in place of an induction
theorem.

Only model-checked:

- `GroupLaw`, `SecretsAgree`, `SignaturesVerify`: they rest on the group law of the curve,
  its associativity above all, which is algebra of high degree that the provers do not
  find; the arithmetic below them is proved;
- `RoundsAreStandard` and `HashIsSha3`: agreement with a standard on chosen inputs; for
  all inputs this is a computation over tables, not an argument. The four tables of
  `aes.c:3-265` are given by the formula they follow, not entry by entry: what is
  checked is how they are indexed and put together, and a wrong entry in the source
  would not show;
- the second half of `IntactMessagesOpen`, that a damaged message is refused: of a MAC of
  128 bits this is true of the inputs tried and of nearly all, and not of all;
- all liveness (`AllArrive` and the other leads-to properties), which is out of the
  prover's reach, as is `ENABLED`.

## Not modelled

- Field offsets and byte order of messages; a message is a record of its fields.
  `lengthNum` is taken to be the length of the message.
- `Block_Cipher_df` and the counter mode of the random generator, which only
  compress and stretch the seeds `Drbg` follows; the Windows branches.
- A packet of length 0, which the code treats as no packet (`FeedRing`).
- The feed from a file (`check_input.c:119-150`), the keyboard, printing, writing
  the feed, `microtime`: input and output without state that anything depends on.
- `RELIABLE_FEED = 1`, and reading from a pipe with `read`, apart from the
  reliable order of packets.
- Creating and closing sockets, start-up (`main.c`), the tests.

## Plan

1. Composition of `KeyEstablishment` and `Session` in place of the session actions
   of `Session`, and of two channels through `Dispatch`.
2. Proofs: that SHA-3 in two calls is SHA-3 in one (the second half of `HashIsSha3`);
   that `AES_ECB_encrypt` and the round of `AESRound` are made of the same steps.
