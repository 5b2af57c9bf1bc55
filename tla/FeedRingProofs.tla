--------------------------- MODULE FeedRingProofs ---------------------------
(***************************************************************************)
(* What the ring buffer of the live feed guarantees for every size of the  *)
(* buffer, of a packet and of a message: nothing is written beyond its     *)
(* end, and the loop gets the bytes in order until an offset turns back.   *)
(***************************************************************************)
EXTENDS FeedRing, TLAPS

\* What the bounds of the offsets rest on: the thread has room for a packet
\* from the moment it has looked for it, and the loop takes no more than a
\* message from a place before the end.
RoomOK ==
    /\ writer.pc \in {"receive", "advance"} => writeOffset + MP4_UDP_SIZE < FEED_BUFFER_SIZE
    /\ reader.pc \in {"rewind", "copy", "advance"} => reader.n > 0
    /\ reader.pc \in {"copy", "advance"} =>
         /\ readOffset + MP4_UDP_SIZE < FEED_BUFFER_SIZE
         /\ reader.n <= MESSAGE_MAX_PAYLOAD_SIZE

\* How far the two offsets are, as long as neither has turned back: the thread
\* at the last byte received, the loop at the last one handed over, and the loop
\* no further than the thread.
ReaderAhead == IF ReaderAt("advance") THEN reader.n ELSE 0
WriterAhead == IF WriterAt("advance") THEN writer.n ELSE 0

OrderOK ==
    ~turned =>
        /\ received = writeOffset + WriterAhead /\ received < FEED_BUFFER_SIZE
        /\ delivered = readOffset + ReaderAhead /\ readOffset <= writeOffset
        /\ \A i \in Positions : i < received => feedBuffer[i] = i + 1
        /\ ReaderAt("available") => reader.ahead
        /\ reader.pc \in {"rewind", "copy", "advance"} =>
             readOffset + reader.n <= writeOffset

IInv == TypeOK /\ RoomOK /\ OrderOK

-----------------------------------------------------------------------------
(* Unsigned differences *)

LEMMA WordPositive == Word \in Nat /\ Word > 0
BY FeedRingAssumption

\* A difference is in the range of an unsigned integer, and is itself if it is
\* not negative and small.
LEMMA Unsigned ==
    ASSUME NEW x \in Int
    PROVE  /\ x % Word \in 0 .. Word - 1
           /\ x \in 0 .. Word - 1 => x % Word = x
BY WordPositive, Z3

\* The threads' locations and local variables.
WriterPcs == {"none", "loop", "space", "overrun", "room", "receive", "advance"}
ReaderPcs == {"idle", "available", "rewind", "copy", "advance"}
Writers   == Locals(WriterPcs, MP4_UDP_SIZE)
Readers   == Locals(ReaderPcs, Word - 1)

LEMMA Typed ==
    ASSUME TypeOK
    PROVE  /\ readOffset \in Nat /\ writeOffset \in Nat
           /\ received \in Nat /\ delivered \in Nat
           /\ writer \in Writers /\ writer.n \in 0 .. MP4_UDP_SIZE
           /\ reader \in Readers /\ reader.n \in 0 .. Word - 1
BY FeedRingAssumption, WordPositive
DEF TypeOK, Locals, Bytes, Writers, Readers, WriterPcs, ReaderPcs

\* What an assignment to the local variables leaves.
LEMMA WriterMoves ==
    ASSUME NEW w \in Writers, NEW p \in WriterPcs
    PROVE  /\ [w EXCEPT !.pc = p] \in Writers
           /\ [w EXCEPT !.pc = p].pc = p /\ [w EXCEPT !.pc = p].n = w.n
BY DEF Writers, Locals

LEMMA WriterReceives ==
    ASSUME NEW w \in Writers, NEW n \in 1 .. MP4_UDP_SIZE
    PROVE  /\ [w EXCEPT !.pc = "advance", !.n = n] \in Writers
           /\ [w EXCEPT !.pc = "advance", !.n = n].pc = "advance"
           /\ [w EXCEPT !.pc = "advance", !.n = n].n = n
<1>1. n \in 0 .. MP4_UDP_SIZE /\ "advance" \in WriterPcs
  BY FeedRingAssumption DEF WriterPcs
<1>2. QED  BY <1>1 DEF Writers, Locals

LEMMA ReaderMoves ==
    ASSUME NEW r \in Readers, NEW p \in ReaderPcs
    PROVE  /\ [r EXCEPT !.pc = p] \in Readers
           /\ [r EXCEPT !.pc = p].pc = p /\ [r EXCEPT !.pc = p].n = r.n
BY DEF Readers, Locals

-----------------------------------------------------------------------------
(* The invariant *)

LEMMA IInvInit == Init => IInv
<1> SUFFICES ASSUME Init PROVE IInv
  OBVIOUS
<1> USE FeedRingAssumption, WordPositive
<1>1. /\ writer \in Writers
      /\ reader \in Readers
  BY DEF Init, Writers, Readers, Locals, WriterPcs, ReaderPcs
<1>2. feedBuffer \in [Positions -> Bytes] /\ 0 \in Bytes
  BY DEF Init, Positions, Bytes
<1>3. /\ readOffset \in 0 .. (FEED_BUFFER_SIZE + MESSAGE_MAX_PAYLOAD_SIZE)
      /\ writeOffset \in 0 .. (FEED_BUFFER_SIZE + MESSAGE_MAX_PAYLOAD_SIZE + 5 * MP4_UDP_SIZE)
  BY DEF Init
<1>4. TypeOK
  BY <1>1, <1>2, <1>3 DEF Init, TypeOK, Writers, Readers, WriterPcs, ReaderPcs
<1>5. RoomOK /\ OrderOK
  BY DEF Init, RoomOK, OrderOK, Positions, ReaderAt, WriterAt, ReaderAhead, WriterAhead
<1>6. QED  BY <1>4, <1>5 DEF IInv

\* What is copied is bytes of the feed, or what was in the buffer before.
LEMMA CopiedIsBytes ==
    ASSUME TypeOK
    PROVE  Copied \in [1 .. reader.n -> Bytes]
BY FeedRingAssumption, SMTT(30) DEF TypeOK, Copied, Bytes, Positions, Locals

\* Before an offset turns back, what is copied continues what was handed over.
LEMMA CopiedIsNext ==
    ASSUME IInv, ReaderAt("copy"), ~turned, NEW i \in 1 .. reader.n
    PROVE  Copied[i] = delivered + i
<1>1. /\ readOffset \in Nat /\ writeOffset \in Nat /\ received \in Nat
      /\ reader.n \in Nat /\ writer.n \in Nat
  BY FeedRingAssumption, WordPositive DEF IInv, TypeOK, Locals, Bytes
<1>2. /\ readOffset + reader.n <= writeOffset /\ writeOffset <= received
      /\ received < FEED_BUFFER_SIZE /\ delivered = readOffset
      /\ \A j \in Positions : j < received => feedBuffer[j] = j + 1
  BY <1>1 DEF IInv, OrderOK, ReaderAt, ReaderAhead, WriterAhead
<1>3. readOffset + i - 1 \in Positions /\ readOffset + i - 1 < received
  BY <1>1, <1>2, FeedRingAssumption DEF Positions
<1>4. Copied[i] = feedBuffer[readOffset + i - 1]
  BY <1>3 DEF Copied
<1>5. QED  BY <1>1, <1>2, <1>3, <1>4

LEMMA WriterKeepsIInv == IInv /\ monitorFeedInput => IInv'
<1> SUFFICES ASSUME IInv, monitorFeedInput PROVE IInv'
  OBVIOUS
<1> USE FeedRingAssumption, WordPositive, Typed DEF IInv
<1>1. CASE WriterLoop
  <2>1. /\ writer' \in Writers
        /\ writer'.pc = "space"
    BY <1>1 DEF WriterLoop, Writers, Locals, WriterPcs
  <2>2. TypeOK'
    BY <1>1, <2>1 DEF WriterLoop, TypeOK, Writers, Readers, WriterPcs, ReaderPcs, Bytes
  <2>3. RoomOK' /\ OrderOK'
    BY <1>1, <2>1 DEF WriterLoop, RoomOK, OrderOK, ReaderAt, WriterAt, ReaderAhead, WriterAhead
  <2>4. QED  BY <2>2, <2>3
<1>2. CASE WriterSpaceLeft
  <2>1. /\ writer' \in Writers
        /\ writer'.pc \in {"overrun", "room"}
    <3>1. PICK p \in {"overrun", "room"} : writer' = [writer EXCEPT !.pc = p]
      BY <1>2, Zenon DEF WriterSpaceLeft
    <3>2. p \in WriterPcs
      BY <3>1 DEF WriterPcs
    <3>3. QED  BY <3>1, <3>2, WriterMoves, Zenon
  <2>2. TypeOK'
    BY <1>2, <2>1 DEF WriterSpaceLeft, TypeOK, Writers, Readers, WriterPcs, ReaderPcs, Bytes
  <2>3. RoomOK' /\ OrderOK'
    BY <1>2, <2>1 DEF WriterSpaceLeft, RoomOK, OrderOK, ReaderAt, WriterAt, ReaderAhead,
                      WriterAhead
  <2>4. QED  BY <2>2, <2>3
<1>3. CASE WriterOverrun
  <2>1. /\ writer' \in Writers
        /\ writer'.pc = "room"
    BY <1>3, WriterMoves DEF WriterOverrun, WriterPcs
  <2>2. writeOffset' \in 0 .. (FEED_BUFFER_SIZE + MESSAGE_MAX_PAYLOAD_SIZE + 5 * MP4_UDP_SIZE)
    BY <1>3 DEF WriterOverrun, TypeOK
  <2>3. TypeOK'
    BY <1>3, <2>1, <2>2 DEF WriterOverrun, TypeOK, Writers, Readers, WriterPcs, ReaderPcs, Bytes
  <2>4. RoomOK' /\ OrderOK'
    BY <1>3, <2>1 DEF WriterOverrun, RoomOK, OrderOK
  <2>5. QED  BY <2>3, <2>4
<1>4. CASE WriterRoom
  <2>1. /\ writer' \in Writers
        /\ writer'.pc = "receive"
    BY <1>4, WriterMoves DEF WriterRoom, WriterPcs
  <2>2. /\ writeOffset' \in Nat /\ writeOffset' + MP4_UDP_SIZE < FEED_BUFFER_SIZE
        /\ turned' \in BOOLEAN
        /\ ~turned' => ~turned /\ writeOffset' = writeOffset
    <3>1. CASE NoRoomForPacket(writeOffset)
      BY <1>4, <3>1 DEF WriterRoom
    <3>2. CASE ~NoRoomForPacket(writeOffset)
      BY <1>4, <3>2 DEF WriterRoom, NoRoomForPacket, TypeOK
    <3>3. QED  BY <3>1, <3>2
  <2>3. TypeOK'
    BY <1>4, <2>1, <2>2 DEF WriterRoom, TypeOK, Writers, Readers, WriterPcs, ReaderPcs, Bytes
  <2>4. RoomOK' /\ OrderOK'
    BY <1>4, <2>1, <2>2 DEF WriterRoom, RoomOK, OrderOK, ReaderAt, WriterAt, ReaderAhead,
                            WriterAhead
  <2>5. QED  BY <2>3, <2>4
<1>5. CASE WriterReceive
  <2>1. CASE writer' = [writer EXCEPT !.pc = "loop"] /\ UNCHANGED <<feedBuffer, received>>
    <3>1. /\ writer' \in Writers
          /\ writer'.pc = "loop"
      BY <2>1, WriterMoves DEF WriterPcs
    <3>2. TypeOK'
      BY <1>5, <2>1, <3>1 DEF WriterReceive, TypeOK, Writers, Readers, WriterPcs, ReaderPcs, Bytes
    <3>3. RoomOK' /\ OrderOK'
      BY <1>5, <2>1, <3>1 DEF WriterReceive, RoomOK, OrderOK, ReaderAt, WriterAt,
                              ReaderAhead, WriterAhead
    <3>4. QED  BY <3>2, <3>3
  <2>2. ASSUME NEW n \in 1 .. MP4_UDP_SIZE,
               received + n <= MaxReceived,
               received' = received + n,
               feedBuffer' = [i \in Positions |->
                                 IF i \in writeOffset .. writeOffset + n - 1
                                 THEN received + 1 + i - writeOffset
                                 ELSE feedBuffer[i]],
               writer' = [writer EXCEPT !.pc = "advance", !.n = n]
        PROVE  IInv'
    <3>1. /\ writer' \in Writers
          /\ writer'.pc = "advance" /\ writer'.n = n
      BY <2>2, WriterReceives
    <3>2. writeOffset + MP4_UDP_SIZE < FEED_BUFFER_SIZE /\ WriterAhead = 0
      BY <1>5 DEF WriterReceive, RoomOK, WriterAt, WriterAhead
    <3>3. feedBuffer' \in [Positions -> Bytes] /\ received' \in Bytes
      <4>1. n \in Nat /\ received' \in Bytes
        BY <2>2 DEF Bytes
      <4>2. ASSUME NEW i \in Positions, i \in writeOffset .. writeOffset + n - 1
            PROVE  received + 1 + i - writeOffset \in Bytes
        BY <2>2, <4>1, <4>2 DEF Bytes
      <4>3. QED  BY <2>2, <4>1, <4>2 DEF TypeOK
    <3>4. TypeOK'
      BY <1>5, <3>1, <3>3 DEF WriterReceive, TypeOK, Writers, Readers, WriterPcs, ReaderPcs
    <3>5. RoomOK'
      BY <1>5, <3>1, <3>2 DEF WriterReceive, RoomOK
    <3>6. ~turned => \A i \in Positions : i < received' => feedBuffer'[i] = i + 1
      <4> SUFFICES ASSUME ~turned, NEW i \in Positions, i < received'
                   PROVE  feedBuffer'[i] = i + 1
        OBVIOUS
      <4>1. received = writeOffset
        BY <3>2 DEF OrderOK
      <4>2. CASE i < writeOffset
        BY <2>2, <4>1, <4>2 DEF OrderOK, Positions
      <4>3. CASE i >= writeOffset
        <5>1. i \in writeOffset .. writeOffset + n - 1
          BY <2>2, <4>1, <4>3, SMTT(30) DEF Positions
        <5>2. QED  BY <2>2, <4>1, <5>1, SMTT(30) DEF Positions
      <4>4. QED  BY <4>2, <4>3 DEF Positions
    <3>7. ~turned => received' = writeOffset + n /\ received' < FEED_BUFFER_SIZE
      BY <2>2, <3>2 DEF OrderOK
    <3>8. OrderOK'
      BY <1>5, <3>1, <3>6, <3>7
      DEF WriterReceive, OrderOK, ReaderAt, WriterAt, ReaderAhead, WriterAhead
    <3>9. QED  BY <3>4, <3>5, <3>8
  <2>3. QED  BY <1>5, <2>1, <2>2 DEF WriterReceive
<1>6. CASE WriterAdvance
  <2>1. /\ writer' \in Writers
        /\ writer'.pc = "loop"
    BY <1>6, WriterMoves DEF WriterAdvance, WriterPcs
  <2>2. /\ writeOffset' = writeOffset + writer.n /\ writeOffset' < FEED_BUFFER_SIZE
        /\ WriterAhead = writer.n
    BY <1>6 DEF WriterAdvance, RoomOK, WriterAt, WriterAhead
  <2>3. TypeOK'
    BY <1>6, <2>1, <2>2 DEF WriterAdvance, TypeOK, Writers, Readers, WriterPcs, ReaderPcs, Bytes
  <2>4. RoomOK' /\ OrderOK'
    BY <1>6, <2>1, <2>2 DEF WriterAdvance, RoomOK, OrderOK, ReaderAt, WriterAt, ReaderAhead,
                            WriterAhead
  <2>5. QED  BY <2>3, <2>4
<1>7. QED  BY <1>1, <1>2, <1>3, <1>4, <1>5, <1>6 DEF monitorFeedInput

LEMMA ReaderKeepsIInv == IInv /\ checkFeedInput => IInv'
<1> SUFFICES ASSUME IInv, checkFeedInput PROVE IInv'
  OBVIOUS
<1> USE FeedRingAssumption, WordPositive, Typed DEF IInv
<1>1. CASE ReaderCall
  <2>1. /\ reader' \in Readers
        /\ reader'.pc = "available" /\ reader'.ahead = (writeOffset >= readOffset)
    BY <1>1 DEF ReaderCall, Readers, Locals, ReaderPcs
  <2>2. /\ writer' \in Writers
        /\ \/ writer' = writer
           \/ writer.pc = "none" /\ writer'.pc = "loop"
    <3>1. CASE WriterAt("none")
      <4>1. writer' = [writer EXCEPT !.pc = "loop"]
        BY <1>1, <3>1 DEF ReaderCall
      <4>2. QED  BY <3>1, <4>1, WriterMoves DEF WriterAt, WriterPcs
    <3>2. CASE ~WriterAt("none")
      BY <1>1, <3>2 DEF ReaderCall
    <3>3. QED  BY <3>1, <3>2
  <2>3. TypeOK'
    BY <1>1, <2>1, <2>2 DEF ReaderCall, TypeOK, Writers, Readers, WriterPcs, ReaderPcs, Bytes
  <2>4. RoomOK' /\ OrderOK'
    BY <1>1, <2>1, <2>2 DEF ReaderCall, RoomOK, OrderOK, ReaderAt, WriterAt, ReaderAhead,
                            WriterAhead
  <2>5. QED  BY <2>3, <2>4
<1>2. CASE ReaderAvailable
  <2>r. reader \in Readers
    OBVIOUS
  <2>1. Available(reader.ahead) \in 0 .. Word - 1
    BY Unsigned DEF Available
  <2>2. /\ reader' \in Readers
        /\ \/ reader'.pc = "idle"
           \/ /\ reader'.pc = "rewind" /\ reader'.n = Available(reader.ahead)
              /\ reader'.n > 0
    <3> DEFINE a == Available(reader.ahead)
    <3>1. CASE a = 0
      <4>1. reader' = [reader EXCEPT !.n = a, !.pc = "idle"]
        BY <1>2, <3>1 DEF ReaderAvailable
      <4>2. "idle" \in ReaderPcs
        BY DEF ReaderPcs
      <4> HIDE DEF a
      <4>3. a \in 0 .. Word - 1
        BY <2>1 DEF a
      <4>4. QED  BY <4>1, <4>2, <4>3, <2>r DEF Readers, Locals
    <3>2. CASE a # 0
      <4>1. reader' = [reader EXCEPT !.n = a, !.pc = "rewind"] /\ a \in 0 .. Word - 1
        BY <1>2, <2>1, <3>2 DEF ReaderAvailable
      <4>2. "rewind" \in ReaderPcs
        BY DEF ReaderPcs
      <4> HIDE DEF a
      <4>3. /\ reader' \in Readers /\ reader'.pc = "rewind" /\ reader'.n = a
        BY <4>1, <4>2, <2>r DEF Readers, Locals
      <4>4. QED  BY <3>2, <4>1, <4>3 DEF a
    <3>3. QED  BY <3>1, <3>2
  <2>3. ~turned => Available(reader.ahead) = writeOffset - readOffset
    <3>1. ~turned => /\ reader.ahead
                     /\ writeOffset - readOffset \in 0 .. Word - 1
      BY <1>2 DEF ReaderAvailable, OrderOK, WriterAhead
    <3>2. QED  BY <3>1, Unsigned DEF Available
  <2>4. TypeOK'
    BY <1>2, <2>2 DEF ReaderAvailable, TypeOK, Writers, Readers, WriterPcs, ReaderPcs, Bytes
  <2>5. RoomOK' /\ OrderOK'
    <3>1. CASE reader'.pc = "idle"
      BY <1>2, <3>1 DEF ReaderAvailable, RoomOK, OrderOK, ReaderAt, WriterAt, ReaderAhead,
                        WriterAhead
    <3>2. CASE /\ reader'.pc = "rewind" /\ reader'.n = Available(reader.ahead)
               /\ reader'.n > 0
      BY <1>2, <2>3, <3>2 DEF ReaderAvailable, RoomOK, OrderOK, ReaderAt, WriterAt,
                              ReaderAhead, WriterAhead
    <3>3. QED  BY <2>2, <3>1, <3>2
  <2>6. QED  BY <2>4, <2>5
<1>3. CASE ReaderRewind
  <2>r. reader \in Readers
    OBVIOUS
  <2>1. /\ reader' \in Readers
        /\ reader'.pc = "copy" /\ reader'.n > 0
        /\ reader'.n <= reader.n /\ reader'.n <= MESSAGE_MAX_PAYLOAD_SIZE
    <3> DEFINE n == IF reader.n <= MESSAGE_MAX_PAYLOAD_SIZE
                    THEN reader.n ELSE MESSAGE_MAX_PAYLOAD_SIZE
    <3>1. reader' = [reader EXCEPT !.pc = "copy", !.n = n]
      BY <1>3 DEF ReaderRewind
    <3>2. n \in 0 .. Word - 1 /\ n > 0 /\ n <= reader.n /\ n <= MESSAGE_MAX_PAYLOAD_SIZE
      BY <1>3 DEF ReaderRewind, RoomOK, ReaderAt
    <3>3. "copy" \in ReaderPcs
      BY DEF ReaderPcs
    <3> HIDE DEF n
    <3>4. /\ reader' \in Readers /\ reader'.pc = "copy" /\ reader'.n = n
      BY <3>1, <3>2, <3>3, <2>r DEF Readers, Locals
    <3>5. QED  BY <3>2, <3>4
  <2>2. /\ readOffset' \in Nat /\ readOffset' + MP4_UDP_SIZE < FEED_BUFFER_SIZE
        /\ turned' \in BOOLEAN
        /\ ~turned' => ~turned /\ readOffset' = readOffset
    <3>1. CASE NoRoomForPacket(readOffset)
      BY <1>3, <3>1 DEF ReaderRewind
    <3>2. CASE ~NoRoomForPacket(readOffset)
      BY <1>3, <3>2 DEF ReaderRewind, NoRoomForPacket, TypeOK
    <3>3. QED  BY <3>1, <3>2
  <2>3. TypeOK'
    BY <1>3, <2>1, <2>2 DEF ReaderRewind, TypeOK, Writers, Readers, WriterPcs, ReaderPcs, Bytes
  <2>4. RoomOK' /\ OrderOK'
    BY <1>3, <2>1, <2>2 DEF ReaderRewind, RoomOK, OrderOK, ReaderAt, WriterAt, ReaderAhead,
                            WriterAhead
  <2>5. QED  BY <2>3, <2>4
<1>4. CASE ReaderCopy
  <2>1. reader.n \in 1 .. reader.n
    BY <1>4 DEF ReaderCopy, RoomOK, ReaderAt
  <2>2. delivered' \in Bytes
    BY <1>4, <2>1, CopiedIsBytes DEF ReaderCopy
  <2>3. ~turned => delivered' = delivered + reader.n
    BY <1>4, <2>1, CopiedIsNext DEF ReaderCopy
  <2>4. /\ reader' \in Readers
        /\ reader'.pc = "advance" /\ reader'.n = reader.n
    BY <1>4, ReaderMoves DEF ReaderCopy, ReaderPcs
  <2>5. TypeOK'
    BY <1>4, <2>2, <2>4 DEF ReaderCopy, TypeOK, Writers, Readers, WriterPcs, ReaderPcs, Bytes
  <2>6. RoomOK' /\ OrderOK'
    BY <1>4, <2>3, <2>4 DEF ReaderCopy, RoomOK, OrderOK, ReaderAt, WriterAt, ReaderAhead,
                            WriterAhead
  <2>7. QED  BY <2>5, <2>6
<1>5. CASE ReaderAdvance
  <2>1. /\ reader' \in Readers
        /\ reader'.pc = "idle"
    BY <1>5, ReaderMoves DEF ReaderAdvance, ReaderPcs
  <2>2. /\ readOffset' = readOffset + reader.n /\ ReaderAhead = reader.n
        /\ readOffset' <= FEED_BUFFER_SIZE + MESSAGE_MAX_PAYLOAD_SIZE
    BY <1>5 DEF ReaderAdvance, Advanced, RoomOK, ReaderAt, ReaderAhead
  <2>3. TypeOK'
    BY <1>5, <2>1, <2>2 DEF ReaderAdvance, TypeOK, Writers, Readers, WriterPcs, ReaderPcs, Bytes
  <2>4. RoomOK' /\ OrderOK'
    BY <1>5, <2>1, <2>2 DEF ReaderAdvance, RoomOK, OrderOK, ReaderAt, WriterAt, ReaderAhead,
                            WriterAhead
  <2>5. QED  BY <2>3, <2>4
<1>6. QED  BY <1>1, <1>2, <1>3, <1>4, <1>5 DEF checkFeedInput

LEMMA NextKeepsIInv == IInv /\ [Next]_vars => IInv'
<1> SUFFICES ASSUME IInv, [Next]_vars PROVE IInv'
  OBVIOUS
<1>1. CASE Command
  BY <1>1 DEF Command, IInv, TypeOK, RoomOK, OrderOK, ReaderAt, WriterAt, ReaderAhead,
              WriterAhead
<1>2. CASE UNCHANGED vars
  BY <1>2 DEF vars, IInv, TypeOK, RoomOK, OrderOK, ReaderAt, WriterAt, ReaderAhead,
              WriterAhead
<1>3. QED  BY <1>1, <1>2, WriterKeepsIInv, ReaderKeepsIInv DEF Next

-----------------------------------------------------------------------------
(* The theorems *)

\* The state of the ring buffer is always as IInv says (check_input.c:47-117).
THEOREM Inductive == Spec => []IInv
BY IInvInit, NextKeepsIInv, PTL DEF Spec

\* The state is well typed: no offset runs away, however the two threads are
\* interleaved, although they use each other's offset while it changes.
THEOREM TypeCorrect == Spec => []TypeOK
<1>1. IInv => TypeOK
  BY DEF IInv
<1>2. QED  BY <1>1, Inductive, PTL

\* The thread never receives a packet beyond the end of the buffer
\* (check_input.c:66-69).
THEOREM PacketsFit == Spec => []PacketFits
<1>1. IInv => PacketFits
  BY DEF IInv, RoomOK, PacketFits, WriterAt
<1>2. QED  BY <1>1, Inductive, PTL

\* Until an offset turns back the loop gets the bytes of the feed in order, none
\* twice and none left out (check_input.c:71, 107-109).
THEOREM InOrder == Spec => InOrderUntilTurned
<1>1. IInv /\ [Next]_vars =>
        [ReaderCopy /\ ~turned => \A i \in DOMAIN Copied : Copied[i] = delivered + i]_vars
  BY CopiedIsNext DEF ReaderCopy, Copied
<1>2. QED  BY <1>1, Inductive, PTL DEF Spec, InOrderUntilTurned
=============================================================================
