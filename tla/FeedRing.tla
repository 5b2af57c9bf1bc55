------------------------------ MODULE FeedRing ------------------------------
(***************************************************************************)
(* The buffer between the camera and the drone's session loop when the     *)
(* feed comes in over a socket (check_input.c).  A thread of its own,      *)
(* monitorFeedInput, fills it; the loop empties it in checkFeedInput.  The *)
(* two offsets and FEED_ACTIVE are shared without a lock, so every access  *)
(* of one thread to an offset the other may change is a step of its own.   *)
(*                                                                         *)
(* A byte is the number it has in the feed.                                *)
(***************************************************************************)
EXTENDS Integers

CONSTANTS
    FEED_BUFFER_SIZE,          \* 5000000 in the code
    MP4_UDP_SIZE,              \* longest packet of the feed, 1500 in the code
    MESSAGE_MAX_PAYLOAD_SIZE,  \* most the loop takes at once, 10000 in the code
    Word,                      \* 2^32: available and toRead are unsigned
    MaxReceived                \* bound: bytes the camera sends

ASSUME FeedRingAssumption ==
    /\ MP4_UDP_SIZE \in Nat \ {0}
    /\ MESSAGE_MAX_PAYLOAD_SIZE \in Nat \ {0}
    /\ FEED_BUFFER_SIZE \in Nat /\ FEED_BUFFER_SIZE > 5 * MP4_UDP_SIZE
    /\ Word \in Nat /\ Word > 2 * (FEED_BUFFER_SIZE + MESSAGE_MAX_PAYLOAD_SIZE)
    /\ MaxReceived \in Nat

VARIABLES
    FEED_ACTIVE,
    readOffset,
    writeOffset,
    feedBuffer,
    writer,      \* monitorFeedInput: where it is, and its local variables
    reader,      \* checkFeedInput: where it is, and its local variables
    received,    \* ghost: bytes received from the camera
    delivered,   \* ghost: the last byte handed to the loop
    turned       \* ghost: an offset has been set back, or moved by an overrun

vars == <<FEED_ACTIVE, readOffset, writeOffset, feedBuffer, writer, reader,
          received, delivered, turned>>

Positions == 0 .. FEED_BUFFER_SIZE - 1
Bytes     == 0 .. MaxReceived   \* 0 is what was there before

-----------------------------------------------------------------------------
(* The thread *)

WriterAt(pc) == writer.pc = pc

WriterLoop ==
    /\ WriterAt("loop")
    /\ FEED_ACTIVE
    /\ writer' = [pc |-> "space", ahead |-> writeOffset - readOffset >= 0, n |-> 0]
    /\ UNCHANGED <<FEED_ACTIVE, readOffset, writeOffset, feedBuffer, reader,
                   received, delivered, turned>>

\* readOffset is read again.
WriterSpaceLeft ==
    /\ WriterAt("space")
    /\ LET used == IF writer.ahead THEN writeOffset - readOffset
                   ELSE writeOffset + FEED_BUFFER_SIZE - readOffset
       IN  writer' = [writer EXCEPT !.pc = IF FEED_BUFFER_SIZE - used < MP4_UDP_SIZE
                                           THEN "overrun" ELSE "room"]
    /\ UNCHANGED <<FEED_ACTIVE, readOffset, writeOffset, feedBuffer, reader,
                   received, delivered, turned>>

WriterOverrun ==
    /\ WriterAt("overrun")
    /\ writeOffset' = 5 * MP4_UDP_SIZE + readOffset
    /\ turned' = TRUE
    /\ writer' = [writer EXCEPT !.pc = "room"]
    /\ UNCHANGED <<FEED_ACTIVE, readOffset, feedBuffer, reader, received, delivered>>

\* Mutant: a packet may end beyond the buffer.
NoRoomForPacketAtEnd(offset) == offset >= FEED_BUFFER_SIZE

NoRoomForPacket(offset) == offset + MP4_UDP_SIZE >= FEED_BUFFER_SIZE

WriterRoom ==
    /\ WriterAt("room")
    /\ IF NoRoomForPacket(writeOffset)
       THEN writeOffset' = 0 /\ turned' = TRUE
       ELSE UNCHANGED <<writeOffset, turned>>
    /\ writer' = [writer EXCEPT !.pc = "receive"]
    /\ UNCHANGED <<FEED_ACTIVE, readOffset, feedBuffer, reader, received, delivered>>

\* receive_feed: nothing before the timeout, or a packet.
WriterReceive ==
    /\ WriterAt("receive")
    /\ \/ /\ writer' = [writer EXCEPT !.pc = "loop"]
          /\ UNCHANGED <<feedBuffer, received>>
       \/ \E n \in 1 .. MP4_UDP_SIZE :
            /\ received + n <= MaxReceived
            /\ received' = received + n
            /\ feedBuffer' = [i \in Positions |->
                                 IF i \in writeOffset .. writeOffset + n - 1
                                 THEN received + 1 + i - writeOffset
                                 ELSE feedBuffer[i]]
            /\ writer' = [writer EXCEPT !.pc = "advance", !.n = n]
    /\ UNCHANGED <<FEED_ACTIVE, readOffset, writeOffset, reader, delivered, turned>>

WriterAdvance ==
    /\ WriterAt("advance")
    /\ writeOffset' = writeOffset + writer.n
    /\ writer' = [writer EXCEPT !.pc = "loop"]
    /\ UNCHANGED <<FEED_ACTIVE, readOffset, feedBuffer, reader, received, delivered,
                   turned>>

-----------------------------------------------------------------------------
(* The loop *)

ReaderAt(pc) == reader.pc = pc

\* The first call starts the thread.
ReaderCall ==
    /\ ReaderAt("idle")
    /\ FEED_ACTIVE
    /\ writer' = IF WriterAt("none") THEN [writer EXCEPT !.pc = "loop"] ELSE writer
    /\ reader' = [pc |-> "available", ahead |-> writeOffset >= readOffset, n |-> 0]
    /\ UNCHANGED <<FEED_ACTIVE, readOffset, writeOffset, feedBuffer, received,
                   delivered, turned>>

\* Mutant: a byte more than there is.
AvailableOneMore(ahead) ==
    (IF ahead THEN writeOffset - readOffset + 1
     ELSE writeOffset + FEED_BUFFER_SIZE - readOffset) % Word

\* Mutant: the difference is signed.
AvailableSigned(ahead) ==
    IF ahead THEN writeOffset - readOffset
    ELSE writeOffset + FEED_BUFFER_SIZE - readOffset

Available(ahead) ==
    (IF ahead THEN writeOffset - readOffset
     ELSE writeOffset + FEED_BUFFER_SIZE - readOffset) % Word

\* writeOffset is read again.
ReaderAvailable ==
    /\ ReaderAt("available")
    /\ reader' = [reader EXCEPT !.n = Available(reader.ahead),
                                !.pc = IF Available(reader.ahead) = 0 THEN "idle"
                                       ELSE "rewind"]
    /\ UNCHANGED <<FEED_ACTIVE, readOffset, writeOffset, feedBuffer, writer, received,
                   delivered, turned>>

ReaderRewind ==
    /\ ReaderAt("rewind")
    /\ IF NoRoomForPacket(readOffset)
       THEN readOffset' = 0 /\ turned' = TRUE
       ELSE UNCHANGED <<readOffset, turned>>
    /\ reader' = [reader EXCEPT
                    !.pc = "copy",
                    !.n = IF @ <= MESSAGE_MAX_PAYLOAD_SIZE
                          THEN @ ELSE MESSAGE_MAX_PAYLOAD_SIZE]
    /\ UNCHANGED <<FEED_ACTIVE, writeOffset, feedBuffer, writer, received, delivered>>

\* What memcpy copies; what lies beyond the buffer is not the feed's.
Copied == [i \in 1 .. reader.n |->
              IF readOffset + i - 1 \in Positions THEN feedBuffer[readOffset + i - 1]
              ELSE 0]

ReaderCopy ==
    /\ ReaderAt("copy")
    /\ delivered' = Copied[reader.n]
    /\ reader' = [reader EXCEPT !.pc = "advance"]
    /\ UNCHANGED <<FEED_ACTIVE, readOffset, writeOffset, feedBuffer, writer, received,
                   turned>>

\* Mutant: the offset is set, not advanced.
AdvancedFromStart(offset, n) == n

Advanced(offset, n) == offset + n

ReaderAdvance ==
    /\ ReaderAt("advance")
    /\ readOffset' = Advanced(readOffset, reader.n)
    /\ reader' = [reader EXCEPT !.pc = "idle"]
    /\ UNCHANGED <<FEED_ACTIVE, writeOffset, feedBuffer, writer, received, delivered,
                   turned>>

\* writeCommOutput, in the same thread as checkFeedInput.
Command ==
    /\ ReaderAt("idle")
    /\ FEED_ACTIVE' \in BOOLEAN
    /\ UNCHANGED <<readOffset, writeOffset, feedBuffer, writer, reader, received,
                   delivered, turned>>

-----------------------------------------------------------------------------
Init ==
    /\ FEED_ACTIVE = FALSE
    /\ readOffset = 0 /\ writeOffset = 0
    /\ feedBuffer = [i \in Positions |-> 0]
    /\ writer = [pc |-> "none", ahead |-> FALSE, n |-> 0]
    /\ reader = [pc |-> "idle", ahead |-> FALSE, n |-> 0]
    /\ received = 0 /\ delivered = 0
    /\ turned = FALSE

monitorFeedInput ==
    \/ WriterLoop \/ WriterSpaceLeft \/ WriterOverrun
    \/ WriterRoom \/ WriterReceive \/ WriterAdvance

checkFeedInput ==
    \/ ReaderCall \/ ReaderAvailable \/ ReaderRewind \/ ReaderCopy \/ ReaderAdvance

Next == monitorFeedInput \/ checkFeedInput \/ Command

Spec == Init /\ [][Next]_vars

\* Both threads run forever: the operating system schedules them, and the
\* session loop calls checkFeedInput again and again while the feed is on.
FairSpec == Spec /\ WF_vars(monitorFeedInput) /\ WF_vars(checkFeedInput)

-----------------------------------------------------------------------------
(* Properties *)

Locals(pcs, most) == [pc : pcs, ahead : BOOLEAN, n : 0 .. most]

TypeOK ==
    /\ FEED_ACTIVE \in BOOLEAN /\ turned \in BOOLEAN
    /\ readOffset \in 0 .. (FEED_BUFFER_SIZE + MESSAGE_MAX_PAYLOAD_SIZE)
    /\ writeOffset \in 0 .. (FEED_BUFFER_SIZE + MESSAGE_MAX_PAYLOAD_SIZE + 5 * MP4_UDP_SIZE)
    /\ feedBuffer \in [Positions -> Bytes]
    /\ writer \in Locals({"none", "loop", "space", "overrun", "room", "receive", "advance"},
                         MP4_UDP_SIZE)
    /\ reader \in Locals({"idle", "available", "rewind", "copy", "advance"}, Word - 1)
    /\ received \in Bytes /\ delivered \in Bytes

\* Wherever an overrun or a race of the offsets has put writeOffset, there is
\* room for a whole packet when the thread receives one (check_input.c:66-69).
PacketFits ==
    WriterAt("receive") => writeOffset + MP4_UDP_SIZE < FEED_BUFFER_SIZE

\* Until an offset has been set back for the first time, the loop gets the bytes
\* of the feed in order, none twice and none left out, and none before it has
\* been received, although nothing but the order of the accesses keeps the two
\* threads apart (check_input.c:71, 107-109).
InOrderUntilTurned ==
    [][ReaderCopy /\ ~turned =>
         \A i \in DOMAIN Copied : Copied[i] = delivered + i]_vars

\* Until then the loop gets everything received, while the feed is on: it never
\* takes a filled buffer for an empty one.
BacklogDrains ==
    delivered < received ~> delivered = received \/ turned \/ ~FEED_ACTIVE

\* The loop gets nothing but bytes of the feed that it has not had before; bytes
\* may be left out, since an overrun throws old ones away ("Check how much there
\* is available to read", check_input.c:99).
OnlyNewBytes ==
    [][ReaderCopy =>
         \A i \in DOMAIN Copied :
             Copied[i] > IF i = 1 THEN delivered ELSE Copied[i - 1]]_vars
=============================================================================
