------------------------------ MODULE Framing ------------------------------
(***************************************************************************)
(* Messages as bytes (udp_io.c, udp.c and the first part of pollAndDecode  *)
(* in enc_dec.c): the sender stuffs an ESC before every ESC and FLAG of a  *)
(* message, ends it with a FLAG and cuts the result into packets; the      *)
(* receiver undoes this, a packet or a part of one at a time, and may run  *)
(* out of packets, or of room for the message, anywhere.                   *)
(*                                                                         *)
(* A message is a sequence over three bytes: ESC, FLAG and a plain one.    *)
(***************************************************************************)
EXTENDS Naturals, Sequences, SequencesExt

CONSTANTS
    ESC, FLAG, Plain,   \* the bytes
    MAX_MESSAGE_NB,     \* length of the longest message
    MAX_PACKET_SIZE,    \* length of the longest packet
    Messages,           \* messages the sender chooses from
    MaxMessages,        \* bound: messages sent
    MaxReceived         \* bound: messages received on an unreliable network

Bytes == {ESC, FLAG, Plain}

ASSUME FramingAssumption ==
    /\ ESC # FLAG /\ ESC # Plain /\ FLAG # Plain
    /\ MAX_MESSAGE_NB \in Nat \ {0}
    /\ MAX_PACKET_SIZE \in Nat \ {0}
    /\ \A m \in Messages : m \in Seq(Bytes) /\ Len(m) <= MAX_MESSAGE_NB /\ m # <<>>
    /\ MaxMessages \in Nat
    /\ MaxReceived \in Nat

VARIABLES
    reliable,   \* whether packets arrive in order and each once; never changes
    sent,       \* messages sent
    packets,    \* packets sent, in order; if reliable, those not yet read
    buffer,     \* IO.buffer from IO.bufferIndex on: what was read, not scanned
    escRead,    \* IO.escRead
    result,     \* receivedMessage.message up to IO.resIndex
    polling,    \* whether pollAndDecode is in receive()
    status,     \* receivedMessage.messageStatus
    received    \* ghost: messages that went on to be decoded

vars == <<reliable, sent, packets, buffer, escRead, result, polling, status, received>>

-----------------------------------------------------------------------------
(* The sender *)

\* Mutant: only a FLAG is escaped.
stuffedFlagsOnly(m) ==
    FlattenSeq([i \in DOMAIN m |-> IF m[i] = FLAG THEN <<ESC, m[i]>> ELSE <<m[i]>>])
        \o <<FLAG>>

\* transmit: an ESC before every byte that has a meaning, a FLAG at the end.
stuffed(m) ==
    FlattenSeq([i \in DOMAIN m |->
        IF m[i] \in {ESC, FLAG} THEN <<ESC, m[i]>> ELSE <<m[i]>>]) \o <<FLAG>>

\* send_message and flush_buffer: full packets, and at the end what is left.
Cut(bytes) ==
    [i \in 1 .. ((Len(bytes) + MAX_PACKET_SIZE - 1) \div MAX_PACKET_SIZE) |->
        SubSeq(bytes, (i - 1) * MAX_PACKET_SIZE + 1,
               IF i * MAX_PACKET_SIZE < Len(bytes) THEN i * MAX_PACKET_SIZE
                                                   ELSE Len(bytes))]

transmit ==
    /\ Len(sent) < MaxMessages
    /\ \E m \in Messages :
         /\ sent' = Append(sent, m)
         /\ packets' = packets \o Cut(stuffed(m))
    /\ UNCHANGED <<reliable, buffer, escRead, result, polling, status, received>>

-----------------------------------------------------------------------------
(* The receiver *)

\* Mutant: room for one byte more, which no message may have.
SizeOneMore == MAX_MESSAGE_NB + 2

\* The room receive() is given: one byte more than the longest message, so that
\* a full result is always one that is too long.
Size == MAX_MESSAGE_NB + 1

\* pollAndDecode up to receive(): an incomplete message is continued.
Poll ==
    /\ ~polling
    /\ polling' = TRUE
    /\ result' = IF status = "Message_incomplete" THEN result ELSE <<>>
    /\ UNCHANGED <<reliable, sent, packets, buffer, escRead, status, received>>

\* One round of the loop that scans the buffer: an escaped byte, an ESC or a
\* byte of the message.
Scan ==
    /\ polling /\ buffer # <<>> /\ Len(result) < Size
    /\ LET byte == Head(buffer)
       IN  \/ /\ escRead \/ byte = Plain
              /\ escRead' = FALSE
              /\ result' = Append(result, byte)
           \/ /\ ~escRead /\ byte = ESC
              /\ escRead' = TRUE
              /\ UNCHANGED result
    /\ buffer' = Tail(buffer)
    /\ UNCHANGED <<reliable, sent, packets, polling, status, received>>

\* A FLAG ends the message, which goes on to be decoded, unless it is the end
\* of one that was too long.
EndOfMessage ==
    /\ polling /\ buffer # <<>> /\ Len(result) < Size
    /\ ~escRead /\ Head(buffer) = FLAG
    /\ buffer' = Tail(buffer)
    /\ polling' = FALSE
    /\ result' = <<>>
    /\ IF status = "Channel_inconsistent"
       THEN status' = "Message_invalid" /\ UNCHANGED received
       ELSE /\ status' = "Message_valid"
            /\ received' = Append(received, result)
    /\ UNCHANGED <<reliable, sent, packets, escRead>>

\* receive() returns because there is no room left.
Overlong ==
    /\ polling /\ Len(result) = Size
    /\ polling' = FALSE
    /\ result' = <<>>
    /\ status' = "Channel_inconsistent"
    /\ UNCHANGED <<reliable, sent, packets, buffer, escRead, received>>

\* readIn: the next packet, or on an unreliable network any packet.
Read ==
    /\ polling /\ buffer = <<>> /\ Len(result) < Size
    /\ \/ /\ reliable /\ packets # <<>>
          /\ buffer' = Head(packets)
          /\ packets' = Tail(packets)
       \/ /\ ~reliable /\ Len(received) < MaxReceived
          /\ \E i \in DOMAIN packets : buffer' = packets[i]
          /\ UNCHANGED packets
    /\ UNCHANGED <<reliable, sent, escRead, result, polling, status, received>>

\* Mutant: a message of which a part was read is given up.
IncompleteEmpty(nbReceived) ==
    IF status = "Channel_inconsistent" THEN status ELSE "Channel_empty"

\* What pollAndDecode makes of a message that has not ended: "channel should
\* stay inconsistent if it was" (enc_dec.c:145) is true only if nothing was
\* received: if it was, the rest of a message that was too long is decoded as a
\* message of its own.
Incomplete(nbReceived) ==
    IF nbReceived > 0 THEN "Message_incomplete"
    ELSE IF status = "Channel_inconsistent" THEN status ELSE "Channel_empty"

\* receive() returns because there is nothing to read: what was sent, a part of
\* a message perhaps, is still on its way.
NothingToRead ==
    /\ polling /\ buffer = <<>> /\ Len(result) < Size
    /\ polling' = FALSE
    /\ status' = Incomplete(Len(result))
    /\ UNCHANGED <<reliable, sent, packets, buffer, escRead, result, received>>

-----------------------------------------------------------------------------
Init ==
    /\ reliable \in BOOLEAN
    /\ sent = <<>> /\ packets = <<>> /\ buffer = <<>> /\ escRead = FALSE
    /\ result = <<>> /\ polling = FALSE /\ status = "Channel_empty"
    /\ received = <<>>

Receive == Poll \/ Scan \/ EndOfMessage \/ Overlong \/ Read \/ NothingToRead

Next == transmit \/ Receive

Spec == Init /\ [][Next]_vars

\* The loop polls forever, and no packet is on its way forever.
FairSpec == Spec /\ WF_vars(Receive) /\ SF_vars(Read)

-----------------------------------------------------------------------------
(* Properties *)

\* In particular, what goes on to be decoded fits the longest message, whatever
\* the network makes of the packets.
TypeOK ==
    /\ reliable \in BOOLEAN
    /\ sent \in Seq(Messages) /\ Len(sent) <= MaxMessages
    /\ \A i \in DOMAIN packets :
         packets[i] \in Seq(Bytes) /\ Len(packets[i]) \in 1 .. MAX_PACKET_SIZE
    /\ buffer \in Seq(Bytes) /\ Len(buffer) <= MAX_PACKET_SIZE
    /\ result \in Seq(Bytes) /\ Len(result) <= Size
    /\ escRead \in BOOLEAN /\ polling \in BOOLEAN
    /\ status \in {"Channel_empty", "Channel_inconsistent", "Message_valid",
                   "Message_invalid", "Message_incomplete"}
    /\ \A i \in DOMAIN received :
         received[i] \in Seq(Bytes) /\ Len(received[i]) <= MAX_MESSAGE_NB

\* If packets arrive in order, messages do, and intact, wherever the packets
\* are cut, a message's ESC and the byte after it included, and however many
\* polls it takes to read them.
InOrderIntact ==
    reliable => \A i \in DOMAIN received : i <= Len(sent) /\ received[i] = sent[i]

\* If packets arrive in order, every message sent is received in the end.
AllArrive ==
    \A n \in 1 .. MaxMessages : reliable /\ Len(sent) >= n ~> Len(received) >= n

\* If every message fits a packet, what is received is a message that was sent,
\* however many packets are lost, repeated or reordered.
EachIntact ==
    (\A j \in DOMAIN sent : Len(stuffed(sent[j])) <= MAX_PACKET_SIZE) =>
        \A i \in DOMAIN received : \E j \in DOMAIN sent : received[i] = sent[j]
=============================================================================
