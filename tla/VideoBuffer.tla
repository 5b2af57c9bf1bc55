---------------------------- MODULE VideoBuffer ----------------------------
(***************************************************************************)
(* The video feed as the base station receives it.  The feed is not        *)
(* acknowledged (RELIABLE_FEED is 0): messages that arrive too early wait  *)
(* in a small buffer until their turn (enc_dec.c), and the response state  *)
(* machine (session_res_sm.c) verifies and shows them.  The drone sends    *)
(* numbered messages over a network that loses, repeats and reorders them. *)
(*                                                                         *)
(* The buffer is static data of the process: it is not cleared with the    *)
(* session, so messages of an earlier session may still sit in it.  The    *)
(* base station also polls, and so fills and empties the buffer, while it  *)
(* establishes a key, with what is left of the numbers of the session      *)
(* before; the drone may be in the new session, and send, already.         *)
(***************************************************************************)
EXTENDS SeqNb, Sequences, FiniteSets, FiniteSetsExt

CONSTANTS
    NB_CACHED_MESSAGES,  \* places in the buffer, 10 in the code
    InitSeqNbs,          \* the numbers a session may expect first
    MaxFeed,             \* bound: feed messages sent in a session
    MaxSessions          \* bound: sessions

\* A session ends long before the messages it has seen come into the window
\* again: with 2^32 numbers that takes as many messages.
ASSUME VideoBufferAssumption ==
    /\ NB_CACHED_MESSAGES \in Nat \ {0}
    /\ InitSeqNbs \subseteq LiveSeqNbs
    /\ MaxFeed \in Nat
    /\ MaxFeed + MAX_MISSED_SEQNBS <= MaxSeqNb
    /\ MaxSessions \in Nat \ {0}

VARIABLES
    session,   \* the drone: number of its latest session, which stands for its key
    first,     \* the number that session starts with
    next,      \* the drone: number of its next feed message
    count,     \* the drone: feed messages sent in this session
    net,       \* every feed message ever sent
    sys,       \* state.systemState: "KEP" or "SessionReady"
    watching,  \* number of the base station's latest session
    expected,  \* feed.expectedSequenceNb
    feedState, \* state.feedState
    rcv,       \* receivedMessage, as far as it is a feed message
    buf,       \* video_buffer with video_valid, and nbFreePlaces
    shown      \* ghost: what was written to the video output

droneVars == <<session, first, next, count, net>>
sysVars   == <<sys, watching>>
vars == <<droneVars, sysVars, expected, feedState, rcv, buf, shown>>

-----------------------------------------------------------------------------
(* Messages and the buffer *)

\* index is the message's place in the feed of its session: what the picture
\* it carries identifies.
FeedMessages ==
    [session : 1 .. MaxSessions, seq : LiveSeqNbs, index : 1 .. MaxFeed,
     status : {"Message_valid", "Message_checks_failed"}]

NoMessage == [status |-> "Message_used"]
Empty     == [status |-> "Empty"]        \* video_valid is 0

Places == 1 .. NB_CACHED_MESSAGES

Occupied(b) == {i \in Places : b.place[i] # Empty}

\* Mutant: a place that is empty already is freed again.
removeBadMessagesAnyPlace(b) ==
    LET good == {i \in Occupied(b) :
                   diffSeqNb(expected, b.place[i].seq) < MAX_MISSED_SEQNBS}
    IN  [place |-> [i \in Places |-> IF i \in good THEN b.place[i] ELSE Empty],
         free  |-> b.free + Cardinality(Places \ good)]

\* Mutant: nothing is thrown out.
removeBadMessagesNever(b) == b

removeBadMessages(b) ==
    LET bad == {i \in Occupied(b) :
                  diffSeqNb(expected, b.place[i].seq) >= MAX_MISSED_SEQNBS}
    IN  [place |-> [i \in Places |-> IF i \in bad THEN Empty ELSE b.place[i]],
         free  |-> b.free + Cardinality(bad)]

\* What a poll makes of the received message and the buffer.
Outcome(message, b) == [message |-> message, buf |-> b]

\* Mutant: the place of the message that is taken out is not given back.
TakeUncounted(b, i) ==
    Outcome(b.place[i], [b EXCEPT !.place[i] = Empty])

Take(b, i) ==
    Outcome(b.place[i], [place |-> [b.place EXCEPT ![i] = Empty], free |-> b.free + 1])

\* The message whose turn it is; if there is none and one is forced, the one in
\* the last occupied place, because minDiffFound is never lowered.
flushVideoBuffer(message, b, force) ==
    LET c    == removeBadMessages(b)
        turn == {i \in Occupied(c) : c.place[i].seq = expected}
    IN  CASE turn # {} -> Take(c, Min(turn))
          [] turn = {} /\ force # 0 /\ Occupied(c) # {} -> Take(c, Max(Occupied(c)))
          [] OTHER -> Outcome(message, c)

\* checkReceivedMessage for a feed message that is not the expected one: it is
\* copied to the buffer, even if it lies outside the window and has failed the
\* check; then a full buffer has to give up a message.
Buffered(m) ==
    LET c      == removeBadMessages(buf)
        gap    == Min(Places \ Occupied(c))
        d      == [place |-> [c.place EXCEPT ![gap] = m], free |-> c.free - 1]
        forced == flushVideoBuffer(m, d, 1)
    IN  IF c.free = 0
        THEN Outcome(m, [place |-> [i \in Places |-> Empty],
                         free |-> NB_CACHED_MESSAGES])
        ELSE IF d.free = 0 /\ Occupied(removeBadMessages(d)) # {}
             THEN forced
             ELSE Outcome(NoMessage, IF d.free = 0 THEN forced.buf ELSE d)

Checked(m) ==
    [m EXCEPT !.status = IF InFeedWindow(expected, m.seq)
                         THEN "Message_valid" ELSE "Message_checks_failed"]

checkReceivedMessage(m) ==
    IF m.seq = expected THEN Outcome(Checked(m), buf) ELSE Buffered(Checked(m))

\* A poll finds the channel empty, or a message.
pollAndDecode ==
    {flushVideoBuffer(NoMessage, buf, 0)} \cup {checkReceivedMessage(m) : m \in net}

-----------------------------------------------------------------------------
\* Until the first session the expected number is whatever lay in memory.
Init ==
    /\ session = 0 /\ first = 0 /\ next = 0 /\ count = 0 /\ net = {}
    /\ sys = "KEP" /\ watching = 0
    /\ expected \in SeqNbs
    /\ feedState = "MESS_idle"
    /\ rcv = NoMessage
    /\ buf = [place |-> [i \in Places |-> Empty], free |-> NB_CACHED_MESSAGES]
    /\ shown = <<>>

\* The drone's request state machine, which does not wait for anything.
SendFeed ==
    /\ session > 0
    /\ count < MaxFeed
    /\ count' = count + 1
    /\ net' = net \cup {[session |-> session, seq |-> next, index |-> count + 1,
                         status |-> "Message_valid"]}
    /\ next' = addOneSeqNb(next)
    /\ UNCHANGED <<session, first, sysVars, expected, feedState, rcv, buf, shown>>

\* Key establishment: the drone enters a session while the base station is in
\* none, and the base station the session the drone entered.
DroneEnters ==
    /\ sys = "KEP"
    /\ session < MaxSessions
    /\ session' = session + 1
    /\ count' = 0
    /\ first' \in InitSeqNbs
    /\ next' = first'
    /\ UNCHANGED <<net, sysVars, expected, feedState, rcv, buf, shown>>

BaseEnters ==
    /\ sys = "KEP"
    /\ watching < session
    /\ sys' = "SessionReady"
    /\ watching' = session
    /\ expected' = first
    /\ UNCHANGED <<droneVars, feedState, rcv, buf, shown>>

\* clearSession; the message that is pending is used up by key establishment.
ClearSession ==
    /\ sys = "SessionReady"
    /\ sys' = "KEP"
    /\ feedState' = "MESS_idle"
    /\ rcv' = NoMessage
    /\ UNCHANGED <<droneVars, watching, expected, buf, shown>>

\* A poll in key establishment, which drops a feed message it is given.
KepPoll ==
    /\ sys = "KEP"
    /\ \E o \in pollAndDecode : buf' = o.buf
    /\ UNCHANGED <<droneVars, sysVars, expected, feedState, rcv, shown>>

MESS_idle_Res ==
    /\ sys = "SessionReady" /\ feedState = "MESS_idle"
    /\ \E o \in pollAndDecode :
         /\ buf' = o.buf
         /\ IF o.message.status = "Message_valid"
            THEN rcv' = o.message /\ feedState' = "MESS_verify"
            ELSE rcv' = NoMessage /\ feedState' = "MESS_idle"
    /\ UNCHANGED <<droneVars, sysVars, expected, shown>>

Verified(m) == m.session = watching

MESS_verify_Res ==
    /\ feedState = "MESS_verify"
    /\ \/ /\ Verified(rcv)
          /\ expected' = addMultSeqNb(rcv.seq, 1)
          /\ feedState' = "MESS_react"
          /\ UNCHANGED rcv
       \/ /\ ~Verified(rcv)
          /\ rcv' = NoMessage
          /\ feedState' = "MESS_idle"
          /\ UNCHANGED expected
    /\ UNCHANGED <<droneVars, sysVars, buf, shown>>

MESS_react_Res ==
    /\ feedState = "MESS_react"
    /\ shown' = Append(shown, <<rcv.session, rcv.index>>)
    /\ rcv' = NoMessage
    /\ feedState' = "MESS_idle"
    /\ UNCHANGED <<droneVars, sysVars, expected, buf>>

Next ==
    \/ SendFeed \/ DroneEnters
    \/ BaseEnters \/ ClearSession \/ KepPoll
    \/ MESS_idle_Res \/ MESS_verify_Res \/ MESS_react_Res

Spec == Init /\ [][Next]_vars

-----------------------------------------------------------------------------
(* Properties *)

TypeOK ==
    /\ session \in 0 .. MaxSessions /\ watching \in 0 .. session
    /\ first \in SeqNbs /\ next \in SeqNbs /\ expected \in SeqNbs
    /\ sys \in {"KEP", "SessionReady"}
    /\ count \in 0 .. MaxFeed
    /\ net \subseteq FeedMessages
    /\ feedState \in {"MESS_idle", "MESS_verify", "MESS_react"}
    /\ rcv \in FeedMessages \cup {NoMessage}
    /\ buf \in [place : [Places -> FeedMessages \cup {Empty}],
                free : 0 .. NB_CACHED_MESSAGES]
    /\ shown \in Seq((1 .. MaxSessions) \X (1 .. MaxFeed))

\* nbFreePlaces counts the places whose video_valid is 0, and between polls
\* there is always one: copying to the buffer "should never" fail
\* (enc_dec.c:361), because a full buffer gives up a message at once.
FreePlacesCounted ==
    /\ buf.free = Cardinality(Places \ Occupied(buf))
    /\ buf.free > 0

\* The pictures are shown in the order they were taken in: none twice, none
\* after a later one, and none of an earlier session after one of a later.
Earlier(a, b) == a[1] < b[1] \/ (a[1] = b[1] /\ a[2] < b[2])
ShownInOrder ==
    \A m, n \in DOMAIN shown : m < n => Earlier(shown[m], shown[n])

\* The comment on flushVideoBuffer (enc_dec.c:48-50): "If force is set to
\* non-zero, the message with the lowest sequence number is loaded anyway", so
\* what is loaded is never further ahead than what stays in the buffer.
LowestIsLoaded ==
    feedState = "MESS_verify" =>
        \A i \in Occupied(buf) :
            diffSeqNb(expected, rcv.seq) <= diffSeqNb(expected, buf.place[i].seq)
=============================================================================
