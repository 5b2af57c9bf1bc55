------------------------------ MODULE Session ------------------------------
(***************************************************************************)
(* A channel with acknowledgements in an established session: the request  *)
(* state machine on one side (session_req_sm.c), the response state        *)
(* machine on the other (session_res_sm.c), and the session itself, which  *)
(* either side may clear and key establishment brings up again.  COMM runs *)
(* from the base station to the drone, STAT from the drone to the base     *)
(* station, and ALIVE exists in both directions.                           *)
(*                                                                         *)
(* One action is one iteration of the loop of one process: pollAndDecode,  *)
(* unless a received message waits to be handled, and one handler.  Only   *)
(* the messages of the channel are modelled; an iteration in which another *)
(* channel's message arrives does not change this channel's state except   *)
(* as an iteration in which nothing arrives.                               *)
(*                                                                         *)
(* A key is the number of the session it was agreed for; a MAC verifies    *)
(* under the key it was made with, unless the message was damaged in a     *)
(* byte the MAC covers.                                                    *)
(***************************************************************************)
EXTENDS SeqNb, Sequences

CONSTANTS
    SESSION_MAX_RETRANSMISSIONS,  \* transmissions of one message, 10 in the code
    InitSeqNbs,   \* the numbers key establishment may leave to a session
    MaxSessions,  \* bound: sessions established
    MaxRequests,  \* bound: requests in a session of any line
    Lines,        \* the channels and networks considered: see line
    DamagedSeqNbs \* the numbers that damage may leave in a message

Sides == {"base", "drone"}

\* Within a session no number is used twice: a session of the code ends long
\* before its 2^32 numbers are used up.
ASSUME SessionAssumption ==
    /\ SESSION_MAX_RETRANSMISSIONS \in Nat \ {0}
    /\ InitSeqNbs \subseteq SeqNbs
    /\ MaxSessions \in Nat
    /\ MaxRequests \in 0 .. (MaxSeqNb - 1)
    /\ Lines \subseteq [requester : Sides, damage : {"none", "covered", "anywhere"},
                         sessions : 0 .. MaxSessions, requests : 0 .. MaxRequests]
    /\ DamagedSeqNbs \subseteq SeqNbs

VARIABLES
    line,    \* which side requests, how the network damages messages, how many
             \* sessions are established and requests made in one; never changes
    proc,    \* the two processes, as far as the channel and the session go
    net,     \* every message of the channel ever put on the network
    agreed,  \* the latest session the drone entered: its key and first number
    sent,    \* ghost: requests made, per session
    got      \* ghost: requests handed to writeOutputFunction, per session

vars == <<line, proc, net, agreed, sent, got>>

Requester == line.requester
Responder == IF Requester = "base" THEN "drone" ELSE "base"

-----------------------------------------------------------------------------
(* Messages *)

NoKey == 0   \* the key of a MAC that no longer fits its message
Keys  == NoKey .. MaxSessions
Data  == Keys \X (0 .. MaxRequests)

\* seq is the sequence number of a request and the acknowledged number of an
\* answer; the answers' own sequence numbers are never looked at.
Messages ==
    [type : {"SEND", "ACK", "NACK", "none"}, key : Keys, seq : SeqNbs, data : Data]

NoData    == <<NoKey, 0>>
NoMessage == [type |-> "none", key |-> NoKey, seq |-> 0, data |-> NoData]

SEND(key, seq, data) == [type |-> "SEND", key |-> key, seq |-> seq, data |-> data]
Answer(type, key, seq) == [type |-> type, key |-> key, seq |-> seq, data |-> NoData]

\* What writeWithErrors makes of a message.  The MAC covers all of it but the
\* last block of the header (aegis.c:83), which ends with seq in all types.
Damaged(m) ==
    (IF line.damage # "none" THEN {[m EXCEPT !.key = NoKey]} ELSE {})
    \cup
    (IF line.damage = "anywhere" THEN {[m EXCEPT !.seq = s] : s \in DamagedSeqNbs} ELSE {})

transmit(m) == \E x \in {m} \cup Damaged(m) : net' = net \cup {x}

\* The types that are addressed to a process.
TypesFor(who) == IF who = Requester THEN {"ACK", "NACK"} ELSE {"SEND"}

\* Message_used stands for every status that leaves nothing to handle.
Statuses == {"Message_valid", "Message_repeated", "Message_used"}

Pending(p) == p.status # "Message_used"

\* Mutant: what is one behind the expected number is valid as well.
checkReceivedMessageNoRepeats(m, expectedSeqNb) ==
    IF m.type # "SEND" \/ m.seq = expectedSeqNb
       \/ addMultSeqNb(m.seq, 1) = expectedSeqNb THEN "Message_valid"
                                                 ELSE "Message_used"

checkReceivedMessage(m, expectedSeqNb) ==
    CASE m.type # "SEND" \/ m.seq = expectedSeqNb -> "Message_valid"
      [] OTHER -> IF addMultSeqNb(m.seq, 1) = expectedSeqNb
                  THEN "Message_repeated" ELSE "Message_used"

\* No handler of these machines reads a message after it has marked it used
\* and returned, so what is left of one that is used up or dropped is nothing.
Used(p) == [p EXCEPT !.status = "Message_used", !.msg = NoMessage]

\* The process after the poll at the head of an iteration.
Polled(who) ==
    LET p == proc[who]
        acceptable == {m \in net : /\ m.type \in TypesFor(who)
                                   /\ checkReceivedMessage(m, p.exp) # "Message_used"}
    IN  IF Pending(p) THEN {p}
        ELSE {p} \cup
             {[p EXCEPT !.status = checkReceivedMessage(m, p.exp), !.msg = m] :
                 m \in acceptable}

Verified(p) == p.msg.key = p.key

-----------------------------------------------------------------------------
(* The processes *)

MessStates == {"MESS_idle", "MESS_encrypt", "MESS_send", "MESS_wait",
               "MESS_verify", "MESS_react", "MESS_ack", "MESS_nack"}

Process ==
    [sys    : {"Idle", "SessionReady", "ClearSession"},  \* Idle includes KEP
     key    : Keys,        \* sessionKey
     mess   : MessStates,  \* state.commState, state.statState, ...
     seq    : SeqNbs,      \* sequenceNb (requester)
     exp    : SeqNbs,      \* expectedSequenceNb (responder)
     ntx    : 0 .. SESSION_MAX_RETRANSMISSIONS,   \* numTransmissions
     cached : Messages,    \* cachedMessage
     status : Statuses,    \* receivedMessage.messageStatus
     msg    : Messages]    \* receivedMessage

Powered ==
    [sys |-> "Idle", key |-> NoKey, mess |-> "MESS_idle", seq |-> 0, exp |-> 0,
     ntx |-> 0, cached |-> NoMessage, status |-> "Message_used", msg |-> NoMessage]

Init ==
    /\ line \in Lines
    /\ proc = [who \in Sides |-> Powered]
    /\ net = {}
    /\ agreed = [key |-> NoKey, seq |-> 0]
    /\ sent = [k \in 1 .. MaxSessions |-> <<>>]
    /\ got = [k \in 1 .. MaxSessions |-> <<>>]

Becomes(who, p) == proc' = [proc EXCEPT ![who] = p] /\ UNCHANGED line

InState(who, state) ==
    proc[who].sys = "SessionReady" /\ proc[who].mess = state

-----------------------------------------------------------------------------
(* The session: what SessionAgreement lets key establishment do. *)

\* initializeSessionSequenceNbs...: the requester's next number is the one the
\* responder expects.
InSession(who, p, session) ==
    [p EXCEPT !.sys = "SessionReady", !.key = session.key,
              !.seq = IF who = Requester THEN session.seq ELSE @,
              !.exp = IF who = Responder THEN addOneSeqNb(session.seq) ELSE @]

\* The drone enters a session no one used before.  KEP used up whatever message
\* was pending, but the iteration that sends KEP4 has polled already, and the
\* number expected then was left by the session before.
DroneEnters ==
    /\ proc["drone"].sys = "Idle"
    /\ proc["base"].sys # "SessionReady"
    /\ agreed.key < line.sessions
    /\ \E s \in InitSeqNbs, p \in Polled("drone") :
         /\ agreed' = [key |-> agreed.key + 1, seq |-> s]
         /\ Becomes("drone", InSession("drone", p, agreed'))
    /\ UNCHANGED <<net, sent, got>>

\* The base station enters the session the drone entered, which the drone may
\* have left again.
BaseAdopts ==
    /\ proc["base"].sys = "Idle"
    /\ proc["base"].key < agreed.key
    /\ Becomes("base", InSession("base", proc["base"], agreed))
    /\ UNCHANGED <<net, agreed, sent, got>>

\* The user quits, or another channel has exhausted its retransmissions.
Quit(who) ==
    /\ proc[who].sys = "SessionReady"
    /\ Becomes(who, [proc[who] EXCEPT !.sys = "ClearSession"])
    /\ UNCHANGED <<net, agreed, sent, got>>

\* clearSession... and init_COMM_ctx, ...: the sequence numbers, the cached and
\* the received message are left as they are; what is pending then, KEP uses up.
ClearSession(who) ==
    /\ proc[who].sys = "ClearSession"
    /\ Becomes(who, [Used(proc[who]) EXCEPT !.sys = "Idle", !.mess = "MESS_idle",
                                            !.ntx = 0])
    /\ UNCHANGED <<net, agreed, sent, got>>

\* Out of a session the loop goes on without the channel.
Idle(who) == proc[who].sys = "Idle" /\ UNCHANGED vars

-----------------------------------------------------------------------------
(* The request state machine *)

\* An answer that comes now is ignored; checkInputFunction may have input.
MESS_idle_Req ==
    /\ InState(Requester, "MESS_idle")
    /\ \E p \in Polled(Requester) :
         \/ Becomes(Requester, Used(p))
         \/ /\ Len(sent[p.key]) < line.requests
            /\ Becomes(Requester, [Used(p) EXCEPT !.mess = "MESS_encrypt"])
    /\ UNCHANGED <<net, agreed, sent, got>>

MESS_encrypt_Req ==
    /\ InState(Requester, "MESS_encrypt")
    /\ \E p \in Polled(Requester) :
         LET seqNb == addOneSeqNb(p.seq)
             data  == <<p.key, Len(sent[p.key]) + 1>>
         IN  /\ Becomes(Requester, [p EXCEPT !.mess = "MESS_send", !.seq = seqNb,
                                             !.cached = SEND(p.key, seqNb, data),
                                             !.ntx = 0])
             /\ sent' = [sent EXCEPT ![p.key] = Append(@, data)]
    /\ UNCHANGED <<net, agreed, got>>

\* Mutant: a transmission is not counted.
TransmittedUncounted(p) == p

Transmitted(p) == [p EXCEPT !.ntx = @ + 1]

\* Mutant: the limit is off by one.
CanTransmitOnceMore(p) == p.ntx <= SESSION_MAX_RETRANSMISSIONS

CanTransmit(p) == p.ntx < SESSION_MAX_RETRANSMISSIONS

\* Both machines send what is cached until the transmissions are used up.
Send(who, nextState) ==
    /\ InState(who, "MESS_send")
    /\ \E p \in Polled(who) :
         \/ /\ CanTransmit(p)
            /\ transmit(p.cached)
            /\ Becomes(who, [Transmitted(p) EXCEPT !.mess = nextState])
         \/ /\ ~CanTransmit(p)
            /\ Becomes(who, [p EXCEPT !.mess = "MESS_idle", !.sys = "ClearSession"])
            /\ UNCHANGED net
    /\ UNCHANGED <<agreed, sent, got>>

MESS_send_Req == Send(Requester, "MESS_wait")

\* The timeout is looked at first, even if an answer is pending.
MESS_timeout_Req ==
    /\ InState(Requester, "MESS_wait")
    /\ \E p \in Polled(Requester) : Becomes(Requester, [p EXCEPT !.mess = "MESS_send"])
    /\ UNCHANGED <<net, agreed, sent, got>>

\* A NACK that fits provokes a retransmission.
MESS_wait_Req ==
    /\ InState(Requester, "MESS_wait")
    /\ \E p \in Polled(Requester) :
         LET nacks == p.msg.seq = p.seq /\ Verified(p)
         IN  \/ /\ Pending(p) /\ p.msg.type = "ACK"
                /\ Becomes(Requester, [p EXCEPT !.mess = "MESS_verify"])
             \/ /\ Pending(p) /\ p.msg.type = "NACK" /\ nacks
                /\ Becomes(Requester, [Used(p) EXCEPT !.mess = "MESS_send"])
             \/ /\ Pending(p) /\ p.msg.type = "NACK" /\ ~nacks
                /\ Becomes(Requester, Used(p))
             \/ /\ ~Pending(p)
                /\ Becomes(Requester, p)
    /\ UNCHANGED <<net, agreed, sent, got>>

\* Mutant: any authentic ACK will do.
ACKAcceptedAnyNumber(p) == Verified(p)

ACKAccepted(p) == p.msg.seq = p.seq /\ Verified(p)

MESS_verify_Req ==
    /\ InState(Requester, "MESS_verify")
    /\ \E p \in Polled(Requester) :
         Becomes(Requester,
                 [Used(p) EXCEPT
                    !.mess = IF ACKAccepted(p) THEN "MESS_idle" ELSE "MESS_wait"])
    /\ UNCHANGED <<net, agreed, sent, got>>

-----------------------------------------------------------------------------
(* The response state machine *)

MESS_idle_Res ==
    /\ InState(Responder, "MESS_idle")
    /\ \E p \in Polled(Responder) :
         Becomes(Responder,
                 [p EXCEPT !.mess = IF Pending(p) THEN "MESS_verify" ELSE "MESS_idle"])
    /\ UNCHANGED <<net, agreed, sent, got>>

\* Mutant: the MAC of a request is not verified.
SENDAcceptedUnverified(p) == TRUE

SENDAccepted(p) == Verified(p)

\* A repeated request is acknowledged again but not handed over again.
MESS_verify_Res ==
    /\ InState(Responder, "MESS_verify")
    /\ \E p \in Polled(Responder) :
         LET repeated == p.status = "Message_repeated"
         IN  \/ /\ ~SENDAccepted(p) /\ repeated
                /\ Becomes(Responder, [Used(p) EXCEPT !.mess = "MESS_idle"])
             \/ /\ ~SENDAccepted(p) /\ ~repeated
                /\ Becomes(Responder, [p EXCEPT !.mess = "MESS_nack"])
             \/ /\ SENDAccepted(p) /\ ~repeated
                /\ Becomes(Responder, [p EXCEPT !.mess = "MESS_react", !.ntx = 0,
                                                !.exp = addMultSeqNb(p.msg.seq, 1)])
             \/ /\ SENDAccepted(p) /\ repeated
                /\ Becomes(Responder, [p EXCEPT !.mess = "MESS_ack"])
    /\ UNCHANGED <<net, agreed, sent, got>>

MESS_react_Res ==
    /\ InState(Responder, "MESS_react")
    /\ \E p \in Polled(Responder) :
         /\ got' = [got EXCEPT ![p.key] = Append(@, p.msg.data)]
         /\ Becomes(Responder, [p EXCEPT !.mess = "MESS_ack"])
    /\ UNCHANGED <<net, agreed, sent>>

\* MESS_ack and MESS_nack encode the answer to the received message.
Respond(state, type) ==
    /\ InState(Responder, state)
    /\ \E p \in Polled(Responder) :
         Becomes(Responder,
                 [Used(p) EXCEPT !.mess = "MESS_send",
                                 !.cached = Answer(type, p.key, p.msg.seq)])
    /\ UNCHANGED <<net, agreed, sent, got>>

MESS_ack_Res  == Respond("MESS_ack", "ACK")
MESS_nack_Res == Respond("MESS_nack", "NACK")

MESS_send_Res == Send(Responder, "MESS_idle")

-----------------------------------------------------------------------------
messReqContinue ==
    \/ MESS_idle_Req \/ MESS_encrypt_Req \/ MESS_send_Req
    \/ MESS_timeout_Req \/ MESS_wait_Req \/ MESS_verify_Req

messResContinue ==
    \/ MESS_idle_Res \/ MESS_verify_Res \/ MESS_react_Res
    \/ MESS_ack_Res \/ MESS_nack_Res \/ MESS_send_Res

Next ==
    \/ DroneEnters \/ BaseAdopts
    \/ \E who \in Sides : Quit(who) \/ ClearSession(who) \/ Idle(who)
    \/ messReqContinue \/ messResContinue

Spec == Init /\ [][Next]_vars

\* The requester's loop runs forever.  Time passes, and the timeout is checked
\* before anything else, so a machine that waits again and again, for whatever
\* reason, is eventually past its timeout when it does.
FairSpec ==
    /\ Spec
    /\ WF_vars(messReqContinue) /\ WF_vars(ClearSession(Requester))
    /\ SF_vars(MESS_timeout_Req)

-----------------------------------------------------------------------------
(* Properties *)

TypeOK ==
    /\ line \in Lines
    /\ proc \in [Sides -> Process]
    /\ net \subseteq Messages
    /\ agreed \in [key : Keys, seq : SeqNbs]
    /\ sent \in [1 .. MaxSessions -> Seq(Data)]
    /\ \A k \in 1 .. MaxSessions : Len(sent[k]) <= MaxRequests
    /\ got \in [1 .. MaxSessions -> Seq(Data)]

\* Damage that no MAC shows can make any number of any other: nothing but the
\* end of every request is promised then.
DamageShows == line.damage # "anywhere"

\* An idle requester has had its last request carried out: an old
\* acknowledgement, of this session or another, is never taken for the one
\* it is waiting for.
AcknowledgedIsDone ==
    DamageShows /\ InState(Requester, "MESS_idle") =>
        LET k == proc[Requester].key IN got[k] = sent[k]

\* While both are in the same session and no answer is being worked out, the
\* number the responder expects is the requester's next or, if the last
\* request has not arrived yet, its current one: they never drift apart.
NumbersStayInStep ==
    LET req == proc[Requester]
        res == proc[Responder]
    IN  DamageShows /\ req.sys = "SessionReady" /\ res.sys = "SessionReady"
        /\ req.key = res.key =>
            \/ res.exp = addOneSeqNb(req.seq)
            \/ res.exp = req.seq /\ req.mess \in {"MESS_send", "MESS_wait", "MESS_verify"}

\* A request is eventually over: acknowledged, or given up with the session.
RequestConcludes ==
    proc[Requester].mess # "MESS_idle" ~> proc[Requester].mess = "MESS_idle"

\* Requests are carried out in order, each at most once and in its own session,
\* whatever the network does to requests and acknowledgements, as long as damage
\* shows.
Promised(requests) ==
    IF DamageShows THEN requests ELSE [k \in 1 .. MaxSessions |-> <<>>]

Channel == INSTANCE ReliableChannel WITH
    Sessions <- 1 .. MaxSessions,
    sent <- Promised(sent),
    got  <- Promised(got)

ImplementsChannel == Channel!Spec
=============================================================================
