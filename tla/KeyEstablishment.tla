-------------------------- MODULE KeyEstablishment --------------------------
(***************************************************************************)
(* The key establishment protocol (KEP) between the base station           *)
(* (bs_kep_sm.c, main_base_station.c) and the drone (drone_kep_sm.c,       *)
(* main_drone.c) over a network that loses, duplicates, delays, reorders   *)
(* and damages messages.                                                   *)
(*                                                                         *)
(*     base station           drone                                        *)
(*         KEP1 [seq, point]            ---->                              *)
(*         <---- KEP2 [seq, point, MAC and signature]                      *)
(*         KEP3 [seq, MAC and signature] ---->                             *)
(*         <---- KEP4 [seq, ack, MAC]                                      *)
(*                                                                         *)
(* Each process is a polling loop and one action is one iteration of it:   *)
(* pollAndDecode, unless a received message still waits to be handled,     *)
(* followed by one handler of the KEP state machine.                       *)
(*                                                                         *)
(* Cryptography is symbolic.  A point is the number of the run of the      *)
(* protocol that drew its scalar.  A session key, which is a hash of the   *)
(* shared point, is the pair of the two points.  A MAC verifies when it    *)
(* was made under the verifier's key over the bytes that arrived; the      *)
(* signatures cover the two points that make up the key and so verify in   *)
(* the same cases, which is why one field, key, stands for both.           *)
(***************************************************************************)
EXTENDS SeqNb

CONSTANTS
    KEP_MAX_RETRANSMISSIONS,  \* transmissions of one message, 10 in the code
    InitSeqNbs,   \* the values getRandomBytes yields for a first number
    MaxRuns,      \* bound: runs of the protocol each process starts
    BitErrors,    \* whether the network damages messages
    DamagedSeqNbs \* the numbers that damage may leave in a message

ASSUME KepAssumption ==
    /\ KEP_MAX_RETRANSMISSIONS \in Nat \ {0}
    /\ InitSeqNbs \subseteq SeqNbs
    /\ MaxRuns \in Nat
    /\ BitErrors \in BOOLEAN
    /\ DamagedSeqNbs \subseteq SeqNbs

VARIABLES
    bs,        \* the base station's SessionInfo, as far as KEP uses it
    dr,        \* the drone's SessionInfo
    net,       \* every message ever put on the network
    bsRuns,    \* number of points the base station has drawn
    drRuns,    \* number of points the drone has drawn
    offers,    \* ghost: sessions the base station has authenticated (KEP3)
    sessions   \* ghost: sessions the drone has entered

vars == <<bs, dr, net, bsRuns, drRuns, offers, sessions>>

-----------------------------------------------------------------------------
(* Messages *)

Null    == -1         \* a field the message type does not have
NoPoint == 0          \* a point nobody drew: zeroed, or damaged on its way
NoKey   == <<0, 0>>   \* a key nobody holds: the MAC of a damaged message

Points  == NoPoint .. MaxRuns
Keys    == (Points \cup {Null}) \X (Points \cup {Null})
FromBs  == {"KEP1", "KEP3", "BS_MESS"}
FromDr  == {"KEP2", "KEP4", "DR_MESS"}

Messages ==
    [type : FromBs \cup FromDr \cup {"none"}, seq : SeqNbs,
     point : Points \cup {Null}, key : Keys, ack : SeqNbs]

Message(type, seq, point, key, ack) ==
    [type |-> type, seq |-> seq, point |-> point, key |-> key, ack |-> ack]

NoMessage == Message("none", 0, Null, NoKey, 0)

KEP1(seq, point)      == Message("KEP1", seq, point, NoKey, 0)
KEP2(seq, point, key) == Message("KEP2", seq, point, key, 0)
KEP3(seq, key)        == Message("KEP3", seq, Null, key, 0)
KEP4(seq, key, ack)   == Message("KEP4", seq, Null, key, ack)

\* A message of an established session, of any of its channels: KEP reads no
\* more of it than that its type is none of KEP's, and its number.
MESS(type, seq) == Message(type, seq, Null, NoKey, 0)

IsSessionMessage(m) == m.type \in {"BS_MESS", "DR_MESS"}

\* What writeWithErrors makes of a message of KEP.  KEP1 carries no MAC, so a
\* damaged point or number goes unnoticed.  The MAC of the others leaves out the
\* last block of what is sent in the clear (aegis.c:83), which in KEP3 holds its
\* number and in KEP4 the number it acknowledges; the end of the point, in KEP2,
\* shows in the key.  Every other damage shows in the MAC, except to type, length
\* or target, which makes the receiver drop the message, as the network can do
\* anyway.
Damaged(m) ==
    CASE m.type = "KEP1" ->
           {[m EXCEPT !.point = NoPoint]} \cup {[m EXCEPT !.seq = s] : s \in DamagedSeqNbs}
      [] m.type = "KEP2" -> {[m EXCEPT !.key = NoKey]}
      [] m.type = "KEP3" ->
           {[m EXCEPT !.key = NoKey]} \cup {[m EXCEPT !.seq = s] : s \in DamagedSeqNbs}
      [] OTHER ->
           {[m EXCEPT !.key = NoKey]} \cup {[m EXCEPT !.ack = s] : s \in DamagedSeqNbs}

\* transmit puts a message on the network, intact or damaged.  A message that
\* is on the network may be received any number of times, from never to often.
transmit(m) ==
    \E x \in {m} \cup (IF BitErrors THEN Damaged(m) ELSE {}) :
        net' = net \cup {x}

-----------------------------------------------------------------------------
(* Receiving *)

\* Message_used stands for every status that leaves nothing to handle
\* (used, invalid, checks failed, channel empty).
Statuses == {"Message_valid", "Message_repeated", "Message_used"}

Pending(r) == r.status # "Message_used"

\* The statuses a message may get.  A session message is compared with a number
\* of its own channel, or not at all, so it may get any.
checkReceivedMessage(m, expectedSeqNb) ==
    CASE m.seq = 0 -> {"Message_used"}
      [] m.seq # 0 /\ m.type \in {"KEP1", "KEP2"} -> {"Message_valid"}
      [] m.seq # 0 /\ IsSessionMessage(m) -> Statuses
      [] OTHER ->
           IF m.seq = expectedSeqNb THEN {"Message_valid"}
           ELSE IF addMultSeqNb(m.seq, 1) = expectedSeqNb
                THEN {"Message_repeated"} ELSE {"Message_used"}

\* Process p after the poll at the head of an iteration: unchanged while a
\* message is pending; otherwise the network yields nothing or a message,
\* which overwrites the received one even if it then fails the checks.
Polled(p, fromPeer) ==
    IF Pending(p) THEN {p}
    ELSE {p} \cup
         UNION {{[p EXCEPT !.status = s, !.msg = m] :
                    s \in checkReceivedMessage(m, p.exp)} :
                m \in {x \in net : x.type \in fromPeer}}

-----------------------------------------------------------------------------
(* State the two processes have in common *)

SysStates == {"Idle", "KEP", "SessionReady", "ClearSession", "Crashed"}
BsKepStates == {"KEP_idle", "KEP1_compute", "KEP1_send", "KEP1_wait",
                "KEP3_verify", "KEP3_compute", "KEP3_send", "KEP3_wait",
                "KEP5_verify", "Done"}
DrKepStates == {"KEP_idle", "KEP2_precompute", "KEP2_wait_request",
                "KEP2_compute", "KEP2_send", "KEP2_wait", "KEP4_verify",
                "KEP4_compute", "KEP4_send", "Done"}

Process(kepStates) ==
    [sys    : SysStates,        \* state.systemState
     kep    : kepStates,        \* state.kepState
     seq    : SeqNbs,           \* kep.sequenceNb
     exp    : SeqNbs,           \* kep.expectedSequenceNb
     ntx    : 0 .. KEP_MAX_RETRANSMISSIONS,   \* kep.numTransmissions
     active : BOOLEAN,          \* kep.kepActive
     point  : Points,           \* kep.scalar and kep.generatedPointXY
     key    : Keys,             \* sessionKey, from both points
     cached : Messages,         \* kep.cachedMessage
     status : Statuses,         \* receivedMessage.messageStatus
     msg    : Messages]         \* receivedMessage

\* init_KEP_ctx...: sessionKey and receivedMessage are not part of it.
init_KEP_ctx(p, seqNb) ==
    [p EXCEPT !.active = FALSE, !.ntx = 0, !.seq = seqNb, !.exp = 0,
              !.point = NoPoint, !.cached = NoMessage]

Powered(seqNb) ==
    [sys |-> "Idle", kep |-> "KEP_idle", seq |-> seqNb, exp |-> 0, ntx |-> 0,
     active |-> FALSE, point |-> NoPoint, key |-> NoKey, cached |-> NoMessage,
     status |-> "Message_used", msg |-> NoMessage]

InKep(p, state) == p.sys = "KEP" /\ p.kep = state

\* Mutant: a transmission is not counted.
TransmittedUncounted(p) == p

Transmitted(p) == [p EXCEPT !.ntx = @ + 1]

\* Mutant: the limit is off by one.
CanTransmitOnceMore(p) == p.ntx <= KEP_MAX_RETRANSMISSIONS

CanTransmit(p) == p.ntx < KEP_MAX_RETRANSMISSIONS

GiveUp(p) == [p EXCEPT !.sys = "ClearSession", !.kep = "KEP_idle"]

\* What is left of a message that an iteration of a session has handled: a
\* message of KEP is used; one of the session may take more iterations than one.
Handled(p) ==
    {[p EXCEPT !.status = "Message_used"]} \cup (IF IsSessionMessage(p.msg) THEN {p} ELSE {})

\* What a side of an established session will send and expect next.
BsSession == [key |-> bs.key, toDrone |-> addOneSeqNb(bs.seq), toBase |-> bs.exp]
DrSession == [key |-> dr.key, toDrone |-> dr.exp, toBase |-> addOneSeqNb(dr.seq)]
BsOffer   == [key |-> bs.key, toDrone |-> addOneSeqNb(bs.seq)]

Offers   == [key : Keys, toDrone : SeqNbs]
Sessions == [key : Keys, toDrone : SeqNbs, toBase : SeqNbs]

Init ==
    /\ \E s \in InitSeqNbs : bs = Powered(s)
    /\ \E s \in InitSeqNbs : dr = Powered(s)
    /\ net = {}
    /\ bsRuns = 0 /\ drRuns = 0
    /\ offers = {} /\ sessions = {}

-----------------------------------------------------------------------------
(* Base station *)

\* Without a command the loop idles.
BsIdle == bs.sys = "Idle" /\ UNCHANGED vars

BsStart ==
    /\ bs.sys = "Idle"
    /\ bsRuns < MaxRuns
    /\ bs' = [bs EXCEPT !.sys = "KEP"]
    /\ UNCHANGED <<dr, net, bsRuns, drRuns, offers, sessions>>

\* The user quits, or (in a session) a message exhausts its retransmissions.
BsQuit ==
    /\ bs.sys \in {"KEP", "SessionReady"}
    /\ bs' = [bs EXCEPT !.sys = "ClearSession"]
    /\ UNCHANGED <<dr, net, bsRuns, drRuns, offers, sessions>>

\* clearSessionBasestation: a pending message survives it.
BsClearSession ==
    /\ bs.sys = "ClearSession"
    /\ \E s \in InitSeqNbs :
         bs' = [init_KEP_ctx(bs, s) EXCEPT !.sys = "Idle", !.kep = "KEP_idle"]
    /\ UNCHANGED <<dr, net, bsRuns, drRuns, offers, sessions>>

BsKEP_idle ==
    /\ InKep(bs, "KEP_idle")
    /\ \E p \in Polled(bs, FromDr), s \in InitSeqNbs :
         bs' = [init_KEP_ctx(p, s) EXCEPT !.kep = "KEP1_compute"]
    /\ UNCHANGED <<dr, net, bsRuns, drRuns, offers, sessions>>

BsKEP1_compute ==
    /\ InKep(bs, "KEP1_compute")
    /\ bsRuns' = bsRuns + 1
    /\ \E p \in Polled(bs, FromDr) :
         LET seqNb == addOneSeqNb(p.seq)
         IN  bs' = [p EXCEPT !.kep = "KEP1_send", !.seq = seqNb,
                             !.point = bsRuns', !.cached = KEP1(seqNb, bsRuns')]
    /\ UNCHANGED <<dr, net, drRuns, offers, sessions>>

\* Once the transmissions are used up, the session is cleared.
BsSend(state, waitState) ==
    /\ InKep(bs, state)
    /\ \E p \in Polled(bs, FromDr) :
         \/ /\ CanTransmit(p)
            /\ transmit(p.cached)
            /\ bs' = [Transmitted(p) EXCEPT !.kep = waitState]
         \/ /\ ~CanTransmit(p)
            /\ bs' = GiveUp(p)
            /\ UNCHANGED net
    /\ UNCHANGED <<dr, bsRuns, drRuns, offers, sessions>>

BsKEP1_send == BsSend("KEP1_send", "KEP1_wait")
BsKEP3_send == BsSend("KEP3_send", "KEP3_wait")

\* Anything but the expected message provokes a retransmission, a repeated one
\* included.
BsWait(state, expectedType, sendState, verifyState) ==
    /\ InKep(bs, state)
    /\ \E p \in Polled(bs, FromDr) :
         LET expected == p.status = "Message_valid" /\ p.msg.type = expectedType
         IN  \/ /\ expected
                /\ bs' = [p EXCEPT !.kep = verifyState]
             \/ /\ Pending(p) /\ ~expected
                /\ bs' = [p EXCEPT !.kep = sendState, !.status = "Message_used"]
             \/ /\ ~Pending(p)
                /\ bs' = p
    /\ UNCHANGED <<dr, net, bsRuns, drRuns, offers, sessions>>

BsKEP1_wait == BsWait("KEP1_wait", "KEP2", "KEP1_send", "KEP3_verify")
BsKEP3_wait == BsWait("KEP3_wait", "KEP4", "KEP3_send", "KEP5_verify")

\* The retransmission timeout expires; a message, if there is one, goes first.
BsTimeout(state, sendState) ==
    /\ InKep(bs, state)
    /\ \E p \in Polled(bs, FromDr) :
         /\ ~Pending(p)
         /\ bs' = [p EXCEPT !.kep = sendState]
    /\ UNCHANGED <<dr, net, bsRuns, drRuns, offers, sessions>>

\* The key is derived from whatever point arrived; MAC and signature decide
\* whether it is kept.
BsKEP3_verify ==
    /\ InKep(bs, "KEP3_verify")
    /\ \E p \in Polled(bs, FromDr) :
         LET key == <<p.point, p.msg.point>>
             q   == [p EXCEPT !.status = "Message_used", !.key = key]
         IN  \/ /\ p.msg.key = key
                /\ bs' = [q EXCEPT !.kep = "KEP3_compute", !.active = TRUE,
                                   !.ntx = 0, !.exp = addMultSeqNb(p.msg.seq, 1)]
             \/ /\ p.msg.key # key
                /\ bs' = [q EXCEPT !.kep = "KEP1_send"]
    /\ UNCHANGED <<dr, net, bsRuns, drRuns, offers, sessions>>

BsKEP3_compute ==
    /\ InKep(bs, "KEP3_compute")
    /\ \E p \in Polled(bs, FromDr) :
         LET seqNb == addOneSeqNb(p.seq)
         IN  bs' = [p EXCEPT !.kep = "KEP3_send", !.seq = seqNb,
                             !.cached = KEP3(seqNb, p.key)]
    /\ offers' = offers \cup {BsOffer'}
    /\ UNCHANGED <<dr, net, bsRuns, drRuns, sessions>>

\* Mutant: the MAC is not verified, only the acknowledged number compared.
KEP4AcceptedUnverified(p) == p.msg.ack = p.seq

KEP4Accepted(p) == p.msg.key = p.key /\ p.msg.ack = p.seq

\* Mutant: the number of KEP4 is not counted.
KEP5_verifyUncounted ==
    /\ InKep(bs, "KEP5_verify")
    /\ \E p \in Polled(bs, FromDr) :
         bs' = IF KEP4Accepted(p)
               THEN [p EXCEPT !.status = "Message_used", !.kep = "Done",
                              !.sys = "SessionReady"]
               ELSE [p EXCEPT !.status = "Message_used", !.kep = "KEP3_send"]
    /\ UNCHANGED <<dr, net, bsRuns, drRuns, offers, sessions>>

\* Success also makes stateMachineBaseStation enter the session.
BsKEP5_verify ==
    /\ InKep(bs, "KEP5_verify")
    /\ \E p \in Polled(bs, FromDr) :
         LET q == [p EXCEPT !.status = "Message_used"]
         IN  \/ /\ KEP4Accepted(p)
                /\ bs' = [q EXCEPT !.kep = "Done", !.sys = "SessionReady",
                                   !.exp = addMultSeqNb(p.msg.seq, 1)]
             \/ /\ ~KEP4Accepted(p)
                /\ bs' = [q EXCEPT !.kep = "KEP3_send"]
    /\ UNCHANGED <<dr, net, bsRuns, drRuns, offers, sessions>>

\* In a session the base station drops whatever message of KEP arrives, and
\* transmits messages of the session, of which the first stands for all.
BsSessionReady ==
    /\ bs.sys = "SessionReady"
    /\ \E p \in Polled(bs, FromDr) : bs' \in Handled(p)
    /\ net' = net \cup {MESS("BS_MESS", addOneSeqNb(bs.seq))}
    /\ UNCHANGED <<dr, bsRuns, drRuns, offers, sessions>>

BsTimeouts == BsTimeout("KEP1_wait", "KEP1_send") \/ BsTimeout("KEP3_wait", "KEP3_send")

\* One iteration of loopBaseStation without a command from the user.
BsIterate ==
    \/ BsIdle
    \/ BsClearSession
    \/ BsKEP_idle
    \/ BsKEP1_compute
    \/ BsKEP1_send
    \/ BsKEP1_wait
    \/ BsKEP3_verify
    \/ BsKEP3_compute
    \/ BsKEP3_send
    \/ BsKEP3_wait
    \/ BsTimeouts
    \/ BsKEP5_verify
    \/ BsSessionReady

-----------------------------------------------------------------------------
(* Drone *)

DrIdle == dr.sys = "Idle" /\ UNCHANGED vars

DrStart ==
    /\ dr.sys = "Idle"
    /\ drRuns < MaxRuns
    /\ dr' = [dr EXCEPT !.sys = "KEP"]
    /\ UNCHANGED <<bs, net, bsRuns, drRuns, offers, sessions>>

DrQuit ==
    /\ dr.sys \in {"KEP", "SessionReady"}
    /\ dr' = [dr EXCEPT !.sys = "ClearSession"]
    /\ UNCHANGED <<bs, net, bsRuns, drRuns, offers, sessions>>

DrClearSession ==
    /\ dr.sys = "ClearSession"
    /\ \E s \in InitSeqNbs :
         dr' = [init_KEP_ctx(dr, s) EXCEPT !.sys = "Idle", !.kep = "KEP_idle"]
    /\ UNCHANGED <<bs, net, bsRuns, drRuns, offers, sessions>>

DrKEP_idle ==
    /\ InKep(dr, "KEP_idle")
    /\ \E p \in Polled(dr, FromBs), s \in InitSeqNbs :
         dr' = [init_KEP_ctx(p, s) EXCEPT !.kep = "KEP2_precompute"]
    /\ UNCHANGED <<bs, net, bsRuns, drRuns, offers, sessions>>

DrKEP2_precompute ==
    /\ InKep(dr, "KEP2_precompute")
    /\ drRuns' = drRuns + 1
    /\ \E p \in Polled(dr, FromBs) :
         dr' = [p EXCEPT !.kep = "KEP2_wait_request", !.point = drRuns']
    /\ UNCHANGED <<bs, net, bsRuns, offers, sessions>>

DrKEP2_wait_request ==
    /\ InKep(dr, "KEP2_wait_request")
    /\ \E p \in Polled(dr, FromBs) :
         \/ /\ Pending(p) /\ p.msg.type = "KEP1"
            /\ dr' = [p EXCEPT !.kep = "KEP2_compute"]
         \/ /\ ~(Pending(p) /\ p.msg.type = "KEP1")
            /\ dr' = [p EXCEPT !.status = "Message_used"]
    /\ UNCHANGED <<bs, net, bsRuns, drRuns, offers, sessions>>

\* Reads the received message, whichever that is after the poll.  Reading the
\* point of a message that has none is a read through a null pointer.
DrKEP2_compute ==
    /\ InKep(dr, "KEP2_compute")
    /\ \E p \in Polled(dr, FromBs) :
         LET key   == <<p.msg.point, p.point>>
             seqNb == IF p.active THEN p.seq ELSE addOneSeqNb(p.seq)
         IN  \/ /\ p.msg.point # Null
                /\ dr' = [p EXCEPT !.kep = "KEP2_send", !.status = "Message_used",
                                   !.exp = addMultSeqNb(p.msg.seq, 1),
                                   !.key = key, !.seq = seqNb, !.active = TRUE,
                                   !.cached = KEP2(seqNb, p.point, key)]
             \/ /\ p.msg.point = Null
                /\ dr' = [p EXCEPT !.sys = "Crashed"]
    /\ UNCHANGED <<bs, net, bsRuns, drRuns, offers, sessions>>

\* KEP2_send, and KEP4_send, after which stateMachineDrone enters the session.
DrSend(state, nextState, nextSys) ==
    /\ InKep(dr, state)
    /\ \E p \in Polled(dr, FromBs) :
         \/ /\ CanTransmit(p)
            /\ transmit(p.cached)
            /\ dr' = [Transmitted(p) EXCEPT !.kep = nextState, !.sys = nextSys]
         \/ /\ ~CanTransmit(p)
            /\ dr' = GiveUp(p)
            /\ UNCHANGED net
    /\ sessions' = sessions \cup
                   (IF dr'.sys = "SessionReady" THEN {DrSession'} ELSE {})
    /\ UNCHANGED <<bs, bsRuns, drRuns, offers>>

DrKEP2_send == DrSend("KEP2_send", "KEP2_wait", "KEP")
DrKEP4_send == DrSend("KEP4_send", "Done", "SessionReady")

DrKEP2_wait ==
    /\ InKep(dr, "KEP2_wait")
    /\ \E p \in Polled(dr, FromBs) :
         \/ /\ Pending(p) /\ p.msg.type = "KEP3"
            /\ dr' = [p EXCEPT !.kep = "KEP4_verify"]
         \/ /\ Pending(p) /\ p.msg.type = "KEP1"
            /\ dr' = [p EXCEPT !.kep = "KEP2_compute", !.status = "Message_used"]
         \/ /\ Pending(p) /\ p.msg.type \notin {"KEP1", "KEP3"}
            /\ dr' = [p EXCEPT !.kep = "KEP2_send", !.status = "Message_used"]
         \/ /\ ~Pending(p)
            /\ dr' = p
    /\ UNCHANGED <<bs, net, bsRuns, drRuns, offers, sessions>>

\* The retransmission timeout of KEP2_wait expires.
DrTimeout ==
    /\ InKep(dr, "KEP2_wait")
    /\ \E p \in Polled(dr, FromBs) :
         /\ ~Pending(p)
         /\ dr' = [p EXCEPT !.kep = "KEP2_send"]
    /\ UNCHANGED <<bs, net, bsRuns, drRuns, offers, sessions>>

\* Mutant: the MAC is not verified.
KEP3AcceptedUnverified(p) == TRUE

KEP3Accepted(p) == p.msg.key = p.key

DrKEP4_verify ==
    /\ InKep(dr, "KEP4_verify")
    /\ \E p \in Polled(dr, FromBs) :
         LET q == [p EXCEPT !.status = "Message_used"]
         IN  \/ /\ KEP3Accepted(p)
                /\ dr' = [q EXCEPT !.kep = "KEP4_compute", !.ntx = 0,
                                   !.exp = addMultSeqNb(p.msg.seq, 1)]
             \/ /\ ~KEP3Accepted(p)
                /\ dr' = [q EXCEPT !.kep = "KEP2_send"]
    /\ UNCHANGED <<bs, net, bsRuns, drRuns, offers, sessions>>

\* Acknowledges the number of the received message, whichever that is now.
DrKEP4_compute ==
    /\ InKep(dr, "KEP4_compute")
    /\ \E p \in Polled(dr, FromBs) :
         LET seqNb == addOneSeqNb(p.seq)
         IN  dr' = [p EXCEPT !.kep = "KEP4_send", !.seq = seqNb,
                             !.cached = KEP4(seqNb, p.key, p.msg.seq)]
    /\ UNCHANGED <<bs, net, bsRuns, drRuns, offers, sessions>>

\* In a session, Done_handler answers a KEP3 with the cached KEP4; in the other
\* iterations the drone transmits messages of the session.
DrSessionReady ==
    /\ dr.sys = "SessionReady"
    /\ \E p \in Polled(dr, FromBs) :
         LET q        == [p EXCEPT !.status = "Message_used"]
             answered == Pending(p) /\ p.msg.type = "KEP3" /\ KEP3Accepted(p)
         IN  \/ /\ ~answered
                /\ dr' \in Handled(p)
                /\ net' = net \cup {MESS("DR_MESS", addOneSeqNb(dr.seq))}
             \/ /\ answered /\ CanTransmit(q)
                /\ transmit(q.cached)
                /\ dr' = Transmitted(q)
             \/ /\ answered /\ ~CanTransmit(q)
                /\ dr' = GiveUp(q)
                /\ UNCHANGED net
    /\ UNCHANGED <<bs, bsRuns, drRuns, offers, sessions>>

\* One iteration of loopDrone without a command from the user.
DrIterate ==
    \/ DrIdle
    \/ DrClearSession
    \/ DrKEP_idle
    \/ DrKEP2_precompute
    \/ DrKEP2_wait_request
    \/ DrKEP2_compute
    \/ DrKEP2_send
    \/ DrKEP2_wait
    \/ DrTimeout
    \/ DrKEP4_verify
    \/ DrKEP4_compute
    \/ DrKEP4_send
    \/ DrSessionReady

-----------------------------------------------------------------------------
Next == BsStart \/ BsQuit \/ BsIterate \/ DrStart \/ DrQuit \/ DrIterate

Spec == Init /\ [][Next]_vars

\* Both loops run forever, and time passes: a process that keeps waiting is
\* eventually past its retransmission timeout.
Fairness ==
    /\ WF_vars(BsIterate) /\ WF_vars(BsTimeouts)
    /\ WF_vars(DrIterate) /\ WF_vars(DrTimeout)

FairSpec == Spec /\ Fairness

-----------------------------------------------------------------------------
(* Properties *)

TypeOK ==
    /\ bs \in Process(BsKepStates)
    /\ dr \in Process(DrKepStates)
    /\ net \subseteq Messages
    /\ bsRuns \in 0 .. MaxRuns
    /\ drRuns \in 0 .. MaxRuns
    /\ offers \subseteq Offers
    /\ sessions \subseteq Sessions

\* No KEP3 was transmitted under this key with another number than the base
\* station gave it.  Its MAC and signature do not tell: a drone that is sent such
\* a KEP3 may take over the wrong number (drone_kep_sm.c:169).
NumberKept(key) ==
    \A m \in net : m.type = "KEP3" /\ m.key = key =>
        [key |-> key, toDrone |-> addOneSeqNb(m.seq)] \in offers

\* When the base station reports "Session ready", the drone has entered a
\* session under the same key and numbers its messages as the base station
\* expects (initializeSessionSequenceNbs copies the numbers into every channel),
\* whatever was lost, repeated, reordered or damaged; and it expects the number
\* the base station will send next, unless KEP3's number was damaged.
BaseAgreesWithDrone ==
    bs.sys = "SessionReady" =>
        \E s \in sessions :
            /\ s.key = bs.key /\ s.toBase = bs.exp
            /\ NumberKept(bs.key) => s = BsSession

\* When the drone reports "Session ready", the base station has authenticated
\* that very run of the drone, whatever the network did; and it will number its
\* messages as the drone expects, unless KEP3's number was damaged.
DroneAgreesWithBase ==
    dr.sys = "SessionReady" =>
        \E o \in offers :
            /\ o.key = dr.key
            /\ NumberKept(dr.key) => o.toDrone = dr.exp

\* A key, and either of the two points it was made from, is used for one
\* session only: no repeated or delayed message of KEP opens a second one.
OneSessionPerPoint ==
    \A s, t \in sessions :
        (s.key[1] = t.key[1] \/ s.key[2] = t.key[2]) => s = t

\* The comment of KEP2_compute_handlerDrone, "This function will use the
\* received message" (drone_kep_sm.c:48), means the KEP1 that the wait state
\* saw; a message without a curve point is never what it reads.
KEP2UsesAPoint == dr.sys # "Crashed"

\* Key establishment ends: the retransmissions are bounded, so the base station
\* reaches the session or clears it, even with no drone at all, and so does the
\* drone once it has answered a KEP1.
KepEnds ==
    /\ bs.sys = "KEP" ~> bs.sys # "KEP"
    /\ InKep(dr, "KEP2_send") ~> dr.sys # "KEP"

-----------------------------------------------------------------------------
(* Refinement *)

Offering ==
    bs.sys = "KEP" /\ bs.kep \in {"KEP3_send", "KEP3_wait", "KEP5_verify"}

Agreement == INSTANCE SessionAgreement WITH
    Numbers <- SeqNbs,
    spoilt  <- {o.key : o \in {x \in offers : ~NumberKept(x.key)}},
    offer <- IF Offering THEN {BsOffer} ELSE {},
    base  <- IF bs.sys = "SessionReady" THEN {BsSession} ELSE {},
    drone <- IF dr.sys = "SessionReady" THEN {DrSession} ELSE {}

\* The four messages, with all their retransmissions and the mishaps of the
\* network, implement the promise of SessionAgreement, where an offer's number
\* is spoilt once a KEP3 was transmitted with another one.
ImplementsAgreement == Agreement!Spec
=============================================================================
