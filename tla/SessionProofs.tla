--------------------------- MODULE SessionProofs ---------------------------
(***************************************************************************)
(* Proofs about Session, for every number of sessions and of requests,     *)
(* every limit on retransmissions, every width of the sequence numbers and *)
(* every choice of first numbers: a channel with acknowledgements carries  *)
(* out what it acknowledges, and implements ReliableChannel.               *)
(***************************************************************************)
EXTENDS Session, SeqNbProofs, SequenceTheorems

(* The invariant.  It speaks of the numbers the requests of a session have *)
(* had, which depend on the number the session began with; no variable     *)
(* keeps that of a session that is over, so it is first[k] for some        *)
(* function first, which every new session extends.                        *)

SessionKeys == 1 .. MaxSessions

\* The j-th number after s: 0 is left out where the numbers wrap.
Number(s, j) == IF s + j > MaxSeqNb THEN s + j - MaxSeqNb ELSE s + j

\* The states of either machine, and those in which a message is in hand.
ReqStates == {"MESS_idle", "MESS_encrypt", "MESS_send", "MESS_wait", "MESS_verify"}
ResHolding == {"MESS_verify", "MESS_react", "MESS_ack", "MESS_nack"}

\* The keys in use, and what may be pending where.
KeysOK ==
    /\ proc["drone"].key = agreed.key
    /\ proc["base"].key <= agreed.key
    /\ \A m \in net : m.key <= agreed.key
    /\ \A who \in Sides :
        /\ proc[who].cached.key <= agreed.key
        /\ proc[who].sys = "SessionReady" => proc[who].key # NoKey
        /\ proc[who].sys = "Idle" => proc[who].mess = "MESS_idle" /\ ~Pending(proc[who])
        /\ Pending(proc[who]) => /\ proc[who].msg \in net
                                 /\ proc[who].msg.type \in TypesFor(who)

\* What a machine in a state of its own relies on.
StatesOK ==
    /\ proc[Requester].mess \in ReqStates
    /\ InState(Requester, "MESS_encrypt") =>
            Len(sent[proc[Requester].key]) < line.requests
    /\ InState(Requester, "MESS_verify") =>
            Pending(proc[Requester]) /\ proc[Requester].msg.type = "ACK"
    /\ \A state \in ResHolding :
            InState(Responder, state) => Pending(proc[Responder])

TypeInv == TypeOK /\ KeysOK /\ StatesOK

\* Both histories are the requests of the session in order, the responder's at
\* most one behind; a session a side has not entered yet has none there.
HistoryOK ==
    \A k \in SessionKeys :
        /\ \A i \in 1 .. Len(sent[k]) : sent[k][i] = <<k, i>>
        /\ \A i \in 1 .. Len(got[k]) : got[k][i] = <<k, i>>
        /\ Len(got[k]) <= Len(sent[k]) /\ Len(sent[k]) <= Len(got[k]) + 1
        /\ k > proc[Requester].key => Len(sent[k]) = 0
        /\ k > proc[Responder].key => Len(got[k]) = 0

\* A message with a MAC: a request is one that was made, and bears its number;
\* an acknowledgement bears the number of a request that was handed over.
Genuine(m, first) ==
    m.key # NoKey =>
        /\ m.type = "SEND" => \E j \in 1 .. Len(sent[m.key]) :
                                m.data = <<m.key, j>> /\ m.seq = Number(first[m.key], j)
        /\ m.type = "ACK" => \E j \in 1 .. Len(got[m.key]) :
                                m.seq = Number(first[m.key], j)

RequesterNumbered(p, first) ==
    p.key # NoKey =>
        /\ p.seq = Number(first[p.key], Len(sent[p.key]))
        /\ p.sys = "SessionReady" /\ p.mess \in {"MESS_idle", "MESS_encrypt"}
                => Len(got[p.key]) = Len(sent[p.key])

\* The number expected is that of the request after the ones handed over, where
\* the request in hand counts as handed over once it is accepted.
ResponderNumbered(p, first) ==
    LET next == Len(got[p.key]) + 1
    IN  p.sys = "SessionReady" =>
            /\ p.mess # "MESS_react" => p.exp = Number(first[p.key], next)
            /\ p.mess = "MESS_react" =>
                    /\ next <= Len(sent[p.key])
                    /\ p.exp = Number(first[p.key], next + 1)
                    /\ p.msg.data = <<p.key, next>>
                    /\ p.msg.seq = Number(first[p.key], next)
            /\ p.mess = "MESS_ack" =>
                    \E j \in 1 .. Len(got[p.key]) : p.msg.seq = Number(first[p.key], j)
            /\ p.mess \in {"MESS_idle", "MESS_verify", "MESS_send"}
                  /\ Pending(p) /\ p.msg.key = p.key
                    => p.status = checkReceivedMessage(p.msg, p.exp)

Numbered(first) ==
    /\ agreed.key # NoKey => agreed.seq = first[agreed.key]
    /\ \A m \in net : Genuine(m, first)
    /\ \A who \in Sides : Genuine(proc[who].cached, first)
    /\ RequesterNumbered(proc[Requester], first)
    /\ ResponderNumbered(proc[Responder], first)

IInv ==
    /\ TypeInv
    /\ DamageShows => HistoryOK /\ \E first \in [SessionKeys -> SeqNbs] : Numbered(first)

-----------------------------------------------------------------------------
(* The numbers of a session. *)

\* The numbers follow one another by the increment of either side, and no two
\* of a cycle are the same, whether or not the first was 0.
LEMMA NumberFacts ==
    ASSUME NEW s \in SeqNbs
    PROVE  /\ Number(s, 0) = s
           /\ \A j \in 0 .. MaxSeqNb : Number(s, j) \in SeqNbs
           /\ \A j \in 0 .. (MaxSeqNb - 1) :
                /\ addOneSeqNb(Number(s, j)) = Number(s, j + 1)
                /\ addMultSeqNb(Number(s, j), 1) = Number(s, j + 1)
           /\ \A i, j \in 1 .. MaxSeqNb : Number(s, i) = Number(s, j) => i = j
<1> USE SeqNbAssumption DEF SeqNbs
<1>1. Number(s, 0) = s /\ \A j \in 0 .. MaxSeqNb : Number(s, j) \in SeqNbs
  BY DEF Number
<1>2. \A j \in 0 .. (MaxSeqNb - 1) : addOneSeqNb(Number(s, j)) = Number(s, j + 1)
  BY DEF Number, addOneSeqNb
<1>3. \A j \in 0 .. (MaxSeqNb - 1) : addMultSeqNb(Number(s, j), 1) = Number(s, j + 1)
  BY <1>1, <1>2, AddOneIsAddMult
<1>4. \A i, j \in 1 .. MaxSeqNb : Number(s, i) = Number(s, j) => i = j
  BY DEF Number
<1>5. QED
  BY <1>1, <1>2, <1>3, <1>4

-----------------------------------------------------------------------------
(* What an iteration begins with and leaves behind. *)

LEMMA Constants ==
    /\ NoKey \in Keys /\ 0 \in SeqNbs /\ NoData \in Data /\ NoMessage \in Messages
    /\ SessionKeys \subseteq Keys /\ Keys \subseteq Int
    /\ 0 \in 0 .. SESSION_MAX_RETRANSMISSIONS
<1>1. NoKey \in Keys /\ 0 \in SeqNbs /\ 0 \in 0 .. MaxRequests
  BY SessionAssumption, SeqNbAssumption DEF NoKey, Keys, SeqNbs
<1>2. QED
  BY <1>1, SessionAssumption DEF NoData, Data, NoMessage, Messages, SessionKeys, Keys, NoKey

\* What a poll can change: the received message and its status, and only when
\* nothing was pending; a message that becomes pending came off the network.
LEMMA PolledFacts ==
    ASSUME TypeOK, NEW who \in Sides, NEW q \in Polled(who)
    PROVE  /\ q \in Process
           /\ q = [proc[who] EXCEPT !.status = q.status, !.msg = q.msg]
           /\ Pending(proc[who]) => q = proc[who]
           /\ Pending(q) => \/ q = proc[who]
                            \/ /\ q.msg \in net /\ q.msg.type \in TypesFor(who)
                               /\ q.status = checkReceivedMessage(q.msg, q.exp)
<1> DEFINE p == proc[who]
<1>1. p \in Process
  BY DEF TypeOK
<1>2. CASE q = p
  BY <1>1, <1>2 DEF Process
<1>3. CASE ~Pending(p) /\ \E m \in net :
             /\ m.type \in TypesFor(who)
             /\ checkReceivedMessage(m, p.exp) # "Message_used"
             /\ q = [p EXCEPT !.status = checkReceivedMessage(m, p.exp), !.msg = m]
  <2>1. PICK m \in net : /\ m.type \in TypesFor(who)
                         /\ q = [p EXCEPT !.status = checkReceivedMessage(m, p.exp),
                                          !.msg = m]
    BY <1>3
  <2>2. m \in Messages /\ checkReceivedMessage(m, p.exp) \in Statuses
    BY DEF TypeOK, checkReceivedMessage, Statuses
  <2>3. QED
    BY <1>1, <1>3, <2>1, <2>2 DEF Process
<1>4. QED
  BY <1>2, <1>3 DEF Polled

\* What the network makes of a message: the message itself or, if damage shows,
\* one without a MAC that fits.
LEMMA TransmitFacts ==
    ASSUME line \in Lines, NEW m \in Messages, transmit(m)
    PROVE  \E x \in Messages :
              /\ net' = net \cup {x}
              /\ x.key \in {m.key, NoKey}
              /\ DamageShows => x = m \/ x.key = NoKey
<1>1. ASSUME NEW x \in Damaged(m)
      PROVE  /\ x \in Messages /\ x.key \in {m.key, NoKey}
             /\ DamageShows => x.key = NoKey
  <2>1. NoKey \in Keys /\ DamagedSeqNbs \subseteq SeqNbs
    BY Constants, SessionAssumption
  <2>2. \/ x = [m EXCEPT !.key = NoKey]
        \/ ~DamageShows /\ \E s \in DamagedSeqNbs : x = [m EXCEPT !.seq = s]
    BY <1>1 DEF Damaged, DamageShows
  <2>3. QED
    BY <2>1, <2>2 DEF Messages
<1>2. PICK x \in {m} \cup Damaged(m) : net' = net \cup {x}
  BY DEF transmit
<1>3. QED
  BY <1>1, <1>2

LEMMA BecomesFacts ==
    ASSUME TypeOK, NEW who \in Sides, NEW q \in Process, Becomes(who, q)
    PROVE  /\ line' = line /\ Requester' = Requester /\ Responder' = Responder
           /\ proc' \in [Sides -> Process]
           /\ proc'[who] = q
           /\ \A other \in Sides \ {who} : proc'[other] = proc[other]
BY DEF TypeOK, Becomes, Requester, Responder

LEMMA RolesFacts ==
    ASSUME TypeOK
    PROVE  /\ Requester \in Sides /\ Responder \in Sides /\ Requester # Responder
           /\ \A who \in Sides : who = Requester \/ who = Responder
           /\ line.sessions \in 0 .. MaxSessions /\ line.requests \in 0 .. MaxRequests
BY SessionAssumption DEF TypeOK, Requester, Responder, Sides

-----------------------------------------------------------------------------
(* Types. *)

\* What a handler may make of its process for the type invariant to hold on.
HandledOK(who, q) ==
    /\ q \in Process
    /\ q.key = proc[who].key /\ q.cached.key <= agreed.key
    /\ q.sys = "SessionReady" => proc[who].sys = "SessionReady"
    /\ q.sys = "Idle" => q.mess = "MESS_idle" /\ ~Pending(q)
    /\ Pending(q) => q.msg \in net /\ q.msg.type \in TypesFor(who)
    /\ who = Requester =>
        /\ q.mess \in ReqStates
        /\ q.sys = "SessionReady" /\ q.mess = "MESS_encrypt"
                => Len(sent[q.key]) < line.requests
        /\ q.sys = "SessionReady" /\ q.mess = "MESS_verify"
                => Pending(q) /\ q.msg.type = "ACK"
    /\ who = Responder =>
            (q.sys = "SessionReady" /\ q.mess \in ResHolding => Pending(q))

\* A handler that leaves its process so leaves a well-formed state, if it only
\* adds to the network and no request while one is prepared.
LEMMA HandlerStep ==
    ASSUME TypeInv, NEW who \in Sides, NEW q \in Process, HandledOK(who, q),
           Becomes(who, q), agreed' = agreed,
           net \subseteq net', net' \subseteq Messages,
           \A m \in net' : m.key <= agreed.key,
           sent' \in [SessionKeys -> Seq(Data)], got' \in [SessionKeys -> Seq(Data)],
           \A k \in SessionKeys : Len(sent'[k]) <= MaxRequests,
           sent' = sent \/ (who = Requester /\ q.mess # "MESS_encrypt")
    PROVE  TypeInv'
<1> USE DEF TypeInv
<1>0. /\ line' = line /\ Requester' = Requester /\ Responder' = Responder
      /\ proc' \in [Sides -> Process]
      /\ proc'[who] = q
      /\ \A other \in Sides \ {who} : proc'[other] = proc[other]
      /\ Requester \in Sides /\ Responder \in Sides /\ Requester # Responder
  BY BecomesFacts, RolesFacts
<1>1. TypeOK'
  BY <1>0 DEF TypeOK, SessionKeys
<1>2. KeysOK'
  <2>1. proc'["drone"].key = agreed'.key /\ proc'["base"].key <= agreed'.key
    BY <1>0 DEF KeysOK, HandledOK, Sides
  <2>2. ASSUME NEW side \in Sides
        PROVE  /\ proc'[side].cached.key <= agreed'.key
               /\ proc'[side].sys = "SessionReady" => proc'[side].key # NoKey
               /\ proc'[side].sys = "Idle" => proc'[side].mess = "MESS_idle" /\ ~Pending(proc'[side])
               /\ Pending(proc'[side]) => /\ proc'[side].msg \in net'
                                          /\ proc'[side].msg.type \in TypesFor(side)
    <3>1. CASE side = who
      BY <1>0, <3>1 DEF HandledOK, KeysOK
    <3>2. CASE side # who
      BY <1>0, <3>2 DEF KeysOK
    <3>3. QED
      BY <3>1, <3>2
  <2>3. QED
    BY <1>0, <2>1, <2>2 DEF KeysOK, Pending, TypesFor
<1>3. StatesOK'
  <2>1. /\ proc'[Requester].mess \in ReqStates
        /\ proc'[Requester].sys = "SessionReady" /\ proc'[Requester].mess = "MESS_encrypt"
                => Len(sent'[proc'[Requester].key]) < line.requests
        /\ proc'[Requester].sys = "SessionReady" /\ proc'[Requester].mess = "MESS_verify"
                => Pending(proc'[Requester]) /\ proc'[Requester].msg.type = "ACK"
    BY <1>0 DEF HandledOK, StatesOK, InState
  <2>2. proc'[Responder].sys = "SessionReady" /\ proc'[Responder].mess \in ResHolding
            => Pending(proc'[Responder])
    BY <1>0 DEF HandledOK, StatesOK, InState
  <2>3. QED
    BY <1>0, <2>1, <2>2 DEF StatesOK, InState, Pending
<1>4. QED
  BY <1>1, <1>2, <1>3

\* A poll alone is such a step, and so is using up the message.
LEMMA PolledOK ==
    ASSUME TypeInv, NEW who \in Sides, NEW q \in Polled(who),
           proc[who].sys = "SessionReady"
    PROVE  /\ HandledOK(who, q) /\ q \in Process
           /\ Used(q) \in Process /\ ~Pending(Used(q))
           /\ q.sys = "SessionReady" /\ q.mess = proc[who].mess
           /\ q.key = proc[who].key /\ q.key \in SessionKeys
           /\ q.seq = proc[who].seq /\ q.exp = proc[who].exp
           /\ q.ntx = proc[who].ntx /\ q.cached = proc[who].cached
           /\ q.msg \in Messages /\ q.status \in Statuses
<1> USE DEF TypeInv
<1>1. /\ q \in Process
      /\ q = [proc[who] EXCEPT !.status = q.status, !.msg = q.msg]
      /\ proc[who] \in Process
  BY PolledFacts DEF TypeOK
<1>2. /\ q.sys = "SessionReady" /\ q.mess = proc[who].mess
      /\ q.key = proc[who].key /\ q.seq = proc[who].seq /\ q.exp = proc[who].exp
      /\ q.ntx = proc[who].ntx /\ q.cached = proc[who].cached
      /\ q.msg \in Messages /\ q.status \in Statuses
  BY <1>1 DEF Process
<1>3. Used(q) \in Process /\ ~Pending(Used(q))
  BY <1>1, Constants DEF Used, Process, Statuses, Pending
<1>4. q.key \in SessionKeys
  BY <1>1, <1>2, SessionAssumption DEF KeysOK, Process, Keys, NoKey, SessionKeys
<1>5. Pending(q) => q.msg \in net /\ q.msg.type \in TypesFor(who)
  BY PolledFacts DEF KeysOK
<1>6. Pending(proc[who]) => q = proc[who]
  BY PolledFacts
<1>7. q.cached.key <= agreed.key
  BY <1>2 DEF KeysOK
<1>8. who = Requester =>
        /\ q.mess \in ReqStates
        /\ q.mess = "MESS_encrypt" => Len(sent[q.key]) < line.requests
        /\ q.mess = "MESS_verify" => Pending(q) /\ q.msg.type = "ACK"
  BY <1>2, <1>6 DEF StatesOK, InState
<1>9. who = Responder => (q.mess \in ResHolding => Pending(q))
  BY <1>2, <1>6 DEF StatesOK, InState
<1>10. HandledOK(who, q)
  BY <1>1, <1>2, <1>5, <1>7, <1>8, <1>9 DEF HandledOK
<1>11. QED
  BY <1>1, <1>2, <1>3, <1>4, <1>10

\* Most handlers only change their process.
LEMMA QuietStep ==
    ASSUME TypeInv, NEW who \in Sides, NEW q \in Process, HandledOK(who, q),
           Becomes(who, q), UNCHANGED <<net, agreed, sent, got>>
    PROVE  TypeInv'
BY HandlerStep DEF TypeInv, TypeOK, KeysOK, SessionKeys

\* A handler that takes its process to a state in which nothing is in hand.
LEMMA FreeStep ==
    ASSUME TypeInv, NEW who \in Sides, NEW p \in Process, HandledOK(who, p), 
           p.sys = "SessionReady",
           NEW q \in Process, q.key = p.key, q.sys \in {p.sys, "ClearSession"},
           q.cached.key <= agreed.key, Pending(q) => Pending(p) /\ q.msg = p.msg,
           q.mess \in {"MESS_idle", "MESS_send", "MESS_wait"}
    PROVE  HandledOK(who, q)
BY DEF HandledOK, ReqStates, ResHolding

\* What is cached goes out; the histories stay.
LEMMA SendStep ==
    ASSUME TypeInv, NEW who \in Sides, NEW next \in {"MESS_idle", "MESS_wait"},
           Send(who, next)
    PROVE  TypeInv'
<1> USE DEF TypeInv
<1>1. PICK p \in Polled(who) :
         \/ /\ CanTransmit(p) /\ transmit(p.cached)
            /\ Becomes(who, [Transmitted(p) EXCEPT !.mess = next])
         \/ /\ Becomes(who, [p EXCEPT !.mess = "MESS_idle", !.sys = "ClearSession"])
            /\ UNCHANGED net
  BY DEF Send
<1>2. proc[who].sys = "SessionReady" /\ UNCHANGED <<agreed, sent, got>>
  BY DEF Send, InState
<1>3. HandledOK(who, p) /\ p \in Process
         /\ p.sys = "SessionReady"
  BY <1>2, PolledOK
<1>4. CASE CanTransmit(p) /\ transmit(p.cached)
           /\ Becomes(who, [Transmitted(p) EXCEPT !.mess = next])
  <2> DEFINE q == [Transmitted(p) EXCEPT !.mess = next]
  <2>1. p.ntx + 1 \in 0 .. SESSION_MAX_RETRANSMISSIONS
    BY <1>3, <1>4, SessionAssumption DEF CanTransmit, Process
  <2>2. q \in Process
    BY <1>3, <2>1 DEF Transmitted, Process, MessStates
  <2>3. HandledOK(who, q)
    <3>1. /\ q.key = p.key /\ q.sys = p.sys /\ q.cached = p.cached /\ q.mess = next
          /\ q.msg = p.msg /\ q.status = p.status
      BY <1>3 DEF Transmitted, Process
    <3>2. QED
      BY <1>3, <2>2, <3>1, FreeStep, ZenonT(60) DEF HandledOK, Pending
  <2>4. p.cached \in Messages /\ p.cached.key <= agreed.key /\ line \in Lines
    BY <1>3 DEF HandledOK, Process, TypeOK
  <2>5. PICK x \in Messages : net' = net \cup {x} /\ x.key \in {p.cached.key, NoKey}
    BY <1>4, <2>4, TransmitFacts
  <2>6. NoKey <= agreed.key
    BY SessionAssumption DEF TypeOK, Keys, NoKey
  <2>7. net \subseteq net' /\ net' \subseteq Messages /\ \A m \in net' : m.key <= agreed.key
    BY <2>4, <2>5, <2>6 DEF TypeOK, KeysOK
  <2>8. QED
    BY <1>2, <1>4, <2>2, <2>3, <2>7, HandlerStep DEF TypeOK, SessionKeys
<1>5. CASE /\ Becomes(who, [p EXCEPT !.mess = "MESS_idle", !.sys = "ClearSession"])
           /\ UNCHANGED net
  <2> DEFINE q == [p EXCEPT !.mess = "MESS_idle", !.sys = "ClearSession"]
  <2>1. q \in Process
    BY <1>3 DEF Process, MessStates
  <2>2. HandledOK(who, q)
    BY <1>3, <2>1, FreeStep DEF HandledOK, Process, Pending
  <2>3. QED
    BY <1>2, <1>5, <2>1, <2>2, QuietStep
<1>6. QED
  BY <1>1, <1>4, <1>5

LEMMA RequesterTypes ==
    ASSUME TypeInv, messReqContinue
    PROVE  TypeInv'
<1> DEFINE who == Requester
<1>0. who \in Sides
  BY RolesFacts DEF TypeInv
<1>p. ASSUME proc[who].sys = "SessionReady", NEW p \in Polled(who)
      PROVE  /\ p \in Process /\ Used(p) \in Process
             /\ HandledOK(who, p) /\ p.key \in SessionKeys
             /\ p.mess = proc[who].mess /\ p.sys = "SessionReady" /\ p.seq \in SeqNbs
  BY <1>0, <1>p, PolledOK DEF Process
<1>1. CASE MESS_idle_Req
  <2>1. PICK p \in Polled(who) :
           \/ Becomes(who, Used(p))
           \/ /\ Len(sent[p.key]) < line.requests
              /\ Becomes(who, [Used(p) EXCEPT !.mess = "MESS_encrypt"])
    BY <1>1 DEF MESS_idle_Req
  <2>2. /\ p \in Process /\ Used(p) \in Process /\ HandledOK(who, p)
        /\ p.mess = "MESS_idle" /\ p.sys = "SessionReady"
    BY <1>1, <1>p DEF MESS_idle_Req, InState
  <2>3. Becomes(who, Used(p)) => HandledOK(who, Used(p))
    BY <2>2 DEF HandledOK, Used, Process, Pending, ReqStates, ResHolding
  <2>4. [Used(p) EXCEPT !.mess = "MESS_encrypt"] \in Process
    BY <2>2 DEF Process, MessStates
  <2>5. Len(sent[p.key]) < line.requests
            => HandledOK(who, [Used(p) EXCEPT !.mess = "MESS_encrypt"])
    <3> DEFINE q == [Used(p) EXCEPT !.mess = "MESS_encrypt"]
    <3>1. /\ q.key = p.key /\ q.sys = p.sys /\ q.cached = p.cached
          /\ q.mess = "MESS_encrypt" /\ ~Pending(q)
      BY <2>2 DEF Used, Process, Pending
    <3>2. q \in Process
      BY <2>4
    <3> HIDE DEF q
    <3>3. Len(sent[p.key]) < line.requests => HandledOK(who, q)
      BY <2>2, <3>1, <3>2 DEF HandledOK, ReqStates, ResHolding
    <3>4. QED
      BY <3>3 DEF q
  <2>6. QED
    BY <1>0, <1>1, <2>1, <2>2, <2>3, <2>4, <2>5, QuietStep DEF MESS_idle_Req
<1>2. CASE MESS_encrypt_Req
  <2>1. PICK p \in Polled(who) :
           LET seqNb == addOneSeqNb(p.seq)
               data  == <<p.key, Len(sent[p.key]) + 1>>
           IN  /\ Becomes(who, [p EXCEPT !.mess = "MESS_send", !.seq = seqNb,
                                         !.cached = SEND(p.key, seqNb, data),
                                         !.ntx = 0])
               /\ sent' = [sent EXCEPT ![p.key] = Append(@, data)]
    BY <1>2 DEF MESS_encrypt_Req
  <2> DEFINE seqNb == addOneSeqNb(p.seq)
             data == <<p.key, Len(sent[p.key]) + 1>>
             q == [p EXCEPT !.mess = "MESS_send", !.seq = seqNb,
                            !.cached = SEND(p.key, seqNb, data), !.ntx = 0]
  <2>2. /\ p \in Process /\ HandledOK(who, p) /\ p.mess = "MESS_encrypt"
        /\ p.sys = "SessionReady" /\ p.key \in SessionKeys /\ p.seq \in SeqNbs
    BY <1>2, <1>p DEF MESS_encrypt_Req, InState
  <2>3. seqNb \in SeqNbs
    BY <2>2, AddOneIsLive DEF SeqNbs, LiveSeqNbs
  <2>4. /\ sent \in [SessionKeys -> Seq(Data)]
        /\ Len(sent[p.key]) \in Nat /\ Len(sent[p.key]) < line.requests
    BY <2>2 DEF TypeInv, TypeOK, SessionKeys, HandledOK
  <2>5. Len(sent[p.key]) + 1 \in 0 .. MaxRequests /\ p.key \in Keys
    BY <1>0, <2>2, <2>4, RolesFacts, Constants, SessionAssumption, SeqNbAssumption, SMTT(30) DEF TypeInv
  <2>6. data \in Data
    BY <2>5 DEF Data
  <2>7. q \in Process
    BY <2>2, <2>3, <2>5, <2>6, Constants DEF SEND, Messages, Process, MessStates
  <2>8. HandledOK(who, q) /\ q.mess # "MESS_encrypt"
    <3>1. /\ q.key = p.key /\ q.sys = p.sys /\ q.cached.key = p.key /\ q.mess = "MESS_send"
          /\ q.msg = p.msg /\ q.status = p.status
      BY <2>2 DEF SEND, Process
    <3>2. p.key <= agreed.key
      BY <1>0, <2>2 DEF HandledOK, KeysOK, TypeInv, Sides, TypeOK, Keys
    <3>3. QED
      BY <1>0, <2>2, <2>7, <3>1, <3>2, FreeStep DEF Pending
  <2>9. /\ sent' \in [SessionKeys -> Seq(Data)]
        /\ \A k \in SessionKeys : Len(sent'[k]) <= MaxRequests
    <3>1. Append(sent[p.key], data) \in Seq(Data)
          /\ Len(Append(sent[p.key], data)) = Len(sent[p.key]) + 1
      BY <2>2, <2>4, <2>6, AppendProperties
    <3>2. \A k \in SessionKeys : Len(sent[k]) <= MaxRequests
      BY DEF TypeInv, TypeOK, SessionKeys
    <3>3. QED
      BY <2>1, <2>2, <2>4, <2>5, <3>1, <3>2
  <2>10. UNCHANGED <<net, agreed, got>>
    BY <1>2 DEF MESS_encrypt_Req
  <2>11. QED
    <3>1. /\ net \subseteq net' /\ net' \subseteq Messages
          /\ \A m \in net' : m.key <= agreed.key
          /\ got' \in [SessionKeys -> Seq(Data)]
      BY <2>10 DEF TypeInv, TypeOK, KeysOK, SessionKeys
    <3> HIDE DEF q
    <3>2. Becomes(who, q)
      BY <2>1 DEF q
    <3>3. QED
      BY <1>0, <2>7, <2>8, <2>9, <2>10, <3>1, <3>2, HandlerStep
<1>3. CASE MESS_send_Req
  BY <1>0, <1>3, SendStep, RolesFacts
     DEF MESS_send_Req, MessStates, ResHolding, ReqStates, TypeInv
<1>4. CASE MESS_timeout_Req
  <2>1. PICK p \in Polled(who) : Becomes(who, [p EXCEPT !.mess = "MESS_send"])
    BY <1>4 DEF MESS_timeout_Req
  <2>2. p \in Process /\ HandledOK(who, p)
    BY <1>4, <1>p DEF MESS_timeout_Req, InState
  <2>3. [p EXCEPT !.mess = "MESS_send"] \in Process
    BY <2>2 DEF Process, MessStates
  <2>4. HandledOK(who, [p EXCEPT !.mess = "MESS_send"])
    BY <1>4, <1>p, <2>2, <2>3 DEF HandledOK, Process, Pending, ReqStates, ResHolding,
                                  MESS_timeout_Req, InState
  <2>5. QED
    BY <1>0, <1>4, <2>1, <2>3, <2>4, QuietStep DEF MESS_timeout_Req
<1>5. CASE MESS_wait_Req
  <2>1. PICK p \in Polled(who) :
           \/ Pending(p) /\ p.msg.type = "ACK" /\ Becomes(who, [p EXCEPT !.mess = "MESS_verify"])
           \/ Becomes(who, [Used(p) EXCEPT !.mess = "MESS_send"])
           \/ Becomes(who, Used(p))
           \/ Becomes(who, p)
    BY <1>5 DEF MESS_wait_Req
  <2>2. /\ p \in Process /\ Used(p) \in Process /\ HandledOK(who, p)
        /\ p.mess = "MESS_wait" /\ p.sys = "SessionReady"
    BY <1>5, <1>p DEF MESS_wait_Req, InState
  <2>3. /\ [p EXCEPT !.mess = "MESS_verify"] \in Process
        /\ [Used(p) EXCEPT !.mess = "MESS_send"] \in Process
    BY <2>2 DEF Process, MessStates
  <2>4. Pending(p) /\ p.msg.type = "ACK" => HandledOK(who, [p EXCEPT !.mess = "MESS_verify"])
    BY <1>0, <2>2, <2>3, RolesFacts
       DEF HandledOK, Process, Pending, ReqStates, TypeInv
  <2>5. HandledOK(who, [Used(p) EXCEPT !.mess = "MESS_send"]) /\ HandledOK(who, Used(p))
    BY <2>2, <2>3 DEF HandledOK, Used, Process, Pending, ReqStates, ResHolding
  <2>6. UNCHANGED <<net, agreed, sent, got>>
    BY <1>5 DEF MESS_wait_Req
  <2>7. QED
    BY <1>0, <2>1, <2>2, <2>3, <2>4, <2>5, <2>6, QuietStep
<1>6. CASE MESS_verify_Req
  <2>1. PICK p \in Polled(who) : \E next \in {"MESS_idle", "MESS_wait"} :
           Becomes(who, [Used(p) EXCEPT !.mess = next])
    BY <1>6 DEF MESS_verify_Req
  <2>2. PICK next \in {"MESS_idle", "MESS_wait"} : Becomes(who, [Used(p) EXCEPT !.mess = next])
    BY <2>1
  <2>3. p \in Process /\ Used(p) \in Process /\ HandledOK(who, p) /\ p.sys = "SessionReady"
    BY <1>6, <1>p DEF MESS_verify_Req, InState
  <2>4. [Used(p) EXCEPT !.mess = next] \in Process
    BY <2>3 DEF Process, MessStates
  <2>5. HandledOK(who, [Used(p) EXCEPT !.mess = next])
    BY <2>3, <2>4 DEF HandledOK, Used, Process, Pending, ReqStates, ResHolding
  <2>6. QED
    BY <1>0, <1>6, <2>2, <2>4, <2>5, QuietStep DEF MESS_verify_Req
<1>7. QED
  BY <1>1, <1>2, <1>3, <1>4, <1>5, <1>6 DEF messReqContinue

LEMMA ResponderTypes ==
    ASSUME TypeInv, messResContinue
    PROVE  TypeInv'
<1> DEFINE who == Responder
<1>0. who \in Sides /\ who # Requester
  BY RolesFacts DEF TypeInv
<1>p. ASSUME proc[who].sys = "SessionReady", NEW p \in Polled(who)
      PROVE  /\ p \in Process /\ Used(p) \in Process
             /\ HandledOK(who, p) /\ p.key \in SessionKeys
             /\ p.mess = proc[who].mess /\ p.sys = "SessionReady"
             /\ p.msg \in Messages
  BY <1>0, <1>p, PolledOK
\* In a state in which a message is in hand the process is what it was.
<1>q. ASSUME NEW q \in Process, NEW p \in Process, HandledOK(who, p), Pending(p),
             q.key = p.key, q.sys = p.sys, p.sys = "SessionReady", q.cached = p.cached,
             q.msg = p.msg, q.status = p.status
      PROVE  HandledOK(who, q)
  BY <1>0, <1>q DEF HandledOK, Pending
<1>1. CASE MESS_idle_Res
  <2>1. PICK p \in Polled(who) :
           Becomes(who, [p EXCEPT !.mess = IF Pending(p) THEN "MESS_verify" ELSE "MESS_idle"])
    BY <1>1 DEF MESS_idle_Res
  <2> DEFINE q == [p EXCEPT !.mess = IF Pending(p) THEN "MESS_verify" ELSE "MESS_idle"]
  <2>2. p \in Process /\ HandledOK(who, p) /\ p.sys = "SessionReady"
    BY <1>1, <1>p DEF MESS_idle_Res, InState
  <2>3. q \in Process
    BY <2>2 DEF Process, MessStates
  <2>4. HandledOK(who, q)
    <3>1. /\ q.key = p.key /\ q.sys = p.sys /\ q.cached = p.cached
          /\ q.msg = p.msg /\ q.status = p.status
          /\ ~Pending(p) => q.mess = "MESS_idle"
      BY <2>2 DEF Process
    <3> HIDE DEF q
    <3>2. QED
      BY <1>0, <1>q, <2>2, <2>3, <3>1, FreeStep DEF Pending, HandledOK
  <2>5. QED
    BY <1>0, <1>1, <2>1, <2>3, <2>4, QuietStep DEF MESS_idle_Res
<1>2. CASE MESS_verify_Res
  <2>1. PICK p \in Polled(who) :
           \/ Becomes(who, [Used(p) EXCEPT !.mess = "MESS_idle"])
           \/ Becomes(who, [p EXCEPT !.mess = "MESS_nack"])
           \/ Becomes(who, [p EXCEPT !.mess = "MESS_react", !.ntx = 0,
                                     !.exp = addMultSeqNb(p.msg.seq, 1)])
           \/ Becomes(who, [p EXCEPT !.mess = "MESS_ack"])
    BY <1>2 DEF MESS_verify_Res
  <2>2. /\ p \in Process /\ Used(p) \in Process /\ HandledOK(who, p)
        /\ p.sys = "SessionReady" /\ p.mess = "MESS_verify" /\ p.msg \in Messages
    BY <1>2, <1>p DEF MESS_verify_Res, InState
  <2>3. Pending(p)
    BY <1>0, <2>2 DEF HandledOK, ResHolding
  <2>4. addMultSeqNb(p.msg.seq, 1) \in SeqNbs
    BY <2>2, AddOneIsAddMult, AddOneIsLive DEF Messages, SeqNbs, LiveSeqNbs
  <2>5. ASSUME NEW q \in {[Used(p) EXCEPT !.mess = "MESS_idle"]}
        PROVE  q \in Process /\ HandledOK(who, q)
    <3>1. q \in Process
      BY <2>2 DEF Process, MessStates
    <3>2. /\ q.key = p.key /\ q.sys = p.sys /\ q.cached = p.cached
          /\ q.mess = "MESS_idle" /\ ~Pending(q)
      BY <2>2 DEF Used, Process, Pending
    <3>3. QED
      BY <1>0, <2>2, <3>1, <3>2, FreeStep DEF HandledOK
  <2>6. ASSUME NEW q \in {[p EXCEPT !.mess = "MESS_nack"],
                          [p EXCEPT !.mess = "MESS_ack"],
                          [p EXCEPT !.mess = "MESS_react", !.ntx = 0,
                                    !.exp = addMultSeqNb(p.msg.seq, 1)]}
        PROVE  q \in Process /\ HandledOK(who, q)
    <3>1. q \in Process
      BY <2>2, <2>4, Constants DEF Process, MessStates
    <3>2. /\ q.key = p.key /\ q.sys = p.sys /\ q.cached = p.cached
          /\ q.msg = p.msg /\ q.status = p.status
      BY <2>2 DEF Process
    <3>3. QED
      BY <1>q, <2>2, <2>3, <3>1, <3>2
  <2>7. PICK q : q \in Process /\ HandledOK(who, q) /\ Becomes(who, q)
    BY <2>1, <2>5, <2>6
  <2>8. QED
    BY <1>0, <1>2, <2>7, QuietStep DEF MESS_verify_Res
<1>3. CASE MESS_react_Res
  <2>1. PICK p \in Polled(who) :
           /\ got' = [got EXCEPT ![p.key] = Append(@, p.msg.data)]
           /\ Becomes(who, [p EXCEPT !.mess = "MESS_ack"])
    BY <1>3 DEF MESS_react_Res
  <2> DEFINE q == [p EXCEPT !.mess = "MESS_ack"]
  <2>2. /\ p \in Process /\ HandledOK(who, p) /\ p.sys = "SessionReady"
        /\ p.mess = "MESS_react" /\ p.msg \in Messages /\ p.key \in SessionKeys
    BY <1>3, <1>p DEF MESS_react_Res, InState
  <2>3. Pending(p)
    BY <1>0, <2>2 DEF HandledOK, ResHolding
  <2>4. q \in Process
    BY <2>2 DEF Process, MessStates
  <2>5. HandledOK(who, q)
    BY <1>q, <2>2, <2>3, <2>4 DEF Process
  <2>6. got' \in [SessionKeys -> Seq(Data)]
    <3>1. p.msg.data \in Data /\ got \in [SessionKeys -> Seq(Data)]
      BY <2>2 DEF Messages, TypeInv, TypeOK, SessionKeys
    <3>2. Append(got[p.key], p.msg.data) \in Seq(Data)
      BY <2>2, <3>1, AppendProperties
    <3>3. QED
      BY <2>1, <2>2, <3>1, <3>2
  <2>7. UNCHANGED <<net, agreed, sent>>
    BY <1>3 DEF MESS_react_Res
  <2>8. QED
    <3> HIDE DEF q
    <3>1. Becomes(who, q)
      BY <2>1 DEF q
    <3>2. QED
      BY <1>0, <2>4, <2>5, <2>6, <2>7, <3>1, HandlerStep
         DEF TypeInv, TypeOK, KeysOK, SessionKeys
<1>4. ASSUME NEW state \in {"MESS_ack", "MESS_nack"}, NEW type \in {"ACK", "NACK"},
             Respond(state, type)
      PROVE  TypeInv'
  <2>1. PICK p \in Polled(who) :
           Becomes(who, [Used(p) EXCEPT !.mess = "MESS_send",
                                        !.cached = Answer(type, p.key, p.msg.seq)])
    BY <1>4 DEF Respond
  <2> DEFINE q == [Used(p) EXCEPT !.mess = "MESS_send",
                                  !.cached = Answer(type, p.key, p.msg.seq)]
  <2>2. /\ p \in Process /\ Used(p) \in Process /\ HandledOK(who, p)
        /\ p.sys = "SessionReady" /\ p.msg \in Messages
    BY <1>4, <1>p DEF Respond, InState
  <2>3. Answer(type, p.key, p.msg.seq) \in Messages
    BY <2>2, <1>4, Constants DEF Answer, Messages, Process
  <2>4. q \in Process
    BY <2>2, <2>3 DEF Process, MessStates
  <2>5. /\ q.key = p.key /\ q.sys = p.sys /\ q.cached.key = p.key
        /\ q.mess = "MESS_send" /\ ~Pending(q)
    BY <2>2 DEF Used, Process, Pending, Answer
  <2>6. p.key <= agreed.key
    BY <1>0, <2>2 DEF HandledOK, KeysOK, TypeInv, Sides, TypeOK, Keys
  <2>7. HandledOK(who, q)
    BY <1>0, <2>2, <2>4, <2>5, <2>6, FreeStep
  <2>8. QED
    BY <1>0, <1>4, <2>1, <2>4, <2>7, QuietStep DEF Respond
<1>5. CASE MESS_send_Res
  BY <1>0, <1>5, SendStep DEF MESS_send_Res
<1>6. QED
  BY <1>1, <1>2, <1>3, <1>4, <1>5 DEF messResContinue, MESS_ack_Res, MESS_nack_Res

\* What entering a session makes of a process.
LEMMA InSessionFacts ==
    ASSUME TypeOK, NEW who \in Sides, NEW p \in Process, NEW s \in SeqNbs, NEW k \in SessionKeys
    PROVE  LET q == InSession(who, p, [key |-> k, seq |-> s])
           IN  /\ q \in Process
               /\ q.sys = "SessionReady" /\ q.key = k
               /\ q.seq = IF who = Requester THEN s ELSE p.seq
               /\ q.exp = IF who = Responder THEN addOneSeqNb(s) ELSE p.exp
               /\ q.mess = p.mess /\ q.ntx = p.ntx /\ q.cached = p.cached
               /\ q.status = p.status /\ q.msg = p.msg
<1>1. k \in Keys
  BY Constants
<1>2. addOneSeqNb(s) \in SeqNbs
  BY AddOneIsLive DEF SeqNbs, LiveSeqNbs
<1>3. QED
  BY <1>1, <1>2 DEF InSession, Process

\* A side that enters a session was idle, with a key it has left behind.
LEMMA EnterStep ==
    ASSUME TypeInv, NEW who \in Sides, NEW p \in Polled(who), NEW s \in SeqNbs,
           NEW k \in SessionKeys, proc[who].sys = "Idle",
           agreed.key <= k, agreed' = [key |-> k, seq |-> s], who = "base" => k = agreed.key,
           Becomes(who, InSession(who, p, agreed')), UNCHANGED <<net, sent, got>>
    PROVE  TypeInv'
<1> USE DEF TypeInv
<1> DEFINE q == InSession(who, p, agreed')
<1>1. /\ p \in Process /\ p.mess = "MESS_idle"
      /\ p.cached = proc[who].cached
      /\ Pending(p) => p.msg \in net /\ p.msg.type \in TypesFor(who)
  <2>1. p \in Process /\ p = [proc[who] EXCEPT !.status = p.status, !.msg = p.msg]
        /\ proc[who] \in Process
    BY PolledFacts DEF TypeOK
  <2>2. proc[who].mess = "MESS_idle" /\ ~Pending(proc[who])
    BY DEF KeysOK
  <2>3. Pending(p) => p.msg \in net /\ p.msg.type \in TypesFor(who)
    BY <2>2, PolledFacts
  <2>4. p.mess = "MESS_idle" /\ p.cached = proc[who].cached
    BY <2>1, <2>2 DEF Process
  <2>5. QED
    BY <2>1, <2>3, <2>4
<1>2. /\ q \in Process /\ q.sys = "SessionReady" /\ q.key = k /\ q.mess = "MESS_idle"
      /\ q.cached = proc[who].cached /\ q.status = p.status /\ q.msg = p.msg
  BY <1>1, InSessionFacts
<1> HIDE DEF q
<1>3. Becomes(who, q)
  BY DEF q
<1>4. /\ line' = line /\ Requester' = Requester /\ Responder' = Responder
      /\ proc' \in [Sides -> Process]
      /\ proc'[who] = q
      /\ \A other \in Sides \ {who} : proc'[other] = proc[other]
      /\ Requester \in Sides /\ Responder \in Sides
  BY <1>2, <1>3, BecomesFacts, RolesFacts
<1>5. agreed'.key = k /\ agreed' \in [key : Keys, seq : SeqNbs]
      /\ k # NoKey /\ k \in Int /\ agreed.key \in Int
  <2>1. k \in Keys /\ k # NoKey /\ Keys \subseteq Int
    BY Constants, SessionAssumption DEF SessionKeys, NoKey
  <2>2. agreed.key \in Keys
    BY DEF TypeOK
  <2>3. QED
    BY <2>1, <2>2
<1>6. TypeOK'
  BY <1>4, <1>5 DEF TypeOK
<1>7. KeysOK'
  <2>1. proc'["drone"].key = k /\ proc'["base"].key <= k
    BY <1>2, <1>4, <1>5 DEF KeysOK, Sides, TypeOK, Process, Keys
  <2>2. \A m \in net' : m.key <= k
    BY <1>5 DEF KeysOK, TypeOK, Messages, Keys
  <2>3. ASSUME NEW side \in Sides
        PROVE  /\ proc'[side].cached.key <= k
               /\ proc'[side].sys = "SessionReady" => proc'[side].key # NoKey
               /\ proc'[side].sys = "Idle" => proc'[side].mess = "MESS_idle" /\ ~Pending(proc'[side])
               /\ Pending(proc'[side]) => /\ proc'[side].msg \in net'
                                          /\ proc'[side].msg.type \in TypesFor(side)
    <3>1. proc[side].cached.key <= agreed.key /\ proc[side].cached.key \in Keys
      BY DEF KeysOK, TypeOK, Process, Messages
    <3>2. proc[side].cached.key <= k
      BY <1>5, <3>1 DEF Keys
    <3>3. CASE side = who
      BY <1>1, <1>2, <1>4, <1>5, <3>2, <3>3 DEF Pending
    <3>4. CASE side # who
      BY <1>4, <3>2, <3>4 DEF KeysOK
    <3>5. QED
      BY <3>3, <3>4
  <2>4. QED
    BY <1>4, <1>5, <2>1, <2>2, <2>3 DEF KeysOK, Pending, TypesFor
<1>8. StatesOK'
  <2>1. CASE who = Requester
    BY <1>2, <1>4, <2>1, RolesFacts DEF StatesOK, InState, ReqStates, ResHolding, Pending
  <2>2. CASE who # Requester
    BY <1>2, <1>4, <2>2, RolesFacts DEF StatesOK, InState, ReqStates, ResHolding, Pending
  <2>3. QED
    BY <2>1, <2>2
<1>9. QED
  BY <1>6, <1>7, <1>8

LEMMA SessionTypes ==
    ASSUME TypeInv,
           DroneEnters \/ BaseAdopts \/ \E who \in Sides : Quit(who) \/ ClearSession(who)
    PROVE  TypeInv'
<1>1. CASE DroneEnters
  <2>1. PICK s \in InitSeqNbs, p \in Polled("drone") :
           /\ agreed' = [key |-> agreed.key + 1, seq |-> s]
           /\ Becomes("drone", InSession("drone", p, agreed'))
    BY <1>1 DEF DroneEnters
  <2>2. agreed.key + 1 \in SessionKeys /\ agreed.key <= agreed.key + 1 /\ s \in SeqNbs
    <3>1. agreed.key \in Nat /\ agreed.key < MaxSessions /\ MaxSessions \in Nat
      BY <1>1, SessionAssumption DEF DroneEnters, TypeInv, TypeOK, Keys, NoKey
    <3>2. agreed.key + 1 \in SessionKeys /\ agreed.key <= agreed.key + 1
      BY <3>1 DEF SessionKeys
    <3>3. s \in SeqNbs
      BY SessionAssumption
    <3>4. QED
      BY <3>2, <3>3
  <2>3. QED
    BY <1>1, <2>1, <2>2, EnterStep DEF DroneEnters, Sides
<1>2. CASE BaseAdopts
  <2>1. proc["base"] \in Polled("base")
    BY DEF Polled
  <2>2. /\ agreed.key \in SessionKeys /\ agreed.key <= agreed.key
        /\ agreed = [key |-> agreed.key, seq |-> agreed.seq] /\ agreed.seq \in SeqNbs
    BY <1>2, SessionAssumption
       DEF BaseAdopts, TypeInv, TypeOK, Keys, NoKey, SessionKeys, Process, Sides
  <2>3. QED
    BY <1>2, <2>1, <2>2, EnterStep DEF BaseAdopts, Sides
<1>3. ASSUME NEW who \in Sides, Quit(who)
      PROVE  TypeInv'
  <2> DEFINE q == [proc[who] EXCEPT !.sys = "ClearSession"]
  <2>1. proc[who] \in Process
    BY DEF TypeInv, TypeOK
  <2>2. /\ q \in Process /\ q.sys = "ClearSession" /\ q.key = proc[who].key
        /\ q.mess = proc[who].mess /\ q.cached = proc[who].cached
        /\ q.status = proc[who].status /\ q.msg = proc[who].msg
    BY <2>1 DEF Process
  <2> HIDE DEF q
  <2>3. HandledOK(who, q)
    BY <2>2 DEF HandledOK, TypeInv, KeysOK, StatesOK, Pending
  <2>4. Becomes(who, q)
    BY <1>3 DEF Quit, q
  <2>5. QED
    BY <1>3, <2>2, <2>3, <2>4, QuietStep DEF Quit
<1>4. ASSUME NEW who \in Sides, ClearSession(who)
      PROVE  TypeInv'
  <2> DEFINE q == [Used(proc[who]) EXCEPT !.sys = "Idle", !.mess = "MESS_idle", !.ntx = 0]
  <2>1. proc[who] \in Process
    BY DEF TypeInv, TypeOK
  <2>2. /\ q \in Process /\ q.sys = "Idle" /\ q.key = proc[who].key
        /\ q.mess = "MESS_idle" /\ q.cached = proc[who].cached
        /\ q.status = "Message_used"
    BY <2>1, Constants DEF Used, Process, MessStates, Statuses
  <2> HIDE DEF q
  <2>3. HandledOK(who, q)
    BY <2>2 DEF HandledOK, TypeInv, KeysOK, StatesOK, Pending, ReqStates
  <2>4. Becomes(who, q)
    BY <1>4 DEF ClearSession, q
  <2>5. QED
    BY <1>4, <2>2, <2>3, <2>4, QuietStep DEF ClearSession
<1>5. QED
  BY <1>1, <1>2, <1>3, <1>4

LEMMA TypeStep ==
    ASSUME TypeInv, [Next]_vars
    PROVE  TypeInv'
<1>1. CASE UNCHANGED vars
  BY <1>1 DEF vars, TypeInv, TypeOK, KeysOK, StatesOK, Requester, Responder, InState,
              Pending, TypesFor
<1>2. CASE \E who \in Sides : Idle(who)
  BY <1>1, <1>2 DEF Idle
<1>3. QED
  BY <1>1, <1>2, RequesterTypes, ResponderTypes, SessionTypes DEF Next

LEMMA TypeInit ==
    ASSUME Init
    PROVE  TypeInv
<1>1. Powered \in Process
  BY Constants DEF Powered, Process, MessStates, Statuses
<1>2. /\ proc = [who \in Sides |-> Powered] /\ net = {} /\ line \in Lines
      /\ agreed = [key |-> NoKey, seq |-> 0]
      /\ sent = [k \in SessionKeys |-> <<>>] /\ got = [k \in SessionKeys |-> <<>>]
  BY DEF Init, SessionKeys
<1>3. TypeOK
  <2>1. MaxRequests >= 0 /\ Len(<<>>) = 0 /\ <<>> \in Seq(Data)
    BY SessionAssumption, SeqNbAssumption
  <2>2. QED
    BY <1>1, <1>2, <2>1, Constants DEF TypeOK, SessionKeys
<1>4. KeysOK
  BY <1>2 DEF KeysOK, Powered, NoKey, NoMessage, Sides, Pending
<1>5. StatesOK
  BY <1>2, <1>3, RolesFacts DEF StatesOK, InState, Powered, ReqStates
<1>6. QED
  BY <1>3, <1>4, <1>5 DEF TypeInv

\* Every reachable state is well formed: no counter, number or history leaves
\* its range, the machines are in states of their own, whatever is pending came
\* off the network and is addressed to the process, and out of a session nothing
\* is pending.
THEOREM Typing == Spec => []TypeOK
<1>1. Init => TypeInv
  BY TypeInit
<1>2. TypeInv /\ [Next]_vars => TypeInv'
  BY TypeStep
<1>3. TypeInv => TypeOK
  BY DEF TypeInv
<1>4. QED
  BY <1>1, <1>2, <1>3, PTL DEF Spec

-----------------------------------------------------------------------------
(* Numbers and histories. *)

Firsts == [SessionKeys -> SeqNbs]

\* A step that leaves the histories and the session as they are.
LEMMA NumberedStep ==
    ASSUME TypeInv, HistoryOK, NEW first \in Firsts, Numbered(first),
           NEW who \in Sides, NEW q \in Process, Becomes(who, q),
           q.key = proc[who].key, UNCHANGED <<agreed, sent, got>>,
           \A m \in net' \ net : Genuine(m, first),
           Genuine(q.cached, first),
           who = Requester => RequesterNumbered(q, first),
           who = Responder => ResponderNumbered(q, first)
    PROVE  HistoryOK' /\ Numbered(first)'
<1>1. /\ Requester' = Requester /\ Responder' = Responder
      /\ proc' \in [Sides -> Process] /\ proc'[who] = q
      /\ \A other \in Sides \ {who} : proc'[other] = proc[other]
      /\ Requester \in Sides /\ Responder \in Sides /\ Requester # Responder
  BY BecomesFacts, RolesFacts DEF TypeInv
<1>2. HistoryOK'
  <2>1. proc'[Requester].key = proc[Requester].key /\ proc'[Responder].key = proc[Responder].key
    BY <1>1
  <2>2. QED
    BY <1>1, <2>1 DEF HistoryOK
<1>3. Numbered(first)'
  <2>1. (\A m \in net : Genuine(m, first))'
    BY DEF Numbered, Genuine
  <2>2. (\A side \in Sides : Genuine(proc[side].cached, first))'
    BY <1>1 DEF Numbered, Genuine
  <2>3. RequesterNumbered(proc[Requester], first)'
    BY <1>1 DEF Numbered, RequesterNumbered
  <2>4. ResponderNumbered(proc[Responder], first)'
    <3>1. ResponderNumbered(proc'[Responder], first)
      BY <1>1 DEF Numbered
    <3>2. QED
      BY <1>1, <3>1 DEF ResponderNumbered, Pending
  <2>5. (agreed.key # NoKey => agreed.seq = first[agreed.key])'
    BY DEF Numbered
  <2>6. QED
    BY <2>1, <2>2, <2>3, <2>4, <2>5 DEF Numbered
<1>4. QED
  BY <1>2, <1>3

\* The invariant of the processes survives a poll.
LEMMA PolledNumbered ==
    ASSUME TypeInv, NEW first \in Firsts, Numbered(first),
           NEW who \in Sides, NEW p \in Polled(who), proc[who].sys = "SessionReady"
    PROVE  /\ Genuine(p.cached, first)
           /\ Pending(p) => Genuine(p.msg, first)
           /\ who = Requester => RequesterNumbered(p, first)
           /\ who = Responder => ResponderNumbered(p, first)
<1>1. /\ p \in Process /\ p.mess = proc[who].mess /\ p.sys = "SessionReady"
      /\ p.key = proc[who].key /\ p.seq = proc[who].seq /\ p.exp = proc[who].exp
      /\ p.cached = proc[who].cached /\ HandledOK(who, p)
  BY PolledOK
<1>2. Pending(p) => p = proc[who] \/ p.status = checkReceivedMessage(p.msg, p.exp)
  BY PolledFacts DEF TypeInv
<1>3. who = Responder => (p.mess \in ResHolding => p = proc[who])
  BY <1>1, PolledFacts DEF TypeInv, StatesOK, InState
<1>4. who = Requester => RequesterNumbered(p, first)
  BY <1>1 DEF Numbered, RequesterNumbered
<1>5. who = Responder => ResponderNumbered(p, first)
  BY <1>1, <1>2, <1>3 DEF Numbered, ResponderNumbered, ResHolding
<1>6. QED
  BY <1>1, <1>4, <1>5 DEF Numbered, HandledOK

\* What is sent carries a number of its session, if it carries a MAC.
LEMMA SendNumbered ==
    ASSUME TypeInv, DamageShows, HistoryOK, NEW first \in Firsts, Numbered(first),
           NEW who \in Sides, NEW next \in {"MESS_idle", "MESS_wait"}, Send(who, next),
           who = Requester => next = "MESS_wait"
    PROVE  HistoryOK' /\ Numbered(first)'
<1>1. PICK p \in Polled(who) :
         \/ /\ CanTransmit(p) /\ transmit(p.cached)
            /\ Becomes(who, [Transmitted(p) EXCEPT !.mess = next])
         \/ /\ Becomes(who, [p EXCEPT !.mess = "MESS_idle", !.sys = "ClearSession"])
            /\ UNCHANGED net
  BY DEF Send
<1>2. /\ proc[who].sys = "SessionReady" /\ proc[who].mess = "MESS_send"
      /\ UNCHANGED <<agreed, sent, got>>
  BY DEF Send, InState
<1>3. /\ p \in Process /\ p.sys = "SessionReady" /\ p.mess = "MESS_send"
      /\ p.key = proc[who].key /\ p.ntx = proc[who].ntx
      /\ p.cached \in Messages
  BY <1>2, PolledOK DEF Process
<1>4. /\ Genuine(p.cached, first)
      /\ who = Requester => RequesterNumbered(p, first)
      /\ who = Responder => ResponderNumbered(p, first)
  BY <1>2, PolledNumbered
<1>5. CASE CanTransmit(p) /\ transmit(p.cached)
           /\ Becomes(who, [Transmitted(p) EXCEPT !.mess = next])
  <2> DEFINE q == [Transmitted(p) EXCEPT !.mess = next]
  <2>1. p.ntx + 1 \in 0 .. SESSION_MAX_RETRANSMISSIONS
    BY <1>3, <1>5, SessionAssumption DEF CanTransmit, Process
  <2>2. /\ q \in Process /\ q.key = p.key /\ q.sys = p.sys /\ q.cached = p.cached
        /\ q.mess = next /\ q.msg = p.msg /\ q.status = p.status /\ q.seq = p.seq
        /\ q.exp = p.exp
    BY <1>3, <2>1 DEF Transmitted, Process, MessStates
  <2> HIDE DEF q
  <2>3. Becomes(who, q)
    BY <1>5 DEF q
  <2>4. \E x \in Messages : net' = net \cup {x} /\ (x = p.cached \/ x.key = NoKey)
    BY <1>3, <1>5, TransmitFacts DEF TypeInv, TypeOK
  <2>5. \A m \in net' \ net : Genuine(m, first)
    BY <1>4, <2>4 DEF Genuine
  <2>6. who = Requester => RequesterNumbered(q, first)
    BY <1>4, <2>2 DEF RequesterNumbered
  <2>7. who = Responder => ResponderNumbered(q, first)
    BY <1>3, <1>4, <2>2 DEF ResponderNumbered, Pending
  <2>8. QED
    BY <1>2, <1>3, <1>4, <2>2, <2>3, <2>5, <2>6, <2>7, NumberedStep
<1>6. CASE /\ Becomes(who, [p EXCEPT !.mess = "MESS_idle", !.sys = "ClearSession"])
           /\ UNCHANGED net
  <2> DEFINE q == [p EXCEPT !.mess = "MESS_idle", !.sys = "ClearSession"]
  <2>1. /\ q \in Process /\ q.key = p.key /\ q.sys = "ClearSession" /\ q.cached = p.cached
        /\ q.seq = p.seq
    BY <1>3 DEF Process, MessStates
  <2> HIDE DEF q
  <2>2. Becomes(who, q)
    BY <1>6 DEF q
  <2>3. /\ who = Requester => RequesterNumbered(q, first)
        /\ who = Responder => ResponderNumbered(q, first)
    BY <1>4, <2>1 DEF RequesterNumbered, ResponderNumbered
  <2>4. \A m \in net' \ net : Genuine(m, first)
    BY <1>6
  <2>5. QED
    BY <1>2, <1>3, <1>4, <2>1, <2>2, <2>3, <2>4, NumberedStep
<1>7. QED
  BY <1>1, <1>5, <1>6

\* The lengths of the histories, and what they say of the numbers.
LEMMA LengthFacts ==
    ASSUME TypeInv, HistoryOK, NEW first \in Firsts, NEW k \in SessionKeys
    PROVE  /\ Len(sent[k]) \in 0 .. MaxRequests /\ Len(got[k]) \in 0 .. MaxRequests
           /\ MaxRequests \in 0 .. (MaxSeqNb - 1)
           /\ first[k] \in SeqNbs
           /\ sent[k] \in Seq(Data) /\ got[k] \in Seq(Data)
           /\ Len(got[k]) \in {Len(sent[k]), Len(sent[k]) - 1}
<1>1. /\ sent[k] \in Seq(Data) /\ got[k] \in Seq(Data) /\ Len(sent[k]) <= MaxRequests
  BY DEF TypeInv, TypeOK, SessionKeys
<1>2. MaxRequests \in 0 .. (MaxSeqNb - 1) /\ MaxSeqNb \in Nat
  BY SessionAssumption, SeqNbAssumption
<1>3. Len(sent[k]) \in Nat /\ Len(got[k]) \in Nat
  BY <1>1
<1>4. Len(got[k]) <= Len(sent[k]) /\ Len(sent[k]) <= Len(got[k]) + 1
  BY DEF HistoryOK
<1>5. QED
  BY <1>1, <1>2, <1>3, <1>4 DEF Firsts

\* An answer to the request that is waited for, with a MAC that fits, means that
\* the responder has carried it out.
LEMMA AcceptedIsDone ==
    ASSUME TypeInv, HistoryOK, NEW first \in Firsts, NEW p,
           p.key \in SessionKeys, RequesterNumbered(p, first), Genuine(p.msg, first),
           p.msg.type = "ACK", ACKAccepted(p)
    PROVE  Len(got[p.key]) = Len(sent[p.key])
<1>1. p.key # NoKey
  BY SessionAssumption DEF SessionKeys, NoKey
<1>2. PICK j \in 1 .. Len(got[p.key]) : p.seq = Number(first[p.key], j)
  BY <1>1 DEF ACKAccepted, Verified, Genuine
<1>3. p.seq = Number(first[p.key], Len(sent[p.key]))
  BY <1>1 DEF RequesterNumbered
<1>4. j = Len(sent[p.key])
  <2>1. /\ j \in 1 .. MaxSeqNb /\ Len(sent[p.key]) \in 1 .. MaxSeqNb
        /\ first[p.key] \in SeqNbs
    BY <1>2, LengthFacts, SeqNbAssumption
  <2>2. QED
    BY <1>2, <1>3, <2>1, NumberFacts
<1>5. QED
  BY <1>2, <1>4, LengthFacts

\* The handlers of the requester that make no request.
LEMMA RequesterNumbers ==
    ASSUME TypeInv, DamageShows, HistoryOK, NEW first \in Firsts, Numbered(first),
           messReqContinue, ~MESS_encrypt_Req
    PROVE  HistoryOK' /\ Numbered(first)'
<1> DEFINE who == Requester
<1>0. who \in Sides /\ who # Responder
  BY RolesFacts DEF TypeInv
<1>p. ASSUME proc[who].sys = "SessionReady", NEW p \in Polled(who)
      PROVE  /\ p \in Process /\ Used(p) \in Process
             /\ HandledOK(who, p) /\ p.key \in SessionKeys
             /\ p.key = proc[who].key /\ p.mess = proc[who].mess /\ p.sys = "SessionReady"
             /\ Genuine(p.cached, first) /\ RequesterNumbered(p, first)
             /\ Pending(p) => Genuine(p.msg, first)
  BY <1>0, <1>p, PolledOK, PolledNumbered
\* Whatever becomes of the process, it need only be idle for a reason.
<1>q. ASSUME NEW p \in Process, NEW q \in Process, RequesterNumbered(p, first),
             Genuine(p.cached, first),
             q.key = p.key, q.seq = p.seq, q.cached = p.cached, p.key = proc[who].key,
             q.sys = "SessionReady" /\ q.mess \in {"MESS_idle", "MESS_encrypt"}
                => Len(got[q.key]) = Len(sent[q.key]),
             Becomes(who, q), UNCHANGED <<net, agreed, sent, got>>
      PROVE  HistoryOK' /\ Numbered(first)'
  <2>1. RequesterNumbered(q, first)
    BY <1>q DEF RequesterNumbered
  <2>2. \A m \in net' \ net : Genuine(m, first)
    BY <1>q
  <2>3. QED
    BY <1>0, <1>q, <2>1, <2>2, NumberedStep
<1>u. ASSUME NEW p \in Process
      PROVE  \A next \in MessStates :
                LET q == [Used(p) EXCEPT !.mess = next]
                IN  /\ q \in Process /\ q.key = p.key /\ q.seq = p.seq
                    /\ q.cached = p.cached /\ q.sys = p.sys /\ q.mess = next
  BY Constants DEF Used, Process, Statuses
<1>1. CASE MESS_idle_Req
  <2>1. PICK p \in Polled(who) :
           \/ Becomes(who, Used(p))
           \/ Becomes(who, [Used(p) EXCEPT !.mess = "MESS_encrypt"])
    BY <1>1 DEF MESS_idle_Req
  <2>2. /\ p \in Process /\ p.sys = "SessionReady" /\ p.mess = "MESS_idle"
        /\ p.key = proc[who].key /\ p.key \in SessionKeys
        /\ Genuine(p.cached, first) /\ RequesterNumbered(p, first)
        /\ UNCHANGED <<net, agreed, sent, got>>
    BY <1>1, <1>p DEF MESS_idle_Req, InState
  <2>3. Len(got[p.key]) = Len(sent[p.key])
    BY <2>2, SessionAssumption DEF RequesterNumbered, SessionKeys, NoKey
  <2>4. Used(p) = [Used(p) EXCEPT !.mess = "MESS_idle"]
    BY <2>2 DEF Used, Process
  <2>5. PICK next \in {"MESS_idle", "MESS_encrypt"} :
           Becomes(who, [Used(p) EXCEPT !.mess = next])
    BY <2>1, <2>4
  <2>6. next \in MessStates
    BY DEF MessStates
  <2>7. QED
    BY <1>q, <1>u, <2>2, <2>3, <2>5, <2>6
<1>3. CASE MESS_send_Req
  BY <1>0, <1>3, SendNumbered DEF MESS_send_Req
<1>4. CASE MESS_timeout_Req
  <2>1. PICK p \in Polled(who) : Becomes(who, [p EXCEPT !.mess = "MESS_send"])
    BY <1>4 DEF MESS_timeout_Req
  <2>2. /\ p \in Process /\ p.key = proc[who].key
        /\ Genuine(p.cached, first) /\ RequesterNumbered(p, first)
        /\ UNCHANGED <<net, agreed, sent, got>>
    BY <1>4, <1>p DEF MESS_timeout_Req, InState
  <2> DEFINE q == [p EXCEPT !.mess = "MESS_send"]
  <2>3. /\ q \in Process /\ q.key = p.key /\ q.seq = p.seq
        /\ q.cached = p.cached /\ q.mess = "MESS_send"
    BY <2>2 DEF Process, MessStates
  <2> HIDE DEF q
  <2>4. Becomes(who, q)
    BY <2>1 DEF q
  <2>5. QED
    BY <1>q, <2>2, <2>3, <2>4
<1>5. CASE MESS_wait_Req
  <2>1. PICK p \in Polled(who) :
           \/ Becomes(who, [p EXCEPT !.mess = "MESS_verify"])
           \/ Becomes(who, [Used(p) EXCEPT !.mess = "MESS_send"])
           \/ Becomes(who, Used(p))
           \/ Becomes(who, p)
    BY <1>5 DEF MESS_wait_Req
  <2>2. /\ p \in Process /\ p.key = proc[who].key /\ p.mess = "MESS_wait"
        /\ Genuine(p.cached, first) /\ RequesterNumbered(p, first)
        /\ UNCHANGED <<net, agreed, sent, got>>
    BY <1>5, <1>p DEF MESS_wait_Req, InState
  <2>3. Used(p) = [Used(p) EXCEPT !.mess = "MESS_wait"]
    BY <2>2 DEF Used, Process
  <2>4. ASSUME NEW q \in {p, [p EXCEPT !.mess = "MESS_verify"],
                          [Used(p) EXCEPT !.mess = "MESS_wait"],
                          [Used(p) EXCEPT !.mess = "MESS_send"]}
        PROVE  /\ q \in Process /\ q.key = p.key /\ q.seq = p.seq
               /\ q.cached = p.cached /\ q.mess \notin {"MESS_idle", "MESS_encrypt"}
    <3>1. CASE q = p \/ q = [p EXCEPT !.mess = "MESS_verify"]
      BY <2>2, <3>1 DEF Process, MessStates
    <3>2. ASSUME NEW next \in {"MESS_wait", "MESS_send"},
                 q = [Used(p) EXCEPT !.mess = next]
          PROVE  /\ q \in Process /\ q.key = p.key /\ q.seq = p.seq
                 /\ q.cached = p.cached /\ q.mess = next
      <4>1. next \in MessStates
        BY DEF MessStates
      <4>2. QED
        BY <1>u, <2>2, <3>2, <4>1
    <3>3. QED
      BY <2>4, <3>1, <3>2
  <2>5. PICK q : /\ q \in Process /\ q.key = p.key /\ q.seq = p.seq
                 /\ q.cached = p.cached /\ q.mess \notin {"MESS_idle", "MESS_encrypt"}
                 /\ Becomes(who, q)
    BY <2>1, <2>3, <2>4
  <2>6. QED
    BY <1>q, <2>2, <2>5
<1>6. CASE MESS_verify_Req
  <2>1. PICK p \in Polled(who) :
           Becomes(who, [Used(p) EXCEPT
                            !.mess = IF ACKAccepted(p) THEN "MESS_idle" ELSE "MESS_wait"])
    BY <1>6 DEF MESS_verify_Req
  <2>2. /\ p \in Process /\ p.key = proc[who].key /\ p.mess = "MESS_verify"
        /\ p.sys = "SessionReady" /\ p.key \in SessionKeys /\ HandledOK(who, p)
        /\ Genuine(p.cached, first) /\ RequesterNumbered(p, first)
        /\ Pending(p) => Genuine(p.msg, first)
        /\ UNCHANGED <<net, agreed, sent, got>>
    BY <1>6, <1>p DEF MESS_verify_Req, InState
  <2>3. p.msg.type = "ACK" /\ Genuine(p.msg, first)
    BY <2>2 DEF HandledOK
  <2> DEFINE next == IF ACKAccepted(p) THEN "MESS_idle" ELSE "MESS_wait"
  <2>4. next \in MessStates
    BY DEF MessStates
  <2>5. next \in {"MESS_idle", "MESS_encrypt"} => Len(got[p.key]) = Len(sent[p.key])
    BY <2>2, <2>3, AcceptedIsDone
  <2> DEFINE q == [Used(p) EXCEPT !.mess = next]
  <2>6. /\ q \in Process /\ q.key = p.key /\ q.seq = p.seq
        /\ q.cached = p.cached /\ q.mess = next
    BY <1>u, <2>2, <2>4
  <2>7. Becomes(who, q)
    BY <2>1
  <2> HIDE DEF q, next
  <2>8. QED
    BY <1>q, <2>2, <2>5, <2>6, <2>7
<1>7. QED
  BY <1>1, <1>3, <1>4, <1>5, <1>6 DEF messReqContinue

\* A request in hand that verifies is the next one or, if it is a repetition,
\* the one that was handed over last.
LEMMA RequestInHand ==
    ASSUME TypeInv, HistoryOK, NEW first \in Firsts, NEW p \in Process,
           p.key \in SessionKeys, p.sys = "SessionReady", p.mess = "MESS_verify",
           ResponderNumbered(p, first), Pending(p), Genuine(p.msg, first),
           p.msg.type = "SEND", SENDAccepted(p)
    PROVE  LET next == Len(got[p.key]) + 1
           IN  /\ p.status # "Message_repeated" =>
                    /\ next <= Len(sent[p.key])
                    /\ p.msg.data = <<p.key, next>>
                    /\ p.msg.seq = Number(first[p.key], next)
                    /\ addMultSeqNb(p.msg.seq, 1) = Number(first[p.key], next + 1)
               /\ p.status = "Message_repeated" =>
                    \E j \in 1 .. Len(got[p.key]) : p.msg.seq = Number(first[p.key], j)
<1> DEFINE next == Len(got[p.key]) + 1
<1>1. p.msg.key = p.key /\ p.key # NoKey
  BY SessionAssumption DEF SENDAccepted, Verified, SessionKeys, NoKey
<1>2. p.exp = Number(first[p.key], next) /\ p.status = checkReceivedMessage(p.msg, p.exp)
  BY <1>1 DEF ResponderNumbered
<1>3. /\ p.status # "Message_repeated" => p.msg.seq = p.exp
      /\ p.status = "Message_repeated" => addMultSeqNb(p.msg.seq, 1) = p.exp
  <2>1. CASE p.msg.seq = p.exp
    BY <1>2, <2>1 DEF checkReceivedMessage
  <2>2. CASE p.msg.seq # p.exp
    <3>1. p.status = IF addMultSeqNb(p.msg.seq, 1) = p.exp THEN "Message_repeated"
                                                           ELSE "Message_used"
      BY <1>2, <2>2 DEF checkReceivedMessage
    <3>2. QED
      BY <3>1 DEF Pending
  <2>3. QED
    BY <2>1, <2>2
<1>4. PICK j \in 1 .. Len(sent[p.key]) :
         p.msg.data = <<p.key, j>> /\ p.msg.seq = Number(first[p.key], j)
  BY <1>1 DEF Genuine
<1>5. /\ j \in 1 .. (MaxSeqNb - 1) /\ j + 1 \in 1 .. MaxSeqNb /\ j \in 1 .. MaxSeqNb
      /\ next \in 1 .. MaxSeqNb /\ first[p.key] \in SeqNbs
      /\ j \in 0 .. (MaxSeqNb - 1)
  BY LengthFacts, SeqNbAssumption
<1>6. addMultSeqNb(p.msg.seq, 1) = Number(first[p.key], j + 1)
  BY <1>4, <1>5, NumberFacts
<1>7. CASE p.status # "Message_repeated"
  <2>1. j = next
    BY <1>2, <1>3, <1>4, <1>5, <1>7, NumberFacts
  <2>2. QED
    BY <1>4, <1>5, <1>6, <1>7, <2>1
<1>8. CASE p.status = "Message_repeated"
  <2>1. j + 1 = next
    BY <1>2, <1>3, <1>5, <1>6, <1>8, NumberFacts
  <2>2. j \in 1 .. Len(got[p.key])
    BY <1>5, <2>1, LengthFacts
  <2>3. QED
    BY <1>4, <1>8, <2>2
<1>9. QED
  BY <1>7, <1>8

\* The handlers of the responder that hand nothing over.
LEMMA ResponderNumbers ==
    ASSUME TypeInv, DamageShows, HistoryOK, NEW first \in Firsts, Numbered(first),
           messResContinue, ~MESS_react_Res
    PROVE  HistoryOK' /\ Numbered(first)'
<1> DEFINE who == Responder
<1>0. who \in Sides /\ who # Requester
  BY RolesFacts DEF TypeInv
<1>p. ASSUME proc[who].sys = "SessionReady", NEW p \in Polled(who)
      PROVE  /\ p \in Process /\ Used(p) \in Process
             /\ HandledOK(who, p) /\ p.key \in SessionKeys
             /\ p.key = proc[who].key /\ p.mess = proc[who].mess /\ p.sys = "SessionReady"
             /\ Genuine(p.cached, first) /\ ResponderNumbered(p, first)
             /\ Pending(p) => Genuine(p.msg, first) /\ p.msg.type = "SEND"
             /\ p.msg \in Messages
  BY <1>0, <1>p, PolledOK, PolledNumbered DEF HandledOK, TypesFor
<1>q. ASSUME NEW p \in Process, NEW q \in Process, ResponderNumbered(q, first),
             Genuine(q.cached, first), q.key = p.key, p.key = proc[who].key,
             Becomes(who, q), UNCHANGED <<net, agreed, sent, got>>
      PROVE  HistoryOK' /\ Numbered(first)'
  <2>1. \A m \in net' \ net : Genuine(m, first)
    BY <1>q
  <2>2. QED
    BY <1>0, <1>q, <2>1, NumberedStep
<1>1. CASE MESS_idle_Res
  <2>1. PICK p \in Polled(who) :
           Becomes(who, [p EXCEPT !.mess = IF Pending(p) THEN "MESS_verify" ELSE "MESS_idle"])
    BY <1>1 DEF MESS_idle_Res
  <2> DEFINE q == [p EXCEPT !.mess = IF Pending(p) THEN "MESS_verify" ELSE "MESS_idle"]
  <2>2. /\ p \in Process /\ p.mess = "MESS_idle" /\ p.key = proc[who].key
        /\ p.sys = "SessionReady"
        /\ Genuine(p.cached, first) /\ ResponderNumbered(p, first)
        /\ UNCHANGED <<net, agreed, sent, got>>
    BY <1>1, <1>p DEF MESS_idle_Res, InState
  <2>3. /\ q \in Process /\ q.key = p.key /\ q.cached = p.cached /\ q.exp = p.exp
        /\ q.sys = p.sys
        /\ q.mess \in {"MESS_idle", "MESS_verify"} /\ q.msg = p.msg /\ q.status = p.status
    BY <2>2 DEF Process, MessStates
  <2> HIDE DEF q
  <2>4. ResponderNumbered(q, first)
    BY <2>2, <2>3 DEF ResponderNumbered, Pending
  <2>5. Becomes(who, q)
    BY <2>1 DEF q
  <2>6. QED
    BY <1>q, <2>2, <2>3, <2>4, <2>5
<1>2. CASE MESS_verify_Res
  <2>1. PICK p \in Polled(who) :
           \/ Becomes(who, [Used(p) EXCEPT !.mess = "MESS_idle"])
           \/ Becomes(who, [p EXCEPT !.mess = "MESS_nack"])
           \/ /\ SENDAccepted(p) /\ p.status # "Message_repeated"
              /\ Becomes(who, [p EXCEPT !.mess = "MESS_react", !.ntx = 0,
                                        !.exp = addMultSeqNb(p.msg.seq, 1)])
           \/ /\ SENDAccepted(p) /\ p.status = "Message_repeated"
              /\ Becomes(who, [p EXCEPT !.mess = "MESS_ack"])
    BY <1>2 DEF MESS_verify_Res
  <2>2. /\ p \in Process /\ Used(p) \in Process /\ HandledOK(who, p)
        /\ p.sys = "SessionReady" /\ p.mess = "MESS_verify" /\ p.key = proc[who].key
        /\ p.msg \in Messages /\ p.key \in SessionKeys
        /\ Genuine(p.cached, first) /\ ResponderNumbered(p, first)
        /\ Pending(p) => Genuine(p.msg, first) /\ p.msg.type = "SEND"
        /\ UNCHANGED <<net, agreed, sent, got>>
    BY <1>2, <1>p DEF MESS_verify_Res, InState
  <2>3. Pending(p)
    BY <1>0, <2>2 DEF HandledOK, ResHolding
  <2>4. addMultSeqNb(p.msg.seq, 1) \in SeqNbs
    BY <2>2, AddOneIsAddMult, AddOneIsLive DEF Messages, SeqNbs, LiveSeqNbs
  <2>5. CASE Becomes(who, [Used(p) EXCEPT !.mess = "MESS_idle"])
    <3> DEFINE q == [Used(p) EXCEPT !.mess = "MESS_idle"]
    <3>1. /\ q \in Process /\ q.key = p.key /\ q.cached = p.cached /\ q.exp = p.exp
          /\ q.mess = "MESS_idle" /\ ~Pending(q)
      BY <2>2 DEF Used, Process, Pending, MessStates
    <3> HIDE DEF q
    <3>2. ResponderNumbered(q, first)
      BY <2>2, <3>1 DEF ResponderNumbered
    <3>3. Becomes(who, q)
      BY <2>5 DEF q
    <3>4. QED
      BY <1>q, <2>2, <3>1, <3>2, <3>3
  <2>6. CASE Becomes(who, [p EXCEPT !.mess = "MESS_nack"])
    <3> DEFINE q == [p EXCEPT !.mess = "MESS_nack"]
    <3>1. /\ q \in Process /\ q.key = p.key /\ q.cached = p.cached /\ q.exp = p.exp
          /\ q.mess = "MESS_nack"
      BY <2>2 DEF Process, MessStates
    <3> HIDE DEF q
    <3>2. ResponderNumbered(q, first)
      BY <2>2, <3>1 DEF ResponderNumbered
    <3>3. Becomes(who, q)
      BY <2>6 DEF q
    <3>4. QED
      BY <1>q, <2>2, <3>1, <3>2, <3>3
  <2>7. CASE /\ SENDAccepted(p) /\ p.status # "Message_repeated"
             /\ Becomes(who, [p EXCEPT !.mess = "MESS_react", !.ntx = 0,
                                       !.exp = addMultSeqNb(p.msg.seq, 1)])
    <3> DEFINE q == [p EXCEPT !.mess = "MESS_react", !.ntx = 0,
                              !.exp = addMultSeqNb(p.msg.seq, 1)]
    <3>1. /\ q \in Process /\ q.key = p.key /\ q.cached = p.cached
          /\ q.exp = addMultSeqNb(p.msg.seq, 1)
          /\ q.mess = "MESS_react" /\ q.msg = p.msg
      BY <2>2, <2>4, Constants DEF Process, MessStates
    <3> HIDE DEF q
    <3>2. ResponderNumbered(q, first)
      BY <2>2, <2>3, <2>7, <3>1, RequestInHand DEF ResponderNumbered
    <3>3. Becomes(who, q)
      BY <2>7 DEF q
    <3>4. QED
      BY <1>q, <2>2, <3>1, <3>2, <3>3
  <2>8. CASE /\ SENDAccepted(p) /\ p.status = "Message_repeated"
             /\ Becomes(who, [p EXCEPT !.mess = "MESS_ack"])
    <3> DEFINE q == [p EXCEPT !.mess = "MESS_ack"]
    <3>1. /\ q \in Process /\ q.key = p.key /\ q.cached = p.cached /\ q.exp = p.exp
          /\ q.mess = "MESS_ack" /\ q.msg = p.msg
      BY <2>2 DEF Process, MessStates
    <3> HIDE DEF q
    <3>2. \E j \in 1 .. Len(got[p.key]) : p.msg.seq = Number(first[p.key], j)
      BY <2>2, <2>3, <2>8, RequestInHand
    <3>3. ResponderNumbered(q, first)
      BY <2>2, <3>1, <3>2 DEF ResponderNumbered
    <3>4. Becomes(who, q)
      BY <2>8 DEF q
    <3>5. QED
      BY <1>q, <2>2, <3>1, <3>3, <3>4
  <2>9. QED
    BY <2>1, <2>5, <2>6, <2>7, <2>8
<1>4. ASSUME NEW type \in {"ACK", "NACK"},
             Respond(IF type = "ACK" THEN "MESS_ack" ELSE "MESS_nack", type)
      PROVE  HistoryOK' /\ Numbered(first)'
  <2>1. PICK p \in Polled(who) :
           Becomes(who, [Used(p) EXCEPT !.mess = "MESS_send",
                                        !.cached = Answer(type, p.key, p.msg.seq)])
    BY <1>4 DEF Respond
  <2> DEFINE q == [Used(p) EXCEPT !.mess = "MESS_send",
                                  !.cached = Answer(type, p.key, p.msg.seq)]
  <2>2. /\ p \in Process /\ Used(p) \in Process /\ p.key = proc[who].key
        /\ p.sys = "SessionReady" /\ p.msg \in Messages
        /\ p.mess = IF type = "ACK" THEN "MESS_ack" ELSE "MESS_nack"
        /\ ResponderNumbered(p, first) /\ UNCHANGED <<net, agreed, sent, got>>
    BY <1>4, <1>p DEF Respond, InState
  <2>3. Answer(type, p.key, p.msg.seq) \in Messages
    BY <2>2, <1>4, Constants DEF Answer, Messages, Process
  <2>4. /\ q \in Process /\ q.key = p.key /\ q.exp = p.exp /\ q.mess = "MESS_send"
        /\ ~Pending(q) /\ q.cached = Answer(type, p.key, p.msg.seq)
    BY <2>2, <2>3 DEF Used, Process, Pending, MessStates
  <2> HIDE DEF q
  <2>5. type = "ACK" => \E j \in 1 .. Len(got[p.key]) : p.msg.seq = Number(first[p.key], j)
    BY <2>2 DEF ResponderNumbered
  <2>6. Genuine(q.cached, first)
    BY <2>4, <2>5 DEF Genuine, Answer
  <2>7. ResponderNumbered(q, first)
    BY <2>2, <2>4 DEF ResponderNumbered
  <2>8. Becomes(who, q)
    BY <2>1 DEF q
  <2>9. QED
    BY <1>q, <2>2, <2>4, <2>6, <2>7, <2>8
<1>5. CASE MESS_send_Res
  BY <1>0, <1>5, SendNumbered DEF MESS_send_Res
<1>6. QED
  BY <1>1, <1>2, <1>4, <1>5 DEF messResContinue, MESS_ack_Res, MESS_nack_Res

\* A genuine message stays genuine while the histories grow.
LEMMA GenuineGrows ==
    ASSUME TypeInv, HistoryOK, NEW first \in Firsts, NEW m \in Messages, Genuine(m, first),
           \A k \in SessionKeys : /\ Len(sent[k]) <= Len(sent'[k]) /\ Len(sent'[k]) \in Nat
                                  /\ Len(got[k]) <= Len(got'[k]) /\ Len(got'[k]) \in Nat
    PROVE  Genuine(m, first)'
<1>1. CASE m.key = NoKey
  BY <1>1 DEF Genuine
<1>2. CASE m.key # NoKey
  <2>1. m.key \in SessionKeys
    BY <1>2, SessionAssumption DEF Messages, Keys, NoKey, SessionKeys
  <2>2. Len(sent[m.key]) \in Nat /\ Len(got[m.key]) \in Nat
    BY <2>1, LengthFacts
  <2>3. /\ 1 .. Len(sent[m.key]) \subseteq 1 .. Len(sent'[m.key])
        /\ 1 .. Len(got[m.key]) \subseteq 1 .. Len(got'[m.key])
    BY <2>1, <2>2
  <2>4. QED
    BY <1>2, <2>3 DEF Genuine
<1>3. QED
  BY <1>1, <1>2

\* A request is made when the one before it has been handed over: it takes the
\* next number and the next place in the history.
LEMMA EncryptNumbers ==
    ASSUME TypeInv, DamageShows, HistoryOK, NEW first \in Firsts, Numbered(first),
           MESS_encrypt_Req
    PROVE  /\ HistoryOK' /\ Numbered(first)'
           /\ \E k \in SessionKeys :
                /\ Len(got[k]) = Len(sent[k])
                /\ sent' = [sent EXCEPT ![k] = Append(@, <<k, Len(@) + 1>>)]
                /\ got' = got
<1> DEFINE who == Requester
<1>0. who \in Sides /\ Responder \in Sides /\ who # Responder
  BY RolesFacts DEF TypeInv
<1>1. PICK p \in Polled(who) :
         LET seqNb == addOneSeqNb(p.seq)
             data  == <<p.key, Len(sent[p.key]) + 1>>
         IN  /\ Becomes(who, [p EXCEPT !.mess = "MESS_send", !.seq = seqNb,
                                       !.cached = SEND(p.key, seqNb, data),
                                       !.ntx = 0])
             /\ sent' = [sent EXCEPT ![p.key] = Append(@, data)]
  BY DEF MESS_encrypt_Req
<1> DEFINE k == p.key
           seqNb == addOneSeqNb(p.seq)
           data == <<k, Len(sent[k]) + 1>>
<1>2. /\ p \in Process /\ p.mess = "MESS_encrypt" /\ p.sys = "SessionReady"
      /\ k = proc[who].key /\ k \in SessionKeys /\ p.seq \in SeqNbs
      /\ RequesterNumbered(p, first)
      /\ Len(sent[k]) < line.requests
  BY <1>0, PolledOK, PolledNumbered DEF MESS_encrypt_Req, InState, Process, HandledOK
<1>3. UNCHANGED <<net, agreed, got>>
  BY DEF MESS_encrypt_Req
<1>4. /\ k # NoKey /\ p.seq = Number(first[k], Len(sent[k]))
      /\ Len(got[k]) = Len(sent[k])
  BY <1>2, SessionAssumption DEF RequesterNumbered, SessionKeys, NoKey
<1>5. /\ Len(sent[k]) \in 0 .. MaxRequests /\ Len(sent[k]) < MaxRequests
      /\ MaxRequests \in 0 .. (MaxSeqNb - 1) /\ first[k] \in SeqNbs
      /\ sent[k] \in Seq(Data)
  <2>1. /\ Len(sent[k]) \in 0 .. MaxRequests /\ MaxRequests \in 0 .. (MaxSeqNb - 1)
        /\ first[k] \in SeqNbs /\ sent[k] \in Seq(Data)
    BY <1>2, LengthFacts
  <2>2. line.requests \in 0 .. MaxRequests
    BY RolesFacts DEF TypeInv
  <2>3. QED
    BY <1>2, <2>1, <2>2, SeqNbAssumption
<1>6. seqNb = Number(first[k], Len(sent[k]) + 1) /\ seqNb \in SeqNbs
  <2>1. Len(sent[k]) \in 0 .. (MaxSeqNb - 1) /\ Len(sent[k]) + 1 \in 0 .. MaxSeqNb
    BY <1>5, SeqNbAssumption
  <2>2. QED
    BY <1>4, <1>5, <2>1, NumberFacts
<1>7. data \in Data /\ k \in Keys
  <2>1. Len(sent[k]) + 1 \in 0 .. MaxRequests
    BY <1>5, SeqNbAssumption
  <2>2. k \in Keys
    BY <1>2, Constants
  <2>3. QED
    BY <2>1, <2>2 DEF Data
<1>8. PICK q \in Process :
         /\ q.key = k /\ q.seq = seqNb /\ q.mess = "MESS_send"
         /\ q.sys = "SessionReady" /\ q.cached = SEND(k, seqNb, data)
         /\ Becomes(who, q)
  <2> DEFINE r == [p EXCEPT !.mess = "MESS_send", !.seq = seqNb,
                            !.cached = SEND(k, seqNb, data), !.ntx = 0]
  <2>1. /\ r \in Process /\ r.key = k /\ r.seq = seqNb /\ r.mess = "MESS_send"
        /\ r.sys = "SessionReady" /\ r.cached = SEND(k, seqNb, data)
    BY <1>2, <1>6, <1>7, Constants DEF SEND, Messages, Process, MessStates
  <2>2. Becomes(who, r)
    BY <1>1
  <2> HIDE DEF r
  <2>3. QED
    BY <2>1, <2>2
<1>9. /\ sent' = [sent EXCEPT ![k] = Append(@, data)]
      /\ sent \in [SessionKeys -> Seq(Data)]
  BY <1>1 DEF TypeInv, TypeOK, SessionKeys
<1>10. /\ Requester' = Requester /\ Responder' = Responder
       /\ proc' \in [Sides -> Process] /\ proc'[who] = q
       /\ proc'[Responder] = proc[Responder]
       /\ \A other \in Sides \ {who} : proc'[other] = proc[other]
  BY <1>0, <1>8, BecomesFacts DEF TypeInv
<1>11. /\ \A i \in SessionKeys : i # k => sent'[i] = sent[i]
       /\ sent'[k] = Append(sent[k], data)
  BY <1>2, <1>9
<1>12. /\ Len(sent'[k]) = Len(sent[k]) + 1
       /\ \A i \in 1 .. Len(sent[k]) : sent'[k][i] = sent[k][i]
       /\ sent'[k][Len(sent[k]) + 1] = data
  BY <1>5, <1>7, <1>11, AppendProperties
<1>13. HistoryOK'
  <2>1. ASSUME NEW i \in SessionKeys
        PROVE  /\ \A j \in 1 .. Len(sent'[i]) : sent'[i][j] = <<i, j>>
               /\ \A j \in 1 .. Len(got[i]) : got[i][j] = <<i, j>>
               /\ Len(got[i]) <= Len(sent'[i]) /\ Len(sent'[i]) <= Len(got[i]) + 1
               /\ i > q.key => Len(sent'[i]) = 0
               /\ i > proc[Responder].key => Len(got[i]) = 0
    <3>1. CASE i # k
      BY <1>2, <1>8, <1>11, <3>1 DEF HistoryOK
    <3>2. CASE i = k
      <4>1. \A j \in 1 .. (Len(sent[k]) + 1) : j \in 1 .. Len(sent[k]) \/ j = Len(sent[k]) + 1
        BY <1>5
      <4>2. \A j \in 1 .. Len(sent'[k]) : sent'[k][j] = <<k, j>>
        BY <1>2, <1>12, <4>1 DEF HistoryOK
      <4>3. ~(k > q.key)
        BY <1>2, <1>8, SessionAssumption DEF SessionKeys
      <4>4. Len(got[k]) <= Len(sent'[k]) /\ Len(sent'[k]) <= Len(got[k]) + 1
        BY <1>4, <1>5, <1>12
      <4>5. QED
        BY <3>2, <4>2, <4>3, <4>4 DEF HistoryOK
    <3>3. QED
      BY <3>1, <3>2
  <2>2. QED
    BY <1>3, <1>10, <2>1 DEF HistoryOK
<1>14. Numbered(first)'
  <2>1. \A i \in SessionKeys : /\ Len(sent[i]) <= Len(sent'[i]) /\ Len(sent'[i]) \in Nat
                               /\ Len(got[i]) <= Len(got'[i]) /\ Len(got'[i]) \in Nat
    <3>1. \A i \in SessionKeys : Len(sent[i]) \in Nat /\ Len(got[i]) \in Nat
      BY LengthFacts
    <3>2. QED
      BY <1>3, <1>11, <1>12, <3>1
  <2>2. \A m \in Messages : Genuine(m, first) => Genuine(m, first)'
    BY <2>1, GenuineGrows
  <2>3. (\A m \in net : Genuine(m, first))'
    BY <1>3, <2>2 DEF Numbered, TypeInv, TypeOK
  <2>4. Genuine(q.cached, first)'
    <3>1. Len(sent[k]) + 1 \in 1 .. Len(sent'[k])
      BY <1>5, <1>12
    <3>2. QED
      BY <1>6, <1>8, <3>1 DEF Genuine, SEND
  <2>5. Genuine(proc[Responder].cached, first)'
    <3>1. proc[Responder].cached \in Messages /\ Genuine(proc[Responder].cached, first)
      BY <1>0 DEF Numbered, TypeInv, TypeOK, Process
    <3>2. \A m \in Messages : m = proc'[Responder].cached => Genuine(m, first)'
      BY <1>10, <2>2, <3>1
    <3>3. proc'[Responder].cached \in Messages
      BY <1>10, <3>1
    <3>4. QED
      BY <1>10, <3>2, <3>3 DEF Genuine
  <2>6. (\A side \in Sides : Genuine(proc[side].cached, first))'
    BY <1>0, <1>10, <2>4, <2>5, RolesFacts DEF Genuine, TypeInv
  <2>7. RequesterNumbered(proc[Requester], first)'
    BY <1>6, <1>8, <1>10, <1>12 DEF RequesterNumbered
  <2>8. ResponderNumbered(proc[Responder], first)'
    <3>1. ResponderNumbered(proc[Responder], first)
      BY DEF Numbered
    <3>2. proc[Responder].sys = "SessionReady" => proc[Responder].key \in SessionKeys
      BY <1>0, SessionAssumption
         DEF TypeInv, KeysOK, TypeOK, Process, Keys, NoKey, SessionKeys
    <3>3. /\ \A i \in SessionKeys : Len(sent[i]) <= Len(sent'[i])
          /\ \A i \in SessionKeys : Len(sent[i]) \in Nat /\ Len(sent'[i]) \in Nat
          /\ \A i \in SessionKeys : Len(got[i]) \in Nat
      BY <2>1, LengthFacts
    <3>4. QED
      BY <1>3, <1>10, <3>1, <3>2, <3>3 DEF ResponderNumbered, Pending
  <2>9. (agreed.key # NoKey => agreed.seq = first[agreed.key])'
    BY <1>3 DEF Numbered
  <2>10. QED
    BY <2>3, <2>6, <2>7, <2>8, <2>9 DEF Numbered
<1>15. QED
  BY <1>2, <1>3, <1>4, <1>9, <1>13, <1>14

\* A request is handed over in the place where it was made.
LEMMA ReactNumbers ==
    ASSUME TypeInv, DamageShows, HistoryOK, NEW first \in Firsts, Numbered(first),
           MESS_react_Res
    PROVE  /\ HistoryOK' /\ Numbered(first)'
           /\ \E k \in SessionKeys :
                /\ Len(got[k]) < Len(sent[k])
                /\ got' = [got EXCEPT ![k] = Append(@, sent[k][Len(@) + 1])]
                /\ sent' = sent
<1> DEFINE who == Responder
<1>0. who \in Sides /\ Requester \in Sides /\ who # Requester
  BY RolesFacts DEF TypeInv
<1>1. PICK p \in Polled(who) :
         /\ got' = [got EXCEPT ![p.key] = Append(@, p.msg.data)]
         /\ Becomes(who, [p EXCEPT !.mess = "MESS_ack"])
  BY DEF MESS_react_Res
<1> DEFINE k == p.key
<1>2. /\ p \in Process /\ p.mess = "MESS_react" /\ p.sys = "SessionReady"
      /\ k = proc[who].key /\ k \in SessionKeys /\ p.msg \in Messages
      /\ ResponderNumbered(p, first) /\ Genuine(p.cached, first)
  BY <1>0, PolledOK, PolledNumbered DEF MESS_react_Res, InState
<1>3. UNCHANGED <<net, agreed, sent>>
  BY DEF MESS_react_Res
<1>4. PICK next \in Nat : next = Len(got[k]) + 1
  BY <1>2, LengthFacts
<1>5. /\ next <= Len(sent[k]) /\ p.exp = Number(first[k], next + 1)
      /\ p.msg.data = <<k, next>> /\ p.msg.seq = Number(first[k], next)
  BY <1>2, <1>4 DEF ResponderNumbered
<1>6. /\ Len(sent[k]) \in Nat /\ Len(got[k]) \in Nat
      /\ got[k] \in Seq(Data) /\ p.msg.data \in Data
      /\ got \in [SessionKeys -> Seq(Data)]
  BY <1>2, LengthFacts DEF Messages, TypeInv, TypeOK, SessionKeys
<1>7. PICK q \in Process :
         /\ q.key = k /\ q.exp = p.exp /\ q.mess = "MESS_ack" /\ q.msg = p.msg
         /\ q.cached = p.cached /\ Becomes(who, q)
  <2> DEFINE r == [p EXCEPT !.mess = "MESS_ack"]
  <2>1. /\ r \in Process /\ r.key = k /\ r.exp = p.exp /\ r.mess = "MESS_ack"
        /\ r.msg = p.msg /\ r.cached = p.cached
    BY <1>2 DEF Process, MessStates
  <2>2. Becomes(who, r)
    BY <1>1
  <2> HIDE DEF r
  <2>3. QED
    BY <2>1, <2>2
<1>8. /\ Requester' = Requester /\ Responder' = Responder
      /\ proc' \in [Sides -> Process] /\ proc'[who] = q
      /\ proc'[Requester] = proc[Requester]
      /\ \A other \in Sides \ {who} : proc'[other] = proc[other]
  BY <1>0, <1>7, BecomesFacts DEF TypeInv
<1>9. /\ \A i \in SessionKeys : i # k => got'[i] = got[i]
      /\ got'[k] = Append(got[k], p.msg.data)
  BY <1>1, <1>2, <1>6
<1>10. /\ Len(got'[k]) = next
       /\ \A i \in 1 .. Len(got[k]) : got'[k][i] = got[k][i]
       /\ got'[k][next] = <<k, next>>
  BY <1>4, <1>5, <1>6, <1>9, AppendProperties
<1>11. HistoryOK'
  <2>1. ASSUME NEW i \in SessionKeys
        PROVE  /\ \A j \in 1 .. Len(sent[i]) : sent[i][j] = <<i, j>>
               /\ \A j \in 1 .. Len(got'[i]) : got'[i][j] = <<i, j>>
               /\ Len(got'[i]) <= Len(sent[i]) /\ Len(sent[i]) <= Len(got'[i]) + 1
               /\ i > proc[Requester].key => Len(sent[i]) = 0
               /\ i > q.key => Len(got'[i]) = 0
    <3>1. CASE i # k
      BY <1>2, <1>7, <1>9, <3>1 DEF HistoryOK
    <3>2. CASE i = k
      <4>1. \A j \in 1 .. next : j \in 1 .. Len(got[k]) \/ j = next
        BY <1>4, <1>6
      <4>2. \A j \in 1 .. Len(got'[k]) : got'[k][j] = <<k, j>>
        BY <1>2, <1>10, <4>1 DEF HistoryOK
      <4>3. ~(k > q.key)
        BY <1>2, <1>7, SessionAssumption DEF SessionKeys
      <4>4. Len(sent[k]) <= Len(got[k]) + 1
        BY <1>2 DEF HistoryOK
      <4>5. Len(got'[k]) <= Len(sent[k]) /\ Len(sent[k]) <= Len(got'[k]) + 1
        BY <1>4, <1>5, <1>6, <1>10, <4>4
      <4>6. QED
        BY <1>2, <3>2, <4>2, <4>3, <4>5 DEF HistoryOK
    <3>3. QED
      BY <3>1, <3>2
  <2>2. QED
    BY <1>3, <1>7, <1>8, <2>1 DEF HistoryOK
<1>12. Numbered(first)'
  <2>1. \A i \in SessionKeys : /\ Len(sent[i]) <= Len(sent'[i]) /\ Len(sent'[i]) \in Nat
                               /\ Len(got[i]) <= Len(got'[i]) /\ Len(got'[i]) \in Nat
    <3>1. \A i \in SessionKeys : Len(sent[i]) \in Nat /\ Len(got[i]) \in Nat
      BY LengthFacts
    <3>2. QED
      BY <1>3, <1>4, <1>9, <1>10, <3>1
  <2>2. \A m \in Messages : Genuine(m, first) => Genuine(m, first)'
    BY <2>1, GenuineGrows
  <2>3. (\A m \in net : Genuine(m, first))'
    BY <1>3, <2>2 DEF Numbered, TypeInv, TypeOK
  <2>4. ASSUME NEW side \in Sides
        PROVE  Genuine(proc[side].cached, first)'
    <3>1. PICK m \in Messages : m = proc[side].cached
      BY DEF TypeInv, TypeOK, Process
    <3>2. p.cached = proc[who].cached
      <4>1. p = [proc[who] EXCEPT !.status = p.status, !.msg = p.msg] /\ proc[who] \in Process
        BY <1>0, PolledFacts DEF TypeInv, TypeOK
      <4>2. QED
        BY <4>1 DEF Process
    <3>3. proc'[side].cached = m
      <4>1. CASE side = who
        BY <1>7, <1>8, <3>1, <3>2, <4>1
      <4>2. CASE side # who
        BY <1>8, <3>1, <4>2
      <4>3. QED
        BY <4>1, <4>2
    <3>4. Genuine(m, first)
      BY <3>1 DEF Numbered
    <3>5. Genuine(m, first)'
      BY <2>2, <3>4
    <3>6. QED
      BY <3>3, <3>5 DEF Genuine
  <2>5. RequesterNumbered(proc[Requester], first)'
    <3>1. RequesterNumbered(proc[Requester], first)
      BY DEF Numbered
    <3>2. proc[Requester].key # NoKey => proc[Requester].key \in SessionKeys
      BY <1>0, SessionAssumption
         DEF TypeInv, TypeOK, Process, Keys, NoKey, SessionKeys
    <3>3. ~(Len(got[k]) = Len(sent[k]))
      BY <1>4, <1>5, <1>6
    <3>4. QED
      BY <1>3, <1>8, <1>9, <3>1, <3>2, <3>3 DEF RequesterNumbered
  <2>6. ResponderNumbered(proc[Responder], first)'
    <3>1. /\ q.exp = Number(first[k], Len(got'[k]) + 1)
          /\ \E j \in 1 .. Len(got'[k]) : q.msg.seq = Number(first[k], j)
      <4>1. next \in 1 .. Len(got'[k])
        BY <1>4, <1>6, <1>10
      <4>2. QED
        BY <1>5, <1>7, <1>10, <4>1
    <3>2. QED
      BY <1>7, <1>8, <3>1 DEF ResponderNumbered
  <2>7. (agreed.key # NoKey => agreed.seq = first[agreed.key])'
    BY <1>3 DEF Numbered
  <2>8. QED
    BY <2>3, <2>4, <2>5, <2>6, <2>7 DEF Numbered
<1>13. /\ Len(got[k]) < Len(sent[k])
       /\ got' = [got EXCEPT ![k] = Append(@, sent[k][Len(@) + 1])]
  <2>1. Len(got[k]) < Len(sent[k]) /\ next \in 1 .. Len(sent[k])
    BY <1>4, <1>5, <1>6
  <2>2. sent[k][Len(got[k]) + 1] = p.msg.data
    BY <1>2, <1>4, <1>5, <2>1 DEF HistoryOK
  <2>3. QED
    BY <1>1, <2>1, <2>2
<1>14. QED
  BY <1>2, <1>3, <1>11, <1>12, <1>13

\* A session begins with its own number, on both sides; what is left over from
\* earlier ones keeps theirs.
LEMMA EnterNumbers ==
    ASSUME TypeInv, HistoryOK, NEW first \in Firsts, Numbered(first),
           NEW who \in Sides, NEW p \in Polled(who), NEW s \in SeqNbs,
           NEW k \in SessionKeys, proc[who].sys = "Idle", proc[who].key < k,
           Pending(p) => agreed.key < k,
           agreed.key <= k, agreed' = [key |-> k, seq |-> s],
           Becomes(who, InSession(who, p, agreed')), UNCHANGED <<net, sent, got>>,
           NEW others \in Firsts, others[k] = s,
           \A i \in SessionKeys : i <= agreed.key => others[i] = first[i]
    PROVE  HistoryOK' /\ Numbered(others)'
<1>1. /\ p \in Process /\ p.mess = "MESS_idle" /\ p.cached = proc[who].cached
      /\ Pending(p) => p.msg \in net
  <2>1. p \in Process /\ p = [proc[who] EXCEPT !.status = p.status, !.msg = p.msg]
        /\ proc[who] \in Process
    BY PolledFacts DEF TypeInv, TypeOK
  <2>2. proc[who].mess = "MESS_idle" /\ ~Pending(proc[who])
    BY DEF TypeInv, KeysOK
  <2>3. Pending(p) => p.msg \in net
    BY <2>2, PolledFacts DEF TypeInv
  <2>4. QED
    BY <2>1, <2>2, <2>3 DEF Process
<1>2. PICK q \in Process :
         /\ q.sys = "SessionReady" /\ q.key = k /\ q.mess = "MESS_idle"
         /\ q.seq = IF who = Requester THEN s ELSE p.seq
         /\ q.exp = IF who = Responder THEN addOneSeqNb(s) ELSE p.exp
         /\ q.cached = p.cached /\ q.status = p.status /\ q.msg = p.msg
         /\ Becomes(who, q)
  <2> DEFINE r == InSession(who, p, [key |-> k, seq |-> s])
  <2>1. /\ r \in Process /\ r.sys = "SessionReady" /\ r.key = k /\ r.mess = "MESS_idle"
        /\ r.seq = IF who = Requester THEN s ELSE p.seq
        /\ r.exp = IF who = Responder THEN addOneSeqNb(s) ELSE p.exp
        /\ r.cached = p.cached /\ r.status = p.status /\ r.msg = p.msg
    BY <1>1, InSessionFacts DEF TypeInv
  <2>2. Becomes(who, r)
    OBVIOUS
  <2> HIDE DEF r
  <2>3. QED
    BY <2>1, <2>2
<1>3. /\ Requester' = Requester /\ Responder' = Responder
      /\ proc' \in [Sides -> Process] /\ proc'[who] = q
      /\ \A other \in Sides \ {who} : proc'[other] = proc[other]
      /\ Requester \in Sides /\ Responder \in Sides /\ Requester # Responder
  BY <1>2, BecomesFacts, RolesFacts DEF TypeInv
<1>4. /\ k \in Int /\ k # NoKey /\ agreed.key \in Int
      /\ \A side \in Sides : proc[side].key \in Keys /\ proc[side].key <= agreed.key
      /\ Keys \subseteq Int
      /\ \A key \in Keys : key # NoKey => key \in SessionKeys
  <2>1. k \in Int /\ k # NoKey /\ Keys \subseteq Int
        /\ \A key \in Keys : key # NoKey => key \in SessionKeys
    BY SessionAssumption DEF SessionKeys, NoKey, Keys
  <2>2. agreed.key \in Keys /\ \A side \in Sides : proc[side].key \in Keys
    BY DEF TypeInv, TypeOK, Process
  <2>3. agreed.key <= agreed.key
    <3>1. \A key \in Int : key <= key
      OBVIOUS
    <3>2. QED
      BY <2>1, <2>2, <3>1
  <2>4. proc["drone"].key <= agreed.key /\ proc["base"].key <= agreed.key
    BY <2>3 DEF TypeInv, KeysOK
  <2>5. agreed.key \in Int
    BY <2>1, <2>2
  <2>6. QED
    BY <2>1, <2>2, <2>4, <2>5 DEF Sides
<1>5. HistoryOK'
  <2>1. ASSUME NEW i \in SessionKeys, NEW side \in Sides, i > proc'[side].key
        PROVE  i > proc[side].key
    <3>1. i \in Int
      BY SessionAssumption DEF SessionKeys
    <3>2. CASE side = who
      <4>1. proc[who].key \in Int /\ i > k
        BY <1>2, <1>3, <1>4, <2>1, <3>2
      <4>2. proc[who].key < k /\ k \in Int
        BY <1>4
      <4>3. QED
        BY <3>1, <3>2, <4>1, <4>2
    <3>3. CASE side # who
      BY <1>3, <2>1, <3>3
    <3>4. QED
      BY <3>2, <3>3
  <2>2. QED
    BY <1>3, <2>1 DEF HistoryOK
<1>6. Len(sent[k]) >= Len(got[k]) /\ Len(sent[k]) \in Nat /\ Len(got[k]) \in Nat
  BY LengthFacts DEF HistoryOK
<1>7. Numbered(others)'
  <2>1. ASSUME NEW m \in Messages, m.key <= agreed.key, Genuine(m, first)
        PROVE  Genuine(m, others)'
    <3>1. m.key # NoKey => m.key \in SessionKeys
      BY <1>4 DEF Messages
    <3>2. QED
      BY <2>1, <3>1 DEF Genuine
  <2>2. (\A m \in net : Genuine(m, others))'
    BY <2>1 DEF Numbered, TypeInv, TypeOK, KeysOK
  <2>3. ASSUME NEW side \in Sides
        PROVE  Genuine(proc[side].cached, others)'
    <3>1. PICK m \in Messages : m = proc[side].cached
      BY DEF TypeInv, TypeOK, Process
    <3>2. proc'[side].cached = m /\ Genuine(m, first) /\ m.key <= agreed.key
      BY <1>1, <1>2, <1>3, <3>1 DEF Numbered, TypeInv, KeysOK
    <3>3. Genuine(m, others)'
      BY <2>1, <3>2
    <3>4. QED
      BY <3>2, <3>3 DEF Genuine
  <2>4. RequesterNumbered(proc[Requester], others)'
    <3>1. CASE who = Requester
      <4>1. Len(sent[k]) = 0
        BY <3>1 DEF HistoryOK
      <4>2. Number(others[k], 0) = s
        BY NumberFacts
      <4>3. QED
        BY <1>2, <1>3, <1>6, <3>1, <4>1, <4>2 DEF RequesterNumbered
    <3>2. CASE who # Requester
      BY <1>3, <1>4, <3>2 DEF RequesterNumbered, Numbered
    <3>3. QED
      BY <3>1, <3>2
  <2>5. ResponderNumbered(proc[Responder], others)'
    <3>1. CASE who = Responder
      <4>1. Len(got[k]) = 0
        BY <3>1 DEF HistoryOK
      <4>2. Number(others[k], 1) = addOneSeqNb(s)
        <5>1. 0 \in 0 .. (MaxSeqNb - 1)
          BY SeqNbAssumption
        <5>2. addOneSeqNb(Number(s, 0)) = Number(s, 0 + 1) /\ Number(s, 0) = s
          BY <5>1, NumberFacts
        <5>3. QED
          BY <5>2
      <4>3. q.exp = Number(others[k], Len(got[k]) + 1)
        BY <1>2, <3>1, <4>1, <4>2
      <4>4. Pending(q) => q.msg.key # k
        <5>1. Pending(q) => p.msg \in net /\ agreed.key < k
          BY <1>1, <1>2 DEF Pending
        <5>2. Pending(q) => p.msg.key <= agreed.key /\ p.msg.key \in Keys
          BY <5>1 DEF TypeInv, TypeOK, KeysOK, Messages
        <5>3. QED
          BY <1>2, <1>4, <5>1, <5>2
      <4>5. QED
        BY <1>2, <1>3, <3>1, <4>3, <4>4 DEF ResponderNumbered, Pending
    <3>2. CASE who # Responder
      <4>1. ResponderNumbered(proc[Responder], others)
        <5>1. ResponderNumbered(proc[Responder], first)
          BY DEF Numbered
        <5>2. proc[Responder].sys = "SessionReady"
                 => others[proc[Responder].key] = first[proc[Responder].key]
          BY <1>3, <1>4 DEF TypeInv, KeysOK
        <5>3. QED
          BY <5>1, <5>2 DEF ResponderNumbered
      <4>2. QED
        BY <1>3, <3>2, <4>1 DEF ResponderNumbered, Pending
    <3>3. QED
      BY <3>1, <3>2
  <2>6. (agreed.key # NoKey => agreed.seq = others[agreed.key])'
    OBVIOUS
  <2>7. QED
    BY <2>2, <2>3, <2>4, <2>5, <2>6 DEF Numbered
<1>8. QED
  BY <1>5, <1>7

\* Between requests and answers: the session itself.
LEMMA SessionNumbers ==
    ASSUME TypeInv, HistoryOK, NEW first \in Firsts, Numbered(first),
           DroneEnters \/ BaseAdopts \/ \E who \in Sides : Quit(who) \/ ClearSession(who)
    PROVE  /\ HistoryOK' /\ \E others \in Firsts : Numbered(others)'
           /\ UNCHANGED <<sent, got>>
<1>0. /\ proc \in [Sides -> Process] /\ "drone" \in Sides /\ "base" \in Sides
      /\ agreed = [key |-> agreed.key, seq |-> agreed.seq]
      /\ agreed.key \in Keys /\ agreed.seq \in SeqNbs
      /\ proc["drone"].key = agreed.key
      /\ \A who \in Sides : proc[who].key \in Keys
  BY DEF TypeInv, TypeOK, KeysOK, Sides, Process
<1>1. CASE DroneEnters
  <2>1. PICK s \in InitSeqNbs, p \in Polled("drone") :
           /\ agreed' = [key |-> agreed.key + 1, seq |-> s]
           /\ Becomes("drone", InSession("drone", p, agreed'))
    BY <1>1 DEF DroneEnters
  <2>2. PICK k \in SessionKeys : k = agreed.key + 1
    <3>1. agreed.key < line.sessions /\ line.sessions \in 0 .. MaxSessions
      BY <1>1, RolesFacts DEF DroneEnters, TypeInv
    <3>2. agreed.key \in Nat /\ MaxSessions \in Nat
      BY <1>0, SessionAssumption DEF Keys, NoKey
    <3>3. agreed.key + 1 \in 1 .. MaxSessions
      BY <3>1, <3>2
    <3>4. QED
      BY <3>3 DEF SessionKeys
  <2>3. PICK others \in Firsts :
           others[k] = s /\ \A i \in SessionKeys : i # k => others[i] = first[i]
    <3>1. s \in SeqNbs
      BY SessionAssumption
    <3>2. [first EXCEPT ![k] = s] \in Firsts
      BY <3>1 DEF Firsts
    <3>3. QED
      BY <3>2 DEF Firsts
  <2>4. /\ agreed.key < k /\ agreed.key <= k
        /\ \A i \in SessionKeys : i <= agreed.key => i # k
    <3>1. agreed.key \in Int /\ \A i \in SessionKeys : i \in Int
      BY <1>0, Constants
    <3>2. QED
      BY <2>2, <3>1
  <2>5. s \in SeqNbs /\ agreed' = [key |-> k, seq |-> s]
    BY <2>1, <2>2, SessionAssumption
  <2>6. UNCHANGED <<net, sent, got>> /\ proc["drone"].sys = "Idle"
    BY <1>1 DEF DroneEnters
  <2>7. HistoryOK' /\ Numbered(others)'
    BY <1>0, <2>1, <2>3, <2>4, <2>5, <2>6, EnterNumbers
  <2>8. QED
    BY <2>6, <2>7
<1>2. CASE BaseAdopts
  <2>1. /\ proc["base"].sys = "Idle" /\ proc["base"].key < agreed.key
        /\ agreed' = agreed /\ UNCHANGED <<net, sent, got>>
        /\ Becomes("base", InSession("base", proc["base"], agreed'))
    BY <1>2 DEF BaseAdopts
  <2>2. agreed.key \in SessionKeys /\ agreed.key # NoKey /\ agreed.key <= agreed.key
    BY <1>0, <2>1, SessionAssumption DEF Keys, NoKey, SessionKeys
  <2>3. first[agreed.key] = agreed.seq
    BY <2>2 DEF Numbered
  <2>4. ~Pending(proc["base"]) /\ proc["base"] \in Polled("base")
    BY <1>0, <2>1 DEF TypeInv, KeysOK, Polled
  <2>5. agreed' = [key |-> agreed.key, seq |-> agreed.seq]
    BY <1>0, <2>1
  <2>6. HistoryOK' /\ Numbered(first)'
    BY <1>0, <2>1, <2>2, <2>3, <2>4, <2>5, EnterNumbers
  <2>7. QED
    BY <2>1, <2>6
<1>3. ASSUME NEW who \in Sides, Quit(who) \/ ClearSession(who)
      PROVE  HistoryOK' /\ Numbered(first)' /\ UNCHANGED <<sent, got>>
  <2>1. PICK q \in Process :
           /\ Becomes(who, q) /\ q.sys # "SessionReady"
           /\ q.key = proc[who].key /\ q.seq = proc[who].seq /\ q.cached = proc[who].cached
    <3>1. CASE Quit(who)
      <4> DEFINE r == [proc[who] EXCEPT !.sys = "ClearSession"]
      <4>1. /\ r \in Process /\ r.sys # "SessionReady" /\ r.key = proc[who].key
            /\ r.seq = proc[who].seq /\ r.cached = proc[who].cached
        BY <1>0 DEF Process
      <4>2. Becomes(who, r)
        BY <3>1 DEF Quit
      <4> HIDE DEF r
      <4>3. QED
        BY <4>1, <4>2
    <3>2. CASE ClearSession(who)
      <4> DEFINE r == [Used(proc[who]) EXCEPT !.sys = "Idle", !.mess = "MESS_idle", !.ntx = 0]
      <4>1. /\ r \in Process /\ r.sys # "SessionReady" /\ r.key = proc[who].key
            /\ r.seq = proc[who].seq /\ r.cached = proc[who].cached
        BY <1>0, Constants DEF Process, Used, Statuses, MessStates
      <4>2. Becomes(who, r)
        BY <3>2 DEF ClearSession
      <4> HIDE DEF r
      <4>3. QED
        BY <4>1, <4>2
    <3>3. QED
      BY <1>3, <3>1, <3>2
  <2>2. UNCHANGED <<net, agreed, sent, got>>
    BY <1>3 DEF Quit, ClearSession
  <2>3. RequesterNumbered(proc[Requester], first) /\ Genuine(q.cached, first)
    BY <2>1 DEF Numbered
  <2>4. who = Requester => RequesterNumbered(q, first)
    BY <2>1, <2>3 DEF RequesterNumbered
  <2>5. ResponderNumbered(q, first)
    BY <2>1 DEF ResponderNumbered
  <2>6. QED
    BY <2>1, <2>2, <2>3, <2>4, <2>5, NumberedStep
<1>4. QED
  BY <1>1, <1>2, <1>3

\* A step of the channel, as ReliableChannel describes it.
ChannelStep ==
    \/ UNCHANGED <<sent, got>>
    \/ \E k \in SessionKeys :
         /\ Len(got[k]) = Len(sent[k])
         /\ sent' = [sent EXCEPT ![k] = Append(@, <<k, Len(@) + 1>>)]
         /\ got' = got
    \/ \E k \in SessionKeys :
         /\ Len(got[k]) < Len(sent[k])
         /\ got' = [got EXCEPT ![k] = Append(@, sent[k][Len(@) + 1])]
         /\ sent' = sent

\* Every step keeps the numbers of the sessions and takes the channel at most
\* one request further.
LEMMA NumbersStep ==
    ASSUME TypeInv, DamageShows, HistoryOK, NEW first \in Firsts, Numbered(first),
           [Next]_vars
    PROVE  HistoryOK' /\ (\E others \in Firsts : Numbered(others)') /\ ChannelStep
<1>1. CASE UNCHANGED vars \/ \E who \in Sides : Idle(who)
  <2>1. UNCHANGED vars
    BY <1>1 DEF Idle
  <2>2. HistoryOK'
    BY <2>1 DEF vars, HistoryOK, Requester, Responder
  <2>3. Numbered(first)'
    BY <2>1 DEF vars, Numbered, Genuine, RequesterNumbered, ResponderNumbered, Requester,
                Responder, Pending
  <2>4. QED
    BY <2>1, <2>2, <2>3 DEF vars, ChannelStep
<1>2. CASE messReqContinue /\ ~MESS_encrypt_Req
  <2>1. UNCHANGED <<sent, got>>
    BY <1>2 DEF messReqContinue, MESS_idle_Req, MESS_send_Req, MESS_timeout_Req,
                MESS_wait_Req, MESS_verify_Req, Send
  <2>2. QED
    BY <1>2, <2>1, RequesterNumbers DEF ChannelStep
<1>3. CASE MESS_encrypt_Req
  BY <1>3, EncryptNumbers DEF ChannelStep
<1>4. CASE messResContinue /\ ~MESS_react_Res
  <2>1. UNCHANGED <<sent, got>>
    BY <1>4 DEF messResContinue, MESS_idle_Res, MESS_verify_Res, MESS_ack_Res,
                MESS_nack_Res, MESS_send_Res, Respond, Send
  <2>2. QED
    BY <1>4, <2>1, ResponderNumbers DEF ChannelStep
<1>5. CASE MESS_react_Res
  BY <1>5, ReactNumbers DEF ChannelStep
<1>6. CASE DroneEnters \/ BaseAdopts \/ \E who \in Sides : Quit(who) \/ ClearSession(who)
  BY <1>6, SessionNumbers DEF ChannelStep
<1>7. QED
  BY <1>1, <1>2, <1>3, <1>4, <1>5, <1>6 DEF Next, messReqContinue, messResContinue

-----------------------------------------------------------------------------
(* The theorems. *)

LEMMA IInvInit ==
    ASSUME Init
    PROVE  IInv
<1>1. TypeInv
  BY TypeInit
<1>2. /\ proc[Requester] = Powered /\ proc[Responder] = Powered
      /\ \A who \in Sides : proc[who] = Powered
      /\ net = {} /\ agreed.key = NoKey
      /\ \A k \in SessionKeys : Len(sent[k]) = 0 /\ Len(got[k]) = 0
  BY <1>1, RolesFacts DEF Init, SessionKeys, TypeInv
<1>3. HistoryOK
  BY <1>2 DEF HistoryOK
<1>4. PICK first \in [SessionKeys -> SeqNbs] : TRUE
  <2>1. [k \in SessionKeys |-> 0] \in [SessionKeys -> SeqNbs]
    BY Constants
  <2>2. QED
    BY <2>1
<1>5. Numbered(first)
  BY <1>2 DEF Numbered, Genuine, RequesterNumbered, ResponderNumbered, Powered, NoMessage,
              NoKey
<1>6. QED
  BY <1>1, <1>3, <1>4, <1>5 DEF IInv

\* No step changes the line.
LEMMA LineKept ==
    ASSUME [Next]_vars
    PROVE  line' = line
BY DEF Next, vars, DroneEnters, BaseAdopts, Quit, ClearSession, Idle, messReqContinue,
       messResContinue, MESS_idle_Req, MESS_encrypt_Req, MESS_send_Req, MESS_timeout_Req,
       MESS_wait_Req, MESS_verify_Req, MESS_idle_Res, MESS_verify_Res, MESS_react_Res,
       MESS_ack_Res, MESS_nack_Res, MESS_send_Res, Respond, Send, Becomes

LEMMA IInvStep ==
    ASSUME IInv, [Next]_vars
    PROVE  IInv'
<1>1. TypeInv /\ TypeInv'
  BY TypeStep DEF IInv
<1>2. DamageShows' = DamageShows
  BY LineKept DEF DamageShows
<1>3. CASE DamageShows
  <2>1. HistoryOK /\ \E first \in Firsts : Numbered(first)
    BY <1>3 DEF IInv, Firsts
  <2>2. HistoryOK' /\ \E others \in Firsts : Numbered(others)'
    BY <1>1, <1>3, <2>1, NumbersStep
  <2>3. QED
    BY <1>1, <2>2 DEF IInv, Firsts
<1>4. CASE ~DamageShows
  BY <1>1, <1>2, <1>4 DEF IInv
<1>5. QED
  BY <1>3, <1>4

LEMMA Invariance == Spec => []IInv
<1>1. Init => IInv
  BY IInvInit
<1>2. IInv /\ [Next]_vars => IInv'
  BY IInvStep
<1>3. QED
  BY <1>1, <1>2, PTL DEF Spec

\* Histories of one length are the same.
LEMMA SameHistory ==
    ASSUME TypeInv, HistoryOK, NEW k \in SessionKeys, Len(got[k]) = Len(sent[k])
    PROVE  got[k] = sent[k]
<1>1. got[k] \in Seq(Data) /\ sent[k] \in Seq(Data)
  BY DEF TypeInv, TypeOK, SessionKeys
<1>2. \A i \in 1 .. Len(sent[k]) : got[k][i] = sent[k][i]
  BY DEF HistoryOK
<1>3. QED
  BY <1>1, <1>2, SeqEqual

\* A request that was acknowledged was carried out: whenever the requester is
\* ready for its next request, every request of the session, no more and in
\* their order, has been handed to the responder's output, whatever was lost,
\* repeated, delayed or damaged on the way.
THEOREM Acknowledged == Spec => []AcknowledgedIsDone
<1>1. IInv => AcknowledgedIsDone
  <2>1. SUFFICES ASSUME IInv, DamageShows, InState(Requester, "MESS_idle")
                 PROVE  got[proc[Requester].key] = sent[proc[Requester].key]
    BY DEF AcknowledgedIsDone
  <2>2. PICK first \in [SessionKeys -> SeqNbs] : Numbered(first)
    BY <2>1 DEF IInv
  <2>3. TypeInv /\ HistoryOK
    BY <2>1 DEF IInv
  <2>4. proc[Requester].key # NoKey /\ proc[Requester].key \in SessionKeys
    BY <2>1, <2>3, RolesFacts, SessionAssumption
       DEF TypeInv, TypeOK, KeysOK, InState, Process, Keys, NoKey, SessionKeys
  <2>5. Len(got[proc[Requester].key]) = Len(sent[proc[Requester].key])
    BY <2>1, <2>2, <2>4 DEF Numbered, RequesterNumbered, InState
  <2>6. QED
    BY <2>3, <2>4, <2>5, SameHistory
<1>2. QED
  BY <1>1, Invariance, PTL

\* Requester and responder never disagree on the number that comes next by more
\* than the request that is under way.
THEOREM InStep == Spec => []NumbersStayInStep
<1>1. IInv => NumbersStayInStep
  <2> DEFINE req == proc[Requester]
             res == proc[Responder]
             k == req.key
  <2>1. SUFFICES ASSUME IInv, DamageShows, req.sys = "SessionReady",
                        res.sys = "SessionReady", req.key = res.key
                 PROVE  \/ res.exp = addOneSeqNb(req.seq)
                        \/ /\ res.exp = req.seq
                           /\ req.mess \in {"MESS_send", "MESS_wait", "MESS_verify"}
    BY DEF NumbersStayInStep
  <2>2. PICK first \in Firsts : Numbered(first)
    BY <2>1 DEF IInv, Firsts
  <2>3. TypeInv /\ HistoryOK
    BY <2>1 DEF IInv
  <2>4. k # NoKey /\ k \in SessionKeys
    BY <2>1, <2>3, RolesFacts, SessionAssumption
       DEF TypeInv, TypeOK, KeysOK, Process, Keys, NoKey, SessionKeys
  <2>5. PICK n \in Nat, g \in Nat :
           /\ n = Len(sent[k]) /\ g = Len(got[k]) /\ n <= MaxSeqNb - 1 /\ g \in {n, n - 1}
    <3>1. /\ Len(sent[k]) \in 0 .. MaxRequests /\ Len(got[k]) \in 0 .. MaxRequests
          /\ MaxRequests \in 0 .. (MaxSeqNb - 1)
          /\ Len(got[k]) \in {Len(sent[k]), Len(sent[k]) - 1}
      BY <2>2, <2>3, <2>4, LengthFacts
    <3>2. QED
      BY <3>1, SeqNbAssumption
  <2>6. req.seq = Number(first[k], n)
    BY <2>2, <2>4, <2>5 DEF Numbered, RequesterNumbered
  <2>7. addOneSeqNb(req.seq) = Number(first[k], n + 1)
    <3>1. n \in 0 .. (MaxSeqNb - 1) /\ first[k] \in SeqNbs
      BY <2>4, <2>5, SeqNbAssumption DEF Firsts
    <3>2. QED
      BY <2>6, <3>1, NumberFacts
  <2>8. CASE res.mess = "MESS_react"
    <3>1. g + 1 <= n /\ res.exp = Number(first[k], g + 1 + 1)
      BY <2>1, <2>2, <2>5, <2>8 DEF Numbered, ResponderNumbered
    <3>2. g + 1 = n
      BY <2>5, <3>1
    <3>3. QED
      BY <2>7, <3>1, <3>2
  <2>9. CASE res.mess # "MESS_react"
    <3>1. res.exp = Number(first[k], g + 1)
      BY <2>1, <2>2, <2>5, <2>9 DEF Numbered, ResponderNumbered
    <3>2. CASE g = n
      BY <2>7, <3>1, <3>2
    <3>3. CASE g # n
      <4>1. g + 1 = n
        BY <2>5, <3>3
      <4>2. req.mess \notin {"MESS_idle", "MESS_encrypt"}
        BY <2>1, <2>2, <2>4, <2>5, <3>3 DEF Numbered, RequesterNumbered
      <4>3. QED
        BY <2>3, <2>6, <3>1, <4>1, <4>2 DEF TypeInv, StatesOK, ReqStates
    <3>4. QED
      BY <3>2, <3>3
  <2>10. QED
    BY <2>8, <2>9
<1>2. QED
  BY <1>1, Invariance, PTL

\* A channel with acknowledgements implements the abstract one: each step of the
\* two processes submits the next request once the last was handed over, or
\* hands over the oldest that was not, or changes neither history.
THEOREM Implementation == Spec => ImplementsChannel
<1>1. Init => Channel!Init
  BY DEF Init, Channel!Init, Promised
<1>2. IInv /\ [Next]_vars => [Channel!Next]_(Channel!vars)
  <2>1. SUFFICES ASSUME IInv, [Next]_vars
                 PROVE  Channel!Next \/ UNCHANGED Channel!vars
    OBVIOUS
  <2>2. DamageShows' = DamageShows
    BY <2>1, LineKept DEF DamageShows
  <2>3. CASE ~DamageShows
    BY <2>2, <2>3 DEF Channel!vars, Promised
  <2>4. CASE DamageShows
    <3>1. TypeInv /\ HistoryOK /\ \E first \in Firsts : Numbered(first)
      BY <2>1, <2>4 DEF IInv, Firsts
    <3>2. ChannelStep
      BY <2>1, <2>4, <3>1, NumbersStep
    <3>3. /\ Promised(sent) = sent /\ Promised(got) = got
          /\ Promised(sent)' = sent' /\ Promised(got)' = got'
      BY <2>2, <2>4 DEF Promised
    <3>4. CASE UNCHANGED <<sent, got>>
      BY <3>3, <3>4 DEF Channel!vars
    <3>5. ASSUME NEW k \in SessionKeys, Len(got[k]) = Len(sent[k]),
                 sent' = [sent EXCEPT ![k] = Append(@, <<k, Len(@) + 1>>)], got' = got
          PROVE  Channel!Submit(k)
      <4>1. got[k] = sent[k]
        BY <3>1, <3>5, SameHistory
      <4>2. QED
        BY <3>3, <3>5, <4>1 DEF Channel!Submit
    <3>6. ASSUME NEW k \in SessionKeys, Len(got[k]) < Len(sent[k]),
                 got' = [got EXCEPT ![k] = Append(@, sent[k][Len(@) + 1])], sent' = sent
          PROVE  Channel!Deliver(k)
      BY <3>3, <3>6 DEF Channel!Deliver
    <3>7. QED
      BY <3>2, <3>4, <3>5, <3>6 DEF ChannelStep, Channel!Next, SessionKeys
  <2>5. QED
    BY <2>3, <2>4
<1>3. QED
  BY <1>1, <1>2, Invariance, PTL DEF Spec, ImplementsChannel, Channel!Spec
=============================================================================
