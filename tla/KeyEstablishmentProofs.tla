----------------------- MODULE KeyEstablishmentProofs -----------------------
(***************************************************************************)
(* Proofs about KeyEstablishment, for every number of runs, every limit on *)
(* retransmissions, every width of the sequence numbers and every choice   *)
(* of first numbers.                                                       *)
(***************************************************************************)
EXTENDS KeyEstablishmentInv, SeqNbProofs

\* What a poll can change: the received message and its status, and only when
\* nothing was pending; a message that becomes pending came off the network.
LEMMA PolledFacts ==
    ASSUME NEW K, NEW p \in Process(K), NEW from, net \subseteq Messages,
           NEW q \in Polled(p, from)
    PROVE  /\ q \in Process(K)
           /\ q.sys = p.sys /\ q.kep = p.kep /\ q.seq = p.seq /\ q.exp = p.exp
           /\ q.ntx = p.ntx /\ q.active = p.active /\ q.point = p.point
           /\ q.key = p.key /\ q.cached = p.cached
           /\ Pending(p) => q = p
           /\ Pending(q) => Pending(p) \/ (q.msg \in net /\ q.msg.type \in from)
<1>1. CASE q = p
  BY <1>1
<1>2. CASE ~Pending(p) /\ \E m \in {x \in net : x.type \in from} :
             \E s \in checkReceivedMessage(m, p.exp) : q = [p EXCEPT !.status = s, !.msg = m]
  <2>1. PICK m \in net, s \in Statuses :
          m.type \in from /\ q = [p EXCEPT !.status = s, !.msg = m]
    BY <1>2 DEF checkReceivedMessage, Statuses
  <2>3. QED
    BY <1>2, <2>1 DEF Process
<1>3. QED
  BY <1>1, <1>2 DEF Polled

\* Every message the handlers build is well formed.
LEMMA MessageTypes ==
    /\ NoMessage \in Messages /\ NoKey \in Keys
    /\ \A s \in SeqNbs, p \in Points : KEP1(s, p) \in Messages
    /\ \A s \in SeqNbs, p \in Points, k \in Keys : KEP2(s, p, k) \in Messages
    /\ \A s \in SeqNbs, k \in Keys : KEP3(s, k) \in Messages
    /\ \A s, a \in SeqNbs, k \in Keys : KEP4(s, k, a) \in Messages
    /\ \A s \in SeqNbs : MESS("BS_MESS", s) \in Messages /\ MESS("DR_MESS", s) \in Messages
<1>1. NoKey \in Keys /\ NoPoint \in Points /\ 0 \in SeqNbs
  BY KepAssumption, SeqNbAssumption DEF NoKey, Keys, Points, NoPoint, SeqNbs
<1>2. QED
  BY <1>1 DEF NoMessage, KEP1, KEP2, KEP3, KEP4, MESS, Message, Messages, FromBs, FromDr

\* What the network makes of a message is again a message of the same type,
\* under the same key or under none, and only KEP1 and KEP3 may change their number.
LEMMA TransmitFacts ==
    ASSUME NEW m \in Messages, net \subseteq Messages, transmit(m)
    PROVE  \E x \in Messages :
              /\ net' = net \cup {x}
              /\ x.type = m.type
              /\ m.type \notin {"KEP1", "KEP3"} => x.seq = m.seq
              /\ x.key = m.key \/ x.key = NoKey
<1>1. ASSUME NEW x \in Damaged(m)
      PROVE  /\ x \in Messages /\ x.type = m.type
             /\ m.type \notin {"KEP1", "KEP3"} => x.seq = m.seq
             /\ x.key = m.key \/ x.key = NoKey
  <2>1. NoKey \in Keys /\ NoPoint \in Points /\ DamagedSeqNbs \subseteq SeqNbs
    BY MessageTypes, KepAssumption DEF NoPoint, Points
  <2>2. CASE m.type = "KEP1"
    BY <1>1, <2>1, <2>2 DEF Damaged, Messages
  <2>3. CASE m.type # "KEP1"
    <3>1. \/ x = [m EXCEPT !.key = NoKey]
          \/ m.type = "KEP3" /\ \E s \in DamagedSeqNbs : x = [m EXCEPT !.seq = s]
          \/ \E s \in DamagedSeqNbs : x = [m EXCEPT !.ack = s]
      BY <1>1, <2>3 DEF Damaged
    <3>2. QED
      BY <2>1, <2>3, <3>1 DEF Messages
  <2>4. QED
    BY <2>2, <2>3
<1>2. PICK x \in {m} \cup Damaged(m) : net' = net \cup {x}
  BY DEF transmit
<1>3. QED
  BY <1>1, <1>2

\* Handling a message of KEP uses it; one of the session may be left for later.
LEMMA HandledFacts ==
    ASSUME NEW K, NEW p \in Process(K), NEW q \in Handled(p)
    PROVE  /\ q \in Process(K)
           /\ q.sys = p.sys /\ q.kep = p.kep /\ q.seq = p.seq /\ q.exp = p.exp
           /\ q.point = p.point /\ q.key = p.key /\ q.cached = p.cached
           /\ Pending(q) => q = p
<1>1. "Message_used" \in Statuses
  BY DEF Statuses
<1>2. q = [p EXCEPT !.status = "Message_used"] \/ q = p
  BY DEF Handled
<1>3. QED
  BY <1>1, <1>2 DEF Process, Pending

\* Starting over leaves a well-formed process.
LEMMA InitKepType ==
    ASSUME NEW K, NEW p \in Process(K), NEW s \in InitSeqNbs
    PROVE  init_KEP_ctx(p, s) \in Process(K)
<1>1. 0 \in 0 .. KEP_MAX_RETRANSMISSIONS /\ s \in SeqNbs /\ 0 \in SeqNbs
      /\ NoPoint \in Points /\ NoMessage \in Messages
  BY KepAssumption, SeqNbAssumption, MessageTypes DEF NoPoint, Points, SeqNbs
<1>2. QED
  BY <1>1 DEF init_KEP_ctx, Process

\* Assigning a field a value of its own range leaves a well-formed process.
LEMMA ProcessUpdates ==
    ASSUME NEW K, NEW p \in Process(K)
    PROVE  /\ \A k \in K : [p EXCEPT !.kep = k] \in Process(K)
           /\ \A s \in SysStates : [p EXCEPT !.sys = s] \in Process(K)
           /\ \A s \in Statuses : [p EXCEPT !.status = s] \in Process(K)
           /\ \A k \in K, s \in SysStates :
                [p EXCEPT !.kep = k, !.sys = s] \in Process(K)
           /\ \A k \in K, s \in Statuses :
                [p EXCEPT !.kep = k, !.status = s] \in Process(K)
<1>1. ASSUME NEW q \in Process(K), NEW k \in K
      PROVE  [q EXCEPT !.kep = k] \in Process(K)
  BY DEF Process
<1>2. ASSUME NEW q \in Process(K), NEW s \in SysStates
      PROVE  [q EXCEPT !.sys = s] \in Process(K)
  BY DEF Process
<1>3. ASSUME NEW q \in Process(K), NEW s \in Statuses
      PROVE  [q EXCEPT !.status = s] \in Process(K)
  BY DEF Process
<1>4. ASSUME NEW k \in K, NEW s \in SysStates
      PROVE  [p EXCEPT !.kep = k, !.sys = s] \in Process(K)
  BY <1>1, <1>2
<1>5. ASSUME NEW k \in K, NEW s \in Statuses
      PROVE  [p EXCEPT !.kep = k, !.status = s] \in Process(K)
  BY <1>1, <1>3
<1>6. QED
  BY <1>1, <1>2, <1>3, <1>4, <1>5

\* The type invariant, for every action of the base station.
LEMMA BsTypeOK ==
    ASSUME TypeInv, BsStart \/ BsQuit \/ BsIterate
    PROVE  TypeOK'
<1> USE KepAssumption, SeqNbAssumption DEF TypeInv, TypeOK
<1>p. ASSUME NEW q \in Polled(bs, FromDr)
      PROVE  /\ q \in Process(BsKepStates)
             /\ q.kep = bs.kep /\ q.ntx = bs.ntx /\ q.seq = bs.seq
             /\ q.msg.seq \in SeqNbs /\ q.msg.point \in Points \cup {Null}
             /\ addOneSeqNb(q.seq) \in SeqNbs
             /\ addMultSeqNb(q.msg.seq, 1) \in SeqNbs
  <2>1. q \in Process(BsKepStates) /\ q.kep = bs.kep /\ q.ntx = bs.ntx /\ q.seq = bs.seq
    BY PolledFacts
  <2>2. q.msg.seq \in SeqNbs /\ q.msg.point \in Points \cup {Null}
    BY <2>1 DEF Process, Messages
  <2>3. q.seq \in SeqNbs
    BY <2>1 DEF Process
  <2>4. QED
    BY <2>1, <2>2, <2>3, AddOneIsLive, AddOneIsAddMult DEF SeqNbs, LiveSeqNbs
<1>1. CASE BsIdle
  BY <1>1 DEF BsIdle, vars
<1>2. CASE BsStart
  BY <1>2 DEF BsStart, Process, SysStates
<1>3. CASE BsQuit
  BY <1>3 DEF BsQuit, Process, SysStates
<1>4. CASE BsClearSession
  <2>1. PICK s \in InitSeqNbs :
          bs' = [init_KEP_ctx(bs, s) EXCEPT !.sys = "Idle", !.kep = "KEP_idle"]
    BY <1>4 DEF BsClearSession
  <2>2. init_KEP_ctx(bs, s) \in Process(BsKepStates)
    BY InitKepType
  <2>3. bs' \in Process(BsKepStates)
    BY <2>1, <2>2 DEF Process, SysStates, BsKepStates
  <2>4. QED
    BY <1>4, <2>3 DEF BsClearSession
<1>5. CASE BsKEP_idle
  <2>1. PICK q \in Polled(bs, FromDr), s \in InitSeqNbs :
          bs' = [init_KEP_ctx(q, s) EXCEPT !.kep = "KEP1_compute"]
    BY <1>5 DEF BsKEP_idle
  <2>2. init_KEP_ctx(q, s) \in Process(BsKepStates)
    BY <1>p, InitKepType
  <2>3. bs' \in Process(BsKepStates)
    BY <2>1, <2>2 DEF Process, BsKepStates
  <2>4. QED
    BY <1>5, <2>3 DEF BsKEP_idle
<1>6. CASE BsKEP1_compute
  <2>1. PICK q \in Polled(bs, FromDr) :
          bs' = [q EXCEPT !.kep = "KEP1_send", !.seq = addOneSeqNb(q.seq),
                          !.point = bsRuns',
                          !.cached = KEP1(addOneSeqNb(q.seq), bsRuns')]
    BY <1>6 DEF BsKEP1_compute
  <2>2. bsRuns' \in 0 .. MaxRuns /\ bsRuns' \in Points
    BY <1>6 DEF BsKEP1_compute, InKep, RunsOK, Points, NoPoint
  <2>3. KEP1(addOneSeqNb(q.seq), bsRuns') \in Messages
    BY <1>p, <2>2, MessageTypes
  <2>4. bs' \in Process(BsKepStates)
    BY <1>p, <2>1, <2>2, <2>3 DEF Process, BsKepStates
  <2>5. QED
    BY <1>6, <2>2, <2>4 DEF BsKEP1_compute
<1>7. ASSUME NEW st, NEW wait \in BsKepStates, BsSend(st, wait)
      PROVE  TypeOK'
  <2>1. PICK q \in Polled(bs, FromDr) :
          \/ /\ CanTransmit(q) /\ transmit(q.cached)
             /\ bs' = [Transmitted(q) EXCEPT !.kep = wait]
          \/ /\ bs' = GiveUp(q) /\ UNCHANGED net
    BY <1>7 DEF BsSend
  <2>2. GiveUp(q) \in Process(BsKepStates)
    BY <1>p DEF GiveUp, Process, SysStates, BsKepStates
  <2>3. CanTransmit(q) => [Transmitted(q) EXCEPT !.kep = wait] \in Process(BsKepStates)
    <3>1. CanTransmit(q) => q.ntx + 1 \in 0 .. KEP_MAX_RETRANSMISSIONS
      BY <1>p DEF CanTransmit, Process
    <3>2. CanTransmit(q) => Transmitted(q) \in Process(BsKepStates)
      BY <1>p, <3>1 DEF Transmitted, Process
    <3>3. QED
      BY <3>2 DEF Process
  <2>4. net' \subseteq Messages
    <3>1. q.cached \in Messages
      BY <1>p DEF Process
    <3>2. QED
      BY <2>1, <3>1, TransmitFacts
  <2>5. QED
    BY <1>7, <2>1, <2>2, <2>3, <2>4 DEF BsSend
<1>8. ASSUME NEW st, NEW tp, NEW send \in BsKepStates, NEW ver \in BsKepStates,
             BsWait(st, tp, send, ver)
      PROVE  TypeOK'
  <2>1. PICK q \in Polled(bs, FromDr) :
          \/ bs' = [q EXCEPT !.kep = ver]
          \/ bs' = [q EXCEPT !.kep = send, !.status = "Message_used"]
          \/ bs' = q
    BY <1>8 DEF BsWait
  <2>2. q \in Process(BsKepStates) /\ "Message_used" \in Statuses
    BY <1>p DEF Statuses
  <2>3. /\ [q EXCEPT !.kep = ver] \in Process(BsKepStates)
        /\ [q EXCEPT !.kep = send, !.status = "Message_used"] \in Process(BsKepStates)
    BY <2>2, ProcessUpdates
  <2>4. bs' \in Process(BsKepStates)
    BY <2>1, <2>2, <2>3
  <2>5. QED
    BY <1>8, <2>4 DEF BsWait
<1>9. ASSUME NEW st, NEW send \in BsKepStates, BsTimeout(st, send)
      PROVE  TypeOK'
  <2>1. bs' \in Process(BsKepStates)
    BY <1>9, <1>p DEF BsTimeout, Process
  <2>2. QED
    BY <1>9, <2>1 DEF BsTimeout
<1>10. CASE BsKEP3_verify
  <2>1. PICK q \in Polled(bs, FromDr) :
          LET key == <<q.point, q.msg.point>>
              u   == [q EXCEPT !.status = "Message_used", !.key = key]
          IN  \/ bs' = [u EXCEPT !.kep = "KEP3_compute", !.active = TRUE,
                                 !.ntx = 0, !.exp = addMultSeqNb(q.msg.seq, 1)]
              \/ bs' = [u EXCEPT !.kep = "KEP1_send"]
    BY <1>10 DEF BsKEP3_verify
  <2>2. <<q.point, q.msg.point>> \in Keys
    BY <1>p DEF Process, Keys
  <2>3. 0 \in 0 .. KEP_MAX_RETRANSMISSIONS
    OBVIOUS
  <2>4. [q EXCEPT !.status = "Message_used", !.key = <<q.point, q.msg.point>>]
          \in Process(BsKepStates)
    BY <1>p, <2>2 DEF Process, Statuses
  <2>5. addMultSeqNb(q.msg.seq, 1) \in SeqNbs
    BY <1>p
  <2>6. ASSUME NEW u \in Process(BsKepStates)
        PROVE  /\ [u EXCEPT !.kep = "KEP1_send"] \in Process(BsKepStates)
               /\ [u EXCEPT !.kep = "KEP3_compute", !.active = TRUE, !.ntx = 0,
                            !.exp = addMultSeqNb(q.msg.seq, 1)]
                    \in Process(BsKepStates)
    BY <2>3, <2>5 DEF Process, BsKepStates
  <2>7. bs' \in Process(BsKepStates)
    BY <2>1, <2>4, <2>6
  <2>8. QED
    BY <1>10, <2>7 DEF BsKEP3_verify
<1>11. CASE BsKEP3_compute
  <2>1. PICK q \in Polled(bs, FromDr) :
          bs' = [q EXCEPT !.kep = "KEP3_send", !.seq = addOneSeqNb(q.seq),
                          !.cached = KEP3(addOneSeqNb(q.seq), q.key)]
    BY <1>11 DEF BsKEP3_compute
  <2>2. q.key \in Keys
    BY <1>p DEF Process
  <2>3. KEP3(addOneSeqNb(q.seq), q.key) \in Messages
    BY <1>p, <2>2, MessageTypes
  <2>4. bs' \in Process(BsKepStates)
    BY <1>p, <2>1, <2>3 DEF Process, BsKepStates
  <2>5. bs'.key \in Keys /\ addOneSeqNb(bs'.seq) \in SeqNbs
    BY <2>4, AddOneIsLive DEF Process, SeqNbs, LiveSeqNbs
  <2>6. BsOffer' \in Offers
    BY <2>5 DEF BsOffer, Offers
  <2>7. QED
    BY <1>11, <2>4, <2>6 DEF BsKEP3_compute
<1>12. CASE BsKEP5_verify
  <2>1. PICK q \in Polled(bs, FromDr) :
          LET u == [q EXCEPT !.status = "Message_used"]
          IN  \/ bs' = [u EXCEPT !.kep = "Done", !.sys = "SessionReady",
                                 !.exp = addMultSeqNb(q.msg.seq, 1)]
              \/ bs' = [u EXCEPT !.kep = "KEP3_send"]
    BY <1>12 DEF BsKEP5_verify
  <2>2. bs' \in Process(BsKepStates)
    <3>1. [q EXCEPT !.status = "Message_used"] \in Process(BsKepStates)
      BY <1>p DEF Process, Statuses
    <3>2. addMultSeqNb(q.msg.seq, 1) \in SeqNbs
      BY <1>p
    <3>3. ASSUME NEW u \in Process(BsKepStates)
          PROVE  /\ [u EXCEPT !.kep = "KEP3_send"] \in Process(BsKepStates)
                 /\ [u EXCEPT !.kep = "Done", !.sys = "SessionReady",
                              !.exp = addMultSeqNb(q.msg.seq, 1)]
                      \in Process(BsKepStates)
      BY <3>2 DEF Process, SysStates, BsKepStates
    <3>4. QED
      BY <2>1, <3>1, <3>3
  <2>3. QED
    BY <1>12, <2>2 DEF BsKEP5_verify
<1>13. CASE BsSessionReady
  <2>1. bs' \in Process(BsKepStates)
    BY <1>13, <1>p, HandledFacts DEF BsSessionReady
  <2>2. bs.seq \in SeqNbs
    BY DEF Process
  <2>3. MESS("BS_MESS", addOneSeqNb(bs.seq)) \in Messages
    BY <2>2, MessageTypes, AddOneIsLive DEF SeqNbs, LiveSeqNbs
  <2>4. QED
    BY <1>13, <2>1, <2>3 DEF BsSessionReady
<1>14. QED
  BY <1>1, <1>2, <1>3, <1>4, <1>5, <1>6, <1>7, <1>8, <1>9, <1>10, <1>11, <1>12, <1>13
  DEF BsIterate, BsTimeouts, BsKepStates, BsKEP1_send, BsKEP3_send, BsKEP1_wait, BsKEP3_wait

\* The type invariant, for every action of the drone.
LEMMA DrTypeOK ==
    ASSUME TypeInv, DrStart \/ DrQuit \/ DrIterate
    PROVE  TypeOK'
<1> USE KepAssumption, SeqNbAssumption DEF TypeInv, TypeOK
<1>p. ASSUME NEW q \in Polled(dr, FromBs)
      PROVE  /\ q \in Process(DrKepStates)
             /\ q.kep = dr.kep /\ q.ntx = dr.ntx /\ q.seq = dr.seq
             /\ q.msg.seq \in SeqNbs /\ q.msg.point \in Points \cup {Null}
             /\ addOneSeqNb(q.seq) \in SeqNbs
             /\ addMultSeqNb(q.msg.seq, 1) \in SeqNbs
  <2>1. q \in Process(DrKepStates) /\ q.kep = dr.kep /\ q.ntx = dr.ntx /\ q.seq = dr.seq
    BY PolledFacts
  <2>2. q.msg.seq \in SeqNbs /\ q.msg.point \in Points \cup {Null}
    BY <2>1 DEF Process, Messages
  <2>3. q.seq \in SeqNbs
    BY <2>1 DEF Process
  <2>4. QED
    BY <2>1, <2>2, <2>3, AddOneIsLive, AddOneIsAddMult DEF SeqNbs, LiveSeqNbs
<1>q. ASSUME NEW q \in Polled(dr, FromBs)
      PROVE  [q EXCEPT !.status = "Message_used"] \in Process(DrKepStates)
  BY <1>p DEF Process, Statuses
<1>g. ASSUME NEW q \in Process(DrKepStates)
      PROVE  GiveUp(q) \in Process(DrKepStates)
  BY DEF GiveUp, Process, SysStates, DrKepStates
<1>t. ASSUME NEW q \in Process(DrKepStates), CanTransmit(q)
      PROVE  Transmitted(q) \in Process(DrKepStates)
  <2>1. q.ntx + 1 \in 0 .. KEP_MAX_RETRANSMISSIONS
    BY <1>t DEF CanTransmit, Process
  <2>2. QED
    BY <2>1 DEF Transmitted, Process
<1>1. CASE DrIdle
  BY <1>1 DEF DrIdle, vars
<1>2. CASE DrStart
  BY <1>2 DEF DrStart, Process, SysStates
<1>3. CASE DrQuit
  BY <1>3 DEF DrQuit, Process, SysStates
<1>4. CASE DrClearSession
  <2>1. PICK s \in InitSeqNbs :
          dr' = [init_KEP_ctx(dr, s) EXCEPT !.sys = "Idle", !.kep = "KEP_idle"]
    BY <1>4 DEF DrClearSession
  <2>2. init_KEP_ctx(dr, s) \in Process(DrKepStates)
    BY InitKepType
  <2>3. dr' \in Process(DrKepStates)
    BY <2>1, <2>2 DEF Process, SysStates, DrKepStates
  <2>4. QED
    BY <1>4, <2>3 DEF DrClearSession
<1>5. CASE DrKEP_idle
  <2>1. PICK q \in Polled(dr, FromBs), s \in InitSeqNbs :
          dr' = [init_KEP_ctx(q, s) EXCEPT !.kep = "KEP2_precompute"]
    BY <1>5 DEF DrKEP_idle
  <2>2. init_KEP_ctx(q, s) \in Process(DrKepStates)
    BY <1>p, InitKepType
  <2>3. dr' \in Process(DrKepStates)
    BY <2>1, <2>2 DEF Process, DrKepStates
  <2>4. QED
    BY <1>5, <2>3 DEF DrKEP_idle
<1>6. CASE DrKEP2_precompute
  <2>1. drRuns' \in 0 .. MaxRuns /\ drRuns' \in Points
    BY <1>6 DEF DrKEP2_precompute, InKep, RunsOK, Points, NoPoint
  <2>2. PICK q \in Polled(dr, FromBs) :
          dr' = [q EXCEPT !.kep = "KEP2_wait_request", !.point = drRuns']
    BY <1>6 DEF DrKEP2_precompute
  <2>3. dr' \in Process(DrKepStates)
    BY <1>p, <2>1, <2>2 DEF Process, DrKepStates
  <2>4. QED
    BY <1>6, <2>1, <2>3 DEF DrKEP2_precompute
<1>7. CASE DrKEP2_wait_request
  <2>1. dr' \in Process(DrKepStates)
    BY <1>7, <1>p, <1>q DEF DrKEP2_wait_request, Process, DrKepStates
  <2>2. QED
    BY <1>7, <2>1 DEF DrKEP2_wait_request
<1>8. CASE DrKEP2_compute
  <2>1. PICK q \in Polled(dr, FromBs) :
          LET key   == <<q.msg.point, q.point>>
              seqNb == IF q.active THEN q.seq ELSE addOneSeqNb(q.seq)
          IN  \/ dr' = [q EXCEPT !.kep = "KEP2_send", !.status = "Message_used",
                                 !.exp = addMultSeqNb(q.msg.seq, 1),
                                 !.key = key, !.seq = seqNb, !.active = TRUE,
                                 !.cached = KEP2(seqNb, q.point, key)]
              \/ dr' = [q EXCEPT !.sys = "Crashed"]
    BY <1>8 DEF DrKEP2_compute
  <2> DEFINE key   == <<q.msg.point, q.point>>
             seqNb == IF q.active THEN q.seq ELSE addOneSeqNb(q.seq)
  <2>2. key \in Keys /\ q.point \in Points
    BY <1>p DEF Process, Keys
  <2>3. seqNb \in SeqNbs
    BY <1>p DEF Process
  <2>4. KEP2(seqNb, q.point, key) \in Messages
    BY <2>2, <2>3, MessageTypes
  <2>5. addMultSeqNb(q.msg.seq, 1) \in SeqNbs
    BY <1>p
  <2>6. ASSUME NEW k \in Keys, NEW n \in SeqNbs, NEW c \in Messages, NEW e \in SeqNbs
        PROVE  [q EXCEPT !.kep = "KEP2_send", !.status = "Message_used",
                         !.exp = e, !.key = k, !.seq = n, !.active = TRUE,
                         !.cached = c] \in Process(DrKepStates)
    <3>1. [q EXCEPT !.kep = "KEP2_send", !.status = "Message_used", !.exp = e]
            \in Process(DrKepStates)
      BY <1>p DEF Process, Statuses, DrKepStates
    <3>2. ASSUME NEW u \in Process(DrKepStates)
          PROVE  [u EXCEPT !.key = k, !.seq = n, !.active = TRUE, !.cached = c]
                   \in Process(DrKepStates)
      BY DEF Process
    <3>3. QED
      BY <3>1, <3>2
  <2>7. [q EXCEPT !.sys = "Crashed"] \in Process(DrKepStates)
    BY <1>p DEF Process, SysStates
  <2>8. dr' \in Process(DrKepStates)
    <3>1. \/ dr' = [q EXCEPT !.kep = "KEP2_send", !.status = "Message_used",
                             !.exp = addMultSeqNb(q.msg.seq, 1),
                             !.key = key, !.seq = seqNb, !.active = TRUE,
                             !.cached = KEP2(seqNb, q.point, key)]
          \/ dr' = [q EXCEPT !.sys = "Crashed"]
      BY <2>1
    <3> HIDE DEF key, seqNb
    <3>2. [q EXCEPT !.kep = "KEP2_send", !.status = "Message_used",
                    !.exp = addMultSeqNb(q.msg.seq, 1),
                    !.key = key, !.seq = seqNb, !.active = TRUE,
                    !.cached = KEP2(seqNb, q.point, key)] \in Process(DrKepStates)
      BY <2>2, <2>3, <2>4, <2>5, <2>6
    <3>3. QED
      BY <2>7, <3>1, <3>2
  <2>9. QED
    BY <1>8, <2>8 DEF DrKEP2_compute
<1>9. ASSUME NEW st, NEW next \in DrKepStates, NEW sys \in SysStates,
             DrSend(st, next, sys)
      PROVE  TypeOK'
  <2>1. PICK q \in Polled(dr, FromBs) :
          \/ /\ CanTransmit(q) /\ transmit(q.cached)
             /\ dr' = [Transmitted(q) EXCEPT !.kep = next, !.sys = sys]
          \/ /\ dr' = GiveUp(q) /\ UNCHANGED net
    BY <1>9 DEF DrSend
  <2>2. dr' \in Process(DrKepStates)
    <3>1. q \in Process(DrKepStates)
      BY <1>p
    <3>2. CASE CanTransmit(q) /\ dr' = [Transmitted(q) EXCEPT !.kep = next, !.sys = sys]
      <4>1. Transmitted(q) \in Process(DrKepStates)
        BY <3>1, <3>2, <1>t
      <4>2. QED
        BY <3>2, <4>1, ProcessUpdates
    <3>3. CASE dr' = GiveUp(q)
      BY <3>1, <3>3, <1>g
    <3>4. QED
      BY <2>1, <3>2, <3>3
  <2>3. net' \subseteq Messages
    <3>1. q.cached \in Messages
      BY <1>p DEF Process
    <3>2. QED
      BY <2>1, <3>1, TransmitFacts
  <2>4. dr'.key \in Keys /\ dr'.exp \in SeqNbs /\ addOneSeqNb(dr'.seq) \in SeqNbs
    BY <2>2, AddOneIsLive DEF Process, SeqNbs, LiveSeqNbs
  <2>5. DrSession' \in Sessions
    BY <2>4 DEF DrSession, Sessions
  <2>6. QED
    BY <1>9, <2>2, <2>3, <2>5 DEF DrSend
<1>10. CASE DrKEP2_wait
  <2>1. PICK q \in Polled(dr, FromBs) :
          \/ dr' = [q EXCEPT !.kep = "KEP4_verify"]
          \/ dr' = [q EXCEPT !.kep = "KEP2_compute", !.status = "Message_used"]
          \/ dr' = [q EXCEPT !.kep = "KEP2_send", !.status = "Message_used"]
          \/ dr' = q
    BY <1>10 DEF DrKEP2_wait
  <2>2. q \in Process(DrKepStates) /\ "Message_used" \in Statuses
        /\ {"KEP4_verify", "KEP2_compute", "KEP2_send"} \subseteq DrKepStates
    BY <1>p DEF Statuses, DrKepStates
  <2>3. /\ [q EXCEPT !.kep = "KEP4_verify"] \in Process(DrKepStates)
        /\ \A k \in {"KEP2_compute", "KEP2_send"} :
             [q EXCEPT !.kep = k, !.status = "Message_used"] \in Process(DrKepStates)
    BY <2>2, ProcessUpdates
  <2>4. dr' \in Process(DrKepStates)
    BY <2>1, <2>2, <2>3
  <2>5. QED
    BY <1>10, <2>4 DEF DrKEP2_wait
<1>11. CASE DrTimeout
  <2>1. dr' \in Process(DrKepStates)
    BY <1>11, <1>p DEF DrTimeout, Process, DrKepStates
  <2>2. QED
    BY <1>11, <2>1 DEF DrTimeout
<1>12. CASE DrKEP4_verify
  <2>1. PICK q \in Polled(dr, FromBs) :
          LET u == [q EXCEPT !.status = "Message_used"]
          IN  \/ dr' = [u EXCEPT !.kep = "KEP4_compute", !.ntx = 0,
                                 !.exp = addMultSeqNb(q.msg.seq, 1)]
              \/ dr' = [u EXCEPT !.kep = "KEP2_send"]
    BY <1>12 DEF DrKEP4_verify
  <2>2. addMultSeqNb(q.msg.seq, 1) \in SeqNbs /\ 0 \in 0 .. KEP_MAX_RETRANSMISSIONS
    BY <1>p
  <2>3. ASSUME NEW u \in Process(DrKepStates)
        PROVE  /\ [u EXCEPT !.kep = "KEP2_send"] \in Process(DrKepStates)
               /\ [u EXCEPT !.kep = "KEP4_compute", !.ntx = 0,
                            !.exp = addMultSeqNb(q.msg.seq, 1)]
                    \in Process(DrKepStates)
    BY <2>2 DEF Process, DrKepStates
  <2>4. dr' \in Process(DrKepStates)
    BY <1>q, <2>1, <2>3
  <2>5. QED
    BY <1>12, <2>4 DEF DrKEP4_verify
<1>13. CASE DrKEP4_compute
  <2>1. PICK q \in Polled(dr, FromBs) :
          dr' = [q EXCEPT !.kep = "KEP4_send", !.seq = addOneSeqNb(q.seq),
                          !.cached = KEP4(addOneSeqNb(q.seq), q.key, q.msg.seq)]
    BY <1>13 DEF DrKEP4_compute
  <2>2. q.key \in Keys
    BY <1>p DEF Process
  <2>3. KEP4(addOneSeqNb(q.seq), q.key, q.msg.seq) \in Messages
    BY <1>p, <2>2, MessageTypes
  <2>4. dr' \in Process(DrKepStates)
    BY <1>p, <2>1, <2>3 DEF Process, DrKepStates
  <2>5. QED
    BY <1>13, <2>4 DEF DrKEP4_compute
<1>14. CASE DrSessionReady
  <2>1. PICK q \in Polled(dr, FromBs) :
          LET u == [q EXCEPT !.status = "Message_used"]
          IN  \/ /\ dr' \in Handled(q)
                 /\ net' = net \cup {MESS("DR_MESS", addOneSeqNb(dr.seq))}
              \/ CanTransmit(u) /\ transmit(u.cached) /\ dr' = Transmitted(u)
              \/ dr' = GiveUp(u) /\ UNCHANGED net
    BY <1>14 DEF DrSessionReady
  <2> DEFINE u == [q EXCEPT !.status = "Message_used"]
  <2>2. u \in Process(DrKepStates) /\ u.cached \in Messages
    BY <1>q DEF Process
  <2>3. dr' \in Process(DrKepStates)
    BY <2>1, <2>2, <1>g, <1>p, <1>t, HandledFacts
  <2>4. net' \subseteq Messages
    <3> HIDE DEF u
    <3>1. \/ UNCHANGED net
          \/ net' = net \cup {MESS("DR_MESS", addOneSeqNb(dr.seq))}
          \/ transmit(u.cached)
      BY <2>1 DEF u
    <3>2. MESS("DR_MESS", addOneSeqNb(dr.seq)) \in Messages
      BY MessageTypes, AddOneIsLive DEF Process, SeqNbs, LiveSeqNbs
    <3>3. QED
      BY <2>2, <3>1, <3>2, TransmitFacts
  <2>5. QED
    BY <1>14, <2>3, <2>4 DEF DrSessionReady
<1>15. QED
  BY <1>1, <1>2, <1>3, <1>4, <1>5, <1>6, <1>7, <1>8, <1>9, <1>10, <1>11, <1>12,
     <1>13, <1>14
  DEF DrIterate, DrKepStates, SysStates, DrKEP2_send, DrKEP4_send

\* Only the start of a run leads to the states that draw a point, and it
\* checks that a run is left.
LEMMA RunsLeft ==
    ASSUME TypeInv, Next
    PROVE  RunsOK'
<1> USE DEF TypeInv, TypeOK, RunsOK, InKep
<1>b. ASSUME NEW q \in Polled(bs, FromDr)
      PROVE  q \in Process(BsKepStates) /\ q.sys = bs.sys /\ q.kep = bs.kep
  BY PolledFacts
<1>d. ASSUME NEW q \in Polled(dr, FromBs)
      PROVE  q \in Process(DrKepStates) /\ q.sys = dr.sys /\ q.kep = dr.kep
  BY PolledFacts
<1>1. CASE BsStart \/ BsQuit \/ BsIterate
  <2>0. UNCHANGED <<dr, drRuns>>
    BY <1>1 DEF BsStart, BsQuit, BsIterate, BsKEP1_send, BsKEP3_send, BsKEP1_wait, BsKEP3_wait,
       BsIdle, vars, BsClearSession, BsKEP_idle,
       BsKEP1_compute, BsSend, BsWait, BsTimeouts, BsTimeout, BsKEP3_verify,
       BsKEP3_compute, BsKEP5_verify, BsSessionReady
  <2>1. CASE BsIdle \/ BsStart \/ BsQuit
    BY <2>0, <2>1 DEF BsIdle, BsStart, BsQuit, vars, Process
  <2>2. CASE BsClearSession
    BY <2>0, <2>2 DEF BsClearSession, init_KEP_ctx, Process
  <2>3. CASE BsKEP_idle
    BY <2>0, <2>3 DEF BsKEP_idle
  <2>4. CASE BsKEP1_compute
    BY <2>0, <2>4, <1>b DEF BsKEP1_compute, Process
  <2>5. ASSUME NEW st, NEW wait \in {"KEP1_wait", "KEP3_wait"}, BsSend(st, wait)
        PROVE  RunsOK'
    BY <2>0, <2>5, <1>b DEF BsSend, GiveUp, Transmitted, Process
  <2>6. ASSUME NEW st \in {"KEP1_wait", "KEP3_wait"}, NEW tp,
               NEW send \in {"KEP1_send", "KEP3_send"},
               NEW ver \in {"KEP3_verify", "KEP5_verify"}, BsWait(st, tp, send, ver)
        PROVE  RunsOK'
    BY <2>0, <2>6, <1>b DEF BsWait, Process
  <2>7. ASSUME NEW st, NEW send \in {"KEP1_send", "KEP3_send"}, BsTimeout(st, send)
        PROVE  RunsOK'
    BY <2>0, <2>7, <1>b DEF BsTimeout, Process
  <2>8. CASE BsKEP3_verify
    BY <2>0, <2>8, <1>b DEF BsKEP3_verify, Process
  <2>9. CASE BsKEP3_compute
    BY <2>0, <2>9, <1>b DEF BsKEP3_compute, Process
  <2>10. CASE BsKEP5_verify
    BY <2>0, <2>10, <1>b DEF BsKEP5_verify, Process
  <2>11. CASE BsSessionReady
    BY <2>0, <2>11, <1>b, HandledFacts DEF BsSessionReady
  <2>12. QED
    BY <1>1, <2>1, <2>2, <2>3, <2>4, <2>5, <2>6, <2>7, <2>8, <2>9, <2>10, <2>11
    DEF BsIterate, BsTimeouts, BsKEP1_send, BsKEP3_send, BsKEP1_wait, BsKEP3_wait
<1>2. CASE DrStart \/ DrQuit \/ DrIterate
  <2>0. UNCHANGED <<bs, bsRuns>>
    BY <1>2 DEF DrStart, DrQuit, DrIterate, DrKEP2_send, DrKEP4_send,
       DrIdle, vars, DrClearSession, DrKEP_idle,
       DrKEP2_precompute, DrKEP2_wait_request, DrKEP2_compute, DrSend, DrKEP2_wait,
       DrTimeout, DrKEP4_verify, DrKEP4_compute, DrSessionReady
  <2>1. CASE DrIdle \/ DrStart \/ DrQuit
    BY <2>0, <2>1 DEF DrIdle, DrStart, DrQuit, vars, Process
  <2>2. CASE DrClearSession
    BY <2>0, <2>2 DEF DrClearSession, init_KEP_ctx, Process
  <2>3. CASE DrKEP_idle
    BY <2>0, <2>3 DEF DrKEP_idle
  <2>4. CASE DrKEP2_precompute
    BY <2>0, <2>4, <1>d DEF DrKEP2_precompute, Process
  <2>5. CASE DrKEP2_wait_request
    BY <2>0, <2>5, <1>d DEF DrKEP2_wait_request, Process
  <2>6. CASE DrKEP2_compute
    BY <2>0, <2>6, <1>d DEF DrKEP2_compute, Process
  <2>7. ASSUME NEW st, NEW next \in {"KEP2_wait", "Done"}, NEW sys, DrSend(st, next, sys)
        PROVE  RunsOK'
    BY <2>0, <2>7, <1>d DEF DrSend, GiveUp, Transmitted, Process
  <2>8. CASE DrKEP2_wait
    BY <2>0, <2>8, <1>d DEF DrKEP2_wait, Process
  <2>9. CASE DrTimeout
    BY <2>0, <2>9, <1>d DEF DrTimeout, Process
  <2>10. CASE DrKEP4_verify
    BY <2>0, <2>10, <1>d DEF DrKEP4_verify, Process
  <2>11. CASE DrKEP4_compute
    BY <2>0, <2>11, <1>d DEF DrKEP4_compute, Process
  <2>12. CASE DrSessionReady
    <3>1. PICK q \in Polled(dr, FromBs) :
            LET u == [q EXCEPT !.status = "Message_used"]
            IN  dr' \in Handled(q) \/ dr' = Transmitted(u) \/ dr' = GiveUp(u)
      BY <2>12 DEF DrSessionReady
    <3>2. CASE dr' \in Handled(q)
      BY <2>0, <2>12, <3>2, <1>d, HandledFacts DEF DrSessionReady
    <3>3. CASE dr' \notin Handled(q)
      BY <2>0, <2>12, <3>1, <3>3, <1>d DEF DrSessionReady, GiveUp, Transmitted, Process
    <3>4. QED
      BY <3>2, <3>3
  <2>13. QED
    BY <1>2, <2>1, <2>2, <2>3, <2>4, <2>5, <2>6, <2>7, <2>8, <2>9, <2>10, <2>11, <2>12
    DEF DrIterate, DrKEP2_send, DrKEP4_send
<1>3. QED
  BY <1>1, <1>2 DEF Next

LEMMA InitTypeInv == Init => TypeInv
<1>1. ASSUME NEW s \in InitSeqNbs
      PROVE  /\ Powered(s) \in Process(BsKepStates)
             /\ Powered(s) \in Process(DrKepStates)
             /\ Powered(s).sys = "Idle"
  <2>1. /\ s \in SeqNbs /\ 0 \in SeqNbs /\ 0 \in 0 .. KEP_MAX_RETRANSMISSIONS
        /\ NoPoint \in Points
    BY KepAssumption, SeqNbAssumption DEF SeqNbs, Points, NoPoint
  <2>2. QED
    BY <2>1, MessageTypes
    DEF Powered, Process, SysStates, BsKepStates, DrKepStates, Statuses
<1>2. QED
  BY <1>1, KepAssumption DEF Init, TypeInv, TypeOK, RunsOK

\* The type invariant is preserved by every step.
LEMMA TypeInvStep ==
    ASSUME TypeInv, [Next]_vars
    PROVE  TypeInv'
<1>1. CASE UNCHANGED vars
  BY <1>1 DEF vars, TypeInv, TypeOK, RunsOK
<1>2. CASE Next
  BY <1>2, BsTypeOK, DrTypeOK, RunsLeft DEF Next, TypeInv
<1>3. QED
  BY <1>1, <1>2

\* Every state of both processes is well formed: retransmission counters stay
\* within the limit, points are ones that were drawn, and every message on the
\* network is one the handlers build.
THEOREM TypeCorrect == Spec => []TypeOK
<1>1. Spec => []TypeInv
  BY InitTypeInv, TypeInvStep, PTL DEF Spec
<1>2. TypeInv => TypeOK
  BY DEF TypeInv
<1>3. QED
  BY <1>1, <1>2, PTL

-----------------------------------------------------------------------------
(* The inductive invariant *)

\* An action of the base station adds to the network and to the offers, and
\* disturbs nothing that is said about the drone alone.
LEMMA BsFrame ==
    ASSUME IInv, UNCHANGED <<dr, drRuns, sessions>>,
           net \subseteq net', offers \subseteq offers'
    PROVE  SessionsOK' /\ DrMessagesOK' /\ DrProgressOK' /\ OneSessionPerPoint'
<1> USE DEF IInv
<1>1. SessionsOK'
  BY DEF SessionsOK, KeyOffered, Announced
<1>2. DrMessagesOK'
  BY DEF DrMessagesOK, Pending, InKep
<1>3. DrProgressOK'
  BY DEF DrProgressOK, DrDrawn, DrKeyed, InKep, DrSession, KeyOffered, Announced
<1>4. OneSessionPerPoint'
  BY DEF OneSessionPerPoint
<1>5. QED
  BY <1>1, <1>2, <1>3, <1>4

\* What is said about the network only needs more offers and more sessions.
LEMMA NetFrame ==
    ASSUME NetOK, UNCHANGED net, offers \subseteq offers', sessions \subseteq sessions'
    PROVE  NetOK'
BY DEF NetOK, KeyOffered

\* A session message says nothing about keys.
LEMMA MessFrame ==
    ASSUME NetOK, NEW type \in {"BS_MESS", "DR_MESS"}, NEW seqNb,
           net' = net \cup {MESS(type, seqNb)}, UNCHANGED <<offers, sessions>>
    PROVE  NetOK'
BY DEF NetOK, KeyOffered, MESS, Message

\* An intact offer made earlier still names a point that was drawn.
LEMMA OffersFrame ==
    ASSUME TypeOK, OffersOK, UNCHANGED offers, bsRuns' \in Nat, bsRuns <= bsRuns'
    PROVE  OffersOK'
BY DEF OffersOK, TypeOK

\* Every action of the base station preserves the invariant.
LEMMA BsIInv ==
    ASSUME TypeInv, IInv, BsStart \/ BsQuit \/ BsIterate
    PROVE  IInv'
<1> USE DEF TypeInv, TypeOK
<1>p. ASSUME NEW q \in Polled(bs, FromDr)
      PROVE  /\ q \in Process(BsKepStates)
             /\ q.sys = bs.sys /\ q.kep = bs.kep /\ q.seq = bs.seq /\ q.exp = bs.exp
             /\ q.point = bs.point /\ q.key = bs.key /\ q.cached = bs.cached
             /\ Pending(bs) => q = bs
             /\ Pending(q) => q.msg \in net
  BY PolledFacts DEF IInv, BsMessagesOK
\* Actions that leave the network, the offers and the points alone.
<1>q. ASSUME UNCHANGED <<dr, net, bsRuns, drRuns, offers, sessions>>,
             BsMessagesOK', BsProgressOK'
      PROVE  IInv'
  <2>1. SessionsOK' /\ DrMessagesOK' /\ DrProgressOK' /\ OneSessionPerPoint'
    BY <1>q, BsFrame
  <2>2. NetOK'
    BY <1>q, NetFrame DEF IInv
  <2>3. OffersOK'
    BY <1>q DEF OffersOK, IInv
  <2>4. QED
    BY <1>q, <2>1, <2>2, <2>3 DEF IInv
<1>1. CASE BsIdle
  <2>1. BsMessagesOK' /\ BsProgressOK'
    BY <1>1 DEF BsIdle, vars, IInv, BsMessagesOK, BsProgressOK, Pending, InKep,
       BsDrawn, Offering, Offered, BsOffer
  <2>2. QED
    BY <1>1, <1>q, <2>1 DEF BsIdle, vars
<1>2. CASE BsQuit
  <2>1. bs'.sys = "ClearSession" /\ bs'.cached = bs.cached /\ bs'.msg = bs.msg
        /\ bs'.status = bs.status
    BY <1>2 DEF BsQuit, Process
  <2>2. BsMessagesOK' /\ BsProgressOK'
    BY <1>2, <2>1 DEF BsQuit, IInv, BsMessagesOK, BsProgressOK, Pending, InKep,
       BsDrawn, Offering, Offered
  <2>3. QED
    BY <1>2, <1>q, <2>2 DEF BsQuit
<1>3. CASE BsStart
  <2>1. bs'.sys = "KEP" /\ bs'.kep = "KEP_idle" /\ bs'.cached = bs.cached
        /\ bs'.msg = bs.msg /\ bs'.status = bs.status
    BY <1>3 DEF BsStart, Process, IInv, BsProgressOK
  <2>2. BsMessagesOK' /\ BsProgressOK'
    BY <1>3, <2>1 DEF BsStart, IInv, BsMessagesOK, BsProgressOK, Pending, InKep,
       BsDrawn, Offering, Offered
  <2>3. QED
    BY <1>3, <1>q, <2>2 DEF BsStart
<1>4. CASE BsClearSession
  <2>1. bs'.sys = "Idle" /\ bs'.kep = "KEP_idle" /\ bs'.cached.type = "none"
        /\ bs'.msg = bs.msg /\ bs'.status = bs.status
    BY <1>4 DEF BsClearSession, init_KEP_ctx, Process, NoMessage, Message
  <2>2. BsMessagesOK' /\ BsProgressOK'
    BY <1>4, <2>1 DEF BsClearSession, IInv, BsMessagesOK, BsProgressOK, Pending, InKep,
       BsDrawn, Offering
  <2>3. QED
    BY <1>4, <1>q, <2>2 DEF BsClearSession
<1>5. CASE BsKEP_idle
  <2>1. PICK q \in Polled(bs, FromDr) :
          bs'.sys = "KEP" /\ bs'.kep = "KEP1_compute" /\ bs'.cached.type = "none"
          /\ bs'.msg = q.msg /\ bs'.status = q.status
    BY <1>5, <1>p DEF BsKEP_idle, init_KEP_ctx, Process, NoMessage, Message, InKep
  <2>2. BsMessagesOK' /\ BsProgressOK'
    BY <1>5, <1>p, <2>1 DEF BsKEP_idle, BsMessagesOK, BsProgressOK, Pending, InKep,
       BsDrawn, Offering
  <2>3. QED
    BY <1>5, <1>q, <2>2 DEF BsKEP_idle
<1>6. CASE BsKEP1_compute
  <2>1. PICK q \in Polled(bs, FromDr) :
          bs'.sys = "KEP" /\ bs'.kep = "KEP1_send" /\ bs'.cached.type = "KEP1"
          /\ bs'.point = bsRuns + 1 /\ bs'.msg = q.msg /\ bs'.status = q.status
    BY <1>6, <1>p DEF BsKEP1_compute, Process, KEP1, Message, InKep
  <2>2. BsMessagesOK'
    BY <1>6, <1>p, <2>1 DEF BsKEP1_compute, BsMessagesOK, Pending, InKep
  <2>3. BsProgressOK'
    BY <1>6, <2>1 DEF BsKEP1_compute, IInv, OffersOK, BsProgressOK, BsDrawn, InKep, Offering
  <2>4. OffersOK'
    BY <1>6, OffersFrame DEF BsKEP1_compute, IInv
  <2>5. NetOK' /\ SessionsOK' /\ DrMessagesOK' /\ DrProgressOK' /\ OneSessionPerPoint'
    BY <1>6, BsFrame, NetFrame DEF BsKEP1_compute, IInv
  <2>6. QED
    BY <2>2, <2>3, <2>4, <2>5 DEF IInv
<1>7. ASSUME NEW st, NEW wait, BsSend(st, wait),
             \/ st = "KEP1_send" /\ wait = "KEP1_wait"
             \/ st = "KEP3_send" /\ wait = "KEP3_wait"
      PROVE  IInv'
  <2>0. UNCHANGED <<dr, bsRuns, drRuns, offers, sessions>> /\ bs.sys = "KEP" /\ bs.kep = st
    BY <1>7 DEF BsSend, InKep
  <2>1. PICK q \in Polled(bs, FromDr) :
          \/ /\ CanTransmit(q) /\ transmit(q.cached)
             /\ bs' = [Transmitted(q) EXCEPT !.kep = wait]
          \/ /\ bs' = GiveUp(q) /\ UNCHANGED net
    BY <1>7 DEF BsSend
  <2>2. /\ bs'.cached = bs.cached /\ bs'.msg = q.msg /\ bs'.status = q.status
        /\ bs'.seq = bs.seq /\ bs'.key = bs.key /\ bs'.point = bs.point
        /\ \/ bs'.sys = "KEP" /\ bs'.kep = wait
           \/ bs'.sys = "ClearSession" /\ bs'.kep = "KEP_idle"
    BY <2>0, <2>1, <1>p DEF Transmitted, GiveUp, Process
  <2>3. bs.cached \in Messages
    BY DEF Process
  <2>4. net \subseteq net' /\ NetOK'
    <3>1. CASE UNCHANGED net
      BY <3>1, <2>0, NetFrame DEF IInv
    <3>2. CASE transmit(bs.cached)
      <4>1. PICK x \in Messages :
              /\ net' = net \cup {x}
              /\ x.type = bs.cached.type
              /\ x.key = bs.cached.key \/ x.key = NoKey
        BY <2>3, <3>2, TransmitFacts
      <4>2. bs.cached.type = "KEP3" => KeyOffered(bs.cached.key)
        BY DEF IInv, BsMessagesOK, Offered, KeyOffered
      <4>3. QED
        BY <2>0, <4>1, <4>2 DEF IInv, NetOK, BsMessagesOK, KeyOffered
    <3>3. QED
      BY <2>1, <1>p, <3>1, <3>2
  <2>5. BsMessagesOK'
    BY <1>7, <1>p, <2>0, <2>2, <2>4 DEF IInv, BsMessagesOK, Pending, InKep, Offered
  <2>6. BsProgressOK'
    BY <1>7, <2>0, <2>2 DEF IInv, BsProgressOK, BsDrawn, InKep, Offering, BsOffer
  <2>7. OffersOK'
    BY <2>0, OffersFrame DEF IInv
  <2>8. QED
    BY <2>0, <2>4, <2>5, <2>6, <2>7, BsFrame DEF IInv
<1>8. ASSUME NEW st, NEW tp, NEW send, NEW ver, BsWait(st, tp, send, ver),
             \/ st = "KEP1_wait" /\ tp = "KEP2" /\ send = "KEP1_send" /\ ver = "KEP3_verify"
             \/ st = "KEP3_wait" /\ tp = "KEP4" /\ send = "KEP3_send" /\ ver = "KEP5_verify"
      PROVE  IInv'
  <2>0. UNCHANGED <<dr, net, bsRuns, drRuns, offers, sessions>> /\ bs.sys = "KEP" /\ bs.kep = st
    BY <1>8 DEF BsWait, InKep
  <2>1. PICK q \in Polled(bs, FromDr) :
          \/ q.status = "Message_valid" /\ q.msg.type = tp /\ bs' = [q EXCEPT !.kep = ver]
          \/ bs' = [q EXCEPT !.kep = send, !.status = "Message_used"]
          \/ bs' = q
    BY <1>8 DEF BsWait
  <2>2. /\ bs'.cached = bs.cached /\ bs'.msg = q.msg
        /\ bs'.seq = bs.seq /\ bs'.key = bs.key /\ bs'.point = bs.point
        /\ bs'.sys = "KEP"
        /\ \/ q.status = "Message_valid" /\ q.msg.type = tp
              /\ bs'.kep = ver /\ bs'.status = q.status
           \/ bs'.kep = send /\ bs'.status = "Message_used"
           \/ bs'.kep = st /\ bs'.status = q.status
    BY <2>0, <2>1, <1>p DEF Process
  <2>3. BsMessagesOK'
    BY <1>8, <1>p, <2>0, <2>2 DEF IInv, BsMessagesOK, Pending, InKep, Offered
  <2>4. BsProgressOK'
    BY <1>8, <2>0, <2>2 DEF IInv, BsProgressOK, BsDrawn, InKep, Offering, BsOffer
  <2>5. QED
    BY <2>0, <2>3, <2>4, <1>q
<1>9. ASSUME NEW st, NEW send, BsTimeout(st, send),
             \/ st = "KEP1_wait" /\ send = "KEP1_send"
             \/ st = "KEP3_wait" /\ send = "KEP3_send"
      PROVE  IInv'
  <2>0. UNCHANGED <<dr, net, bsRuns, drRuns, offers, sessions>> /\ bs.sys = "KEP" /\ bs.kep = st
    BY <1>9 DEF BsTimeout, InKep
  <2>1. PICK q \in Polled(bs, FromDr) : bs' = [q EXCEPT !.kep = send]
    BY <1>9 DEF BsTimeout
  <2>2. /\ bs'.cached = bs.cached /\ bs'.msg = q.msg /\ bs'.status = q.status
        /\ bs'.seq = bs.seq /\ bs'.key = bs.key /\ bs'.point = bs.point
        /\ bs'.sys = "KEP" /\ bs'.kep = send
    BY <2>0, <2>1, <1>p DEF Process
  <2>3. BsMessagesOK'
    BY <1>9, <1>p, <2>0, <2>2 DEF IInv, BsMessagesOK, Pending, InKep, Offered
  <2>4. BsProgressOK'
    BY <1>9, <2>0, <2>2 DEF IInv, BsProgressOK, BsDrawn, InKep, Offering, BsOffer
  <2>5. QED
    BY <2>0, <2>3, <2>4, <1>q
<1>10. CASE BsKEP3_verify
  <2>0. UNCHANGED <<dr, net, bsRuns, drRuns, offers, sessions>>
        /\ bs.sys = "KEP" /\ bs.kep = "KEP3_verify"
    BY <1>10 DEF BsKEP3_verify, InKep
  <2>1. PICK q \in Polled(bs, FromDr) :
          LET u == [q EXCEPT !.status = "Message_used", !.key = <<q.point, q.msg.point>>]
          IN  \/ bs' = [u EXCEPT !.kep = "KEP3_compute", !.active = TRUE,
                                 !.ntx = 0, !.exp = addMultSeqNb(q.msg.seq, 1)]
              \/ bs' = [u EXCEPT !.kep = "KEP1_send"]
    BY <1>10 DEF BsKEP3_verify
  <2>2. /\ bs'.cached = bs.cached /\ bs'.status = "Message_used"
        /\ bs'.point = bs.point /\ bs'.key = <<bs.point, q.msg.point>>
        /\ bs'.sys = "KEP" /\ bs'.kep \in {"KEP3_compute", "KEP1_send"}
    <3> DEFINE u == [q EXCEPT !.status = "Message_used", !.key = <<q.point, q.msg.point>>]
    <3>1. <<q.point, q.msg.point>> \in Keys
      BY <1>p DEF Process, Messages, Keys
    <3>2. /\ u \in Process(BsKepStates)
          /\ u.cached = bs.cached /\ u.status = "Message_used" /\ u.point = bs.point
          /\ u.key = <<bs.point, q.msg.point>> /\ u.sys = "KEP"
      BY <1>p, <2>0, <3>1 DEF Process, Statuses
    <3>3. \/ bs' = [u EXCEPT !.kep = "KEP3_compute", !.active = TRUE,
                             !.ntx = 0, !.exp = addMultSeqNb(q.msg.seq, 1)]
          \/ bs' = [u EXCEPT !.kep = "KEP1_send"]
      BY <2>1
    <3> HIDE DEF u
    <3>4. QED
      BY <3>2, <3>3 DEF Process
  <2>3. BsMessagesOK'
    BY <2>0, <2>2 DEF IInv, BsMessagesOK, Pending, InKep, Offered
  <2>4. BsProgressOK'
    BY <2>0, <2>2 DEF IInv, BsProgressOK, BsDrawn, InKep, Offering
  <2>5. QED
    BY <2>0, <2>3, <2>4, <1>q
<1>11. CASE BsKEP3_compute
  <2>0. UNCHANGED <<dr, net, bsRuns, drRuns, sessions>> /\ offers' = offers \cup {BsOffer'}
        /\ bs.sys = "KEP" /\ bs.kep = "KEP3_compute"
    BY <1>11 DEF BsKEP3_compute, InKep
  <2>1. PICK q \in Polled(bs, FromDr) :
          bs' = [q EXCEPT !.kep = "KEP3_send", !.seq = addOneSeqNb(q.seq),
                          !.cached = KEP3(addOneSeqNb(q.seq), q.key)]
    BY <1>11 DEF BsKEP3_compute
  <2>2. /\ bs'.cached = KEP3(bs'.seq, bs'.key) /\ bs'.msg = q.msg /\ bs'.status = q.status
        /\ bs'.key = bs.key /\ bs'.sys = "KEP" /\ bs'.kep = "KEP3_send"
    BY <2>0, <2>1, <1>p DEF Process
  <2>3. BsOffer' = [key |-> bs'.key, toDrone |-> addOneSeqNb(bs'.seq)]
    BY DEF BsOffer
  <2>4. BsMessagesOK'
    BY <1>p, <2>0, <2>2, <2>3 DEF BsMessagesOK, Pending, InKep, Offered, KEP3, Message
  <2>5. BsProgressOK'
    BY <2>0, <2>2 DEF BsProgressOK, BsDrawn, InKep, Offering
  <2>6. OffersOK'
    <3>1. bs.point \in 1 .. bsRuns /\ bs.key[1] = bs.point
          /\ \A o \in offers : o.key[1] # bs.point
      BY <2>0 DEF IInv, BsProgressOK, BsDrawn, InKep
    <3>2. BsOffer'.key = bs.key
      BY <2>2, <2>3
    <3>3. QED
      BY <2>0, <3>1, <3>2 DEF IInv, OffersOK
  <2>7. NetOK'
    BY <2>0, NetFrame DEF IInv
  <2>8. QED
    BY <2>0, <2>4, <2>5, <2>6, <2>7, BsFrame DEF IInv
<1>12. CASE BsKEP5_verify
  <2>0. UNCHANGED <<dr, net, bsRuns, drRuns, offers, sessions>>
        /\ bs.sys = "KEP" /\ bs.kep = "KEP5_verify"
    BY <1>12 DEF BsKEP5_verify, InKep
  <2>1. PICK q \in Polled(bs, FromDr) :
          LET u == [q EXCEPT !.status = "Message_used"]
          IN  \/ /\ KEP4Accepted(q)
                 /\ bs' = [u EXCEPT !.kep = "Done", !.sys = "SessionReady",
                                    !.exp = addMultSeqNb(q.msg.seq, 1)]
              \/ bs' = [u EXCEPT !.kep = "KEP3_send"]
    BY <1>12 DEF BsKEP5_verify
  <2>2. /\ bs'.cached = bs.cached /\ bs'.status = "Message_used"
        /\ bs'.key = bs.key /\ bs'.seq = bs.seq
        /\ \/ /\ KEP4Accepted(q) /\ bs'.sys = "SessionReady" /\ bs'.kep = "Done"
              /\ bs'.exp = addMultSeqNb(q.msg.seq, 1)
           \/ bs'.sys = "KEP" /\ bs'.kep = "KEP3_send"
    <3>1. q \in Process(BsKepStates) /\ q.cached = bs.cached /\ q.key = bs.key
          /\ q.seq = bs.seq /\ q.sys = "KEP"
      BY <2>0, <1>p
    <3>2. PICK u : u = [q EXCEPT !.status = "Message_used"]
      OBVIOUS
    <3>3. /\ u.cached = q.cached /\ u.key = q.key /\ u.seq = q.seq
          /\ u.sys = q.sys /\ u.status = "Message_used"
          /\ u \in [DOMAIN q -> {u[x] : x \in DOMAIN q}]
          /\ DOMAIN q = {"sys", "kep", "seq", "exp", "ntx", "active", "point",
                         "key", "cached", "status", "msg"}
      BY <3>1, <3>2 DEF Process
    <3>4. CASE /\ KEP4Accepted(q)
               /\ bs' = [u EXCEPT !.kep = "Done", !.sys = "SessionReady",
                                  !.exp = addMultSeqNb(q.msg.seq, 1)]
      BY <3>1, <3>3, <3>4
    <3>5. CASE bs' = [u EXCEPT !.kep = "KEP3_send"]
      BY <3>1, <3>3, <3>5
    <3>6. QED
      BY <2>1, <3>2, <3>4, <3>5
  <2>3. BsMessagesOK'
    BY <2>0, <2>2 DEF IInv, BsMessagesOK, Pending, InKep, Offered
  \* The KEP4 that was accepted names a session the drone entered.
  <2>4. ASSUME KEP4Accepted(q), bs'.exp = addMultSeqNb(q.msg.seq, 1)
        PROVE  /\ BsOffer \in offers
               /\ \E s \in sessions : s.key = bs'.key /\ s.toBase = bs'.exp
    <3>1. /\ q.msg \in net /\ q.msg.type = "KEP4" /\ q.msg.key = bs.key
          /\ q.msg.seq \in SeqNbs
      BY <1>p, <2>0, <2>4 DEF IInv, BsMessagesOK, InKep, KEP4Accepted, Messages
    <3>2. BsOffer \in offers
      BY <2>0 DEF IInv, BsProgressOK, Offering
    <3>3. bs.key # NoKey
      BY <3>2 DEF IInv, OffersOK, BsOffer, NoKey
    <3>4. PICK s \in sessions : s.key = bs.key /\ s.toBase = addOneSeqNb(q.msg.seq)
      BY <3>1, <3>3 DEF IInv, NetOK
    <3>5. QED
      BY <2>2, <2>4, <3>1, <3>2, <3>4, AddOneIsAddMult
  <2>5. BsProgressOK'
    <3>1. CASE bs'.sys = "SessionReady"
      BY <2>0, <2>2, <2>4, <3>1 DEF BsProgressOK, BsDrawn, InKep, Offering, BsOffer
    <3>2. CASE bs'.sys = "KEP" /\ bs'.kep = "KEP3_send"
      BY <2>0, <2>2, <3>2 DEF IInv, BsProgressOK, BsDrawn, InKep, Offering, BsOffer
    <3>3. QED
      BY <2>2, <3>1, <3>2
  <2>6. QED
    BY <2>0, <2>3, <2>5, <1>q
<1>13. CASE BsSessionReady
  <2>0. UNCHANGED <<dr, bsRuns, drRuns, offers, sessions>> /\ bs.sys = "SessionReady"
        /\ net' = net \cup {MESS("BS_MESS", addOneSeqNb(bs.seq))}
    BY <1>13 DEF BsSessionReady
  <2>1. /\ bs'.cached = bs.cached /\ bs'.key = bs.key /\ bs'.seq = bs.seq
        /\ bs'.exp = bs.exp /\ bs'.sys = "SessionReady"
        /\ Pending(bs') => bs'.msg \in net
    BY <1>13, <1>p, <2>0, HandledFacts DEF BsSessionReady
  <2>2. BsMessagesOK'
    BY <2>0, <2>1 DEF IInv, BsMessagesOK, Pending, InKep, Offered
  <2>3. BsProgressOK'
    BY <2>0, <2>1 DEF IInv, BsProgressOK, BsDrawn, InKep, Offering, BsOffer
  <2>4. NetOK' /\ OffersOK'
    BY <2>0, MessFrame, OffersFrame DEF IInv
  <2>5. QED
    BY <2>0, <2>2, <2>3, <2>4, BsFrame DEF IInv
<1>14. QED
  BY <1>1, <1>2, <1>3, <1>4, <1>5, <1>6, <1>7, <1>8, <1>9, <1>10, <1>11, <1>12, <1>13
  DEF BsIterate, BsTimeouts, BsKEP1_send, BsKEP3_send, BsKEP1_wait, BsKEP3_wait

\* An action of the drone adds to the network and to the sessions, and
\* disturbs nothing that is said about the base station alone.
LEMMA DrFrame ==
    ASSUME IInv, UNCHANGED <<bs, bsRuns, offers>>,
           net \subseteq net', sessions \subseteq sessions'
    PROVE  OffersOK' /\ BsMessagesOK' /\ BsProgressOK'
<1> USE DEF IInv
<1>1. OffersOK'
  BY DEF OffersOK
<1>2. BsMessagesOK'
  BY DEF BsMessagesOK, Pending, InKep, Offered
<1>3. BsProgressOK'
  BY DEF BsProgressOK, BsDrawn, InKep, Offering, BsOffer
<1>4. QED
  BY <1>1, <1>2, <1>3

\* Every action of the drone preserves the invariant.
LEMMA DrIInv ==
    ASSUME TypeInv, IInv, DrStart \/ DrQuit \/ DrIterate
    PROVE  IInv'
<1> USE DEF TypeInv, TypeOK
<1>p. ASSUME NEW q \in Polled(dr, FromBs)
      PROVE  /\ q \in Process(DrKepStates)
             /\ q.sys = dr.sys /\ q.kep = dr.kep /\ q.seq = dr.seq /\ q.exp = dr.exp
             /\ q.point = dr.point /\ q.key = dr.key /\ q.cached = dr.cached
             /\ Pending(dr) => q = dr
             /\ Pending(q) => q.msg \in net
  BY PolledFacts DEF IInv, DrMessagesOK
\* Actions that leave the network, the sessions and the points alone.
<1>q. ASSUME UNCHANGED <<bs, net, bsRuns, drRuns, offers, sessions>>,
             DrMessagesOK', DrProgressOK'
      PROVE  IInv'
  <2>1. OffersOK' /\ BsMessagesOK' /\ BsProgressOK'
    BY <1>q, DrFrame
  <2>2. NetOK'
    BY <1>q, NetFrame DEF IInv
  <2>3. SessionsOK' /\ OneSessionPerPoint'
    BY <1>q DEF SessionsOK, OneSessionPerPoint, IInv, KeyOffered, Announced
  <2>4. QED
    BY <1>q, <2>1, <2>2, <2>3 DEF IInv
<1>1. CASE DrIdle
  <2>1. DrMessagesOK' /\ DrProgressOK'
    BY <1>1 DEF DrIdle, vars, IInv, DrMessagesOK, DrProgressOK, Pending, InKep,
       DrDrawn, DrKeyed, DrSession, KeyOffered, Announced
  <2>2. QED
    BY <1>1, <1>q, <2>1 DEF DrIdle, vars
<1>2. CASE DrQuit
  <2>1. bs' = bs /\ dr'.sys = "ClearSession" /\ dr'.cached = dr.cached
        /\ dr'.msg = dr.msg /\ dr'.status = dr.status
    BY <1>2 DEF DrQuit, Process
  <2>2. DrMessagesOK' /\ DrProgressOK'
    BY <1>2, <2>1 DEF DrQuit, IInv, DrMessagesOK, DrProgressOK, Pending, InKep,
       DrDrawn, DrKeyed
  <2>3. QED
    BY <1>2, <1>q, <2>2 DEF DrQuit
<1>3. CASE DrStart
  <2>1. dr'.sys = "KEP" /\ dr'.kep = "KEP_idle" /\ dr'.cached = dr.cached
        /\ dr'.msg = dr.msg /\ dr'.status = dr.status
    BY <1>3 DEF DrStart, Process, IInv, DrProgressOK
  <2>2. DrMessagesOK' /\ DrProgressOK'
    BY <1>3, <2>1 DEF DrStart, IInv, DrMessagesOK, DrProgressOK, Pending, InKep,
       DrDrawn, DrKeyed
  <2>3. QED
    BY <1>3, <1>q, <2>2 DEF DrStart
<1>4. CASE DrClearSession
  <2>1. dr'.sys = "Idle" /\ dr'.kep = "KEP_idle" /\ dr'.cached.type = "none"
        /\ dr'.msg = dr.msg /\ dr'.status = dr.status
    BY <1>4 DEF DrClearSession, init_KEP_ctx, Process, NoMessage, Message
  <2>2. DrMessagesOK' /\ DrProgressOK'
    BY <1>4, <2>1 DEF DrClearSession, IInv, DrMessagesOK, DrProgressOK, Pending, InKep,
       DrDrawn, DrKeyed
  <2>3. QED
    BY <1>4, <1>q, <2>2 DEF DrClearSession
<1>5. CASE DrKEP_idle
  <2>1. PICK q \in Polled(dr, FromBs) :
          dr'.sys = "KEP" /\ dr'.kep = "KEP2_precompute" /\ dr'.cached.type = "none"
          /\ dr'.msg = q.msg /\ dr'.status = q.status
    BY <1>5, <1>p DEF DrKEP_idle, init_KEP_ctx, Process, NoMessage, Message, InKep
  <2>2. DrMessagesOK' /\ DrProgressOK'
    BY <1>5, <1>p, <2>1 DEF DrKEP_idle, DrMessagesOK, DrProgressOK, Pending, InKep,
       DrDrawn, DrKeyed
  <2>3. QED
    BY <1>5, <1>q, <2>2 DEF DrKEP_idle
<1>6. CASE DrKEP2_precompute
  <2>0. UNCHANGED <<bs, net, bsRuns, offers, sessions>> /\ drRuns' = drRuns + 1
    BY <1>6 DEF DrKEP2_precompute
  <2>1. PICK q \in Polled(dr, FromBs) :
          dr'.sys = "KEP" /\ dr'.kep = "KEP2_wait_request" /\ dr'.point = drRuns + 1
          /\ dr'.cached = dr.cached /\ dr'.msg = q.msg /\ dr'.status = q.status
    BY <1>6, <1>p DEF DrKEP2_precompute, Process, InKep
  <2>2. DrMessagesOK'
    BY <1>p, <2>0, <2>1 DEF IInv, DrMessagesOK, Pending, InKep
  <2>3. DrProgressOK'
    <3>1. \A s \in sessions' : s.key[2] # dr'.point
      <4>1. ASSUME NEW s \in sessions
            PROVE  s.key[2] # drRuns + 1
        <5>1. s.key[2] \in 1 .. drRuns
          BY DEF IInv, SessionsOK
        <5>2. drRuns \in Nat
          BY KepAssumption DEF TypeInv, TypeOK
        <5>3. \A k \in 1 .. drRuns : k # drRuns + 1
          BY <5>2
        <5>4. QED
          BY <5>1, <5>3
      <4>2. QED
        BY <2>0, <2>1, <4>1
    <3>2. dr'.point \in 1 .. drRuns'
      BY <2>0, <2>1
    <3>3. QED
      BY <2>1, <3>1, <3>2 DEF DrProgressOK, InKep, DrKeyed
  <2>4. SessionsOK' /\ OneSessionPerPoint' /\ NetOK'
    BY <2>0, NetFrame DEF IInv, SessionsOK, OneSessionPerPoint, KeyOffered, Announced
  <2>5. QED
    BY <2>0, <2>2, <2>3, <2>4, DrFrame DEF IInv
<1>7. CASE DrKEP2_wait_request
  <2>0. UNCHANGED <<bs, net, bsRuns, drRuns, offers, sessions>>
        /\ dr.sys = "KEP" /\ dr.kep = "KEP2_wait_request"
    BY <1>7 DEF DrKEP2_wait_request, InKep
  <2>1. PICK q \in Polled(dr, FromBs) :
          /\ dr'.cached = dr.cached /\ dr'.msg = q.msg /\ dr'.point = dr.point
          /\ dr'.sys = "KEP"
          /\ dr'.kep \in {"KEP2_compute", "KEP2_wait_request"}
          /\ dr'.status \in {q.status, "Message_used"}
    BY <1>7, <1>p, <2>0 DEF DrKEP2_wait_request, Process
  <2>2. DrMessagesOK'
    BY <1>p, <2>0, <2>1 DEF IInv, DrMessagesOK, Pending, InKep
  <2>3. DrProgressOK'
    BY <2>0, <2>1 DEF IInv, DrProgressOK, InKep, DrDrawn, DrKeyed
  <2>4. QED
    BY <2>0, <2>2, <2>3, <1>q
<1>8. CASE DrKEP2_compute
  <2>0. UNCHANGED <<bs, net, bsRuns, drRuns, offers, sessions>>
        /\ dr.sys = "KEP" /\ dr.kep = "KEP2_compute"
    BY <1>8 DEF DrKEP2_compute, InKep
  <2>1. PICK q \in Polled(dr, FromBs) :
          LET key   == <<q.msg.point, q.point>>
              seqNb == IF q.active THEN q.seq ELSE addOneSeqNb(q.seq)
          IN  \/ dr' = [q EXCEPT !.kep = "KEP2_send", !.status = "Message_used",
                                 !.exp = addMultSeqNb(q.msg.seq, 1),
                                 !.key = key, !.seq = seqNb, !.active = TRUE,
                                 !.cached = KEP2(seqNb, q.point, key)]
              \/ dr' = [q EXCEPT !.sys = "Crashed"]
    BY <1>8 DEF DrKEP2_compute
  <2>2. \/ /\ dr'.cached.type = "KEP2" /\ dr'.status = "Message_used"
           /\ dr'.point = dr.point /\ dr'.key[2] = dr.point
           /\ dr'.sys = "KEP" /\ dr'.kep = "KEP2_send"
        \/ /\ dr'.cached = dr.cached /\ dr'.status = q.status /\ dr'.msg = q.msg
           /\ dr'.sys = "Crashed"
    <3> DEFINE key   == <<q.msg.point, q.point>>
               seqNb == IF q.active THEN q.seq ELSE addOneSeqNb(q.seq)
               msg   == KEP2(seqNb, q.point, key)
    <3>1. msg.type = "KEP2" /\ key[2] = q.point
      BY DEF KEP2, Message
    <3>2. \/ dr' = [q EXCEPT !.kep = "KEP2_send", !.status = "Message_used",
                             !.exp = addMultSeqNb(q.msg.seq, 1),
                             !.key = key, !.seq = seqNb, !.active = TRUE, !.cached = msg]
          \/ dr' = [q EXCEPT !.sys = "Crashed"]
      BY <2>1
    <3> HIDE DEF key, seqNb, msg
    <3>3. CASE dr' = [q EXCEPT !.sys = "Crashed"]
      BY <1>p, <3>3 DEF Process
    <3>4. CASE dr' = [q EXCEPT !.kep = "KEP2_send", !.status = "Message_used",
                               !.exp = addMultSeqNb(q.msg.seq, 1),
                               !.key = key, !.seq = seqNb, !.active = TRUE, !.cached = msg]
      BY <1>p, <2>0, <3>1, <3>4 DEF Process
    <3>5. QED
      BY <3>2, <3>3, <3>4
  <2>3. DrMessagesOK'
    BY <1>p, <2>0, <2>2 DEF IInv, DrMessagesOK, Pending, InKep
  <2>4. DrProgressOK'
    BY <2>0, <2>2 DEF IInv, DrProgressOK, InKep, DrDrawn, DrKeyed
  <2>5. QED
    BY <2>0, <2>3, <2>4, <1>q
<1>9. ASSUME DrSend("KEP2_send", "KEP2_wait", "KEP")
      PROVE  IInv'
  <2>0. UNCHANGED <<bs, bsRuns, drRuns, offers>> /\ dr.sys = "KEP" /\ dr.kep = "KEP2_send"
    BY <1>9 DEF DrSend, InKep
  <2>1. PICK q \in Polled(dr, FromBs) :
          \/ /\ CanTransmit(q) /\ transmit(q.cached)
             /\ dr' = [Transmitted(q) EXCEPT !.kep = "KEP2_wait", !.sys = "KEP"]
          \/ /\ dr' = GiveUp(q) /\ UNCHANGED net
    BY <1>9 DEF DrSend
  <2>2. /\ dr'.cached = dr.cached /\ dr'.msg = q.msg /\ dr'.status = q.status
        /\ dr'.key = dr.key /\ dr'.point = dr.point
        /\ \/ dr'.sys = "KEP" /\ dr'.kep = "KEP2_wait"
           \/ dr'.sys = "ClearSession" /\ dr'.kep = "KEP_idle"
    BY <2>0, <2>1, <1>p DEF Transmitted, GiveUp, Process
  <2>3. sessions' = sessions
    BY <1>9, <2>2 DEF DrSend
  <2>4. dr.cached \in Messages /\ dr.cached.type = "KEP2"
    BY <2>0 DEF Process, IInv, DrMessagesOK
  <2>5. net \subseteq net' /\ NetOK'
    <3>1. CASE UNCHANGED net
      BY <3>1, <2>0, <2>3, NetFrame DEF IInv
    <3>2. CASE transmit(dr.cached)
      <4>1. PICK x \in Messages : net' = net \cup {x} /\ x.type = "KEP2"
        BY <2>4, <3>2, TransmitFacts
      <4>2. QED
        BY <2>0, <2>3, <4>1 DEF IInv, NetOK, KeyOffered
    <3>3. QED
      BY <2>1, <1>p, <3>1, <3>2
  <2>6. DrMessagesOK'
    BY <1>p, <2>0, <2>2, <2>5 DEF IInv, DrMessagesOK, Pending, InKep
  <2>7. DrProgressOK'
    BY <2>0, <2>2, <2>3 DEF IInv, DrProgressOK, InKep, DrDrawn, DrKeyed
  <2>8. SessionsOK' /\ OneSessionPerPoint'
    BY <2>0, <2>3, <2>5 DEF IInv, SessionsOK, OneSessionPerPoint, KeyOffered, Announced
  <2>9. QED
    BY <2>0, <2>3, <2>5, <2>6, <2>7, <2>8, DrFrame DEF IInv
<1>10. CASE DrKEP2_wait
  <2>0. UNCHANGED <<bs, net, bsRuns, drRuns, offers, sessions>>
        /\ dr.sys = "KEP" /\ dr.kep = "KEP2_wait"
    BY <1>10 DEF DrKEP2_wait, InKep
  <2>1. PICK q \in Polled(dr, FromBs) :
          \/ Pending(q) /\ q.msg.type = "KEP3" /\ dr' = [q EXCEPT !.kep = "KEP4_verify"]
          \/ dr' = [q EXCEPT !.kep = "KEP2_compute", !.status = "Message_used"]
          \/ dr' = [q EXCEPT !.kep = "KEP2_send", !.status = "Message_used"]
          \/ dr' = q
    BY <1>10 DEF DrKEP2_wait
  <2>2. /\ dr'.cached = dr.cached /\ dr'.msg = q.msg /\ dr'.sys = "KEP"
        /\ dr'.key = dr.key /\ dr'.point = dr.point
        /\ \/ Pending(q) /\ q.msg.type = "KEP3" /\ dr'.kep = "KEP4_verify" /\ dr'.status = q.status
           \/ dr'.kep \in {"KEP2_compute", "KEP2_send"} /\ dr'.status = "Message_used"
           \/ dr'.kep = "KEP2_wait" /\ dr'.status = q.status
    BY <2>0, <2>1, <1>p DEF Process
  <2>3. DrMessagesOK'
    BY <1>p, <2>0, <2>2 DEF IInv, DrMessagesOK, Pending, InKep
  <2>4. DrProgressOK'
    BY <2>0, <2>2 DEF IInv, DrProgressOK, InKep, DrDrawn, DrKeyed
  <2>5. QED
    BY <2>0, <2>3, <2>4, <1>q
<1>11. CASE DrTimeout
  <2>0. UNCHANGED <<bs, net, bsRuns, drRuns, offers, sessions>>
        /\ dr.sys = "KEP" /\ dr.kep = "KEP2_wait"
    BY <1>11 DEF DrTimeout, InKep
  <2>1. PICK q \in Polled(dr, FromBs) : dr' = [q EXCEPT !.kep = "KEP2_send"]
    BY <1>11 DEF DrTimeout
  <2>2. /\ dr'.cached = dr.cached /\ dr'.msg = q.msg /\ dr'.sys = "KEP"
        /\ dr'.key = dr.key /\ dr'.point = dr.point
        /\ dr'.kep = "KEP2_send" /\ dr'.status = q.status
    BY <2>0, <2>1, <1>p DEF Process
  <2>3. DrMessagesOK'
    BY <1>p, <2>0, <2>2 DEF IInv, DrMessagesOK, Pending, InKep
  <2>4. DrProgressOK'
    BY <2>0, <2>2 DEF IInv, DrProgressOK, InKep, DrDrawn, DrKeyed
  <2>5. QED
    BY <2>0, <2>3, <2>4, <1>q
<1>12. CASE DrKEP4_verify
  <2>0. UNCHANGED <<bs, net, bsRuns, drRuns, offers, sessions>>
        /\ dr.sys = "KEP" /\ dr.kep = "KEP4_verify"
    BY <1>12 DEF DrKEP4_verify, InKep
  <2>1. PICK q \in Polled(dr, FromBs) :
          LET u == [q EXCEPT !.status = "Message_used"]
          IN  \/ /\ KEP3Accepted(q)
                 /\ dr' = [u EXCEPT !.kep = "KEP4_compute", !.ntx = 0,
                                    !.exp = addMultSeqNb(q.msg.seq, 1)]
              \/ dr' = [u EXCEPT !.kep = "KEP2_send"]
    BY <1>12 DEF DrKEP4_verify
  <2>2. /\ dr'.cached = dr.cached /\ dr'.sys = "KEP" /\ dr'.status = "Message_used"
        /\ dr'.key = dr.key /\ dr'.point = dr.point
        /\ \/ /\ KEP3Accepted(q) /\ dr'.kep = "KEP4_compute"
              /\ dr'.exp = addMultSeqNb(q.msg.seq, 1)
           \/ dr'.kep = "KEP2_send"
    BY <2>0, <2>1, <1>p DEF Process
  <2>3. DrMessagesOK'
    BY <1>p, <2>0, <2>2 DEF IInv, DrMessagesOK, Pending, InKep
  \* The MAC of the KEP3 that was accepted is intact, so the base station made
  \* an offer of this key; the number is that of a KEP3 on the network.
  <2>4. ASSUME KEP3Accepted(q)
        PROVE  KeyOffered(dr.key) /\ Announced(dr.key, addMultSeqNb(q.msg.seq, 1))
    <3>1. /\ q.msg \in net /\ q.msg.type = "KEP3" /\ q.msg.key = dr.key
          /\ q.msg.seq \in SeqNbs
      BY <1>p, <2>0, <2>4 DEF IInv, DrMessagesOK, InKep, KEP3Accepted, Messages
    <3>2. dr.key # NoKey
      BY <2>0 DEF IInv, DrProgressOK, DrKeyed, DrDrawn, NoKey
    <3>3. KeyOffered(dr.key)
      BY <3>1, <3>2 DEF IInv, NetOK
    <3>4. QED
      BY <3>1, <3>3, AddOneIsAddMult DEF Announced
  <2>5. DrProgressOK'
    BY <2>0, <2>2, <2>4 DEF IInv, DrProgressOK, InKep, DrDrawn, DrKeyed, KeyOffered, Announced
  <2>6. QED
    BY <2>0, <2>3, <2>5, <1>q
<1>13. CASE DrKEP4_compute
  <2>0. UNCHANGED <<bs, net, bsRuns, drRuns, offers, sessions>>
        /\ dr.sys = "KEP" /\ dr.kep = "KEP4_compute"
    BY <1>13 DEF DrKEP4_compute, InKep
  <2>1. PICK q \in Polled(dr, FromBs) :
          dr' = [q EXCEPT !.kep = "KEP4_send", !.seq = addOneSeqNb(q.seq),
                          !.cached = KEP4(addOneSeqNb(q.seq), q.key, q.msg.seq)]
    BY <1>13 DEF DrKEP4_compute
  <2>2. /\ dr'.cached.type = "KEP4" /\ dr'.cached.key = dr'.key /\ dr'.cached.seq = dr'.seq
        /\ dr'.msg = q.msg /\ dr'.status = q.status /\ dr'.sys = "KEP" /\ dr'.kep = "KEP4_send"
        /\ dr'.key = dr.key /\ dr'.point = dr.point /\ dr'.exp = dr.exp
    BY <2>0, <2>1, <1>p DEF Process, KEP4, Message
  <2>3. DrMessagesOK'
    BY <1>p, <2>0, <2>2 DEF DrMessagesOK, Pending, InKep
  <2>4. DrProgressOK'
    BY <2>0, <2>2 DEF IInv, DrProgressOK, InKep, DrDrawn, DrKeyed, KeyOffered, Announced
  <2>5. QED
    BY <2>0, <2>3, <2>4, <1>q
<1>14. ASSUME DrSend("KEP4_send", "Done", "SessionReady")
       PROVE  IInv'
  <2>0. UNCHANGED <<bs, bsRuns, drRuns, offers>> /\ dr.sys = "KEP" /\ dr.kep = "KEP4_send"
    BY <1>14 DEF DrSend, InKep
  <2>1. PICK q \in Polled(dr, FromBs) :
          \/ /\ CanTransmit(q) /\ transmit(q.cached)
             /\ dr' = [Transmitted(q) EXCEPT !.kep = "Done", !.sys = "SessionReady"]
          \/ /\ dr' = GiveUp(q) /\ UNCHANGED net
    BY <1>14 DEF DrSend
  <2>2. /\ dr'.cached = dr.cached /\ dr'.msg = q.msg /\ dr'.status = q.status
        /\ dr'.key = dr.key /\ dr'.seq = dr.seq /\ dr'.exp = dr.exp
        /\ \/ transmit(dr.cached) /\ dr'.sys = "SessionReady" /\ dr'.kep = "Done"
           \/ UNCHANGED net /\ dr'.sys = "ClearSession" /\ dr'.kep = "KEP_idle"
    BY <2>0, <2>1, <1>p, ZenonT(60) DEF Transmitted, GiveUp, Process
  <2>3. /\ dr.cached \in Messages /\ dr.cached.type = "KEP4"
        /\ dr.cached.key = dr.key /\ dr.cached.seq = dr.seq
    BY <2>0 DEF Process, IInv, DrMessagesOK, InKep
  <2>4. CASE UNCHANGED net /\ dr'.sys = "ClearSession"
    <3>1. sessions' = sessions
      BY <1>14, <2>4 DEF DrSend
    <3>2. DrMessagesOK' /\ DrProgressOK'
      BY <1>p, <2>0, <2>2, <2>4 DEF IInv, DrMessagesOK, DrProgressOK, Pending, InKep,
         DrDrawn, DrKeyed
    <3>3. QED
      BY <2>0, <2>4, <3>1, <3>2, <1>q
  <2>5. CASE transmit(dr.cached) /\ dr'.sys = "SessionReady" /\ dr'.kep = "Done"
    <3> DEFINE s == DrSession'
    <3>1. sessions' = sessions \cup {s}
      BY <1>14, <2>5 DEF DrSend
    <3>2. s.key = dr.key /\ s.toDrone = dr.exp /\ s.toBase = addOneSeqNb(dr.seq)
      BY <2>2 DEF DrSession
    <3>3. PICK x \in Messages :
            /\ net' = net \cup {x}
            /\ x.type = "KEP4" /\ x.seq = dr.seq
            /\ x.key = dr.key \/ x.key = NoKey
      BY <2>3, <2>5, TransmitFacts
    <3>4. /\ dr.point \in 1 .. drRuns /\ dr.key[2] = dr.point
          /\ \A t \in sessions : t.key[2] # dr.point
          /\ KeyOffered(dr.key) /\ Announced(dr.key, dr.exp)
      BY <2>0 DEF IInv, DrProgressOK, InKep, DrDrawn, DrKeyed
    <3> HIDE DEF s
    <3>5. NetOK'
      <4>1. ASSUME NEW m \in net, m.key # NoKey
            PROVE  /\ m.type = "KEP3" => \E o \in offers : o.key = m.key
                   /\ m.type = "KEP4" =>
                       \E t \in sessions' : t.key = m.key /\ t.toBase = addOneSeqNb(m.seq)
        BY <3>1, <4>1 DEF IInv, NetOK, KeyOffered
      <4>2. x.key # NoKey =>
              \E t \in sessions' : t.key = x.key /\ t.toBase = addOneSeqNb(x.seq)
        BY <3>1, <3>2, <3>3
      <4>3. QED
        BY <2>0, <3>3, <4>1, <4>2 DEF NetOK, KeyOffered
    <3>6. SessionsOK'
      BY <2>0, <3>1, <3>2, <3>3, <3>4 DEF IInv, SessionsOK, KeyOffered, Announced
    \* An earlier session under the same point of the base station would have
    \* been offered, hence under the same key, hence under the drone's point.
    <3>7. OneSessionPerPoint'
      <4>1. ASSUME NEW t \in sessions
            PROVE  t.key[1] # s.key[1] /\ t.key[2] # s.key[2]
        <5>1. t.key[2] # s.key[2]
          BY <3>2, <3>4
        <5>2. KeyOffered(t.key)
          BY DEF IInv, SessionsOK
        <5>3. t.key[1] = s.key[1] => t.key = s.key
          BY <3>2, <3>4, <5>2 DEF IInv, OffersOK, KeyOffered
        <5>4. QED
          BY <5>1, <5>3
      <4>2. QED
        BY <3>1, <4>1 DEF IInv, OneSessionPerPoint
    <3>8. DrMessagesOK'
      BY <1>p, <2>0, <2>2, <2>3, <2>5, <3>3 DEF IInv, DrMessagesOK, Pending, InKep
    <3>9. DrProgressOK'
      BY <2>5, <3>1 DEF s, DrProgressOK, InKep, DrDrawn, DrKeyed
    <3>10. QED
      BY <2>0, <3>1, <3>3, <3>5, <3>6, <3>7, <3>8, <3>9, DrFrame DEF IInv
  <2>6. QED
    BY <2>2, <2>4, <2>5
<1>15. CASE DrSessionReady
  <2>0. UNCHANGED <<bs, bsRuns, drRuns, offers, sessions>> /\ dr.sys = "SessionReady"
    BY <1>15 DEF DrSessionReady
  <2>1. PICK q \in Polled(dr, FromBs) :
          LET u == [q EXCEPT !.status = "Message_used"]
          IN  \/ /\ dr' \in Handled(q)
                 /\ net' = net \cup {MESS("DR_MESS", addOneSeqNb(dr.seq))}
              \/ transmit(u.cached) /\ dr' = Transmitted(u)
              \/ dr' = GiveUp(u) /\ UNCHANGED net
    BY <1>15 DEF DrSessionReady
  <2>2. /\ dr'.cached = dr.cached /\ (Pending(dr') => dr'.msg \in net)
        /\ dr'.key = dr.key /\ dr'.seq = dr.seq /\ dr'.exp = dr.exp
        /\ \/ dr'.sys = "SessionReady" /\ dr'.kep = dr.kep
           \/ dr'.sys = "ClearSession" /\ dr'.kep = "KEP_idle"
        /\ \/ UNCHANGED net \/ transmit(dr.cached)
           \/ net' = net \cup {MESS("DR_MESS", addOneSeqNb(dr.seq))}
    <3>1. CASE /\ dr' \in Handled(q)
               /\ net' = net \cup {MESS("DR_MESS", addOneSeqNb(dr.seq))}
      BY <2>0, <3>1, <1>p, HandledFacts
    <3>2. CASE ~(/\ dr' \in Handled(q)
                 /\ net' = net \cup {MESS("DR_MESS", addOneSeqNb(dr.seq))})
      BY <2>0, <2>1, <3>2, <1>p DEF Transmitted, GiveUp, Process, Pending
    <3>3. QED
      BY <3>1, <3>2
  <2>3. /\ dr.cached \in Messages /\ dr.cached.type = "KEP4"
        /\ dr.cached.key = dr.key /\ dr.cached.seq = dr.seq
        /\ dr.kep = "Done" /\ DrSession \in sessions
    BY <2>0 DEF Process, IInv, DrMessagesOK, DrProgressOK
  <2>4. net \subseteq net' /\ NetOK'
    <3>1. CASE UNCHANGED net
      BY <3>1, <2>0, NetFrame DEF IInv
    <3>2. CASE transmit(dr.cached)
      <4>1. PICK x \in Messages :
              /\ net' = net \cup {x}
              /\ x.type = "KEP4" /\ x.seq = dr.seq
              /\ x.key = dr.key \/ x.key = NoKey
        BY <2>3, <3>2, TransmitFacts
      <4>2. x.key # NoKey =>
              \E t \in sessions : t.key = x.key /\ t.toBase = addOneSeqNb(x.seq)
        BY <2>3, <4>1 DEF DrSession
      <4>3. QED
        BY <2>0, <4>1, <4>2 DEF IInv, NetOK, KeyOffered
    <3>3. CASE net' = net \cup {MESS("DR_MESS", addOneSeqNb(dr.seq))}
      BY <2>0, <3>3, MessFrame DEF IInv
    <3>4. QED
      BY <2>2, <3>1, <3>2, <3>3, TransmitFacts
  <2>5. DrMessagesOK'
    BY <2>0, <2>2, <2>3, <2>4 DEF DrMessagesOK, InKep
  <2>6. DrProgressOK'
    BY <2>0, <2>2, <2>3 DEF DrProgressOK, InKep, DrDrawn, DrKeyed, DrSession
  <2>7. SessionsOK' /\ OneSessionPerPoint'
    BY <2>0, <2>4 DEF IInv, SessionsOK, OneSessionPerPoint, KeyOffered, Announced
  <2>8. QED
    BY <2>0, <2>4, <2>5, <2>6, <2>7, DrFrame DEF IInv
<1>16. QED
  BY <1>1, <1>2, <1>3, <1>4, <1>5, <1>6, <1>7, <1>8, <1>9, <1>10, <1>11, <1>12,
     <1>13, <1>14, <1>15
  DEF DrIterate, DrKEP2_send, DrKEP4_send

LEMMA InitIInv == Init => IInv
<1>1. ASSUME NEW s \in InitSeqNbs
      PROVE  /\ Powered(s).sys = "Idle" /\ Powered(s).kep = "KEP_idle"
             /\ Powered(s).status = "Message_used" /\ Powered(s).cached.type = "none"
  BY DEF Powered, NoMessage, Message
<1>2. QED
  BY <1>1
  DEF Init, IInv, OffersOK, SessionsOK, NetOK, BsMessagesOK, BsProgressOK, DrMessagesOK,
      DrProgressOK, OneSessionPerPoint, InKep, Pending, BsDrawn, DrDrawn, DrKeyed, Offering

LEMMA IInvStep ==
    ASSUME TypeInv, IInv, [Next]_vars
    PROVE  IInv'
<1>1. CASE UNCHANGED vars
  BY <1>1
  DEF vars, IInv, OffersOK, SessionsOK, NetOK, BsMessagesOK, BsProgressOK, DrMessagesOK,
      DrProgressOK, OneSessionPerPoint, InKep, Pending, BsDrawn, DrDrawn, DrKeyed, Offering,
      Offered, KeyOffered, Announced, BsOffer, DrSession
<1>2. CASE Next
  BY <1>2, BsIInv, DrIInv DEF Next
<1>3. QED
  BY <1>1, <1>2

\* The relations between the two processes, their caches and the network that
\* agreement rests on hold in every reachable state.
THEOREM Inductive == Spec => [](TypeInv /\ IInv)
BY InitTypeInv, TypeInvStep, InitIInv, IInvStep, PTL DEF Spec

\* A number announced under an offered key is the offered one, as long as no
\* KEP3 of that key announced another.
LEMMA NumberKeptFacts ==
    ASSUME OffersOK, NEW o \in offers, NEW key, NEW toDrone,
           o.key = key, Announced(key, toDrone), NumberKept(key)
    PROVE  toDrone = o.toDrone
<1>1. [key |-> key, toDrone |-> toDrone] \in offers
  BY DEF Announced, NumberKept
<1>2. QED
  BY <1>1 DEF OffersOK

\* Whatever the network loses, repeats, reorders or damages, a base station that
\* reports "Session ready" is matched by a session the drone entered: same key,
\* and the base station expects the number the drone sends next.  So does the
\* drone of the base station, unless the number of a KEP3 of that key was damaged.
THEOREM BaseAgreement == Spec => []BaseAgreesWithDrone
<1>1. ASSUME TypeInv, IInv, bs.sys = "SessionReady"
      PROVE  \E s \in sessions :
                /\ s.key = bs.key /\ s.toBase = bs.exp
                /\ NumberKept(bs.key) => s = BsSession
  <2>1. PICK s \in sessions : s.key = bs.key /\ s.toBase = bs.exp
    BY <1>1 DEF IInv, BsProgressOK
  <2>2. BsOffer \in offers /\ BsOffer.key = bs.key /\ BsOffer.toDrone = addOneSeqNb(bs.seq)
    BY <1>1 DEF IInv, BsProgressOK, BsOffer
  <2>3. NumberKept(bs.key) => s.toDrone = addOneSeqNb(bs.seq)
    BY <1>1, <2>1, <2>2, NumberKeptFacts DEF IInv, SessionsOK
  <2>4. s = [key |-> s.key, toDrone |-> s.toDrone, toBase |-> s.toBase]
    BY <1>1 DEF TypeInv, TypeOK, Sessions
  <2>5. QED
    BY <2>1, <2>3, <2>4 DEF BsSession
<1>2. TypeInv /\ IInv => BaseAgreesWithDrone
  BY <1>1 DEF BaseAgreesWithDrone
<1>3. QED
  BY <1>2, Inductive, PTL

\* Whatever the network does, a drone that reports "Session ready" is matched by
\* an offer of the base station for that key; and for the number the drone
\* expects, unless the number of a KEP3 of that key was damaged.
THEOREM DroneAgreement == Spec => []DroneAgreesWithBase
<1>1. ASSUME TypeInv, IInv, dr.sys = "SessionReady"
      PROVE  \E o \in offers :
                /\ o.key = dr.key
                /\ NumberKept(dr.key) => o.toDrone = dr.exp
  <2>1. KeyOffered(dr.key) /\ Announced(dr.key, dr.exp)
    BY <1>1 DEF IInv, DrProgressOK, SessionsOK, DrSession
  <2>2. PICK o \in offers : o.key = dr.key
    BY <2>1 DEF KeyOffered
  <2>3. QED
    BY <1>1, <2>1, <2>2, NumberKeptFacts DEF IInv
<1>2. TypeInv /\ IInv => DroneAgreesWithBase
  BY <1>1 DEF DroneAgreesWithBase
<1>3. QED
  BY <1>2, Inductive, PTL

\* No point is used for two sessions, however often messages are replayed by
\* the network or by retransmission.
THEOREM SessionsAreDistinct == Spec => []OneSessionPerPoint
<1>1. TypeInv /\ IInv => OneSessionPerPoint
  BY DEF IInv
<1>2. QED
  BY <1>1, Inductive, PTL

-----------------------------------------------------------------------------
(* Refinement *)

Spoilt == {o.key : o \in {x \in offers : ~NumberKept(x.key)}}

\* What the base station contributes to the abstract state, kept or moved on.
\* Transmitting what it offers may spoil the number.
BsKeeps ==
    /\ offers' = offers
    /\ Spoilt' = Spoilt \/ (Offering /\ Spoilt' = Spoilt \cup {bs.key})
    /\ Offering' <=> Offering
    /\ bs'.sys = "SessionReady" <=> bs.sys = "SessionReady"
    /\ Offering => bs'.key = bs.key /\ bs'.seq = bs.seq
    /\ bs.sys = "SessionReady" =>
         bs'.key = bs.key /\ bs'.seq = bs.seq /\ bs'.exp = bs.exp

BsLeaves ==
    offers' = offers /\ Spoilt' = Spoilt /\ ~Offering' /\ bs'.sys # "SessionReady"

BsOffers ==
    /\ ~Offering /\ bs.sys # "SessionReady"
    /\ Offering' /\ bs'.sys # "SessionReady"
    /\ \A o \in offers : o.key[1] # bs'.key[1]
    /\ offers' = offers \cup {BsOffer'} /\ Spoilt' = Spoilt

BsAdopts ==
    /\ Offering /\ ~Offering' /\ bs'.sys = "SessionReady"
    /\ bs'.key = bs.key /\ bs'.seq = bs.seq
    /\ offers' = offers /\ Spoilt' = Spoilt

\* Only the messages on the network and the offers decide what is spoilt.
LEMMA SpoiltFrame ==
    ASSUME UNCHANGED offers,
           \A m \in net' : m.type = "KEP3" => m \in net, net \subseteq net'
    PROVE  Spoilt' = Spoilt
<1>1. ASSUME NEW k
      PROVE  NumberKept(k)' <=> NumberKept(k)
  BY DEF NumberKept
<1>2. QED
  BY <1>1 DEF Spoilt

\* A KEP3 with another number spoils the one key it was made under.
LEMMA SpoiltByKEP3 ==
    ASSUME UNCHANGED offers, NEW x, net' = net \cup {x}
    PROVE  Spoilt' = Spoilt \/ (KeyOffered(x.key) /\ Spoilt' = Spoilt \cup {x.key})
<1>1. ASSUME NEW k, k # x.key
      PROVE  NumberKept(k)' <=> NumberKept(k)
  BY <1>1 DEF NumberKept
<1>2. NumberKept(x.key)' => NumberKept(x.key)
  BY DEF NumberKept
<1>3. CASE NumberKept(x.key)' <=> NumberKept(x.key)
  <2>1. \A k : NumberKept(k)' <=> NumberKept(k)
    BY <1>1, <1>3
  <2>2. QED
    BY <2>1 DEF Spoilt
<1>4. CASE NumberKept(x.key) /\ ~NumberKept(x.key)'
  <2>1. CASE KeyOffered(x.key)
    BY <1>1, <1>4, <2>1 DEF Spoilt, KeyOffered
  <2>2. CASE ~KeyOffered(x.key)
    BY <1>1, <2>2 DEF Spoilt, KeyOffered
  <2>3. QED
    BY <2>1, <2>2
<1>5. QED
  BY <1>2, <1>3, <1>4

\* A new offer uses a new key, for which no KEP3 was ever made.
LEMMA NotSpoiltByOffer ==
    ASSUME OffersOK, NetOK, UNCHANGED net, NEW o, offers' = offers \cup {o},
           o.key # NoKey, \A p \in offers : p.key[1] # o.key[1]
    PROVE  Spoilt' = Spoilt
<1>1. NumberKept(o.key)'
  BY DEF NumberKept, NetOK, KeyOffered
<1>2. ASSUME NEW p \in offers
      PROVE  NumberKept(p.key)' <=> NumberKept(p.key)
  <2>1. p.key # o.key
    OBVIOUS
  <2>2. o # [key |-> p.key, toDrone |-> p.toDrone]
    BY <2>1
  <2>3. \A n : [key |-> p.key, toDrone |-> n] # o
    BY <2>1
  <2>4. QED
    BY <2>3 DEF NumberKept
<1>3. QED
  BY <1>1, <1>2 DEF Spoilt

\* Every iteration of the base station does one of the four.
LEMMA BsMoves ==
    ASSUME TypeInv, IInv, BsStart \/ BsQuit \/ BsIterate
    PROVE  /\ dr' = dr /\ sessions' = sessions
           /\ BsKeeps \/ BsLeaves \/ BsOffers \/ BsAdopts
<1> USE DEF TypeInv, TypeOK
<1>p. ASSUME NEW q \in Polled(bs, FromDr)
      PROVE  /\ q \in Process(BsKepStates)
             /\ q.sys = bs.sys /\ q.kep = bs.kep /\ q.seq = bs.seq /\ q.exp = bs.exp
             /\ q.key = bs.key /\ q.cached = bs.cached
  BY PolledFacts
<1>s. UNCHANGED <<net, offers>> => Spoilt' = Spoilt
  BY SpoiltFrame
<1>1. CASE BsIdle
  BY <1>1, <1>s DEF BsIdle, vars, BsKeeps, Offering
<1>2. CASE BsQuit
  <2>1. bs'.sys = "ClearSession"
    BY <1>2 DEF BsQuit, Process
  <2>2. QED
    BY <1>2, <1>s, <2>1 DEF BsQuit, BsLeaves, Offering
<1>3. CASE BsStart
  <2>1. bs'.sys = "KEP" /\ bs'.kep = "KEP_idle"
    BY <1>3 DEF BsStart, Process, IInv, BsProgressOK
  <2>2. QED
    BY <1>3, <1>s, <2>1 DEF BsStart, BsLeaves, Offering
<1>4. CASE BsClearSession
  <2>1. bs'.sys = "Idle"
    BY <1>4 DEF BsClearSession, init_KEP_ctx, Process
  <2>2. QED
    BY <1>4, <1>s, <2>1 DEF BsClearSession, BsLeaves, Offering
<1>5. CASE BsKEP_idle
  <2>1. bs'.sys = "KEP" /\ bs'.kep = "KEP1_compute"
    BY <1>5, <1>p DEF BsKEP_idle, init_KEP_ctx, Process, InKep
  <2>2. QED
    BY <1>5, <1>s, <2>1 DEF BsKEP_idle, BsLeaves, Offering
<1>6. CASE BsKEP1_compute
  <2>1. bs'.sys = "KEP" /\ bs'.kep = "KEP1_send"
    BY <1>6, <1>p DEF BsKEP1_compute, Process, InKep
  <2>2. QED
    BY <1>6, <1>s, <2>1 DEF BsKEP1_compute, BsLeaves, Offering
<1>7. ASSUME NEW st, NEW wait, BsSend(st, wait),
             \/ st = "KEP1_send" /\ wait = "KEP1_wait"
             \/ st = "KEP3_send" /\ wait = "KEP3_wait"
      PROVE  dr' = dr /\ sessions' = sessions /\ (BsKeeps \/ BsLeaves)
  <2>0. UNCHANGED <<dr, offers, sessions>> /\ bs.sys = "KEP" /\ bs.kep = st
    BY <1>7 DEF BsSend, InKep
  <2>1. PICK q \in Polled(bs, FromDr) :
          \/ transmit(q.cached) /\ bs' = [Transmitted(q) EXCEPT !.kep = wait]
          \/ UNCHANGED net /\ bs' = GiveUp(q)
    BY <1>7 DEF BsSend
  <2>2. \/ /\ bs'.sys = "KEP" /\ bs'.kep = wait
           /\ bs'.seq = bs.seq /\ bs'.key = bs.key
           /\ transmit(bs.cached)
        \/ bs'.sys = "ClearSession" /\ UNCHANGED net
    BY <2>0, <2>1, <1>p DEF Transmitted, GiveUp, Process
  <2>3. CASE bs'.sys = "ClearSession" /\ UNCHANGED net
    BY <1>s, <2>0, <2>3 DEF BsLeaves, Offering
  <2>4. CASE transmit(bs.cached) /\ bs'.sys = "KEP"
    <3>1. PICK x \in Messages :
            /\ net' = net \cup {x}
            /\ x.type = bs.cached.type
            /\ (x.key = bs.cached.key \/ x.key = NoKey)
      BY <2>4, TransmitFacts DEF Process
    <3>2. CASE st = "KEP1_send"
      <4>1. bs.cached.type # "KEP3"
        BY <2>0, <3>2 DEF IInv, BsProgressOK, BsDrawn
      <4>2. Spoilt' = Spoilt
        BY <2>0, <3>1, <4>1, SpoiltFrame
      <4>3. QED
        BY <1>7, <2>0, <2>2, <2>4, <3>2, <4>2 DEF BsKeeps, Offering
    <3>3. CASE st = "KEP3_send"
      <4>1. Offering /\ bs.cached.key = bs.key
        BY <2>0, <3>3 DEF IInv, BsProgressOK, Offering, KEP3, Message
      <4>2. ~KeyOffered(NoKey)
        BY DEF IInv, OffersOK, KeyOffered, NoKey
      <4>3. Spoilt' = Spoilt \/ Spoilt' = Spoilt \cup {bs.key}
        BY <2>0, <3>1, <4>1, <4>2, SpoiltByKEP3
      <4>4. QED
        BY <1>7, <2>0, <2>2, <2>4, <3>3, <4>1, <4>3 DEF BsKeeps, Offering
    <3>4. QED
      BY <1>7, <3>2, <3>3
  <2>5. QED
    BY <2>0, <2>2, <2>3, <2>4
<1>8. ASSUME NEW st, NEW tp, NEW send, NEW ver, BsWait(st, tp, send, ver),
             \/ st = "KEP1_wait" /\ send = "KEP1_send" /\ ver = "KEP3_verify"
             \/ st = "KEP3_wait" /\ send = "KEP3_send" /\ ver = "KEP5_verify"
      PROVE  dr' = dr /\ sessions' = sessions /\ BsKeeps
  <2>0. UNCHANGED <<dr, net, offers, sessions>> /\ bs.sys = "KEP" /\ bs.kep = st
    BY <1>8 DEF BsWait, InKep
  <2>1. PICK q \in Polled(bs, FromDr) :
          \/ bs' = [q EXCEPT !.kep = ver]
          \/ bs' = [q EXCEPT !.kep = send, !.status = "Message_used"]
          \/ bs' = q
    BY <1>8 DEF BsWait
  <2>2. /\ bs'.sys = "KEP" /\ bs'.kep \in {ver, send, st}
        /\ bs'.seq = bs.seq /\ bs'.key = bs.key
    BY <2>0, <2>1, <1>p DEF Process
  <2>3. QED
    BY <1>8, <1>s, <2>0, <2>2 DEF BsKeeps, Offering
<1>9. ASSUME NEW st, NEW send, BsTimeout(st, send),
             \/ st = "KEP1_wait" /\ send = "KEP1_send"
             \/ st = "KEP3_wait" /\ send = "KEP3_send"
      PROVE  dr' = dr /\ sessions' = sessions /\ BsKeeps
  <2>0. UNCHANGED <<dr, net, offers, sessions>> /\ bs.sys = "KEP" /\ bs.kep = st
    BY <1>9 DEF BsTimeout, InKep
  <2>1. PICK q \in Polled(bs, FromDr) : bs' = [q EXCEPT !.kep = send]
    BY <1>9 DEF BsTimeout
  <2>2. bs'.sys = "KEP" /\ bs'.kep = send /\ bs'.seq = bs.seq /\ bs'.key = bs.key
    BY <2>0, <2>1, <1>p DEF Process
  <2>3. QED
    BY <1>9, <1>s, <2>0, <2>2 DEF BsKeeps, Offering
<1>10. CASE BsKEP3_verify
  <2>0. UNCHANGED <<dr, net, offers, sessions>> /\ bs.sys = "KEP" /\ bs.kep = "KEP3_verify"
    BY <1>10 DEF BsKEP3_verify, InKep
  <2>1. PICK q \in Polled(bs, FromDr) : \E k :
          \/ bs' = [[q EXCEPT !.status = "Message_used", !.key = k] EXCEPT
                      !.kep = "KEP3_compute", !.active = TRUE,
                      !.ntx = 0, !.exp = addMultSeqNb(q.msg.seq, 1)]
          \/ bs' = [[q EXCEPT !.status = "Message_used", !.key = k] EXCEPT
                      !.kep = "KEP1_send"]
    BY <1>10 DEF BsKEP3_verify
  <2>2. bs'.sys = "KEP" /\ bs'.kep \in {"KEP3_compute", "KEP1_send"}
    BY <2>0, <2>1, <1>p DEF Process
  <2>3. QED
    BY <1>s, <2>0, <2>2 DEF BsLeaves, Offering
\* The point was drawn for this run and is used for the first time.
<1>11. CASE BsKEP3_compute
  <2>0. /\ UNCHANGED <<dr, net, sessions>> /\ offers' = offers \cup {BsOffer'}
        /\ bs.sys = "KEP" /\ bs.kep = "KEP3_compute"
    BY <1>11 DEF BsKEP3_compute, InKep
  <2>1. PICK q \in Polled(bs, FromDr) :
          bs' = [q EXCEPT !.kep = "KEP3_send", !.seq = addOneSeqNb(q.seq),
                          !.cached = KEP3(addOneSeqNb(q.seq), q.key)]
    BY <1>11 DEF BsKEP3_compute
  <2>2. bs'.key = bs.key /\ bs'.sys = "KEP" /\ bs'.kep = "KEP3_send"
    BY <2>0, <2>1, <1>p DEF Process
  <2>3. bs.key[1] = bs.point /\ \A o \in offers : o.key[1] # bs.point
    BY <2>0 DEF IInv, BsProgressOK, BsDrawn, InKep
  <2>4. BsOffer'.key = bs.key /\ bs.key # NoKey
    BY <2>0, <2>2, <2>3 DEF IInv, BsProgressOK, BsDrawn, InKep, BsOffer, NoKey
  <2>5. Spoilt' = Spoilt
    BY <2>0, <2>3, <2>4, NotSpoiltByOffer DEF IInv
  <2>6. QED
    BY <2>0, <2>2, <2>3, <2>5 DEF BsOffers, Offering
<1>12. CASE BsKEP5_verify
  <2>0. UNCHANGED <<dr, net, offers, sessions>> /\ bs.sys = "KEP" /\ bs.kep = "KEP5_verify"
    BY <1>12 DEF BsKEP5_verify, InKep
  <2>1. PICK q \in Polled(bs, FromDr) :
          \/ bs' = [[q EXCEPT !.status = "Message_used"] EXCEPT
                      !.kep = "Done", !.sys = "SessionReady",
                      !.exp = addMultSeqNb(q.msg.seq, 1)]
          \/ bs' = [[q EXCEPT !.status = "Message_used"] EXCEPT !.kep = "KEP3_send"]
    BY <1>12 DEF BsKEP5_verify
  <2>2. /\ bs'.key = bs.key /\ bs'.seq = bs.seq
        /\ \/ bs'.sys = "SessionReady"
           \/ bs'.sys = "KEP" /\ bs'.kep = "KEP3_send"
    BY <2>0, <2>1, <1>p DEF Process
  <2>3. QED
    BY <1>s, <2>0, <2>2 DEF BsKeeps, BsAdopts, Offering
<1>13. CASE BsSessionReady
  <2>0. UNCHANGED <<dr, offers, sessions>> /\ bs.sys = "SessionReady"
        /\ net' = net \cup {MESS("BS_MESS", addOneSeqNb(bs.seq))}
    BY <1>13 DEF BsSessionReady
  <2>1. /\ bs'.key = bs.key /\ bs'.seq = bs.seq /\ bs'.exp = bs.exp
        /\ bs'.sys = "SessionReady"
    BY <1>13, <1>p, HandledFacts DEF BsSessionReady
  <2>2. Spoilt' = Spoilt
    BY <2>0, SpoiltFrame DEF MESS, Message
  <2>3. QED
    BY <2>0, <2>1, <2>2 DEF BsKeeps, Offering
<1>14. QED
  BY <1>1, <1>2, <1>3, <1>4, <1>5, <1>6, <1>7, <1>8, <1>9, <1>10, <1>11, <1>12, <1>13
  DEF BsIterate, BsTimeouts, BsKEP1_send, BsKEP3_send, BsKEP1_wait, BsKEP3_wait

\* The same for the drone: it keeps its session, leaves it or enters one.
DrKeeps ==
    /\ sessions' = sessions
    /\ dr'.sys = "SessionReady" <=> dr.sys = "SessionReady"
    /\ dr.sys = "SessionReady" =>
         dr'.key = dr.key /\ dr'.seq = dr.seq /\ dr'.exp = dr.exp

DrLeaves == sessions' = sessions /\ dr'.sys # "SessionReady"

DrEnters ==
    /\ dr.sys # "SessionReady" /\ dr'.sys = "SessionReady"
    /\ \E o \in offers : /\ o.key = dr'.key
                         /\ o.key \notin Spoilt => dr'.exp = o.toDrone
    /\ \A t \in sessions : t.key[1] # dr'.key[1] /\ t.key[2] # dr'.key[2]
    /\ sessions' = sessions \cup {DrSession'}

LEMMA DrMoves ==
    ASSUME TypeInv, IInv, DrStart \/ DrQuit \/ DrIterate
    PROVE  /\ bs' = bs /\ offers' = offers /\ Spoilt' = Spoilt
           /\ DrKeeps \/ DrLeaves \/ DrEnters
<1> USE DEF TypeInv, TypeOK
<1>p. ASSUME NEW q \in Polled(dr, FromBs)
      PROVE  /\ q \in Process(DrKepStates)
             /\ q.sys = dr.sys /\ q.kep = dr.kep /\ q.seq = dr.seq /\ q.exp = dr.exp
             /\ q.key = dr.key /\ q.cached = dr.cached
  BY PolledFacts
<1>s. UNCHANGED <<net, offers>> => Spoilt' = Spoilt
  BY SpoiltFrame
<1>t. ASSUME transmit(dr.cached), dr.cached.type # "KEP3", UNCHANGED offers
      PROVE  Spoilt' = Spoilt
  <2>1. PICK x \in Messages : net' = net \cup {x} /\ x.type = dr.cached.type
    BY <1>t, TransmitFacts DEF Process
  <2>2. QED
    BY <1>t, <2>1, SpoiltFrame
<1>1. CASE DrIdle
  BY <1>1, <1>s DEF DrIdle, vars, DrKeeps
<1>2. CASE DrQuit \/ DrStart \/ DrClearSession
  <2>1. bs' = bs /\ offers' = offers /\ sessions' = sessions /\ Spoilt' = Spoilt
    BY <1>2, <1>s DEF DrQuit, DrStart, DrClearSession
  <2>2. dr'.sys # "SessionReady"
    BY <1>2 DEF DrQuit, DrStart, DrClearSession, init_KEP_ctx, Process
  <2>3. QED
    BY <2>1, <2>2 DEF DrLeaves
<1>3. CASE DrKEP_idle \/ DrKEP2_precompute
  <2>1. bs' = bs /\ offers' = offers /\ sessions' = sessions /\ Spoilt' = Spoilt
    BY <1>3, <1>s DEF DrKEP_idle, DrKEP2_precompute
  <2>2. dr'.sys # "SessionReady"
    BY <1>3, <1>p, ZenonT(60) DEF DrKEP_idle, DrKEP2_precompute, init_KEP_ctx, Process, InKep
  <2>3. QED
    BY <2>1, <2>2 DEF DrLeaves
<1>4. CASE DrKEP2_wait_request \/ DrKEP2_wait \/ DrTimeout
  <2>1. /\ bs' = bs /\ offers' = offers /\ sessions' = sessions /\ dr.sys = "KEP"
        /\ Spoilt' = Spoilt
    BY <1>4, <1>s DEF DrKEP2_wait_request, DrKEP2_wait, DrTimeout, InKep
  <2>2. PICK q \in Polled(dr, FromBs) : \E k, s :
          \/ dr' = [q EXCEPT !.kep = k]
          \/ dr' = [q EXCEPT !.status = s]
          \/ dr' = [q EXCEPT !.kep = k, !.status = s]
          \/ dr' = q
    BY <1>4 DEF DrKEP2_wait_request, DrKEP2_wait, DrTimeout
  <2>3. dr'.sys = "KEP"
    BY <2>1, <2>2, <1>p DEF Process
  <2>4. QED
    BY <2>1, <2>3 DEF DrLeaves
<1>5. CASE DrKEP2_compute
  <2>1. /\ bs' = bs /\ offers' = offers /\ sessions' = sessions /\ dr.sys = "KEP"
        /\ Spoilt' = Spoilt
    BY <1>5, <1>s DEF DrKEP2_compute, InKep
  <2>2. PICK q \in Polled(dr, FromBs) :
          LET key   == <<q.msg.point, q.point>>
              seqNb == IF q.active THEN q.seq ELSE addOneSeqNb(q.seq)
          IN  \/ dr' = [q EXCEPT !.kep = "KEP2_send", !.status = "Message_used",
                                 !.exp = addMultSeqNb(q.msg.seq, 1),
                                 !.key = key, !.seq = seqNb, !.active = TRUE,
                                 !.cached = KEP2(seqNb, q.point, key)]
              \/ dr' = [q EXCEPT !.sys = "Crashed"]
    BY <1>5 DEF DrKEP2_compute
  <2>3. dr'.sys # "SessionReady"
    <3>1. q \in Process(DrKepStates) /\ q.sys = "KEP"
      BY <2>1, <1>p
    <3>2. PICK k, n, m, e :
            \/ dr' = [q EXCEPT !.kep = "KEP2_send", !.status = "Message_used",
                               !.exp = e, !.key = k, !.seq = n, !.active = TRUE,
                               !.cached = m]
            \/ dr' = [q EXCEPT !.sys = "Crashed"]
      BY <2>2, Zenon
    <3>3. QED
      BY <3>1, <3>2 DEF Process
  <2>4. QED
    BY <2>1, <2>3 DEF DrLeaves
<1>6. CASE DrKEP2_send
  <2>1. /\ bs' = bs /\ offers' = offers /\ dr.sys = "KEP" /\ dr.kep = "KEP2_send"
        /\ UNCHANGED net \/ transmit(dr.cached)
    BY <1>6, <1>p DEF DrKEP2_send, DrSend, InKep
  <2>2. PICK q \in Polled(dr, FromBs) :
          \/ dr' = [Transmitted(q) EXCEPT !.kep = "KEP2_wait", !.sys = "KEP"]
          \/ dr' = GiveUp(q)
    BY <1>6 DEF DrKEP2_send, DrSend
  <2>3. dr'.sys # "SessionReady"
    BY <2>1, <2>2, <1>p DEF Transmitted, GiveUp, Process
  <2>4. sessions' = sessions
    BY <1>6, <2>3 DEF DrKEP2_send, DrSend
  <2>5. Spoilt' = Spoilt
    BY <2>1, <1>s, <1>t DEF IInv, DrMessagesOK
  <2>6. QED
    BY <2>1, <2>3, <2>4, <2>5 DEF DrLeaves
<1>7. CASE DrKEP4_verify \/ DrKEP4_compute
  <2>1. /\ bs' = bs /\ offers' = offers /\ sessions' = sessions /\ dr.sys = "KEP"
        /\ Spoilt' = Spoilt
    BY <1>7, <1>s DEF DrKEP4_verify, DrKEP4_compute, InKep
  <2>2. PICK q \in Polled(dr, FromBs) : \E n, m, e :
          \/ dr' = [[q EXCEPT !.status = "Message_used"] EXCEPT
                      !.kep = "KEP4_compute", !.ntx = 0, !.exp = e]
          \/ dr' = [[q EXCEPT !.status = "Message_used"] EXCEPT !.kep = "KEP2_send"]
          \/ dr' = [q EXCEPT !.kep = "KEP4_send", !.seq = n, !.cached = m]
    BY <1>7 DEF DrKEP4_verify, DrKEP4_compute
  <2>3. dr'.sys = "KEP"
    BY <2>1, <2>2, <1>p DEF Process
  <2>4. QED
    BY <2>1, <2>3 DEF DrLeaves
\* The drone's point is fresh; that the base station's is fresh too follows,
\* because no two offers share it.
<1>8. CASE DrKEP4_send
  <2>1. /\ bs' = bs /\ offers' = offers /\ dr.sys = "KEP" /\ dr.kep = "KEP4_send"
        /\ UNCHANGED net \/ transmit(dr.cached)
    BY <1>8, <1>p DEF DrKEP4_send, DrSend, InKep
  <2>2. PICK q \in Polled(dr, FromBs) :
          \/ dr' = [Transmitted(q) EXCEPT !.kep = "Done", !.sys = "SessionReady"]
          \/ dr' = GiveUp(q)
    BY <1>8 DEF DrKEP4_send, DrSend
  <2>3. /\ dr'.key = dr.key /\ dr'.exp = dr.exp
        /\ dr'.sys \in {"SessionReady", "ClearSession"}
    BY <2>1, <2>2, <1>p DEF Transmitted, GiveUp, Process
  <2>4. sessions' = sessions \cup (IF dr'.sys = "SessionReady" THEN {DrSession'} ELSE {})
    BY <1>8 DEF DrKEP4_send, DrSend
  <2>5. /\ dr.key[2] = dr.point
        /\ \A t \in sessions : t.key[2] # dr.point
        /\ KeyOffered(dr.key) /\ Announced(dr.key, dr.exp)
    BY <2>1 DEF IInv, DrProgressOK, InKep, DrDrawn, DrKeyed
  <2>6. \A t \in sessions : t.key[1] # dr.key[1]
    <3>1. SUFFICES ASSUME NEW t \in sessions, t.key[1] = dr.key[1]
                   PROVE  t.key = dr.key
      BY <2>5
    <3>2. KeyOffered(t.key)
      BY DEF IInv, SessionsOK
    <3>3. QED
      BY <2>5, <3>1, <3>2 DEF IInv, OffersOK, KeyOffered
  <2>7. PICK o \in offers : o.key = dr.key
    BY <2>5 DEF KeyOffered
  <2>8. o.key \notin Spoilt => dr.exp = o.toDrone
    <3>1. o.key \notin Spoilt => NumberKept(dr.key)
      BY <2>7 DEF Spoilt
    <3>2. QED
      BY <2>5, <2>7, <3>1, NumberKeptFacts DEF IInv
  <2>9. Spoilt' = Spoilt
    BY <2>1, <1>s, <1>t DEF IInv, DrMessagesOK, InKep
  <2>10. QED
    BY <2>1, <2>3, <2>4, <2>5, <2>6, <2>7, <2>8, <2>9 DEF DrEnters, DrLeaves
<1>9. CASE DrSessionReady
  <2>1. /\ bs' = bs /\ offers' = offers /\ sessions' = sessions
        /\ dr.sys = "SessionReady"
    BY <1>9 DEF DrSessionReady
  <2>2. PICK q \in Polled(dr, FromBs) :
          LET u == [q EXCEPT !.status = "Message_used"]
          IN  \/ /\ dr' \in Handled(q)
                 /\ net' = net \cup {MESS("DR_MESS", addOneSeqNb(dr.seq))}
              \/ transmit(u.cached) /\ dr' = Transmitted(u)
              \/ UNCHANGED net /\ dr' = GiveUp(u)
    BY <1>9 DEF DrSessionReady
  <2>3. CASE /\ dr' \in Handled(q)
             /\ net' = net \cup {MESS("DR_MESS", addOneSeqNb(dr.seq))}
    <3>1. /\ dr'.key = dr.key /\ dr'.seq = dr.seq /\ dr'.exp = dr.exp
          /\ dr'.sys = "SessionReady"
      BY <2>1, <2>3, <1>p, HandledFacts
    <3>2. Spoilt' = Spoilt
      BY <2>1, <2>3, SpoiltFrame DEF MESS, Message
    <3>3. QED
      BY <2>1, <3>1, <3>2 DEF DrKeeps
  <2>4. CASE ~(/\ dr' \in Handled(q)
               /\ net' = net \cup {MESS("DR_MESS", addOneSeqNb(dr.seq))})
    <3>1. /\ dr'.key = dr.key /\ dr'.seq = dr.seq /\ dr'.exp = dr.exp
          /\ dr'.sys \in {"SessionReady", "ClearSession"}
          /\ UNCHANGED net \/ transmit(dr.cached)
      BY <2>1, <2>2, <2>4, <1>p DEF Transmitted, GiveUp, Process
    <3>2. Spoilt' = Spoilt
      BY <2>1, <3>1, <1>s, <1>t DEF IInv, DrMessagesOK
    <3>3. QED
      BY <2>1, <3>1, <3>2 DEF DrKeeps, DrLeaves
  <2>5. QED
    BY <2>3, <2>4
<1>10. QED
  BY <1>1, <1>2, <1>3, <1>4, <1>5, <1>6, <1>7, <1>8, <1>9 DEF DrIterate

\* The four messages of key establishment, with all their retransmissions and
\* whatever the network does to them, implement SessionAgreement: the base
\* station offers a session under a point it never used, the drone enters an
\* offered session under points no session used, and the base station adopts
\* the session it is offering, after the drone has entered it; the drone starts
\* at the number offered unless a KEP3 was transmitted with another one.
THEOREM Implementation == Spec => ImplementsAgreement
<1>1. Init => Agreement!Init
  <2>1. \A s \in InitSeqNbs : Powered(s).sys = "Idle"
    BY DEF Powered
  <2>2. QED
    BY <2>1 DEF Init, Agreement!Init, Offering
<1>2. ASSUME TypeInv, IInv, TypeInv', IInv', [Next]_vars
      PROVE  Agreement!Next \/ UNCHANGED Agreement!vars
  <2>1. CASE UNCHANGED vars
    <3>1. Spoilt' = Spoilt
      BY <2>1, SpoiltFrame DEF vars
    <3>2. QED
      BY <2>1, <3>1 DEF Spoilt, vars, Agreement!vars, Offering, BsOffer, BsSession, DrSession
  <2>2. CASE BsStart \/ BsQuit \/ BsIterate
    <3>1. dr' = dr /\ sessions' = sessions
      BY <1>2, <2>2, BsMoves
    <3>2. CASE BsKeeps
      <4>1. CASE Spoilt' = Spoilt
        BY <3>1, <3>2, <4>1
        DEF BsKeeps, Agreement!vars, Spoilt, BsOffer, BsSession, DrSession
      <4>2. CASE Offering /\ Spoilt' = Spoilt \cup {bs.key}
        <5>1. BsOffer \in offers /\ BsOffer.key = bs.key
          BY <1>2, <4>2 DEF IInv, BsProgressOK, BsOffer
        <5>2. Agreement!Spoil(BsOffer)
          BY <3>1, <3>2, <4>2, <5>1
          DEF BsKeeps, Agreement!Spoil, Spoilt, BsOffer, BsSession, DrSession
        <5>3. \E o \in offers : Agreement!Spoil(o)
          BY <5>1, <5>2 DEF Agreement!Spoil, BsOffer
        <5>4. QED
          BY <5>3 DEF Agreement!Next
      <4>3. QED
        BY <3>2, <4>1, <4>2 DEF BsKeeps
    <3>3. CASE BsLeaves
      <4>1. Agreement!BaseLeaves
        BY <3>1, <3>3 DEF BsLeaves, Agreement!BaseLeaves, Spoilt, DrSession
      <4>2. QED
        BY <4>1 DEF Agreement!Next
    <3>4. CASE BsOffers
      <4>1. bs'.key \in Keys /\ addOneSeqNb(bs'.seq) \in SeqNbs
        BY <1>2, AddOneIsLive DEF TypeInv, TypeOK, Process, SeqNbs, LiveSeqNbs
      <4>2. Agreement!Offer(BsOffer')
        BY <3>1, <3>4, <4>1 DEF BsOffers, Agreement!Offer, Spoilt, BsOffer, DrSession
      <4>3. QED
        BY <3>4, <4>2 DEF Agreement!Next, BsOffers
    <3>5. CASE BsAdopts
      <4>1. PICK s \in sessions : s.key = bs.key /\ s.toBase = bs'.exp
        BY <1>2, <3>1, <3>5 DEF BsAdopts, IInv, BsProgressOK
      <4>2. /\ BsOffer \in offers /\ BsOffer.key = bs.key
            /\ BsOffer.toDrone = addOneSeqNb(bs.seq)
        BY <1>2, <3>5 DEF BsAdopts, IInv, BsProgressOK, BsOffer
      <4>3. s.key \notin Spoilt => s.toDrone = BsOffer.toDrone
        <5>1. s.key \notin Spoilt => NumberKept(s.key)
          BY <4>1, <4>2 DEF Spoilt
        <5>2. QED
          BY <1>2, <4>1, <4>2, <5>1, NumberKeptFacts DEF IInv, SessionsOK
      <4>4. s \in Sessions
        BY <1>2 DEF TypeInv, TypeOK
      <4>5. BsSession' = [s EXCEPT !.toDrone = BsOffer.toDrone]
        BY <3>5, <4>1, <4>2, <4>4 DEF BsAdopts, BsSession, Sessions
      <4>6. s.toDrone \in Agreement!Starts(BsOffer)
        BY <4>1, <4>2, <4>3, <4>4 DEF Agreement!Starts, Spoilt, Sessions
      <4>7. Agreement!Adopt(BsOffer, s)
        BY <3>1, <3>5, <4>1, <4>2, <4>5, <4>6
        DEF BsAdopts, Agreement!Adopt, Spoilt, DrSession
      <4>8. QED
        BY <4>1, <4>2, <4>7 DEF Agreement!Next
    <3>6. QED
      BY <1>2, <2>2, <3>2, <3>3, <3>4, <3>5, BsMoves
  <2>3. CASE DrStart \/ DrQuit \/ DrIterate
    <3>1. bs' = bs /\ offers' = offers /\ Spoilt' = Spoilt
      BY <1>2, <2>3, DrMoves
    <3>2. CASE DrKeeps
      BY <3>1, <3>2
      DEF DrKeeps, Agreement!vars, Spoilt, Offering, BsOffer, BsSession, DrSession
    <3>3. CASE DrLeaves
      <4>1. Agreement!DroneLeaves
        BY <3>1, <3>3
        DEF DrLeaves, Agreement!DroneLeaves, Spoilt, Offering, BsOffer, BsSession
      <4>2. QED
        BY <4>1 DEF Agreement!Next
    <3>4. CASE DrEnters
      <4>1. addOneSeqNb(dr'.seq) \in SeqNbs /\ dr'.exp \in SeqNbs
        BY <1>2, AddOneIsLive DEF TypeInv, TypeOK, Process, SeqNbs, LiveSeqNbs
      <4>2. PICK o \in offers : o.key = dr'.key /\ (o.key \notin Spoilt => dr'.exp = o.toDrone)
        BY <3>4 DEF DrEnters
      <4>3. dr'.exp \in Agreement!Starts(o)
        BY <4>1, <4>2 DEF Agreement!Starts, Spoilt
      <4>4. Agreement!Enter(o, dr'.exp, addOneSeqNb(dr'.seq))
        BY <3>1, <3>4, <4>2
        DEF DrEnters, Agreement!Enter, Spoilt, DrSession, Offering, BsOffer, BsSession
      <4>5. QED
        BY <4>1, <4>2, <4>3, <4>4 DEF Agreement!Next
    <3>5. QED
      BY <1>2, <2>3, <3>2, <3>3, <3>4, DrMoves
  <2>4. QED
    BY <1>2, <2>1, <2>2, <2>3 DEF Next
<1>3. QED
  BY <1>1, <1>2, Inductive, PTL DEF Spec, ImplementsAgreement, Agreement!Spec
=============================================================================
