------------------------ MODULE KeyEstablishmentInv ------------------------
(***************************************************************************)
(* The inductive invariant behind the agreement of KeyEstablishment.  The  *)
(* agreement itself is not inductive: that the base station may trust a    *)
(* KEP4 depends on what is on the network and in the drone's cache, and on *)
(* no point being drawn twice.                                             *)
(***************************************************************************)
EXTENDS KeyEstablishment

\* A process that is about to draw a point has not used up its runs; this is
\* what makes the type invariant inductive.
RunsOK ==
    /\ bs.sys = "KEP" /\ bs.kep \in {"KEP_idle", "KEP1_compute"} => bsRuns < MaxRuns
    /\ dr.sys = "KEP" /\ dr.kep \in {"KEP_idle", "KEP2_precompute"} => drRuns < MaxRuns

TypeInv == TypeOK /\ RunsOK

Offered(key, seqNb) == [key |-> key, toDrone |-> addOneSeqNb(seqNb)] \in offers

KeyOffered(key) == \E o \in offers : o.key = key

\* A KEP3 under this key announced this number, whoever gave it that number.
Announced(key, toDrone) ==
    \E m \in net : m.type = "KEP3" /\ m.key = key /\ addOneSeqNb(m.seq) = toDrone

\* States in which the base station has drawn a point and not yet used it.
BsDrawn == bs.sys = "KEP" /\ bs.kep \in {"KEP1_send", "KEP1_wait", "KEP3_verify", "KEP3_compute"}

\* States in which the drone has drawn a point and entered no session with it.
DrDrawn == dr.sys = "KEP" /\ dr.kep \notin {"KEP_idle", "KEP2_precompute", "Done"}

\* States in which the drone's key is made from its current point.
DrKeyed == dr.sys = "KEP" /\ dr.kep \in {"KEP2_send", "KEP2_wait", "KEP4_verify",
                                         "KEP4_compute", "KEP4_send"}

\* An offer uses a point the base station drew, and no two offers the same.
OffersOK ==
    /\ \A o \in offers : o.key[1] \in 1 .. bsRuns
    /\ \A o, p \in offers : o.key[1] = p.key[1] => o = p

\* A session was offered, its number announced, and its point drawn by the drone.
SessionsOK ==
    \A s \in sessions :
        /\ KeyOffered(s.key) /\ Announced(s.key, s.toDrone)
        /\ s.key[2] \in 1 .. drRuns

\* A KEP3 with an intact MAC belongs to an offer, such a KEP4 to a session.
NetOK ==
    \A m \in net : m.key # NoKey =>
        /\ m.type = "KEP3" => KeyOffered(m.key)
        /\ m.type = "KEP4" =>
             \E s \in sessions : s.key = m.key /\ s.toBase = addOneSeqNb(m.seq)

\* What the base station may put on the network, and what it read from it.
BsMessagesOK ==
    /\ bs.cached.type \in {"none", "KEP1", "KEP3"}
    /\ bs.cached.type = "KEP3" => Offered(bs.cached.key, bs.cached.seq)
    /\ Pending(bs) => bs.msg \in net
    /\ InKep(bs, "KEP5_verify") => Pending(bs) /\ bs.msg.type = "KEP4"

\* Where the base station is between drawing a point and using it.
BsProgressOK ==
    /\ bs.sys = "Idle" => bs.kep = "KEP_idle"
    /\ BsDrawn => /\ bs.point \in 1 .. bsRuns
                  /\ \A o \in offers : o.key[1] # bs.point
    /\ InKep(bs, "KEP3_compute") => bs.key[1] = bs.point
    /\ BsDrawn => bs.cached.type # "KEP3"
    /\ Offering => BsOffer \in offers /\ bs.cached = KEP3(bs.seq, bs.key)
    /\ bs.sys = "SessionReady" =>
          /\ BsOffer \in offers
          /\ \E s \in sessions : s.key = bs.key /\ s.toBase = bs.exp

\* What the drone may put on the network, and what it read from it.
DrMessagesOK ==
    /\ Pending(dr) => dr.msg \in net
    /\ InKep(dr, "KEP4_verify") => Pending(dr) /\ dr.msg.type = "KEP3"
    /\ dr.cached.type \in {"none", "KEP2", "KEP4"}
    /\ dr.sys = "KEP" /\ dr.kep \in {"KEP2_send", "KEP2_wait", "KEP4_verify"} =>
          dr.cached.type = "KEP2"
    /\ InKep(dr, "KEP4_send") \/ dr.sys = "SessionReady" =>
          dr.cached.type = "KEP4" /\ dr.cached.key = dr.key /\ dr.cached.seq = dr.seq

\* Where the drone is between drawing a point and using it.
DrProgressOK ==
    /\ dr.sys = "Idle" => dr.kep = "KEP_idle"
    /\ DrDrawn => /\ dr.point \in 1 .. drRuns
                  /\ \A s \in sessions : s.key[2] # dr.point
    /\ DrKeyed => dr.key[2] = dr.point
    /\ InKep(dr, "KEP4_compute") \/ InKep(dr, "KEP4_send") =>
          KeyOffered(dr.key) /\ Announced(dr.key, dr.exp)
    /\ dr.sys = "SessionReady" => dr.kep = "Done" /\ DrSession \in sessions

\* The inductive invariant: whatever the network does, these relations between
\* the two processes, their caches and the messages on their way persist.
IInv ==
    /\ OffersOK /\ SessionsOK /\ NetOK
    /\ BsMessagesOK /\ BsProgressOK
    /\ DrMessagesOK /\ DrProgressOK
    /\ OneSessionPerPoint
=============================================================================
