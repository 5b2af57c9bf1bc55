---------------------------- MODULE SeqNbProofs ----------------------------
(***************************************************************************)
(* What the sequence-number arithmetic of enc_dec.c guarantees, for every  *)
(* width.  All of it is linear arithmetic over the cases "no wrap" and     *)
(* "wrap".                                                                 *)
(***************************************************************************)
EXTENDS SeqNb, TLAPS

\* addOneSeqNb (the sender's increment) never yields 0, the number a receiver
\* rejects, and never leaves the width, even from a random start value of 0.
THEOREM AddOneIsLive ==
    ASSUME NEW s \in SeqNbs
    PROVE  addOneSeqNb(s) \in LiveSeqNbs
BY SeqNbAssumption DEF addOneSeqNb, SeqNbs, LiveSeqNbs

\* The sender's addOneSeqNb and the receiver's addMultSeqNb(_, 1) take the
\* same step, so the next number sent is the number expected.
THEOREM AddOneIsAddMult ==
    ASSUME NEW s \in SeqNbs
    PROVE  addMultSeqNb(s, 1) = addOneSeqNb(s)
BY SeqNbAssumption DEF addOneSeqNb, addMultSeqNb, Plus, SeqNbs

\* Adding several numbers to a live number gives a live number.
THEOREM AddMultIsLive ==
    ASSUME NEW s \in LiveSeqNbs, NEW n \in SeqNbs
    PROVE  addMultSeqNb(s, n) \in LiveSeqNbs
BY SeqNbAssumption DEF addMultSeqNb, Plus, SeqNbs, LiveSeqNbs

\* Adding in two portions is adding the sum, as long as the sum has the width
\* of the counter: the skipped 0 is never counted twice.
THEOREM AddMultComposes ==
    ASSUME NEW s \in LiveSeqNbs, NEW m \in Nat, NEW n \in Nat,
           m + n <= MaxSeqNb
    PROVE  addMultSeqNb(addMultSeqNb(s, m), n) = addMultSeqNb(s, m + n)
BY SeqNbAssumption DEF addMultSeqNb, Plus, LiveSeqNbs

\* diffSeqNb undoes addMultSeqNb, for every distance short of a full cycle.
THEOREM DiffOfAddMult ==
    ASSUME NEW s \in LiveSeqNbs, NEW n \in 0 .. (MaxSeqNb - 1)
    PROVE  diffSeqNb(s, addMultSeqNb(s, n)) = n
BY SeqNbAssumption DEF addMultSeqNb, diffSeqNb, Plus, Minus, LiveSeqNbs

\* addMultSeqNb undoes diffSeqNb: the distance is exact.
THEOREM AddMultOfDiff ==
    ASSUME NEW s \in LiveSeqNbs, NEW t \in LiveSeqNbs
    PROVE  /\ diffSeqNb(s, t) \in 0 .. (MaxSeqNb - 1)
           /\ addMultSeqNb(s, diffSeqNb(s, t)) = t
BY SeqNbAssumption DEF addMultSeqNb, diffSeqNb, Plus, Minus, LiveSeqNbs

\* The window that checkReceivedMessage spells out with two comparisons per
\* case is the window removeBadMessages expresses as a distance: a message
\* accepted into the video buffer is not one that is thrown out as too far.
THEOREM FeedWindowIsDistance ==
    ASSUME NEW e \in LiveSeqNbs, NEW s \in LiveSeqNbs
    PROVE  InFeedWindow(e, s) <=> diffSeqNb(e, s) < MAX_MISSED_SEQNBS
<1>1. addMultSeqNb(e, MAX_MISSED_SEQNBS) \in LiveSeqNbs
  BY SeqNbAssumption, AddMultIsLive DEF SeqNbs
<1>2. QED
  BY <1>1, SeqNbAssumption
  DEF InFeedWindow, addMultSeqNb, diffSeqNb, Plus, Minus, LiveSeqNbs
=============================================================================
