-------------------------- MODULE ReliableChannel --------------------------
(***************************************************************************)
(* What a channel with acknowledgements (COMM, STAT, ALIVE) promises: in   *)
(* every session the messages are handed to the receiver in the order in   *)
(* which they were submitted, each at most once, and the sender takes the  *)
(* next message only after the receiver got the previous one.              *)
(***************************************************************************)
EXTENDS Naturals, Sequences

CONSTANT Sessions

VARIABLES
    sent,  \* messages submitted, per session
    got    \* messages handed over, per session

vars == <<sent, got>>

Init ==
    /\ sent = [k \in Sessions |-> <<>>]
    /\ got = [k \in Sessions |-> <<>>]

Submit(k) ==
    /\ got[k] = sent[k]
    /\ sent' = [sent EXCEPT ![k] = Append(@, <<k, Len(@) + 1>>)]
    /\ UNCHANGED got

Deliver(k) ==
    /\ Len(got[k]) < Len(sent[k])
    /\ got' = [got EXCEPT ![k] = Append(@, sent[k][Len(@) + 1])]
    /\ UNCHANGED sent

Next == \E k \in Sessions : Submit(k) \/ Deliver(k)

Spec == Init /\ [][Next]_vars
=============================================================================
