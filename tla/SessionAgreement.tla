-------------------------- MODULE SessionAgreement --------------------------
(***************************************************************************)
(* What key establishment promises, without messages, retransmissions or   *)
(* cryptography.  A session is a key, made from a contribution of either   *)
(* side, and the two numbers at which the directions start.  The base      *)
(* station offers a session under a contribution it never used before, the *)
(* drone enters an offered session, and the base station adopts only the   *)
(* session it is offering, and only after the drone has entered it.  The   *)
(* number of the direction to the drone may be spoilt while it is offered, *)
(* and only then may the drone start at another one.                       *)
(***************************************************************************)
CONSTANTS
    Keys,      \* pairs: the base station's and the drone's contribution
    Numbers    \* sequence numbers

VARIABLES
    offers,    \* every offer ever made
    sessions,  \* every session the drone ever entered
    spoilt,    \* the keys of the offers whose number was spoilt
    offer,     \* what the base station is offering: at most one offer
    base,      \* the session the base station is in: at most one
    drone      \* the session the drone is in: at most one

vars == <<offers, sessions, spoilt, offer, base, drone>>

Init ==
    /\ offers = {} /\ sessions = {} /\ spoilt = {}
    /\ offer = {} /\ base = {} /\ drone = {}

Offer(o) ==
    /\ o.key \in Keys /\ o.toDrone \in Numbers
    /\ offer = {} /\ base = {}
    /\ \A p \in offers : p.key[1] # o.key[1]
    /\ offers' = offers \cup {o}
    /\ offer' = {o}
    /\ UNCHANGED <<sessions, spoilt, base, drone>>

Spoil(o) ==
    /\ offer = {o}
    /\ spoilt' = spoilt \cup {o.key}
    /\ UNCHANGED <<offers, sessions, offer, base, drone>>

\* The numbers at which the drone may start.
Starts(o) == IF o.key \in spoilt THEN Numbers ELSE {o.toDrone}

Enter(o, toDrone, toBase) ==
    LET s == [key |-> o.key, toDrone |-> toDrone, toBase |-> toBase]
    IN  /\ drone = {}
        /\ \A t \in sessions : t.key[1] # s.key[1] /\ t.key[2] # s.key[2]
        /\ sessions' = sessions \cup {s}
        /\ drone' = {s}
        /\ UNCHANGED <<offers, spoilt, offer, base>>

Adopt(o, s) ==
    /\ offer = {o}
    /\ s.key = o.key /\ s.toDrone \in Starts(o)
    /\ offer' = {}
    /\ base' = {[s EXCEPT !.toDrone = o.toDrone]}
    /\ UNCHANGED <<offers, sessions, spoilt, drone>>

BaseLeaves ==
    /\ offer' = {} /\ base' = {}
    /\ UNCHANGED <<offers, sessions, spoilt, drone>>

DroneLeaves ==
    /\ drone' = {}
    /\ UNCHANGED <<offers, sessions, spoilt, offer, base>>

\* The offer is looked up in offer', which spares TLC trying every key.
Next ==
    \/ \E o \in offer' : Offer(o)
    \/ \E o \in offers, n \in Numbers : \E m \in Starts(o) : Enter(o, m, n)
    \/ \E o \in offers : Spoil(o)
    \/ \E o \in offers, s \in sessions : Adopt(o, s)
    \/ BaseLeaves \/ DroneLeaves

Spec == Init /\ [][Next]_vars
=============================================================================
