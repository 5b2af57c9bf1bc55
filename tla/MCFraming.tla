----------------------------- MODULE MCFraming -----------------------------
(* Small instances of Framing: see the .cfg files. *)
EXTENDS Framing

\* Every message there is.
AllMessages == UNION {[1 .. n -> {ESC, FLAG, Plain}] : n \in 1 .. MAX_MESSAGE_NB}

\* Messages of the greatest length without anything to stuff.
LongMessages == {[i \in 1 .. MAX_MESSAGE_NB |-> Plain]}
=============================================================================
