----------------------------- MODULE MCSession -----------------------------
(* A small instance of Session. *)
EXTENDS Session

\* Commands over two sessions, so that messages of one arrive in the other; and
\* status updates over a network that damages messages, where the MAC shows it
\* or anywhere.
CommandAndStatus ==
    {[requester |-> "base",  damage |-> "none",     sessions |-> 2, requests |-> 2],
     [requester |-> "drone", damage |-> "covered",  sessions |-> 1, requests |-> 2],
     [requester |-> "drone", damage |-> "anywhere", sessions |-> 1, requests |-> 1]}

\* A number of one session may be the next number of the other.
OneApart == {MaxSeqNb - 2, MaxSeqNb - 1}
=============================================================================
