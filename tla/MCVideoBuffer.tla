--------------------------- MODULE MCVideoBuffer ---------------------------
(* Small instances of VideoBuffer: see the .cfg files. *)
EXTENDS VideoBuffer

\* The numbers wrap around after two messages.
WrapSoon == {MaxSeqNb - 1}

\* A session that starts a little behind or ahead of the one before.
Nearby == {MaxSeqNb - 1, 1}
=============================================================================
