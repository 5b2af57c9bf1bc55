------------------------- MODULE MCKeyEstablishment -------------------------
(* Small instances of KeyEstablishment: see the .cfg files. *)
EXTENDS KeyEstablishmentInv

\* Every run starts at the same number, so that messages of different runs
\* cannot be told apart by it, and wraps around during the protocol.
WrapSoon == {MaxSeqNb - 1}

\* The largest number getRandomBytes can yield: the first one sent wraps around.
Largest == {MaxSeqNb}
=============================================================================
