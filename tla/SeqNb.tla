------------------------------- MODULE SeqNb -------------------------------
(***************************************************************************)
(* The sequence numbers of the protocol (enc_dec.c): 32-bit numbers that   *)
(* wrap around from their largest value to 1, because 0 marks a message    *)
(* that must be rejected.  The C code relies on the wrap-around of         *)
(* uint32_t; here the width is a parameter and the wrap is written out.    *)
(***************************************************************************)
EXTENDS Integers

CONSTANTS
    MaxSeqNb,          \* the largest sequence number, 0xFFFFFFFF in the code
    MAX_MISSED_SEQNBS  \* width of the window of acceptable feed messages

ASSUME SeqNbAssumption ==
    /\ MaxSeqNb \in Nat
    /\ MAX_MISSED_SEQNBS \in Nat
    /\ 0 < MAX_MISSED_SEQNBS
    /\ MAX_MISSED_SEQNBS < MaxSeqNb

SeqNbs == 0 .. MaxSeqNb        \* what a uint32_t holds
LiveSeqNbs == 1 .. MaxSeqNb    \* what a message may carry

\* Addition and subtraction of two numbers of the width of a uint32_t.
Plus(a, b)  == IF a + b > MaxSeqNb THEN a + b - (MaxSeqNb + 1) ELSE a + b
Minus(a, b) == IF a < b THEN a - b + (MaxSeqNb + 1) ELSE a - b

-----------------------------------------------------------------------------
\* Mutant: the wrap-around lands on 0.
addOneSeqNbThroughZero(seqNb) == Plus(seqNb, 1)

addOneSeqNb(seqNb) == IF seqNb = MaxSeqNb THEN 1 ELSE seqNb + 1

addMultSeqNb(seqNb, nb) ==
    LET res == Plus(seqNb, nb)
    IN  IF res < seqNb THEN res + 1 ELSE res

\* How far seq_num_2 is ahead of seq_num_1.
diffSeqNb(seq_num_1, seq_num_2) ==
    LET diff == Minus(seq_num_2, seq_num_1)
    IN  IF diff > seq_num_2 THEN diff - 1 ELSE diff

\* checkReceivedMessage accepts a feed message that is not too far ahead.
InFeedWindow(expectedSeqNb, seqNbNum) ==
    LET maxSeqNb == addMultSeqNb(expectedSeqNb, MAX_MISSED_SEQNBS)
    IN  /\ maxSeqNb < expectedSeqNb => (seqNbNum >= expectedSeqNb \/ seqNbNum < maxSeqNb)
        /\ maxSeqNb > expectedSeqNb => seqNbNum \in expectedSeqNb .. (maxSeqNb - 1)
=============================================================================
