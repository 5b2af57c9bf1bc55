------------------------------- MODULE Sha3 -------------------------------
(***************************************************************************)
(* SHA-3 (sha3.c).  A 64-bit word is the set of its bits that are set: a   *)
(* bitwise exclusive or is a symmetric difference.  A message is a         *)
(* sequence of bytes.                                                      *)
(***************************************************************************)
EXTENDS Integers, Sequences

Bit    == 0 .. 63
Lane   == SUBSET Bit
Lanes  == [0 .. 24 -> Lane]
Differ(u, v) == (u \ v) \cup (v \ u)
SHA3_ROTL64(u, y) == {(k + y) % 64 : k \in u}

keccakf_rndc == <<
       {0}, {1, 7, 15}, {1, 3, 7, 15, 63}, {15, 31, 63}, {0, 1, 3, 7, 15},
       {0, 31}, {0, 7, 15, 31, 63}, {0, 3, 15, 63}, {1, 3, 7}, {3, 7},
       {0, 3, 15, 31}, {1, 3, 31}, {0, 1, 3, 7, 15, 31}, {0, 1, 3, 7, 63},
       {0, 3, 7, 15, 63}, {0, 1, 15, 63}, {1, 15, 63}, {7, 63}, {1, 3, 15},
       {1, 3, 31, 63}, {0, 7, 15, 31, 63}, {7, 15, 63}, {0, 31},
       {3, 15, 31, 63} >>
keccakf_rotc ==
    <<1, 3, 6, 10, 15, 21, 28, 36, 45, 55, 2, 14, 27, 41, 56, 8, 25, 43, 62,
      18, 39, 61, 20, 44>>
keccakf_piln ==
    <<10, 7, 11, 17, 18, 3, 5, 16, 8, 21, 24, 4, 15, 23, 19, 13, 12, 2, 20,
      14, 22, 9, 6, 1>>

Theta[s \in Lanes] ==
    LET bc == [x \in 0 .. 4 |->
                {k \in Bit : (LET in(y) == IF k \in s[x + 5 * y] THEN 1 ELSE 0
                              IN  in(0) + in(1) + in(2) + in(3) + in(4)) % 2 = 1}]
        t == [x \in 0 .. 4 |-> Differ(bc[(x + 4) % 5], SHA3_ROTL64(bc[(x + 1) % 5], 1))]
    IN  [j \in 0 .. 24 |-> Differ(s[j], t[j % 5])]

\* A chain of moves: piln[i] takes what was at piln[i - 1], the first what was
\* at 1, rotated by rotc[i]; lane 0 stays.
RhoPi[s \in Lanes] ==
    LET place(j) == CHOOSE i \in 1 .. 24 : keccakf_piln[i] = j
        before(i) == IF i = 1 THEN 1 ELSE keccakf_piln[i - 1]
    IN  [j \in 0 .. 24 |-> IF j = 0 THEN s[0]
            ELSE SHA3_ROTL64(s[before(place(j))], keccakf_rotc[place(j)])]

Chi[s \in Lanes] ==
    [j \in 0 .. 24 |->
        LET row == j - (j % 5)
            next(i) == s[row + ((j + i) % 5)]
        IN  Differ(s[j], next(2) \ next(1))]

keccakf(s) ==
    LET after[round \in 0 .. 24] ==
            IF round = 0 THEN s
            ELSE LET mixed == Chi[RhoPi[Theta[after[round - 1]]]]
                 IN  [mixed EXCEPT ![0] = Differ(@, keccakf_rndc[round])]
    IN  after[24]

-----------------------------------------------------------------------------
SHA3_KECCAK_SPONGE_WORDS == 25

\* The bits of up to eight bytes, the first of them at byteIndex.
Bits(bytes, byteIndex) ==
    {k \in Bit : LET i == (k \div 8) - byteIndex + 1
                 IN  i \in 1 .. Len(bytes) /\ (bytes[i] \div 2^(k % 8)) % 2 = 1}

\* ctx->capacityWords, the flag that shares the field kept apart.
sha3_Init(bitSize, keccak) ==
    [s |-> [j \in 0 .. 24 |-> {}], saved |-> {}, byteIndex |-> 0, wordIndex |-> 0,
     capacityWords |-> (2 * bitSize) \div 64, keccak |-> keccak]

RateWords(ctx) == SHA3_KECCAK_SPONGE_WORDS - ctx.capacityWords

AbsorbWord(ctx, t) ==
    LET s == [ctx.s EXCEPT ![ctx.wordIndex] = Differ(@, t)]
    IN  IF ctx.wordIndex + 1 = RateWords(ctx)
        THEN [ctx EXCEPT !.s = keccakf(s), !.wordIndex = 0]
        ELSE [ctx EXCEPT !.s = s, !.wordIndex = @ + 1]

Save(ctx, bytes) ==
    [ctx EXCEPT !.saved = @ \cup Bits(bytes, ctx.byteIndex),
                !.byteIndex = @ + Len(bytes)]

\* Mutant: a word completed by the bytes of a second call keeps its old bytes.
sha3_UpdateKeepsSaved(ctx, buf) ==
    LET old_tail == (8 - ctx.byteIndex) % 8
        full == Save(ctx, SubSeq(buf, 1, old_tail))
        start == IF old_tail = 0 THEN ctx
                 ELSE [AbsorbWord(full, full.saved) EXCEPT !.byteIndex = 0]
        rest == SubSeq(buf, old_tail + 1, Len(buf))
        words == Len(rest) \div 8
        absorbed[i \in 0 .. words] ==
            IF i = 0 THEN start
            ELSE AbsorbWord(absorbed[i - 1], Bits(SubSeq(rest, 8 * i - 7, 8 * i), 0))
    IN  IF Len(buf) < old_tail THEN Save(ctx, buf)
        ELSE Save(absorbed[words], SubSeq(rest, 8 * words + 1, Len(rest)))

\* First what completes a word begun before, then whole words, then the tail.
sha3_Update(ctx, buf) ==
    LET old_tail == (8 - ctx.byteIndex) % 8
        full == Save(ctx, SubSeq(buf, 1, old_tail))
        start == IF old_tail = 0 THEN ctx
                 ELSE [AbsorbWord(full, full.saved) EXCEPT !.byteIndex = 0, !.saved = {}]
        rest == SubSeq(buf, old_tail + 1, Len(buf))
        words == Len(rest) \div 8
        absorbed[i \in 0 .. words] ==
            IF i = 0 THEN start
            ELSE AbsorbWord(absorbed[i - 1], Bits(SubSeq(rest, 8 * i - 7, 8 * i), 0))
    IN  IF Len(buf) < old_tail THEN Save(ctx, buf)
        ELSE Save(absorbed[words], SubSeq(rest, 8 * words + 1, Len(rest)))

\* The suffix and the first bit of the padding, then its last bit.
sha3_Finalize(ctx) ==
    LET t == Bits(<<IF ctx.keccak THEN 1 ELSE 6>>, ctx.byteIndex)
        s == [ctx.s EXCEPT ![ctx.wordIndex] = Differ(@, Differ(ctx.saved, t))]
    IN  keccakf([s EXCEPT ![RateWords(ctx) - 1] = Differ(@, {63})])

\* The first bytes of the state, as words.
sha3_HashBuffer(bitSize, keccak, in) ==
    LET s == sha3_Finalize(sha3_Update(sha3_Init(bitSize, keccak), in))
    IN  [j \in 0 .. (bitSize \div 64 - 1) |-> s[j]]
=============================================================================
