----------------------------- MODULE Standards -----------------------------
(***************************************************************************)
(* What the algorithms of the code are compared with: definitions of the   *)
(* published standards, written as mathematics and not as loops over       *)
(* tables.  Nothing here models code.                                      *)
(***************************************************************************)
EXTENDS Integers, Sequences, FiniteSets

-----------------------------------------------------------------------------
(* Modular numbers and the affine group law of y^2 = x^3 + ax + b over a   *)
(* prime; <<0, 0>> stands for the point at infinity.                       *)
ModInverse(v, prime) == CHOOSE w \in 1 .. (prime - 1) : (v * w) % prime = 1

Infinity == <<0, 0>>

AffinePoints(prime, ca, cb) ==
    {Infinity} \cup
    {Q \in (0 .. (prime - 1)) \X (0 .. (prime - 1)) :
        (Q[2] * Q[2]) % prime = (Q[1] * Q[1] * Q[1] + ca * Q[1] + cb) % prime}

AffineSum(P1, P2, prime, ca) ==
    LET slope == IF P1 = P2
                 THEN ((3 * P1[1] * P1[1] + ca) * ModInverse((2 * P1[2]) % prime, prime)) % prime
                 ELSE ((P2[2] - P1[2]) * ModInverse((P2[1] - P1[1]) % prime, prime)) % prime
        x == (slope * slope - P1[1] - P2[1]) % prime
    IN  IF P1 = Infinity THEN P2
        ELSE IF P2 = Infinity THEN P1
        ELSE IF P1[1] = P2[1] /\ (P1[2] + P2[2]) % prime = 0 THEN Infinity
        ELSE <<x, (slope * (P1[1] - x) - P1[2]) % prime>>

-----------------------------------------------------------------------------
(* The field of AES: bytes are polynomials, here the sets of the exponents *)
(* of x, modulo x^8 + x^4 + x^3 + x + 1.                                   *)
BitsOf(v) == {k \in 0 .. 7 : (v \div 2^k) % 2 = 1}
ByteOf(set) == LET w(k) == IF k \in set THEN 2^k ELSE 0
               IN  w(0) + w(1) + w(2) + w(3) + w(4) + w(5) + w(6) + w(7)
SymDiff(u, v) == (u \ v) \cup (v \ u)

TimesX(u) == IF 7 \in u THEN SymDiff({k + 1 : k \in u \ {7}}, {0, 1, 3, 4})
             ELSE {k + 1 : k \in u}
\* The powers of x, and the product term by term.
XTo(k) == IF k < 8 THEN {k}
          ELSE <<{0, 1, 3, 4}, {1, 2, 4, 5}, {2, 3, 5, 6}, {3, 4, 6, 7},
                 {0, 1, 3, 5, 7}, {0, 2, 3, 6}, {1, 3, 4, 7}>>[k - 7]
FieldTimes(u, v) ==
    {k \in 0 .. 7 :
        Cardinality({term \in u \X v : k \in XTo(term[1] + term[2])}) % 2 = 1}

\* The S-box: the inverse in the field, then an affine map of the bits.
SBoxOf(v) ==
    LET power[k \in 0 .. 7] ==   \* <<v to 2^k, the product of those from k = 1>>; v^254 is the inverse
            IF k = 0 THEN <<BitsOf(v), {0}>>
            ELSE LET before == power[k - 1]
                     square == FieldTimes(before[1], before[1])
                 IN  <<square, FieldTimes(before[2], square)>>
        inverse == power[7][2]
        odd(k) == Cardinality({j \in 0 .. 4 : ((k - j) % 8) \in inverse}) % 2 = 1
    IN  ByteOf(SymDiff({k \in 0 .. 7 : odd(k)}, {0, 1, 5, 6}))

\* Byte r of a column after MixColumns: the row (2 3 1 1) turned r places.
MixedByte(column, r) ==
    LET coefficient(k) == CASE k = r -> {1} [] k = (r + 1) % 4 -> {0, 1} [] OTHER -> {0}
        term(k) == FieldTimes(BitsOf(column[k]), coefficient(k))
    IN  ByteOf(SymDiff(SymDiff(term(0), term(1)), SymDiff(term(2), term(3))))

XorBytes(u, v) == ByteOf(SymDiff(BitsOf(u), BitsOf(v)))

(* AES with a key of 128 bits; byte r of column c of a block is at 4c + r. *)
AESBlock == [0 .. 15 -> 0 .. 255]

\* Each column of the next round key adds up the columns up to it, and the last
\* one after the S-box, turned, with x^(round - 1).
NextRoundKey[k \in AESBlock, round \in 1 .. 10] ==
    LET rcon[i \in 1 .. 10] == IF i = 1 THEN {0} ELSE TimesX(rcon[i - 1])
        turned(r) == XorBytes(SBoxOf(k[12 + ((r + 1) % 4)]),
                              IF r = 0 THEN ByteOf(rcon[round]) ELSE 0)
        upTo(c, r) == IF c = 0 THEN k[r]
                      ELSE IF c = 1 THEN XorBytes(k[r], k[4 + r])
                      ELSE IF c = 2 THEN XorBytes(XorBytes(k[r], k[4 + r]), k[8 + r])
                      ELSE XorBytes(XorBytes(k[r], k[4 + r]), XorBytes(k[8 + r], k[12 + r]))
    IN  [i \in 0 .. 15 |-> XorBytes(upTo(i \div 4, i % 4), turned(i % 4))]

StandardRound[s \in AESBlock, k \in AESBlock, last \in BOOLEAN] ==
    LET shifted(c, r) == SBoxOf(s[4 * ((c + r) % 4) + r])
    IN  [i \in 0 .. 15 |->
            XorBytes(k[i], IF last THEN shifted(i \div 4, i % 4)
                           ELSE MixedByte([r \in 0 .. 3 |-> shifted(i \div 4, r)], i % 4))]

AESStandard(key, block) ==
    LET keys[round \in 0 .. 10] ==
            IF round = 0 THEN key ELSE NextRoundKey[keys[round - 1], round]
        after[round \in 0 .. 10] ==
            IF round = 0 THEN [i \in 0 .. 15 |-> XorBytes(key[i], block[i])]
            ELSE StandardRound[after[round - 1], keys[round], round = 10]
    IN  after[10]

-----------------------------------------------------------------------------
(* Keccak as FIPS 202 gives it, on words that are sets of bits.            *)
Rotated(u, by) == {(k + by) % 64 : k \in u}

\* A linear feedback shift register, as the set of its bits that are set; it
\* moves seven steps in a round, and the bits that come out make the constant.
RcRegister[steps \in 0 .. 7, u \in SUBSET (0 .. 7)] ==
    IF steps = 0 THEN u
    ELSE LET up == {k + 1 : k \in RcRegister[steps - 1, u]}
         IN  IF 8 \in up THEN SymDiff(up \ {8}, {0, 4, 5, 6}) ELSE up
RcOfRound[round \in 0 .. 23] ==
    IF round = 0 THEN {0} ELSE RcRegister[7, RcOfRound[round - 1]]
RoundConstant(round) == {2^j - 1 : j \in {i \in 0 .. 6 : 0 \in RcRegister[i, RcOfRound[round]]}}

\* The walk over the lanes that gives the rotations; <<1, 0>> comes first.
RhoWalk[t \in 0 .. 23] ==
    IF t = 0 THEN <<1, 0>>
    ELSE LET Q == RhoWalk[t - 1] IN <<Q[2], (2 * Q[1] + 3 * Q[2]) % 5>>
RhoOffset(x, y) ==
    IF x = 0 /\ y = 0 THEN 0
    ELSE LET t == CHOOSE t \in 0 .. 23 : RhoWalk[t] = <<x, y>>
         IN  (((t + 1) * (t + 2)) \div 2) % 64

KeccakState == [(0 .. 4) \X (0 .. 4) -> SUBSET (0 .. 63)]
KeccakRound[A \in KeccakState, round \in 0 .. 23] ==
    LET C(x) == SymDiff(SymDiff(SymDiff(A[x, 0], A[x, 1]), SymDiff(A[x, 2], A[x, 3])), A[x, 4])
        D == [x \in 0 .. 4 |-> SymDiff(C((x - 1) % 5), Rotated(C((x + 1) % 5), 1))]
        \* theta, rho and pi: what lands on <<x, y>>
        T == [Q \in (0 .. 4) \X (0 .. 4) |->
                LET x == (Q[1] + 3 * Q[2]) % 5  y == Q[1]
                IN  Rotated(SymDiff(A[x, y], D[x]), RhoOffset(x, y))]
    IN  [Q \in (0 .. 4) \X (0 .. 4) |->
            SymDiff(SymDiff(T[Q], T[<<(Q[1] + 2) % 5, Q[2]>>] \ T[<<(Q[1] + 1) % 5, Q[2]>>]),
                    IF Q = <<0, 0>> THEN RoundConstant(round) ELSE {})]

\* SHA3-d of a string of bytes: the bits, 01, padding 1 0* 1, and the sponge.
SHA3Standard(d, bytes) ==
    LET rate == 1600 - 2 * d
        len == 8 * Len(bytes)
        nb == (len + 4 + rate - 1) \div rate
        padded == {i \in 0 .. (len - 1) : (bytes[(i \div 8) + 1] \div 2^(i % 8)) % 2 = 1}
                    \cup {len + 1, len + 2, nb * rate - 1}
        block(i, Q) ==
            LET j == Q[1] + 5 * Q[2]
            IN  IF 64 * j >= rate THEN {}
                ELSE {k \in 0 .. 63 : (i - 1) * rate + 64 * j + k \in padded}
        rounds[i \in 0 .. nb, r \in 0 .. 24] ==
            IF i = 0 THEN [Q \in (0 .. 4) \X (0 .. 4) |-> {}]
            ELSE IF r = 0 THEN LET A == rounds[i - 1, 24]
                               IN  [Q \in (0 .. 4) \X (0 .. 4) |-> SymDiff(A[Q], block(i, Q))]
            ELSE KeccakRound[rounds[i, r - 1], r - 1]
        end == rounds[nb, 24]
    IN  [j \in 0 .. (d \div 64 - 1) |-> end[<<j % 5, j \div 5>>]]
=============================================================================
