------------------------------- MODULE Curve -------------------------------
(***************************************************************************)
(* Arithmetic on the curve y^2 = x^3 + a x + b over p elements             *)
(* (ec_arithmetic.c, params.c).  Points are computed with in Jacobian      *)
(* coordinates, in the Montgomery domain.  The curve is a parameter: the   *)
(* code has P-256, whose base point has the prime order n.                 *)
(***************************************************************************)
EXTENDS ModArithmetic

CONSTANTS CurveP, CurveA, CurveB, CurveN, BaseX, BaseY

ASSUME CurveAssumption ==
    /\ {CurveP, CurveN} \subseteq 3 .. (Weight[SIZE] - 1)
    /\ CurveA \in 1 .. (CurveP - 1) /\ CurveB \in 1 .. (CurveP - 1)
    /\ CurveP % 2 = 1 /\ CurveN % 2 = 1
    /\ \A q \in {CurveP, CurveN} : \A d \in 2 .. (q - 1) : q % d # 0  \* both are prime
    /\ CurveP < 2 * CurveN /\ Weight[SIZE] < 2 * CurveN  \* one subtraction reduces modulo n
    /\ CurveB \div Weight[SIZE - 1] < CurveN \div Weight[SIZE - 1]  \* their top words
    /\ BaseX \in 0 .. (CurveP - 1) /\ BaseY \in 0 .. (CurveP - 1)

(* The tables of params.c, computed from the curve. *)
R == Weight[SIZE]
Montgomery(v) == FromValue((v * R) % CurveP)

\* -modulus^(-1) modulo Base: montMul only uses the low word.
Prime(modulus) == [zero EXCEPT ![0] =
    CHOOSE w \in 0 .. (Base - 1) : (w * modulus) % Base = Base - 1]

p == FromValue(CurveP)
rp_2 == FromValue((((R % CurveP) * R) % CurveP))
n == FromValue(CurveN)
n_prime == Prime(CurveN)
rn_2 == FromValue((((R % CurveN) * R) % CurveN))
one_mont == Montgomery(1)
a_mont == Montgomery(CurveA)
b == FromValue(CurveB)
b_mont == Montgomery(CurveB)
g_mont == [x |-> Montgomery(BaseX), y |-> Montgomery(BaseY)]

-----------------------------------------------------------------------------
\* Mutant: numbers that share n's top words are accepted.
ECInValidRangeLast(number) ==
    /\ number # zero
    /\ \A i \in Index :
          (\A j \in (i + 1) .. (SIZE - 1) : number[j] = n[j]) => number[i] <= n[i]

\* From the top: a word below n's accepts, one above b's rejects.
ECInValidRange(number) ==
    /\ number # zero
    /\ \E i \in Index :
        /\ number[i] < n[i]
        /\ \A j \in (i + 1) .. (SIZE - 1) : number[j] >= n[j] /\ number[j] <= b[j]

\* montMul, mod_add and mod_sub modulo p, by what they compute of numbers below
\* p; that they do, word by word, is the theorem FieldOperations.
OfField == [v \in 0 .. (CurveP - 1) |-> FromValue(v)]
R_inverse == CHOOSE v \in 1 .. (CurveP - 1) : (v * R) % CurveP = 1
mul(u, v)   == OfField[(Value(u) * Value(v) * R_inverse) % CurveP]
plus(u, v)  == OfField[(Value(u) + Value(v)) % CurveP]
minus(u, v) == OfField[(Value(u) - Value(v)) % CurveP]
square(u) == mul(u, u)
times2(u) == plus(u, u)
times8(u) == times2(times2(times2(u)))

isOnCurve(x, y) ==
    \/ x = zero /\ y = zero
    \/ LET OnCurve(x_mont, y_mont) ==
               square(y_mont) = plus(plus(mul(square(x_mont), x_mont),
                                          mul(a_mont, x_mont)), b_mont)
       IN  OnCurve(mul(x, rp_2), mul(y, rp_2))

toJacobian(x, y) == [X |-> mul(x, rp_2), Y |-> mul(y, rp_2), Z |-> one_mont]

toCartesian(Q) ==
    LET Divided(v, z) == mul(v, mod_inv(mul(z, one), p))
        WithSquare(Z_2) == [x |-> Divided(Q.X, Z_2), y |-> Divided(Q.Y, mul(Z_2, Q.Z))]
    IN  WithSquare(square(Q.Z))

PointAtInfinity == [X |-> zero, Y |-> zero, Z |-> one_mont]
IsInfinity(Q) == Q.X = zero /\ Q.Y = zero

pointDouble(Q) ==
    IF Q.Y = zero THEN PointAtInfinity
    ELSE LET Double(XR, S, M, Y_4) ==
                 [X |-> XR, Y |-> minus(mul(M, minus(S, XR)), times8(Y_4)),
                  Z |-> times2(mul(Q.Y, Q.Z))]
             WithSM(S, M, Y_2) ==
                 Double(minus(square(M), times2(S)), S, M, square(Y_2))
             WithSquares(X_2, Y_2, Z_2) ==
                 WithSM(times2(times2(mul(Y_2, Q.X))),
                        plus(plus(times2(X_2), X_2), mul(a_mont, square(Z_2))), Y_2)
         IN  WithSquares(square(Q.X), square(Q.Y), square(Q.Z))

\* The sum of two points with different x.  U and S are the coordinates of both,
\* brought to one Z; H and RR are their differences.
SumOfDifferent(U1, S1, H, RR, Z1Z2) ==
    LET Sum(XR, UH, H_3) ==
            [X |-> XR, Y |-> minus(mul(RR, minus(UH, XR)), mul(S1, H_3)), Z |-> mul(H, Z1Z2)]
        WithCube(UH, H_3) == Sum(minus(minus(square(RR), H_3), times2(UH)), UH, H_3)
        WithSquare(H_2) == WithCube(mul(U1, H_2), mul(H_2, H))
    IN  WithSquare(square(H))

\* The coordinates of both points, brought to one Z, decide which case it is.
\* Mutant: a point is not recognised as its own double.
SumByCasesNoDouble(Q1, U1, U2, S1, S2, Z1Z2) ==
    IF U1 = U2 THEN PointAtInfinity
    ELSE SumOfDifferent(U1, S1, minus(U2, U1), minus(S2, S1), Z1Z2)

SumByCases(Q1, U1, U2, S1, S2, Z1Z2) ==
    IF U1 = U2 /\ S1 = S2 THEN pointDouble(Q1)
    ELSE IF U1 = U2 THEN PointAtInfinity
    ELSE SumOfDifferent(U1, S1, minus(U2, U1), minus(S2, S1), Z1Z2)

pointAdd(Q1, Q2) ==
    IF IsInfinity(Q1) THEN Q2
    ELSE IF IsInfinity(Q2) THEN Q1
    ELSE LET WithSquares(Z1_2, Z2_2) ==
                 SumByCases(Q1, mul(Z2_2, Q1.X), mul(Z1_2, Q2.X),
                            mul(mul(Z2_2, Q2.Z), Q1.Y), mul(mul(Z1_2, Q1.Z), Q2.Y),
                            mul(Q1.Z, Q2.Z))
         IN  WithSquares(square(Q1.Z), square(Q2.Z))

-----------------------------------------------------------------------------
\* The bits of a scalar in the order the loops take them: 1 is the topmost.
NbBits == SIZE * BITS
BitOf(scalar, i) ==
    LET place == NbBits - i
    IN  (scalar[place \div BITS] \div PowerOfTwo[place % BITS]) % 2

AddIf(bit, sum, Q) == IF bit = 1 THEN pointAdd(sum, Q) ELSE sum

pointMultiply(scalar, Q) ==
    LET after[i \in 0 .. NbBits] ==
            IF i = 0 THEN PointAtInfinity
            ELSE AddIf(BitOf(scalar, i), pointDouble(after[i - 1]), Q)
    IN  after[NbBits]

\* Mutant: where both scalars have a bit set only one point is added.
shamirPointMultiplyEither(k, Q1, l, Q2) ==
    LET after[i \in 0 .. NbBits] ==
            IF i = 0 THEN PointAtInfinity
            ELSE LET twice == pointDouble(after[i - 1])
                 IN  IF BitOf(k, i) = 1 THEN pointAdd(twice, Q1) ELSE AddIf(BitOf(l, i), twice, Q2)
    IN  after[NbBits]

\* k * Q1 + l * Q2
shamirPointMultiply(k, Q1, l, Q2) ==
    LET after[i \in 0 .. NbBits] ==
            IF i = 0 THEN PointAtInfinity
            ELSE AddIf(BitOf(l, i), AddIf(BitOf(k, i), pointDouble(after[i - 1]), Q1), Q2)
    IN  after[NbBits]
=============================================================================
