--------------------------- MODULE ModArithmetic ---------------------------
(***************************************************************************)
(* Arithmetic on long numbers (mod_arithmetic.c).  A number is an array of *)
(* SIZE words of BITS bits, least significant word first; every word       *)
(* operation of the C code wraps around, which is written out here as      *)
(* % Base.  Results that the code writes through pointers are returned.    *)
(***************************************************************************)
EXTENDS Integers

CONSTANTS
    SIZE,  \* words in a number
    BITS   \* bits in a word

ASSUME ModAssumption == SIZE \in Nat \ {0} /\ BITS \in Nat \ {0}

PowerOfTwo[k \in 0 .. BITS] == IF k = 0 THEN 1 ELSE 2 * PowerOfTwo[k - 1]
Base  == PowerOfTwo[BITS]
Index == 0 .. (SIZE - 1)
Words == [Index -> 0 .. (Base - 1)]

\* What a one in word k stands for: Base to the power of k.
Weight[k \in 0 .. (2 * SIZE + 1)] == IF k = 0 THEN 1 ELSE Base * Weight[k - 1]

zero == [i \in Index |-> 0]
one  == [i \in Index |-> IF i = 0 THEN 1 ELSE 0]

\* The number an array of words stands for, and back.
Value(a) ==
    LET upTo[i \in 0 .. SIZE] ==
            IF i = 0 THEN 0 ELSE upTo[i - 1] + a[i - 1] * Weight[i - 1]
    IN  upTo[SIZE]
FromValue(v) == [i \in Index |-> (v \div Weight[i]) % Base]

-----------------------------------------------------------------------------
\* Mutant: the carry that makes a[i] itself wrap around is forgotten.
add_overflowOneTest(a, b) ==
    LET carry[i \in 0 .. SIZE] ==
            IF i = 0 THEN 0
            ELSE LET temp == (a[i - 1] + carry[i - 1]) % Base
                 IN  IF (temp + b[i - 1]) % Base < temp THEN 1 ELSE 0
        Sum(c) == [res |-> [i \in Index |-> (a[i] + c[i] + b[i]) % Base], carry |-> c[SIZE]]
    IN  Sum(carry)

\* carry[i] is the carry into word i.
add_overflow(a, b) ==
    LET carry[i \in 0 .. SIZE] ==
            IF i = 0 THEN 0
            ELSE LET temp == (a[i - 1] + carry[i - 1]) % Base
                 IN  IF temp < a[i - 1] \/ (temp + b[i - 1]) % Base < temp
                     THEN 1 ELSE 0
        Sum(c) == [res |-> [i \in Index |-> (a[i] + c[i] + b[i]) % Base], carry |-> c[SIZE]]
    IN  Sum(carry)

\* The borrow is kept as a word of ones, which is added.
sub_overflow(a, b) ==
    LET ALL_ONE_MASK == Base - 1
        carry[i \in 0 .. SIZE] ==
            IF i = 0 THEN 0
            ELSE LET temp == (a[i - 1] + carry[i - 1]) % Base
                 IN  IF temp > a[i - 1] \/ (temp - b[i - 1]) % Base > temp
                     THEN ALL_ONE_MASK ELSE 0
        Difference(c) ==
            [res |-> [i \in Index |-> (a[i] + c[i] - b[i]) % Base], carry |-> c[SIZE]]
    IN  Difference(carry)

\* The most significant word in which two numbers differ decides.
compare(a, b) ==
    IF a = b THEN 0
    ELSE LET top == CHOOSE i \in Index :
                        a[i] # b[i] /\ \A j \in (i + 1) .. (SIZE - 1) : a[j] = b[j]
         IN  IF a[top] > b[top] THEN 1 ELSE -1

mod_add(a, b, modulus) ==
    LET Reduce(sum) ==
            IF sum.carry # 0 \/ compare(sum.res, modulus) >= 0
            THEN sub_overflow(sum.res, modulus).res
            ELSE sum.res
    IN  Reduce(add_overflow(a, b))

mod_sub(a, b, modulus) ==
    LET Reduce(difference) ==
            IF difference.carry # 0
            THEN add_overflow(difference.res, modulus).res
            ELSE difference.res
    IN  Reduce(sub_overflow(a, b))

-----------------------------------------------------------------------------
(* Montgomery multiplication: t has 2 * SIZE + 1 words.                    *)
Wide == 0 .. (2 * SIZE)
Word == 0 .. (Base - 1)
Product == [Wide -> Word]

\* Adds x * m to t from word i on; C is the carry out of the last word.
MultiplyAdd(t, i, x, m) ==
    LET step[j \in 0 .. SIZE] ==
            IF j = 0 THEN [t |-> t, C |-> 0]
            ELSE LET before == step[j - 1]
                     sum == x * m[j - 1] + before.t[i + j - 1] + before.C
                 IN  [t |-> [before.t EXCEPT ![i + j - 1] = sum % Base],
                      C |-> sum \div Base]
    IN  step[SIZE]

\* Adds C to t from word i on.
add(t, i, C) ==
    LET carry[k \in i .. (2 * SIZE)] ==
            IF k = i THEN C ELSE (t[k - 1] + carry[k - 1]) \div Base
    IN  [k \in Wide |-> IF k < i THEN t[k] ELSE (t[k] + carry[k]) % Base]

\* Step 1: the product a * b.
Multiplied(a, b) ==
    LET row[i \in 0 .. SIZE] ==
            IF i = 0 THEN [k \in Wide |-> 0]
            ELSE LET Row(r) == [r.t EXCEPT ![i - 1 + SIZE] = r.C]
                 IN  Row(MultiplyAdd(row[i - 1], i - 1, b[i - 1], a))
    IN  row[SIZE]

\* Step 2: multiples of the modulus clear the low words one by one.
Reduced(product, modulus, n_prime) ==
    LET row[i \in 0 .. SIZE] ==
            IF i = 0 THEN product
            ELSE LET Cleared(t) ==
                         MultiplyAdd(t, i - 1, (t[i - 1] * n_prime[0]) % Base, modulus)
                     Row(r) == add(r.t, i - 1 + SIZE, r.C)
                 IN  Row(Cleared(row[i - 1]))
    IN  row[SIZE]

\* a has one word more than b.
conditionalSubtract(a, b) ==
    LET low == [i \in Index |-> a[i]]
    IN  IF a[SIZE] = 0 /\ compare(low, b) < 0 THEN low ELSE sub_overflow(low, b).res

montMul(a, b, modulus, n_prime) ==
    LET t == Reduced(Multiplied(a, b), modulus, n_prime)
    IN  conditionalSubtract([i \in 0 .. SIZE |-> t[i + SIZE]], modulus)

-----------------------------------------------------------------------------
(* Modular inversion. *)
divideByTwo(a, initialCarry) ==
    [i \in Index |->
        LET above == IF i = SIZE - 1 THEN initialCarry ELSE a[i + 1] % 2
        IN  (a[i] \div 2) + above * (Base \div 2)]

\* Mutant: the carry of the addition is not shifted back in.
HalvedNoCarry(R, modulus) ==
    IF R[0] % 2 = 1 THEN divideByTwo(add_overflow(R, modulus).res, 0)
    ELSE divideByTwo(R, 0)

\* R / 2, through R + modulus if R is odd.
Halved(R, modulus) ==
    IF R[0] % 2 = 1
    THEN LET Half(sum) == divideByTwo(sum.res, sum.carry) IN Half(add_overflow(R, modulus))
    ELSE divideByTwo(R, 0)

\* One pass through the loop of mod_inv.
InvStep(s, modulus) ==
    IF s.U[0] % 2 = 0
    THEN [s EXCEPT !.U = divideByTwo(@, 0), !.R = Halved(@, modulus)]
    ELSE IF s.V[0] % 2 = 0
    THEN [s EXCEPT !.V = divideByTwo(@, 0), !.S = Halved(@, modulus)]
    ELSE IF compare(s.U, s.V) = 1
    THEN [s EXCEPT !.U = sub_overflow(@, s.V).res, !.R = mod_sub(@, s.S, modulus)]
    ELSE [s EXCEPT !.V = sub_overflow(@, s.U).res, !.S = mod_sub(@, s.R, modulus)]

mod_inv(x, modulus) ==
    LET States == [U : Words, V : Words, R : Words, S : Words]
        loop[s \in States] == IF s.V = zero THEN s ELSE loop[InvStep(s, modulus)]
        Inverse(end) ==
            IF end.U[0] > 1 THEN zero
            ELSE IF compare(end.R, modulus) = 1 THEN sub_overflow(end.R, modulus).res
            ELSE end.R
    IN  Inverse(loop[[U |-> modulus, V |-> x, R |-> zero, S |-> one]])
=============================================================================
