--------------------------- MODULE AlgorithmProofs ---------------------------
(***************************************************************************)
(* Proofs about the algorithms that MCAlgorithms checks on small inputs:   *)
(* the carries of long numbers, Montgomery products, the binary algorithm  *)
(* for inverses, the ranges of scalars, what AEGIS-128 makes of a message  *)
(* it sealed, and what becomes of entropy.  Functions that are defined by  *)
(* recursion up to a bound are shown to exist (Recursion), and then        *)
(* followed from one argument to the next (UpTo).                          *)
(***************************************************************************)
EXTENDS MCAlgorithms, SeqNbProofs, WellFoundedInduction, FunctionTheorems,
        FiniteSetTheorems

-----------------------------------------------------------------------------
(* Induction and recursion up to a bound.                                  *)

\* The well-ordering of the natural numbers, from the library's theorems on
\* well-founded relations.
LEMMA Least ==
    ASSUME NEW S \in SUBSET Nat, S # {}
    PROVE  \E x \in S : \A y \in S : x <= y
<1>1. PICK x \in S : \A y \in S : <<y, x>> \notin OpToRel(<, Nat)
  BY NatLessThanWellFounded, WFMin
<1>2. \A y \in S : ~(y < x)
  BY <1>1 DEF OpToRel
<1>3. QED
  BY <1>2

\* Induction from 0 to N, on the set of numbers that something is true of.
LEMMA UpTo ==
    ASSUME NEW N \in Nat, NEW T, 0 \in T,
           \A k \in 1 .. N : k - 1 \in T => k \in T
    PROVE  \A k \in 0 .. N : k \in T
<1> DEFINE Bad == {k \in Nat : k \in 0 .. N /\ k \notin T}
<1>1. SUFFICES ASSUME Bad # {} PROVE FALSE
  OBVIOUS
<1>2. PICK k \in Bad : \A j \in Bad : k <= j
  BY <1>1, Least
<1>3. k \in 1 .. N /\ k - 1 \in Nat /\ k - 1 \in 0 .. N /\ ~(k <= k - 1)
  BY <1>2
<1>4. k - 1 \in T
  BY <1>2, <1>3
<1>5. QED
  BY <1>2, <1>3, <1>4

\* f starts with start, and each value is what G makes of the one before it.
Iterates(f, N, start, G) == f[0] = start /\ \A k \in 1 .. N : f[k] = G[k][f[k - 1]]

\* A function may be defined from 0 to N by what each step makes of the value
\* before it.
LEMMA Recursion ==
    ASSUME NEW N \in Nat, NEW S, NEW start \in S, NEW G \in [1 .. N -> [S -> S]]
    PROVE  \E f \in [0 .. N -> S] : Iterates(f, N, start, G)
<1> DEFINE Good(f, m) == f[0] = start /\ \A k \in 1 .. m : f[k] = G[k][f[k - 1]]
           T == {m \in 0 .. N : \E f \in [0 .. m -> S] : Good(f, m)}
<1>1. 0 \in T
  <2> DEFINE f == [k \in 0 .. 0 |-> start]
  <2>1. f \in [0 .. 0 -> S] /\ f[0] = start /\ 0 \in 0 .. N
    OBVIOUS
  <2>2. Good(f, 0)
    BY <2>1
  <2>3. QED
    BY <2>1, <2>2
<1>2. ASSUME NEW m \in 1 .. N, m - 1 \in T
      PROVE  m \in T
  <2>1. PICK f \in [0 .. (m - 1) -> S] : Good(f, m - 1)
    BY <1>2
  <2> DEFINE v == G[m][f[m - 1]]
             h == [k \in 0 .. m |-> IF k = m THEN v ELSE f[k]]
  <2>2. v \in S
    OBVIOUS
  <2>3. h \in [0 .. m -> S]
    BY <2>2
  <2>4. Good(h, m)
    <3>1. h[0] = start
      BY <2>1
    <3>2. ASSUME NEW k \in 1 .. m PROVE h[k] = G[k][h[k - 1]]
      <4>1. h[k - 1] = f[k - 1]
        OBVIOUS
      <4>2. CASE k = m
        BY <4>1, <4>2
      <4>3. CASE k # m
        <5>1. k \in 1 .. (m - 1) /\ h[k] = f[k]
          BY <4>3
        <5>2. QED
          BY <2>1, <4>1, <5>1
      <4>4. QED
        BY <4>2, <4>3
    <3>3. QED
      BY <3>1, <3>2
  <2>5. m \in 0 .. N
    OBVIOUS
  <2>6. QED
    BY <2>3, <2>4, <2>5
<1>3. N \in T
  <2> HIDE DEF T
  <2>1. \A k \in 0 .. N : k \in T
    BY <1>1, <1>2, UpTo
  <2>2. QED
    BY <2>1
<1>4. QED
  BY <1>3 DEF Iterates

-----------------------------------------------------------------------------
(* Words and their weights.                                                *)

LEMMA Products ==
    ASSUME NEW u \in Nat, NEW v \in Nat
    PROVE  u * v \in Nat /\ (u # 0 /\ v # 0 => u * v # 0)
OBVIOUS

LEMMA PowersOfTwo ==
    /\ PowerOfTwo[0] = 1
    /\ \A k \in 1 .. BITS : PowerOfTwo[k] = 2 * PowerOfTwo[k - 1]
    /\ \A k \in 0 .. BITS : PowerOfTwo[k] \in Nat \ {0}
<1> DEFINE F(f) == [k \in 0 .. BITS |-> IF k = 0 THEN 1 ELSE 2 * f[k - 1]]
           G == [k \in 1 .. BITS |-> [v \in Nat \ {0} |-> 2 * v]]
<1>1. BITS \in Nat
  BY ModAssumption
<1>2. PICK f \in [0 .. BITS -> Nat \ {0}] : Iterates(f, BITS, 1, G)
  <2>1. G \in [1 .. BITS -> [Nat \ {0} -> Nat \ {0}]]
    OBVIOUS
  <2>2. 1 \in Nat \ {0}
    OBVIOUS
  <2> HIDE DEF G
  <2>3. QED
    BY <1>1, <2>1, <2>2, Recursion
<1>3. f[0] = 1 /\ \A k \in 1 .. BITS : k - 1 \in 0 .. BITS /\ f[k] = 2 * f[k - 1]
  <2>1. \A k \in 1 .. BITS : k - 1 \in 0 .. BITS /\ f[k - 1] \in Nat \ {0}
    BY <1>1, <1>2
  <2>2. f[0] = 1 /\ \A k \in 1 .. BITS : f[k] = G[k][f[k - 1]]
    BY <1>2 DEF Iterates
  <2>3. QED
    BY <2>1, <2>2
<1>4. f = F(f)
  BY <1>1, <1>2, <1>3
<1>5. PowerOfTwo = F(PowerOfTwo)
  BY <1>4 DEF PowerOfTwo
<1> DEFINE T == {k \in 0 .. BITS : PowerOfTwo[k] = f[k]}
<1>6. PowerOfTwo[0] = 1 /\ \A k \in 1 .. BITS : PowerOfTwo[k] = 2 * PowerOfTwo[k - 1]
  BY <1>1, <1>5
<1>7. \A k \in 0 .. BITS : k \in T
  <2>1. 0 \in T
    BY <1>1, <1>3, <1>6
  <2>2. \A k \in 1 .. BITS : k - 1 \in T => k \in T
    BY <1>3, <1>6
  <2> HIDE DEF T
  <2>3. QED
    BY <1>1, <2>1, <2>2, UpTo
<1>8. \A k \in 0 .. BITS : PowerOfTwo[k] \in Nat \ {0}
  BY <1>2, <1>7
<1>9. QED
  BY <1>6, <1>8

LEMMA BaseFacts == Base \in Nat /\ Base >= 2 /\ Base % 2 = 0
<1>1. BITS \in 1 .. BITS /\ BITS - 1 \in 0 .. BITS
  BY ModAssumption
<1>2. Base = 2 * PowerOfTwo[BITS - 1] /\ PowerOfTwo[BITS - 1] \in Nat \ {0}
  BY <1>1, PowersOfTwo DEF Base
<1>3. QED
  BY <1>2

\* The places that have a weight.
Top == 2 * SIZE + 1

LEMMA TopFacts == Top \in Nat /\ SIZE \in Nat /\ SIZE > 0 /\ Top = SIZE + SIZE + 1
BY ModAssumption DEF Top

LEMMA Weights ==
    /\ Weight[0] = 1
    /\ \A k \in 1 .. Top : Weight[k] = Base * Weight[k - 1]
    /\ \A k \in 0 .. Top : Weight[k] \in Nat \ {0}
<1> DEFINE F(f) == [k \in 0 .. Top |-> IF k = 0 THEN 1 ELSE Base * f[k - 1]]
           G == [k \in 1 .. Top |-> [v \in Nat \ {0} |-> Base * v]]
<1>1. Top \in Nat
  BY TopFacts
<1>2. PICK f \in [0 .. Top -> Nat \ {0}] : Iterates(f, Top, 1, G)
  <2>1. \A v \in Nat \ {0} : Base * v \in Nat \ {0}
    BY BaseFacts, Products
  <2>2. G \in [1 .. Top -> [Nat \ {0} -> Nat \ {0}]]
    BY <2>1
  <2>3. 1 \in Nat \ {0}
    OBVIOUS
  <2> HIDE DEF G
  <2>4. QED
    BY <1>1, <2>2, <2>3, Recursion
<1>3. f[0] = 1 /\ \A k \in 1 .. Top : k - 1 \in 0 .. Top /\ f[k] = Base * f[k - 1]
  <2>1. \A k \in 1 .. Top : k - 1 \in 0 .. Top /\ f[k - 1] \in Nat \ {0}
    BY <1>1, <1>2
  <2>2. f[0] = 1 /\ \A k \in 1 .. Top : f[k] = G[k][f[k - 1]]
    BY <1>2 DEF Iterates
  <2>3. QED
    BY <2>1, <2>2
<1>4. f = F(f)
  BY <1>1, <1>2, <1>3
<1>5. Weight = F(Weight)
  BY <1>4 DEF Weight, Top
<1> DEFINE T == {k \in 0 .. Top : Weight[k] = f[k]}
<1>6. Weight[0] = 1 /\ \A k \in 1 .. Top : Weight[k] = Base * Weight[k - 1]
  BY <1>1, <1>5
<1>7. \A k \in 0 .. Top : k \in T
  <2>1. 0 \in T
    BY <1>1, <1>3, <1>6
  <2>2. \A k \in 1 .. Top : k - 1 \in T => k \in T
    BY <1>3, <1>6
  <2> HIDE DEF T
  <2>3. QED
    BY <1>1, <2>1, <2>2, UpTo
<1>8. \A k \in 0 .. Top : Weight[k] \in Nat \ {0}
  BY <1>2, <1>7
<1>9. QED
  BY <1>6, <1>8

LEMMA WeightProduct ==
    ASSUME NEW i \in 0 .. Top, NEW j \in 0 .. Top, i + j \in 0 .. Top
    PROVE  Weight[i + j] = Weight[i] * Weight[j]
<1> DEFINE T == {k \in 0 .. j : Weight[i + k] = Weight[i] * Weight[k]}
<1>1. 0 \in T
  BY Weights, TopFacts
<1>2. ASSUME NEW k \in 1 .. j, k - 1 \in T
      PROVE  k \in T
  <2>1. /\ k \in 1 .. Top /\ i + k \in 1 .. Top /\ (i + k) - 1 = i + (k - 1)
        /\ k - 1 \in 0 .. Top
    BY TopFacts
  <2>2. /\ Weight[k] = Base * Weight[k - 1]
        /\ Weight[i + k] = Base * Weight[i + (k - 1)]
        /\ Weight[i] \in Nat /\ Weight[k - 1] \in Nat
    BY <2>1, Weights
  <2>3. Weight[i + (k - 1)] = Weight[i] * Weight[k - 1]
    BY <1>2
  <2>4. Base * (Weight[i] * Weight[k - 1]) = Weight[i] * (Base * Weight[k - 1])
    BY <2>2, BaseFacts
  <2>5. Weight[i + k] = Weight[i] * Weight[k]
    BY <2>2, <2>3, <2>4
  <2>6. QED
    BY <2>5
<1>3. \A k \in 0 .. j : k \in T
  <2> HIDE DEF T
  <2>1. QED
    BY <1>1, <1>2, UpTo
<1>4. QED
  BY <1>3

-----------------------------------------------------------------------------
(* What the low words of an array stand for.                               *)

Digits(a, m) == \A i \in 0 .. (m - 1) : a[i] \in Word

Part(a, m) ==
    LET upTo[i \in 0 .. m] ==
            IF i = 0 THEN 0 ELSE upTo[i - 1] + a[i - 1] * Weight[i - 1]
    IN  upTo[m]

\* f is what the words of a up to each place stand for.
Sums(f, a, m) ==
    f[0] = 0 /\ \A k \in 1 .. m : f[k] = f[k - 1] + a[k - 1] * Weight[k - 1]

LEMMA SumsExist ==
    ASSUME NEW m \in 0 .. Top, NEW a, Digits(a, m)
    PROVE  \E f \in [0 .. m -> Nat] : Sums(f, a, m) /\ Part(a, m) = f[m]
<1> DEFINE F(f) == [i \in 0 .. m |-> IF i = 0 THEN 0 ELSE f[i - 1] + a[i - 1] * Weight[i - 1]]
           G == [k \in 1 .. m |-> [v \in Nat |-> v + a[k - 1] * Weight[k - 1]]]
           upTo == CHOOSE f : f = F(f)
<1>1. m \in Nat /\ \A k \in 1 .. m : k - 1 \in 0 .. (m - 1) /\ k - 1 \in 0 .. m /\ k - 1 \in 0 .. Top
  BY TopFacts
<1>2. \A k \in 1 .. m : a[k - 1] * Weight[k - 1] \in Nat
  <2> SUFFICES ASSUME NEW k \in 1 .. m PROVE a[k - 1] * Weight[k - 1] \in Nat
    OBVIOUS
  <2>1. a[k - 1] \in Nat /\ Weight[k - 1] \in Nat
    BY <1>1, Weights, BaseFacts DEF Digits, Word
  <2>2. QED
    BY <2>1, Products
<1>3. PICK f \in [0 .. m -> Nat] : Iterates(f, m, 0, G)
  <2>1. G \in [1 .. m -> [Nat -> Nat]]
    BY <1>2
  <2> HIDE DEF G
  <2>2. QED
    BY <1>1, <2>1, Recursion
<1>4. Sums(f, a, m)
  <2>1. f[0] = 0 /\ \A k \in 1 .. m : f[k] = G[k][f[k - 1]]
    BY <1>3 DEF Iterates
  <2>2. \A k \in 1 .. m : f[k - 1] \in Nat
    BY <1>1
  <2>3. QED
    BY <2>1, <2>2 DEF Sums
<1>5. f = F(f)
  BY <1>1, <1>4 DEF Sums
<1>6. upTo = F(upTo)
  BY <1>5
<1>7. Part(a, m) = upTo[m]
  BY DEF Part
<1>8. upTo[m] = f[m]
  <2> DEFINE T == {k \in 0 .. m : upTo[k] = f[k]}
  <2>1. upTo[0] = 0 /\ \A k \in 1 .. m : upTo[k] = upTo[k - 1] + a[k - 1] * Weight[k - 1]
    <3> HIDE DEF upTo
    <3>1. QED
      BY <1>1, <1>6
  <2> HIDE DEF upTo
  <2>2. 0 \in T
    BY <1>1, <1>4, <2>1 DEF Sums
  <2>3. \A k \in 1 .. m : k - 1 \in T => k \in T
    BY <1>4, <2>1 DEF Sums
  <2>4. \A k \in 0 .. m : k \in T
    <3> HIDE DEF T
    <3>1. QED
      BY <1>1, <2>2, <2>3, UpTo
  <2>5. QED
    BY <1>1, <2>4
<1>9. QED
  BY <1>4, <1>7, <1>8

Same(a, c, m) == \A i \in 0 .. (m - 1) : a[i] = c[i]

LEMMA SumsUnique ==
    ASSUME NEW m \in Nat, NEW a, NEW c, Same(a, c, m),
           NEW f, NEW h, Sums(f, a, m), Sums(h, c, m)
    PROVE  \A k \in 0 .. m : f[k] = h[k]
<1> DEFINE T == {k \in 0 .. m : f[k] = h[k]}
<1>1. 0 \in T
  BY DEF Sums
<1>2. \A k \in 1 .. m : k - 1 \in T => k \in T
  <2>1. \A k \in 1 .. m : k - 1 \in 0 .. (m - 1)
    OBVIOUS
  <2>2. QED
    BY <2>1 DEF Sums, Same
<1>3. \A k \in 0 .. m : k \in T
  <2> HIDE DEF T
  <2>1. QED
    BY <1>1, <1>2, UpTo
<1>4. QED
  BY <1>3

LEMMA PartSame ==
    ASSUME NEW m \in 0 .. Top, NEW a, NEW c, Digits(a, m), Digits(c, m), Same(a, c, m)
    PROVE  Part(a, m) = Part(c, m)
<1>1. PICK f \in [0 .. m -> Nat] : Sums(f, a, m) /\ Part(a, m) = f[m]
  BY SumsExist
<1>2. PICK h \in [0 .. m -> Nat] : Sums(h, c, m) /\ Part(c, m) = h[m]
  BY SumsExist
<1>3. m \in Nat /\ m \in 0 .. m
  BY TopFacts
<1>4. \A k \in 0 .. m : f[k] = h[k]
  BY <1>1, <1>2, <1>3, SumsUnique
<1>5. QED
  BY <1>1, <1>2, <1>3, <1>4

LEMMA PartStep ==
    ASSUME NEW m \in 1 .. Top, NEW a, Digits(a, m)
    PROVE  Part(a, m) = Part(a, m - 1) + a[m - 1] * Weight[m - 1]
<1>1. /\ m \in 0 .. Top /\ m - 1 \in 0 .. Top /\ m - 1 \in Nat /\ m - 1 \in 0 .. (m - 1)
      /\ m \in 1 .. m /\ \A k \in 1 .. (m - 1) : k \in 1 .. m
      /\ \A k \in 0 .. ((m - 1) - 1) : k \in 0 .. (m - 1)
  BY TopFacts
<1>2. PICK f \in [0 .. m -> Nat] : Sums(f, a, m) /\ Part(a, m) = f[m]
  BY <1>1, SumsExist
<1>3. PICK h \in [0 .. (m - 1) -> Nat] : Sums(h, a, m - 1) /\ Part(a, m - 1) = h[m - 1]
  <2>1. Digits(a, m - 1)
    BY <1>1 DEF Digits
  <2>2. QED
    BY <1>1, <2>1, SumsExist
<1>4. Sums(f, a, m - 1)
  BY <1>1, <1>2 DEF Sums
<1>5. f[m - 1] = h[m - 1]
  <2>1. \A k \in 0 .. (m - 1) : f[k] = h[k]
    <3>1. Same(a, a, m - 1)
      BY DEF Same
    <3>2. QED
      BY <1>1, <1>3, <1>4, <3>1, SumsUnique
  <2>2. QED
    BY <1>1, <2>1
<1>6. f[m] = f[m - 1] + a[m - 1] * Weight[m - 1]
  BY <1>1, <1>2 DEF Sums
<1>7. QED
  BY <1>2, <1>3, <1>5, <1>6

LEMMA PartType ==
    ASSUME NEW m \in 0 .. Top, NEW a, Digits(a, m)
    PROVE  Part(a, m) \in Nat
<1>1. PICK f \in [0 .. m -> Nat] : Part(a, m) = f[m]
  BY SumsExist
<1>2. QED
  BY <1>1, TopFacts

LEMMA PartNothing ==
    ASSUME NEW a
    PROVE  Part(a, 0) = 0
<1>1. Digits(a, 0) /\ 0 \in 0 .. Top
  BY TopFacts DEF Digits
<1>2. PICK f \in [0 .. 0 -> Nat] : Sums(f, a, 0) /\ Part(a, 0) = f[0]
  BY <1>1, SumsExist
<1>3. QED
  BY <1>2 DEF Sums

-----------------------------------------------------------------------------
(* Division.                                                               *)

LEMMA Monotone ==
    ASSUME NEW u \in Nat, NEW v \in Nat, NEW w \in Nat, u <= v
    PROVE  u * w <= v * w
<1>1. (v - u) * w \in Nat
  BY Products
<1>2. v * w = u * w + (v - u) * w
  OBVIOUS
<1>3. u * w \in Nat /\ v * w \in Nat
  BY Products
<1>4. QED
  BY <1>1, <1>2, <1>3

LEMMA Quotient ==
    ASSUME NEW v \in Int, NEW w \in Nat \ {0}
    PROVE  /\ v \div w \in Int /\ v % w \in 0 .. (w - 1)
           /\ v = (v \div w) * w + (v % w)
           /\ v \in Nat => v \div w \in Nat
OBVIOUS

LEMMA Remainder ==
    ASSUME NEW v \in Int, NEW w \in Nat \ {0}, NEW q \in Int, NEW r \in 0 .. (w - 1),
           v = q * w + r
    PROVE  v \div w = q /\ v % w = r
OBVIOUS

LEMMA RemainderOfMultiple ==
    ASSUME NEW v \in Int, NEW w \in Nat \ {0}, NEW k \in Int
    PROVE  (v + k * w) % w = v % w
<1>1. /\ v \div w \in Int /\ v % w \in 0 .. (w - 1)
      /\ v = (v \div w) * w + (v % w)
  BY Quotient
<1>2. v + k * w = ((v \div w) + k) * w + (v % w)
  BY <1>1
<1>3. v + k * w \in Int /\ (v \div w) + k \in Int
  BY <1>1
<1>4. QED
  BY <1>1, <1>2, <1>3, Remainder

\* A word above a number that fits below it.
LEMMA DigitBound ==
    ASSUME NEW u \in Nat, NEW w \in Nat, NEW d \in Word, u < w
    PROVE  d * w \in Nat /\ u + d * w < Base * w
<1>1. d \in Nat /\ d + 1 \in Nat /\ d + 1 <= Base /\ Base \in Nat
  BY BaseFacts DEF Word
<1>2. (d + 1) * w <= Base * w
  BY <1>1, Monotone
<1>3. (d + 1) * w = d * w + w
  BY <1>1
<1>4. d * w \in Nat /\ Base * w \in Nat
  BY <1>1, Products
<1>5. QED
  BY <1>2, <1>3, <1>4

LEMMA NextDigit ==
    ASSUME NEW v \in Nat, NEW w \in Nat \ {0}
    PROVE  v % (Base * w) = (v % w) + ((v \div w) % Base) * w
<1> DEFINE r == v % w
           q == v \div w
           d == q % Base
           h == q \div Base
<1>1. r \in 0 .. (w - 1) /\ q \in Nat /\ v = q * w + r
  <2>1. v \in Int
    OBVIOUS
  <2>2. QED
    BY <2>1, Quotient
<1>2. d \in Word /\ h \in Nat /\ q = h * Base + d
  <2>1. q \in Int /\ q \in Nat /\ Base \in Nat \ {0}
    BY <1>1, BaseFacts
  <2> HIDE DEF q
  <2>2. QED
    BY <2>1, Quotient DEF Word
<1> HIDE DEF r, q, d, h
<1>3. r + d * w \in 0 .. (Base * w - 1)
  <2>1. r \in Nat /\ r < w
    BY <1>1
  <2>2. d * w \in Nat /\ r + d * w < Base * w
    BY <1>2, <2>1, DigitBound
  <2>3. Base * w \in Nat
    BY BaseFacts, Products
  <2>4. QED
    BY <2>1, <2>2, <2>3
<1>4. v = h * (Base * w) + (r + d * w)
  <2>1. (h * Base + d) * w = h * (Base * w) + d * w
    BY <1>2, BaseFacts DEF Word
  <2>2. h * (Base * w) \in Nat /\ d * w \in Nat
    BY <1>2, BaseFacts, Products DEF Word
  <2>3. QED
    BY <1>1, <1>2, <2>1, <2>2
<1>5. Base * w \in Nat \ {0} /\ h \in Int
  BY <1>2, BaseFacts, Products
<1>6. v % (Base * w) = r + d * w
  BY <1>3, <1>4, <1>5, Remainder
<1>7. QED
  BY <1>6 DEF r, d, q

-----------------------------------------------------------------------------
(* Arrays of words as numbers.                                             *)

LEMMA PartBound ==
    ASSUME NEW m \in 0 .. Top, NEW a, Digits(a, m)
    PROVE  Part(a, m) \in 0 .. (Weight[m] - 1)
<1> DEFINE T == {k \in 0 .. m : Part(a, k) < Weight[k]}
<1>1. m \in Nat /\ \A k \in 0 .. m : k \in 0 .. Top /\ Digits(a, k)
  BY TopFacts DEF Digits
<1>2. 0 \in T
  BY <1>1, PartNothing, Weights, TopFacts
<1>3. ASSUME NEW k \in 1 .. m, k - 1 \in T PROVE k \in T
  <2>1. k \in 1 .. Top /\ k \in 0 .. m /\ k - 1 \in 0 .. m /\ k - 1 \in 0 .. (k - 1)
    BY TopFacts
  <2>2. Part(a, k) = Part(a, k - 1) + a[k - 1] * Weight[k - 1]
    BY <1>1, <2>1, PartStep
  <2>3. Weight[k] = Base * Weight[k - 1] /\ Weight[k - 1] \in Nat
    BY <1>1, <2>1, Weights
  <2>4. a[k - 1] \in Word
    BY <1>1, <2>1 DEF Digits
  <2>5. Part(a, k - 1) \in Nat /\ Part(a, k - 1) < Weight[k - 1]
    BY <1>1, <1>3, <2>1, PartType
  <2>6. Part(a, k - 1) + a[k - 1] * Weight[k - 1] < Base * Weight[k - 1]
    BY <2>3, <2>4, <2>5, DigitBound
  <2>7. QED
    BY <2>1, <2>2, <2>3, <2>6
<1>4. \A k \in 0 .. m : k \in T
  <2> HIDE DEF T
  <2>1. QED
    BY <1>1, <1>2, <1>3, UpTo
<1>5. Part(a, m) < Weight[m] /\ Weight[m] \in Nat
  BY <1>1, <1>4, Weights
<1>6. Part(a, m) \in Nat
  BY PartType
<1>7. QED
  BY <1>5, <1>6

LEMMA WordsAreDigits ==
    ASSUME NEW a \in Words
    PROVE  Digits(a, SIZE) /\ \A m \in 0 .. SIZE : m \in 0 .. Top /\ Digits(a, m)
BY TopFacts DEF Words, Word, Index, Digits

LEMMA ValueIsPart ==
    ASSUME NEW a
    PROVE  Value(a) = Part(a, SIZE)
BY DEF Value, Part

LEMMA ValueType ==
    ASSUME NEW a \in Words
    PROVE  Value(a) \in 0 .. (R - 1)
<1>1. SIZE \in 0 .. Top
  BY TopFacts
<1>2. QED
  BY <1>1, WordsAreDigits, ValueIsPart, PartBound DEF R

LEMMA FromValueType ==
    ASSUME NEW v \in Nat
    PROVE  FromValue(v) \in Words
<1>1. ASSUME NEW i \in Index PROVE (v \div Weight[i]) % Base \in 0 .. (Base - 1)
  <2>1. Weight[i] \in Nat \ {0}
    BY TopFacts, Weights DEF Index
  <2>2. v \div Weight[i] \in Int
    BY <2>1
  <2>3. QED
    BY <2>2, BaseFacts
<1>2. QED
  BY <1>1 DEF FromValue, Words

LEMMA PartOfFromValue ==
    ASSUME NEW v \in Nat, NEW m \in 0 .. SIZE
    PROVE  Part(FromValue(v), m) = v % Weight[m]
<1> DEFINE a == FromValue(v)
           T == {k \in 0 .. m : Part(a, k) = v % Weight[k]}
<1>1. a \in Words
  BY FromValueType
<1>2. m \in Nat /\ \A k \in 0 .. m : k \in 0 .. Top /\ Digits(a, k)
  BY <1>1, TopFacts, WordsAreDigits
<1>3. \A i \in Index : a[i] = (v \div Weight[i]) % Base
  BY DEF FromValue
<1> HIDE DEF a
<1>4. 0 \in T
  <2>1. v % 1 = 0
    OBVIOUS
  <2>2. QED
    BY <1>2, <2>1, PartNothing, Weights
<1>5. ASSUME NEW k \in 1 .. m, k - 1 \in T PROVE k \in T
  <2>1. k \in 1 .. Top /\ k \in 0 .. m /\ k - 1 \in 0 .. m /\ k - 1 \in Index
    BY TopFacts DEF Index
  <2>2. Part(a, k) = Part(a, k - 1) + a[k - 1] * Weight[k - 1]
    BY <1>2, <2>1, PartStep
  <2>3. Weight[k] = Base * Weight[k - 1] /\ Weight[k - 1] \in Nat \ {0}
    BY <1>2, <2>1, Weights
  <2>4. v % (Base * Weight[k - 1])
          = (v % Weight[k - 1]) + ((v \div Weight[k - 1]) % Base) * Weight[k - 1]
    BY <2>3, NextDigit
  <2>5. a[k - 1] = (v \div Weight[k - 1]) % Base /\ Part(a, k - 1) = v % Weight[k - 1]
    BY <1>3, <1>5, <2>1
  <2>6. Part(a, k) = v % Weight[k]
    BY <2>2, <2>3, <2>4, <2>5
  <2>7. QED
    BY <2>1, <2>6
<1>6. \A k \in 0 .. m : k \in T
  <2> HIDE DEF T
  <2>1. QED
    BY <1>2, <1>4, <1>5, UpTo
<1>7. m \in T
  BY <1>2, <1>6
<1>8. QED
  BY <1>7 DEF a

LEMMA RFacts == R \in Nat \ {0} /\ R = Weight[SIZE] /\ R % 2 = 0
<1>1. SIZE \in 1 .. Top /\ SIZE \in 0 .. Top /\ SIZE - 1 \in 0 .. Top
  BY TopFacts
<1>2. R = Base * Weight[SIZE - 1] /\ Weight[SIZE - 1] \in Nat /\ R \in Nat \ {0}
  BY <1>1, Weights DEF R
<1>3. PICK h \in Nat : Base = 2 * h
  <2>1. Base = 2 * (Base \div 2) /\ Base \div 2 \in Nat
    BY BaseFacts
  <2>2. QED
    BY <2>1
<1>4. (2 * h) * Weight[SIZE - 1] = 2 * (h * Weight[SIZE - 1])
  BY <1>2
<1>5. h * Weight[SIZE - 1] \in Nat
  BY <1>2, Products
<1>6. R % 2 = 0
  BY <1>2, <1>3, <1>4, <1>5
<1>7. QED
  BY <1>2, <1>6 DEF R

LEMMA ValueOfFromValue ==
    ASSUME NEW v \in 0 .. (R - 1)
    PROVE  FromValue(v) \in Words /\ Value(FromValue(v)) = v
<1>1. v \in Nat /\ SIZE \in 0 .. SIZE /\ R \in Nat \ {0} /\ R = Weight[SIZE]
  BY RFacts, TopFacts
<1>2. v % R = v
  BY <1>1
<1>3. QED
  BY <1>1, <1>2, FromValueType, PartOfFromValue, ValueIsPart

\* The most significant word in which two numbers differ decides.
LEMMA TopWordDecides ==
    ASSUME NEW a \in Words, NEW c \in Words, NEW t \in Index, a[t] < c[t],
           \A j \in (t + 1) .. (SIZE - 1) : a[j] = c[j]
    PROVE  Value(a) < Value(c)
<1> DEFINE T == {k \in 0 .. SIZE : k > t => Part(a, k) < Part(c, k)}
<1>1. /\ t \in Nat /\ t + 1 \in 1 .. Top /\ t + 1 \in 0 .. SIZE /\ t \in 0 .. SIZE
      /\ t \in 0 .. Top /\ SIZE \in Nat
      /\ \A k \in 1 .. SIZE : k \in 1 .. Top /\ k - 1 \in 0 .. SIZE /\ k - 1 \in Index
  BY TopFacts DEF Index
<1>2. \A k \in 0 .. SIZE : /\ Digits(a, k) /\ Digits(c, k)
                           /\ Part(a, k) \in Nat /\ Part(c, k) \in Nat
  BY WordsAreDigits, PartType
<1>3. Part(a, t + 1) < Part(c, t + 1)
  <2>1. /\ Part(a, t + 1) = Part(a, t) + a[t] * Weight[t]
        /\ Part(c, t + 1) = Part(c, t) + c[t] * Weight[t]
    <3>1. (t + 1) - 1 = t
      BY <1>1
    <3>2. /\ Part(a, t + 1) = Part(a, (t + 1) - 1) + a[(t + 1) - 1] * Weight[(t + 1) - 1]
          /\ Part(c, t + 1) = Part(c, (t + 1) - 1) + c[(t + 1) - 1] * Weight[(t + 1) - 1]
      BY <1>1, <1>2, PartStep
    <3>3. QED
      BY <3>1, <3>2
  <2>2. Part(a, t) < Weight[t] /\ Weight[t] \in Nat /\ Part(a, t) \in Nat /\ Part(c, t) \in Nat
    BY <1>1, <1>2, PartBound, Weights
  <2>3. a[t] \in Nat /\ c[t] \in Nat /\ a[t] + 1 \in Nat /\ a[t] + 1 <= c[t]
    BY BaseFacts DEF Words
  <2>4. (a[t] + 1) * Weight[t] <= c[t] * Weight[t]
    BY <2>2, <2>3, Monotone
  <2>5. (a[t] + 1) * Weight[t] = a[t] * Weight[t] + Weight[t]
    BY <2>2, <2>3
  <2>6. a[t] * Weight[t] \in Nat /\ c[t] * Weight[t] \in Nat
    BY <2>2, <2>3, Products
  <2>7. QED
    BY <2>1, <2>2, <2>4, <2>5, <2>6
<1>4. 0 \in T
  BY <1>1
<1>5. ASSUME NEW k \in 1 .. SIZE, k - 1 \in T PROVE k \in T
  <2>1. CASE k < t + 1
    BY <1>1, <2>1
  <2>2. CASE k = t + 1
    BY <1>1, <1>3, <2>2
  <2>3. CASE k > t + 1
    <3>1. k - 1 \in (t + 1) .. (SIZE - 1) /\ k - 1 \in 0 .. SIZE /\ k \in 0 .. SIZE
          /\ k \in 1 .. Top /\ k - 1 \in 0 .. Top /\ k - 1 > t
      BY <1>1, <2>3, TopFacts
    <3>2. /\ Part(a, k) = Part(a, k - 1) + a[k - 1] * Weight[k - 1]
          /\ Part(c, k) = Part(c, k - 1) + c[k - 1] * Weight[k - 1]
      BY <1>2, <3>1, PartStep
    <3>3. a[k - 1] = c[k - 1] /\ c[k - 1] \in Nat /\ Weight[k - 1] \in Nat
      BY <1>1, <3>1, BaseFacts, Weights DEF Words
    <3>4. c[k - 1] * Weight[k - 1] \in Nat
      BY <3>3, Products
    <3>5. Part(a, k - 1) < Part(c, k - 1)
      BY <1>5, <3>1
    <3>6. Part(a, k - 1) \in Nat /\ Part(c, k - 1) \in Nat
      BY <1>2, <3>1
    <3>7. Part(a, k) < Part(c, k)
      BY <3>2, <3>3, <3>4, <3>5, <3>6
    <3>8. QED
      BY <3>1, <3>7
  <2>4. QED
    BY <1>1, <2>1, <2>2, <2>3
<1>6. \A k \in 0 .. SIZE : k \in T
  <2> HIDE DEF T
  <2>1. QED
    BY <1>1, <1>4, <1>5, UpTo
<1>7. SIZE \in 0 .. SIZE /\ SIZE > t
  BY <1>1, TopFacts DEF Index
<1>8. Part(a, SIZE) < Part(c, SIZE)
  BY <1>6, <1>7
<1>9. QED
  BY <1>8, ValueIsPart

LEMMA TopDifference ==
    ASSUME NEW a \in Words, NEW c \in Words, a # c
    PROVE  \E t \in Index : a[t] # c[t] /\ \A j \in (t + 1) .. (SIZE - 1) : a[j] = c[j]
<1> DEFINE T == {k \in Nat : \E t \in Index : k = SIZE - 1 - t /\ a[t] # c[t]}
<1>1. PICK t \in Index : a[t] # c[t]
  BY DEF Words
<1>2. SIZE - 1 - t \in T
  BY <1>1, TopFacts DEF Index
<1>3. PICK k \in T : \A j \in T : k <= j
  <2>1. T \in SUBSET Nat /\ T # {}
    BY <1>2
  <2> HIDE DEF T
  <2>2. QED
    BY <2>1, Least
<1>4. PICK u \in Index : k = SIZE - 1 - u /\ a[u] # c[u]
  BY <1>3
<1>5. ASSUME NEW j \in (u + 1) .. (SIZE - 1), a[j] # c[j] PROVE FALSE
  <2>1. j \in Index /\ SIZE - 1 - j \in Nat /\ ~(k <= SIZE - 1 - j)
    BY <1>4, TopFacts DEF Index
  <2>2. SIZE - 1 - j \in T
    BY <1>5, <2>1
  <2>3. QED
    BY <1>3, <2>1, <2>2
<1>6. QED
  BY <1>4, <1>5

\* compare compares the numbers; so different words are different numbers.
LEMMA CompareCompares ==
    ASSUME NEW a \in Words, NEW c \in Words
    PROVE  /\ compare(a, c) \in {-1, 0, 1}
           /\ compare(a, c) = 0 <=> Value(a) = Value(c)
           /\ compare(a, c) = 1 <=> Value(a) > Value(c)
           /\ Value(a) = Value(c) => a = c
<1>1. Value(a) \in Nat /\ Value(c) \in Nat
  BY ValueType
<1>2. CASE a = c
  BY <1>1, <1>2 DEF compare
<1>3. CASE a # c
  <2> DEFINE top == CHOOSE i \in Index : a[i] # c[i] /\ \A j \in (i + 1) .. (SIZE - 1) : a[j] = c[j]
  <2>1. top \in Index /\ a[top] # c[top] /\ \A j \in (top + 1) .. (SIZE - 1) : a[j] = c[j]
    BY <1>3, TopDifference
  <2>2. compare(a, c) = IF a[top] > c[top] THEN 1 ELSE -1
    BY <1>3 DEF compare
  <2> HIDE DEF top
  <2>3. a[top] \in Int /\ c[top] \in Int
    BY <2>1, BaseFacts DEF Words
  <2>4. CASE a[top] < c[top]
    <3>1. Value(a) < Value(c)
      BY <2>1, <2>4, TopWordDecides
    <3>2. compare(a, c) = -1
      BY <2>2, <2>3, <2>4
    <3>3. QED
      BY <1>1, <3>1, <3>2
  <2>5. CASE c[top] < a[top]
    <3>1. Value(c) < Value(a)
      BY <2>1, <2>5, TopWordDecides
    <3>2. compare(a, c) = 1
      BY <2>2, <2>3, <2>5
    <3>3. QED
      BY <1>1, <3>1, <3>2
  <2>6. QED
    BY <2>1, <2>3, <2>4, <2>5
<1>4. QED
  BY <1>2, <1>3

-----------------------------------------------------------------------------
(* Addition and subtraction, word by word.                                 *)

LEMMA Wrap ==
    ASSUME NEW v \in Int, v >= -Base, v < 2 * Base
    PROVE  v % Base = IF v < 0 THEN v + Base ELSE IF v < Base THEN v ELSE v - Base
<1>1. Base \in Nat \ {0}
  BY BaseFacts
<1>2. CASE v < 0
  <2>1. v + Base \in 0 .. (Base - 1) /\ v = (-1) * Base + (v + Base)
    BY <1>1, <1>2
  <2>2. v % Base = v + Base
    BY <1>1, <2>1, Remainder
  <2>3. QED
    BY <1>2, <2>2
<1>3. CASE v >= 0 /\ v < Base
  BY <1>1, <1>3
<1>4. CASE v >= Base
  <2>1. v - Base \in 0 .. (Base - 1) /\ v = 1 * Base + (v - Base)
    BY <1>1, <1>4
  <2>2. v % Base = v - Base
    BY <1>1, <2>1, Remainder
  <2>3. QED
    BY <1>1, <1>4, <2>2
<1>5. QED
  BY <1>1, <1>2, <1>3, <1>4

CarryOut(x, y, carry) ==
    LET temp == (x + carry) % Base
    IN  IF temp < x \/ (temp + y) % Base < temp THEN 1 ELSE 0

LEMMA WordSum ==
    ASSUME NEW x \in Word, NEW y \in Word, NEW carry \in {0, 1}
    PROVE  /\ CarryOut(x, y, carry) \in {0, 1} /\ (x + carry + y) % Base \in Word
           /\ ((x + carry + y) % Base) + CarryOut(x, y, carry) * Base = x + carry + y
<1> DEFINE temp == (x + carry) % Base
           second == (temp + y) % Base
           res == (x + carry + y) % Base
<1>1. Base \in Nat /\ Base >= 2 /\ x \in 0 .. (Base - 1) /\ y \in 0 .. (Base - 1)
  BY BaseFacts DEF Word
<1>2. temp = IF x + carry < Base THEN x + carry ELSE x + carry - Base
  BY <1>1, Wrap
<1>3. temp \in 0 .. (Base - 1)
  BY <1>1, <1>2
<1> HIDE DEF temp
<1>4. second = IF temp + y < Base THEN temp + y ELSE temp + y - Base
  BY <1>1, <1>3, Wrap
<1>5. res = IF x + carry + y < Base THEN x + carry + y ELSE x + carry + y - Base
  BY <1>1, Wrap
<1>6. CarryOut(x, y, carry) = IF temp < x \/ second < temp THEN 1 ELSE 0
  BY DEF CarryOut, temp
<1> HIDE DEF second, res
<1>7. CarryOut(x, y, carry) = IF x + carry + y < Base THEN 0 ELSE 1
  BY <1>1, <1>2, <1>3, <1>4, <1>6
<1>8. res \in Word /\ res + CarryOut(x, y, carry) * Base = x + carry + y
  BY <1>1, <1>5, <1>7 DEF Word
<1>9. QED
  BY <1>7, <1>8 DEF res

BorrowOut(x, y, carry) ==
    LET temp == (x + carry) % Base
    IN  IF temp > x \/ (temp - y) % Base > temp THEN Base - 1 ELSE 0

\* A borrow is a word of ones.
Borrow(carry) == IF carry = 0 THEN 0 ELSE 1

LEMMA WordDifference ==
    ASSUME NEW x \in Word, NEW y \in Word, NEW carry \in {0, Base - 1}
    PROVE  /\ BorrowOut(x, y, carry) \in {0, Base - 1} /\ (x + carry - y) % Base \in Word
           /\ ((x + carry - y) % Base) - Borrow(BorrowOut(x, y, carry)) * Base
                = x - Borrow(carry) - y
<1> DEFINE temp == (x + carry) % Base
           second == (temp - y) % Base
           res == (x + carry - y) % Base
<1>1. Base \in Nat /\ Base >= 2 /\ x \in 0 .. (Base - 1) /\ y \in 0 .. (Base - 1)
  BY BaseFacts DEF Word
<1>2. temp = IF x + carry < Base THEN x + carry ELSE x + carry - Base
  BY <1>1, Wrap
<1>3. temp \in 0 .. (Base - 1)
  BY <1>1, <1>2
<1> HIDE DEF temp
<1>4. second = IF temp - y < 0 THEN temp - y + Base ELSE temp - y
  BY <1>1, <1>3, Wrap
<1>5. res = IF x + carry - y < 0 THEN x + carry - y + Base
            ELSE IF x + carry - y < Base THEN x + carry - y ELSE x + carry - y - Base
  BY <1>1, Wrap
<1>6. BorrowOut(x, y, carry) = IF temp > x \/ second > temp THEN Base - 1 ELSE 0
  BY DEF BorrowOut, temp
<1> HIDE DEF second, res
<1>7. BorrowOut(x, y, carry) = IF x - Borrow(carry) - y < 0 THEN Base - 1 ELSE 0
  BY <1>1, <1>2, <1>3, <1>4, <1>6 DEF Borrow
<1>8. res \in Word /\ res - Borrow(BorrowOut(x, y, carry)) * Base = x - Borrow(carry) - y
  BY <1>1, <1>5, <1>7 DEF Word, Borrow
<1>9. QED
  BY <1>7, <1>8 DEF res

LEMMA Distribute ==
    ASSUME NEW u \in Int, NEW v \in Int, NEW w \in Int
    PROVE  (u + v) * w = u * w + v * w /\ (u - v) * w = u * w - v * w /\ u * w \in Int
OBVIOUS

\* The low words and what is carried out of them make up the sum, or the
\* difference if y and the carry are negative; so it is for one word.
LowSum(low, carry, w, low1, low2) == low + carry * w = low1 + low2
OneSum(r, out, x, in, y) == r + out * Base = x + in + y

LEMMA SumStep ==
    ASSUME NEW low \in Int, NEW low1 \in Int, NEW low2 \in Int, NEW in \in Int, NEW out \in Int,
           NEW x \in Int, NEW y \in Int, NEW r \in Int, NEW w \in Int,
           LowSum(low, in, w, low1, low2), OneSum(r, out, x, in, y)
    PROVE  LowSum(low + r * w, out, Base * w, low1 + x * w, low2 + y * w)
<1>1. Base \in Int
  BY BaseFacts
<1>0. low + in * w = low1 + low2 /\ r + out * Base = x + in + y
  BY DEF LowSum, OneSum
<1>2. (r + out * Base) * w = r * w + (out * Base) * w
  BY <1>1, Distribute
<1>3. (out * Base) * w = out * (Base * w)
  BY <1>1
<1>4. (x + in + y) * w = x * w + in * w + y * w
  BY Distribute
<1>5. /\ r * w \in Int /\ out * (Base * w) \in Int
      /\ x * w \in Int /\ in * w \in Int /\ y * w \in Int
  BY <1>1
<1>6. r * w + out * (Base * w) = x * w + in * w + y * w
  BY <1>0, <1>2, <1>3, <1>4
<1>7. (low + r * w) + out * (Base * w) = (low1 + x * w) + (low2 + y * w)
  BY <1>0, <1>5, <1>6
<1>8. QED
  BY <1>7 DEF LowSum

LEMMA AddOverflow ==
    ASSUME NEW a \in Words, NEW c \in Words
    PROVE  /\ add_overflow(a, c).res \in Words /\ add_overflow(a, c).carry \in {0, 1}
           /\ Value(add_overflow(a, c).res) + add_overflow(a, c).carry * R
                = Value(a) + Value(c)
<1> DEFINE F(f) == [i \in 0 .. SIZE |-> IF i = 0 THEN 0
                                        ELSE CarryOut(a[i - 1], c[i - 1], f[i - 1])]
           G == [k \in 1 .. SIZE |-> [v \in {0, 1} |-> CarryOut(a[k - 1], c[k - 1], v)]]
           carry == CHOOSE f : f = F(f)
           res == [i \in Index |-> (a[i] + carry[i] + c[i]) % Base]
<1>1. /\ SIZE \in Nat /\ SIZE \in 0 .. SIZE /\ 0 \in 0 .. SIZE
      /\ \A k \in 1 .. SIZE : k - 1 \in Index /\ k - 1 \in 0 .. SIZE /\ k \in 1 .. Top /\ k \in 0 .. SIZE
      /\ \A i \in Index : i \in 0 .. SIZE
  BY TopFacts DEF Index
<1>2. \A i \in Index : a[i] \in Word /\ c[i] \in Word
  BY DEF Words, Word
<1>3. PICK f \in [0 .. SIZE -> {0, 1}] : Iterates(f, SIZE, 0, G)
  <2>1. G \in [1 .. SIZE -> [{0, 1} -> {0, 1}]]
    BY <1>1, <1>2, WordSum
  <2> HIDE DEF G
  <2>2. QED
    BY <1>1, <2>1, Recursion
<1>4. f[0] = 0 /\ \A k \in 1 .. SIZE : f[k] = CarryOut(a[k - 1], c[k - 1], f[k - 1])
  BY <1>1, <1>3 DEF Iterates
<1>5. f = F(f)
  BY <1>1, <1>4
<1>6. carry = F(carry)
  BY <1>5
<1>7. add_overflow(a, c) = [res |-> res, carry |-> carry[SIZE]]
  BY DEF add_overflow, CarryOut
<1>8. carry[0] = 0 /\ \A k \in 1 .. SIZE : carry[k] = CarryOut(a[k - 1], c[k - 1], carry[k - 1])
  <2> HIDE DEF carry
  <2>1. QED
    BY <1>1, <1>6
<1> HIDE DEF carry
<1>9. \A k \in 0 .. SIZE : carry[k] \in {0, 1}
  <2> DEFINE T == {k \in 0 .. SIZE : carry[k] \in {0, 1}}
  <2>1. 0 \in T
    BY <1>1, <1>8
  <2>2. \A k \in 1 .. SIZE : k - 1 \in T => k \in T
    BY <1>1, <1>2, <1>8, WordSum
  <2>3. \A k \in 0 .. SIZE : k \in T
    <3> HIDE DEF T
    <3>1. QED
      BY <1>1, <2>1, <2>2, UpTo
  <2>4. QED
    BY <2>3
<1>10. \A i \in Index : res[i] \in Word
  BY <1>1, <1>2, <1>9, WordSum
<1>11. res \in Words
  BY <1>10 DEF Words, Word
<1>12. \A k \in 1 .. SIZE :
         res[k - 1] + carry[k] * Base = a[k - 1] + carry[k - 1] + c[k - 1]
  <2> SUFFICES ASSUME NEW k \in 1 .. SIZE
               PROVE  res[k - 1] + carry[k] * Base = a[k - 1] + carry[k - 1] + c[k - 1]
    OBVIOUS
  <2>1. /\ res[k - 1] = (a[k - 1] + carry[k - 1] + c[k - 1]) % Base
        /\ carry[k] = CarryOut(a[k - 1], c[k - 1], carry[k - 1])
        /\ a[k - 1] \in Word /\ c[k - 1] \in Word /\ carry[k - 1] \in {0, 1}
    BY <1>1, <1>2, <1>8, <1>9
  <2> HIDE DEF res
  <2>2. QED
    BY <2>1, WordSum
<1> HIDE DEF res
<1> DEFINE T == {k \in 0 .. SIZE : Part(res, k) + carry[k] * Weight[k] = Part(a, k) + Part(c, k)}
<1>13. 0 \in T
  BY <1>1, <1>8, PartNothing, Weights
<1>14. ASSUME NEW k \in 1 .. SIZE, k - 1 \in T PROVE k \in T
  <2>1. /\ Digits(res, k) /\ Digits(a, k) /\ Digits(c, k)
        /\ Digits(res, k - 1) /\ Digits(a, k - 1) /\ Digits(c, k - 1)
        /\ k - 1 \in 0 .. Top
    BY <1>1, <1>11, WordsAreDigits
  <2>2. /\ Part(res, k) = Part(res, k - 1) + res[k - 1] * Weight[k - 1]
        /\ Part(a, k) = Part(a, k - 1) + a[k - 1] * Weight[k - 1]
        /\ Part(c, k) = Part(c, k - 1) + c[k - 1] * Weight[k - 1]
    BY <1>1, <2>1, PartStep
  <2>3. /\ Part(res, k - 1) \in Int /\ Part(a, k - 1) \in Int /\ Part(c, k - 1) \in Int
    BY <2>1, PartType
  <2>4. /\ res[k - 1] \in Int /\ a[k - 1] \in Int /\ c[k - 1] \in Int
        /\ carry[k] \in Int /\ carry[k - 1] \in Int
    <3>1. \A w \in Word : w \in Int
      BY BaseFacts DEF Word
    <3>2. res[k - 1] \in Word /\ a[k - 1] \in Word /\ c[k - 1] \in Word
      BY <1>1, <1>2, <1>10
    <3>3. carry[k] \in {0, 1} /\ carry[k - 1] \in {0, 1}
      BY <1>1, <1>9
    <3>4. QED
      BY <3>1, <3>2, <3>3
  <2>5. Weight[k] = Base * Weight[k - 1] /\ Weight[k - 1] \in Int
    BY <1>1, <2>1, Weights
  <2>6. LowSum(Part(res, k - 1), carry[k - 1], Weight[k - 1], Part(a, k - 1), Part(c, k - 1))
    BY <1>14 DEF LowSum
  <2>7. OneSum(res[k - 1], carry[k], a[k - 1], carry[k - 1], c[k - 1])
    BY <1>12 DEF OneSum
  <2>8. LowSum(Part(res, k - 1) + res[k - 1] * Weight[k - 1], carry[k], Base * Weight[k - 1],
               Part(a, k - 1) + a[k - 1] * Weight[k - 1],
               Part(c, k - 1) + c[k - 1] * Weight[k - 1])
    BY <2>3, <2>4, <2>5, <2>6, <2>7, SumStep
  <2>9. LowSum(Part(res, k), carry[k], Weight[k], Part(a, k), Part(c, k))
    BY <2>2, <2>5, <2>8
  <2>10. QED
    BY <1>1, <2>9 DEF LowSum
<1>15. \A k \in 0 .. SIZE : k \in T
  <2> HIDE DEF T
  <2>1. QED
    BY <1>1, <1>13, <1>14, UpTo
<1>16. Part(res, SIZE) + carry[SIZE] * Weight[SIZE] = Part(a, SIZE) + Part(c, SIZE)
  BY <1>1, <1>15
<1>17. QED
  BY <1>1, <1>7, <1>9, <1>11, <1>16, ValueIsPart DEF R

LEMMA SubOverflow ==
    ASSUME NEW a \in Words, NEW c \in Words
    PROVE  /\ sub_overflow(a, c).res \in Words /\ sub_overflow(a, c).carry \in {0, Base - 1}
           /\ Value(sub_overflow(a, c).res) - Borrow(sub_overflow(a, c).carry) * R
                = Value(a) - Value(c)
<1> DEFINE F(f) == [i \in 0 .. SIZE |-> IF i = 0 THEN 0
                                        ELSE BorrowOut(a[i - 1], c[i - 1], f[i - 1])]
           C == {0, Base - 1}
           G == [k \in 1 .. SIZE |-> [v \in C |-> BorrowOut(a[k - 1], c[k - 1], v)]]
           carry == CHOOSE f : f = F(f)
           res == [i \in Index |-> (a[i] + carry[i] - c[i]) % Base]
<1>1. /\ SIZE \in Nat /\ SIZE \in 0 .. SIZE /\ 0 \in 0 .. SIZE
      /\ \A k \in 1 .. SIZE : k - 1 \in Index /\ k - 1 \in 0 .. SIZE /\ k \in 1 .. Top /\ k \in 0 .. SIZE
      /\ \A i \in Index : i \in 0 .. SIZE
  BY TopFacts DEF Index
<1>2. \A i \in Index : a[i] \in Word /\ c[i] \in Word
  BY DEF Words, Word
<1>3. PICK f \in [0 .. SIZE -> C] : Iterates(f, SIZE, 0, G)
  <2>1. G \in [1 .. SIZE -> [C -> C]]
    BY <1>1, <1>2, WordDifference
  <2>2. 0 \in C
    OBVIOUS
  <2> HIDE DEF G, C
  <2>3. QED
    BY <1>1, <2>1, <2>2, Recursion
<1>4. f[0] = 0 /\ \A k \in 1 .. SIZE : f[k] = BorrowOut(a[k - 1], c[k - 1], f[k - 1])
  <2>1. \A k \in 1 .. SIZE : f[k - 1] \in C
    BY <1>1
  <2> HIDE DEF C
  <2>2. QED
    BY <1>3, <2>1 DEF Iterates
<1>5. f = F(f)
  BY <1>1, <1>4
<1>6. carry = F(carry)
  BY <1>5
<1>7. sub_overflow(a, c) = [res |-> res, carry |-> carry[SIZE]]
  BY DEF sub_overflow, BorrowOut
<1>8. carry[0] = 0 /\ \A k \in 1 .. SIZE : carry[k] = BorrowOut(a[k - 1], c[k - 1], carry[k - 1])
  <2> HIDE DEF carry
  <2>1. QED
    BY <1>1, <1>6
<1> HIDE DEF carry
<1>9. \A k \in 0 .. SIZE : carry[k] \in C
  <2> DEFINE T == {k \in 0 .. SIZE : carry[k] \in C}
  <2>1. 0 \in T
    BY <1>1, <1>8
  <2>2. \A k \in 1 .. SIZE : k - 1 \in T => k \in T
    BY <1>1, <1>2, <1>8, WordDifference
  <2>3. \A k \in 0 .. SIZE : k \in T
    <3> HIDE DEF T
    <3>1. QED
      BY <1>1, <2>1, <2>2, UpTo
  <2>4. QED
    BY <2>3
<1>10. \A i \in Index : res[i] \in Word
  BY <1>1, <1>2, <1>9, WordDifference
<1>11. res \in Words
  BY <1>10 DEF Words, Word
<1>12. \A k \in 1 .. SIZE :
         res[k - 1] - Borrow(carry[k]) * Base = a[k - 1] - Borrow(carry[k - 1]) - c[k - 1]
  <2> SUFFICES ASSUME NEW k \in 1 .. SIZE
               PROVE  res[k - 1] - Borrow(carry[k]) * Base
                        = a[k - 1] - Borrow(carry[k - 1]) - c[k - 1]
    OBVIOUS
  <2>1. /\ res[k - 1] = (a[k - 1] + carry[k - 1] - c[k - 1]) % Base
        /\ carry[k] = BorrowOut(a[k - 1], c[k - 1], carry[k - 1])
        /\ a[k - 1] \in Word /\ c[k - 1] \in Word /\ carry[k - 1] \in {0, Base - 1}
    BY <1>1, <1>2, <1>8, <1>9
  <2> HIDE DEF res, C
  <2>2. LET carry0 == carry[k - 1] IN
        ((a[k - 1] + carry0 - c[k - 1]) % Base) - Borrow(BorrowOut(a[k - 1], c[k - 1], carry0)) * Base
          = a[k - 1] - Borrow(carry0) - c[k - 1]
    BY <2>1, WordDifference
  <2>3. QED
    BY <2>1, <2>2
<1> HIDE DEF res, C
<1> DEFINE T == {k \in 0 .. SIZE : Part(res, k) + (-Borrow(carry[k])) * Weight[k]
                                     = Part(a, k) + (-Part(c, k))}
<1>13. 0 \in T
  BY <1>1, <1>8, PartNothing, Weights DEF Borrow
<1>14. ASSUME NEW k \in 1 .. SIZE, k - 1 \in T PROVE k \in T
  <2>1. /\ Digits(res, k) /\ Digits(a, k) /\ Digits(c, k)
        /\ Digits(res, k - 1) /\ Digits(a, k - 1) /\ Digits(c, k - 1)
        /\ k - 1 \in 0 .. Top
    BY <1>1, <1>11, WordsAreDigits
  <2>2. /\ Part(res, k) = Part(res, k - 1) + res[k - 1] * Weight[k - 1]
        /\ Part(a, k) = Part(a, k - 1) + a[k - 1] * Weight[k - 1]
        /\ Part(c, k) = Part(c, k - 1) + c[k - 1] * Weight[k - 1]
    BY <1>1, <2>1, PartStep
  <2>3. /\ Part(res, k - 1) \in Int /\ Part(a, k - 1) \in Int /\ Part(c, k - 1) \in Int
    BY <2>1, PartType
  <2>4. /\ res[k - 1] \in Int /\ a[k - 1] \in Int /\ c[k - 1] \in Int
        /\ Borrow(carry[k]) \in Int /\ Borrow(carry[k - 1]) \in Int
    <3>1. \A w \in Word : w \in Int
      BY BaseFacts DEF Word
    <3>2. res[k - 1] \in Word /\ a[k - 1] \in Word /\ c[k - 1] \in Word
      BY <1>1, <1>2, <1>10
    <3>3. QED
      BY <3>1, <3>2 DEF Borrow
  <2>5. Weight[k] = Base * Weight[k - 1] /\ Weight[k - 1] \in Int
    BY <1>1, <2>1, Weights
  <2>6. LowSum(Part(res, k - 1), -Borrow(carry[k - 1]), Weight[k - 1],
               Part(a, k - 1), -Part(c, k - 1))
    BY <1>14 DEF LowSum
  <2>7. OneSum(res[k - 1], -Borrow(carry[k]), a[k - 1], -Borrow(carry[k - 1]), -c[k - 1])
    BY <1>12, <2>4, BaseFacts DEF OneSum
  <2>8. LowSum(Part(res, k - 1) + res[k - 1] * Weight[k - 1], -Borrow(carry[k]), Base * Weight[k - 1],
               Part(a, k - 1) + a[k - 1] * Weight[k - 1],
               -Part(c, k - 1) + (-c[k - 1]) * Weight[k - 1])
    <3>1. /\ -Part(c, k - 1) \in Int /\ -c[k - 1] \in Int
          /\ -Borrow(carry[k]) \in Int /\ -Borrow(carry[k - 1]) \in Int
      BY <2>3, <2>4
    <3>2. QED
      BY <2>3, <2>4, <2>5, <2>6, <2>7, <3>1, SumStep
  <2>9. -Part(c, k - 1) + (-c[k - 1]) * Weight[k - 1] = -Part(c, k)
    BY <2>2, <2>3, <2>4, <2>5
  <2>10. LowSum(Part(res, k), -Borrow(carry[k]), Weight[k], Part(a, k), -Part(c, k))
    BY <2>2, <2>5, <2>8, <2>9
  <2>11. QED
    BY <1>1, <2>10 DEF LowSum
<1>15. \A k \in 0 .. SIZE : k \in T
  <2> HIDE DEF T
  <2>1. QED
    BY <1>1, <1>13, <1>14, UpTo
<1>16. Part(res, SIZE) + (-Borrow(carry[SIZE])) * Weight[SIZE] = Part(a, SIZE) + (-Part(c, SIZE))
  BY <1>1, <1>15
<1>17. /\ Part(res, SIZE) \in Int /\ Part(a, SIZE) \in Int /\ Part(c, SIZE) \in Int
       /\ R \in Int /\ R = Weight[SIZE] /\ Borrow(carry[SIZE]) \in Int
  BY <1>1, <1>11, RFacts, WordsAreDigits, PartType DEF Borrow
<1>18. Part(res, SIZE) - Borrow(carry[SIZE]) * R = Part(a, SIZE) - Part(c, SIZE)
  BY <1>16, <1>17
<1>19. /\ sub_overflow(a, c).res = res /\ sub_overflow(a, c).carry = carry[SIZE]
       /\ carry[SIZE] \in {0, Base - 1}
       /\ Value(res) = Part(res, SIZE) /\ Value(a) = Part(a, SIZE) /\ Value(c) = Part(c, SIZE)
  BY <1>1, <1>7, <1>9, <1>11, ValueIsPart DEF C
<1>20. QED
  BY <1>11, <1>18, <1>19

-----------------------------------------------------------------------------
(* Addition and subtraction modulo a number.                               *)

LEMMA OnceAround ==
    ASSUME NEW v \in Int, NEW w \in Nat \ {0}, NEW r \in 0 .. (w - 1),
           v = r \/ v = r + w \/ v = r - w
    PROVE  v % w = r
<1>1. CASE v = r
  BY <1>1
<1>2. CASE v = r + w
  <2>1. v = 1 * w + r
    BY <1>2
  <2>2. QED
    BY <2>1, Remainder
<1>3. CASE v = r - w
  <2>1. v = (-1) * w + r
    BY <1>3
  <2>2. QED
    BY <2>1, Remainder
<1>4. QED
  BY <1>1, <1>2, <1>3

\* mod_add gives the sum modulo the modulus, also when it carries out of the top
\* word.
LEMMA ModAdd ==
    ASSUME NEW a \in Words, NEW c \in Words, NEW m \in Words,
           Value(a) < Value(m), Value(c) < Value(m)
    PROVE  /\ mod_add(a, c, m) \in Words
           /\ Value(mod_add(a, c, m)) = (Value(a) + Value(c)) % Value(m)
<1> DEFINE s == add_overflow(a, c)
           d == sub_overflow(s.res, m)
<1>1. /\ s.res \in Words /\ s.carry \in {0, 1}
      /\ Value(s.res) + s.carry * R = Value(a) + Value(c)
  BY AddOverflow
<1>2. mod_add(a, c, m) = IF s.carry # 0 \/ compare(s.res, m) >= 0 THEN d.res ELSE s.res
  BY DEF mod_add
<1> HIDE DEF s
<1>3. /\ d.res \in Words /\ Value(d.res) - Borrow(d.carry) * R = Value(s.res) - Value(m)
  BY <1>1, SubOverflow
<1> HIDE DEF d
<1>4. /\ Value(a) \in 0 .. (R - 1) /\ Value(c) \in 0 .. (R - 1) /\ Value(m) \in 0 .. (R - 1)
      /\ Value(s.res) \in 0 .. (R - 1) /\ Value(d.res) \in 0 .. (R - 1) /\ R \in Nat
  BY <1>1, <1>3, ValueType, RFacts
<1>5. compare(s.res, m) >= 0 <=> Value(s.res) >= Value(m)
  <2>1. /\ compare(s.res, m) \in {-1, 0, 1}
        /\ compare(s.res, m) = 0 <=> Value(s.res) = Value(m)
        /\ compare(s.res, m) = 1 <=> Value(s.res) > Value(m)
    BY <1>1, CompareCompares
  <2>2. QED
    BY <1>4, <2>1
<1>6. Borrow(d.carry) \in {0, 1}
  BY DEF Borrow
<1>7. CASE s.carry = 1
  <2>1. mod_add(a, c, m) = d.res
    BY <1>2, <1>7
  <2>2. Value(s.res) + R = Value(a) + Value(c)
    BY <1>1, <1>4, <1>7
  <2>3. Borrow(d.carry) = 1
    BY <1>3, <1>4, <1>6, <2>2
  <2>4. Value(d.res) = Value(a) + Value(c) - Value(m)
    BY <1>3, <1>4, <2>2, <2>3
  <2>5. (Value(a) + Value(c)) % Value(m) = Value(d.res)
    BY <1>4, <2>4, OnceAround
  <2>6. QED
    BY <1>3, <2>1, <2>5
<1>8. CASE s.carry = 0 /\ Value(s.res) >= Value(m)
  <2>1. mod_add(a, c, m) = d.res
    BY <1>2, <1>5, <1>8
  <2>2. Value(s.res) = Value(a) + Value(c)
    BY <1>1, <1>4, <1>8
  <2>3. Borrow(d.carry) = 0
    BY <1>3, <1>4, <1>6, <1>8
  <2>4. Value(d.res) = Value(a) + Value(c) - Value(m)
    BY <1>3, <1>4, <2>2, <2>3
  <2>5. (Value(a) + Value(c)) % Value(m) = Value(d.res)
    BY <1>4, <2>4, OnceAround
  <2>6. QED
    BY <1>3, <2>1, <2>5
<1>9. CASE s.carry = 0 /\ ~(Value(s.res) >= Value(m))
  <2>1. mod_add(a, c, m) = s.res
    BY <1>2, <1>5, <1>9
  <2>2. Value(s.res) = Value(a) + Value(c)
    BY <1>1, <1>4, <1>9
  <2>3. (Value(a) + Value(c)) % Value(m) = Value(s.res)
    BY <1>4, <1>9, <2>2, OnceAround
  <2>4. QED
    BY <1>1, <2>1, <2>3
<1>10. QED
  BY <1>1, <1>7, <1>8, <1>9

\* mod_sub gives the difference modulo the modulus.
LEMMA ModSub ==
    ASSUME NEW a \in Words, NEW c \in Words, NEW m \in Words,
           Value(a) < Value(m), Value(c) < Value(m)
    PROVE  /\ mod_sub(a, c, m) \in Words
           /\ Value(mod_sub(a, c, m)) = (Value(a) - Value(c)) % Value(m)
<1> DEFINE d == sub_overflow(a, c)
           s == add_overflow(d.res, m)
<1>1. /\ d.res \in Words /\ d.carry \in {0, Base - 1}
      /\ Value(d.res) - Borrow(d.carry) * R = Value(a) - Value(c)
  BY SubOverflow
<1>2. mod_sub(a, c, m) = IF d.carry # 0 THEN s.res ELSE d.res
  BY DEF mod_sub
<1> HIDE DEF d
<1>3. s.res \in Words /\ s.carry \in {0, 1} /\ Value(s.res) + s.carry * R = Value(d.res) + Value(m)
  BY <1>1, AddOverflow
<1> HIDE DEF s
<1>4. /\ Value(a) \in 0 .. (R - 1) /\ Value(c) \in 0 .. (R - 1) /\ Value(m) \in 0 .. (R - 1)
      /\ Value(s.res) \in 0 .. (R - 1) /\ Value(d.res) \in 0 .. (R - 1) /\ R \in Nat
  BY <1>1, <1>3, ValueType, RFacts
<1>5. CASE d.carry # 0
  <2>1. mod_sub(a, c, m) = s.res
    BY <1>2, <1>5
  <2>2. Borrow(d.carry) = 1
    BY <1>5 DEF Borrow
  <2>3. Value(d.res) = Value(a) - Value(c) + R
    BY <1>1, <1>4, <2>2
  <2>4. s.carry = 1
    BY <1>3, <1>4, <2>3
  <2>5. Value(s.res) = Value(a) - Value(c) + Value(m)
    BY <1>3, <1>4, <2>3, <2>4
  <2>6. Value(a) < Value(c)
    BY <1>4, <2>3
  <2>7. (Value(a) - Value(c)) % Value(m) = Value(s.res)
    BY <1>4, <2>5, <2>6, OnceAround
  <2>8. QED
    BY <1>3, <2>1, <2>7
<1>6. CASE d.carry = 0
  <2>1. mod_sub(a, c, m) = d.res
    BY <1>2, <1>6
  <2>2. Borrow(d.carry) = 0
    BY <1>6 DEF Borrow
  <2>3. Value(d.res) = Value(a) - Value(c)
    BY <1>1, <1>4, <2>2
  <2>4. (Value(a) - Value(c)) % Value(m) = Value(d.res)
    BY <1>4, <2>3, OnceAround
  <2>5. QED
    BY <1>1, <2>1, <2>4
<1>7. QED
  BY <1>5, <1>6

-----------------------------------------------------------------------------
(* Multiplication, word by word.                                           *)

LEMMA WideFacts ==
    /\ 2 * SIZE \in Nat /\ Top = 2 * SIZE + 1 /\ 0 \in Index
    /\ \A k \in Wide : k \in 0 .. Top /\ k + 1 \in 1 .. Top /\ k + 1 \in 0 .. Top
    /\ \A i \in Index : i \in Wide /\ i \in 0 .. Top /\ i + SIZE \in Wide /\ i + SIZE \in 0 .. Top
BY TopFacts DEF Wide, Index

LEMMA ProductsAreDigits ==
    ASSUME NEW t \in Product
    PROVE  \A k \in 0 .. Top : Digits(t, k)
BY TopFacts DEF Product, Wide, Digits

LEMMA WordProduct ==
    ASSUME NEW x \in Word, NEW y \in Word, NEW z \in Word, NEW C \in Word
    PROVE  /\ (x * y + z + C) % Base \in Word /\ (x * y + z + C) \div Base \in Word
           /\ ((x * y + z + C) % Base) + ((x * y + z + C) \div Base) * Base = x * y + z + C
<1> DEFINE sum == x * y + z + C
           q == sum \div Base
           r == sum % Base
<1>1. /\ Base \in Nat \ {0} /\ Base - 1 \in Nat /\ x \in Nat /\ y \in Nat /\ z \in Nat /\ C \in Nat
      /\ x <= Base - 1 /\ y <= Base - 1 /\ z <= Base - 1 /\ C <= Base - 1
  BY BaseFacts DEF Word
<1>2. x * y <= (Base - 1) * (Base - 1)
  <2>1. x * y <= (Base - 1) * y /\ y * (Base - 1) <= (Base - 1) * (Base - 1)
    BY <1>1, Monotone
  <2>2. (Base - 1) * y = y * (Base - 1)
    BY <1>1
  <2>3. x * y \in Nat /\ y * (Base - 1) \in Nat /\ (Base - 1) * (Base - 1) \in Nat
    BY <1>1, Products
  <2>4. QED
    BY <2>1, <2>2, <2>3
<1>3. x * y \in Nat /\ sum \in Nat
  BY <1>1, Products
<1>4. sum < Base * Base
  <2>1. (Base - 1) * (Base - 1) = Base * Base - 2 * Base + 1
    BY <1>1
  <2>2. Base * Base \in Nat
    BY <1>1, Products
  <2>3. QED
    BY <1>1, <1>2, <1>3, <2>1, <2>2
<1> HIDE DEF sum
<1>5. r \in 0 .. (Base - 1) /\ q \in Nat /\ sum = q * Base + r
  <2>1. sum \in Int /\ sum \in Nat /\ Base \in Nat \ {0}
    BY <1>1, <1>3
  <2>2. QED
    BY <2>1, Quotient
<1> HIDE DEF q, r
<1>6. q < Base
  <2>1. SUFFICES ASSUME Base <= q PROVE FALSE
    BY <1>1, <1>5
  <2>2. Base * Base <= q * Base
    BY <1>1, <1>5, <2>1, Monotone
  <2>3. q * Base \in Nat /\ Base * Base \in Nat
    BY <1>1, <1>5, Products
  <2>4. q * Base <= sum
    BY <1>1, <1>5, <2>3
  <2>5. QED
    BY <1>3, <1>4, <2>2, <2>3, <2>4
<1>7. q * Base \in Nat
  BY <1>1, <1>5, Products
<1>8. r \in Word /\ q \in Word /\ r + q * Base = sum
  BY <1>1, <1>5, <1>6, <1>7 DEF Word
<1>9. QED
  BY <1>8 DEF q, r, sum

MulStep(before, i, j, x, m) ==
    LET sum == x * m[j - 1] + before.t[i + j - 1] + before.C
    IN  [t |-> [before.t EXCEPT ![i + j - 1] = sum % Base], C |-> sum \div Base]

\* The low words of r.t with r.C above them are those of t and the product.
SumWithProduct(r, w, low, x, mlow, wi) == r + w = low + (x * mlow) * wi

\* What MultiplyAdd has done after j words.
Multiplies(s, j, t, i, x, m) ==
    /\ s \in [t : Product, C : Word]
    /\ \A k \in Wide : k < i \/ k >= i + j => s.t[k] = t[k]
    /\ j = 0 => s.C = 0
    /\ j > 0 => s.t[i] = (t[i] + x * m[0]) % Base
    /\ SumWithProduct(Part(s.t, i + j), s.C * Weight[i + j], Part(t, i + j), x, Part(m, j), Weight[i])

LEMMA ProductStep ==
    ASSUME NEW low1 \in Int, NEW low0 \in Int, NEW C0 \in Int, NEW C1 \in Int, NEW x \in Int,
           NEW d \in Int, NEW td \in Int, NEW new \in Int, NEW mlow \in Int, NEW wi \in Int,
           NEW wj \in Int, NEW base \in Int,
           SumWithProduct(low1, C0 * (wi * wj), low0, x, mlow, wi),
           new + C1 * base = x * d + td + C0
    PROVE  SumWithProduct(low1 + new * (wi * wj), C1 * (base * (wi * wj)),
                          low0 + td * (wi * wj), x, mlow + d * wj, wi)
<1> DEFINE w == wi * wj
<1>1. w \in Int
  OBVIOUS
<1>2. low1 + C0 * w = low0 + (x * mlow) * wi
  BY DEF SumWithProduct
<1>3. (x * (mlow + d * wj)) * wi = (x * mlow) * wi + (x * d) * w
  OBVIOUS
<1> HIDE DEF w
<1>4. /\ (new + C1 * base) * w = (x * d + td + C0) * w
      /\ (new + C1 * base) * w = new * w + C1 * (base * w)
      /\ (x * d + td + C0) * w = (x * d) * w + td * w + C0 * w
  BY <1>1
<1>5. /\ new * w \in Int /\ C1 * (base * w) \in Int /\ (x * d) * w \in Int /\ td * w \in Int
      /\ C0 * w \in Int /\ (x * mlow) * wi \in Int
  BY <1>1
<1>6. (low1 + new * w) + C1 * (base * w) = (low0 + td * w) + ((x * mlow) * wi + (x * d) * w)
  <2> DEFINE e1 == C0 * w
             e2 == (x * mlow) * wi
             e3 == new * w
             e4 == C1 * (base * w)
             e5 == (x * d) * w
             e6 == td * w
  <2>1. e3 + e4 = e5 + e6 + e1
    BY <1>4
  <2>2. low1 + e1 = low0 + e2
    BY <1>2
  <2>3. e1 \in Int /\ e2 \in Int /\ e3 \in Int /\ e4 \in Int /\ e5 \in Int /\ e6 \in Int
    BY <1>5
  <2> HIDE DEF e1, e2, e3, e4, e5, e6
  <2>4. (low1 + e3) + e4 = (low0 + e6) + (e2 + e5)
    BY <2>1, <2>2, <2>3
  <2>5. QED
    BY <2>4 DEF e2, e3, e4, e5, e6
<1>7. QED
  BY <1>3, <1>6 DEF SumWithProduct, w

LEMMA MulStepMultiplies ==
    ASSUME NEW t \in Product, NEW i \in Index, NEW x \in Word, NEW m \in Words,
           NEW j \in 1 .. SIZE, NEW s, Multiplies(s, j - 1, t, i, x, m)
    PROVE  Multiplies(MulStep(s, i, j, x, m), j, t, i, x, m)
<1> DEFINE at == i + j - 1
           sum == x * m[j - 1] + s.t[at] + s.C
           r == [t |-> [s.t EXCEPT ![at] = sum % Base], C |-> sum \div Base]
<1>1. /\ i \in Nat /\ j \in Nat /\ SIZE \in Nat /\ j - 1 \in Index /\ 0 \in Index /\ i \in Wide /\ at \in Wide
      /\ at \in 0 .. Top /\ at + 1 = i + j /\ i + j \in 1 .. Top /\ i + j \in 0 .. Top /\ at = i + (j - 1)
      /\ i \in 0 .. Top /\ j - 1 \in 0 .. Top /\ j \in 1 .. Top /\ (i + j) - 1 = at /\ at >= i
      /\ j - 1 \in 0 .. SIZE /\ j \in 0 .. SIZE
  BY TopFacts, WideFacts DEF Index, Wide
<1>2. /\ s \in [t : Product, C : Word] /\ s.t \in Product /\ s.C \in Word /\ s.t[at] = t[at]
      /\ \A k \in Wide : s.t[k] \in Word /\ t[k] \in Word
      /\ m[j - 1] \in Word /\ m[0] \in Word
  BY <1>1 DEF Multiplies, Product, Words, Word
<1>3. sum % Base \in Word /\ sum \div Base \in Word /\ (sum % Base) + (sum \div Base) * Base = sum
  BY <1>1, <1>2, WordProduct
<1>4. MulStep(s, i, j, x, m) = r
  BY DEF MulStep
<1>5. /\ r \in [t : Product, C : Word] /\ r.t \in Product /\ r.t[at] = sum % Base
      /\ r.C = sum \div Base
      /\ \A k \in Wide : k # at => r.t[k] = s.t[k]
  BY <1>1, <1>2, <1>3 DEF Product
<1>6. \A k \in Wide : k < i \/ k >= i + j => r.t[k] = t[k]
  <2>1. \A k \in Wide : k < i \/ k >= i + j => k # at /\ (k < i \/ k >= i + (j - 1))
    BY <1>1 DEF Wide
  <2>2. \A k \in Wide : k < i \/ k >= i + (j - 1) => s.t[k] = t[k]
    BY DEF Multiplies
  <2> HIDE DEF r, at
  <2>3. QED
    BY <1>5, <2>1, <2>2
<1>7. r.t[i] = (t[i] + x * m[0]) % Base
  <2>1. CASE j = 1
    <3>1. at = i /\ s.C = 0 /\ m[j - 1] = m[0]
      BY <1>1, <2>1 DEF Multiplies
    <3>2. x \in Int /\ m[0] \in Int /\ t[i] \in Int
      BY <1>1, <1>2, BaseFacts DEF Word
    <3>3. sum = t[i] + x * m[0]
      BY <1>2, <3>1, <3>2
    <3> HIDE DEF r, sum
    <3>4. QED
      BY <1>5, <3>1, <3>3
  <2>2. CASE j > 1
    <3>1. at # i /\ s.t[i] = (t[i] + x * m[0]) % Base
      BY <1>1, <2>2 DEF Multiplies
    <3> HIDE DEF r, at
    <3>2. QED
      BY <1>1, <1>5, <3>1
  <2>3. QED
    BY <1>1, <2>1, <2>2
<1>8. SumWithProduct(Part(r.t, i + j), r.C * Weight[i + j], Part(t, i + j), x, Part(m, j), Weight[i])
  <2>1. Digits(r.t, i + j) /\ Digits(t, i + j) /\ Digits(r.t, at) /\ Digits(s.t, at) /\ Digits(t, at)
        /\ Digits(m, j) /\ Digits(m, j - 1)
    <3> HIDE DEF r, at
    <3>1. QED
      BY <1>1, <1>2, <1>5, ProductsAreDigits, WordsAreDigits
  <2>2. /\ Part(r.t, i + j) = Part(r.t, at) + r.t[at] * Weight[at]
        /\ Part(t, i + j) = Part(t, at) + t[at] * Weight[at]
        /\ Part(m, j) = Part(m, j - 1) + m[j - 1] * Weight[j - 1]
    <3> HIDE DEF r, at
    <3>1. QED
      BY <1>1, <2>1, PartStep
  <2>3. Part(r.t, at) = Part(s.t, at)
    <3>1. \A k \in 0 .. (at - 1) : k \in Wide /\ k # at
      BY <1>1 DEF Wide
    <3> HIDE DEF r, at
    <3>2. Same(r.t, s.t, at)
      BY <1>5, <3>1 DEF Same
    <3>3. QED
      BY <1>1, <2>1, <3>2, PartSame
  <2>4. /\ Weight[at] = Weight[i] * Weight[j - 1] /\ Weight[i + j] = Base * Weight[at]
        /\ Weight[i] \in Int /\ Weight[j - 1] \in Int /\ Base \in Int
    <3>1. Weight[i + (j - 1)] = Weight[i] * Weight[j - 1]
      BY <1>1, WeightProduct
    <3> HIDE DEF at
    <3>2. QED
      BY <1>1, <3>1, Weights, BaseFacts
  <2>5. SumWithProduct(Part(s.t, at), s.C * (Weight[i] * Weight[j - 1]), Part(t, at), x,
                       Part(m, j - 1), Weight[i])
    <3> HIDE DEF at
    <3>1. QED
      BY <1>1, <2>4 DEF Multiplies
  <2>6. /\ Part(s.t, at) \in Int /\ Part(t, at) \in Int /\ Part(m, j - 1) \in Int
        /\ s.C \in Int /\ r.C \in Int /\ x \in Int /\ m[j - 1] \in Int /\ t[at] \in Int /\ r.t[at] \in Int
    <3> HIDE DEF r, at, sum
    <3>1. \A w \in Word : w \in Int
      BY BaseFacts DEF Word
    <3>2. QED
      BY <1>1, <1>2, <1>3, <1>5, <2>1, <3>1, PartType
  <2>7. r.t[at] + r.C * Base = x * m[j - 1] + t[at] + s.C
    <3>1. sum = x * m[j - 1] + t[at] + s.C
      BY <1>2
    <3> HIDE DEF r, at, sum
    <3>2. QED
      BY <1>3, <1>5, <3>1
  <2>8. SumWithProduct(Part(s.t, at) + r.t[at] * (Weight[i] * Weight[j - 1]),
                       r.C * (Base * (Weight[i] * Weight[j - 1])),
                       Part(t, at) + t[at] * (Weight[i] * Weight[j - 1]), x,
                       Part(m, j - 1) + m[j - 1] * Weight[j - 1], Weight[i])
    <3> HIDE DEF r, at, sum
    <3>1. QED
      BY <2>4, <2>5, <2>6, <2>7, ProductStep
  <2> HIDE DEF r, at, sum
  <2>9. QED
    BY <2>2, <2>3, <2>4, <2>8
<1>9. Multiplies(r, j, t, i, x, m)
  <2> HIDE DEF r, at
  <2>1. QED
    BY <1>1, <1>5, <1>6, <1>7, <1>8 DEF Multiplies
<1>10. QED
  BY <1>4, <1>9

\* MultiplyAdd adds x * m from word i on; what does not fit is C.
LEMMA MultiplyAddMultiplies ==
    ASSUME NEW t \in Product, NEW i \in Index, NEW x \in Word, NEW m \in Words
    PROVE  Multiplies(MultiplyAdd(t, i, x, m), SIZE, t, i, x, m)
<1> DEFINE S == [t : Product, C : Word]
           start == [t |-> t, C |-> 0]
           F(f) == [j \in 0 .. SIZE |-> IF j = 0 THEN start ELSE MulStep(f[j - 1], i, j, x, m)]
           Good(j) == {s \in S : Multiplies(s, j, t, i, x, m)}
           G == [j \in 1 .. SIZE |->
                    [s \in S |-> IF s \in Good(j - 1) THEN MulStep(s, i, j, x, m) ELSE s]]
           steps == CHOOSE f : f = F(f)
<1>1. /\ SIZE \in Nat /\ SIZE \in 0 .. SIZE /\ 0 \in 0 .. SIZE
      /\ \A j \in 1 .. SIZE : j - 1 \in 0 .. SIZE /\ j \in 0 .. SIZE /\ j # 0
  BY TopFacts
<1>2. start \in Good(0)
  <2>1. 0 \in Word
    BY BaseFacts DEF Word
  <2>2. /\ i \in 0 .. Top /\ i + 0 = i /\ Digits(t, i) /\ Part(t, i) \in Nat
    BY WideFacts, ProductsAreDigits, PartType DEF Index
  <2>3. Part(m, 0) = 0 /\ Weight[i] \in Nat
    BY <2>2, PartNothing, Weights
  <2>4. x \in Nat
    BY BaseFacts DEF Word
  <2>5. SumWithProduct(Part(t, i + 0), 0 * Weight[i + 0], Part(t, i + 0), x, Part(m, 0), Weight[i])
    BY <2>2, <2>3, <2>4 DEF SumWithProduct
  <2>6. Multiplies(start, 0, t, i, x, m)
    BY <2>1, <2>5 DEF Multiplies
  <2>7. QED
    BY <2>1, <2>6
<1>3. \A j \in 1 .. SIZE : \A s \in Good(j - 1) : MulStep(s, i, j, x, m) \in Good(j)
  <2> SUFFICES ASSUME NEW j \in 1 .. SIZE, NEW s \in Good(j - 1)
               PROVE  MulStep(s, i, j, x, m) \in Good(j)
    OBVIOUS
  <2>1. Multiplies(MulStep(s, i, j, x, m), j, t, i, x, m)
    BY MulStepMultiplies
  <2>2. QED
    BY <2>1 DEF Multiplies
<1> HIDE DEF start
<1>4. PICK f \in [0 .. SIZE -> S] : Iterates(f, SIZE, start, G)
  <2>1. G \in [1 .. SIZE -> [S -> S]]
    <3> HIDE DEF S
    <3>1. \A j \in 1 .. SIZE : \A s \in S : (IF s \in Good(j - 1) THEN MulStep(s, i, j, x, m) ELSE s) \in S
      BY <1>3
    <3> HIDE DEF Good
    <3>2. QED
      BY <3>1
  <2>2. start \in S
    BY <1>2
  <2> HIDE DEF S, G
  <2>3. QED
    BY <1>1, <2>1, <2>2, Recursion
<1> DEFINE T == {j \in 0 .. SIZE : f[j] \in Good(j)}
<1>5. \A j \in 1 .. SIZE : j - 1 \in T => j \in T /\ f[j] = MulStep(f[j - 1], i, j, x, m)
  <2>1. \A j \in 1 .. SIZE : f[j] = G[j][f[j - 1]] /\ f[j - 1] \in S
    BY <1>1, <1>4 DEF Iterates
  <2> HIDE DEF S, Good
  <2>2. QED
    BY <1>1, <1>3, <2>1
<1>6. \A j \in 0 .. SIZE : j \in T
  <2>1. 0 \in T
    BY <1>1, <1>2, <1>4 DEF Iterates
  <2> HIDE DEF T
  <2>2. QED
    BY <1>1, <1>5, <2>1, UpTo
<1>7. f = F(f)
  <2>1. f[0] = start /\ \A j \in 1 .. SIZE : f[j] = MulStep(f[j - 1], i, j, x, m)
    BY <1>1, <1>4, <1>5, <1>6 DEF Iterates
  <2>2. QED
    BY <1>1, <2>1
<1> HIDE DEF Good, G
<1>8. steps = F(steps)
  BY <1>7
<1>9. steps[0] = start /\ \A j \in 1 .. SIZE : steps[j] = MulStep(steps[j - 1], i, j, x, m)
  <2> HIDE DEF steps
  <2>1. QED
    BY <1>1, <1>8
<1>10. MultiplyAdd(t, i, x, m) = steps[SIZE]
  BY DEF MultiplyAdd, MulStep, start
<1> HIDE DEF steps
<1> DEFINE U == {j \in 0 .. SIZE : Multiplies(steps[j], j, t, i, x, m)}
<1>11. \A j \in 0 .. SIZE : j \in U
  <2>1. 0 \in U
    BY <1>1, <1>2, <1>9 DEF Good
  <2>2. \A j \in 1 .. SIZE : j - 1 \in U => j \in U
    BY <1>1, <1>9, MulStepMultiplies
  <2> HIDE DEF U
  <2>3. QED
    BY <1>1, <2>1, <2>2, UpTo
<1>12. QED
  BY <1>1, <1>10, <1>11

\* Arrays with the same words from k on differ by what is below k.
LEMMA PartTail ==
    ASSUME NEW m \in 0 .. Top, NEW k \in 0 .. m, NEW a, NEW c, Digits(a, m), Digits(c, m),
           \A i \in k .. (m - 1) : a[i] = c[i]
    PROVE  /\ Part(a, m) \in Nat /\ Part(c, m) \in Nat /\ Part(a, k) \in Nat /\ Part(c, k) \in Nat
           /\ Part(a, m) - Part(a, k) = Part(c, m) - Part(c, k)
<1> DEFINE T == {j \in 0 .. (m - k) : Part(a, k + j) - Part(a, k) = Part(c, k + j) - Part(c, k)}
<1>1. /\ m \in Nat /\ k \in Nat /\ m - k \in Nat /\ m - k \in 0 .. (m - k) /\ k + (m - k) = m /\ k + 0 = k
      /\ \A j \in 0 .. (m - k) : k + j \in 0 .. Top /\ k + j \in 0 .. m /\ k + j \in Nat
      /\ \A j \in 1 .. (m - k) : /\ k + j \in 1 .. Top /\ (k + j) - 1 = k + (j - 1)
                                 /\ k + (j - 1) \in k .. (m - 1) /\ j - 1 \in 0 .. (m - k) /\ j \in 0 .. (m - k)
  BY TopFacts
<1>2. \A j \in 0 .. (m - k) : /\ Digits(a, k + j) /\ Digits(c, k + j)
                              /\ Part(a, k + j) \in Nat /\ Part(c, k + j) \in Nat
  <2>1. \A j \in 0 .. (m - k) : Digits(a, k + j) /\ Digits(c, k + j)
    BY <1>1 DEF Digits
  <2>2. QED
    BY <1>1, <2>1, PartType
<1>3. 0 \in T
  BY <1>1, <1>2
<1>4. ASSUME NEW j \in 1 .. (m - k), j - 1 \in T PROVE j \in T
  <2>1. /\ Part(a, k + j) = Part(a, k + (j - 1)) + a[k + (j - 1)] * Weight[k + (j - 1)]
        /\ Part(c, k + j) = Part(c, k + (j - 1)) + c[k + (j - 1)] * Weight[k + (j - 1)]
    <3>1. /\ Part(a, k + j) = Part(a, (k + j) - 1) + a[(k + j) - 1] * Weight[(k + j) - 1]
          /\ Part(c, k + j) = Part(c, (k + j) - 1) + c[(k + j) - 1] * Weight[(k + j) - 1]
      BY <1>1, <1>2, PartStep
    <3>2. QED
      BY <1>1, <3>1
  <2>2. a[k + (j - 1)] = c[k + (j - 1)]
    BY <1>1
  <2> DEFINE e == c[k + (j - 1)] * Weight[k + (j - 1)]
  <2>3. Part(a, k + j) = Part(a, k + (j - 1)) + e /\ Part(c, k + j) = Part(c, k + (j - 1)) + e
    BY <2>1, <2>2
  <2>4. e \in Int
    <3>1. c[k + (j - 1)] \in Nat /\ Weight[k + (j - 1)] \in Nat
      <4>1. c[k + (j - 1)] \in Word
        BY <1>1 DEF Digits
      <4>2. QED
        BY <1>1, <4>1, BaseFacts, Weights DEF Word
    <3>2. QED
      BY <3>1
  <2> HIDE DEF e
  <2>5. Part(a, k + (j - 1)) - Part(a, k) = Part(c, k + (j - 1)) - Part(c, k)
    BY <1>4
  <2>6. /\ Part(a, k + (j - 1)) \in Nat /\ Part(c, k + (j - 1)) \in Nat
        /\ Part(a, k) \in Nat /\ Part(c, k) \in Nat
    BY <1>1, <1>2, <1>3
  <2>7. Part(a, k + j) - Part(a, k) = Part(c, k + j) - Part(c, k)
    BY <2>3, <2>4, <2>5, <2>6
  <2>8. QED
    BY <1>1, <2>7
<1>5. \A j \in 0 .. (m - k) : j \in T
  <2> HIDE DEF T
  <2>1. QED
    BY <1>1, <1>3, <1>4, UpTo
<1>6. m - k \in T
  BY <1>1, <1>5
<1>7. 0 \in 0 .. (m - k)
  BY <1>1
<1>8. QED
  BY <1>1, <1>2, <1>6, <1>7

CarryOf(d, carry) == (d + carry) \div Base

LEMMA WordCarry ==
    ASSUME NEW d \in Word, NEW carry \in Word
    PROVE  /\ CarryOf(d, carry) \in Word /\ (d + carry) % Base \in Word
           /\ OneSum((d + carry) % Base, CarryOf(d, carry), d, carry, 0)
<1>1. 0 \in Word /\ d \in Int /\ carry \in Int
  BY BaseFacts DEF Word
<1>2. 0 * 0 + d + carry = d + carry /\ d + carry + 0 = d + carry
  BY <1>1
<1>3. /\ (0 * 0 + d + carry) % Base \in Word /\ (0 * 0 + d + carry) \div Base \in Word
      /\ ((0 * 0 + d + carry) % Base) + ((0 * 0 + d + carry) \div Base) * Base = 0 * 0 + d + carry
  BY <1>1, WordProduct
<1>4. QED
  BY <1>2, <1>3 DEF CarryOf, OneSum

\* add adds C at word i, unless it carries out of the top word.
LEMMA AddAdds ==
    ASSUME NEW t \in Product, NEW i \in Wide, NEW C \in Word,
           Part(t, Top) + C * Weight[i] < Weight[Top]
    PROVE  /\ add(t, i, C) \in Product
           /\ \A k \in Wide : k < i => add(t, i, C)[k] = t[k]
           /\ Part(add(t, i, C), Top) = Part(t, Top) + C * Weight[i]
<1> DEFINE N == Top - i
           F(f) == [k \in i .. (2 * SIZE) |-> IF k = i THEN C ELSE CarryOf(t[k - 1], f[k - 1])]
           G == [j \in 1 .. N |-> [v \in Word |-> CarryOf(t[i + j - 1], v)]]
           carry == CHOOSE f : f = F(f)
           r == [k \in Wide |-> IF k < i THEN t[k] ELSE (t[k] + carry[k]) % Base]
<1>1. /\ i \in Nat /\ N \in Nat /\ 2 * SIZE \in Nat /\ i <= 2 * SIZE /\ Top = 2 * SIZE + 1 /\ N \in 0 .. N
      /\ \A j \in 1 .. N : i + j - 1 \in Wide /\ j - 1 \in 0 .. N /\ i + j - 1 >= i /\ i + j \in 1 .. Top
      /\ \A k \in i .. (2 * SIZE) : k - i \in 0 .. N /\ k \in Wide
      /\ \A k \in (i + 1) .. (2 * SIZE) : k \in i .. (2 * SIZE) /\ k - 1 \in i .. (2 * SIZE) /\ k # i
                                          /\ k - i \in 1 .. N /\ i + (k - i) - 1 = k - 1
                                          /\ (k - i) - 1 = (k - 1) - i
  BY TopFacts DEF Wide
<1>2. \A k \in Wide : t[k] \in Word
  BY DEF Product
<1>3. PICK f \in [0 .. N -> Word] : Iterates(f, N, C, G)
  <2>1. G \in [1 .. N -> [Word -> Word]]
    <3> HIDE DEF N
    <3>1. QED
      BY <1>1, <1>2, WordCarry
  <2> HIDE DEF G, N
  <2>2. QED
    BY <1>1, <2>1, Recursion
<1>4. f[0] = C /\ \A j \in 1 .. N : f[j] = CarryOf(t[i + j - 1], f[j - 1])
  <2>1. \A j \in 1 .. N : f[j - 1] \in Word /\ f[j] = G[j][f[j - 1]]
    <3> HIDE DEF N, G
    <3>1. QED
      BY <1>1, <1>3 DEF Iterates
  <2>2. f[0] = C
    BY <1>3 DEF Iterates
  <2> HIDE DEF N
  <2>3. QED
    BY <2>1, <2>2
<1> DEFINE h == [k \in i .. (2 * SIZE) |-> f[k - i]]
<1>5. h = F(h)
  <2>1. h[i] = C
    BY <1>1, <1>4
  <2>2. \A k \in (i + 1) .. (2 * SIZE) : h[k] = CarryOf(t[k - 1], h[k - 1])
    <3> HIDE DEF N
    <3>1. QED
      BY <1>1, <1>4
  <2>3. h = [k \in i .. (2 * SIZE) |-> h[k]]
    OBVIOUS
  <2> HIDE DEF h
  <2>4. \A k \in i .. (2 * SIZE) : h[k] = IF k = i THEN C ELSE CarryOf(t[k - 1], h[k - 1])
    <3>1. \A k \in i .. (2 * SIZE) : k = i \/ k \in (i + 1) .. (2 * SIZE)
      BY <1>1
    <3>2. \A k \in (i + 1) .. (2 * SIZE) : k # i
      BY <1>1
    <3>3. QED
      BY <2>1, <2>2, <3>1, <3>2
  <2>5. QED
    BY <2>3, <2>4
<1> HIDE DEF h
<1>6. carry = F(carry)
  BY <1>5
<1>7. add(t, i, C) = r
  BY DEF add, CarryOf
<1>8. carry[i] = C /\ \A k \in (i + 1) .. (2 * SIZE) : carry[k] = CarryOf(t[k - 1], carry[k - 1])
  <2> HIDE DEF carry
  <2>1. \A k \in i .. (2 * SIZE) : carry[k] = IF k = i THEN C ELSE CarryOf(t[k - 1], carry[k - 1])
    BY <1>6
  <2>2. i \in i .. (2 * SIZE) /\ \A k \in (i + 1) .. (2 * SIZE) : k \in i .. (2 * SIZE) /\ k # i
    BY <1>1
  <2> HIDE DEF F
  <2>3. QED
    BY <2>1, <2>2
<1> HIDE DEF carry
\* The carries, with the one out of the top word.
<1> DEFINE e == [j \in 0 .. N |-> IF j = N THEN CarryOf(t[2 * SIZE], carry[2 * SIZE])
                                           ELSE carry[i + j]]
<1>9. e[0] = C /\ \A j \in 1 .. N : e[j] = CarryOf(t[i + j - 1], carry[i + j - 1]) /\ carry[i + j - 1] = e[j - 1]
  <2>1. N > 0 /\ i + 0 = i /\ e[0] = C
    BY <1>1, <1>8
  <2>2. ASSUME NEW j \in 1 .. N
        PROVE  e[j] = CarryOf(t[i + j - 1], carry[i + j - 1]) /\ carry[i + j - 1] = e[j - 1]
    <3>1. j - 1 \in 0 .. N /\ j - 1 # N /\ i + (j - 1) = i + j - 1 /\ j \in 0 .. N
      BY <1>1
    <3>2. carry[i + j - 1] = e[j - 1]
      BY <3>1
    <3>3. CASE j = N
      <4>1. i + j - 1 = 2 * SIZE
        BY <1>1, <3>3
      <4>2. QED
        BY <3>1, <3>2, <3>3, <4>1
    <3>4. CASE j # N
      <4>1. i + j \in (i + 1) .. (2 * SIZE)
        BY <1>1, <3>1, <3>4
      <4>2. e[j] = carry[i + j]
        BY <3>1, <3>4
      <4>3. carry[i + j] = CarryOf(t[(i + j) - 1], carry[(i + j) - 1])
        BY <1>8, <4>1
      <4> HIDE DEF e
      <4>4. (i + j) - 1 = i + j - 1
        BY <1>1
      <4>5. QED
        BY <3>2, <4>2, <4>3, <4>4
    <3>5. QED
      BY <3>3, <3>4
  <2>3. QED
    BY <2>1, <2>2
<1> HIDE DEF e
<1>10. \A j \in 0 .. N : e[j] \in Word
  <2> DEFINE T == {j \in 0 .. N : e[j] \in Word}
  <2>1. 0 \in T
    BY <1>1, <1>9
  <2>2. \A j \in 1 .. N : j - 1 \in T => j \in T
    <3> HIDE DEF N
    <3>1. QED
      BY <1>1, <1>2, <1>9, WordCarry
  <2>3. \A j \in 0 .. N : j \in T
    <3> HIDE DEF T, N
    <3>1. QED
      BY <1>1, <2>1, <2>2, UpTo
  <2>4. QED
    BY <2>3
<1>11. \A j \in 1 .. N : r[i + j - 1] = (t[i + j - 1] + e[j - 1]) % Base
  <2> SUFFICES ASSUME NEW j \in 1 .. N PROVE r[i + j - 1] = (t[i + j - 1] + e[j - 1]) % Base
    OBVIOUS
  <2>1. i + j - 1 \in Wide /\ ~(i + j - 1 < i)
    BY <1>1
  <2>2. r[i + j - 1] = (t[i + j - 1] + carry[i + j - 1]) % Base
    BY <2>1
  <2> HIDE DEF r, N
  <2>3. QED
    BY <1>9, <2>2
<1>12. /\ r \in Product
       /\ \A k \in Wide : k < i => r[k] = t[k]
  <2>1. ASSUME NEW k \in Wide PROVE r[k] \in Word
    <3>1. CASE k < i
      BY <1>2, <3>1
    <3>2. CASE ~(k < i)
      <4>1. k - i + 1 \in 1 .. N /\ i + (k - i + 1) - 1 = k /\ (k - i + 1) - 1 \in 0 .. N
        BY <1>1, <3>2 DEF Wide
      <4>2. e[(k - i + 1) - 1] \in Word
        BY <1>10, <4>1
      <4>3. r[k] = (t[k] + e[(k - i + 1) - 1]) % Base
        BY <1>11, <4>1
      <4>4. QED
        BY <1>2, <4>2, <4>3, WordCarry
    <3>3. QED
      BY <3>1, <3>2
  <2>2. QED
    BY <2>1 DEF Product
<1> HIDE DEF r
<1> DEFINE U == {j \in 0 .. N : LowSum(Part(r, i + j), e[j], Weight[i + j], Part(t, i + j), C * Weight[i])}
<1>13. /\ i + 0 = i /\ i + N = Top /\ i \in 0 .. Top /\ Top \in 0 .. Top
       /\ \A j \in 0 .. N : i + j \in 0 .. Top
  BY <1>1
<1>14. \A j \in 0 .. N : /\ Digits(r, i + j) /\ Digits(t, i + j)
                         /\ Part(r, i + j) \in Nat /\ Part(t, i + j) \in Nat
  <2> HIDE DEF N
  <2>1. QED
    BY <1>12, <1>13, ProductsAreDigits, PartType
<1>15. C \in Nat /\ Weight[i] \in Nat /\ C * Weight[i] \in Nat
  <2>1. C \in Nat /\ Weight[i] \in Nat
    BY <1>13, BaseFacts, Weights DEF Word
  <2>2. QED
    BY <2>1, Products
<1>16. 0 \in U
  <2>1. 0 \in 0 .. N
    BY <1>1
  <2>2. Part(r, i) = Part(t, i)
    <3>1. \A k \in 0 .. (i - 1) : k \in Wide /\ k < i
      BY <1>1 DEF Wide
    <3>2. Same(r, t, i)
      BY <1>12, <3>1 DEF Same
    <3>3. Digits(r, i) /\ Digits(t, i)
      BY <1>12, <1>13, ProductsAreDigits
    <3>4. QED
      BY <1>13, <3>2, <3>3, PartSame
  <2>3. QED
    BY <1>9, <1>13, <2>1, <2>2 DEF LowSum
<1>17. ASSUME NEW j \in 1 .. N, j - 1 \in U PROVE j \in U
  <2>1. /\ i + j \in 1 .. Top /\ i + j - 1 = (i + j) - 1 /\ i + (j - 1) = i + j - 1
        /\ j - 1 \in 0 .. N /\ j \in 0 .. N /\ i + j - 1 \in Wide /\ i + j - 1 \in 0 .. Top
    BY <1>1
  <2> DEFINE at == i + j - 1
  <2>2. /\ Part(r, i + j) = Part(r, at) + r[at] * Weight[at]
        /\ Part(t, i + j) = Part(t, at) + t[at] * Weight[at]
        /\ Weight[i + j] = Base * Weight[at] /\ Weight[at] \in Int
    BY <1>14, <2>1, PartStep, Weights
  <2>3. LowSum(Part(r, at), e[j - 1], Weight[at], Part(t, at), C * Weight[i])
    BY <2>1, <1>17
  <2>4. /\ r[at] = (t[at] + e[j - 1]) % Base /\ e[j] = CarryOf(t[at], e[j - 1])
        /\ t[at] \in Word /\ e[j - 1] \in Word /\ e[j] \in Word
    BY <1>2, <1>9, <1>10, <1>11, <2>1
  <2>5. OneSum(r[at], e[j], t[at], e[j - 1], 0) /\ r[at] \in Word
    BY <2>4, WordCarry
  <2>6. /\ Part(r, at) \in Int /\ Part(t, at) \in Int /\ r[at] \in Int /\ t[at] \in Int
        /\ e[j] \in Int /\ e[j - 1] \in Int /\ C * Weight[i] \in Int
    <3>1. \A w \in Word : w \in Int
      BY BaseFacts DEF Word
    <3>2. Part(r, at) \in Int /\ Part(t, at) \in Int
      BY <1>14, <2>1
    <3>3. r[at] \in Word /\ t[at] \in Word /\ e[j] \in Word /\ e[j - 1] \in Word
      BY <2>4, <2>5
    <3> HIDE DEF at
    <3>4. r[at] \in Int /\ t[at] \in Int /\ e[j] \in Int /\ e[j - 1] \in Int
      BY <3>1, <3>3
    <3>5. C * Weight[i] \in Int
      BY <1>15
    <3>6. QED
      BY <3>2, <3>4, <3>5
  <2> HIDE DEF at
  <2>7. LowSum(Part(r, at) + r[at] * Weight[at], e[j], Base * Weight[at],
               Part(t, at) + t[at] * Weight[at], C * Weight[i] + 0 * Weight[at])
    BY <2>2, <2>3, <2>5, <2>6, SumStep
  <2>8. C * Weight[i] + 0 * Weight[at] = C * Weight[i]
    BY <2>2, <2>6
  <2>9. LowSum(Part(r, i + j), e[j], Weight[i + j], Part(t, i + j), C * Weight[i])
    BY <2>2, <2>7, <2>8
  <2>10. QED
    BY <2>1, <2>9
<1>18. \A j \in 0 .. N : j \in U
  <2> HIDE DEF U, N
  <2>1. QED
    BY <1>1, <1>16, <1>17, UpTo
<1>19. LowSum(Part(r, Top), e[N], Weight[Top], Part(t, Top), C * Weight[i])
  BY <1>1, <1>13, <1>18
<1>20. /\ Part(r, Top) \in Nat /\ Part(t, Top) \in Nat /\ e[N] \in Nat /\ Weight[Top] \in Nat
  <2> HIDE DEF N
  <2>1. N \in 0 .. N /\ \A w \in Word : w \in Nat
    BY <1>1, BaseFacts DEF Word
  <2>2. e[N] \in Nat
    BY <1>10, <2>1
  <2>3. Part(r, Top) \in Nat /\ Part(t, Top) \in Nat
    BY <1>13, <1>14, <2>1
  <2>4. QED
    BY <1>13, <2>2, <2>3, Weights
<1>21. Part(r, Top) + e[N] * Weight[Top] = Part(t, Top) + C * Weight[i]
  BY <1>19 DEF LowSum
<1>22. e[N] = 0
  <2>1. SUFFICES ASSUME 1 <= e[N] PROVE FALSE
    BY <1>20
  <2>2. 1 * Weight[Top] <= e[N] * Weight[Top] /\ e[N] * Weight[Top] \in Nat
    BY <1>20, <2>1, Monotone, Products
  <2>3. QED
    BY <1>15, <1>20, <1>21, <2>2
<1>23. Part(r, Top) = Part(t, Top) + C * Weight[i]
  BY <1>20, <1>21, <1>22
<1>24. QED
  BY <1>7, <1>12, <1>23

-----------------------------------------------------------------------------
(* Montgomery multiplication.                                              *)

LEMMA PartZeros ==
    ASSUME NEW m \in 0 .. Top, NEW a, \A k \in 0 .. (m - 1) : a[k] = 0
    PROVE  Digits(a, m) /\ Part(a, m) = 0
<1> DEFINE T == {k \in 0 .. m : Part(a, k) = 0}
<1>1. /\ m \in Nat /\ m \in 0 .. m /\ 0 \in 0 .. m /\ 0 \in Word
      /\ \A k \in 1 .. m : k \in 1 .. Top /\ k - 1 \in 0 .. (m - 1) /\ k - 1 \in 0 .. Top /\ k \in 0 .. m
      /\ \A k \in 0 .. m : \A j \in 0 .. (k - 1) : j \in 0 .. (m - 1)
  BY TopFacts, BaseFacts DEF Word
<1>2. \A k \in 0 .. m : Digits(a, k)
  BY <1>1 DEF Digits
<1>3. 0 \in T
  BY <1>1, PartNothing
<1>4. ASSUME NEW k \in 1 .. m, k - 1 \in T PROVE k \in T
  <2>1. Part(a, k) = Part(a, k - 1) + a[k - 1] * Weight[k - 1] /\ Weight[k - 1] \in Nat
    BY <1>1, <1>2, PartStep, Weights
  <2>2. a[k - 1] = 0 /\ Part(a, k - 1) = 0
    BY <1>1, <1>4
  <2>3. Part(a, k) = 0
    BY <2>1, <2>2
  <2>4. QED
    BY <1>1, <2>3
<1>5. \A k \in 0 .. m : k \in T
  <2> HIDE DEF T
  <2>1. QED
    BY <1>1, <1>3, <1>4, UpTo
<1>6. QED
  BY <1>1, <1>2, <1>5

\* One row of the long multiplication.
MulRow(t, i, x, a) ==
    LET Row(r) == [r.t EXCEPT ![i + SIZE] = r.C] IN Row(MultiplyAdd(t, i, x, a))

\* After i rows.
RowsAre(t, i, a, c) ==
    /\ t \in Product
    /\ \A k \in Wide : k >= i + SIZE => t[k] = 0
    /\ Part(t, i + SIZE) = Value(a) * Part(c, i)

LEMMA MulRowType ==
    ASSUME NEW t \in Product, NEW i \in Index, NEW x \in Word, NEW a \in Words
    PROVE  MulRow(t, i, x, a) \in Product
<1> DEFINE r == MultiplyAdd(t, i, x, a)
<1>1. r.t \in Product /\ r.C \in Word
  BY MultiplyAddMultiplies DEF Multiplies
<1>2. MulRow(t, i, x, a) = [r.t EXCEPT ![i + SIZE] = r.C]
  BY DEF MulRow
<1> HIDE DEF r
<1>3. QED
  BY <1>1, <1>2 DEF Product

LEMMA MulRowIs ==
    ASSUME NEW a \in Words, NEW c \in Words, NEW i \in 1 .. SIZE, NEW t, RowsAre(t, i - 1, a, c)
    PROVE  RowsAre(MulRow(t, i - 1, c[i - 1], a), i, a, c)
<1> DEFINE at == (i - 1) + SIZE
           x == c[i - 1]
           r == MultiplyAdd(t, i - 1, x, a)
           u == [r.t EXCEPT ![at] = r.C]
<1>1. /\ i - 1 \in Index /\ at \in Wide /\ at \in 0 .. Top /\ at + 1 = i + SIZE /\ i + SIZE \in 1 .. Top
      /\ (i + SIZE) - 1 = at /\ i - 1 \in 0 .. Top /\ i \in 1 .. Top /\ i \in 0 .. SIZE
      /\ i - 1 \in 0 .. SIZE /\ i + SIZE \in 0 .. Top /\ at \in Nat /\ SIZE \in 0 .. SIZE
      /\ \A k \in 0 .. (at - 1) : k \in Wide /\ k # at
      /\ \A k \in Wide : k >= i + SIZE => k # at /\ k >= at
  BY TopFacts DEF Index, Wide
<1>2. t \in Product /\ x \in Word
  BY <1>1 DEF RowsAre, Words, Word
<1>3. Multiplies(r, SIZE, t, i - 1, x, a)
  BY <1>1, <1>2, MultiplyAddMultiplies
<1>4. MulRow(t, i - 1, x, a) = u
  BY DEF MulRow
<1> HIDE DEF r
<1>5. r.t \in Product /\ r.C \in Word /\ \A k \in Wide : k >= at => r.t[k] = t[k]
  BY <1>3 DEF Multiplies
<1>6. /\ u \in Product /\ u[at] = r.C
      /\ \A k \in Wide : k # at => u[k] = r.t[k]
  <2> HIDE DEF at
  <2>1. QED
    BY <1>1, <1>5 DEF Product
<1> HIDE DEF u
<1>7. \A k \in Wide : k >= i + SIZE => u[k] = 0
  <2>1. \A k \in Wide : k >= at => t[k] = 0
    BY DEF RowsAre
  <2> HIDE DEF at
  <2>2. QED
    BY <1>1, <1>5, <1>6, <2>1
<1>8. Part(u, i + SIZE) = Part(r.t, at) + r.C * Weight[at]
  <2>1. Digits(u, i + SIZE) /\ Digits(u, at) /\ Digits(r.t, at)
    BY <1>1, <1>5, <1>6, ProductsAreDigits
  <2>2. Part(u, i + SIZE) = Part(u, (i + SIZE) - 1) + u[(i + SIZE) - 1] * Weight[(i + SIZE) - 1]
    BY <1>1, <2>1, PartStep
  <2> HIDE DEF at
  <2>3. Part(u, i + SIZE) = Part(u, at) + u[at] * Weight[at]
    BY <1>1, <2>2
  <2>4. Same(u, r.t, at)
    BY <1>1, <1>6 DEF Same
  <2>5. Part(u, at) = Part(r.t, at)
    BY <1>1, <2>1, <2>4, PartSame
  <2>6. QED
    BY <1>6, <2>3, <2>5
<1>9. Part(r.t, at) + r.C * Weight[at] = Part(t, at) + (x * Value(a)) * Weight[i - 1]
  BY <1>3, ValueIsPart DEF Multiplies, SumWithProduct
<1>10. Part(t, at) = Value(a) * Part(c, i - 1)
  BY DEF RowsAre
<1>11. Part(c, i) = Part(c, i - 1) + x * Weight[i - 1]
  <2>1. Digits(c, i)
    BY <1>1, WordsAreDigits
  <2>2. QED
    BY <1>1, <2>1, PartStep
<1>12. /\ Value(a) \in Int /\ Part(c, i - 1) \in Int /\ x \in Int /\ Weight[i - 1] \in Int
  <2>1. Digits(c, i - 1)
    BY <1>1, WordsAreDigits
  <2>2. x \in Int
    BY <1>2, BaseFacts DEF Word
  <2>3. Value(a) \in Int
    BY ValueType, RFacts
  <2>4. Part(c, i - 1) \in Int /\ Weight[i - 1] \in Int
    BY <1>1, <2>1, PartType, Weights
  <2>5. QED
    BY <2>2, <2>3, <2>4
<1>13. Part(u, i + SIZE) = Value(a) * Part(c, i)
  <2> HIDE DEF at, x
  <2>1. Part(u, i + SIZE) = Value(a) * Part(c, i - 1) + (x * Value(a)) * Weight[i - 1]
    BY <1>8, <1>9, <1>10
  <2>2. Value(a) * (Part(c, i - 1) + x * Weight[i - 1])
          = Value(a) * Part(c, i - 1) + (x * Value(a)) * Weight[i - 1]
    BY <1>12
  <2>3. QED
    BY <1>11, <2>1, <2>2
<1>14. RowsAre(u, i, a, c)
  BY <1>6, <1>7, <1>13 DEF RowsAre
<1>15. QED
  BY <1>4, <1>14

\* Multiplied is the product.
LEMMA MultipliedIs ==
    ASSUME NEW a \in Words, NEW c \in Words
    PROVE  Multiplied(a, c) \in Product /\ Part(Multiplied(a, c), Top) = Value(a) * Value(c)
<1> DEFINE start == [k \in Wide |-> 0]
           F(f) == [i \in 0 .. SIZE |-> IF i = 0 THEN start ELSE MulRow(f[i - 1], i - 1, c[i - 1], a)]
           G == [i \in 1 .. SIZE |-> [t \in Product |-> MulRow(t, i - 1, c[i - 1], a)]]
           row == CHOOSE f : f = F(f)
<1>1. /\ SIZE \in Nat /\ SIZE \in 0 .. SIZE /\ 0 \in 0 .. SIZE /\ SIZE \in 0 .. Top
      /\ \A i \in 1 .. SIZE : i - 1 \in 0 .. SIZE /\ i \in 0 .. SIZE /\ i # 0 /\ i - 1 \in Index
      /\ \A i \in 0 .. SIZE : i = 0 \/ i \in 1 .. SIZE
  BY TopFacts DEF Index
<1>2. \A i \in Index : c[i] \in Word
  BY DEF Words, Word
<1>3. start \in Product
  BY BaseFacts DEF Product, Word
<1>4. RowsAre(start, 0, a, c)
  <2>1. \A k \in 0 .. (SIZE - 1) : start[k] = 0
    BY TopFacts DEF Wide
  <2> HIDE DEF start
  <2>2. 0 + SIZE = SIZE /\ Part(start, SIZE) = 0
    BY <1>1, <2>1, PartZeros
  <2>3. Part(c, 0) = 0 /\ Value(a) * 0 = 0
    BY PartNothing, ValueType, RFacts
  <2>4. \A k \in Wide : start[k] = 0
    BY DEF start
  <2>5. QED
    BY <1>3, <2>2, <2>3, <2>4 DEF RowsAre
<1> HIDE DEF start
<1>5. PICK f \in [0 .. SIZE -> Product] : Iterates(f, SIZE, start, G)
  <2>1. G \in [1 .. SIZE -> [Product -> Product]]
    BY <1>1, <1>2, MulRowType
  <2> HIDE DEF G
  <2>2. QED
    BY <1>1, <1>3, <2>1, Recursion
<1>6. f[0] = start /\ \A i \in 1 .. SIZE : f[i] = MulRow(f[i - 1], i - 1, c[i - 1], a)
  BY <1>1, <1>5 DEF Iterates
<1>7. f = F(f)
  BY <1>1, <1>6
<1>8. row = F(row)
  BY <1>7
<1>9. Multiplied(a, c) = row[SIZE]
  BY DEF Multiplied, MulRow, start
<1>10. row[0] = start /\ \A i \in 1 .. SIZE : row[i] = MulRow(row[i - 1], i - 1, c[i - 1], a)
  <2> HIDE DEF row
  <2>1. QED
    BY <1>1, <1>8
<1> HIDE DEF row
<1> DEFINE T == {i \in 0 .. SIZE : RowsAre(row[i], i, a, c)}
<1>11. \A i \in 0 .. SIZE : i \in T
  <2>1. 0 \in T
    BY <1>1, <1>4, <1>10
  <2>2. \A i \in 1 .. SIZE : i - 1 \in T => i \in T
    BY <1>1, <1>10, MulRowIs
  <2> HIDE DEF T
  <2>3. QED
    BY <1>1, <2>1, <2>2, UpTo
<1> DEFINE t == row[SIZE]
<1>12. /\ t \in Product /\ Part(t, SIZE + SIZE) = Value(a) * Value(c)
       /\ \A k \in Wide : k >= SIZE + SIZE => t[k] = 0
  <2>1. RowsAre(t, SIZE, a, c)
    BY <1>1, <1>11
  <2> HIDE DEF t
  <2>2. QED
    BY <2>1, ValueIsPart DEF RowsAre
<1> HIDE DEF t
<1>13. Part(t, Top) = Part(t, SIZE + SIZE)
  <2>1. /\ Top \in 1 .. Top /\ Top - 1 = SIZE + SIZE /\ SIZE + SIZE \in Wide /\ SIZE + SIZE \in 0 .. Top
        /\ Top \in 0 .. Top /\ SIZE + SIZE >= SIZE + SIZE
    BY TopFacts DEF Wide
  <2>2. Digits(t, Top) /\ Digits(t, SIZE + SIZE)
    BY <1>12, <2>1, ProductsAreDigits
  <2>3. Part(t, Top) = Part(t, Top - 1) + t[Top - 1] * Weight[Top - 1]
    BY <2>1, <2>2, PartStep
  <2>4. t[SIZE + SIZE] = 0 /\ Weight[SIZE + SIZE] \in Int /\ Part(t, SIZE + SIZE) \in Int
    BY <1>12, <2>1, <2>2, Weights, PartType
  <2>5. QED
    BY <2>1, <2>3, <2>4
<1>14. QED
  BY <1>9, <1>12, <1>13 DEF t

\* An odd number has a negative inverse modulo Base: it is lifted from each
\* power of two to the next.
LEMMA PrimeExists ==
    ASSUME NEW M \in Nat, M % 2 = 1
    PROVE  \E w \in Word : (w * M) % Base = Base - 1
<1> DEFINE T == {k \in 0 .. BITS :
                    \E w \in Nat, e \in Nat : w < PowerOfTwo[k] /\ w * M + 1 = e * PowerOfTwo[k]}
<1>1. BITS \in Nat /\ BITS \in 0 .. BITS /\ 0 \in 0 .. BITS
  BY ModAssumption
<1>2. 0 \in T
  <2>1. 0 * M + 1 = 1 * 1
    OBVIOUS
  <2>2. PowerOfTwo[0] = 1
    BY PowersOfTwo
  <2>3. QED
    BY <1>1, <2>1, <2>2
<1>3. ASSUME NEW k \in 1 .. BITS, k - 1 \in T PROVE k \in T
  <2>1. PICK w \in Nat, e \in Nat : w < PowerOfTwo[k - 1] /\ w * M + 1 = e * PowerOfTwo[k - 1]
    BY <1>3
  <2> DEFINE pw == PowerOfTwo[k - 1]
  <2>2. PowerOfTwo[k] = 2 * pw /\ pw \in Nat /\ k \in 0 .. BITS
    <3>1. k - 1 \in 0 .. BITS /\ k \in 0 .. BITS
      BY <1>1
    <3>2. QED
      BY <3>1, PowersOfTwo
  <2>3. w < pw /\ w * M + 1 = e * pw
    BY <2>1
  <2> HIDE DEF pw
  <2>4. CASE e % 2 = 0
    <3>1. PICK h \in Nat : e = 2 * h
      <4>1. e = 2 * (e \div 2) /\ e \div 2 \in Nat
        BY <2>4
      <4>2. QED
        BY <4>1
    <3>2. e * pw = h * (2 * pw)
      BY <2>2, <3>1
    <3>3. w < 2 * pw /\ w * M + 1 = h * (2 * pw)
      BY <2>2, <2>3, <3>2
    <3>4. QED
      BY <2>2, <3>3
  <2>5. CASE e % 2 # 0
    <3>1. PICK h \in Nat : e = 2 * h + 1
      <4>1. e = 2 * (e \div 2) + 1 /\ e \div 2 \in Nat
        BY <2>5
      <4>2. QED
        BY <4>1
    <3>2. PICK half \in Nat : M = 2 * half + 1
      <4>1. M = 2 * (M \div 2) + 1 /\ M \div 2 \in Nat
        OBVIOUS
      <4>2. QED
        BY <4>1
    <3>3. (w + pw) * M + 1 = (w * M + 1) + pw * M
      BY <2>2
    <3>4. e * pw + pw * M = (e + M) * pw
      BY <2>2
    <3>5. (e + M) * pw = (h + half + 1) * (2 * pw)
      <4>1. e + M = 2 * (h + half + 1)
        BY <3>1, <3>2
      <4>2. (2 * (h + half + 1)) * pw = (h + half + 1) * (2 * pw)
        BY <2>2
      <4>3. QED
        BY <4>1, <4>2
    <3>6. w + pw < 2 * pw /\ w + pw \in Nat /\ h + half + 1 \in Nat
      BY <2>2, <2>3
    <3>7. (w + pw) * M + 1 = (h + half + 1) * (2 * pw)
      BY <2>3, <3>3, <3>4, <3>5
    <3>8. QED
      BY <2>2, <3>6, <3>7
  <2>6. QED
    BY <2>4, <2>5
<1>4. \A k \in 0 .. BITS : k \in T
  <2> HIDE DEF T
  <2>1. QED
    BY <1>1, <1>2, <1>3, UpTo
<1>5. PICK w \in Nat, e \in Nat : w < Base /\ w * M + 1 = e * Base
  BY <1>1, <1>4 DEF Base
<1>6. Base \in Nat \ {0} /\ w \in Word
  BY <1>5, BaseFacts DEF Word
<1>7. w * M = (e - 1) * Base + (Base - 1)
  <2>1. (e - 1) * Base = e * Base - Base /\ w * M \in Nat /\ e * Base \in Nat
    BY <1>6, Products
  <2>2. QED
    BY <1>5, <1>6, <2>1
<1>8. w * M \in Int /\ e - 1 \in Int /\ Base - 1 \in 0 .. (Base - 1)
  BY <1>6, Products
<1>9. (w * M) % Base = Base - 1
  BY <1>6, <1>7, <1>8, Remainder
<1>10. QED
  BY <1>6, <1>9

LEMMA PrimeIs ==
    ASSUME NEW M \in Nat, M % 2 = 1
    PROVE  Prime(M)[0] \in Word /\ (Prime(M)[0] * M) % Base = Base - 1
<1> DEFINE w0 == CHOOSE w \in 0 .. (Base - 1) : (w * M) % Base = Base - 1
<1>1. w0 \in 0 .. (Base - 1) /\ (w0 * M) % Base = Base - 1
  <2>1. \E w \in 0 .. (Base - 1) : (w * M) % Base = Base - 1
    BY PrimeExists DEF Word
  <2>2. QED
    BY <2>1
<1>2. Prime(M) = [zero EXCEPT ![0] = w0]
  BY DEF Prime
<1> HIDE DEF w0
<1>3. Prime(M)[0] = w0
  BY <1>2, WideFacts DEF zero
<1>4. QED
  BY <1>1, <1>3 DEF Word

LEMMA Division ==
    ASSUME NEW v \in Int, NEW w \in Nat \ {0}
    PROVE  \E q \in Int, r \in Int : v = q * w + r /\ v % w = r
<1>1. v \div w \in Int /\ v % w \in 0 .. (w - 1) /\ v = (v \div w) * w + (v % w)
  BY Quotient
<1>2. v % w \in Int
  BY <1>1
<1>3. QED
  BY <1>1, <1>2

\* The multiple of the modulus that is added clears the word.
LEMMA ClearedWord ==
    ASSUME NEW d \in Word, NEW w \in Word, NEW M \in Nat, (w * M) % Base = Base - 1
    PROVE  (d + ((d * w) % Base) * (M % Base)) % Base = 0
<1>1. Base \in Nat \ {0} /\ d \in Nat /\ w \in Nat
  BY BaseFacts DEF Word
<1>2. d * w \in Int /\ w * M \in Int /\ M \in Int
  BY <1>1
<1>3. PICK e \in Int, u \in Int : d * w = e * Base + u /\ (d * w) % Base = u
  BY <1>1, <1>2, Division
<1>4. PICK f \in Int : w * M = f * Base + (Base - 1)
  <2>1. \E f \in Int, r \in Int : w * M = f * Base + r /\ (w * M) % Base = r
    BY <1>1, <1>2, Division
  <2>2. QED
    BY <2>1
<1>5. PICK rest \in Int, m0 \in Int : M = rest * Base + m0 /\ M % Base = m0
  BY <1>1, <1>2, Division
<1> DEFINE k == d * f + d - d * (w * rest) - e * m0
<1>6. u * m0 = d * (w * m0) - (e * m0) * Base
  <2>1. (e * Base + u) * m0 = (e * m0) * Base + u * m0
    BY <1>1, <1>3, <1>5
  <2>2. (d * w) * m0 = d * (w * m0)
    BY <1>1, <1>5
  <2>3. (e * m0) * Base \in Int /\ u * m0 \in Int /\ d * (w * m0) \in Int
    BY <1>1, <1>3, <1>5
  <2>4. d * (w * m0) = (e * m0) * Base + u * m0
    BY <1>3, <2>1, <2>2
  <2>5. QED
    BY <2>3, <2>4
<1>7. w * m0 = f * Base + Base - 1 - (w * rest) * Base
  <2>1. w * (rest * Base + m0) = (w * rest) * Base + w * m0
    BY <1>1, <1>5
  <2>2. w * M = (w * rest) * Base + w * m0
    BY <1>5, <2>1
  <2>3. (w * rest) * Base \in Int /\ w * m0 \in Int /\ f * Base \in Int
    BY <1>1, <1>4, <1>5
  <2>4. QED
    BY <1>1, <1>4, <2>2, <2>3
<1>8. d * (f * Base + Base - 1 - (w * rest) * Base) = (d * f) * Base + d * Base - d - (d * (w * rest)) * Base
  BY <1>1, <1>4, <1>5
<1>9. k * Base = (d * f) * Base + d * Base - (d * (w * rest)) * Base - (e * m0) * Base
  BY <1>1, <1>3, <1>4, <1>5
<1>10. k \in Int
  BY <1>1, <1>3, <1>4, <1>5
<1>11. d + u * m0 = 0 + k * Base
  <2> DEFINE e1 == (d * f) * Base
             e2 == d * Base
             e3 == (d * (w * rest)) * Base
             e4 == (e * m0) * Base
             e5 == u * m0
  <2>1. e5 = (e1 + e2 - d - e3) - e4
    BY <1>6, <1>7, <1>8
  <2>2. k * Base = e1 + e2 - e3 - e4
    BY <1>9
  <2>3. e1 \in Int /\ e2 \in Int /\ e3 \in Int /\ e4 \in Int /\ e5 \in Int
    BY <1>1, <1>3, <1>4, <1>5
  <2> HIDE DEF e1, e2, e3, e4, e5, k
  <2>4. d + e5 = 0 + k * Base
    BY <1>1, <2>1, <2>2, <2>3
  <2>5. QED
    BY <2>4 DEF e5
<1> HIDE DEF k
<1>12. d + u * m0 \in Int /\ d + u * m0 = k * Base + 0 /\ 0 \in 0 .. (Base - 1)
  <2>1. u * m0 \in Int /\ k * Base \in Int
    BY <1>1, <1>3, <1>5, <1>10
  <2>2. QED
    BY <1>1, <1>11, <2>1
<1>13. (d + u * m0) % Base = 0
  BY <1>1, <1>10, <1>12, Remainder
<1>14. QED
  BY <1>3, <1>5, <1>13

LEMMA FromValueOfValue ==
    ASSUME NEW a \in Words
    PROVE  FromValue(Value(a)) = a
<1>1. Value(a) \in 0 .. (R - 1)
  BY ValueType
<1>2. FromValue(Value(a)) \in Words /\ Value(FromValue(Value(a))) = Value(a)
  BY <1>1, ValueOfFromValue
<1>3. QED
  BY <1>2, CompareCompares

LEMMA LowWord ==
    ASSUME NEW a \in Words
    PROVE  a[0] = Value(a) % Base
<1>1. Value(a) \in Nat
  BY ValueType, RFacts
<1>2. FromValue(Value(a))[0] = (Value(a) \div Weight[0]) % Base
  BY WideFacts DEF FromValue
<1>3. Value(a) \div 1 = Value(a)
  BY <1>1
<1>4. QED
  BY <1>2, <1>3, FromValueOfValue, Weights

LEMMA WeightMonotone ==
    ASSUME NEW j \in 0 .. Top, NEW i \in 0 .. j
    PROVE  Weight[i] <= Weight[j]
<1>1. i \in 0 .. Top /\ j - i \in 0 .. Top /\ i + (j - i) = j /\ i + (j - i) \in 0 .. Top
  BY TopFacts
<1>2. Weight[j] = Weight[i] * Weight[j - i]
  BY <1>1, WeightProduct
<1>3. Weight[i] \in Nat /\ Weight[j - i] \in Nat /\ 1 <= Weight[j - i]
  BY <1>1, Weights
<1>4. 1 * Weight[i] <= Weight[j - i] * Weight[i] /\ Weight[j - i] * Weight[i] = Weight[i] * Weight[j - i]
  BY <1>3, Monotone
<1>5. QED
  BY <1>2, <1>3, <1>4

\* The product with the multiples of the modulus never reaches past the top word.
LEMMA RoomOnTop ==
    ASSUME NEW M \in Nat, M < R, NEW P \in Nat, P < M * R, NEW q \in Nat, q < R
    PROVE  P + q * M < Weight[Top]
<1>1. R \in Nat /\ Base \in Nat /\ 2 <= Base
  BY RFacts, BaseFacts
<1>2. Weight[Top] = Base * (R * R)
  <2>1. /\ Top \in 1 .. Top /\ Top - 1 = SIZE + SIZE /\ SIZE \in 0 .. Top /\ SIZE + SIZE \in 0 .. Top
    BY TopFacts
  <2>2. Weight[Top] = Base * Weight[Top - 1]
    BY <2>1, Weights
  <2>3. Weight[SIZE + SIZE] = R * R
    BY <2>1, WeightProduct DEF R
  <2>4. QED
    BY <2>1, <2>2, <2>3
<1>3. q * M <= R * M /\ M * R <= R * R /\ R * M = M * R
  BY <1>1, Monotone
<1>4. R * R \in Nat /\ 2 * (R * R) <= Base * (R * R)
  <2>1. R * R \in Nat
    BY <1>1, Products
  <2>2. QED
    BY <1>1, <2>1, Monotone
<1>5. q * M \in Nat /\ M * R \in Nat /\ Base * (R * R) \in Nat
  BY <1>1, <1>4, Products
<1>6. QED
  BY <1>2, <1>3, <1>4, <1>5

\* One row of the reduction.
ReduceRow(t, i, m, w) ==
    LET Row(r) == add(r.t, i + SIZE, r.C) IN Row(MultiplyAdd(t, i, (t[i] * w) % Base, m))

\* After i rows: the low words are clear, and a multiple of M has been added.
RowsCleared(t, i, P, M) ==
    /\ t \in Product
    /\ \A k \in Wide : k < i => t[k] = 0
    /\ \E q \in Nat : q < Weight[i] /\ Part(t, Top) = P + q * M

LEMMA ReduceRowClears ==
    ASSUME NEW m \in Words, NEW w \in Word, (w * Value(m)) % Base = Base - 1,
           NEW P \in Nat, P < Value(m) * R,
           NEW i \in Index, NEW t, RowsCleared(t, i, P, Value(m))
    PROVE  RowsCleared(ReduceRow(t, i, m, w), i + 1, P, Value(m))
<1> DEFINE M == Value(m)
           u == (t[i] * w) % Base
           r == MultiplyAdd(t, i, u, m)
           s == add(r.t, i + SIZE, r.C)
           at == i + SIZE
<1>1. /\ i \in Nat /\ i \in Wide /\ at \in Wide /\ at \in 0 .. Top /\ i \in 0 .. Top /\ i + 1 \in 1 .. Top
      /\ i + 1 \in 0 .. SIZE /\ SIZE \in 0 .. Top /\ Top \in 0 .. Top /\ (i + 1) - 1 = i /\ at \in 0 .. Top
      /\ i + 1 \in 0 .. Top /\ i < at
      /\ \A k \in Wide : k < i + 1 => (k < i \/ k = i) /\ k < at
      /\ \A k \in at .. (Top - 1) : k \in Wide /\ k >= at
  BY TopFacts, WideFacts DEF Index, Wide
<1>2. M \in Nat /\ M < R /\ R \in Nat
  BY ValueType, RFacts
<1>3. PICK q \in Nat : q < Weight[i] /\ Part(t, Top) = P + q * M
  BY DEF RowsCleared
<1>4. t \in Product /\ t[i] \in Word /\ \A k \in Wide : k < i => t[k] = 0
  BY <1>1 DEF RowsCleared, Product
<1>5. u \in Word
  <2>1. t[i] * w \in Int /\ Base \in Nat \ {0}
    BY <1>4, BaseFacts DEF Word
  <2>2. QED
    BY <2>1 DEF Word
<1>6. Multiplies(r, SIZE, t, i, u, m)
  <2> HIDE DEF u
  <2>1. QED
    BY <1>4, <1>5, MultiplyAddMultiplies
<1>7. ReduceRow(t, i, m, w) = s
  BY DEF ReduceRow
<1> HIDE DEF r, M
<1>8. /\ r.t \in Product /\ r.C \in Word
      /\ \A k \in Wide : k < i \/ k >= at => r.t[k] = t[k]
      /\ r.t[i] = (t[i] + u * m[0]) % Base
  <2> HIDE DEF u
  <2>1. QED
    BY <1>6, TopFacts DEF Multiplies
<1>9. r.t[i] = 0
  <2>1. (t[i] + u * (M % Base)) % Base = 0
    BY <1>2, <1>4, ClearedWord DEF M
  <2>2. m[0] = M % Base
    BY LowWord DEF M
  <2> HIDE DEF u
  <2>3. QED
    BY <1>8, <2>1, <2>2
<1> HIDE DEF u
<1>10. Part(r.t, at) + r.C * Weight[at] = Part(t, at) + (u * M) * Weight[i]
  BY <1>6, ValueIsPart DEF Multiplies, SumWithProduct, M
<1>11. /\ Part(r.t, Top) \in Nat /\ Part(t, Top) \in Nat /\ Part(r.t, at) \in Nat /\ Part(t, at) \in Nat
       /\ Part(r.t, Top) - Part(r.t, at) = Part(t, Top) - Part(t, at)
  <2>1. Digits(r.t, Top) /\ Digits(t, Top)
    BY <1>1, <1>4, <1>8, ProductsAreDigits
  <2>2. \A k \in at .. (Top - 1) : r.t[k] = t[k]
    BY <1>1, <1>8
  <2> HIDE DEF at
  <2>3. QED
    BY <1>1, <2>1, <2>2, PartTail
<1> DEFINE Q == q + u * Weight[i]
<1>12. Q \in Nat /\ Q < Weight[i + 1] /\ u * Weight[i] \in Nat /\ Weight[i] \in Nat /\ u \in Nat
  <2>1. u \in Nat /\ Weight[i] \in Nat /\ Weight[i + 1] = Base * Weight[i]
    BY <1>1, <1>5, BaseFacts, Weights DEF Word
  <2>2. u * Weight[i] \in Nat /\ q + u * Weight[i] < Base * Weight[i]
    BY <1>3, <1>5, <2>1, DigitBound
  <2>3. QED
    BY <2>1, <2>2
<1>13. Part(r.t, Top) + r.C * Weight[at] = P + Q * M
  <2>1. Q * M = q * M + (u * M) * Weight[i]
    BY <1>2, <1>12
  <2> DEFINE e1 == r.C * Weight[at]
             e2 == (u * M) * Weight[i]
             e3 == q * M
  <2>2. r.C \in Nat /\ Weight[at] \in Nat
    BY <1>1, <1>8, BaseFacts, Weights DEF Word
  <2>3. e1 \in Int /\ e2 \in Int /\ e3 \in Int
    BY <1>2, <1>12, <2>2
  <2>4. /\ Part(r.t, at) + e1 = Part(t, at) + e2 /\ Part(t, Top) = P + e3
        /\ Q * M = e3 + e2
    BY <1>3, <1>10, <2>1
  <2> HIDE DEF e1, e2, e3, Q
  <2>5. Part(r.t, Top) + e1 = P + (e3 + e2)
    BY <1>11, <2>3, <2>4
  <2>6. QED
    BY <2>4, <2>5 DEF e1
<1>14. P + Q * M < Weight[Top]
  <2>1. Weight[i + 1] <= R
    BY <1>1, WeightMonotone DEF R
  <2>2. Q < R
    BY <1>1, <1>2, <1>12, <2>1, Weights
  <2> HIDE DEF Q
  <2>3. QED
    BY <1>2, <1>12, <2>2, RoomOnTop DEF M
<1> HIDE DEF Q
<1>15. /\ s \in Product /\ Part(s, Top) = P + Q * M
       /\ \A k \in Wide : k < at => s[k] = r.t[k]
  <2>1. Part(r.t, Top) + r.C * Weight[at] < Weight[Top]
    BY <1>13, <1>14
  <2>2. QED
    BY <1>1, <1>8, <1>13, <2>1, AddAdds
<1> HIDE DEF s, at
<1>16. \A k \in Wide : k < i + 1 => s[k] = 0
  BY <1>1, <1>4, <1>8, <1>9, <1>15
<1>17. RowsCleared(s, i + 1, P, M)
  BY <1>12, <1>15, <1>16 DEF RowsCleared
<1>18. QED
  BY <1>7, <1>17 DEF M

\* Reduced clears the lower half by adding a multiple of the modulus.
LEMMA ReducedClears ==
    ASSUME NEW m \in Words, NEW n0, n0[0] \in Word, (n0[0] * Value(m)) % Base = Base - 1,
           NEW product \in Product, Part(product, Top) < Value(m) * R
    PROVE  RowsCleared(Reduced(product, m, n0), SIZE, Part(product, Top), Value(m))
<1> DEFINE M == Value(m)
           P == Part(product, Top)
           w == n0[0]
           F(f) == [i \in 0 .. SIZE |-> IF i = 0 THEN product ELSE ReduceRow(f[i - 1], i - 1, m, w)]
           Good(i) == {t \in Product : RowsCleared(t, i, P, M)}
           G == [i \in 1 .. SIZE |-> [t \in Product |->
                    IF t \in Good(i - 1) THEN ReduceRow(t, i - 1, m, w) ELSE t]]
           row == CHOOSE f : f = F(f)
<1>1. /\ SIZE \in Nat /\ SIZE \in 0 .. SIZE /\ 0 \in 0 .. SIZE /\ Top \in 0 .. Top
      /\ \A i \in 1 .. SIZE : i - 1 \in 0 .. SIZE /\ i \in 0 .. SIZE /\ i # 0 /\ i - 1 \in Index
                              /\ (i - 1) + 1 = i
      /\ \A i \in 0 .. SIZE : i = 0 \/ i \in 1 .. SIZE
  BY TopFacts DEF Index
<1>2. M \in Nat /\ P \in Nat
  <2>1. Digits(product, Top)
    BY <1>1, ProductsAreDigits
  <2>2. QED
    BY <1>1, <2>1, PartType, ValueType, RFacts
<1>3. product \in Good(0)
  <2>1. \A k \in Wide : ~(k < 0)
    BY DEF Wide
  <2>2. 0 < Weight[0] /\ Part(product, Top) = P + 0 * M
    BY <1>2, Weights
  <2> HIDE DEF P, M
  <2>3. RowsCleared(product, 0, P, M)
    BY <2>1, <2>2 DEF RowsCleared
  <2>4. QED
    BY <2>3
<1>4. \A i \in 1 .. SIZE : \A t : RowsCleared(t, i - 1, P, M) => RowsCleared(ReduceRow(t, i - 1, m, w), i, P, M)
  <2> SUFFICES ASSUME NEW i \in 1 .. SIZE, NEW t, RowsCleared(t, i - 1, P, M)
               PROVE  RowsCleared(ReduceRow(t, i - 1, m, w), i, P, M)
    OBVIOUS
  <2>1. RowsCleared(ReduceRow(t, i - 1, m, w), (i - 1) + 1, P, M)
    BY <1>1, <1>2, ReduceRowClears
  <2>2. QED
    BY <1>1, <2>1
<1> HIDE DEF P, M
<1>5. \A i \in 1 .. SIZE : \A t \in Good(i - 1) : ReduceRow(t, i - 1, m, w) \in Good(i)
  <2> SUFFICES ASSUME NEW i \in 1 .. SIZE, NEW t \in Good(i - 1)
               PROVE  ReduceRow(t, i - 1, m, w) \in Good(i)
    OBVIOUS
  <2>1. RowsCleared(ReduceRow(t, i - 1, m, w), i, P, M)
    BY <1>4
  <2>2. QED
    BY <2>1 DEF RowsCleared
<1>6. PICK f \in [0 .. SIZE -> Product] : Iterates(f, SIZE, product, G)
  <2>1. G \in [1 .. SIZE -> [Product -> Product]]
    <3>1. \A i \in 1 .. SIZE : \A t \in Product :
            (IF t \in Good(i - 1) THEN ReduceRow(t, i - 1, m, w) ELSE t) \in Product
      BY <1>5
    <3> HIDE DEF Good
    <3>2. QED
      BY <3>1
  <2> HIDE DEF G
  <2>2. QED
    BY <1>1, <2>1, Recursion
<1> DEFINE T == {i \in 0 .. SIZE : f[i] \in Good(i)}
<1>7. \A i \in 1 .. SIZE : i - 1 \in T => i \in T /\ f[i] = ReduceRow(f[i - 1], i - 1, m, w)
  <2>1. \A i \in 1 .. SIZE : f[i] = G[i][f[i - 1]] /\ f[i - 1] \in Product
    BY <1>1, <1>6 DEF Iterates
  <2> HIDE DEF Good
  <2>2. QED
    BY <1>1, <1>5, <2>1
<1>8. \A i \in 0 .. SIZE : i \in T
  <2>1. 0 \in T
    BY <1>1, <1>3, <1>6 DEF Iterates
  <2> HIDE DEF T
  <2>2. QED
    BY <1>1, <1>7, <2>1, UpTo
<1>9. f = F(f)
  <2>1. f[0] = product /\ \A i \in 1 .. SIZE : f[i] = ReduceRow(f[i - 1], i - 1, m, w)
    BY <1>1, <1>6, <1>7, <1>8 DEF Iterates
  <2>2. QED
    BY <1>1, <2>1
<1> HIDE DEF Good, G
<1>10. row = F(row)
  BY <1>9
<1>11. Reduced(product, m, n0) = row[SIZE]
  BY DEF Reduced, ReduceRow
<1>12. row[0] = product /\ \A i \in 1 .. SIZE : row[i] = ReduceRow(row[i - 1], i - 1, m, w)
  <2> HIDE DEF row
  <2>1. QED
    BY <1>1, <1>10
<1> HIDE DEF row
<1> DEFINE U == {i \in 0 .. SIZE : RowsCleared(row[i], i, P, M)}
<1>13. \A i \in 0 .. SIZE : i \in U
  <2>1. 0 \in U
    BY <1>1, <1>3, <1>12 DEF Good
  <2>2. \A i \in 1 .. SIZE : i - 1 \in U => i \in U
    BY <1>1, <1>4, <1>12
  <2> HIDE DEF U
  <2>3. QED
    BY <1>1, <2>1, <2>2, UpTo
<1>14. QED
  BY <1>1, <1>11, <1>13 DEF P, M

\* The words from k on, as an array of their own.
LEMMA PartSplit ==
    ASSUME NEW k \in 0 .. Top, NEW j \in 0 .. Top, k + j \in 0 .. Top,
           NEW a, NEW c, Digits(a, k + j), \A i \in 0 .. (j - 1) : c[i] = a[i + k]
    PROVE  Digits(c, j) /\ Part(a, k + j) = Part(a, k) + Weight[k] * Part(c, j)
<1> DEFINE T == {i \in 0 .. j : Part(a, k + i) = Part(a, k) + Weight[k] * Part(c, i)}
<1>1. /\ j \in Nat /\ k \in Nat /\ j \in 0 .. j /\ 0 \in 0 .. j /\ k + 0 = k
      /\ \A i \in 0 .. j : k + i \in 0 .. Top /\ i \in 0 .. Top
      /\ \A i \in 1 .. j : /\ k + i \in 1 .. Top /\ i \in 1 .. Top /\ (k + i) - 1 = k + (i - 1)
                           /\ (i - 1) + k = k + (i - 1) /\ i - 1 \in 0 .. (j - 1) /\ i - 1 \in 0 .. j
                           /\ i - 1 \in 0 .. Top
      /\ \A i \in 0 .. (j - 1) : i + k \in 0 .. ((k + j) - 1)
  BY TopFacts
<1>2. Digits(c, j)
  BY <1>1 DEF Digits
<1>3. \A i \in 0 .. j : Digits(a, k + i) /\ Digits(c, i) /\ Part(a, k + i) \in Nat /\ Part(c, i) \in Nat
  <2>1. \A i \in 0 .. j : Digits(a, k + i) /\ Digits(c, i)
    BY <1>1, <1>2 DEF Digits
  <2>2. QED
    BY <1>1, <2>1, PartType
<1>4. 0 \in T
  BY <1>1, <1>3, PartNothing, Weights
<1>5. ASSUME NEW i \in 1 .. j, i - 1 \in T PROVE i \in T
  <2> DEFINE at == k + (i - 1)
             d == c[i - 1]
  <2>1. /\ Part(a, k + i) = Part(a, at) + a[at] * Weight[at]
        /\ Part(c, i) = Part(c, i - 1) + d * Weight[i - 1]
    <3>1. /\ Part(a, k + i) = Part(a, (k + i) - 1) + a[(k + i) - 1] * Weight[(k + i) - 1]
          /\ Part(c, i) = Part(c, i - 1) + c[i - 1] * Weight[i - 1]
      BY <1>1, <1>3, PartStep
    <3>2. QED
      BY <1>1, <3>1
  <2>2. a[at] = d
    BY <1>1
  <2>3. Weight[at] = Weight[k] * Weight[i - 1] /\ Weight[k] \in Int /\ Weight[i - 1] \in Int
    <3>1. k + (i - 1) \in 0 .. Top
      BY <1>1
    <3>2. QED
      BY <1>1, <3>1, WeightProduct, Weights
  <2>4. Part(a, at) = Part(a, k) + Weight[k] * Part(c, i - 1)
    BY <1>5
  <2>5. d \in Int /\ Part(a, k) \in Int /\ Part(c, i - 1) \in Int
    <3>1. d \in Word
      BY <1>1, <1>2 DEF Digits
    <3>2. d \in Int
      BY <3>1, BaseFacts DEF Word
    <3>3. Part(a, k + 0) \in Int /\ Part(c, i - 1) \in Int
      BY <1>1, <1>3
    <3>4. QED
      BY <1>1, <3>2, <3>3
  <2> HIDE DEF at, d
  <2>6. Weight[k] * (Part(c, i - 1) + d * Weight[i - 1])
          = Weight[k] * Part(c, i - 1) + d * (Weight[k] * Weight[i - 1])
    BY <2>3, <2>5
  <2>7. /\ Weight[k] * Part(c, i - 1) \in Int /\ d * (Weight[k] * Weight[i - 1]) \in Int
    BY <2>3, <2>5
  <2>8. Part(a, k + i) = Part(a, k) + Weight[k] * Part(c, i - 1) + d * (Weight[k] * Weight[i - 1])
    BY <2>1, <2>2, <2>3, <2>4
  <2>9. Part(a, k + i) = Part(a, k) + Weight[k] * Part(c, i)
    BY <2>1, <2>5, <2>6, <2>7, <2>8
  <2>10. QED
    BY <2>9
<1>6. \A i \in 0 .. j : i \in T
  <2> HIDE DEF T
  <2>1. QED
    BY <1>1, <1>4, <1>5, UpTo
<1>7. QED
  BY <1>1, <1>2, <1>6

\* conditionalSubtract takes the modulus off once, also when the number has one
\* word more.
LEMMA ConditionalSubtract ==
    ASSUME NEW m \in Words, NEW a, Digits(a, SIZE + 1), Part(a, SIZE + 1) < 2 * Value(m)
    PROVE  LET r == conditionalSubtract(a, m)
               X == Part(a, SIZE + 1)
           IN  r \in Words /\ Value(r) < Value(m) /\ (Value(r) = X \/ Value(r) = X - Value(m))
<1> DEFINE low == [i \in Index |-> a[i]]
           d == sub_overflow(low, m)
           r == conditionalSubtract(a, m)
           X == Part(a, SIZE + 1)
           top == a[SIZE]
<1>1. /\ SIZE \in 0 .. Top /\ SIZE + 1 \in 1 .. Top /\ (SIZE + 1) - 1 = SIZE /\ SIZE \in 0 .. ((SIZE + 1) - 1)
      /\ \A i \in 0 .. (SIZE - 1) : i \in Index /\ i \in 0 .. ((SIZE + 1) - 1)
      /\ \A i \in Index : i \in 0 .. ((SIZE + 1) - 1)
  BY TopFacts DEF Index
<1>2. low \in Words /\ top \in Word
  <2>1. \A i \in Index : a[i] \in Word
    BY <1>1 DEF Digits
  <2>2. QED
    BY <1>1, <2>1 DEF Words, Word, Digits
<1>3. Part(low, SIZE) = Part(a, SIZE)
  <2>1. Same(low, a, SIZE)
    BY <1>1 DEF Same
  <2>2. Digits(low, SIZE) /\ Digits(a, SIZE)
    BY <1>1, <1>2, WordsAreDigits DEF Digits
  <2> HIDE DEF low
  <2>3. QED
    BY <1>1, <2>1, <2>2, PartSame
<1>4. r = IF top = 0 /\ compare(low, m) < 0 THEN low ELSE d.res
  BY DEF conditionalSubtract
<1> HIDE DEF r, low
<1>5. d.res \in Words /\ Value(d.res) - Borrow(d.carry) * R = Value(low) - Value(m)
  BY <1>2, SubOverflow
<1> HIDE DEF d
<1>6. X = Value(low) + top * R
  <2>1. X = Part(a, (SIZE + 1) - 1) + a[(SIZE + 1) - 1] * Weight[(SIZE + 1) - 1]
    BY <1>1, PartStep
  <2>2. QED
    BY <1>1, <1>3, <2>1, ValueIsPart DEF R
<1>7. /\ Value(low) \in 0 .. (R - 1) /\ Value(m) \in 0 .. (R - 1) /\ Value(d.res) \in 0 .. (R - 1)
      /\ R \in Nat /\ X < 2 * Value(m)
  BY <1>2, <1>5, ValueType, RFacts
<1> HIDE DEF X
<1>8. compare(low, m) < 0 <=> Value(low) < Value(m)
  <2>1. /\ compare(low, m) \in {-1, 0, 1}
        /\ compare(low, m) = 0 <=> Value(low) = Value(m)
        /\ compare(low, m) = 1 <=> Value(low) > Value(m)
    BY <1>2, CompareCompares
  <2>2. QED
    BY <1>7, <2>1
<1>9. Borrow(d.carry) \in {0, 1}
  BY DEF Borrow
<1>10. top = 0 \/ top = 1
  <2>1. top \in Nat
    BY <1>2, BaseFacts DEF Word
  <2>2. SUFFICES ASSUME 2 <= top PROVE FALSE
    BY <2>1
  <2>3. 2 * R <= top * R /\ top * R \in Nat
    BY <1>7, <2>1, <2>2, Monotone, Products
  <2>4. QED
    BY <1>6, <1>7, <2>3
<1> HIDE DEF top
<1>11. CASE top = 0 /\ Value(low) < Value(m)
  <2>1. r = low /\ X = Value(low)
    BY <1>4, <1>6, <1>7, <1>8, <1>11
  <2>2. QED
    BY <1>2, <1>11, <2>1 DEF r, X
<1>12. CASE top = 0 /\ ~(Value(low) < Value(m))
  <2>1. r = d.res /\ X = Value(low)
    BY <1>4, <1>6, <1>7, <1>8, <1>12
  <2>2. Borrow(d.carry) = 0
    BY <1>5, <1>7, <1>9, <1>12
  <2>3. Value(d.res) = X - Value(m) /\ Value(d.res) < Value(m)
    BY <1>5, <1>7, <2>1, <2>2
  <2>4. QED
    BY <1>5, <2>1, <2>3 DEF r, X
<1>13. CASE top = 1
  <2>1. r = d.res /\ X = Value(low) + R
    BY <1>4, <1>6, <1>7, <1>13
  <2>2. Value(low) < Value(m)
    BY <1>7, <2>1
  <2>3. Borrow(d.carry) = 1
    BY <1>5, <1>7, <1>9, <2>2
  <2>4. Value(d.res) = X - Value(m) /\ Value(d.res) < Value(m)
    BY <1>5, <1>7, <2>1, <2>3
  <2>5. QED
    BY <1>5, <2>1, <2>4 DEF r, X
<1>14. QED
  BY <1>10, <1>11, <1>12, <1>13

\* montMul gives x y / R modulo an odd modulus, reduced.
LEMMA MontMul ==
    ASSUME NEW a \in Words, NEW c \in Words, NEW m \in Words, Value(m) % 2 = 1,
           Value(a) < Value(m), Value(c) < Value(m)
    PROVE  LET r == montMul(a, c, m, Prime(Value(m)))
           IN  /\ r \in Words /\ Value(r) < Value(m)
               /\ (Value(r) * R) % Value(m) = (Value(a) * Value(c)) % Value(m)
<1> DEFINE M == Value(m)
           P == Value(a) * Value(c)
           n0 == Prime(M)
           product == Multiplied(a, c)
           t == Reduced(product, m, n0)
           high == [i \in 0 .. SIZE |-> t[i + SIZE]]
           r == conditionalSubtract(high, m)
           X == Part(high, SIZE + 1)
<1>1. /\ M \in Nat \ {0} /\ M < R /\ R \in Nat \ {0} /\ Value(a) \in Nat /\ Value(c) \in Nat
      /\ Value(a) < M /\ Value(c) < M
  <2>1. Value(m) \in Nat /\ Value(m) < R /\ R \in Nat \ {0} /\ Value(a) \in Nat /\ Value(c) \in Nat
    BY ValueType, RFacts
  <2>2. Value(m) # 0
    OBVIOUS
  <2>3. QED
    BY <2>1, <2>2
<1>2. P \in Nat /\ P < M * R
  <2>1. P \in Nat
    BY <1>1, Products
  <2>2. Value(a) * Value(c) <= M * Value(c) /\ Value(c) * M <= R * M
    BY <1>1, Monotone
  <2>3. Value(c) * M < R * M
    <3>1. (Value(c) + 1) * M <= R * M
      BY <1>1, Monotone
    <3>2. (Value(c) + 1) * M = Value(c) * M + M
      BY <1>1
    <3>3. Value(c) * M \in Nat /\ R * M \in Nat
      BY <1>1, Products
    <3>4. QED
      BY <1>1, <3>1, <3>2, <3>3
  <2>4. M * Value(c) = Value(c) * M /\ R * M = M * R /\ M * Value(c) \in Nat /\ M * R \in Nat
    BY <1>1, Products
  <2>5. QED
    BY <2>1, <2>2, <2>3, <2>4
<1>3. montMul(a, c, m, Prime(Value(m))) = r
  BY DEF montMul
<1>4. n0[0] \in Word /\ (n0[0] * M) % Base = Base - 1
  BY <1>1, PrimeIs
<1>5. product \in Product /\ Part(product, Top) = P
  BY MultipliedIs
<1> HIDE DEF P, n0, product
<1>6. RowsCleared(t, SIZE, P, M)
  BY <1>2, <1>4, <1>5, ReducedClears
<1> HIDE DEF t
<1>7. t \in Product /\ \A k \in Wide : k < SIZE => t[k] = 0
  BY <1>6 DEF RowsCleared
<1>8. PICK q \in Nat : q < R /\ Part(t, Top) = P + q * M
  BY <1>6 DEF RowsCleared, R
<1>9. Digits(high, SIZE + 1) /\ Part(t, Top) = R * X
  <2>1. /\ SIZE \in 0 .. Top /\ SIZE + 1 \in 0 .. Top /\ SIZE + (SIZE + 1) = Top /\ Top \in 0 .. Top
        /\ \A k \in 0 .. (SIZE - 1) : k \in Wide /\ k < SIZE
        /\ \A i \in 0 .. ((SIZE + 1) - 1) : i \in 0 .. SIZE
    BY TopFacts DEF Wide
  <2>2. Digits(t, Top) /\ Digits(t, SIZE + (SIZE + 1))
    BY <1>7, <2>1, ProductsAreDigits
  <2>3. \A i \in 0 .. ((SIZE + 1) - 1) : high[i] = t[i + SIZE]
    BY <2>1
  <2> HIDE DEF high
  <2>4. /\ Digits(high, SIZE + 1)
        /\ Part(t, SIZE + (SIZE + 1)) = Part(t, SIZE) + Weight[SIZE] * Part(high, SIZE + 1)
    BY <2>1, <2>2, <2>3, PartSplit
  <2>5. Part(t, SIZE) = 0
    BY <1>7, <2>1, PartZeros
  <2>6. Part(high, SIZE + 1) \in Int /\ R \in Int
    BY <1>1, <2>1, <2>4, PartType
  <2>7. R * Part(high, SIZE + 1) \in Int
    BY <2>6
  <2>8. QED
    BY <2>1, <2>4, <2>5, <2>7 DEF R
<1> HIDE DEF high
<1>10. X \in Nat
  <2>1. SIZE + 1 \in 0 .. Top
    BY TopFacts
  <2>2. QED
    BY <1>9, <2>1, PartType
<1> HIDE DEF X
<1>11. X < 2 * M
  <2>1. SUFFICES ASSUME 2 * M <= X PROVE FALSE
    BY <1>1, <1>10
  <2>2. (2 * M) * R <= X * R /\ q * M <= R * M
    BY <1>1, <1>8, <1>10, <2>1, Monotone
  <2>3. (2 * M) * R = M * R + M * R /\ X * R = R * X /\ R * M = M * R
    BY <1>1, <1>10
  <2>4. q * M \in Nat /\ M * R \in Nat /\ R * X \in Nat
    BY <1>1, <1>8, <1>10, Products
  <2>5. QED
    BY <1>2, <1>8, <1>9, <2>2, <2>3, <2>4
<1>12. r \in Words /\ Value(r) < M /\ (Value(r) = X \/ Value(r) = X - M)
  BY <1>9, <1>11, ConditionalSubtract DEF X
<1> HIDE DEF r
<1>13. PICK k \in Int : Value(r) * R = P + k * M
  <2>1. R * X = P + q * M
    BY <1>8, <1>9
  <2>2. CASE Value(r) = X
    <3>1. X * R = P + q * M
      BY <1>1, <1>10, <2>1
    <3>2. QED
      BY <2>2, <3>1
  <2>3. CASE Value(r) = X - M
    <3>1. (X - M) * R = R * X - R * M /\ (q - R) * M = q * M - R * M
      BY <1>1, <1>8, <1>10
    <3>2. q * M \in Int /\ R * M \in Int /\ q - R \in Int /\ (q - R) * M \in Int
      BY <1>1, <1>8
    <3>3. (X - M) * R = P + (q - R) * M
      BY <1>2, <2>1, <3>1, <3>2
    <3>4. QED
      BY <2>3, <3>2, <3>3
  <2>4. QED
    BY <1>12, <2>2, <2>3
<1>14. (P + k * M) % M = P % M
  BY <1>1, <1>2, RemainderOfMultiple
<1>15. (Value(r) * R) % M = P % M
  BY <1>13, <1>14
<1>16. QED
  BY <1>3, <1>12, <1>15 DEF P

-----------------------------------------------------------------------------
(* Halving.                                                                *)

LEMMA Halves ==
    ASSUME NEW v \in Nat
    PROVE  v \div 2 \in Nat /\ v % 2 \in {0, 1} /\ v = 2 * (v \div 2) + (v % 2)
<1>1. v \in Int /\ 2 \in Nat \ {0}
  OBVIOUS
<1>2. /\ v % 2 \in 0 .. (2 - 1) /\ v = (v \div 2) * 2 + (v % 2) /\ v \div 2 \in Nat
  BY <1>1, Quotient
<1>3. QED
  BY <1>2

\* The low word has the parity of the number.
LEMMA Parity ==
    ASSUME NEW a \in Words
    PROVE  a[0] % 2 = Value(a) % 2
<1>1. Value(a) \in Nat /\ Value(a) \in Int /\ Base \in Nat \ {0}
  BY ValueType, RFacts, BaseFacts
<1>2. PICK q \in Int, r \in Int : Value(a) = q * Base + r /\ Value(a) % Base = r
  BY <1>1, Division
<1>3. a[0] = r
  BY <1>2, LowWord
<1>4. PICK h \in Int : Base = 2 * h
  <2>1. Base = 2 * (Base \div 2) /\ Base \div 2 \in Int
    BY BaseFacts
  <2>2. QED
    BY <2>1
<1>5. q * (2 * h) = (q * h) * 2 /\ q * h \in Int
  OBVIOUS
<1> DEFINE k == q * h
<1>6. Value(a) = r + k * 2 /\ k \in Int
  BY <1>2, <1>4, <1>5
<1> HIDE DEF k
<1>7. (r + k * 2) % 2 = r % 2
  BY <1>6
<1>8. QED
  BY <1>3, <1>6, <1>7

LEMMA HalfWord ==
    ASSUME NEW d \in Word, NEW above \in {0, 1}
    PROVE  /\ (d \div 2) + above * (Base \div 2) \in Word
           /\ OneSum(2 * ((d \div 2) + above * (Base \div 2)), -above, d, -(d % 2), 0)
<1>1. Base = 2 * (Base \div 2) /\ Base \div 2 \in Nat /\ Base \in Nat
  BY BaseFacts
<1>2. d \in Nat /\ d < Base
  BY BaseFacts DEF Word
<1>3. d \div 2 \in Nat /\ d % 2 \in {0, 1} /\ d = 2 * (d \div 2) + (d % 2)
  BY <1>2, Halves
<1> DEFINE h == d \div 2
           r == d % 2
           hb == Base \div 2
<1>4. h \in Nat /\ r \in {0, 1} /\ d = 2 * h + r /\ Base = 2 * hb /\ hb \in Nat
  BY <1>1, <1>3, Zenon
<1> HIDE DEF h, r, hb
<1>5. CASE above = 0
  BY <1>2, <1>4, <1>5 DEF Word, OneSum, h, r, hb
<1>6. CASE above = 1
  <2>1. h + hb \in 0 .. (Base - 1) /\ 2 * (h + hb) - Base = d - r
    BY <1>2, <1>4
  <2>2. h + 1 * hb = h + hb /\ 2 * (h + hb) + (-1) * Base = d + (-r) + 0
    BY <1>2, <1>4, <2>1
  <2>3. h + above * hb \in Word /\ OneSum(2 * (h + above * hb), -above, d, -r, 0)
    BY <1>6, <2>1, <2>2 DEF Word, OneSum
  <2>4. QED
    BY <2>3 DEF h, r, hb
<1>7. QED
  BY <1>5, <1>6

\* divideByTwo shifts the whole array, with the carry into the top bit.
LEMMA DivideByTwo ==
    ASSUME NEW a \in Words, NEW c \in {0, 1}
    PROVE  /\ divideByTwo(a, c) \in Words
           /\ 2 * Value(divideByTwo(a, c)) = Value(a) - (Value(a) % 2) + c * R
<1> DEFINE bit == [k \in 0 .. SIZE |-> IF k = SIZE THEN c ELSE a[k] % 2]
           r == divideByTwo(a, c)
<1>1. /\ SIZE \in Nat /\ SIZE > 0 /\ SIZE \in 0 .. SIZE /\ 0 \in 0 .. SIZE /\ SIZE \in 0 .. Top
      /\ \A k \in 1 .. SIZE : k - 1 \in Index /\ k - 1 \in 0 .. SIZE /\ k \in 1 .. Top /\ k \in 0 .. SIZE
                              /\ k - 1 # SIZE /\ k - 1 \in 0 .. Top
      /\ \A i \in Index : i \in 0 .. SIZE /\ i + 1 \in 0 .. SIZE /\ i # SIZE /\ (i = SIZE - 1 <=> i + 1 = SIZE)
      /\ 0 # SIZE
  BY TopFacts DEF Index
<1>2. \A i \in Index : a[i] \in Word /\ a[i] \in Nat
  BY BaseFacts DEF Words, Word
<1>3. \A k \in 0 .. SIZE : bit[k] \in {0, 1}
  <2> SUFFICES ASSUME NEW k \in 0 .. SIZE PROVE bit[k] \in {0, 1}
    OBVIOUS
  <2>1. CASE k = SIZE
    BY <2>1
  <2>2. CASE k # SIZE
    <3>1. k \in Index
      BY <1>1, <2>2 DEF Index
    <3>2. a[k] % 2 \in {0, 1}
      BY <1>2, <3>1, Halves
    <3>3. QED
      BY <2>2, <3>2
  <2>3. QED
    BY <2>1, <2>2
<1>4. \A i \in Index : r[i] = (a[i] \div 2) + bit[i + 1] * (Base \div 2) /\ bit[i] = a[i] % 2
  BY <1>1 DEF divideByTwo
<1> HIDE DEF bit
<1>5. \A i \in Index : r[i] \in Word /\ OneSum(2 * r[i], -bit[i + 1], a[i], -bit[i], 0)
  <2> SUFFICES ASSUME NEW i \in Index
               PROVE  r[i] \in Word /\ OneSum(2 * r[i], -bit[i + 1], a[i], -bit[i], 0)
    OBVIOUS
  <2>1. a[i] \in Word /\ bit[i + 1] \in {0, 1}
    BY <1>1, <1>2, <1>3
  <2>2. r[i] = (a[i] \div 2) + bit[i + 1] * (Base \div 2) /\ bit[i] = a[i] % 2
    BY <1>4
  <2> HIDE DEF r
  <2>3. QED
    BY <2>1, <2>2, HalfWord
<1>6. r \in Words
  BY <1>5 DEF divideByTwo, Words, Word
<1> HIDE DEF r
<1> DEFINE T == {k \in 0 .. SIZE : LowSum(2 * Part(r, k), -bit[k], Weight[k], Part(a, k), -bit[0])}
<1>7. 0 \in T
  <2>1. bit[0] \in {0, 1} /\ Part(r, 0) = 0 /\ Part(a, 0) = 0 /\ Weight[0] = 1
    BY <1>1, <1>3, PartNothing, Weights
  <2>2. 2 * 0 + (-bit[0]) * 1 = 0 + (-bit[0])
    BY <2>1
  <2>3. QED
    BY <1>1, <2>1, <2>2 DEF LowSum
<1>8. \A k \in 0 .. SIZE : /\ Digits(a, k) /\ Digits(r, k) /\ k \in 0 .. Top
                           /\ Part(a, k) \in Nat /\ Part(r, k) \in Nat
  BY <1>6, WordsAreDigits, PartType
<1>9. ASSUME NEW k \in 1 .. SIZE, k - 1 \in T PROVE k \in T
  <2> DEFINE at == k - 1
  <2>1. at \in Index /\ at \in 0 .. SIZE /\ at + 1 = k /\ k \in 0 .. SIZE
    BY <1>1
  <2>2. /\ Part(r, k) = Part(r, at) + r[at] * Weight[at]
        /\ Part(a, k) = Part(a, at) + a[at] * Weight[at]
        /\ Weight[k] = Base * Weight[at] /\ Weight[at] \in Int
    BY <1>1, <1>8, PartStep, Weights
  <2>3. LowSum(2 * Part(r, at), -bit[at], Weight[at], Part(a, at), -bit[0])
    BY <1>9
  <2> HIDE DEF at
  <2>4. OneSum(2 * r[at], -bit[k], a[at], -bit[at], 0) /\ r[at] \in Word /\ a[at] \in Int
    BY <1>2, <1>5, <2>1
  <2>5. r[at] \in Int
    BY <2>4, BaseFacts DEF Word
  <2>6. /\ 2 * Part(r, at) \in Int /\ Part(a, at) \in Int /\ -bit[0] \in Int /\ -bit[at] \in Int
        /\ -bit[k] \in Int /\ 2 * r[at] \in Int /\ Part(r, at) \in Int
    <3>1. bit[0] \in {0, 1} /\ bit[at] \in {0, 1} /\ bit[k] \in {0, 1}
      BY <1>1, <1>3, <2>1
    <3>2. Part(r, at) \in Int /\ Part(a, at) \in Int
      BY <1>8, <2>1
    <3>3. QED
      BY <2>5, <3>1, <3>2
  <2>7. LowSum(2 * Part(r, at) + (2 * r[at]) * Weight[at], -bit[k], Base * Weight[at],
               Part(a, at) + a[at] * Weight[at], -bit[0] + 0 * Weight[at])
    BY <2>2, <2>3, <2>4, <2>6, SumStep
  <2>8. -bit[0] + 0 * Weight[at] = -bit[0]
    BY <2>2, <2>6
  <2>9. 2 * Part(r, at) + (2 * r[at]) * Weight[at] = 2 * Part(r, k)
    BY <2>2, <2>5, <2>6
  <2>10. LowSum(2 * Part(r, k), -bit[k], Weight[k], Part(a, k), -bit[0])
    BY <2>2, <2>7, <2>8, <2>9
  <2>11. QED
    BY <2>1, <2>10
<1>10. \A k \in 0 .. SIZE : k \in T
  <2> HIDE DEF T
  <2>1. QED
    BY <1>1, <1>7, <1>9, UpTo
<1>11. LowSum(2 * Part(r, SIZE), -bit[SIZE], Weight[SIZE], Part(a, SIZE), -bit[0])
  BY <1>1, <1>10
<1>12. bit[SIZE] = c /\ bit[0] = Value(a) % 2
  <2>1. bit[0] = a[0] % 2
    BY <1>4, WideFacts
  <2>2. bit[SIZE] = c
    BY <1>1 DEF bit
  <2>3. QED
    BY <2>1, <2>2, Parity
<1>13. 2 * Value(r) + (-c) * R = Value(a) + (-(Value(a) % 2))
  BY <1>11, <1>12, ValueIsPart DEF LowSum, R
<1>14. Value(r) \in Int /\ R \in Int /\ Value(a) \in Int /\ Value(a) % 2 \in Int
  BY <1>6, <1>8, ValueType, RFacts
<1>15. 2 * Value(r) = Value(a) - (Value(a) % 2) + c * R
  <2> DEFINE odd == Value(a) % 2
  <2>1. 2 * Value(r) + (-c) * R = Value(a) + (-odd) /\ odd \in Int
    BY <1>13, <1>14
  <2> HIDE DEF odd
  <2>2. 2 * Value(r) = Value(a) - odd + c * R
    BY <1>14, <2>1
  <2>3. QED
    BY <2>2 DEF odd
<1>16. QED
  BY <1>6, <1>15 DEF r

LEMMA HalvedIs ==
    ASSUME NEW a \in Words, NEW m \in Words, Value(m) % 2 = 1
    PROVE  /\ Halved(a, m) \in Words
           /\ 2 * Value(Halved(a, m)) = IF Value(a) % 2 = 1 THEN Value(a) + Value(m) ELSE Value(a)
<1> DEFINE s == add_overflow(a, m)
<1>1. /\ Value(a) \in Nat /\ Value(m) \in Nat /\ R \in Nat /\ R % 2 = 0
  BY ValueType, RFacts
<1>2. CASE a[0] % 2 = 1
  <2>1. Halved(a, m) = divideByTwo(s.res, s.carry)
    BY <1>2 DEF Halved
  <2>2. s.res \in Words /\ s.carry \in {0, 1} /\ Value(s.res) + s.carry * R = Value(a) + Value(m)
    BY AddOverflow
  <2> HIDE DEF s
  <2>3. /\ divideByTwo(s.res, s.carry) \in Words
        /\ 2 * Value(divideByTwo(s.res, s.carry)) = Value(s.res) - (Value(s.res) % 2) + s.carry * R
    BY <2>2, DivideByTwo
  <2>4. Value(a) % 2 = 1
    BY <1>2, Parity
  <2>5. Value(s.res) % 2 = 0
    <3>1. Value(s.res) \in Nat
      BY <2>2, ValueType, RFacts
    <3>2. CASE s.carry = 0
      BY <1>1, <2>2, <2>4, <3>1, <3>2
    <3>3. CASE s.carry = 1
      BY <1>1, <2>2, <2>4, <3>1, <3>3
    <3>4. QED
      BY <2>2, <3>2, <3>3
  <2>6. Value(s.res) \in Nat /\ s.carry * R \in Int
    BY <1>1, <2>2, ValueType, RFacts
  <2>7. 2 * Value(divideByTwo(s.res, s.carry)) = Value(s.res) - 0 + s.carry * R
    BY <2>3, <2>5
  <2>8. 2 * Value(divideByTwo(s.res, s.carry)) = Value(a) + Value(m)
    BY <2>2, <2>6, <2>7
  <2>9. QED
    BY <2>1, <2>3, <2>4, <2>8
<1>3. CASE a[0] % 2 # 1
  <2>1. Halved(a, m) = divideByTwo(a, 0)
    BY <1>3 DEF Halved
  <2>2. Value(a) % 2 = 0
    BY <1>1, <1>3, Parity, Halves
  <2>3. /\ divideByTwo(a, 0) \in Words
        /\ 2 * Value(divideByTwo(a, 0)) = Value(a) - (Value(a) % 2) + 0 * R
    BY DivideByTwo
  <2>4. 2 * Value(divideByTwo(a, 0)) = Value(a) - 0 + 0 * R
    BY <2>2, <2>3
  <2>5. 2 * Value(divideByTwo(a, 0)) = Value(a)
    BY <1>1, <2>4
  <2>6. QED
    BY <2>1, <2>2, <2>3, <2>5
<1>4. QED
  BY <1>2, <1>3

-----------------------------------------------------------------------------
(* Modular inversion (mod_arithmetic.c): the loop on numbers.              *)

Represents(r, u, x, M) == \E k \in Int : r * x = u + k * M
Coprime(u, v) == \A d \in Nat, i \in Nat, j \in Nat : u = d * i /\ v = d * j => d = 1

\* If r x is u modulo M, then (r / 2) x is u / 2: what is added to an odd r is M.
LEMMA HalfRepresents ==
    ASSUME NEW r \in Nat, NEW w \in Nat, NEW x \in Nat, NEW M \in Nat, M % 2 = 1,
           NEW h \in Nat, 2 * h = r \/ 2 * h = r + M, Represents(r, 2 * w, x, M)
    PROVE  Represents(h, w, x, M)
<1>1. PICK k \in Int : r * x = 2 * w + k * M
  BY DEF Represents
<1>2. PICK c \in Int : 2 * (h * x) = 2 * w + c * M
  <2>1. CASE 2 * h = r
    <3>1. 2 * (h * x) = r * x
      BY <2>1
    <3>2. QED
      BY <1>1, <3>1
  <2>2. CASE 2 * h = r + M
    <3>1. 2 * (h * x) = r * x + x * M
      <4>1. (2 * h) * x = 2 * (h * x)
        OBVIOUS
      <4>2. (r + M) * x = r * x + x * M
        OBVIOUS
      <4>3. QED
        BY <2>2, <4>1, <4>2
    <3>2. k * M + x * M = (k + x) * M /\ k + x \in Int
      OBVIOUS
    <3> DEFINE c == k + x
               km == k * M
               xm == x * M
               rx == r * x
               hx == h * x
    <3>3. km \in Int /\ xm \in Int /\ rx \in Int /\ hx \in Int
      OBVIOUS
    <3>4. 2 * hx = rx + xm /\ rx = 2 * w + km /\ km + xm = c * M
      BY <1>1, <3>1, <3>2
    <3>5. c * M \in Int /\ c \in Int
      OBVIOUS
    <3> HIDE DEF km, xm, rx, c
    <3>6. 2 * hx = 2 * w + c * M
      BY <3>3, <3>4, <3>5
    <3>7. QED
      BY <3>5, <3>6
  <2>3. QED
    BY <2>1, <2>2
<1>3. PICK half \in Int : M = 2 * half + 1
  <2>1. M = 2 * (M \div 2) + (M % 2) /\ M \div 2 \in Nat
    BY Halves
  <2>2. QED
    BY <2>1
<1> DEFINE ch == c * half
           hx == h * x
           k2 == hx - w - ch
<1>4. ch \in Int /\ hx \in Int /\ k2 \in Int
  OBVIOUS
<1>5. c * (2 * half + 1) = 2 * ch + c
  OBVIOUS
<1>6. c * M = 2 * ch + c
  BY <1>3, <1>5
<1>7. 2 * hx = 2 * w + c * M
  BY <1>2
<1> HIDE DEF ch, hx
<1>8. c = 2 * k2
  BY <1>4, <1>6, <1>7
<1> HIDE DEF k2
<1>9. (2 * k2) * M = 2 * (k2 * M) /\ k2 * M \in Int
  BY <1>4
<1>10. 2 * hx = 2 * w + 2 * (k2 * M)
  BY <1>7, <1>8, <1>9
<1>11. hx = w + k2 * M
  BY <1>4, <1>9, <1>10
<1>12. QED
  BY <1>4, <1>11 DEF Represents, hx

LEMMA DifferenceRepresents ==
    ASSUME NEW r \in Nat, NEW q \in Nat, NEW u \in Nat, NEW v \in Nat, NEW x \in Nat,
           NEW M \in Nat \ {0}, Represents(r, u, x, M), Represents(q, v, x, M)
    PROVE  Represents((r - q) % M, u - v, x, M)
<1>1. PICK k \in Int : r * x = u + k * M
  BY DEF Represents
<1>2. PICK l \in Int : q * x = v + l * M
  BY DEF Represents
<1>3. PICK c \in Int, rest \in Int : r - q = c * M + rest /\ (r - q) % M = rest
  <2>1. r - q \in Int
    OBVIOUS
  <2>2. QED
    BY <2>1, Division
<1> DEFINE k2 == k - l - c * x
           rx == r * x
           qx == q * x
           tx == rest * x
           cx == (c * x) * M
           km == k * M
           lm == l * M
<1>4. (c * M + rest) * x = cx + tx /\ (r - q) * x = rx - qx
  OBVIOUS
<1>5. k2 * M = km - lm - cx /\ k2 \in Int /\ k2 * M \in Int
  OBVIOUS
<1>6. rx \in Int /\ qx \in Int /\ tx \in Int /\ cx \in Int /\ km \in Int /\ lm \in Int
  OBVIOUS
<1>7. rx = u + km /\ qx = v + lm
  BY <1>1, <1>2
<1>8. rx - qx = cx + tx
  BY <1>3, <1>4
<1> HIDE DEF k2, rx, qx, tx, cx, km, lm
<1>9. tx = (u - v) + k2 * M
  BY <1>5, <1>6, <1>7, <1>8
<1>10. QED
  BY <1>3, <1>5, <1>9 DEF Represents, tx

LEMMA CoprimeSwap == \A u, v : Coprime(u, v) <=> Coprime(v, u)
BY DEF Coprime

LEMMA HalfCoprime ==
    ASSUME NEW w \in Nat, NEW v \in Nat, Coprime(2 * w, v)
    PROVE  Coprime(w, v)
<1> SUFFICES ASSUME NEW d \in Nat, NEW i \in Nat, NEW j \in Nat, w = d * i, v = d * j
             PROVE  d = 1
  BY DEF Coprime
<1>1. 2 * (d * i) = d * (2 * i) /\ 2 * i \in Nat
  OBVIOUS
<1>2. QED
  BY <1>1 DEF Coprime

LEMMA DifferenceCoprime ==
    ASSUME NEW u \in Nat, NEW v \in Nat, v <= u, Coprime(u, v)
    PROVE  Coprime(u - v, v)
<1> SUFFICES ASSUME NEW d \in Nat, NEW i \in Nat, NEW j \in Nat, u - v = d * i, v = d * j
             PROVE  d = 1
  BY DEF Coprime
<1>1. d * (i + j) = d * i + d * j /\ i + j \in Nat /\ d * i \in Nat /\ d * j \in Nat
  OBVIOUS
<1>2. u = d * (i + j)
  BY <1>1
<1>3. QED
  BY <1>1, <1>2 DEF Coprime

\* A prime modulus and a smaller number are coprime.
LEMMA PrimeCoprime ==
    ASSUME NEW M \in {CurveP, CurveN}, NEW x \in 1 .. (M - 1)
    PROVE  Coprime(M, x)
<1> SUFFICES ASSUME NEW d \in Nat, NEW i \in Nat, NEW j \in Nat, M = d * i, x = d * j
             PROVE  d = 1
  BY DEF Coprime
<1>1. M \in 3 .. (R - 1) /\ R \in Nat
  BY CurveAssumption, RFacts DEF R
<1>2. M \in Nat /\ M >= 3 /\ x \in Nat /\ x # 0 /\ x < M
  BY <1>1
<1>3. d # 0 /\ j # 0
  BY <1>2
<1>4. d <= d * j
  BY <1>3
<1>5. d < M
  BY <1>2, <1>4
<1>6. SUFFICES ASSUME d \in 2 .. (M - 1) PROVE FALSE
  BY <1>2, <1>3, <1>5
<1>7. M = i * d + 0 /\ 0 \in 0 .. (d - 1) /\ d \in Nat \ {0}
  BY <1>6
<1>8. M % d = 0
  BY <1>2, <1>7, Remainder
<1>9. QED
  BY <1>6, <1>8, CurveAssumption

\* A loop that need not end is still a function: where it does not end, every
\* value will do.
Looped(f, S, D, G) == [s \in S |-> IF s \in D THEN s ELSE f[G[s]]]

LEMMA LoopExists ==
    ASSUME NEW S, NEW D, NEW G \in [S -> S]
    PROVE  \E f : f = Looped(f, S, D, G)
<1> DEFINE Closed(Y) == \A s \in S : IF s \in D THEN s \in Y[s] ELSE Y[G[s]] \subseteq Y[s]
           Z == [s \in S |-> {e \in S : \A Y \in [S -> SUBSET S] : Closed(Y) => e \in Y[s]}]
           Y1 == [s \in S |-> {e \in Z[s] : IF s \in D THEN e = s ELSE e \in Z[G[s]]}]
<1>1. \A s \in S : G[s] \in S
  OBVIOUS
<1>2. Z \in [S -> SUBSET S]
  OBVIOUS
<1>3. \A Y \in [S -> SUBSET S] : Closed(Y) => \A s \in S : Z[s] \subseteq Y[s]
  OBVIOUS
<1>4. Closed(Z)
  <2> SUFFICES ASSUME NEW s \in S PROVE IF s \in D THEN s \in Z[s] ELSE Z[G[s]] \subseteq Z[s]
    OBVIOUS
  <2>1. CASE s \in D
    BY <2>1
  <2>2. CASE s \notin D
    <3>1. SUFFICES ASSUME NEW e \in Z[G[s]] PROVE e \in Z[s]
      BY <2>2
    <3>2. e \in S
      BY <1>1
    <3>3. ASSUME NEW Y \in [S -> SUBSET S], Closed(Y) PROVE e \in Y[s]
      <4>1. e \in Y[G[s]]
        BY <1>1, <3>3
      <4>2. QED
        BY <2>2, <3>3, <4>1
    <3>4. QED
      BY <3>2, <3>3
  <2>3. QED
    BY <2>1, <2>2
<1> HIDE DEF Z
<1>5. Y1 \in [S -> SUBSET S]
  BY <1>2
<1>6. Closed(Y1)
  <2> SUFFICES ASSUME NEW s \in S PROVE IF s \in D THEN s \in Y1[s] ELSE Y1[G[s]] \subseteq Y1[s]
    OBVIOUS
  <2>1. CASE s \in D
    BY <1>4, <2>1
  <2>2. CASE s \notin D
    <3>1. Y1[G[s]] \subseteq Z[G[s]]
      BY <1>1
    <3>2. Z[G[s]] \subseteq Z[s]
      BY <1>4, <2>2
    <3>3. QED
      BY <2>2, <3>1, <3>2
  <2>3. QED
    BY <2>1, <2>2
<1>7. \A s \in S : Z[s] \subseteq Y1[s]
  <2> HIDE DEF Y1
  <2>1. QED
    BY <1>3, <1>5, <1>6
<1>8. \A s \in S : IF s \in D THEN Z[s] = {s} ELSE Z[s] = Z[G[s]]
  <2> SUFFICES ASSUME NEW s \in S PROVE IF s \in D THEN Z[s] = {s} ELSE Z[s] = Z[G[s]]
    OBVIOUS
  <2>1. CASE s \in D
    BY <1>4, <1>7, <2>1
  <2>2. CASE s \notin D
    BY <1>4, <1>7, <2>2
  <2>3. QED
    BY <2>1, <2>2
<1> HIDE DEF Closed, Y1
<1> DEFINE f == [s \in S |-> CHOOSE e : e \in Z[s]]
<1>9. ASSUME NEW s \in S PROVE f[s] = IF s \in D THEN s ELSE f[G[s]]
  <2>1. CASE s \in D
    BY <1>8, <2>1
  <2>2. CASE s \notin D
    <3>1. Z[s] = Z[G[s]]
      BY <1>8, <2>2
    <3>2. f[s] = (CHOOSE e : e \in Z[s]) /\ f[G[s]] = (CHOOSE e : e \in Z[G[s]])
      BY <1>1
    <3>3. QED
      BY <2>2, <3>1, <3>2
  <2>3. QED
    BY <2>1, <2>2
<1> DEFINE h == [s \in S |-> IF s \in D THEN s ELSE f[G[s]]]
<1>10. f = h
  <2>1. \A s \in S : f[s] = h[s]
    BY <1>9
  <2>2. f = [s \in S |-> f[s]] /\ h = [s \in S |-> h[s]]
    OBVIOUS
  <2> HIDE DEF f, h
  <2>3. QED
    BY <2>1, <2>2
<1> HIDE DEF f
<1>11. QED
  BY <1>10 DEF Looped

(* The loop on words.                                                      *)

InvStates == [U : Words, V : Words, R : Words, S : Words]

\* R x is U and S x is V modulo m, and U and V have no common divisor.
Inverting(s, m, x) ==
    /\ s \in InvStates
    /\ Value(s.U) # 0
    /\ Value(s.R) < Value(m) /\ Value(s.S) < Value(m)
    /\ Represents(Value(s.R), Value(s.U), x, Value(m))
    /\ Represents(Value(s.S), Value(s.V), x, Value(m))
    /\ Coprime(Value(s.U), Value(s.V))

LEMMA ModSubType ==
    ASSUME NEW a \in Words, NEW c \in Words, NEW m \in Words
    PROVE  mod_sub(a, c, m) \in Words
<1> DEFINE d == sub_overflow(a, c)
<1>1. mod_sub(a, c, m) = IF d.carry # 0 THEN add_overflow(d.res, m).res ELSE d.res
  BY DEF mod_sub
<1>2. d.res \in Words
  BY SubOverflow
<1> HIDE DEF d
<1>3. QED
  BY <1>1, <1>2, AddOverflow

LEMMA InvStepType ==
    ASSUME NEW s \in InvStates, NEW m \in Words, Value(m) % 2 = 1
    PROVE  InvStep(s, m) \in InvStates
<1>1. /\ divideByTwo(s.U, 0) \in Words /\ divideByTwo(s.V, 0) \in Words
      /\ Halved(s.R, m) \in Words /\ Halved(s.S, m) \in Words
  BY DivideByTwo, HalvedIs DEF InvStates
<1>2. /\ sub_overflow(s.U, s.V).res \in Words /\ sub_overflow(s.V, s.U).res \in Words
      /\ mod_sub(s.R, s.S, m) \in Words /\ mod_sub(s.S, s.R, m) \in Words
  BY SubOverflow, ModSubType DEF InvStates
<1>3. QED
  BY <1>1, <1>2 DEF InvStep, InvStates

\* A difference of numbers, the larger one first, borrows nothing.
LEMMA SubOfLarger ==
    ASSUME NEW a \in Words, NEW c \in Words, Value(c) <= Value(a)
    PROVE  sub_overflow(a, c).res \in Words /\ Value(sub_overflow(a, c).res) = Value(a) - Value(c)
<1> DEFINE d == sub_overflow(a, c)
<1>1. /\ d.res \in Words /\ d.carry \in {0, Base - 1}
      /\ Value(d.res) - Borrow(d.carry) * R = Value(a) - Value(c)
  BY SubOverflow
<1>2. Borrow(d.carry) \in {0, 1}
  BY <1>1 DEF Borrow
<1> HIDE DEF d
<1>3. Value(d.res) \in 0 .. (R - 1) /\ R \in Nat /\ Value(a) \in Nat /\ Value(c) \in Nat
  BY <1>1, ValueType, RFacts
<1>4. CASE Borrow(d.carry) = 0
  BY <1>1, <1>3, <1>4 DEF d
<1>5. CASE Borrow(d.carry) = 1
  BY <1>1, <1>3, <1>5
<1>6. QED
  BY <1>2, <1>4, <1>5

\* Half of an even number, and half of its partner modulo m.
LEMMA HalvedPair ==
    ASSUME NEW a \in Words, NEW c \in Words, NEW m \in Words, NEW x \in Nat,
           Value(m) % 2 = 1, a[0] % 2 = 0, Value(c) < Value(m),
           Represents(Value(c), Value(a), x, Value(m))
    PROVE  /\ divideByTwo(a, 0) \in Words /\ Halved(c, m) \in Words
           /\ 2 * Value(divideByTwo(a, 0)) = Value(a)
           /\ Value(Halved(c, m)) < Value(m)
           /\ Represents(Value(Halved(c, m)), Value(divideByTwo(a, 0)), x, Value(m))
<1> DEFINE w == divideByTwo(a, 0)
           h == Halved(c, m)
<1>1. w \in Words /\ 2 * Value(w) = Value(a) - (Value(a) % 2) + 0 * R
  BY DivideByTwo
<1>2. /\ h \in Words
      /\ 2 * Value(h) = IF Value(c) % 2 = 1 THEN Value(c) + Value(m) ELSE Value(c)
  BY HalvedIs
<1> HIDE DEF w, h
<1>3. /\ Value(a) \in Nat /\ Value(c) \in Nat /\ Value(m) \in Nat /\ Value(w) \in Nat /\ Value(h) \in Nat
      /\ R \in Nat
  BY <1>1, <1>2, ValueType, RFacts
<1>4. Value(a) % 2 = 0
  BY Parity
<1>5. 2 * Value(w) = Value(a)
  BY <1>1, <1>3, <1>4
<1>6. 2 * Value(h) = Value(c) \/ 2 * Value(h) = Value(c) + Value(m)
  BY <1>2
<1>7. Value(h) < Value(m)
  BY <1>3, <1>6
<1>8. Represents(Value(h), Value(w), x, Value(m))
  BY <1>3, <1>5, <1>6, HalfRepresents
<1>9. QED
  BY <1>1, <1>2, <1>5, <1>7, <1>8 DEF w, h

\* The difference of two numbers, and of their partners modulo m.
LEMMA DifferencePair ==
    ASSUME NEW a \in Words, NEW c \in Words, NEW r \in Words, NEW q \in Words, NEW m \in Words,
           NEW x \in Nat, Value(m) # 0, Value(c) <= Value(a),
           Value(r) < Value(m), Value(q) < Value(m),
           Represents(Value(r), Value(a), x, Value(m)), Represents(Value(q), Value(c), x, Value(m))
    PROVE  /\ sub_overflow(a, c).res \in Words /\ mod_sub(r, q, m) \in Words
           /\ Value(sub_overflow(a, c).res) = Value(a) - Value(c)
           /\ Value(mod_sub(r, q, m)) < Value(m)
           /\ Represents(Value(mod_sub(r, q, m)), Value(a) - Value(c), x, Value(m))
<1>1. /\ Value(a) \in Nat /\ Value(c) \in Nat /\ Value(r) \in Nat /\ Value(q) \in Nat
      /\ Value(m) \in Nat \ {0}
  BY ValueType, RFacts
<1>2. mod_sub(r, q, m) \in Words /\ Value(mod_sub(r, q, m)) = (Value(r) - Value(q)) % Value(m)
  BY ModSub
<1>3. (Value(r) - Value(q)) % Value(m) < Value(m)
  <2>1. Value(r) - Value(q) \in Int
    BY <1>1
  <2>2. (Value(r) - Value(q)) % Value(m) \in 0 .. (Value(m) - 1)
    BY <1>1, <2>1, Quotient
  <2>3. QED
    BY <1>1, <2>2
<1>4. Represents((Value(r) - Value(q)) % Value(m), Value(a) - Value(c), x, Value(m))
  BY <1>1, DifferenceRepresents
<1>5. QED
  BY <1>2, <1>3, <1>4, SubOfLarger

\* Every pass keeps what the numbers stand for and makes one of them smaller.
LEMMA InvStepKeeps ==
    ASSUME NEW s, NEW m \in Words, NEW x \in Nat, Value(m) % 2 = 1,
           Inverting(s, m, x), Value(s.V) # 0
    PROVE  /\ Inverting(InvStep(s, m), m, x)
           /\ Value(InvStep(s, m).U) + Value(InvStep(s, m).V) < Value(s.U) + Value(s.V)
<1> DEFINE t == InvStep(s, m)
           M == Value(m)
<1>1. /\ s \in InvStates /\ s.U \in Words /\ s.V \in Words /\ s.R \in Words /\ s.S \in Words
      /\ t \in InvStates /\ t.U \in Words /\ t.V \in Words
  BY InvStepType DEF Inverting, InvStates
<1>2. /\ Value(s.U) \in Nat /\ Value(s.V) \in Nat /\ M \in Nat /\ M # 0
      /\ Value(t.U) \in Nat /\ Value(t.V) \in Nat
  <2>1. M # 0
    BY Halves
  <2>2. QED
    BY <1>1, <2>1, ValueType, RFacts
<1>3. /\ Value(s.U) # 0 /\ Value(s.R) < M /\ Value(s.S) < M
      /\ Represents(Value(s.R), Value(s.U), x, M) /\ Represents(Value(s.S), Value(s.V), x, M)
      /\ Coprime(Value(s.U), Value(s.V))
  BY DEF Inverting
<1>4. CASE s.U[0] % 2 = 0
  <2>1. t.U = divideByTwo(s.U, 0) /\ t.R = Halved(s.R, m) /\ t.V = s.V /\ t.S = s.S
    BY <1>1, <1>4 DEF InvStep, InvStates
  <2>2. /\ 2 * Value(t.U) = Value(s.U) /\ Value(t.R) < M
        /\ Represents(Value(t.R), Value(t.U), x, M)
    BY <1>1, <1>3, <1>4, <2>1, HalvedPair
  <2> HIDE DEF t, M
  <2>3. Value(t.U) # 0 /\ Value(t.U) < Value(s.U)
    BY <1>2, <1>3, <2>2
  <2>4. Coprime(Value(t.U), Value(t.V))
    BY <1>2, <1>3, <2>1, <2>2, HalfCoprime
  <2>5. Inverting(t, m, x)
    BY <1>1, <1>3, <2>1, <2>2, <2>3, <2>4 DEF Inverting, M
  <2>6. Value(t.U) + Value(t.V) < Value(s.U) + Value(s.V)
    BY <1>2, <2>1, <2>3
  <2>7. QED
    BY <2>5, <2>6 DEF t
<1>5. CASE s.U[0] % 2 # 0 /\ s.V[0] % 2 = 0
  <2>1. t.V = divideByTwo(s.V, 0) /\ t.S = Halved(s.S, m) /\ t.U = s.U /\ t.R = s.R
    BY <1>1, <1>5 DEF InvStep, InvStates
  <2>2. /\ 2 * Value(t.V) = Value(s.V) /\ Value(t.S) < M
        /\ Represents(Value(t.S), Value(t.V), x, M)
    BY <1>1, <1>3, <1>5, <2>1, HalvedPair
  <2> HIDE DEF t, M
  <2>3. Value(t.V) < Value(s.V)
    BY <1>2, <2>2
  <2>4. Coprime(Value(t.U), Value(t.V))
    BY <1>2, <1>3, <2>1, <2>2, HalfCoprime, CoprimeSwap
  <2>5. Inverting(t, m, x)
    BY <1>1, <1>3, <2>1, <2>2, <2>4 DEF Inverting, M
  <2>6. Value(t.U) + Value(t.V) < Value(s.U) + Value(s.V)
    BY <1>2, <2>1, <2>3
  <2>7. QED
    BY <2>5, <2>6 DEF t
<1>6. CASE s.U[0] % 2 # 0 /\ s.V[0] % 2 # 0 /\ compare(s.U, s.V) = 1
  <2>1. t.U = sub_overflow(s.U, s.V).res /\ t.R = mod_sub(s.R, s.S, m) /\ t.V = s.V /\ t.S = s.S
    BY <1>1, <1>6 DEF InvStep, InvStates
  <2>2. Value(s.V) < Value(s.U)
    BY <1>1, <1>6, CompareCompares
  <2>3. Value(s.V) <= Value(s.U)
    BY <1>2, <2>2
  <2>4. /\ Value(t.U) = Value(s.U) - Value(s.V) /\ Value(t.R) < M
        /\ Represents(Value(t.R), Value(s.U) - Value(s.V), x, M)
    BY <1>1, <1>2, <1>3, <2>1, <2>3, DifferencePair
  <2> HIDE DEF t, M
  <2>5. Value(t.U) # 0 /\ Value(t.U) < Value(s.U)
    BY <1>2, <2>2, <2>4
  <2>6. Coprime(Value(t.U), Value(t.V))
    BY <1>2, <1>3, <2>1, <2>3, <2>4, DifferenceCoprime
  <2>7. Inverting(t, m, x)
    BY <1>1, <1>3, <2>1, <2>4, <2>5, <2>6 DEF Inverting, M
  <2>8. Value(t.U) + Value(t.V) < Value(s.U) + Value(s.V)
    BY <1>2, <2>1, <2>5
  <2>9. QED
    BY <2>7, <2>8 DEF t
<1>7. CASE s.U[0] % 2 # 0 /\ s.V[0] % 2 # 0 /\ compare(s.U, s.V) # 1
  <2>1. t.V = sub_overflow(s.V, s.U).res /\ t.S = mod_sub(s.S, s.R, m) /\ t.U = s.U /\ t.R = s.R
    BY <1>1, <1>7 DEF InvStep, InvStates
  <2>2. ~(Value(s.U) > Value(s.V))
    BY <1>1, <1>7, CompareCompares
  <2>3. Value(s.U) <= Value(s.V)
    BY <1>2, <2>2
  <2>4. /\ Value(t.V) = Value(s.V) - Value(s.U) /\ Value(t.S) < M
        /\ Represents(Value(t.S), Value(s.V) - Value(s.U), x, M)
    BY <1>1, <1>2, <1>3, <2>1, <2>3, DifferencePair
  <2> HIDE DEF t, M
  <2>5. Value(t.V) < Value(s.V)
    BY <1>2, <1>3, <2>3, <2>4
  <2>6. Coprime(Value(t.U), Value(t.V))
    BY <1>2, <1>3, <2>1, <2>3, <2>4, DifferenceCoprime, CoprimeSwap
  <2>7. Inverting(t, m, x)
    BY <1>1, <1>3, <2>1, <2>4, <2>6 DEF Inverting, M
  <2>8. Value(t.U) + Value(t.V) < Value(s.U) + Value(s.V)
    BY <1>2, <2>1, <2>5
  <2>9. QED
    BY <2>7, <2>8 DEF t
<1>8. QED
  BY <1>4, <1>5, <1>6, <1>7

\* When V has come down to zero, U is the common divisor one, and R the inverse.
LEMMA Inverted ==
    ASSUME NEW s, NEW m \in Words, NEW x \in Nat, Value(m) > 1,
           Inverting(s, m, x), Value(s.V) = 0
    PROVE  s.U[0] <= 1 /\ compare(s.R, m) # 1 /\ (Value(s.R) * x) % Value(m) = 1
<1>1. s.U \in Words /\ s.V \in Words /\ s.R \in Words
  BY DEF Inverting, InvStates
<1>2. /\ Value(s.U) \in Nat /\ Value(s.R) \in Nat /\ Value(m) \in Nat
      /\ Value(s.R) < Value(m)
      /\ Represents(Value(s.R), Value(s.U), x, Value(m)) /\ Coprime(Value(s.U), Value(s.V))
  BY <1>1, ValueType, RFacts DEF Inverting
<1>3. Value(s.U) = 1
  <2>1. Value(s.U) = Value(s.U) * 1 /\ Value(s.V) = Value(s.U) * 0
    BY <1>2
  <2>2. QED
    BY <1>2, <2>1 DEF Coprime
<1>4. s.U[0] = 1
  <2>1. s.U[0] = 1 % Base
    BY <1>1, <1>3, LowWord
  <2>2. QED
    BY <2>1, BaseFacts
<1>5. compare(s.R, m) # 1
  BY <1>1, <1>2, CompareCompares
<1>6. PICK k \in Int : Value(s.R) * x = 1 + k * Value(m)
  BY <1>2, <1>3 DEF Represents
<1>7. (Value(s.R) * x) % Value(m) = 1
  <2>1. /\ Value(s.R) * x \in Int /\ Value(m) \in Nat \ {0} /\ 1 \in 0 .. (Value(m) - 1)
        /\ k * Value(m) \in Int
    BY <1>2
  <2>2. Value(s.R) * x = k * Value(m) + 1
    BY <1>6, <2>1
  <2>3. QED
    BY <2>1, <2>2, Remainder
<1>8. QED
  BY <1>4, <1>5, <1>7

LEMMA ZeroWords == zero \in Words /\ Value(zero) = 0
<1>1. SIZE \in 0 .. Top /\ \A i \in 0 .. (SIZE - 1) : i \in Index
  BY TopFacts DEF Index
<1>2. \A i \in 0 .. (SIZE - 1) : zero[i] = 0
  BY <1>1 DEF zero
<1>3. zero \in Words
  BY BaseFacts DEF zero, Words
<1>4. QED
  BY <1>1, <1>2, <1>3, PartZeros, ValueIsPart

LEMMA OneWords == one \in Words /\ Value(one) = 1
<1> DEFINE T == {k \in 0 .. SIZE : k = 0 \/ Part(one, k) = 1}
<1>1. /\ SIZE \in Nat /\ SIZE # 0 /\ SIZE \in 0 .. SIZE /\ 0 \in 0 .. SIZE /\ 0 \in 0 .. Top
      /\ \A k \in 1 .. SIZE : k \in 1 .. Top /\ k - 1 \in Index /\ k - 1 \in 0 .. Top /\ k \in 0 .. SIZE /\ k # 0
      /\ \A i \in 0 .. (0 - 1) : FALSE
  BY TopFacts DEF Index
<1>2. one \in Words /\ \A i \in Index : one[i] = IF i = 0 THEN 1 ELSE 0
  BY BaseFacts DEF one, Words
<1>3. \A k \in 1 .. SIZE : k - 1 \in T => k \in T
  <2> SUFFICES ASSUME NEW k \in 1 .. SIZE, k - 1 \in T PROVE Part(one, k) = 1
    BY <1>1
  <2>1. Digits(one, k)
    BY <1>1, <1>2, WordsAreDigits
  <2>2. Part(one, k) = Part(one, k - 1) + one[k - 1] * Weight[k - 1]
    BY <1>1, <2>1, PartStep
  <2>3. CASE k - 1 = 0
    <3>1. Part(one, 0) = 0
      BY <1>1, PartZeros
    <3>2. one[0] * Weight[0] = 1
      BY <1>1, <1>2, <2>3, Weights
    <3>3. QED
      BY <2>2, <2>3, <3>1, <3>2
  <2>4. CASE k - 1 # 0
    <3>1. Weight[k - 1] \in Nat
      BY <1>1, Weights
    <3>2. one[k - 1] * Weight[k - 1] = 0
      BY <1>1, <1>2, <2>4, <3>1
    <3>3. QED
      BY <2>2, <2>4, <3>2
  <2>5. QED
    BY <2>3, <2>4
<1>4. \A k \in 0 .. SIZE : k \in T
  <2>1. 0 \in T
    BY <1>1
  <2> HIDE DEF T
  <2>2. QED
    BY <1>1, <1>3, <2>1, UpTo
<1>5. QED
  BY <1>1, <1>2, <1>4, ValueIsPart

\* mod_inv ends, and gives the inverse.
LEMMA ModInv ==
    ASSUME NEW a \in Words, NEW m \in Words, Value(m) % 2 = 1, Value(m) > 1,
           Value(a) # 0, Value(a) < Value(m), Coprime(Value(m), Value(a))
    PROVE  (Value(mod_inv(a, m)) * Value(a)) % Value(m) = 1
<1> DEFINE x == Value(a)
           G == [s \in InvStates |-> InvStep(s, m)]
           F(f) == [s \in InvStates |-> IF s.V = zero THEN s ELSE f[InvStep(s, m)]]
           loop == CHOOSE f : f = F(f)
           first == [U |-> m, V |-> a, R |-> zero, S |-> one]
           InverseOf(end) == IF end.U[0] > 1 THEN zero
                           ELSE IF compare(end.R, m) = 1 THEN sub_overflow(end.R, m).res
                           ELSE end.R
           Right(end) == (Value(InverseOf(end)) * x) % Value(m) = 1
<1>1. mod_inv(a, m) = InverseOf(loop[first])
  BY DEF mod_inv, InvStates
<1>2. loop = F(loop)
  <2> DEFINE D == {s \in InvStates : s.V = zero}
  <2>1. G \in [InvStates -> InvStates]
    BY InvStepType
  <2>2. PICK f : f = Looped(f, InvStates, D, G)
    <3> HIDE DEF D, G
    <3>1. QED
      BY <2>1, LoopExists
  <2> DEFINE H == [s \in InvStates |-> IF s \in D THEN s ELSE f[G[s]]]
  <2>3. \A s \in InvStates : H[s] = F(f)[s]
    OBVIOUS
  <2>4. H = [s \in InvStates |-> H[s]] /\ F(f) = [s \in InvStates |-> F(f)[s]]
    OBVIOUS
  <2>5. H = F(f)
    <3> HIDE DEF H, F
    <3>1. QED
      BY <2>3, <2>4
  <2>6. f = F(f)
    <3> HIDE DEF F
    <3>1. QED
      BY <2>2, <2>5 DEF Looped
  <2> HIDE DEF F
  <2>7. QED
    BY <2>6
<1> HIDE DEF loop
<1>3. \A s \in InvStates : loop[s] = IF s.V = zero THEN s ELSE loop[InvStep(s, m)]
  <2> DEFINE E(s) == IF s.V = zero THEN s ELSE loop[InvStep(s, m)]
  <2>1. loop = [s \in InvStates |-> E(s)]
    BY <1>2
  <2> HIDE DEF E
  <2>2. \A s \in InvStates : loop[s] = E(s)
    BY <2>1
  <2>3. QED
    BY <2>2 DEF E
<1> HIDE DEF F, G
<1>4. x \in Nat /\ Value(m) \in Nat
  BY ValueType, RFacts
<1>5. ASSUME NEW s, Inverting(s, m, x), s.V = zero PROVE Right(loop[s])
  <2>1. loop[s] = s
    BY <1>3, <1>5 DEF Inverting
  <2>2. s.U[0] <= 1 /\ compare(s.R, m) # 1 /\ (Value(s.R) * x) % Value(m) = 1
    BY <1>4, <1>5, Inverted, ZeroWords
  <2>3. ~(s.U[0] > 1)
    <3>1. s.U[0] \in Word
      BY <1>5, TopFacts DEF Inverting, InvStates, Words, Word, Index
    <3>2. QED
      BY <2>2, <3>1, BaseFacts DEF Word
  <2>4. QED
    BY <2>1, <2>2, <2>3
<1>6. ASSUME NEW s, Inverting(s, m, x), s.V # zero
      PROVE  /\ loop[s] = loop[InvStep(s, m)]
             /\ Inverting(InvStep(s, m), m, x)
             /\ Value(InvStep(s, m).U) + Value(InvStep(s, m).V) < Value(s.U) + Value(s.V)
  <2>1. s \in InvStates /\ s.V \in Words
    BY <1>6 DEF Inverting, InvStates
  <2>2. Value(s.V) # 0
    BY <1>6, <2>1, ZeroWords, CompareCompares
  <2>3. QED
    BY <1>3, <1>4, <1>6, <2>1, <2>2, InvStepKeeps
<1> DEFINE Sizes == {k \in Nat : \E s : /\ Inverting(s, m, x) /\ ~Right(loop[s])
                                        /\ k = Value(s.U) + Value(s.V)}
<1> HIDE DEF Right, x
<1>7. Sizes = {}
  <2>1. SUFFICES ASSUME Sizes # {} PROVE FALSE
    OBVIOUS
  <2>2. PICK k \in Sizes : \A j \in Sizes : k <= j
    BY <2>1, Least
  <2>3. PICK s : Inverting(s, m, x) /\ ~Right(loop[s]) /\ k = Value(s.U) + Value(s.V)
    BY <2>2
  <2>4. s.V # zero
    BY <1>5, <2>3
  <2> DEFINE t == InvStep(s, m)
  <2>5. /\ loop[s] = loop[t] /\ Inverting(t, m, x)
        /\ Value(t.U) + Value(t.V) < Value(s.U) + Value(s.V)
    BY <1>6, <2>3, <2>4
  <2> HIDE DEF t
  <2>6. Value(t.U) \in Nat /\ Value(t.V) \in Nat
    BY <2>5, ValueType, RFacts DEF Inverting, InvStates
  <2>7. Value(t.U) + Value(t.V) \in Sizes
    BY <2>3, <2>5, <2>6
  <2>8. QED
    BY <2>2, <2>3, <2>5, <2>6, <2>7
<1>8. \A s : Inverting(s, m, x) => Right(loop[s])
  <2> SUFFICES ASSUME NEW s, Inverting(s, m, x) PROVE Right(loop[s])
    OBVIOUS
  <2>1. Value(s.U) + Value(s.V) \in Nat
    BY ValueType, RFacts DEF Inverting, InvStates
  <2>2. QED
    BY <1>7, <2>1
<1>9. Inverting(first, m, x)
  <2>1. first \in InvStates
    BY ZeroWords, OneWords DEF InvStates
  <2>2. Represents(0, Value(m), x, Value(m))
    <3>1. 0 * x = Value(m) + (-1) * Value(m)
      BY <1>4
    <3>2. QED
      BY <3>1 DEF Represents
  <2>3. Represents(1, x, x, Value(m))
    <3>1. 1 * x = x + 0 * Value(m)
      BY <1>4
    <3>2. QED
      BY <3>1 DEF Represents
  <2>4. Value(m) # 0 /\ 0 < Value(m) /\ 1 < Value(m)
    BY <1>4
  <2>5. QED
    BY <2>1, <2>2, <2>3, <2>4, ZeroWords, OneWords DEF Inverting, x
<1>10. Right(loop[first])
  BY <1>8, <1>9
<1>11. QED
  BY <1>1, <1>10 DEF Right, x

-----------------------------------------------------------------------------
(* The field that the curve is computed over (ec_arithmetic.c).            *)

LEMMA NumbersOfField ==
    /\ CurveP \in 3 .. (R - 1) /\ CurveP % 2 = 1 /\ CurveP \in Nat \ {0}
    /\ p \in Words /\ Value(p) = CurveP
<1>1. CurveP \in 3 .. (R - 1) /\ CurveP % 2 = 1 /\ R \in Nat
  BY CurveAssumption, RFacts DEF R
<1>2. CurveP \in 0 .. (R - 1) /\ CurveP \in Nat \ {0}
  BY <1>1
<1>3. QED
  BY <1>1, <1>2, ValueOfFromValue DEF p

\* The Montgomery product of one and one is the inverse of R.
LEMMA InverseOfR == R_inverse \in 1 .. (CurveP - 1) /\ (R_inverse * R) % CurveP = 1
<1> DEFINE w == Value(montMul(one, one, p, Prime(CurveP)))
<1>1. /\ montMul(one, one, p, Prime(CurveP)) \in Words
      /\ w < CurveP /\ (w * R) % CurveP = (1 * 1) % CurveP
  BY NumbersOfField, OneWords, MontMul
<1>2. w \in Nat
  BY <1>1, ValueType, RFacts
<1> HIDE DEF w
<1>3. (1 * 1) % CurveP = 1 /\ 0 % CurveP = 0
  BY NumbersOfField
<1>4. w # 0
  BY <1>1, <1>3, RFacts
<1>5. w \in 1 .. (CurveP - 1) /\ (w * R) % CurveP = 1
  BY <1>1, <1>2, <1>3, <1>4, NumbersOfField
<1>6. \E v \in 1 .. (CurveP - 1) : (v * R) % CurveP = 1
  BY <1>5
<1>7. QED
  BY <1>6 DEF R_inverse

\* w is u / c modulo M.
IsQuotient(w, u, c, M) == (w * c) % M = u % M
IsInverse(i, c, M) == (i * c) % M = 1

LEMMA TimesInverse ==
    ASSUME NEW M \in Nat \ {0}, NEW w \in 0 .. (M - 1), NEW uv \in Nat, NEW i \in Nat, NEW c \in Nat,
           IsQuotient(w, uv, c, M), IsInverse(i, c, M)
    PROVE  (uv * i) % M = w
<1> USE DEF IsQuotient, IsInverse
<1>1. w * c \in Int /\ i * c \in Int /\ w \in Nat /\ uv \in Int
  OBVIOUS
<1>2. PICK q1 \in Int, r1 \in Int : w * c = q1 * M + r1 /\ (w * c) % M = r1
  BY <1>1, Division
<1>3. PICK q2 \in Int, r2 \in Int : uv = q2 * M + r2 /\ uv % M = r2
  BY <1>1, Division
<1>4. PICK q3 \in Int, r3 \in Int : i * c = q3 * M + r3 /\ (i * c) % M = r3
  BY <1>1, Division
<1> DEFINE k == q2 - q1
           e1 == w * c
           e2 == q1 * M
           e3 == q2 * M
<1>5. k * M = e3 - e2 /\ e1 \in Int /\ e2 \in Int /\ e3 \in Int /\ k \in Int /\ k * M \in Int
  BY <1>1, <1>2, <1>3
<1>6. uv = e1 + k * M
  <2>1. r1 = r2 /\ e1 = e2 + r1 /\ uv = e3 + r2
    BY <1>2, <1>3
  <2> HIDE DEF e1, e2, e3, k
  <2>2. QED
    BY <1>5, <2>1
<1> HIDE DEF k
<1>7. uv * i = w * (i * c) + (k * i) * M
  <2>1. (w * c + k * M) * i = w * (i * c) + (k * i) * M
    BY <1>1, <1>5
  <2>2. QED
    BY <1>6, <2>1
<1>8. w * (i * c) = (w * q3) * M + w
  <2>1. w * (q3 * M + 1) = (w * q3) * M + w
    BY <1>1, <1>4
  <2>2. QED
    BY <1>4, <2>1
<1> DEFINE q == w * q3 + k * i
<1>9. q \in Int /\ q * M = (w * q3) * M + (k * i) * M
  BY <1>1, <1>4, <1>5
<1>10. (w * q3) * M \in Int /\ (k * i) * M \in Int /\ uv * i \in Int /\ q * M \in Int
  BY <1>1, <1>4, <1>5
<1> HIDE DEF q
<1>11. uv * i = q * M + w
  <2> DEFINE f1 == (w * q3) * M
             f2 == (k * i) * M
             f3 == uv * i
  <2>1. f3 = (f1 + w) + f2 /\ q * M = f1 + f2
    BY <1>7, <1>8, <1>9
  <2>2. f1 \in Int /\ f2 \in Int
    BY <1>10
  <2> HIDE DEF f1, f2
  <2>3. f3 = q * M + w
    BY <1>1, <2>1, <2>2
  <2>4. QED
    BY <2>3
<1> DEFINE v == uv * i
<1>12. v \in Int /\ v = q * M + w
  BY <1>10, <1>11
<1> HIDE DEF v
<1>13. v % M = w
  BY <1>9, <1>12, Remainder
<1>14. QED
  BY <1>13 DEF v

\* What Curve computes with, numbers modulo p looked up in a table, is what the
\* code computes with, montMul, mod_add and mod_sub on arrays of words.
THEOREM FieldOperations ==
    ASSUME NEW u \in Words, NEW v \in Words, Value(u) < CurveP, Value(v) < CurveP
    PROVE  /\ mul(u, v) = montMul(u, v, p, Prime(CurveP))
           /\ plus(u, v) = mod_add(u, v, p)
           /\ minus(u, v) = mod_sub(u, v, p)
<1>1. /\ Value(u) \in Nat /\ Value(v) \in Nat /\ R \in Nat /\ CurveP \in Nat \ {0}
      /\ p \in Words /\ Value(p) = CurveP /\ CurveP % 2 = 1
  BY ValueType, RFacts, NumbersOfField
<1>2. \A w \in Words : Value(w) < CurveP => Value(w) \in 0 .. (CurveP - 1) /\ OfField[Value(w)] = w
  <2> SUFFICES ASSUME NEW w \in Words, Value(w) < CurveP
               PROVE  Value(w) \in 0 .. (CurveP - 1) /\ OfField[Value(w)] = w
    OBVIOUS
  <2>1. Value(w) \in 0 .. (CurveP - 1)
    BY <1>1, ValueType, RFacts
  <2>2. OfField[Value(w)] = FromValue(Value(w))
    BY <2>1 DEF OfField
  <2>3. QED
    BY <2>1, <2>2, FromValueOfValue
<1>3. \A k \in Int : k % CurveP \in 0 .. (CurveP - 1)
  BY <1>1, Quotient
<1>4. plus(u, v) = mod_add(u, v, p)
  <2>1. mod_add(u, v, p) \in Words /\ Value(mod_add(u, v, p)) = (Value(u) + Value(v)) % CurveP
    BY <1>1, ModAdd
  <2>2. Value(mod_add(u, v, p)) < CurveP
    <3>1. Value(u) + Value(v) \in Int
      BY <1>1
    <3>2. (Value(u) + Value(v)) % CurveP \in 0 .. (CurveP - 1)
      BY <1>3, <3>1
    <3>3. QED
      BY <1>1, <2>1, <3>2
  <2>3. QED
    BY <1>2, <2>1, <2>2 DEF plus
<1>5. minus(u, v) = mod_sub(u, v, p)
  <2>1. mod_sub(u, v, p) \in Words /\ Value(mod_sub(u, v, p)) = (Value(u) - Value(v)) % CurveP
    BY <1>1, ModSub
  <2>2. Value(mod_sub(u, v, p)) < CurveP
    <3>1. Value(u) - Value(v) \in Int
      BY <1>1
    <3>2. (Value(u) - Value(v)) % CurveP \in 0 .. (CurveP - 1)
      BY <1>3, <3>1
    <3>3. QED
      BY <1>1, <2>1, <3>2
  <2>3. QED
    BY <1>2, <2>1, <2>2 DEF minus
<1>6. mul(u, v) = montMul(u, v, p, Prime(CurveP))
  <2> DEFINE r == montMul(u, v, p, Prime(CurveP))
  <2>1. /\ r \in Words /\ Value(r) < CurveP
        /\ (Value(r) * R) % CurveP = (Value(u) * Value(v)) % CurveP
    BY <1>1, MontMul
  <2>2. Value(r) \in 0 .. (CurveP - 1) /\ OfField[Value(r)] = r
    BY <1>2, <2>1
  <2> HIDE DEF r
  <2>3. R_inverse \in Nat /\ (R_inverse * R) % CurveP = 1
    BY <1>1, InverseOfR
  <2>4. Value(u) * Value(v) \in Nat
    BY <1>1, Products
  <2>5. (Value(u) * Value(v) * R_inverse) % CurveP = Value(r)
    <3> DEFINE uv == Value(u) * Value(v)
               w == Value(r)
    <3>1. CurveP \in Nat \ {0} /\ w \in 0 .. (CurveP - 1) /\ uv \in Nat /\ R_inverse \in Nat /\ R \in Nat
      BY <1>1, <2>2, <2>3, <2>4
    <3>2. IsQuotient(w, uv, R, CurveP) /\ IsInverse(R_inverse, R, CurveP)
      BY <2>1, <2>3 DEF IsQuotient, IsInverse
    <3> HIDE DEF uv, w
    <3>3. (uv * R_inverse) % CurveP = w
      BY <3>1, <3>2, TimesInverse
    <3>4. QED
      BY <3>3 DEF uv, w
  <2>6. mul(u, v) = OfField[Value(r)]
    BY <2>5 DEF mul
  <2>7. QED
    BY <2>2, <2>6 DEF r
<1>7. QED
  BY <1>4, <1>5, <1>6

-----------------------------------------------------------------------------
(* Bytes and blocks (aes.c, aegis.c).                                      *)

Binary == {0, 1}
Worths == {1, 2, 4, 8, 16, 32, 64, 128}

\* The byte with given bits, by their worth.
MadeOf(v, c) ==
    v = c[1] + 2 * c[2] + 4 * c[4] + 8 * c[8] + 16 * c[16] + 32 * c[32] + 64 * c[64] + 128 * c[128]

LEMMA ByteIsBits ==
    ASSUME NEW c \in [Worths -> Binary], NEW v, MadeOf(v, c)
    PROVE  v \in AnyByte /\ \A q \in Worths : BitWorth(v, q) = c[q]
<1>1. /\ c[1] \in Binary /\ c[2] \in Binary /\ c[4] \in Binary /\ c[8] \in Binary
      /\ c[16] \in Binary /\ c[32] \in Binary /\ c[64] \in Binary /\ c[128] \in Binary
  BY DEF Worths
<1> DEFINE c1 == c[1]
           c2 == c[2]
           c4 == c[4]
           c8 == c[8]
           c16 == c[16]
           c32 == c[32]
           c64 == c[64]
           c128 == c[128]
<1>2. /\ c1 \in Binary /\ c2 \in Binary /\ c4 \in Binary /\ c8 \in Binary
      /\ c16 \in Binary /\ c32 \in Binary /\ c64 \in Binary /\ c128 \in Binary
      /\ v = c1 + 2 * c2 + 4 * c4 + 8 * c8 + 16 * c16 + 32 * c32 + 64 * c64 + 128 * c128
  BY <1>1 DEF MadeOf
<1> HIDE DEF c1, c2, c4, c8, c16, c32, c64, c128
<1>3. v \in AnyByte
  BY <1>2 DEF AnyByte, Binary
<1>4. BitWorth(v, 1) = c1 /\ BitWorth(v, 2) = c2
  BY <1>2 DEF BitWorth, Binary
<1>5. BitWorth(v, 4) = c4 /\ BitWorth(v, 8) = c8
  BY <1>2 DEF BitWorth, Binary
<1>6. BitWorth(v, 16) = c16 /\ BitWorth(v, 32) = c32
  BY <1>2 DEF BitWorth, Binary
<1>7. BitWorth(v, 64) = c64 /\ BitWorth(v, 128) = c128
  BY <1>2 DEF BitWorth, Binary
<1>8. QED
  BY <1>3, <1>4, <1>5, <1>6, <1>7 DEF Worths, c1, c2, c4, c8, c16, c32, c64, c128

LEMMA SumOfBits ==
    ASSUME NEW v \in AnyByte
    PROVE  /\ BitWorth(v, 1) \in Binary /\ BitWorth(v, 2) \in Binary /\ BitWorth(v, 4) \in Binary
           /\ BitWorth(v, 8) \in Binary /\ BitWorth(v, 16) \in Binary /\ BitWorth(v, 32) \in Binary
           /\ BitWorth(v, 64) \in Binary /\ BitWorth(v, 128) \in Binary
           /\ v = BitWorth(v, 1) + 2 * BitWorth(v, 2) + 4 * BitWorth(v, 4) + 8 * BitWorth(v, 8)
                    + 16 * BitWorth(v, 16) + 32 * BitWorth(v, 32) + 64 * BitWorth(v, 64)
                    + 128 * BitWorth(v, 128)
BY DEF AnyByte, BitWorth, Binary

BitsIn(v) == [q \in Worths |-> BitWorth(v, q)]

LEMMA BitsOfByte ==
    ASSUME NEW v \in AnyByte
    PROVE  /\ BitsIn(v) \in [Worths -> Binary] /\ MadeOf(v, BitsIn(v))
           /\ \A q \in Worths : BitWorth(v, q) \in Binary /\ BitsIn(v)[q] = BitWorth(v, q)
<1>1. \A q \in Worths : BitWorth(v, q) \in Binary
  BY SumOfBits DEF Worths
<1>2. MadeOf(v, BitsIn(v))
  BY SumOfBits DEF BitsIn, MadeOf, Worths
<1>3. QED
  BY <1>1, <1>2 DEF BitsIn

\* One bit of the exclusive or.
Odd(c, d) == (c + d) % 2

LEMMA OddBits ==
    ASSUME NEW c \in Binary, NEW d \in Binary
    PROVE  Odd(c, d) \in Binary /\ Odd(c, Odd(c, d)) = d
BY DEF Binary, Odd

LEMMA XorIs ==
    ASSUME NEW u \in AnyByte, NEW v \in AnyByte
    PROVE  MadeOf(xor(u, v), [q \in Worths |-> Odd(BitWorth(u, q), BitWorth(v, q))])
BY DEF xor, XorTable, ByteOfBits, Odd, MadeOf, Worths

LEMMA MadeOfSame ==
    ASSUME NEW c \in [Worths -> Binary], NEW v, NEW w, MadeOf(v, c), MadeOf(w, c)
    PROVE  v = w
BY DEF MadeOf

\* What is combined twice with the same byte is what it was.
LEMMA XorTwice ==
    ASSUME NEW u \in AnyByte, NEW v \in AnyByte
    PROVE  xor(u, v) \in AnyByte /\ xor(u, xor(u, v)) = v
<1> DEFINE d == [q \in Worths |-> Odd(BitWorth(u, q), BitWorth(v, q))]
           w == xor(u, v)
           e == [q \in Worths |-> Odd(BitWorth(u, q), BitWorth(w, q))]
<1>1. /\ d \in [Worths -> Binary]
      /\ \A q \in Worths : Odd(BitWorth(u, q), d[q]) = BitWorth(v, q)
  BY BitsOfByte, OddBits
<1>2. MadeOf(w, d)
  BY XorIs
<1> HIDE DEF d, w
<1>3. w \in AnyByte /\ \A q \in Worths : BitWorth(w, q) = d[q]
  BY <1>1, <1>2, ByteIsBits
<1>4. MadeOf(xor(u, w), e)
  BY <1>3, XorIs
<1>5. e = BitsIn(v)
  BY <1>1, <1>3 DEF BitsIn
<1> HIDE DEF e
<1>6. xor(u, w) = v
  BY <1>4, <1>5, BitsOfByte, MadeOfSame
<1>7. QED
  BY <1>3, <1>6 DEF w

LEMMA AndType ==
    ASSUME NEW u \in AnyByte, NEW v \in AnyByte
    PROVE  AndTable[u][v] \in AnyByte
<1> DEFINE d == [q \in Worths |-> BitWorth(u, q) * BitWorth(v, q)]
<1>1. MadeOf(AndTable[u][v], d)
  BY DEF AndTable, ByteOfBits, MadeOf, Worths
<1>2. \A x \in Binary, y \in Binary : x * y \in Binary
  BY DEF Binary
<1>3. d \in [Worths -> Binary]
  BY <1>2, BitsOfByte
<1> HIDE DEF d
<1>4. QED
  BY <1>1, <1>3, ByteIsBits

LEMMA SboxType ==
    ASSUME NEW u \in AnyByte
    PROVE  sbox(u) \in AnyByte
BY DEF sbox, sboxTable, AnyByte

LEMMA Xor128Type ==
    ASSUME NEW f \in Block, NEW h \in Block
    PROVE  XOR128(f, h) \in Block /\ AND128(f, h) \in Block
BY XorTwice, AndType DEF Block, XOR128, AND128

LEMMA XorType == \A u, v \in AnyByte : xor(u, v) \in AnyByte
BY XorTwice

LEMMA TETypes ==
    ASSUME NEW k, NEW u \in AnyByte, NEW j
    PROVE  TE(k, u, j) \in AnyByte
<1> DEFINE w == sbox(u)
<1>1. w \in AnyByte
  BY SboxType
<1> HIDE DEF w
<1>2. (w * 2) % 256 \in AnyByte /\ (w \div 128) * 27 \in AnyByte
  BY <1>1 DEF AnyByte
<1>3. xtime(w) \in AnyByte
  BY <1>2, XorType DEF xtime
<1>4. xor(xtime(w), w) \in AnyByte
  BY <1>1, <1>3, XorType
<1>5. QED
  BY <1>1, <1>3, <1>4 DEF TE, w

LEMMA AESRoundType ==
    ASSUME NEW in \in Block, NEW rk \in Block
    PROVE  AESRound(in, rk) \in Block
<1> DEFINE T(i, k) == TE(k, in[4 * (((i \div 4) + k) % 4) + k], i % 4)
<1>1. ASSUME NEW i \in Place, NEW k \in 0 .. 3 PROVE T(i, k) \in AnyByte
  <2>1. 4 * (((i \div 4) + k) % 4) + k \in Place
    BY DEF Place
  <2>2. in[4 * (((i \div 4) + k) % 4) + k] \in AnyByte
    BY <2>1 DEF Block
  <2>3. QED
    BY <2>2, TETypes
<1>2. AESRound(in, rk) = [i \in Place |-> xor(rk[i], xor(xor(T(i, 0), T(i, 1)), xor(T(i, 2), T(i, 3))))]
  BY DEF AESRound, xor4
<1> HIDE DEF T
<1>3. ASSUME NEW i \in Place
      PROVE  xor(rk[i], xor(xor(T(i, 0), T(i, 1)), xor(T(i, 2), T(i, 3)))) \in AnyByte
  <2>1. /\ T(i, 0) \in AnyByte /\ T(i, 1) \in AnyByte /\ T(i, 2) \in AnyByte /\ T(i, 3) \in AnyByte
        /\ rk[i] \in AnyByte
    BY <1>1 DEF Block
  <2>2. xor(T(i, 0), T(i, 1)) \in AnyByte /\ xor(T(i, 2), T(i, 3)) \in AnyByte
    BY <2>1, XorType
  <2>3. xor(xor(T(i, 0), T(i, 1)), xor(T(i, 2), T(i, 3))) \in AnyByte
    BY <2>2, XorType
  <2>4. QED
    BY <2>1, <2>3, XorType
<1>4. QED
  BY <1>2, <1>3 DEF Block

LEMMA ZeroBlock == Zero \in Block
BY DEF Zero, Block, AnyByte

LEMMA StateUpdateType ==
    ASSUME NEW s \in FiveBlocks, NEW m \in Block
    PROVE  stateUpdate128[s][m] \in FiveBlocks
<1> DEFINE B(k) == XOR128(AESRound(s[(k - 1) % 5], s[k]), IF k = 0 THEN m ELSE Zero)
<1>1. ASSUME NEW k \in 0 .. 4 PROVE B(k) \in Block
  <2>1. (k - 1) % 5 \in 0 .. 4
    OBVIOUS
  <2>2. s[(k - 1) % 5] \in Block /\ s[k] \in Block
    BY <2>1 DEF FiveBlocks
  <2>3. AESRound(s[(k - 1) % 5], s[k]) \in Block
    BY <2>2, AESRoundType
  <2>4. (IF k = 0 THEN m ELSE Zero) \in Block
    BY ZeroBlock
  <2>5. QED
    BY <2>3, <2>4, Xor128Type
<1>2. stateUpdate128[s][m] = [k \in 0 .. 4 |-> B(k)]
  BY DEF stateUpdate128
<1> HIDE DEF B
<1>3. QED
  BY <1>1, <1>2 DEF FiveBlocks

LEMMA KeyStreamType ==
    ASSUME NEW s \in FiveBlocks
    PROVE  KeyStream(s) \in Block
<1>1. s[1] \in Block /\ s[2] \in Block /\ s[3] \in Block /\ s[4] \in Block
  BY DEF FiveBlocks
<1>2. QED
  BY <1>1, Xor128Type DEF KeyStream

-----------------------------------------------------------------------------
(* What AEGIS seals it opens (aegis.c).                                    *)

LEMMA PaddedType ==
    ASSUME NEW array, NEW i \in Nat, NEW m \in Int,
           \A k \in Place : k < m => array[i + k] \in AnyByte
    PROVE  Padded(array, i, m) \in Block
BY DEF Padded, Block, AnyByte

\* A state that takes up one block after the other.
Absorbs(run, N, start, taken) ==
    /\ run \in [0 .. N -> FiveBlocks]
    /\ run[0] = start
    /\ \A k \in 1 .. N : run[k] = stateUpdate128[run[k - 1]][taken[k]]

LEMMA Absorption ==
    ASSUME NEW N \in Nat, NEW start \in FiveBlocks, NEW taken \in [1 .. N -> Block]
    PROVE  \E run : Absorbs(run, N, start, taken)
<1> DEFINE G == [k \in 1 .. N |-> [s \in FiveBlocks |-> stateUpdate128[s][taken[k]]]]
<1>1. G \in [1 .. N -> [FiveBlocks -> FiveBlocks]]
  BY StateUpdateType
<1>2. PICK run \in [0 .. N -> FiveBlocks] : Iterates(run, N, start, G)
  <2> HIDE DEF G
  <2>1. QED
    BY <1>1, Recursion
<1>3. \A k \in 1 .. N : run[k] = stateUpdate128[run[k - 1]][taken[k]]
  <2> SUFFICES ASSUME NEW k \in 1 .. N PROVE run[k] = stateUpdate128[run[k - 1]][taken[k]]
    OBVIOUS
  <2>1. run[k - 1] \in FiveBlocks
    OBVIOUS
  <2>2. run[k] = G[k][run[k - 1]]
    BY <1>2 DEF Iterates
  <2>3. QED
    BY <2>1, <2>2
<1>4. QED
  BY <1>2, <1>3 DEF Absorbs, Iterates

\* A function defined by absorbing blocks absorbs them.
LEMMA Absorbed ==
    ASSUME NEW N \in Nat, NEW start \in FiveBlocks, NEW taken \in [1 .. N -> Block]
    PROVE  LET run == CHOOSE f : f = [k \in 0 .. N |->
                                        IF k = 0 THEN start ELSE stateUpdate128[f[k - 1]][taken[k]]]
           IN  Absorbs(run, N, start, taken)
<1> DEFINE F(f) == [k \in 0 .. N |-> IF k = 0 THEN start ELSE stateUpdate128[f[k - 1]][taken[k]]]
           run == CHOOSE f : f = F(f)
<1>1. PICK h : Absorbs(h, N, start, taken)
  BY Absorption
<1>2. h = F(h)
  BY <1>1 DEF Absorbs
<1> HIDE DEF F
<1>3. run = F(run)
  BY <1>2
<1>4. \A k \in 0 .. N : run[k] = IF k = 0 THEN start ELSE stateUpdate128[run[k - 1]][taken[k]]
  <2> HIDE DEF run
  <2>1. QED
    BY <1>3 DEF F
<1> DEFINE T == {k \in 0 .. N : run[k] \in FiveBlocks}
<1>5. \A k \in 0 .. N : k \in T
  <2>1. 0 \in T
    BY <1>4
  <2>2. \A k \in 1 .. N : k - 1 \in T => k \in T
    BY <1>4, StateUpdateType
  <2> HIDE DEF T
  <2>3. QED
    BY <2>1, <2>2, UpTo
<1>6. run \in [0 .. N -> FiveBlocks]
  <2>1. run = [k \in 0 .. N |-> run[k]]
    <3> HIDE DEF run
    <3>1. QED
      BY <1>3 DEF F
  <2> HIDE DEF run
  <2>2. QED
    BY <1>5, <2>1
<1> HIDE DEF run
<1>7. Absorbs(run, N, start, taken)
  BY <1>4, <1>6 DEF Absorbs
<1>8. QED
  BY <1>7 DEF run, F

LEMMA InitializationType ==
    ASSUME NEW key \in Block, NEW iv \in Block
    PROVE  initialization(key, iv) \in FiveBlocks
<1> DEFINE first == [k \in 0 .. 4 |->
                        CASE k = 0 -> XOR128(key, iv)
                          [] k = 1 -> constant16
                          [] k = 2 -> constant0
                          [] k = 3 -> XOR128(key, constant0)
                          [] k = 4 -> XOR128(key, constant16)]
           K(i) == IF i % 2 = 1 THEN key ELSE XOR128(key, iv)
           taken == [i \in 1 .. 10 |-> K(i)]
           F(f) == [i \in 0 .. 10 |-> IF i = 0 THEN first ELSE stateUpdate128[f[i - 1]][K(i)]]
           H(f) == [i \in 0 .. 10 |-> IF i = 0 THEN first ELSE stateUpdate128[f[i - 1]][taken[i]]]
           run == CHOOSE f : f = H(f)
<1>1. constant0 \in Block /\ constant16 \in Block
  BY DEF constant0, constant16, Block, Place, AnyByte
<1>2. first \in FiveBlocks
  <2>1. XOR128(key, iv) \in Block /\ XOR128(key, constant0) \in Block /\ XOR128(key, constant16) \in Block
    BY <1>1, Xor128Type
  <2>2. QED
    BY <1>1, <2>1 DEF FiveBlocks
<1>3. taken \in [1 .. 10 -> Block]
  BY Xor128Type
<1>4. initialization(key, iv) = (CHOOSE f : f = F(f))[10]
  BY DEF initialization
<1>5. \A f : F(f) = H(f)
  OBVIOUS
<1> HIDE DEF first, taken
<1>6. Absorbs(run, 10, first, taken)
  BY <1>2, <1>3, Absorbed
<1> HIDE DEF F, H
<1>7. (CHOOSE f : f = F(f)) = run
  BY <1>5
<1> HIDE DEF run
<1>8. run[10] \in FiveBlocks
  BY <1>6 DEF Absorbs
<1>9. QED
  BY <1>4, <1>7, <1>8

LEMMA LastBlockFacts ==
    ASSUME NEW len \in Nat
    PROVE  /\ LastBlock(len) \in Nat /\ LastBlock(len) = 16 * (LastBlock(len) \div 16)
           /\ LastBlock(len) \div 16 \in Nat
           /\ len # 0 => LastBlock(len) < len
           /\ len <= LastBlock(len) + 16
BY DEF LastBlock

\* Both sides absorb the same associated data, if it is the same.
LEMMA AssociatedDataIs ==
    ASSUME NEW s \in FiveBlocks, NEW adlen \in Nat, NEW ad1, NEW ad2,
           \A i \in 0 .. (adlen - 1) : ad1[i] \in AnyByte /\ ad2[i] = ad1[i]
    PROVE  /\ associatedData(s, ad1, adlen) \in FiveBlocks
           /\ associatedData(s, ad2, adlen) = associatedData(s, ad1, adlen)
<1>1. CASE adlen = 0
  BY <1>1 DEF associatedData
<1>2. CASE adlen # 0
  <2> DEFINE last == LastBlock(adlen)
             N == last \div 16
  <2>1. /\ last \in Nat /\ N \in Nat /\ last = 16 * N /\ last < adlen /\ adlen \in Nat
        /\ adlen - last \in Nat /\ N \in 0 .. N
    <3>1. last \in Nat /\ N \in Nat /\ last = 16 * N /\ last < adlen
      BY <1>2, LastBlockFacts
    <3> HIDE DEF last, N
    <3>2. QED
      BY <3>1
  <2> HIDE DEF last
  <2> DEFINE P1(k) == Padded(ad1, 16 * (k - 1), 16)
             P2(k) == Padded(ad2, 16 * (k - 1), 16)
             taken == [k \in 1 .. N |-> P1(k)]
             F1(f) == [k \in 0 .. N |-> IF k = 0 THEN s ELSE stateUpdate128[f[k - 1]][P1(k)]]
             F2(f) == [k \in 0 .. N |-> IF k = 0 THEN s ELSE stateUpdate128[f[k - 1]][P2(k)]]
             H(f) == [k \in 0 .. N |-> IF k = 0 THEN s ELSE stateUpdate128[f[k - 1]][taken[k]]]
             run == CHOOSE f : f = H(f)
             last1 == Padded(ad1, 0, adlen - last)
             last2 == Padded(ad2, 0, adlen - last)
  <2>2. ASSUME NEW k \in 1 .. N PROVE P1(k) \in Block /\ P2(k) = P1(k)
    <3>1. 16 * (k - 1) \in Nat /\ \A j \in Place : 16 * (k - 1) + j \in 0 .. (adlen - 1)
      BY <2>1 DEF Place
    <3>2. P2(k) = P1(k)
      BY <3>1 DEF Padded
    <3>3. P1(k) \in Block
      BY <3>1, PaddedType
    <3>4. QED
      BY <3>2, <3>3
  <2>3. last1 \in Block /\ last2 = last1
    <3>1. \A j \in Place : j < adlen - last => 0 + j \in 0 .. (adlen - 1)
      BY <2>1 DEF Place
    <3>2. last2 = last1
      BY <3>1 DEF Padded
    <3>3. last1 \in Block
      BY <2>1, <3>1, PaddedType
    <3>4. QED
      BY <3>2, <3>3
  <2>4. /\ associatedData(s, ad1, adlen) = stateUpdate128[(CHOOSE f : f = F1(f))[N]][last1]
        /\ associatedData(s, ad2, adlen) = stateUpdate128[(CHOOSE f : f = F2(f))[N]][last2]
    BY <1>2 DEF associatedData, last
  <2> HIDE DEF P1, P2, last1, last2
  <2>5. \A f : F1(f) = H(f) /\ F2(f) = H(f)
    BY <2>2
  <2>6. taken \in [1 .. N -> Block]
    BY <2>2
  <2> HIDE DEF taken, N
  <2>7. Absorbs(run, N, s, taken)
    BY <2>1, <2>6, Absorbed
  <2> HIDE DEF F1, F2, H
  <2>8. (CHOOSE f : f = F1(f)) = run /\ (CHOOSE f : f = F2(f)) = run
    BY <2>5
  <2> HIDE DEF run
  <2>9. run[N] \in FiveBlocks
    BY <2>1, <2>7 DEF Absorbs
  <2>10. QED
    BY <2>3, <2>4, <2>8, <2>9, StateUpdateType
<1>3. QED
  BY <1>1, <1>2

\* Block k of a text, padded; what it is turned into; and what the state takes up.
Inp(text, len, k) == Padded(text, 16 * (k - 1), len - 16 * (k - 1))
Outp(s, text, len, k) == XOR128(KeyStream(s), Inp(text, len, k))
Absorbing(s, text, len, encrypt, k) ==
    IF encrypt THEN Inp(text, len, k) ELSE Padded(Outp(s, text, len, k), 0, len - 16 * (k - 1))
BlocksOf(len) == (LastBlock(len) \div 16) + 1

\* The states that a text is encrypted or decrypted through.
Streams(run, start, text, len, encrypt) ==
    /\ run \in [0 .. BlocksOf(len) -> FiveBlocks]
    /\ run[0] = start
    /\ \A k \in 1 .. BlocksOf(len) :
            run[k] = stateUpdate128[run[k - 1]][Absorbing(run[k - 1], text, len, encrypt, k)]

LEMMA BlocksOfType ==
    ASSUME NEW len \in Nat
    PROVE  BlocksOf(len) \in Nat
<1> DEFINE q == LastBlock(len) \div 16
<1>1. q \in Nat
  BY LastBlockFacts
<1> HIDE DEF q
<1>2. q + 1 \in Nat
  BY <1>1
<1>3. QED
  BY <1>2 DEF BlocksOf, q

LEMMA BlockTypes ==
    ASSUME NEW s \in FiveBlocks, NEW len \in Nat, NEW text, NEW k \in 1 .. BlocksOf(len),
           NEW encrypt \in BOOLEAN, \A i \in 0 .. (len - 1) : text[i] \in AnyByte
    PROVE  /\ Inp(text, len, k) \in Block /\ Outp(s, text, len, k) \in Block
           /\ Absorbing(s, text, len, encrypt, k) \in Block
<1>1. BlocksOf(len) \in Nat /\ k \in Nat /\ k - 1 \in Nat /\ 16 * (k - 1) \in Nat
  BY BlocksOfType
<1>2. /\ len - 16 * (k - 1) \in Int
      /\ \A j \in Place : j < len - 16 * (k - 1) => 16 * (k - 1) + j \in 0 .. (len - 1)
  BY <1>1 DEF Place
<1>3. Inp(text, len, k) \in Block
  BY <1>1, <1>2, PaddedType DEF Inp
<1>4. Outp(s, text, len, k) \in Block
  BY <1>3, KeyStreamType, Xor128Type DEF Outp
<1> DEFINE o == Outp(s, text, len, k)
<1> HIDE DEF o
<1>5. \A j \in Place : o[0 + j] \in AnyByte
  BY <1>4 DEF Block, o, Place
<1>6. Padded(o, 0, len - 16 * (k - 1)) \in Block
  BY <1>2, <1>5, PaddedType
<1>7. QED
  BY <1>3, <1>4, <1>6 DEF Absorbing, o

LEMMA PlaceInText ==
    ASSUME NEW len \in Nat, NEW i \in 0 .. (len - 1)
    PROVE  /\ i \div 16 \in 0 .. BlocksOf(len) /\ (i \div 16) + 1 \in 1 .. BlocksOf(len)
           /\ ((i \div 16) + 1) - 1 = i \div 16
           /\ i % 16 \in Place /\ 16 * (i \div 16) + (i % 16) = i /\ i % 16 < len - 16 * (i \div 16)
<1>1. LastBlock(len) \in Nat /\ LastBlock(len) = 16 * (LastBlock(len) \div 16) /\ len <= LastBlock(len) + 16
      /\ LastBlock(len) \div 16 \in Nat
  BY LastBlockFacts
<1> DEFINE N == LastBlock(len) \div 16
           q == i \div 16
           r == i % 16
<1>2. i = 16 * q + r /\ q \in Nat /\ r \in 0 .. 15
  OBVIOUS
<1>3. N \in Nat /\ len <= 16 * N + 16
  BY <1>1
<1> HIDE DEF N, q, r
<1>4. q <= N
  BY <1>2, <1>3
<1>5. q \in 0 .. (N + 1) /\ q + 1 \in 1 .. (N + 1) /\ (q + 1) - 1 = q /\ 16 * q + r = i /\ r < len - 16 * q
  BY <1>2, <1>3, <1>4
<1>6. QED
  BY <1>2, <1>5 DEF BlocksOf, N, q, r, Place

\* What a text is turned into, by the key stream of the states.
Ciphered(run, text, len) ==
    [i \in 0 .. (len - 1) |-> xor(KeyStream(run[i \div 16])[i % 16], text[i])]

LEMMA XcryptIs ==
    ASSUME NEW start \in FiveBlocks, NEW len \in Nat, NEW text, NEW encrypt \in BOOLEAN,
           \A i \in 0 .. (len - 1) : text[i] \in AnyByte
    PROVE  \E run : /\ Streams(run, start, text, len, encrypt)
                    /\ xcrypt(start, text, len, encrypt).state = run[BlocksOf(len)]
                    /\ xcrypt(start, text, len, encrypt).out = Ciphered(run, text, len)
<1> DEFINE N == BlocksOf(len)
           S == [state : FiveBlocks, out : Seq(Block)]
           first == [state |-> start, out |-> <<>>]
           Step(s, k) == [state |-> stateUpdate128[s.state][Absorbing(s.state, text, len, encrypt, k)],
                          out |-> Append(s.out, Outp(s.state, text, len, k))]
           G == [k \in 1 .. N |-> [s \in S |-> Step(s, k)]]
           F(f) == [k \in 0 .. N |-> IF k = 0 THEN first ELSE Step(f[k - 1], k)]
           step == CHOOSE f : f = F(f)
<1>1. /\ N \in Nat /\ N \in 0 .. N /\ 0 \in 0 .. N
      /\ \A k \in 1 .. N : k \in 0 .. N /\ k - 1 \in 0 .. N /\ k # 0 /\ k \in Nat
  <2>1. N \in Nat
    BY BlocksOfType
  <2> HIDE DEF N
  <2>2. QED
    BY <2>1
<1>2. first \in S
  OBVIOUS
<1>3. ASSUME NEW s \in S, NEW k \in 1 .. N PROVE Step(s, k) \in S
  BY BlockTypes, StateUpdateType
<1>4. xcrypt(start, text, len, encrypt)
        = [state |-> step[N].state,
           out |-> [i \in 0 .. (len - 1) |-> step[N].out[(i \div 16) + 1][i % 16]]]
  BY DEF xcrypt, Absorbing, Outp, Inp, BlocksOf
<1> HIDE DEF N, first, S
<1>5. G \in [1 .. N -> [S -> S]]
  <2> HIDE DEF Step
  <2>1. QED
    BY <1>3
<1>6. PICK h \in [0 .. N -> S] : Iterates(h, N, first, G)
  <2> HIDE DEF G
  <2>1. QED
    BY <1>1, <1>2, <1>5, Recursion
<1> HIDE DEF Step
<1>7. h = F(h)
  <2>1. \A k \in 1 .. N : h[k] = Step(h[k - 1], k)
    <3> SUFFICES ASSUME NEW k \in 1 .. N PROVE h[k] = Step(h[k - 1], k)
      OBVIOUS
    <3>1. h[k - 1] \in S /\ h[k] = G[k][h[k - 1]]
      BY <1>1, <1>6 DEF Iterates
    <3>2. QED
      BY <3>1
  <2>2. QED
    BY <1>1, <1>6, <2>1 DEF Iterates
<1> HIDE DEF G
<1>8. step = F(step)
  <2> HIDE DEF F
  <2>1. QED
    BY <1>7
<1> HIDE DEF step
<1>9. /\ step[0] = first
      /\ \A k \in 1 .. N : step[k] = Step(step[k - 1], k)
  BY <1>1, <1>8
<1> DEFINE Right(k) == /\ step[k] \in S /\ Len(step[k].out) = k
                       /\ \A j \in 1 .. k : step[k].out[j] = Outp(step[j - 1].state, text, len, j)
           T == {k \in 0 .. N : Right(k)}
<1>10. \A k \in 0 .. N : k \in T
  <2>1. 0 \in T
    BY <1>1, <1>2, <1>9 DEF first
  <2>2. ASSUME NEW k \in 1 .. N, k - 1 \in T PROVE k \in T
    <3>1. step[k] \in S
      BY <1>1, <1>3, <1>9, <2>2
    <3>2. /\ step[k].out = Append(step[k - 1].out, Outp(step[k - 1].state, text, len, k))
          /\ step[k - 1].out \in Seq(Block) /\ Len(step[k - 1].out) = k - 1
          /\ Outp(step[k - 1].state, text, len, k) \in Block
      <4>1. step[k] = Step(step[k - 1], k) /\ step[k - 1] \in S /\ Len(step[k - 1].out) = k - 1
        BY <1>9, <2>2
      <4>2. step[k - 1].state \in FiveBlocks /\ step[k - 1].out \in Seq(Block)
        BY <4>1 DEF S
      <4>3. Outp(step[k - 1].state, text, len, k) \in Block
        BY <4>2, BlockTypes DEF N
      <4>4. QED
        BY <4>1, <4>2, <4>3 DEF Step
    <3>3. Len(step[k].out) = k
      BY <1>1, <3>2
    <3>4. ASSUME NEW j \in 1 .. k
          PROVE  step[k].out[j] = Outp(step[j - 1].state, text, len, j)
      <4>1. CASE j = k
        BY <1>1, <3>2, <4>1
      <4>2. CASE j # k
        <5>1. j \in 1 .. (k - 1)
          BY <1>1, <4>2
        <5>2. step[k].out[j] = step[k - 1].out[j]
          BY <1>1, <3>2, <5>1
        <5>3. QED
          BY <2>2, <5>1, <5>2
      <4>3. QED
        BY <4>1, <4>2
    <3>5. QED
      BY <1>1, <3>1, <3>3, <3>4
  <2> HIDE DEF T
  <2>3. QED
    BY <1>1, <2>1, <2>2, UpTo
<1>11. \A k \in 0 .. N : Right(k)
  BY <1>10
<1> DEFINE run == [k \in 0 .. N |-> step[k].state]
<1>12. Streams(run, start, text, len, encrypt)
  <2>1. run \in [0 .. N -> FiveBlocks]
    BY <1>11 DEF S
  <2>2. run[0] = start
    BY <1>1, <1>9 DEF first
  <2>3. \A k \in 1 .. N : run[k] = stateUpdate128[run[k - 1]][Absorbing(run[k - 1], text, len, encrypt, k)]
    <3> SUFFICES ASSUME NEW k \in 1 .. N
                 PROVE  run[k] = stateUpdate128[run[k - 1]][Absorbing(run[k - 1], text, len, encrypt, k)]
      OBVIOUS
    <3>1. run[k] = step[k].state /\ run[k - 1] = step[k - 1].state
      BY <1>1
    <3>2. step[k].state
            = stateUpdate128[step[k - 1].state][Absorbing(step[k - 1].state, text, len, encrypt, k)]
      <4>1. \A s : Step(s, k).state = stateUpdate128[s.state][Absorbing(s.state, text, len, encrypt, k)]
        BY DEF Step
      <4>2. step[k] = Step(step[k - 1], k)
        BY <1>9
      <4>3. QED
        BY <4>1, <4>2
    <3> HIDE DEF run
    <3>3. QED
      BY <3>1, <3>2
  <2> HIDE DEF run
  <2>4. QED
    BY <2>1, <2>2, <2>3 DEF Streams, N
<1>13. ASSUME NEW i \in 0 .. (len - 1)
       PROVE  step[N].out[(i \div 16) + 1][i % 16] = xor(KeyStream(run[i \div 16])[i % 16], text[i])
  <2> DEFINE q == i \div 16
             r == i % 16
  <2>1. /\ q \in 0 .. N /\ q + 1 \in 1 .. N /\ (q + 1) - 1 = q
        /\ r \in Place /\ 16 * q + r = i /\ r < len - 16 * q
    BY PlaceInText DEF N
  <2> HIDE DEF q, r
  <2>2. step[N].out[q + 1] = Outp(run[q], text, len, q + 1)
    BY <1>1, <1>11, <2>1
  <2>3. Outp(run[q], text, len, q + 1)[r] = xor(KeyStream(run[q])[r], Inp(text, len, q + 1)[r])
    BY <2>1 DEF Outp, XOR128
  <2>4. Inp(text, len, q + 1)[r] = text[i]
    BY <2>1 DEF Inp, Padded
  <2>5. QED
    BY <2>2, <2>3, <2>4 DEF q, r
<1> HIDE DEF run
<1>14. xcrypt(start, text, len, encrypt).out = Ciphered(run, text, len)
  <2> DEFINE Old(i) == step[N].out[(i \div 16) + 1][i % 16]
             New(i) == xor(KeyStream(run[i \div 16])[i % 16], text[i])
  <2>1. xcrypt(start, text, len, encrypt).out = [i \in 0 .. (len - 1) |-> Old(i)]
    BY <1>4
  <2>2. \A i \in 0 .. (len - 1) : Old(i) = New(i)
    BY <1>13
  <2> HIDE DEF Old, New
  <2>3. xcrypt(start, text, len, encrypt).out = [i \in 0 .. (len - 1) |-> New(i)]
    BY <2>1, <2>2
  <2>4. QED
    BY <2>3 DEF New, Ciphered
<1>15. xcrypt(start, text, len, encrypt).state = run[BlocksOf(len)]
  BY <1>1, <1>4 DEF run, N
<1>16. QED
  BY <1>12, <1>14, <1>15

LEMMA FromTheStart == \A j \in Place : 0 + j = j
BY DEF Place

\* Byte j of the block from 16 * q on.
LEMMA PlaceOfBlock ==
    ASSUME NEW len \in Nat, NEW q \in Nat, NEW j \in 0 .. 15, j < len - 16 * q
    PROVE  /\ 16 * q + j \in 0 .. (len - 1)
           /\ (16 * q + j) \div 16 = q /\ (16 * q + j) % 16 = j
<1>1. 16 * q + j \in 0 .. (len - 1)
  OBVIOUS
<1> DEFINE v == 16 * q + j
<1>2. v = q * 16 + j /\ 16 \in Nat \ {0} /\ j \in 0 .. (16 - 1) /\ q \in Int /\ v \in Int
  OBVIOUS
<1> HIDE DEF v
<1>3. v \div 16 = q /\ v % 16 = j
  BY <1>2, Remainder
<1>4. QED
  BY <1>1, <1>3 DEF v

\* A text of len bytes, and what it is encrypted to.
IsText(text, len) ==
    text = [i \in 0 .. (len - 1) |-> text[i]] /\ \A i \in 0 .. (len - 1) : text[i] \in AnyByte
IsCipherOf(sealed, start, text, len) ==
    /\ sealed = [i \in 0 .. (len - 1) |-> sealed[i]]
    /\ \A i \in 0 .. (len - 1) : sealed[i] = xcrypt(start, text, len, TRUE).out[i]
DecryptsTo(sealed, start, text, len) ==
    /\ xcrypt(start, sealed, len, FALSE).state = xcrypt(start, text, len, TRUE).state
    /\ xcrypt(start, sealed, len, FALSE).out = text

\* Decrypting what was encrypted goes through the same states, and gives it back.
LEMMA XcryptOpens ==
    ASSUME NEW start \in FiveBlocks, NEW len \in Nat, NEW text, NEW sealed,
           IsText(text, len), IsCipherOf(sealed, start, text, len)
    PROVE  DecryptsTo(sealed, start, text, len)
<1> USE DEF IsText, IsCipherOf
<1> DEFINE N == BlocksOf(len)
<1>1. PICK run : /\ Streams(run, start, text, len, TRUE)
                 /\ xcrypt(start, text, len, TRUE).state = run[N]
                 /\ xcrypt(start, text, len, TRUE).out = Ciphered(run, text, len)
  BY XcryptIs
<1>2. ASSUME NEW i \in 0 .. (len - 1)
      PROVE  /\ i \div 16 \in 0 .. N /\ i % 16 \in Place
             /\ KeyStream(run[i \div 16])[i % 16] \in AnyByte
             /\ sealed[i] = xor(KeyStream(run[i \div 16])[i % 16], text[i])
             /\ sealed[i] \in AnyByte
             /\ xor(KeyStream(run[i \div 16])[i % 16], sealed[i]) = text[i]
  <2>1. i \div 16 \in 0 .. N /\ i % 16 \in Place
    BY PlaceInText
  <2>2. run[i \div 16] \in FiveBlocks
    BY <1>1, <2>1 DEF Streams
  <2>3. KeyStream(run[i \div 16])[i % 16] \in AnyByte
    BY <2>1, <2>2, KeyStreamType DEF Block
  <2>4. sealed[i] = xor(KeyStream(run[i \div 16])[i % 16], text[i])
    BY <1>1 DEF Ciphered
  <2>5. QED
    BY <2>1, <2>3, <2>4, XorTwice
<1>3. PICK back : /\ Streams(back, start, sealed, len, FALSE)
                  /\ xcrypt(start, sealed, len, FALSE).state = back[N]
                  /\ xcrypt(start, sealed, len, FALSE).out = Ciphered(back, sealed, len)
  <2>1. \A i \in 0 .. (len - 1) : sealed[i] \in AnyByte
    BY <1>2
  <2>2. QED
    BY <2>1, XcryptIs
<1>4. /\ N \in Nat /\ N \in 0 .. N /\ 0 \in 0 .. N
      /\ \A k \in 1 .. N : k - 1 \in 0 .. N /\ k \in Nat /\ k - 1 \in Nat /\ 16 * (k - 1) \in Nat
  <2>1. N \in Nat
    BY BlocksOfType
  <2> HIDE DEF N
  <2>2. QED
    BY <2>1
<1> DEFINE T == {k \in 0 .. N : back[k] = run[k]}
<1>5. ASSUME NEW k \in 1 .. N, back[k - 1] = run[k - 1]
      PROVE  back[k] = run[k]
  <2> DEFINE ks == KeyStream(run[k - 1])
             i == 16 * (k - 1)
  <2>1. i \in Nat /\ len - i \in Int
    BY <1>4
  <2>2. ASSUME NEW j \in Place, j < len - i
        PROVE  Outp(run[k - 1], sealed, len, k)[j] = text[i + j]
    <3>1. i + j \in 0 .. (len - 1) /\ (i + j) \div 16 = k - 1 /\ (i + j) % 16 = j
      <4>1. k - 1 \in Nat /\ j \in 0 .. 15 /\ j < len - 16 * (k - 1)
        BY <1>4, <2>2 DEF Place
      <4> DEFINE q == k - 1
      <4>2. q \in Nat /\ j \in 0 .. 15 /\ j < len - 16 * q
        BY <4>1
      <4> HIDE DEF q
      <4>3. /\ 16 * q + j \in 0 .. (len - 1)
            /\ (16 * q + j) \div 16 = q /\ (16 * q + j) % 16 = j
        BY <4>2, PlaceOfBlock
      <4>4. QED
        BY <4>3 DEF q
    <3>2. Inp(sealed, len, k)[j] = sealed[i + j]
      BY <2>2 DEF Inp, Padded
    <3>3. Outp(run[k - 1], sealed, len, k)[j] = xor(ks[j], sealed[i + j])
      BY <3>2 DEF Outp, XOR128
    <3>4. xor(ks[j], sealed[i + j]) = text[i + j]
      BY <1>2, <3>1
    <3>5. QED
      BY <3>3, <3>4
  <2>3. Absorbing(run[k - 1], sealed, len, FALSE, k) = Absorbing(run[k - 1], text, len, TRUE, k)
    <3> DEFINE o == Outp(run[k - 1], sealed, len, k)
    <3>1. Absorbing(run[k - 1], sealed, len, FALSE, k) = Padded(o, 0, len - i)
      BY DEF Absorbing
    <3>2. Absorbing(run[k - 1], text, len, TRUE, k) = Padded(text, i, len - i)
      BY DEF Absorbing, Inp
    <3>3. \A j \in Place : j < len - i => o[0 + j] = text[i + j]
      <4> HIDE DEF o, i
      <4>1. QED
        BY <2>2, FromTheStart DEF o
    <3> HIDE DEF o, i
    <3>4. Padded(o, 0, len - i) = Padded(text, i, len - i)
      BY <3>3 DEF Padded
    <3>5. QED
      BY <3>1, <3>2, <3>4
  <2>4. /\ back[k] = stateUpdate128[back[k - 1]][Absorbing(back[k - 1], sealed, len, FALSE, k)]
        /\ run[k] = stateUpdate128[run[k - 1]][Absorbing(run[k - 1], text, len, TRUE, k)]
    BY <1>1, <1>3 DEF Streams
  <2>5. QED
    BY <1>5, <2>3, <2>4
<1>6. \A k \in 0 .. N : k \in T
  <2>1. 0 \in T
    BY <1>1, <1>3, <1>4 DEF Streams
  <2>2. \A k \in 1 .. N : k - 1 \in T => k \in T
    BY <1>5
  <2> HIDE DEF T, N
  <2>3. QED
    BY <1>4, <2>1, <2>2, UpTo
<1>7. back[N] = run[N]
  BY <1>4, <1>6
<1>8. \A i \in 0 .. (len - 1) : xor(KeyStream(back[i \div 16])[i % 16], sealed[i]) = text[i]
  BY <1>2, <1>6
<1>9. xcrypt(start, sealed, len, FALSE).out = text
  <2> DEFINE New(i) == xor(KeyStream(back[i \div 16])[i % 16], sealed[i])
  <2>1. xcrypt(start, sealed, len, FALSE).out = [i \in 0 .. (len - 1) |-> New(i)]
    BY <1>3 DEF Ciphered
  <2>2. \A i \in 0 .. (len - 1) : New(i) = text[i]
    BY <1>8
  <2> HIDE DEF New
  <2>3. xcrypt(start, sealed, len, FALSE).out = [i \in 0 .. (len - 1) |-> text[i]]
    BY <2>1, <2>2
  <2>4. QED
    BY <2>3
<1>10. QED
  BY <1>1, <1>3, <1>7, <1>9 DEF DecryptsTo

LEMMA XorIsFunction == \A f, h : XOR128(f, h) = [i \in Place |-> XOR128(f, h)[i]]
BY DEF XOR128

\* The tag has as many bytes as a block.
LEMMA TagIs ==
    ASSUME NEW state, NEW adlen, NEW msglen
    PROVE  finalization(state, adlen, msglen) = [i \in Place |-> finalization(state, adlen, msglen)[i]]
<1> DEFINE t == finalization(state, adlen, msglen)
<1>1. \E f, h : t = XOR128(f, h)
  BY DEF finalization
<1> HIDE DEF t
<1>2. t = [i \in Place |-> t[i]]
  BY <1>1, XorIsFunction
<1>3. QED
  BY <1>2 DEF t

\* Whatever the key, the IV and the message, what aegisEncryptMessage sealed and
\* nothing damaged aegisDecryptMessage accepts and opens: the header and the
\* payload are those that were sent (aegis.c).
THEOREM SealedMessagesOpen ==
    ASSUME NEW key \in Block, NEW iv \in Block, NEW adLen \in Nat, NEW plainLen \in Nat,
           NEW message \in [0 .. (adLen + plainLen - 1) -> AnyByte]
    PROVE  LET opened == aegisDecryptMessage(key, iv,
                            aegisEncryptMessage(key, iv, message, adLen, plainLen), adLen, plainLen)
           IN  /\ opened.correct
               /\ \A i \in 0 .. (adLen + plainLen - 1) : opened.message[i] = message[i]
<1> DEFINE sealed == aegisEncryptMessage(key, iv, message, adLen, plainLen)
           opened == aegisDecryptMessage(key, iv, sealed, adLen, plainLen)
           first == initialization(key, iv)
           state == associatedData(first, message, adLen)
           text == From(message, adLen, plainLen)
           cipher == From(sealed, adLen, plainLen)
           forth == xcrypt(state, text, plainLen, TRUE)
           back == xcrypt(associatedData(first, sealed, adLen), cipher, plainLen, FALSE)
           tag == finalization(forth.state, adLen, plainLen)
           SealedByte(i) == IF i < adLen THEN message[i]
                      ELSE IF i < adLen + plainLen THEN forth.out[i - adLen]
                      ELSE tag[i - adLen - plainLen]
           Opened(i) == IF i >= adLen /\ i < adLen + plainLen THEN back.out[i - adLen] ELSE sealed[i]
<1>1. sealed = [i \in 0 .. (adLen + plainLen + 15) |-> SealedByte(i)]
  BY DEF aegisEncryptMessage, aegisCrypt
<1>2. /\ opened.correct <=> finalization(back.state, adLen, plainLen) = From(sealed, adLen + plainLen, 16)
      /\ opened.message = [i \in DOMAIN sealed |-> Opened(i)]
  <2> HIDE DEF sealed
  <2>1. QED
    BY DEF aegisDecryptMessage, aegisCrypt
<1> HIDE DEF sealed, opened
<1>3. first \in FiveBlocks
  BY InitializationType
<1> HIDE DEF first
<1>4. \A i \in 0 .. (adLen - 1) : i \in 0 .. (adLen + plainLen + 15) /\ sealed[i] = message[i] /\ message[i] \in AnyByte
  <2> HIDE DEF tag, forth
  <2>1. \A i \in 0 .. (adLen - 1) : /\ i \in 0 .. (adLen + plainLen + 15) /\ i < adLen
                                    /\ i \in 0 .. (adLen + plainLen - 1)
    OBVIOUS
  <2>2. QED
    BY <1>1, <2>1
<1>5. state \in FiveBlocks /\ associatedData(first, sealed, adLen) = state
  BY <1>3, <1>4, AssociatedDataIs
<1> HIDE DEF state
<1>6. /\ text = [i \in 0 .. (plainLen - 1) |-> text[i]] /\ cipher = [i \in 0 .. (plainLen - 1) |-> cipher[i]]
      /\ \A i \in 0 .. (plainLen - 1) : text[i] = message[adLen + i] /\ cipher[i] = sealed[adLen + i]
  BY DEF From
<1>7. \A i \in 0 .. (plainLen - 1) : /\ adLen + i \in 0 .. (adLen + plainLen - 1)
                                     /\ adLen + i \in 0 .. (adLen + plainLen + 15)
                                     /\ ~(adLen + i < adLen) /\ adLen + i < adLen + plainLen
                                     /\ (adLen + i) - adLen = i
  OBVIOUS
<1> HIDE DEF text, cipher
<1>8. \A i \in 0 .. (plainLen - 1) : text[i] \in AnyByte /\ cipher[i] = forth.out[i]
  <2> SUFFICES ASSUME NEW i \in 0 .. (plainLen - 1)
               PROVE  text[i] \in AnyByte /\ cipher[i] = forth.out[i]
    OBVIOUS
  <2> HIDE DEF forth, tag
  <2>1. sealed[adLen + i] = forth.out[i]
    BY <1>1, <1>7
  <2>2. QED
    BY <1>6, <1>7, <2>1
<1>9. back.state = forth.state /\ back.out = text
  <2>1. back = xcrypt(state, cipher, plainLen, FALSE)
    BY <1>5
  <2>2. \A i \in 0 .. (plainLen - 1) : cipher[i] = xcrypt(state, text, plainLen, TRUE).out[i]
    BY <1>8
  <2>3. /\ xcrypt(state, cipher, plainLen, FALSE).state = xcrypt(state, text, plainLen, TRUE).state
        /\ xcrypt(state, cipher, plainLen, FALSE).out = text
    <3> HIDE DEF forth, back
    <3>1. IsText(text, plainLen)
      BY <1>6, <1>8 DEF IsText
    <3>2. IsCipherOf(cipher, state, text, plainLen)
      BY <1>6, <2>2 DEF IsCipherOf
    <3>3. DecryptsTo(cipher, state, text, plainLen)
      BY <1>5, <3>1, <3>2, XcryptOpens
    <3>4. QED
      BY <3>3 DEF DecryptsTo
  <2>4. QED
    BY <2>1, <2>3
<1>10. tag = [i \in Place |-> tag[i]]
  BY TagIs
<1> HIDE DEF tag, forth, back
<1>11. From(sealed, adLen + plainLen, 16) = tag
  <2>1. \A i \in Place : /\ (adLen + plainLen) + i \in 0 .. (adLen + plainLen + 15)
                         /\ ~((adLen + plainLen) + i < adLen) /\ ~((adLen + plainLen) + i < adLen + plainLen)
                         /\ ((adLen + plainLen) + i) - adLen - plainLen = i
    BY DEF Place
  <2>2. \A i \in Place : sealed[(adLen + plainLen) + i] = tag[i]
    BY <1>1, <2>1
  <2>3. Place = 0 .. (16 - 1)
    BY DEF Place
  <2>4. From(sealed, adLen + plainLen, 16) = [i \in Place |-> sealed[(adLen + plainLen) + i]]
    BY <2>3 DEF From
  <2>5. QED
    BY <1>10, <2>2, <2>4
<1>12. opened.correct
  BY <1>2, <1>9, <1>11 DEF tag
<1>13. ASSUME NEW i \in 0 .. (adLen + plainLen - 1) PROVE opened.message[i] = message[i]
  <2>1. opened.message[i] = Opened(i) /\ i \in 0 .. (adLen + plainLen + 15)
    <3>1. i \in 0 .. (adLen + plainLen + 15)
      OBVIOUS
    <3>2. DOMAIN sealed = 0 .. (adLen + plainLen + 15)
      BY <1>1
    <3> HIDE DEF Opened
    <3>3. QED
      BY <1>2, <3>1, <3>2
  <2>2. CASE i < adLen
    <3>1. i \in 0 .. (adLen - 1)
      BY <2>2
    <3>2. QED
      BY <1>4, <2>1, <2>2, <3>1
  <2>3. CASE ~(i < adLen)
    <3>1. i - adLen \in 0 .. (plainLen - 1) /\ i >= adLen /\ i < adLen + plainLen /\ adLen + (i - adLen) = i
      BY <2>3
    <3>2. QED
      BY <1>6, <1>9, <2>1, <3>1
  <2>4. QED
    BY <2>2, <2>3
<1>14. QED
  BY <1>12, <1>13 DEF sealed, opened

-----------------------------------------------------------------------------
(* The entropy that the random bit generator uses (crt_drbg.c).            *)

SeedByte == [place : Int, fresh : BOOLEAN]
Generator ==
    [instantiated : BOOLEAN, reseed_ctr : 0 .. MaxCounter, seeds : Seq(Seq(SeedByte)),
     updates : Nat, buffer_size : Nat, ind : Nat, fresh : SUBSET Nat]

\* Byte i of seed k was read from the source.
FreshAt(seeds, k, i) == k \in DOMAIN seeds /\ i \in DOMAIN seeds[k] /\ seeds[k][i].fresh

\* The first bytes of the buffer, up to end, are each in one seed, once, and
\* nothing else is, except for the personalization string in the first.
OnceUpTo(seeds, end) ==
    /\ \A k \in DOMAIN seeds : \A i \in DOMAIN seeds[k] :
            seeds[k][i].fresh \/ (k = 1 /\ seeds[k][i] = Personal)
    /\ \A k, i : FreshAt(seeds, k, i) => seeds[k][i].place \in 0 .. (end - 1)
    /\ \A q \in 0 .. (end - 1) : \E k, i : FreshAt(seeds, k, i) /\ seeds[k][i].place = q
    /\ \A k, i, l, j : FreshAt(seeds, k, i) /\ FreshAt(seeds, l, j)
                            /\ seeds[k][i].place = seeds[l][j].place => k = l /\ i = j

Counted(gen, source) ==
    /\ gen \in Generator /\ gen.instantiated /\ gen.buffer_size = source
    /\ gen.ind \in 0 .. source /\ gen.fresh = gen.ind .. (source - 1)
    /\ OnceUpTo(gen.seeds, gen.ind)

\* The bytes of the buffer from one place on.
BytesFrom(first, len) == [i \in 1 .. len |-> [place |-> first + i - 1, fresh |-> TRUE]]

LEMMA BytesFromType ==
    ASSUME NEW first \in Nat, NEW len \in Nat
    PROVE  BytesFrom(first, len) \in Seq(SeedByte)
<1>1. \A i \in 1 .. len : [place |-> first + i - 1, fresh |-> TRUE] \in SeedByte
  BY DEF SeedByte
<1>2. BytesFrom(first, len) \in [1 .. len -> SeedByte]
  BY <1>1 DEF BytesFrom
<1>3. QED
  BY <1>2

LEMMA OnceMore ==
    ASSUME NEW seeds \in Seq(Seq(SeedByte)), NEW end \in Nat, NEW len \in Nat,
           OnceUpTo(seeds, end)
    PROVE  /\ Append(seeds, BytesFrom(end, len)) \in Seq(Seq(SeedByte))
           /\ OnceUpTo(Append(seeds, BytesFrom(end, len)), end + len)
<1> DEFINE bytes == BytesFrom(end, len)
           more == Append(seeds, bytes)
           last == Len(seeds) + 1
<1>1. bytes \in Seq(SeedByte) /\ DOMAIN bytes = 1 .. len
  BY BytesFromType DEF BytesFrom
<1>2. \A i \in 1 .. len : bytes[i].fresh /\ bytes[i].place = (end + i) - 1 /\ bytes[i].fresh \in BOOLEAN
  <2>1. \A i \in 1 .. len : bytes[i] = [place |-> (end + i) - 1, fresh |-> TRUE]
    BY DEF BytesFrom
  <2> SUFFICES ASSUME NEW i \in 1 .. len
               PROVE  bytes[i].fresh /\ bytes[i].place = (end + i) - 1 /\ bytes[i].fresh \in BOOLEAN
    OBVIOUS
  <2> HIDE DEF bytes
  <2>2. bytes[i] = [place |-> (end + i) - 1, fresh |-> TRUE]
    BY <2>1
  <2>3. bytes[i].place = (end + i) - 1
    BY <2>2
  <2>4. bytes[i].fresh = TRUE
    BY <2>2
  <2>5. QED
    BY <2>3, <2>4
<1> HIDE DEF bytes
<1>3. /\ more \in Seq(Seq(SeedByte)) /\ more[last] = bytes /\ last \in DOMAIN more
      /\ last \notin DOMAIN seeds
      /\ \A k \in DOMAIN seeds : k \in DOMAIN more /\ more[k] = seeds[k]
      /\ \A k \in DOMAIN more : k \in DOMAIN seeds \/ k = last
  BY <1>1
<1> HIDE DEF more, last
<1>4. ASSUME NEW k, NEW i
      PROVE  FreshAt(more, k, i) <=> FreshAt(seeds, k, i) \/ (k = last /\ i \in 1 .. len)
  BY <1>1, <1>2, <1>3 DEF FreshAt
<1>5. \A k, i : FreshAt(seeds, k, i) => more[k][i].place = seeds[k][i].place /\ k # last
  BY <1>3 DEF FreshAt
<1>6. \A i \in 1 .. len : more[last][i].place = (end + i) - 1
  BY <1>2, <1>3
<1>7. \A k \in DOMAIN more : \A i \in DOMAIN more[k] :
            more[k][i].fresh \/ (k = 1 /\ more[k][i] = Personal)
  <2> SUFFICES ASSUME NEW k \in DOMAIN more, NEW i \in DOMAIN more[k]
               PROVE  more[k][i].fresh \/ (k = 1 /\ more[k][i] = Personal)
    OBVIOUS
  <2>1. CASE k \in DOMAIN seeds
    BY <1>3, <2>1 DEF OnceUpTo
  <2>2. CASE k = last
    BY <1>1, <1>2, <1>3, <2>2
  <2>3. QED
    BY <1>3, <2>1, <2>2
<1>8. ASSUME NEW k, NEW i, FreshAt(more, k, i)
      PROVE  more[k][i].place \in 0 .. (end + len - 1)
  <2>1. CASE FreshAt(seeds, k, i)
    <3>1. seeds[k][i].place \in 0 .. (end - 1)
      BY <2>1 DEF OnceUpTo
    <3>2. more[k][i].place = seeds[k][i].place
      BY <1>5, <2>1
    <3> DEFINE v == seeds[k][i].place
    <3>3. v \in 0 .. (end - 1)
      BY <3>1
    <3> HIDE DEF v
    <3>4. v \in 0 .. (end + len - 1)
      BY <3>3
    <3>5. QED
      BY <3>2, <3>4 DEF v
  <2>2. CASE k = last /\ i \in 1 .. len
    BY <1>6, <2>2
  <2>3. QED
    BY <1>4, <1>8, <2>1, <2>2
<1>9. ASSUME NEW q \in 0 .. (end + len - 1)
      PROVE  \E k, i : FreshAt(more, k, i) /\ more[k][i].place = q
  <2>1. CASE q \in 0 .. (end - 1)
    <3>1. PICK k, i : FreshAt(seeds, k, i) /\ seeds[k][i].place = q
      BY <2>1 DEF OnceUpTo
    <3>2. QED
      BY <1>4, <1>5, <3>1
  <2>2. CASE q \notin 0 .. (end - 1)
    <3>1. (q - end) + 1 \in 1 .. len /\ (end + ((q - end) + 1)) - 1 = q
      BY <2>2
    <3>2. QED
      BY <1>4, <1>6, <3>1
  <2>3. QED
    BY <2>1, <2>2
<1>10. ASSUME NEW k, NEW i, NEW l, NEW j, FreshAt(more, k, i), FreshAt(more, l, j),
              more[k][i].place = more[l][j].place
       PROVE  k = l /\ i = j
  <2>1. CASE FreshAt(seeds, k, i) /\ FreshAt(seeds, l, j)
    <3>1. seeds[k][i].place = seeds[l][j].place
      BY <1>5, <1>10, <2>1
    <3>2. QED
      BY <2>1, <3>1 DEF OnceUpTo
  <2>2. CASE FreshAt(seeds, k, i) /\ l = last /\ j \in 1 .. len
    <3>1. seeds[k][i].place \in 0 .. (end - 1)
      BY <2>2 DEF OnceUpTo
    <3>2. more[k][i].place \in 0 .. (end - 1) /\ more[l][j].place = (end + j) - 1
      BY <1>5, <1>6, <2>2, <3>1
    <3>3. QED
      BY <1>10, <2>2, <3>2
  <2>3. CASE FreshAt(seeds, l, j) /\ k = last /\ i \in 1 .. len
    <3>1. seeds[l][j].place \in 0 .. (end - 1)
      BY <2>3 DEF OnceUpTo
    <3>2. more[l][j].place \in 0 .. (end - 1) /\ more[k][i].place = (end + i) - 1
      BY <1>5, <1>6, <2>3, <3>1
    <3>3. QED
      BY <1>10, <2>3, <3>2
  <2>4. CASE k = last /\ i \in 1 .. len /\ l = last /\ j \in 1 .. len
    <3>1. (end + i) - 1 = (end + j) - 1
      BY <1>6, <1>10, <2>4
    <3>2. QED
      BY <2>4, <3>1
  <2>5. QED
    BY <1>4, <1>10, <2>1, <2>2, <2>3, <2>4
<1>11. OnceUpTo(more, end + len)
  BY <1>7, <1>8, <1>9, <1>10 DEF OnceUpTo
<1>12. QED
  BY <1>3, <1>11 DEF more, bytes

\* How many bytes the next seed takes from a buffer with left bytes.
NextLength(left) == IF left < SeedSize THEN left ELSE SeedSize

\* A seed s of len bytes, and the generator that they were taken from.
IsSeed(s, gen, source, len) ==
    /\ len \in Nat \ {0} /\ gen.ind + len \in 0 .. source
    /\ s.bytes = BytesFrom(gen.ind, len)
    /\ s.gen = [gen EXCEPT !.ind = gen.ind + len, !.fresh = (gen.ind + len) .. (source - 1)]

LEMMA SeedTaken ==
    ASSUME NEW source \in Nat, NEW gen, Counted(gen, source), hasEntropyLeft(gen)
    PROVE  IsSeed(getSeed(gen, SeedSize, source), gen, source, NextLength(source - gen.ind))
<1> DEFINE at == gen.ind
           left == source - at
           len == NextLength(left)
           s == getSeed(gen, SeedSize, source)
           copied == at .. (at + len - 1)
<1>1. at \in Nat /\ at < source /\ gen.buffer_size = source /\ gen.fresh = at .. (source - 1)
      /\ gen \in Generator
  BY DEF Counted, hasEntropyLeft
<1>2. /\ s.gen = [gen EXCEPT !.ind = @ + len, !.fresh = @ \ copied]
      /\ s.bytes = [i \in 1 .. len |-> [place |-> at + i - 1, fresh |-> (at + i - 1) \in gen.fresh]]
  BY <1>1 DEF getSeed, NextLength
<1> HIDE DEF s
<1>3. left \in Nat \ {0}
  BY <1>1
<1>4. len \in Nat \ {0} /\ len <= left
  BY <1>3, DrbgAssumption DEF NextLength
<1> HIDE DEF len
<1>5. at + len \in 0 .. source
  BY <1>1, <1>4
<1>6. gen.fresh \ copied = (at + len) .. (source - 1)
  BY <1>1, <1>4, <1>5
<1>7. \A i \in 1 .. len : ((at + i - 1) \in gen.fresh) = TRUE
  BY <1>1, <1>4, <1>5
<1>8. s.bytes = BytesFrom(at, len)
  BY <1>2, <1>7 DEF BytesFrom
<1> HIDE DEF copied
<1>9. s.gen = [gen EXCEPT !.ind = at + len, !.fresh = (at + len) .. (source - 1)]
  BY <1>2, <1>6
<1>10. QED
  BY <1>4, <1>5, <1>8, <1>9 DEF IsSeed, s, len

\* A reseed uses the next bytes, and no byte twice.
LEMMA ReseedCounts ==
    ASSUME NEW source \in Nat, NEW gen, Counted(gen, source), hasEntropyLeft(gen)
    PROVE  /\ Counted(ReseedOnce(gen, source), source)
           /\ \/ ReseedOnce(gen, source).ind = source
              \/ ReseedOnce(gen, source).ind = gen.ind + SeedSize
<1> DEFINE at == gen.ind
           len == NextLength(source - at)
           s == getSeed(gen, SeedSize, source)
           new == ReseedOnce(gen, source)
<1>1. /\ len \in Nat \ {0} /\ at + len \in 0 .. source
      /\ s.bytes = BytesFrom(at, len)
      /\ s.gen = [gen EXCEPT !.ind = at + len, !.fresh = (at + len) .. (source - 1)]
  <2>1. IsSeed(s, gen, source, len)
    BY SeedTaken
  <2> HIDE DEF s, len
  <2>2. QED
    BY <2>1 DEF IsSeed
<1>2. new = [[s.gen EXCEPT !.updates = @ + 1] EXCEPT !.seeds = Append(@, s.bytes), !.reseed_ctr = 1]
  BY DEF ReseedOnce, CTR_DRBG_Reseed, CTR_DRBG_Update
<1> HIDE DEF new, s
<1>3. gen \in Generator /\ gen.instantiated /\ gen.buffer_size = source /\ OnceUpTo(gen.seeds, at) /\ at \in Nat
  BY DEF Counted
<1>4. len = source - at \/ len = SeedSize
  BY DEF NextLength
<1> HIDE DEF len
<1>5. /\ s.gen.ind = at + len /\ s.gen.fresh = (at + len) .. (source - 1)
      /\ s.gen.instantiated = gen.instantiated /\ s.gen.buffer_size = source /\ s.gen.seeds = gen.seeds
      /\ s.gen.updates = gen.updates /\ s.gen \in Generator
  <2>1. at + len \in Nat /\ (at + len) .. (source - 1) \in SUBSET Nat
    BY <1>1, <1>3
  <2>2. QED
    BY <1>1, <1>3, <2>1 DEF Generator
<1>6. /\ gen.seeds \in Seq(Seq(SeedByte)) /\ gen.updates + 1 \in Nat /\ gen.instantiated \in BOOLEAN
      /\ 1 \in 0 .. MaxCounter /\ source \in Nat /\ at + len \in Nat /\ (at + len) .. (source - 1) \in SUBSET Nat
  BY <1>1, <1>3, DrbgAssumption DEF Generator
<1>7. /\ Append(gen.seeds, BytesFrom(at, len)) \in Seq(Seq(SeedByte))
      /\ OnceUpTo(Append(gen.seeds, BytesFrom(at, len)), at + len)
  BY <1>1, <1>3, <1>6, OnceMore
<1>8. /\ new \in Generator /\ new.instantiated = gen.instantiated /\ new.buffer_size = source
      /\ new.ind = at + len /\ new.fresh = (at + len) .. (source - 1)
      /\ new.seeds = Append(gen.seeds, BytesFrom(at, len))
  <2> DEFINE mid == [s.gen EXCEPT !.updates = @ + 1]
  <2>1. /\ mid \in Generator /\ mid.instantiated = gen.instantiated /\ mid.buffer_size = source
        /\ mid.ind = at + len /\ mid.fresh = (at + len) .. (source - 1) /\ mid.seeds = gen.seeds
    BY <1>5, <1>6 DEF Generator
  <2> DEFINE all == Append(gen.seeds, BytesFrom(at, len))
  <2>2. new = [mid EXCEPT !.seeds = all, !.reseed_ctr = 1]
    <3>1. new = [mid EXCEPT !.seeds = Append(@, s.bytes), !.reseed_ctr = 1]
      BY <1>2
    <3> HIDE DEF mid
    <3>2. QED
      BY <1>1, <2>1, <3>1
  <2> HIDE DEF mid
  <2>3. all \in Seq(Seq(SeedByte))
    BY <1>7
  <2> HIDE DEF all
  <2>4. /\ new \in Generator /\ new.instantiated = gen.instantiated /\ new.buffer_size = source
        /\ new.ind = at + len /\ new.fresh = (at + len) .. (source - 1) /\ new.seeds = all
    BY <1>6, <2>1, <2>2, <2>3 DEF Generator
  <2>5. QED
    BY <2>4 DEF all
<1>9. Counted(new, source)
  BY <1>1, <1>3, <1>7, <1>8 DEF Counted
<1>10. new.ind = source \/ new.ind = at + SeedSize
  BY <1>1, <1>3, <1>4, <1>8
<1>11. QED
  BY <1>9, <1>10 DEF new

\* The loop ends with the buffer used up.
LEMMA ReseedsAll ==
    ASSUME NEW source \in 0 .. EntropySize, NEW gen, Counted(gen, source)
    PROVE  /\ Counted(ReseedWhileLeft(gen, source), source)
           /\ ReseedWhileLeft(gen, source).ind = source
<1> DEFINE most == (EntropySize \div SeedSize) + 1
           Step(x) == IF hasEntropyLeft(x) THEN ReseedOnce(x, source) ELSE x
           S == {x \in Generator : Counted(x, source)}
           G == [k \in 1 .. most |-> [x \in S |-> Step(x)]]
           F(f) == [k \in 0 .. most |-> IF k = 0 THEN gen ELSE Step(f[k - 1])]
           after == CHOOSE f : f = F(f)
           W(k) == SeedSize * k
<1>1. source \in Nat /\ source <= EntropySize
  BY DrbgAssumption
<1>2. /\ most \in Nat /\ most \in 0 .. most /\ 0 \in 0 .. most
      /\ \A k \in 1 .. most : k \in 0 .. most /\ k - 1 \in 0 .. most /\ k # 0
      /\ source < W(most) /\ W(most) \in Int /\ W(0) = 0
      /\ \A k \in 1 .. most : W(k) = W(k - 1) + SeedSize /\ W(k - 1) \in Nat
  <2>1. EntropySize \in Nat /\ SeedSize \in Nat \ {0}
    BY DrbgAssumption
  <2> DEFINE d == EntropySize \div SeedSize
  <2>2. d \in Int /\ EntropySize = d * SeedSize + (EntropySize % SeedSize)
        /\ EntropySize % SeedSize \in 0 .. (SeedSize - 1)
    BY <2>1, Quotient
  <2>3. d >= 0
    BY <2>1
  <2> DEFINE r == EntropySize % SeedSize
             ds == d * SeedSize
  <2>4. ds \in Int /\ SeedSize * (d + 1) = ds + SeedSize
    BY <2>1, <2>2
  <2>5. most = d + 1
    OBVIOUS
  <2>6. r \in 0 .. (SeedSize - 1) /\ EntropySize = ds + r
    BY <2>2
  <2> HIDE DEF d, most, r, ds
  <2>7. most \in Nat
    BY <2>2, <2>3, <2>5
  <2>8. source < ds + SeedSize
    BY <1>1, <2>1, <2>4, <2>6
  <2>9. source < W(most) /\ W(most) \in Int
    BY <2>1, <2>4, <2>5, <2>8
  <2>10. W(0) = 0
    BY <2>1
  <2>11. \A k \in 1 .. most : W(k) = W(k - 1) + SeedSize /\ W(k - 1) \in Nat
    <3> SUFFICES ASSUME NEW k \in 1 .. most PROVE W(k) = W(k - 1) + SeedSize /\ W(k - 1) \in Nat
      OBVIOUS
    <3>1. k - 1 \in Nat /\ k \in Nat
      BY <2>7
    <3>2. SeedSize * k = SeedSize * (k - 1) + SeedSize
      BY <2>1, <3>1
    <3>3. SeedSize * (k - 1) \in Nat
      BY <2>1, <3>1
    <3>4. QED
      BY <3>2, <3>3
  <2> HIDE DEF W
  <2>12. QED
    BY <2>7, <2>9, <2>10, <2>11
<1>3. ReseedWhileLeft(gen, source) = after[most]
  BY DEF ReseedWhileLeft
<1> HIDE DEF most, W
<1>4. \A x \in S : Counted(x, source) /\ Step(x) \in S
  BY <1>1, ReseedCounts DEF Counted
<1>5. gen \in S
  BY DEF Counted
<1> HIDE DEF S
<1>6. G \in [1 .. most -> [S -> S]]
  <2> HIDE DEF Step
  <2>1. QED
    BY <1>4
<1>7. PICK h \in [0 .. most -> S] : Iterates(h, most, gen, G)
  <2> HIDE DEF G
  <2>1. QED
    BY <1>2, <1>5, <1>6, Recursion
<1>8. h = F(h)
  <2> HIDE DEF Step
  <2>1. \A k \in 1 .. most : h[k] = Step(h[k - 1])
    <3> SUFFICES ASSUME NEW k \in 1 .. most PROVE h[k] = Step(h[k - 1])
      OBVIOUS
    <3>1. h[k - 1] \in S /\ h[k] = G[k][h[k - 1]]
      BY <1>2, <1>7 DEF Iterates
    <3>2. QED
      BY <3>1
  <2>2. QED
    BY <1>2, <1>7, <2>1 DEF Iterates
<1> HIDE DEF G
<1>9. after = F(after)
  <2> HIDE DEF F
  <2>1. QED
    BY <1>8
<1> HIDE DEF after
<1>10. after[0] = gen /\ \A k \in 1 .. most : after[k] = Step(after[k - 1])
  <2> HIDE DEF Step
  <2>1. QED
    BY <1>2, <1>9
<1> DEFINE Right(k) == after[k] \in S /\ (after[k].ind = source \/ after[k].ind >= W(k))
           T == {k \in 0 .. most : Right(k)}
<1>11. \A k \in 0 .. most : k \in T
  <2>1. 0 \in T
    <3>1. gen.ind >= 0
      BY DEF Counted
    <3>2. W(0) \in Int /\ gen.ind >= W(0)
      BY <1>2, <3>1
    <3>3. QED
      BY <1>2, <1>5, <1>10, <3>2
  <2>2. ASSUME NEW k \in 1 .. most, k - 1 \in T PROVE k \in T
    <3> DEFINE x == after[k - 1]
               y == after[k]
    <3>1. x \in S /\ Counted(x, source) /\ y = Step(x) /\ y \in S /\ (x.ind = source \/ x.ind >= W(k - 1))
      <4> HIDE DEF Step
      <4>1. QED
        BY <1>4, <1>10, <2>2
    <3>2. x.ind \in 0 .. source /\ x.buffer_size = source
      BY <3>1 DEF Counted
    <3> HIDE DEF x, y
    <3>3. y.ind = source \/ y.ind >= W(k)
      <4>1. CASE hasEntropyLeft(x)
        <5>1. x.ind < source
          BY <3>2, <4>1 DEF hasEntropyLeft
        <5>2. y.ind = source \/ y.ind = x.ind + SeedSize
          BY <1>1, <3>1, <4>1, ReseedCounts
        <5>3. W(k) = W(k - 1) + SeedSize /\ W(k - 1) \in Nat /\ SeedSize \in Nat
          BY <1>2, DrbgAssumption
        <5>4. QED
          BY <1>1, <3>1, <3>2, <5>1, <5>2, <5>3
      <4>2. CASE ~hasEntropyLeft(x)
        <5>1. y = x /\ x.ind = source
          BY <1>1, <3>1, <3>2, <4>2 DEF hasEntropyLeft
        <5>2. QED
          BY <5>1
      <4>3. QED
        BY <4>1, <4>2
    <3>4. QED
      BY <1>2, <3>1, <3>3 DEF y
  <2> HIDE DEF T
  <2>3. QED
    BY <1>2, <2>1, <2>2, UpTo
<1>12. after[most] \in S /\ (after[most].ind = source \/ after[most].ind >= W(most))
  BY <1>2, <1>11
<1>13. Counted(after[most], source) /\ after[most].ind \in 0 .. source
  BY <1>4, <1>12 DEF Counted
<1>14. after[most].ind = source
  <2> DEFINE at == after[most].ind
             w == W(most)
  <2>1. at \in 0 .. source /\ (at = source \/ at >= w) /\ source < w /\ w \in Int
    BY <1>2, <1>12, <1>13
  <2> HIDE DEF at, w
  <2>2. at = source
    BY <1>1, <2>1
  <2>3. QED
    BY <2>2 DEF at
<1>15. QED
  BY <1>3, <1>13, <1>14

\* The first seed is what was read, filled up with the personalization string.
LEMMA FirstSeedCounts ==
    ASSUME NEW source \in Nat, NEW len \in 0 .. SeedSize, len <= source
    PROVE  LET seeds == <<[i \in 1 .. SeedSize |-> IF i \in 1 .. len THEN BytesFrom(0, len)[i] ELSE Personal]>>
           IN  seeds \in Seq(Seq(SeedByte)) /\ OnceUpTo(seeds, len)
<1> DEFINE bytes == BytesFrom(0, len)
           seed == [i \in 1 .. SeedSize |-> IF i \in 1 .. len THEN bytes[i] ELSE Personal]
           seeds == <<seed>>
<1>1. len \in Nat /\ SeedSize \in Nat
  BY DrbgAssumption
<1>2. Personal \in SeedByte /\ Personal.fresh = FALSE
  BY DEF Personal, SeedByte
<1>3. \A i \in 1 .. len : bytes[i] \in SeedByte /\ bytes[i].fresh = TRUE /\ bytes[i].place = i - 1
  <2>1. \A i \in 1 .. len : bytes[i] = [place |-> (0 + i) - 1, fresh |-> TRUE]
    BY DEF BytesFrom
  <2> SUFFICES ASSUME NEW i \in 1 .. len
               PROVE  bytes[i] \in SeedByte /\ bytes[i].fresh = TRUE /\ bytes[i].place = i - 1
    OBVIOUS
  <2> HIDE DEF bytes
  <2>2. bytes[i] = [place |-> i - 1, fresh |-> TRUE] /\ i - 1 \in Int
    BY <1>1, <2>1
  <2>3. QED
    BY <2>2 DEF SeedByte
<1> HIDE DEF bytes
<1>4. seed \in [1 .. SeedSize -> SeedByte]
  BY <1>2, <1>3
<1>5. \A i \in 1 .. len : i \in 1 .. SeedSize /\ seed[i] = bytes[i]
  BY <1>1
<1>6. \A i \in 1 .. SeedSize : i \notin 1 .. len => seed[i] = Personal
  OBVIOUS
<1> HIDE DEF seed
<1>7. seed \in Seq(SeedByte) /\ DOMAIN seed = 1 .. SeedSize
  BY <1>1, <1>4
<1>8. seeds \in Seq(Seq(SeedByte)) /\ DOMAIN seeds = {1} /\ seeds[1] = seed
  BY <1>7
<1> HIDE DEF seeds
<1>9. ASSUME NEW k, NEW i PROVE FreshAt(seeds, k, i) <=> k = 1 /\ i \in 1 .. len
  <2>1. CASE k = 1 /\ i \in 1 .. len
    BY <1>3, <1>5, <1>7, <1>8, <2>1 DEF FreshAt
  <2>2. CASE k = 1 /\ i \in 1 .. SeedSize /\ i \notin 1 .. len
    BY <1>2, <1>6, <1>8, <2>2 DEF FreshAt
  <2>3. CASE ~(k = 1 /\ i \in 1 .. SeedSize)
    BY <1>5, <1>7, <1>8, <2>3 DEF FreshAt
  <2>4. QED
    BY <2>1, <2>2, <2>3
<1>10. \A i \in 1 .. len : seeds[1][i].place = i - 1 /\ seeds[1][i].fresh = TRUE
  BY <1>3, <1>5, <1>8
<1>11. \A k \in DOMAIN seeds : \A i \in DOMAIN seeds[k] :
            seeds[k][i].fresh \/ (k = 1 /\ seeds[k][i] = Personal)
  <2> SUFFICES ASSUME NEW i \in 1 .. SeedSize
               PROVE  seeds[1][i].fresh \/ seeds[1][i] = Personal
    BY <1>7, <1>8
  <2>1. CASE i \in 1 .. len
    BY <1>10, <2>1
  <2>2. CASE i \notin 1 .. len
    BY <1>6, <1>8, <2>2
  <2>3. QED
    BY <2>1, <2>2
<1>12. ASSUME NEW k, NEW i, FreshAt(seeds, k, i) PROVE seeds[k][i].place \in 0 .. (len - 1)
  <2>1. k = 1 /\ i \in 1 .. len
    BY <1>9, <1>12
  <2>2. i - 1 \in 0 .. (len - 1)
    BY <1>1, <2>1
  <2>3. QED
    BY <1>10, <2>1, <2>2
<1>13. ASSUME NEW q \in 0 .. (len - 1)
       PROVE  \E k, i : FreshAt(seeds, k, i) /\ seeds[k][i].place = q
  <2>1. q + 1 \in 1 .. len /\ (q + 1) - 1 = q
    BY <1>1
  <2>2. QED
    BY <1>9, <1>10, <2>1
<1>14. ASSUME NEW k, NEW i, NEW l, NEW j, FreshAt(seeds, k, i), FreshAt(seeds, l, j),
              seeds[k][i].place = seeds[l][j].place
       PROVE  k = l /\ i = j
  <2>1. k = 1 /\ l = 1 /\ i \in 1 .. len /\ j \in 1 .. len
    BY <1>9, <1>14
  <2>2. i - 1 = j - 1
    BY <1>10, <1>14, <2>1
  <2>3. QED
    BY <2>1, <2>2
<1>15. OnceUpTo(seeds, len)
  BY <1>11, <1>12, <1>13, <1>14 DEF OnceUpTo
<1>16. QED
  BY <1>8, <1>15 DEF seeds, seed, bytes

\* Once everything that was read has been used, it stays so.
UsedUp(gen, source) == Counted(gen, source) /\ gen.ind = source

\* No generator that counts its calls to MaxCounter asks for another reseed.
LEMMA GenerateCounts ==
    ASSUME NEW source \in Nat, NEW gen, UsedUp(gen, source)
    PROVE  /\ ~CTR_DRBG_Generate(gen).required
           /\ UsedUp(CTR_DRBG_Generate(gen).gen, source)
<1> DEFINE c == gen.reseed_ctr
           next == IF c = MaxCounter THEN 0 ELSE c + 1
           mid == [gen EXCEPT !.updates = @ + 1]
           new == CTR_DRBG_Generate(gen).gen
<1>1. gen \in Generator /\ c \in 0 .. MaxCounter
  BY DEF UsedUp, Counted, Generator
<1>2. ~(c > RESEED_INTERVAL) /\ next \in 0 .. MaxCounter
  BY <1>1, DrbgAssumption
<1>3. /\ mid \in Generator /\ mid.reseed_ctr = c /\ mid.instantiated = gen.instantiated
      /\ mid.buffer_size = gen.buffer_size /\ mid.ind = gen.ind /\ mid.fresh = gen.fresh
      /\ mid.seeds = gen.seeds
  BY <1>1 DEF Generator
<1>4. /\ CTR_DRBG_Generate(gen).required = FALSE
      /\ new = [mid EXCEPT !.reseed_ctr = IF @ = MaxCounter THEN 0 ELSE @ + 1]
  BY <1>2 DEF CTR_DRBG_Generate, CTR_DRBG_Update
<1> HIDE DEF mid, new
<1>5. new = [mid EXCEPT !.reseed_ctr = next]
  BY <1>3, <1>4
<1> HIDE DEF next, c
<1>6. /\ new \in Generator /\ new.instantiated = gen.instantiated
      /\ new.buffer_size = gen.buffer_size /\ new.ind = gen.ind /\ new.fresh = gen.fresh
      /\ new.seeds = gen.seeds
  BY <1>2, <1>3, <1>5 DEF Generator
<1>7. UsedUp(new, source)
  BY <1>6 DEF UsedUp, Counted
<1>8. QED
  BY <1>4, <1>7 DEF new

LEMMA LaterCall ==
    ASSUME NEW source \in Nat, NEW gen, UsedUp(gen, source)
    PROVE  UsedUp(getRandomBytes(gen, source), source)
<1>1. getRandomBytes(gen, source) = CTR_DRBG_Generate(gen).gen
  <2>1. gen.instantiated /\ ~CTR_DRBG_Generate(gen).required
    BY GenerateCounts DEF UsedUp, Counted
  <2>2. QED
    BY <2>1 DEF getRandomBytes
<1>2. QED
  BY <1>1, GenerateCounts

LEMMA UpdateType ==
    ASSUME NEW gen \in Generator
    PROVE  LET new == CTR_DRBG_Update(gen)
           IN  /\ new \in Generator /\ new.instantiated = gen.instantiated
               /\ new.reseed_ctr = gen.reseed_ctr /\ new.seeds = gen.seeds /\ new.ind = gen.ind
               /\ new.buffer_size = gen.buffer_size /\ new.fresh = gen.fresh
<1> DEFINE new == [gen EXCEPT !.updates = @ + 1]
<1>1. gen.updates + 1 \in Nat
  BY DEF Generator
<1>2. new \in Generator
  BY <1>1 DEF Generator
<1>3. new.instantiated = gen.instantiated
  BY DEF Generator
<1>4. new.reseed_ctr = gen.reseed_ctr
  BY DEF Generator
<1>5. new.ind = gen.ind /\ new.buffer_size = gen.buffer_size
  BY DEF Generator
<1>6. new.seeds = gen.seeds
  BY DEF Generator
<1>7. new.fresh = gen.fresh
  BY DEF Generator
<1>8. QED
  BY <1>2, <1>3, <1>4, <1>5, <1>6, <1>7 DEF CTR_DRBG_Update

LEMMA FirstCall ==
    ASSUME NEW source \in 0 .. EntropySize
    PROVE  UsedUp(getRandomBytes(InitialGenerator, source), source)
<1> DEFINE len == NextLength(source)
           s == getSeed(InitialGenerator, SeedSize, source)
           filled == Refilled(InitialGenerator, source)
           copied == 0 .. (len - 1)
           seed == [i \in 1 .. SeedSize |-> IF i \in 1 .. len THEN BytesFrom(0, len)[i] ELSE Personal]
           start == CTR_DRBG_Instantiate(s.gen, [i \in 1 .. SeedSize |->
                        IF i \in DOMAIN s.bytes THEN s.bytes[i] ELSE Personal])
<1>1. source \in Nat /\ EntropySize \in Nat
  BY DrbgAssumption
<1>2. len \in 0 .. SeedSize /\ len \in Nat /\ len <= source /\ (source = 0 => len = 0) /\ source - len \in Nat
  BY <1>1, DrbgAssumption DEF NextLength
<1>3. InitialGenerator \in Generator /\ ~hasEntropyLeft(InitialGenerator)
  BY <1>1, DrbgAssumption DEF InitialGenerator, Generator, hasEntropyLeft
<1>4. /\ filled \in Generator /\ filled.ind = 0 /\ filled.buffer_size = source
      /\ filled.fresh = 0 .. (source - 1) /\ filled.updates = 0 /\ filled.seeds = <<>>
  <2>1. source # Unopened
    BY DEF Unopened
  <2>2. filled = [InitialGenerator EXCEPT !.ind = 0, !.buffer_size = source, !.fresh = 0 .. (source - 1)]
    BY <2>1 DEF Refilled
  <2>3. InitialGenerator.updates = 0 /\ InitialGenerator.seeds = <<>>
    BY DEF InitialGenerator
  <2>4. 0 .. (source - 1) \in SUBSET Nat
    OBVIOUS
  <2> HIDE DEF filled
  <2>5. QED
    BY <1>1, <1>3, <2>2, <2>3, <2>4 DEF Generator
<1>5. /\ s.gen = [filled EXCEPT !.ind = @ + len, !.fresh = @ \ copied]
      /\ s.bytes = [i \in 1 .. len |-> [place |-> 0 + i - 1, fresh |-> (0 + i - 1) \in filled.fresh]]
  <2> DEFINE failed == ~hasEntropyLeft(InitialGenerator) /\ source \in {Unopened, 0}
             left == filled.buffer_size - filled.ind
             size == IF failed THEN 0 ELSE IF left < SeedSize THEN left ELSE SeedSize
             taken == filled.ind .. (filled.ind + size - 1)
  <2>1. /\ s.gen = [filled EXCEPT !.ind = @ + size, !.fresh = @ \ taken]
        /\ s.bytes = [i \in 1 .. size |-> [place |-> filled.ind + i - 1,
                                           fresh |-> (filled.ind + i - 1) \in filled.fresh]]
    BY <1>3 DEF getSeed
  <2>2. failed <=> source = 0
    BY <1>1, <1>3 DEF Unopened
  <2>3. left = source /\ filled.ind = 0
    BY <1>1, <1>4
  <2> HIDE DEF filled, failed, left, s
  <2>4. size = len
    BY <1>2, <2>2, <2>3 DEF NextLength
  <2>5. taken = copied
    BY <1>2, <2>3, <2>4
  <2> HIDE DEF size, taken, copied, len
  <2>6. QED
    BY <2>1, <2>3, <2>4, <2>5
<1> HIDE DEF s, filled, len
<1>6. s.bytes = BytesFrom(0, len)
  <2>1. \A i \in 1 .. len : ((0 + i - 1) \in filled.fresh) = TRUE
    BY <1>1, <1>2, <1>4
  <2>2. QED
    BY <1>5, <2>1 DEF BytesFrom
<1>7. DOMAIN s.bytes = 1 .. len
  BY <1>6 DEF BytesFrom
<1>8. start = [[s.gen EXCEPT !.updates = @ + 1] EXCEPT !.seeds = <<seed>>, !.reseed_ctr = 1, !.instantiated = TRUE]
  BY <1>6, <1>7 DEF CTR_DRBG_Instantiate, CTR_DRBG_Update
<1>9. <<seed>> \in Seq(Seq(SeedByte)) /\ OnceUpTo(<<seed>>, len)
  BY <1>1, <1>2, FirstSeedCounts
<1>10. getRandomBytes(InitialGenerator, source)
        = IF CTR_DRBG_Generate(ReseedWhileLeft(start, source)).required
          THEN CTR_DRBG_Generate(ReseedWhileLeft(ReseedOnce(ReseedWhileLeft(start, source), source), source)).gen
          ELSE CTR_DRBG_Generate(ReseedWhileLeft(start, source)).gen
  <2>1. InitialGenerator.instantiated = FALSE
    BY DEF InitialGenerator
  <2>2. QED
    BY <2>1 DEF getRandomBytes, s
<1> HIDE DEF start, seed
<1>11. /\ s.gen \in Generator /\ s.gen.ind = len /\ s.gen.buffer_size = source
       /\ s.gen.fresh = len .. (source - 1) /\ s.gen.updates = 0
  <2>1. filled.fresh \ copied = len .. (source - 1) /\ len .. (source - 1) \in SUBSET Nat
    BY <1>1, <1>2, <1>4
  <2> HIDE DEF copied
  <2>2. s.gen = [filled EXCEPT !.ind = len, !.fresh = len .. (source - 1)]
    <3>1. filled.ind + len = len
      BY <1>2, <1>4
    <3>2. s.gen = [filled EXCEPT !.ind = filled.ind + len, !.fresh = filled.fresh \ copied]
      BY <1>4, <1>5 DEF Generator
    <3>3. QED
      BY <2>1, <3>1, <3>2
  <2>3. QED
    BY <1>2, <1>4, <2>1, <2>2 DEF Generator
<1> DEFINE mid == [s.gen EXCEPT !.updates = @ + 1]
<1>12. /\ mid \in Generator /\ mid.ind = len /\ mid.buffer_size = source
       /\ mid.fresh = len .. (source - 1)
  <2> DEFINE gen == s.gen
  <2>1. /\ gen \in Generator /\ gen.ind = len /\ gen.buffer_size = source
        /\ gen.fresh = len .. (source - 1) /\ mid = [gen EXCEPT !.updates = @ + 1]
    BY <1>11
  <2> HIDE DEF gen, mid
  <2>2. mid = CTR_DRBG_Update(gen)
    BY <2>1 DEF CTR_DRBG_Update
  <2>3. QED
    BY <2>1, <2>2, UpdateType
<1>13. start = [mid EXCEPT !.seeds = <<seed>>, !.reseed_ctr = 1, !.instantiated = TRUE]
  BY <1>8
<1> DEFINE seeds == <<seed>>
<1> HIDE DEF mid, seeds
<1>14. start = [mid EXCEPT !.seeds = seeds, !.reseed_ctr = 1, !.instantiated = TRUE]
       /\ seeds \in Seq(Seq(SeedByte)) /\ OnceUpTo(seeds, len) /\ 1 \in 0 .. MaxCounter
  BY <1>9, <1>13, DrbgAssumption DEF seeds
<1>15. /\ start \in Generator /\ start.instantiated /\ start.ind = len /\ start.buffer_size = source
       /\ start.fresh = len .. (source - 1) /\ start.seeds = seeds
  BY <1>12, <1>14 DEF Generator
<1>16. Counted(start, source)
  BY <1>1, <1>2, <1>14, <1>15 DEF Counted
<1>17. UsedUp(ReseedWhileLeft(start, source), source)
  BY <1>16, ReseedsAll DEF UsedUp
<1>18. QED
  BY <1>1, <1>10, <1>17, GenerateCounts

\* After any number of calls, everything that was read has been used.
LEMMA CallsCount ==
    ASSUME NEW source \in 0 .. EntropySize, NEW calls \in Nat \ {0}
    PROVE  LET after == CHOOSE f : f = [k \in 0 .. calls |->
                            IF k = 0 THEN InitialGenerator ELSE getRandomBytes(f[k - 1], source)]
           IN  UsedUp(after[calls], source)
<1> DEFINE S == {x \in Generator : UsedUp(x, source)} \cup {InitialGenerator}
           Step(x) == getRandomBytes(x, source)
           G == [k \in 1 .. calls |-> [x \in S |-> Step(x)]]
           F(f) == [k \in 0 .. calls |-> IF k = 0 THEN InitialGenerator ELSE Step(f[k - 1])]
           after == CHOOSE f : f = F(f)
<1>1. /\ calls \in 0 .. calls /\ 0 \in 0 .. calls /\ source \in Nat
      /\ \A k \in 1 .. calls : k \in 0 .. calls /\ k - 1 \in 0 .. calls /\ k # 0 /\ k \in Nat
  BY DrbgAssumption
<1>2. \A x \in S : UsedUp(Step(x), source) /\ Step(x) \in S
  <2>1. \A x : UsedUp(x, source) => x \in Generator
    BY DEF UsedUp, Counted
  <2>2. QED
    BY <1>1, <2>1, FirstCall, LaterCall
<1>3. InitialGenerator \in S
  OBVIOUS
<1> HIDE DEF S, Step
<1>4. G \in [1 .. calls -> [S -> S]]
  BY <1>2
<1>5. PICK h \in [0 .. calls -> S] : Iterates(h, calls, InitialGenerator, G)
  <2> HIDE DEF G
  <2>1. QED
    BY <1>1, <1>3, <1>4, Recursion
<1>6. h = F(h)
  <2>1. \A k \in 1 .. calls : h[k] = Step(h[k - 1])
    <3> SUFFICES ASSUME NEW k \in 1 .. calls PROVE h[k] = Step(h[k - 1])
      OBVIOUS
    <3>1. h[k - 1] \in S /\ h[k] = G[k][h[k - 1]]
      BY <1>1, <1>5 DEF Iterates
    <3>2. QED
      BY <3>1
  <2>2. QED
    BY <1>1, <1>5, <2>1 DEF Iterates
<1> HIDE DEF G
<1>7. after = F(after)
  <2> HIDE DEF F
  <2>1. QED
    BY <1>6
<1> HIDE DEF after
<1>8. after[0] = InitialGenerator /\ \A k \in 1 .. calls : after[k] = Step(after[k - 1])
  BY <1>1, <1>7
<1> DEFINE T == {k \in 0 .. calls : after[k] \in S /\ (k # 0 => UsedUp(after[k], source))}
<1>9. \A k \in 0 .. calls : k \in T
  <2>1. 0 \in T
    BY <1>1, <1>3, <1>8
  <2>2. \A k \in 1 .. calls : k - 1 \in T => k \in T
    BY <1>1, <1>2, <1>8
  <2> HIDE DEF T
  <2>3. QED
    BY <2>1, <2>2, UpTo
<1>10. UsedUp(after[calls], source)
  BY <1>1, <1>9
<1>11. QED
  BY <1>10 DEF after, F, Step

\* The used bytes of a list of seeds, as EntropyUsedOnce lists them.
LEMMA UsedBytes ==
    ASSUME NEW seeds, NEW end \in Nat, OnceUpTo(seeds, end)
    PROVE  LET used == UNION {{k} \X {i \in DOMAIN seeds[k] : seeds[k][i].fresh} : k \in DOMAIN seeds}
           IN  /\ {seeds[u[1]][u[2]].place : u \in used} = 0 .. (end - 1)
               /\ Cardinality(used) = end
<1> DEFINE used == UNION {{k} \X {i \in DOMAIN seeds[k] : seeds[k][i].fresh} : k \in DOMAIN seeds}
           PlaceOf(u) == seeds[u[1]][u[2]].place
           B == [u \in used |-> PlaceOf(u)]
           T == 0 .. (end - 1)
<1>1. \A u \in used : u = <<u[1], u[2]>> /\ FreshAt(seeds, u[1], u[2])
  BY DEF FreshAt
<1>2. \A k, i : FreshAt(seeds, k, i) => <<k, i>> \in used
  BY DEF FreshAt
<1> HIDE DEF used
<1>3. \A u \in used : PlaceOf(u) \in T
  BY <1>1 DEF OnceUpTo
<1>4. ASSUME NEW q \in T PROVE \E u \in used : PlaceOf(u) = q
  <2>1. PICK k, i : FreshAt(seeds, k, i) /\ seeds[k][i].place = q
    BY <1>4 DEF OnceUpTo
  <2>2. <<k, i>> \in used /\ PlaceOf(<<k, i>>) = q
    BY <1>2, <2>1
  <2>3. QED
    BY <2>2
<1>5. \A u \in used : \A w \in used : PlaceOf(u) = PlaceOf(w) => u = w
  <2> SUFFICES ASSUME NEW u \in used, NEW w \in used, PlaceOf(u) = PlaceOf(w) PROVE u = w
    OBVIOUS
  <2>1. FreshAt(seeds, u[1], u[2]) /\ FreshAt(seeds, w[1], w[2])
    BY <1>1
  <2>2. u[1] = w[1] /\ u[2] = w[2]
    BY <2>1 DEF OnceUpTo
  <2>3. u = <<u[1], u[2]>> /\ w = <<w[1], w[2]>>
    BY <1>1
  <2>4. QED
    BY <2>2, <2>3
<1> HIDE DEF PlaceOf
<1>6. {PlaceOf(u) : u \in used} = T
  BY <1>3, <1>4
<1>7. B \in Bijection(used, T)
  <2>1. B \in [used -> T]
    BY <1>3
  <2>2. B \in Injection(used, T)
    BY <1>5, <2>1 DEF Injection, IsInjective
  <2>3. B \in Surjection(used, T)
    BY <1>4, <2>1 DEF Surjection
  <2>4. QED
    BY <2>2, <2>3 DEF Bijection
<1> HIDE DEF T
<1>8. ExistsBijection(used, T)
  BY <1>7 DEF ExistsBijection
<1>9. ExistsBijection(T, used)
  BY <1>8, Fun_ExistsBijSymmetric
<1>10. IsFiniteSet(T) /\ Cardinality(T) = end
  <2>1. 0 \in Int /\ end - 1 \in Int
    OBVIOUS
  <2>2. IsFiniteSet(0 .. (end - 1)) /\ Cardinality(0 .. (end - 1)) = IF 0 > end - 1 THEN 0 ELSE (end - 1) - 0 + 1
    BY <2>1, FS_Interval
  <2>3. QED
    BY <2>2 DEF T
<1>11. Cardinality(used) = end
  BY <1>9, <1>10, FS_Bijection
<1>12. QED
  BY <1>6, <1>11 DEF used, PlaceOf, T

-----------------------------------------------------------------------------
(* The inputs that the runs enumerate, for the kinds the theorems are      *)
(* about, and what the code's algorithms make of them.                     *)

Has(f) == f \in DOMAIN input

InputsAre ==
    /\ Has("kind")
    /\ input.kind = "seqnb" =>
        /\ Has("expected") /\ input.expected \in LiveSeqNbs
        /\ Has("ready") => Has("ahead") /\ input.ahead \in 0 .. (MaxSeqNb - 1)
    /\ input.kind = "numbers" =>
        /\ Has("modulus") /\ input.modulus \in {CurveP, CurveN}
        /\ Has("x") /\ input.x \in Numbers
        /\ Has("ready") => /\ input.x < input.modulus
                           /\ Has("y") /\ input.y \in 0 .. (input.modulus - 1)
    /\ input.kind = "random" =>
        /\ Has("source") /\ input.source \in 0 .. EntropySize
        /\ Has("ready") => Has("calls") /\ input.calls \in Nat \ {0}

LEMMA Extended ==
    ASSUME NEW more, Extend(more)
    PROVE  /\ DOMAIN input' = DOMAIN input \cup DOMAIN more
           /\ \A f \in DOMAIN more : input'[f] = more[f]
           /\ \A f \in DOMAIN input : f \notin DOMAIN more => input'[f] = input[f]
BY DEF Extend

LEMMA InputsInit == Init => InputsAre
<1> SUFFICES ASSUME Init PROVE InputsAre
  OBVIOUS
<1>1. CASE input \in [kind : {"seqnb"}, expected : LiveSeqNbs]
  BY <1>1 DEF InputsAre, Has
<1>2. CASE input \in [kind : {"numbers"}, modulus : {CurveP, CurveN}, x : Numbers]
  BY <1>2 DEF InputsAre, Has
<1>3. CASE \/ input \in [kind : {"points"}, m1 : 0 .. (CurveN - 1)]
           \/ input \in [kind : {"secret"}, s1 : Few]
           \/ input \in [kind : {"signature"}, d : Few, k : Few]
           \/ input \in [kind : {"bytes"}, value : AnyByte]
           \/ input \in [kind : {"message"}, adLen : {32, 36, 96}, len : {0, 16, 20}]
           \/ input \in [kind : {"hash"}, len : {0, 7, 8, 135, 136, 137}]
  BY <1>3 DEF InputsAre, Has
<1>4. CASE input \in [kind : {"random"}, source : 0 .. EntropySize]
  BY <1>4 DEF InputsAre, Has
<1>5. QED
  BY <1>1, <1>2, <1>3, <1>4 DEF Init

LEMMA InputsNext == InputsAre /\ [Next]_input => InputsAre'
<1> SUFFICES ASSUME InputsAre, [Next]_input PROVE InputsAre'
  OBVIOUS
<1>1. CASE Distance
  <2>1. PICK d \in 0 .. (MaxSeqNb - 1) : Extend([ready |-> TRUE, ahead |-> d])
    BY <1>1 DEF Distance
  <2>2. /\ DOMAIN input' = DOMAIN input \cup {"ready", "ahead"}
        /\ input'["ahead"] = d
        /\ \A f \in DOMAIN input : f # "ready" /\ f # "ahead" => input'[f] = input[f]
    <3> DEFINE more == [ready |-> TRUE, ahead |-> d]
    <3>1. DOMAIN more = {"ready", "ahead"} /\ more["ahead"] = d
      OBVIOUS
    <3>2. Extend(more)
      BY <2>1
    <3> HIDE DEF more
    <3>3. QED
      BY <3>1, <3>2, Extended
  <2>3. input.kind = "seqnb"
    BY <1>1 DEF Distance, Unfinished
  <2>4. QED
    BY <2>2, <2>3 DEF InputsAre, Has
<1>2. CASE SecondNumber
  <2>1. PICK y \in 0 .. (input.modulus - 1) : Extend([ready |-> TRUE, y |-> y])
    BY <1>2 DEF SecondNumber
  <2>2. /\ DOMAIN input' = DOMAIN input \cup {"ready", "y"}
        /\ input'["y"] = y
        /\ \A f \in DOMAIN input : f # "ready" /\ f # "y" => input'[f] = input[f]
    <3> DEFINE more == [ready |-> TRUE, y |-> y]
    <3>1. DOMAIN more = {"ready", "y"} /\ more["y"] = y
      OBVIOUS
    <3>2. Extend(more)
      BY <2>1
    <3> HIDE DEF more
    <3>3. QED
      BY <3>1, <3>2, Extended
  <2>3. input.kind = "numbers" /\ input.x < input.modulus
    BY <1>2 DEF SecondNumber, Unfinished
  <2>4. QED
    BY <2>2, <2>3 DEF InputsAre, Has
<1>3. CASE SecondPoint \/ OtherSecret \/ Digest \/ Places \/ Transmit \/ Cut
  <2>1. input.kind # "seqnb" /\ input.kind # "numbers" /\ input.kind # "random"
    BY <1>3 DEF SecondPoint, OtherSecret, Digest, Places, Transmit, Cut, Unfinished
  <2>2. \E more : Extend(more) /\ "kind" \notin DOMAIN more
    <3>1. CASE SecondPoint
      BY <3>1 DEF SecondPoint
    <3>2. CASE OtherSecret
      BY <3>2 DEF OtherSecret
    <3>3. CASE Digest
      BY <3>3 DEF Digest
    <3>4. CASE Places
      BY <3>4 DEF Places
    <3>5. CASE Transmit
      BY <3>5 DEF Transmit
    <3>6. CASE Cut
      BY <3>6 DEF Cut
    <3>7. QED
      BY <1>3, <3>1, <3>2, <3>3, <3>4, <3>5, <3>6
  <2>3. Has("kind")' /\ input'["kind"] = input["kind"]
    BY <2>2, Extended DEF InputsAre, Has
  <2>4. QED
    BY <2>1, <2>3 DEF InputsAre
<1>4. CASE Calls
  <2>1. PICK c \in {1, MaxCounter + 2} : Extend([ready |-> TRUE, calls |-> c])
    BY <1>4 DEF Calls
  <2>2. /\ DOMAIN input' = DOMAIN input \cup {"ready", "calls"}
        /\ input'["calls"] = c
        /\ \A f \in DOMAIN input : f # "ready" /\ f # "calls" => input'[f] = input[f]
    <3> DEFINE more == [ready |-> TRUE, calls |-> c]
    <3>1. DOMAIN more = {"ready", "calls"} /\ more["calls"] = c
      OBVIOUS
    <3>2. Extend(more)
      BY <2>1
    <3> HIDE DEF more
    <3>3. QED
      BY <3>1, <3>2, Extended
  <2>3. input.kind = "random" /\ c \in Nat \ {0}
    BY <1>4, DrbgAssumption DEF Calls, Unfinished
  <2>4. QED
    BY <2>2, <2>3 DEF InputsAre, Has
<1>5. CASE UNCHANGED input
  BY <1>5 DEF InputsAre, Has
<1>6. QED
  BY <1>1, <1>2, <1>3, <1>4, <1>5 DEF Next

\* Numbers taken one by one are the number computed in one addition.
LEMMA TakenIsAddMult ==
    ASSUME NEW e \in LiveSeqNbs, NEW ahead \in 0 .. (MaxSeqNb - 1)
    PROVE  Taken(e, ahead) = addMultSeqNb(e, ahead)
<1> DEFINE F(f) == [k \in 0 .. ahead |-> IF k = 0 THEN e ELSE addOneSeqNb(f[k - 1])]
           h == [k \in 0 .. ahead |-> addMultSeqNb(e, k)]
           after == CHOOSE f : f = F(f)
<1>1. /\ ahead \in Nat /\ ahead \in 0 .. ahead /\ 0 \in 0 .. ahead /\ ahead \in SeqNbs
      /\ \A k \in 0 .. ahead : k \in Nat /\ k \in SeqNbs
      /\ \A k \in 1 .. ahead : k - 1 \in 0 .. ahead /\ k - 1 \in Nat /\ (k - 1) + 1 = k /\ k \in 0 .. ahead
                               /\ k # 0 /\ (k - 1) + 1 <= MaxSeqNb
  BY SeqNbAssumption DEF SeqNbs
<1>2. addMultSeqNb(e, 0) = e
  BY SeqNbAssumption DEF addMultSeqNb, Plus, LiveSeqNbs
<1>3. \A k \in 1 .. ahead : addMultSeqNb(e, k) = addOneSeqNb(addMultSeqNb(e, k - 1))
  <2> SUFFICES ASSUME NEW k \in 1 .. ahead
               PROVE  addMultSeqNb(e, k) = addOneSeqNb(addMultSeqNb(e, k - 1))
    OBVIOUS
  <2>1. addMultSeqNb(e, k - 1) \in LiveSeqNbs
    BY <1>1, AddMultIsLive
  <2>2. addMultSeqNb(e, k - 1) \in SeqNbs
    BY <2>1 DEF LiveSeqNbs, SeqNbs
  <2>3. addMultSeqNb(addMultSeqNb(e, k - 1), 1) = addMultSeqNb(e, (k - 1) + 1)
    BY <1>1, AddMultComposes
  <2>4. QED
    BY <1>1, <2>2, <2>3, AddOneIsAddMult
<1>4. h = F(h)
  BY <1>1, <1>2, <1>3
<1> HIDE DEF h
<1>5. after = F(after)
  BY <1>4
<1>6. Taken(e, ahead) = after[ahead]
  BY DEF Taken
<1>7. after[0] = e /\ \A k \in 1 .. ahead : after[k] = addOneSeqNb(after[k - 1])
  <2> HIDE DEF after
  <2>1. QED
    BY <1>1, <1>5
<1> HIDE DEF after
<1> DEFINE T == {k \in 0 .. ahead : after[k] = addMultSeqNb(e, k)}
<1>8. \A k \in 0 .. ahead : k \in T
  <2>1. 0 \in T
    BY <1>1, <1>2, <1>7
  <2>2. \A k \in 1 .. ahead : k - 1 \in T => k \in T
    BY <1>1, <1>3, <1>7
  <2> HIDE DEF T
  <2>3. QED
    BY <1>1, <2>1, <2>2, UpTo
<1>9. QED
  BY <1>1, <1>6, <1>8

LEMMA AgreeForInputs == InputsAre => SequenceNumbersAgree
<1> SUFFICES ASSUME InputsAre, Ready("seqnb") PROVE SequenceNumbersAgree
  BY DEF SequenceNumbersAgree
<1> DEFINE e == input.expected
           ahead == input.ahead
           number == Taken(e, ahead)
<1>1. e \in LiveSeqNbs /\ ahead \in 0 .. (MaxSeqNb - 1)
  BY DEF InputsAre, Ready, Has
<1> HIDE DEF e, ahead
<1>2. ahead \in SeqNbs
  BY <1>1, SeqNbAssumption DEF SeqNbs
<1>3. number = addMultSeqNb(e, ahead)
  BY <1>1, TakenIsAddMult
<1>4. number \in LiveSeqNbs
  BY <1>1, <1>2, <1>3, AddMultIsLive
<1>5. diffSeqNb(e, number) = ahead
  BY <1>1, <1>3, DiffOfAddMult
<1> HIDE DEF number
<1>6. InFeedWindow(e, number) <=> ahead < MAX_MISSED_SEQNBS
  BY <1>1, <1>4, <1>5, FeedWindowIsDistance
<1>7. QED
  BY <1>3, <1>5, <1>6 DEF SequenceNumbersAgree, e, ahead, number

LEMMA ModularForInputs == InputsAre => ArithmeticIsModular
<1> SUFFICES ASSUME InputsAre, Ready("numbers") PROVE ArithmeticIsModular
  BY DEF ArithmeticIsModular
<1> DEFINE x == input.x
           y == input.y
           M == input.modulus
           u == FromValue(x)
           v == FromValue(y)
           m == FromValue(M)
<1>1. M \in {CurveP, CurveN} /\ x \in 0 .. (R - 1) /\ x < M /\ y \in 0 .. (M - 1)
  BY DEF InputsAre, Ready, Has, Numbers
<1> HIDE DEF x, y, M
<1>2. M \in 3 .. (R - 1) /\ M % 2 = 1
  BY <1>1, CurveAssumption DEF R
<1>3. x \in 0 .. (R - 1) /\ y \in 0 .. (R - 1) /\ M \in 0 .. (R - 1) /\ x < M /\ y < M
  BY <1>1, <1>2, RFacts
<1>4. /\ u \in Words /\ v \in Words /\ m \in Words
      /\ Value(u) = x /\ Value(v) = y /\ Value(m) = M
  BY <1>3, ValueOfFromValue
<1> HIDE DEF u, v, m
<1>5. Value(mod_add(u, v, m)) = (x + y) % M
  BY <1>3, <1>4, ModAdd
<1>6. Value(mod_sub(u, v, m)) = (x - y) % M
  BY <1>3, <1>4, ModSub
<1> DEFINE product == Value(montMul(u, v, m, Prime(M)))
<1>7. product < M /\ (product * R) % M = (x * y) % M
  BY <1>2, <1>3, <1>4, MontMul
<1> HIDE DEF product
<1>8. QED
  BY <1>5, <1>6, <1>7 DEF ArithmeticIsModular, product, u, v, m, x, y, M

LEMMA InversesForInputs == InputsAre => InversesInvert
<1> SUFFICES ASSUME InputsAre, input.kind = "numbers", input.x \in 1 .. (input.modulus - 1)
             PROVE  InversesInvert
  BY DEF InversesInvert
<1> DEFINE x == input.x
           M == input.modulus
           a == FromValue(x)
           m == FromValue(M)
<1>1. M \in {CurveP, CurveN} /\ x \in 0 .. (R - 1) /\ x \in 1 .. (M - 1)
  BY DEF InputsAre, Numbers
<1> HIDE DEF x, M
<1>2. M \in 3 .. (R - 1) /\ M % 2 = 1 /\ R \in Nat
  BY <1>1, CurveAssumption, RFacts DEF R
<1>3. M \in 0 .. (R - 1) /\ M > 1 /\ x # 0 /\ x < M
  BY <1>1, <1>2
<1>4. a \in Words /\ m \in Words /\ Value(a) = x /\ Value(m) = M
  BY <1>1, <1>3, ValueOfFromValue
<1>5. Coprime(M, x)
  BY <1>1, PrimeCoprime
<1> HIDE DEF a, m
<1>6. (Value(mod_inv(a, m)) * x) % M = 1
  BY <1>2, <1>3, <1>4, <1>5, ModInv
<1>7. QED
  BY <1>6 DEF InversesInvert, a, m, x, M

\* The top word of a number is its quotient by the weight of that word.
LEMMA TopWord ==
    ASSUME NEW v \in 0 .. (R - 1)
    PROVE  FromValue(v)[SIZE - 1] = v \div Weight[SIZE - 1]
<1> DEFINE a == FromValue(v)
           top == SIZE - 1
<1>1. /\ top \in Index /\ top \in 0 .. Top /\ SIZE \in 1 .. Top /\ top \in 0 .. SIZE
      /\ SIZE - 1 \in 0 .. SIZE
  BY TopFacts DEF Index
<1>2. a \in Words /\ Value(a) = v
  BY ValueOfFromValue
<1> HIDE DEF a
<1>3. Digits(a, SIZE) /\ Digits(a, top) /\ a[top] \in Word
  BY <1>1, <1>2, WordsAreDigits DEF Words, Word
<1>4. v = Part(a, top) + a[top] * Weight[top]
  BY <1>1, <1>2, <1>3, PartStep, ValueIsPart
<1>5. Part(a, top) \in 0 .. (Weight[top] - 1) /\ Weight[top] \in Nat \ {0}
  BY <1>1, <1>3, PartBound, Weights
<1>6. a[top] \in Int /\ v \in Int
  BY <1>3, BaseFacts, RFacts DEF Word
<1> HIDE DEF top
<1>7. v = a[top] * Weight[top] + Part(a, top)
  BY <1>4, <1>5, <1>6
<1>8. v \div Weight[top] = a[top]
  BY <1>5, <1>6, <1>7, Remainder
<1>9. QED
  BY <1>8 DEF a, top

\* Only the top word decides: a word of b's that is not above n's can only be
\* reached with the top word between them, and there is no room there.
LEMMA RangeByTopWord ==
    ASSUME NEW number \in Words
    PROVE  ECInValidRange(number) <=> number # zero /\ number[SIZE - 1] < n[SIZE - 1]
<1> DEFINE top == SIZE - 1
<1>1. /\ top \in Index
      /\ \A i \in Index : i # top => top \in (i + 1) .. (SIZE - 1)
      /\ \A j \in (top + 1) .. (SIZE - 1) : FALSE
  BY TopFacts DEF Index
<1>2. n \in Words /\ b \in Words
  <2>1. CurveN \in Nat /\ CurveB \in Nat
    BY CurveAssumption, RFacts DEF R
  <2>2. QED
    BY <2>1, FromValueType DEF n, b
<1>3. b[top] < n[top]
  <2>1. CurveN \in 0 .. (R - 1) /\ CurveB \in 0 .. (R - 1)
    BY CurveAssumption, RFacts DEF R
  <2>2. QED
    BY <2>1, CurveAssumption, TopWord DEF n, b
<1>4. number[top] \in Int /\ n[top] \in Int /\ b[top] \in Int
  BY <1>1, <1>2, BaseFacts DEF Words
<1> HIDE DEF top
<1>5. ASSUME ECInValidRange(number) PROVE number # zero /\ number[top] < n[top]
  <2>1. PICK i \in Index : /\ number[i] < n[i]
                           /\ \A j \in (i + 1) .. (SIZE - 1) : number[j] >= n[j] /\ number[j] <= b[j]
    BY <1>5 DEF ECInValidRange
  <2>2. i = top
    <3>1. SUFFICES ASSUME i # top PROVE FALSE
      OBVIOUS
    <3>2. number[top] >= n[top] /\ number[top] <= b[top]
      BY <1>1, <2>1, <3>1
    <3>3. QED
      BY <1>3, <1>4, <3>2
  <2>3. QED
    BY <1>5, <2>1, <2>2 DEF ECInValidRange
<1>6. ASSUME number # zero, number[top] < n[top] PROVE ECInValidRange(number)
  BY <1>1, <1>6 DEF ECInValidRange
<1>7. QED
  BY <1>5, <1>6 DEF top

LEMMA ScalarsForInputs == InputsAre => ScalarsInRange
<1> SUFFICES ASSUME InputsAre, input.kind = "numbers" PROVE ScalarsInRange
  BY DEF ScalarsInRange
<1> DEFINE x == input.x
           number == FromValue(x)
           top == SIZE - 1
<1>1. x \in 0 .. (R - 1)
  BY DEF InputsAre, Numbers
<1> HIDE DEF x
<1>2. number \in Words /\ Value(number) = x
  BY <1>1, ValueOfFromValue
<1> HIDE DEF number
<1>3. CurveN \in 0 .. (R - 1) /\ CurveN \in Nat /\ x \in Nat /\ R \in Nat
  BY <1>1, CurveAssumption, RFacts DEF R
<1>4. n \in Words /\ Value(n) = CurveN
  BY <1>3, ValueOfFromValue DEF n
<1>5. zero \in Words /\ Value(zero) = 0
  BY ZeroWords
<1>6. ECInValidRange(number) <=> number # zero /\ number[top] < n[top]
  BY <1>2, RangeByTopWord
<1>7. number # zero <=> x # 0
  BY <1>2, <1>5, CompareCompares
<1>8. number[top] < n[top] => x < CurveN
  <2>1. top \in Index /\ \A j \in (top + 1) .. (SIZE - 1) : number[j] = n[j]
    BY TopFacts DEF Index
  <2> HIDE DEF top
  <2>2. QED
    BY <1>2, <1>4, <2>1, TopWordDecides
<1>9. /\ ECInValidRange(number) => x \in 1 .. (CurveN - 1)
      /\ x \in 1 .. (CurveN - 1) /\ number[top] < n[top] => ECInValidRange(number)
  BY <1>1, <1>3, <1>6, <1>7, <1>8
<1>10. QED
  BY <1>9 DEF ScalarsInRange, number, x, top

LEMMA EntropyForInputs == InputsAre => EntropyUsedOnce
<1>0. ~Ready("random") => EntropyUsedOnce
  BY Zenon DEF EntropyUsedOnce
<1> SUFFICES ASSUME InputsAre, Ready("random") PROVE EntropyUsedOnce
  BY <1>0
<1> DEFINE source == input.source
           calls == input.calls
           after == CHOOSE f : f = [k \in 0 .. calls |->
                        IF k = 0 THEN InitialGenerator ELSE getRandomBytes(f[k - 1], source)]
           gen == after[calls]
           Fresh(seed) == {i \in DOMAIN seed : seed[i].fresh}
           used == UNION {{k} \X Fresh(gen.seeds[k]) : k \in DOMAIN gen.seeds}
<1>1. source \in 0 .. EntropySize /\ calls \in Nat \ {0}
  BY DEF InputsAre, Ready, Has
<1>2. EntropyUsedOnce <=>
        /\ \A k \in DOMAIN gen.seeds : \A i \in DOMAIN gen.seeds[k] :
                gen.seeds[k][i].fresh \/ (k = 1 /\ gen.seeds[k][i] = Personal)
        /\ {gen.seeds[u[1]][u[2]].place : u \in used} = 0 .. (source - 1)
        /\ Cardinality(used) = source
        /\ gen.fresh = {}
  BY DEF EntropyUsedOnce
<1> HIDE DEF source, calls
<1>3. UsedUp(gen, source)
  BY <1>1, CallsCount
<1> HIDE DEF gen
<1>4. source \in Nat /\ OnceUpTo(gen.seeds, source) /\ gen.fresh = source .. (source - 1)
  BY <1>1, <1>3, DrbgAssumption DEF UsedUp, Counted
<1>5. /\ {gen.seeds[u[1]][u[2]].place : u \in used} = 0 .. (source - 1)
      /\ Cardinality(used) = source
  BY <1>4, UsedBytes
<1>6. \A k \in DOMAIN gen.seeds : \A i \in DOMAIN gen.seeds[k] :
            gen.seeds[k][i].fresh \/ (k = 1 /\ gen.seeds[k][i] = Personal)
  BY <1>4 DEF OnceUpTo
<1>7. gen.fresh = {}
  BY <1>4
<1>8. QED
  BY <1>2, <1>5, <1>6, <1>7

-----------------------------------------------------------------------------
(* The theorems.                                                           *)

\* Whatever the width of the counter and of the window, numbers taken one by
\* one, computed in one addition and subtracted agree, and so do the two window
\* tests (enc_dec.c).
THEOREM SeqNbsAgree == Spec => []SequenceNumbersAgree
<1>1. Spec => []InputsAre
  BY InputsInit, InputsNext, PTL DEF Spec
<1>2. QED
  BY <1>1, AgreeForInputs, PTL

\* Whatever the number of words, their width and the odd modulus, mod_add,
\* mod_sub and montMul compute sums, differences and Montgomery products modulo
\* it, reduced (mod_arithmetic.c).
THEOREM ModularArithmetic == Spec => []ArithmeticIsModular
<1>1. Spec => []InputsAre
  BY InputsInit, InputsNext, PTL DEF Spec
<1>2. QED
  BY <1>1, ModularForInputs, PTL

\* Whatever the number of words, their width and the odd prime modulus, mod_inv
\* ends for every number that is not zero, and gives its inverse
\* (mod_arithmetic.c).
THEOREM InversesAreInverses == Spec => []InversesInvert
<1>1. Spec => []InputsAre
  BY InputsInit, InputsNext, PTL DEF Spec
<1>2. QED
  BY <1>1, InversesForInputs, PTL

\* Whatever the curve, as long as b's top word is below n's, ECInValidRange lets
\* only 1 .. n - 1 pass, and refuses of it only what has n's top word
\* (ec_arithmetic.c).
THEOREM ValidRange == Spec => []ScalarsInRange
<1>1. Spec => []InputsAre
  BY InputsInit, InputsNext, PTL DEF Spec
<1>2. QED
  BY <1>1, ScalarsForInputs, PTL

\* Whatever the sizes of the buffer and of a seed and the width of the counter,
\* after one call and after as many as make the counter wrap around (any number
\* of them, CallsCount) every byte read from the source is in one seed, once, and
\* nothing else is but the personalization string (crt_drbg.c).
THEOREM EntropyIsUsedOnce == Spec => []EntropyUsedOnce
<1>1. Spec => []InputsAre
  BY InputsInit, InputsNext, PTL DEF Spec
<1>2. QED
  BY <1>1, EntropyForInputs, PTL

=============================================================================
