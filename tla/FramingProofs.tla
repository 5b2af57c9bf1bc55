--------------------------- MODULE FramingProofs ---------------------------
(***************************************************************************)
(* Proofs about Framing: its types, and that messages are received as they *)
(* were sent: in order if packets arrive in order (InOrderIntact), each by *)
(* itself if each fits a packet (EachIntact).                              *)
(*                                                                         *)
(* Both rest on one fact, ReadByte: in the middle of a message the next    *)
(* byte leads to a later place in the same message, and only at its end is *)
(* that byte a FLAG that is not escaped. The place is kept by Reading. The *)
(* rest is bookkeeping about FlattenSeq, which the sender's stuffing and   *)
(* the packets are made with, and which is defined by recursion: that the  *)
(* function it chooses exists, and what it makes of a longer sequence, is  *)
(* shown by the absence of a least counterexample (Least).                 *)
(***************************************************************************)
EXTENDS Framing, SequenceTheorems, WellFoundedInduction, TLAPS

-----------------------------------------------------------------------------
\* The well-ordering of the natural numbers, from the library's theorems on
\* well-founded relations.
LEMMA Least ==
    ASSUME NEW S \in SUBSET Nat, S # {}
    PROVE  \E x \in S : \A y \in S : x <= y
<1>1. PICK x \in S : \A y \in S : <<y, x>> \notin OpToRel(<, Nat)
  BY NatLessThanWellFounded, WFMin
<1>2. \A y \in S : ~(y < x)
  BY <1>1 DEF OpToRel
<1>3. QED
  BY <1>2

-----------------------------------------------------------------------------
(* FlattenSeq                                                              *)

Strings == Seq(Bytes)

\* The theorem of the library, for strings of bytes.
LEMMA Associative ==
    ASSUME NEW a \in Strings, NEW b \in Strings, NEW c \in Strings
    PROVE  (a \o b) \o c = a \o (b \o c)
<1> DEFINE B == Bytes
<1>1. a \in Seq(B) /\ b \in Seq(B) /\ c \in Seq(B)
  BY DEF Strings
<1> HIDE DEF B
<1>2. QED
  BY <1>1, ConcatAssociative

\* f holds what FlattenSeq makes of the first sequences of s, for the first n.
Grows(f, s, n) ==
    \A i \in 1 .. n : f[i] = IF i = 1 THEN s[i] ELSE f[i - 1] \o s[i]

\* The function that FlattenSeq chooses exists: there is no least number of
\* sequences for which it does not.
LEMMA GrowthExists ==
    ASSUME NEW s \in Seq(Strings), NEW n \in Nat, n <= Len(s)
    PROVE  \E f \in [1 .. n -> Strings] : Grows(f, s, n)
<1> DEFINE Has(k) == \E f \in [1 .. k -> Strings] : Grows(f, s, k)
           Bad == {k \in Nat : k <= Len(s) /\ ~Has(k)}
<1>1. SUFFICES ASSUME Bad # {} PROVE FALSE
  OBVIOUS
<1>2. PICK k \in Bad : \A j \in Bad : k <= j
  BY <1>1, Least
<1>3. k # 0
  <2> DEFINE e == [i \in 1 .. 0 |-> <<>>]
  <2>0. \A i \in 1 .. 0 : FALSE
    OBVIOUS
  <2>1. e \in [1 .. 0 -> Strings] /\ Grows(e, s, 0)
    BY <2>0 DEF Grows
  <2>2. Has(0)
    BY <2>1
  <2>3. QED
    BY <1>2, <2>2
<1>4. PICK f \in [1 .. (k - 1) -> Strings] : Grows(f, s, k - 1)
  <2>1. k - 1 \in Nat /\ k - 1 <= Len(s) /\ ~(k <= k - 1)
    BY <1>2, <1>3
  <2>2. Has(k - 1)
    BY <1>2, <2>1
  <2>3. QED
    BY <2>2
<1> DEFINE g == [i \in 1 .. k |-> IF i < k THEN f[i]
                                  ELSE IF k = 1 THEN s[k] ELSE f[k - 1] \o s[k]]
<1>5. s[k] \in Strings /\ (k # 1 => f[k - 1] \in Strings /\ f[k - 1] \o s[k] \in Strings)
  <2>1. k \in 1 .. Len(s) /\ (k # 1 => k - 1 \in 1 .. (k - 1))
    BY <1>2, <1>3
  <2>2. s[k] \in Strings /\ (k # 1 => f[k - 1] \in Strings)
    BY <2>1
  <2>3. QED
    BY <2>2 DEF Strings
<1>6. g \in [1 .. k -> Strings]
  BY <1>4, <1>5
<1>7. Grows(g, s, k)
  <2> SUFFICES ASSUME NEW i \in 1 .. k
               PROVE  g[i] = IF i = 1 THEN s[i] ELSE g[i - 1] \o s[i]
    BY DEF Grows
  <2>1. i # 1 => i - 1 \in 1 .. k /\ i - 1 < k /\ i - 1 \in 1 .. (k - 1)
    BY <1>2
  <2>2. CASE i = k
    BY <2>1, <2>2
  <2>3. CASE i # k
    <3>1. i \in 1 .. (k - 1) /\ i < k
      BY <1>2, <2>3
    <3>2. QED
      BY <1>4, <2>1, <3>1 DEF Grows
  <2>4. QED
    BY <2>2, <2>3
<1>8. QED
  BY <1>2, <1>6, <1>7

\* It is determined by the sequences.
LEMMA GrowthUnique ==
    ASSUME NEW s, NEW t, NEW n \in Nat, NEW f, NEW g,
           \A i \in 1 .. n : s[i] = t[i], Grows(f, s, n), Grows(g, t, n)
    PROVE  \A i \in 1 .. n : f[i] = g[i]
<1> DEFINE Bad == {i \in Nat : i \in 1 .. n /\ f[i] # g[i]}
<1>1. SUFFICES ASSUME Bad # {} PROVE FALSE
  OBVIOUS
<1>2. PICK i \in Bad : \A j \in Bad : i <= j
  BY <1>1, Least
<1>3. i # 1 => f[i - 1] = g[i - 1]
  <2>1. i # 1 => i - 1 \in Nat /\ i - 1 \in 1 .. n /\ ~(i <= i - 1)
    BY <1>2
  <2>2. QED
    BY <1>2, <2>1
<1>4. f[i] = g[i]
  BY <1>2, <1>3 DEF Grows
<1>5. QED
  BY <1>2, <1>4

\* So FlattenSeq is what it was meant to be.
LEMMA FlattenGrows ==
    ASSUME NEW s \in Seq(Strings), s # <<>>
    PROVE  \E f \in [1 .. Len(s) -> Strings] :
             Grows(f, s, Len(s)) /\ FlattenSeq(s) = f[Len(s)]
<1> DEFINE n == Len(s)
           F(f) == [i \in 1 .. n |-> IF i = 1 THEN s[i] ELSE f[i - 1] \o s[i]]
           flatten == CHOOSE f : f = F(f)
<1>1. PICK f \in [1 .. n -> Strings] : Grows(f, s, n)
  BY GrowthExists
<1>2. f = F(f)
  BY <1>1 DEF Grows
<1>3. flatten = F(flatten)
  BY <1>2
<1>4. Grows(flatten, s, n)
  <2> HIDE DEF flatten
  <2>1. QED
    BY <1>3 DEF Grows
<1>5. \A i \in 1 .. n : flatten[i] = f[i]
  <2> HIDE DEF flatten
  <2>1. QED
    BY <1>1, <1>4, GrowthUnique
<1>6. flatten = f
  <2> HIDE DEF flatten
  <2>1. QED
    BY <1>1, <1>2, <1>3, <1>5
<1>7. FlattenSeq(s) = flatten[n]
  BY DEF FlattenSeq
<1>8. QED
  BY <1>1, <1>6, <1>7

LEMMA FlattenType ==
    ASSUME NEW s \in Seq(Strings)
    PROVE  FlattenSeq(s) \in Strings
<1>1. CASE s = <<>>
  BY <1>1 DEF FlattenSeq, Strings
<1>2. CASE s # <<>>
  <2>1. Len(s) \in 1 .. Len(s)
    BY <1>2
  <2>2. QED
    BY <1>2, <2>1, FlattenGrows
<1>3. QED
  BY <1>1, <1>2

LEMMA FlattenAppend ==
    ASSUME NEW s \in Seq(Strings), NEW x \in Strings
    PROVE  FlattenSeq(Append(s, x)) = FlattenSeq(s) \o x
<1> DEFINE a == Append(s, x)
           n == Len(s)
<1>1. /\ a \in Seq(Strings) /\ a # <<>> /\ Len(a) = n + 1 /\ a[n + 1] = x
      /\ \A i \in 1 .. n : a[i] = s[i]
  BY AppendProperties
<1> HIDE DEF a
<1>2. PICK f \in [1 .. (n + 1) -> Strings] :
        Grows(f, a, n + 1) /\ FlattenSeq(a) = f[n + 1]
  BY <1>1, FlattenGrows
<1>3. CASE s = <<>>
  <2>1. n = 0 /\ FlattenSeq(s) = <<>>
    BY <1>3 DEF FlattenSeq
  <2>2. f[1] = a[1]
    BY <1>2, <2>1 DEF Grows
  <2>3. QED
    BY <1>1, <1>2, <2>1, <2>2 DEF a, Strings
<1>4. CASE s # <<>>
  <2>1. PICK g \in [1 .. n -> Strings] : Grows(g, s, n) /\ FlattenSeq(s) = g[n]
    BY <1>4, FlattenGrows
  <2>2. n \in Nat /\ n >= 1
    BY <1>4
  <2>3. Grows(f, a, n)
    <3>1. \A i \in 1 .. n : i \in 1 .. (n + 1)
      BY <2>2
    <3>2. QED
      BY <1>2, <3>1 DEF Grows
  <2>4. f[n] = g[n]
    BY <1>1, <2>1, <2>2, <2>3, GrowthUnique
  <2>5. f[n + 1] = f[n] \o a[n + 1]
    <3>1. n + 1 \in 1 .. (n + 1) /\ n + 1 # 1 /\ (n + 1) - 1 = n
      BY <2>2
    <3>2. QED
      BY <1>2, <3>1 DEF Grows
  <2>6. QED
    BY <1>1, <1>2, <2>1, <2>4, <2>5 DEF a
<1>5. QED
  BY <1>3, <1>4

LEMMA FlattenConcat ==
    ASSUME NEW s \in Seq(Strings), NEW t \in Seq(Strings)
    PROVE  FlattenSeq(s \o t) = FlattenSeq(s) \o FlattenSeq(t)
<1> DEFINE Holds(u) == FlattenSeq(s \o u) = FlattenSeq(s) \o FlattenSeq(u)
           Bad == {n \in Nat : \E u \in Seq(Strings) : Len(u) = n /\ ~Holds(u)}
<1>1. SUFFICES ASSUME ~Holds(t) PROVE FALSE
  OBVIOUS
<1>2. Bad # {}
  <2>1. Len(t) \in Bad
    BY <1>1
  <2>2. QED
    BY <2>1
<1>3. PICK n \in Bad : \A j \in Bad : n <= j
  BY <1>2, Least
<1>4. PICK u \in Seq(Strings) : Len(u) = n /\ ~Holds(u)
  BY <1>3
<1>5. CASE u = <<>>
  <2>1. s \o u = s /\ FlattenSeq(u) = <<>>
    BY <1>5, ConcatEmptySeq DEF FlattenSeq
  <2>2. FlattenSeq(s) \o <<>> = FlattenSeq(s)
    BY FlattenType, ConcatEmptySeq DEF Strings
  <2>3. QED
    BY <1>4, <2>1, <2>2
<1>6. CASE u # <<>>
  <2>1. PICK v \in Seq(Strings), x \in Strings : u = Append(v, x)
    BY <1>6, SequenceEmptyOrAppend
  <2>2. Len(v) \in Nat /\ ~(n <= Len(v))
    BY <1>4, <2>1
  <2>3. Holds(v)
    BY <1>3, <2>2
  <2>4. s \o v \in Seq(Strings) /\ s \o u = Append(s \o v, x)
    BY <2>1
  <2>5. FlattenSeq(s \o u) = FlattenSeq(s \o v) \o x
    BY <2>4, FlattenAppend
  <2>6. FlattenSeq(u) = FlattenSeq(v) \o x
    BY <2>1, FlattenAppend
  <2>7. (FlattenSeq(s) \o FlattenSeq(v)) \o x = FlattenSeq(s) \o (FlattenSeq(v) \o x)
    BY FlattenType, Associative, ZenonT(60)
  <2>8. QED
    BY <1>4, <2>3, <2>5, <2>6, <2>7
<1>7. QED
  BY <1>5, <1>6

LEMMA FlattenCons ==
    ASSUME NEW x \in Strings, NEW s \in Seq(Strings)
    PROVE  FlattenSeq(<<x>> \o s) = x \o FlattenSeq(s)
<1>1. <<x>> \in Seq(Strings) /\ <<x>> = Append(<<>>, x) /\ <<>> \in Seq(Strings)
  OBVIOUS
<1>2. FlattenSeq(<<x>>) = FlattenSeq(<<>>) \o x
  BY <1>1, FlattenAppend
<1>3. FlattenSeq(<<>>) = <<>>
  BY DEF FlattenSeq
<1>4. <<>> \o x = x
  BY ConcatEmptySeq DEF Strings
<1>5. QED
  BY <1>1, <1>2, <1>3, <1>4, FlattenConcat

-----------------------------------------------------------------------------
(* What is sent                                                            *)

\* A byte as it is sent.
Stuff(byte) == IF byte \in {ESC, FLAG} THEN <<ESC, byte>> ELSE <<byte>>

Stuffs(m, p) == [i \in 1 .. (Len(m) - p) |-> Stuff(m[p + i])]

\* What is sent of a message after its first p bytes.
Suffix(m, p) == FlattenSeq(Stuffs(m, p)) \o <<FLAG>>

LEMMA StuffType ==
    ASSUME NEW byte \in Bytes
    PROVE  Stuff(byte) \in Strings
<1>1. ESC \in Bytes
  BY DEF Bytes
<1>2. <<ESC, byte>> \in Seq(Bytes) /\ <<byte>> \in Seq(Bytes)
  BY <1>1
<1>3. QED
  BY <1>2 DEF Stuff, Strings

LEMMA StuffsType ==
    ASSUME NEW m \in Strings, NEW p \in 0 .. Len(m)
    PROVE  Stuffs(m, p) \in Seq(Strings) /\ Len(Stuffs(m, p)) = Len(m) - p
<1>1. Len(m) - p \in Nat
  BY DEF Strings
<1>2. \A i \in 1 .. (Len(m) - p) : Stuff(m[p + i]) \in Strings
  <2> SUFFICES ASSUME NEW i \in 1 .. (Len(m) - p)
               PROVE  Stuff(m[p + i]) \in Strings
    OBVIOUS
  <2>1. p + i \in 1 .. Len(m)
    BY DEF Strings
  <2>2. m[p + i] \in Bytes
    BY <2>1 DEF Strings
  <2>3. QED
    BY <2>2, StuffType
<1>3. QED
  BY <1>1, <1>2 DEF Stuffs

LEMMA SuffixType ==
    ASSUME NEW m \in Strings, NEW p \in 0 .. Len(m)
    PROVE  Suffix(m, p) \in Strings /\ Suffix(m, p) # <<>>
<1>1. FlattenSeq(Stuffs(m, p)) \in Strings
  BY StuffsType, FlattenType
<1>2. FLAG \in Bytes
  BY DEF Bytes
<1>3. QED
  BY <1>1, <1>2 DEF Suffix, Strings

LEMMA SuffixStart ==
    ASSUME NEW m \in Strings
    PROVE  stuffed(m) = Suffix(m, 0)
<1>1. Len(m) \in Nat /\ DOMAIN m = 1 .. Len(m)
  BY DEF Strings
<1>2. \A i \in 1 .. Len(m) : 0 + i = i
  BY <1>1
<1>3. Len(m) - 0 = Len(m)
  BY <1>1
<1>4. Stuffs(m, 0) = [i \in DOMAIN m |->
                        IF m[i] \in {ESC, FLAG} THEN <<ESC, m[i]>> ELSE <<m[i]>>]
  BY <1>1, <1>2, <1>3 DEF Stuffs, Stuff
<1>5. QED
  BY <1>4 DEF stuffed, Suffix

LEMMA SuffixEnd ==
    ASSUME NEW m \in Strings
    PROVE  Suffix(m, Len(m)) = <<FLAG>>
<1>1. Len(m) \in 0 .. Len(m)
  BY DEF Strings
<1>2. Len(Stuffs(m, Len(m))) = 0 /\ Stuffs(m, Len(m)) \in Seq(Strings)
  BY <1>1, StuffsType DEF Strings
<1>3. Stuffs(m, Len(m)) = <<>>
  BY <1>2
<1>4. FlattenSeq(<<>>) = <<>>
  BY DEF FlattenSeq
<1>5. <<>> \o <<FLAG>> = <<FLAG>>
  OBVIOUS
<1>6. QED
  BY <1>3, <1>4, <1>5 DEF Suffix

LEMMA SuffixStep ==
    ASSUME NEW m \in Strings, NEW p \in 0 .. Len(m), p # Len(m)
    PROVE  /\ p + 1 \in 0 .. Len(m) /\ m[p + 1] \in Bytes
           /\ Suffix(m, p) = Stuff(m[p + 1]) \o Suffix(m, p + 1)
<1>1. Len(m) \in Nat /\ p \in Nat /\ p + 1 \in 1 .. Len(m) /\ p + 1 \in 0 .. Len(m)
  BY DEF Strings
<1>2. m[p + 1] \in Bytes
  BY <1>1 DEF Strings
<1> DEFINE x == Stuff(m[p + 1])
           t == Stuffs(m, p + 1)
           s == Stuffs(m, p)
<1>3. /\ x \in Strings /\ t \in Seq(Strings) /\ Len(t) = Len(m) - (p + 1)
      /\ s \in Seq(Strings) /\ Len(s) = Len(m) - p
  BY <1>1, <1>2, StuffType, StuffsType
<1>4. \A i \in 1 .. Len(s) : s[i] = IF i = 1 THEN x ELSE t[i - 1]
  <2> SUFFICES ASSUME NEW i \in 1 .. (Len(m) - p)
               PROVE  s[i] = IF i = 1 THEN x ELSE t[i - 1]
    BY <1>3
  <2>1. s[i] = Stuff(m[p + i])
    BY DEF Stuffs
  <2>2. CASE i = 1
    BY <2>1, <2>2
  <2>3. CASE i # 1
    <3>1. i - 1 \in 1 .. (Len(m) - (p + 1)) /\ (p + 1) + (i - 1) = p + i
      BY <1>1, <2>3
    <3>2. t[i - 1] = Stuff(m[(p + 1) + (i - 1)])
      BY <3>1 DEF Stuffs
    <3>3. QED
      BY <2>1, <2>3, <3>1, <3>2
  <2>4. QED
    BY <2>2, <2>3
<1>5. s = <<x>> \o t
  <2> HIDE DEF x, t, s
  <2>1. <<x>> \o t \in Seq(Strings) /\ Len(<<x>> \o t) = Len(s)
    BY <1>1, <1>3
  <2>2. \A i \in 1 .. Len(s) : (<<x>> \o t)[i] = IF i = 1 THEN x ELSE t[i - 1]
    BY <1>1, <1>3
  <2>3. QED
    BY <1>3, <1>4, <2>1, <2>2, SeqEqual, ZenonT(60)
<1>6. FlattenSeq(s) = x \o FlattenSeq(t) /\ FlattenSeq(t) \in Strings
  BY <1>3, <1>5, FlattenCons, FlattenType
<1>7. <<FLAG>> \in Strings
  BY DEF Strings, Bytes
<1>8. (x \o FlattenSeq(t)) \o <<FLAG>> = x \o (FlattenSeq(t) \o <<FLAG>>)
  BY <1>3, <1>6, <1>7, Associative
<1>9. QED
  BY <1>1, <1>2, <1>6, <1>8 DEF Suffix

-----------------------------------------------------------------------------
(* What is sent after the first k messages of s.                           *)
Laters(s, k) == [i \in 1 .. (Len(s) - k) |-> stuffed(s[k + i])]
Later(s, k) == FlattenSeq(Laters(s, k))

LEMMA StuffedType ==
    ASSUME NEW m \in Strings
    PROVE  stuffed(m) \in Strings /\ stuffed(m) # <<>>
<1>1. 0 \in 0 .. Len(m)
  BY DEF Strings
<1>2. QED
  BY <1>1, SuffixStart, SuffixType

LEMMA LatersType ==
    ASSUME NEW s \in Seq(Strings), NEW k \in 0 .. Len(s)
    PROVE  Laters(s, k) \in Seq(Strings) /\ Len(Laters(s, k)) = Len(s) - k
<1>1. Len(s) - k \in Nat
  OBVIOUS
<1>2. \A i \in 1 .. (Len(s) - k) : stuffed(s[k + i]) \in Strings
  <2> SUFFICES ASSUME NEW i \in 1 .. (Len(s) - k)
               PROVE  stuffed(s[k + i]) \in Strings
    OBVIOUS
  <2>1. k + i \in 1 .. Len(s)
    OBVIOUS
  <2>2. s[k + i] \in Strings
    BY <2>1
  <2>3. QED
    BY <2>2, StuffedType
<1>3. QED
  BY <1>1, <1>2 DEF Laters

LEMMA LaterType ==
    ASSUME NEW s \in Seq(Strings), NEW k \in 0 .. Len(s)
    PROVE  Later(s, k) \in Strings
BY LatersType, FlattenType DEF Later

LEMMA LaterEnd ==
    ASSUME NEW s \in Seq(Strings)
    PROVE  Later(s, Len(s)) = <<>>
<1>1. Len(s) \in 0 .. Len(s) /\ Len(s) \in Nat
  OBVIOUS
<1>2. Len(Laters(s, Len(s))) = 0 /\ Laters(s, Len(s)) \in Seq(Strings)
  BY <1>1, LatersType
<1>3. Laters(s, Len(s)) = <<>>
  BY <1>2
<1>4. QED
  BY <1>3 DEF Later, FlattenSeq

LEMMA LaterStep ==
    ASSUME NEW s \in Seq(Strings), NEW k \in 0 .. Len(s), k # Len(s)
    PROVE  Later(s, k) = stuffed(s[k + 1]) \o Later(s, k + 1)
<1>1. Len(s) \in Nat /\ k \in Nat /\ k + 1 \in 1 .. Len(s) /\ k + 1 \in 0 .. Len(s)
  OBVIOUS
<1>2. s[k + 1] \in Strings
  BY <1>1
<1> DEFINE x == stuffed(s[k + 1])
           t == Laters(s, k + 1)
           u == Laters(s, k)
<1>3. /\ x \in Strings /\ t \in Seq(Strings) /\ Len(t) = Len(s) - (k + 1)
      /\ u \in Seq(Strings) /\ Len(u) = Len(s) - k
  BY <1>1, <1>2, StuffedType, LatersType
<1>4. \A i \in 1 .. Len(u) : u[i] = IF i = 1 THEN x ELSE t[i - 1]
  <2> SUFFICES ASSUME NEW i \in 1 .. (Len(s) - k)
               PROVE  u[i] = IF i = 1 THEN x ELSE t[i - 1]
    BY <1>3
  <2>1. u[i] = stuffed(s[k + i])
    BY DEF Laters
  <2>2. CASE i = 1
    BY <2>1, <2>2
  <2>3. CASE i # 1
    <3>1. i - 1 \in 1 .. (Len(s) - (k + 1)) /\ (k + 1) + (i - 1) = k + i
      BY <1>1, <2>3
    <3>2. t[i - 1] = stuffed(s[(k + 1) + (i - 1)])
      BY <3>1 DEF Laters
    <3>3. QED
      BY <2>1, <2>3, <3>1, <3>2
  <2>4. QED
    BY <2>2, <2>3
<1>5. u = <<x>> \o t
  <2> HIDE DEF x, t, u
  <2>1. <<x>> \o t \in Seq(Strings) /\ Len(<<x>> \o t) = Len(u)
    BY <1>1, <1>3
  <2>2. \A i \in 1 .. Len(u) : (<<x>> \o t)[i] = IF i = 1 THEN x ELSE t[i - 1]
    BY <1>1, <1>3
  <2>3. QED
    BY <1>3, <1>4, <2>1, <2>2, SeqEqual, ZenonT(60)
<1>6. QED
  BY <1>3, <1>5, FlattenCons DEF Later

LEMMA LaterAppend ==
    ASSUME NEW s \in Seq(Strings), NEW k \in 0 .. Len(s), NEW m \in Strings
    PROVE  Later(Append(s, m), k) = Later(s, k) \o stuffed(m)
<1> DEFINE a == Append(s, m)
           t == Laters(s, k)
           u == Laters(a, k)
           x == stuffed(m)
<1>1. /\ a \in Seq(Strings) /\ Len(a) = Len(s) + 1 /\ a[Len(s) + 1] = m
      /\ \A i \in 1 .. Len(s) : a[i] = s[i]
      /\ k \in 0 .. Len(a) /\ Len(s) \in Nat /\ k \in Nat
  BY AppendProperties
<1> HIDE DEF a
<1>2. /\ t \in Seq(Strings) /\ Len(t) = Len(s) - k /\ x \in Strings
      /\ u \in Seq(Strings) /\ Len(u) = Len(s) + 1 - k
  <2>1. t \in Seq(Strings) /\ Len(t) = Len(s) - k /\ x \in Strings
    BY LatersType, StuffedType
  <2>2. u \in Seq(Strings) /\ Len(u) = Len(a) - k
    BY <1>1, LatersType
  <2>3. QED
    BY <1>1, <2>1, <2>2
<1>3. \A i \in 1 .. Len(u) : u[i] = Append(t, x)[i]
  <2> SUFFICES ASSUME NEW i \in 1 .. (Len(s) + 1 - k)
               PROVE  u[i] = Append(t, x)[i]
    BY <1>2
  <2>1. u[i] = stuffed(a[k + i])
    BY <1>1 DEF Laters
  <2>2. CASE i = Len(t) + 1
    <3>1. k + i = Len(s) + 1
      BY <1>1, <1>2, <2>2
    <3>2. Append(t, x)[i] = x
      BY <1>2, <2>2, AppendProperties
    <3>3. QED
      BY <1>1, <2>1, <3>1, <3>2
  <2>3. CASE i # Len(t) + 1
    <3>1. i \in 1 .. Len(t) /\ i \in 1 .. (Len(s) - k) /\ k + i \in 1 .. Len(s)
      <4> DEFINE n == Len(t)
      <4>1. n = Len(s) - k /\ Len(s) \in Nat /\ k \in 0 .. Len(s) /\ i # n + 1
        BY <1>1, <1>2, <2>3
      <4> HIDE DEF n
      <4>2. i \in 1 .. n
        BY <4>1
      <4>3. QED
        BY <4>1, <4>2 DEF n
    <3>2. t[i] = stuffed(s[k + i])
      BY <3>1 DEF Laters
    <3>3. Append(t, x)[i] = t[i]
      BY <1>2, <3>1, AppendProperties
    <3>4. QED
      BY <1>1, <2>1, <3>1, <3>2, <3>3
  <2>4. QED
    BY <2>2, <2>3
<1>4. u = Append(t, x)
  <2> HIDE DEF x, t, u
  <2>1. Append(t, x) \in Seq(Strings) /\ Len(Append(t, x)) = Len(u)
    BY <1>1, <1>2, AppendProperties
  <2>2. QED
    BY <1>2, <1>3, <2>1, SeqEqual
<1>5. QED
  BY <1>2, <1>4, FlattenAppend DEF Later, a

-----------------------------------------------------------------------------
(* The packets                                                             *)

M == MAX_PACKET_SIZE

LEMMA Monotone ==
    ASSUME NEW a \in Int, NEW b \in Int, a <= b, NEW c \in Nat
    PROVE  a * c <= b * c
<1>1. b - a \in Nat /\ (b - a) * c = b * c - a * c
  OBVIOUS
<1>2. (b - a) * c \in Nat
  BY <1>1
<1>3. QED
  BY <1>1, <1>2

\* The packets of L bytes hold them, without the last they do not.
LEMMA Enough ==
    ASSUME NEW L \in Nat, L # 0
    PROVE  LET n == (L + M - 1) \div M
           IN  n \in Nat /\ n # 0 /\ L <= n * M /\ (n - 1) * M < L
<1> DEFINE n == (L + M - 1) \div M
           r == (L + M - 1) % M
<1>1. M \in Nat /\ M > 0 /\ L + M - 1 \in Nat
  BY FramingAssumption DEF M
<1>2. n \in Int /\ r \in 0 .. (M - 1) /\ L + M - 1 = M * n + r
  BY <1>1
<1> HIDE DEF n, r
<1>3. M * n = n * M /\ (n - 1) * M = n * M - M /\ n * M \in Int
  BY <1>1, <1>2
<1>4. L <= n * M /\ (n - 1) * M < L
  BY <1>1, <1>2, <1>3
<1>5. n > 0
  <2>1. SUFFICES ASSUME n <= 0 PROVE FALSE
    BY <1>2
  <2>2. n * M <= 0 * M
    BY <1>1, <1>2, <2>1, Monotone
  <2>3. 0 * M = 0
    BY <1>1
  <2>4. QED
    BY <1>3, <1>4, <2>2, <2>3
<1>6. QED
  BY <1>2, <1>4, <1>5 DEF n

\* The bytes that the first i packets hold.
End(bytes, i) == IF i * M < Len(bytes) THEN i * M ELSE Len(bytes)

Count(bytes) == (Len(bytes) + M - 1) \div M

\* A packet begins where the one before it ends, and none is empty.
LEMMA CutEnds ==
    ASSUME NEW b \in Strings, b # <<>>
    PROVE  /\ Count(b) \in Nat /\ Count(b) # 0
           /\ End(b, 0) = 0 /\ End(b, Count(b)) = Len(b)
           /\ \A i \in 1 .. Count(b) :
                /\ End(b, i - 1) = (i - 1) * M
                /\ End(b, i - 1) \in Nat /\ End(b, i) \in Nat
                /\ End(b, i - 1) < End(b, i) /\ End(b, i) <= Len(b)
                /\ End(b, i) - End(b, i - 1) <= M
<1> DEFINE L == Len(b)
           n == Count(b)
<1>1. L \in Nat /\ L # 0 /\ M \in Nat /\ M > 0
  BY FramingAssumption DEF M, Strings
<1>2. n \in Nat /\ n # 0 /\ L <= n * M /\ (n - 1) * M < L
  BY <1>1, Enough DEF Count
<1> HIDE DEF L, n
<1>3. 0 * M = 0 /\ n * M \in Nat
  BY <1>1, <1>2
<1>4. End(b, 0) = 0 /\ End(b, n) = L
  BY <1>1, <1>2, <1>3 DEF End, L
<1>5. ASSUME NEW i \in 1 .. n
      PROVE  /\ End(b, i - 1) = (i - 1) * M
             /\ End(b, i - 1) \in Nat /\ End(b, i) \in Nat
             /\ End(b, i - 1) < End(b, i) /\ End(b, i) <= L
             /\ End(b, i) - End(b, i - 1) <= M
  <2>1. (i - 1) * M <= (n - 1) * M
    BY <1>1, <1>2, Monotone
  <2>2. i \in Nat /\ i - 1 \in Nat /\ (i - 1) * M \in Nat /\ i * M \in Nat
        /\ (n - 1) * M \in Int
    BY <1>1, <1>2
  <2>3. i * M = (i - 1) * M + M
    BY <1>1, <2>2
  <2>4. (i - 1) * M < L
    BY <1>1, <1>2, <2>1, <2>2
  <2>5. End(b, i - 1) = (i - 1) * M /\ End(b, i) = IF i * M < L THEN i * M ELSE L
    BY <2>4 DEF End, L
  <2>6. QED
    BY <1>1, <2>2, <2>3, <2>4, <2>5
<1>6. QED
  BY <1>2, <1>4, <1>5 DEF L, n

LEMMA CutParts ==
    ASSUME NEW b \in Strings, b # <<>>
    PROVE  /\ Cut(b) \in Seq(Strings) /\ Len(Cut(b)) = Count(b)
           /\ \A i \in 1 .. Count(b) :
                /\ Cut(b)[i] = SubSeq(b, End(b, i - 1) + 1, End(b, i))
                /\ Len(Cut(b)[i]) \in 1 .. M
<1> DEFINE Part(i) == SubSeq(b, (i - 1) * M + 1, IF i * M < Len(b) THEN i * M ELSE Len(b))
           n == Count(b)
<1>1. Cut(b) = [i \in 1 .. n |-> Part(i)]
  BY DEF Cut, Count, M
<1>2. ASSUME NEW i \in 1 .. n
      PROVE  /\ Part(i) = SubSeq(b, End(b, i - 1) + 1, End(b, i))
             /\ Part(i) \in Strings /\ Len(Part(i)) \in 1 .. M
  <2> DEFINE from == End(b, i - 1)
             to == End(b, i)
  <2>1. Part(i) = SubSeq(b, from + 1, to)
    BY CutEnds DEF End
  <2>2. /\ from \in Nat /\ to \in Nat /\ from < to /\ to <= Len(b) /\ to - from <= M
        /\ M \in Nat /\ Len(b) \in Nat
    BY CutEnds, FramingAssumption DEF M, Strings
  <2> HIDE DEF from, to, Part
  <2>3. \A j \in (from + 1) .. to : b[j] \in Bytes
    <3>1. \A j \in (from + 1) .. to : j \in 1 .. Len(b)
      BY <2>2
    <3>2. QED
      BY <3>1 DEF Strings
  <2>4. /\ SubSeq(b, from + 1, to) \in Seq(Bytes)
        /\ Len(SubSeq(b, from + 1, to)) = IF from + 1 <= to THEN to - (from + 1) + 1 ELSE 0
    BY <2>2, <2>3, SubSeqProperties
  <2>5. Len(SubSeq(b, from + 1, to)) = to - from /\ to - from \in 1 .. M
    BY <2>2, <2>4
  <2>6. QED
    BY <2>1, <2>4, <2>5 DEF Strings, from, to
<1>3. n \in Nat
  BY CutEnds
<1> HIDE DEF Part, n
<1>4. Cut(b) \in [1 .. n -> Strings] /\ \A i \in 1 .. n : Cut(b)[i] = Part(i)
  BY <1>1, <1>2
<1>5. Cut(b) \in Seq(Strings) /\ Len(Cut(b)) = n
  BY <1>3, <1>4
<1>6. QED
  BY <1>2, <1>4, <1>5 DEF n

\* Nothing is lost, added or moved by cutting.
LEMMA CutWhole ==
    ASSUME NEW b \in Strings, b # <<>>
    PROVE  FlattenSeq(Cut(b)) = b
<1> DEFINE c == Cut(b)
           n == Count(b)
           Holds(i) == FlattenSeq(SubSeq(c, 1, i)) = SubSeq(b, 1, End(b, i))
           Bad == {i \in Nat : i <= n /\ ~Holds(i)}
<1>1. /\ c \in Seq(Strings) /\ Len(c) = n /\ n \in Nat /\ Len(b) \in Nat
      /\ \A i \in 1 .. n : c[i] = SubSeq(b, End(b, i - 1) + 1, End(b, i)) /\ c[i] \in Strings
  BY CutParts, CutEnds DEF Strings
<1> HIDE DEF c, n
<1>2. ASSUME Bad # {} PROVE FALSE
  <2>1. PICK i \in Bad : \A j \in Bad : i <= j
    BY <1>2, Least
  <2>2. CASE i = 0
    <3>1. SubSeq(c, 1, 0) = <<>> /\ SubSeq(b, 1, 0) = <<>>
      BY SubSeqEmpty
    <3>2. End(b, 0) = 0 /\ FlattenSeq(<<>>) = <<>>
      BY CutEnds DEF FlattenSeq
    <3>3. QED
      BY <2>1, <2>2, <3>1, <3>2
  <2>3. CASE i # 0
    <3>1. i \in 1 .. n /\ i - 1 \in Nat /\ i - 1 <= n /\ ~(i <= i - 1) /\ i \in 1 .. Len(c)
      BY <1>1, <2>1, <2>3
    <3>2. Holds(i - 1)
      BY <2>1, <3>1
    <3> DEFINE from == End(b, i - 1)
               to == End(b, i)
               front == SubSeq(c, 1, i - 1)
    <3>3. from \in Nat /\ to \in Nat /\ from < to /\ to <= Len(b)
      BY <3>1, CutEnds DEF n
    <3>4. front \in Seq(Strings) /\ SubSeq(c, 1, i) = Append(front, c[i])
      <4>1. 1 \in 1 .. Len(c) /\ i \in 1 .. Len(c) /\ c[i] \in Strings
        BY <1>1, <3>1
      <4>2. SubSeq(c, 1, i) = SubSeq(c, 1, i - 1) \o <<c[i]>>
        BY <1>1, <4>1, SubSeqRecursiveSecond
      <4>3. \A j \in 1 .. (i - 1) : c[j] \in Strings
        BY <1>1, <3>1
      <4>4. front \in Seq(Strings)
        BY <3>1, <4>3, SubSeqProperties
      <4> HIDE DEF front
      <4>5. Append(front, c[i]) = front \o <<c[i]>>
        BY <4>1, <4>4, AppendIsConcat
      <4>6. QED
        BY <4>2, <4>4, <4>5 DEF front
    <3>5. FlattenSeq(SubSeq(c, 1, i)) = FlattenSeq(front) \o c[i]
      BY <1>1, <3>1, <3>4, FlattenAppend
    <3>6. SubSeq(b, 1, from) \o SubSeq(b, from + 1, to) = SubSeq(b, 1, to)
      <4>1. b \in Seq(Bytes) /\ 1 \in 1 .. (Len(b) + 1)
        BY <1>1 DEF Strings
      <4> HIDE DEF from, to
      <4>2. from \in (1 - 1) .. Len(b) /\ to \in from .. Len(b)
        BY <1>1, <3>3
      <4>3. QED
        BY <4>1, <4>2, ConcatAdjacentSubSeq
    <3>7. QED
      BY <1>1, <2>1, <3>1, <3>2, <3>5, <3>6
  <2>4. QED
    BY <2>2, <2>3
<1>3. Holds(n)
  <2>1. n <= n
    BY <1>1
  <2>2. QED
    BY <1>1, <1>2, <2>1
<1>4. SubSeq(c, 1, n) = c /\ SubSeq(b, 1, Len(b)) = b
  <2>1. SubSeq(c, 1, Len(c)) = c
    BY <1>1, SubSeqFull
  <2>2. SubSeq(b, 1, Len(b)) = b
    BY SubSeqFull DEF Strings
  <2>3. QED
    BY <1>1, <2>1, <2>2
<1>5. End(b, n) = Len(b)
  BY CutEnds DEF n
<1>6. QED
  BY <1>3, <1>4, <1>5 DEF c

\* What fits a packet is sent in one.
LEMMA CutShort ==
    ASSUME NEW b \in Strings, b # <<>>, Len(b) <= M
    PROVE  Cut(b) = <<b>>
<1>1. /\ Cut(b) \in Seq(Strings) /\ Len(Cut(b)) = Count(b) /\ Count(b) \in Nat
      /\ Count(b) # 0
  BY CutParts, CutEnds
<1>2. Count(b) = 1
  <2>1. SUFFICES ASSUME Count(b) - 1 >= 1 PROVE FALSE
    BY <1>1
  <2>2. Len(b) \in Nat /\ Len(b) # 0 /\ M \in Nat
    BY FramingAssumption DEF M, Strings
  <2>3. (Count(b) - 1) * M < Len(b)
    BY <2>2, Enough DEF Count
  <2>4. 1 * M <= (Count(b) - 1) * M
    BY <1>1, <2>1, <2>2, Monotone
  <2>5. 1 * M = M /\ (Count(b) - 1) * M \in Int
    BY <1>1, <2>2
  <2>6. QED
    BY <2>2, <2>3, <2>4, <2>5
<1>3. Cut(b)[1] = SubSeq(b, 1, Len(b))
  <2>1. 1 \in 1 .. Count(b) /\ 1 - 1 = 0 /\ 0 + 1 = 1
    BY <1>2
  <2>2. Cut(b)[1] = SubSeq(b, End(b, 1 - 1) + 1, End(b, 1))
    BY <2>1, CutParts
  <2>3. End(b, 0) = 0 /\ End(b, 1) = Len(b)
    BY <1>2, CutEnds
  <2>4. QED
    BY <2>1, <2>2, <2>3
<1>4. SubSeq(b, 1, Len(b)) = b
  BY SubSeqFull DEF Strings
<1>5. <<b>> \in Seq(Strings) /\ Len(<<b>>) = 1 /\ <<b>>[1] = b
  OBVIOUS
<1>6. \A i \in 1 .. Len(Cut(b)) : Cut(b)[i] = <<b>>[i]
  <2>1. SUFFICES ASSUME NEW i \in 1 .. 1 PROVE Cut(b)[i] = <<b>>[i]
    BY <1>1, <1>2
  <2>2. i = 1
    OBVIOUS
  <2>3. QED
    BY <1>3, <1>4, <1>5, <2>2
<1>7. QED
  BY <1>1, <1>2, <1>5, <1>6, SeqEqual

-----------------------------------------------------------------------------
(* Reading a message byte by byte                                          *)

\* What is still to be read of a message of which p bytes, and perhaps the ESC
\* before the next, were read.
Rest(m, p, esc) == IF esc THEN <<m[p + 1]>> \o Suffix(m, p + 1) ELSE Suffix(m, p)

\* Where the receiver is: in the middle of message m, after which later is to
\* be read; pend is all there is to read.
Reading(m, later, esc, res, pend) ==
    \E p \in 0 .. Len(m) :
        /\ res = SubSeq(m, 1, p)
        /\ esc => p # Len(m) /\ m[p + 1] \in {ESC, FLAG}
        /\ pend = Rest(m, p, esc) \o later

\* Where it is at the end of message m.
Complete(m, later, res, pend) == res = m /\ pend = later

LEMMA RestType ==
    ASSUME NEW m \in Strings, NEW p \in 0 .. Len(m), NEW esc, esc => p # Len(m)
    PROVE  Rest(m, p, esc) \in Strings /\ Rest(m, p, esc) # <<>>
<1>1. CASE esc
  <2>1. p + 1 \in 0 .. Len(m) /\ m[p + 1] \in Bytes
    BY <1>1, SuffixStep
  <2>2. Suffix(m, p + 1) \in Strings
    BY <2>1, SuffixType
  <2>3. QED
    BY <1>1, <2>1, <2>2 DEF Rest, Strings
<1>2. CASE ~esc
  BY <1>2, SuffixType DEF Rest
<1>3. QED
  BY <1>1, <1>2

LEMMA FirstByte ==
    ASSUME NEW a \in Bytes, NEW s \in Strings
    PROVE  Head(<<a>> \o s) = a /\ Tail(<<a>> \o s) = s
<1> DEFINE t == <<a>> \o s
<1>1. s \in Seq(Bytes) /\ <<a>> \in Seq(Bytes) /\ Len(s) \in Nat
  BY DEF Strings
<1>2. /\ t \in Seq(Bytes) /\ Len(t) = Len(s) + 1 /\ t[1] = a
      /\ \A i \in 1 .. Len(s) : t[i + 1] = s[i]
  BY <1>1
<1> HIDE DEF t
<1>3. t # <<>> /\ Head(t) = a
  BY <1>1, <1>2
<1>4. /\ Tail(t) \in Seq(Bytes) /\ Len(Tail(t)) = Len(s)
      /\ \A i \in 1 .. Len(s) : Tail(t)[i] = s[i]
  BY <1>1, <1>2, <1>3, HeadTailProperties
<1>5. Tail(t) = s
  BY <1>1, <1>4, SeqEqual
<1>6. QED
  BY <1>3, <1>5 DEF t

LEMMA SubSeqType ==
    ASSUME NEW m \in Strings, NEW p \in 0 .. Len(m)
    PROVE  /\ SubSeq(m, 1, p) \in Strings /\ Len(SubSeq(m, 1, p)) = p
           /\ p # Len(m) => SubSeq(m, 1, p + 1) = Append(SubSeq(m, 1, p), m[p + 1])
<1>1. p \in Nat /\ Len(m) \in Nat /\ p <= Len(m) /\ m \in Seq(Bytes)
  BY DEF Strings
<1>2. \A i \in 1 .. p : m[i] \in Bytes
  BY <1>1
<1>3. /\ SubSeq(m, 1, p) \in Seq(Bytes)
      /\ Len(SubSeq(m, 1, p)) = IF 1 <= p THEN p - 1 + 1 ELSE 0
  BY <1>1, <1>2, SubSeqProperties
<1>4. ASSUME p # Len(m)
      PROVE  SubSeq(m, 1, p + 1) = Append(SubSeq(m, 1, p), m[p + 1])
  <2>1. p + 1 \in 1 .. Len(m) /\ 1 \in 1 .. Len(m) /\ (p + 1) - 1 = p /\ m[p + 1] \in Bytes
    BY <1>1, <1>4
  <2>2. SubSeq(m, 1, p + 1) = SubSeq(m, 1, (p + 1) - 1) \o <<m[p + 1]>>
    BY <1>1, <2>1, SubSeqRecursiveSecond
  <2>3. Append(SubSeq(m, 1, p), m[p + 1]) = SubSeq(m, 1, p) \o <<m[p + 1]>>
    BY <1>3, <2>1, AppendIsConcat
  <2>4. QED
    BY <2>1, <2>2, <2>3
<1>5. QED
  BY <1>1, <1>3, <1>4 DEF Strings

LEMMA BytesDiffer == ESC # FLAG /\ ESC # Plain /\ FLAG # Plain
BY FramingAssumption

LEMMA ReadingFacts ==
    ASSUME NEW m \in Strings, NEW later \in Strings, NEW esc, NEW res, NEW pend,
           Reading(m, later, esc, res, pend)
    PROVE  pend \in Strings /\ pend # <<>> /\ Len(res) <= Len(m)
<1>1. PICK p \in 0 .. Len(m) :
        /\ res = SubSeq(m, 1, p)
        /\ esc => p # Len(m) /\ m[p + 1] \in {ESC, FLAG}
        /\ pend = Rest(m, p, esc) \o later
  BY DEF Reading
<1>2. Rest(m, p, esc) \in Seq(Bytes) /\ Rest(m, p, esc) # <<>> /\ later \in Seq(Bytes)
  BY <1>1, RestType DEF Strings
<1>3. pend \in Seq(Bytes) /\ pend # <<>>
  BY <1>1, <1>2, ConcatSimplifications
<1>4. Len(res) = p
  BY <1>1, SubSeqType
<1>5. QED
  BY <1>3, <1>4 DEF Strings

LEMMA SplitFirst ==
    ASSUME NEW s \in Strings, s # <<>>
    PROVE  Head(s) \in Bytes /\ Tail(s) \in Strings /\ s = <<Head(s)>> \o Tail(s)
<1> DEFINE b == Head(s)
           t == Tail(s)
<1>1. s \in Seq(Bytes)
  BY DEF Strings
<1>2. /\ b \in Bytes /\ t \in Seq(Bytes) /\ Len(t) = Len(s) - 1
      /\ \A i \in 1 .. Len(t) : t[i] = s[i + 1]
      /\ b = s[1] /\ Len(s) \in Nat
  BY <1>1, HeadTailProperties
<1> HIDE DEF b, t
<1>3. /\ <<b>> \o t \in Seq(Bytes) /\ Len(<<b>> \o t) = Len(s)
      /\ \A i \in 1 .. Len(s) : (<<b>> \o t)[i] = s[i]
  BY <1>2
<1>4. s = <<b>> \o t
  BY <1>1, <1>3, SeqEqual
<1>5. QED
  BY <1>2, <1>4 DEF Strings, b, t

\* The receiver undoes what the sender did, byte by byte.
LEMMA ReadByte ==
    ASSUME NEW m \in Strings, NEW later \in Strings, NEW esc \in BOOLEAN, NEW res,
           NEW pend, Reading(m, later, esc, res, pend)
    PROVE  /\ esc \/ Head(pend) = Plain =>
                Reading(m, later, FALSE, Append(res, Head(pend)), Tail(pend))
           /\ ~esc /\ Head(pend) = ESC => Reading(m, later, TRUE, res, Tail(pend))
           /\ ~esc /\ Head(pend) = FLAG => Complete(m, later, res, Tail(pend))
<1> DEFINE byte == Head(pend)
           tail == Tail(pend)
<1>0. byte \in Bytes /\ tail \in Strings /\ pend = <<byte>> \o tail
  BY ReadingFacts, SplitFirst
<1>1. PICK p \in 0 .. Len(m) :
        /\ res = SubSeq(m, 1, p)
        /\ esc => p # Len(m) /\ m[p + 1] \in {ESC, FLAG}
        /\ <<byte>> \o tail = Rest(m, p, esc) \o later
  BY <1>0 DEF Reading
<1> HIDE DEF byte, tail
<1> DEFINE c == m[p + 1]
           after == Suffix(m, p + 1)
<1>2. CASE p = Len(m)
  <2>1. ~esc
    BY <1>1, <1>2
  <2>2. <<byte>> \o tail = <<FLAG>> \o later
    BY <1>1, <1>2, <2>1, SuffixEnd DEF Rest
  <2>3. FLAG \in Bytes
    BY DEF Bytes
  <2>4. byte = FLAG /\ tail = later
    <3>1. Head(<<byte>> \o tail) = byte /\ Tail(<<byte>> \o tail) = tail
      BY <1>0, FirstByte
    <3>2. Head(<<FLAG>> \o later) = FLAG /\ Tail(<<FLAG>> \o later) = later
      BY <2>3, FirstByte
    <3>3. QED
      BY <2>2, <3>1, <3>2
  <2>5. res = m
    <3>1. SubSeq(m, 1, Len(m)) = m
      BY SubSeqFull DEF Strings
    <3>2. QED
      BY <1>1, <1>2, <3>1
  <2>6. QED
    BY <2>1, <2>4, <2>5, BytesDiffer DEF byte, tail, Complete
<1>3. CASE p # Len(m)
  <2>1. /\ p + 1 \in 0 .. Len(m) /\ c \in Bytes
        /\ Suffix(m, p) = Stuff(c) \o after
    BY <1>3, SuffixStep
  <2>2. after \in Strings /\ <<c>> \in Strings
    BY <2>1, SuffixType DEF Strings
  <2>3. SubSeq(m, 1, p + 1) = Append(res, c)
    BY <1>1, <1>3, SubSeqType
  <2> HIDE DEF after, c
  <2>4. after \o later \in Strings
    BY <2>2 DEF Strings
  <2>5. (<<c>> \o after) \o later = <<c>> \o (after \o later)
    BY <2>2, Associative
  \* The byte itself is read.
  <2>6. ASSUME <<byte>> \o tail = (<<c>> \o after) \o later
        PROVE  byte = c /\ Reading(m, later, FALSE, Append(res, byte), tail)
    <3>0. <<byte>> \o tail = <<c>> \o (after \o later)
      BY <2>5, <2>6
    <3>1. byte = c /\ tail = after \o later
      <4>1. Head(<<byte>> \o tail) = byte /\ Tail(<<byte>> \o tail) = tail
        BY <1>0, FirstByte
      <4>2. /\ Head(<<c>> \o (after \o later)) = c
            /\ Tail(<<c>> \o (after \o later)) = after \o later
        BY <2>1, <2>4, FirstByte
      <4>3. QED
        BY <3>0, <4>1, <4>2
    <3>2. Rest(m, p + 1, FALSE) = after
      BY DEF Rest, after
    <3>3. QED
      BY <2>1, <2>3, <3>1, <3>2 DEF Reading
  <2>7. CASE esc
    <3>1. <<byte>> \o tail = (<<c>> \o after) \o later
      BY <1>1, <2>7 DEF Rest, c, after
    <3>2. QED
      BY <2>6, <2>7, <3>1 DEF byte, tail
  <2>8. CASE ~esc /\ c \notin {ESC, FLAG}
    <3>1. <<byte>> \o tail = (<<c>> \o after) \o later
      BY <1>1, <2>1, <2>8 DEF Rest, Stuff
    <3>2. byte = c /\ byte \notin {ESC, FLAG}
      BY <2>6, <2>8, <3>1
    <3>3. QED
      BY <2>6, <2>8, <3>1, <3>2 DEF byte, tail
  <2>9. CASE ~esc /\ c \in {ESC, FLAG}
    <3>1. <<byte>> \o tail = (<<ESC, c>> \o after) \o later
      BY <1>1, <2>1, <2>9 DEF Rest, Stuff
    <3>2. <<ESC>> \in Strings /\ ESC \in Bytes /\ <<ESC, c>> = <<ESC>> \o <<c>>
      BY <2>1 DEF Strings, Bytes
    <3>3. <<ESC, c>> \o after = <<ESC>> \o (<<c>> \o after)
      BY <2>2, <3>2, Associative
    <3>4. <<c>> \o after \in Strings /\ (<<c>> \o after) \o later \in Strings
      BY <2>2 DEF Strings
    <3>5. (<<ESC>> \o (<<c>> \o after)) \o later = <<ESC>> \o ((<<c>> \o after) \o later)
      BY <3>2, <3>4, Associative
    <3>6. byte = ESC /\ tail = (<<c>> \o after) \o later
      <4>1. <<byte>> \o tail = <<ESC>> \o ((<<c>> \o after) \o later)
        BY <3>1, <3>3, <3>5
      <4>2. Head(<<byte>> \o tail) = byte /\ Tail(<<byte>> \o tail) = tail
        BY <1>0, FirstByte
      <4>3. /\ Head(<<ESC>> \o ((<<c>> \o after) \o later)) = ESC
            /\ Tail(<<ESC>> \o ((<<c>> \o after) \o later)) = (<<c>> \o after) \o later
        BY <3>2, <3>4, FirstByte
      <4>4. QED
        BY <4>1, <4>2, <4>3
    <3>7. Rest(m, p, TRUE) = <<c>> \o after
      BY DEF Rest, c, after
    <3>8. Reading(m, later, TRUE, res, tail)
      BY <1>1, <1>3, <2>9, <3>6, <3>7 DEF Reading, c
    <3>9. QED
      BY <2>9, <3>6, <3>8, BytesDiffer DEF byte, tail
  <2>10. QED
    BY <2>7, <2>8, <2>9
<1>4. QED
  BY <1>2, <1>3

LEMMA StartsReading ==
    ASSUME NEW m \in Strings, NEW later \in Strings
    PROVE  Reading(m, later, FALSE, <<>>, stuffed(m) \o later)
<1>1. 0 \in 0 .. Len(m)
  BY DEF Strings
<1>2. SubSeq(m, 1, 0) = <<>>
  BY SubSeqEmpty
<1>3. Rest(m, 0, FALSE) = stuffed(m)
  BY SuffixStart DEF Rest
<1>4. QED
  BY <1>1, <1>2, <1>3 DEF Reading

LEMMA MoreLater ==
    ASSUME NEW m \in Strings, NEW later \in Strings, NEW esc, NEW res, NEW pend,
           NEW x \in Strings, Reading(m, later, esc, res, pend)
    PROVE  Reading(m, later \o x, esc, res, pend \o x)
<1>1. PICK p \in 0 .. Len(m) :
        /\ res = SubSeq(m, 1, p)
        /\ esc => p # Len(m) /\ m[p + 1] \in {ESC, FLAG}
        /\ pend = Rest(m, p, esc) \o later
  BY DEF Reading
<1>2. Rest(m, p, esc) \in Strings
  BY <1>1, RestType
<1>3. pend \o x = Rest(m, p, esc) \o (later \o x)
  BY <1>1, <1>2, Associative
<1>4. QED
  BY <1>1, <1>3 DEF Reading

-----------------------------------------------------------------------------
(* The invariant                                                           *)

Types == TypeOK /\ packets \in Seq(Strings) /\ received \in Seq(Strings)

\* What is there to be read, as far as its order is known.
Pending == IF reliable THEN buffer \o FlattenSeq(packets) ELSE buffer

\* No message is being read.
Idle == result = <<>> /\ ~escRead /\ Pending = <<>>

\* No message was too long, and one that was not read to its end is read on.
Undisturbed ==
    /\ status # "Channel_inconsistent"
    /\ ~polling /\ result # <<>> => status = "Message_incomplete"

\* On a reliable network the receiver is in the first message that was not
\* received, and what is to be read is the rest of it and the messages after it.
InOrder ==
    /\ Len(received) <= Len(sent)
    /\ \A i \in 1 .. Len(received) : received[i] = sent[i]
    /\ Undisturbed
    /\ Len(received) = Len(sent) => Idle
    /\ Len(received) # Len(sent) =>
         Reading(sent[Len(received) + 1], Later(sent, Len(received) + 1),
                 escRead, result, Pending)

\* Whether every message sent fits a packet.
Fit == \A j \in DOMAIN sent : Len(stuffed(sent[j])) <= MAX_PACKET_SIZE

\* On an unreliable network the receiver is in some message, if each is a packet.
Whole ==
    /\ Undisturbed
    /\ \A i \in DOMAIN packets : \E j \in DOMAIN sent : packets[i] = stuffed(sent[j])
    /\ \A i \in DOMAIN received : \E j \in DOMAIN sent : received[i] = sent[j]
    /\ Idle \/ \E j \in DOMAIN sent : Reading(sent[j], <<>>, escRead, result, Pending)

Inv ==
    /\ Types
    /\ reliable => InOrder
    /\ ~reliable /\ Fit => Whole

LEMMA Assumed ==
    /\ MAX_MESSAGE_NB \in Nat /\ MAX_MESSAGE_NB > 0 /\ M \in Nat /\ M > 0
    /\ M = MAX_PACKET_SIZE /\ Size = MAX_MESSAGE_NB + 1
    /\ \A m \in Messages : m \in Strings /\ Len(m) <= MAX_MESSAGE_NB
    /\ MaxMessages \in Nat
BY FramingAssumption DEF M, Strings, Size

\* The types in the form the proofs use them.
LEMMA TypesFacts ==
    ASSUME Types
    PROVE  /\ sent \in Seq(Messages) /\ sent \in Seq(Strings) /\ Len(sent) \in Nat
           /\ \A i \in 1 .. Len(sent) : sent[i] \in Strings /\ Len(sent[i]) <= MAX_MESSAGE_NB
           /\ packets \in Seq(Strings) /\ DOMAIN packets = 1 .. Len(packets)
           /\ \A i \in 1 .. Len(packets) : Len(packets[i]) \in 1 .. M
           /\ buffer \in Strings /\ Len(buffer) <= M
           /\ result \in Strings /\ Len(result) <= Size /\ Len(result) \in Nat
           /\ received \in Seq(Strings) /\ Len(received) \in Nat
           /\ DOMAIN received = 1 .. Len(received)
           /\ \A i \in 1 .. Len(received) : Len(received[i]) <= MAX_MESSAGE_NB
           /\ DOMAIN sent = 1 .. Len(sent)
<1>1. Messages \subseteq Strings
  BY Assumed
<1>2. sent \in Seq(Messages)
  BY DEF Types, TypeOK
<1>3. sent \in Seq(Strings)
  BY <1>1, <1>2, SeqMonotonic
<1>4. \A i \in 1 .. Len(sent) : sent[i] \in Messages
  BY <1>2
<1>5. /\ packets \in Seq(Strings) /\ received \in Seq(Strings)
      /\ DOMAIN packets = 1 .. Len(packets) /\ DOMAIN received = 1 .. Len(received)
      /\ DOMAIN sent = 1 .. Len(sent) /\ Len(sent) \in Nat /\ Len(received) \in Nat
  BY <1>2 DEF Types
<1>6. /\ buffer \in Strings /\ Len(buffer) <= M
      /\ result \in Strings /\ Len(result) <= Size /\ Len(result) \in Nat
  BY DEF Types, TypeOK, Strings, M
<1>7. /\ \A i \in 1 .. Len(packets) : Len(packets[i]) \in 1 .. M
      /\ \A i \in 1 .. Len(received) : Len(received[i]) <= MAX_MESSAGE_NB
  BY <1>5 DEF Types, TypeOK, M
<1>8. QED
  BY <1>2, <1>3, <1>4, <1>5, <1>6, <1>7, Assumed

\* The types, action by action.
LEMMA TypesStep ==
    ASSUME Types, [Next]_vars
    PROVE  Types'
<1>t. /\ reliable \in BOOLEAN /\ Len(sent) <= MaxMessages
      /\ escRead \in BOOLEAN /\ polling \in BOOLEAN
      /\ status \in {"Channel_empty", "Channel_inconsistent", "Message_valid",
                     "Message_invalid", "Message_incomplete"}
  BY DEF Types, TypeOK
<1>1. CASE transmit
  <2>1. PICK m \in Messages :
          Len(sent) < MaxMessages
          /\ sent' = Append(sent, m) /\ packets' = packets \o Cut(stuffed(m))
    BY <1>1 DEF transmit
  <2>2. sent' \in Seq(Messages) /\ Len(sent') <= MaxMessages
    BY <2>1, TypesFacts, Assumed
  <2> DEFINE c == Cut(stuffed(m))
  <2>3. c \in Seq(Strings) /\ \A i \in 1 .. Len(c) : Len(c[i]) \in 1 .. M
    BY Assumed, StuffedType, CutParts
  <2> HIDE DEF c
  <2>4. /\ packets' \in Seq(Strings)
        /\ \A i \in 1 .. Len(packets') : Len(packets'[i]) \in 1 .. M
    <3>1. packets' = packets \o c
      BY <2>1 DEF c
    <3>2. /\ packets' \in Seq(Strings) /\ Len(packets') = Len(packets) + Len(c)
          /\ \A i \in 1 .. (Len(packets) + Len(c)) :
               packets'[i] = IF i <= Len(packets) THEN packets[i] ELSE c[i - Len(packets)]
      BY <2>3, <3>1, TypesFacts, ConcatProperties
    <3> SUFFICES ASSUME NEW i \in 1 .. (Len(packets) + Len(c))
                 PROVE  Len(packets'[i]) \in 1 .. M
      BY <3>2
    <3>3. CASE i <= Len(packets)
      <4>1. i \in 1 .. Len(packets)
        BY <3>3, TypesFacts
      <4>2. QED
        BY <3>2, <3>3, <4>1, TypesFacts
    <3>4. CASE ~(i <= Len(packets))
      <4>1. i - Len(packets) \in 1 .. Len(c)
        BY <2>3, <3>4, TypesFacts
      <4>2. QED
        BY <2>3, <3>2, <3>4, <4>1
    <3>5. QED
      BY <3>3, <3>4
  <2>5. UNCHANGED <<reliable, buffer, escRead, result, polling, status, received>>
    BY <1>1 DEF transmit
  <2>6. \A i \in DOMAIN packets' : packets'[i] \in Seq(Bytes) /\ Len(packets'[i]) \in 1 .. MAX_PACKET_SIZE
    <3>1. DOMAIN packets' = 1 .. Len(packets') /\ \A i \in 1 .. Len(packets') : packets'[i] \in Strings
      BY <2>4
    <3>2. QED
      BY <2>4, <3>1 DEF Strings, M
  <2>7. QED
    BY <2>2, <2>4, <2>5, <2>6 DEF Types, TypeOK, Size
<1>2. CASE Poll
  <2>1. /\ UNCHANGED <<reliable, sent, packets, buffer, escRead, status, received>>
        /\ polling' = TRUE /\ result' \in {result, <<>>}
    BY <1>2 DEF Poll
  <2>2. result' \in Seq(Bytes) /\ Len(result') <= Size
    <3>1. result \in Seq(Bytes) /\ Len(result) <= Size
      BY TypesFacts DEF Strings
    <3>2. <<>> \in Seq(Bytes) /\ Len(<<>>) <= Size
      BY Assumed
    <3>3. QED
      BY <2>1, <3>1, <3>2
  <2>3. QED
    BY <2>1, <2>2 DEF Types, TypeOK, Size
<1>3. CASE Scan
  <2>1. /\ UNCHANGED <<reliable, sent, packets, polling, status, received>>
        /\ buffer # <<>> /\ buffer' = Tail(buffer) /\ Len(result) < Size
        /\ escRead' \in BOOLEAN /\ result' \in {result, Append(result, Head(buffer))}
    BY <1>3 DEF Scan
  <2>2. buffer \in Seq(Bytes) /\ Head(buffer) \in Bytes
    BY <2>1, TypesFacts DEF Strings
  <2>3. buffer' \in Seq(Bytes) /\ Len(buffer') <= MAX_PACKET_SIZE
    BY <2>1, <2>2, TypesFacts, Assumed
  <2>4. result' \in Seq(Bytes) /\ Len(result') <= Size
    <3>1. result \in Seq(Bytes) /\ Len(Append(result, Head(buffer))) = Len(result) + 1
      BY <2>2, TypesFacts DEF Strings
    <3>2. Size \in Nat
      BY Assumed
    <3>3. QED
      BY <2>1, <2>2, <3>1, <3>2
  <2>5. QED
    BY <2>1, <2>3, <2>4 DEF Types, TypeOK, Size
<1>4. CASE EndOfMessage
  <2>1. /\ UNCHANGED <<reliable, sent, packets, escRead>>
        /\ buffer # <<>> /\ buffer' = Tail(buffer) /\ Len(result) < Size
        /\ polling' = FALSE /\ result' = <<>>
        /\ status' \in {"Message_invalid", "Message_valid"}
        /\ received' \in {received, Append(received, result)}
    BY <1>4 DEF EndOfMessage
  <2>2. buffer \in Seq(Bytes)
    BY <2>1, TypesFacts DEF Strings
  <2>3. buffer' \in Seq(Bytes) /\ Len(buffer') <= MAX_PACKET_SIZE
    BY <2>1, <2>2, TypesFacts, Assumed
  <2>4. result' \in Seq(Bytes) /\ Len(result') <= Size
    BY <2>1, Assumed
  <2>5. /\ received' \in Seq(Strings)
        /\ \A i \in DOMAIN received' :
             received'[i] \in Seq(Bytes) /\ Len(received'[i]) <= MAX_MESSAGE_NB
    <3> DEFINE a == Append(received, result)
    <3>1. Len(result) <= MAX_MESSAGE_NB /\ result \in Strings
      BY <2>1, TypesFacts, Assumed
    <3>2. /\ a \in Seq(Strings) /\ Len(a) = Len(received) + 1 /\ DOMAIN a = 1 .. Len(a)
          /\ a[Len(received) + 1] = result /\ \A i \in 1 .. Len(received) : a[i] = received[i]
      BY <3>1, TypesFacts, AppendProperties
    <3> HIDE DEF a
    <3>3. \A i \in 1 .. (Len(received) + 1) : i = Len(received) + 1 \/ i \in 1 .. Len(received)
      BY TypesFacts
    <3>4. \A i \in DOMAIN a : a[i] \in Strings /\ Len(a[i]) <= MAX_MESSAGE_NB
      BY <3>1, <3>2, <3>3, TypesFacts
    <3>5. \A i \in DOMAIN received : received[i] \in Strings /\ Len(received[i]) <= MAX_MESSAGE_NB
      BY TypesFacts
    <3>6. QED
      BY <2>1, <3>2, <3>4, <3>5, TypesFacts DEF a, Strings
  <2>6. QED
    BY <2>1, <2>3, <2>4, <2>5 DEF Types, TypeOK, Size
<1>5. CASE Overlong
  <2>1. /\ UNCHANGED <<reliable, sent, packets, buffer, escRead, received>>
        /\ polling' = FALSE /\ result' = <<>> /\ status' = "Channel_inconsistent"
    BY <1>5 DEF Overlong
  <2>2. result' \in Seq(Bytes) /\ Len(result') <= Size
    BY <2>1, Assumed
  <2>3. QED
    BY <2>1, <2>2 DEF Types, TypeOK, Size
<1>6. CASE Read
  <2>1. UNCHANGED <<reliable, sent, escRead, result, polling, status, received>>
    BY <1>6 DEF Read
  <2>2. /\ packets' \in Seq(Strings) /\ \A i \in DOMAIN packets' : Len(packets'[i]) \in 1 .. M
        /\ buffer' \in Strings /\ Len(buffer') <= M
    <3>1. CASE packets # <<>> /\ buffer' = Head(packets) /\ packets' = Tail(packets)
      <4>1. /\ Head(packets) \in Strings /\ Tail(packets) \in Seq(Strings)
            /\ Len(Tail(packets)) = Len(packets) - 1 /\ Len(packets) \in Nat
            /\ \A i \in 1 .. Len(Tail(packets)) : Tail(packets)[i] = packets[i + 1]
            /\ Head(packets) = packets[1]
        BY <3>1, TypesFacts, HeadTailProperties
      <4>2. Len(packets) >= 1
        BY <3>1, <4>1, TypesFacts
      <4>3. \A i \in 1 .. (Len(packets) - 1) : i + 1 \in 1 .. Len(packets)
        BY <4>1
      <4>4. Len(packets[1]) \in 1 .. M
        BY <4>1, <4>2, TypesFacts
      <4>5. DOMAIN packets' = 1 .. (Len(packets) - 1)
        BY <3>1, <4>1
      <4>6. QED
        BY <3>1, <4>1, <4>3, <4>4, <4>5, TypesFacts, Assumed
    <3>2. CASE packets' = packets /\ \E i \in DOMAIN packets : buffer' = packets[i]
      <4>1. \A i \in 1 .. Len(packets) : packets[i] \in Strings /\ Len(packets[i]) <= M
        BY TypesFacts, Assumed
      <4>2. QED
        BY <3>2, <4>1, TypesFacts
    <3>3. QED
      BY <1>6, <3>1, <3>2 DEF Read
  <2>3. \A i \in DOMAIN packets' : packets'[i] \in Seq(Bytes)
    BY <2>2 DEF Strings
  <2>4. QED
    BY <2>1, <2>2, <2>3 DEF Types, TypeOK, Size, Strings, M
<1>7. CASE NothingToRead
  <2>1. /\ UNCHANGED <<reliable, sent, packets, buffer, escRead, result, received>>
        /\ polling' = FALSE /\ status' \in {status, "Message_incomplete", "Channel_empty"}
    BY <1>7 DEF NothingToRead, Incomplete
  <2>2. QED
    BY <2>1, <1>t DEF Types, TypeOK, Size
<1>8. CASE UNCHANGED vars
  BY <1>8 DEF vars, Types, TypeOK, Size
<1>9. QED
  BY <1>1, <1>2, <1>3, <1>4, <1>5, <1>6, <1>7, <1>8 DEF Next, Receive

LEMMA TypesInit ==
    ASSUME Init
    PROVE  Types
<1>1. /\ sent \in Seq(Messages) /\ packets \in Seq(Strings) /\ received \in Seq(Strings)
      /\ buffer \in Seq(Bytes) /\ result \in Seq(Bytes)
      /\ Len(sent) = 0 /\ Len(buffer) = 0 /\ Len(result) = 0
      /\ DOMAIN packets = {} /\ DOMAIN received = {}
  BY DEF Init
<1>2. /\ \A i \in DOMAIN packets : FALSE
      /\ \A i \in DOMAIN received : FALSE
  BY <1>1
<1>3. 0 <= MaxMessages /\ 0 <= MAX_PACKET_SIZE /\ 0 <= Size
  BY Assumed
<1>4. /\ reliable \in BOOLEAN /\ escRead \in BOOLEAN /\ polling \in BOOLEAN
      /\ status = "Channel_empty"
  BY DEF Init
<1>5. QED
  BY <1>1, <1>2, <1>3, <1>4 DEF Types, TypeOK

\* What arrives is made of bytes, a message that is complete fits the longest
\* message and the buffer fits a packet: udp_io.c never writes past either.
THEOREM TypeCorrect == Spec => []TypeOK
<1>1. Init => Types
  BY TypesInit
<1>2. Types /\ [Next]_vars => Types'
  BY TypesStep
<1>3. Types => TypeOK
  BY DEF Types
<1>4. QED
  BY <1>1, <1>2, <1>3, PTL DEF Spec

-----------------------------------------------------------------------------
(* What is to be read                                                      *)

LEMMA PendingType ==
    ASSUME Types
    PROVE  Pending \in Strings
<1>1. buffer \in Strings /\ FlattenSeq(packets) \in Strings
  BY TypesFacts, FlattenType
<1>2. QED
  BY <1>1 DEF Pending, Strings

\* Scanning a byte takes it off what is to be read; readIn changes nothing of
\* it, and transmit appends to it.
LEMMA PendingByte ==
    ASSUME Types, Types', buffer # <<>>, buffer' = Tail(buffer),
           reliable' = reliable, packets' = packets
    PROVE  /\ Head(buffer) \in Bytes /\ Pending' \in Strings
           /\ Pending # <<>> /\ Head(Pending) = Head(buffer) /\ Tail(Pending) = Pending'
<1> DEFINE b == Head(buffer)
           t == Tail(buffer)
           f == FlattenSeq(packets)
<1>1. b \in Bytes /\ t \in Strings /\ f \in Strings /\ <<b>> \in Strings
      /\ buffer = <<b>> \o t
  <2>1. b \in Bytes /\ t \in Strings /\ buffer = <<b>> \o t
    BY TypesFacts, SplitFirst
  <2>2. f \in Strings
    BY TypesFacts, FlattenType
  <2>3. QED
    BY <2>1, <2>2 DEF Strings
<1> HIDE DEF b, t, f
<1>2. (<<b>> \o t) \o f = <<b>> \o (t \o f) /\ t \o f \in Strings
  <2>1. t \o f \in Strings
    BY <1>1 DEF Strings
  <2>2. QED
    BY <1>1, <2>1, Associative
<1>3. /\ Pending = IF reliable THEN buffer \o f ELSE buffer
      /\ Pending' = IF reliable THEN t \o f ELSE t
  BY DEF Pending, t, f
<1>4. Pending' \in Strings /\ Pending = <<b>> \o Pending'
  BY <1>1, <1>2, <1>3
<1>5. Head(<<b>> \o Pending') = b /\ Tail(<<b>> \o Pending') = Pending'
  BY <1>1, <1>4, FirstByte
<1>6. <<b>> \o Pending' # <<>>
  BY <1>1, <1>4 DEF Strings
<1>7. QED
  BY <1>1, <1>4, <1>5, <1>6 DEF b

LEMMA PendingRead ==
    ASSUME Types, Read, reliable
    PROVE  Pending' = Pending
<1>1. /\ buffer = <<>> /\ packets # <<>> /\ buffer' = Head(packets)
      /\ packets' = Tail(packets) /\ reliable'
  BY DEF Read
<1> DEFINE h == Head(packets)
           t == Tail(packets)
<1>2. h \in Strings /\ t \in Seq(Strings) /\ packets = <<h>> \o t
  <2>1. /\ h \in Strings /\ t \in Seq(Strings) /\ Len(t) = Len(packets) - 1
        /\ \A i \in 1 .. Len(t) : t[i] = packets[i + 1]
        /\ h = packets[1] /\ Len(packets) \in Nat
    BY <1>1, TypesFacts, HeadTailProperties
  <2> HIDE DEF h, t
  <2>2. /\ <<h>> \o t \in Seq(Strings) /\ Len(<<h>> \o t) = Len(packets)
        /\ \A i \in 1 .. Len(packets) : (<<h>> \o t)[i] = packets[i]
    BY <2>1
  <2>3. QED
    BY <2>1, <2>2, TypesFacts, SeqEqual
<1>3. FlattenSeq(packets) = h \o FlattenSeq(t) /\ FlattenSeq(packets) \in Strings
  BY <1>2, FlattenCons, FlattenType, TypesFacts
<1>4. <<>> \o FlattenSeq(packets) = FlattenSeq(packets)
  BY <1>3, ConcatEmptySeq DEF Strings
<1>5. QED
  BY <1>1, <1>3, <1>4 DEF Pending

LEMMA PendingSent ==
    ASSUME Types, NEW m \in Strings, reliable' = reliable, buffer' = buffer,
           packets' = packets \o Cut(stuffed(m))
    PROVE  Pending' = IF reliable THEN Pending \o stuffed(m) ELSE Pending
<1> DEFINE f == FlattenSeq(packets)
           x == stuffed(m)
<1>1. x \in Strings /\ x # <<>>
  BY StuffedType
<1> HIDE DEF x
<1>2. Cut(x) \in Seq(Strings) /\ FlattenSeq(Cut(x)) = x
  BY <1>1, CutParts, CutWhole
<1>3. FlattenSeq(packets') = f \o x
  BY <1>2, TypesFacts, FlattenConcat DEF x
<1>4. f \in Strings /\ buffer \in Strings
  BY TypesFacts, FlattenType
<1> HIDE DEF f
<1>5. buffer \o (f \o x) = (buffer \o f) \o x
  BY <1>1, <1>4, Associative
<1>6. QED
  BY <1>3, <1>5 DEF Pending, f, x

LEMMA EmptyRight ==
    ASSUME NEW s \in Strings
    PROVE  s \o <<>> = s /\ <<>> \o s = s /\ <<>> \in Strings
BY ConcatEmptySeq DEF Strings

-----------------------------------------------------------------------------
(* A reliable network                                                      *)

\* The message being read and what comes after it.
LEMMA Current ==
    ASSUME Types, Len(received) <= Len(sent), Len(received) # Len(sent)
    PROVE  /\ Len(received) + 1 \in 1 .. Len(sent) /\ Len(received) + 1 \in 0 .. Len(sent)
           /\ sent[Len(received) + 1] \in Strings
           /\ Len(sent[Len(received) + 1]) <= MAX_MESSAGE_NB
           /\ Later(sent, Len(received) + 1) \in Strings
<1>1. Len(received) + 1 \in 1 .. Len(sent) /\ Len(received) + 1 \in 0 .. Len(sent)
  <2>1. Len(received) \in Nat /\ Len(sent) \in Nat
    BY TypesFacts
  <2>2. QED
    BY <2>1
<1>2. QED
  BY <1>1, TypesFacts, LaterType

LEMMA OrderKept ==
    ASSUME InOrder, Undisturbed', Pending' = Pending,
           UNCHANGED <<sent, received, escRead, result>>
    PROVE  InOrder'
BY DEF InOrder, Idle

LEMMA OrderSend ==
    ASSUME Types, Types', reliable, InOrder, transmit
    PROVE  InOrder'
<1> DEFINE n == Len(received)
<1>1. PICK m \in Messages : sent' = Append(sent, m) /\ packets' = packets \o Cut(stuffed(m))
  BY DEF transmit
<1>2. UNCHANGED <<reliable, buffer, escRead, result, polling, status, received>>
  BY DEF transmit
<1>3. m \in Strings /\ stuffed(m) \in Strings
  BY Assumed, StuffedType
<1>4. Pending' = Pending \o stuffed(m)
  BY <1>1, <1>2, <1>3, PendingSent
<1>5. /\ sent' \in Seq(Strings) /\ Len(sent') = Len(sent) + 1 /\ sent'[Len(sent) + 1] = m
      /\ \A i \in 1 .. Len(sent) : sent'[i] = sent[i]
  BY <1>1, <1>3, TypesFacts, AppendProperties
<1>6. Len(sent) \in Nat /\ n \in Nat /\ n <= Len(sent)
  BY TypesFacts DEF InOrder
<1>7. /\ n <= Len(sent') /\ n # Len(sent')
      /\ \A i \in 1 .. n : received[i] = sent'[i]
  <2>1. \A i \in 1 .. n : i \in 1 .. Len(sent)
    BY <1>6
  <2>2. QED
    BY <1>5, <1>6, <2>1 DEF InOrder
<1>8. Reading(sent'[n + 1], Later(sent', n + 1), escRead, result, Pending')
  <2>1. CASE n = Len(sent)
    <3>1. Pending = <<>> /\ result = <<>> /\ escRead = FALSE
      BY <2>1 DEF InOrder, Idle, Types, TypeOK
    <3>2. Later(sent', n + 1) = <<>> /\ sent'[n + 1] = m
      BY <1>5, <2>1, LaterEnd
    <3>3. Pending' = stuffed(m) \o <<>>
      BY <1>3, <1>4, <3>1, EmptyRight
    <3>4. Reading(m, <<>>, FALSE, <<>>, stuffed(m) \o <<>>)
      BY <1>3, StartsReading, EmptyRight
    <3>5. QED
      BY <3>1, <3>2, <3>3, <3>4
  <2>2. CASE n # Len(sent)
    <3>1. /\ n + 1 \in 0 .. Len(sent) /\ n + 1 \in 1 .. Len(sent)
          /\ sent[n + 1] \in Strings /\ Later(sent, n + 1) \in Strings
      BY <1>6, <2>2, Current
    <3>2. Later(sent', n + 1) = Later(sent, n + 1) \o stuffed(m)
      BY <1>1, <1>3, <3>1, LaterAppend, TypesFacts
    <3>3. sent'[n + 1] = sent[n + 1]
      BY <1>5, <3>1
    <3>4. Reading(sent[n + 1], Later(sent, n + 1), escRead, result, Pending)
      BY <2>2 DEF InOrder
    <3>5. Reading(sent[n + 1], Later(sent, n + 1) \o stuffed(m), escRead, result,
                  Pending \o stuffed(m))
      BY <1>3, <3>1, <3>4, MoreLater
    <3>6. QED
      BY <1>4, <3>2, <3>3, <3>5
  <2>3. QED
    BY <2>1, <2>2
<1>9. Undisturbed'
  BY <1>2 DEF InOrder, Undisturbed
<1>10. QED
  BY <1>2, <1>7, <1>8, <1>9 DEF InOrder

LEMMA OrderScan ==
    ASSUME Types, Types', reliable, InOrder, Scan
    PROVE  InOrder'
<1> DEFINE n == Len(received)
           b == Head(buffer)
<1>1. /\ UNCHANGED <<reliable, sent, packets, polling, status, received>>
      /\ buffer # <<>> /\ buffer' = Tail(buffer) /\ polling
      /\ \/ (escRead \/ b = Plain) /\ escRead' = FALSE /\ result' = Append(result, b)
         \/ ~escRead /\ b = ESC /\ escRead' = TRUE /\ result' = result
  BY DEF Scan
<1>2. /\ b \in Bytes /\ Pending' \in Strings /\ Pending # <<>>
      /\ Head(Pending) = b /\ Tail(Pending) = Pending'
  BY <1>1, PendingByte
<1>3. n # Len(sent)
  BY <1>2 DEF InOrder, Idle
<1>4. sent[n + 1] \in Strings /\ Later(sent, n + 1) \in Strings /\ escRead \in BOOLEAN
  BY <1>3, Current DEF InOrder, Types, TypeOK
<1>5. Reading(sent[n + 1], Later(sent, n + 1), escRead, result, Pending)
  BY <1>2, <1>3 DEF InOrder
<1>6. Reading(sent[n + 1], Later(sent, n + 1), escRead', result', Pending')
  <2> DEFINE m == sent[n + 1]
             later == Later(sent, n + 1)
  <2> HIDE DEF m, later, b
  <2>0. m \in Strings /\ later \in Strings /\ b \in Bytes /\ escRead \in BOOLEAN
        /\ Reading(m, later, escRead, result, Pending)
    BY <1>2, <1>4, <1>5 DEF m, later
  <2>1. /\ escRead \/ b = Plain => Reading(m, later, FALSE, Append(result, b), Pending')
        /\ ~escRead /\ b = ESC => Reading(m, later, TRUE, result, Pending')
    BY <1>2, <2>0, ReadByte
  <2>2. Reading(m, later, escRead', result', Pending')
    BY <1>1, <2>1 DEF b
  <2>3. QED
    BY <2>2 DEF m, later
<1>7. Undisturbed'
  BY <1>1 DEF InOrder, Undisturbed
<1>8. QED
  BY <1>1, <1>3, <1>6, <1>7 DEF InOrder

LEMMA OrderEnd ==
    ASSUME Types, Types', reliable, InOrder, EndOfMessage
    PROVE  InOrder'
<1> DEFINE n == Len(received)
           b == Head(buffer)
<1>1. /\ UNCHANGED <<reliable, sent, packets, escRead>>
      /\ buffer # <<>> /\ buffer' = Tail(buffer) /\ polling' = FALSE
      /\ ~escRead /\ b = FLAG /\ result' = <<>>
  BY DEF EndOfMessage
<1>2. status' = "Message_valid" /\ received' = Append(received, result)
  BY DEF EndOfMessage, InOrder, Undisturbed
<1>3. /\ b \in Bytes /\ Pending' \in Strings /\ Pending # <<>>
      /\ Head(Pending) = b /\ Tail(Pending) = Pending'
  BY <1>1, PendingByte
<1>4. n # Len(sent)
  BY <1>3 DEF InOrder, Idle
<1>5. /\ sent[n + 1] \in Strings /\ Later(sent, n + 1) \in Strings
      /\ escRead \in BOOLEAN /\ n + 1 \in 1 .. Len(sent) /\ n + 1 \in 0 .. Len(sent)
  BY <1>4, Current DEF InOrder, Types, TypeOK
<1>6. Reading(sent[n + 1], Later(sent, n + 1), escRead, result, Pending)
  BY <1>3, <1>4 DEF InOrder
<1>7. result = sent[n + 1] /\ Pending' = Later(sent, n + 1)
  <2> DEFINE m == sent[n + 1]
             later == Later(sent, n + 1)
  <2> HIDE DEF m, later, b
  <2>0. m \in Strings /\ later \in Strings /\ b \in Bytes /\ escRead \in BOOLEAN
        /\ Reading(m, later, escRead, result, Pending)
    BY <1>3, <1>5, <1>6 DEF m, later
  <2>1. Complete(m, later, result, Tail(Pending))
    BY <1>1, <1>3, <2>0, ReadByte DEF b
  <2>2. QED
    BY <1>3, <2>1 DEF m, later, Complete
<1>8. /\ Len(received') = n + 1 /\ received'[n + 1] = result
      /\ \A i \in 1 .. n : received'[i] = received[i]
  <2>1. result \in Strings
    BY TypesFacts
  <2>2. QED
    BY <1>2, <2>1, TypesFacts, AppendProperties
<1>9. \A i \in 1 .. (n + 1) : received'[i] = sent[i]
  <2>1. \A i \in 1 .. (n + 1) : i = n + 1 \/ i \in 1 .. n
    BY TypesFacts
  <2>2. QED
    BY <1>7, <1>8, <2>1 DEF InOrder
<1>10. Undisturbed'
  BY <1>1, <1>2 DEF Undisturbed
<1>11. CASE n + 1 = Len(sent)
  <2>1. Pending' = <<>>
    BY <1>7, <1>11, LaterEnd, TypesFacts
  <2>2. Idle'
    BY <1>1, <2>1 DEF Idle
  <2>3. n + 1 <= Len(sent)
    BY <1>5
  <2>4. QED
    BY <1>1, <1>8, <1>9, <1>10, <1>11, <2>2, <2>3 DEF InOrder
<1>12. CASE n + 1 # Len(sent)
  <2>1. /\ (n + 1) + 1 \in 1 .. Len(sent) /\ (n + 1) + 1 \in 0 .. Len(sent)
        /\ n + 1 <= Len(sent)
    <3>1. Len(sent) \in Nat /\ n \in Nat
      BY TypesFacts
    <3>2. QED
      BY <1>5, <1>12, <3>1
  <2>2. /\ sent[(n + 1) + 1] \in Strings /\ Later(sent, (n + 1) + 1) \in Strings
    BY <2>1, LaterType, TypesFacts
  <2>3. Pending' = stuffed(sent[(n + 1) + 1]) \o Later(sent, (n + 1) + 1)
    BY <1>5, <1>7, <1>12, LaterStep, TypesFacts
  <2>4. Reading(sent[(n + 1) + 1], Later(sent, (n + 1) + 1), FALSE, <<>>, Pending')
    BY <2>2, <2>3, StartsReading
  <2>5. escRead = FALSE
    BY <1>1, <1>5
  <2>6. QED
    BY <1>1, <1>8, <1>9, <1>10, <1>12, <2>1, <2>4, <2>5 DEF InOrder
<1>13. QED
  BY <1>11, <1>12

LEMMA OrderStep ==
    ASSUME Types, Types', reliable, InOrder, [Next]_vars
    PROVE  InOrder'
<1>1. CASE transmit
  BY <1>1, OrderSend
<1>2. CASE Poll
  <2>1. /\ UNCHANGED <<reliable, sent, packets, buffer, escRead, status, received>>
        /\ polling' = TRUE /\ result' = result
    BY <1>2 DEF Poll, InOrder, Undisturbed
  <2>2. Pending' = Pending /\ Undisturbed'
    BY <2>1 DEF Pending, InOrder, Undisturbed
  <2>3. QED
    BY <2>1, <2>2, OrderKept
<1>3. CASE Scan
  BY <1>3, OrderScan
<1>4. CASE EndOfMessage
  BY <1>4, OrderEnd
\* No message is longer than the longest.
<1>5. CASE Overlong
  <2>1. Len(result) = MAX_MESSAGE_NB + 1
    BY <1>5, Assumed DEF Overlong
  <2>2. CASE Len(received) = Len(sent)
    <3>1. Len(result) = 0
      BY <2>2 DEF InOrder, Idle
    <3>2. QED
      BY <2>1, <3>1, Assumed
  <2>3. CASE Len(received) # Len(sent)
    <3>1. Reading(sent[Len(received) + 1], Later(sent, Len(received) + 1),
                  escRead, result, Pending)
      BY <2>3 DEF InOrder
    <3>2. Len(result) <= Len(sent[Len(received) + 1])
      BY <2>3, <3>1, Current, ReadingFacts DEF InOrder
    <3>3. Len(sent[Len(received) + 1]) <= MAX_MESSAGE_NB
          /\ Len(sent[Len(received) + 1]) \in Nat
      BY <2>3, Current DEF InOrder, Strings
    <3>4. QED
      BY <2>1, <3>2, <3>3, Assumed
  <2>4. QED
    BY <2>2, <2>3
<1>6. CASE Read
  <2>1. UNCHANGED <<reliable, sent, escRead, result, polling, status, received>>
    BY <1>6 DEF Read
  <2>2. Undisturbed'
    BY <2>1 DEF InOrder, Undisturbed
  <2>3. QED
    BY <1>6, <2>1, <2>2, PendingRead, OrderKept
<1>7. CASE NothingToRead
  <2>1. /\ UNCHANGED <<reliable, sent, packets, buffer, escRead, result, received>>
        /\ polling' = FALSE /\ status' = Incomplete(Len(result))
    BY <1>7 DEF NothingToRead
  <2>2. Undisturbed'
    <3>1. result # <<>> => Len(result) > 0
      BY TypesFacts DEF Strings
    <3>2. QED
      BY <2>1, <3>1 DEF Undisturbed, InOrder, Incomplete
  <2>3. Pending' = Pending
    BY <2>1 DEF Pending
  <2>4. QED
    BY <2>1, <2>2, <2>3, OrderKept
<1>8. CASE UNCHANGED vars
  <2>1. Undisturbed' /\ Pending' = Pending
    BY <1>8 DEF vars, Undisturbed, InOrder, Pending
  <2>2. QED
    BY <1>8, <2>1, OrderKept DEF vars
<1>9. QED
  BY <1>1, <1>2, <1>3, <1>4, <1>5, <1>6, <1>7, <1>8 DEF Next, Receive

-----------------------------------------------------------------------------
(* An unreliable network                                                   *)

LEMMA WholeKept ==
    ASSUME Whole, Undisturbed', Pending' = Pending,
           UNCHANGED <<sent, packets, received, escRead, result>>
    PROVE  Whole'
BY DEF Whole, Idle

LEMMA SentFacts ==
    ASSUME Types, NEW j \in DOMAIN sent
    PROVE  /\ sent[j] \in Strings /\ Len(sent[j]) <= MAX_MESSAGE_NB
           /\ Len(sent[j]) \in Nat
<1>1. j \in 1 .. Len(sent)
  BY TypesFacts
<1>2. QED
  BY <1>1, TypesFacts DEF Strings

LEMMA WholeSend ==
    ASSUME Types, Types', ~reliable, Fit', Fit => Whole, transmit
    PROVE  Whole'
<1>1. PICK m \in Messages : sent' = Append(sent, m) /\ packets' = packets \o Cut(stuffed(m))
  BY DEF transmit
<1>2. UNCHANGED <<reliable, buffer, escRead, result, polling, status, received>>
  BY DEF transmit
<1>3. m \in Strings /\ stuffed(m) \in Strings /\ stuffed(m) # <<>>
  BY Assumed, StuffedType
<1>4. Pending' = Pending
  BY <1>1, <1>2, <1>3, PendingSent
<1>5. /\ Len(sent') = Len(sent) + 1 /\ sent'[Len(sent) + 1] = m
      /\ \A j \in 1 .. Len(sent) : sent'[j] = sent[j]
      /\ DOMAIN sent' = 1 .. Len(sent')
  BY <1>1, <1>3, TypesFacts, AppendProperties
<1>6. /\ Len(sent) + 1 \in DOMAIN sent'
      /\ \A j \in DOMAIN sent : j \in DOMAIN sent' /\ sent'[j] = sent[j]
  <2>1. Len(sent) \in Nat /\ DOMAIN sent = 1 .. Len(sent)
    BY TypesFacts
  <2>2. QED
    BY <1>5, <2>1
<1>7. Whole
  BY <1>6 DEF Fit
<1>8. Cut(stuffed(m)) = <<stuffed(m)>>
  <2>1. Len(stuffed(m)) <= M
    BY <1>5, <1>6, Assumed DEF Fit
  <2>2. QED
    BY <1>3, <2>1, CutShort
<1>9. \A i \in DOMAIN packets' : \E j \in DOMAIN sent' : packets'[i] = stuffed(sent'[j])
  <2> DEFINE x == stuffed(m)
  <2>1. x \in Strings /\ packets' = Append(packets, x)
    <3>1. packets' = packets \o <<x>>
      BY <1>1, <1>8
    <3>2. QED
      BY <1>3, <3>1, TypesFacts, AppendIsConcat
  <2> HIDE DEF x
  <2>2. /\ Len(packets') = Len(packets) + 1 /\ packets'[Len(packets) + 1] = x
        /\ \A i \in 1 .. Len(packets) : packets'[i] = packets[i]
        /\ DOMAIN packets' = 1 .. Len(packets')
    BY <2>1, TypesFacts, AppendProperties
  <2>3. Len(packets) \in Nat /\ DOMAIN packets = 1 .. Len(packets)
    BY TypesFacts
  <2>4. SUFFICES ASSUME NEW i \in DOMAIN packets'
                 PROVE  \E j \in DOMAIN sent' : packets'[i] = stuffed(sent'[j])
    OBVIOUS
  <2>5. CASE i = Len(packets) + 1
    BY <1>5, <1>6, <2>2, <2>5 DEF x
  <2>6. CASE i # Len(packets) + 1
    <3>1. i \in DOMAIN packets /\ packets'[i] = packets[i]
      BY <2>2, <2>3, <2>6
    <3>2. PICK j \in DOMAIN sent : packets[i] = stuffed(sent[j])
      BY <1>7, <3>1 DEF Whole
    <3>3. QED
      BY <1>6, <3>1, <3>2
  <2>7. QED
    BY <2>5, <2>6
<1>10. Undisturbed'
  BY <1>2, <1>7 DEF Whole, Undisturbed
<1>11. \A i \in DOMAIN received : \E j \in DOMAIN sent' : received[i] = sent'[j]
  BY <1>6, <1>7 DEF Whole
<1>12. Idle' \/ \E j \in DOMAIN sent' : Reading(sent'[j], <<>>, escRead, result, Pending)
  <2>1. CASE Idle
    BY <1>2, <1>4, <2>1 DEF Idle
  <2>2. CASE \E j \in DOMAIN sent : Reading(sent[j], <<>>, escRead, result, Pending)
    BY <1>6, <2>2
  <2>3. QED
    BY <1>7, <2>1, <2>2 DEF Whole
<1>13. QED
  BY <1>2, <1>4, <1>9, <1>10, <1>11, <1>12 DEF Whole

LEMMA WholeScan ==
    ASSUME Types, Types', ~reliable, Whole, Scan
    PROVE  Whole'
<1> DEFINE b == Head(buffer)
<1>1. /\ UNCHANGED <<reliable, sent, packets, polling, status, received>>
      /\ buffer # <<>> /\ buffer' = Tail(buffer) /\ polling
      /\ \/ (escRead \/ b = Plain) /\ escRead' = FALSE /\ result' = Append(result, b)
         \/ ~escRead /\ b = ESC /\ escRead' = TRUE /\ result' = result
  BY DEF Scan
<1>2. /\ b \in Bytes /\ Pending' \in Strings /\ Pending # <<>>
      /\ Head(Pending) = b /\ Tail(Pending) = Pending'
  BY <1>1, PendingByte
<1>3. PICK j \in DOMAIN sent : Reading(sent[j], <<>>, escRead, result, Pending)
  BY <1>2 DEF Whole, Idle
<1>4. Reading(sent[j], <<>>, escRead', result', Pending')
  <2> DEFINE m == sent[j]
  <2>1. m \in Strings /\ <<>> \in Strings /\ escRead \in BOOLEAN
    BY SentFacts, EmptyRight DEF Types, TypeOK, Strings
  <2> HIDE DEF m, b
  <2>2. Reading(m, <<>>, escRead, result, Pending)
    BY <1>3 DEF m
  <2>3. /\ escRead \/ b = Plain => Reading(m, <<>>, FALSE, Append(result, b), Pending')
        /\ ~escRead /\ b = ESC => Reading(m, <<>>, TRUE, result, Pending')
    BY <1>2, <2>1, <2>2, ReadByte
  <2>4. Reading(m, <<>>, escRead', result', Pending')
    BY <1>1, <2>3 DEF b
  <2>5. QED
    BY <2>4 DEF m
<1>5. Undisturbed'
  BY <1>1 DEF Whole, Undisturbed
<1>6. QED
  BY <1>1, <1>4, <1>5 DEF Whole

LEMMA WholeEnd ==
    ASSUME Types, Types', ~reliable, Whole, EndOfMessage
    PROVE  Whole'
<1> DEFINE b == Head(buffer)
<1>1. /\ UNCHANGED <<reliable, sent, packets, escRead>>
      /\ buffer # <<>> /\ buffer' = Tail(buffer) /\ polling' = FALSE
      /\ ~escRead /\ b = FLAG /\ result' = <<>>
  BY DEF EndOfMessage
<1>2. status' = "Message_valid" /\ received' = Append(received, result)
  BY DEF EndOfMessage, Whole, Undisturbed
<1>3. /\ Pending # <<>> /\ Head(Pending) = b /\ Tail(Pending) = Pending'
  BY <1>1, PendingByte
<1>4. PICK j \in DOMAIN sent : Reading(sent[j], <<>>, escRead, result, Pending)
  BY <1>3 DEF Whole, Idle
<1>5. result = sent[j] /\ Pending' = <<>>
  <2> DEFINE m == sent[j]
  <2>1. m \in Strings /\ <<>> \in Strings /\ escRead \in BOOLEAN
    BY SentFacts, EmptyRight DEF Types, TypeOK, Strings
  <2> HIDE DEF m, b
  <2>2. Reading(m, <<>>, escRead, result, Pending)
    BY <1>4 DEF m
  <2>3. Complete(m, <<>>, result, Tail(Pending))
    BY <1>1, <1>3, <2>1, <2>2, ReadByte DEF b
  <2>4. QED
    BY <1>3, <2>3 DEF m, Complete
<1>6. \A i \in DOMAIN received' : \E k \in DOMAIN sent : received'[i] = sent[k]
  <2>1. result \in Strings /\ Len(received) \in Nat /\ DOMAIN received = 1 .. Len(received)
    BY TypesFacts
  <2>2. /\ Len(received') = Len(received) + 1 /\ received'[Len(received) + 1] = result
        /\ \A i \in 1 .. Len(received) : received'[i] = received[i]
        /\ DOMAIN received' = 1 .. Len(received')
    BY <1>2, <2>1, TypesFacts, AppendProperties
  <2>3. SUFFICES ASSUME NEW i \in DOMAIN received'
                 PROVE  \E k \in DOMAIN sent : received'[i] = sent[k]
    OBVIOUS
  <2>4. CASE i = Len(received) + 1
    BY <1>5, <2>2, <2>4
  <2>5. CASE i # Len(received) + 1
    <3>1. i \in DOMAIN received /\ received'[i] = received[i]
      BY <2>1, <2>2, <2>5
    <3>2. QED
      BY <3>1 DEF Whole
  <2>6. QED
    BY <2>4, <2>5
<1>7. Undisturbed'
  BY <1>1, <1>2 DEF Undisturbed
<1>8. Idle'
  BY <1>1, <1>5 DEF Idle
<1>9. QED
  BY <1>1, <1>6, <1>7, <1>8 DEF Whole

\* Any packet that is read is a message.
LEMMA WholeRead ==
    ASSUME Types, Types', ~reliable, Whole, Read
    PROVE  Whole'
<1>1. /\ UNCHANGED <<reliable, sent, packets, escRead, result, polling, status, received>>
      /\ buffer = <<>>
  BY DEF Read
<1>2. PICK i \in DOMAIN packets : buffer' = packets[i]
  BY DEF Read
<1>3. PICK j \in DOMAIN sent : packets[i] = stuffed(sent[j])
  BY DEF Whole
<1>4. Pending = <<>> /\ Pending' = stuffed(sent[j])
  BY <1>1, <1>2, <1>3 DEF Pending
<1>5. Idle
  <2>1. ASSUME NEW k \in DOMAIN sent, Reading(sent[k], <<>>, escRead, result, Pending)
        PROVE  FALSE
    <3>1. sent[k] \in Strings /\ <<>> \in Strings
      BY SentFacts, EmptyRight DEF Strings
    <3>2. Pending # <<>>
      BY <2>1, <3>1, ReadingFacts
    <3>3. QED
      BY <1>4, <3>2
  <2>2. QED
    BY <2>1 DEF Whole
<1>6. Reading(sent[j], <<>>, escRead', result', Pending')
  <2>1. sent[j] \in Strings /\ <<>> \in Strings /\ stuffed(sent[j]) \in Strings
    BY SentFacts, StuffedType, EmptyRight DEF Strings
  <2>2. Reading(sent[j], <<>>, FALSE, <<>>, stuffed(sent[j]) \o <<>>)
    BY <2>1, StartsReading
  <2>3. stuffed(sent[j]) \o <<>> = stuffed(sent[j])
    BY <2>1, EmptyRight
  <2>4. escRead' = FALSE /\ result' = <<>>
    BY <1>1, <1>5 DEF Idle, Types, TypeOK
  <2>5. QED
    BY <1>4, <2>2, <2>3, <2>4
<1>7. Undisturbed'
  BY <1>1 DEF Whole, Undisturbed
<1>8. QED
  BY <1>1, <1>6, <1>7 DEF Whole

LEMMA WholeStep ==
    ASSUME Types, Types', ~reliable, Fit', Fit => Whole, [Next]_vars
    PROVE  Whole'
<1>1. CASE transmit
  BY <1>1, WholeSend
<1>2. CASE ~transmit
  <2>1. sent' = sent
    BY <1>2 DEF Next, Receive, Poll, Scan, EndOfMessage, Overlong, Read, NothingToRead, vars
  <2>2. Whole
    BY <2>1 DEF Fit
  <2>3. CASE Poll
    <3>1. /\ UNCHANGED <<reliable, sent, packets, buffer, escRead, status, received>>
          /\ polling' = TRUE /\ result' = result
      BY <2>2, <2>3 DEF Poll, Whole, Undisturbed
    <3>2. Pending' = Pending /\ Undisturbed'
      BY <2>2, <3>1 DEF Pending, Whole, Undisturbed
    <3>3. QED
      BY <2>2, <3>1, <3>2, WholeKept
  <2>4. CASE Scan
    BY <2>2, <2>4, WholeScan
  <2>5. CASE EndOfMessage
    BY <2>2, <2>5, WholeEnd
  <2>6. CASE Overlong
    <3>1. Len(result) = MAX_MESSAGE_NB + 1
      BY <2>6, Assumed DEF Overlong
    <3>2. CASE Idle
      <4>1. Len(result) = 0
        BY <3>2 DEF Idle
      <4>2. QED
        BY <3>1, <4>1, Assumed
    <3>3. ASSUME NEW j \in DOMAIN sent, Reading(sent[j], <<>>, escRead, result, Pending)
          PROVE  FALSE
      <4>1. sent[j] \in Strings /\ <<>> \in Strings
        BY SentFacts, EmptyRight DEF Strings
      <4>2. Len(result) <= Len(sent[j])
        BY <3>3, <4>1, ReadingFacts
      <4>3. QED
        BY <3>1, <4>2, SentFacts, Assumed
    <3>4. QED
      BY <2>2, <3>2, <3>3 DEF Whole
  <2>7. CASE Read
    BY <2>2, <2>7, WholeRead
  <2>8. CASE NothingToRead
    <3>1. /\ UNCHANGED <<reliable, sent, packets, buffer, escRead, result, received>>
          /\ polling' = FALSE /\ status' = Incomplete(Len(result))
      BY <2>8 DEF NothingToRead
    <3>2. Undisturbed'
      <4>1. result # <<>> => Len(result) > 0
        BY TypesFacts DEF Strings
      <4>2. QED
        BY <2>2, <3>1, <4>1 DEF Undisturbed, Whole, Incomplete
    <3>3. Pending' = Pending
      BY <3>1 DEF Pending
    <3>4. QED
      BY <2>2, <3>1, <3>2, <3>3, WholeKept
  <2>9. CASE UNCHANGED vars
    <3>1. Undisturbed' /\ Pending' = Pending
      BY <2>2, <2>9 DEF vars, Undisturbed, Whole, Pending
    <3>2. QED
      BY <2>2, <2>9, <3>1, WholeKept DEF vars
  <2>10. QED
    BY <1>2, <2>3, <2>4, <2>5, <2>6, <2>7, <2>8, <2>9 DEF Next, Receive
<1>3. QED
  BY <1>1, <1>2

-----------------------------------------------------------------------------
(* The invariants of Framing                                               *)

LEMMA Invariance == Spec => []Inv
<1>1. Init => Inv
  <2> SUFFICES ASSUME Init PROVE Inv
    OBVIOUS
  <2>1. Types
    BY TypesInit
  <2>2. /\ sent = <<>> /\ packets = <<>> /\ buffer = <<>> /\ escRead = FALSE
        /\ result = <<>> /\ status = "Channel_empty" /\ received = <<>>
    BY DEF Init
  <2>3. Idle
    <3>1. FlattenSeq(packets) = <<>> /\ <<>> \o <<>> = <<>>
      BY <2>2 DEF FlattenSeq
    <3>2. QED
      BY <2>2, <3>1 DEF Idle, Pending
  <2>4. Undisturbed
    BY <2>2 DEF Undisturbed
  <2>5. /\ Len(received) = Len(sent) /\ Len(received) <= Len(sent)
        /\ \A i \in 1 .. Len(received) : FALSE
        /\ \A i \in DOMAIN packets : FALSE
        /\ \A i \in DOMAIN received : FALSE
    BY <2>2
  <2>6. QED
    BY <2>1, <2>3, <2>4, <2>5 DEF Inv, InOrder, Whole
<1>2. Inv /\ [Next]_vars => Inv'
  <2> SUFFICES ASSUME Inv, [Next]_vars PROVE Inv'
    OBVIOUS
  <2>1. Types /\ Types'
    BY TypesStep DEF Inv
  <2>2. reliable' = reliable
    BY DEF Next, Receive, transmit, Poll, Scan, EndOfMessage, Overlong, Read,
           NothingToRead, vars
  <2>3. reliable => InOrder'
    BY <2>1, OrderStep DEF Inv
  <2>4. ~reliable /\ Fit' => Whole'
    BY <2>1, WholeStep DEF Inv
  <2>5. QED
    BY <2>1, <2>2, <2>3, <2>4 DEF Inv
<1>3. QED
  BY <1>1, <1>2, PTL DEF Spec

\* However packets cut the bytes, and an ESC from the byte after it, messages
\* that arrive in order are received in order, each as it was sent: udp_io.c
\* keeps what it did not scan and enc_dec.c continues a message from the part
\* that was read.
THEOREM Orderly == Spec => []InOrderIntact
<1>1. Inv => InOrderIntact
  <2> SUFFICES ASSUME Inv, reliable, NEW i \in DOMAIN received
               PROVE  i <= Len(sent) /\ received[i] = sent[i]
    BY DEF InOrderIntact
  <2>1. /\ i \in 1 .. Len(received) /\ Len(received) \in Nat /\ Len(sent) \in Nat
    BY TypesFacts DEF Inv
  <2>2. QED
    BY <2>1 DEF Inv, InOrder
<1>2. QED
  BY <1>1, Invariance, PTL

\* A message that fits a packet is received as it was sent or not at all, even
\* if packets are lost, repeated or reordered: none leaves a part behind.
THEOREM Intact == Spec => []EachIntact
<1>1. Inv => EachIntact
  <2> SUFFICES ASSUME Inv, Fit
               PROVE  \A i \in DOMAIN received : \E j \in DOMAIN sent : received[i] = sent[j]
    BY DEF EachIntact, Fit
  <2>1. CASE reliable
    <3> SUFFICES ASSUME NEW i \in DOMAIN received
                 PROVE  i \in DOMAIN sent /\ received[i] = sent[i]
      OBVIOUS
    <3>1. /\ i \in 1 .. Len(received) /\ Len(received) \in Nat /\ Len(sent) \in Nat
          /\ DOMAIN sent = 1 .. Len(sent)
      BY TypesFacts DEF Inv
    <3>2. QED
      BY <2>1, <3>1 DEF Inv, InOrder
  <2>2. CASE ~reliable
    BY <2>2 DEF Inv, Whole
  <2>3. QED
    BY <2>1, <2>2
<1>2. QED
  BY <1>1, Invariance, PTL
=============================================================================
