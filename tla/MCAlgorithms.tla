---------------------------- MODULE MCAlgorithms ----------------------------
(***************************************************************************)
(* The algorithms of the code against reference definitions, on bounded    *)
(* inputs.  A state is one input: first its kind with a part of it, then   *)
(* the rest.  The long numbers have three words of two bits, the curve has *)
(* 53 points over 59 elements, and shares with P-256 what the code relies  *)
(* on: a = p - 3, and top words of p and n all ones and above b's.  AES,   *)
(* AEGIS and SHA-3 are the real ones.                                      *)
(***************************************************************************)
EXTENDS SeqNb, Ecdsa, Aegis, Sha3, Drbg, Standards, FiniteSets

VARIABLE input

None == [kind |-> "none"]
Numbers == 0 .. (R - 1)
Few == {1, 2, 5, 14, 27, 33, 44, CurveN - 1}   \* scalars and digests
Points == AffinePoints(CurveP, CurveA, CurveB)
Base1 == <<BaseX, BaseY>>

\* The multiples of the base point, by repeated addition.
Multiple[k \in 0 .. CurveN] ==
    IF k = 0 THEN Infinity ELSE AffineSum(Multiple[k - 1], Base1, CurveP, CurveA)

-----------------------------------------------------------------------------
(* The inputs.                                                             *)
Init == input \in
    [kind : {"seqnb"}, expected : LiveSeqNbs]
    \cup [kind : {"numbers"}, modulus : {CurveP, CurveN}, x : Numbers]
    \cup [kind : {"points"}, m1 : 0 .. (CurveN - 1)]
    \cup [kind : {"secret"}, s1 : Few]
    \cup [kind : {"signature"}, d : Few, k : Few]
    \cup [kind : {"bytes"}, value : AnyByte]
    \cup [kind : {"message"}, adLen : {32, 36, 96}, len : {0, 16, 20}]
    \cup [kind : {"hash"}, len : {0, 7, 8, 135, 136, 137}]
    \cup [kind : {"random"}, source : 0 .. EntropySize]

Extend(more) == input' = [f \in DOMAIN input \cup DOMAIN more |->
                            IF f \in DOMAIN more THEN more[f] ELSE input[f]]
Unfinished(k) == input.kind = k /\ ~("ready" \in DOMAIN input)
Ready(k) == input.kind = k /\ "ready" \in DOMAIN input

Distance == Unfinished("seqnb") /\ \E d \in 0 .. (MaxSeqNb - 1) : Extend([ready |-> TRUE, ahead |-> d])
SecondNumber ==
    /\ Unfinished("numbers") /\ input.x < input.modulus
    /\ \E y \in 0 .. (input.modulus - 1) : Extend([ready |-> TRUE, y |-> y])
\* Z coordinates that are not 1, as the sums have that are added up.
SecondPoint ==
    /\ Unfinished("points")
    /\ \E m2 \in 0 .. (CurveN - 1), z \in {<<1, 1>>, <<2, 33>>} :
        Extend([ready |-> TRUE, m2 |-> m2, z1 |-> z[1], z2 |-> z[2]])
OtherSecret == Unfinished("secret") /\ \E s \in Few : Extend([ready |-> TRUE, s2 |-> s])
Digest == Unfinished("signature") /\ \E e \in {0, 1, 20, CurveN - 1, CurveN, R - 1} : Extend([ready |-> TRUE, e |-> e])
\* Every value of a byte, and every place of a block.
Places ==
    /\ Unfinished("bytes")
    /\ \E i \in IF input.value < 3 THEN Place ELSE {input.value % 16} :
            Extend([ready |-> TRUE, i |-> i])
\* A message arrives as it was sent, or with one byte damaged.
Transmit ==
    /\ Unfinished("message")
    /\ \E at \in {-1, 0, 4, 17, 31} \cup {input.adLen - 1}
                 \cup {input.adLen, input.adLen + input.len + 15} :
            Extend([ready |-> TRUE, at |-> at])
Cut == Unfinished("hash") /\ \E c \in {0, 3, 8, 21} : c <= input.len /\ Extend([ready |-> TRUE, cut |-> c])
Calls == Unfinished("random") /\ \E c \in {1, MaxCounter + 2} : Extend([ready |-> TRUE, calls |-> c])

Next == Distance \/ SecondNumber \/ SecondPoint \/ OtherSecret \/ Digest \/ Places
        \/ Transmit \/ Cut \/ Calls
Spec == Init /\ [][Next]_input

-----------------------------------------------------------------------------
(* Sequence numbers (enc_dec.c).                                           *)

\* The number a sender has reached after some messages, taken one by one.
Taken(expected, ahead) ==
    LET after[k \in 0 .. ahead] == IF k = 0 THEN expected ELSE addOneSeqNb(after[k - 1])
    IN  after[ahead]

\* However far apart and wherever the wrap-around falls, numbers taken one by
\* one (addOneSeqNb, the sender), computed in one addition (addMultSeqNb, the
\* receiver) and subtracted (diffSeqNb) agree, and so do the window tests of
\* checkReceivedMessage and of removeBadMessages.
SequenceNumbersAgree ==
    Ready("seqnb") =>
        LET number == Taken(input.expected, input.ahead)
        IN  /\ number = addMultSeqNb(input.expected, input.ahead)
            /\ diffSeqNb(input.expected, number) = input.ahead
            /\ InFeedWindow(input.expected, number) <=> input.ahead < MAX_MISSED_SEQNBS

-----------------------------------------------------------------------------
(* Numbers and curve (mod_arithmetic.c, ec_arithmetic.c).                  *)

\* However the carries run through the words and out of the top one, sums and
\* differences are those of the numbers modulo p or n, and montMul gives x y / R,
\* reduced.
ArithmeticIsModular ==
    Ready("numbers") =>
        LET u == FromValue(input.x)  v == FromValue(input.y)  m == FromValue(input.modulus)
            product == Value(montMul(u, v, m, Prime(input.modulus)))
        IN  /\ Value(mod_add(u, v, m)) = (input.x + input.y) % input.modulus
            /\ Value(mod_sub(u, v, m)) = (input.x - input.y) % input.modulus
            /\ product < input.modulus
            /\ (product * R) % input.modulus = (input.x * input.y) % input.modulus

\* mod_inv ends, and gives the inverse; halving must keep the bit that an odd
\* number plus the modulus carries out of the top word.
InversesInvert ==
    input.kind = "numbers" /\ input.x \in 1 .. (input.modulus - 1) =>
        (Value(mod_inv(FromValue(input.x), FromValue(input.modulus))) * input.x)
            % input.modulus = 1

\* What passes ECInValidRange is in 1 .. n-1, although it compares with b; the
\* numbers it wrongly refuses all have n's top word, so a random one is rarely
\* among them.
ScalarsInRange ==
    input.kind = "numbers" =>
        LET number == FromValue(input.x)
        IN  /\ ECInValidRange(number) => input.x \in 1 .. (CurveN - 1)
            /\ input.x \in 1 .. (CurveN - 1) /\ number[SIZE - 1] < n[SIZE - 1]
                    => ECInValidRange(number)

\* A point in Jacobian coordinates with any Z.
Jacobian(Q, z) ==
    IF Q = Infinity THEN PointAtInfinity
    ELSE [X |-> Montgomery((Q[1] * z * z) % CurveP),
          Y |-> Montgomery((Q[2] * ((z * z * z) % CurveP)) % CurveP),
          Z |-> Montgomery(z)]
Affine(Q) == LET Pair(c) == <<Value(c.x), Value(c.y)>> IN Pair(toCartesian(Q))

\* pointAdd is the group law whatever the Z coordinates and in every special
\* case: equal points, opposite points, infinity on either side; isOnCurve
\* accepts the sums and refuses a point beside them.
GroupLaw ==
    Ready("points") =>
        LET sum == Multiple[(input.m1 + input.m2) % CurveN]
        IN  /\ sum = Affine(pointAdd(Jacobian(Multiple[input.m1], input.z1),
                                     Jacobian(Multiple[input.m2], input.z2)))
            /\ isOnCurve(FromValue(sum[1]), FromValue(sum[2]))
            /\ <<sum[1], (sum[2] + 1) % CurveP>> \notin Points
                => ~isOnCurve(FromValue(sum[1]), FromValue((sum[2] + 1) % CurveP))

\* Either side of key establishment computes the point of the product of the
\* two scalars, from its own scalar and the bytes the other side sent.
SecretsAgree ==
    Ready("secret") =>
        LET Coordinates(secret) ==
                <<Value(toWordArray(secret.x)), Value(toWordArray(secret.y))>>
            received == ECDHGenerateRandomSample(FromValue(input.s2))
        IN  Coordinates(ECDHPointMultiply(FromValue(input.s1), received))
                = Multiple[(input.s1 * input.s2) % CurveN]

\* What ecdsaSign signs ecdsaCheck accepts, whatever the digest, up to twice n,
\* unless one of the two numbers is refused by ECInValidRange.
SignaturesVerify ==
    Ready("signature") =>
        LET digest == FromValue(input.e)
            d == FromValue(input.d)
            Number == [Bytes -> 0 .. (Byte - 1)]
            Verifies(signature, pk_mont) ==
                /\ signature \in [r : Number, s : Number]
                /\ pk_mont \in [X : Words, Y : Words, Z : Words]
                /\ ecdsaCheck(digest, pk_mont, signature)
                    <=> /\ ECInValidRange(toWordArray(signature.r))
                        /\ ECInValidRange(toWordArray(signature.s))
        IN  Verifies(ecdsaSign(digest, d, FromValue(input.k)), ecdsaGenerateKeyPair(d))

-----------------------------------------------------------------------------
(* AES, AEGIS, SHA-3 and the random bit generator.                         *)

\* The table round of AEGIS and the round of Cipher, two pieces of code that
\* never meet, are the AES round: S-box, rows, columns and key; and the whole
\* of Cipher with its key schedule is AES.
RoundsAreStandard ==
    Ready("bytes") =>
        LET block == [i \in Place |-> IF i = input.i THEN input.value ELSE (11 * i) % 256]
            rk == [i \in Place |-> (29 * i + 5) % 256]
            shifted == [i \in Place |-> SBoxOf(block[4 * (((i \div 4) + (i % 4)) % 4) + (i % 4)])]
            mixed == [i \in Place |->
                        MixedByte([k \in 0 .. 3 |-> shifted[4 * (i \div 4) + k]], i % 4)]
            round == [i \in Place |-> XorBytes(mixed[i], rk[i])]
        IN  /\ AESRound(block, rk) = round
            /\ MixColumns[ShiftRows[SubBytes[block]]] = mixed
            /\ input.value = 0 => AES_ECB_encrypt(rk, block) = AESStandard(rk, block)

\* A message as the code builds it: the header with the IV, then the payload.
Sent == [i \in 0 .. (input.adLen + input.len - 1) |-> (7 * i + 3) % 256]
Key == [i \in Place |-> (31 * i + 9) % 256]
IVOf(message) == From(message, 4, 16)
Encrypted == aegisEncryptMessage(Key, IVOf(Sent), Sent, input.adLen, input.len)
Received ==
    LET Damaged(message) == [i \in DOMAIN message |->
                                IF i = input.at THEN (message[i] + 64) % 256 ELSE message[i]]
        Decrypted(message) ==
            aegisDecryptMessage(Key, IVOf(message), message, input.adLen, input.len)
    IN  Decrypted(Damaged(Encrypted))

\* A message that arrives as it was sent is accepted and decrypted in place,
\* whatever its length, the empty payload and a last block that is not full
\* among them; one with a byte damaged anywhere before the last block of the
\* header, or in payload or MAC, is not accepted.
IntactMessagesOpen ==
    Ready("message") =>
        LET AsPromised(received) ==
                /\ input.at = -1 =>
                     /\ received.correct
                     /\ \A i \in DOMAIN Sent : received.message[i] = Sent[i]
                /\ input.at # -1 /\ input.at \notin LastBlock(input.adLen) .. (input.adLen - 1)
                     => ~received.correct
        IN  AsPromised(Received)

\* As the comments of aegis.c have it, the MAC covers the associated data: a
\* byte damaged anywhere makes the MAC differ.
DamageAnywhereIsRejected ==
    Ready("message") /\ input.at # -1 => ~Received.correct

\* sha3_HashBuffer is SHA3-256, also where the two ends of the padding share
\* the last byte of a block, and hashing in two calls cut anywhere is the same.
HashIsSha3 ==
    Ready("hash") =>
        LET message == [i \in 1 .. input.len |-> (13 * i + 200) % 256]
            start == sha3_Update(sha3_Init(256, FALSE), SubSeq(message, 1, input.cut))
            twice == sha3_Finalize(sha3_Update(start, SubSeq(message, input.cut + 1, input.len)))
            hash == sha3_HashBuffer(256, FALSE, message)
        IN  /\ hash = SHA3Standard(256, message)
            /\ \A j \in DOMAIN hash : twice[j] = hash[j]

\* Unless the source cannot be opened, every byte read from it ends up in one
\* seed, once, and nothing else but the personalization string does.
EntropyUsedOnce ==
    Ready("random") =>
        LET after[k \in 0 .. input.calls] ==
                IF k = 0 THEN InitialGenerator ELSE getRandomBytes(after[k - 1], input.source)
            fresh(seed) == {i \in DOMAIN seed : seed[i].fresh}
            used(seeds) == UNION {{k} \X fresh(seeds[k]) : k \in DOMAIN seeds}
            AllUsed(seeds) ==
                /\ \A k \in DOMAIN seeds : \A i \in DOMAIN seeds[k] :
                        seeds[k][i].fresh \/ (k = 1 /\ seeds[k][i] = Personal)
                /\ {seeds[u[1]][u[2]].place : u \in used(seeds)} = 0 .. (input.source - 1)
                /\ Cardinality(used(seeds)) = input.source
            NoneLeft(gen) == AllUsed(gen.seeds) /\ gen.fresh = {}
        IN  NoneLeft(after[input.calls])
=============================================================================
