------------------------------- MODULE Ecdsa -------------------------------
(***************************************************************************)
(* Diffie-Hellman and signatures on the curve (ecdh.c, ecdsa.c).  Random   *)
(* scalars are parameters here, and a message is its digest, the SIZE      *)
(* words that SHA-3 leaves in eTmp.  The conversions to and from           *)
(* little-endian bytes are those of endian_convert.c, with bytes of        *)
(* ByteBits bits.                                                          *)
(***************************************************************************)
EXTENDS Curve

CONSTANT ByteBits
ASSUME ByteAssumption == ByteBits \in 1 .. BITS /\ BITS % ByteBits = 0

Byte == 2^ByteBits
WordBytes == BITS \div ByteBits
Bytes == 0 .. (SIZE * WordBytes - 1)

\* Mutant: the bytes of a word are written most significant first.
toLittleEndianSwapped(array) ==
    [i \in Bytes |-> (array[i \div WordBytes]
                        \div Byte^(WordBytes - 1 - (i % WordBytes))) % Byte]

toLittleEndian(array) ==
    [i \in Bytes |-> (array[i \div WordBytes] \div Byte^(i % WordBytes)) % Byte]

toWordArray(array) ==
    [w \in Index |->
        LET upTo[k \in 0 .. WordBytes] ==
                IF k = 0 THEN 0
                ELSE upTo[k - 1] + array[w * WordBytes + k - 1] * Byte^(k - 1)
        IN  upTo[WordBytes]]

g == [X |-> g_mont.x, Y |-> g_mont.y, Z |-> one_mont]

-----------------------------------------------------------------------------
(* Diffie-Hellman.  A sample is drawn until it is in range.                *)
Scalars == {s \in Words : ECInValidRange(s)}

ECDHSample(scalar) == pointMultiply(scalar, g)

PointToBytes(Q) == [x |-> toLittleEndian(Q.x), y |-> toLittleEndian(Q.y)]

\* The point of a scalar as it is sent.
ECDHGenerateRandomSample(scalar) == PointToBytes(toCartesian(ECDHSample(scalar)))

\* A scalar times a point received from the other side.
ECDHPointMultiply(scalar, Q) ==
    PointToBytes(toCartesian(pointMultiply(scalar,
                    toJacobian(toWordArray(Q.x), toWordArray(Q.y)))))

-----------------------------------------------------------------------------
(* Signatures.                                                             *)
ModN(v) == mod_add(v, zero, n)
\* montMul modulo n as a function: TLC computes both factors before the product.
timesN[u \in Words, v \in Words] == montMul(u, v, n, n_prime)
\* The product modulo n, out of the Montgomery domain again.
mulN(u, v) == timesN[timesN[u, v], rn_2]

\* A public key is kept in the Montgomery domain.
ecdsaGenerateKeyPair(privateKey) ==
    LET InMontgomery(Q) == toJacobian(Q.x, Q.y)
    IN  InMontgomery(toCartesian(ECDHSample(privateKey)))

\* What a k that was drawn makes of r; the code draws again if it is zero.
SignatureR(k) == ModN(toCartesian(ECDHSample(k)).x)

ecdsaSign(digest, privateKey, k) ==
    LET s(r) == mulN(mod_inv(k, n), mod_add(mulN(r, privateKey), ModN(digest), n))
        Signature(r) == [r |-> toLittleEndian(r), s |-> toLittleEndian(s(r))]
    IN  Signature(SignatureR(k))

ecdsaCheck(digest, pk_mont, signature) ==
    LET r == toWordArray(signature.r)
        s == toWordArray(signature.s)
        Point(s_inv) ==
            shamirPointMultiply(mulN(ModN(digest), s_inv), g, mulN(r, s_inv), pk_mont)
        Fits(Q) == ~IsInfinity(Q) /\ r = ModN(toCartesian(Q).x)
    IN  /\ ECInValidRange(r) /\ ECInValidRange(s)
        /\ Fits(Point(mod_inv(s, n)))
=============================================================================
