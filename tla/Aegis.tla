------------------------------- MODULE Aegis -------------------------------
(***************************************************************************)
(* The authenticated cipher AEGIS-128 (aegis.c), which seals every message *)
(* of the protocol: the header is associated data, in the clear, the       *)
(* payload is encrypted, and a MAC follows.  Arrays start at 0, as in C.   *)
(***************************************************************************)
EXTENDS Aes

Zero == [i \in Place |-> 0]

\* n bytes of an array from byte i on, padded with zeros to a block.
Padded(array, i, n) == [k \in Place |-> IF k < n THEN array[i + k] ELSE 0]

constant0 == [i \in Place |->
    <<0, 1, 1, 2, 3, 5, 8, 13, 21, 34, 55, 89, 144, 233, 121, 98>>[i + 1]]
constant16 == [i \in Place |->
    <<219, 61, 24, 85, 109, 194, 47, 241, 32, 17, 49, 66, 115, 181, 40, 221>>[i + 1]]

\* A state is five blocks; each is one round of the block below it.
FiveBlocks == [0 .. 4 -> Block]
stateUpdate128[state \in FiveBlocks] == [message \in Block |->
    [k \in 0 .. 4 |->
        XOR128(AESRound(state[(k - 1) % 5], state[k]), IF k = 0 THEN message ELSE Zero)]]

initialization(key, iv) ==
    LET first == [k \in 0 .. 4 |->
            CASE k = 0 -> XOR128(key, iv)
              [] k = 1 -> constant16
              [] k = 2 -> constant0
              [] k = 3 -> XOR128(key, constant0)
              [] k = 4 -> XOR128(key, constant16)]
        after[i \in 0 .. 10] ==
            IF i = 0 THEN first
            ELSE stateUpdate128[after[i - 1]][IF i % 2 = 1 THEN key ELSE XOR128(key, iv)]
    IN  after[10]

\* The offset of the last block of len bytes, which may be a whole one.
LastBlock(len) == IF len = 0 THEN 0 ELSE 16 * ((len - 1) \div 16)

\* The last block is copied from the start of ad, not from ad + i.
associatedData(state, ad, adlen) ==
    LET last == LastBlock(adlen)
        fed[k \in 0 .. (last \div 16)] ==
            IF k = 0 THEN state
            ELSE stateUpdate128[fed[k - 1]][Padded(ad, 16 * (k - 1), 16)]
    IN  IF adlen = 0 THEN state
        ELSE stateUpdate128[fed[last \div 16]][Padded(ad, 0, adlen - last)]

KeyStream(state) ==
    XOR128(XOR128(AND128(state[2], state[3]), state[4]), state[1])

\* Mutant: the padding of the last plaintext block is not cleared again.
xcryptKeepsPadding(state, input, msglen, encrypt) ==
    LET step[k \in 0 .. ((LastBlock(msglen) \div 16) + 1)] ==
            IF k = 0 THEN [state |-> state, out |-> <<>>]
            ELSE LET before == step[k - 1]
                     i == 16 * (k - 1)
                     inp == Padded(input, i, msglen - i)
                     outp == XOR128(KeyStream(before.state), inp)
                     taken == IF encrypt THEN inp ELSE outp
                 IN  [state |-> stateUpdate128[before.state][taken],
                      out |-> Append(before.out, outp)]
        Crypted(end) ==
            [state |-> end.state,
             out |-> [i \in 0 .. (msglen - 1) |-> end.out[(i \div 16) + 1][i % 16]]]
    IN  Crypted(step[(LastBlock(msglen) \div 16) + 1])

\* Block by block; the state takes up the plaintext, zeros after its end.
\* There is always a last block, an empty one if the message is empty.
xcrypt(state, input, msglen, encrypt) ==
    LET step[k \in 0 .. ((LastBlock(msglen) \div 16) + 1)] ==
            IF k = 0 THEN [state |-> state, out |-> <<>>]
            ELSE LET before == step[k - 1]
                     i == 16 * (k - 1)
                     inp == Padded(input, i, msglen - i)
                     outp == XOR128(KeyStream(before.state), inp)
                     taken == IF encrypt THEN inp ELSE Padded(outp, 0, msglen - i)
                 IN  [state |-> stateUpdate128[before.state][taken],
                      out |-> Append(before.out, outp)]
        Crypted(end) ==
            [state |-> end.state,
             out |-> [i \in 0 .. (msglen - 1) |-> end.out[(i \div 16) + 1][i % 16]]]
    IN  Crypted(step[(LastBlock(msglen) \div 16) + 1])

\* The two lengths in bits, as 64-bit numbers; those of the code fit 32 bits.
LengthBlock(adlen, msglen) ==
    LET byte(v, j) == IF j < 4 THEN (v \div 256^j) % 256 ELSE 0
    IN  [i \in Place |-> IF i < 8 THEN byte(8 * adlen, i) ELSE byte(8 * msglen, i - 8)]

finalization(state, adlen, msglen) ==
    LET tmp == XOR128(LengthBlock(adlen, msglen), state[3])
        after[i \in 0 .. 7] ==
            IF i = 0 THEN state ELSE stateUpdate128[after[i - 1]][tmp]
        Tag(s) == XOR128(XOR128(XOR128(XOR128(s[0], s[1]), s[2]), s[3]), s[4])
    IN  Tag(after[7])

aegisCrypt(key, iv, ad, adlen, input, len, encrypt) ==
    LET Finished(x) == [out |-> x.out, tag |-> finalization(x.state, adlen, len)]
    IN  Finished(xcrypt(associatedData(initialization(key, iv), ad, adlen), input, len, encrypt))

-----------------------------------------------------------------------------
(* A message is its associated data, its payload and its MAC, in one array. *)
From(message, offset, len) == [i \in 0 .. (len - 1) |-> message[offset + i]]

aegisEncryptMessage(key, iv, message, adLen, plainLen) ==
    LET Sealed(x) ==
            [i \in 0 .. (adLen + plainLen + 15) |->
                IF i < adLen THEN message[i]
                ELSE IF i < adLen + plainLen THEN x.out[i - adLen]
                ELSE x.tag[i - adLen - plainLen]]
    IN  Sealed(aegisCrypt(key, iv, message, adLen, From(message, adLen, plainLen), plainLen, TRUE))

\* The message with its payload decrypted in place, and whether the MAC fits.
aegisDecryptMessage(key, iv, message, adLen, cipherLen) ==
    LET Opened(x) ==
            [message |-> [i \in DOMAIN message |->
                            IF i >= adLen /\ i < adLen + cipherLen THEN x.out[i - adLen]
                            ELSE message[i]],
             correct |-> x.tag = From(message, adLen + cipherLen, 16)]
    IN  Opened(aegisCrypt(key, iv, message, adLen, From(message, adLen, cipherLen), cipherLen, FALSE))
=============================================================================
