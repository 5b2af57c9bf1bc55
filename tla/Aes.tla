-------------------------------- MODULE Aes --------------------------------
(***************************************************************************)
(* AES with 128-bit keys (aes.c), which exists twice: AESRound is one      *)
(* round out of four tables, for AEGIS; Cipher is the whole cipher out of  *)
(* its four steps, for the random bit generator.  A block is an array of   *)
(* 16 bytes, four columns of four.                                         *)
(***************************************************************************)
EXTENDS Integers, Sequences

AnyByte == 0 .. 255
Place   == 0 .. 15
Block   == [Place -> AnyByte]

(* Tables of the two bitwise operations on bytes. *)
BitWorth(u, power) == (u \div power) % 2   \* the bit of u that is worth power
ByteOfBits(bit(_)) ==
    bit(1) + 2 * bit(2) + 4 * bit(4) + 8 * bit(8)
        + 16 * bit(16) + 32 * bit(32) + 64 * bit(64) + 128 * bit(128)
XorTable == [u \in AnyByte |-> [v \in AnyByte |->
    ByteOfBits(LAMBDA power : (BitWorth(u, power) + BitWorth(v, power)) % 2)]]
AndTable == [u \in AnyByte |-> [v \in AnyByte |->
    ByteOfBits(LAMBDA power : BitWorth(u, power) * BitWorth(v, power))]]
xor(u, v) == XorTable[u][v]
xor4(u, v, w, x) == xor(xor(u, v), xor(w, x))
XOR128(f, g) == [i \in Place |-> xor(f[i], g[i])]
AND128(f, g) == [i \in Place |-> AndTable[f[i]][g[i]]]

sboxTable == <<
       99, 124, 119, 123, 242, 107, 111, 197, 48, 1, 103, 43, 254, 215, 171, 118,
       202, 130, 201, 125, 250, 89, 71, 240, 173, 212, 162, 175, 156, 164, 114, 192,
       183, 253, 147, 38, 54, 63, 247, 204, 52, 165, 229, 241, 113, 216, 49, 21,
       4, 199, 35, 195, 24, 150, 5, 154, 7, 18, 128, 226, 235, 39, 178, 117,
       9, 131, 44, 26, 27, 110, 90, 160, 82, 59, 214, 179, 41, 227, 47, 132,
       83, 209, 0, 237, 32, 252, 177, 91, 106, 203, 190, 57, 74, 76, 88, 207,
       208, 239, 170, 251, 67, 77, 51, 133, 69, 249, 2, 127, 80, 60, 159, 168,
       81, 163, 64, 143, 146, 157, 56, 245, 188, 182, 218, 33, 16, 255, 243, 210,
       205, 12, 19, 236, 95, 151, 68, 23, 196, 167, 126, 61, 100, 93, 25, 115,
       96, 129, 79, 220, 34, 42, 144, 136, 70, 238, 184, 20, 222, 94, 11, 219,
       224, 50, 58, 10, 73, 6, 36, 92, 194, 211, 172, 98, 145, 149, 228, 121,
       231, 200, 55, 109, 141, 213, 78, 169, 108, 86, 244, 234, 101, 122, 174, 8,
       186, 120, 37, 46, 28, 166, 180, 198, 232, 221, 116, 31, 75, 189, 139, 138,
       112, 62, 181, 102, 72, 3, 246, 14, 97, 53, 87, 185, 134, 193, 29, 158,
       225, 248, 152, 17, 105, 217, 142, 148, 155, 30, 135, 233, 206, 85, 40, 223,
       140, 161, 137, 13, 191, 230, 66, 104, 65, 153, 45, 15, 176, 84, 187, 22 >>
sbox(u) == sboxTable[u + 1]

xtime(u) == xor((u * 2) % 256, (u \div 128) * 27)

-----------------------------------------------------------------------------
\* Byte j of the entry for u in the table TE_k.
TE(k, u, j) == CASE (j - k) % 4 = 0 -> xtime(sbox(u))
                 [] (j - k) % 4 = 3 -> xor(xtime(sbox(u)), sbox(u))
                 [] OTHER -> sbox(u)

\* Mutant: the bytes of a row come from the columns to the left.
AESRoundShiftsBack(in, rk) ==
    [i \in Place |->
        LET Added(from) == xor(rk[i], xor4(from[0], from[1], from[2], from[3]))
        IN  Added([k \in 0 .. 3 |-> TE(k, in[4 * (((i \div 4) - k) % 4) + k], i % 4)])]

\* Column c takes byte k from the column k places further on.
AESRound(in, rk) ==
    [i \in Place |->
        LET Added(from) == xor(rk[i], xor4(from[0], from[1], from[2], from[3]))
        IN  Added([k \in 0 .. 3 |-> TE(k, in[4 * (((i \div 4) + k) % 4) + k], i % 4)])]

-----------------------------------------------------------------------------
Nk == 4
Nr == 10
Rcon == <<1, 2, 4, 8, 16, 32, 64, 128, 27, 54>>

\* The words of the key schedule, from 1; a word is a column of four bytes.
Column == [0 .. 3 -> AnyByte]

\* The words w and the one that follows them.
AppendWord[w \in Seq(Column)] ==
    LET i == Len(w)
        turned == [j \in 0 .. 3 |-> sbox(w[i][(j + 1) % 4])]
        tempa == IF i % Nk # 0 THEN w[i]
                 ELSE [turned EXCEPT ![0] = xor(@, Rcon[i \div Nk])]
    IN  Append(w, [j \in 0 .. 3 |-> xor(w[i + 1 - Nk][j], tempa[j])])

\* Four words a round.
KeyExpansion(key) ==
    LET words[round \in 0 .. Nr] ==
            IF round = 0 THEN [c \in 1 .. Nk |-> [j \in 0 .. 3 |-> key[4 * (c - 1) + j]]]
            ELSE AppendWord[AppendWord[AppendWord[AppendWord[words[round - 1]]]]]
    IN  words[Nr]

AddRoundKey(round, state, RoundKey) ==
    [i \in Place |-> xor(state[i], RoundKey[4 * round + 1 + (i \div 4)][i % 4])]

SubBytes[state \in Block] == [i \in Place |-> sbox(state[i])]

\* Row j moves j columns to the left.
ShiftRows[state \in Block] ==
    [i \in Place |-> state[4 * (((i \div 4) + (i % 4)) % 4) + (i % 4)]]

MixColumns[state \in Block] ==
    [i \in Place |->
        LET at(k) == state[4 * (i \div 4) + ((i + k) % 4)]
            Tmp == xor4(at(0), at(1), at(2), at(3))
        IN  xor(xor(at(0), Tmp), xtime(xor(at(0), at(1))))]

\* The last round has no MixColumns.
Cipher(buf, RoundKey) ==
    LET after[round \in 0 .. Nr] ==
            IF round = 0 THEN AddRoundKey(0, buf, RoundKey)
            ELSE LET shifted == ShiftRows[SubBytes[after[round - 1]]]
                 IN  AddRoundKey(round,
                        IF round = Nr THEN shifted ELSE MixColumns[shifted], RoundKey)
    IN  after[Nr]

AES_ECB_encrypt(key, buf) == Cipher(buf, KeyExpansion(key))
=============================================================================
