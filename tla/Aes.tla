-------------------------------- MODULE Aes --------------------------------
(***************************************************************************)
(* The block ciphers: AES as aes-cbc.c computes it (tables, 128 and 256    *)
(* bits), as aes128.c does (128 bits, rounds in place), as aes-x86.c does  *)
(* with the processor's instructions, and TEA (tea.c).  A block is a tuple *)
(* of 16 bytes, column by column, the order it has in memory; row r of     *)
(* column c is at 4c + r.  A schedule is a tuple of 4-byte words.          *)
(***************************************************************************)
EXTENDS Integers, SequencesExt, Bitwise

XorNibble == [a \in 0..15 |-> [b \in 0..15 |-> a ^^ b]]
XorByte(a, b) == 16 * XorNibble[a \div 16][b \div 16] + XorNibble[a % 16][b % 16]

Word4(F(_)) == <<F(0), F(1), F(2), F(3)>>
Block16(F(_)) ==
    <<F(0), F(1), F(2), F(3), F(4), F(5), F(6), F(7),
      F(8), F(9), F(10), F(11), F(12), F(13), F(14), F(15)>>

(* Always so; the loops over the rounds ask it so that TLC computes each   *)
(* round before it starts the next.                                        *)
IsBlock(s) == Len(s) = 16

XorWord(v, w) == Word4(LAMBDA i : XorByte(v[i + 1], w[i + 1]))
XorBlock(a, b) == Block16(LAMBDA i : XorByte(a[i + 1], b[i + 1]))

(* The same table is sbox in aes128.c.                                     *)
aes_sbox == <<
    99, 124, 119, 123, 242, 107, 111, 197, 48, 1, 103, 43, 254, 215, 171, 118,
    202, 130, 201, 125, 250, 89, 71, 240, 173, 212, 162, 175, 156, 164, 114, 192,
    183, 253, 147, 38, 54, 63, 247, 204, 52, 165, 229, 241, 113, 216, 49, 21,
    4, 199, 35, 195, 24, 150, 5, 154, 7, 18, 128, 226, 235, 39, 178, 117,
    9, 131, 44, 26, 27, 110, 90, 160, 82, 59, 214, 179, 41, 227, 47, 132,
    83, 209, 0, 237, 32, 252, 177, 91, 106, 203, 190, 57, 74, 76, 88, 207,
    208, 239, 170, 251, 67, 77, 51, 133, 69, 249, 2, 127, 80, 60, 159, 168,
    81, 163, 64, 143, 146, 157, 56, 245, 188, 182, 218, 33, 16, 255, 243, 210,
    205, 12, 19, 236, 95, 151, 68, 23, 196, 167, 126, 61, 100, 93, 25, 115,
    96, 129, 79, 220, 34, 42, 144, 136, 70, 238, 184, 20, 222, 94, 11, 219,
    224, 50, 58, 10, 73, 6, 36, 92, 194, 211, 172, 98, 145, 149, 228, 121,
    231, 200, 55, 109, 141, 213, 78, 169, 108, 86, 244, 234, 101, 122, 174, 8,
    186, 120, 37, 46, 28, 166, 180, 198, 232, 221, 116, 31, 75, 189, 139, 138,
    112, 62, 181, 102, 72, 3, 246, 14, 97, 53, 87, 185, 134, 193, 29, 158,
    225, 248, 152, 17, 105, 217, 142, 148, 155, 30, 135, 233, 206, 85, 40, 223,
    140, 161, 137, 13, 191, 230, 66, 104, 65, 153, 45, 15, 176, 84, 187, 22>>

(* rsbox in aes128.c.                                                      *)
aes_invsbox == <<
    82, 9, 106, 213, 48, 54, 165, 56, 191, 64, 163, 158, 129, 243, 215, 251,
    124, 227, 57, 130, 155, 47, 255, 135, 52, 142, 67, 68, 196, 222, 233, 203,
    84, 123, 148, 50, 166, 194, 35, 61, 238, 76, 149, 11, 66, 250, 195, 78,
    8, 46, 161, 102, 40, 217, 36, 178, 118, 91, 162, 73, 109, 139, 209, 37,
    114, 248, 246, 100, 134, 104, 152, 22, 212, 164, 92, 204, 93, 101, 182, 146,
    108, 112, 72, 80, 253, 237, 185, 218, 94, 21, 70, 87, 167, 141, 157, 132,
    144, 216, 171, 0, 140, 188, 211, 10, 247, 228, 88, 5, 184, 179, 69, 6,
    208, 44, 30, 143, 202, 63, 15, 2, 193, 175, 189, 3, 1, 19, 138, 107,
    58, 145, 17, 65, 79, 103, 220, 234, 151, 242, 207, 206, 240, 180, 230, 115,
    150, 172, 116, 34, 231, 173, 53, 133, 226, 249, 55, 232, 28, 117, 223, 110,
    71, 241, 26, 113, 29, 41, 197, 137, 111, 183, 98, 14, 170, 24, 190, 27,
    252, 86, 62, 75, 198, 210, 121, 32, 154, 219, 192, 254, 120, 205, 90, 244,
    31, 221, 168, 51, 136, 7, 199, 49, 177, 18, 16, 89, 39, 128, 236, 95,
    96, 81, 127, 169, 25, 181, 74, 13, 45, 229, 122, 159, 147, 201, 156, 239,
    160, 224, 59, 77, 174, 42, 245, 176, 200, 235, 187, 60, 131, 83, 153, 97,
    23, 43, 4, 126, 186, 119, 214, 38, 225, 105, 20, 99, 85, 33, 12, 125>>

Sub(table, s) == Block16(LAMBDA i : table[s[i + 1] + 1])

(* galois_mul2 of aes128.c: times x in the field of 256 elements.          *)
galois_mul2(v) == IF v >= 128 THEN XorByte((2 * v) % 256, 27) ELSE 2 * v

(* The table of aes-cbc.c holds the products with 2, 3, 9, 11, 13 and 14.  *)
gf_mul ==
    [v \in 0..255 |->
        LET v2 == galois_mul2(v)
            v4 == galois_mul2(v2)
            v8 == galois_mul2(v4)
        IN  <<v2, XorByte(v2, v), XorByte(v8, v), XorByte(XorByte(v8, v2), v),
              XorByte(XorByte(v8, v4), v), XorByte(XorByte(v8, v4), v2)>>]
-----------------------------------------------------------------------------
(* aes-cbc.c                                                               *)

(* One round key: four words of the schedule, from word k on.              *)
RoundKey(w, k) == w[k + 1] \o w[k + 2] \o w[k + 3] \o w[k + 4]
AddRoundKey(s, w, k) == XorBlock(s, RoundKey(w, k))

SubBytes(s) == Sub(aes_sbox, s)
InvSubBytes(s) == Sub(aes_invsbox, s)

(* Row r moves left, or right, by r columns.                               *)
ShiftRows(s) == Block16(LAMBDA i : s[((i + 4 * (i % 4)) % 16) + 1])
InvShiftRows(s) == Block16(LAMBDA i : s[((i + 12 * (i % 4)) % 16) + 1])

(* Byte i of its column is the sum of the four bytes of the column, each   *)
(* times its coefficient; m(j, v) is the product for the j-th byte after i.*)
Mix(s, m(_, _)) ==
    LET At(i, j) == s[4 * (i \div 4) + ((i + j) % 4) + 1]
    IN  Block16(LAMBDA i : XorByte(XorByte(m(0, At(i, 0)), m(1, At(i, 1))),
                               XorByte(m(2, At(i, 2)), m(3, At(i, 3)))))

MixColumns(s) == Mix(s, LAMBDA j, v : IF j < 2 THEN gf_mul[v][j + 1] ELSE v)
InvMixColumns(s) == Mix(s, LAMBDA j, v : gf_mul[v][<<6, 4, 5, 3>>[j + 1]])

SubWord(v) == Word4(LAMBDA i : aes_sbox[v[i + 1] + 1])
KE_ROTWORD(v) == <<v[2], v[3], v[4], v[1]>>
Rcon == <<1, 2, 4, 8, 16, 32, 64, 128, 27, 54>>
Rounds(keysize) == IF keysize = 128 THEN 10 ELSE 14

RECURSIVE KeySetup(_, _, _)
KeySetup(w, Nk, words) ==
    LET idx == Len(w)
        temp == IF idx % Nk = 0
                THEN XorWord(SubWord(KE_ROTWORD(w[idx])), <<Rcon[((idx - 1) \div Nk) + 1], 0, 0, 0>>)
                ELSE IF Nk > 6 /\ idx % Nk = 4 THEN SubWord(w[idx])
                ELSE w[idx]
    IN  IF idx = words THEN w ELSE KeySetup(Append(w, XorWord(w[idx - Nk + 1], temp)), Nk, words)

aes_key_setup(key, keysize) ==
    LET Nk == keysize \div 32
    IN  KeySetup([i \in 1..Nk |-> SubSeq(key, 4 * i - 3, 4 * i)], Nk, 4 * (Rounds(keysize) + 1))

RECURSIVE EncryptRounds(_, _, _, _)
EncryptRounds(s, w, r, Nr) ==
    LET t == ShiftRows(SubBytes(s))
    IN  IF IsBlock(s) /\ r < Nr THEN EncryptRounds(AddRoundKey(MixColumns(t), w, 4 * r), w, r + 1, Nr)
        ELSE AddRoundKey(t, w, 4 * r)

aes_encrypt(in, w, keysize) == EncryptRounds(AddRoundKey(in, w, 0), w, 1, Rounds(keysize))

RECURSIVE DecryptRounds(_, _, _)
DecryptRounds(s, w, r) ==
    LET t == AddRoundKey(InvSubBytes(InvShiftRows(s)), w, 4 * r)
    IN  IF IsBlock(s) /\ r > 0 THEN DecryptRounds(InvMixColumns(t), w, r - 1) ELSE t

aes_decrypt(in, w, keysize) ==
    DecryptRounds(AddRoundKey(in, w, 4 * Rounds(keysize)), w, Rounds(keysize) - 1)
-----------------------------------------------------------------------------
(* aes128.c: the same with every byte of the schedule in one array, and    *)
(* the columns mixed with galois_mul2 alone.                               *)

RECURSIVE ExpandFrom(_, _)
ExpandFrom(k, ii) ==
    LET Old(i) == k[16 * (ii - 1) + i + 1]
        first == <<XorByte(XorByte(aes_sbox[Old(13) + 1], Old(0)), Rcon[ii]), XorByte(aes_sbox[Old(14) + 1], Old(1)),
                   XorByte(aes_sbox[Old(15) + 1], Old(2)), XorByte(aes_sbox[Old(12) + 1], Old(3))>>
        Col(n, before) == Word4(LAMBDA i : XorByte(Old(4 * n + i), before[i + 1]))
        second == Col(1, first)
        third == Col(2, second)
    IN  IF Len(k) = 16 * 11 THEN k
        ELSE ExpandFrom(k \o first \o second \o third \o Col(3, third), ii + 1)

expandKey(key) == ExpandFrom(key, 1)

Key128(k, round) == SubSeq(k, 16 * round + 1, 16 * round + 16)

(* Each byte of a column changes by the sum of the column and twice the    *)
(* sum of itself and the next.                                             *)
mixcolums(s) ==
    LET At(i, j) == s[4 * (i \div 4) + ((i + j) % 4) + 1]
    IN  Block16(LAMBDA i : XorByte(XorByte(At(i, 0), galois_mul2(XorByte(At(i, 0), At(i, 1)))),
                               XorByte(XorByte(At(i, 0), At(i, 1)), XorByte(At(i, 2), At(i, 3)))))

(* What makes mixcolums its own inverse: four times the sum of the bytes   *)
(* two apart goes into both.                                               *)
barreto(s) ==
    LET At(i, j) == s[4 * (i \div 4) + ((i + j) % 4) + 1]
    IN  Block16(LAMBDA i : XorByte(At(i, 0), galois_mul2(galois_mul2(XorByte(At(i, 0), At(i, 2))))))

RECURSIVE Encr(_, _, _)
Encr(s, k, round) ==
    LET t == ShiftRows(Sub(aes_sbox, XorBlock(s, Key128(k, round))))
    IN  IF IsBlock(s) /\ round < 9 THEN Encr(mixcolums(t), k, round + 1) ELSE XorBlock(t, Key128(k, 10))

aes_encr(s, k) == Encr(s, k, 0)

RECURSIVE Decr(_, _, _)
Decr(s, k, round) ==
    LET t == XorBlock(Sub(aes_invsbox, InvShiftRows(s)), Key128(k, round))
    IN  IF IsBlock(s) /\ round > 0 THEN Decr(mixcolums(barreto(t)), k, round - 1) ELSE t

aes_decr(s, k) == Decr(XorBlock(s, Key128(k, 10)), k, 9)
-----------------------------------------------------------------------------
(* aes-x86.c.  The instructions are the processor's: what they compute is  *)
(* Intel's definition.                                                     *)

_mm_aesenc(s, k) == XorBlock(MixColumns(ShiftRows(SubBytes(s))), k)
_mm_aesenclast(s, k) == XorBlock(ShiftRows(SubBytes(s)), k)
_mm_aesdec(s, k) == XorBlock(InvMixColumns(InvShiftRows(InvSubBytes(s))), k)
_mm_aesdeclast(s, k) == XorBlock(InvShiftRows(InvSubBytes(s)), k)
_mm_aesimc(s) == InvMixColumns(s)
Lane(s, n) == SubSeq(s, 4 * n + 1, 4 * n + 4)
_mm_aeskeygenassist(s, rcon) ==
    LET a == SubWord(Lane(s, 1))
        b == SubWord(Lane(s, 3))
    IN  a \o XorWord(KE_ROTWORD(a), <<rcon, 0, 0, 0>>) \o b \o XorWord(KE_ROTWORD(b), <<rcon, 0, 0, 0>>)

Zero4 == <<0, 0, 0, 0>>
_mm_slli_4(s) == Zero4 \o SubSeq(s, 1, 12)

(* AES_128_ASSIST and KEY_256_ASSIST_1 and _2: each column gets the sum of *)
(* those before it, and all of them the same word of the assist.           *)
Assist(t, word) ==
    LET t1 == _mm_slli_4(t)
        t2 == _mm_slli_4(t1)
        t3 == _mm_slli_4(t2)
    IN  XorBlock(XorBlock(XorBlock(t, t1), XorBlock(t2, t3)), word \o word \o word \o word)

AES_128_ASSIST(t, assist) == Assist(t, Lane(assist, 3))
KEY_256_ASSIST_1(t1, t2) == Assist(t1, Lane(t2, 3))
KEY_256_ASSIST_2(t1, t3) == Assist(t3, Lane(_mm_aeskeygenassist(t1, 0), 2))

(* The schedule is a tuple of blocks here.                                 *)
RECURSIVE Expand128(_, _)
Expand128(ks, r) ==
    IF Len(ks) = 11 THEN ks
    ELSE Expand128(Append(ks, AES_128_ASSIST(ks[r], _mm_aeskeygenassist(ks[r], Rcon[r]))), r + 1)

AES_128_Key_Expansion(key) == Expand128(<<key>>, 1)

RECURSIVE Expand256(_, _)
Expand256(ks, r) ==
    LET t1 == KEY_256_ASSIST_1(ks[2 * r - 1], _mm_aeskeygenassist(ks[2 * r], Rcon[r]))
    IN  IF Len(ks) = 14 THEN Append(ks, t1)
        ELSE Expand256(ks \o <<t1, KEY_256_ASSIST_2(t1, ks[2 * r])>>, r + 1)

AES_256_Key_Expansion(key) == Expand256(<<SubSeq(key, 1, 16), SubSeq(key, 17, 32)>>, 1)

(* For decryption: backwards, all but the ends through _mm_aesimc.         *)
AES128_expand_key(ks, nr) ==
    [i \in 1..(nr + 1) |-> IF i \in {1, nr + 1} THEN ks[nr + 2 - i] ELSE _mm_aesimc(ks[nr + 2 - i])]

AES_expand_key(key, bits, encrypt) ==
    LET ks == IF bits = 256 THEN AES_256_Key_Expansion(key) ELSE AES_128_Key_Expansion(key)
    IN  IF encrypt THEN ks ELSE AES128_expand_key(ks, Rounds(bits))

RECURSIVE HwRounds(_, _, _, _)
HwRounds(s, ks, j, encrypt) ==
    LET k == ks[j + 1]
    IN  IF IsBlock(s) /\ j < Len(ks) - 1
        THEN HwRounds(IF encrypt THEN _mm_aesenc(s, k) ELSE _mm_aesdec(s, k), ks, j + 1, encrypt)
        ELSE IF encrypt THEN _mm_aesenclast(s, k) ELSE _mm_aesdeclast(s, k)

(* AES128_ECB_encrypt_block and AES128_ECB_decrypt_block, and the inner    *)
(* loops of the CBC functions.                                             *)
HwBlock(s, ks, encrypt) == HwRounds(XorBlock(s, ks[1]), ks, 1, encrypt)
=============================================================================
