------------------------------- MODULE Digest -------------------------------
(***************************************************************************)
(* The digests of md5.c and sha256.c: how a message that comes in pieces   *)
(* is buffered, cut into blocks and padded.  What the rounds compute from  *)
(* a block is left open: h is the sequence of the blocks they were given,  *)
(* which every hash is a function of.  Byte k of the message is the number *)
(* -k, so no two of them are alike and none is a byte of the padding.      *)
(***************************************************************************)
EXTENDS Call, Integers, SequencesExt

BLOCK_SIZE == 64
PAD_BYTE == 128

(* md5ctx counts bytes in 32 bits, and md5_pad multiplies by eight in 32   *)
(* bits; SizeWord stands for 2^32 and is small enough to be reached.       *)
SizeWord == 1024

Zeros(n) == [i \in 1..n |-> 0]
Bytes(first, n) == [i \in 1..n |-> -(first + i - 1)]

(* What memcpy and memset leave in a buffer of one block, from byte at on. *)
Store(buf, at, bytes) ==
    SubSeq(buf, 1, at) \o bytes \o SubSeq(buf, at + Len(bytes) + 1, BLOCK_SIZE)

LittleEndian(n) == [i \in 1..8 |-> IF i > 3 THEN 0 ELSE (n \div 256 ^ (i - 1)) % 256]
BigEndian(n) == Reverse(LittleEndian(n))

(* The 64 steps on one block: left open.                                   *)
Compress(h, block) == Append(h, block)
-----------------------------------------------------------------------------
md5_calc(ctx) == [ctx EXCEPT !.h = Compress(@, ctx.buf)]

(* cur and size are set, buf is left as it was on the stack.               *)
md5_init == [h |-> <<>>, buf |-> [i \in 1..BLOCK_SIZE |-> 255], cur |-> 0, size |-> 0]

RECURSIVE md5_update(_, _)
md5_update(ctx, data) ==
    LET n == IF Len(data) < BLOCK_SIZE - ctx.cur THEN Len(data) ELSE BLOCK_SIZE - ctx.cur
        filled == [ctx EXCEPT !.buf = Store(@, ctx.cur, SubSeq(data, 1, n)), !.cur = @ + n,
                              !.size = (@ + n) % SizeWord]
    IN  IF data = <<>> THEN ctx
        ELSE md5_update(IF filled.cur = BLOCK_SIZE THEN [md5_calc(filled) EXCEPT !.cur = 0] ELSE filled,
                        SubSeq(data, n + 1, Len(data)))

(* Mutant: one byte later.                                                 *)
Md5PadLimitLate == 57

(* The bytes of the last block before the length.                          *)
Md5PadLimit == 56

md5_pad(ctx) ==
    LET marked == Store(ctx.buf, ctx.cur, <<PAD_BYTE>> \o Zeros(BLOCK_SIZE - ctx.cur - 1))
        one == [ctx EXCEPT !.buf = marked, !.cur = @ + 1]
        two == IF one.cur > Md5PadLimit
               THEN [md5_calc(one) EXCEPT !.buf = Zeros(BLOCK_SIZE), !.cur = 0] ELSE one
    IN  [two EXCEPT !.buf = Store(@, 56, LittleEndian((ctx.size * 8) % SizeWord))]

md5_final(ctx) == md5_calc(md5_pad(ctx)).h
-----------------------------------------------------------------------------
SHA256ProcessMessageBlock(ctx) == [ctx EXCEPT !.h = Compress(@, ctx.block), !.index = 0]

sha256_init == [h |-> <<>>, block |-> Zeros(BLOCK_SIZE), index |-> 0, len |-> 0]

(* Whole blocks while nothing is buffered, ...                             *)
RECURSIVE ShaWhole(_, _)
ShaWhole(ctx, data) ==
    IF Len(data) < BLOCK_SIZE THEN [ctx |-> ctx, data |-> data]
    ELSE ShaWhole(SHA256ProcessMessageBlock([ctx EXCEPT !.block = SubSeq(data, 1, BLOCK_SIZE)]),
                  SubSeq(data, BLOCK_SIZE + 1, Len(data)))

(* ... then byte after byte: up to the end of the block in one go here.    *)
RECURSIVE ShaBytes(_, _)
ShaBytes(ctx, data) ==
    LET n == IF Len(data) < BLOCK_SIZE - ctx.index THEN Len(data) ELSE BLOCK_SIZE - ctx.index
        c == [ctx EXCEPT !.block = Store(@, ctx.index, SubSeq(data, 1, n)), !.index = @ + n]
    IN  IF data = <<>> THEN ctx
        ELSE ShaBytes(IF c.index = BLOCK_SIZE THEN SHA256ProcessMessageBlock(c) ELSE c, SubSeq(data, n + 1, Len(data)))

sha256_update(ctx, data) ==
    LET counted == [ctx EXCEPT !.len = @ + Len(data)]
        whole == IF ctx.index = 0 THEN ShaWhole(counted, data) ELSE [ctx |-> counted, data |-> data]
    IN  ShaBytes(whole.ctx, whole.data)

SHA256PadMessage(ctx) ==
    LET marked == [ctx EXCEPT !.block[ctx.index + 1] = PAD_BYTE, !.index = @ + 1]
        Fill(c, upto) == [c EXCEPT !.block = Store(@, c.index, Zeros(upto - c.index)), !.index = upto]
        room == IF ctx.index >= BLOCK_SIZE - 8
                THEN SHA256ProcessMessageBlock(Fill(marked, BLOCK_SIZE)) ELSE marked
        last == Fill(room, BLOCK_SIZE - 8)
    IN  SHA256ProcessMessageBlock([last EXCEPT !.block = Store(@, 56, BigEndian(ctx.len * 8))])

sha256_final(ctx) == SHA256PadMessage(ctx).h
-----------------------------------------------------------------------------
DigestInit(alg) ==
    /\ call = Idle
    /\ call' = [fn |-> alg, given |-> 0, pieces |-> 0, ctx |-> IF alg = "md5" THEN md5_init ELSE sha256_init]

(* A piece of n bytes; also one round of the loop of _md5sum.              *)
DigestUpdate(n) ==
    /\ call.fn \in {"md5", "sha256"} /\ call.pieces < 3
    /\ LET data == Bytes(call.given + 1, n)
       IN  call' = [call EXCEPT !.given = @ + n, !.pieces = @ + 1,
                                !.ctx = IF call.fn = "md5" THEN md5_update(@, data) ELSE sha256_update(@, data)]

(* The hash, and the context is cleared.                                   *)
DigestFinal ==
    /\ call.fn \in {"md5", "sha256"}
    /\ call' = [fn |-> "digest", alg |-> call.fn, given |-> call.given,
                h |-> IF call.fn = "md5" THEN md5_final(call.ctx) ELSE sha256_final(call.ctx)]

(* _md5sum on a file that is read in the pieces given; error says that the *)
(* last read failed.  The hash of what was read is stored all the same.    *)
md5sum(pieces, error) ==
    LET data == Bytes(1, pieces[1] + pieces[2])
        ctx == md5_update(md5_update(md5_init, SubSeq(data, 1, pieces[1])),
                          SubSeq(data, pieces[1] + 1, Len(data)))
    IN  call' = [fn |-> "digest", alg |-> "md5", given |-> Len(data), h |-> md5_final(ctx),
                 rc |-> IF error THEN -1 ELSE 0]

DigestCall ==
    \/ \E alg \in {"md5", "sha256"} : DigestInit(alg)
    \/ \E n \in {0, 1, 7, 8, 9, 54, 55, 56, 63, 64, 65, 120} : DigestUpdate(n)
    \/ DigestFinal
    \/ call = Idle /\ \E a, b \in {0, 1, 55, 64}, error \in BOOLEAN : md5sum(<<a, b>>, error)

(* The message as RFC 1321 and FIPS 180-2 pad it: one bit, zeros up to 56  *)
(* bytes modulo 64, and its length in bits.                                *)
Padded(alg, n) ==
    LET zeros == (55 - n) % BLOCK_SIZE
    IN  Bytes(1, n) \o <<PAD_BYTE>> \o Zeros(zeros)
        \o (IF alg = "md5" THEN LittleEndian(n * 8) ELSE BigEndian(n * 8))

(* However a message is cut into updates (md5.c:125, sha256.c:141), the    *)
(* blocks that the rounds see are those of the padded message: at the      *)
(* boundaries where the padding needs a block more (md5.c:149,             *)
(* sha256.c:198) and where a piece ends a block.  md5 is left out for      *)
(* messages whose length in bits does not fit its 32-bit counter, which    *)
(* md5.c:156 multiplies before it widens it.                               *)
DigestAnySplit ==
    (call.fn = "digest" /\ (call.alg = "md5" => 8 * call.given < SizeWord)) =>
        FlattenSeq(call.h) = Padded(call.alg, call.given)
=============================================================================
