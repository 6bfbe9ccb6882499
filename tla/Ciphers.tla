------------------------------ MODULE Ciphers ------------------------------
(***************************************************************************)
(* The contexts and modes around the block ciphers: AES_CBC_* (aes-cbc.c), *)
(* AES128_ECB_* (aes128.c), each in software or with the instructions of   *)
(* aes-x86.c, and tea_encrypt and tea_decrypt (tea.c).  The keys and       *)
(* blocks are those of tests/aes-test.c.                                   *)
(***************************************************************************)
EXTENDS Aes, Call

EACCES == 13
ENOSYS == 38

Key(keysize) ==
    IF keysize = 128
    THEN <<43, 126, 21, 22, 40, 174, 210, 166, 171, 247, 21, 136, 9, 207, 79, 60>>
    ELSE <<96, 61, 235, 16, 21, 202, 113, 190, 43, 115, 174, 240, 133, 125, 119, 129,
           31, 53, 44, 7, 59, 97, 8, 215, 45, 152, 16, 163, 9, 20, 223, 244>>

Iv == <<0, 1, 2, 3, 4, 5, 6, 7, 8, 9, 10, 11, 12, 13, 14, 15>>

Plain ==
    <<<<107, 193, 190, 226, 46, 64, 159, 150, 233, 61, 126, 17, 115, 147, 23, 42>>,
      <<174, 45, 138, 87, 30, 3, 172, 156, 158, 183, 111, 172, 69, 175, 142, 81>>,
      <<48, 200, 28, 70, 163, 92, 228, 17, 229, 251, 193, 25, 26, 10, 82, 239>>>>

Secret(keysize) ==
    IF keysize = 128
    THEN <<<<118, 73, 171, 172, 129, 25, 178, 70, 206, 233, 142, 155, 18, 233, 25, 125>>,
           <<80, 134, 203, 155, 80, 114, 25, 238, 149, 219, 17, 58, 145, 118, 120, 178>>,
           <<115, 190, 214, 184, 227, 193, 116, 59, 113, 22, 230, 158, 34, 34, 149, 22>>>>
    ELSE <<<<245, 140, 76, 4, 214, 229, 241, 186, 119, 158, 171, 251, 95, 123, 251, 214>>,
           <<156, 252, 78, 150, 126, 219, 128, 141, 103, 159, 119, 123, 198, 112, 44, 125>>,
           <<57, 242, 51, 105, 169, 217, 186, 207, 165, 48, 226, 99, 4, 35, 20, 97>>>>
-----------------------------------------------------------------------------
(* hw_aes_support is -1 until the processor has been asked.                *)
cpu_supports_aes(support, cpu) == IF support = -1 THEN cpu ELSE support

(* The value that aes_set_hw leaves in hw_aes_support, and what it returns.*)
aes_set_hw(support, hw, cpu) ==
    CASE hw \in {0, -1} -> [support |-> hw, rc |-> 0]
      [] hw = 1         -> [support |-> cpu_supports_aes(-1, cpu), rc |-> IF cpu = 1 THEN 0 ELSE ENOSYS]
      [] OTHER          -> [support |-> support, rc |-> EINVAL]

(* have_hw is 0, 2 for a schedule to decrypt with or 3 for one to encrypt. *)
HaveHw(support, cpu, encrypt) ==
    IF cpu_supports_aes(support, cpu) = 1 THEN (IF encrypt THEN 3 ELSE 2) ELSE 0

AES_CBC_init_ctx(keysize, hw, encrypt) ==
    [keysize |-> keysize, have_hw |-> hw, ivec |-> Iv,
     roundkey |-> IF hw # 0 THEN AES_expand_key(Key(keysize), keysize, encrypt)
                  ELSE aes_key_setup(Key(keysize), keysize)]

CbcOut(ctx, use, in) ==
    IF use = "encrypt"
    THEN LET mixed == XorBlock(in, ctx.ivec)
         IN  IF ctx.have_hw # 0 THEN HwBlock(mixed, ctx.roundkey, TRUE)
             ELSE aes_encrypt(mixed, ctx.roundkey, ctx.keysize)
    ELSE XorBlock(IF ctx.have_hw # 0 THEN HwBlock(in, ctx.roundkey, FALSE)
                  ELSE aes_decrypt(in, ctx.roundkey, ctx.keysize), ctx.ivec)

(* Mutant: the chaining value is not kept from block to block.             *)
CbcBlockNoChain(ctx, use, inplace, in) == [out |-> CbcOut(ctx, use, in), ivec |-> ctx.ivec]

(* One block; the software's decryption reads its input again after it has *)
(* written the output, which is the same memory when it works in place.    *)
CbcBlock(ctx, use, inplace, in) ==
    LET out == CbcOut(ctx, use, in)
    IN  [out |-> out,
         ivec |-> IF use = "encrypt" \/ (inplace /\ ctx.have_hw = 0) THEN out ELSE in]

RECURSIVE CbcBlocks(_, _, _, _, _)
CbcBlocks(ctx, use, inplace, in, out) ==
    IF in = <<>> THEN [ctx |-> ctx, out |-> out]
    ELSE LET b == CbcBlock(ctx, use, inplace, Head(in))
         IN  CbcBlocks([ctx EXCEPT !.ivec = b.ivec], use, inplace, Tail(in), Append(out, b.out))

(* What AES_CBC_encrypt and AES_CBC_decrypt return: only the first looks   *)
(* at the bytes beyond the last whole block, and only contexts for the     *)
(* hardware know what they were made for.                                  *)
CbcReturns(ctx, use, extra) ==
    IF use = "encrypt" /\ extra # 0 THEN EINVAL
    ELSE IF ctx.have_hw = (IF use = "encrypt" THEN 2 ELSE 3) THEN EACCES
    ELSE 0

CbcInit(keysize, hw, cpu, encrypt, use, inplace) ==
    /\ call = Idle
    /\ LET have == HaveHw(aes_set_hw(-1, hw, cpu).support, cpu, encrypt)
       IN  call' = IF keysize \notin {128, 256} THEN [fn |-> "cbc", rc |-> EINVAL, done |-> 0]
                   ELSE [fn |-> "cbc", rc |-> 0, done |-> 0, out |-> <<>>, use |-> use, inplace |-> inplace,
                         ctx |-> AES_CBC_init_ctx(keysize, have, encrypt)]

(* AES_CBC_encrypt or AES_CBC_decrypt of the next n blocks of the stream   *)
(* and some bytes more.                                                    *)
CbcCrypt(n, extra) ==
    /\ call.fn = "cbc" /\ call.rc = 0 /\ call.done + n <= Len(Plain)
    /\ LET rc == CbcReturns(call.ctx, call.use, extra)
           stream == IF call.use = "encrypt" THEN Plain ELSE Secret(call.ctx.keysize)
           r == CbcBlocks(call.ctx, call.use, call.inplace,
                          SubSeq(stream, call.done + 1, call.done + n), <<>>)
       IN  call' = IF rc # 0 THEN [call EXCEPT !.rc = rc]
                   ELSE [call EXCEPT !.done = @ + n, !.ctx = r.ctx, !.out = @ \o r.out]
-----------------------------------------------------------------------------
AES128_init_ctx(hw, encrypt) ==
    [have_hw |-> hw, roundkey |-> IF hw # 0 THEN AES_expand_key(Key(128), 128, encrypt)
                                  ELSE expandKey(Key(128))]

AES128_ECB_encrypt(ctx, in) ==
    IF ctx.have_hw # 0 THEN HwBlock(in, ctx.roundkey, TRUE) ELSE aes_encr(in, ctx.roundkey)

AES128_ECB_decrypt(ctx, in) ==
    IF ctx.have_hw # 0 THEN HwBlock(in, ctx.roundkey, FALSE) ELSE aes_decr(in, ctx.roundkey)

(* Nothing refuses a context for the other direction here.                 *)
Ecb(support, hw, cpu, encrypt, use, i) ==
    /\ call = Idle
    /\ LET set == aes_set_hw(support, hw, cpu)
           ctx == AES128_init_ctx(HaveHw(set.support, cpu, encrypt), encrypt)
       IN  call' = [fn |-> "ecb", support |-> support, asked |-> hw, set |-> set, hw |-> ctx.have_hw, encrypt |-> encrypt, use |-> use, in |-> Plain[i],
                    out |-> IF use = "encrypt" THEN AES128_ECB_encrypt(ctx, Plain[i])
                            ELSE AES128_ECB_decrypt(ctx, Plain[i])]
-----------------------------------------------------------------------------
(* TEA with words of 16 bits in place of 32: the constants are the low     *)
(* halves of the code's.  A bag is two words.                              *)
TeaWord == 65536
TEA_CONSTANT == 31161
TeaSum == 14112
TEA_BAG_SIZE == 2

Xor16(a, b) == 256 * XorByte(a \div 256, b \div 256) + XorByte(a % 256, b % 256)

TeaMix(v, sum, k, l) ==
    Xor16(Xor16((v * 16 + k) % TeaWord, (v + sum) % TeaWord), ((v \div 32) + l) % TeaWord)

RECURSIVE TeaEncryptRounds(_, _, _)
TeaEncryptRounds(k, v, i) ==
    LET sum == (i * TEA_CONSTANT) % TeaWord
        v0 == (v[1] + TeaMix(v[2], sum, k[1], k[2])) % TeaWord
        v1 == (v[2] + TeaMix(v0, sum, k[3], k[4])) % TeaWord
    IN  IF Len(v) = TEA_BAG_SIZE /\ i > 32 THEN v ELSE TeaEncryptRounds(k, <<v0, v1>>, i + 1)

encrypt_block(k, v) == TeaEncryptRounds(k, v, 1)

RECURSIVE TeaDecryptRounds(_, _, _, _)
TeaDecryptRounds(k, v, sum, i) ==
    LET v1 == (v[2] + TeaWord - TeaMix(v[1], sum, k[3], k[4])) % TeaWord
        v0 == (v[1] + TeaWord - TeaMix(v1, sum, k[1], k[2])) % TeaWord
    IN  IF Len(v) = TEA_BAG_SIZE /\ i = 32 THEN v
        ELSE TeaDecryptRounds(k, <<v0, v1>>, (sum + TeaWord - TEA_CONSTANT) % TeaWord, i + 1)

(* A bag of the buffer mem, in which data starts at offset at.             *)
TeaBag(mem, at) == <<mem[at + 1], mem[at + 2]>>
TeaStore(mem, at, v) == [mem EXCEPT ![at + 1] = v[1], ![at + 2] = v[2]]

(* What is left at the end is padded with zeros to a bag and written back  *)
(* as one: the cells behind the data that the bag needs are overwritten.   *)
RECURSIVE tea_encrypt(_, _, _, _)
tea_encrypt(k, mem, at, len) ==
    CASE len >= TEA_BAG_SIZE -> tea_encrypt(k, TeaStore(mem, at, encrypt_block(k, TeaBag(mem, at))),
                                            at + TEA_BAG_SIZE, len - TEA_BAG_SIZE)
      [] len = 1 -> TeaStore(mem, at, encrypt_block(k, <<mem[at + 1], 0>>))
      [] len = 0 -> mem

tea_bag_size(len) == len + (len % TEA_BAG_SIZE)

RECURSIVE tea_decrypt(_, _, _, _)
tea_decrypt(k, mem, at, len) ==
    IF len < TEA_BAG_SIZE THEN mem
    ELSE tea_decrypt(k, TeaStore(mem, at, TeaDecryptRounds(k, TeaBag(mem, at), TeaSum, 0)),
                     at + TEA_BAG_SIZE, len - TEA_BAG_SIZE)

(* The data in a buffer with other words behind it.                        *)
TeaBehind == 999
Tea(k, data) ==
    /\ call = Idle
    /\ LET mem == data \o [i \in 1..4 |-> TeaBehind]
           secret == tea_encrypt(k, mem, 0, Len(data))
       IN  call' = [fn |-> "tea", data |-> data, secret |-> secret,
                    back |-> tea_decrypt(k, secret, 0, tea_bag_size(Len(data)))]
-----------------------------------------------------------------------------
CipherCall ==
    \/ \E keysize \in {128, 192, 256}, hw \in {-1, 0, 1}, cpu \in {0, 1}, encrypt, inplace \in BOOLEAN,
          use \in {"encrypt", "decrypt"} : CbcInit(keysize, hw, cpu, encrypt, use, inplace)
    \/ \E n \in 0..2, extra \in {0, 1} : CbcCrypt(n, extra)
    \/ \E support \in {-1, 0}, hw \in {-1, 0, 1, 2}, encrypt \in BOOLEAN, use \in {"encrypt", "decrypt"}, i \in 1..Len(Plain) :
          (hw # 2 => support = -1) /\ Ecb(support, hw, 1, encrypt, use, i)
    \/ \E data \in UNION {[1..n -> {0, 1, 65535}] : n \in 0..3} : Tea(<<1, 65535, 31161, 258>>, data)

(* However a message is cut into calls of AES_CBC_encrypt or decrypt       *)
(* (aes-cbc.c:782, 815), in software or with the hardware (aes-x86.c:260,  *)
(* 281), the blocks that come out are those of the published vectors in    *)
(* tests/aes-test.c: the chaining value survives from call to call.  The   *)
(* software's decryption is left out when it works in place: it saves the  *)
(* plain text as the chaining value then.                                  *)
CbcAnySplit ==
    (call.fn = "cbc" /\ call.done > 0) =>
        (call.inplace /\ call.ctx.have_hw = 0 /\ call.use = "decrypt")
        \/ call.out = SubSeq(IF call.use = "encrypt" THEN Secret(call.ctx.keysize) ELSE Plain, 1, call.done)

(* The software of aes128.c, which has no tables of products and mixes the *)
(* columns another way, and the instructions compute the cipher of         *)
(* aes-cbc.c in both directions, when a context for the hardware is used   *)
(* for what it was made; a choice that aes_set_hw refuses (aes-x86.c:187)  *)
(* changes nothing, any other takes effect.                                *)
EcbIsSameCipher ==
    call.fn = "ecb" =>
        /\ (call.hw # 0) = ((IF call.set.rc = EINVAL THEN call.support ELSE call.asked) # 0)
        /\ (call.hw # 0 => call.encrypt = (call.use = "encrypt")) =>
              call.out = IF call.use = "encrypt"
                         THEN aes_encrypt(call.in, aes_key_setup(Key(128), 128), 128)
                         ELSE aes_decrypt(call.in, aes_key_setup(Key(128), 128), 128)

(* tea_decrypt of tea_bag_size bytes undoes tea_encrypt (tea.c:26, 50),    *)
(* also when the last bag was not full: zeros fill it.  Neither stores     *)
(* anything behind tea_bag_size bytes (tea.c:38), which is how much room   *)
(* the buffer must have.                                                   *)
TeaRoundTrip ==
    call.fn = "tea" =>
        LET n == Len(call.data)
            size == n + (n % 2)
        IN  /\ \A i \in size + 1..n + 4 : call.secret[i] = TeaBehind /\ call.back[i] = TeaBehind
            /\ SubSeq(call.back, 1, size) = call.data \o (IF n = size THEN <<>> ELSE <<0>>)

(* The ciphers: what comes out depends on the key and the message alone,   *)
(* not on the implementation that was chosen at run time (aes-x86.c:9),    *)
(* nor on how the message was cut into calls.                              *)
CiphersAgree == CbcAnySplit /\ EcbIsSameCipher /\ TeaRoundTrip
=============================================================================
