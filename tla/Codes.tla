------------------------------- MODULE Codes -------------------------------
(***************************************************************************)
(* The codes of base64.c, the checksum of crc16.c, the differences of      *)
(* times of time.c and the durations of arg-helpers.c.                     *)
(***************************************************************************)
EXTENDS Strings

(* alphabet, as the codes of its characters: the last two depend on        *)
(* base64url_safe.                                                         *)
Alphabet(urlSafe) ==
    [i \in 1..64 |-> CASE i <= 26 -> 64 + i
                       [] i > 26 /\ i <= 52 -> 70 + i
                       [] i > 52 /\ i <= 62 -> i - 5
                       [] i = 63 -> IF urlSafe THEN 45 ELSE 43
                       [] i = 64 -> IF urlSafe THEN 95 ELSE 47]
pad == 61

(* The table that undoes it, for both alphabets; 255 is no code.           *)
reverse(c) ==
    CASE c \in 65..90 -> c - 65 [] c \in 97..122 -> c - 71 [] c \in 48..57 -> c + 4
      [] c \in {43, 45} -> 62 [] c \in {47, 95} -> 63 [] OTHER -> 255

encode_block(alphabet, b) ==
    <<alphabet[(b[1] \div 4) + 1], alphabet[(b[1] % 4) * 16 + (b[2] \div 16) + 1],
      alphabet[(b[2] % 16) * 4 + (b[3] \div 64) + 1], alphabet[(b[3] % 64) + 1]>>

base64_encoded_len(len) == ((len + 2) \div 3) * 4
base64_decoded_len(len) == (len \div 4) * 3

RECURSIVE EncodeBlocks(_, _)
EncodeBlocks(alphabet, src) ==
    LET n == Len(src)
    IN  CASE n >= 3 -> encode_block(alphabet, SubSeq(src, 1, 3)) \o EncodeBlocks(alphabet, SubSeq(src, 4, n))
          [] n = 0 -> <<>>
          [] n = 1 -> SubSeq(encode_block(alphabet, src \o <<0, 0>>), 1, 2) \o <<pad, pad>>
          [] n = 2 -> SubSeq(encode_block(alphabet, src \o <<0>>), 1, 3) \o <<pad>>

(* dst is what is stored, the NUL left out.                                *)
base64_encode(urlSafe, dlen, src) ==
    IF base64_encoded_len(Len(src)) >= dlen THEN [rc |-> -1, dst |-> <<>>]
    ELSE LET dst == EncodeBlocks(Alphabet(urlSafe), src) IN [rc |-> Len(dst), dst |-> dst]

(* The bytes of one block of four characters; <<-1>> for an illegal one.   *)
decode_block(src) ==
    LET pads == {i \in 1..4 : src[i] = pad}
        i == IF pads = {} THEN 4 ELSE Min(pads) - 1
        block == [k \in 1..i |-> reverse(src[k] % 128)]
        three == << (block[1] % 64) * 4 + ((block[2] \div 16) % 4),
                    (block[2] % 16) * 16 + ((block[3] \div 4) % 16),
                    (block[3] % 4) * 64 + (block[4] % 64) >>
    IN  IF i = 0 \/ (\E k \in 1..i : block[k] = 255) THEN <<-1>>
        ELSE CASE i = 4 -> three
               [] i = 3 -> <<(block[1] % 64) * 4 + ((block[2] \div 16) % 4), (block[2] % 16) * 16 + ((block[3] \div 4) % 16)>>
               [] i = 2 -> <<(block[1] % 64) * 4 + ((block[2] \div 16) % 4)>>
               [] i = 1 -> <<>>

RECURSIVE DecodeBlocks(_, _)
DecodeBlocks(src, out) ==
    IF Len(src) < 4 THEN [rc |-> Len(out), dst |-> out]
    ELSE LET b == decode_block(SubSeq(src, 1, 4))
         IN  IF b = <<-1>> THEN [rc |-> 0, dst |-> out] ELSE DecodeBlocks(SubSeq(src, 5, Len(src)), out \o b)

base64_decode(dlen, src) ==
    IF base64_decoded_len(Len(src)) > dlen THEN [rc |-> -1, dst |-> <<>>] ELSE DecodeBlocks(src, <<>>)

(* Encoded into a buffer with spare cells more than the text, and decoded. *)
Base64(urlSafe, spare, data) ==
    LET dlen == base64_encoded_len(Len(data)) + spare
        text == base64_encode(urlSafe, dlen, data)
    IN  call' = [fn |-> "base64", data |-> data, spare |-> spare, text |-> text,
                 back |-> base64_decode(Len(data) + 2, text.dst)]
-----------------------------------------------------------------------------
WORD16 == 65536
SumSeq(s) == FoldLeft(LAMBDA a, b : a + b, 0, s)

(* One fold of the carry of a sum of 16-bit words.                         *)
Fold16(sum) == IF sum >= WORD16 THEN (sum % WORD16) + (sum \div WORD16) ELSE sum

(* An odd last byte is read as a word: tail is the byte and the one behind *)
(* the buffer.                                                             *)
chksum16(words, tail) ==
    LET sum == SumSeq(words) + (IF tail = <<>> THEN 0 ELSE tail[1] + 256 * tail[2])
    IN  (WORD16 - 1) - (Fold16(sum) % WORD16)

Checksum(words, tail) ==
    call' = [fn |-> "chksum16", words |-> words, tail |-> tail, sum |-> chksum16(words, tail)]
-----------------------------------------------------------------------------
(* Times are pairs of seconds and microseconds, of which a second has few; *)
(* m is the memory of them, pointers are its locations or NULL.            *)
ONE_SECOND == 4
INVALID == -1      \* ~0
NULL == "NULL"

delta_timeval(start, end) ==
    IF start[2] > end[2]
    THEN IF start[1] > end[1] - 1 THEN INVALID
         ELSE (end[1] - 1 - start[1]) * ONE_SECOND + (end[2] + ONE_SECOND - start[2])
    ELSE IF start[1] > end[1] THEN INVALID
         ELSE (end[1] - start[1]) * ONE_SECOND + (end[2] - start[2])

timeval_delta_valid(start, end) == end[1] > start[1] \/ (end[1] = start[1] /\ end[2] >= start[2])

(* The macro stores the fields one after the other, and reads end and      *)
(* start again for the second: delta may be either of them.                *)
timersub(m, end, start, delta) ==
    LET sec == [m EXCEPT ![delta][1] = m[end][1] - m[start][1]]
        usec == [sec EXCEPT ![delta][2] = sec[end][2] - sec[start][2]]
    IN  IF usec[delta][2] < 0 THEN [usec EXCEPT ![delta] = <<@[1] - 1, @[2] + ONE_SECOND>>] ELSE usec

timeval_delta(m, start, end, delta) ==
    IF NULL \in {start, end, delta} \/ ~timeval_delta_valid(m[start], m[end])
    THEN [rc |-> EINVAL, m |-> m]
    ELSE [rc |-> 0, m |-> timersub(m, end, start, delta)]

timeval_delta2(m, t1, t2, delta) ==
    LET d == timeval_delta(m, t1, t2, delta) IN IF d.rc = 0 THEN d ELSE timeval_delta(d.m, t2, t1, delta)

(* The differences of the times at start and end, by the three functions;  *)
(* delta_timeval does not look for NULL.                                   *)
DeltaTimes(m, start, end, delta) ==
    call' = [fn |-> "time", m |-> m, start |-> start, end |-> end, to |-> delta,
             us |-> IF NULL \in {start, end} THEN INVALID ELSE delta_timeval(m[start], m[end]),
             delta |-> timeval_delta(m, start, end, delta), delta2 |-> timeval_delta2(m, start, end, delta)]
-----------------------------------------------------------------------------
ONE_MINUTE == 60
ONE_HOUR == 3600
ONE_DAY == 86400

(* Mutant: every part is given the room of the whole buffer.               *)
DurationPartWhole(d, len, fmt, args) ==
    LET s == strfmt(len, fmt, args)
    IN  [n |-> d.n + s.n, mem |-> Put(d.mem, d.n, Append(s.str, End))]

(* One part of the duration at offset n of a buffer of len cells: strfmt   *)
(* stores what fits and n grows by the whole of it.                        *)
DurationPart(d, len, fmt, args) ==
    LET s == strfmt(len - d.n, fmt, args)
    IN  [n |-> d.n + s.n, mem |-> IF len - d.n < 1 THEN d.mem ELSE Put(d.mem, d.n, Append(s.str, End))]

(* The parts that are not zero, one after the other; the seconds also when *)
(* nothing was written before them.                                        *)
DurationText(duration, mem, len) ==
    LET Part(count, unit) ==
            IF count > 0 THEN <<[fmt |-> <<"%", "d", "%", "c">>, args |-> <<count, unit>>]>> ELSE <<>>
        Write(d, part) == DurationPart(d, len, part.fmt, part.args)
        Written(parts) == FoldLeft(Write, [n |-> 0, mem |-> mem], parts)
        front == Part(duration \div ONE_DAY, "d") \o Part((duration % ONE_DAY) \div ONE_HOUR, "h")
                 \o Part((duration % ONE_HOUR) \div ONE_MINUTE, "m")
        seconds == duration % ONE_MINUTE
        last == [fmt |-> <<"%", "l", "u", "s">>, args |-> <<seconds>>]
    IN  Written(IF seconds > 0 \/ Written(front).n = 0 THEN Append(front, last) ELSE front).mem

(* A buffer of n cells; the ones behind it belong to somebody else.        *)
Cells(n) == [i \in 1..n + CELLS |-> IF i <= n THEN "?" ELSE Foreign]
NoBuffer == <<>>     \* NULL as the buffer
DURATION_LEN == 32

(* Without a buffer one is allocated, of 32 cells for len 0; room is       *)
(* whether malloc finds the memory.  The result is the buffer returned.    *)
nice_duration(duration, str, len, room) ==
    LET size == IF str = NoBuffer /\ len = 0 THEN DURATION_LEN ELSE len
    IN  CASE str # NoBuffer -> DurationText(duration, str, size)
          [] str = NoBuffer /\ room -> DurationText(duration, Cells(size), size)
          [] str = NoBuffer /\ ~room -> NoBuffer

(* A call with a buffer of len cells, or without one.                      *)
Duration(duration, given, len, room) ==
    LET str == IF given THEN Cells(len) ELSE NoBuffer
    IN  call' = [fn |-> "duration", given |-> given, len |-> len, room |-> room,
                 mem |-> nice_duration(duration, str, len, room), whole |-> DurationText(duration, Cells(20), 20)]
-----------------------------------------------------------------------------
CodesCall ==
    /\ call = Idle
    /\ \/ \E urlSafe \in BOOLEAN, spare \in {0, 1}, data \in UNION {[1..n -> {0, 3, 62, 251, 255}] : n \in 0..4} :
             Base64(urlSafe, spare, data)
       \/ \E words \in UNION {[1..n -> {0, 1, 32768, 65534, 65535}] : n \in 0..4}, tail \in {<<>>, <<255, 0>>, <<255, 255>>} :
             Checksum(words, tail)
       \/ \E t1, t2 \in (0..2) \X (0..3), start \in {"t1", NULL}, end \in {"t1", "t2", NULL}, delta \in {"t1", "t2", "t3", NULL} :
             DeltaTimes([t1 |-> t1, t2 |-> t2, t3 |-> <<9, 9>>], start, end, delta)
       \/ \E duration \in {0, 59, 60, 61, 3600, 3661, 86399, 86400, 90061, 864000 + 36000}, given, room \in BOOLEAN, len \in 0..CELLS :
             (given => len > 0 /\ room) /\ Duration(duration, given, len, room)

(* What base64_encode makes of any bytes, with either alphabet,            *)
(* base64_decode makes into the same bytes again, whatever is left over in *)
(* the last block (base64.c:50, 119).  It returns the length without the   *)
(* NUL (base64.c:49), keeps to its buffer with the NUL included, and       *)
(* stores nothing when it refuses.  A buffer with a cell more than         *)
(* base64_encoded_len is enough.  Whether one of just that length is, is   *)
(* left open: the comment says that "the len includes the NULL"            *)
(* (base64.c:87), the code (base64.c:54) and the test                      *)
(* (tests/base64.c:73) refuse it.                                          *)
Base64RoundTrip ==
    call.fn = "base64" =>
        \/ call.text = [rc |-> -1, dst |-> <<>>] /\ call.spare = 0
        \/ /\ call.text.rc = Len(call.text.dst)
           /\ call.text.rc + 1 <= base64_encoded_len(Len(call.data)) + call.spare
           /\ call.back = [rc |-> Len(call.data), dst |-> call.data]

(* chksum16 is the complement of the one's complement sum of RFC 1071      *)
(* (crc16.c:9): that sum is the arithmetic one modulo 65535, and zero only *)
(* if all words are.  Left out are the buffers where folding the carry     *)
(* into the sum gives a carry again, for which the code folds once too few *)
(* (crc16.c:24), and odd ones with something behind them (crc16.c:20).     *)
ChecksumIsRfc1071 ==
    (call.fn = "chksum16" /\ (call.tail # <<>> => call.tail[2] = 0)) =>
        LET total == SumSeq(call.words) + (IF call.tail = <<>> THEN 0 ELSE call.tail[1])
            sum == (WORD16 - 1) - call.sum
        IN  Fold16(total) < WORD16 =>
                sum % (WORD16 - 1) = total % (WORD16 - 1) /\ ((sum = 0) = (total = 0))

(* The three differences of two times agree with subtraction: each is      *)
(* normalised, the wrong order is refused or, by timeval_delta2, undone    *)
(* (time.c:34, 66, 99), also when the result is stored over one of the two *)
(* times (time.c:64: "delta can point to start or end").  A refused call,  *)
(* for the order or for a NULL, stores nothing; a successful one stores at *)
(* delta only.                                                             *)
TimesAgree ==
    call.fn = "time" =>
        LET null == NULL \in {call.start, call.end, call.to}
            Us(t) == t[1] * ONE_SECOND + t[2]
            diff == Us(call.m[call.end]) - Us(call.m[call.start])
            Stored(d, value) == /\ d.rc = 0 /\ Us(d.m[call.to]) = value /\ d.m[call.to][2] \in 0..ONE_SECOND - 1
                                /\ \A p \in DOMAIN call.m \ {call.to} : d.m[p] = call.m[p]
            Refused(d) == d = [rc |-> EINVAL, m |-> call.m]
        IN  /\ NULL \notin {call.start, call.end} => call.us = IF diff >= 0 THEN diff ELSE INVALID
            /\ null => Refused(call.delta) /\ Refused(call.delta2)
            /\ ~null => IF diff >= 0 THEN Stored(call.delta, diff) /\ Stored(call.delta2, diff)
                        ELSE Refused(call.delta) /\ Stored(call.delta2, -diff)

(* nice_duration (arg-helpers.c:33) goes on at str + n although strfmt     *)
(* counts also what it had no room for; it still writes only to its        *)
(* buffer, the caller's or the one it allocates (arg-helpers.c:39), and    *)
(* leaves there the front of the whole text.  NULL is returned only when   *)
(* there is no memory.                                                     *)
DurationFits ==
    call.fn = "duration" =>
        LET size == IF call.given \/ call.len > 0 THEN call.len ELSE DURATION_LEN
        IN  IF call.mem = NoBuffer THEN ~call.given /\ ~call.room
            ELSE /\ \A i \in 1..CELLS : call.mem[size + i] = Foreign
                 /\ IsPrefix(String(call.mem), String(call.whole))
                 /\ StrLen(call.mem) = (IF StrLen(call.whole) < size THEN StrLen(call.whole) ELSE size - 1)

(* The small codes, each against its definition.                           *)
CodesAgree == Base64RoundTrip /\ ChecksumIsRfc1071 /\ TimesAgree /\ DurationFits
=============================================================================
