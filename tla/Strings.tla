------------------------------ MODULE Strings ------------------------------
(***************************************************************************)
(* The bounded copies of strlcpy.c and safecpy.c, and the formatting of    *)
(* strfmt.c.  A buffer is a sequence of one-character strings; the cells   *)
(* behind the size that the caller gives belong to somebody else.          *)
(***************************************************************************)
EXTENDS Call, Integers, SequencesExt

End == ""          \* the NUL that ends a string
Foreign == "#"     \* what stands behind the caller's buffer
CELLS == 9

StrLen(mem) == (CHOOSE i \in 1..Len(mem) : mem[i] = End /\ \A j \in 1..i-1 : mem[j] # End) - 1
String(mem) == SubSeq(mem, 1, StrLen(mem))

(* chars stored from offset at on.                                         *)
Put(mem, at, chars) == [i \in 1..Len(mem) |-> IF i > at /\ i <= at + Len(chars) THEN chars[i - at] ELSE mem[i]]
-----------------------------------------------------------------------------
(* Copies src to offset at, where there is room for room characters.       *)
StrlcpyAt(mem, at, src, room) ==
    IF room <= 0 THEN mem
    ELSE IF room > Len(src) THEN Put(mem, at, Append(src, End))
    ELSE Put(mem, at, Append(SubSeq(src, 1, room - 1), End))

strlcpy(mem, src, dstlen) == [mem |-> StrlcpyAt(mem, 0, src, dstlen), rc |-> Len(src)]

strlcat(mem, src, dstsize) ==
    LET dstlen == StrLen(mem)
    IN  [mem |-> StrlcpyAt(mem, dstlen, src, dstsize - dstlen), rc |-> dstlen + Len(src)]

RECURSIVE Strconcat(_, _, _, _, _)
Strconcat(mem, at, len, total, args) ==
    IF args = <<>> \/ len <= 0 THEN [mem |-> mem, rc |-> IF len <= 0 THEN total + len - 1 ELSE total]
    ELSE LET n == Len(Head(args))
         IN  Strconcat(StrlcpyAt(mem, at, Head(args), len), at + n, len - n, total + n, Tail(args))

strconcat(mem, len, args) ==
    IF len = 0 THEN [mem |-> mem, rc |-> 0] ELSE Strconcat(mem, 0, len, 0, args)

(* Mutant: no room is kept for the NUL.                                    *)
CopyFull(mem, at, src, dstsize) ==
    LET n == IF Len(src) < dstsize THEN Len(src) ELSE dstsize
    IN  IF dstsize <= 0 THEN [mem |-> mem, rc |-> 0]
        ELSE [mem |-> Put(mem, at, Append(SubSeq(src, 1, n), End)), rc |-> n]

copy(mem, at, src, dstsize) ==
    LET n == IF Len(src) < dstsize - 1 THEN Len(src) ELSE dstsize - 1
    IN  IF dstsize <= 0 THEN [mem |-> mem, rc |-> 0]
        ELSE [mem |-> Put(mem, at, Append(SubSeq(src, 1, n), End)), rc |-> n]

safecpy(mem, src, dstsize) == copy(mem, 0, src, dstsize)

safecat(mem, src, dstsize) ==
    IF dstsize <= 0 THEN [mem |-> mem, rc |-> 0] ELSE copy(mem, StrLen(mem), src, dstsize - StrLen(mem))

(* A buffer of size cells that holds old.                                  *)
Buffer(old, size) ==
    [i \in 1..CELLS |-> IF i <= Len(old) THEN old[i] ELSE IF i = Len(old) + 1 THEN End
                        ELSE IF i <= size THEN "?" ELSE Foreign]

Copy(fn, old, args, size) ==
    LET mem == Buffer(old, size)
        src == FlattenSeq(args)
        r == CASE fn = "strlcpy"   -> strlcpy(mem, src, size)
               [] fn = "strlcat"   -> strlcat(mem, src, size)
               [] fn = "strconcat" -> strconcat(mem, size, args)
               [] fn = "safecpy"   -> safecpy(mem, src, size)
               [] fn = "safecat"   -> safecat(mem, src, size)
    IN  call' = [fn |-> "copy", name |-> fn, old |-> old, src |-> src, size |-> size,
                 before |-> mem, mem |-> r.mem, rc |-> r.rc]
-----------------------------------------------------------------------------
(* strfmt, with words of 4 bits for an int and 8 for a long.               *)
INT_WORD == 16
LONG_WORD == 256
LONG_MIN == -128

tohex == <<"0", "1", "2", "3", "4", "5", "6", "7", "8", "9", "a", "b", "c", "d", "e", "f">>
IsDigit(c) == \E i \in 1..10 : tohex[i] = c
DigitValue(c) == (CHOOSE i \in 1..10 : tohex[i] = c) - 1

RECURSIVE Digits(_, _)
Digits(val, base) == IF val <= 0 THEN <<>> ELSE Append(Digits(val \div base, base), tohex[(val % base) + 1])

octal2str(val) == IF val = 0 THEN <<"0">> ELSE Digits(val, 8)
uint2str(val)  == IF val = 0 THEN <<"0">> ELSE Digits(val, 10)
hex2str(val)   == IF val = 0 THEN <<"0">> ELSE Digits(val, 16)

(* The negative of the smallest long is itself, and has no digits.         *)
int2str(val) ==
    IF val = 0 THEN <<"0">>
    ELSE IF val > 0 THEN Digits(val, 10)
    ELSE <<"-">> \o Digits(IF val = LONG_MIN THEN val ELSE -val, 10)

(* The output: at most len characters are kept, n counts all of them.      *)
outmemcpy(out, chars) ==
    LET kept == IF Len(chars) < out.len THEN Len(chars) ELSE out.len
    IN  [str |-> out.str \o SubSeq(chars, 1, kept), len |-> out.len - kept, n |-> out.n + Len(chars)]

outchar(out, c) == outmemcpy(out, <<c>>)
outmemset(out, c, size) == IF size > 0 THEN outmemcpy(out, [i \in 1..size |-> c]) ELSE out

outstr(out, s, f) ==
    LET pad == f.width - Len(s)
    IN  IF f.neg THEN outmemset(outmemcpy(out, s), " ", pad) ELSE outmemcpy(outmemset(out, " ", pad), s)

outnum(out, s, f) == outmemcpy(outmemset(out, IF f.zero THEN "0" ELSE " ", f.width - Len(s)), s)

CharAt(fmt, i) == IF i <= Len(fmt) THEN fmt[i] ELSE End

RECURSIVE Width(_, _, _)
Width(fmt, i, width) ==
    IF IsDigit(CharAt(fmt, i)) THEN Width(fmt, i + 1, 10 * width + DigitValue(fmt[i])) ELSE [at |-> i, width |-> width]

(* The flags of the conversion whose % is at i, and where its letter is.   *)
Flags(fmt, i) ==
    LET neg == CharAt(fmt, i + 1) = "-"
        from == IF neg THEN i + 2 ELSE i + 1
        w == Width(fmt, from, 0)
        long == CharAt(fmt, w.at) = "l"
    IN  [neg |-> neg, zero |-> CharAt(fmt, from) = "0", width |-> w.width, long |-> long,
         at |-> IF long THEN w.at + 1 ELSE w.at]

(* What an unsigned argument of the flags' size holds for the value v.     *)
Unsigned(v, f) == v % (IF f.long THEN LONG_WORD ELSE INT_WORD)

RECURSIVE Strfmt(_, _, _, _)
Strfmt(out, fmt, i, args) ==
    LET f == Flags(fmt, i)
        c == CharAt(fmt, f.at)
        Num(s) == Strfmt(outnum(out, s, f), fmt, f.at + 1, Tail(args))
    IN  CASE i > Len(fmt) -> out
          [] i <= Len(fmt) /\ CharAt(fmt, i) # "%" -> Strfmt(outchar(out, fmt[i]), fmt, i + 1, args)
          [] CharAt(fmt, i) = "%" ->
                CASE c = "s" -> Strfmt(outstr(out, Head(args), f), fmt, f.at + 1, Tail(args))
                  [] c = "c" -> Strfmt(outchar(out, Head(args)), fmt, f.at + 1, Tail(args))
                  [] c = "d" -> Num(int2str(Head(args)))
                  [] c = "o" -> Num(octal2str(Head(args)))
                  [] c = "u" -> Num(uint2str(Unsigned(Head(args), f)))
                  [] c = "x" -> Num(hex2str(Unsigned(Head(args), f)))
                  [] OTHER -> Strfmt(outchar(out, "%"), fmt, i + 1, args)

strfmt(len, fmt, args) ==
    IF len < 1 THEN [str |-> <<>>, n |-> 0]
    ELSE LET out == Strfmt([str |-> <<>>, len |-> len - 1, n |-> 0], fmt, 1, args)
         IN  [str |-> out.str, n |-> out.n]

(* One conversion between two letters.                                     *)
Format(len, neg, width, long, conv, arg) ==
    LET fmt == <<"p", "%">> \o (IF neg THEN <<"-">> ELSE <<>>) \o width
               \o (IF long THEN <<"l">> ELSE <<>>) \o <<conv, "q">>
    IN  call' = [fn |-> "strfmt", len |-> len, neg |-> neg, width |-> width, long |-> long, conv |-> conv,
                 arg |-> arg, fmt |-> fmt, out |-> strfmt(len, fmt, <<arg>>)]
-----------------------------------------------------------------------------
Words(n) == UNION {[1..k -> {"a"}] : k \in 0..n}
Widths == {<<>>, <<"2">>, <<"5">>, <<"0", "5">>}

StringCall ==
    /\ call = Idle
    /\ \/ \E fn \in {"strlcpy", "strlcat", "strconcat", "safecpy", "safecat"}, old \in Words(3),
             args \in [1..2 -> {<<>>, <<"b">>, <<"c", "d">>, <<"e", "f", "g">>}], size \in 0..6 :
                Copy(fn, old, args, size)
       \/ \E len \in 0..9, neg, long \in BOOLEAN, width \in Widths, arg \in {<<>>, <<"x">>, <<"x", "y", "z">>} :
                Format(len, neg, width, long, "s", arg)
       \/ \E len \in {3, 9}, neg, long \in BOOLEAN, width \in Widths, conv \in {"d", "o", "u", "x"} :
             \E arg \in {-8, -1, 0, 7} \cup (IF long THEN {-128, -100, 99, 127} ELSE {}) :
                Format(len, neg, width, long, conv, arg)
       \/ \E len \in 0..4, neg \in BOOLEAN, width \in Widths, conv \in {"c", "%", "b"} :
                Format(len, neg, width, FALSE, conv, "x")

(* Every copy keeps within the size it is given and leaves a string there: *)
(* what was in the buffer and as much of the sources as fits (strlcpy.c:8, *)
(* 25, 47, safecpy.c:21, 26); a buffer that is already too full is left    *)
(* alone.  strlcpy and strlcat return the length they would have liked to  *)
(* have, the others the length they copied.                                *)
CopiesFit ==
    call.fn = "copy" =>
        LET appends == call.name \in {"strlcat", "safecat"}
            kept == IF appends THEN call.old ELSE <<>>
            room == IF call.size > Len(kept) THEN call.size - 1 - Len(kept) ELSE 0
            fits == IF Len(call.src) < room THEN Len(call.src) ELSE room
        IN  /\ \A i \in 1..CELLS : i > call.size => call.mem[i] = call.before[i]
            /\ String(call.mem) = IF call.size = 0 THEN call.old ELSE kept \o SubSeq(call.src, 1, fits)
            /\ call.rc = IF call.name \in {"strlcpy", "strlcat"} THEN Len(kept) + Len(call.src) ELSE fits

Decimal(v) == IF v < 0 THEN <<"-">> \o Digits(-v, 10) ELSE IF v = 0 THEN <<"0">> ELSE Digits(v, 10)
Times(k, c) == [i \in 1..k |-> c]

(* strfmt (strfmt.c:303, 420) stores what snprintf would, as much of it as *)
(* fits, and returns the length of all of it, wherever the buffer ends.    *)
(* Left out is what it does otherwise: numbers are never left-justified, a *)
(* minus stands behind the zeros that fill the width, %c has no width, %%  *)
(* is not one character, negative octals and the smallest long have no     *)
(* digits; and for len < 1 it returns 0 (strfmt.c:402), not the length     *)
(* that its comments promise (strfmt.c:396, 418).                          *)
StrfmtLikeSnprintf ==
    (call.fn = "strfmt" /\ call.len > 0 /\ call.conv \notin {"c", "%"}) =>
        LET number == call.conv \in {"d", "o", "u", "x"}
            zero == call.width = <<"0", "5">>
            width == CASE call.width = <<>> -> 0 [] call.width = <<"2">> -> 2 [] OTHER -> 5
            v == call.arg % (IF call.long THEN LONG_WORD ELSE INT_WORD)
            body == CASE call.conv = "s" -> call.arg
                      [] call.conv = "d" -> Decimal(call.arg)
                      [] call.conv \in {"o", "u", "x"} ->
                            IF v = 0 THEN <<"0">>
                            ELSE Digits(v, CASE call.conv = "o" -> 8 [] call.conv = "u" -> 10 [] OTHER -> 16)
                      [] OTHER -> <<>>
            fill == Times(width - Len(body), IF zero /\ number THEN "0" ELSE " ")
            padded == CASE call.conv = "b" -> call.fmt
                        [] call.conv # "b" -> <<"p">> \o (IF call.neg THEN body \o fill ELSE fill \o body) \o <<"q">>
        IN  \/ number /\ call.neg /\ fill # <<>>
            \/ number /\ zero /\ call.arg < 0
            \/ call.conv = "o" /\ call.arg < 0
            \/ call.conv = "d" /\ call.arg = LONG_MIN
            \/ /\ call.out.n = Len(padded)
               /\ call.out.str = SubSeq(padded, 1, IF Len(padded) < call.len THEN Len(padded) ELSE call.len - 1)

(* The string helpers: nothing is stored behind the buffer, what is stored *)
(* is the front of the right text, and the count says what was cut off.    *)
StringsFit == CopiesFit /\ StrfmtLikeSnprintf
=============================================================================
