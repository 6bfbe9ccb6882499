------------------------------ MODULE Fnmatch ------------------------------
(***************************************************************************)
(* fnmatch of the Windows port (win32/fnmatch.c, from glibc).  Patterns    *)
(* and strings are sequences of one-character strings; a position is an    *)
(* index, and reading at the end gives NUL.  Flags are a set.              *)
(*                                                                         *)
(* Two tests are the other way round here than in glibc, and are modelled  *)
(* as they are: the extended operators work when FNM_EXTMATCH is NOT given *)
(* (lines 152, 182, 538), and a ? behind a * refuses a slash when          *)
(* FNM_FILE_NAME is NOT given (line 220).                                  *)
(***************************************************************************)
EXTENDS Call, Integers, SequencesExt

NUL == ""
FNM_FILE_NAME   == "FNM_FILE_NAME"
FNM_NOESCAPE    == "FNM_NOESCAPE"
FNM_PERIOD      == "FNM_PERIOD"
FNM_LEADING_DIR == "FNM_LEADING_DIR"
FNM_CASEFOLD    == "FNM_CASEFOLD"
FNM_EXTMATCH    == "FNM_EXTMATCH"

CHAR_CLASS_MAX_LENGTH == 6

(* The characters of the instances, in the order of their codes.           *)
Chars == <<"!", "(", ")", "*", "+", "-", ".", "/", ":", "=", "?", "@", "A", "B", "[", "\\", "]", "^",
           "a", "b", "d", "e", "g", "h", "i", "l", "o", "p", "r", "t", "u", "w", "x", "|">>
Code(c) == CHOOSE k \in 0..Len(Chars) : (IF k = 0 THEN NUL ELSE Chars[k]) = c
Lower(c) == CASE c = "A" -> "a" [] c = "B" -> "b" [] OTHER -> c
IsLower(c) == Code("a") <= Code(c) /\ Code(c) <= Code("x")

At(s, i) == IF i <= Len(s) THEN s[i] ELSE NUL

(* Mutant: the flag for periods is not looked at.                          *)
LeadingPeriodAlways(flags) == FNM_FILE_NAME \in flags

NO_LEADING_PERIOD(flags) == {FNM_FILE_NAME, FNM_PERIOD} \subseteq flags
FOLD(c, flags) == IF FNM_CASEFOLD \in flags THEN Lower(c) ELSE c
WithoutPeriod(flags) == IF FNM_FILE_NAME \in flags THEN flags ELSE flags \ {FNM_PERIOD}
Quotes(c, flags) == c = "\\" /\ FNM_NOESCAPE \notin flags
IsOperator(c) == c \in {"?", "*", "+", "@", "!"}

(* The character classes that the instances name.                          *)
InClass(name, c) ==
    CASE name = <<"a", "l", "p", "h", "a">> -> IsLower(c) \/ Lower(c) # c
      [] name = <<"l", "o", "w", "e", "r">> -> IsLower(c)
      [] name = <<"u", "p", "p", "e", "r">> -> Lower(c) # c
      [] name = <<"x", "d", "i", "g", "i", "t">> -> Lower(c) \in {"a", "b", "d", "e"}
      [] OTHER -> FALSE

(* How many letters a to y stand from position i on.                       *)
RECURSIVE Letters(_, _)
Letters(pat, i) == IF IsLower(At(pat, i)) THEN 1 + Letters(pat, i + 1) ELSE 0

ClosesClass(pat, i) == At(pat, i) = ":" /\ At(pat, i + 1) = "]"

(* The position of the ] that ends the bracket at p, 0 if there is none.   *)
BracketClose(pat, p) ==
    LET sign == IF At(pat, p + 1) \in {"!", "^"} THEN p + 2 ELSE p + 1
        from == IF At(pat, sign) = "]" THEN sign + 1 ELSE sign
        closes == {i \in from..Len(pat) : pat[i] = "]"}
    IN  IF closes = {} THEN 0 ELSE Min(closes)
-----------------------------------------------------------------------------
(* The part of case '[' before "matched": does the character ch stand in   *)
(* the list that goes on at p?                                             *)
Matched(p)   == [is |-> "matched", p |-> p]
AtEnd(p)     == [is |-> "end", p |-> p]
Unterminated == [is |-> "unterminated"]
IllFormed    == [is |-> "no match"]

RECURSIVE BracketScan(_, _, _, _, _)
RECURSIVE NormalBracket(_, _, _, _, _)
NormalBracket(pat, c, p, ch, flags) ==
    LET is_range == At(pat, p) = "-" /\ At(pat, p + 1) \notin {NUL, "]"}
        quoted == Quotes(At(pat, p + 1), flags)
        cend == At(pat, IF quoted THEN p + 2 ELSE p + 1)
        past == IF quoted THEN p + 3 ELSE p + 2
        fn == FOLD(ch, flags)
    IN  IF ~is_range /\ c = fn THEN Matched(p)
        ELSE IF At(pat, p) # "-" \/ At(pat, p + 1) = "]" THEN BracketScan(pat, p, ch, flags, FALSE)
        ELSE IF cend = NUL THEN IllFormed
        ELSE IF Code(c) <= Code(fn) /\ Code(fn) <= Code(cend) THEN Matched(past)
        ELSE BracketScan(pat, past, ch, flags, FALSE)

BracketClass(pat, startp, ch, flags) ==
    LET c1 == Letters(pat, startp + 1)
    IN  IF c1 >= CHAR_CLASS_MAX_LENGTH THEN IllFormed
        ELSE IF ~ClosesClass(pat, startp + 1 + c1) THEN NormalBracket(pat, "[", startp, ch, flags)
        ELSE IF InClass(SubSeq(pat, startp + 1, startp + c1), ch) THEN Matched(startp + c1 + 3)
        ELSE BracketScan(pat, startp + c1 + 3, ch, flags, FALSE)

BracketScan(pat, p, ch, flags, first) ==
    LET c == At(pat, p)
    IN  CASE c = "]" /\ ~first -> AtEnd(p + 1)
          [] Quotes(c, flags) ->
                IF At(pat, p + 1) = NUL THEN IllFormed
                ELSE NormalBracket(pat, FOLD(At(pat, p + 1), flags), p + 2, ch, flags)
          [] c = "[" /\ At(pat, p + 1) = ":" -> BracketClass(pat, p + 1, ch, flags)
          [] c = NUL -> Unterminated
          [] OTHER -> NormalBracket(pat, FOLD(c, flags), p + 1, ch, flags)

(* The part after "matched": the position behind the bracket, 0 if the     *)
(* pattern is ill-formed.  A class whose name has five letters, and every  *)
(* one has, is taken for ill-formed here.                                  *)
RECURSIVE BracketSkip(_, _, _)
BracketSkip(pat, p, flags) ==
    LET c == At(pat, p)
        Behind(i) == IF At(pat, i) = "]" THEN i + 1 ELSE BracketSkip(pat, i + 1, flags)
        c1 == Letters(pat, p + 2)
        dots == {j \in p + 3 .. Len(pat) : pat[j] = "." /\ At(pat, j + 1) = "]"}
    IN  CASE c = NUL -> 0
          [] Quotes(c, flags) -> IF At(pat, p + 1) = NUL THEN 0 ELSE BracketSkip(pat, p + 2, flags)
          [] c = "[" /\ At(pat, p + 1) = ":" ->
                IF c1 + 1 >= CHAR_CLASS_MAX_LENGTH THEN 0
                ELSE IF ClosesClass(pat, p + 2 + c1) THEN Behind(p + c1 + 4)
                ELSE BracketSkip(pat, p + 1, flags)
          [] c = "[" /\ At(pat, p + 1) = "=" ->
                IF At(pat, p + 3) = "=" /\ At(pat, p + 4) = "]" THEN Behind(p + 5) ELSE 0
          [] c = "[" /\ At(pat, p + 1) = "." ->
                IF dots = {} THEN 0 ELSE Behind(Min(dots) + 2)
          [] OTHER -> IF c = "]" THEN p + 1 ELSE BracketSkip(pat, p + 1, flags)
-----------------------------------------------------------------------------
(* The position behind the extended pattern whose ( is at p, or p when it  *)
(* has no end.                                                             *)
RECURSIVE EndFrom(_, _, _)
EndFrom(pat, start, p) ==
    LET c == At(pat, p)
        close == BracketClose(pat, p)
    IN  CASE c = NUL -> start
          [] c = "[" -> IF close = 0 THEN start ELSE EndFrom(pat, start, close + 1)
          [] IsOperator(c) /\ At(pat, p + 1) = "(" ->
                EndFrom(pat, start, EndFrom(pat, p + 1, p + 2) + 1)
          [] c = ")" -> p + 1
          [] OTHER -> EndFrom(pat, start, p + 1)

end_pattern(pat, p) == EndFrom(pat, p, p + 1)

(* The alternatives of an extended pattern and the position behind it.     *)
RECURSIVE ExtParse(_, _, _, _, _)
ExtParse(pat, startp, p, level, list) ==
    LET c == At(pat, p)
        close == BracketClose(pat, p)
        longer == Append(list, SubSeq(pat, startp, p - 1))
    IN  CASE c = NUL -> [ok |-> FALSE]
          [] c = "[" -> IF close = 0 THEN [ok |-> FALSE] ELSE ExtParse(pat, startp, close + 1, level, list)
          [] IsOperator(c) /\ At(pat, p + 1) = "(" -> ExtParse(pat, startp, p + 1, level + 1, list)
          [] c = ")" -> IF level = 0 THEN [ok |-> TRUE, list |-> longer, p |-> p + 1]
                        ELSE ExtParse(pat, startp, p + 1, level - 1, list)
          [] c = "|" /\ level = 0 -> ExtParse(pat, p + 1, p + 1, level, longer)
          [] OTHER -> ExtParse(pat, startp, p + 1, level, list)

(* The wildcards behind a *: each ? takes a character.  n = 0 stands for   *)
(* no match.                                                               *)
RECURSIVE StarSkip(_, _, _, _, _, _)
StarSkip(pat, p, str, n, string_end, flags) ==
    LET c == At(pat, p)
        endp == IF At(pat, p + 1) = "(" /\ FNM_EXTMATCH \in flags THEN end_pattern(pat, p + 1) ELSE p + 1
    IN  CASE c \notin {"?", "*"} -> [p |-> p, n |-> n]
          [] c \in {"?", "*"} /\ endp # p + 1 -> StarSkip(pat, endp, str, n, string_end, flags)
          [] c = "*" /\ endp = p + 1 -> StarSkip(pat, p + 1, str, n, string_end, flags)
          [] c = "?" /\ endp = p + 1 ->
                IF n = string_end \/ (str[n] = "/" /\ FNM_FILE_NAME \notin flags) THEN [p |-> p, n |-> 0]
                ELSE StarSkip(pat, p + 1, str, n + 1, string_end, flags)
-----------------------------------------------------------------------------
(* What FCT returns, and what it leaves in *ends: the next * of the        *)
(* pattern, where the caller goes on.                                      *)
Result(matches) == [matches |-> matches, ends |-> <<>>]
No == Result(FALSE)

RECURSIVE FCT(_, _, _, _, _, _, _, _)
RECURSIVE FirstFound(_, _, _, _, _, _, _, _, _)

(* EXT: the extended pattern with operator opt whose ( is at p.            *)
ext_match(opt, pat, p, parsed, str, n, string_end, nlp, flags) ==
    LET flags2 == WithoutPeriod(flags)
        Leading(rs) == IF rs = n THEN nlp ELSE str[rs - 1] = "/" /\ NO_LEADING_PERIOD(flags)
        Alternative(l, rs) == FCT(l, 1, str, n, rs, nlp, flags2, FALSE).matches
        Rest(q, rs) == FCT(pat, q, str, rs, string_end, Leading(rs), flags2, FALSE).matches
        Empty == FCT(pat, parsed.p, str, n, string_end, nlp, flags, FALSE).matches
        Repeated == \E l \in Range(parsed.list), rs \in n..string_end :
                        Alternative(l, rs) /\ (Rest(parsed.p, rs) \/ (rs # n /\ Rest(p - 1, rs)))
        Once == \E l \in Range(parsed.list) :
                    Alternative(l \o SubSeq(pat, parsed.p, Len(pat)), string_end)
        Other == \E rs \in n..string_end :
                     (\A l \in Range(parsed.list) : ~Alternative(l, rs)) /\ Rest(parsed.p, rs)
    IN  CASE opt = "*" -> Empty \/ Repeated
          [] opt = "+" -> Repeated
          [] opt = "?" -> Empty \/ Once
          [] opt = "@" -> Once
          [] opt = "!" -> Other

(* The first of the positions n .. last - 1 from which the rest of the     *)
(* pattern, up to its next *, matches: only the first is tried further.    *)
FirstFound(pat, p, str, n, last, string_end, nlp, flags, want) ==
    LET r == FCT(pat, p, str, n, string_end, nlp, flags, TRUE)
    IN  IF n >= last THEN No
        ELSE IF (want = NUL \/ FOLD(str[n], flags) = want) /\ r.matches THEN r
        ELSE FirstFound(pat, p, str, n + 1, last, string_end, FALSE, flags, want)

(* case '*', once the wildcards behind it are skipped.                     *)
Star(pat, p, str, n, string_end, nlp, flags, ends) ==
    LET c == At(pat, p)
        slashes == {i \in n .. string_end - 1 : str[i] = "/"}
        endp == IF FNM_FILE_NAME \in flags /\ slashes # {} THEN Min(slashes) ELSE string_end
        first == IF c = "[" \/ (FNM_EXTMATCH \in flags /\ c \in {"@", "+", "!"} /\ At(pat, p + 1) = "(")
                 THEN NUL ELSE FOLD(IF Quotes(c, flags) THEN At(pat, p + 1) ELSE c, flags)
        found == FirstFound(pat, p, str, n, endp, string_end, nlp, WithoutPeriod(flags), first)
        e == found.ends
    IN  IF c = NUL THEN Result(FNM_FILE_NAME \in flags => (FNM_LEADING_DIR \in flags \/ slashes = {}))
        ELSE IF c = "/" /\ FNM_FILE_NAME \in flags
             THEN IF slashes = {} THEN No
                  ELSE Result(FCT(pat, p + 1, str, Min(slashes) + 1, string_end,
                                  FNM_PERIOD \in flags, flags, FALSE).matches)
        ELSE IF e # <<>> THEN FCT(pat, e[1], str, e[2], string_end, e[3], flags, ends)
        ELSE found

(* Matches str from n on, up to string_end, with pat from p on.            *)
FCT(pat, p, str, n, string_end, nlp, flags, ends) ==
    LET c == FOLD(At(pat, p), flags)
        here == IF n = string_end THEN NUL ELSE str[n]
        Go(q, leading) == FCT(pat, q, str, n + 1, string_end, leading, flags, ends)
        Normal(x, q) == IF here # NUL /\ x = FOLD(here, flags) THEN Go(q, FALSE) ELSE No
        blocked == here = NUL \/ (here = "/" /\ FNM_FILE_NAME \in flags) \/ (here = "." /\ nlp)
        isExt == IsOperator(c) /\ FNM_EXTMATCH \notin flags /\ At(pat, p + 1) = "("
        parsed == ExtParse(pat, p + 2, p + 2, 0, <<>>)
        skip == StarSkip(pat, p + 1, str, n, string_end, flags)
        inverted == At(pat, p + 1) \in {"!", "^"}
        scan == BracketScan(pat, IF inverted THEN p + 2 ELSE p + 1, here, flags, TRUE)
        behind == BracketSkip(pat, scan.p, flags)
    IN  CASE c = NUL -> Result(here = NUL \/ (FNM_LEADING_DIR \in flags /\ here = "/"))
          [] isExt /\ parsed.ok -> Result(ext_match(c, pat, p + 1, parsed, str, n, string_end, nlp, flags))
          [] c = "?" /\ ~(isExt /\ parsed.ok) -> IF blocked THEN No ELSE Go(p + 1, FALSE)
          [] Quotes(c, flags) ->
                IF At(pat, p + 1) = NUL THEN No ELSE Normal(FOLD(At(pat, p + 1), flags), p + 2)
          [] c = "*" /\ ~(isExt /\ parsed.ok) ->
                IF ends /\ ~isExt THEN [matches |-> TRUE, ends |-> <<p, n, nlp>>]
                ELSE IF (here = "." /\ nlp) \/ skip.n = 0 THEN No
                ELSE Star(pat, skip.p, str, skip.n, string_end, nlp, flags, ends)
          [] c = "[" ->
                IF blocked THEN No
                ELSE IF scan.is = "unterminated" THEN Normal("[", p + 1)
                ELSE IF scan.is = "end" /\ inverted THEN Go(scan.p, FALSE)
                ELSE IF scan.is = "matched" /\ behind # 0 /\ ~inverted THEN Go(behind, FALSE)
                ELSE No
          [] c = "/" /\ NO_LEADING_PERIOD(flags) -> IF here = "/" THEN Go(p + 1, TRUE) ELSE No
          [] OTHER -> Normal(c, p + 1)

fnmatch(pat, str, flags) ==
    FCT(pat, 1, str, 1, Len(str) + 1, FNM_PERIOD \in flags, flags, FALSE).matches

(* One call for each of strs: yes are those that match.                    *)
Fnmatch(pat, flags, strs) ==
    call' = [fn |-> "fnmatch", pat |-> pat, flags |-> flags, strs |-> strs,
             yes |-> {s \in strs : fnmatch(pat, s, flags)}]

(* x and y are the alternatives, z what follows them; called without and   *)
(* with FNM_EXTMATCH.                                                      *)
FnmatchExt(opt, x, y, z, strs) ==
    call' = [fn |-> "ext", opt |-> opt, x |-> x, y |-> y, z |-> z, strs |-> strs,
             yes |-> [flags \in SUBSET {FNM_EXTMATCH} |->
                        {s \in strs : fnmatch(<<opt, "(">> \o x \o <<"|">> \o y \o <<")">> \o z, s, flags)}]]

Upto(n, alphabet) == UNION {[1..k -> alphabet] : k \in 0..n}

FnmatchCall ==
    /\ call = Idle
    /\ \/ \E pat \in Upto(4, {"*", "?", "a", ".", "/"}),
             flags \in SUBSET {FNM_PERIOD, FNM_FILE_NAME} \cup {{FNM_LEADING_DIR}, {FNM_LEADING_DIR, FNM_FILE_NAME}} :
                Fnmatch(pat, flags, Upto(3, {"a", ".", "/"}))
       \/ \E pat \in Upto(3, {"a", "b", "d", "!", "-", "]", "/"}), before \in {<<>>, <<"*">>}, after \in {<<>>, <<"]">>},
             flags \in SUBSET {FNM_FILE_NAME} :
                Fnmatch(before \o <<"[">> \o pat \o after, flags, Upto(1, {"a", "b", "e", "!", "-", "]", "/"}))
       \/ \E pat \in Upto(3, {"\\", "a", "A", "*"}), flags \in SUBSET {FNM_NOESCAPE, FNM_CASEFOLD} :
                Fnmatch(pat, flags, Upto(2, {"\\", "a", "A", "*"}))
       \/ \E class \in {<<"a", "l", "p", "h", "a">>, <<"l", "o", "w", "e", "r">>, <<"u", "p", "p", "e", "r">>,
                        <<"x", "d", "i", "g", "i", "t">>},
             sign \in {<<>>, <<"!">>}, ahead \in {<<>>, <<"a">>}, more \in {<<>>, <<".">>} :
                Fnmatch(<<"[">> \o sign \o ahead \o <<"[", ":">> \o class \o <<":", "]">> \o more \o <<"]">>, {},
                        Upto(1, {"a", "A", ".", "/"}))
       \/ \E opt \in {"?", "*", "+", "@", "!"}, x, y \in Upto(2, {"a", "b"}), z \in {<<>>, <<"a">>, <<"b">>} :
                FnmatchExt(opt, x, y, z, Upto(3, {"a", "b"}))
-----------------------------------------------------------------------------
(* The reference: a pattern is cut into what each part accepts, and any    *)
(* way of laying the string on the parts counts.                           *)
RECURSIVE Elements(_)
Elements(w) ==
    IF w = <<>> THEN {}
    ELSE IF Len(w) > 2 /\ w[1] = "[" /\ w[2] = ":"
         THEN LET k == Letters(w, 3) IN {c \in Range(Chars) : InClass(SubSeq(w, 3, k + 2), c)}
                                        \cup Elements(SubSeq(w, k + 5, Len(w)))
    ELSE IF Len(w) > 2 /\ w[2] = "-"
         THEN {c \in Range(Chars) : Code(w[1]) <= Code(c) /\ Code(c) <= Code(w[3])}
              \cup Elements(SubSeq(w, 4, Len(w)))
    ELSE {w[1]} \cup Elements(Tail(w))

(* The end of a bracket, classes stepped over.                             *)
RECURSIVE ListEnd(_, _, _)
ListEnd(pat, i, first) ==
    CASE At(pat, i) = NUL -> 0
      [] At(pat, i) = "]" /\ ~first -> i
      [] At(pat, i) = "[" /\ At(pat, i + 1) = ":" -> ListEnd(pat, i + Letters(pat, i + 2) + 4, FALSE)
      [] OTHER -> ListEnd(pat, i + 1, FALSE)

RECURSIVE Parts(_, _)
Parts(pat, flags) ==
    IF pat = <<>> THEN <<>>
    ELSE LET c == Head(pat)
             neg == At(pat, 2) \in {"!", "^"}
             from == IF neg THEN 3 ELSE 2
             close == ListEnd(pat, from, TRUE)
             list == Elements(SubSeq(pat, from, close - 1))
         IN  CASE c = "*" -> <<[is |-> "many"]>> \o Parts(Tail(pat), flags)
               [] c = "?" -> <<[is |-> "one", of |-> Range(Chars)]>> \o Parts(Tail(pat), flags)
               [] c = "[" /\ close # 0 ->
                     <<[is |-> "one", of |-> IF neg THEN Range(Chars) \ list ELSE list]>>
                     \o Parts(SubSeq(pat, close + 1, Len(pat)), flags)
               [] Quotes(c, flags) ->
                     IF Len(pat) = 1 THEN <<[is |-> "none"]>>
                     ELSE <<[is |-> "literal", c |-> pat[2]]>> \o Parts(SubSeq(pat, 3, Len(pat)), flags)
               [] OTHER -> <<[is |-> "literal", c |-> c]>> \o Parts(Tail(pat), flags)

RECURSIVE Lies(_, _, _, _)
Lies(parts, s, j, flags) ==
    LET part == Head(parts)
        more == j <= Len(s)
        leading == more /\ s[j] = "." /\ FNM_PERIOD \in flags
                   /\ (j = 1 \/ (FNM_FILE_NAME \in flags /\ s[j - 1] = "/"))
        wild == more /\ ~(s[j] = "/" /\ FNM_FILE_NAME \in flags) /\ ~leading
    IN  IF parts = <<>> THEN ~more \/ (FNM_LEADING_DIR \in flags /\ s[j] = "/")
        ELSE CASE part.is = "none" -> FALSE
               [] part.is = "literal" -> more /\ FOLD(s[j], flags) = FOLD(part.c, flags) /\ Lies(Tail(parts), s, j + 1, flags)
               [] part.is = "one" -> wild /\ FOLD(s[j], flags) \in part.of /\ Lies(Tail(parts), s, j + 1, flags)
               [] part.is = "many" -> \/ ~leading /\ Lies(Tail(parts), s, j, flags)
                                      \/ wild /\ Lies(parts, s, j + 1, flags)

(* A ? among the wildcards that follow a *.                                *)
StarThenAny(pat) ==
    \E i, j \in 1..Len(pat) : i < j /\ pat[i] = "*" /\ pat[j] = "?" /\ \A k \in i..j : pat[k] \in {"*", "?"}

(* A class that is not the first element of its bracket, or whose name is  *)
(* longer than the others.                                                 *)
OddClass(pat) ==
    \E i \in 1..Len(pat) :
        /\ pat[i] = "[" /\ At(pat, i + 1) = ":"
        /\ \/ i > 1 /\ pat[i - 1] # "[" /\ ~(i > 2 /\ pat[i - 2] = "[" /\ pat[i - 1] \in {"!", "^"})
           \/ Letters(pat, i + 2) >= CHAR_CLASS_MAX_LENGTH

(* fnmatch (fnmatch.c:131, 816) tries the pattern up to its next * at the  *)
(* first place only and never comes back; it still finds a match whenever  *)
(* there is one, for patterns of wildcards, brackets, unterminated ones    *)
(* too, ranges, quotes, leading periods and slashes.  Three things are     *)
(* left out because fnmatch.c departs from POSIX there: a slash met by a ? *)
(* behind a * (line 220 tests FNM_FILE_NAME the wrong way round), a class  *)
(* behind another element of its bracket, as in [a[:alpha:]] (line 488     *)
(* takes it for ill-formed once the a has matched), and [[:xdigit:]],      *)
(* whose name has six letters (line 363).                                  *)
FnmatchIsPosix ==
    call.fn = "fnmatch" /\ ~OddClass(call.pat) =>
        \A s \in call.strs :
            (StarThenAny(call.pat) /\ "/" \in Range(s))
            \/ (s \in call.yes) = Lies(Parts(call.pat, call.flags), s, 1, call.flags)

RECURSIVE Repeats(_, _, _)
Repeats(s, x, y) ==
    s = <<>> \/ \E a \in {x, y} \ {<<>>} : IsPrefix(a, s) /\ Repeats(SubSeq(s, Len(a) + 1, Len(s)), x, y)

(* What o(x|y)z matches in ksh: none or one, any number, one or more,      *)
(* exactly one or none of the alternatives, then z.                        *)
KshMatches(opt, x, y, z, s) ==
    \E k \in 0..Len(s) :
        LET u == SubSeq(s, 1, k)
            one == u \in {x, y}
        IN  /\ SubSeq(s, k + 1, Len(s)) = z
            /\ CASE opt = "?" -> one \/ u = <<>>
                 [] opt = "@" -> one
                 [] opt = "*" -> Repeats(u, x, y)
                 [] opt = "+" -> one \/ (u # <<>> /\ Repeats(u, x, y))
                 [] opt = "!" -> ~one

(* ext_match (line 613) does what ksh does, under one setting of           *)
(* FNM_EXTMATCH.  Which one is left open: the header says that the flag    *)
(* asks for it ("Use ksh-like extended matching", fnmatch.h:40), the code  *)
(* does it when the flag is missing (lines 152, 182, 538).                 *)
ExtMatches ==
    call.fn = "ext" =>
        \E flags \in SUBSET {FNM_EXTMATCH} :
            call.yes[flags] = {s \in call.strs : KshMatches(call.opt, call.x, call.y, call.z, s)}

(* fnmatch.c as a whole: ordinary patterns and extended ones.              *)
GlobsMatch == FnmatchIsPosix /\ ExtMatches
=============================================================================
