------------------------------ MODULE Cursors ------------------------------
(***************************************************************************)
(* The functions of source/byte_buf.c that read a byte cursor: splitting,  *)
(* searching, trimming, comparing, hashing, advancing and parsing.  A      *)
(* cursor is the sequence of the bytes it covers, or an offset and a       *)
(* length where the code returns a place.  Every behaviour is one call;    *)
(* the property compares its result with what the function is for.         *)
(***************************************************************************)
EXTENDS Integers, Sequences, SequencesExt, FiniteSetsExt, Bitwise

CONSTANTS TextBytes,      \* the bytes the texts are made of
          TextLen,        \* bound on the length of a text
          DigitBytes,     \* the bytes a number is parsed from
          WordBits        \* width of size_t and uint64_t in this model

VARIABLE cursorCall       \* the call made: its function, arguments and result

CursorsInit == cursorCall = [fn |-> "none"]

WordMax == 2^WordBits - 1
HalfMax == WordMax \div 2

\* A null pointer and the errors; offsets and values are natural numbers.
NoPtr == -1
NOT_FOUND == -2
SHORT_BUFFER == -3
INVALID_ARGUMENT == -4
OVERFLOW_DETECTED == -5
FAILED == -6

Texts == UNION {[1 .. n -> TextBytes] : n \in 0 .. TextLen}
Digits == UNION {[1 .. n -> DigitBytes] : n \in 0 .. TextLen}

----------------------------------------------------------------------------
(* Characters                                                              *)

s_tolower_table(ch) == IF ch \in 65 .. 90 THEN ch + 32 ELSE ch
aws_isdigit(ch) == ch \in 48 .. 57
aws_isalpha(ch) == ch \in (97 .. 122) \cup (65 .. 90)
aws_isalnum(ch) == aws_isalpha(ch) \/ aws_isdigit(ch)
aws_isxdigit(ch) == ch \in (48 .. 57) \cup (97 .. 102) \cup (65 .. 70)
aws_isspace(ch) == ch \in {32} \cup 9 .. 13

s_hex_to_num_table(ch) ==
    CASE ch \in 48 .. 57 -> ch - 48
      [] ch \in 65 .. 70 -> ch - 55
      [] ch \in 97 .. 102 -> ch - 87
      [] OTHER -> 255

Lower(s) == [i \in DOMAIN s |-> s_tolower_table(s[i])]

----------------------------------------------------------------------------
(* Comparing and hashing                                                   *)

aws_array_eq_ignore_case(a, b) ==
    Len(a) = Len(b) /\ \A i \in DOMAIN a : s_tolower_table(a[i]) = s_tolower_table(b[i])

\* The string ends at its first NUL and is read no further than the array is long.
StrAt(s, i) == IF i <= Len(s) THEN s[i] ELSE 0

aws_array_eq_c_str(a, c_str) ==
    /\ \A i \in DOMAIN a : StrAt(c_str, i) # 0 /\ a[i] = StrAt(c_str, i)
    /\ StrAt(c_str, Len(a) + 1) = 0

aws_array_eq_c_str_ignore_case(a, c_str) ==
    /\ \A i \in DOMAIN a : /\ StrAt(c_str, i) # 0
                           /\ s_tolower_table(a[i]) = s_tolower_table(StrAt(c_str, i))
    /\ StrAt(c_str, Len(a) + 1) = 0

aws_byte_cursor_starts_with_ignore_case(input, prefix) ==
    Len(input) >= Len(prefix) /\ aws_array_eq_ignore_case(SubSeq(input, 1, Len(prefix)), prefix)

\* FNV-1a with the basis and the prime cut to the word's width.
aws_hash_array_ignore_case(s) ==
    FoldLeft(LAMBDA hash, ch : ((hash ^^ s_tolower_table(ch)) * 435) % (WordMax + 1),
             8997 % (WordMax + 1), s)

Sign(n) == IF n < 0 THEN -1 ELSE IF n > 0 THEN 1 ELSE 0

\* memcmp of the shorter length, then the lengths.
aws_byte_cursor_compare_lexical(lhs, rhs) ==
    LET common == Min({Len(lhs), Len(rhs)})
        differ == {i \in 1 .. common : lhs[i] # rhs[i]}
    IN  IF differ # {} THEN Sign(lhs[Min(differ)] - rhs[Min(differ)])
        ELSE IF Len(lhs) # Len(rhs) THEN (IF common = Len(lhs) THEN -1 ELSE 1)
        ELSE 0

RECURSIVE CompareFrom(_, _, _)
CompareFrom(lhs, rhs, i) ==
    IF i <= Len(lhs) /\ i <= Len(rhs)
    THEN LET lhc == s_tolower_table(lhs[i])
             rhc == s_tolower_table(rhs[i])
         IN  IF lhc < rhc THEN -1 ELSE IF lhc > rhc THEN 1 ELSE CompareFrom(lhs, rhs, i + 1)
    ELSE IF i <= Len(lhs) THEN 1 ELSE IF i <= Len(rhs) THEN -1 ELSE 0

aws_byte_cursor_compare_lookup(lhs, rhs) ==
    IF Len(lhs) = 0 /\ Len(rhs) = 0 THEN 0
    ELSE IF Len(lhs) = 0 THEN -1
    ELSE IF Len(rhs) = 0 THEN 1
    ELSE CompareFrom(lhs, rhs, 1)

----------------------------------------------------------------------------
(* Splitting and searching                                                 *)

\* memchr from offset `from`: the offset found, or the end.
Memchr(s, ch, from) == LET at == {i \in from .. Len(s) - 1 : s[i + 1] = ch}
                       IN  IF at = {} THEN Len(s) ELSE Min(at)

FirstRun == [ptr |-> NoPtr, len |-> 0]

\* The next piece, or FirstRun when the input is used up.
aws_byte_cursor_next_split(s, ch, substr) ==
    LET start == IF substr = FirstRun THEN 0 ELSE substr.ptr + substr.len + 1
    IN  IF start > Len(s) THEN FirstRun
        ELSE [ptr |-> start, len |-> Memchr(s, ch, start) - start]

\* The loop of split_on_char_n.
RECURSIVE SplitsFrom(_, _, _, _, _)
SplitsFrom(s, ch, max_splits, substr, count) ==
    LET next == aws_byte_cursor_next_split(s, ch, substr)
        rest == IF count = max_splits THEN [next EXCEPT !.len = Len(s) - next.ptr] ELSE next
    IN  IF count > max_splits \/ next = FirstRun THEN <<>>
        ELSE <<rest>> \o SplitsFrom(s, ch, max_splits, rest, count + 1)

aws_byte_cursor_split_on_char_n(s, ch, n) ==
    SplitsFrom(s, ch, IF n > 0 THEN n ELSE WordMax, FirstRun, 0)

\* The offset of the match, or the error.
RECURSIVE FindFrom(_, _, _)
FindFrom(s, to_find, off) ==
    LET first == Memchr(s, to_find[1], off)
    IN  IF off = Len(s) \/ first = Len(s) \/ Len(s) - first < Len(to_find) THEN NOT_FOUND
        ELSE IF SubSeq(s, first + 1, first + Len(to_find)) = to_find THEN first
        ELSE FindFrom(s, to_find, first + 1)

aws_byte_cursor_find_exact(s, to_find) ==
    IF Len(to_find) > Len(s) THEN NOT_FOUND
    ELSE IF Len(to_find) < 1 THEN SHORT_BUFFER
    ELSE FindFrom(s, to_find, 0)

RECURSIVE aws_byte_cursor_left_trim_pred(_), aws_byte_cursor_right_trim_pred(_)
aws_byte_cursor_left_trim_pred(s) ==
    IF Len(s) > 0 /\ aws_isspace(Head(s)) THEN aws_byte_cursor_left_trim_pred(Tail(s)) ELSE s
aws_byte_cursor_right_trim_pred(s) ==
    IF Len(s) > 0 /\ aws_isspace(Last(s)) THEN aws_byte_cursor_right_trim_pred(Front(s)) ELSE s

aws_byte_cursor_trim_pred(s) == aws_byte_cursor_right_trim_pred(aws_byte_cursor_left_trim_pred(s))
aws_byte_cursor_satisfies_pred(s) == Len(aws_byte_cursor_left_trim_pred(s)) = 0

----------------------------------------------------------------------------
(* Advancing; words wrap at WordBits                                       *)

\* Only the sign bit of the combined mask matters; a bitwise or has it if either has.
Negative(word) == word > HalfMax

aws_nospec_mask(index, bound) ==
    LET toobig == (bound - index - 1) % (WordMax + 1)
    IN  IF Negative(index) \/ Negative(bound) \/ Negative(toobig) THEN 0 ELSE WordMax

\* What a cursor of length len at offset 0 becomes, and the slice that is returned.
Refused(len) == [ptr |-> 0, len |-> len, slice |-> FirstRun]

aws_byte_cursor_advance(len, n) ==
    IF len > HalfMax \/ n > HalfMax \/ n > len THEN Refused(len)
    ELSE [ptr |-> n, len |-> len - n, slice |-> [ptr |-> 0, len |-> n]]

aws_byte_cursor_advance_nospec(len, n) ==
    LET mask == aws_nospec_mask(n, (len + 1) % (WordMax + 1))
    IN  IF ~(n <= len /\ n <= HalfMax /\ len <= HalfMax) THEN Refused(len)
        ELSE IF mask = 0 THEN [ptr |-> NoPtr, len |-> 0, slice |-> FirstRun]
        ELSE [ptr |-> n, len |-> len - n, slice |-> [ptr |-> 0, len |-> n]]

----------------------------------------------------------------------------
(* Parsing                                                                 *)

RECURSIVE ReadFrom(_, _, _)
ReadFrom(s, base, val) ==
    IF s = <<>> THEN val
    ELSE LET cval == s_hex_to_num_table(Head(s))
         IN  IF cval >= base THEN INVALID_ARGUMENT
             ELSE IF val * base > WordMax THEN OVERFLOW_DETECTED
             ELSE IF val * base + cval > WordMax THEN OVERFLOW_DETECTED
             ELSE ReadFrom(Tail(s), base, val * base + cval)

s_read_unsigned(s, base) == IF s = <<>> THEN INVALID_ARGUMENT ELSE ReadFrom(s, base, 0)

\* The byte and how many bytes were consumed.
aws_byte_cursor_read_hex_u8(s) ==
    IF Len(s) < 2 THEN FAILED
    ELSE LET hi == s_hex_to_num_table(s[1])
             lo == s_hex_to_num_table(s[2])
         IN  IF hi = 255 \/ lo = 255 THEN FAILED ELSE hi * 16 + lo

----------------------------------------------------------------------------
(* One call                                                                *)

Idle == cursorCall.fn = "none"
Calls(c) == cursorCall' = c

CallsSplit == Idle /\ \E s \in Texts, ch \in TextBytes, n \in 0 .. 2 :
    Calls([fn |-> "split", s |-> s, ch |-> ch, n |-> n,
           res |-> aws_byte_cursor_split_on_char_n(s, ch, n)])
CallsFind == Idle /\ \E s, t \in Texts :
    Calls([fn |-> "find", s |-> s, t |-> t, res |-> aws_byte_cursor_find_exact(s, t)])
CallsTrim == Idle /\ \E s \in Texts :
    Calls([fn |-> "trim", s |-> s, res |-> aws_byte_cursor_trim_pred(s),
           all |-> aws_byte_cursor_satisfies_pred(s)])
CallsCompare == Idle /\ \E s, t \in Texts :
    Calls([fn |-> "compare", s |-> s, t |-> t,
           lexical |-> aws_byte_cursor_compare_lexical(s, t),
           lookup |-> aws_byte_cursor_compare_lookup(s, t)])
CallsAdvance == Idle /\ \E len, n \in 0 .. WordMax :
    Calls([fn |-> "advance", len |-> len, n |-> n, res |-> aws_byte_cursor_advance(len, n),
           nospec |-> aws_byte_cursor_advance_nospec(len, n),
           mask |-> aws_nospec_mask(n, len)])
CallsParse == Idle /\ \E s \in Digits, base \in {10, 16} :
    Calls([fn |-> "parse", s |-> s, base |-> base, res |-> s_read_unsigned(s, base),
           byte |-> aws_byte_cursor_read_hex_u8(s)])

CursorsNext == CallsSplit \/ CallsFind \/ CallsTrim \/ CallsCompare \/ CallsAdvance \/ CallsParse

----------------------------------------------------------------------------
(* What the functions are for                                              *)

SplitExact(s, ch, n, pieces) ==
    LET text(p) == SubSeq(s, p.ptr + 1, p.ptr + p.len)
        splits == {i \in DOMAIN s : s[i] = ch}
        wanted == IF n = 0 THEN Cardinality(splits) ELSE Min({n, Cardinality(splits)})
    IN  /\ Len(pieces) = wanted + 1
        /\ s = FoldLeft(LAMBDA all, p : IF p.ptr = 0 THEN text(p) ELSE all \o <<ch>> \o text(p),
                        <<>>, pieces)
        /\ \A i \in DOMAIN pieces : i <= n \/ n = 0 => ~Contains(text(pieces[i]), ch)

FindExact(s, t, at) ==
    LET matches == {i \in 0 .. Len(s) - Len(t) : SubSeq(s, i + 1, i + Len(t)) = t}
    IN  at = IF Len(t) = 0 THEN SHORT_BUFFER ELSE IF matches = {} THEN NOT_FOUND ELSE Min(matches)

TrimExact(s, trimmed) ==
    LET kept == {i \in DOMAIN s : ~aws_isspace(s[i])}
    IN  trimmed = IF kept = {} THEN <<>> ELSE SubSeq(s, Min(kept), Max(kept))

\* An order: a prefix first, and the first byte that differs decides.
Before(s, t) == \/ IsStrictPrefix(s, t)
                \/ \E i \in DOMAIN s \cap DOMAIN t :
                       s[i] < t[i] /\ SubSeq(s, 1, i - 1) = SubSeq(t, 1, i - 1)
Ordered(s, t) == IF s = t THEN 0 ELSE IF Before(s, t) THEN -1 ELSE 1

CompareExact(s, t) ==
    LET same == Lower(s) = Lower(t)
    IN  /\ cursorCall.lexical = Ordered(s, t)
        /\ cursorCall.lookup = Ordered(Lower(s), Lower(t))
        /\ aws_array_eq_ignore_case(s, t) <=> same
        /\ aws_byte_cursor_starts_with_ignore_case(s, t) <=> IsPrefix(Lower(t), Lower(s))
        /\ same => aws_hash_array_ignore_case(s) = aws_hash_array_ignore_case(t)
        /\ ~Contains(t, 0) => /\ aws_array_eq_c_str(s, t) <=> s = t
                              /\ aws_array_eq_c_str_ignore_case(s, t) <=> same

AdvanceExact(len, n) ==
    /\ n > len \/ len # HalfMax => cursorCall.nospec = cursorCall.res
    /\ cursorCall.res = IF n <= len /\ len <= HalfMax
                        THEN [ptr |-> n, len |-> len - n, slice |-> [ptr |-> 0, len |-> n]]
                        ELSE Refused(len)
    /\ cursorCall.mask = IF n < len /\ len <= HalfMax THEN WordMax ELSE 0

Value(s, base) == FoldLeft(LAMBDA val, ch : val * base + s_hex_to_num_table(ch), 0, s)

ParseExact(s, base) ==
    LET digits == \A i \in DOMAIN s : s_hex_to_num_table(s[i]) < base
        prefix(i) == Value(SubSeq(s, 1, i), base)
        overflows == {i \in DOMAIN s : prefix(i) > WordMax}
    IN  /\ s = <<>> => cursorCall.res = INVALID_ARGUMENT
        /\ s # <<>> /\ digits => cursorCall.res = IF overflows = {} THEN Value(s, base)
                                                 ELSE OVERFLOW_DETECTED
        /\ s # <<>> /\ ~digits => cursorCall.res \in {INVALID_ARGUMENT, OVERFLOW_DETECTED}
        /\ Len(s) = 2 /\ base = 16 =>
               cursorCall.byte = IF digits THEN Value(s, 16) ELSE FAILED

\* Every call returns what the function is for: the pieces of a split put together are
\* the text, a search returns the first match, the comparisons are orders that agree with
\* the case-insensitive hash, advancing treats lengths beyond half of the address space
\* as errors in both versions (which differ for a cursor of exactly that length, that the
\* masked one clears), parsing is exact up to the largest word.
CursorCallsExact ==
    LET c == cursorCall
    IN  CASE c.fn = "none" -> TRUE
          [] c.fn = "split" -> SplitExact(c.s, c.ch, c.n, c.res)
          [] c.fn = "find" -> FindExact(c.s, c.t, c.res)
          [] c.fn = "trim" -> TrimExact(c.s, c.res) /\ c.all = (c.res = <<>>)
          [] c.fn = "compare" -> CompareExact(c.s, c.t)
          [] c.fn = "advance" -> AdvanceExact(c.len, c.n)
          [] c.fn = "parse" -> ParseExact(c.s, c.base)
=============================================================================
