------------------------------ MODULE DateTime ------------------------------
(***************************************************************************)
(* date_time.c: the three date parsers, automatic detection of the format, *)
(* time zones, and the conversions to text and to numbers.  A text is a    *)
(* sequence of characters, each a string of length one.  The calendar and  *)
(* strftime of the C library are modelled from their use.  Every behaviour *)
(* is one call.                                                            *)
(***************************************************************************)
EXTENDS Integers, Sequences, SequencesExt, FiniteSetsExt

CONSTANTS Years, MonthDays, Times,  \* the dates and times that are written and read
          LocalOffset,              \* seconds the local time zone is ahead of UTC
          Zones,                    \* time zones of RFC 822 texts
          Noise                     \* characters that replace one of a text

VARIABLE dateCall         \* the call made, its arguments and its result

DateInit == dateCall = [fn |-> "none"]

Digits == <<"0", "1", "2", "3", "4", "5", "6", "7", "8", "9">>
Lowers == <<"a", "b", "c", "d", "e", "f", "g", "h", "i", "j", "k", "l", "m", "n", "o", "p", "q",
            "r", "s", "t", "u", "v", "w", "x", "y", "z">>
Uppers == <<"A", "B", "C", "D", "E", "F", "G", "H", "I", "J", "K", "L", "M", "N", "O", "P", "Q",
            "R", "S", "T", "U", "V", "W", "X", "Y", "Z">>
Months == <<<<"j", "a", "n">>, <<"f", "e", "b">>, <<"m", "a", "r">>, <<"a", "p", "r">>,
            <<"m", "a", "y">>, <<"j", "u", "n">>, <<"j", "u", "l">>, <<"a", "u", "g">>,
            <<"s", "e", "p">>, <<"o", "c", "t">>, <<"n", "o", "v">>, <<"d", "e", "c">>>>

IsDigit(c) == Contains(Digits, c)
IsAlpha(c) == Contains(Lowers, c) \/ Contains(Uppers, c)
IsSpace(c) == c = " "
Value(c) == (CHOOSE i \in 1 .. 10 : Digits[i] = c) - 1
Lower(c) == IF Contains(Uppers, c) THEN Lowers[CHOOSE i \in 1 .. 26 : Uppers[i] = c] ELSE c

----------------------------------------------------------------------------
(* The calendar of the C library; tm holds years since 1900 and months     *)
(* from zero, as struct tm does                                            *)

Leap(y) == y % 4 = 0 /\ (y % 100 # 0 \/ y % 400 = 0)
LeapsTo(y) == ((y - 1) \div 4) - ((y - 1) \div 100) + ((y - 1) \div 400)
DaysTo(y) == 365 * (y - 1970) + LeapsTo(y) - LeapsTo(1970)
DaysBefore(y, mon) == <<0, 31, 59, 90, 120, 151, 181, 212, 243, 273, 304, 334>>[mon + 1]
                      + IF Leap(y) /\ mon >= 2 THEN 1 ELSE 0

\* A timestamp is counted in days and seconds of a day: seconds alone exceed TLC's integers.
Instant(days, secs) == <<days + (secs \div 86400), secs % 86400>>
Plus(t, secs) == Instant(t[1], t[2] + secs)

\* Fields out of their range carry over.
timegm(tm) ==
    LET y == tm.year + 1900 + (tm.mon \div 12)
        mon == tm.mon % 12
    IN  Instant(DaysTo(y) + DaysBefore(y, mon) + tm.mday - 1, tm.hour * 3600 + tm.min * 60 + tm.sec)

\* The library's own function calls it; every time stamp of the years modelled fits a time_t,
\* of which the version for 32-bit Android makes sure.
aws_timegm(tm) == timegm(tm)

mktime(tm) == Plus(timegm(tm), -LocalOffset)

gmtime(t) ==
    LET days == t[1]
        y == Max({z \in 1970 .. 2037 : DaysTo(z) <= days})
        mon == Max({m \in 0 .. 11 : DaysBefore(y, m) <= days - DaysTo(y)})
    IN  [year |-> y - 1900, mon |-> mon, mday |-> days - DaysTo(y) - DaysBefore(y, mon) + 1,
         hour |-> t[2] \div 3600, min |-> (t[2] \div 60) % 60, sec |-> t[2] % 60]

s_get_time_struct(t, local) == IF local THEN gmtime(Plus(t, LocalOffset)) ELSE gmtime(t)

----------------------------------------------------------------------------
(* Parsers: a state, the index and where the field began, the time so far  *)

Zero == [year |-> 0, mon |-> 0, mday |-> 0, hour |-> 0, min |-> 0, sec |-> 0]

Start(state) == [state |-> state, index |-> 0, start |-> 0, error |-> FALSE, tm |-> Zero, tz |-> <<>>]

Bad(p) == [p EXCEPT !.error = TRUE]
Goto(p, state) == [p EXCEPT !.state = state, !.start = p.index + 1]

\* One more digit of a field.  An int overflows at its tenth digit; here a field wraps at 2^27,
\* the width TLC can compute with.
Push(p, f, c) == IF IsDigit(c) THEN [p EXCEPT !.tm[f] = (10 * @ + Value(c)) % 2^27] ELSE Bad(p)

\* The loop: one character after the other until the parser has finished or failed.
Parse(text, begin, Step(_, _)) ==
    FoldLeft(LAMBDA p, c : IF p.error \/ p.state = "FINISHED" THEN p
                           ELSE [Step(p, c) EXCEPT !.index = p.index + 1], begin, text)

\* A field of the basic format ends with its last digit.
Filled(p, f, c, n, state) ==
    IF p.index - p.start = n - 1 /\ IsDigit(c) THEN Goto(Push(p, f, c), state) ELSE Push(p, f, c)

BasicStep(p, c) ==
    LET sub_index == p.index - p.start
    IN  CASE p.state = "ON_YEAR" ->
                 LET q == Filled(p, "year", c, 4, "ON_MONTH")
                 IN  IF q.state = "ON_MONTH" THEN [q EXCEPT !.tm.year = @ - 1900] ELSE q
          [] p.state = "ON_MONTH" ->
                 LET q == Filled(p, "mon", c, 2, "ON_MONTH_DAY")
                 IN  IF q.state = "ON_MONTH_DAY" THEN [q EXCEPT !.tm.mon = @ - 1] ELSE q
          [] p.state = "ON_MONTH_DAY" ->
                 IF c = "T" /\ sub_index = 2 THEN Goto(p, "ON_HOUR") ELSE Push(p, "mday", c)
          [] p.state = "ON_HOUR" -> Filled(p, "hour", c, 2, "ON_MINUTE")
          [] p.state = "ON_MINUTE" -> Filled(p, "min", c, 2, "ON_SECOND")
          [] p.state = "ON_SECOND" -> Filled(p, "sec", c, 2, "ON_TZ")
          [] p.state = "ON_TZ" ->
                 IF c = "Z" /\ sub_index \in {0, 3} THEN [p EXCEPT !.state = "FINISHED"]
                 ELSE IF ~IsDigit(c) \/ sub_index > 3 THEN Bad(p) ELSE p

\* A text that ends in the day is a date without a time.
s_parse_iso_8601_basic(text) ==
    LET p == Parse(text, Start("ON_YEAR"), BasicStep)
    IN  [ok |-> ~p.error /\ p.state \in {"FINISHED", "ON_MONTH_DAY"}, tm |-> p.tm]

\* Hours and minutes may be delimited by a colon; without one the digit is read again.
Delimited(p, f, c, state, next) ==
    IF p.index - p.start = 2
    THEN IF IsDigit(c) THEN Push([Goto(p, state) EXCEPT !.start = p.index], next, c)
         ELSE IF c = ":" THEN Goto(p, state) ELSE Bad(p)
    ELSE Push(p, f, c)

IsoStep(p, c) ==
    LET sub_index == p.index - p.start
    IN  CASE p.state = "ON_YEAR" ->
                 IF c = "-" /\ sub_index = 4 THEN [Goto(p, "ON_MONTH") EXCEPT !.tm.year = @ - 1900]
                 ELSE Push(p, "year", c)
          [] p.state = "ON_MONTH" ->
                 IF c = "-" /\ sub_index = 2 THEN [Goto(p, "ON_MONTH_DAY") EXCEPT !.tm.mon = @ - 1]
                 ELSE Push(p, "mon", c)
          [] p.state = "ON_MONTH_DAY" ->
                 IF c = "T" /\ sub_index = 2 THEN Goto(p, "ON_HOUR") ELSE Push(p, "mday", c)
          [] p.state = "ON_HOUR" -> Delimited(p, "hour", c, "ON_MINUTE", "min")
          [] p.state = "ON_MINUTE" -> Delimited(p, "min", c, "ON_SECOND", "sec")
          [] p.state = "ON_SECOND" ->
                 IF c = "Z" /\ sub_index = 2 THEN Goto(p, "FINISHED")
                 ELSE IF c = "." /\ sub_index = 2 THEN Goto(p, "ON_TZ") ELSE Push(p, "sec", c)
          [] p.state = "ON_TZ" ->
                 IF c = "Z" THEN Goto(p, "FINISHED") ELSE IF ~IsDigit(c) THEN Bad(p) ELSE p

s_parse_iso_8601(text) ==
    LET p == Parse(text, Start("ON_YEAR"), IsoStep)
    IN  [ok |-> ~p.error /\ p.state \in {"FINISHED", "ON_MONTH_DAY"}, tm |-> p.tm]

\* The number of a month from its first three letters, or -1.
get_month_number_from_str(text, start, stop) ==
    LET triplet == [i \in 1 .. 3 |-> Lower(text[start + i])]
    IN  IF stop - start < 3 \/ ~Contains(Months, triplet) THEN -1
        ELSE (CHOOSE m \in 1 .. 12 : Months[m] = triplet) - 1

is_utc_time_zone(tz) ==
    \/ tz[1] = "Z"
    \/ Len(tz) = 5 /\ tz[1] \in {"+", "-"}
    \/ Len(tz) = 2 /\ Lower(tz[1]) = "u" /\ Lower(tz[2]) = "t"
    \/ /\ Len(tz) >= 3
       /\ <<Lower(tz[1]), Lower(tz[2]), Lower(tz[3])>> \in {<<"u", "t", "c">>, <<"g", "m", "t">>}

\* A digit in place of the weekday is skipped.
RfcStep(p, c, text) ==
    LET sub_index == p.index - p.start
        month == get_month_number_from_str(text, p.start, p.index + 1)
        timed(f, state) == IF c = ":" /\ sub_index = 2 THEN Goto(p, state) ELSE Push(p, f, c)
    IN  CASE p.state = "ON_WEEKDAY" ->
                 IF c = "," THEN Goto(p, "ON_SPACE_DELIM")
                 ELSE IF IsDigit(c) THEN [p EXCEPT !.state = "ON_MONTH_DAY"]
                 ELSE IF ~IsAlpha(c) THEN Bad(p) ELSE p
          [] p.state = "ON_SPACE_DELIM" -> IF IsSpace(c) THEN Goto(p, "ON_MONTH_DAY") ELSE Bad(p)
          [] p.state = "ON_MONTH_DAY" ->
                 IF IsSpace(c) THEN Goto(p, "ON_MONTH") ELSE Push(p, "mday", c)
          [] p.state = "ON_MONTH" ->
                 IF IsSpace(c)
                 THEN IF month > -1 THEN [Goto(p, "ON_YEAR") EXCEPT !.tm.mon = month] ELSE Bad(p)
                 ELSE IF ~IsAlpha(c) THEN Bad(p) ELSE p
          [] p.state = "ON_YEAR" ->
                 IF IsSpace(c) /\ sub_index = 4 THEN [Goto(p, "ON_HOUR") EXCEPT !.tm.year = @ - 1900]
                 ELSE IF IsSpace(c) /\ sub_index = 2 THEN [Goto(p, "ON_HOUR") EXCEPT !.tm.year = @ + 100]
                 ELSE Push(p, "year", c)
          [] p.state = "ON_HOUR" -> timed("hour", "ON_MINUTE")
          [] p.state = "ON_MINUTE" -> timed("min", "ON_SECOND")
          [] p.state = "ON_SECOND" ->
                 IF IsSpace(c) /\ sub_index = 2 THEN Goto(p, "ON_TZ") ELSE Push(p, "sec", c)
          [] p.state = "ON_TZ" ->
                 IF (IsAlpha(c) \/ IsDigit(c) \/ c \in {"-", "+"}) /\ sub_index < 5
                 THEN [p EXCEPT !.tz = Append(@, c)] ELSE Bad(p)

s_parse_rfc_822(text) ==
    LET step(p, c) == RfcStep(p, c, text)
        p == Parse(text, Start("ON_WEEKDAY"), step)
        utc == p.tz # <<>> /\ is_utc_time_zone(p.tz)
    IN  [ok |-> ~p.error /\ p.state = "ON_TZ" /\ (p.tz # <<>> => utc), tm |-> p.tm, tz |-> p.tz,
         utc |-> utc]

----------------------------------------------------------------------------
(* Reading and writing                                                     *)

\* strtol of two characters.
Two(a, b) == IF ~IsDigit(a) THEN 0 ELSE IF ~IsDigit(b) THEN Value(a) ELSE 10 * Value(a) + Value(b)

\* Seconds that the zone +HHMM or -HHMM is ahead of UTC.
seconds_offset(tz) ==
    LET seconds == Two(tz[2], tz[3]) * 3600 + Two(tz[4], tz[5]) * 60
    IN  IF tz = <<>> \/ tz[1] \notin {"+", "-"} THEN 0
        ELSE IF tz[1] = "-" THEN -seconds ELSE seconds

Refused == [ok |-> FALSE, timestamp |-> <<0, 0>>]
Stamp(t) == [ok |-> TRUE, timestamp |-> t]

\* The formats are tried in this order; without a zone an RFC 822 time is local.
aws_date_time_init_from_str_cursor(text, fmt) ==
    LET auto == fmt = "AUTO_DETECT"
        iso == s_parse_iso_8601(text)
        basic == s_parse_iso_8601_basic(text)
        rfc == s_parse_rfc_822(text)
    IN  IF Len(text) > 100 THEN Refused
        ELSE IF (fmt = "ISO_8601" \/ auto) /\ iso.ok THEN Stamp(aws_timegm(iso.tm))
        ELSE IF (fmt = "ISO_8601_BASIC" \/ auto) /\ basic.ok THEN Stamp(aws_timegm(basic.tm))
        ELSE IF (fmt = "RFC822" \/ auto) /\ rfc.ok
             THEN Stamp(Plus(IF rfc.utc THEN aws_timegm(rfc.tm) ELSE mktime(rfc.tm), -seconds_offset(rfc.tz)))
        ELSE Refused

Decimal(n, width) == [i \in 1 .. width |-> Digits[((n \div 10^(width - i)) % 10) + 1]]

\* The texts strftime makes; the weekday is not read back and stands for any.
strftime(tm, fmt, short, zone) ==
    LET y == Decimal(tm.year + 1900, 4)
        m == Decimal(tm.mon + 1, 2)
        d == Decimal(tm.mday, 2)
        time(sep) == Decimal(tm.hour, 2) \o sep \o Decimal(tm.min, 2) \o sep \o Decimal(tm.sec, 2)
        name == Months[tm.mon + 1]
        month == <<Uppers[CHOOSE i \in 1 .. 26 : Lowers[i] = name[1]], name[2], name[3]>>
    IN  CASE fmt = "ISO_8601" ->
                 y \o <<"-">> \o m \o <<"-">> \o d \o
                 IF short THEN <<>> ELSE <<"T">> \o time(<<":">>) \o <<"Z">>
          [] fmt = "ISO_8601_BASIC" ->
                 y \o m \o d \o IF short THEN <<>> ELSE <<"T">> \o time(<<>>) \o <<"Z">>
          [] fmt = "RFC822" ->
                 <<"W", "e", "d", ",", " ">> \o d \o <<" ">> \o month \o <<" ">> \o y \o
                 IF short THEN <<>> ELSE <<" ">> \o time(<<":">>) \o <<" ">> \o zone

\* A buffer that cannot hold the text and its terminator is refused.
s_date_to_str(text, room) == IF Len(text) + 1 > room THEN <<>> ELSE text

GMT == <<"G", "M", "T">>
LocalZone == <<"C", "E", "T">>

aws_date_time_to_utc_time_str(t, fmt, room) ==
    s_date_to_str(strftime(s_get_time_struct(t, FALSE), fmt, FALSE, GMT), room)
aws_date_time_to_local_time_str(t, fmt, room) ==
    s_date_to_str(strftime(s_get_time_struct(t, TRUE), fmt, FALSE, LocalZone), room)
aws_date_time_to_utc_time_short_str(t, fmt, room) ==
    s_date_to_str(strftime(s_get_time_struct(t, FALSE), fmt, TRUE, GMT), room)
aws_date_time_to_local_time_short_str(t, fmt, room) ==
    s_date_to_str(strftime(s_get_time_struct(t, TRUE), fmt, TRUE, LocalZone), room)

\* Milliseconds since the epoch, and seconds with a fraction of ten-thousandths that is rounded:
\* the milliseconds may come to a whole second.
aws_date_time_init_epoch_millis(ms) == [timestamp |-> ms \div 1000, milliseconds |-> ms % 1000]
aws_date_time_init_epoch_secs(secs, fraction) ==
    [timestamp |-> secs, milliseconds |-> (fraction + 5) \div 10]
aws_date_time_as_millis(dt) == dt.timestamp * 1000 + dt.milliseconds

----------------------------------------------------------------------------
(* Calls                                                                   *)

Formats == {"ISO_8601", "ISO_8601_BASIC", "RFC822"}

Dates(call) == dateCall.fn = "none" /\ dateCall' = call

Moments == {[year |-> y - 1900, mon |-> md[1] - 1, mday |-> md[2], hour |-> t[1], min |-> t[2],
             sec |-> t[3]] : y \in Years, md \in MonthDays, t \in Times}

CallsWrite ==
    dateCall.fn = "none" /\ \E tm \in Moments, fmt \in Formats, asked \in Formats \cup {"AUTO_DETECT"} :
        LET t == timegm(tm)
        IN  Dates([fn |-> "write", t |-> t, fmt |-> fmt, asked |-> asked,
                   utc |-> aws_date_time_to_utc_time_str(t, fmt, 30),
                   local |-> aws_date_time_to_local_time_str(t, fmt, 30),
                   day |-> aws_date_time_to_utc_time_short_str(t, fmt, 30),
                   localDay |-> aws_date_time_to_local_time_short_str(t, fmt, 30)])

CallsZone ==
    dateCall.fn = "none" /\ \E tm \in Moments, zone \in Zones :
        Dates([fn |-> "zone", tm |-> tm, zone |-> zone,
               res |-> aws_date_time_init_from_str_cursor(strftime(tm, "RFC822", FALSE, zone), "RFC822")])

\* One character of a text is replaced, or the text is cut there.
CallsNoise ==
    dateCall.fn = "none" /\ \E fmt \in Formats, at \in 1 .. 29, c \in Noise, cut \in BOOLEAN :
        LET text == strftime(CHOOSE tm \in Moments : TRUE, fmt, FALSE, GMT)
            changed == IF cut THEN SubSeq(text, 1, at - 1) ELSE [text EXCEPT ![at] = c]
        IN  /\ at <= Len(text)
            /\ Dates([fn |-> "noise", text |-> changed,
                      res |-> aws_date_time_init_from_str_cursor(changed, "AUTO_DETECT"),
                      each |-> [f \in Formats |-> aws_date_time_init_from_str_cursor(changed, f)]])

CallsNumbers ==
    dateCall.fn = "none" /\ \E secs \in {0, 1, 100000}, fraction \in {0, 4, 5, 4999, 9994, 9995, 9999} :
        Dates([fn |-> "numbers", secs |-> secs, fraction |-> fraction,
               dt |-> aws_date_time_init_epoch_secs(secs, fraction)])

DateNext == CallsWrite \/ CallsZone \/ CallsNoise \/ CallsNumbers

----------------------------------------------------------------------------
(* What the functions are for                                              *)

\* What is written in universal time is read back to the second, by its own format and by the
\* automatic detection and by no other; a short text is read back as midnight, or refused when
\* it is RFC 822.  A local time is written as if it were universal.
WriteExact(c) ==
    LET read(text) == aws_date_time_init_from_str_cursor(text, c.asked)
        midnight(t) == <<t[1], 0>>
        right == c.asked \in {c.fmt, "AUTO_DETECT"}
        rfc == c.fmt = "RFC822"
    IN  /\ read(c.utc) = IF right THEN Stamp(c.t) ELSE Refused
        /\ read(c.local) = IF right /\ ~rfc THEN Stamp(Plus(c.t, LocalOffset)) ELSE Refused
        /\ read(c.day) = IF right /\ ~rfc THEN Stamp(midnight(c.t)) ELSE Refused
        /\ read(c.localDay) = IF right /\ ~rfc THEN Stamp(midnight(Plus(c.t, LocalOffset))) ELSE Refused

\* A zone that is universal time or an offset moves the time to universal time, none means
\* local time, any other is refused.
ZoneExact(c) ==
    LET z == c.zone
        hours == 10 * Value(z[2]) + Value(z[3])
        minutes == 10 * Value(z[4]) + Value(z[5])
        ahead == IF z = <<>> THEN LocalOffset
                 ELSE IF z[1] = "+" THEN 3600 * hours + 60 * minutes
                 ELSE IF z[1] = "-" THEN -(3600 * hours + 60 * minutes)
                 ELSE 0
    IN  c.res = IF z = LocalZone THEN Refused ELSE Stamp(Plus(timegm(c.tm), -ahead))

\* No text means different times in two formats, so that the detection cannot be wrong.
NoiseExact(c) ==
    LET accepting == {f \in Formats : c.each[f].ok}
    IN  /\ Cardinality(accepting) <= 1
        /\ c.res.ok <=> accepting # {}
        /\ \A f \in accepting : c.res = c.each[f]

NumbersRead(c) ==
    LET ms == aws_date_time_as_millis(c.dt)
    IN  /\ 10 * ms - (10000 * c.secs + c.fraction) \in -4 .. 5
        /\ aws_date_time_as_millis(aws_date_time_init_epoch_millis(ms)) = ms

\* Dates survive being written and read, in every format.
DatesExact ==
    LET c == dateCall
    IN  CASE c.fn = "none" -> TRUE
          [] c.fn = "write" -> WriteExact(c)
          [] c.fn = "zone" -> ZoneExact(c)
          [] c.fn = "noise" -> NoiseExact(c)
          [] c.fn = "numbers" -> NumbersRead(c)

=============================================================================
