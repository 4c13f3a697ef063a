---------------------------- MODULE LogFormatter ----------------------------
(***************************************************************************)
(* log_formatter.c: a log line is printed piece by piece into a buffer of  *)
(* a fixed size.  Only lengths matter: a piece is the sequence of its name *)
(* repeated, NUL the terminator that every print leaves behind.            *)
(***************************************************************************)
EXTENDS Naturals, Sequences, SequencesExt, FiniteSetsExt

CONSTANTS MaxMessage,     \* bound on the length of the message
          MaxSubject,     \* bound on the length of the subject's name
          MaxSize         \* bound on the size of the buffer

VARIABLE lineCall         \* the line formatted

FormatterInit == lineCall = [fn |-> "none"]

\* The lengths of what stands around level and time, as the format strings have them.
LevelLength == {4, 5}                 \* "WARN", "ERROR"
TimeLength == 4                       \* stands for AWS_DATE_TIME_STR_MAX_LEN
ThreadLength == 16                    \* two hexadecimal digits for each byte
MAX_LOG_LINE_PREFIX_SIZE == 7 + 22 + 15 + TimeLength

Piece(name, n) == [i \in 1 .. n |-> name]
Untouched(n) == Piece("untouched", n)

\* Printing a piece at an index into a buffer of which room characters may be written.
snprintf(line, index, room, piece) ==
    LET kept == Min({Len(piece), room - 1})
    IN  IF room = 0 THEN line
        ELSE [i \in DOMAIN line |-> CASE i > index /\ i <= index + kept -> piece[i - index]
                                      [] i = index + kept + 1 -> "NUL"
                                      [] OTHER -> line[i]]

s_advance_and_clamp_index(index, amount, maximum) == Min({index + amount, maximum})

\* One piece of the line, printed only while there is room.
Prints(s, piece, fake) ==
    IF s.index >= fake THEN s
    ELSE [line |-> snprintf(s.line, s.index, fake - s.index, piece), ok |-> s.ok,
          index |-> s_advance_and_clamp_index(s.index, Len(piece), fake)]

\* The time is printed into a byte buffer, which refuses what does not fit.
PrintsTime(s, piece, fake) ==
    IF s.index < fake /\ Len(piece) + 1 > fake - s.index THEN [s EXCEPT !.ok = FALSE]
    ELSE Prints(s, piece, fake)

aws_format_standard_log_line(line, level, subject, message) ==
    LET fake == Len(line) - 1
        opened == Prints([line |-> line, ok |-> TRUE, index |-> 0], Piece("level", level + 4), fake)
        timed == PrintsTime(opened, Piece("time", TimeLength), fake)
        thread == Prints(timed, Piece("thread", ThreadLength + 5), fake)
        named == IF subject = 0 THEN thread ELSE Prints(thread, Piece("subject", subject + 2), fake)
        parted == Prints(named, Piece("separator", 3), fake)
        said == Prints(parted, Piece("message", message), fake)
    IN  IF Len(line) = 0 \/ ~timed.ok THEN [ok |-> FALSE, line |-> line, amount_written |-> 0]
        ELSE [ok |-> TRUE, line |-> snprintf(said.line, said.index, Len(line) - said.index, <<"newline">>),
              amount_written |-> said.index + 1]

total_length(subject, message) == message + 1 + MAX_LOG_LINE_PREFIX_SIZE + subject

s_default_aws_log_formatter_format(level, subject, message) ==
    aws_format_standard_log_line(Untouched(total_length(subject, message)), level, subject, message)

----------------------------------------------------------------------------

\* The default formatter sizes its buffer; the logger without an allocator has one size.
CallsFormat ==
    /\ lineCall.fn = "none"
    /\ \E level \in LevelLength, subject \in 0 .. MaxSubject, message \in 0 .. MaxMessage :
        lineCall' = [fn |-> "format", level |-> level, subject |-> subject, message |-> message,
                     result |-> s_default_aws_log_formatter_format(level, subject, message)]

CallsStandard ==
    /\ lineCall.fn = "none"
    /\ \E level \in LevelLength, subject \in 0 .. MaxSubject, message \in 0 .. MaxMessage, size \in 0 .. MaxSize :
        lineCall' = [fn |-> "standard", level |-> level, subject |-> subject, message |-> message,
                     size |-> size,
                     result |-> aws_format_standard_log_line(Untouched(size), level, subject, message)]

FormatterNext == CallsFormat \/ CallsStandard

Expected(c) == Piece("level", c.level + 4) \o Piece("time", TimeLength) \o Piece("thread", ThreadLength + 5)
               \o Piece("subject", IF c.subject = 0 THEN 0 ELSE c.subject + 2) \o Piece("separator", 3)
               \o Piece("message", c.message) \o <<"newline">>

\* The padding that the default formatter adds is enough for every line, which it prints
\* whole, newline included.  In a buffer of any other size the line is whole if it fits with
\* its terminator, is otherwise cut and not garbled, and its reported length never exceeds the
\* buffer.  A cut line does not keep its newline: the last print has room for the terminator
\* only, though a place was saved for the newline; nothing is asserted of it.
LinesExact ==
    LET c == lineCall
        whole == c.result.ok /\ SubSeq(c.result.line, 1, c.result.amount_written) = Expected(c)
        text == SubSeq(c.result.line, 1, SelectInSeq(c.result.line, LAMBDA ch : ch = "NUL") - 1)
    IN  /\ c.fn = "format" => whole
        /\ c.fn = "standard" =>
               /\ c.result.amount_written <= c.size
               /\ c.result.ok => IsPrefix(text, Expected(c))
               /\ Len(Expected(c)) < c.size => whole
=============================================================================
