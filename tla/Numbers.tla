------------------------------ MODULE Numbers ------------------------------
(***************************************************************************)
(* Overflow arithmetic, bit counting, powers of two, time units and byte   *)
(* order.  The library compiles one of several implementations of the same *)
(* functions; here all of them are evaluated side by side, with words of   *)
(* WordBits bits; but for the aws_clz_u32 of a compiler whose long is      *)
(* wider than a word they must agree.  Every behaviour is one call.        *)
(***************************************************************************)
EXTENDS Integers, Sequences, SequencesExt, FiniteSetsExt, Bitwise

CONSTANTS WordBits,      \* width of uint32_t; uint64_t is modelled by the same width
          MaxFrequency,  \* bound on the frequencies of clocks
          NS_PER_SEC     \* ticks of a second of the posix clocks

VARIABLE numberCall      \* the call made and what it returned

NumbersInit == numberCall = [fn |-> "none"]

UMax == 2^WordBits - 1
Words == 0 .. UMax
Wrap(x) == x % 2^WordBits

\* What a checked operation leaves in *r when it does not assign it.
NotSet == -1

\* The saturating and the checked version of an operation, as one result.
Outcome(overflow, saturated, stored) ==
    [saturated |-> saturated, checked |-> [err |-> overflow, r |-> stored]]

----------------------------------------------------------------------------
(* Addition and multiplication, by each implementation                     *)

fallback_mul(a, b) ==
    LET over == a > 0 /\ b > 0 /\ a > UMax \div b
    IN  Outcome(over, IF over THEN UMax ELSE Wrap(a * b), IF over THEN NotSet ELSE Wrap(a * b))

fallback_add(a, b) ==
    LET over == b > 0 /\ a > UMax - b
    IN  Outcome(over, IF over THEN UMax ELSE Wrap(a + b), IF over THEN NotSet ELSE Wrap(a + b))

\* __builtin_mul_overflow and __builtin_add_overflow store the wrapped result and return
\* whether it differs from the exact one.
gcc_overflow_mul(a, b) ==
    LET over == a * b # Wrap(a * b)
    IN  Outcome(over, IF over THEN UMax ELSE Wrap(a * b), Wrap(a * b))

gcc_overflow_add(a, b) ==
    LET over == a + b # Wrap(a + b)
    IN  Outcome(over, IF over THEN UMax ELSE Wrap(a + b), Wrap(a + b))

\* mul leaves the product in rdx:rax and sets CF and OF when rdx is not zero.
gcc_x64_asm_mul(a, b) ==
    LET rax == Wrap(a * b)
        rdx == (a * b) \div 2^WordBits
        of == rdx # 0
    IN  Outcome(of, IF of THEN UMax ELSE rax, rax)

\* add sets CF when a bit is carried out.
gcc_x64_asm_add(a, b) ==
    LET sum == Wrap(a + b)
        cf == a + b > UMax
    IN  Outcome(cf, IF cf THEN UMax ELSE sum, sum)

\* umulh and mul, or one umull and a shift: the upper word is compared with zero.
gcc_arm64_asm_mul(a, b) ==
    LET res == a * b
        hmul == shiftR(res, WordBits)
    IN  Outcome(hmul # 0, IF hmul = 0 THEN Wrap(res) ELSE UMax, Wrap(res))

\* adds sets the carry; csinv keeps the sum, or the flag zero, when it is clear.
gcc_arm64_asm_add(a, b) ==
    LET res == Wrap(a + b)
        flag == IF a + b > UMax THEN UMax ELSE 0
    IN  Outcome(flag # 0, IF flag = 0 THEN res ELSE UMax, res)

cbmc_mul(a, b) ==
    LET over == a * b > UMax
    IN  Outcome(over, IF over THEN UMax ELSE a * b, IF over THEN NotSet ELSE a * b)

cbmc_add(a, b) ==
    LET over == a + b > UMax
    IN  Outcome(over, IF over THEN UMax ELSE a + b, IF over THEN NotSet ELSE a + b)

aws_sub(a, b) ==
    Outcome(a < b, IF a <= b THEN 0 ELSE a - b, IF a < b THEN NotSet ELSE a - b)

aws_mul_saturating(a, b) == gcc_overflow_mul(a, b).saturated
aws_add_saturating(a, b) == gcc_overflow_add(a, b).saturated

aws_min(a, b) == IF a < b THEN a ELSE b
aws_max(a, b) == IF a > b THEN a ELSE b

----------------------------------------------------------------------------
(* Bits                                                                    *)

\* The search of the portable version: shift left until the sign bit is set.
fallback_clz(n) ==
    LET shifted[m \in Words] == IF m >= 2^(WordBits - 1) THEN 0 ELSE 1 + shifted[Wrap(2 * m)]
    IN  IF n = 0 THEN WordBits ELSE shifted[n]

\* The search from the least significant bit; n is not zero, so it stops in the word.
fallback_ctz(n) ==
    LET from[i \in 0 .. WordBits] ==
            IF i = WordBits \/ shiftR(n, i) % 2 = 1 THEN i ELSE from[i + 1]
    IN  IF n = 0 THEN WordBits ELSE from[0]

\* __builtin_clz of an argument widened to `bits` bits, for an argument that is not zero.
builtin_clz(n, bits) == bits - 1 - Max({i \in 0 .. bits - 1 : shiftR(n, i) % 2 = 1})

\* aws_clz_u32 calls __builtin_clzl, which counts in a long; the others fit their argument.
gcc_clz(n, longBits) == [u32 |-> builtin_clz(n, longBits), i32 |-> builtin_clz(n, WordBits)]

\* The trailing zeros are the same in a wider argument.
gcc_ctz(n) == Min({i \in 0 .. WordBits - 1 : shiftR(n, i) % 2 = 1})

aws_is_power_of_two(x) == x # 0 /\ x & (x - 1) = 0

\* Spreads the highest bit of n - 1 to all lower ones; the shifts double up to the word.
aws_round_up_to_power_of_two(n) ==
    LET shifts == {i \in 0 .. WordBits : 2^i < WordBits}
        spread == FoldLeft(LAMBDA m, i : m | shiftR(m, 2^i), n - 1, SetToSortSeq(shifts, <))
    IN  IF n = 0 THEN [err |-> FALSE, r |-> 1]
        ELSE IF n > 2^(WordBits - 1) THEN [err |-> TRUE, r |-> NotSet]
        ELSE [err |-> FALSE, r |-> spread + 1]

----------------------------------------------------------------------------
(* Time                                                                    *)

\* Mutant: one product of the whole time stamp.
aws_timestamp_convert_u64_one_product(ticks, old, new) ==
    [res |-> aws_mul_saturating(ticks, new) \div old,
     remainder |-> IF new < old /\ old % new = 0 THEN ticks % (old \div new) ELSE 0]

aws_timestamp_convert_u64(ticks, old, new) ==
    LET seconds == ticks \div old
        rest == ticks - seconds * old
        ratio == old \div new
    IN  [res |-> aws_add_saturating(aws_mul_saturating(seconds, new),
                                    aws_mul_saturating(rest, new) \div old),
         remainder |-> IF new < old /\ old % new = 0 THEN ticks % ratio ELSE 0]

\* Seconds and nanoseconds of clock_gettime, or its failure, as a time stamp.
aws_clock_get_ticks(failed, secs, nsecs) ==
    [err |-> failed, r |-> IF failed THEN NotSet ELSE Wrap(secs * NS_PER_SEC + nsecs)]

----------------------------------------------------------------------------
(* Byte order: bytes of one bit, a number of n bytes                       *)

Number(bytes) == FoldLeft(LAMBDA v, byte : 2 * v + byte, 0, bytes)
BigEndian(v, n) == [i \in 1 .. n |-> shiftR(v, n - i) % 2]

\* The bytes of a number in the memory of a machine.
Memory(v, n, big) == IF big THEN BigEndian(v, n) ELSE Reverse(BigEndian(v, n))

\* The first byte of the number 0x100.
aws_is_big_endian(big) == Memory(2, 2, big)[1] # 0

\* _byteswap_ulong and _byteswap_ushort, or htonl and htons, which test the machine themselves.
aws_hton(v, n, big) ==
    IF aws_is_big_endian(big) THEN v ELSE Number(Reverse(BigEndian(v, n)))

\* The portable version: the halves are converted and exchanged.
aws_hton64(v, big) ==
    LET low == v % 2^4
        high == shiftR(v, 4)
    IN  IF aws_is_big_endian(big) THEN v
        ELSE aws_hton(low, 4, big) * 2^4 + aws_hton(high, 4, big)

\* Floats are copied byte by byte in memory.
aws_htonf(storage, big) ==
    IF aws_is_big_endian(big) THEN storage
    ELSE [i \in DOMAIN storage |-> storage[Len(storage) + 1 - i]]

\* Converted and copied to a buffer; of a 24-bit number the last three bytes of the memory of
\* a 32-bit one.
aws_write_uint(v, n, big) ==
    Memory(IF n = 8 THEN aws_hton64(v, big) ELSE aws_hton(v, n, big), n, big)
aws_write_u24(v, big) == Tail(aws_write_uint(v, 4, big))

\* The number that memory of n bytes holds.
Held(memory, big) == Number(IF big THEN memory ELSE Reverse(memory))

aws_read_uint(memory, big) ==
    LET v == Held(memory, big)
    IN  IF Len(memory) = 8 THEN aws_hton64(v, big) ELSE aws_hton(v, Len(memory), big)
aws_read_u24(memory, big) == aws_read_uint(<<0>> \o memory, big)

----------------------------------------------------------------------------
(* Calls                                                                   *)

Calculates(call) == numberCall.fn = "none" /\ numberCall' = call

CallsArithmetic ==
    \E a, b \in Words : Calculates([fn |-> "arithmetic", a |-> a, b |-> b,
        mul |-> <<fallback_mul(a, b), gcc_overflow_mul(a, b), gcc_x64_asm_mul(a, b),
                  gcc_arm64_asm_mul(a, b), cbmc_mul(a, b)>>,
        add |-> <<fallback_add(a, b), gcc_overflow_add(a, b), gcc_x64_asm_add(a, b),
                  gcc_arm64_asm_add(a, b), cbmc_add(a, b)>>,
        sub |-> aws_sub(a, b)])

CallsBits ==
    \E n \in Words : \E longBits \in {WordBits, 2 * WordBits} :
        Calculates([fn |-> "bits", n |-> n, longBits |-> longBits,
                    clz |-> fallback_clz(n), ctz |-> fallback_ctz(n),
                    round |-> aws_round_up_to_power_of_two(n)])

CallsConvert ==
    \E ticks \in Words, old, new \in 1 .. MaxFrequency :
        Calculates([fn |-> "convert", ticks |-> ticks, old |-> old, new |-> new,
                    res |-> aws_timestamp_convert_u64(ticks, old, new)])

CallsClock ==
    \E failed \in BOOLEAN, secs \in 0 .. UMax \div NS_PER_SEC, nsecs \in 0 .. NS_PER_SEC - 1 :
        Calculates([fn |-> "clock", secs |-> secs, nsecs |-> nsecs,
                    res |-> aws_clock_get_ticks(failed, secs, nsecs)])

CallsByteOrder ==
    \E big \in BOOLEAN, n \in {2, 4, 8} : \E v \in 0 .. 2^n - 1 :
        Calculates([fn |-> "order", v |-> v, n |-> n, big |-> big,
                    res |-> IF n = 8 THEN aws_hton64(v, big) ELSE aws_hton(v, n, big),
                    float |-> aws_htonf(Memory(v, n, big), big)])

NumbersNext == CallsArithmetic \/ CallsBits \/ CallsConvert \/ CallsClock \/ CallsByteOrder

----------------------------------------------------------------------------
(* What the functions are for                                              *)

\* All implementations return the exact result or report that it does not fit, and
\* a result that is reported is stored.
ArithmeticExact(c) ==
    LET exact(outcome, value) ==
            LET fits == value \in Words
            IN  /\ outcome.checked.err = ~fits
                /\ fits => outcome.checked.r = value
                /\ outcome.saturated = aws_max(0, aws_min(UMax, value))
    IN  /\ \A i \in DOMAIN c.mul : exact(c.mul[i], c.a * c.b)
        /\ \A i \in DOMAIN c.add : exact(c.add[i], c.a + c.b)
        /\ exact(c.sub, c.a - c.b)

\* The portable count and the compiler's are the number of leading and of trailing zeros,
\* for a number that is not zero (the compiler's are undefined there).  The compiler's
\* aws_clz_u32 counts the zeros of a long: it is the number of leading zeros of the word
\* only where a long is as wide, and nothing is asserted of it where a long is wider.
\* The least power of two that is not smaller is found if it fits.
BitsExact(c) ==
    LET above == {i \in 0 .. WordBits - 1 : 2^i >= c.n}
        ones == {i \in 0 .. WordBits - 1 : shiftR(c.n, i) % 2 = 1}
        gcc == gcc_clz(c.n, c.longBits)
    IN  /\ c.n # 0 => /\ {c.ctz, gcc_ctz(c.n)} = {Min(ones)}
                      /\ {c.clz, gcc.i32} = {WordBits - 1 - Max(ones)}
                      /\ c.longBits = WordBits => gcc.u32 = c.clz
        /\ c.round.err <=> above = {}
        /\ above # {} => c.round.r = 2^Min(above) /\ aws_is_power_of_two(c.round.r)
        /\ aws_is_power_of_two(c.n) <=> c.n = c.round.r

\* The conversion is exact, rounded down and saturated, as long as the product of two
\* frequencies fits in a word; with the remainder it loses nothing.
ConvertExact(c) ==
    LET exact == (c.ticks * c.new) \div c.old
    IN  (c.old - 1) * c.new <= UMax =>
            /\ c.res.res = aws_min(exact, UMax)
            /\ c.old % c.new = 0 =>
                   c.res.res * (c.old \div c.new) + c.res.remainder = c.ticks

\* A clock's time stamp converts back to the seconds and the nanoseconds it came from.
ClockExact(c) ==
    ~c.res.err /\ c.res.r = c.secs * NS_PER_SEC + c.nsecs =>
        aws_timestamp_convert_u64(c.res.r, NS_PER_SEC, 1)
            = [res |-> c.secs, remainder |-> c.nsecs]

\* In memory the converted number has its most significant byte first, and converting
\* again gives the number back.
ByteOrderExact(c) ==
    /\ Memory(c.res, c.n, c.big) = BigEndian(c.v, c.n)
    /\ c.float = BigEndian(c.v, c.n)
    /\ aws_read_uint(aws_write_uint(c.v, c.n, c.big), c.big) = c.v
    /\ c.n = 4 => /\ aws_write_u24(c.v, c.big) = Tail(BigEndian(c.v, 4))
                  /\ aws_read_u24(aws_write_u24(c.v, c.big), c.big) = c.v % 2^3

\* Whichever implementation the build selects, every call returns the same exact result, up
\* to and beyond the largest word; the one exception, an aws_clz_u32 that counts in a
\* longer word, is left open by BitsExact.
NumbersExact ==
    LET c == numberCall
    IN  CASE c.fn = "none" -> TRUE
          [] c.fn = "arithmetic" -> ArithmeticExact(c)
          [] c.fn = "bits" -> BitsExact(c)
          [] c.fn = "convert" -> ConvertExact(c)
          [] c.fn = "clock" -> ClockExact(c)
          [] c.fn = "order" -> ByteOrderExact(c)
=============================================================================
