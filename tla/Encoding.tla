------------------------------ MODULE Encoding ------------------------------
(***************************************************************************)
(* encoding.c, encoding.inl, arch/intel/encoding_avx2.c and uuid.c: hex    *)
(* and base64, the latter by the portable code and by the vector code that *)
(* replaces it on processors with AVX2, byte order marks and the text form *)
(* of a UUID.  Bytes and characters are numbers 0 .. 255.  Every behaviour *)
(* is one call; the property compares the implementations with each other  *)
(* and with the definition of the encoding.                                *)
(***************************************************************************)
EXTENDS Integers, Sequences, SequencesExt, FiniteSetsExt

CONSTANTS MaxBytes,       \* bound on the length of what is encoded
          Seeds,          \* byte patterns that are encoded
          BlockChars,     \* the characters of the last block that is decoded
          MarkBytes,      \* the bytes of the texts whose encoding is detected
          SizeBits        \* width of size_t in this model

VARIABLE codecCall        \* the call made and its result

EncodingInit == codecCall = [fn |-> "none"]

SizeMod == 2^SizeBits
Unwritten == -1           \* a byte of the output that the call did not write
Failed == [ok |-> FALSE, out |-> <<>>]
Done(bytes) == [ok |-> TRUE, out |-> bytes]

\* The elements i, i + 1 ... of a sequence counted from zero, in groups.
Slice(s, i, n) == SubSeq(s, i + 1, i + n)
Chunks(s, n) == [k \in 1 .. Len(s) \div n |-> Slice(s, (k - 1) * n, n)]

----------------------------------------------------------------------------
(* Hexadecimal                                                             *)

HEX_CHARS(v) == IF v < 10 THEN 48 + v ELSE 87 + v

s_hex_decode_char_to_int(ch) ==
    CASE ch \in 97 .. 102 -> 10 + ch - 97
      [] ch \in 65 .. 70 -> 10 + ch - 65
      [] ch \in 48 .. 57 -> ch - 48
      [] OTHER -> Unwritten

aws_hex_compute_encoded_len(len) ==
    LET temp == (2 * len + 1) % SizeMod
    IN  IF temp < len THEN Unwritten ELSE temp

aws_hex_compute_decoded_len(len) ==
    LET temp == (len + 1) % SizeMod
    IN  IF temp < len THEN Unwritten ELSE temp \div 2

HexDigits(bytes) ==
    FlattenSeq([i \in DOMAIN bytes |-> <<HEX_CHARS(bytes[i] \div 16), HEX_CHARS(bytes[i] % 16)>>])

\* The output is overwritten from its start; its length counts the terminator.
aws_hex_encode(bytes, capacity) ==
    LET encoded_len == aws_hex_compute_encoded_len(Len(bytes))
    IN  IF encoded_len = Unwritten \/ capacity < encoded_len THEN Failed
        ELSE Done(HexDigits(bytes) \o <<0>>)

\* aws_byte_buf_reserve_relative: needs an allocator, even when there is room enough.
Reserves(buf, additional) == buf.allocator /\ Len(buf.out) + additional < SizeMod

\* The output is appended to, grown if need be, and not terminated.
aws_hex_encode_append_dynamic(bytes, output) ==
    IF 2 * Len(bytes) >= SizeMod \/ ~Reserves(output, 2 * Len(bytes)) THEN Failed
    ELSE Done(output.out \o HexDigits(bytes))

\* A digit of its own when their number is odd, then pairs.
aws_hex_decode(chars, capacity) ==
    LET decoded_length == aws_hex_compute_decoded_len(Len(chars))
        odd == Len(chars) % 2
        val(i) == s_hex_decode_char_to_int(chars[i])
        pairs == [k \in 1 .. Len(chars) \div 2 |-> 16 * val(odd + 2 * k - 1) + val(odd + 2 * k)]
    IN  IF \/ decoded_length = Unwritten \/ capacity < decoded_length
           \/ \E i \in DOMAIN chars : val(i) = Unwritten
        THEN Failed
        ELSE Done((IF odd = 1 THEN <<val(1)>> ELSE <<>>) \o pairs)

----------------------------------------------------------------------------
(* Base64, portable                                                        *)

BASE64_ENCODING_TABLE(v) ==
    CASE v \in 0 .. 25 -> 65 + v
      [] v \in 26 .. 51 -> 97 + v - 26
      [] v \in 52 .. 61 -> 48 + v - 52
      [] v = 62 -> 43
      [] v = 63 -> 47

\* The table has an entry for NUL.
BASE64_DECODING_TABLE(ch) ==
    CASE ch \in 65 .. 90 -> ch - 65
      [] ch \in 97 .. 122 -> ch - 97 + 26
      [] ch \in 48 .. 57 -> ch - 48 + 52
      [] ch = 43 -> 62
      [] ch = 47 -> 63
      [] ch = 61 -> 255
      [] ch = 0 -> 64
      [] OTHER -> 221

aws_base64_compute_encoded_len(len) ==
    LET third == ((len + 2) % SizeMod) \div 3
        tmp == (4 * third + 1) % SizeMod
    IN  IF (len + 2) % SizeMod < len \/ tmp < third THEN Unwritten ELSE tmp

\* The padding at the end of a text: its last character, or both of the last two.
Padding(chars) ==
    LET len == Len(chars)
    IN  IF len >= 2 /\ chars[len] = 61 /\ chars[len - 1] = 61 THEN 2
        ELSE IF len > 0 /\ chars[len] = 61 THEN 1 ELSE 0

\* The length is what the last two characters say.
aws_base64_compute_decoded_len(len, padding) ==
    LET tmp == (3 * len) % SizeMod
    IN  IF len = 0 THEN 0
        ELSE IF len % 4 # 0 \/ tmp < len THEN Unwritten
        ELSE (tmp \div 4) - padding

\* Blocks of three bytes, the missing ones zero, then the padding over the last characters.
Base64Portable(bytes) ==
    LET at(i) == IF i <= Len(bytes) THEN bytes[i] ELSE 0
        block(k) == at(3 * k - 2) * 65536 + at(3 * k - 1) * 256 + at(3 * k)
        chars(k) == [j \in 1 .. 4 |->
                        BASE64_ENCODING_TABLE((block(k) \div <<262144, 4096, 64, 1>>[j]) % 64)]
        all == FlattenSeq([k \in 1 .. (Len(bytes) + 2) \div 3 |-> chars(k)])
        rest == Len(bytes) % 3
    IN  [i \in DOMAIN all |->
            IF rest > 0 /\ (i = Len(all) \/ (rest = 1 /\ i = Len(all) - 1)) THEN 61 ELSE all[i]]

\* The value of a character, if it is allowed at its place.
s_base64_get_decoded_value(ch, allow_sentinal) ==
    LET value == BASE64_DECODING_TABLE(ch)
    IN  IF value # 221 /\ (value = 255 => allow_sentinal) THEN value ELSE Unwritten

\* The bytes of a block: a sentinel ends the last one, and what follows is not written.
BlockBytes(v) ==
    LET first == (v[1] * 4 + ((v[2] \div 16) % 4)) % 256
        second == ((v[2] * 16) % 256) + ((v[3] \div 4) % 16)
        \* value4 is or-ed: of a value above 63 only the upper bit that is free
        third == (IF v[4] > 63 /\ v[3] % 2 = 1 THEN (v[3] % 4) - 1 ELSE v[3] % 4) * 64 + v[4]
    IN  CASE v[3] = 255 -> <<first, Unwritten, Unwritten>>
          [] v[3] # 255 /\ v[4] = 255 -> <<first, second, Unwritten>>
          [] OTHER -> <<first, second, third>>

\* decoded_length bytes are reported, whatever the sentinels say.
Base64DecodePortable(chars) ==
    LET blocks == Len(chars) \div 4
        value(i) == s_base64_get_decoded_value(chars[i], i > 4 * blocks - 2)
        bytes == FlattenSeq([k \in 1 .. blocks |->
                                BlockBytes([j \in 1 .. 4 |-> value(4 * (k - 1) + j)])])
    IN  IF \E i \in DOMAIN chars : value(i) = Unwritten THEN Failed
        ELSE Done(Slice(bytes, 0, aws_base64_compute_decoded_len(Len(chars), Padding(chars))))

----------------------------------------------------------------------------
(* Base64 with vectors of 32 bytes                                         *)

\* Adds offset to the bytes of a range, all others become zero.
translate_range(byte, lo, hi, offset) ==
    LET tmp == (byte - lo) % 256
    IN  IF Min({tmp, hi - lo}) = tmp THEN (tmp + offset) % 256 ELSE 0

translate_exact(byte, match, decode) == IF byte = match THEN decode ELSE 0

\* One more than the value of every character; at most one of the translations is not zero.
decode_vec(in) ==
    LET plus(ch) == translate_range(ch, 65, 90, 1) + translate_range(ch, 97, 122, 27)
                  + translate_range(ch, 48, 57, 53) + translate_exact(ch, 43, 63)
                  + translate_exact(ch, 47, 64)
    IN  [ok |-> \A i \in DOMAIN in : plus(in[i]) # 0,
         out |-> [i \in DOMAIN in |-> plus(in[i]) - 1]]

\* _mm256_shuffle_epi8: every byte of a lane of 16 is taken from the lane's index, 0xFF is zero.
ShuffleBytes(vec, indices) ==
    [i \in 1 .. 32 |-> IF indices[((i - 1) % 16) + 1] = 255 THEN 0
                       ELSE vec[16 * ((i - 1) \div 16) + indices[((i - 1) % 16) + 1] + 1]]

\* _mm256_permutevar8x32_epi32: the indices of the words, lowest first.
PermuteWords(vec, indices) == FlattenSeq([k \in 1 .. 8 |-> Slice(vec, 4 * indices[k], 4)])

\* Four values are joined in a word of 24 bits, stored least significant byte first.
pack_vec(in) ==
    LET joined(v) == v[1] * 262144 + v[2] * 4096 + v[3] * 64 + v[4]
        word(n) == <<n % 256, (n \div 256) % 256, n \div 65536, 0>>
        dwords == FlattenSeq([k \in 1 .. 8 |-> word(joined(Chunks(in, 4)[k]))])
    IN  PermuteWords(ShuffleBytes(dwords,
                         <<255, 255, 255, 255, 2, 1, 0, 6, 5, 4, 10, 9, 8, 14, 13, 12>>),
                     <<1, 2, 3, 5, 6, 7, 0, 0>>)

\* A vector of characters gives 24 bytes.
decode(in) ==
    LET values == decode_vec(in)
    IN  IF values.ok THEN Done(Slice(pack_vec(values.out), 0, 24)) ELSE Failed

\* Mutant: what lies behind the padding is not looked at.
DecodeTail_trusts_padding(chars) ==
    LET len == Len(chars)
        dropped == Padding(chars)
        tmp_in == [i \in 1 .. 32 |-> IF i <= len - dropped THEN chars[i] ELSE 65]
        tmp_out == decode(tmp_in)
    IN  IF ~tmp_out.ok THEN Failed ELSE Done(Slice(tmp_out.out, 0, ((3 * len) \div 4) - dropped))

\* The last 1 .. 32 characters go through a buffer filled with 'A', up to two paddings are
\* replaced, and what is decoded beyond the end must be zero.
DecodeTail(chars) ==
    LET len == Len(chars)
        dropped == Padding(chars)
        tmp_in == [i \in 1 .. 32 |-> IF i <= len - dropped THEN chars[i] ELSE 65]
        final_out == ((3 * len) \div 4) - dropped
        tmp_out == decode(tmp_in)
    IN  IF ~tmp_out.ok \/ \E i \in final_out + 1 .. 24 : tmp_out.out[i] # 0 THEN Failed
        ELSE Done(Slice(tmp_out.out, 0, final_out))

\* Strides of 32 characters while more than 32 are left.
aws_common_private_base64_decode_sse41(chars) ==
    LET strides == IF Len(chars) = 0 THEN 0 ELSE (Len(chars) - 1) \div 32
        done == [k \in 1 .. strides |-> decode(Slice(chars, 32 * (k - 1), 32))]
        tail == DecodeTail(Slice(chars, 32 * strides, Len(chars) - 32 * strides))
    IN  IF Len(chars) = 0 THEN Done(<<>>)
        ELSE IF (\E k \in 1 .. strides : ~done[k].ok) \/ ~tail.ok THEN Failed
        ELSE Done(FlattenSeq([k \in 1 .. strides |-> done[k].out]) \o tail.out)

encode_chars(v) ==
    translate_range(v, 0, 25, 65) + translate_range(v, 26, 51, 97) + translate_range(v, 52, 61, 48)
    + translate_exact(v, 62, 43) + translate_exact(v, 63, 47)

\* 24 bytes and 8 that are ignored: three bytes per word, reversed, then four digits per word.
encode_stride(vec) ==
    LET words == ShuffleBytes(PermuteWords(vec, <<0, 1, 2, 6, 3, 4, 5, 7>>),
                     <<2, 1, 0, 255, 5, 4, 3, 255, 8, 7, 6, 255, 11, 10, 9, 255>>)
        number(w) == w[1] + 256 * w[2] + 65536 * w[3]
        digits(n) == <<n \div 262144, (n \div 4096) % 64, (n \div 64) % 64, n % 64>>
        all == FlattenSeq([k \in 1 .. 8 |-> digits(number(Chunks(words, 4)[k]))])
    IN  [i \in 1 .. 32 |-> encode_chars(all[i])]

\* The bytes left after the full strides, through a zeroed buffer, with their padding.
EncodeTail(bytes) ==
    LET n == Len(bytes)
        outlen == ((n + 2) \div 3) * 4
        chars == Slice(encode_stride([i \in 1 .. 32 |-> IF i <= n THEN bytes[i] ELSE 0]), 0, outlen)
    IN  [i \in 1 .. outlen |->
            IF n < 24 /\ ((n % 3 >= 1 /\ i = outlen) \/ (n % 3 = 1 /\ i = outlen - 1)) THEN 61
            ELSE chars[i]]

\* Full vectors are loaded while 32 bytes are left, though only 24 are encoded.
EncodeFrom[bytes \in Seq(0 .. 255)] ==
    LET n == Len(bytes)
    IN  CASE n >= 32 -> encode_stride(Slice(bytes, 0, 32)) \o EncodeFrom[Slice(bytes, 24, n - 24)]
          [] n \in 24 .. 31 -> EncodeTail(Slice(bytes, 0, 24)) \o EncodeFrom[Slice(bytes, 24, n - 24)]
          [] n \in 1 .. 23 -> EncodeTail(bytes)
          [] n = 0 -> <<>>

aws_common_private_base64_encode_sse41(bytes) == EncodeFrom[bytes]

----------------------------------------------------------------------------
(* The functions that choose                                               *)

\* The output is appended to; its length leaves the terminator out.  The needed capacity is
\* an addition that is checked.
aws_base64_encode(bytes, output, capacity, avx2) ==
    LET terminated == aws_base64_compute_encoded_len(Len(bytes))
        needed == Len(output) + terminated
    IN  IF terminated = Unwritten \/ needed >= SizeMod \/ capacity < needed THEN Failed
        ELSE Done(output \o IF avx2 THEN aws_common_private_base64_encode_sse41(bytes)
                            ELSE Base64Portable(bytes))

\* The output is overwritten.
aws_base64_decode(chars, capacity, avx2) ==
    LET decoded == aws_base64_compute_decoded_len(Len(chars), Padding(chars))
    IN  IF decoded = Unwritten \/ capacity < decoded THEN Failed
        ELSE IF avx2 THEN aws_common_private_base64_decode_sse41(chars)
        ELSE Base64DecodePortable(chars)

\* The longest byte order mark that fits, then plain ASCII.
aws_text_detect_encoding(bytes) ==
    LET starts(mark) == IsPrefix(mark, bytes)
    IN  CASE starts(<<239, 187, 191>>) -> "UTF8"
          [] ~starts(<<239, 187, 191>>) /\ (starts(<<255, 254, 0, 0>>) \/ starts(<<0, 0, 254, 255>>)) -> "UTF32"
          [] ~starts(<<255, 254, 0, 0>>) /\ (starts(<<255, 254>>) \/ starts(<<254, 255>>)) -> "UTF16"
          [] OTHER -> IF \E i \in DOMAIN bytes : bytes[i] >= 128 THEN "UNKNOWN" ELSE "ASCII"

aws_text_is_utf8(bytes) == aws_text_detect_encoding(bytes) \in {"UTF8", "ASCII"}

----------------------------------------------------------------------------
(* UUIDs: 16 bytes as 36 characters                                        *)

\* UUID_FORMAT: two digits per byte, a dash after the bytes 4, 6, 8 and 10.
aws_uuid_to_str(uuid, output, capacity) ==
    IF capacity - Len(output) < 37 THEN Failed
    ELSE Done(output \o FlattenSeq([i \in 1 .. 16 |->
                  HexDigits(<<uuid[i]>>) \o IF i \in {4, 6, 8, 10} THEN <<45>> ELSE <<>>]))

\* sscanf with the format: a byte is one or two digits, a dash must be there; it returns what it
\* has converted when the text does not match.
Scan(chars) ==
    LET digit(i) == i <= Len(chars) /\ s_hex_decode_char_to_int(chars[i]) # Unwritten
        val(i) == s_hex_decode_char_to_int(chars[i])
        from[k \in 1 .. 17, i \in 1 .. 40] ==
            IF k = 17 \/ ~digit(i) THEN <<>>
            ELSE LET two == digit(i + 1)
                     byte == IF two THEN 16 * val(i) + val(i + 1) ELSE val(i)
                     next == IF two THEN i + 2 ELSE i + 1
                     dash == k \in {4, 6, 8, 10}
                 IN  <<byte>> \o IF dash /\ ~(next <= Len(chars) /\ chars[next] = 45) THEN <<>>
                                 ELSE from[k + 1, IF dash THEN next + 1 ELSE next]
    IN  from[1, 1]

\* Only the first 36 characters are looked at.
aws_uuid_init_from_str(chars) ==
    IF Len(chars) < 36 THEN Failed
    ELSE LET bytes == Scan(Slice(chars, 0, 36)) IN IF Len(bytes) # 16 THEN Failed ELSE Done(bytes)

aws_uuid_equals(a, b) == a = b

----------------------------------------------------------------------------
(* Calls                                                                   *)

Codes(call) == codecCall.fn = "none" /\ codecCall' = call

Pattern(n, seed) == [i \in 1 .. n |-> (i * i * 7 + seed * 85 + i) % 256]

\* Text that a buffer holds already: a little, or up to the end of the address space.
Held(n) == [i \in 1 .. n |-> 33]
Helds(n) == IF n < 4 THEN {2, SizeMod - 3} ELSE {2}

CallsEncode ==
    codecCall.fn = "none" /\ \E n \in 0 .. MaxBytes, seed \in Seeds, room \in {0, 1} : \E held \in Helds(n) :
        LET bytes == Pattern(n, seed)
            capacity == Min({SizeMod - 1, held + aws_base64_compute_encoded_len(n) - room})
        IN  Codes([fn |-> "encode", bytes |-> bytes, room |-> room, held |-> held,
                   portable |-> aws_base64_encode(bytes, Held(held), capacity, FALSE),
                   vector |-> aws_base64_encode(bytes, Held(held), capacity, TRUE)])

\* A last block of any characters after blocks that are valid.
CallsDecode ==
    codecCall.fn = "none" /\ \E before \in {0, 1, 7, 8}, last \in [1 .. 4 -> BlockChars] :
        LET chars == [i \in 1 .. 4 * before |-> 65 + (i % 26)] \o last
        IN  Codes([fn |-> "decode", chars |-> chars,
                   portable |-> aws_base64_decode(chars, 3 * before + 3, FALSE),
                   vector |-> aws_base64_decode(chars, 3 * before + 3, TRUE)])

\* Short texts, and one whose digits fill the address space.
CallsHex ==
    codecCall.fn = "none" /\ \E n \in (0 .. 5) \cup {SizeMod \div 2}, seed \in Seeds, drop \in {0, 1},
                               held \in {1, SizeMod - 3}, allocator \in BOOLEAN :
        LET bytes == Pattern(n, seed)
            chars == SubSeq(HexDigits(bytes), 1 + drop, Min({2 * n, SizeMod - 1 + drop}))
        IN  Codes([fn |-> "hex", bytes |-> bytes, drop |-> drop, held |-> held, allocator |-> allocator,
                   chars |-> Len(chars),
                   enc |-> aws_hex_encode(bytes, Min({2 * n + 1 - drop, SizeMod - 1})),
                   app |-> aws_hex_encode_append_dynamic(bytes, [out |-> Held(held), allocator |-> allocator]),
                   dec |-> aws_hex_decode(chars, n)])

CallsLength ==
    codecCall.fn = "none" /\ \E len \in 0 .. SizeMod - 1 :
        Codes([fn |-> "length", len |-> len, hex |-> aws_hex_compute_encoded_len(len),
               unhex |-> aws_hex_compute_decoded_len(len),
               base64 |-> aws_base64_compute_encoded_len(len),
               unbase64 |-> aws_base64_compute_decoded_len(len, 0)])

CallsDetect ==
    codecCall.fn = "none" /\ \E n \in 0 .. 4 : \E bytes \in [1 .. n -> MarkBytes] :
        Codes([fn |-> "detect", bytes |-> bytes, res |-> aws_text_detect_encoding(bytes)])

\* The text of a UUID with one character exchanged.
CallsUuid ==
    codecCall.fn = "none" /\ \E seed \in Seeds, at \in 1 .. 36, ch \in {48, 45, 103} :
        LET uuid == Pattern(16, seed)
            text == aws_uuid_to_str(uuid, <<>>, 37).out
        IN  Codes([fn |-> "uuid", uuid |-> uuid, text |-> text, at |-> at, ch |-> ch,
                   res |-> aws_uuid_init_from_str([text EXCEPT ![at] = ch])])

EncodingNext ==
    CallsEncode \/ CallsDecode \/ CallsHex \/ CallsLength \/ CallsDetect \/ CallsUuid

----------------------------------------------------------------------------
(* What the functions are for                                              *)

\* Base64 by definition: the bits of the bytes in groups of six, padded to whole blocks.
Base64(bytes) ==
    LET bit(k) == IF k >= 8 * Len(bytes) THEN 0 ELSE (bytes[(k \div 8) + 1] \div 2^(7 - (k % 8))) % 2
        six(i) == SumSet({bit(6 * i + j) * 2^(5 - j) : j \in 0 .. 5})
        digits == (8 * Len(bytes) + 5) \div 6
        chars == [i \in 1 .. digits |-> BASE64_ENCODING_TABLE(six(i - 1))]
    IN  chars \o [i \in 1 .. (-digits) % 4 |-> 61]

\* The texts that are the encoding of something: digits and up to two paddings, without a bit
\* behind the end.
Canonical(chars) ==
    LET padding == Padding(chars)
        value(ch) == {v \in 0 .. 63 : BASE64_ENCODING_TABLE(v) = ch}
    IN  /\ \A i \in 1 .. Len(chars) - padding : value(chars[i]) # {}
        /\ padding > 0 => \A v \in value(chars[Len(chars) - padding]) : v % <<4, 16>>[padding] = 0

EncodeExact(c) ==
    /\ c.vector = c.portable
    /\ c.portable.ok <=> c.room = 0 /\ c.held + Len(Base64(c.bytes)) + 1 < SizeMod
    /\ c.portable.ok => /\ c.portable.out = Held(c.held) \o Base64(c.bytes)
                        /\ \A avx2 \in BOOLEAN :
                               aws_base64_decode(Base64(c.bytes), Len(c.bytes), avx2) = Done(c.bytes)

\* Both decoders give the bytes of a text that is the encoding of something.  The vector code
\* refuses every other text; of the portable code only this is asked of them, that it refuses
\* padding before the last two characters: it takes a NUL for a digit, drops bits behind the
\* end, and takes a digit after a padding character, where it reports a byte it did not write.
DecodeExact(c) ==
    LET n == Len(c.chars)
    IN  /\ c.vector.ok <=> Canonical(c.chars)
        /\ c.vector.ok => Base64(c.vector.out) = c.chars /\ c.portable = c.vector
        /\ c.portable.ok => \A i \in 1 .. n : c.chars[i] = 61 => i > n - 2

\* Hexadecimal text is written and read back when its length, its terminator and what the
\* buffer holds can be counted, and the buffer has room or an allocator.
HexExact(c) ==
    LET n == Len(c.bytes)
    IN  /\ c.enc = IF c.drop = 0 /\ 2 * n + 1 < SizeMod THEN Done(HexDigits(c.bytes) \o <<0>>) ELSE Failed
        /\ c.app = IF c.allocator /\ c.held + 2 * n < SizeMod THEN Done(Held(c.held) \o HexDigits(c.bytes))
                   ELSE Failed
        /\ c.chars = SizeMod - 1 => c.dec = Failed
        /\ c.chars = 2 * n => c.dec = Done(c.bytes)
        /\ c.chars = 2 * n - 1 /\ c.chars < SizeMod - 1 => c.dec = Done([c.bytes EXCEPT ![1] = @ % 16])

\* The lengths are exact, or refused because they do not fit, for every object that is not
\* within three bytes of the whole address space (where the checks of an overflow miss it);
\* that of base64 text for every text of less than half of the address space, of which it
\* refuses those whose length times three does not fit.
LengthExact(c) ==
    LET fitting(n) == IF n < SizeMod THEN n ELSE Unwritten
    IN  /\ c.len < SizeMod - 3 => /\ c.hex = fitting(2 * c.len + 1)
                                  /\ c.unhex = (c.len + 1) \div 2
                                  /\ c.base64 = fitting(4 * ((c.len + 2) \div 3) + 1)
        /\ c.len < SizeMod \div 2 =>
               c.unbase64 = IF c.len % 4 = 0 /\ 3 * c.len < SizeMod THEN (3 * c.len) \div 4 ELSE Unwritten

DetectExact(c) ==
    LET mark(m) == IsPrefix(m, c.bytes)
    IN  /\ mark(<<255, 254, 0, 0>>) => c.res = "UTF32"
        /\ c.res = "UTF16" => mark(<<255, 254>>) \/ mark(<<254, 255>>)
        /\ aws_text_is_utf8(c.bytes) <=> \/ \A i \in DOMAIN c.bytes : c.bytes[i] < 128
                                         \/ mark(<<239, 187, 191>>)

\* A UUID is read back from its text; a text with a wrong character is refused, unless it is the
\* last digit, which is then taken for the end of a byte of one digit.
UuidExact(c) ==
    LET dash == c.at \in {9, 14, 19, 24}
        good == IF dash THEN c.ch = 45 ELSE c.ch = 48
    IN  /\ aws_uuid_equals(aws_uuid_init_from_str(c.text).out, c.uuid)
        /\ c.res.ok <=> good \/ c.at = 36
        /\ c.res.ok /\ good => aws_uuid_to_str(c.res.out, <<>>, 37).out = [c.text EXCEPT ![c.at] = c.ch]

\* The encoders agree with each other and with the definitions for every number of bytes around
\* the stride of a vector, and so do the decoders on every text that is an encoding; lengths at
\* the end of the address space are refused.  The decoders differ on other texts, of which only
\* the vector code is asserted to refuse them all.
CodecsExact ==
    LET c == codecCall
    IN  CASE c.fn = "none" -> TRUE
          [] c.fn = "encode" -> EncodeExact(c)
          [] c.fn = "decode" -> DecodeExact(c)
          [] c.fn = "hex" -> HexExact(c)
          [] c.fn = "length" -> LengthExact(c)
          [] c.fn = "detect" -> DetectExact(c)
          [] c.fn = "uuid" -> UuidExact(c)
=============================================================================
