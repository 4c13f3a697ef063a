------------------------------ MODULE ByteBuf ------------------------------
(***************************************************************************)
(* The byte buffers of source/byte_buf.c, with a cursor into the buffer's  *)
(* own memory or into an array of the caller, and a sub-buffer that        *)
(* aws_byte_buf_advance handed out.  A byte has ByteBase values, size_t is *)
(* at most SizeMax, so that the limits of both are met; a block larger     *)
(* than MaxBlock cannot be had, and the program ends there                 *)
(* (AWS_PANIC_OOM): such calls are left out.                               *)
(***************************************************************************)
EXTENDS Integers, Sequences, SequencesExt, FiniteSetsExt

CONSTANTS ByteBase, SizeMax, MaxBlock,
          Data            \* the caller's array

\* The caller's array holds bytes.
ByteConstants ==
    ByteBase \in Nat /\ SizeMax \in Nat /\ MaxBlock \in Nat /\ Data \in Seq(0 .. ByteBase - 1)

VARIABLES
    buf,                  \* the aws_byte_buf: buffer, len, capacity, allocator
    cursor,               \* an aws_byte_cursor: into which memory, ptr, len
    output,               \* the sub-buffer: ptr into buf, len, capacity
    contents, denotes     \* history: what the buffer and the cursor should hold

bufVars == <<buf, cursor, output, contents, denotes>>

Junk == ByteBase          \* a byte nobody has written
SizeHalf == SizeMax \div 2
NoBuffer == [buffer |-> <<>>, len |-> 0, capacity |-> 0, allocator |-> FALSE]
NewBuffer(mem, n) == [buffer |-> mem, len |-> n, capacity |-> Len(mem), allocator |-> TRUE]
NoCursor == [in |-> "data", ptr |-> 0, len |-> 0]
Gone == [in |-> "gone", ptr |-> 0, len |-> 0]
NoOutput == [ptr |-> 0, len |-> 0, capacity |-> 0]
Zeros(n) == [i \in 1 .. n |-> 0]

Block(n) == [i \in 1 .. n |-> Junk]

\* memcpy of bytes to offset at.
Put(mem, at, bytes) ==
    [i \in DOMAIN mem |-> IF i \in at + 1 .. at + Len(bytes) THEN bytes[i - at] ELSE mem[i]]

\* The bytes a cursor reads in memory as it is now.
Reads(c) == SubSeq(IF c.in = "own" THEN buf.buffer ELSE Data, c.ptr + 1, c.ptr + c.len)

\* Callers pass a cursor to live memory, inside the part of the buffer that is in use.
Usable(c) == c.in # "gone" /\ (c.in = "own" => c.ptr + c.len <= buf.len)

BufInit ==
    /\ \/ buf = NoBuffer
       \/ \E n \in 1 .. 2 : buf = [NoBuffer EXCEPT !.buffer = Block(n), !.capacity = n]
    /\ cursor = NoCursor /\ output = NoOutput
    /\ contents = <<>> /\ denotes = <<>>

----------------------------------------------------------------------------
(* Memory                                                                  *)

\* The block is replaced: cursors and sub-buffers into the old one are dangling.
Dangles ==
    /\ output' = NoOutput
    /\ IF cursor.in = "own" THEN cursor' = Gone /\ denotes' = <<>> ELSE UNCHANGED <<cursor, denotes>>

Fails == UNCHANGED <<buf, cursor, output, contents, denotes>>

aws_byte_buf_init(n) ==
    /\ buf.capacity = 0 /\ n <= MaxBlock
    /\ buf' = NewBuffer(Block(n), 0)
    /\ UNCHANGED <<cursor, output, contents, denotes>>

aws_byte_buf_init_copy_from_cursor ==
    /\ buf.capacity = 0 /\ Usable(cursor)
    /\ cursor.len <= MaxBlock
    /\ buf' = NewBuffer(Reads(cursor), cursor.len)
    /\ contents' = denotes
    /\ UNCHANGED <<cursor, output, denotes>>

\* Two cursors are copied to one new block and point there afterwards; the second is kept.
aws_byte_buf_init_cache_and_update_cursors(first) ==
    /\ buf.capacity = 0 /\ Usable(cursor)
    /\ LET total_len == first + cursor.len
       IN  /\ total_len <= MaxBlock
           /\ buf' = NewBuffer(SubSeq(Data, 1, first) \o Reads(cursor), total_len)
           /\ cursor' = [in |-> "own", ptr |-> total_len - cursor.len, len |-> cursor.len]
    /\ contents' = SubSeq(Data, 1, first) \o denotes
    /\ UNCHANGED <<output, denotes>>

aws_byte_buf_reserve(n) ==
    IF ~buf.allocator \/ n <= buf.capacity THEN Fails
    ELSE /\ n <= MaxBlock
         /\ buf' = [buf EXCEPT !.buffer = Put(Block(n), 0, buf.buffer), !.capacity = n]
         /\ Dangles
         /\ UNCHANGED contents

aws_byte_buf_reserve_relative(n) ==
    IF buf.len + n > SizeMax THEN Fails ELSE aws_byte_buf_reserve(buf.len + n)

aws_byte_buf_reset(zero) ==
    /\ buf' = [buf EXCEPT !.len = 0, !.buffer = IF zero THEN Zeros(buf.capacity) ELSE @]
    /\ contents' = <<>>
    /\ Dangles

\* The zeroed structure: it has no allocator either.
aws_byte_buf_clean_up(secure) ==
    /\ buf # NoBuffer
    /\ buf' = NoBuffer
    /\ contents' = <<>>
    /\ Dangles

----------------------------------------------------------------------------
(* Appending                                                               *)

Room == buf.capacity - buf.len

\* bytes are what memory holds, text what it should hold.
Appends(bytes, text) ==
    /\ buf' = [buf EXCEPT !.buffer = Put(@, buf.len, bytes), !.len = @ + Len(bytes)]
    /\ contents' = contents \o text

Kept == UNCHANGED <<cursor, output, denotes>>

aws_byte_buf_append ==
    /\ Usable(cursor)
    /\ IF Room < cursor.len THEN Fails ELSE Appends(Reads(cursor), denotes) /\ Kept

\* aws_byte_buf_cat with two buffers, cursor and array: what fits has been appended when
\* the second does not fit.
aws_byte_buf_cat(n) ==
    /\ Usable(cursor)
    /\ IF Room < cursor.len THEN Fails
       ELSE IF Room - cursor.len < n THEN Appends(Reads(cursor), denotes) /\ Kept
       ELSE Appends(Reads(cursor) \o SubSeq(Data, 1, n), denotes \o SubSeq(Data, 1, n)) /\ Kept

\* The lookup table maps every byte to its complement.
Lookup(s) == [i \in DOMAIN s |-> ByteBase - 1 - s[i]]

aws_byte_buf_append_with_lookup ==
    /\ Usable(cursor) /\ ~Contains(Reads(cursor), Junk)
    /\ IF Room < cursor.len THEN Fails ELSE Appends(Lookup(Reads(cursor)), Lookup(denotes)) /\ Kept

aws_byte_buf_append_and_update ==
    /\ Usable(cursor)
    /\ IF Room < cursor.len THEN Fails
       ELSE /\ Appends(Reads(cursor), denotes)
            /\ cursor' = [in |-> "own", ptr |-> buf.len, len |-> cursor.len]
            /\ UNCHANGED <<output, denotes>>

\* Mutant: the old block is released before the new bytes are copied, so that a
\* cursor into the buffer reads memory that is gone.
append_dynamic_releases_first(bytes, text, secure) ==
    IF ~buf.allocator THEN Fails
    ELSE IF Room >= Len(bytes) THEN Appends(bytes, text) /\ Kept
    ELSE LET required_capacity == buf.capacity + (Len(bytes) - Room)
             new_capacity == Max({required_capacity, Min({2 * buf.capacity, SizeMax})})
             old == SubSeq(buf.buffer, 1, buf.len)
             stale == IF cursor.in = "own" THEN Block(Len(bytes)) ELSE bytes
         IN  /\ required_capacity <= SizeMax /\ new_capacity <= MaxBlock
             /\ buf' = [buf EXCEPT !.buffer = Put(Put(Block(new_capacity), 0, old), buf.len, stale),
                                   !.len = @ + Len(bytes), !.capacity = new_capacity]
             /\ contents' = contents \o text
             /\ Dangles

\* The new block is filled before the old one is released: the cursor may point into it.
s_aws_byte_buf_append_dynamic(bytes, text, secure) ==
    IF ~buf.allocator THEN Fails
    ELSE IF Room >= Len(bytes) THEN Appends(bytes, text) /\ Kept
    ELSE LET required_capacity == buf.capacity + (Len(bytes) - Room)
             growth_capacity == Min({2 * buf.capacity, SizeMax})
             new_capacity == Max({required_capacity, growth_capacity})
             old == SubSeq(buf.buffer, 1, buf.len)
         IN  IF required_capacity > SizeMax THEN Fails
             ELSE /\ new_capacity <= MaxBlock
                  /\ buf' = [buf EXCEPT
                                !.buffer = Put(Put(Block(new_capacity), 0, old), buf.len, bytes),
                                !.len = @ + Len(bytes), !.capacity = new_capacity]
                  /\ contents' = contents \o text
                  /\ Dangles

aws_byte_buf_append_dynamic(secure) ==
    Usable(cursor) /\ s_aws_byte_buf_append_dynamic(Reads(cursor), denotes, secure)

\* One byte, or the null terminator.
s_aws_byte_buf_append_byte_dynamic(value, secure) ==
    s_aws_byte_buf_append_dynamic(<<value>>, <<value>>, secure)

----------------------------------------------------------------------------
(* Writing                                                                 *)

CanWrite(n) == buf.len <= SizeHalf /\ n <= SizeHalf /\ buf.len + n <= buf.capacity

aws_byte_buf_write(bytes, text) ==
    IF Len(bytes) = 0 \/ ~CanWrite(Len(bytes)) THEN Fails ELSE Appends(bytes, text) /\ Kept

aws_byte_buf_write_from_whole_cursor ==
    Usable(cursor) /\ aws_byte_buf_write(Reads(cursor), denotes)

aws_byte_buf_write_u8_n(value, count) ==
    IF ~CanWrite(count) THEN Fails
    ELSE Appends([i \in 1 .. count |-> value], [i \in 1 .. count |-> value]) /\ Kept

aws_byte_buf_write_to_capacity ==
    LET write_size == Min({Room, cursor.len})
    IN  /\ Usable(cursor)
        /\ IF cursor.len > SizeHalf THEN Fails
           ELSE /\ cursor' = [cursor EXCEPT !.ptr = @ + write_size, !.len = @ - write_size]
                /\ denotes' = SubSeq(denotes, write_size + 1, Len(denotes))
                /\ IF CanWrite(write_size)
                   THEN Appends(SubSeq(Reads(cursor), 1, write_size), SubSeq(denotes, 1, write_size))
                   ELSE UNCHANGED <<buf, contents>>
                /\ UNCHANGED <<output>>

\* An integer of n bytes in the memory of a little-endian host, and aws_hton.
HostBytes(x, n) == [i \in 1 .. n |-> (x \div ByteBase^(i - 1)) % ByteBase]
aws_hton(bytes) == Reverse(bytes)

BigEndian(x, n) == [i \in 1 .. n |-> (x \div ByteBase^(n - i)) % ByteBase]

aws_byte_buf_write_be(x, n) == aws_byte_buf_write(aws_hton(HostBytes(x, n)), BigEndian(x, n))

aws_byte_buf_write_be24(x) ==
    IF x >= ByteBase^3 THEN Fails
    ELSE aws_byte_buf_write(SubSeq(aws_hton(HostBytes(x, 4)), 2, 4), BigEndian(x, 3))

\* A sub-buffer of n bytes at the end; its bytes are now part of the contents.
aws_byte_buf_advance(n) ==
    IF Room < n THEN output' = NoOutput /\ UNCHANGED <<buf, cursor, contents, denotes>>
    ELSE /\ output' = [ptr |-> buf.len, len |-> 0, capacity |-> n]
         /\ Appends(SubSeq(buf.buffer, buf.len + 1, buf.len + n),
                    SubSeq(buf.buffer, buf.len + 1, buf.len + n))
         /\ UNCHANGED <<cursor, denotes>>

\* aws_byte_buf_write_u8 to the sub-buffer.
WritesToOutput(value) ==
    /\ output.len < output.capacity
    /\ output' = [output EXCEPT !.len = @ + 1]
    /\ buf' = [buf EXCEPT !.buffer = Put(@, output.ptr + output.len, <<value>>)]
    /\ contents' = Put(contents, output.ptr + output.len, <<value>>)
    /\ denotes' = IF cursor.in = "own" THEN SubSeq(contents', cursor.ptr + 1, cursor.ptr + cursor.len)
                  ELSE denotes
    /\ UNCHANGED <<cursor>>

----------------------------------------------------------------------------
(* Cursors                                                                 *)

aws_byte_cursor_from_buf ==
    /\ cursor' = [in |-> "own", ptr |-> 0, len |-> buf.len]
    /\ denotes' = contents
    /\ UNCHANGED <<buf, output, contents>>

aws_byte_cursor_from_array(n) ==
    /\ cursor' = [in |-> "data", ptr |-> 0, len |-> n]
    /\ denotes' = SubSeq(Data, 1, n)
    /\ UNCHANGED <<buf, output, contents>>

\* The mask of aws_byte_cursor_advance_nospec is 0 for a cursor of half the address space
\* (see Cursors): the read fails, and the cursor is null and empty afterwards.
ReadClears ==
    /\ cursor' = NoCursor
    /\ denotes' = <<>>
    /\ UNCHANGED <<buf, output, contents>>

\* aws_byte_cursor_advance_nospec and memcpy, for one byte or an integer of n bytes; see
\* Numbers for the value of the integer.
aws_byte_cursor_read(n) ==
    /\ Usable(cursor)
    /\ IF n = 0 \/ n > cursor.len \/ cursor.len > SizeHalf THEN Fails
       ELSE IF cursor.len = SizeHalf THEN ReadClears
       ELSE /\ cursor' = [cursor EXCEPT !.ptr = @ + n, !.len = @ - n]
            /\ denotes' = SubSeq(denotes, n + 1, Len(denotes))
            /\ UNCHANGED <<buf, output, contents>>

aws_byte_cursor_read_and_fill_buffer ==
    /\ cursor.in = "data" /\ buf.capacity > 0
    /\ IF buf.capacity > cursor.len \/ cursor.len > SizeHalf THEN Fails
       ELSE IF cursor.len = SizeHalf THEN ReadClears
       ELSE /\ buf' = [buf EXCEPT !.buffer = SubSeq(Reads(cursor), 1, buf.capacity), !.len = buf.capacity]
            /\ contents' = SubSeq(denotes, 1, buf.capacity)
            /\ cursor' = [cursor EXCEPT !.ptr = @ + buf.capacity, !.len = @ - buf.capacity]
            /\ denotes' = SubSeq(denotes, buf.capacity + 1, Len(denotes))
            /\ UNCHANGED <<output>>

----------------------------------------------------------------------------

BufNext ==
    \/ \E n \in 0 .. SizeMax :
           \/ aws_byte_buf_init(n) \/ aws_byte_buf_reserve(n) \/ aws_byte_buf_reserve_relative(n)
           \/ aws_byte_buf_advance(n) \/ aws_byte_cursor_read(n)
           \/ \E value \in 0 .. ByteBase - 1 : aws_byte_buf_write_u8_n(value, n)
    \/ \E n \in 0 .. Len(Data) : \/ aws_byte_cursor_from_array(n) \/ aws_byte_buf_cat(n)
                                 \/ aws_byte_buf_init_cache_and_update_cursors(n)
    \/ aws_byte_buf_init_copy_from_cursor
    \/ \E zero \in BOOLEAN : \/ aws_byte_buf_reset(zero) \/ aws_byte_buf_clean_up(zero)
                             \/ aws_byte_buf_append_dynamic(zero)
                             \/ s_aws_byte_buf_append_byte_dynamic(0, zero)
    \/ aws_byte_buf_append \/ aws_byte_buf_append_with_lookup \/ aws_byte_buf_append_and_update
    \/ aws_byte_buf_write_from_whole_cursor \/ aws_byte_buf_write_to_capacity
    \/ \E n \in {1, 2, 4} : \E x \in {1, ByteBase^n - 1} : aws_byte_buf_write_be(x, n)
    \/ \E x \in {1, ByteBase^3} : aws_byte_buf_write_be24(x)
    \/ \E value \in 0 .. ByteBase - 1 : WritesToOutput(value)
    \/ aws_byte_cursor_from_buf
    \/ aws_byte_cursor_read_and_fill_buffer

BufSpec == BufInit /\ [][BufNext]_bufVars

----------------------------------------------------------------------------

\* The buffer holds exactly the bytes that the successful calls put there, in order:
\* nothing is lost when it grows, a failed call changes nothing, and appending the buffer
\* to itself works although the old block is released on the way.  A cursor denotes the
\* bytes not yet read from it as long as its memory lives, and nothing after the read that
\* fails at half the address space; the sub-buffer lies within the contents.
BufferIsSequence ==
    /\ Len(buf.buffer) = buf.capacity /\ buf.len <= buf.capacity
    /\ SubSeq(buf.buffer, 1, buf.len) = contents
    /\ Usable(cursor) => Reads(cursor) = denotes
    /\ output.ptr + output.capacity <= buf.len
=============================================================================
