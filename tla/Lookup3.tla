------------------------------ MODULE Lookup3 ------------------------------
(***************************************************************************)
(* The hash functions of private/lookup3.inl and the callbacks of          *)
(* hash_table.c that call them.  The same key is read as 32-bit words, as  *)
(* 16-bit words or byte by byte, depending on where it lies in memory; the *)
(* hash may not depend on that.  A hash is what determines it: the seed,   *)
(* for every block of twelve bytes which byte is added to which register   *)
(* at which shift, and whether the registers are finally scrambled (the    *)
(* scrambling itself, mix and final, is the same on every path).           *)
(***************************************************************************)
EXTENDS Integers, Sequences, SequencesExt, FiniteSetsExt

CONSTANT MaxKeyLen        \* bound on the length of a key

VARIABLE hashCall         \* the call made: the key's place and length, the hash

LookupInit == hashCall = [fn |-> "none"]

\* `n` bytes from byte `first` of the block, added to a register from `shift` upwards; on a
\* big-endian machine a word has its first byte on top.
Bytes(reg, first, n, shift) == [j \in 1 .. n |-> <<reg, first + j - 1, shift + 8 * (j - 1)>>]
BigBytes(reg, first, n) == [j \in 1 .. n |-> <<reg, first + j - 1, 32 - 8 * j>>]

\* k[i] of 32-bit words and of 16-bit words shifted left, and one byte shifted left.
Word(reg, i) == Bytes(reg, 4 * i, 4, 0)
Half(reg, i, shift) == Bytes(reg, 2 * i, 2, shift)
Byte(reg, i, shift) == Bytes(reg, i, 1, shift)

\* The low and the high part of k[i] that a mask leaves.
Masked(reg, i, n) == Bytes(reg, 4 * i, n, 0)
BigWord(reg, i) == BigBytes(reg, 4 * i, 4)
BigMasked(reg, i, n) == BigBytes(reg, 4 * i, n)

\* The statements of a switch from its case `length` down to the next break.
Switch(rows, breaks, length) ==
    LET last == Max({i \in breaks : i <= length})
    IN  FlattenSeq([i \in 1 .. length - last + 1 |-> rows[length + 1 - i]])

----------------------------------------------------------------------------
(* The blocks of hashlittle and hashlittle2                                *)

\* Aligned words, the rest of the last one masked off.
Aligned == <<Masked("a", 0, 1), Masked("a", 0, 2), Masked("a", 0, 3), Word("a", 0),
             Masked("b", 1, 1) \o Word("a", 0), Masked("b", 1, 2) \o Word("a", 0),
             Masked("b", 1, 3) \o Word("a", 0), Word("b", 1) \o Word("a", 0),
             Masked("c", 2, 1) \o Word("b", 1) \o Word("a", 0),
             Masked("c", 2, 2) \o Word("b", 1) \o Word("a", 0),
             Masked("c", 2, 3) \o Word("b", 1) \o Word("a", 0),
             Word("c", 2) \o Word("b", 1) \o Word("a", 0)>>

\* The same without a read beyond the key.
Valgrind == <<Byte("a", 0, 0), Byte("a", 1, 8), Byte("a", 2, 16), Word("a", 0),
              Byte("b", 4, 0), Byte("b", 5, 8), Byte("b", 6, 16), Word("b", 1) \o Word("a", 0),
              Byte("c", 8, 0), Byte("c", 9, 8), Byte("c", 10, 16),
              Word("c", 2) \o Word("b", 1) \o Word("a", 0)>>

HalfA == Half("a", 0, 0) \o Half("a", 1, 16)
HalfB == Half("b", 2, 0) \o Half("b", 3, 16)
HalfC == Half("c", 4, 0) \o Half("c", 5, 16)

\* 16-bit words.
Halves == <<Byte("a", 0, 0), Half("a", 0, 0), Byte("a", 2, 16), HalfA,
            Byte("b", 4, 0), Half("b", 2, 0) \o HalfA, Byte("b", 6, 16), HalfB \o HalfA,
            Byte("c", 8, 0), Half("c", 4, 0) \o HalfB \o HalfA, Byte("c", 10, 16),
            HalfC \o HalfB \o HalfA>>

\* Single bytes, every case falling through to the next.
Single == <<Byte("a", 0, 0), Byte("a", 1, 8), Byte("a", 2, 16), Byte("a", 3, 24),
            Byte("b", 4, 0), Byte("b", 5, 8), Byte("b", 6, 16), Byte("b", 7, 24),
            Byte("c", 8, 0), Byte("c", 9, 8), Byte("c", 10, 16), Byte("c", 11, 24)>>

\* The loops over all but the last block: words, 16-bit words and single bytes.
WordLoop == Word("a", 0) \o Word("b", 1) \o Word("c", 2)
HalfLoop == HalfA \o HalfB \o HalfC
ByteLoop == FlattenSeq(<<Byte("a", 0, 0), Byte("a", 1, 8), Byte("a", 2, 16), Byte("a", 3, 24),
                         Byte("b", 4, 0), Byte("b", 5, 8), Byte("b", 6, 16), Byte("b", 7, 24),
                         Byte("c", 8, 0), Byte("c", 9, 8), Byte("c", 10, 16), Byte("c", 11, 24)>>)

\* A path, the loop and the switch after it, is chosen by the address of the key and the machine.
LittlePath(address, little, valgrind) ==
    IF little /\ address % 4 = 0
    THEN IF valgrind THEN [loop |-> WordLoop, rows |-> Valgrind, breaks |-> {12, 8, 4, 1}]
                     ELSE [loop |-> WordLoop, rows |-> Aligned, breaks |-> 1 .. 12]
    ELSE IF little /\ address % 2 = 0
    THEN [loop |-> HalfLoop, rows |-> Halves, breaks |-> {12, 10, 8, 6, 4, 2, 1}]
    ELSE [loop |-> ByteLoop, rows |-> Single, breaks |-> {1}]

----------------------------------------------------------------------------
(* The blocks of hashbig                                                   *)

BigAligned == <<BigMasked("a", 0, 1), BigMasked("a", 0, 2), BigMasked("a", 0, 3), BigWord("a", 0),
                BigMasked("b", 1, 1) \o BigWord("a", 0), BigMasked("b", 1, 2) \o BigWord("a", 0),
                BigMasked("b", 1, 3) \o BigWord("a", 0), BigWord("b", 1) \o BigWord("a", 0),
                BigMasked("c", 2, 1) \o BigWord("b", 1) \o BigWord("a", 0),
                BigMasked("c", 2, 2) \o BigWord("b", 1) \o BigWord("a", 0),
                BigMasked("c", 2, 3) \o BigWord("b", 1) \o BigWord("a", 0),
                BigWord("c", 2) \o BigWord("b", 1) \o BigWord("a", 0)>>

BigValgrind == <<Byte("a", 0, 24), Byte("a", 1, 16), Byte("a", 2, 8), BigWord("a", 0),
                 Byte("b", 4, 24), Byte("b", 5, 16), Byte("b", 6, 8),
                 BigWord("b", 1) \o BigWord("a", 0),
                 Byte("c", 8, 24), Byte("c", 9, 16), Byte("c", 10, 8),
                 BigWord("c", 2) \o BigWord("b", 1) \o BigWord("a", 0)>>

BigSingle == <<Byte("a", 0, 24), Byte("a", 1, 16), Byte("a", 2, 8), Byte("a", 3, 0),
               Byte("b", 4, 24), Byte("b", 5, 16), Byte("b", 6, 8), Byte("b", 7, 0),
               Byte("c", 8, 24), Byte("c", 9, 16), Byte("c", 10, 8), Byte("c", 11, 0)>>

BigWordLoop == BigWord("a", 0) \o BigWord("b", 1) \o BigWord("c", 2)
BigByteLoop == FlattenSeq(<<Byte("a", 0, 24), Byte("a", 1, 16), Byte("a", 2, 8), Byte("a", 3, 0),
                            Byte("b", 4, 24), Byte("b", 5, 16), Byte("b", 6, 8), Byte("b", 7, 0),
                            Byte("c", 8, 24), Byte("c", 9, 16), Byte("c", 10, 8), Byte("c", 11, 0)>>)

BigPath(address, little, valgrind) ==
    IF ~little /\ address % 4 = 0
    THEN IF valgrind THEN [loop |-> BigWordLoop, rows |-> BigValgrind, breaks |-> {12, 8, 4, 1}]
                     ELSE [loop |-> BigWordLoop, rows |-> BigAligned, breaks |-> 1 .. 12]
    ELSE [loop |-> BigByteLoop, rows |-> BigSingle, breaks |-> {1}]

----------------------------------------------------------------------------
(* The functions                                                           *)

\* The length of the last block: blocks of twelve are taken off while more than that is left.
LastBlock[length \in Nat] == IF length > 12 THEN LastBlock[length - 12] ELSE length

\* The additions of the loop, once for every full block, and of the switch for the last one;
\* a key of no bytes is not scrambled.
Hash(path, length, seed) ==
    LET last == LastBlock[length]
    IN  [seed |-> seed, full |-> path.loop, blocks |-> (length - last) \div 12,
         tail |-> IF last = 0 THEN <<>> ELSE Switch(path.rows, path.breaks, last),
         final |-> last # 0]

hashlittle(key, length, initval) ==
    Hash(LittlePath(key.address, key.little, key.valgrind), length, <<length, initval, 0>>)

hashlittle2(key, length, pc, pb) ==
    Hash(LittlePath(key.address, key.little, key.valgrind), length, <<length, pc, pb>>)

hashbig(key, length, initval) ==
    Hash(BigPath(key.address, key.little, key.valgrind), length, <<length, initval, 0>>)

LastWords[length \in Nat] == IF length > 3 THEN LastWords[length - 3] ELSE length

\* Keys that are arrays of 32-bit words, of the machine's order.
hashword2(key, length, pc, pb) ==
    LET loop == IF key.little THEN WordLoop ELSE BigWordLoop
        rows == IF key.little THEN <<Word("a", 0), Word("b", 1), Word("c", 2)>>
                ELSE <<BigWord("a", 0), BigWord("b", 1), BigWord("c", 2)>>
        last == LastWords[length]
    IN  [seed |-> <<4 * length, pc, pb>>, full |-> loop,
         blocks |-> (length - last) \div 3,
         tail |-> IF last = 0 THEN <<>> ELSE Switch(rows, {1}, last), final |-> last # 0]

hashword(key, length, initval) == hashword2(key, length, initval, 0)

\* The callbacks: the seeds are digits of pi, and a C string ends at its first NUL.
aws_hash_byte_cursor_ptr(key, length) == hashlittle2(key, length, "885A308D", "3243F6A8")
aws_hash_string(key, length) == hashlittle2(key, length, "885A308D", "3243F6A8")
aws_hash_c_string(key, strlen) == hashlittle2(key, strlen, "885A308D", "3243F6A8")

\* The bytes of the pointer itself, seeded with digits of e, and those of a 64-bit hash, seeded
\* with the halves of the other one.
aws_hash_ptr(key) == hashlittle2(key, 8, "28aed2a6", "2b7e1516")
aws_hash_combine(key, high, low) == hashlittle2(key, 8, high, low)

----------------------------------------------------------------------------
(* Calls                                                                   *)

CallsHash ==
    /\ hashCall.fn = "none"
    /\ \E address \in 0 .. 3, little, valgrind \in BOOLEAN, length \in 0 .. MaxKeyLen :
           hashCall' = [fn |-> "hash", key |-> [address |-> address, little |-> little,
                                                valgrind |-> valgrind], length |-> length]

LookupNext == CallsHash

----------------------------------------------------------------------------
(* What the functions are for                                              *)

Same(h, g) ==
    LET same(s, t) == Len(s) = Len(t) /\ ToSet(s) = ToSet(t)
    IN  /\ h.seed = g.seed /\ h.blocks = g.blocks /\ h.final = g.final
        /\ h.blocks > 0 => same(h.full, g.full)
        /\ same(h.tail, g.tail)

\* Every byte of the block is added exactly once, to the register and at the shift of its index.
BlockExact(terms, n, big) ==
    LET shift(i) == IF big THEN 24 - 8 * (i % 4) ELSE 8 * (i % 4)
    IN  /\ Len(terms) = n
        /\ ToSet(terms) = {<<<<"a", "b", "c">>[i \div 4 + 1], i, shift(i)>> : i \in 0 .. n - 1}

HashExact(h, length, big) ==
    /\ 12 * h.blocks + Len(h.tail) = length
    /\ h.blocks > 0 => BlockExact(h.full, 12, big)
    /\ BlockExact(h.tail, Len(h.tail), big)
    /\ h.final <=> length > 0

\* The hash of a key is a function of its bytes: it depends neither on the key's address nor
\* on the machine's byte order, and uses every byte once; the variants for whole words and for
\* one seed give the same values, so that equal keys of the hash table are found in any buffer.
HashIndependentOfPlace ==
    hashCall.fn = "hash" =>
        LET key == hashCall.key
            length == hashCall.length
            unaligned == [address |-> 1, little |-> TRUE, valgrind |-> FALSE]
        IN  /\ HashExact(hashlittle2(key, length, 1, 2), length, FALSE)
            /\ HashExact(hashbig(key, length, 1), length, TRUE)
            /\ Same(hashlittle(key, length, 1), hashlittle2(key, length, 1, 0))
            /\ Same(aws_hash_string(key, length), aws_hash_byte_cursor_ptr(unaligned, length))
            /\ Same(aws_hash_c_string(key, length), aws_hash_string(unaligned, length))
            /\ HashExact(aws_hash_ptr(key), 8, FALSE)
            /\ Same(aws_hash_combine(key, 1, 2), aws_hash_combine(unaligned, 1, 2))
            /\ length % 4 = 0 =>
                   Same(hashword(key, length \div 4, 1),
                        IF key.little THEN hashlittle(key, length, 1) ELSE hashbig(key, length, 1))
=============================================================================
