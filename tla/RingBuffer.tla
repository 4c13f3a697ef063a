----------------------------- MODULE RingBuffer -----------------------------
(***************************************************************************)
(* source/ring_buffer.c: a lock-free arena for one thread that acquires    *)
(* buffers and one that releases them, in the order they were acquired.    *)
(* Addresses are offsets from allocation, and allocation_end is RingSize.  *)
(* Only the acquiring thread uses head, so everything it does between two  *)
(* accesses of tail is one step.                                           *)
(***************************************************************************)
EXTENDS Integers, Sequences

CONSTANT RingSize   \* bytes of the allocation

ASSUME RingBufferAssumption == RingSize \in Nat \ {0}

VARIABLES
    head, tail,     \* the two atomic pointers
    tail_cpy,       \* acquiring thread: the value of tail it loaded
    request,        \* acquiring thread: the call it executes, with its arguments
    pc,             \* acquiring thread: where in the call it is
    dest,           \* acquiring thread: the buffer it is about to return
    vended,         \* the buffers acquired and not released, oldest first
    life            \* "open" until clean_up

ringVars == <<head, tail, tail_cpy, request, pc, dest, vended, life>>

\* Where a pointer may point: aws_ring_buffer_check_atomic_ptr.
Pointer == 0 .. RingSize

\* The memory of an aws_byte_buf: bytes lo .. hi - 1.
Buffers == {b \in [lo : Pointer, hi : Pointer] : b.lo < b.hi}

Buf(lo, length) == [lo |-> lo, hi |-> lo + length]

Calls == {c \in [minimum_size : 1 .. RingSize + 1, requested_size : 1 .. RingSize + 1,
                 upto : {"acquire", "acquire_up_to"}] :
            /\ c.minimum_size <= c.requested_size
            /\ c.upto = "acquire" => c.minimum_size = c.requested_size}

NoBuffer == [lo |-> 0, hi |-> 0]

\* aws_ring_buffer_is_valid, without the pointers' ranges.
HeadTailValid == head = 0 => tail = 0

TypeOK ==
    /\ head \in Pointer
    /\ tail \in Pointer
    /\ HeadTailValid
    /\ tail_cpy \in Pointer
    /\ request \in Calls
    /\ pc \in {"idle", "loaded", "store_tail"}
    /\ dest \in Buffers \cup {NoBuffer}
    /\ vended \in Seq(Buffers)
    /\ life \in {"open", "cleaned"}

\* aws_ring_buffer_init.
RingInit ==
    /\ head = 0
    /\ tail = 0
    /\ tail_cpy = 0
    /\ request \in Calls
    /\ pc = "idle"
    /\ dest = NoBuffer
    /\ vended = <<>>
    /\ life = "open"

----------------------------------------------------------------------------
(* Where a call puts the buffer, given the two pointers: the empty set when *)
(* it raises AWS_ERROR_OOM.                                                 *)

\* Mutant: an empty ring is not asked whether it is large enough.
acquire_unchecked(t, h, n) ==
    IF h = t THEN {Buf(0, n)}
    ELSE IF t > h THEN IF t - h - 1 >= n THEN {Buf(h, n)} ELSE {}
    ELSE IF RingSize - h >= n THEN {Buf(h, n)}
    ELSE IF t > n THEN {Buf(0, n)} ELSE {}

\* Mutant: the wrapped head may catch up with the tail.
acquire_fills_gap(t, h, n) ==
    IF h = t THEN IF n > RingSize THEN {} ELSE {Buf(0, n)}
    ELSE IF t > h THEN IF t - h >= n THEN {Buf(h, n)} ELSE {}
    ELSE IF RingSize - h >= n THEN {Buf(h, n)}
    ELSE IF t > n THEN {Buf(0, n)} ELSE {}

aws_ring_buffer_acquire(t, h, n) ==
    IF h = t THEN IF n > RingSize THEN {} ELSE {Buf(0, n)}
    ELSE IF t > h THEN IF t - h - 1 >= n THEN {Buf(h, n)} ELSE {}
    ELSE IF RingSize - h >= n THEN {Buf(h, n)}
    ELSE IF t > n THEN {Buf(0, n)} ELSE {}

Lesser(a, b) == IF a > b THEN b ELSE a

\* Mutant: the space before the tail is taken even when the space after the head
\* is the larger.
acquire_up_to_prefers_tail(t, h, min, n) ==
    IF h = t
    THEN IF Lesser(RingSize, n) < min THEN {} ELSE {Buf(0, Lesser(RingSize, n))}
    ELSE IF t > h
    THEN IF Lesser(t - h - 1, n) >= min THEN {Buf(h, Lesser(t - h - 1, n))} ELSE {}
    ELSE IF RingSize - h >= n THEN {Buf(h, n)}
    ELSE IF t > n THEN {Buf(0, n)}
    ELSE IF t > min THEN {Buf(0, t - 1)}
    ELSE IF RingSize - h >= min /\ RingSize - h >= t THEN {Buf(h, RingSize - h)} ELSE {}

aws_ring_buffer_acquire_up_to(t, h, min, n) ==
    IF h = t
    THEN IF Lesser(RingSize, n) < min THEN {} ELSE {Buf(0, Lesser(RingSize, n))}
    ELSE IF t > h
    THEN IF Lesser(t - h - 1, n) >= min THEN {Buf(h, Lesser(t - h - 1, n))} ELSE {}
    ELSE IF RingSize - h >= n THEN {Buf(h, n)}
    ELSE IF t > n THEN {Buf(0, n)}
    ELSE IF RingSize - h >= min /\ RingSize - h >= t THEN {Buf(h, RingSize - h)}
    ELSE IF t > min THEN {Buf(0, t - 1)} ELSE {}

Placement(c, t, h) ==
    IF c.upto = "acquire" THEN aws_ring_buffer_acquire(t, h, c.requested_size)
    ELSE aws_ring_buffer_acquire_up_to(t, h, c.minimum_size, c.requested_size)

----------------------------------------------------------------------------
(* The acquiring thread                                                    *)

\* A call begins: tail is loaded.  A size of 0 is refused before that, with
\* AWS_ERROR_INVALID_ARGUMENT and no other effect.
LoadTail(c) ==
    /\ life = "open"
    /\ pc = "idle"
    /\ pc' = "loaded"
    /\ request' = c
    /\ tail_cpy' = tail
    /\ UNCHANGED <<head, tail, dest, vended, life>>

Fails ==
    /\ pc = "loaded"
    /\ Placement(request, tail_cpy, head) = {}
    /\ pc' = "idle"
    /\ UNCHANGED <<head, tail, tail_cpy, request, dest, vended, life>>

\* head is stored and the buffer returned; with nothing vended the tail is to be
\* stored first.
StoreHead ==
    /\ pc = "loaded"
    /\ \E b \in Placement(request, tail_cpy, head) :
         /\ head' = b.hi
         /\ IF head = tail_cpy
            THEN pc' = "store_tail" /\ dest' = b /\ UNCHANGED vended
            ELSE pc' = "idle" /\ vended' = Append(vended, b) /\ UNCHANGED dest
    /\ UNCHANGED <<tail, tail_cpy, request, life>>

\* Mutant: the tail stays where the last buffer was released.
StoreTailForgotten ==
    /\ pc = "store_tail"
    /\ vended' = Append(vended, dest)
    /\ dest' = NoBuffer
    /\ pc' = "idle"
    /\ UNCHANGED <<head, tail, tail_cpy, request, life>>

StoreTail ==
    /\ pc = "store_tail"
    /\ tail' = 0
    /\ vended' = Append(vended, dest)
    /\ dest' = NoBuffer
    /\ pc' = "idle"
    /\ UNCHANGED <<head, tail_cpy, request, life>>

----------------------------------------------------------------------------
(* The releasing thread                                                    *)

\* Buffers are released in the order they were acquired (header).
aws_ring_buffer_release ==
    /\ vended # <<>>
    /\ tail' = Head(vended).hi
    /\ vended' = Tail(vended)
    /\ UNCHANGED <<head, tail_cpy, request, pc, dest, life>>

aws_ring_buffer_clean_up ==
    /\ life = "open"
    /\ pc = "idle"
    /\ vended = <<>>
    /\ life' = "cleaned"
    /\ head' = 0
    /\ tail' = 0
    /\ UNCHANGED <<tail_cpy, request, pc, dest, vended>>

RingNext ==
    \/ \E c \in Calls : LoadTail(c)
    \/ Fails
    \/ StoreHead
    \/ StoreTail
    \/ aws_ring_buffer_release
    \/ aws_ring_buffer_clean_up

RingSpec == RingInit /\ [][RingNext]_ringVars

----------------------------------------------------------------------------
(* Properties                                                              *)

Disjoint(a, b) == a.hi <= b.lo \/ b.hi <= a.lo

\* Every buffer lies inside the allocation and no byte belongs to two buffers at once,
\* however the release of old buffers interleaves with an acquire that works on an old
\* value of the tail.
BuffersDisjoint ==
    /\ \A i \in 1 .. Len(vended) : vended[i] \in Buffers
    /\ \A i, j \in 1 .. Len(vended) : i # j => Disjoint(vended[i], vended[j])
    /\ pc = "store_tail" => vended = <<>>

\* head = tail means that nothing is vended and never that everything is: the
\* branch of acquire that starts over at the beginning of the allocation is safe,
\* and once all buffers are back the whole ring can be had again.
EqualMeansEmpty == pc # "store_tail" => (head = tail <=> vended = <<>>)

\* Byte x lies between the tail and the head.
InUse(x, t, h) == IF t <= h THEN t <= x /\ x < h ELSE t <= x \/ x < h

\* The buffers that could be vended next: unused, at the head or at the start of
\* the allocation, and not making the head equal to the tail.
Fits(t, h) ==
    {b \in Buffers :
        /\ b.lo = h \/ b.lo = 0
        /\ \A x \in b.lo .. b.hi - 1 : ~InUse(x, t, h)
        /\ h # t => b.hi # t}

\* A call is refused only if no buffer of the minimum size fits, and gets as much
\* of what it asked for as fits in one piece ("vend as much as possible"): no
\* order of the branches of acquire_up_to overlooks free space.
VendsAsMuchAsPossible ==
    pc = "loaded" =>
        \A b \in Fits(tail_cpy, head) :
            \/ b.hi - b.lo < request.minimum_size
            \/ \E a \in Placement(request, tail_cpy, head) :
                  a.hi - a.lo >= Lesser(b.hi - b.lo, request.requested_size)

----------------------------------------------------------------------------
(* The inductive invariant behind BuffersDisjoint and EqualMeansEmpty.     *)

\* The head has not wrapped: all buffers lie in order between tail and head.
Straight ==
    /\ \A i \in 1 .. Len(vended) : tail <= vended[i].lo /\ vended[i].hi <= head
    /\ \A i, j \in 1 .. Len(vended) : i < j => vended[i].hi <= vended[j].lo

\* The head has wrapped: the older buffers lie in order above the tail, the newer
\* ones in order below the head.
Wrapped ==
    /\ \A i \in 1 .. Len(vended) : tail <= vended[i].lo \/ vended[i].hi <= head
    /\ \A i, j \in 1 .. Len(vended) : i < j =>
         /\ vended[i].hi <= head => vended[j].hi <= head /\ vended[i].hi <= vended[j].lo
         /\ tail <= vended[j].lo => tail <= vended[i].lo /\ vended[i].hi <= vended[j].lo

\* The copy of the tail is where the tail was; since then it has only moved on
\* towards the head.
CopyBehind ==
    /\ tail_cpy = head => tail = head
    /\ tail_cpy < head => tail_cpy <= tail /\ tail <= head
    /\ tail_cpy > head => tail_cpy <= tail \/ tail <= head

RingInv ==
    /\ pc = "store_tail" => vended = <<>> /\ dest.lo = 0 /\ dest.hi = head /\ 0 < head
    /\ pc # "store_tail" =>
         /\ head = tail <=> vended = <<>>
         /\ vended # <<>> => vended[Len(vended)].hi = head
         /\ tail < head => Straight
         /\ head < tail => Wrapped
    /\ pc = "loaded" => CopyBehind
=============================================================================
