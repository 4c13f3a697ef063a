---------------------------- MODULE SmallBlocks ----------------------------
(***************************************************************************)
(* source/allocator_sba.c, the small block allocator, over the functions   *)
(* of source/allocator.c that its large blocks go through.  An address is  *)
(* a page and an offset in it.  Pages come from the system and go back to  *)
(* it; the parent allocator may then place a block in such a page, where   *)
(* the header's words are as the small block allocator left them (users of *)
(* a block are taken never to write the tag there).  Each bin has a mutex  *)
(* held for the whole of a bin operation, which is therefore one step;     *)
(* what s_sba_free reads before it locks does not change while the block   *)
(* is allocated.                                                           *)
(***************************************************************************)
EXTENDS Integers, Sequences, SequencesExt, FiniteSetsExt

CONSTANTS PageId,         \* the pages the system has
          PageSize, HeaderSize,
          BinShift,       \* log2 of the smallest bin's size
          BinCount,
          ParentBlocks,   \* bound on the blocks of the parent allocator
          RequestSizes    \* sizes asked for

VARIABLES bins,           \* bin |-> its working page cursor, active pages and free chunks
          header,         \* page |-> what its first words hold
          taken,          \* pages the system has given out
          parent,         \* the parent's blocks: address |-> size
          live,           \* blocks in the hands of users: address |-> size
          parentReallocs, \* does the parent have a mem_realloc (the default allocator does)
          gone            \* the allocator was destroyed

sbaVars == <<bins, header, taken, parent, live, parentReallocs, gone>>

Bin == 1 .. BinCount
s_bin_sizes(b) == 2^(BinShift + b - 1)
s_max_bin_size == s_bin_sizes(BinCount)
NoCursor == <<0, 0>>
s_page_base(addr) == addr[1]
NoTag == [tag |-> 0, bin |-> 0, alloc_count |-> 0]

SbaInit == /\ bins = [b \in Bin |-> [page_cursor |-> NoCursor, active_pages |-> <<>>, free_chunks |-> <<>>]]
           /\ header = [p \in PageId |-> NoTag]
           /\ taken = {} /\ parent = <<>> /\ live = <<>> /\ gone = FALSE
           /\ parentReallocs \in BOOLEAN

----------------------------------------------------------------------------
(* Sizes                                                                   *)

RoundUpToPowerOfTwo(n) == CHOOSE p \in {2^i : i \in 0 .. 12} : p >= n /\ (n > 1 => p < 2 * n) /\ (n <= 1 => p = 1)
Log2(p) == CHOOSE i \in 0 .. 12 : 2^i = p

\* 31 - clz of the power of two, minus the shift of the first bin, not below the first.
s_sba_find_bin(size) == 1 + Max({0, Log2(RoundUpToPowerOfTwo(size)) - BinShift})

\* aws_mem_acquire_many lays out one block: the offset of each part and the total.
RoundUp(size, alignment) == ((size + alignment - 1) \div alignment) * alignment
aws_mem_acquire_many(sizes, alignment) ==
    LET rounded == [i \in DOMAIN sizes |-> RoundUp(sizes[i], alignment)]
        total(n) == FoldLeft(LAMBDA sum, s : sum + s, 0, SubSeq(rounded, 1, n))
    IN  [offsets |-> [i \in DOMAIN sizes |-> total(i - 1)], total |-> total(Len(sizes))]

----------------------------------------------------------------------------
(* A bin's operations: on a state s with the fields bins, header and taken *)

Current == [bins |-> bins, header |-> header, taken |-> taken]
FreePages(s) == {p \in PageId : p \notin s.taken /\ \A a \in DOMAIN parent : s_page_base(a) # p}
HasRoom(s, b) == \/ s.bins[b].free_chunks # <<>>
                 \/ /\ s.bins[b].page_cursor # NoCursor
                    /\ PageSize - s.bins[b].page_cursor[2] >= s_bin_sizes(b)
\* The page the system would give: none is needed while the bin has room, and the model
\* stops where the system has none.
NextPages(s, b) == IF HasRoom(s, b) THEN {0}
                   ELSE {p \in FreePages(s) : \A q \in FreePages(s) : p <= q}

s_page_bind(s, b, p) ==
    [s EXCEPT !.header[p] = [tag |-> 1, bin |-> b, alloc_count |-> 0],
              !.taken = @ \cup {p},
              !.bins[b].page_cursor = <<p, HeaderSize>>]

\* A chunk of the working page; a page that has no room for another becomes active.
FromPage(s, b) ==
    LET chunk == s.bins[b].page_cursor
        p == s_page_base(chunk)
        size == s_bin_sizes(b)
        full == PageSize - chunk[2] - size < size
    IN  [addr |-> chunk,
         st |-> [s EXCEPT !.header[p].alloc_count = @ + 1,
                          !.bins[b].page_cursor = IF full THEN NoCursor ELSE <<p, chunk[2] + size>>,
                          !.bins[b].active_pages = IF full THEN Append(@, p) ELSE @]]

\* The block and the state after; p is the page the system gives if one is asked for.
s_sba_alloc_from_bin(s, b, p) ==
    LET free == s.bins[b].free_chunks
    IN  IF free # <<>>
        THEN [addr |-> Last(free),
              st |-> [s EXCEPT !.bins[b].free_chunks = Front(@),
                               !.header[s_page_base(Last(free))].alloc_count = @ + 1]]
        ELSE IF HasRoom(s, b) THEN FromPage(s, b)
        ELSE FromPage(s_page_bind(s, b, p), b)

\* Swap the entry with the last one and pop.
SwapPop(seq, i) == Front([seq EXCEPT ![i] = Last(seq), ![Len(seq)] = seq[i]])

RECURSIVE PurgeChunks(_, _, _)
PurgeChunks(free, p, i) ==
    IF i = 0 THEN free
    ELSE PurgeChunks(IF s_page_base(free[i]) = p THEN SwapPop(free, i) ELSE free, p, i - 1)

\* Mutant: the tag of a page that goes back to the system is left.
free_to_bin_keeps_tag(s, b, addr) ==
    LET p == s_page_base(addr)
        s1 == [s EXCEPT !.header[p].alloc_count = @ - 1]
        free == s.bins[b].free_chunks
        active == s.bins[b].active_pages
    IN  IF s1.header[p].alloc_count = 0 /\ p # s_page_base(s.bins[b].page_cursor)
        THEN [s1 EXCEPT !.bins[b].free_chunks = PurgeChunks(free, p, Len(free)),
                        !.bins[b].active_pages = SwapPop(active, CHOOSE i \in DOMAIN active : active[i] = p),
                        !.taken = @ \ {p}]
        ELSE [s1 EXCEPT !.bins[b].free_chunks = Append(@, addr)]

\* A page without blocks goes back to the system unless it is the working page: its
\* chunks leave the free list, it leaves the active pages and its tag is erased.
s_sba_free_to_bin(s, b, addr) ==
    LET p == s_page_base(addr)
        s1 == [s EXCEPT !.header[p].alloc_count = @ - 1]
        free == s.bins[b].free_chunks
        active == s.bins[b].active_pages
    IN  IF s1.header[p].alloc_count = 0 /\ p # s_page_base(s.bins[b].page_cursor)
        THEN [s1 EXCEPT !.bins[b].free_chunks = PurgeChunks(free, p, Len(free)),
                        !.bins[b].active_pages = SwapPop(active, CHOOSE i \in DOMAIN active : active[i] = p),
                        !.header[p].tag = 0,
                        !.taken = @ \ {p}]
        ELSE [s1 EXCEPT !.bins[b].free_chunks = Append(@, addr)]

----------------------------------------------------------------------------
(* The allocator.  A result is the address, the state and the parent's     *)
(* blocks; a step puts it in the hands of the user.                        *)

\* Where the parent puts a new block: in a page the allocator does not hold, clear of the
\* page's first words, at most one block in each.
ParentPlaces(s, par) ==
    {<<p, HeaderSize>> : p \in {q \in PageId \ s.taken : <<q, HeaderSize>> \notin DOMAIN par}}

Drop(f, x) == [y \in DOMAIN f \ {x} |-> f[y]]

\* Every result of an allocation: from the bin, or from the parent.
s_sba_alloc(s, par, size) ==
    IF size <= s_max_bin_size
    THEN LET b == s_sba_find_bin(size) IN
         {[addr |-> r.addr, st |-> r.st, par |-> par] :
              r \in {s_sba_alloc_from_bin(s, b, p) : p \in NextPages(s, b)}}
    ELSE {[addr |-> a, st |-> s, par |-> a :> size @@ par] : a \in ParentPlaces(s, par)}

\* The tag at the base of the page decides whose block it is.
s_sba_free(s, par, addr) ==
    LET page == s.header[s_page_base(addr)]
    IN  IF page.tag = 1 THEN [st |-> s_sba_free_to_bin(s, page.bin, addr), par |-> par]
        ELSE [st |-> s, par |-> Drop(par, addr)]

\* The default allocator keeps a block that is large enough and moves it otherwise, as
\* does the emulation for an allocator without mem_realloc (which zeroes the new bytes).
s_default_realloc(par, addr, oldsize, newsize, place) ==
    IF newsize <= oldsize THEN [addr |-> addr, par |-> par]
    ELSE [addr |-> place, par |-> Drop(place :> newsize @@ par, addr)]
Emulated(par, addr, oldsize, newsize, place) ==
    IF oldsize >= newsize THEN [addr |-> addr, par |-> par]
    ELSE [addr |-> place, par |-> Drop(place :> newsize @@ par, addr)]
aws_mem_realloc(par, addr, oldsize, newsize, place) ==
    IF parentReallocs THEN s_default_realloc(par, addr, oldsize, newsize, place)
    ELSE Emulated(par, addr, oldsize, newsize, place)

s_sba_mem_realloc(s, par, addr, old_size, new_size) ==
    IF old_size > s_max_bin_size /\ new_size > s_max_bin_size
    THEN {[addr |-> r.addr, st |-> s, par |-> r.par] :
              r \in {aws_mem_realloc(par, addr, old_size, new_size, a) : a \in ParentPlaces(s, par)}}
    ELSE IF new_size = 0
    THEN LET f == s_sba_free(s, par, addr) IN {[addr |-> NoCursor, st |-> f.st, par |-> f.par]}
    ELSE IF old_size > new_size THEN {[addr |-> addr, st |-> s, par |-> par]}
    ELSE {LET f == s_sba_free(r.st, r.par, addr) IN [addr |-> r.addr, st |-> f.st, par |-> f.par] :
              r \in s_sba_alloc(s, par, new_size)}

Becomes(s, par) == /\ bins' = s.bins /\ header' = s.header /\ taken' = s.taken /\ parent' = par
                   /\ UNCHANGED <<parentReallocs, gone>>

\* Also calloc, which clears the block.
Acquires(size) ==
    /\ ~gone
    /\ size > s_max_bin_size => Cardinality(DOMAIN parent) < ParentBlocks
    /\ \E r \in s_sba_alloc(Current, parent, size) :
           Becomes(r.st, r.par) /\ live' = r.addr :> size @@ live

Releases(addr) ==
    /\ ~gone
    /\ LET f == s_sba_free(Current, parent, addr) IN Becomes(f.st, f.par)
    /\ live' = Drop(live, addr)

Reallocs(addr, new_size) ==
    /\ ~gone
    /\ \E r \in s_sba_mem_realloc(Current, parent, addr, live[addr], new_size) :
           /\ Becomes(r.st, r.par)
           /\ live' = IF new_size = 0 THEN Drop(live, addr) ELSE r.addr :> new_size @@ Drop(live, addr)

\* Every page goes back to the system with its tag; the caller has released its blocks.
s_sba_clean_up ==
    /\ ~gone /\ live = <<>>
    /\ taken' = taken \ UNION {ToSet(bins[b].active_pages) \cup {s_page_base(bins[b].page_cursor)} : b \in Bin}
    /\ gone' = TRUE
    /\ UNCHANGED <<bins, header, parent, live, parentReallocs>>

SbaNext == \/ \E size \in RequestSizes : Acquires(size)
           \/ \E addr \in DOMAIN live :
                  Releases(addr) \/ \E size \in RequestSizes \cup {0} : Reallocs(addr, size)
           \/ s_sba_clean_up

----------------------------------------------------------------------------

aws_small_block_allocator_bytes_active ==
    LET pages(b) == ToSet(bins[b].active_pages) \cup ({s_page_base(bins[b].page_cursor)} \ {0})
    IN  FoldSet(LAMBDA b, sum : sum + s_bin_sizes(b) *
            FoldSet(LAMBDA p, n : n + header[p].alloc_count, 0, pages(b)), 0, Bin)

aws_small_block_allocator_bytes_reserved ==
    FoldSet(LAMBDA b, sum : sum + PageSize * (Len(bins[b].active_pages)
                                              + IF bins[b].page_cursor # NoCursor THEN 1 ELSE 0), 0, Bin)

SmallAt(p) == {a \in DOMAIN live : a[1] = p /\ a \notin DOMAIN parent}
FreeAt(b, p) == {i \in DOMAIN bins[b].free_chunks : bins[b].free_chunks[i][1] = p}

\* The chunks of page p that were cut from it so far.
CutFrom(b, p) ==
    LET end == IF s_page_base(bins[b].page_cursor) = p THEN bins[b].page_cursor[2]
               ELSE PageSize - s_bin_sizes(b) + 1
    IN  {<<p, o>> : o \in {HeaderSize + n * s_bin_sizes(b) : n \in 0 .. PageSize}} \cap ({p} \X (0 .. end - 1))

\* Every chunk cut from a page of a bin is either in the hands of one user, in a block
\* at least as large as asked for, or once in the free list; the page's count is that of
\* its users' blocks; a page with none is the working page, so memory goes back; a page
\* is held by one bin, as its working page or once among the active ones; a block of the
\* parent is never taken for one of a bin, even in a page that was a bin's before.
SmallBlocksExact ==
    gone \/
    /\ \A b \in Bin :
         /\ IsInjective(bins[b].active_pages) /\ IsInjective(bins[b].free_chunks)
         /\ s_page_base(bins[b].page_cursor) \notin ToSet(bins[b].active_pages)
         /\ \A p \in ToSet(bins[b].active_pages) \cup ({s_page_base(bins[b].page_cursor)} \ {0}) :
              LET free == {bins[b].free_chunks[i] : i \in FreeAt(b, p)}
              IN  /\ p \in taken /\ header[p].tag = 1 /\ header[p].bin = b
                  /\ free \cap SmallAt(p) = {} /\ free \cup SmallAt(p) = CutFrom(b, p)
                  /\ \A a \in SmallAt(p) : live[a] <= s_bin_sizes(b)
                  /\ header[p].alloc_count = Cardinality(SmallAt(p))
                  /\ SmallAt(p) = {} => p = s_page_base(bins[b].page_cursor)
         /\ \A i \in DOMAIN bins[b].free_chunks : header[bins[b].free_chunks[i][1]].bin = b
    /\ aws_small_block_allocator_bytes_reserved = PageSize * Cardinality(taken)
    /\ aws_small_block_allocator_bytes_active =
           FoldSet(LAMBDA a, sum : sum + s_bin_sizes(header[a[1]].bin), 0, DOMAIN live \ DOMAIN parent)
    /\ \A p \in PageId \ taken : header[p].tag = 0
    /\ \A a \in DOMAIN parent : a[1] \notin taken /\ a \in DOMAIN live

\* Every size up to the largest bin has the smallest bin that holds it, and the parts of
\* a block for many are aligned, follow each other without overlap and fit.
LayoutExact ==
    /\ \A size \in 1 .. s_max_bin_size :
           s_sba_find_bin(size) = Min({b \in Bin : s_bin_sizes(b) >= size})
    /\ \A sizes \in [1 .. 3 -> 0 .. 5] :
           LET many == aws_mem_acquire_many(sizes, 4)
           IN  /\ \A i \in 1 .. 3 : many.offsets[i] % 4 = 0 /\ many.offsets[i] + sizes[i] <= many.total
               /\ \A i \in 1 .. 2 : many.offsets[i] + sizes[i] <= many.offsets[i + 1]
=============================================================================
