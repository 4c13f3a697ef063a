------------------------------ MODULE MemTrace ------------------------------
(***************************************************************************)
(* source/memtrace.c: an allocator that records the live allocations of    *)
(* the one it wraps.  A thread is inside one call at a time; a step is one *)
(* call of the wrapped allocator, one atomic operation or one critical     *)
(* section of the tracer's mutex, so that the calls of other threads come  *)
(* in between.  The wrapped allocator gives out addresses that are free,   *)
(* the ones just released among them; its realloc moves a block (or keeps  *)
(* it) in one step.                                                        *)
(***************************************************************************)
EXTENDS Integers, FiniteSets, Functions

CONSTANTS Tracer,         \* threads that use the allocator
          Address, Size,
          Stack,          \* hashes of call stacks, natural numbers other than 0
          RacyRealloc     \* do threads realloc while others use the allocator

VARIABLES tracing,        \* the level: "none", "bytes" or "stacks"
          clients,        \* the threads that make calls
          memory,         \* the wrapped allocator's blocks: address |-> size
          allocated,      \* the atomic counter
          allocs,         \* address |-> the alloc_info recorded
          stacks,         \* the stacks recorded
          call,           \* thread |-> the call it is in
          dumped          \* what the last dump printed

\* No address is NULL, sizes are those of size_t.  A backtrace that worked when the tracer
\* was made works at every allocation: a dump ends the process when it finds a block
\* that was recorded without a stack.
ASSUME TraceAssumption ==
    /\ IsFiniteSet(Tracer) /\ Tracer # {}
    /\ 0 \notin Address /\ Size \subseteq Nat
    /\ 0 \notin Stack
    /\ RacyRealloc \in BOOLEAN

traceVars == <<tracing, clients, memory, allocated, allocs, stacks, call, dumped>>

NoCall == [at |-> "idle", ptr |-> 0, size |-> 0, stack |-> 0, old |-> 0]
Without(f, x) == Restrict(f, DOMAIN f \ {x})
With(f, x, y) == [z \in DOMAIN f \cup {x} |-> IF z = x THEN y ELSE f[z]]

\* Without a backtrace at hand the level is clamped to bytes: that is the level "bytes".
s_alloc_tracer_init ==
    /\ tracing \in {"none", "bytes", "stacks"}
    /\ clients \in {Tracer, {CHOOSE t \in Tracer : TRUE}}
    /\ memory = <<>> /\ allocated = 0 /\ allocs = <<>> /\ stacks = {}
    /\ dumped = [bytes |-> 0, leaks |-> 0, by_stack |-> <<>>]
    /\ call = [t \in Tracer |-> NoCall]

MayRealloc == RacyRealloc \/ clients # Tracer

CallGoes(t, at) == call' = [call EXCEPT ![t].at = at]
Returns(t) == call' = [call EXCEPT ![t] = NoCall]

----------------------------------------------------------------------------
(* The wrapped allocator                                                   *)

s_trace_mem_acquire(t, ptr, size) ==
    /\ call[t].at = "idle" /\ ptr \notin DOMAIN memory
    /\ memory' = With(memory, ptr, size)
    /\ call' = [call EXCEPT ![t] = IF tracing = "none" THEN NoCall
                                   ELSE [NoCall EXCEPT !.at = "add", !.ptr = ptr, !.size = size]]
    /\ UNCHANGED <<tracing, clients, allocated, allocs, stacks, dumped>>

\* The blocks a thread may release or realloc: those no call is about.
Settled(ptr) == ptr \in DOMAIN memory /\ \A t \in Tracer : call[t].ptr # ptr

\* release untracks first.
s_trace_mem_release(t, ptr) ==
    /\ call[t].at = "idle" /\ Settled(ptr)
    /\ call' = [call EXCEPT ![t] = [NoCall EXCEPT !.ptr = ptr,
                                    !.at = IF tracing = "none" THEN "free" ELSE "untrack"]]
    /\ UNCHANGED <<tracing, clients, memory, allocated, allocs, stacks, dumped>>

Frees(t) ==
    /\ call[t].at = "free"
    /\ memory' = Without(memory, call[t].ptr)
    /\ Returns(t)
    /\ UNCHANGED <<tracing, clients, allocated, allocs, stacks, dumped>>

\* realloc has the wrapped allocator move the block first; old_ptr is free from here on.
s_trace_mem_realloc(t, old_ptr, new_ptr, new_size) ==
    /\ MayRealloc
    /\ call[t].at = "idle" /\ Settled(old_ptr)
    /\ new_ptr = old_ptr \/ new_ptr \notin DOMAIN memory
    /\ memory' = With(Without(memory, old_ptr), new_ptr, new_size)
    /\ call' = [call EXCEPT ![t] = IF tracing = "none" THEN NoCall
                                   ELSE [NoCall EXCEPT !.at = "forget", !.ptr = new_ptr,
                                                       !.size = new_size, !.old = old_ptr]]
    /\ UNCHANGED <<tracing, clients, allocated, allocs, stacks, dumped>>

----------------------------------------------------------------------------
(* Tracking                                                                *)

Untracks(ptr) ==
    IF ptr \in DOMAIN allocs
    THEN allocated' = allocated - allocs[ptr].size /\ allocs' = Without(allocs, ptr)
    ELSE UNCHANGED <<allocated, allocs>>

\* Under the mutex; an address that is not recorded is left alone.
s_alloc_tracer_untrack(t) ==
    /\ \/ call[t].at = "untrack" /\ Untracks(call[t].ptr) /\ CallGoes(t, "free")
       \/ /\ call[t].at = "forget" /\ Untracks(call[t].old)
          /\ CallGoes(t, "add")
    /\ UNCHANGED <<tracing, clients, memory, stacks, dumped>>

TracksBytes(t) ==
    /\ call[t].at = "add"
    /\ allocated' = allocated + call[t].size
    /\ CallGoes(t, IF tracing = "stacks" THEN "stack" ELSE "put")
    /\ UNCHANGED <<tracing, clients, memory, allocs, stacks, dumped>>

\* Mutant: the stack is remembered and not recorded.
TracksStack_lost(t, stack) ==
    /\ call[t].at = "stack"
    /\ call' = [call EXCEPT ![t].at = "put", ![t].stack = stack]
    /\ UNCHANGED <<tracing, clients, memory, allocated, allocs, stacks, dumped>>

\* No stack is recorded, and the block keeps stack 0, if the backtrace is empty.
TracksStack(t, stack) ==
    /\ call[t].at = "stack"
    /\ stacks' = stacks \cup ({stack} \ {0})
    /\ call' = [call EXCEPT ![t].at = "put", ![t].stack = stack]
    /\ UNCHANGED <<tracing, clients, memory, allocated, allocs, dumped>>

\* The hash table's put replaces what is recorded for the address.
s_alloc_tracer_track(t) ==
    /\ call[t].at = "put"
    /\ allocs' = With(allocs, call[t].ptr, [size |-> call[t].size, stack |-> call[t].stack])
    /\ Returns(t)
    /\ UNCHANGED <<tracing, clients, memory, allocated, stacks, dumped>>

----------------------------------------------------------------------------
(* The dump, whole under the mutex                                         *)

\* A sum of sizes is the number of bytes there are: each is an offset into one of the blocks.
BytesOf(f) == UNION {{p} \X (1 .. f[p]) : p \in DOMAIN f}
Total(f) == Cardinality(BytesOf(f))

OfStack(s) == {p \in DOMAIN allocs : allocs[p].stack = s}

s_collect_stack_stats ==
    [s \in {allocs[p].stack : p \in DOMAIN allocs} |->
        [count |-> Cardinality(OfStack(s)),
         size |-> Total([p \in OfStack(s) |-> allocs[p].size])]]

aws_mem_tracer_dump ==
    /\ tracing # "none" /\ allocated # 0
    /\ dumped' = [bytes |-> allocated, leaks |-> Cardinality(DOMAIN allocs),
                  by_stack |-> IF tracing = "stacks" THEN s_collect_stack_stats ELSE <<>>]
    /\ UNCHANGED <<tracing, clients, memory, allocated, allocs, stacks, call>>

\* The records are dropped, the wrapped allocator is used directly from here on.
aws_mem_tracer_destroy ==
    /\ \A t \in Tracer : call[t].at = "idle"
    /\ tracing # "none" /\ tracing' = "none"
    /\ allocs' = <<>> /\ stacks' = {} /\ allocated' = 0
    /\ UNCHANGED <<clients, memory, call, dumped>>

TraceNext ==
    \/ \E t \in clients :
         \/ \E ptr \in Address, size \in Size :
                s_trace_mem_acquire(t, ptr, size)
                \/ \E old_ptr \in Address : s_trace_mem_realloc(t, old_ptr, ptr, size)
         \/ \E ptr \in Address : s_trace_mem_release(t, ptr)
         \/ Frees(t) \/ s_alloc_tracer_untrack(t) \/ TracksBytes(t)
         \/ \E stack \in Stack : TracksStack(t, stack)
         \/ s_alloc_tracer_track(t)
    \/ aws_mem_tracer_dump \/ aws_mem_tracer_destroy

TraceSpec == s_alloc_tracer_init /\ [][TraceNext]_traceVars

----------------------------------------------------------------------------

aws_mem_tracer_bytes == IF tracing = "none" THEN 0 ELSE allocated
aws_mem_tracer_count == IF tracing = "none" THEN 0 ELSE Cardinality(DOMAIN allocs)
NoCalls == \A t \in Tracer : call[t].at = "idle"

\* "Returns the current number of bytes in outstanding allocations" and "the current
\* number of outstanding allocations" (allocator.h): when no call is under way the tracer
\* has recorded exactly the blocks of the wrapped allocator.
TracerCountsExact ==
    NoCalls /\ tracing # "none" =>
        /\ aws_mem_tracer_bytes = Total(memory)
        /\ aws_mem_tracer_count = Cardinality(DOMAIN memory)
        /\ \A p \in DOMAIN memory : p \in DOMAIN allocs /\ allocs[p].size = memory[p]

\* What a dump relies on, with threads inside their calls: the stack of every recorded
\* allocation is recorded too, the counter covers at least what is recorded, and what is
\* printed for the stacks adds up to the leaks printed.
DumpFindsStacks ==
    /\ tracing = "stacks" => \A p \in DOMAIN allocs : allocs[p].stack \in stacks
    /\ allocated >= Total([p \in DOMAIN allocs |-> allocs[p].size])
    /\ dumped.by_stack # <<>> =>
           Total([s \in DOMAIN dumped.by_stack |-> dumped.by_stack[s].count]) = dumped.leaks
    /\ Total([s \in DOMAIN dumped.by_stack |-> dumped.by_stack[s].size]) <= dumped.bytes

\* With threads allocating and releasing at once, or one of them also resizing, the
\* tracer loses nothing and a dump always finds the stacks it prints.
TracerExact == TracerCountsExact /\ DumpFindsStacks
=============================================================================
