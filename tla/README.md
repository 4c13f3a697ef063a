# A TLA+ development for aws-c-common

aws-c-common is the base library of the AWS SDKs for C: containers, memory
management, threads and schedulers, a message bus, logging, and text utilities.
This directory holds specifications of the parts that are hard to test: code in
which threads, callbacks and shutdown interleave, data structures whose correctness
depends on long sequences of calls, and functions that exist in several
implementations or meet limits of their arithmetic. What the CBMC proofs under
`verification/cbmc` show (memory safety of single calls) is not repeated.

Paths below are relative to the repository; `source/` is `src/source/` in
`PROJECT.json`, which also lists, per definition, the lines it models.

## Inventory

| Component | State | Operations | What is hard | What makes it correct |
|---|---|---|---|---|
| priority queue (`priority_queue.c`) | heap array, parallel array of backpointers, an index inside the caller's node | push, push_ref, pop, remove by handle | removal from the middle, handles that move with every exchange | heap order between calls, exact handles, pop returns a least element |
| task scheduler (`task_scheduler.c`) | asap_list, timed_list, timed_queue, the local running_list of a pass | schedule_now, schedule_future, cancel, run_all, has_tasks, clean_up | user callbacks re-enter the scheduler during a pass; two timed containers | a task is held once; a pass runs exactly what was due, in order |
| thread scheduler (`thread_scheduler.c`) | two queues under a mutex, a condition variable, an atomic flag, a reference count, a task scheduler | schedule, cancel, acquire, release; the thread's loop | hand-over between threads, wake-ups, shutdown | nothing is lost or duplicated, due tasks run, release returns |
| ring buffer (`ring_buffer.c`) | atomic head and tail | acquire, acquire_up_to (one thread), release (another) | decisions on a stale tail; full against empty | buffers never overlap, space is not overlooked |
| bus (`bus.c`) | table of listeners, message and subscription queues, free list, dispatch thread | send, subscribe, unsubscribe, destroy | two queues, bounded buffer, final drain | payload destroyed once, order, subscriptions in force, termination |
| managed threads (`thread_shared.c`, `posix/thread.c`) | count of unjoined threads, list of threads to join | launch, decrement, join_all, timeout | several joiners and one signal | join_all returns when all have ended |
| hash table (`hash_table.c`) | slots of element and hash, entry count, mask | find, create, put, remove, foreach, iterator with delete, clear, swap, move | Robin Hood displacement, backward shift, wrap-around, deletion under iteration | it is a map; iterators see each element once |
| linked hash table and caches (`linked_hash_table.c`, `*_cache.c`) | table and list | put, find, remove, use order | agreement of the two, eviction | LRU, FIFO, LIFO order; size never above the limit |
| small block allocator (`allocator_sba.c`) | bins, pages, free chunks | alloc, free, realloc | page recycling while chunks of it are on the free list | no chunk handed out twice; a page released only when unused |
| logging (`log_channel.c`, `log_writer.c`, `logging.c`) | pending lines, finished flag | log, background thread, clean_up | shutdown with lines pending | every line written once, in order |
| promise (`promise.c`) | value, error, completion, references | complete, fail, wait, wait_for, take_value | wake-ups, ownership of the value | the value is taken or destroyed, once; waiters return |
| memory tracer (`memtrace.c`) | table of live blocks, table of stacks, a counter | acquire, release, realloc, dump | steps of different locks and of the wrapped allocator interleave | it has recorded exactly the live blocks |
| byte buffers, array and linked lists (`byte_buf.c`, `array_list.c`, `linked_list.inl`) | memory, length, capacity; pointers | append, reserve, set_at, swap, move_all, ... | growth that overflows, arguments inside the container itself, neighbours | they are sequences; a failed call changes nothing |
| atomics (`atomics_*.inl`) | memory and store buffers | load, store, exchange, compare_exchange, fetch_* | barriers left out for each order and compiler | what the memory order promises |
| math, clocks, hashes (`math.*.inl`, `clock.inl`, `lookup3.inl`) | none | checked and saturating arithmetic, conversion, hash | one of several implementations is built | all give the same, exact result |
| text (`byte_buf.c`, `encoding.c`, `uuid.c`, `date_time.c`, `xml_parser.c`, `log_formatter.c`, `command_line_parser.c`) | parser states | split, find, compare, encode, decode, parse, format | last blocks, truncation, callbacks that stop or descend, global state | what is written is read back, nothing is skipped or read twice |
| files (`file.c`, `posix/file.c`, `windows/file.c`) | the file system | traverse, delete, move, iterate, read | nested failure, links, others changing the tree | all or an error; every entry once |
| JSON, strings, errors, environment, processes | values | sequential functions and system calls | | |

Interactions: the task scheduler keeps its timed tasks in the priority queue; the
thread scheduler owns a task scheduler that only its thread touches and talks to
clients through two lists, a mutex and a condition variable; the bus keeps its
listeners in a hash table and, when asynchronous, owns a dispatch thread; caches
are built on the linked hash table, which is built on the hash table and the linked
list; a logger owns a background channel with a thread of its own; the small block
allocator and the tracer wrap another allocator; a promise is typically completed by
a managed thread. Memory exhaustion aborts the process
(`include/aws/common/assert.h`), so that error paths for a failed `aws_mem_acquire` are
dead code and appear in no model.

## Modules

### PriorityQueueSpec, PriorityQueue, ContainerProofs

`PriorityQueueSpec` is the promise: a set from which pop takes a least item and
remove the item of a handle. `PriorityQueue` is the code: `container` and
`backpointers` are the two arrays, `current_index` is the field of the caller's
nodes. One iteration of the loops of `s_sift_up` and `s_sift_down` is one step
(`pc`, `cur`), `pc = "either"` being `s_sift_either` before anything moved. A push
appends its item in one step and updates the backpointers in the next one, which may
fail (backpointer in a static queue, overflow of the backpointer array's size) and then
takes the item back (`backpointer_update_failed`): in between the item is in the
array and not yet in the queue of the promise. `issued` (history) remembers which nodes this queue
was ever given: removing through a foreign node is undefined by the header.

### TaskScheduler, TaskSchedulerProofs, ListLemmas

The lists are sequences, `timed_queue` is the set of its items, from which a least
one is taken; that is what `PriorityQueue` is proved to implement. `s_run_all` is
split into its loops (`phase`), one iteration per step, and
into "function called" / "function returned" so that between the two every
operation a task function may call is possible. Cancelling calls the function
within the step; what that function does next is again a `UserStep`. `fresh` is
history: what was scheduled since the pass began.

### ThreadScheduler, ThreadSchedulerProofs

An INSTANCE of `TaskScheduler` plus the queues, the thread (`pc`) and the clients
(`cpc`). A critical section is one step; the wait is not: the thread holds the
mutex from the evaluation of the predicate (`"pred"`) until it sleeps
(`"blocked"`), and what is done without the mutex (the notifications, the store of
`should_exit`) can fall in between. `MaySleep` keeps the width of the clock: the
difference of two unsigned times is taken modulo `UINT64_MAX + 1` and is not
positive as `int64_t` when it exceeds `INT64_MAX`. The join, the clean-up and the
free of `s_destroy_callback` are separate steps.

### RingBuffer, RingBufferProofs

Addresses are offsets. The acquiring thread loads the tail (`LoadTail`), decides
and stores the head (`StoreHead`) and, when nothing was vended, stores the tail
(`StoreTail`); the releasing thread stores the tail at any moment in between. The
two acquire functions are operators from the two pointers to the buffer to vend.

### Bus, BusProofs

`policy` is chosen in the initial state. `msgs`, `subs` and `free` are the queues
under the mutex, `slots` the table only the dispatch thread uses, `pending_*` and
`pos` the thread's locals. `wanted`, `touched`, `within`, `received`, `destroyed`,
`discarded`, `closed`, `members` are history, for the properties only. A client
subscribes a listener to an address only while it is not subscribed there.

On a synchronous bus a send calls the listeners one by one, and every call is a step:
`calls` is the stack of the sends that have not returned, each with the listener it has
reached. A listener may send, subscribe any listener and unsubscribe any that no send
has just called before it returns; a message it sends is delivered completely before the outer delivery goes on, so
that a second listener gets the later message first. `DeliveredInOrder` says that this
nesting (`within`) is the only exception from the order of acceptance.

### HashTableSpec, HashTable, HashTableProofs

The slots are a function from slot numbers to entries, hash code 0 marking an empty
one; `mask` is `size - 1`. `s_emplace_item` is one iteration of the displacement loop
and `s_expand_table` one round of the copy, so that the properties also see the table
in the middle of an insertion; the search and the backward shift are defined by
where their loops end (`Stops`, `RunEnds`). `put` and `create` are split by whether
the key is present and end in `PutReturns`. The iterator keeps slot, limit and
status, the slot underflowing to `SIZE_MAX`. `owned`, `visited` and `expected` are
history: what was handed to the table, and what an iteration offered and should
offer. `InitSizes` are the sizes a caller asks for, rounded up as `aws_hash_table_init`
does; `max_size` is the size beyond which `s_alloc_state` overflows, which is less than
`SIZE_MAX` because an entry has more than one byte. The table is
not changed by others during an iteration, as the header demands. Refinement: the
elements in slots, in flight and not yet copied are the map, without the key of an
insertion that has not returned.

### ManagedThreads, Promise, Logging, MemTrace, ConcurrentProofs

In all four a critical section is one step, what follows it without the lock is
another. `ManagedThreads`: a thread is launched, runs (perhaps inside `call_once`),
runs its exit callbacks, takes over the list of finished threads (`join_list`), lists
itself and joins them; `owes` are those who have decremented the count and not yet
notified. `before` is history: what had been launched when join_all_managed was
called. `Promise`: the holders of references, each at its position, with the mutex
around completion and predicate only. `Logging`: `kind` chooses the logger:
`aws_logger_init_standard` makes a background channel, and its construction may fail at
every stage; `aws_logger_init_from_external` takes the caller's parts, here with a
foreground channel; `aws_logger_init_noalloc` does not allocate lines, and does not notice
a file that does not open (stage `no_file`, in which logging and the clean-up pass a null
file on and the process ends). `sent` and `written` are history. `MemTrace`: the tracer counts
(atomic), records the stack (mutex) and puts the allocation (mutex) in three steps,
and the wrapped allocator gives out any free address, the one just released
included; a block for which no stack could be taken is recorded without one. With
`RacyRealloc = FALSE` blocks are resized only where a single thread
uses the allocator; with `TRUE` the counts go wrong (finding 4).
`MCConcurrent` composes the promise with the managed thread that completes it;
`PromiseSpec`, `LogSpec`, `ManagedSpec` and `TraceSpec` are the components alone, which
the proofs are about.

### ByteBuf, Cursors, ArrayList, LinkedList, ContainerProofs

Containers at the level of the code's fields next to the sequence (`contents`,
`items`, `order`) that their user thinks of, which the property compares;
`BufSpec`, `ArraySpec` and `LinkSpec` are what the proofs are about. `ByteBuf`
has one cursor, into the buffer's own memory or elsewhere, that dies when its block
is released, and `size_t` ends at `SizeMax`. `ArrayList` has two lists, so that
copy, swap and swap_contents alias; sizes are bytes and wrap at `SizeLimit`.
`LinkedList` is its next and prev pointers, each assignment in order. `Cursors` are
functions: a behaviour is one call with every text over a small alphabet.

### CacheSpec, Caches

`CacheSpec` is the promise: a bounded sequence with an eviction policy; `found` is
the last call with its result, so that a put that loses its entry is not taken for
another call. `Caches` is the linked hash table over the pointers of `LinkedList`
and the map of `HashTableSpec`. Keys are objects with a class of equal ones, since
the header leaves open which object the table owns after a put of an equal key.

### SmallBlocks

Addresses are a page and an offset. A page given back to the system may be given to
the parent allocator, in whose blocks `s_sba_free` looks for the tag of a page.

### Atomics

The programs of two threads (store buffering, message passing, counters,
compare-and-exchange) on a machine with store buffers, for the three backends. The
property compares with the operations done one at a time; a failed compare-and-exchange
of `atomics_gnu_old.inl` counts as two, since it reads the variable again. Only
x86 is modelled: on weaker machines `atomics_gnu_old.inl` has no barrier after an
acquire load.

### Numbers, Lookup3, Encoding, DateTime, LogFormatter, Files

One call per behaviour, its arguments from small sets, its result compared with a
definition and, where the library has several that should give the same, with the other
implementations. Words have `NumberBits` bits; the
algorithms are uniform in the width. `Lookup3` keeps which byte is added to which
register at which shift. In `Files` a call runs on a tree with links, directories
that cannot be read, entries that cannot be removed and one that another process
removes; the last error, which decides whether a walk was interrupted, may be stale.

### Xml, CommandLine

`Xml` steps from callback to callback; a document is a sequence of tags, a name a
sequence of letters because the parser searches for prefixes. `CommandLine` keeps
the global state across two runs.

## Runs

| Run | Question | Instance |
|---|---|---|
| priority_queue | heap order, handles and refinement under every sequence of calls | 6 items of 2 priorities, 6 slots: the smallest heap in which a removal from the middle must move the replacement up |
| task_scheduler | tasks held once, exact and ordered passes, next_task_time, clean_up | 4 tasks, times 0..2, timed_queue limited to 2: the merge has two tasks in each container |
| thread_scheduler | hand-over, wake-ups, shutdown, liveness | 2 clients, 2 tasks, a clock of 3 bits with tasks at 0, 1 and 6 (6 is "negative") |
| thread_scheduler_shutdown (violated) | does the last release call every scheduled task? | the same |
| bus | all bus properties, all policies | 2 clients, 2 messages, 2 addresses, 2 listeners with 3 possible subscriptions, 2 (un)subscriptions, a buffer of 1 message: both listeners of an address, the first of which sends while the second waits |
| bus_unreliable (violated) | is there always a message to discard? | the same |
| bus_unsubscribe (violated) | is a listener not called after unsubscribe returned? | the same |
| hash_table | map, ownership and iteration under every sequence of calls | 5 classes of keys (one of two equal keys, one with hash 0, one NULL), 2 values, sizes 2, 4, 8, growth refused beyond 4 or 8; with 8 slots the homes are 7, 7, 0, 1 and 2, so a run wraps around, displaces entries one after the other, and lookups stop early |
| concurrent | threads joined once and join_all complete, promise, log lines, tracer, the ring buffer, and who of the waiters returns | 2 threads, 3 callers of join_all, of which 2 with timeouts or with an event loop; 1 promise, 3 holders; 2 clients, 2 lines, 3 levels; 2 threads on 2 addresses; a ring of 6 bytes, requests of 1..7 bytes |
| join_all (violated) | does every caller of join_all_managed come back? | 2 threads, 3 callers |
| memtrace_realloc (violated) | does the tracer count what is allocated while blocks are resized? | 2 threads, 2 addresses |
| sequential | are buffers and lists the sequences their user thinks of; caches, allocator, atomics, arithmetic, hashes, texts, files | buffers of up to 4 bytes with `size_t` up to 5; 2 array lists of up to 3 items, 5 in all; 2 linked lists with 4 nodes; caches of 1 and 2 entries with 3 keys; 3 pages, 2 bins; words of 5 and 6 bits; keys of 0 to 30 bytes; 0 to 58 bytes to encode, around the vector's 24; documents of up to 5 inner tokens, 3 deep; trees of up to 4 entries; 3 arguments |

Deadlock is not checked: in all these systems everything may have been released
or cleaned up, after which nothing happens.

Bounds. The heap, the ring, the schedulers and the hash table are explored completely for the
given constants. The bus is cut by `MaxSends` and `MaxRequests`: two messages fill
the buffer of one slot and show reordering, two requests are a subscription and
its cancellation or a second address. `MaxNow` stops the clock after the tasks at 0
and 1 are due.

The parts of `concurrent` and `sequential` are independent, the initial state picks
one; the variables of the others keep their initial values. In the part of the
managed threads the callers of join_all call in a fixed order, the third while the other
two sleep, and the thread with the exit callback is launched first.

In `sequential` the byte alphabet, the word and the limits are small enough that
overflow, the largest value and the growth by doubling happen; the lengths of hashes
and codecs are the real ones, because their switch statements and strides depend on
them.

Fairness. The thread of the thread scheduler, the dispatch thread, and a client
inside a call that it has begun are scheduled by the operating system (weak
fairness of `ThreadStep`, `DispatchStep`, `ClientNotifies`, `Destroys`); the timed
wait of the thread scheduler expires (`WaitTimesOut` is part of `ThreadStep`,
the code never waits longer than 30 seconds or the next task) and the clock
advances. In `concurrent` every thread inside a call it has begun is scheduled, user
functions return, the event loop ends and a wait with a timeout ends; from this follow
`CallersJoinAll` and `LogCleanUpReturns`, the two halves of `WaitersReturn`. Under the same
fairness `JoinAllReturns`, what the header says, is violated (finding 5). Nobody
is assumed to schedule, send, release or destroy, and spurious wake-ups may occur and
need not.

## Findings

1. `source/thread_scheduler.c:38`: tasks still in `scheduling_queue` when the
   thread exits are neither run nor cancelled, although the header promises the
   semantics of the task scheduler (run thread_scheduler_shutdown).
2. `source/bus.c:346`: an unreliable bus pops its empty message queue when all its
   buffered messages are being delivered (run bus_unreliable). A buffer smaller
   than one message has the same effect on the first send.
3. `source/bus.c:571`: on an asynchronous bus `aws_bus_unsubscribe` returns while
   the listener may still be called (run bus_unsubscribe).
4. `source/memtrace.c:441`: `s_trace_mem_realloc` removes the record of the old
   address after the wrapped allocator has released it; if another thread was given
   the address meanwhile, its record is lost and the counts stay too small (run
   memtrace_realloc).
5. `source/thread_shared.c:44`: every decrement of the count wakes one caller of
   `aws_thread_join_all_managed`, and the predicate holds from one unjoined thread on;
   of three callers one can sleep forever although all threads are joined, against
   `thread.h:34` (run join_all). `CallersJoinAll` is what holds: one caller comes back, and
   when another goes on sleeping nothing is left to join.

Met while modelling and kept out of the properties, or exempted in them where they
say so:

- Dates. The parser of RFC 822 calls the weekday optional (`date_time.c:452`) and
  then takes the day's first digit for it: "01 Jan" is read as day 1 and "21 Jan"
  as day 1, too. The ISO parsers accept text after the `Z` and fields out of range.
- Files. `aws_directory_delete` succeeds with contents left when a directory vanishes
  inside the walk (`posix/file.c:94`, against `file.h:81`); on POSIX it never removes
  links and fails after deleting the rest, on Windows it follows them. The iterator
  of an empty directory has no current entry and `current_node` is not set
  (`file.c:112`, against `file.h:144`). A failure of `ftell` in
  `aws_byte_buf_init_from_file` is not noticed (`file.c:42`): no memory is allocated, the
  length is `SIZE_MAX` and the terminator is written through a null pointer. The model
  ends there, and `ReadExact` says nothing of it.
- XML. An element `a` that contains an `ab` is closed too late (`xml_parser.c:246`
  searches for a prefix); some truncated documents are reported as parsed; all nodes
  share one list of attributes, which is that of the last tag read; what the root's
  callback returns overwrites an earlier request to stop (`xml_parser.c:445`).
- Log lines. A line that is cut in `aws_format_standard_log_line` has no newline,
  against the comment at `log_formatter.c:66`: the last `snprintf` has room for its
  terminator only. This happens to lines of the logger that does not allocate.
  `LinesExact` asserts the newline of lines that fit, as those of the default formatter
  always do, and of a cut one only that it is a prefix.
- Logging. `aws_logger_init_noalloc` succeeds when its file does not open
  (`logging.c:551`).
- Command line. Setting `aws_cli_optind` to 1 is said to suffice for a second run
  (`command_line_parser.h:42`); after an unknown option at the end it does not,
  `aws_cli_reset_state` does.
- Encodings. The two base64 decoders do not agree on texts that encode nothing: the
  portable one accepts NUL characters, nonzero bits behind the padding and a digit after
  a padding character, for which it reports a byte it has not written
  (`encoding.c:401-407`); the vector code refuses all of them. `DecodeExact` asserts that the
  vector code accepts exactly the encodings, and that both give the same bytes for
  these; of the portable code on other texts it asserts only where padding is refused. The
  overflow checks of the encoded lengths miss lengths within three bytes of `SIZE_MAX`, that
  of the decoded one those from half to two thirds of the address space; the last character
  of a UUID is not checked.
- Linked hash table. A put of an equal key that is another object stores a pointer to
  it in the node although the table goes on owning the first one
  (`linked_hash_table.c:102`): the new key is never destroyed by the table.
- Threads. The timed
  join reports an error when the deadline passed although nothing is left to join; a
  failed launch leaks the wrapper.
- Arithmetic. The conversion of time stamps is inexact where the product of the two
  frequencies overflows. The compiler's `aws_clz_u32` counts the leading zeros of a `long`
  (`math.gcc_builtin.inl:23-25`), 32 too many where a `long` has 64 bits, against
  `math.h:159`; `BitsExact` asserts it only where a `long` is as wide as the word.
- Cursors. `aws_byte_cursor_advance_nospec` "behaves identically" to the plain one except
  for a cursor of half the address space, which its mask clears
  (`byte_buf.c:1122-1141`): `aws_byte_cursor_read` of it fails and leaves the cursor empty,
  against `byte_buf.c:1156-1158` (`ReadClears`). The user's sequence of `BufferIsSequence`
  loses the cursor's bytes with it.
- Atomics. A compare-and-exchange of `atomics_gnu_old.inl` that fails reads the variable
  again (`:192-195`, `:213-215`): if another thread has set it back meanwhile, the call
  returns false with the value that was expected, which the comment at `:180` excludes.
- Memory. `shrink_to_fit` of an empty array list leaks its block; the clean-up of the
  small block allocator gives pages back without erasing their tag.

Smaller disagreements met while reading, without a run: `priority_queue.h` says a
full static queue raises `AWS_ERROR_PRIORITY_QUEUE_FULL`, the code raises
`AWS_ERROR_LIST_EXCEEDS_MAX_SIZE`; `ring_buffer.h` says acquire_up_to vends
"anywhere from 1 byte", the code from `minimum_size`; `bus.c:357` says the mutex is
held where it is not; a message sent to `AWS_BUS_ADDRESS_ALL` is delivered twice to
every listener of that address (`bus.c:122-123`); the comments of `allocator_sba.c`
call its free list FIFO, it is LIFO.

## Proofs

All proofs hold for every value of the constants that satisfies the named
assumptions.

`ContainerProofs`, the heap, from `PQAssumption` (integer priorities, a positive capacity
not above the sentinel). `TypeCorrect` says among others that a sift loop never
leaves the array. `HeapOrderCorrect` needs the state *during* a loop: `SiftInv` says
that while an element moves up only the pair of it and its parent may be out of
order, while it moves down only the pairs of it and its children, and that the
parent of the moving element is in order with its children (`GrandparentOrdered`,
the precondition written above `s_sift_either`). `HandlesExactCorrect` needs
`SlotsInv` (slots hold distinct items) and `BackpointerInv` (a backpointer is that
of the item in its slot and knows its slot). `HeapImplementsPriorityQueue` maps
the array to the set of its items: every exchange is a stutter, `s_remove_node(0)`
takes a least item because in a heap the root precedes every element, by
well-founded induction along `PARENT_OF`.

`ContainerProofs`, array lists, from `ArrayConstants` (an item takes memory, and the
two items of the smallest block fit `size_t`). `Holds` relates the memory, the sizes in
bytes and the sequence of the user: slots up to `length` are the user's items, and the
block has room for them. Growth is where this can break: the necessary size or the
doubled one may wrap, and the invariant survives because `aws_array_list_calc_necessary_size`
refuses the first and the larger of the two is taken. The items are taken from
*some* set that contains the callers' items (`ArrayInv` is existential): calls move what
is in memory, whatever it is.

`ContainerProofs`, linked lists, without assumptions on nodes and lists. `LinkInv` says
of the pointers and the sequences: no node is in two places (`OnceLinked`), each list is
chained from head to tail in both directions (`Chained`), and the pointers of a node in
no list are NULL. `InsertKeeps` and `RemoveKeeps` are the two primitive operations. An exchange
of two nodes, neighbours included, is shown to rename two cells in all pointers at once
(`Conjugate`, `Transposed`), which needs next and prev to be inverse; exchanges and
splices of whole lists touch the pointers of two lists only, and need the new sequences
chained and nothing said of the others (`TwoListsKeep`).

`ContainerProofs`, byte buffers, from `ByteConstants` (the caller's array holds bytes).
`BufHolds` relates block, length, capacity and contents; `Denotes` says that a cursor
into the buffer covers a range of the *contents*, not of the block, so that it
survives appends and tells what a write through the sub-buffer changes in it; `Within` keeps
the sub-buffer inside the contents, and hence inside the block. Growth (`RegrownHolds`)
is two copies into a fresh block, appending the buffer to itself is a case of it because
the bytes are read before the block is replaced. `NetworkOrder` and `LowBytes` show that
`aws_hton` and the word of 24 bits give the digits of the integer.

`RingBufferProofs`, from `RingSize \in Nat \ {0}`. The invariant `RingInv` says where the
vended buffers lie: in order between tail and head (`Straight`) or, after a wrap,
the older ones above the tail and the newer ones below the head (`Wrapped`), and
that the tail has only moved towards the head since it was copied (`CopyBehind`).
The last part is what makes the decision on a stale copy safe.
`VendsAsMuchAsPossibleCorrect` compares the branches of the two acquire functions
with the set of all buffers that fit.

`ListLemmas` has what the following proofs need of lists without duplicates: what
appending, popping, inserting and removing do to the elements and to the relation
`Precedes` (one element stands before another). Orders are stated with `Precedes`
rather than with indices, so that an insertion in the middle disturbs nothing.

`TaskSchedulerProofs`, from `TaskSchedulerAssumption` (a clock that ends at a positive
`UINT64_MAX`, any capacity of the queue, 0 included). The invariant has five parts:
types; `Held`, the four containers are disjoint, without duplicates and together the
scheduled tasks; `Ordered`, both timed lists are in time order and the asap tasks have
timestamp 0; `Control`, what is empty in which phase; `Pass`, while `s_run_all` merges,
what it has taken is due and not later than what it has left, and when it drains the
queue the list has nothing due any more. `HeldExactlyOnceCorrect` needs `Held` with
`Control`, `RunsInTimeOrderCorrect` needs `Pass`: appending to `running_list` keeps its
order only because everything left is later. `NextTaskTimeExactCorrect` follows from
`Held` and `Ordered` in every state: the head of a list in time order is its least
element. A task function that schedules or cancels between two iterations is one of
the steps of every part.

`ThreadSchedulerProofs`, from `ThreadSchedulerAssumption` (finitely many clients, one of
which creates the scheduler, times within the clock). The invariant of the task
scheduler, taken over by `INSTANCE TaskSchedulerProofs`, is one part: every step of the
thread that calls the task scheduler is a step of it. `Handed` says where a task is that
a client has handed over; `HandedOverOnce` alone is not inductive, since it does not say
that a task whose cancellation is under way is not queued again, nor that the local
copies are empty outside their loops. `Wakes` adds to `NoLostWakeUp` that both queues
are empty when the thread, still holding the mutex, is about to sleep. `Destroying`
ties the reference count to the set of holders and the clean-up to the end of the
thread; `Driving` says that only one of the two drives the task scheduler.

`BusProofs`, from `BusAssumption` (finitely many addresses, `ALL` among them, an owner).
`Control` and `Drain` say what the dispatch thread holds at each point and that the
last drain starts after the queues were closed. `Queued` and `Delivered` put the
payloads of both queues and of all listeners in one order. The heart is
`Subscriptions`: the table of the dispatch thread together with the requests still
waiting, in their order, is what the callers see (`After` looks up the last waiting
request for an address and a listener), and no waiting request adds a listener twice.
`Expected` says that for a message not yet delivered this view has changed only for
listeners recorded as touched, and that requests queued after a message was taken out
touched it: that both queues are swapped in one critical section is what makes
`SubscriptionsPrecedeMessagesCorrect` hold. `Nested` is about the stack of sends of a
synchronous bus: the inner ones are newer, and every message accepted after one of them
was sent inside of it; that is what `DeliveredInOrderCorrect` needs there. The payloads settled and the
subscriptions closed (`Settled`, `Closing`) are exact in every state, not only at the end.

`ConcurrentProofs`. `PromiseValueOnceCorrect`, from `PromiseAssumption` (finitely many
waiters, none of them the completer): the reference count is the number of holders that
have not left, and only the completer changes the value. `LoggedOnceInOrderCorrect`: the
lines written, taken out and queued are together what was sent, the thread ends only
with both lists empty, and what is allocated is reachable at every stage of a
construction that may fail. `ManagedJoinedOnceCorrect`, from `ManagedThreadsAssumption`
(finitely many threads, none of them a joiner): `CountExact` for the count, `Places` for
the one list a finished thread is in, `WrapperFreed`, and `JoinerSaw`: a joiner that saw
the count at zero has seen everything launched before its call. `TracerExactCorrect`,
under the hypothesis `~RacyRealloc` (with it the property is violated, finding 4): the
counter is the bytes recorded and those of the calls between the atomic addition and the
record (`CounterExact`), a block that is live and not recorded is that of a call under
way (`RecordsExact`), and no two calls are about the same block (`CallsExact`). A total is
the number of the pairs of a block and a byte below its size, so that no induction over
the table is needed.

`HashTableProofs`, from `HashTableAssumption` (a hash function that agrees with
`equals_fn`, only NULL equal to NULL, sizes of at least 2, tables smaller than
`SIZE_MAX`); the size need not be a power of 2, since only the remainder is used. The
heart is `RobinHood`: an entry that is not at home stands behind one that is at most one
slot nearer to its own home. Hence an entry at distance d stands behind d used slots in
order (`Chain`), an entry never goes round the table, and a lookup that stops early has
missed nothing (`Lookup`). `PlaceKeeps`, `PassKeeps` and `ShiftKeeps` show that one
iteration of the displacement loop and the backward shift keep the order; `Arriving` is
what the entry in flight carries along. `Count` keeps one slot empty through the whole
insertion, expansion included. `Unique` and `Owns` say that the elements in the slots, in
flight and not yet copied have different keys and share no object, and that exactly
their objects are owned. `Requested` is what `PutReturns` needs: the new element is still
in the slot whose address `s_emplace_item` returned, because the slots between it and the
entry in flight are all in use. `Iterating` says that what the iterator has offered and
what lies ahead of it below the limit are together what it should offer; `DeletePending`
is the arithmetic of the lowered limit. `HashTableImplementsMap` then maps every step to
one of the map: an insertion takes effect in `PutReturns`, displacement and copying are
stutters.

Model-checked only: all liveness properties (`DueTaskIsCalled`,
`DestroyTerminates`, `MessagesAreSettled`, `DestroyReturns`, `WaitersReturn`), which are
outside the prover's reach; the modules with recursive operators (Atomics, Cursors,
Files, Caches and its refinement `ImplementsCache`, SmallBlocks, Xml) and the other parts
of `sequential` but the containers, which compare a computed result with a definition
(`MemoryExact`, `AtomicsAreSequential`, `NumbersExact`, `TextsAndFilesExact`). The value of
an integer read from a cursor is a fold over its bytes, which would need induction over
data: that the cursor reads the right bytes is proved, what number they are is part of
`NumbersExact`.

## What is left out

Weak memory beyond store buffers: in all modules but Atomics the atomic operations are
sequentially consistent (the ring buffer's release store and acquire load of the tail
are what its argument needs). Failure of pthread calls other than pthread_create,
which the code turns into fatal assertions or ignores. Initialisation error paths,
except those of the logger. Task functions that call `run_all` or `clean_up` of
the scheduler that runs them, or release the last reference of their own thread
scheduler; listeners of a synchronous bus that unsubscribe themselves inside their
callback (the loop then reads a freed node, `bus.c:110`) or destroy the bus there.

Not modelled as components, with the reason in `PROJECT.json`: JSON (a wrapper of the
vendored cJSON), error registration, statistics, library initialisation, environment,
processes, system information and random numbers (one system call each), the Windows
variants of threads and locks.

## Plan

In order of what the system depends on most:

1. done: PriorityQueue, TaskScheduler, ThreadScheduler, RingBuffer, Bus, HashTable,
   and the proofs about the heap and the ring.
2. done: ManagedThreads, Promise, Logging, MemTrace; the caches and the containers
   below them; the small block allocator; atomics, arithmetic, hashes, texts, files.
3. done: the safety properties of the task scheduler, the thread scheduler, the bus,
   the managed threads, promises and the log channel, proved.
4. done: the hash table, proved: the Robin Hood order of the slots as the inductive
   invariant, `OwnershipExact`, `IterationExact` and `ImplementsMap`.
5. done: array lists, linked lists and byte buffers are sequences, and the tracer
   counts what is allocated, proved.
6. swap, move and equality of hash tables.
