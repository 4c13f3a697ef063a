--------------------------- MODULE PriorityQueue ---------------------------
(***************************************************************************)
(* source/priority_queue.c: a binary min-heap kept in an array, with a     *)
(* second array of backpointers that tells the owner of an item where in   *)
(* the heap the item now is.  The loops s_sift_up and s_sift_down are      *)
(* modelled one swap at a time (pc, cur), and a push stops between the     *)
(* append to the heap array and the update of the backpointers, which may  *)
(* fail and is then backed out: no other operation can start before a call *)
(* ends.                                                                   *)
(***************************************************************************)
EXTENDS Integers

CONSTANTS Item,       \* items, each with the aws_priority_queue_node it embeds
          Prio,       \* the key of an item, as the comparison function sees it
          MaxSize,    \* static mode: item_count; dynamic mode: where growth overflows
          SIZE_MAX,   \* the index of a node that is in no queue
          NoItem,     \* a zeroed array slot, and "nothing returned"
          Error       \* the call returned AWS_OP_ERR

ASSUME PQAssumption ==
    /\ Prio \in [Item -> Int]
    /\ MaxSize \in Nat \ {0}
    /\ SIZE_MAX \in Nat
    /\ MaxSize <= SIZE_MAX
    /\ NoItem \notin Item
    /\ Error \notin Item \cup {NoItem}

VARIABLES
    mode,             \* dynamic when container.alloc # NULL, else static
    container,        \* the heap array
    size,             \* container.length
    backpointers,     \* the parallel array of node pointers
    current_index,    \* node->current_index of every item
    issued,           \* items whose node was passed to push_ref of this queue
    pc, cur,          \* where the call that runs is, and its index
    out               \* what the last call returned: an item, nothing or Error

vars == <<mode, container, size, backpointers, current_index, issued, pc, cur, out>>

Index == 0 .. (MaxSize - 1)

\* PARENT_OF, LEFT_OF and RIGHT_OF.
PARENT_OF(i) == IF i % 2 = 1 THEN i \div 2 ELSE IF i > 1 THEN (i - 2) \div 2 ELSE 0
LEFT_OF(i) == 2 * i + 1
RIGHT_OF(i) == 2 * i + 2

\* pred(a, b) > 0: the item at index i must come after the one at index j.
After(i, j) == Prio[container[i]] > Prio[container[j]]

\* A push (without, with a backpointer) that has appended its item and not yet
\* dealt with the backpointers, and the loops that move an item.
Pushing == {"push", "push_ref"}
Sifting == {"up", "either", "down"}

TypeOK ==
    /\ mode \in {"dynamic", "static"}
    /\ container \in [Index -> Item \cup {NoItem}]
    /\ size \in 0 .. MaxSize
    /\ backpointers \in [Index -> Item \cup {NoItem}]
    /\ current_index \in [Item -> Nat]
    /\ issued \in SUBSET Item
    /\ pc \in {"idle", "cleaned"} \cup Pushing \cup Sifting
    /\ cur \in Index
    /\ pc \in Pushing \cup Sifting => cur < size
    /\ pc \in Pushing => container[cur] \in Item
    /\ out \in Item \cup {NoItem, Error}

\* aws_priority_queue_init_dynamic and aws_priority_queue_init_static.  The
\* nodes live in zeroed caller structs (aws_task_init).
Init ==
    /\ mode \in {"dynamic", "static"}
    /\ container = [i \in Index |-> NoItem]
    /\ size = 0
    /\ backpointers = [i \in Index |-> NoItem]
    /\ current_index = [x \in Item |-> 0]
    /\ issued = {}
    /\ pc = "idle"
    /\ cur = 0
    /\ out = NoItem

\* backpointers.alloc # NULL: the array is created by the first push_ref.
BackpointersExist == issued # {}

InQueue(x) == \E i \in Index : i < size /\ container[i] = x

----------------------------------------------------------------------------
(* s_swap, on the heap array and on the backpointers.                      *)

Exchange(f, a, b) == [f EXCEPT ![a] = f[b], ![b] = f[a]]

\* Mutant: *bp_b keeps its old index.
ReindexedFirstOnly(ci, bp, a, b) ==
    [x \in Item |-> IF bp[a] = x THEN a ELSE ci[x]]

\* *bp_a, then *bp_b, is told its new index.
Reindexed(ci, bp, a, b) ==
    [x \in Item |-> IF bp[b] = x THEN b ELSE IF bp[a] = x THEN a ELSE ci[x]]

s_swap(a, b) ==
    /\ container' = Exchange(container, a, b)
    /\ backpointers' = Exchange(backpointers, a, b)
    /\ current_index' = IF BackpointersExist
                        THEN Reindexed(current_index, Exchange(backpointers, a, b), a, b)
                        ELSE current_index

----------------------------------------------------------------------------
(* Operations                                                              *)

\* The call raises the error and leaves the queue as it was.
Refused(error) ==
    /\ out' = Error
    /\ UNCHANGED <<mode, container, size, backpointers, current_index, issued, pc, cur>>

\* aws_priority_queue_push (ref FALSE: a NULL backpointer) and
\* aws_priority_queue_push_ref, up to the append to the heap array, which a full
\* array refuses.  An item is in the queue at most once.
aws_priority_queue_push_ref(x, ref) ==
    /\ pc = "idle"
    /\ ~InQueue(x)
    /\ \/ /\ size = MaxSize
          /\ Refused("LIST_EXCEEDS_MAX_SIZE")
       \/ /\ size < MaxSize
          /\ container' = [container EXCEPT ![size] = x]
          /\ size' = size + 1
          /\ pc' = IF ref THEN "push_ref" ELSE "push"
          /\ cur' = size
          /\ UNCHANGED <<mode, backpointers, current_index, issued, out>>

\* Its second half: the backpointer array is created or grown as needed, the node
\* is told its index and s_sift_up is called.
backpointer_update ==
    /\ pc \in Pushing
    /\ pc = "push_ref" => mode = "dynamic"
    /\ backpointers' = [backpointers EXCEPT ![cur] = IF pc = "push_ref" THEN container[cur] ELSE NoItem]
    /\ current_index' = IF pc = "push_ref"
                        THEN [current_index EXCEPT ![container[cur]] = cur] ELSE current_index
    /\ issued' = IF pc = "push_ref" THEN issued \cup {container[cur]} ELSE issued
    /\ pc' = "up"
    /\ out' = NoItem
    /\ UNCHANGED <<mode, container, size, cur>>

\* A static queue keeps no backpointers; in a dynamic one the size of the
\* backpointer array may overflow when it is created or grown.
UpdateCanFail ==
    \/ pc = "push_ref"
    \/ pc = "push" /\ BackpointersExist

\* Mutant: the failed push leaves its item behind.
backpointer_update_failed_keeps ==
    /\ pc \in Pushing
    /\ UpdateCanFail
    /\ pc' = "idle" /\ cur' = 0
    /\ out' = Error
    /\ UNCHANGED <<mode, container, size, backpointers, current_index, issued>>

\* The label backpointer_update_failed: the appended item is taken back.
backpointer_update_failed ==
    /\ pc \in Pushing
    /\ UpdateCanFail
    /\ container' = [container EXCEPT ![cur] = NoItem]
    /\ size' = size - 1
    /\ pc' = "idle" /\ cur' = 0
    /\ out' = Error
    /\ UNCHANGED <<mode, backpointers, current_index, issued>>

\* The loop returns, its locals are gone.
LoopEnds == pc' = "idle" /\ cur' = 0

\* One iteration of the loop of s_sift_up.  pc is "either" when s_sift_either
\* called it and nothing has moved yet: s_sift_down then follows.
s_sift_up ==
    /\ pc \in {"up", "either"}
    /\ IF cur > 0 /\ After(PARENT_OF(cur), cur)
       THEN /\ s_swap(cur, PARENT_OF(cur))
            /\ pc' = "up"
            /\ cur' = PARENT_OF(cur)
       ELSE /\ IF pc = "either" THEN pc' = "down" /\ UNCHANGED cur ELSE LoopEnds
            /\ UNCHANGED <<container, backpointers, current_index>>
    /\ UNCHANGED <<mode, size, issued, out>>

\* The first of root, left child and right child, as s_sift_down selects it.
FirstOf(root) ==
    LET f == IF After(root, LEFT_OF(root)) THEN LEFT_OF(root) ELSE root
    IN  IF RIGHT_OF(root) < size /\ After(f, RIGHT_OF(root)) THEN RIGHT_OF(root) ELSE f

\* One iteration of the loop of s_sift_down.
s_sift_down ==
    /\ pc = "down"
    /\ IF LEFT_OF(cur) < size /\ FirstOf(cur) # cur
       THEN /\ s_swap(FirstOf(cur), cur)
            /\ cur' = FirstOf(cur)
            /\ UNCHANGED pc
       ELSE /\ LoopEnds
            /\ UNCHANGED <<container, backpointers, current_index>>
    /\ UNCHANGED <<mode, size, issued, out>>

\* Mutant: the loops start from the slot that was just dropped, not from the hole.
s_remove_node_from_last(i) ==
    LET last == size - 1
        bp == Exchange(backpointers, i, last)
    IN  /\ container' = [Exchange(container, i, last) EXCEPT ![last] = NoItem]
        /\ size' = last
        /\ backpointers' = [bp EXCEPT ![last] = NoItem]
        /\ current_index' =
             IF BackpointersExist
             THEN [x \in Item |-> IF bp[last] = x THEN SIZE_MAX
                                  ELSE Reindexed(current_index, bp, i, last)[x]]
             ELSE current_index
        /\ IF i = last THEN LoopEnds
           ELSE pc' = (IF i = 0 THEN "down" ELSE "either") /\ cur' = last
        /\ out' = container[i]
        /\ UNCHANGED <<mode, issued>>

\* Mutant: after the exchange with the last element only s_sift_down is called.
s_remove_node_down_only(i) ==
    LET last == size - 1
        bp == Exchange(backpointers, i, last)
    IN  /\ container' = [Exchange(container, i, last) EXCEPT ![last] = NoItem]
        /\ size' = last
        /\ backpointers' = [bp EXCEPT ![last] = NoItem]
        /\ current_index' =
             IF BackpointersExist
             THEN [x \in Item |-> IF bp[last] = x THEN SIZE_MAX
                                  ELSE Reindexed(current_index, bp, i, last)[x]]
             ELSE current_index
        /\ IF i = last THEN LoopEnds
           ELSE pc' = "down" /\ cur' = i
        /\ out' = container[i]
        /\ UNCHANGED <<mode, issued>>

\* s_remove_node: exchange with the last element, drop it, mark its node with
\* the sentinel, then s_sift_either from the hole unless it was the last slot.
s_remove_node(i) ==
    LET last == size - 1
        bp == Exchange(backpointers, i, last)
    IN  /\ container' = [Exchange(container, i, last) EXCEPT ![last] = NoItem]
        /\ size' = last
        /\ backpointers' = [bp EXCEPT ![last] = NoItem]
        /\ current_index' =
             IF BackpointersExist
             THEN [x \in Item |-> IF bp[last] = x THEN SIZE_MAX
                                  ELSE Reindexed(current_index, bp, i, last)[x]]
             ELSE current_index
        /\ IF i = last THEN LoopEnds
           ELSE pc' = (IF i = 0 THEN "down" ELSE "either") /\ cur' = i
        /\ out' = container[i]
        /\ UNCHANGED <<mode, issued>>

aws_priority_queue_pop ==
    /\ pc = "idle"
    /\ \/ size = 0 /\ Refused("PRIORITY_QUEUE_EMPTY")
       \/ size # 0 /\ s_remove_node(0)

\* Passing a node that this queue never saw is undefined behaviour (header),
\* hence x \in issued.
aws_priority_queue_remove(x) ==
    /\ pc = "idle"
    /\ x \in issued
    /\ \/ /\ ~(current_index[x] < size /\ BackpointersExist)
          /\ Refused("PRIORITY_QUEUE_BAD_NODE")
       \/ /\ current_index[x] < size /\ BackpointersExist
          /\ s_remove_node(current_index[x])

\* The arrays are released and the struct is zeroed; the nodes of the items that
\* were still queued are not touched.
aws_priority_queue_clean_up ==
    /\ pc = "idle"
    /\ pc' = "cleaned"
    /\ container' = [i \in Index |-> NoItem]
    /\ size' = 0
    /\ backpointers' = [i \in Index |-> NoItem]
    /\ issued' = {}
    /\ out' = NoItem
    /\ UNCHANGED <<mode, current_index, cur>>

Next ==
    \/ \E x \in Item, ref \in BOOLEAN : aws_priority_queue_push_ref(x, ref)
    \/ backpointer_update
    \/ backpointer_update_failed
    \/ aws_priority_queue_pop
    \/ \E x \in Item : aws_priority_queue_remove(x)
    \/ aws_priority_queue_clean_up
    \/ s_sift_up
    \/ s_sift_down

Spec == Init /\ [][Next]_vars

----------------------------------------------------------------------------
(* Properties                                                              *)

\* The element at index i does not come before its parent.
Ordered(i) == ~After(PARENT_OF(i), i)

\* Whenever no call is running the array is a heap, whatever mixture of
\* push, pop and removal from the middle led there (s_sift_either).
HeapOrder == pc = "idle" => \A i \in Index : 0 < i /\ i < size => Ordered(i)

\* Every node this queue was given either holds the sentinel or the index of
\* its own item, after every single exchange (s_swap, s_remove_node): a handle
\* can never remove somebody else's item.
HandlesExact ==
    \A x \in issued :
        \/ current_index[x] = SIZE_MAX
        \/ /\ current_index[x] < size
           /\ container[current_index[x]] = x
           /\ backpointers[current_index[x]] = x

\* The part of the array the user's calls have filled: the item of a push that
\* may still be backed out is not in it.
Filled == IF pc \in Pushing THEN cur ELSE size

\* A queue that behaves as PriorityQueueSpec says: pop returns a least element,
\* remove the element of the handle, a call that fails changes nothing, also when
\* push_ref fails after it has appended the item.
Abstract == INSTANCE PriorityQueueSpec WITH
                elems <- {container[i] : i \in {j \in Index : j < Filled}},
                handles <- {backpointers[i] : i \in {j \in Index : j < Filled}} \ {NoItem}

ImplementsPriorityQueue == Abstract!Spec

----------------------------------------------------------------------------
(* The inductive invariant behind HeapOrder and HandlesExact.              *)

\* The array slots in use hold distinct items, the others are zeroed.
SlotsInv ==
    /\ \A i \in Index : i < size <=> container[i] # NoItem
    /\ \A i, j \in Index : i < size /\ j < size /\ container[i] = container[j] => i = j

\* A backpointer belongs to the item in the same slot and knows the slot.
BackpointerInv ==
    /\ \A i \in Index :
         backpointers[i] # NoItem =>
            /\ i < size
            /\ backpointers[i] = container[i]
            /\ backpointers[i] \in issued
            /\ current_index[backpointers[i]] = i
    /\ HandlesExact

\* The parent of index cur does not come after the children of cur.
GrandparentOrdered ==
    \A i \in Index : 0 < i /\ i < size /\ cur > 0 /\ PARENT_OF(i) = cur =>
        ~After(PARENT_OF(cur), i)

\* While a push runs its item is in the last slot; while s_sift_up runs only cur may be out of order with its parent, and in
\* s_sift_either, until something moved, with its children; while s_sift_down
\* runs only cur with its children.
SiftInv ==
    /\ HeapOrder
    /\ pc \in Pushing =>
         /\ size = cur + 1
         /\ backpointers[cur] = NoItem
         /\ \A i \in Index : 0 < i /\ i < cur => Ordered(i)
    /\ pc = "up" =>
         /\ GrandparentOrdered
         /\ \A i \in Index : 0 < i /\ i < size /\ i # cur => Ordered(i)
    /\ pc = "either" =>
         /\ GrandparentOrdered
         /\ \A i \in Index :
              0 < i /\ i < size /\ i # cur /\ PARENT_OF(i) # cur => Ordered(i)
    /\ pc = "down" =>
         /\ GrandparentOrdered
         /\ \A i \in Index : 0 < i /\ i < size /\ PARENT_OF(i) # cur => Ordered(i)

\* Everything the heap relies on between any two exchanges.
HeapInv == SlotsInv /\ BackpointerInv /\ SiftInv
=============================================================================
