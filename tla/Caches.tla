------------------------------- MODULE Caches -------------------------------
(***************************************************************************)
(* source/linked_hash_table.c, cache.c and the fifo, lifo and lru caches:  *)
(* a hash table from keys to nodes, the nodes threaded on a linked list in *)
(* the order of use.  The list is the pointer structure of LinkedList; the *)
(* hash table is abstracted to the function it implements (HashTable), and *)
(* its create fails only for sizes beyond this model, changing nothing.    *)
(* Equal keys are different objects with the same class, as strings are,   *)
(* so that the model tells who owns which object.                          *)
(***************************************************************************)
EXTENDS LinkedList, FiniteSets

CONSTANTS CacheKey,       \* classes of equal keys
          KeyCopy,        \* the objects of a class
          CacheValue,     \* value objects
          CacheNode,      \* memory for nodes
          MaxCapacity     \* bound on max_items

VARIABLES cacheKind, max_items,
          table,          \* the hash table: key class |-> the element's key object and node
          nodes,          \* key and value of the allocated nodes
          list,           \* the pointers of the list
          owned,          \* objects given to the cache and not destroyed
          found           \* the last call and what it returned

cacheVars == <<cacheKind, max_items, table, nodes, list, owned, found>>

KeyObject == CacheKey \X KeyCopy
NoElement == [key |-> <<>>, node |-> NULL]
NoCacheValue == "no value"
TheList == "cache"
FreeNode == CHOOSE n \in CacheNode : n \notin DOMAIN nodes
FreshValue == CHOOSE v \in CacheValue : v \notin owned
IsStored(k) == table[k] # NoElement
Stored == {k \in CacheKey : IsStored(k)}
Drop(f, x) == [y \in DOMAIN f \ {x} |-> f[y]]

aws_linked_hash_table_init ==
    /\ table = [k \in CacheKey |-> NoElement]
    /\ nodes = <<>>
    /\ list = EmptyLists(CacheNode, {TheList})
    /\ owned = {}
    /\ found = <<"new">>

aws_cache_new_fifo == cacheKind = "fifo" /\ aws_linked_hash_table_init
aws_cache_new_lifo == cacheKind = "lifo" /\ aws_linked_hash_table_init
aws_cache_new_lru == cacheKind = "lru" /\ aws_linked_hash_table_init

CacheInit == /\ max_items \in 1 .. MaxCapacity
             /\ aws_cache_new_fifo \/ aws_cache_new_lifo \/ aws_cache_new_lru

----------------------------------------------------------------------------
(* The linked hash table: operators on its state st, a record of the       *)
(* variables table, nodes, list and owned.                                 *)

Current == [table |-> table, nodes |-> nodes, list |-> list, owned |-> owned]

\* The hash table's destructor of a value: user value, list, memory.
s_element_destroy(st, n) ==
    [st EXCEPT !.owned = @ \ {st.nodes[n].value},
               !.list = aws_linked_list_remove(@, OfNode(n)),
               !.nodes = Drop(@, n)]

\* The node allocated first; the element is created or found under its old key object.
aws_linked_hash_table_put(st, n, key, value) ==
    LET k == key[1]
        element == st.table[k]
        created == [st EXCEPT !.table[k].key = IF element = NoElement THEN key ELSE element.key]
        replaced == IF element.node # NULL THEN s_element_destroy(created, element.node[1]) ELSE created
    IN  [replaced EXCEPT !.nodes = n :> [key |-> key, value |-> value] @@ @,
                         !.table[k].node = OfNode(n),
                         !.list = aws_linked_list_push_back(@, TheList, OfNode(n)),
                         !.owned = @ \cup {key, value}]

\* aws_hash_table_remove: the element's key object is destroyed, then its value.
aws_linked_hash_table_remove(st, k) ==
    IF st.table[k] = NoElement THEN st
    ELSE s_element_destroy([st EXCEPT !.table[k] = NoElement, !.owned = @ \ {st.table[k].key}],
                           st.table[k].node[1])

\* Also clean_up, after which the table is gone.
aws_linked_hash_table_clear(st) ==
    FoldLeft(LAMBDA s, k : aws_linked_hash_table_remove(s, k), st, SetToSeq(CacheKey))

aws_linked_hash_table_find(k) ==
    IF IsStored(k) THEN nodes[table[k].node[1]].value ELSE NoCacheValue

aws_linked_hash_table_get_element_count(st) ==
    Cardinality({k \in CacheKey : st.table[k] # NoElement})

aws_linked_hash_table_move_node_to_end_of_list(p, node) ==
    aws_linked_list_push_back(aws_linked_list_remove(p, node), TheList, node)

----------------------------------------------------------------------------
(* The caches: a put may evict, by the key its node remembers               *)

KeyOfNode(st, cell) == st.nodes[cell[1]].key[1]

s_fifo_cache_put(st) ==
    IF aws_linked_hash_table_get_element_count(st) > max_items
    THEN aws_linked_hash_table_remove(st, KeyOfNode(st, aws_linked_list_front(st.list, TheList)))
    ELSE st

\* Mutant: the back is evicted, which is what was just put.
lifo_cache_put_evicts_back(st) ==
    IF aws_linked_hash_table_get_element_count(st) > max_items
    THEN aws_linked_hash_table_remove(st, KeyOfNode(st, aws_linked_list_back(st.list, TheList)))
    ELSE st

\* The one before the back: the newest entry before this put.
s_lifo_cache_put(st) ==
    LET before == st.list.prev[aws_linked_list_back(st.list, TheList)]
    IN  IF aws_linked_hash_table_get_element_count(st) > max_items /\ before # NULL
        THEN aws_linked_hash_table_remove(st, KeyOfNode(st, before))
        ELSE st

s_lru_cache_put(st) ==
    IF aws_linked_hash_table_get_element_count(st) > max_items
    THEN aws_linked_hash_table_remove(st, KeyOfNode(st, aws_linked_list_front(st.list, TheList)))
    ELSE st

Becomes(st) == /\ table' = st.table /\ nodes' = st.nodes /\ list' = st.list /\ owned' = st.owned
               /\ UNCHANGED <<cacheKind, max_items>>

\* The caller hands over a new value and a key that the cache does not own, or puts with the
\* very key object that the table holds.
aws_cache_put(key) ==
    /\ key \in owned => table[key[1]].key = key
    /\ LET st == aws_linked_hash_table_put(Current, FreeNode, key, FreshValue)
       IN  Becomes(CASE cacheKind = "fifo" -> s_fifo_cache_put(st)
                     [] cacheKind = "lifo" -> s_lifo_cache_put(st)
                     [] cacheKind = "lru" -> s_lru_cache_put(st))
    /\ found' = <<"put", key[1], FreshValue>>

\* find of the lru cache is find_and_move_to_back.
s_lru_cache_find(k) ==
    IF IsStored(k) THEN aws_linked_hash_table_move_node_to_end_of_list(list, table[k].node) ELSE list

aws_cache_find(k) ==
    /\ found' = <<"find", k, aws_linked_hash_table_find(k)>>
    /\ list' = IF cacheKind = "lru" THEN s_lru_cache_find(k) ELSE list
    /\ UNCHANGED <<cacheKind, max_items, table, nodes, owned>>

aws_cache_remove(k) == /\ Becomes(aws_linked_hash_table_remove(Current, k))
                       /\ found' = <<"remove", k>>

aws_cache_clear == /\ Becomes(aws_linked_hash_table_clear(Current))
                   /\ found' = <<"clear">>

aws_lru_cache_use_lru_element ==
    /\ cacheKind = "lru"
    /\ LET lru_node == aws_linked_list_front(list, TheList)
       IN  IF aws_linked_list_empty(list, TheList) THEN found' = <<"use_lru", NoCacheValue>> /\ UNCHANGED list
           ELSE /\ list' = aws_linked_hash_table_move_node_to_end_of_list(list, lru_node)
                /\ found' = <<"use_lru", nodes[lru_node[1]].value>>
    /\ UNCHANGED <<cacheKind, max_items, table, nodes, owned>>

aws_lru_cache_get_mru_element ==
    /\ cacheKind = "lru"
    /\ found' = <<"get_mru", IF aws_linked_list_empty(list, TheList) THEN NoCacheValue
                             ELSE nodes[aws_linked_list_back(list, TheList)[1]].value>>
    /\ UNCHANGED <<cacheKind, max_items, table, nodes, list, owned>>

CacheNext ==
    \/ \E k \in CacheKey : \/ \E c \in KeyCopy : aws_cache_put(<<k, c>>)
                           \/ aws_cache_find(k) \/ aws_cache_remove(k)
    \/ aws_cache_clear \/ aws_lru_cache_use_lru_element \/ aws_lru_cache_get_mru_element

----------------------------------------------------------------------------

\* The cells from c to the tail of l by next, as an iteration visits them; the bound cuts
\* an iteration that would not end.
RECURSIVE Walk(_, _, _, _)
Walk(p, l, c, bound) ==
    IF c = TailOf(l) \/ c = NULL \/ bound = 0 THEN <<>>
    ELSE <<c>> \o Walk(p, l, p.next[c], bound - 1)

Visited(p, l, bound) == Walk(p, l, p.next[HeadOf(l)], bound)

\* Every next is answered by a prev, and the head reaches the tail.
aws_linked_list_is_valid_deep(p, l, bound) ==
    LET path == <<HeadOf(l)>> \o Visited(p, l, bound)
    IN  /\ p.prev[HeadOf(l)] = NULL /\ p.next[TailOf(l)] = NULL
        /\ p.next[Last(path)] = TailOf(l)
        /\ \A i \in DOMAIN path : p.prev[p.next[path[i]]] = path[i]

CachePath == Visited(list, TheList, Cardinality(CacheNode) + 1)
EntryAt(cell) == [key |-> KeyOfNode(Current, cell), value |-> nodes[cell[1]].value]

Abstract == INSTANCE CacheSpec WITH
    Keys <- CacheKey, Values <- CacheValue, NoValue <- NoCacheValue,
    kind <- cacheKind, capacity <- max_items, found <- found,
    entries <- LET path == CachePath IN [i \in DOMAIN path |-> EntryAt(path[i])]

\* The caches over the hash table and the pointers of the list are the bounded sequences
\* of CacheSpec: a put evicts exactly the entry its policy names, a find returns the
\* value last put under the key, and using an entry makes it the last to be evicted.
\* This is Abstract!Spec; steps of other components are told apart without evaluating it.
ImplementsCache == Abstract!Init /\ [][UNCHANGED cacheVars \/ Abstract!Next]_(Abstract!vars)

\* The table and the list hold the same nodes, every allocated node is in both, no value
\* object is destroyed while it can be found, and each one put is destroyed once, when it
\* leaves: the values owned are those of the nodes.
CacheOwnershipExact ==
    /\ aws_linked_list_is_valid_deep(list, TheList, Cardinality(CacheNode) + 1)
    /\ ToSet(CachePath) = {table[k].node : k \in Stored}
    /\ ToSet(CachePath) = {OfNode(n) : n \in DOMAIN nodes}
    /\ owned \cap CacheValue = {nodes[n].value : n \in DOMAIN nodes}
    /\ Cardinality(DOMAIN nodes) = Cardinality(owned \cap CacheValue)
    /\ {table[k].key : k \in Stored} \subseteq owned

=============================================================================
