----------------------------- MODULE HashTable -----------------------------
(***************************************************************************)
(* source/hash_table.c: open addressing with Robin Hood displacement,      *)
(* backward-shift deletion and an iterator that may delete.  The loops     *)
(* that only read (s_find_entry) or that move a run of entries by one slot *)
(* (s_remove_entry) are defined by where they end; the displacement loop   *)
(* of s_emplace_item is modelled one iteration at a time.                  *)
(***************************************************************************)
EXTENDS Integers, FiniteSetsExt

CONSTANTS Key, Value,     \* addresses of the caller's keys and values
          NULL,           \* the NULL address, of both
          Class,          \* equals_fn: keys with the same class are equal
          hash_fn,        \* the user's hash function
          InitSizes,      \* the sizes aws_hash_table_init is asked for, rounded up
          MaxSizes,       \* candidates for the largest table whose bytes fit in size_t
          SIZE_MAX,
          None, NoElement

ASSUME HashTableAssumption ==
    /\ NULL \in Key /\ NULL \notin Value
    /\ Key \cap Value = {}
    /\ hash_fn \in [Key -> Nat]
    /\ \A k, l \in Key : Class[k] = Class[l] => hash_fn[k] = hash_fn[l]
    /\ \A k \in Key : Class[k] = Class[NULL] => k = NULL
    /\ SIZE_MAX \in Nat /\ MaxSizes \subseteq 4 .. SIZE_MAX - 1
    /\ InitSizes \subseteq Nat \ {0, 1}
    /\ None \notin 0 .. SIZE_MAX

Same(k, l) == Class[k] = Class[l]

VARIABLES
    slots, size,          \* the state struct; mask is size - 1
    entry_count,
    max_size,             \* the largest size s_alloc_state can serve
    pc,                   \* "idle", or which part of aws_hash_table_create runs
    request,              \* its key and value
    entry, probe_idx, rval,   \* locals of s_emplace_item
    old, i,               \* s_expand_table: the old slots and how far they are copied
    iter,                 \* the iterator
    visited, expected,    \* history: keys the iterator gave out, and those it should
    owned,                \* history: objects the table has to destroy or give back
    out                   \* the last call and what it returned

tableVars == <<slots, size, entry_count, max_size>>
localVars == <<pc, request, entry, probe_idx, rval, old, i>>
iterVars == <<iter, visited, expected>>
vars == <<tableVars, localVars, iterVars, owned, out>>

\* A zeroed entry; hash code 0 marks it as empty.
Empty == [hash |-> 0, key |-> NULL, value |-> NULL]
Entries == [hash : Nat \ {0}, key : Key, value : Value \cup {NULL}]

Slot == 0 .. size - 1
Used(s) == {j \in DOMAIN s : s[j].hash # 0}

\* s_update_template_size: the load factor is 0.95 and one slot stays empty.
max_load == Min({(95 * size) \div 100, size - 1})

\* index & state->mask, on unsigned numbers: size is a power of 2.
Masked(n) == n % size

s_hash_for(key) == IF key = NULL THEN 42 ELSE IF hash_fn[key] = 0 THEN 1 ELSE hash_fn[key]

\* How far the entry at index is from its home slot.
ProbeOf(index) == Masked(index - slots[index].hash)

\* A call, its key, and the element it gave back.
Returned(call, key, element) == [call |-> call, key |-> key, element |-> element]

NoIter == [status |-> "NONE", slot |-> 0, limit |-> 0]

\* hash_table_state_is_valid and aws_hash_iter_is_valid, also in the middle of an
\* insertion: the load stays below the limit and one slot is empty, which is what
\* ends every probe loop; a usable iterator is at an entry below its limit.
TypeOK ==
    /\ max_size \in MaxSizes /\ size \in 2 .. max_size
    /\ Cardinality(Used(slots)) < size
    /\ slots \in [Slot -> Entries \cup {Empty}]
    /\ entry_count <= max_load
    /\ pc = "idle" => entry_count = Cardinality(Used(slots))
    /\ pc \in {"idle", "expand", "emplace", "cleaned"}
    /\ entry \in Entries \cup {Empty}
    /\ probe_idx \in 0 .. size
    /\ iter.status \in {"NONE", "DONE", "DELETE_CALLED", "READY_FOR_USE"}
    /\ iter.limit \in 0 .. size
    /\ iter.status = "DELETE_CALLED" => iter.slot <= iter.limit \/ iter.slot = SIZE_MAX
    /\ iter.status = "DONE" => iter.slot = iter.limit
    /\ iter.status = "READY_FOR_USE" => iter.slot < iter.limit /\ slots[iter.slot].hash # 0

\* aws_hash_table_init, with a size rounded up to a power of 2 that is at least 2.
Init ==
    /\ max_size \in MaxSizes
    /\ size \in InitSizes /\ size <= max_size
    /\ slots = [j \in Slot |-> Empty]
    /\ entry_count = 0
    /\ pc = "idle"
    /\ request = [key |-> NULL, value |-> NULL, put |-> FALSE]
    /\ entry = Empty /\ probe_idx = 0 /\ rval = None
    /\ old = <<>> /\ i = 0
    /\ iter = NoIter /\ visited = {} /\ expected = {}
    /\ owned = [o \in (Key \cup Value) \ {NULL} |-> 0]
    /\ out = Returned("init", NULL, NoElement)

Idle == pc = "idle" /\ iter.status = "NONE"

----------------------------------------------------------------------------
(* Ownership: what a caller hands over, what is destroyed or handed back.  *)

Given(own, objects) == [o \in DOMAIN own |-> IF o \in objects THEN own[o] + 1 ELSE own[o]]
Dropped(own, objects) == [o \in DOMAIN own |-> IF o \in objects THEN own[o] - 1 ELSE own[o]]

\* A caller that puts an object owns it, or it is the key of that very element.
MayGive(o) == o # NULL => owned[o] = 0

----------------------------------------------------------------------------
(* Searching                                                               *)

At(key, p) == Masked(s_hash_for(key) + p)

\* s_find_entry and s_find_entry1: the first probe index at which the key is
\* found or known to be absent.
Found(key, p) ==
    LET e == slots[At(key, p)]
    IN  e.hash = s_hash_for(key) /\ Same(e.key, key)

Stops(key, p) ==
    \/ slots[At(key, p)].hash = 0
    \/ Found(key, p)
    \/ ProbeOf(At(key, p)) < p

s_find_entry(key) == Min({p \in 0 .. size : Stops(key, p)})

Present(key) == Found(key, s_find_entry(key))

Element(e) == [key |-> e.key, value |-> e.value]

aws_hash_table_find(key) ==
    /\ Idle
    /\ out' = Returned("find", key, IF Present(key) THEN Element(slots[At(key, s_find_entry(key))])
                                   ELSE NoElement)
    /\ UNCHANGED <<tableVars, localVars, iterVars, owned>>

----------------------------------------------------------------------------
(* Adding                                                                  *)

\* Mutant: the old key is kept, and destroyed all the same.
PutPresent_keeps_key(key, value, put) ==
    /\ Idle
    /\ Present(key)
    /\ LET at == At(key, s_find_entry(key))
           e == slots[at]
       IN  IF put
           THEN /\ MayGive(value) /\ (e.key # key => MayGive(key))
                /\ slots' = [slots EXCEPT ![at].value = value]
                /\ owned' = Given(Dropped(owned, (IF e.key = key THEN {} ELSE {e.key}) \cup {e.value}),
                                  (IF e.key = key THEN {} ELSE {key}) \cup {value})
           ELSE UNCHANGED <<slots, owned>>
    /\ out' = Returned(IF put THEN "put" ELSE "create", key, NoElement)
    /\ UNCHANGED <<size, entry_count, max_size, localVars, iterVars>>

\* aws_hash_table_create and aws_hash_table_put of a key that is present.  put
\* destroys the old value and, if it is another object, the old key.
PutPresent(key, value, put) ==
    /\ Idle
    /\ Present(key)
    /\ LET at == At(key, s_find_entry(key))
           e == slots[at]
       IN  IF put
           THEN /\ MayGive(value) /\ (e.key # key => MayGive(key))
                /\ slots' = [slots EXCEPT ![at] = [hash |-> @.hash, key |-> key, value |-> value]]
                /\ owned' = Given(Dropped(owned, (IF e.key = key THEN {} ELSE {e.key}) \cup {e.value}),
                                  (IF e.key = key THEN {} ELSE {key}) \cup {value})
           ELSE UNCHANGED <<slots, owned>>
    /\ out' = Returned(IF put THEN "put" ELSE "create", key, NoElement)
    /\ UNCHANGED <<size, entry_count, max_size, localVars, iterVars>>

NewEntry == [hash |-> s_hash_for(request.key), key |-> request.key, value |-> NULL]

\* The same calls for a key that is not present, up to the call of s_emplace_item
\* or of s_expand_table; an expansion that fails leaves everything as it was.
PutAbsent(key, value, put) ==
    /\ Idle
    /\ ~Present(key)
    /\ MayGive(key) /\ (put => MayGive(value))
    /\ \/ /\ entry_count + 1 > max_load
          /\ 2 * size > max_size
          /\ out' = Returned("failed", key, NoElement)
          /\ UNCHANGED <<tableVars, localVars, owned>>
       \/ /\ entry_count + 1 > max_load
          /\ 2 * size <= max_size
          /\ size' = 2 * size
          /\ slots' = [j \in 0 .. 2 * size - 1 |-> Empty]
          /\ old' = slots /\ i' = 0
          /\ pc' = "expand"
          /\ entry' = Empty /\ probe_idx' = 0
          /\ UNCHANGED <<entry_count, max_size, rval, out>>
       \/ /\ entry_count + 1 <= max_load
          /\ entry_count' = entry_count + 1
          /\ pc' = "emplace"
          /\ entry' = [hash |-> s_hash_for(key), key |-> key, value |-> NULL]
          /\ probe_idx' = s_find_entry(key)
          /\ rval' = None
          /\ UNCHANGED <<slots, size, max_size, old, i, out>>
    /\ pc' # "idle" =>
          /\ request' = [key |-> key, value |-> value, put |-> put]
          /\ owned' = Given(owned, IF put THEN {key, value} ELSE {key})
    /\ UNCHANGED iterVars

\* s_expand_table: the next old slot, or after the last one the new entry.
s_expand_table ==
    /\ pc = "expand"
    /\ entry = Empty
    /\ probe_idx' = 0
    /\ rval' = None
    /\ IF i < size \div 2
       THEN /\ entry' = old[i]
            /\ i' = i + 1
            /\ UNCHANGED <<entry_count, pc, old>>
       ELSE /\ entry' = NewEntry
            /\ entry_count' = entry_count + 1
            /\ pc' = "emplace"
            /\ old' = <<>> /\ i' = 0
    /\ UNCHANGED <<slots, size, max_size, request, iterVars, owned, out>>

\* Mutant: the displaced entry goes on with the probe count of the one that took
\* its slot.
s_emplace_item_keeps_probe ==
    /\ entry # Empty
    /\ LET index == Masked(entry.hash + probe_idx)
           victim == slots[index]
       IN  IF victim.hash = 0 \/ ProbeOf(index) < probe_idx
           THEN /\ slots' = [slots EXCEPT ![index] = entry]
                /\ entry' = victim
                /\ rval' = IF rval = None THEN index ELSE rval
                /\ probe_idx' = IF victim.hash = 0 THEN 0 ELSE probe_idx + 1
           ELSE /\ probe_idx' = probe_idx + 1
                /\ UNCHANGED <<slots, entry, rval>>
    /\ UNCHANGED <<size, entry_count, max_size, pc, request, old, i, iterVars, owned, out>>

\* One iteration of s_emplace_item: an entry nearer to its home gives way.
s_emplace_item ==
    /\ entry # Empty
    /\ LET index == Masked(entry.hash + probe_idx)
           victim == slots[index]
       IN  IF victim.hash = 0 \/ ProbeOf(index) < probe_idx
           THEN /\ slots' = [slots EXCEPT ![index] = entry]
                /\ entry' = victim
                /\ rval' = IF rval = None THEN index ELSE rval
                /\ probe_idx' = IF victim.hash = 0 THEN 0 ELSE ProbeOf(index) + 1
           ELSE /\ probe_idx' = probe_idx + 1
                /\ UNCHANGED <<slots, entry, rval>>
    /\ UNCHANGED <<size, entry_count, max_size, pc, request, old, i, iterVars, owned, out>>

\* put writes key and value through the pointer s_emplace_item returned.
PutReturns ==
    /\ pc = "emplace"
    /\ entry = Empty
    /\ slots' = IF request.put
                THEN [slots EXCEPT ![rval].key = request.key, ![rval].value = request.value]
                ELSE slots
    /\ pc' = "idle"
    /\ rval' = None
    /\ out' = Returned(IF request.put THEN "put" ELSE "create", request.key, NoElement)
    /\ request' = [key |-> NULL, value |-> NULL, put |-> FALSE]
    /\ UNCHANGED <<size, entry_count, max_size, entry, probe_idx, old, i, iterVars, owned>>

----------------------------------------------------------------------------
(* Removing                                                                *)

\* The entry n slots further on ends the run that s_remove_entry shifts back: it is
\* empty or at home.
RunEnds(index, n) ==
    LET next == Masked(index + n)
    IN  slots[next].hash = 0 \/ Masked(slots[next].hash) = next

\* How many entries are shifted.
Shifts(index) == Min({n \in 1 .. size : RunEnds(index, n)}) - 1

\* s_remove_entry: the slots afterwards, and the last slot it touched.
s_remove_entry(index) ==
    [j \in Slot |->
        LET ahead == Masked(j - index)
        IN  IF ahead < Shifts(index) THEN slots[Masked(j + 1)]
            ELSE IF ahead = Shifts(index) THEN Empty ELSE slots[j]]

last_index(index) == Masked(index + Shifts(index))

\* aws_hash_table_remove: the element is handed to the caller, or destroyed; for
\* aws_hash_table_remove_element the caller has it already.
aws_hash_table_remove(key) ==
    /\ Idle
    /\ IF Present(key)
       THEN LET at == At(key, s_find_entry(key))
            IN  /\ out' = Returned("remove", key, Element(slots[at]))
                /\ slots' = s_remove_entry(at)
                /\ entry_count' = entry_count - 1
                /\ owned' = Dropped(owned, {slots[at].key, slots[at].value})
       ELSE /\ out' = Returned("remove", key, NoElement)
            /\ UNCHANGED <<slots, entry_count, owned>>
    /\ UNCHANGED <<size, max_size, localVars, iterVars>>

Contents(s) == {s[j].key : j \in Used(s)} \cup {s[j].value : j \in Used(s)}

\* aws_hash_table_clear, and aws_hash_table_clean_up which also frees the state.
aws_hash_table_clear(final) ==
    /\ Idle
    /\ slots' = [j \in Slot |-> Empty]
    /\ entry_count' = 0
    /\ owned' = Dropped(owned, Contents(slots))
    /\ out' = Returned("clear", NULL, NoElement)
    /\ pc' = IF final THEN "cleaned" ELSE "idle"
    /\ UNCHANGED <<size, max_size, request, entry, probe_idx, rval, old, i, iterVars>>

----------------------------------------------------------------------------
(* Iterating                                                               *)

\* s_get_next_element: the iterator moved to the first entry from start on.
s_get_next_element(limit, start) ==
    LET rest == {j \in Used(slots) : start <= j /\ j < limit}
    IN  IF rest # {} THEN [status |-> "READY_FOR_USE", slot |-> Min(rest), limit |-> limit]
        ELSE [status |-> "DONE", slot |-> limit, limit |-> limit]

\* History: the key the iterator now offers, with how often it was offered before.
Visit(it) ==
    IF it.status = "READY_FOR_USE"
    THEN {<<slots[it.slot].key, n>> : n \in {Cardinality({p \in visited : p[1] = slots[it.slot].key})}}
    ELSE {}

aws_hash_iter_begin ==
    /\ Idle
    /\ iter' = s_get_next_element(size, 0)
    /\ visited' = IF iter'.status = "READY_FOR_USE" THEN {<<slots[iter'.slot].key, 0>>} ELSE {}
    /\ expected' = {<<slots[j].key, 0>> : j \in Used(slots)}
    /\ UNCHANGED <<tableVars, localVars, owned, out>>

aws_hash_iter_next ==
    /\ iter.status # "NONE"
    /\ iter' = s_get_next_element(iter.limit, (iter.slot + 1) % (SIZE_MAX + 1))
    /\ visited' = visited \cup Visit(iter')
    /\ UNCHANGED <<tableVars, localVars, expected, owned, out>>

\* Mutant: the limit is not lowered when the shift wrapped around.
iter_delete_keeps_limit ==
    /\ iter.status = "READY_FOR_USE"
    /\ slots' = s_remove_entry(iter.slot)
    /\ entry_count' = entry_count - 1
    /\ owned' = Dropped(owned, {slots[iter.slot].key, slots[iter.slot].value})
    /\ iter' = [status |-> "DELETE_CALLED",
                slot |-> (iter.slot + SIZE_MAX) % (SIZE_MAX + 1),
                limit |-> iter.limit]
    /\ out' = Returned("remove", slots[iter.slot].key, Element(slots[iter.slot]))
    /\ UNCHANGED <<size, max_size, localVars, visited, expected>>

\* The entry is removed (destroyed, or left to the caller) and the iterator steps
\* back, from slot 0 to SIZE_MAX; if the shift brought an entry that was already
\* visited below the limit, the limit is lowered.
aws_hash_iter_delete ==
    /\ iter.status = "READY_FOR_USE"
    /\ slots' = s_remove_entry(iter.slot)
    /\ entry_count' = entry_count - 1
    /\ owned' = Dropped(owned, {slots[iter.slot].key, slots[iter.slot].value})
    /\ LET last == last_index(iter.slot)
       IN  iter' = [status |-> "DELETE_CALLED",
                    slot |-> (iter.slot + SIZE_MAX) % (SIZE_MAX + 1),
                    limit |-> IF last < iter.slot \/ last >= iter.limit THEN iter.limit - 1
                              ELSE iter.limit]
    /\ out' = Returned("remove", slots[iter.slot].key, Element(slots[iter.slot]))
    /\ UNCHANGED <<size, max_size, localVars, visited, expected>>

\* aws_hash_iter_done holds, or the caller stops early.
IterationEnds ==
    /\ iter.status # "NONE"
    /\ iter' = NoIter /\ visited' = {} /\ expected' = {}
    /\ UNCHANGED <<tableVars, localVars, owned, out>>

Next ==
    \/ \E k \in Key : aws_hash_table_find(k) \/ aws_hash_table_remove(k)
    \/ \E k \in Key, v \in Value : PutPresent(k, v, TRUE) \/ PutAbsent(k, v, TRUE)
    \/ \E k \in Key : PutPresent(k, NULL, FALSE) \/ PutAbsent(k, NULL, FALSE)
    \/ s_expand_table
    \/ s_emplace_item
    \/ PutReturns
    \/ \E final \in BOOLEAN : aws_hash_table_clear(final)
    \/ aws_hash_iter_begin
    \/ aws_hash_iter_next
    \/ aws_hash_iter_delete
    \/ IterationEnds

Spec == Init /\ [][Next]_vars

----------------------------------------------------------------------------
(* Properties                                                              *)

\* Every object a caller handed over is referenced by exactly one element until the
\* table destroys it or hands it back, and no object is destroyed twice: also when
\* put replaces a value, or a key by an equal one.  One slot is always empty, which is
\* what ends every probe (TypeOK).
OwnershipExact ==
    /\ TypeOK
    /\ pc = "idle" =>
        \A o \in DOMAIN owned :
            owned[o] = Cardinality({j \in Used(slots) : slots[j].key = o \/ slots[j].value = o})

\* An iteration that runs to its end offers every element exactly once, whatever
\* elements are deleted on the way, although deletions shift others across the end
\* of the array (aws_hash_iter_delete lowers the limit).
IterationExact == iter.status = "DONE" => visited = expected

\* The elements of the table, those in flight during an insertion included.
Elements ==
    {Element(slots[j]) : j \in Used(slots)}
    \cup (IF entry = Empty THEN {} ELSE {Element(entry)})
    \cup (IF pc = "expand" THEN {Element(old[j]) : j \in {n \in Used(old) : n >= i}} ELSE {})

\* The table is a map: lookups find exactly what was put and not removed, through
\* displacement, expansion and backward shifts; an insertion takes effect when it
\* returns.
Abstract == INSTANCE HashTableSpec WITH
                map <- IF pc \in {"expand", "emplace"}
                       THEN {e \in Elements : ~Same(e.key, request.key)} ELSE Elements

ImplementsMap == Abstract!Spec
=============================================================================
