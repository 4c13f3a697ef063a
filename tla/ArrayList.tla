----------------------------- MODULE ArrayList -----------------------------
(***************************************************************************)
(* source/array_list.c and include/aws/common/array_list.inl: two lists    *)
(* with the same item size, in memory of their own or of the caller.       *)
(* Memory is a sequence of item slots; sizes are bytes, and size_t wraps   *)
(* at SizeLimit.  A block larger than MaxItems items, or more than         *)
(* MaxMemory items in all, ends the program (AWS_PANIC_OOM): calls that    *)
(* need them are left out.                                                 *)
(***************************************************************************)
EXTENDS Integers, Sequences, SequencesExt, FiniteSetsExt

CONSTANTS ListItem, ListName,
          item_size, SizeLimit, MaxItems, MaxMemory

VARIABLES
    list,           \* per list: data, length, current_size, alloc
    items           \* history: the sequence it should hold; None where nothing was set

arrayVars == <<list, items>>

\* An item takes memory, and the block an initial list is given has a size in size_t.
ArrayConstants ==
    /\ item_size \in Nat \ {0} /\ SizeLimit \in Nat /\ 2 * item_size < SizeLimit
    /\ MaxItems \in Nat

None == 0           \* the content of a slot that was never set; items are positive

Slots(n) == [i \in 1 .. n |-> None]

\* aws_array_list_init_dynamic and aws_array_list_init_static.
NewList(n, alloc) == [data |-> Slots(n), length |-> 0, current_size |-> n * item_size, alloc |-> alloc]

ArrayInit ==
    /\ list \in [ListName -> {NewList(0, TRUE), NewList(2, FALSE)}]
    /\ LET first == CHOOSE l \in ListName : TRUE       \* the mirror image is left out
       IN  list[first].alloc \/ \A l \in ListName : ~list[l].alloc
    /\ items = [l \in ListName |-> <<>>]

\* The new list and the sequence it should be.
Becomes(l, new, seq) ==
    /\ list' = [list EXCEPT ![l] = new]
    /\ items' = [items EXCEPT ![l] = seq]

ListFails == UNCHANGED arrayVars

Put1(data, at, item) == [data EXCEPT ![at + 1] = item]

\* memmove of n items from offset `from` to offset `to`.
Memmove(data, to, from, n) ==
    [i \in DOMAIN data |-> IF i \in to + 1 .. to + n THEN data[i - to + from] ELSE data[i]]

----------------------------------------------------------------------------
(* Capacity                                                                *)

Overflows(n) == n * item_size >= SizeLimit

\* Growth that only doubles the block, however far beyond its end the index is.
ensure_capacity_doubles(l, index) ==
    LET ls == list[l]
        new_size == (2 * ls.current_size) % SizeLimit
    IN  IF Overflows(index + 1) THEN [ls EXCEPT !.length = -1]
        ELSE IF ls.current_size >= (index + 1) * item_size THEN ls
        ELSE IF ~ls.alloc \/ new_size < ls.current_size THEN [ls EXCEPT !.length = -1]
        ELSE [ls EXCEPT !.data = @ \o Slots(new_size \div item_size - Len(@)), !.current_size = new_size]

\* The list with room for index; length -1 stands for the error.
aws_array_list_ensure_capacity(l, index) ==
    LET ls == list[l]
        necessary_size == (index + 1) * item_size
        next_allocation_size == (2 * ls.current_size) % SizeLimit
        new_size == Max({next_allocation_size, necessary_size})
    IN  IF Overflows(index + 1) THEN [ls EXCEPT !.length = -1]
        ELSE IF ls.current_size >= necessary_size THEN ls
        ELSE IF ~ls.alloc \/ new_size < ls.current_size THEN [ls EXCEPT !.length = -1]
        ELSE [ls EXCEPT !.data = @ \o Slots(new_size \div item_size - Len(@)), !.current_size = new_size]

Refuses(ls) == ls.length = -1
Obtainable(l, n) == /\ n <= MaxItems
                    /\ n + MapThenSumSet(LAMBDA k : Len(list[k].data), ListName \ {l}) <= MaxMemory

aws_array_list_shrink_to_fit(l) ==
    LET ls == list[l]
    IN  IF ~ls.alloc THEN ListFails
        ELSE Becomes(l, [ls EXCEPT !.data = SubSeq(@, 1, ls.length), !.current_size = ls.length * item_size],
                     items[l])

aws_array_list_copy(from, to) ==
    LET src == SubSeq(list[from].data, 1, list[from].length)
        copy_size == Len(src) * item_size
    IN  /\ list[from].data # <<>>
        /\ IF list[to].current_size >= copy_size
           THEN Becomes(to, [list[to] EXCEPT !.data = src \o SubSeq(@, Len(src) + 1, Len(@)),
                                             !.length = Len(src)], items[from])
           ELSE IF list[to].alloc
           THEN /\ Obtainable(to, Len(src))
                /\ Becomes(to, [data |-> src, length |-> Len(src), current_size |-> copy_size, alloc |-> TRUE],
                                items[from])
           ELSE ListFails

----------------------------------------------------------------------------
(* Elements                                                                *)

SetSeq(s, index, item) ==
    [i \in 1 .. Max({Len(s), index + 1}) |->
        IF i = index + 1 THEN item ELSE IF i <= Len(s) THEN s[i] ELSE None]

aws_array_list_set_at(l, item, index) ==
    LET ls == aws_array_list_ensure_capacity(l, index)
    IN  IF Refuses(ls) THEN ListFails
        ELSE /\ Obtainable(l, Len(ls.data))
             /\ Becomes(l, [ls EXCEPT !.data = Put1(@, index, item), !.length = Max({@, index + 1})],
                        SetSeq(items[l], index, item))

aws_array_list_push_back(l, item) == aws_array_list_set_at(l, item, list[l].length)

aws_array_list_push_front(l, item) ==
    LET ls == aws_array_list_ensure_capacity(l, list[l].length)
    IN  IF Refuses(ls) THEN ListFails
        ELSE /\ Obtainable(l, Len(ls.data))
             /\ Becomes(l, [ls EXCEPT !.data = Put1(Memmove(@, 1, 0, ls.length), 0, item), !.length = @ + 1],
                        <<item>> \o items[l])

aws_array_list_clear(l) ==
    Becomes(l, IF list[l].data # <<>> THEN [list[l] EXCEPT !.length = 0] ELSE list[l], <<>>)

aws_array_list_pop_front_n(l, n) ==
    LET remaining == list[l].length - n
    IN  IF n >= list[l].length THEN aws_array_list_clear(l)
        ELSE Becomes(l, [list[l] EXCEPT !.data = Memmove(@, 0, n, remaining), !.length = remaining],
                     SubSeq(items[l], n + 1, Len(items[l])))

\* The slot is cleared.
PoppedBack(ls) == [ls EXCEPT !.data = Put1(@, ls.length - 1, None), !.length = @ - 1]

aws_array_list_pop_back(l) ==
    IF list[l].length = 0 THEN ListFails ELSE Becomes(l, PoppedBack(list[l]), Front(items[l]))

aws_array_list_erase(l, index) ==
    LET ls == list[l]
    IN  IF index >= ls.length THEN ListFails
        ELSE IF index = 0 THEN aws_array_list_pop_front_n(l, 1)
        ELSE IF index = ls.length - 1 THEN aws_array_list_pop_back(l)
        ELSE Becomes(l, PoppedBack([ls EXCEPT !.data = Memmove(@, index, index + 1, ls.length - index - 1)]),
                     RemoveAt(items[l], index + 1))

aws_array_list_swap(l, a, b) ==
    LET exchange(s) == [s EXCEPT ![a + 1] = s[b + 1], ![b + 1] = s[a + 1]]
    IN  /\ a < list[l].length /\ b < list[l].length
        /\ IF a = b THEN ListFails
           ELSE Becomes(l, [list[l] EXCEPT !.data = exchange(@)], exchange(items[l]))

\* qsort with the order of the numbers.
Sorted(s) ==
    LET perm == CHOOSE p \in Bijection(DOMAIN s, DOMAIN s) :
                    \A i, j \in DOMAIN s : i < j => s[p[i]] <= s[p[j]]
    IN  [i \in DOMAIN s |-> s[perm[i]]]

\* Of a list whose items are all set.
aws_array_list_sort(l) ==
    LET sorted == Sorted(SubSeq(list[l].data, 1, list[l].length))
    IN  /\ ~Contains(items[l], None)
        /\ Becomes(l, [list[l] EXCEPT !.data = sorted \o SubSeq(@, list[l].length + 1, Len(@))], Sorted(items[l]))

aws_array_list_swap_contents(a, b) ==
    /\ a # b /\ list[a].alloc /\ list[b].alloc
    /\ list' = [list EXCEPT ![a] = list[b], ![b] = list[a]]
    /\ items' = [items EXCEPT ![a] = items[b], ![b] = items[a]]

\* Clean-up and initialisation of the list anew.
aws_array_list_clean_up(l) == list[l].alloc /\ \E n \in 0 .. 1 : Becomes(l, NewList(n, TRUE), <<>>)

\* front, back and get_at: the item, or -1 for the error.
aws_array_list_get_at(l, index) ==
    IF list[l].length > index THEN list[l].data[index + 1] ELSE -1

ArrayNext ==
    \E l \in ListName :
        \/ aws_array_list_shrink_to_fit(l) \/ aws_array_list_clear(l) \/ aws_array_list_pop_back(l)
        \/ aws_array_list_sort(l) \/ aws_array_list_clean_up(l)
        \/ \E k \in ListName \ {l} : aws_array_list_copy(l, k) \/ aws_array_list_swap_contents(l, k)
        \/ \E item \in ListItem : \/ aws_array_list_push_back(l, item) \/ aws_array_list_push_front(l, item)
                                  \/ \E index \in 0 .. MaxItems + 1 : aws_array_list_set_at(l, item, index)
        \/ \E index \in 0 .. MaxItems : \/ aws_array_list_erase(l, index)
                                        \/ aws_array_list_pop_front_n(l, index)
                                        \/ \E other \in 0 .. index : aws_array_list_swap(l, index, other)

ArraySpec == ArrayInit /\ [][ArrayNext]_arrayVars

----------------------------------------------------------------------------

\* Both lists hold the items that were put there, in their places, whatever memory was
\* allocated, doubled, shrunk, moved or swapped; a slot the caller never set below a
\* higher index may hold anything.  The fields satisfy aws_array_list_is_valid and a
\* read returns an item or the error.
ArrayIsSequence ==
    \A l \in ListName :
        /\ list[l].current_size = Len(list[l].data) * item_size
        /\ list[l].length = Len(items[l])
        /\ list[l].length <= Len(list[l].data)
        /\ \A i \in 1 .. MaxItems + 1 :
               IF i > Len(items[l]) THEN aws_array_list_get_at(l, i - 1) = -1
               ELSE items[l][i] # None => aws_array_list_get_at(l, i - 1) = items[l][i]
=============================================================================
