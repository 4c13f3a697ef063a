----------------------------- MODULE LinkedList -----------------------------
(***************************************************************************)
(* include/aws/common/linked_list.inl: intrusive doubly linked lists, at   *)
(* the level of their pointers.  The operators map the pointers before a   *)
(* call to those after it; each assignment of the code is one Link, in the *)
(* order of the code.  The state machine moves nodes within and between    *)
(* two lists.                                                              *)
(***************************************************************************)
EXTENDS Naturals, Sequences, SequencesExt

CONSTANTS Node, AList         \* nodes; the names of the two lists

VARIABLES links,              \* the next and prev pointers
          order               \* history: the sequence of nodes of each list

linkVars == <<links, order>>

HeadOf(l) == <<l, "head">>
TailOf(l) == <<l, "tail">>
NULL == <<>>
OfNode(n) == <<n, "node">>

Ends(lists) == {HeadOf(l) : l \in lists} \cup {TailOf(l) : l \in lists}
Cells(nodes, lists) == {OfNode(n) : n \in nodes} \cup Ends(lists)

SetNext(p, from, to) == [p EXCEPT !.next[from] = to]
SetPrev(p, from, to) == [p EXCEPT !.prev[from] = to]

\* a->next = b; b->prev = a;
Join(p, a, b) == SetPrev(SetNext(p, a, b), b, a)

aws_linked_list_empty(p, l) == p.next[HeadOf(l)] = TailOf(l)
aws_linked_list_front(p, l) == p.next[HeadOf(l)]
aws_linked_list_back(p, l) == p.prev[TailOf(l)]

aws_linked_list_init(p, l) ==
    SetNext(SetPrev(Join(p, HeadOf(l), TailOf(l)), HeadOf(l), NULL), TailOf(l), NULL)

\* aws_linked_list_init of every list.
EmptyLists(nodes, lists) ==
    [next |-> [c \in Cells(nodes, lists) |-> IF c[2] = "head" THEN TailOf(c[1]) ELSE NULL],
     prev |-> [c \in Cells(nodes, lists) |-> IF c[2] = "tail" THEN HeadOf(c[1]) ELSE NULL]]

aws_linked_list_node_reset(p, n) == SetPrev(SetNext(p, n, NULL), n, NULL)

aws_linked_list_insert_after(p, after, to_add) ==
    LET next == p.next[after] IN Join(Join(p, to_add, next), after, to_add)

aws_linked_list_insert_before(p, before, to_add) ==
    LET prev == p.prev[before] IN Join(Join(p, to_add, before), prev, to_add)

aws_linked_list_remove(p, n) == aws_linked_list_node_reset(Join(p, p.prev[n], p.next[n]), n)

aws_linked_list_push_back(p, l, n) == aws_linked_list_insert_before(p, TailOf(l), n)
aws_linked_list_push_front(p, l, n) == aws_linked_list_insert_before(p, aws_linked_list_front(p, l), n)

\* A swap that reads b's pointers after its neighbours were changed.
swap_nodes_without_copy(p, a, b) ==
    LET p1 == SetNext(p, p.prev[a], b)
        p2 == SetPrev(p1, p1.next[a], b)
        p3 == SetNext(p2, p2.prev[b], a)
        p4 == SetPrev(p3, p3.next[b], a)
    IN  IF a = b THEN p
        ELSE [next |-> [p4.next EXCEPT ![a] = p4.next[b], ![b] = p4.next[a]],
              prev |-> [p4.prev EXCEPT ![a] = p4.prev[b], ![b] = p4.prev[a]]]

\* b's pointers are copied first, because a and b may be neighbours.
aws_linked_list_swap_nodes(p, a, b) ==
    LET p1 == SetNext(p, p.prev[a], b)
        p2 == SetPrev(p1, p1.next[a], b)
        p3 == SetNext(p2, p.prev[b], a)
        p4 == SetPrev(p3, p.next[b], a)
    IN  IF a = b THEN p
        ELSE [next |-> [p4.next EXCEPT ![a] = p4.next[b], ![b] = p4.next[a]],
              prev |-> [p4.prev EXCEPT ![a] = p4.prev[b], ![b] = p4.prev[a]]]

\* The chain from first to last becomes the contents of l.
Adopts(p, l, first, last) == Join(Join(p, HeadOf(l), first), last, TailOf(l))

aws_linked_list_swap_contents(p, a, b) ==
    LET a_first == aws_linked_list_front(p, a)
        a_last == aws_linked_list_back(p, a)
        p1 == IF aws_linked_list_empty(p, b) THEN aws_linked_list_init(p, a)
              ELSE Adopts(p, a, aws_linked_list_front(p, b), aws_linked_list_back(p, b))
    IN  IF a_first = TailOf(a) THEN aws_linked_list_init(p1, b) ELSE Adopts(p1, b, a_first, a_last)

aws_linked_list_move_all_back(p, dst, src) ==
    IF aws_linked_list_empty(p, src) THEN p
    ELSE LET p1 == Join(p, aws_linked_list_back(p, dst), aws_linked_list_front(p, src))
             p2 == Join(p1, aws_linked_list_back(p, src), TailOf(dst))
         IN  Join(p2, HeadOf(src), TailOf(src))

aws_linked_list_move_all_front(p, dst, src) ==
    IF aws_linked_list_empty(p, src) THEN p
    ELSE LET p1 == Join(p, aws_linked_list_back(p, src), aws_linked_list_front(p, dst))
             p2 == Join(p1, HeadOf(dst), aws_linked_list_front(p, src))
         IN  Join(p2, HeadOf(src), TailOf(src))

----------------------------------------------------------------------------

LinkInit == links = EmptyLists(Node, AList) /\ order = [l \in AList |-> <<>>]

Free == Node \ UNION {ToSet(order[l]) : l \in AList}

PushesBack(l, n) ==
    /\ n \in Free
    /\ links' = aws_linked_list_push_back(links, l, OfNode(n))
    /\ order' = [order EXCEPT ![l] = Append(@, n)]

PushesFront(l, n) ==
    /\ n \in Free
    /\ links' = aws_linked_list_push_front(links, l, OfNode(n))
    /\ order' = [order EXCEPT ![l] = <<n>> \o @]

InsertsAfter(l, i, n) ==
    /\ n \in Free
    /\ links' = aws_linked_list_insert_after(links, OfNode(order[l][i]), OfNode(n))
    /\ order' = [order EXCEPT ![l] = InsertAt(@, i + 1, n)]

\* aws_linked_list_remove, and with the first or last node pop_front and pop_back.
Removes(l, i) ==
    /\ links' = aws_linked_list_remove(links, OfNode(order[l][i]))
    /\ order' = [order EXCEPT ![l] = RemoveAt(@, i)]

SwapsNodes(l, i, m, k) ==
    LET a == order[l][i]
        b == order[m][k]
        exchange(s) == [j \in DOMAIN s |-> IF s[j] = a THEN b ELSE IF s[j] = b THEN a ELSE s[j]]
    IN  /\ links' = aws_linked_list_swap_nodes(links, OfNode(a), OfNode(b))
        /\ order' = [x \in AList |-> exchange(order[x])]

SwapsContents(l, m) ==
    /\ links' = aws_linked_list_swap_contents(links, l, m)
    /\ order' = [order EXCEPT ![l] = order[m], ![m] = order[l]]

MovesAllBack(l, m) ==
    /\ links' = aws_linked_list_move_all_back(links, l, m)
    /\ order' = [order EXCEPT ![l] = order[l] \o order[m], ![m] = <<>>]

MovesAllFront(l, m) ==
    /\ links' = aws_linked_list_move_all_front(links, l, m)
    /\ order' = [order EXCEPT ![l] = order[m] \o order[l], ![m] = <<>>]

LinkNext ==
    \E l \in AList :
        \/ \E n \in Node : PushesBack(l, n) \/ PushesFront(l, n)
                           \/ \E i \in DOMAIN order[l] : InsertsAfter(l, i, n)
        \/ \E i \in DOMAIN order[l] : \/ Removes(l, i)
                                      \/ \E m \in AList : \E k \in DOMAIN order[m] : SwapsNodes(l, i, m, k)
        \/ \E m \in AList \ {l} : SwapsContents(l, m) \/ MovesAllBack(l, m) \/ MovesAllFront(l, m)

LinkSpec == LinkInit /\ [][LinkNext]_linkVars

----------------------------------------------------------------------------

\* What an iteration over the nodes s of l stands on after i steps.
CellAt(l, s, i) == IF i = 0 THEN HeadOf(l) ELSE IF i > Len(s) THEN TailOf(l) ELSE OfNode(s[i])

\* From the head, next leads through the nodes s to the tail, and prev back again.
Chained(p, l, s) ==
    /\ p.prev[HeadOf(l)] = NULL /\ p.next[TailOf(l)] = NULL
    /\ \A i \in 0 .. Len(s) : /\ p.next[CellAt(l, s, i)] = CellAt(l, s, i + 1)
                              /\ p.prev[CellAt(l, s, i + 1)] = CellAt(l, s, i)

\* After any calls, following the pointers of each list visits exactly the nodes that
\* were put there, in order, forwards and backwards (aws_linked_list_is_valid_deep), and a
\* removed node points nowhere.
LinksAreSequences ==
    /\ \A l \in AList : Chained(links, l, order[l])
    /\ \A n \in Free : links.next[OfNode(n)] = NULL /\ links.prev[OfNode(n)] = NULL
=============================================================================
