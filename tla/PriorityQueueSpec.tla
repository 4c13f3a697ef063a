------------------------- MODULE PriorityQueueSpec -------------------------
(***************************************************************************)
(* What aws_priority_queue promises its users, with no heap in it: a set   *)
(* of items with priorities, from which pop takes an item of least         *)
(* priority and remove takes the one item a handle was issued for.         *)
(***************************************************************************)
EXTENDS Integers

CONSTANTS Item,       \* the items users push
          Prio,       \* their priorities
          NoItem,     \* "no item was handed out"
          Error       \* "the call failed"

VARIABLES elems,      \* the items in the queue
          handles,    \* the queued items that were pushed with push_ref
          out         \* what the last call returned

specVars == <<elems, handles, out>>

Init ==
    /\ elems = {}
    /\ handles = {}
    /\ out = NoItem

Push(x, ref) ==
    /\ x \notin elems
    /\ elems' = elems \cup {x}
    /\ handles' = IF ref THEN handles \cup {x} ELSE handles
    /\ out' = NoItem

Take(x) ==
    /\ x \in elems
    /\ elems' = elems \ {x}
    /\ handles' = handles \ {x}
    /\ out' = x

Pop == \E x \in elems : /\ \A y \in elems : Prio[x] <= Prio[y]
                        /\ Take(x)

Remove(x) == x \in handles /\ Take(x)

\* A call that fails changes no element of the queue.
Refuse ==
    /\ out' = Error
    /\ UNCHANGED <<elems, handles>>

CleanUp ==
    /\ elems' = {}
    /\ handles' = {}
    /\ out' = NoItem

Next == \/ \E x \in Item, ref \in BOOLEAN : Push(x, ref)
        \/ Pop
        \/ \E x \in Item : Remove(x)
        \/ Refuse
        \/ CleanUp

Spec == Init /\ [][Next]_specVars
=============================================================================
