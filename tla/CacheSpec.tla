----------------------------- MODULE CacheSpec -----------------------------
(***************************************************************************)
(* What a cache promises: a sequence of at most max_items pairs of a key   *)
(* and a value, from which a put that finds it full drops the oldest entry *)
(* (fifo), the newest one before the put (lifo) or the one used least      *)
(* recently (lru).                                                         *)
(***************************************************************************)
EXTENDS Naturals, Sequences, SequencesExt

CONSTANTS Keys, Values, NoValue

VARIABLES kind, capacity, entries, found     \* found: the last call and what it returned

vars == <<kind, capacity, entries, found>>

Without(k) == SelectSeq(entries, LAMBDA e : e.key # k)
At(k) == {i \in DOMAIN entries : entries[i].key = k}
ValueAt(k) == IF At(k) = {} THEN NoValue ELSE entries[CHOOSE i \in At(k) : TRUE].value

\* The entry that makes room once more than capacity entries are there.
Victim(s) == IF kind = "lifo" THEN Len(s) - 1 ELSE 1
Bounded(s) == IF Len(s) > capacity THEN RemoveAt(s, Victim(s)) ELSE s

Init == /\ kind \in {"fifo", "lifo", "lru"}
        /\ capacity \in Nat \ {0}
        /\ entries = <<>>
        /\ found = <<"new">>

Put(k, v) == /\ found' = <<"put", k, v>>
             /\ entries' = Bounded(Append(Without(k), [key |-> k, value |-> v]))

Find(k) == /\ found' = <<"find", k, ValueAt(k)>>
           /\ entries' = IF kind = "lru" /\ At(k) # {}
                         THEN Append(Without(k), [key |-> k, value |-> ValueAt(k)])
                         ELSE entries

Delete(k) == found' = <<"remove", k>> /\ entries' = Without(k)
Clear == found' = <<"clear">> /\ entries' = <<>>

UseLeastRecent == /\ kind = "lru" /\ entries # <<>>
                  /\ found' = <<"use_lru", Head(entries).value>>
                  /\ entries' = Append(Tail(entries), Head(entries))
MostRecent == /\ kind = "lru" /\ entries # <<>>
              /\ found' = <<"get_mru", Last(entries).value>>
              /\ UNCHANGED entries
NothingRecent == /\ kind = "lru" /\ entries = <<>>
                 /\ found' \in {<<"use_lru", NoValue>>, <<"get_mru", NoValue>>}
                 /\ UNCHANGED entries

Next == /\ UNCHANGED <<kind, capacity>>
        /\ \/ \E k \in Keys : (\E v \in Values : Put(k, v)) \/ Find(k) \/ Delete(k)
           \/ Clear \/ UseLeastRecent \/ MostRecent \/ NothingRecent

Spec == Init /\ [][Next]_vars
=============================================================================
