--------------------------- MODULE HashTableSpec ---------------------------
(***************************************************************************)
(* What aws_hash_table promises its users: a map from keys to values,      *)
(* keys being compared by equals_fn and not by their addresses.            *)
(***************************************************************************)
CONSTANTS Key, Value,
          Same(_, _),   \* equals_fn
          NULL, NoElement

VARIABLES map,          \* the elements, at most one per class of equal keys
          out           \* the last call and what it returned

specVars == <<map, out>>

Holds(k) == \E e \in map : Same(e.key, k)

Without(k) == {e \in map : ~Same(e.key, k)}

Returns(call, k, element) == out' = [call |-> call, key |-> k, element |-> element]

\* The element of k, if there is one.
ReturnsElement(call, k) ==
    \/ Returns(call, k, NoElement) /\ ~Holds(k)
    \/ out'.call = call /\ \E e \in map : Same(e.key, k) /\ Returns(call, k, e)

Init == map = {} /\ out = [call |-> "init", key |-> NULL, element |-> NoElement]

\* An equal key is replaced together with its value.
Put(k, v) ==
    /\ Returns("put", k, NoElement)
    /\ map' = Without(k) \cup {[key |-> k, value |-> v]}

Create(k) ==
    /\ Returns("create", k, NoElement)
    /\ map' = IF Holds(k) THEN map ELSE map \cup {[key |-> k, value |-> NULL]}

\* A call that adds a key may fail, and then has no effect.
Fail(k) == Returns("failed", k, NoElement) /\ ~Holds(k) /\ UNCHANGED map

Find(k) == ReturnsElement("find", k) /\ UNCHANGED map

Remove(k) == ReturnsElement("remove", k) /\ map' = Without(k)

Clear == Returns("clear", NULL, NoElement) /\ map' = {}

Next ==
    \/ \E k \in Key, v \in Value : Put(k, v)
    \/ \E k \in Key : Create(k) \/ Fail(k) \/ Find(k) \/ Remove(k)
    \/ Clear

Spec == Init /\ [][Next]_specVars
=============================================================================
