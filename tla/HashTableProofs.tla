-------------------------- MODULE HashTableProofs --------------------------
(***************************************************************************)
(* The hash table implements a map, owns its objects exactly and iterates  *)
(* over every element once, for every hash function, number of keys, size  *)
(* and limit of the table.                                                 *)
(***************************************************************************)
EXTENDS HashTable, ListLemmas

----------------------------------------------------------------------------
(* The order of the slots                                                  *)

\* x turned back into a table of n slots, once; t slots before slot j.
Turn(n, x) == IF x < n THEN x ELSE x - n
Back(n, j, t) == IF t <= j THEN j - t ELSE j - t + n

\* How far the entry in slot j of the table s is from its home.
Probe(s, n, j) == Back(n, j, s[j].hash % n)

\* The Robin Hood order: an entry that is not at home stands behind one that is at most
\* one slot nearer to its own home.
RobinHood(s, n) ==
    \A j \in 0 .. n - 1 : s[j].hash # 0 /\ Probe(s, n, j) > 0 =>
        LET p == Back(n, j, 1)
        IN  s[p].hash # 0 /\ Probe(s, n, p) >= Probe(s, n, j) - 1

\* A table of n slots, one of which is empty.
IsTable(s, n) ==
    /\ n \in Nat /\ n >= 2
    /\ s \in [0 .. n - 1 -> Entries \cup {Empty}]
    /\ \E j \in 0 .. n - 1 : s[j].hash = 0

\* An entry with hash code h may be placed, or looked for, at distance p from its home.
Arriving(s, n, h, p) ==
    p > 0 => LET q == Back(n, Turn(n, (h % n) + p), 1)
             IN  s[q].hash # 0 /\ Probe(s, n, q) >= p - 1

----------------------------------------------------------------------------
(* The inductive invariant                                                 *)

\* What is left to copy from the old slots.
Rest == IF pc = "expand" THEN {j \in Used(old) : j >= i} ELSE {}

Inserting == pc \in {"expand", "emplace"}

Type ==
    /\ max_size \in MaxSizes /\ size \in Nat /\ size >= 2 /\ size <= max_size
    /\ slots \in [Slot -> Entries \cup {Empty}]
    /\ entry_count \in Nat
    /\ pc \in {"idle", "expand", "emplace", "cleaned"}
    /\ request \in [key : Key, value : Value \cup {NULL}, put : BOOLEAN]
    /\ entry \in Entries \cup {Empty}
    /\ rval \in Slot \cup {None}
    /\ i \in Nat
    /\ pc = "expand" => old \in [0 .. (size \div 2) - 1 -> Entries \cup {Empty}]
    /\ owned \in [(Key \cup Value) \ {NULL} -> Nat]

Control ==
    /\ ~Inserting => entry = Empty
    /\ request.put => request.value \in Value
    /\ ~request.put => request.value = NULL

\* Every element is counted: the new one once its insertion has begun.
Count ==
    /\ entry_count = Cardinality(Used(slots)) + Cardinality(Rest) + (IF entry = Empty THEN 0 ELSE 1)
    /\ entry_count <= max_load
    /\ pc = "expand" => entry_count + 1 <= max_load

Order ==
    /\ RobinHood(slots, size)
    /\ probe_idx \in 0 .. size - 1
    /\ entry # Empty => Arriving(slots, size, entry.hash, probe_idx)

Hashed ==
    /\ \A j \in Used(slots) : slots[j].hash = s_hash_for(slots[j].key)
    /\ \A j \in Rest : old[j].hash = s_hash_for(old[j].key)
    /\ entry # Empty => entry.hash = s_hash_for(entry.key)

\* Two elements have different keys, and share no value.
Apart(e, f) == ~Same(e.key, f.key) /\ (e.value = f.value => e.value = NULL)

Unique ==
    /\ \A j, k \in Used(slots) : j # k => Apart(slots[j], slots[k])
    /\ \A j, k \in Rest : j # k => Apart(old[j], old[k])
    /\ \A j \in Used(slots), k \in Rest : Apart(slots[j], old[k])
    /\ entry # Empty => /\ \A j \in Used(slots) : Apart(slots[j], entry)
                        /\ \A j \in Rest : Apart(old[j], entry)

\* The element that is being inserted: until it has found its first slot it is in flight,
\* then it stays there, since the entries between that slot and the one in flight leave
\* no room to come round.
Requested ==
    /\ pc = "expand" =>
          /\ \A j \in Used(slots) : Apart(slots[j], request)
          /\ \A j \in Rest : Apart(old[j], request)
          /\ entry # Empty => Apart(entry, request)
    /\ pc = "emplace" =>
          /\ \A j \in Used(slots) : slots[j].value = request.value => request.value = NULL
          /\ entry # Empty => (entry.value = request.value => request.value = NULL)
          /\ rval = None => entry = NewEntry
          /\ rval # None => slots[rval] = NewEntry
          /\ rval # None /\ entry # Empty =>
                LET last == Back(size, Turn(size, (entry.hash % size) + probe_idx), 1)
                IN  \A j \in Slot : Back(size, j, rval) <= Back(size, last, rval) => slots[j].hash # 0

Has(e, o) == e.key = o \/ e.value = o

\* An object that was handed over and not given back is in one of the elements, or part
\* of the request.
Kept(o) ==
    \/ \E j \in Used(slots) : Has(slots[j], o)
    \/ \E j \in Rest : Has(old[j], o)
    \/ entry # Empty /\ Has(entry, o)
    \/ pc = "expand" /\ request.key = o
    \/ Inserting /\ request.value = o

Owns == \A o \in (Key \cup Value) \ {NULL} : owned[o] = IF Kept(o) THEN 1 ELSE 0

\* Where the iterator goes on, and what it has not yet offered.
Ahead == (iter.slot + 1) % (SIZE_MAX + 1)
Pending == {j \in Used(slots) : Ahead <= j /\ j < iter.limit}

Iterating ==
    /\ iter \in [status : {"NONE", "DONE", "DELETE_CALLED", "READY_FOR_USE"},
                 slot : 0 .. SIZE_MAX, limit : 0 .. size]
    /\ iter.status # "NONE" => pc = "idle"
    /\ iter.status = "DONE" => iter.slot = iter.limit
    /\ iter.status = "READY_FOR_USE" => iter.slot < iter.limit /\ slots[iter.slot].hash # 0
    /\ iter.status = "DELETE_CALLED" =>
          Ahead <= iter.limit /\ (iter.slot <= iter.limit \/ iter.slot = SIZE_MAX)
    /\ iter.status # "NONE" =>
          /\ visited \subseteq Key \X {0}
          /\ expected = visited \cup {<<slots[j].key, 0>> : j \in Pending}
          /\ \A j \in Pending : <<slots[j].key, 0>> \notin visited

\* The table and an insertion into it, and all with the iterator.
Core == Type /\ Control /\ Count /\ Order /\ Hashed /\ Unique /\ Requested /\ Owns

IInv == Core /\ Iterating

----------------------------------------------------------------------------
(* Arithmetic modulo the size                                              *)

\* Division with remainder.
LEMMA Remainder ==
  ASSUME NEW m \in Int, NEW n \in Nat, n > 0
  PROVE  m % n \in 0 .. n - 1 /\ m \div n \in Int /\ m = (m \div n) * n + (m % n)
<1>1. m % n \in 0 .. n - 1 /\ m \div n \in Int
  BY Z3
<1>2. m = (m \div n) * n + (m % n)
  BY Z3
<1> QED BY <1>1, <1>2

\* There is only one remainder.
LEMMA RemainderUnique ==
  ASSUME NEW n \in Nat, n > 0, NEW q \in Int, NEW r \in 0 .. n - 1
  PROVE  (q * n + r) % n = r
<1> DEFINE m == q * n + r
           p == m \div n
           u == m % n
<1>1. m \in Int
  OBVIOUS
<1>2. p \in Int /\ u \in 0 .. n - 1 /\ m = p * n + u
  BY <1>1, Remainder
<1> HIDE DEF p, u
<1>3. \A d \in Int : d >= 1 => d * n >= n
  BY Z3
<1>4. (p - q) * n = p * n - q * n /\ (q - p) * n = q * n - p * n
  BY <1>2, Z3
<1>5. p * n \in Int /\ q * n \in Int
  BY <1>2
<1>6. (p - q) * n = r - u /\ (q - p) * n = u - r
  BY <1>2, <1>4, <1>5
<1>7. ~(p - q >= 1) /\ ~(q - p >= 1)
  BY <1>2, <1>3, <1>6
<1>8. p = q
  BY <1>2, <1>7
<1>9. u = r
  BY <1>2, <1>5, <1>8
<1> QED BY <1>9 DEF u

\* Going p slots forward, or from slot j back by h, with the hash code reduced first.
LEMMA Steps ==
  ASSUME NEW n \in Nat, n > 0, NEW h \in Nat
  PROVE  /\ h % n \in 0 .. n - 1
         /\ \A p \in 0 .. n : (h + p) % n = Turn(n, (h % n) + p)
         /\ \A j \in 0 .. n - 1 : (j - h) % n = Back(n, j, h % n)
<1> DEFINE r == h % n
           q == h \div n
<1>1. r \in 0 .. n - 1 /\ q \in Int /\ h = q * n + r
  BY Remainder
<1> HIDE DEF r, q
<1>2. q * n \in Int /\ (q + 1) * n = q * n + n /\ (-q) * n = -(q * n) /\ (-q - 1) * n = -(q * n) - n
  BY <1>1, Z3
<1>3. ASSUME NEW p \in 0 .. n PROVE (h + p) % n = Turn(n, r + p)
  <2>1. CASE r + p < n
    <3>1. h + p = q * n + (r + p) /\ r + p \in 0 .. n - 1
      BY <1>1, <1>2, <2>1
    <3>2. (q * n + (r + p)) % n = r + p
      BY <1>1, <3>1, RemainderUnique
    <3> QED BY <2>1, <3>1, <3>2 DEF Turn
  <2>2. CASE r + p >= n
    <3>1. h + p = (q + 1) * n + (r + p - n) /\ r + p - n \in 0 .. n - 1 /\ q + 1 \in Int
      BY <1>1, <1>2, <2>2
    <3>2. ((q + 1) * n + (r + p - n)) % n = r + p - n
      BY <3>1, RemainderUnique
    <3> QED BY <1>1, <2>2, <3>1, <3>2 DEF Turn
  <2> QED BY <1>1, <2>1, <2>2
<1>4. ASSUME NEW j \in 0 .. n - 1 PROVE (j - h) % n = Back(n, j, r)
  <2>1. CASE r <= j
    <3>1. j - h = (-q) * n + (j - r) /\ j - r \in 0 .. n - 1 /\ -q \in Int
      BY <1>1, <1>2, <2>1
    <3>2. ((-q) * n + (j - r)) % n = j - r
      BY <3>1, RemainderUnique
    <3> QED BY <2>1, <3>1, <3>2 DEF Back
  <2>2. CASE r > j
    <3>1. j - h = (-q - 1) * n + (j - r + n) /\ j - r + n \in 0 .. n - 1 /\ -q - 1 \in Int
      BY <1>1, <1>2, <2>2
    <3>2. ((-q - 1) * n + (j - r + n)) % n = j - r + n
      BY <3>1, RemainderUnique
    <3> QED BY <1>1, <2>2, <3>1, <3>2 DEF Back
  <2> QED BY <1>1, <2>1, <2>2
<1> QED BY <1>1, <1>3, <1>4 DEF r

\* A number below the size is its own remainder, and below twice the size it is turned.
LEMMA SmallSteps ==
  ASSUME NEW n \in Nat, n > 0
  PROVE  /\ \A j \in 0 .. n - 1 : j % n = j
         /\ \A j \in 0 .. n - 1, p \in 0 .. n : (j + p) % n = Turn(n, j + p)
         /\ \A j, k \in 0 .. n - 1 : (j - k) % n = Back(n, j, k)
<1>1. \A j \in 0 .. n - 1 : j % n = j /\ j \in Nat
  <2> TAKE j \in 0 .. n - 1
  <2>1. (0 * n + j) % n = j
    BY RemainderUnique
  <2> QED BY <2>1
<1>2. ASSUME NEW j \in 0 .. n - 1, NEW p \in 0 .. n PROVE (j + p) % n = Turn(n, j + p)
  <2>1. (j + p) % n = Turn(n, (j % n) + p)
    BY <1>1, Steps
  <2> QED BY <1>1, <2>1
<1>3. ASSUME NEW j \in 0 .. n - 1, NEW k \in 0 .. n - 1 PROVE (j - k) % n = Back(n, j, k)
  <2>1. (j - k) % n = Back(n, j, k % n)
    BY <1>1, Steps
  <2> QED BY <1>1, <2>1
<1> QED BY <1>1, <1>2, <1>3

\* From distance d from slot a back to distance f.
LEMMA TurnBack ==
  ASSUME NEW n \in Nat, n > 0, NEW a \in 0 .. n - 1, NEW d \in 0 .. n - 1, NEW f \in 0 .. d
  PROVE  Back(n, Turn(n, a + d), d - f) = Turn(n, a + f)
BY DEF Back, Turn

----------------------------------------------------------------------------
(* The Robin Hood order                                                    *)

\* Distances in a table.
LEMMA Distances ==
  ASSUME NEW s, NEW n, IsTable(s, n)
  PROVE  /\ n \in Nat /\ n >= 2
         /\ \A j \in 0 .. n - 1 :
              /\ s[j] \in Entries \cup {Empty} /\ s[j].hash \in Nat
              /\ s[j].hash % n \in 0 .. n - 1
              /\ Probe(s, n, j) \in 0 .. n - 1
              /\ Turn(n, (s[j].hash % n) + Probe(s, n, j)) = j
              /\ Back(n, j, 1) \in 0 .. n - 1 /\ Back(n, j, 1) # j
<1>1. n \in Nat /\ n >= 2
  BY DEF IsTable
<1> SUFFICES ASSUME NEW j \in 0 .. n - 1
             PROVE  /\ s[j] \in Entries \cup {Empty} /\ s[j].hash \in Nat
                    /\ s[j].hash % n \in 0 .. n - 1
                    /\ Probe(s, n, j) \in 0 .. n - 1
                    /\ Turn(n, (s[j].hash % n) + Probe(s, n, j)) = j
                    /\ Back(n, j, 1) \in 0 .. n - 1 /\ Back(n, j, 1) # j
  BY <1>1
<1>2. s[j] \in Entries \cup {Empty}
  BY DEF IsTable
<1>3. s[j].hash \in Nat
  BY <1>2 DEF Entries, Empty
<1>4. s[j].hash % n \in 0 .. n - 1
  BY <1>1, <1>3, Steps
<1> QED BY <1>1, <1>2, <1>3, <1>4 DEF Probe, Turn, Back

\* An entry at distance d from its home stands behind d entries in order.
LEMMA Chain ==
  ASSUME NEW s, NEW n, IsTable(s, n), RobinHood(s, n),
         NEW j \in 0 .. n - 1, s[j].hash # 0, NEW t \in 0 .. Probe(s, n, j)
  PROVE  /\ Back(n, j, t) \in 0 .. n - 1
         /\ s[Back(n, j, t)].hash # 0
         /\ Probe(s, n, Back(n, j, t)) >= Probe(s, n, j) - t
<1>1. n \in Nat /\ n >= 2 /\ Probe(s, n, j) \in 0 .. n - 1
  BY Distances
<1> DEFINE d == Probe(s, n, j)
           T == {u \in 0 .. d : ~(s[Back(n, j, u)].hash # 0 /\ Probe(s, n, Back(n, j, u)) >= d - u)}
<1>2. SUFFICES T = {}
  BY <1>1 DEF Back
<1>3. SUFFICES ASSUME T # {} PROVE FALSE
  OBVIOUS
<1>4. T \in SUBSET Nat
  BY <1>1
<1>5. PICK u \in T : \A v \in T : u <= v
  <2> HIDE DEF T
  <2> QED BY <1>3, <1>4, MinIsLeast
<1>6. u \in 1 .. d
  <2>1. Back(n, j, 0) = j
    BY <1>1 DEF Back
  <2>2. 0 \notin T
    BY <1>1, <2>1
  <2>3. u \in 0 .. d /\ u # 0
    BY <1>5, <2>2
  <2> QED BY <1>1, <2>3
<1>7. u - 1 \in 0 .. d /\ u - 1 \notin T
  <2>1. u - 1 \in 0 .. d /\ ~(u <= u - 1)
    BY <1>1, <1>6
  <2> HIDE DEF T
  <2> QED BY <1>5, <2>1
<1>8. s[Back(n, j, u - 1)].hash # 0 /\ Probe(s, n, Back(n, j, u - 1)) >= d - (u - 1)
  BY <1>7
<1>9. Back(n, j, u - 1) \in 0 .. n - 1 /\ Back(n, Back(n, j, u - 1), 1) = Back(n, j, u)
  BY <1>1, <1>6 DEF Back
<1>10. Probe(s, n, Back(n, j, u - 1)) \in 0 .. n - 1 /\ Probe(s, n, Back(n, j, u - 1)) > 0
  <2>1. Probe(s, n, Back(n, j, u - 1)) \in 0 .. n - 1
    BY <1>9, Distances
  <2> HIDE DEF T
  <2> QED BY <2>1, <1>1, <1>6, <1>8
<1>11. s[Back(n, j, u)].hash # 0 /\ Probe(s, n, Back(n, j, u)) >= Probe(s, n, Back(n, j, u - 1)) - 1
  BY <1>8, <1>9, <1>10 DEF RobinHood
<1>12. Probe(s, n, Back(n, j, u)) \in 0 .. n - 1
  <2>1. Back(n, j, u) \in 0 .. n - 1
    BY <1>1, <1>6 DEF Back
  <2> QED BY <2>1, Distances
<1>13. Probe(s, n, Back(n, j, u)) >= d - u
  <2> HIDE DEF T
  <2> QED BY <1>1, <1>6, <1>8, <1>10, <1>11, <1>12
<1> QED BY <1>5, <1>11, <1>13

\* Since one slot is empty, no entry is as far from its home as it could be.
LEMMA NotFull ==
  ASSUME NEW s, NEW n, IsTable(s, n), RobinHood(s, n), NEW j \in 0 .. n - 1, s[j].hash # 0
  PROVE  Probe(s, n, j) <= n - 2
<1>1. n \in Nat /\ n >= 2 /\ Probe(s, n, j) \in 0 .. n - 1
  BY Distances
<1>2. PICK e \in 0 .. n - 1 : s[e].hash = 0
  BY DEF IsTable
<1>3. Back(n, j, e) \in 0 .. n - 1 /\ Back(n, j, Back(n, j, e)) = e
  BY <1>1 DEF Back
<1>4. Back(n, j, e) \notin 0 .. Probe(s, n, j)
  BY <1>2, <1>3, Chain
<1> QED BY <1>1, <1>3, <1>4

\* Then it has not gone round the table.
LEMMA ArrivingBound ==
  ASSUME NEW s, NEW n, IsTable(s, n), RobinHood(s, n), NEW h \in Nat, NEW p \in 0 .. n,
         Arriving(s, n, h, p)
  PROVE  p <= n - 1 /\ Turn(n, (h % n) + p) \in 0 .. n - 1
<1>1. n \in Nat /\ n >= 2 /\ h % n \in 0 .. n - 1
  BY Distances, Steps
<1>2. Turn(n, (h % n) + p) \in 0 .. n - 1
  BY <1>1 DEF Turn
<1>3. p > 0 => p <= n - 1
  <2> DEFINE q == Back(n, Turn(n, (h % n) + p), 1)
  <2>1. q \in 0 .. n - 1
    BY <1>2, Distances
  <2> QED BY <1>1, <2>1, NotFull, Distances DEF Arriving
<1> QED BY <1>1, <1>2, <1>3

\* The slot passed by was taken by an entry at least as far from its home.
LEMMA PassKeeps ==
  ASSUME NEW s, NEW n, IsTable(s, n), RobinHood(s, n), NEW h \in Nat, NEW p \in 0 .. n - 1,
         s[Turn(n, (h % n) + p)].hash # 0, Probe(s, n, Turn(n, (h % n) + p)) >= p
  PROVE  Arriving(s, n, h, p + 1) /\ p + 1 <= n - 1
<1>1. n \in Nat /\ n >= 2 /\ h % n \in 0 .. n - 1
  BY Distances, Steps
<1>2. Back(n, Turn(n, (h % n) + (p + 1)), 1) = Turn(n, (h % n) + p)
  BY <1>1 DEF Back, Turn
<1>3. Arriving(s, n, h, p + 1)
  BY <1>1, <1>2 DEF Arriving
<1>4. p + 1 \in 0 .. n
  BY <1>1
<1> QED BY <1>3, <1>4, ArrivingBound

\* The entry takes the slot of one that is nearer to its home, which moves on.
LEMMA PlaceKeeps ==
  ASSUME NEW s, NEW n, IsTable(s, n), RobinHood(s, n),
         NEW e \in Entries, NEW p \in 0 .. n - 1, Arriving(s, n, e.hash, p),
         NEW at, at = Turn(n, (e.hash % n) + p),
         s[at].hash = 0 \/ Probe(s, n, at) < p,
         NEW z, z = [s EXCEPT ![at] = e]
  PROVE  /\ RobinHood(z, n)
         /\ s[at].hash # 0 => /\ Arriving(z, n, s[at].hash, Probe(s, n, at) + 1)
                              /\ Probe(s, n, at) + 1 <= n - 1
<1>1. n \in Nat /\ n >= 2 /\ e.hash \in Nat /\ e.hash # 0 /\ e.hash % n \in 0 .. n - 1
  BY Distances, Steps DEF Entries
<1>2. at \in 0 .. n - 1 /\ Back(n, at, e.hash % n) = p
  BY <1>1 DEF Turn, Back
<1>3. z[at] = e /\ \A j \in 0 .. n - 1 : j # at => z[j] = s[j]
  BY <1>2 DEF IsTable
<1>4. Probe(z, n, at) = p /\ \A j \in 0 .. n - 1 : j # at => Probe(z, n, j) = Probe(s, n, j)
  BY <1>2, <1>3 DEF Probe
<1>5. \A j \in 0 .. n - 1 : /\ Probe(s, n, j) \in 0 .. n - 1
                            /\ Back(n, j, 1) \in 0 .. n - 1 /\ Back(n, j, 1) # j
  BY Distances
<1>6. ASSUME NEW j \in 0 .. n - 1, z[j].hash # 0, Probe(z, n, j) > 0
      PROVE  z[Back(n, j, 1)].hash # 0 /\ Probe(z, n, Back(n, j, 1)) >= Probe(z, n, j) - 1
  <2>1. CASE j = at
    <3>1. p > 0 /\ s[Back(n, at, 1)].hash # 0 /\ Probe(s, n, Back(n, at, 1)) >= p - 1
      BY <1>4, <1>6, <2>1 DEF Arriving
    <3> QED BY <1>2, <1>3, <1>4, <1>5, <2>1, <3>1
  <2>2. CASE j # at
    <3>1. s[j].hash # 0 /\ Probe(s, n, j) > 0 /\ Probe(z, n, j) = Probe(s, n, j)
      BY <1>3, <1>4, <1>6, <2>2
    <3>2. s[Back(n, j, 1)].hash # 0 /\ Probe(s, n, Back(n, j, 1)) >= Probe(s, n, j) - 1
      BY <3>1 DEF RobinHood
    <3>3. CASE Back(n, j, 1) = at
      BY <1>1, <1>2, <1>3, <1>4, <1>5, <3>1, <3>2, <3>3
    <3>4. CASE Back(n, j, 1) # at
      BY <1>3, <1>4, <1>5, <3>1, <3>2, <3>4
    <3> QED BY <3>3, <3>4
  <2> QED BY <2>1, <2>2
<1>7. RobinHood(z, n)
  BY <1>6 DEF RobinHood
<1>8. ASSUME s[at].hash # 0
      PROVE  Arriving(z, n, s[at].hash, Probe(s, n, at) + 1) /\ Probe(s, n, at) + 1 <= n - 1
  <2>1. Probe(s, n, at) \in 0 .. n - 2 /\ Turn(n, (s[at].hash % n) + Probe(s, n, at)) = at
        /\ s[at].hash % n \in 0 .. n - 1
    BY <1>1, <1>2, <1>8, NotFull, Distances, SMTT(30)
  <2>2. Back(n, Turn(n, (s[at].hash % n) + (Probe(s, n, at) + 1)), 1) = at
    BY <1>1, <2>1 DEF Turn, Back
  <2>3. Probe(z, n, at) >= (Probe(s, n, at) + 1) - 1
    BY <1>1, <1>4, <1>8, <2>1
  <2> QED BY <1>1, <1>3, <2>1, <2>2, <2>3 DEF Arriving
<1> QED BY <1>7, <1>8

\* The table s after the c entries behind slot at were shifted back by one, and from
\* where an entry of it came.
Shifted(s, n, at, c) ==
    [j \in 0 .. n - 1 |->
        IF Back(n, j, at) < c THEN s[Turn(n, j + 1)] ELSE IF Back(n, j, at) = c THEN Empty ELSE s[j]]

From(n, at, c, j) == IF Back(n, j, at) < c THEN Turn(n, j + 1) ELSE j

\* The entries behind at that are shifted are used and not at home, and the next is not one
\* of them.
Run(s, n, at, c) ==
    /\ \A t \in 1 .. c : s[Turn(n, at + t)].hash # 0 /\ Probe(s, n, Turn(n, at + t)) > 0
    /\ s[Turn(n, at + (c + 1))].hash = 0 \/ Probe(s, n, Turn(n, at + (c + 1))) = 0

\* Where the entries of the shifted table z came from: every one but the removed, once.
Removed(s, n, at, c, z) ==
    /\ z \in [0 .. n - 1 -> Entries \cup {Empty}]
    /\ \A j \in 0 .. n - 1 : z[j].hash # 0 <=> s[j].hash # 0 /\ j # Turn(n, at + c)
    /\ s[Turn(n, at + c)].hash # 0 /\ Turn(n, at + c) \in 0 .. n - 1
    /\ \A j \in 0 .. n - 1 : z[j].hash # 0 =>
          /\ From(n, at, c, j) \in 0 .. n - 1 /\ From(n, at, c, j) # at
          /\ z[j] = s[From(n, at, c, j)]
    /\ \A j, k \in 0 .. n - 1 : z[j].hash # 0 /\ z[k].hash # 0
          /\ From(n, at, c, j) = From(n, at, c, k) => j = k
    /\ \A k \in 0 .. n - 1 : k # at /\ s[k].hash # 0 =>
          \E j \in 0 .. n - 1 : z[j].hash # 0 /\ From(n, at, c, j) = k

\* The shift removes one entry.
LEMMA ShiftedFrom ==
  ASSUME NEW s, NEW n, IsTable(s, n), NEW at \in 0 .. n - 1, s[at].hash # 0,
         NEW c \in 0 .. n - 2, Run(s, n, at, c), NEW z, z = Shifted(s, n, at, c)
  PROVE  Removed(s, n, at, c, z)
<1>1. n \in Nat /\ n >= 2 /\ Empty.hash = 0
  BY Distances DEF Empty
<1>2. \A j \in 0 .. n - 1 : s[j] \in Entries \cup {Empty} /\ Turn(n, j + 1) \in 0 .. n - 1
  BY <1>1, Distances DEF Turn
<1>3. \A j \in 0 .. n - 1 :
        z[j] = IF Back(n, j, at) < c THEN s[Turn(n, j + 1)] ELSE IF Back(n, j, at) = c THEN Empty ELSE s[j]
  BY DEF Shifted
<1>4. z \in [0 .. n - 1 -> Entries \cup {Empty}]
  BY <1>2 DEF Shifted
<1>5. \A j \in 0 .. n - 1 : Back(n, j, at) \in 0 .. n - 1 /\ Turn(n, at + Back(n, j, at)) = j
  BY <1>1 DEF Back, Turn
<1>6. \A j \in 0 .. n - 1 : Back(n, j, at) = c <=> j = Turn(n, at + c)
  BY <1>1 DEF Back, Turn
<1>7. \A j \in 0 .. n - 1 : Back(n, j, at) <= c => s[j].hash # 0
  <2> SUFFICES ASSUME NEW j \in 0 .. n - 1, Back(n, j, at) <= c PROVE s[j].hash # 0
    OBVIOUS
  <2>1. CASE Back(n, j, at) = 0
    <3>1. j = at
      BY <1>1, <2>1 DEF Back
    <3> QED BY <3>1
  <2>2. CASE Back(n, j, at) # 0
    <3>1. Back(n, j, at) \in 1 .. c
      BY <1>1, <1>5, <2>2
    <3> QED BY <1>5, <3>1 DEF Run
  <2> QED BY <2>1, <2>2
<1>8. \A j \in 0 .. n - 1 : Back(n, j, at) < c => Back(n, Turn(n, j + 1), at) = Back(n, j, at) + 1
  BY <1>1 DEF Back, Turn
<1>9. \A j \in 0 .. n - 1 : z[j].hash # 0 <=> s[j].hash # 0 /\ j # Turn(n, at + c)
  <2> SUFFICES ASSUME NEW j \in 0 .. n - 1
               PROVE  z[j].hash # 0 <=> s[j].hash # 0 /\ j # Turn(n, at + c)
    OBVIOUS
  <2>1. CASE Back(n, j, at) < c
    <3>1. Back(n, Turn(n, j + 1), at) <= c /\ Back(n, j, at) <= c /\ Back(n, j, at) # c
      BY <1>1, <1>5, <1>8, <2>1
    <3> QED BY <1>2, <1>3, <1>6, <1>7, <2>1, <3>1
  <2>2. CASE Back(n, j, at) = c
    BY <1>1, <1>3, <1>6, <2>2
  <2>3. CASE Back(n, j, at) > c
    BY <1>1, <1>3, <1>5, <1>6, <2>3
  <2> QED BY <1>1, <1>5, <2>1, <2>2, <2>3
<1>10. s[Turn(n, at + c)].hash # 0 /\ Turn(n, at + c) \in 0 .. n - 1
  <2>1. Turn(n, at + c) \in 0 .. n - 1
    BY <1>1 DEF Turn
  <2>2. Back(n, Turn(n, at + c), at) <= c
    BY <1>1, <1>6, <2>1
  <2> QED BY <1>7, <2>1, <2>2
<1>11. \A j \in 0 .. n - 1 : z[j].hash # 0 =>
               /\ From(n, at, c, j) \in 0 .. n - 1 /\ From(n, at, c, j) # at
               /\ z[j] = s[From(n, at, c, j)]
  <2> SUFFICES ASSUME NEW j \in 0 .. n - 1, z[j].hash # 0
               PROVE  /\ From(n, at, c, j) \in 0 .. n - 1 /\ From(n, at, c, j) # at
                      /\ z[j] = s[From(n, at, c, j)]
    OBVIOUS
  <2>1. CASE Back(n, j, at) < c
    <3>1. Back(n, at, at) = 0 /\ Back(n, Turn(n, j + 1), at) # 0
      BY <1>1, <1>5, <1>8, <2>1 DEF Back
    <3> QED BY <1>2, <1>3, <2>1, <3>1 DEF From
  <2>2. CASE ~(Back(n, j, at) < c)
    <3>1. Back(n, j, at) # c
      BY <1>6, <1>9
    <3>2. Back(n, at, at) = 0 /\ Back(n, j, at) # 0
      BY <1>1, <1>5, <2>2, <3>1 DEF Back
    <3> QED BY <1>3, <2>2, <3>1, <3>2 DEF From
  <2> QED BY <2>1, <2>2
<1>12. \A j, k \in 0 .. n - 1 : z[j].hash # 0 /\ z[k].hash # 0
               /\ From(n, at, c, j) = From(n, at, c, k) => j = k
  <2> SUFFICES ASSUME NEW j \in 0 .. n - 1, NEW k \in 0 .. n - 1, z[j].hash # 0, z[k].hash # 0,
                      From(n, at, c, j) = From(n, at, c, k)
               PROVE  j = k
    OBVIOUS
  <2>1. Back(n, j, at) # c /\ Back(n, k, at) # c
    BY <1>6, <1>9
  <2> QED BY <1>1, <2>1 DEF From, Back, Turn
<1>13. ASSUME NEW k \in 0 .. n - 1, k # at, s[k].hash # 0
       PROVE  \E j \in 0 .. n - 1 : z[j].hash # 0 /\ From(n, at, c, j) = k
  <2>1. CASE Back(n, k, at) <= c
    <3> DEFINE j == Back(n, k, 1)
    <3>1. j \in 0 .. n - 1 /\ Back(n, j, at) < c /\ Turn(n, j + 1) = k
      BY <1>1, <1>13, <2>1 DEF Back, Turn
    <3> HIDE DEF j
    <3>2. z[j] = s[k]
      BY <1>3, <3>1
    <3> QED BY <1>13, <3>1, <3>2 DEF From
  <2>2. CASE Back(n, k, at) > c
    <3>1. ~(Back(n, k, at) < c) /\ Back(n, k, at) # c
      BY <1>1, <1>5, <2>2
    <3>2. z[k] = s[k]
      BY <1>3, <3>1
    <3> QED BY <1>13, <3>1, <3>2 DEF From
  <2> QED BY <1>1, <1>5, <2>1, <2>2
<1> QED BY <1>4, <1>9, <1>10, <1>11, <1>12, <1>13 DEF Removed

\* The shift keeps the order.
LEMMA ShiftKeeps ==
  ASSUME NEW s, NEW n, IsTable(s, n), RobinHood(s, n), NEW at \in 0 .. n - 1, s[at].hash # 0,
         NEW c \in 0 .. n - 2, Run(s, n, at, c), NEW z, z = Shifted(s, n, at, c)
  PROVE  RobinHood(z, n)
<1>1. n \in Nat /\ n >= 2 /\ Empty.hash = 0
  BY Distances DEF Empty
<1>2. \A j \in 0 .. n - 1 : /\ Probe(s, n, j) \in 0 .. n - 1 /\ s[j].hash % n \in 0 .. n - 1
                            /\ Back(n, j, 1) \in 0 .. n - 1 /\ Turn(n, j + 1) \in 0 .. n - 1
                            /\ Back(n, j, at) \in 0 .. n - 1
                            /\ Turn(n, Back(n, j, 1) + 1) = j
  BY <1>1, Distances DEF Turn, Back
<1>3. \A j \in 0 .. n - 1 :
        z[j] = IF Back(n, j, at) < c THEN s[Turn(n, j + 1)] ELSE IF Back(n, j, at) = c THEN Empty ELSE s[j]
  BY DEF Shifted
<1>4. \A j \in 0 .. n - 1 : z[j].hash # 0 <=> s[j].hash # 0 /\ j # Turn(n, at + c)
  BY ShiftedFrom DEF Removed
<1>5. \A j \in 0 .. n - 1 : /\ Back(n, j, at) = c <=> j = Turn(n, at + c)
                            /\ Turn(n, at + Back(n, j, at)) = j
  BY <1>1 DEF Back, Turn
\* A shifted entry is one slot nearer to its home.
<1>6. \A j \in 0 .. n - 1 : Back(n, j, at) < c =>
         /\ s[Turn(n, j + 1)].hash # 0 /\ Probe(s, n, Turn(n, j + 1)) > 0
         /\ Probe(z, n, j) = Probe(s, n, Turn(n, j + 1)) - 1
  <2> SUFFICES ASSUME NEW j \in 0 .. n - 1, Back(n, j, at) < c
               PROVE  /\ s[Turn(n, j + 1)].hash # 0 /\ Probe(s, n, Turn(n, j + 1)) > 0
                      /\ Probe(z, n, j) = Probe(s, n, Turn(n, j + 1)) - 1
    OBVIOUS
  <2>1. Back(n, j, at) + 1 \in 1 .. c /\ Turn(n, at + (Back(n, j, at) + 1)) = Turn(n, j + 1)
    BY <1>1 DEF Back, Turn
  <2>2. s[Turn(n, j + 1)].hash # 0 /\ Probe(s, n, Turn(n, j + 1)) > 0
    BY <2>1 DEF Run
  <2> DEFINE h == s[Turn(n, j + 1)].hash % n
  <2>3. h \in 0 .. n - 1 /\ Back(n, Turn(n, j + 1), h) > 0
    BY <1>2, <2>2 DEF Probe
  <2>4. Probe(z, n, j) = Back(n, j, h) /\ Probe(s, n, Turn(n, j + 1)) = Back(n, Turn(n, j + 1), h)
    BY <1>3 DEF Probe
  <2> HIDE DEF h
  <2>5. Back(n, j, h) = Back(n, Turn(n, j + 1), h) - 1
    BY <1>1, <2>3 DEF Back, Turn
  <2> QED BY <2>2, <2>4, <2>5
<1>7. \A j \in 0 .. n - 1 : ~(Back(n, j, at) < c) /\ Back(n, j, at) # c => Probe(z, n, j) = Probe(s, n, j)
  BY <1>3 DEF Probe
<1>8. SUFFICES ASSUME NEW j \in 0 .. n - 1, z[j].hash # 0, Probe(z, n, j) > 0
               PROVE  z[Back(n, j, 1)].hash # 0 /\ Probe(z, n, Back(n, j, 1)) >= Probe(z, n, j) - 1
  BY DEF RobinHood
<1> DEFINE b == Back(n, j, 1)
<1>9. b \in 0 .. n - 1 /\ Turn(n, b + 1) = j
  BY <1>2
<1>10. Back(n, j, at) # c
  BY <1>4, <1>5, <1>8
<1>11. \A k \in 0 .. n - 1 : s[k].hash # 0 /\ Probe(s, n, k) > 0 =>
          s[Back(n, k, 1)].hash # 0 /\ Probe(s, n, Back(n, k, 1)) >= Probe(s, n, k) - 1
  BY DEF RobinHood
<1>12. CASE Back(n, j, at) < c
  <2> DEFINE k == Turn(n, j + 1)
  <2>1. k \in 0 .. n - 1 /\ Back(n, k, 1) = j
    BY <1>1 DEF Turn, Back
  <2>2. s[k].hash # 0 /\ Probe(s, n, k) > 0 /\ Probe(z, n, j) = Probe(s, n, k) - 1
    BY <1>6, <1>12
  <2>3. s[j].hash # 0 /\ Probe(s, n, j) >= Probe(s, n, k) - 1
    BY <1>11, <2>1, <2>2
  <2> HIDE DEF k
  <2>4. Probe(s, n, j) > 0
    BY <1>2, <1>8, <2>1, <2>2, <2>3
  <2>5. s[b].hash # 0 /\ Probe(s, n, b) >= Probe(s, n, j) - 1
    BY <1>11, <2>3, <2>4
  <2>6. CASE j = at
    <3>1. Back(n, b, at) = n - 1
      BY <1>1, <2>6 DEF Back
    <3>2. ~(Back(n, b, at) < c) /\ Back(n, b, at) # c
      BY <1>1, <3>1
    <3>3. Probe(z, n, b) = Probe(s, n, b) /\ z[b].hash # 0
      BY <1>4, <1>5, <1>7, <1>9, <2>5, <3>2
    <3> QED BY <1>2, <1>9, <2>1, <2>2, <2>3, <2>5, <3>3
  <2>7. CASE j # at
    <3>1. Back(n, b, at) < c
      BY <1>1, <1>12, <2>7 DEF Back
    <3>2. Probe(z, n, b) = Probe(s, n, j) - 1
      BY <1>6, <1>9, <3>1
    <3>3. z[b].hash # 0
      BY <1>3, <1>9, <2>3, <3>1
    <3> QED BY <1>2, <1>9, <2>1, <2>2, <2>3, <3>2, <3>3
  <2> QED BY <2>6, <2>7
<1>13. CASE Back(n, j, at) > c
  <2>1. Probe(z, n, j) = Probe(s, n, j) /\ s[j].hash # 0
    <3>1. ~(Back(n, j, at) < c)
      BY <1>1, <1>2, <1>13
    <3> QED BY <1>3, <1>7, <1>8, <1>10, <3>1
  <2>2. s[b].hash # 0 /\ Probe(s, n, b) >= Probe(s, n, j) - 1
    BY <1>8, <1>11, <2>1
  <2>3. Back(n, b, at) = Back(n, j, at) - 1
    BY <1>1, <1>13 DEF Back
  <2>4. Back(n, b, at) # c
    <3>1. SUFFICES ASSUME Back(n, b, at) = c PROVE FALSE
      OBVIOUS
    <3>2. j = Turn(n, at + (c + 1))
      BY <1>1, <2>3, <3>1 DEF Back, Turn
    <3>3. s[j].hash # 0 /\ Probe(s, n, j) # 0
      BY <1>2, <1>8, <2>1
    <3> QED BY <3>2, <3>3 DEF Run
  <2>5. ~(Back(n, b, at) < c)
    BY <1>1, <1>2, <1>13, <2>3
  <2>6. Probe(z, n, b) = Probe(s, n, b) /\ z[b].hash # 0
    BY <1>4, <1>5, <1>7, <1>9, <2>2, <2>4, <2>5
  <2> QED BY <2>1, <2>2, <2>6
<1> QED BY <1>1, <1>2, <1>10, <1>12, <1>13

----------------------------------------------------------------------------
(* The table in a state                                                    *)

\* Entries and the empty slot.
LEMMA EntryFacts ==
  /\ Empty.hash = 0 /\ Empty \notin Entries
  /\ \A e \in Entries \cup {Empty} : e.hash \in Nat /\ (e = Empty <=> e.hash = 0)
  /\ \A e \in Entries : e.hash \in Nat \ {0} /\ e.key \in Key /\ e.value \in Value \cup {NULL}
BY DEF Empty, Entries

\* Equal keys have equal hash codes, and none is 0.
LEMMA HashFacts ==
  /\ \A k \in Key : s_hash_for(k) \in Nat \ {0}
  /\ \A k, l \in Key : Same(k, l) => s_hash_for(k) = s_hash_for(l)
  /\ \A k, l : Same(k, l) <=> Same(l, k)
  /\ \A k : Same(k, k)
  /\ \A k, l, m : Same(k, l) /\ Same(l, m) => Same(k, m)
<1>1. \A k \in Key : hash_fn[k] \in Nat
  BY HashTableAssumption
<1>2. \A k \in Key : s_hash_for(k) \in Nat \ {0}
  BY <1>1 DEF s_hash_for
<1>3. \A k, l \in Key : Same(k, l) => s_hash_for(k) = s_hash_for(l)
  BY HashTableAssumption DEF s_hash_for, Same
<1>4. /\ \A k, l : Same(k, l) <=> Same(l, k)
      /\ \A k : Same(k, k)
      /\ \A k, l, m : Same(k, l) /\ Same(l, m) => Same(k, m)
  BY DEF Same
<1> QED BY <1>2, <1>3, <1>4

\* Sizes, and the load limit of a table of size n.
LEMMA Loads ==
  ASSUME NEW n \in Nat, n >= 2
  PROVE  LET limit == Min({(95 * n) \div 100, n - 1})
         IN  limit \in Nat /\ limit <= n - 1 /\ (n <= (95 * (2 * n)) \div 100)
<1> DEFINE T == {(95 * n) \div 100, n - 1}
<1>1. (95 * n) \div 100 \in Nat /\ n - 1 \in Nat /\ n <= (95 * (2 * n)) \div 100
  OBVIOUS
<1>2. T \in SUBSET Nat /\ T # {} /\ n - 1 \in T
  BY <1>1
<1>3. Min(T) \in T /\ Min(T) <= n - 1
  <2> HIDE DEF T
  <2> QED BY <1>2, MinIsLeast
<1>4. Min(T) \in Nat
  BY <1>2, <1>3
<1> QED BY <1>1, <1>3, <1>4

\* The types, as the other lemmas use them.
LEMMA Sizes ==
  ASSUME Type
  PROVE  /\ size \in Nat /\ size >= 2 /\ Slot = 0 .. size - 1 /\ DOMAIN slots = 0 .. size - 1
         /\ max_load \in Nat /\ max_load <= size - 1
         /\ SIZE_MAX \in Nat /\ size < SIZE_MAX /\ max_size \in Nat /\ None \notin Slot
         /\ Used(slots) = {j \in 0 .. size - 1 : slots[j].hash # 0}
         /\ \A j \in 0 .. size - 1 : slots[j] \in Entries \cup {Empty}
         /\ \A j \in Used(slots) : j \in 0 .. size - 1 /\ slots[j] \in Entries
         /\ \A j \in Rest : old[j] \in Entries /\ j \in Nat
<1>1. size \in Nat /\ size >= 2 /\ Slot = 0 .. size - 1 /\ DOMAIN slots = 0 .. size - 1
  BY DEF Type, Slot
<1>2. max_load \in Nat /\ max_load <= size - 1
  BY <1>1, Loads DEF max_load
<1>3. SIZE_MAX \in Nat /\ max_size \in Nat /\ size < SIZE_MAX /\ None \notin 0 .. SIZE_MAX
  BY <1>1, HashTableAssumption DEF Type
<1>4. None \notin Slot
  <2>1. \A j \in 0 .. size - 1 : j \in 0 .. SIZE_MAX
    BY <1>1, <1>3
  <2> QED BY <1>1, <1>3, <2>1
<1>5. Used(slots) = {j \in 0 .. size - 1 : slots[j].hash # 0}
  BY <1>1 DEF Used
<1>6. \A j \in 0 .. size - 1 : slots[j] \in Entries \cup {Empty}
  BY DEF Type, Slot
<1>7. \A j \in Used(slots) : j \in 0 .. size - 1 /\ slots[j] \in Entries
  BY <1>5, <1>6, EntryFacts
<1>8. \A j \in Rest : old[j] \in Entries /\ j \in Nat
  <2> SUFFICES ASSUME NEW j \in Rest PROVE old[j] \in Entries /\ j \in Nat
    OBVIOUS
  <2>1. pc = "expand" /\ j \in Used(old)
    BY DEF Rest
  <2>2. old \in [0 .. (size \div 2) - 1 -> Entries \cup {Empty}]
    BY <2>1 DEF Type
  <2>3. j \in 0 .. (size \div 2) - 1 /\ old[j] \in Entries \cup {Empty} /\ old[j].hash # 0
    BY <2>1, <2>2 DEF Used
  <2> QED BY <1>1, <2>3, EntryFacts
<1> QED BY <1>1, <1>2, <1>3, <1>4, <1>5, <1>6, <1>7, <1>8

\* The sets that are counted are finite.
LEMMA Finite ==
  ASSUME Type
  PROVE  /\ IsFiniteSet(Used(slots)) /\ Cardinality(Used(slots)) \in Nat
         /\ IsFiniteSet(Rest) /\ Cardinality(Rest) \in Nat
<1>1. size \in Nat /\ Used(slots) \in SUBSET (0 .. size - 1)
  BY Sizes
<1>2. IsFiniteSet(Used(slots))
  <2>1. IsFiniteSet(0 .. size - 1)
    BY <1>1, FS_Interval
  <2> QED BY <1>1, <2>1, FS_Subset
<1>3. IsFiniteSet(Rest)
  <2>1. CASE pc = "expand"
    <3>1. Rest \in SUBSET (0 .. (size \div 2) - 1) /\ (size \div 2) - 1 \in Int
      BY <1>1, <2>1 DEF Rest, Used, Type
    <3>2. IsFiniteSet(0 .. (size \div 2) - 1)
      BY <3>1, FS_Interval
    <3> QED BY <3>1, <3>2, FS_Subset
  <2>2. CASE pc # "expand"
    BY <2>2, FS_EmptySet DEF Rest
  <2> QED BY <2>1, <2>2
<1> QED BY <1>2, <1>3, FS_CardinalityType

\* One slot is empty.
LEMMA TableFacts ==
  ASSUME Type, Count
  PROVE  IsTable(slots, size) /\ Cardinality(Used(slots)) <= size - 1
<1>1. size \in Nat /\ size >= 2 /\ slots \in [0 .. size - 1 -> Entries \cup {Empty}]
  BY Sizes DEF Type, Slot
<1>2. Cardinality(Used(slots)) <= size - 1
  <2>1. Cardinality(Used(slots)) \in Nat /\ Cardinality(Rest) \in Nat /\ entry_count \in Nat
        /\ max_load \in Nat /\ max_load <= size - 1
    BY Finite, Sizes DEF Type
  <2> QED BY <1>1, <2>1 DEF Count
<1>3. \E j \in 0 .. size - 1 : slots[j].hash = 0
  <2>1. SUFFICES ASSUME \A j \in 0 .. size - 1 : slots[j].hash # 0 PROVE FALSE
    OBVIOUS
  <2>2. Used(slots) = 0 .. size - 1
    BY <2>1, Sizes
  <2>3. Cardinality(0 .. size - 1) = size
    <3>1. 0 \in Int /\ size - 1 \in Int /\ ~(0 > size - 1)
      BY <1>1
    <3>2. Cardinality(0 .. size - 1) = (size - 1) - 0 + 1
      BY <3>1, FS_Interval
    <3> QED BY <1>1, <3>2
  <2> QED BY <1>1, <1>2, <2>2, <2>3
<1> QED BY <1>1, <1>2, <1>3 DEF IsTable

\* The model's own names for slots and distances.
LEMMA Names ==
  ASSUME Type
  PROVE  /\ \A h \in Nat, p \in 0 .. size : Masked(h + p) = Turn(size, (h % size) + p)
         /\ \A j \in 0 .. size - 1 : ProbeOf(j) = Probe(slots, size, j)
         /\ \A k \in Key, p \in 0 .. size : At(k, p) = Turn(size, (s_hash_for(k) % size) + p)
<1>1. size \in Nat /\ size > 0
  BY Sizes
<1>2. \A h \in Nat, p \in 0 .. size : Masked(h + p) = Turn(size, (h % size) + p)
  BY <1>1, Steps DEF Masked
<1>3. ASSUME NEW j \in 0 .. size - 1 PROVE ProbeOf(j) = Probe(slots, size, j)
  <2>1. slots[j].hash \in Nat
    BY Sizes, EntryFacts
  <2>2. (j - slots[j].hash) % size = Back(size, j, slots[j].hash % size)
    BY <1>1, <2>1, Steps
  <2> QED BY <2>2 DEF ProbeOf, Probe, Masked
<1>4. \A k \in Key, p \in 0 .. size : At(k, p) = Turn(size, (s_hash_for(k) % size) + p)
  BY <1>2, HashFacts DEF At
<1> QED BY <1>2, <1>3, <1>4

\* s_find_entry finds a key if and only if it is in the table; otherwise it ends where the
\* key may be placed.
LEMMA Lookup ==
  ASSUME Type, Count, Order, Hashed, NEW key \in Key,
         NEW f, f = s_find_entry(key), NEW at, at = At(key, f)
  PROVE  /\ f \in 0 .. size - 1 /\ at \in 0 .. size - 1
         /\ Arriving(slots, size, s_hash_for(key), f)
         /\ Present(key) => slots[at].hash # 0 /\ Same(slots[at].key, key)
         /\ (\E j \in Used(slots) : Same(slots[j].key, key)) => Present(key)
<1> DEFINE n == size
           h == s_hash_for(key)
           S == {p \in 0 .. size : Stops(key, p)}
<1>1. n \in Nat /\ n >= 2 /\ IsTable(slots, n) /\ RobinHood(slots, n)
  BY Sizes, TableFacts DEF Order
<1>2. h \in Nat /\ h # 0 /\ h % n \in 0 .. n - 1
  BY <1>1, HashFacts, Steps
<1>3. \A p \in 0 .. n : At(key, p) = Turn(n, (h % n) + p) /\ Turn(n, (h % n) + p) \in 0 .. n - 1
  <2>1. \A p \in 0 .. n : Turn(n, (h % n) + p) \in 0 .. n - 1
    BY <1>1, <1>2 DEF Turn
  <2> QED BY <2>1, Names
<1>4. \A p \in 0 .. n : Stops(key, p) <=>
          \/ slots[At(key, p)].hash = 0
          \/ Found(key, p)
          \/ Probe(slots, n, At(key, p)) < p
  BY <1>3, Names DEF Stops
<1>5. PICK e \in 0 .. n - 1 : slots[e].hash = 0
  BY <1>1 DEF IsTable
<1>6. Back(n, e, h % n) \in 0 .. n - 1 /\ Turn(n, (h % n) + Back(n, e, h % n)) = e
  BY <1>1, <1>2 DEF Back, Turn
<1>7. Back(n, e, h % n) \in S /\ S \in SUBSET Nat
  BY <1>1, <1>3, <1>4, <1>5, <1>6
<1>8. f \in S /\ \A p \in S : f <= p
  <2>1. f = Min(S)
    BY DEF s_find_entry
  <2> HIDE DEF S
  <2> QED BY <1>7, <2>1, MinIsLeast
<1>9. f \in 0 .. n - 1 /\ at \in 0 .. n - 1 /\ at = Turn(n, (h % n) + f)
  <2>1. f \in 0 .. n /\ f <= Back(n, e, h % n)
    BY <1>7, <1>8
  <2>2. f \in 0 .. n - 1
    BY <1>1, <1>6, <2>1
  <2> QED BY <1>3, <2>1, <2>2
<1>10. \A p \in 0 .. n : p < f => slots[At(key, p)].hash # 0 /\ Probe(slots, n, At(key, p)) >= p
  <2> SUFFICES ASSUME NEW p \in 0 .. n, p < f
               PROVE  slots[At(key, p)].hash # 0 /\ Probe(slots, n, At(key, p)) >= p
    OBVIOUS
  <2>1. p \notin S
    BY <1>1, <1>8, <1>9
  <2>2. ~Stops(key, p)
    BY <2>1
  <2>3. Probe(slots, n, At(key, p)) \in 0 .. n - 1
    BY <1>1, <1>3, Distances
  <2> QED BY <1>1, <1>4, <2>2, <2>3
<1>11. Arriving(slots, n, h, f)
  <2>1. SUFFICES ASSUME f > 0
                 PROVE  /\ slots[Back(n, Turn(n, (h % n) + f), 1)].hash # 0
                        /\ Probe(slots, n, Back(n, Turn(n, (h % n) + f), 1)) >= f - 1
    BY DEF Arriving
  <2>2. f - 1 \in 0 .. n /\ f - 1 < f
    BY <1>1, <1>9, <2>1
  <2>3. Back(n, Turn(n, (h % n) + f), 1) = Turn(n, (h % n) + (f - 1))
    BY <1>1, <1>2, <1>9, <2>1 DEF Back, Turn
  <2> QED BY <1>3, <1>10, <2>2, <2>3
<1>12. Present(key) => slots[at].hash # 0 /\ Same(slots[at].key, key)
  BY <1>2 DEF Present, Found
<1>13. ASSUME NEW j \in Used(slots), Same(slots[j].key, key) PROVE Present(key)
  <2> DEFINE d == Probe(slots, n, j)
  <2>1. j \in 0 .. n - 1 /\ slots[j].hash # 0 /\ slots[j].hash = h
    <3>1. j \in 0 .. n - 1 /\ slots[j].key \in Key /\ slots[j].hash # 0
      BY Sizes, EntryFacts
    <3> QED BY <1>13, <3>1, HashFacts DEF Hashed
  <2>2. d \in 0 .. n - 1 /\ Turn(n, (h % n) + d) = j
    BY <1>1, <2>1, Distances
  <2>3. At(key, d) = j /\ d \in 0 .. n
    BY <1>1, <1>3, <2>2
  <2>4. Found(key, d)
    BY <1>13, <2>1, <2>3 DEF Found
  <2>5. d \in S
    BY <1>4, <2>3, <2>4
  <2>6. f <= d
    BY <1>8, <2>5
  <2>7. CASE f = d
    BY <2>4, <2>7 DEF Present
  <2>8. CASE f < d
    <3>1. d - f \in 0 .. Probe(slots, n, j) /\ d - (d - f) = f
      BY <1>1, <1>9, <2>2, <2>6
    <3>2. Back(n, j, d - f) = at
      <4> HIDE DEF d, h, n
      <4>1. f \in 0 .. d
        BY <1>1, <1>9, <2>2, <2>8
      <4>2. Back(n, Turn(n, (h % n) + d), d - f) = Turn(n, (h % n) + f)
        <5> DEFINE b == h % n
        <5>1. n \in Nat /\ n > 0 /\ b \in 0 .. n - 1 /\ d \in 0 .. n - 1
          BY <1>1, <1>2, <2>2
        <5> HIDE DEF b
        <5>2. Back(n, Turn(n, b + d), d - f) = Turn(n, b + f)
          BY <4>1, <5>1, TurnBack
        <5> QED BY <5>2 DEF b
      <4> QED BY <1>9, <2>2, <4>2
    <3>3. slots[at].hash # 0 /\ Probe(slots, n, at) >= f
      BY <1>1, <2>1, <3>1, <3>2, Chain
    <3>4. Probe(slots, n, at) \in 0 .. n - 1
      BY <1>1, <1>9, Distances
    <3>5. ~(Probe(slots, n, at) < f)
      BY <1>1, <1>9, <3>3, <3>4
    <3> QED BY <1>4, <1>8, <3>3, <3>5 DEF Present
  <2> QED BY <1>1, <1>9, <2>2, <2>6, <2>7, <2>8
<1> QED BY <1>9, <1>11, <1>12, <1>13

----------------------------------------------------------------------------
(* What the steps have in common                                           *)

\* The order of the slots is one of hash codes only.
LEMMA SameHashes ==
  ASSUME NEW s, NEW z, NEW n, IsTable(s, n), \A j \in 0 .. n - 1 : z[j].hash = s[j].hash,
         RobinHood(s, n)
  PROVE  RobinHood(z, n)
<1>1. \A j \in 0 .. n - 1 : Probe(z, n, j) = Probe(s, n, j) /\ Back(n, j, 1) \in 0 .. n - 1
  BY Distances DEF Probe
<1> QED BY <1>1 DEF RobinHood

\* Nothing the invariant speaks of changes, or only the iterator does.
LEMMA CoreUnchanged ==
  ASSUME Core, UNCHANGED <<tableVars, localVars, owned>>
  PROVE  Core'
<1>1. UNCHANGED <<slots, size, entry_count, max_size, pc, request, entry, probe_idx, rval, old, i, owned>>
  BY DEF tableVars, localVars
<1>2. Rest' = Rest /\ Used(slots)' = Used(slots) /\ Inserting' = Inserting /\ Slot' = Slot
      /\ max_load' = max_load /\ NewEntry' = NewEntry
  BY <1>1 DEF Rest, Used, Inserting, Slot, max_load, NewEntry, s_hash_for
<1>3. Type'
  BY <1>1, <1>2 DEF Core, Type
<1>4. Control' /\ Count'
  BY <1>1, <1>2 DEF Core, Control, Count
<1>5. Order'
  BY <1>1 DEF Core, Order
<1>6. Hashed' /\ Unique'
  BY <1>1, <1>2 DEF Core, Hashed, Unique
<1>7. Requested'
  BY <1>1, <1>2 DEF Core, Requested
<1>8. Owns'
  BY <1>1, <1>2 DEF Core, Owns, Kept
<1> QED BY <1>3, <1>4, <1>5, <1>6, <1>7, <1>8 DEF Core

\* No iteration is under way.
LEMMA NoIteration ==
  ASSUME Iterating, iter.status = "NONE", UNCHANGED iterVars, size \in Nat, size' \in Nat, size <= size'
  PROVE  Iterating'
<1>1. iter' = iter
  BY DEF iterVars
<1>2. iter.limit \in 0 .. size'
  BY DEF Iterating
<1>3. iter' \in [status : {"NONE", "DONE", "DELETE_CALLED", "READY_FOR_USE"}, slot : 0 .. SIZE_MAX, limit : 0 .. size']
  BY <1>1, <1>2 DEF Iterating
<1> QED BY <1>1, <1>3 DEF Iterating

\* When no insertion is under way, only the slots hold elements.
LEMMA Quiet ==
  ASSUME Core, ~Inserting
  PROVE  /\ entry = Empty /\ Rest = {}
         /\ \A o : Kept(o) <=> \E j \in Used(slots) : Has(slots[j], o)
         /\ entry_count = Cardinality(Used(slots))
<1>1. entry = Empty /\ Rest = {} /\ pc # "expand"
  BY DEF Core, Control, Rest, Inserting
<1>2. \A o : Kept(o) <=> \E j \in Used(slots) : Has(slots[j], o)
  BY <1>1 DEF Kept
<1>3. entry_count = Cardinality(Used(slots))
  BY <1>1, Finite, FS_EmptySet DEF Core, Count
<1> QED BY <1>1, <1>2, <1>3

\* ... and that is all the invariant says.
QuietState ==
    /\ Type /\ Control /\ ~Inserting
    /\ entry_count = Cardinality(Used(slots)) /\ entry_count <= max_load
    /\ RobinHood(slots, size) /\ probe_idx \in 0 .. size - 1
    /\ \A j \in Used(slots) : slots[j].hash = s_hash_for(slots[j].key)
    /\ \A j, k \in Used(slots) : j # k => Apart(slots[j], slots[k])
    /\ \A o \in (Key \cup Value) \ {NULL} :
          owned[o] = IF \E j \in Used(slots) : Has(slots[j], o) THEN 1 ELSE 0

\* That is enough.
LEMMA QuietInv == QuietState => Core
<1> SUFFICES ASSUME QuietState PROVE Core
  OBVIOUS
<1>0. Type /\ ~Inserting /\ entry = Empty
  BY DEF QuietState, Control
<1>1. Rest = {} /\ pc # "expand" /\ pc # "emplace"
  BY <1>0 DEF Rest, Inserting
<1>2. Control
  BY DEF QuietState
<1>3. Count
  BY <1>0, <1>1, Finite, FS_EmptySet DEF Count, QuietState
<1>4. Order /\ Hashed /\ Unique /\ Requested
  BY <1>0, <1>1 DEF Order, Hashed, Unique, Requested, QuietState
<1>5. Owns
  BY <1>0, <1>1 DEF Owns, Kept, Inserting, QuietState
<1> QED BY <1>0, <1>2, <1>3, <1>4, <1>5 DEF Core

\* The same of the next state.
LEMMA QuietInvNext == QuietState' => Core'
BY QuietInv, PTL

\* The objects of two elements, and an object with its owner.
LEMMA Objects ==
  ASSUME Core, ~Inserting
  PROVE  /\ \A j, k \in Used(slots), o \in (Key \cup Value) \ {NULL} :
               Has(slots[j], o) /\ Has(slots[k], o) => j = k
         /\ \A o \in (Key \cup Value) \ {NULL} :
               owned[o] = IF \E j \in Used(slots) : Has(slots[j], o) THEN 1 ELSE 0
         /\ \A j \in Used(slots) : slots[j].key \in Key /\ slots[j].value \in Value \cup {NULL}
<1>1. \A j \in Used(slots) : slots[j].key \in Key /\ slots[j].value \in Value \cup {NULL}
  BY Sizes, EntryFacts DEF Core
<1>2. NULL \in Key /\ NULL \notin Value /\ Key \cap Value = {}
  BY HashTableAssumption
<1>3. ASSUME NEW j \in Used(slots), NEW k \in Used(slots), NEW o \in (Key \cup Value) \ {NULL},
             Has(slots[j], o), Has(slots[k], o), j # k
      PROVE  FALSE
  <2>1. ~Same(slots[j].key, slots[k].key) /\ (slots[j].value = slots[k].value => slots[j].value = NULL)
    BY <1>3 DEF Core, Unique, Apart
  <2>2. slots[j].key # slots[k].key
    BY <2>1, HashFacts
  <2> QED BY <1>1, <1>2, <1>3, <2>1, <2>2 DEF Has
<1> QED BY <1>1, <1>3, Quiet DEF Core, Owns

\* put and create of a key that is present.
LEMMA PutPresentCore ==
  ASSUME IInv, NEW key \in Key, NEW value \in Value \cup {NULL}, NEW put \in BOOLEAN,
         put => value \in Value, PutPresent(key, value, put)
  PROVE  Core'
<1>1. CASE ~put
  BY <1>1, CoreUnchanged DEF PutPresent, IInv, tableVars
<1>2. CASE put
  <2> DEFINE f == s_find_entry(key)
             at == At(key, f)
             e == slots[at]
             w == [hash |-> e.hash, key |-> key, value |-> value]
  <2>0. Core /\ Type /\ Count /\ Order /\ Hashed /\ ~Inserting /\ pc = "idle"
    BY DEF IInv, Core, PutPresent, Idle, Inserting
  <2>1. /\ Present(key) /\ MayGive(value) /\ (e.key # key => MayGive(key))
        /\ slots' = [slots EXCEPT ![at] = w]
        /\ owned' = Given(Dropped(owned, (IF e.key = key THEN {} ELSE {e.key}) \cup {e.value}),
                          (IF e.key = key THEN {} ELSE {key}) \cup {value})
        /\ UNCHANGED <<size, entry_count, max_size, localVars>>
    BY <1>2 DEF PutPresent
  <2>2. UNCHANGED <<size, entry_count, max_size, pc, request, entry, probe_idx, rval, old, i>>
    BY <2>1 DEF localVars
  <2>3. at \in 0 .. size - 1 /\ e.hash # 0 /\ Same(e.key, key)
    BY <2>0, <2>1, Lookup
  <2>4. at \in Used(slots) /\ e \in Entries /\ e.hash = s_hash_for(key)
    <3>1. at \in Used(slots) /\ e \in Entries
      BY <2>0, <2>3, Sizes
    <3> QED BY <2>0, <2>3, <3>1, EntryFacts, HashFacts DEF Hashed
  <2> HIDE DEF at, f
  <2>5. w \in Entries /\ w.hash = e.hash /\ w.key = key /\ w.value = value
    BY <2>4, EntryFacts DEF Entries
  <2> HIDE DEF w
  <2>6. DOMAIN slots' = DOMAIN slots /\ slots'[at] = w /\ \A j \in 0 .. size - 1 : j # at => slots'[j] = slots[j]
    BY <2>0, <2>1, <2>3, Sizes
  <2>7. \A j \in 0 .. size - 1 : slots'[j].hash = slots[j].hash
    BY <2>5, <2>6
  <2>8. Used(slots)' = Used(slots)
    BY <2>0, <2>6, <2>7, Sizes DEF Used
  <2>9. Slot' = Slot /\ max_load' = max_load /\ Inserting' = Inserting
    BY <2>2 DEF Slot, max_load, Inserting
  <2>10. slots' \in [Slot -> Entries \cup {Empty}]
    BY <2>0, <2>1, <2>5 DEF Type
  <2>11. owned \in [(Key \cup Value) \ {NULL} -> Nat]
    BY <2>0 DEF Type
  <2> DEFINE D == (IF e.key = key THEN {} ELSE {e.key}) \cup {e.value}
             G == (IF e.key = key THEN {} ELSE {key}) \cup {value}
  <2>12. DOMAIN owned' = (Key \cup Value) \ {NULL} /\ \A o \in (Key \cup Value) \ {NULL} :
           owned'[o] = (IF o \in D THEN owned[o] - 1 ELSE owned[o]) + (IF o \in G THEN 1 ELSE 0)
    <3> HIDE DEF D, G
    <3>1. owned' = Given(Dropped(owned, D), G)
      BY <2>1 DEF D, G
    <3> QED BY <2>11, <3>1 DEF Given, Dropped
  <2>13. /\ NULL \in Key /\ NULL \notin Value /\ Key \cap Value = {}
         /\ value \in Value /\ value # NULL /\ e.key \in Key /\ e.value \in Value \cup {NULL}
    BY <1>2, <2>4, HashTableAssumption, EntryFacts
  <2>14. owned[value] = 0
    BY <2>1, <2>13 DEF MayGive
  <2>15. e.key # key => key # NULL /\ owned[key] = 0
    <3>1. ASSUME key = NULL PROVE e.key = key
      BY <2>3, <2>13, <3>1, HashTableAssumption DEF Same
    <3> QED BY <2>1, <3>1 DEF MayGive
  <2>16. \A o \in (Key \cup Value) \ {NULL} :
           (\E j \in Used(slots) : Has(slots'[j], o)) <=>
              \/ o = key \/ o = value
              \/ \E j \in Used(slots) : j # at /\ Has(slots[j], o)
    <3>1. \A j \in Used(slots) : j \in 0 .. size - 1
      BY <2>0, Sizes
    <3> QED BY <2>4, <2>5, <2>6, <3>1 DEF Has
  <2>17. ASSUME NEW o \in (Key \cup Value) \ {NULL}
         PROVE  owned'[o] = IF \E j \in Used(slots) : Has(slots'[j], o) THEN 1 ELSE 0
    <3> DEFINE others == \E j \in Used(slots) : j # at /\ Has(slots[j], o)
    <3>1. owned[o] = IF o = e.key \/ o = e.value \/ others THEN 1 ELSE 0
      BY <2>0, <2>4, Objects DEF Has
    <3>2. o = e.key \/ o = e.value => ~others
      BY <2>0, <2>4, Objects DEF Has
    <3> HIDE DEF others
    <3>3. owned'[o] = IF o = key \/ o = value \/ others THEN 1 ELSE 0
      <4>1. owned'[o] = (IF o \in D THEN owned[o] - 1 ELSE owned[o]) + (IF o \in G THEN 1 ELSE 0)
        BY <2>12
      <4>2. CASE o \in D
        <5>1. owned[o] = 1 /\ ~others /\ o # value /\ o # key
          BY <2>13, <2>14, <2>15, <3>1, <3>2, <4>2
        <5> QED BY <2>13, <4>1, <4>2, <5>1
      <4>3. CASE o \in G
        <5>1. owned[o] = 0 /\ o \notin D /\ (o = key \/ o = value)
          BY <2>13, <2>14, <2>15, <3>1, <4>3
        <5> QED BY <4>1, <4>3, <5>1
      <4>4. CASE o \notin D /\ o \notin G
        <5>1. o # value /\ (o = key <=> o = e.key) /\ o # e.value
          BY <4>4
        <5>2. owned[o] \in Nat /\ owned'[o] = owned[o]
          BY <2>11, <4>1, <4>4
        <5> QED BY <3>1, <5>1, <5>2
      <4> QED BY <4>2, <4>3, <4>4
    <3> QED BY <2>16, <3>3 DEF others
  <2>18. owned' \in [(Key \cup Value) \ {NULL} -> Nat]
    <3>1. \A o \in (Key \cup Value) \ {NULL} : owned'[o] \in Nat
      BY <2>17
    <3>2. owned' = [o \in DOMAIN owned' |-> owned'[o]]
      BY <2>1 DEF Given
    <3> QED BY <2>12, <3>1, <3>2
  <2>19. Type'
    BY <2>0, <2>2, <2>9, <2>10, <2>18 DEF Type
  <2>20. RobinHood(slots, size)'
    BY <2>0, <2>2, <2>7, SameHashes, TableFacts DEF Order
  <2>21. \A j \in Used(slots) : slots'[j].hash = s_hash_for(slots'[j].key)
    <3>1. \A j \in Used(slots) : j \in 0 .. size - 1
      BY <2>0, Sizes
    <3> QED BY <2>0, <2>4, <2>5, <2>6, <3>1 DEF Hashed
  <2>22. \A j, k \in Used(slots) : j # k => Apart(slots'[j], slots'[k])
    <3>1. \A j \in Used(slots) : j \in 0 .. size - 1
      BY <2>0, Sizes
    <3>2. ASSUME NEW j \in Used(slots), j # at PROVE Apart(slots[j], w) /\ Apart(w, slots[j])
      <4>1. ~Same(slots[j].key, e.key)
        BY <2>0, <2>4, <3>2 DEF Core, Unique, Apart
      <4>2. ~Same(slots[j].key, key) /\ ~Same(key, slots[j].key)
        BY <2>3, <4>1, HashFacts
      <4>3. slots[j].value # value
        BY <2>0, <2>13, <2>14, Objects DEF Has
      <4> QED BY <2>5, <4>2, <4>3 DEF Apart
    <3>3. \A j, k \in Used(slots) : j # k => Apart(slots[j], slots[k])
      BY <2>0 DEF Core, Unique
    <3> QED BY <2>6, <3>1, <3>2, <3>3
  <2>23. Control' /\ ~Inserting' /\ entry_count' = Cardinality(Used(slots)) /\ entry_count' <= max_load'
         /\ probe_idx' \in 0 .. size' - 1
    BY <2>0, <2>2, <2>9, Quiet DEF Core, Control, Count, Order
  <2> QED BY <2>8, <2>17, <2>19, <2>20, <2>21, <2>22, <2>23, QuietInvNext DEF QuietState
<1> QED BY <1>1, <1>2

----------------------------------------------------------------------------
(* Removing                                                                *)

\* s_remove_entry shifts the run behind the entry, and does not come round to it.
LEMMA RemoveFacts ==
  ASSUME Core, NEW at \in Used(slots)
  PROVE  /\ Shifts(at) \in 0 .. size - 2 /\ Run(slots, size, at, Shifts(at))
         /\ s_remove_entry(at) = Shifted(slots, size, at, Shifts(at))
         /\ last_index(at) = Turn(size, at + Shifts(at))
<1> DEFINE n == size
           S == {t \in 1 .. size : RunEnds(at, t)}
<1>1. n \in Nat /\ n >= 2 /\ IsTable(slots, n) /\ at \in 0 .. n - 1 /\ slots[at].hash # 0
      /\ Slot = 0 .. n - 1
  BY Sizes, TableFacts DEF Core
<1>2. \A j \in 0 .. n - 1, t \in 0 .. n : Masked(j + t) = Turn(n, j + t) /\ Turn(n, j + t) \in 0 .. n - 1
  <2>1. \A j \in 0 .. n - 1, t \in 0 .. n : Turn(n, j + t) \in 0 .. n - 1
    BY <1>1 DEF Turn
  <2>2. ASSUME NEW j \in 0 .. n - 1, NEW t \in 0 .. n PROVE Masked(j + t) = Turn(n, j + t)
    <3>1. n \in Nat /\ n > 0
      BY <1>1
    <3>2. (j + t) % n = Turn(n, j + t)
      <4> HIDE DEF n
      <4> QED BY <3>1, SmallSteps, Zenon
    <3> QED BY <3>2 DEF Masked
  <2> QED BY <2>1, <2>2
<1>3. \A j \in 0 .. n - 1 : slots[j].hash % n \in 0 .. n - 1 /\ Probe(slots, n, j) \in 0 .. n - 1
  BY <1>1, Distances
<1>4. ASSUME NEW j \in 0 .. n - 1 PROVE Masked(slots[j].hash) = j <=> Probe(slots, n, j) = 0
  <2> DEFINE home == slots[j].hash % n
  <2>1. home \in 0 .. n - 1 /\ Probe(slots, n, j) = Back(n, j, home) /\ Masked(slots[j].hash) = home
    BY <1>3 DEF Probe, Masked
  <2> HIDE DEF home
  <2>2. Back(n, j, home) = 0 <=> home = j
    BY <1>1, <2>1 DEF Back
  <2> QED BY <2>1, <2>2
<1>5. \A t \in 0 .. n : RunEnds(at, t) <=>
         slots[Turn(n, at + t)].hash = 0 \/ Probe(slots, n, Turn(n, at + t)) = 0
  BY <1>1, <1>2, <1>4 DEF RunEnds
<1>6. PICK e \in 0 .. n - 1 : slots[e].hash = 0
  BY <1>1 DEF IsTable
<1>7. Back(n, e, at) \in 1 .. n - 1 /\ Turn(n, at + Back(n, e, at)) = e
  <2>1. e # at
    BY <1>1, <1>6
  <2> QED BY <1>1, <2>1 DEF Back, Turn
<1>8. Back(n, e, at) \in S /\ S \in SUBSET Nat
  <2>1. Back(n, e, at) \in 0 .. n /\ Back(n, e, at) \in 1 .. n
    BY <1>1, <1>7
  <2> QED BY <1>5, <1>6, <1>7, <2>1
<1>9. Min(S) \in S /\ \A t \in S : Min(S) <= t
  <2> HIDE DEF S
  <2> QED BY <1>8, MinIsLeast
<1> DEFINE c == Shifts(at)
<1>10. c = Min(S) - 1
  BY DEF Shifts
<1> HIDE DEF S
<1>11. c \in 0 .. n - 2 /\ c + 1 \in S /\ \A t \in S : c + 1 <= t
  <2>1. Min(S) \in 1 .. n /\ Min(S) <= Back(n, e, at)
    BY <1>8, <1>9 DEF S
  <2> QED BY <1>1, <1>7, <1>9, <1>10, <2>1
<1> HIDE DEF c
<1>12. Run(slots, n, at, c)
  <2>1. ASSUME NEW t \in 1 .. c
        PROVE  slots[Turn(n, at + t)].hash # 0 /\ Probe(slots, n, Turn(n, at + t)) > 0
    <3>1. t \in 1 .. n /\ t \in 0 .. n /\ ~(c + 1 <= t)
      BY <1>1, <1>11
    <3>2. ~RunEnds(at, t)
      BY <1>11, <3>1 DEF S
    <3>3. Probe(slots, n, Turn(n, at + t)) \in 0 .. n - 1
      BY <1>1, <1>2, <1>3, <3>1
    <3> QED BY <1>1, <1>5, <3>1, <3>2, <3>3
  <2>2. RunEnds(at, c + 1) /\ c + 1 \in 0 .. n
    BY <1>1, <1>11 DEF S
  <2> QED BY <1>5, <2>1, <2>2 DEF Run
<1>13. s_remove_entry(at) = Shifted(slots, n, at, c)
  <2>1. ASSUME NEW j \in 0 .. n - 1 PROVE Masked(j - at) = Back(n, j, at) /\ Masked(j + 1) = Turn(n, j + 1)
    <3>1. 1 \in 0 .. n
      BY <1>1
    <3>2. (j - at) % n = Back(n, j, at)
      BY <1>1, SmallSteps
    <3>3. Masked(j + 1) = Turn(n, j + 1)
      BY <1>2, <3>1
    <3> QED BY <3>2, <3>3 DEF Masked
  <2> QED BY <1>1, <2>1 DEF s_remove_entry, Shifted, c
<1>14. last_index(at) = Turn(n, at + c)
  <2>1. c \in 0 .. n
    BY <1>1, <1>11
  <2> QED BY <1>1, <1>2, <2>1 DEF last_index, c
<1> QED BY <1>11, <1>12, <1>13, <1>14 DEF c

\* The entries of the shifted table are the others, each once.
LEMMA RemoveEntries ==
  ASSUME Core, NEW at \in Used(slots), slots' = s_remove_entry(at), size' = size
  PROVE  /\ slots' \in [Slot -> Entries \cup {Empty}]
         /\ RobinHood(slots, size)'
         /\ \E last \in Used(slots) : Used(slots)' = Used(slots) \ {last}
         /\ \E from \in [Used(slots)' -> Used(slots) \ {at}] :
              /\ \A j \in Used(slots)' : slots'[j] = slots[from[j]]
              /\ \A j, k \in Used(slots)' : from[j] = from[k] => j = k
              /\ \A k \in Used(slots) \ {at} : \E j \in Used(slots)' : from[j] = k
<1> DEFINE n == size
           c == Shifts(at)
           z == slots'
<1>1. /\ n \in Nat /\ n >= 2 /\ IsTable(slots, n) /\ RobinHood(slots, n)
      /\ at \in 0 .. n - 1 /\ slots[at].hash # 0
      /\ Slot = 0 .. n - 1 /\ Used(slots) = {j \in 0 .. n - 1 : slots[j].hash # 0}
  BY Sizes, TableFacts DEF Core, Order
<1>2. c \in 0 .. n - 2 /\ Run(slots, n, at, c) /\ z = Shifted(slots, n, at, c)
  BY RemoveFacts
<1> HIDE DEF c, z, n
<1>3. RobinHood(z, n)
  BY <1>1, <1>2, ShiftKeeps
<1>4. Removed(slots, n, at, c, z)
  <2>1. IsTable(slots, n) /\ at \in 0 .. n - 1 /\ slots[at].hash # 0
    BY <1>1
  <2> QED BY <1>2, <2>1, ShiftedFrom, Zenon
<1>5. Used(slots)' = {j \in 0 .. n - 1 : z[j].hash # 0}
  <2>1. DOMAIN z = 0 .. n - 1
    BY <1>4 DEF Removed
  <2> QED BY <2>1 DEF Used, z
<1>6. Used(slots)' = Used(slots) \ {Turn(n, at + c)} /\ Turn(n, at + c) \in Used(slots)
  BY <1>1, <1>4, <1>5 DEF Removed
<1> DEFINE g == [j \in Used(slots)' |-> From(n, at, c, j)]
<1>7. /\ g \in [Used(slots)' -> Used(slots) \ {at}]
      /\ \A j \in Used(slots)' : slots'[j] = slots[g[j]]
      /\ \A j, k \in Used(slots)' : g[j] = g[k] => j = k
      /\ \A k \in Used(slots) \ {at} : \E j \in Used(slots)' : g[j] = k
  BY <1>1, <1>4, <1>5 DEF Removed, z
<1> QED BY <1>1, <1>3, <1>4, <1>6, <1>7 DEF Removed, z, n

\* An element is removed.
LEMMA RemoveCore ==
  ASSUME Core, ~Inserting, NEW at \in Used(slots), slots' = s_remove_entry(at),
         entry_count' = entry_count - 1, owned' = Dropped(owned, {slots[at].key, slots[at].value}),
         UNCHANGED <<size, max_size, localVars>>
  PROVE  Core'
<1>1. UNCHANGED <<size, max_size, pc, request, entry, probe_idx, rval, old, i>>
  BY DEF localVars
<1>2. /\ slots' \in [Slot -> Entries \cup {Empty}]
      /\ RobinHood(slots, size)'
      /\ \E last \in Used(slots) : Used(slots)' = Used(slots) \ {last}
  BY <1>1, RemoveEntries
<1>3. PICK from \in [Used(slots)' -> Used(slots) \ {at}] :
              /\ \A j \in Used(slots)' : slots'[j] = slots[from[j]]
              /\ \A j, k \in Used(slots)' : from[j] = from[k] => j = k
              /\ \A k \in Used(slots) \ {at} : \E j \in Used(slots)' : from[j] = k
  BY <1>1, RemoveEntries
<1>4. Slot' = Slot /\ max_load' = max_load /\ Inserting' = Inserting
  BY <1>1 DEF Slot, max_load, Inserting
<1>5. entry_count' = Cardinality(Used(slots)') /\ entry_count' \in Nat /\ entry_count' <= max_load'
  <2>1. PICK last \in Used(slots) : Used(slots)' = Used(slots) \ {last}
    BY <1>2
  <2>2. IsFiniteSet(Used(slots)) /\ entry_count = Cardinality(Used(slots)) /\ entry_count \in Nat
        /\ max_load \in Nat /\ entry_count <= max_load
    BY Finite, Quiet, Sizes DEF Core, Count, Type
  <2>3. Cardinality(Used(slots)') = Cardinality(Used(slots)) - 1 /\ IsFiniteSet(Used(slots)')
    BY <2>1, <2>2, FS_RemoveElement
  <2>4. Cardinality(Used(slots)') \in Nat
    BY <2>3, FS_CardinalityType
  <2> QED BY <1>4, <2>2, <2>3, <2>4
<1>6. \A j \in Used(slots)' : slots'[j].hash = s_hash_for(slots'[j].key)
  BY <1>3 DEF Core, Hashed
<1>7. \A j, k \in Used(slots)' : j # k => Apart(slots'[j], slots'[k])
  BY <1>3 DEF Core, Unique
<1> DEFINE D == {slots[at].key, slots[at].value}
<1>8. owned \in [(Key \cup Value) \ {NULL} -> Nat]
  BY DEF Core, Type
<1>9. owned' = [o \in (Key \cup Value) \ {NULL} |-> IF o \in D THEN owned[o] - 1 ELSE owned[o]]
  <2> HIDE DEF D
  <2>1. owned' = Dropped(owned, D)
    BY DEF D
  <2> QED BY <1>8, <2>1 DEF Dropped
<1>10. ASSUME NEW o \in (Key \cup Value) \ {NULL}
       PROVE  owned'[o] = IF \E j \in Used(slots)' : Has(slots'[j], o) THEN 1 ELSE 0
  <2>1. (\E j \in Used(slots)' : Has(slots'[j], o)) <=> \E k \in Used(slots) \ {at} : Has(slots[k], o)
    BY <1>3
  <2>2. owned[o] = IF \E j \in Used(slots) : Has(slots[j], o) THEN 1 ELSE 0
    BY Objects
  <2>3. CASE o \in D
    <3>1. Has(slots[at], o)
      BY <2>3 DEF Has
    <3>2. owned[o] = 1 /\ ~(\E k \in Used(slots) \ {at} : Has(slots[k], o))
      BY <2>2, <3>1, Objects
    <3> QED BY <1>9, <2>1, <2>3, <3>2
  <2>4. CASE o \notin D
    <3>1. ~Has(slots[at], o)
      BY <2>4 DEF Has
    <3> QED BY <1>9, <2>1, <2>2, <2>4, <3>1
  <2> QED BY <2>3, <2>4
<1>11. owned' \in [(Key \cup Value) \ {NULL} -> Nat]
  <2>1. ASSUME NEW o \in (Key \cup Value) \ {NULL} PROVE owned'[o] \in Nat
    <3>1. owned'[o] = 1 \/ owned'[o] = 0
      BY <1>10
    <3> QED BY <3>1
  <2> QED BY <1>9, <2>1
<1>12. Type'
  BY <1>1, <1>2, <1>4, <1>5, <1>11 DEF Core, Type, Inserting
<1>13. Control' /\ ~Inserting' /\ probe_idx' \in 0 .. size' - 1
  BY <1>1, <1>4 DEF Core, Control, Order
<1> QED BY <1>2, <1>5, <1>6, <1>7, <1>10, <1>12, <1>13, QuietInvNext DEF QuietState

\* aws_hash_table_clear empties every slot.
LEMMA ClearCore ==
  ASSUME IInv, NEW final \in BOOLEAN, aws_hash_table_clear(final)
  PROVE  Core'
<1>1. Core /\ Type /\ Control /\ ~Inserting /\ pc = "idle"
  BY DEF IInv, Core, aws_hash_table_clear, Idle, Inserting
<1>2. /\ slots' = [j \in Slot |-> Empty] /\ entry_count' = 0
      /\ owned' = Dropped(owned, Contents(slots))
      /\ pc' \in {"idle", "cleaned"}
      /\ UNCHANGED <<size, max_size, request, entry, probe_idx, rval, old, i>>
  BY DEF aws_hash_table_clear
<1>3. Slot' = Slot /\ max_load' = max_load
  BY <1>2 DEF Slot, max_load
<1>4. Used(slots)' = {} /\ \A j \in 0 .. size - 1 : slots'[j] = Empty
  BY <1>2, EntryFacts DEF Used, Slot
<1>5. Cardinality(Used(slots)') = 0
  BY <1>4, FS_EmptySet
<1>6. RobinHood(slots, size)'
  BY <1>2, <1>4, EntryFacts DEF RobinHood
<1>7. owned \in [(Key \cup Value) \ {NULL} -> Nat]
  BY <1>1 DEF Type
<1>8. owned' = [o \in (Key \cup Value) \ {NULL} |-> IF o \in Contents(slots) THEN owned[o] - 1 ELSE owned[o]]
  BY <1>2, <1>7 DEF Dropped
<1>9. ASSUME NEW o \in (Key \cup Value) \ {NULL} PROVE owned'[o] = 0
  <2>1. owned[o] = IF \E j \in Used(slots) : Has(slots[j], o) THEN 1 ELSE 0
    BY <1>1, Objects
  <2>2. o \in Contents(slots) <=> \E j \in Used(slots) : Has(slots[j], o)
    BY DEF Contents, Has
  <2>3. CASE o \in Contents(slots)
    BY <1>8, <2>1, <2>2, <2>3
  <2>4. CASE o \notin Contents(slots)
    BY <1>8, <2>1, <2>2, <2>4
  <2> QED BY <2>3, <2>4
<1>10. owned' \in [(Key \cup Value) \ {NULL} -> Nat]
  <2>1. \A o \in (Key \cup Value) \ {NULL} : owned'[o] \in Nat
    BY <1>9
  <2> QED BY <1>8, <2>1
<1>11. Type'
  BY <1>1, <1>2, <1>3, <1>10 DEF Type
<1>12. Control' /\ ~Inserting' /\ entry_count' <= max_load' /\ probe_idx' \in 0 .. size' - 1
  <2>1. max_load \in Nat
    BY <1>1, Sizes
  <2> QED BY <1>1, <1>2, <1>3, <2>1 DEF Core, Control, Order, Inserting
<1> QED BY <1>2, <1>4, <1>5, <1>6, <1>9, <1>11, <1>12, QuietInvNext DEF QuietState

----------------------------------------------------------------------------
(* Adding                                                                  *)

\* What put and create do before they insert a new element.
Begun(key, value, put) ==
    /\ Core /\ ~Inserting
    /\ request' = [key |-> key, value |-> value, put |-> put]
    /\ request' \in [key : Key, value : Value \cup {NULL}, put : BOOLEAN]
    /\ request'.key = key /\ request'.value = value /\ request'.put = put
    /\ \A j \in Used(slots) : ~Same(slots[j].key, key) /\ (slots[j].value = value => value = NULL)
    /\ owned' \in [(Key \cup Value) \ {NULL} -> Nat]
    /\ \A o \in (Key \cup Value) \ {NULL} :
          owned'[o] = IF o = key \/ o = value \/ \E j \in Used(slots) : Has(slots[j], o) THEN 1 ELSE 0

\* They hand over the key and the value, of which the table has none yet.
LEMMA PutAbsentFacts ==
  ASSUME IInv, NEW key \in Key, NEW value \in Value \cup {NULL}, NEW put \in BOOLEAN,
         put => value \in Value, ~put => value = NULL, PutAbsent(key, value, put), pc' # "idle"
  PROVE  Begun(key, value, put)
<1>1. Core /\ Type /\ Count /\ Order /\ Hashed /\ ~Inserting
  BY DEF IInv, Core, PutAbsent, Idle, Inserting
<1>2. /\ ~Present(key) /\ MayGive(key) /\ (put => MayGive(value))
      /\ request' = [key |-> key, value |-> value, put |-> put]
      /\ owned' = Given(owned, IF put THEN {key, value} ELSE {key})
  BY DEF PutAbsent
<1>3. NULL \in Key /\ NULL \notin Value /\ Key \cap Value = {}
  BY HashTableAssumption
<1>4. \A o \in {key, value} : o # NULL => owned[o] = 0
  BY <1>2, <1>3 DEF MayGive
<1>5. owned \in [(Key \cup Value) \ {NULL} -> Nat]
  BY <1>1 DEF Type
<1>6. owned' = [o \in (Key \cup Value) \ {NULL} |-> IF o \in {key, value} THEN owned[o] + 1 ELSE owned[o]]
  <2> DEFINE G == IF put THEN {key, value} ELSE {key}
  <2>1. \A o \in (Key \cup Value) \ {NULL} : o \in G <=> o \in {key, value}
    BY <1>3
  <2> HIDE DEF G
  <2>2. owned' = Given(owned, G)
    BY <1>2 DEF G
  <2> QED BY <1>5, <2>1, <2>2 DEF Given
<1>7. \A o \in (Key \cup Value) \ {NULL} :
         owned[o] = IF \E j \in Used(slots) : Has(slots[j], o) THEN 1 ELSE 0
  BY <1>1, Objects
<1>8. ASSUME NEW o \in (Key \cup Value) \ {NULL}
      PROVE  owned'[o] = IF o = key \/ o = value \/ \E j \in Used(slots) : Has(slots[j], o) THEN 1 ELSE 0
  <2>1. CASE o \in {key, value}
    <3>1. owned[o] = 0
      BY <1>4, <2>1
    <3> QED BY <1>6, <2>1, <3>1
  <2>2. CASE o \notin {key, value}
    BY <1>6, <1>7, <2>2
  <2> QED BY <2>1, <2>2
<1>9. \A j \in Used(slots) : ~Same(slots[j].key, key) /\ (slots[j].value = value => value = NULL)
  <2> SUFFICES ASSUME NEW j \in Used(slots)
               PROVE  ~Same(slots[j].key, key) /\ (slots[j].value = value => value = NULL)
    OBVIOUS
  <2>1. ~Same(slots[j].key, key)
    BY <1>1, <1>2, Lookup
  <2>2. ASSUME slots[j].value = value, value # NULL PROVE FALSE
    <3>1. value \in (Key \cup Value) \ {NULL} /\ owned[value] = 0
      BY <1>4, <2>2
    <3> QED BY <1>7, <2>2, <3>1 DEF Has
  <2> QED BY <2>1, <2>2
<1>10. owned' \in [(Key \cup Value) \ {NULL} -> Nat]
  <2>1. ASSUME NEW o \in (Key \cup Value) \ {NULL} PROVE owned'[o] \in Nat
    <3>1. owned'[o] = 1 \/ owned'[o] = 0
      BY <1>8
    <3> QED BY <3>1
  <2> QED BY <1>6, <2>1
<1> QED BY <1>1, <1>2, <1>8, <1>9, <1>10 DEF Begun

\* An insertion begins: in a table that is large enough, in a larger one, or it fails.
LEMMA PutAbsentCore ==
  ASSUME IInv, NEW key \in Key, NEW value \in Value \cup {NULL}, NEW put \in BOOLEAN,
         put => value \in Value, ~put => value = NULL, PutAbsent(key, value, put)
  PROVE  Core' /\ size' \in Nat /\ size <= size'
<1>1. CASE UNCHANGED <<tableVars, localVars, owned>>
  BY <1>1, CoreUnchanged, Sizes DEF IInv, Core, tableVars
<1>2. CASE /\ entry_count + 1 > max_load
           /\ 2 * size <= max_size
           /\ size' = 2 * size
           /\ slots' = [j \in 0 .. 2 * size - 1 |-> Empty]
           /\ old' = slots /\ i' = 0
           /\ pc' = "expand"
           /\ entry' = Empty /\ probe_idx' = 0
           /\ UNCHANGED <<entry_count, max_size, rval, out>>
  <2>1. /\ Core /\ ~Inserting
        /\ request' \in [key : Key, value : Value \cup {NULL}, put : BOOLEAN]
        /\ request'.key = key /\ request'.value = value /\ request'.put = put
        /\ \A j \in Used(slots) : ~Same(slots[j].key, key) /\ (slots[j].value = value => value = NULL)
        /\ owned' \in [(Key \cup Value) \ {NULL} -> Nat]
        /\ \A o \in (Key \cup Value) \ {NULL} :
              owned'[o] = IF o = key \/ o = value \/ \E j \in Used(slots) : Has(slots[j], o) THEN 1 ELSE 0
    <3>1. pc' # "idle"
      BY <1>2
    <3>2. Begun(key, value, put)
      BY <3>1, PutAbsentFacts, Zenon
    <3> QED BY <3>2 DEF Begun
  <2>2. size \in Nat /\ size >= 2 /\ size' \in Nat /\ size' >= 2 /\ size' <= max_size' /\ max_size' \in MaxSizes
        /\ size <= size' /\ size' \div 2 = size /\ Slot = 0 .. size - 1 /\ Slot' = 0 .. size' - 1
    BY <1>2, <2>1, Sizes DEF Core, Type, Slot
  <2>3. slots' \in [Slot' -> Entries \cup {Empty}] /\ Used(slots)' = {} /\ RobinHood(slots, size)'
    <3>1. slots' = [j \in 0 .. size' - 1 |-> Empty]
      BY <1>2
    <3> QED BY <2>2, <3>1, EntryFacts DEF Used, RobinHood
  <2>4. Rest' = Used(slots) /\ old' = slots
    <3>1. \A j \in Used(slots) : j >= 0
      BY <2>1, <2>2, Sizes DEF Core
    <3> QED BY <1>2, <3>1 DEF Rest, Used
  <2>5. Type'
    <3>1. old' \in [0 .. (size' \div 2) - 1 -> Entries \cup {Empty}]
      BY <2>1, <2>2, <2>4 DEF Core, Type
    <3>2. rval' \in Slot' \cup {None}
      BY <1>2, <2>1, <2>2 DEF Core, Type
    <3>3. entry_count' \in Nat /\ i' \in Nat /\ pc' = "expand" /\ entry' \in Entries \cup {Empty}
      BY <1>2, <2>1 DEF Core, Type
    <3> QED BY <2>1, <2>2, <2>3, <3>1, <3>2, <3>3 DEF Type
  <2>6. Control'
    BY <1>2, <2>1 DEF Control
  <2>7. Count'
    <3>1. entry_count = Cardinality(Used(slots)) /\ entry_count <= max_load /\ entry_count \in Nat
          /\ max_load \in Nat /\ max_load <= size - 1
      BY <2>1, Quiet, Sizes DEF Core, Count, Type
    <3>2. Cardinality(Used(slots)') = 0
      BY <2>3, FS_EmptySet
    <3>3. max_load' = Min({(95 * (2 * size)) \div 100, 2 * size - 1})
      BY <1>2 DEF max_load
    <3>4. size <= (95 * (2 * size)) \div 100 /\ size <= 2 * size - 1
      BY <2>2, Loads
    <3> DEFINE T == {(95 * (2 * size)) \div 100, 2 * size - 1}
    <3>5. T \in SUBSET Nat /\ T # {} /\ \A t \in T : size <= t
      BY <2>2, <3>4
    <3>6. Min(T) \in T
      <4> HIDE DEF T
      <4> QED BY <3>5, MinIsLeast
    <3>7. max_load' \in Nat /\ size <= max_load'
      <4> HIDE DEF T
      <4>1. max_load' = Min(T)
        BY <3>3 DEF T
      <4> QED BY <3>5, <3>6, <4>1
    <3>8. entry_count' = entry_count /\ entry' = Empty
      BY <1>2
    <3> QED BY <2>2, <2>4, <3>1, <3>2, <3>7, <3>8 DEF Count
  <2>8. Order' /\ Hashed'
    <3>1. \A j \in Used(slots) : slots[j].hash = s_hash_for(slots[j].key)
      BY <2>1 DEF Core, Hashed
    <3> QED BY <1>2, <2>2, <2>3, <2>4, <3>1 DEF Order, Hashed
  <2>9. Unique' /\ Requested'
    <3>1. \A j, k \in Used(slots) : j # k => Apart(slots[j], slots[k])
      BY <2>1 DEF Core, Unique
    <3>2. \A j \in Used(slots) : Apart(slots[j], request')
      BY <2>1 DEF Apart
    <3> QED BY <1>2, <2>3, <2>4, <3>1, <3>2 DEF Unique, Requested
  <2>10. Owns'
    <3>1. ASSUME NEW o PROVE Kept(o)' <=> o = key \/ o = value \/ \E j \in Used(slots) : Has(slots[j], o)
      BY <1>2, <2>1, <2>3, <2>4 DEF Kept, Inserting
    <3> QED BY <2>1, <3>1 DEF Owns
  <2> QED BY <2>2, <2>5, <2>6, <2>7, <2>8, <2>9, <2>10 DEF Core
<1>3. CASE /\ entry_count + 1 <= max_load
           /\ entry_count' = entry_count + 1
           /\ pc' = "emplace"
           /\ entry' = [hash |-> s_hash_for(key), key |-> key, value |-> NULL]
           /\ probe_idx' = s_find_entry(key)
           /\ rval' = None
           /\ UNCHANGED <<slots, size, max_size, old, i, out>>
  <2>1. /\ Core /\ ~Inserting
        /\ request' \in [key : Key, value : Value \cup {NULL}, put : BOOLEAN]
        /\ request'.key = key /\ request'.value = value /\ request'.put = put
        /\ \A j \in Used(slots) : ~Same(slots[j].key, key) /\ (slots[j].value = value => value = NULL)
        /\ owned' \in [(Key \cup Value) \ {NULL} -> Nat]
        /\ \A o \in (Key \cup Value) \ {NULL} :
              owned'[o] = IF o = key \/ o = value \/ \E j \in Used(slots) : Has(slots[j], o) THEN 1 ELSE 0
    <3>1. pc' # "idle"
      BY <1>3
    <3>2. Begun(key, value, put)
      BY <3>1, PutAbsentFacts, Zenon
    <3> QED BY <3>2 DEF Begun
  <2>2. size \in Nat /\ size' = size /\ Slot' = Slot /\ max_load' = max_load
        /\ Used(slots)' = Used(slots) /\ Rest' = {} /\ Rest = {}
    BY <1>3, <2>1, Sizes, Quiet DEF Core, Slot, max_load, Rest
  <2>3. entry' \in Entries /\ entry' # Empty /\ entry' = NewEntry'
        /\ entry'.hash = s_hash_for(key) /\ entry'.key = key /\ entry'.value = NULL
    BY <1>3, <2>1, HashFacts, EntryFacts DEF NewEntry, Entries
  <2>4. Type' /\ Control'
    BY <1>3, <2>1, <2>2, <2>3 DEF Core, Type, Control, Inserting
  <2>5. Count'
    <3>1. entry_count = Cardinality(Used(slots)) /\ entry_count \in Nat
      BY <2>1, Quiet DEF Core, Type
    <3>2. Cardinality(Rest') = 0
      BY <2>2, FS_EmptySet
    <3> QED BY <1>3, <2>2, <2>3, <3>1, <3>2 DEF Count
  <2>6. Order' /\ Hashed'
    <3>1. s_find_entry(key) \in 0 .. size - 1 /\ Arriving(slots, size, s_hash_for(key), s_find_entry(key))
      BY <2>1, Lookup DEF Core
    <3> QED BY <1>3, <2>1, <2>2, <2>3, <3>1 DEF Core, Order, Hashed
  <2>7. Unique' /\ Requested'
    <3>1. \A j, k \in Used(slots) : j # k => Apart(slots[j], slots[k])
      BY <2>1 DEF Core, Unique
    <3>2. \A j \in Used(slots) : Apart(slots[j], entry')
      BY <2>1, <2>3 DEF Apart
    <3>3. Unique'
      BY <1>3, <2>2, <3>1, <3>2 DEF Unique
    <3> QED BY <1>3, <2>1, <2>2, <2>3, <3>3 DEF Requested
  <2>8. Owns'
    <3>1. ASSUME NEW o \in (Key \cup Value) \ {NULL}
          PROVE  Kept(o)' <=> o = key \/ o = value \/ \E j \in Used(slots) : Has(slots[j], o)
      BY <1>3, <2>1, <2>2, <2>3 DEF Kept, Inserting, Has
    <3> QED BY <2>1, <3>1 DEF Owns
  <2> QED BY <2>2, <2>4, <2>5, <2>6, <2>7, <2>8 DEF Core
<1> QED BY <1>1, <1>2, <1>3 DEF PutAbsent

\* s_expand_table takes the next old entry, or in the end the new one.
LEMMA ExpandCore ==
  ASSUME IInv, s_expand_table
  PROVE  Core'
<1>1. /\ Core /\ Type /\ pc = "expand" /\ entry = Empty /\ Inserting
      /\ probe_idx' = 0 /\ rval' = None
      /\ UNCHANGED <<slots, size, max_size, request, owned>>
  BY DEF IInv, Core, s_expand_table, Inserting
<1>2. /\ size \in Nat /\ size >= 2 /\ Slot' = Slot /\ max_load' = max_load
      /\ Used(slots)' = Used(slots) /\ NewEntry' = NewEntry
      /\ Rest = {j \in Used(old) : j >= i}
      /\ old \in [0 .. (size \div 2) - 1 -> Entries \cup {Empty}] /\ i \in Nat
      /\ Used(old) = {j \in 0 .. (size \div 2) - 1 : old[j].hash # 0}
  <2>1. old \in [0 .. (size \div 2) - 1 -> Entries \cup {Empty}] /\ i \in Nat
    BY <1>1 DEF Type
  <2>2. size \in Nat /\ size >= 2
    BY <1>1, Sizes
  <2>3. Used(old) = {j \in 0 .. (size \div 2) - 1 : old[j].hash # 0}
    BY <2>1 DEF Used
  <2> QED BY <1>1, <2>1, <2>2, <2>3 DEF Slot, max_load, Used, NewEntry, Rest
<1>3. /\ RobinHood(slots, size) /\ entry_count \in Nat
      /\ IsFiniteSet(Rest) /\ Cardinality(Rest) \in Nat /\ Cardinality(Used(slots)) \in Nat
      /\ entry_count = Cardinality(Used(slots)) + Cardinality(Rest) /\ entry_count + 1 <= max_load
      /\ entry_count <= max_load
  BY <1>1, Finite DEF Core, Order, Count, Type
<1>4. ASSUME NEW e \in Entries \cup {Empty} PROVE Arriving(slots, size, e.hash, 0)
  BY DEF Arriving
<1>5. CASE i < size \div 2
  <2>1. entry' = old[i] /\ i' = i + 1 /\ UNCHANGED <<entry_count, pc, old>>
    BY <1>5 DEF s_expand_table
  <2>2. entry' \in Entries \cup {Empty} /\ (entry' # Empty <=> old[i].hash # 0)
    <3>1. i \in 0 .. (size \div 2) - 1
      BY <1>2, <1>5
    <3> QED BY <1>2, <2>1, <3>1, EntryFacts
  <2>3. Rest' = Rest \ {i} /\ (entry' # Empty <=> i \in Rest)
    <3>1. Rest' = {j \in Used(old) : j >= i + 1}
      BY <1>1, <2>1 DEF Rest, Used
    <3>2. \A j \in Used(old) : j >= i + 1 <=> j >= i /\ j # i
      BY <1>2
    <3>3. i \in Used(old) <=> old[i].hash # 0
      BY <1>2, <1>5
    <3>4. i >= i
      BY <1>2
    <3> QED BY <1>2, <2>2, <3>1, <3>2, <3>3, <3>4
  <2>4. Type' /\ Control'
    <3>1. i' \in Nat
      BY <1>2, <2>1
    <3> QED BY <1>1, <1>2, <2>1, <2>2, <3>1 DEF Core, Type, Control, Inserting
  <2>5. Count'
    <3>1. Cardinality(Rest') + (IF entry' = Empty THEN 0 ELSE 1) = Cardinality(Rest)
      <4>1. CASE i \in Rest
        <5>1. Cardinality(Rest') = Cardinality(Rest) - 1
          BY <1>3, <2>3, <4>1, FS_RemoveElement
        <5> QED BY <1>3, <2>3, <4>1, <5>1
      <4>2. CASE i \notin Rest
        <5>1. Rest' = Rest /\ entry' = Empty
          BY <2>3, <4>2
        <5>2. Cardinality(Rest') = Cardinality(Rest)
          BY <5>1
        <5> QED BY <1>3, <5>1, <5>2
      <4> QED BY <4>1, <4>2
    <3>2. Cardinality(Rest') \in Nat
      <4>1. IsFiniteSet(Rest')
        BY <1>3, <2>3, FS_Subset
      <4> QED BY <4>1, FS_CardinalityType
    <3>3. Cardinality(Used(slots)) + Cardinality(Rest') + (IF entry' = Empty THEN 0 ELSE 1) = entry_count
      BY <1>3, <3>1, <3>2
    <3> QED BY <1>1, <1>2, <1>3, <2>1, <3>3 DEF Count
  <2>6. Order'
    <3>1. Arriving(slots, size, entry'.hash, 0)
      BY <1>4, <2>2
    <3> QED BY <1>1, <1>2, <1>3, <3>1 DEF Order
  <2>7. Hashed' /\ Unique'
    <3>1. Hashed'
      BY <1>1, <1>2, <2>1, <2>3 DEF Core, Hashed
    <3>2. ASSUME entry' # Empty
          PROVE  /\ \A j \in Used(slots) : Apart(slots[j], entry')
                 /\ \A j \in Rest' : Apart(old[j], entry')
      BY <1>1, <2>1, <2>3, <3>2 DEF Core, Unique
    <3>3. /\ \A j, k \in Used(slots) : j # k => Apart(slots[j], slots[k])
          /\ \A j, k \in Rest : j # k => Apart(old[j], old[k])
          /\ \A j \in Used(slots), k \in Rest : Apart(slots[j], old[k])
      BY <1>1 DEF Core, Unique
    <3> QED BY <1>1, <1>2, <2>1, <2>3, <3>1, <3>2, <3>3 DEF Unique
  <2>8. Requested'
    <3>1. /\ \A j \in Used(slots) : Apart(slots[j], request)
          /\ \A j \in Rest : Apart(old[j], request)
      BY <1>1 DEF Core, Requested
    <3> QED BY <1>1, <1>2, <2>1, <2>3, <3>1 DEF Requested
  <2>9. Owns'
    <3>1. ASSUME NEW o PROVE Kept(o)' <=> Kept(o)
      <4>1. Kept(o) <=> \/ \E j \in Used(slots) : Has(slots[j], o)
                        \/ \E j \in Rest : Has(old[j], o)
                        \/ request.key = o \/ request.value = o
        BY <1>1 DEF Kept, Inserting
      <4>2. Kept(o)' <=> \/ \E j \in Used(slots) : Has(slots[j], o)
                         \/ \E j \in Rest' : Has(old[j], o)
                         \/ entry' # Empty /\ Has(old[i], o)
                         \/ request.key = o \/ request.value = o
        BY <1>1, <1>2, <2>1 DEF Kept, Inserting
      <4> QED BY <2>3, <4>1, <4>2
    <3> QED BY <1>1, <3>1 DEF Core, Owns
  <2> QED BY <2>4, <2>5, <2>6, <2>7, <2>8, <2>9 DEF Core
<1>6. CASE ~(i < size \div 2)
  <2>1. entry' = NewEntry /\ entry_count' = entry_count + 1 /\ pc' = "emplace"
        /\ old' = <<>> /\ i' = 0
    BY <1>6 DEF s_expand_table
  <2>2. Rest = {} /\ Rest' = {} /\ Inserting'
    BY <1>2, <1>6, <2>1 DEF Rest, Inserting
  <2>3. /\ request.key \in Key /\ NewEntry \in Entries /\ NewEntry # Empty
        /\ NewEntry.key = request.key /\ NewEntry.value = NULL
        /\ NewEntry.hash = s_hash_for(request.key)
    <3>1. request.key \in Key
      BY <1>1 DEF Type
    <3> QED BY <3>1, HashFacts, EntryFacts DEF NewEntry, Entries
  <2>4. Type' /\ Control'
    BY <1>1, <1>2, <1>3, <2>1, <2>2, <2>3 DEF Core, Type, Control
  <2>5. Count'
    <3>1. Cardinality(Rest) = 0 /\ Cardinality(Rest') = 0
      BY <2>2, FS_EmptySet
    <3> QED BY <1>2, <1>3, <2>1, <2>3, <3>1 DEF Count
  <2>6. Order' /\ Hashed'
    <3>1. Arriving(slots, size, entry'.hash, 0)
      BY <1>4, <2>1, <2>3
    <3>2. Order'
      BY <1>1, <1>2, <1>3, <3>1 DEF Order
    <3> QED BY <1>1, <1>2, <2>1, <2>2, <2>3, <3>2 DEF Core, Hashed
  <2>7. Unique' /\ Requested'
    <3>1. /\ \A j \in Used(slots) : Apart(slots[j], request)
          /\ \A j, k \in Used(slots) : j # k => Apart(slots[j], slots[k])
      BY <1>1 DEF Core, Requested, Unique
    <3>2. \A j \in Used(slots) : Apart(slots[j], NewEntry)
      BY <2>3, <3>1 DEF Apart
    <3>3. Unique'
      BY <1>1, <1>2, <2>1, <2>2, <3>1, <3>2 DEF Unique
    <3>4. \A j \in Used(slots) : slots[j].value = request.value => request.value = NULL
      BY <3>1 DEF Apart
    <3> QED BY <1>1, <1>2, <2>1, <2>3, <3>3, <3>4 DEF Requested
  <2>8. Owns'
    <3>1. ASSUME NEW o \in (Key \cup Value) \ {NULL} PROVE Kept(o)' <=> Kept(o)
      BY <1>1, <1>2, <2>1, <2>2, <2>3 DEF Kept, Inserting, Has
    <3> QED BY <1>1, <3>1 DEF Core, Owns
  <2> QED BY <2>4, <2>5, <2>6, <2>7, <2>8 DEF Core
<1> QED BY <1>5, <1>6

\* The new element is in the slot that s_emplace_item returned, and takes its value there.
LEMMA ReturnCore ==
  ASSUME IInv, PutReturns
  PROVE  /\ Core'
         /\ rval \in Used(slots) /\ slots[rval] = NewEntry /\ Used(slots)' = Used(slots)
         /\ slots' = [slots EXCEPT ![rval] = [hash |-> s_hash_for(request.key), key |-> request.key,
                                              value |-> request.value]]
<1>1. /\ Core /\ Type /\ Control /\ pc = "emplace" /\ entry = Empty /\ Inserting /\ Rest = {}
      /\ pc' = "idle" /\ rval' = None /\ request' = [key |-> NULL, value |-> NULL, put |-> FALSE]
      /\ UNCHANGED <<size, entry_count, max_size, entry, probe_idx, old, i, owned>>
  BY DEF IInv, Core, PutReturns, Inserting, Rest
<1>2. /\ request.key \in Key /\ request.value \in Value \cup {NULL} /\ NewEntry \in Entries
      /\ NewEntry.key = request.key /\ NewEntry.value = NULL
      /\ NewEntry.hash = s_hash_for(request.key)
  <2>1. request.key \in Key /\ request.value \in Value \cup {NULL}
    BY <1>1 DEF Type
  <2> QED BY <2>1, HashFacts, EntryFacts DEF NewEntry, Entries
<1>3. rval # None
  BY <1>1, <1>2, EntryFacts DEF Core, Requested
<1>4. rval \in Used(slots) /\ slots[rval] = NewEntry /\ rval \in 0 .. size - 1
  <2>1. slots[rval] = NewEntry /\ rval \in 0 .. size - 1
    BY <1>1, <1>3 DEF Core, Requested, Type, Slot
  <2> QED BY <1>1, <1>2, <2>1, Sizes, EntryFacts
<1> DEFINE w == [hash |-> s_hash_for(request.key), key |-> request.key, value |-> request.value]
<1>5. w \in Entries /\ w.hash = NewEntry.hash /\ w.key = request.key /\ w.value = request.value
  BY <1>2, HashFacts DEF Entries
<1>6. slots' = [slots EXCEPT ![rval] = w]
  <2>1. slots \in [0 .. size - 1 -> Entries \cup {Empty}]
    BY <1>1 DEF Type, Slot
  <2>2. CASE request.put
    <3>1. slots' = [slots EXCEPT ![rval].key = request.key, ![rval].value = request.value]
      BY <2>2 DEF PutReturns
    <3>2. [NewEntry EXCEPT !.key = request.key, !.value = request.value] = w
      <4> DEFINE f == [NewEntry EXCEPT !.key = request.key, !.value = request.value]
      <4>1. f \in Entries /\ f.hash = NewEntry.hash /\ f.key = request.key /\ f.value = request.value
        BY <1>2 DEF Entries
      <4> HIDE DEF f
      <4>2. f = w
        BY <1>2, <4>1 DEF Entries
      <4> QED BY <4>2 DEF f
    <3>3. slots' = [slots EXCEPT ![rval] = [NewEntry EXCEPT !.key = request.key, !.value = request.value]]
      BY <1>4, <2>1, <3>1
    <3> QED BY <3>2, <3>3
  <2>3. CASE ~request.put
    <3>1. request.value = NULL /\ w = NewEntry
      BY <1>1, <2>3 DEF Control, NewEntry
    <3>2. slots' = slots
      BY <2>3 DEF PutReturns
    <3> HIDE DEF w
    <3> QED BY <1>4, <2>1, <3>1, <3>2
  <2> QED BY <2>2, <2>3
<1> HIDE DEF w
<1>7. DOMAIN slots' = DOMAIN slots /\ slots'[rval] = w /\ \A j \in 0 .. size - 1 : j # rval => slots'[j] = slots[j]
  BY <1>1, <1>4, <1>6, Sizes
<1>8. \A j \in 0 .. size - 1 : slots'[j].hash = slots[j].hash
  BY <1>4, <1>5, <1>7
<1>9. Used(slots)' = Used(slots) /\ \A j \in Used(slots) : j \in 0 .. size - 1
  BY <1>1, <1>7, <1>8, Sizes DEF Used
<1>10. Slot' = Slot /\ max_load' = max_load /\ ~Inserting' /\ slots' \in [Slot -> Entries \cup {Empty}]
  BY <1>1, <1>5, <1>6 DEF Slot, max_load, Inserting, Type
<1>11. Type' /\ Control'
  <2>1. request' \in [key : Key, value : Value \cup {NULL}, put : BOOLEAN]
        /\ request'.put = FALSE /\ request'.value = NULL
    BY <1>1, HashTableAssumption
  <2> QED BY <1>1, <1>10, <2>1 DEF Type, Control
<1>12. entry_count' = Cardinality(Used(slots)) /\ entry_count' <= max_load' /\ probe_idx' \in 0 .. size' - 1
  <2>1. Cardinality(Rest) = 0 /\ Cardinality(Used(slots)) \in Nat
    BY <1>1, FS_EmptySet, Finite
  <2>2. entry_count = Cardinality(Used(slots)) + Cardinality(Rest) + 0 /\ entry_count <= max_load
        /\ probe_idx \in 0 .. size - 1
    BY <1>1 DEF Core, Count, Order
  <2> QED BY <1>1, <1>10, <2>1, <2>2
<1>13. RobinHood(slots, size)'
  <2>1. IsTable(slots, size) /\ RobinHood(slots, size)
    BY <1>1, TableFacts DEF Core, Order
  <2> QED BY <1>1, <1>8, <2>1, SameHashes
<1>14. \A j \in Used(slots) : slots'[j].hash = s_hash_for(slots'[j].key)
  BY <1>1, <1>2, <1>5, <1>7, <1>9 DEF Core, Hashed
<1>15. \A j, k \in Used(slots) : j # k => Apart(slots'[j], slots'[k])
  <2>1. \A j, k \in Used(slots) : j # k => Apart(slots[j], slots[k])
    BY <1>1 DEF Core, Unique
  <2>2. ASSUME NEW j \in Used(slots), j # rval PROVE Apart(slots[j], w) /\ Apart(w, slots[j])
    <3>1. ~Same(slots[j].key, request.key) /\ ~Same(request.key, slots[j].key)
      <4>1. ~Same(slots[j].key, NewEntry.key)
        BY <1>4, <2>1, <2>2 DEF Apart
      <4> QED BY <1>2, <4>1 DEF Same
    <3>2. slots[j].value = request.value => request.value = NULL
      BY <1>1 DEF Core, Requested
    <3> QED BY <1>5, <3>1, <3>2 DEF Apart
  <2> QED BY <1>4, <1>7, <1>9, <2>1, <2>2
<1>16. ASSUME NEW o \in (Key \cup Value) \ {NULL}
       PROVE  owned'[o] = IF \E j \in Used(slots) : Has(slots'[j], o) THEN 1 ELSE 0
  <2>1. Kept(o) <=> request.value = o \/ \E j \in Used(slots) : Has(slots[j], o)
    BY <1>1 DEF Kept
  <2>2. (\E j \in Used(slots) : Has(slots'[j], o)) <=>
           \/ request.key = o \/ request.value = o
           \/ \E j \in Used(slots) : j # rval /\ Has(slots[j], o)
    BY <1>4, <1>5, <1>7, <1>9 DEF Has
  <2>3. Has(slots[rval], o) <=> request.key = o
    BY <1>2, <1>4 DEF Has
  <2>4. Kept(o) <=> \E j \in Used(slots) : Has(slots'[j], o)
    BY <1>4, <2>1, <2>2, <2>3
  <2> QED BY <1>1, <2>4 DEF Core, Owns
<1>17. Core'
  BY <1>9, <1>11, <1>10, <1>12, <1>13, <1>14, <1>15, <1>16, QuietInvNext DEF QuietState
<1> QED BY <1>4, <1>6, <1>9, <1>17 DEF w

\* The entry in flight passes by, or takes the slot of one that is nearer to its home and
\* then is in flight itself.
LEMMA EmplaceCore ==
  ASSUME IInv, s_emplace_item
  PROVE  Core'
<1> DEFINE n == size
           h == entry.hash
           p == probe_idx
           at == Turn(n, (h % n) + p)
           last == Back(n, at, 1)
<1>1. Core /\ Type /\ Control /\ Count /\ Order /\ entry # Empty /\ Inserting /\ entry \in Entries
  BY DEF IInv, Core, s_emplace_item, Control, Type
<1>2. /\ n \in Nat /\ n >= 2 /\ IsTable(slots, n) /\ RobinHood(slots, n) /\ h \in Nat /\ h # 0
      /\ p \in 0 .. n - 1 /\ Arriving(slots, n, h, p) /\ h % n \in 0 .. n - 1
  <2>1. /\ n \in Nat /\ n >= 2 /\ IsTable(slots, n) /\ RobinHood(slots, n) /\ h \in Nat /\ h # 0
        /\ p \in 0 .. n - 1 /\ Arriving(slots, n, h, p)
    BY <1>1, Sizes, TableFacts, EntryFacts DEF Order
  <2>2. h % n \in 0 .. n - 1
    BY <2>1, Steps
  <2> QED BY <2>1, <2>2
<1>3. at \in 0 .. n - 1 /\ last \in 0 .. n - 1 /\ last # at
  BY <1>2 DEF Turn, Back
<1>4. Masked(entry.hash + probe_idx) = at /\ ProbeOf(at) = Probe(slots, n, at)
      /\ Probe(slots, n, at) \in 0 .. n - 1
  <2>1. probe_idx \in 0 .. size
    BY <1>2
  <2> QED BY <1>1, <1>2, <1>3, <2>1, Names, Distances
<1>5. /\ UNCHANGED <<size, entry_count, max_size, pc, request, old, i, owned>>
      /\ Slot' = Slot /\ max_load' = max_load /\ Rest' = Rest /\ Inserting' /\ NewEntry' = NewEntry
      /\ Slot = 0 .. n - 1
  BY <1>1 DEF s_emplace_item, Slot, max_load, Rest, Used, Inserting, NewEntry
<1>6. Used(slots) = {j \in 0 .. n - 1 : slots[j].hash # 0} /\ DOMAIN slots = 0 .. n - 1
      /\ \A j \in 0 .. n - 1 : slots[j] \in Entries \cup {Empty}
  BY <1>1, Sizes
\* The slots from that of the new element up to the one before this slot are in use.
<1>7. ASSUME pc = "emplace", rval # None
      PROVE  /\ rval \in 0 .. n - 1 /\ slots[rval] = NewEntry /\ at # rval
             /\ \A j \in 0 .. n - 1 : Back(n, j, rval) <= Back(n, at, rval) /\ j # at => slots[j].hash # 0
  <2>1. rval \in 0 .. n - 1 /\ slots[rval] = NewEntry
        /\ \A j \in 0 .. n - 1 : Back(n, j, rval) <= Back(n, last, rval) => slots[j].hash # 0
    BY <1>1, <1>5, <1>7 DEF Core, Requested, Type
  <2> HIDE DEF at, last
  <2>2. last = Back(n, at, 1)
    BY DEF last
  <2>3. at # rval
    <3>1. SUFFICES ASSUME at = rval PROVE FALSE
      OBVIOUS
    <3>2. \A j \in 0 .. n - 1 : Back(n, j, rval) <= Back(n, last, rval)
      BY <1>2, <1>3, <2>1, <2>2, <3>1 DEF Back
    <3> QED BY <1>2, <2>1, <3>2 DEF IsTable
  <2>4. \A j \in 0 .. n - 1 : Back(n, j, rval) <= Back(n, at, rval) /\ j # at => Back(n, j, rval) <= Back(n, last, rval)
    BY <1>2, <1>3, <2>1, <2>2, <2>3 DEF Back
  <2> QED BY <2>1, <2>3, <2>4
<1>8. CASE ~(slots[at].hash = 0 \/ Probe(slots, n, at) < p)
  <2>1. probe_idx' = p + 1 /\ UNCHANGED <<slots, entry, rval>>
    BY <1>4, <1>8 DEF s_emplace_item
  <2>2. slots[at].hash # 0 /\ Probe(slots, n, at) >= p
    BY <1>2, <1>4, <1>8
  <2>3. Arriving(slots, n, h, p + 1) /\ p + 1 \in 0 .. n - 1
    <3>1. Arriving(slots, n, h, p + 1) /\ p + 1 <= n - 1
      BY <1>2, <2>2, PassKeeps
    <3> QED BY <1>2, <3>1
  <2>4. Used(slots)' = Used(slots)
    BY <2>1 DEF Used
  <2>5. Type' /\ Control'
    BY <1>1, <1>5, <2>1 DEF Core, Type, Control
  <2>6. Count' /\ Order' /\ Hashed' /\ Unique'
    <3>1. Count'
      BY <1>1, <1>5, <2>1, <2>4 DEF Count
    <3>2. Order'
      BY <1>2, <1>5, <2>1, <2>3 DEF Order
    <3> QED BY <1>1, <1>5, <2>1, <2>4, <3>1, <3>2 DEF Core, Hashed, Unique
  <2>7. Requested'
    <3>1. CASE pc = "expand"
      BY <1>1, <1>5, <2>1, <2>4, <3>1 DEF Core, Requested
    <3>2. CASE pc = "emplace"
      <4>1. Back(n, Turn(n, (h % n) + (p + 1)), 1) = at
        <5> DEFINE b == h % n
        <5>1. b \in 0 .. n - 1
          BY <1>2
        <5> HIDE DEF b
        <5>2. Back(n, Turn(n, b + (p + 1)), 1) = Turn(n, b + p)
          BY <1>2, <2>3, <5>1 DEF Back, Turn
        <5> QED BY <5>2 DEF b
      <4>2. rval # None => \A j \in Slot : Back(n, j, rval) <= Back(n, at, rval) => slots[j].hash # 0
        BY <1>5, <1>7, <2>2, <3>2
      <4>3. /\ \A j \in Used(slots) : slots[j].value = request.value => request.value = NULL
            /\ entry.value = request.value => request.value = NULL
            /\ rval = None => entry = NewEntry
            /\ rval # None => slots[rval] = NewEntry
        BY <1>1, <3>2 DEF Core, Requested
      <4> QED BY <1>5, <2>1, <2>4, <3>2, <4>1, <4>2, <4>3 DEF Requested
    <3> QED BY <1>1, <3>1, <3>2 DEF Inserting
  <2>8. Owns'
    BY <1>1, <1>5, <2>1, <2>4 DEF Core, Owns, Kept
  <2> QED BY <2>5, <2>6, <2>7, <2>8 DEF Core
<1>9. CASE slots[at].hash = 0 \/ Probe(slots, n, at) < p
  <2> DEFINE v == slots[at]
  <2>1. /\ slots' = [slots EXCEPT ![at] = entry] /\ entry' = v
        /\ rval' = (IF rval = None THEN at ELSE rval)
        /\ probe_idx' = (IF v.hash = 0 THEN 0 ELSE Probe(slots, n, at) + 1)
    BY <1>4, <1>9 DEF s_emplace_item
  <2>2. /\ RobinHood(slots', n)
        /\ v.hash # 0 => /\ Arriving(slots', n, v.hash, Probe(slots, n, at) + 1)
                         /\ Probe(slots, n, at) + 1 <= n - 1
    BY <1>1, <1>2, <1>9, <2>1, PlaceKeeps
  <2>3. v \in Entries \cup {Empty} /\ (v = Empty <=> v.hash = 0) /\ (at \in Used(slots) <=> v # Empty)
    BY <1>3, <1>6, EntryFacts
  <2>4. Probe(slots, n, at) = Back(n, at, v.hash % n)
    BY DEF Probe
  <2> HIDE DEF at, last
  <2>5. DOMAIN slots' = 0 .. n - 1 /\ slots'[at] = entry /\ \A j \in 0 .. n - 1 : j # at => slots'[j] = slots[j]
    BY <1>3, <1>6, <2>1
  <2>6. Used(slots)' = Used(slots) \cup {at}
    BY <1>2, <1>3, <1>6, <2>5 DEF Used
  <2>7. \A j \in Used(slots)' : (j = at /\ slots'[j] = entry) \/ (j \in Used(slots) /\ j # at /\ slots'[j] = slots[j])
    <3>1. \A j \in Used(slots) : j \in 0 .. n - 1
      BY <1>6
    <3>2. ASSUME NEW j \in Used(slots)', j # at PROVE j \in Used(slots) /\ slots'[j] = slots[j]
      <4>1. j \in Used(slots)
        BY <2>6, <3>2
      <4> QED BY <2>5, <3>1, <3>2, <4>1
    <3> QED BY <2>5, <3>2
  <2>8. Type' /\ Control'
    <3>1. slots' \in [Slot -> Entries \cup {Empty}]
      BY <1>1, <2>1 DEF Type
    <3>2. rval' \in Slot \cup {None}
      BY <1>1, <1>3, <1>5, <2>1 DEF Type
    <3> QED BY <1>1, <1>5, <2>1, <2>3, <3>1, <3>2 DEF Type, Control
  <2>9. Count'
    <3>1. IsFiniteSet(Used(slots)) /\ Cardinality(Used(slots)) \in Nat /\ Cardinality(Rest) \in Nat
      BY <1>1, Finite
    <3>2. Cardinality(Used(slots)') + Cardinality(Rest) + (IF entry' = Empty THEN 0 ELSE 1)
             = Cardinality(Used(slots)) + Cardinality(Rest) + 1
      <4>1. CASE at \in Used(slots)
        <5>1. Used(slots)' = Used(slots) /\ entry' # Empty
          BY <2>1, <2>3, <2>6, <4>1
        <5>2. Cardinality(Used(slots)') = Cardinality(Used(slots))
          BY <5>1
        <5> QED BY <5>1, <5>2
      <4>2. CASE at \notin Used(slots)
        <5>1. Cardinality(Used(slots)') = Cardinality(Used(slots)) + 1 /\ entry' = Empty
          BY <2>1, <2>3, <2>6, <3>1, <4>2, FS_AddElement
        <5> QED BY <3>1, <5>1
      <4> QED BY <4>1, <4>2
    <3>3. entry_count = Cardinality(Used(slots)) + Cardinality(Rest) + 1 /\ entry_count <= max_load
          /\ (pc = "expand" => entry_count + 1 <= max_load)
      BY <1>1 DEF Count
    <3>4. entry_count' = Cardinality(Used(slots)') + Cardinality(Rest) + (IF entry' = Empty THEN 0 ELSE 1)
      BY <1>5, <3>2, <3>3
    <3> QED BY <1>5, <3>3, <3>4 DEF Count
  <2>10. Order'
    <3>1. CASE v.hash = 0
      <4>1. probe_idx' \in 0 .. n - 1 /\ entry' = Empty
        BY <1>2, <2>1, <2>3, <3>1
      <4> QED BY <1>5, <2>2, <4>1 DEF Order
    <3>2. CASE v.hash # 0
      <4>1. probe_idx' \in 0 .. n - 1
        BY <1>2, <1>4, <2>1, <2>2, <3>2
      <4> QED BY <1>5, <2>1, <2>2, <3>2, <4>1 DEF Order
    <3> QED BY <3>1, <3>2
  <2>11. Hashed'
    <3>1. /\ \A j \in Used(slots) : slots[j].hash = s_hash_for(slots[j].key)
          /\ \A j \in Rest : old[j].hash = s_hash_for(old[j].key)
          /\ entry.hash = s_hash_for(entry.key)
      BY <1>1 DEF Core, Hashed
    <3> QED BY <1>5, <2>1, <2>3, <2>7, <3>1 DEF Hashed
  <2>12. Unique'
    <3>1. /\ \A j, k \in Used(slots) : j # k => Apart(slots[j], slots[k])
          /\ \A j, k \in Rest : j # k => Apart(old[j], old[k])
          /\ \A j \in Used(slots), k \in Rest : Apart(slots[j], old[k])
          /\ \A j \in Used(slots) : Apart(slots[j], entry)
          /\ \A j \in Rest : Apart(old[j], entry)
      BY <1>1 DEF Core, Unique
    <3>2. \A e, f : Apart(e, f) => Apart(f, e)
      BY DEF Apart, Same
    <3>3. \A j, k \in Used(slots)' : j # k => Apart(slots'[j], slots'[k])
      BY <2>7, <3>1, <3>2
    <3>4. \A j \in Used(slots)', k \in Rest : Apart(slots'[j], old[k])
      BY <2>7, <3>1, <3>2
    <3>5. ASSUME v # Empty
          PROVE  /\ \A j \in Used(slots)' : Apart(slots'[j], v)
                 /\ \A j \in Rest : Apart(old[j], v)
      BY <2>3, <2>7, <3>1, <3>2, <3>5
    <3> HIDE DEF v
    <3> QED BY <1>5, <2>1, <3>1, <3>3, <3>4, <3>5 DEF Unique
  <2>13. Requested'
    <3>1. CASE pc = "expand"
      <4>1. /\ \A j \in Used(slots) : Apart(slots[j], request)
            /\ \A j \in Rest : Apart(old[j], request)
            /\ Apart(entry, request)
        BY <1>1, <3>1 DEF Core, Requested
      <4>2. /\ \A j \in Used(slots)' : Apart(slots'[j], request)
            /\ v # Empty => Apart(v, request)
        BY <2>3, <2>7, <4>1
      <4> HIDE DEF v
      <4> QED BY <1>5, <2>1, <3>1, <4>1, <4>2 DEF Requested
    <3>2. CASE pc = "emplace"
      <4>1. /\ \A j \in Used(slots) : slots[j].value = request.value => request.value = NULL
            /\ entry.value = request.value => request.value = NULL
            /\ rval = None => entry = NewEntry
        BY <1>1, <3>2 DEF Core, Requested
      <4>2. /\ \A j \in Used(slots)' : slots'[j].value = request.value => request.value = NULL
            /\ v # Empty => (v.value = request.value => request.value = NULL)
        BY <2>3, <2>7, <4>1
      <4>3. rval' # None /\ slots'[rval'] = NewEntry
        <5>1. CASE rval = None
          <6>1. at # None
            BY <1>1, <1>3, <1>5, Sizes
          <6> QED BY <2>1, <2>5, <4>1, <5>1, <6>1
        <5>2. CASE rval # None
          BY <1>7, <2>1, <2>5, <3>2, <5>2
        <5> QED BY <5>1, <5>2
      <4>4. \A j \in 0 .. n - 1 : Back(n, j, rval') <= Back(n, at, rval') => slots'[j].hash # 0
        <5>1. slots'[at].hash # 0
          BY <1>2, <2>5
        <5>2. CASE rval = None
          <6>1. \A j \in 0 .. n - 1 : Back(n, j, at) <= Back(n, at, at) => j = at
            BY <1>2, <1>3 DEF Back
          <6> QED BY <2>1, <5>1, <5>2, <6>1
        <5>3. CASE rval # None
          <6>1. \A j \in 0 .. n - 1 : Back(n, j, rval) <= Back(n, at, rval) /\ j # at => slots[j].hash # 0
            BY <1>7, <3>2, <5>3
          <6> QED BY <2>1, <2>5, <5>1, <5>3, <6>1
        <5> QED BY <5>2, <5>3
      <4>5. v # Empty => Back(n, Turn(n, (v.hash % n) + probe_idx'), 1) = at
        <5> SUFFICES ASSUME v # Empty PROVE Back(n, Turn(n, (v.hash % n) + probe_idx'), 1) = at
          OBVIOUS
        <5> DEFINE b == v.hash % n
                   d == Probe(slots, n, at)
        <5>1. b \in 0 .. n - 1 /\ d \in 0 .. n - 1 /\ d = Back(n, at, b) /\ probe_idx' = d + 1
          <6>1. v.hash \in Nat
            BY <2>3, EntryFacts
          <6>2. b \in 0 .. n - 1
            BY <1>2, <6>1, Steps
          <6> QED BY <1>4, <2>1, <2>3, <2>4, <6>2
        <5> HIDE DEF b, d, v
        <5>2. Back(n, Turn(n, b + (d + 1)), 1) = at
          BY <1>2, <1>3, <5>1 DEF Back, Turn
        <5> QED BY <5>1, <5>2 DEF b
      <4> HIDE DEF v
      <4> QED BY <1>5, <2>1, <3>2, <4>2, <4>3, <4>4, <4>5 DEF Requested
    <3> QED BY <1>1, <3>1, <3>2 DEF Inserting
  <2>14. Owns'
    <3>1. ASSUME NEW o PROVE Kept(o)' <=> Kept(o)
      <4>1. Kept(o) <=> \/ \E j \in Used(slots) : Has(slots[j], o)
                        \/ \E j \in Rest : Has(old[j], o)
                        \/ Has(entry, o)
                        \/ pc = "expand" /\ request.key = o
                        \/ request.value = o
        BY <1>1 DEF Kept
      <4>2. Kept(o)' <=> \/ \E j \in Used(slots)' : Has(slots'[j], o)
                         \/ \E j \in Rest : Has(old[j], o)
                         \/ v # Empty /\ Has(v, o)
                         \/ pc = "expand" /\ request.key = o
                         \/ request.value = o
        BY <1>5, <2>1 DEF Kept
      <4>3. (\E j \in Used(slots)' : Has(slots'[j], o)) \/ (v # Empty /\ Has(v, o)) <=>
              (\E j \in Used(slots) : Has(slots[j], o)) \/ Has(entry, o)
        <5>1. \A j \in Used(slots) : (j = at /\ v # Empty) \/ (j \in Used(slots)' /\ slots'[j] = slots[j])
          <6>1. \A j \in Used(slots) : j \in 0 .. n - 1
            BY <1>6
          <6>2. \A j \in Used(slots) : j # at => slots'[j] = slots[j] /\ j \in Used(slots)'
            BY <2>5, <2>6, <6>1
          <6>3. ASSUME NEW j \in Used(slots), j = at PROVE v # Empty
            BY <2>3, <6>3
          <6> QED BY <6>2, <6>3
        <5>2. at \in Used(slots)' /\ slots'[at] = entry
          BY <2>5, <2>6
        <5> QED BY <2>3, <2>7, <5>1, <5>2
      <4> QED BY <4>1, <4>2, <4>3
    <3> QED BY <1>1, <1>5, <3>1 DEF Core, Owns
  <2> QED BY <2>8, <2>9, <2>10, <2>11, <2>12, <2>13, <2>14 DEF Core
<1> QED BY <1>8, <1>9

----------------------------------------------------------------------------
(* Iterating                                                               *)

\* size_t wraps around.
LEMMA Wrap ==
  \A x \in 0 .. SIZE_MAX :
     /\ (x + 1) % (SIZE_MAX + 1) = (IF x = SIZE_MAX THEN 0 ELSE x + 1)
     /\ (x + SIZE_MAX) % (SIZE_MAX + 1) = (IF x = 0 THEN SIZE_MAX ELSE x - 1)
<1> SUFFICES ASSUME NEW x \in 0 .. SIZE_MAX
             PROVE  /\ (x + 1) % (SIZE_MAX + 1) = (IF x = SIZE_MAX THEN 0 ELSE x + 1)
                    /\ (x + SIZE_MAX) % (SIZE_MAX + 1) = (IF x = 0 THEN SIZE_MAX ELSE x - 1)
  OBVIOUS
<1> DEFINE n == SIZE_MAX + 1
<1>1. SIZE_MAX \in Nat /\ n \in Nat /\ n > 0
  BY HashTableAssumption
<1>2. x \in 0 .. n - 1 /\ 1 \in 0 .. n /\ SIZE_MAX \in 0 .. n /\ n = SIZE_MAX + 1
  BY <1>1
<1> HIDE DEF n
<1>3. (x + 1) % n = Turn(n, x + 1) /\ (x + SIZE_MAX) % n = Turn(n, x + SIZE_MAX)
  BY <1>1, <1>2, SmallSteps, Zenon
<1>4. Turn(n, x + 1) = (IF x = SIZE_MAX THEN 0 ELSE x + 1)
  BY <1>1, <1>2 DEF Turn
<1>5. Turn(n, x + SIZE_MAX) = (IF x = 0 THEN SIZE_MAX ELSE x - 1)
  BY <1>1, <1>2 DEF Turn
<1> QED BY <1>3, <1>4, <1>5 DEF n

\* s_get_next_element offers one of the elements ahead, or there is none.
LEMMA MovedIter ==
  ASSUME Core, pc = "idle", UNCHANGED <<slots, size, pc>>,
         NEW limit \in 0 .. size, NEW start \in Nat,
         NEW R, R = {j \in Used(slots) : start <= j /\ j < limit},
         NEW V, V \subseteq Key \X {0}, \A j \in R : <<slots[j].key, 0>> \notin V,
         iter' = s_get_next_element(limit, start),
         visited' = V \cup (IF iter'.status = "READY_FOR_USE" THEN {<<slots[iter'.slot].key, 0>>} ELSE {}),
         expected' = V \cup {<<slots[j].key, 0>> : j \in R}
  PROVE  Iterating'
<1>1. size \in Nat /\ SIZE_MAX \in Nat /\ size < SIZE_MAX /\ Used(slots) = {j \in 0 .. size - 1 : slots[j].hash # 0}
      /\ (\A j \in Used(slots) : slots[j].key \in Key) /\ Used(slots)' = Used(slots)
  BY Sizes, EntryFacts DEF Core, Used
<1>2. limit \in 0 .. SIZE_MAX /\ R \in SUBSET Nat
  BY <1>1
<1>3. CASE R # {}
  <2> DEFINE m == Min(R)
  <2>1. m \in R /\ \A j \in R : m <= j
    BY <1>2, <1>3, MinIsLeast
  <2>2. iter' = [status |-> "READY_FOR_USE", slot |-> m, limit |-> limit]
    BY <1>3 DEF s_get_next_element
  <2> HIDE DEF m
  <2>3. iter'.status = "READY_FOR_USE" /\ iter'.slot = m /\ iter'.limit = limit
    BY <2>2
  <2>4. m \in Used(slots) /\ m \in 0 .. size - 1 /\ m < limit /\ slots[m].hash # 0 /\ m \in 0 .. SIZE_MAX /\ m # SIZE_MAX
    <3>1. m \in Used(slots) /\ m < limit
      BY <2>1
    <3> QED BY <1>1, <3>1
  <2>5. Ahead' = m + 1
    BY <2>3, <2>4, Wrap DEF Ahead
  <2>6. Pending' = R \ {m}
    <3>1. Pending' = {j \in Used(slots) : m + 1 <= j /\ j < limit}
      BY <1>1, <2>3, <2>5 DEF Pending
    <3>2. ASSUME NEW j \in Used(slots) PROVE (m + 1 <= j /\ j < limit) <=> (start <= j /\ j < limit /\ j # m)
      <4>1. start <= m /\ j \in Nat /\ m \in Nat
        BY <1>1, <2>1, <2>4
      <4>2. start <= j /\ j < limit => m <= j
        BY <2>1
      <4> QED BY <1>1, <4>1, <4>2
    <3> QED BY <3>1, <3>2
  <2>7. visited' = V \cup {<<slots[m].key, 0>>}
    BY <2>3
  <2>8. iter' \in [status : {"NONE", "DONE", "DELETE_CALLED", "READY_FOR_USE"}, slot : 0 .. SIZE_MAX, limit : 0 .. size]
    BY <2>2, <2>4
  <2>9. visited' \subseteq Key \X {0}
    BY <1>1, <2>4, <2>7
  <2>10. expected' = visited' \cup {<<slots[j].key, 0>> : j \in R \ {m}}
    BY <2>1, <2>7
  <2>11. ASSUME NEW j \in R \ {m} PROVE <<slots[j].key, 0>> \notin visited'
    <3>1. slots[j].key # slots[m].key
      <4>1. ~Same(slots[j].key, slots[m].key)
        BY <2>4 DEF Core, Unique, Apart
      <4> QED BY <4>1 DEF Same
    <3> QED BY <2>7, <3>1
  <2> QED BY <1>1, <2>3, <2>4, <2>6, <2>8, <2>9, <2>10, <2>11 DEF Iterating
<1>4. CASE R = {}
  <2>1. iter' = [status |-> "DONE", slot |-> limit, limit |-> limit]
    BY <1>4 DEF s_get_next_element
  <2>2. iter'.status = "DONE" /\ iter'.slot = limit /\ iter'.limit = limit
    BY <2>1
  <2>3. Ahead' = limit + 1
    <3>1. limit # SIZE_MAX
      BY <1>1
    <3> QED BY <1>2, <2>2, <3>1, Wrap DEF Ahead
  <2>4. Pending' = {}
    <3>1. Pending' = {j \in Used(slots) : limit + 1 <= j /\ j < limit}
      BY <1>1, <2>2, <2>3 DEF Pending
    <3> QED BY <1>1, <3>1
  <2>5. visited' = V /\ expected' = V
    BY <1>4, <2>2
  <2>6. iter' \in [status : {"NONE", "DONE", "DELETE_CALLED", "READY_FOR_USE"}, slot : 0 .. SIZE_MAX, limit : 0 .. size]
    BY <1>2, <2>1
  <2> QED BY <2>2, <2>4, <2>5, <2>6 DEF Iterating
<1> QED BY <1>3, <1>4

\* An iteration begins.
LEMMA BeginIter ==
  ASSUME IInv, aws_hash_iter_begin
  PROVE  Iterating'
<1>1. Core /\ pc = "idle" /\ UNCHANGED <<slots, size, pc>>
  BY DEF IInv, aws_hash_iter_begin, Idle, tableVars, localVars
<1>2. size \in 0 .. size /\ Used(slots) = {j \in Used(slots) : 0 <= j /\ j < size} /\ 0 \in Nat
  <2>1. size \in Nat /\ \A j \in Used(slots) : j \in 0 .. size - 1
    BY <1>1, Sizes DEF Core
  <2> QED BY <2>1
<1>3. /\ iter' = s_get_next_element(size, 0)
      /\ visited' = {} \cup (IF iter'.status = "READY_FOR_USE" THEN {<<slots[iter'.slot].key, 0>>} ELSE {})
      /\ expected' = {} \cup {<<slots[j].key, 0>> : j \in Used(slots)}
  BY DEF aws_hash_iter_begin
<1>4. {} \subseteq Key \X {0} /\ \A j \in Used(slots) : <<slots[j].key, 0>> \notin {}
  OBVIOUS
<1> DEFINE R == Used(slots)
           V == {}
<1>5. /\ R = {j \in Used(slots) : 0 <= j /\ j < size}
      /\ V \subseteq Key \X {0} /\ \A j \in R : <<slots[j].key, 0>> \notin V
      /\ visited' = V \cup (IF iter'.status = "READY_FOR_USE" THEN {<<slots[iter'.slot].key, 0>>} ELSE {})
      /\ expected' = V \cup {<<slots[j].key, 0>> : j \in R}
  BY <1>2, <1>3, <1>4
<1> HIDE DEF R, V
<1> QED BY <1>1, <1>2, <1>3, <1>5, MovedIter

\* aws_hash_iter_next offers a key for the first time.
LEMMA NextIter ==
  ASSUME IInv, aws_hash_iter_next
  PROVE  Iterating'
<1>1. Core /\ Iterating /\ pc = "idle" /\ UNCHANGED <<slots, size, pc, expected>> /\ iter.status # "NONE"
  BY DEF IInv, Iterating, aws_hash_iter_next, tableVars, localVars
<1>2. iter.limit \in 0 .. size /\ Ahead \in Nat
  <2>1. iter.slot \in 0 .. SIZE_MAX /\ iter.limit \in 0 .. size /\ SIZE_MAX \in Nat
    BY <1>1, HashTableAssumption DEF Iterating
  <2>2. Ahead = (IF iter.slot = SIZE_MAX THEN 0 ELSE iter.slot + 1)
    BY <2>1, Wrap DEF Ahead
  <2> QED BY <2>1, <2>2
<1>3. iter' = s_get_next_element(iter.limit, Ahead)
  BY DEF aws_hash_iter_next, Ahead
<1>4. /\ visited \subseteq Key \X {0}
      /\ expected = visited \cup {<<slots[j].key, 0>> : j \in Pending}
      /\ \A j \in Pending : <<slots[j].key, 0>> \notin visited
  BY <1>1 DEF Iterating
<1>5. iter'.status = "READY_FOR_USE" => iter'.slot \in Pending
  <2>1. SUFFICES ASSUME iter'.status = "READY_FOR_USE" PROVE iter'.slot \in Pending
    OBVIOUS
  <2>2. Pending # {} /\ iter'.slot = Min(Pending)
    BY <1>3, <2>1 DEF s_get_next_element, Pending
  <2>3. Pending \in SUBSET Nat
    BY <1>1, Sizes DEF Core, Pending
  <2> QED BY <2>2, <2>3, MinIsLeast
<1>6. visited' = visited \cup (IF iter'.status = "READY_FOR_USE" THEN {<<slots[iter'.slot].key, 0>>} ELSE {})
  <2>1. visited' = visited \cup Visit(iter')
    BY DEF aws_hash_iter_next
  <2>2. CASE iter'.status = "READY_FOR_USE"
    <3> DEFINE k == slots[iter'.slot].key
               B == {q \in visited : q[1] = k}
    <3>1. <<k, 0>> \notin visited
      BY <1>4, <1>5, <2>2
    <3>2. B = {}
      BY <1>4, <3>1
    <3>3. Cardinality(B) = 0
      BY <3>2, FS_EmptySet
    <3>4. Visit(iter') = {<<k, t>> : t \in {Cardinality(B)}}
      BY <2>2 DEF Visit
    <3> HIDE DEF B
    <3>5. Visit(iter') = {<<k, 0>>}
      BY <3>3, <3>4
    <3> QED BY <2>1, <2>2, <3>5
  <2>3. CASE iter'.status # "READY_FOR_USE"
    BY <2>1, <2>3 DEF Visit
  <2> QED BY <2>2, <2>3
<1>7. Pending = {j \in Used(slots) : Ahead <= j /\ j < iter.limit}
  BY DEF Pending
<1>8. expected' = visited \cup {<<slots[j].key, 0>> : j \in Pending}
  BY <1>1, <1>4
<1> HIDE DEF Pending, Ahead
<1> QED BY <1>1, <1>2, <1>3, <1>4, <1>6, <1>7, <1>8, MovedIter

\* What is pending after the shift came from what was pending before it.
LEMMA DeletePending ==
  ASSUME NEW n \in Nat, n >= 2, NEW a \in 0 .. n - 1, NEW limit \in 0 .. n, a < limit,
         NEW c \in 0 .. n - 2, NEW j \in 0 .. n - 1, j # Turn(n, a + c),
         NEW lower, lower = IF Turn(n, a + c) < a \/ Turn(n, a + c) >= limit THEN limit - 1 ELSE limit
  PROVE  /\ lower \in 0 .. n /\ a <= lower
         /\ (a <= j /\ j < lower) <=> (a + 1 <= From(n, a, c, j) /\ From(n, a, c, j) < limit)
BY DEF From, Turn, Back

\* aws_hash_iter_delete keeps what it has not offered yet, and only that, ahead.
LEMMA DeleteIter ==
  ASSUME IInv, aws_hash_iter_delete
  PROVE  Iterating'
<1> DEFINE a == iter.slot
           n == size
           c == Shifts(a)
           limit == iter.limit
           lower == IF Turn(n, a + c) < a \/ Turn(n, a + c) >= limit THEN limit - 1 ELSE limit
           z == slots'
<1>1. Core /\ Iterating /\ iter.status = "READY_FOR_USE" /\ pc = "idle"
      /\ slots' = s_remove_entry(a) /\ UNCHANGED <<size, pc, visited, expected>>
  BY DEF IInv, aws_hash_iter_delete, Iterating, localVars
<1>2. /\ n \in Nat /\ n >= 2 /\ SIZE_MAX \in Nat /\ n < SIZE_MAX /\ IsTable(slots, n)
      /\ Used(slots) = {j \in 0 .. n - 1 : slots[j].hash # 0}
  BY <1>1, Sizes, TableFacts DEF Core
<1>3. a \in 0 .. n - 1 /\ limit \in 0 .. n /\ a < limit /\ slots[a].hash # 0 /\ a \in Used(slots) /\ a \in 0 .. SIZE_MAX
  <2>1. a \in 0 .. SIZE_MAX /\ limit \in 0 .. n /\ a < limit /\ slots[a].hash # 0
    BY <1>1 DEF Iterating
  <2> QED BY <1>2, <2>1
<1>4. c \in 0 .. n - 2 /\ Run(slots, n, a, c) /\ z = Shifted(slots, n, a, c) /\ last_index(a) = Turn(n, a + c)
  BY <1>1, <1>3, RemoveFacts
<1>5. iter' = [status |-> "DELETE_CALLED", slot |-> (a + SIZE_MAX) % (SIZE_MAX + 1), limit |-> lower]
  BY <1>4 DEF aws_hash_iter_delete
<1> HIDE DEF z, n, c, a, limit, lower
<1>6. Removed(slots, n, a, c, z)
  BY <1>2, <1>3, <1>4, ShiftedFrom, Zenon
<1>7. Used(slots)' = {j \in 0 .. n - 1 : z[j].hash # 0}
  <2>1. DOMAIN z = 0 .. n - 1
    BY <1>6 DEF Removed
  <2> QED BY <2>1 DEF Used, z
<1>8. /\ iter'.status = "DELETE_CALLED" /\ iter'.limit = lower
      /\ iter'.slot = (IF a = 0 THEN SIZE_MAX ELSE a - 1) /\ iter'.slot \in 0 .. SIZE_MAX
  <2>1. (a + SIZE_MAX) % (SIZE_MAX + 1) = (IF a = 0 THEN SIZE_MAX ELSE a - 1)
    BY <1>3, Wrap
  <2>2. (IF a = 0 THEN SIZE_MAX ELSE a - 1) \in 0 .. SIZE_MAX
    BY <1>2, <1>3
  <2> QED BY <1>5, <2>1, <2>2
<1>9. Ahead' = a
  <2>1. Ahead' = (IF iter'.slot = SIZE_MAX THEN 0 ELSE iter'.slot + 1)
    BY <1>8, Wrap DEF Ahead
  <2> QED BY <1>2, <1>3, <1>8, <2>1
<1>10. lower \in 0 .. n /\ a <= lower
  BY <1>2, <1>3, <1>4 DEF lower, Turn
<1>11. \A j \in 0 .. n - 1 : z[j].hash # 0 =>
          /\ From(n, a, c, j) \in Used(slots) /\ z[j] = slots[From(n, a, c, j)]
          /\ (a <= j /\ j < lower) <=> (a + 1 <= From(n, a, c, j) /\ From(n, a, c, j) < limit)
  <2> SUFFICES ASSUME NEW j \in 0 .. n - 1, z[j].hash # 0
               PROVE  /\ From(n, a, c, j) \in Used(slots) /\ z[j] = slots[From(n, a, c, j)]
                      /\ (a <= j /\ j < lower) <=> (a + 1 <= From(n, a, c, j) /\ From(n, a, c, j) < limit)
    OBVIOUS
  <2>1. j # Turn(n, a + c) /\ From(n, a, c, j) \in 0 .. n - 1 /\ z[j] = slots[From(n, a, c, j)]
    BY <1>6 DEF Removed
  <2>2. (a <= j /\ j < lower) <=> (a + 1 <= From(n, a, c, j) /\ From(n, a, c, j) < limit)
    <3>1. lower = IF Turn(n, a + c) < a \/ Turn(n, a + c) >= limit THEN limit - 1 ELSE limit
      BY DEF lower
    <3>2. n \in Nat /\ n >= 2 /\ a \in 0 .. n - 1 /\ limit \in 0 .. n /\ a < limit /\ c \in 0 .. n - 2
      BY <1>2, <1>3, <1>4
    <3> QED BY <2>1, <3>1, <3>2, DeletePending
  <2> QED BY <1>2, <2>1, <2>2
<1>12. Pending' = {j \in Used(slots)' : a <= j /\ j < lower}
  BY <1>8, <1>9 DEF Pending
<1>13. Pending = {j \in Used(slots) : a + 1 <= j /\ j < limit}
  <2>1. a # SIZE_MAX
    BY <1>2, <1>3
  <2>2. Ahead = a + 1
    BY <1>3, <2>1, Wrap DEF Ahead, a
  <2> QED BY <2>2 DEF Pending, limit
<1>14. \A j \in Pending' : From(n, a, c, j) \in Pending /\ z[j] = slots[From(n, a, c, j)]
  <2> SUFFICES ASSUME NEW j \in Pending' PROVE From(n, a, c, j) \in Pending /\ z[j] = slots[From(n, a, c, j)]
    OBVIOUS
  <2>1. j \in 0 .. n - 1 /\ z[j].hash # 0 /\ a <= j /\ j < lower
    BY <1>7, <1>12
  <2> QED BY <1>11, <1>13, <2>1
<1>15. \A k \in Pending : \E j \in Pending' : From(n, a, c, j) = k
  <2> SUFFICES ASSUME NEW k \in Pending PROVE \E j \in Pending' : From(n, a, c, j) = k
    OBVIOUS
  <2>1. k \in 0 .. n - 1 /\ slots[k].hash # 0 /\ a + 1 <= k /\ k < limit
    BY <1>2, <1>13
  <2>2. k # a
    BY <1>3, <2>1
  <2>3. PICK j \in 0 .. n - 1 : z[j].hash # 0 /\ From(n, a, c, j) = k
    BY <1>6, <2>1, <2>2 DEF Removed
  <2>4. a <= j /\ j < lower
    BY <1>11, <2>1, <2>3
  <2> QED BY <1>7, <1>12, <2>3, <2>4
<1>16. {<<z[j].key, 0>> : j \in Pending'} = {<<slots[j].key, 0>> : j \in Pending}
  BY <1>14, <1>15
<1>17. /\ visited \subseteq Key \X {0}
       /\ expected = visited \cup {<<slots[j].key, 0>> : j \in Pending}
       /\ \A j \in Pending : <<slots[j].key, 0>> \notin visited
  BY <1>1 DEF Iterating
<1>18. /\ visited' \subseteq Key \X {0}
       /\ expected' = visited' \cup {<<slots'[j].key, 0>> : j \in Pending'}
       /\ \A j \in Pending' : <<slots'[j].key, 0>> \notin visited'
  <2>1. visited' = visited /\ expected' = expected
    BY <1>1
  <2>2. expected' = visited' \cup {<<slots'[j].key, 0>> : j \in Pending'}
    BY <1>16, <1>17, <2>1 DEF z
  <2>3. \A j \in Pending' : <<slots'[j].key, 0>> \notin visited'
    BY <1>14, <1>17, <2>1 DEF z
  <2> QED BY <1>17, <2>1, <2>2, <2>3
<1>19. iter' \in [status : {"NONE", "DONE", "DELETE_CALLED", "READY_FOR_USE"}, slot : 0 .. SIZE_MAX, limit : 0 .. size']
  <2>1. iter' = [status |-> iter'.status, slot |-> iter'.slot, limit |-> iter'.limit] /\ size' = n
    BY <1>1, <1>5 DEF n
  <2> QED BY <1>8, <1>10, <2>1
<1>20. iter'.slot <= iter'.limit \/ iter'.slot = SIZE_MAX
  BY <1>2, <1>3, <1>8, <1>10
<1> HIDE DEF Pending, Ahead
<1> QED BY <1>1, <1>8, <1>9, <1>10, <1>18, <1>19, <1>20 DEF Iterating

----------------------------------------------------------------------------
(* The theorems                                                            *)

\* The invariant holds at first.
LEMMA InitIInv == Init => IInv
<1> SUFFICES ASSUME Init PROVE IInv
  OBVIOUS
<1>1. /\ size \in Nat /\ size >= 2 /\ size <= max_size /\ max_size \in MaxSizes
      /\ Slot = 0 .. size - 1 /\ SIZE_MAX \in Nat
  BY HashTableAssumption DEF Init, Slot
<1>2. slots \in [Slot -> Entries \cup {Empty}] /\ Used(slots) = {} /\ RobinHood(slots, size)
  BY <1>1, EntryFacts DEF Init, Used, RobinHood
<1>3. request \in [key : Key, value : Value \cup {NULL}, put : BOOLEAN] /\ request.put = FALSE /\ request.value = NULL
  BY HashTableAssumption DEF Init
<1>4. Type /\ Control /\ ~Inserting
  BY <1>1, <1>2, <1>3 DEF Init, Type, Control, Inserting
<1>5. max_load \in Nat /\ Cardinality(Used(slots)) = 0
  BY <1>2, <1>4, Sizes, FS_EmptySet
<1>6. \A o \in (Key \cup Value) \ {NULL} : owned[o] = 0
  BY DEF Init
<1>7. QuietState
  <2>1. entry_count = Cardinality(Used(slots)) /\ entry_count <= max_load /\ probe_idx \in 0 .. size - 1
    BY <1>1, <1>5 DEF Init
  <2>2. \A o \in (Key \cup Value) \ {NULL} :
          owned[o] = IF \E j \in Used(slots) : Has(slots[j], o) THEN 1 ELSE 0
    BY <1>2, <1>6
  <2> QED BY <1>2, <1>4, <2>1, <2>2 DEF QuietState
<1>8. Iterating
  BY <1>1 DEF Init, Iterating, NoIter
<1> QED BY <1>7, <1>8, QuietInv DEF IInv

\* Every step keeps it.
LEMMA NextIInv == IInv /\ [Next]_vars => IInv'
<1> SUFFICES ASSUME IInv, [Next]_vars PROVE IInv'
  OBVIOUS
<1>0. Core /\ Iterating /\ size \in Nat /\ size <= size
  BY Sizes DEF IInv, Core
<1>1. CASE UNCHANGED vars
  <2>1. UNCHANGED <<tableVars, localVars, owned>> /\ UNCHANGED iterVars
    BY <1>1 DEF vars
  <2>2. Iterating'
    BY <1>0, <2>1 DEF Iterating, Pending, Ahead, Used, tableVars, localVars, iterVars
  <2> QED BY <1>0, <2>1, <2>2, CoreUnchanged DEF IInv
<1>2. ASSUME NEW k \in Key, aws_hash_table_find(k) PROVE IInv'
  <2>1. UNCHANGED <<tableVars, localVars, owned>> /\ UNCHANGED iterVars /\ size' = size /\ iter.status = "NONE"
    BY <1>2 DEF aws_hash_table_find, tableVars, Idle
  <2> QED BY <1>0, <2>1, CoreUnchanged, NoIteration DEF IInv
<1>3. ASSUME NEW k \in Key, aws_hash_table_remove(k) PROVE IInv'
  <2>1. UNCHANGED iterVars /\ size' = size /\ iter.status = "NONE" /\ ~Inserting
    BY <1>3 DEF aws_hash_table_remove, Idle, Inserting
  <2>2. Iterating'
    BY <1>0, <2>1, NoIteration
  <2>3. CASE Present(k)
    <3> DEFINE at == At(k, s_find_entry(k))
    <3>1. /\ slots' = s_remove_entry(at) /\ entry_count' = entry_count - 1
          /\ owned' = Dropped(owned, {slots[at].key, slots[at].value})
          /\ UNCHANGED <<size, max_size, localVars>>
      BY <1>3, <2>3 DEF aws_hash_table_remove
    <3>2. at \in Used(slots)
      <4>1. at \in 0 .. size - 1 /\ slots[at].hash # 0
        BY <1>0, <2>3, Lookup DEF Core
      <4> QED BY <1>0, <4>1, Sizes DEF Core
    <3> HIDE DEF at
    <3> QED BY <1>0, <2>1, <2>2, <3>1, <3>2, RemoveCore DEF IInv
  <2>4. CASE ~Present(k)
    <3>1. UNCHANGED <<tableVars, localVars, owned>>
      BY <1>3, <2>4 DEF aws_hash_table_remove, tableVars
    <3> QED BY <1>0, <2>2, <3>1, CoreUnchanged DEF IInv
  <2> QED BY <2>3, <2>4
<1>4. ASSUME NEW k \in Key, NEW v \in Value \cup {NULL}, NEW put \in BOOLEAN,
             put => v \in Value, PutPresent(k, v, put)
      PROVE  IInv'
  <2>1. UNCHANGED iterVars /\ size' = size /\ iter.status = "NONE"
    BY <1>4 DEF PutPresent, Idle
  <2>2. Core'
    BY <1>4, PutPresentCore
  <2> QED BY <1>0, <2>1, <2>2, NoIteration DEF IInv
<1>5. ASSUME NEW k \in Key, NEW v \in Value \cup {NULL}, NEW put \in BOOLEAN,
             put => v \in Value, ~put => v = NULL, PutAbsent(k, v, put)
      PROVE  IInv'
  <2>1. UNCHANGED iterVars /\ iter.status = "NONE"
    BY <1>5 DEF PutAbsent, Idle
  <2>2. Core' /\ size' \in Nat /\ size <= size'
    BY <1>5, PutAbsentCore
  <2> QED BY <1>0, <2>1, <2>2, NoIteration DEF IInv
<1>6. ASSUME s_expand_table \/ s_emplace_item \/ PutReturns PROVE IInv'
  <2>1. UNCHANGED iterVars /\ size' = size /\ Inserting
    BY <1>0, <1>6 DEF Core, Control, s_expand_table, s_emplace_item, PutReturns, Inserting
  <2>2. iter.status = "NONE"
    BY <1>0, <2>1 DEF Iterating, Inserting
  <2>3. Core'
    BY <1>6, ExpandCore, EmplaceCore, ReturnCore
  <2> QED BY <1>0, <2>1, <2>2, <2>3, NoIteration DEF IInv
<1>7. ASSUME NEW final \in BOOLEAN, aws_hash_table_clear(final) PROVE IInv'
  <2>1. UNCHANGED iterVars /\ size' = size /\ iter.status = "NONE"
    BY <1>7 DEF aws_hash_table_clear, Idle
  <2> QED BY <1>0, <1>7, <2>1, ClearCore, NoIteration DEF IInv
<1>8. ASSUME aws_hash_iter_begin \/ aws_hash_iter_next \/ IterationEnds PROVE IInv'
  <2>1. UNCHANGED <<tableVars, localVars, owned>> /\ size' = size
    BY <1>8 DEF aws_hash_iter_begin, aws_hash_iter_next, IterationEnds, tableVars
  <2>2. CASE IterationEnds
    <3>1. iter' = NoIter /\ SIZE_MAX \in Nat
      BY <2>2, HashTableAssumption DEF IterationEnds
    <3>2. iter' \in [status : {"NONE", "DONE", "DELETE_CALLED", "READY_FOR_USE"}, slot : 0 .. SIZE_MAX, limit : 0 .. size']
          /\ iter'.status = "NONE"
      BY <1>0, <2>1, <3>1 DEF NoIter
    <3>3. Iterating'
      BY <3>2 DEF Iterating
    <3> QED BY <1>0, <2>1, <3>3, CoreUnchanged DEF IInv
  <2>3. Core'
    BY <1>0, <2>1, CoreUnchanged
  <2> QED BY <1>8, <2>2, <2>3, BeginIter, NextIter DEF IInv
<1>9. ASSUME aws_hash_iter_delete PROVE IInv'
  <2>1. /\ slots' = s_remove_entry(iter.slot) /\ entry_count' = entry_count - 1
        /\ owned' = Dropped(owned, {slots[iter.slot].key, slots[iter.slot].value})
        /\ UNCHANGED <<size, max_size, localVars>> /\ iter.status = "READY_FOR_USE"
    BY <1>9 DEF aws_hash_iter_delete
  <2>2. ~Inserting /\ iter.slot \in 0 .. SIZE_MAX /\ iter.limit \in 0 .. size /\ iter.slot < iter.limit
        /\ slots[iter.slot].hash # 0
    BY <1>0, <2>1 DEF Iterating, Inserting
  <2>3. iter.slot \in Used(slots)
    <3>1. iter.slot \in 0 .. size - 1
      BY <1>0, <2>2
    <3> QED BY <1>0, <2>2, <3>1, Sizes DEF Core
  <2>4. Core'
    <3> DEFINE at == iter.slot
    <3>1. at \in Used(slots) /\ slots' = s_remove_entry(at) /\ owned' = Dropped(owned, {slots[at].key, slots[at].value})
      BY <2>1, <2>3
    <3> HIDE DEF at
    <3> QED BY <1>0, <2>1, <2>2, <3>1, RemoveCore
  <2> QED BY <1>9, <2>4, DeleteIter DEF IInv
<1>10. NULL \notin Value
  BY HashTableAssumption
<1>11. CASE Next
  <2>1. ASSUME NEW k \in Key, NEW v \in Value, PutPresent(k, v, TRUE) \/ PutAbsent(k, v, TRUE) PROVE IInv'
    BY <1>4, <1>5, <2>1
  <2>2. ASSUME NEW k \in Key, PutPresent(k, NULL, FALSE) \/ PutAbsent(k, NULL, FALSE) PROVE IInv'
    BY <1>4, <1>5, <2>2
  <2> QED BY <1>2, <1>3, <1>6, <1>7, <1>8, <1>9, <1>11, <2>1, <2>2 DEF Next
<1> QED BY <1>1, <1>11

\* The inductive invariant is one.
LEMMA Invariance == Spec => []IInv
BY InitIInv, NextIInv, PTL DEF Spec

\* With the invariant, what a caller handed over is referenced exactly once.
LEMMA OwnershipFromIInv == IInv => OwnershipExact
<1> SUFFICES ASSUME IInv PROVE OwnershipExact
  OBVIOUS
<1>1. Core /\ Type /\ Control /\ Count /\ Order /\ Iterating
  BY DEF IInv, Core
<1>2. /\ size \in Nat /\ size >= 2 /\ max_size \in Nat /\ Cardinality(Used(slots)) \in Nat
      /\ Cardinality(Used(slots)) <= size - 1
  BY <1>1, Sizes, TableFacts, Finite
<1>3. pc = "idle" => entry_count = Cardinality(Used(slots))
  BY <1>1, Quiet DEF Inserting
<1>4. size \in 2 .. max_size /\ Cardinality(Used(slots)) < size /\ probe_idx \in 0 .. size
  BY <1>1, <1>2 DEF Type, Order
<1>5. TypeOK
  BY <1>1, <1>3, <1>4 DEF TypeOK, Type, Count, Iterating
<1>6. ASSUME pc = "idle", NEW o \in DOMAIN owned
      PROVE  owned[o] = Cardinality({j \in Used(slots) : slots[j].key = o \/ slots[j].value = o})
  <2> DEFINE S == {j \in Used(slots) : slots[j].key = o \/ slots[j].value = o}
  <2>1. o \in (Key \cup Value) \ {NULL} /\ ~Inserting
    BY <1>1, <1>6 DEF Type, Inserting
  <2>2. owned[o] = IF \E j \in Used(slots) : Has(slots[j], o) THEN 1 ELSE 0
    BY <1>1, <2>1, Objects
  <2>3. CASE S = {}
    <3>1. owned[o] = 0
      BY <2>2, <2>3 DEF Has
    <3>2. Cardinality(S) = 0
      BY <2>3, FS_EmptySet
    <3> QED BY <3>1, <3>2
  <2>4. CASE S # {}
    <3>1. PICK j \in S : TRUE
      BY <2>4
    <3>2. S = {j}
      BY <1>1, <2>1, <3>1, Objects DEF Has
    <3>3. owned[o] = 1
      BY <2>2, <3>1 DEF Has
    <3>4. Cardinality(S) = 1
      BY <3>2, FS_Singleton
    <3> QED BY <3>3, <3>4
  <2> QED BY <2>3, <2>4
<1> QED BY <1>5, <1>6 DEF OwnershipExact

\* source/hash_table.c: every object that put, create, remove, clear and the deleting
\* iterator were given or gave back is referenced by exactly one element until the table
\* destroys it or hands it back, one slot is always empty, and the iterator is valid; for
\* every hash function, every set of keys and values, and every size and limit.
THEOREM OwnershipExactCorrect == Spec => []OwnershipExact
BY Invariance, OwnershipFromIInv, PTL

\* With the invariant, nothing is pending when the iterator is done.
LEMMA IterationFromIInv == IInv => IterationExact
<1> SUFFICES ASSUME IInv, iter.status = "DONE" PROVE visited = expected
  BY DEF IterationExact
<1>1. /\ size \in Nat /\ size < SIZE_MAX /\ SIZE_MAX \in Nat
      /\ \A j \in Used(slots) : j \in 0 .. size - 1
  BY Sizes DEF IInv, Core
<1>2. iter.slot = iter.limit /\ iter.limit \in 0 .. size /\ iter.slot \in 0 .. SIZE_MAX
  BY DEF IInv, Iterating
<1>3. Ahead = iter.limit + 1
  <2>1. iter.slot # SIZE_MAX
    BY <1>1, <1>2
  <2> QED BY <1>2, <2>1, Wrap DEF Ahead
<1>4. Pending = {}
  BY <1>1, <1>2, <1>3 DEF Pending
<1> QED BY <1>4 DEF IInv, Iterating

\* aws_hash_iter_begin, aws_hash_iter_next and aws_hash_iter_delete: an iteration that ends
\* has offered every element of the table exactly once, whichever of them were deleted on
\* the way and however the deletions shifted the others, also across the end of the array.
THEOREM IterationExactCorrect == Spec => []IterationExact
BY Invariance, IterationFromIInv, PTL

----------------------------------------------------------------------------
(* The table is a map                                                      *)

\* The refinement mapping.
Map == IF pc \in {"expand", "emplace"}
       THEN {e \in Elements : ~Same(e.key, request.key)} ELSE Elements

Content(s) == {Element(s[j]) : j \in Used(s)}

\* No insertion is under way: the map is what the slots hold.
LEMMA MapQuiet == ~Inserting /\ entry = Empty => Map = Content(slots)
BY DEF Inserting, Map, Elements, Content

\* The same of the next state.
LEMMA MapQuietNext == (~Inserting /\ entry = Empty => Map = Content(slots))'
BY MapQuiet, PTL

\* Where an element of the map is while an insertion is under way.
Flies(e) ==
    /\ ~Same(e.key, request.key)
    /\ \/ \E j \in Used(slots) : e = Element(slots[j])
       \/ entry # Empty /\ e = Element(entry)
       \/ \E j \in Rest : e = Element(old[j])

\* An insertion is under way: the other elements are in the slots, in flight, or not yet
\* copied.
LEMMA MapBusy == Inserting => \A e : e \in Map <=> Flies(e)
<1> SUFFICES ASSUME Inserting, NEW e PROVE e \in Map <=> Flies(e)
  OBVIOUS
<1>1. e \in Elements <=>
         \/ \E j \in Used(slots) : e = Element(slots[j])
         \/ entry # Empty /\ e = Element(entry)
         \/ \E j \in Rest : e = Element(old[j])
  BY DEF Elements, Rest
<1>2. e \in Map <=> e \in Elements /\ ~Same(e.key, request.key)
  BY DEF Map, Inserting
<1> QED BY <1>1, <1>2 DEF Flies

\* The same of the next state.
LEMMA MapBusyNext == (Inserting => \A e : e \in Map <=> Flies(e))'
BY MapBusy, PTL

\* A key is in the map if and only if a lookup finds it.
LEMMA HoldsPresent ==
  ASSUME Core, ~Inserting, NEW k \in Key, NEW at, at = At(k, s_find_entry(k))
  PROVE  /\ Map = Content(slots)
         /\ Present(k) => /\ at \in Used(slots) /\ Same(slots[at].key, k)
                          /\ Element(slots[at]) \in Map
         /\ ~Present(k) => \A e \in Map : ~Same(e.key, k)
<1>1. Map = Content(slots)
  BY MapQuiet, Quiet
<1>2. Present(k) => at \in Used(slots) /\ Same(slots[at].key, k)
  <2>1. Present(k) => at \in 0 .. size - 1 /\ slots[at].hash # 0 /\ Same(slots[at].key, k)
    BY Lookup DEF Core
  <2> QED BY <2>1, Sizes DEF Core
<1>3. ~Present(k) => \A j \in Used(slots) : ~Same(slots[j].key, k)
  BY Lookup DEF Core
<1> QED BY <1>1, <1>2, <1>3 DEF Content, Element

\* The other elements of the table are those with other keys.
LEMMA OtherKeys ==
  ASSUME Core, ~Inserting, NEW at \in Used(slots), NEW k, Same(slots[at].key, k)
  PROVE  {Element(slots[j]) : j \in Used(slots) \ {at}} = {e \in Content(slots) : ~Same(e.key, k)}
<1>1. ASSUME NEW j \in Used(slots) PROVE j # at <=> ~Same(slots[j].key, k)
  <2>1. j # at => ~Same(slots[j].key, slots[at].key)
    BY DEF Core, Unique, Apart
  <2> QED BY <2>1 DEF Same
<1>2. \A j \in Used(slots) : Element(slots[j]).key = slots[j].key
  BY DEF Element
<1> QED BY <1>1, <1>2 DEF Content

\* What is left when one is removed.
LEMMA RemoveContent ==
  ASSUME Core, ~Inserting, NEW at \in Used(slots), NEW k, Same(slots[at].key, k),
         slots' = s_remove_entry(at), size' = size
  PROVE  Content(slots)' = {e \in Content(slots) : ~Same(e.key, k)}
<1>1. PICK from \in [Used(slots)' -> Used(slots) \ {at}] :
              /\ \A j \in Used(slots)' : slots'[j] = slots[from[j]]
              /\ \A j, m \in Used(slots)' : from[j] = from[m] => j = m
              /\ \A m \in Used(slots) \ {at} : \E j \in Used(slots)' : from[j] = m
  BY RemoveEntries
<1>2. Content(slots)' = {Element(slots'[j]) : j \in Used(slots)'}
  BY DEF Content, Element, Used
<1>3. {Element(slots'[j]) : j \in Used(slots)'} = {Element(slots[j]) : j \in Used(slots) \ {at}}
  BY <1>1
<1> QED BY <1>2, <1>3, OtherKeys

\* An element is removed from the map.
LEMMA RemoveStep ==
  ASSUME Core, ~Inserting, Core', ~Inserting', NEW at \in Used(slots), NEW k \in Key, Same(slots[at].key, k),
         slots' = s_remove_entry(at), size' = size, out' = Returned("remove", k, Element(slots[at]))
  PROVE  Abstract!Remove(k)
<1>1. Map = Content(slots) /\ Map' = Content(slots)'
  BY Quiet, MapQuiet, MapQuietNext DEF Core, Control
<1>2. Map' = {e \in Map : ~Same(e.key, k)}
  BY <1>1, RemoveContent
<1>3. Element(slots[at]) \in Map /\ Same(Element(slots[at]).key, k)
  BY <1>1 DEF Content, Element
<1>4. out' = [call |-> "remove", key |-> k, element |-> Element(slots[at])] /\ out'.call = "remove"
  BY DEF Returned
<1> QED BY <1>2, <1>3, <1>4 DEF Map, Abstract!Remove, Abstract!ReturnsElement, Abstract!Returns, Abstract!Without

\* What a caller sees of the calls that only read, remove or clear.
LEMMA ReadStep ==
  ASSUME IInv, IInv', NEW k \in Key, aws_hash_table_find(k) \/ aws_hash_table_remove(k)
  PROVE  Abstract!Find(k) \/ Abstract!Remove(k)
<1> DEFINE at == At(k, s_find_entry(k))
<1>1. Core /\ Core' /\ ~Inserting /\ ~Inserting'
  BY DEF IInv, Core, aws_hash_table_find, aws_hash_table_remove, Idle, Inserting, localVars
<1>2. /\ Map = Content(slots)
      /\ Present(k) => /\ at \in Used(slots) /\ Same(slots[at].key, k)
                       /\ Element(slots[at]) \in Map
      /\ ~Present(k) => \A e \in Map : ~Same(e.key, k)
  BY <1>1, HoldsPresent
<1> HIDE DEF at
<1>3. CASE aws_hash_table_find(k)
  <2>1. Map' = Map
    BY <1>3 DEF aws_hash_table_find, Map, Elements, Used, tableVars, localVars
  <2>2. CASE Present(k)
    <3>1. out' = [call |-> "find", key |-> k, element |-> Element(slots[at])] /\ out'.call = "find"
      BY <1>3, <2>2 DEF aws_hash_table_find, Returned, at
    <3>2. Element(slots[at]) \in Map /\ Same(Element(slots[at]).key, k)
      BY <1>2, <2>2 DEF Element
    <3> QED BY <2>1, <3>1, <3>2 DEF Map, Abstract!Find, Abstract!ReturnsElement, Abstract!Returns
  <2>3. CASE ~Present(k)
    <3>1. out' = [call |-> "find", key |-> k, element |-> NoElement]
      BY <1>3, <2>3 DEF aws_hash_table_find, Returned
    <3>2. \A e \in Map : ~Same(e.key, k)
      BY <1>2, <2>3
    <3> QED BY <2>1, <3>1, <3>2 DEF Map, Abstract!Find, Abstract!ReturnsElement, Abstract!Returns, Abstract!Holds
  <2> QED BY <2>2, <2>3
<1>4. CASE aws_hash_table_remove(k)
  <2>1. CASE Present(k)
    <3>1. /\ out' = Returned("remove", k, Element(slots[at])) /\ slots' = s_remove_entry(at) /\ size' = size
      BY <1>4, <2>1 DEF aws_hash_table_remove, at
    <3> QED BY <1>1, <1>2, <2>1, <3>1, RemoveStep
  <2>2. CASE ~Present(k)
    <3>1. out' = [call |-> "remove", key |-> k, element |-> NoElement]
      BY <1>4, <2>2 DEF aws_hash_table_remove, Returned
    <3>2. Map' = Map
      BY <1>4, <2>2 DEF aws_hash_table_remove, Map, Elements, Used, localVars
    <3>3. \A e \in Map : ~Same(e.key, k)
      BY <1>2, <2>2
    <3>4. Map' = {e \in Map : ~Same(e.key, k)}
      BY <3>2, <3>3
    <3> QED BY <3>1, <3>3, <3>4
            DEF Map, Abstract!Remove, Abstract!ReturnsElement, Abstract!Returns, Abstract!Holds, Abstract!Without
  <2> QED BY <2>1, <2>2
<1> QED BY <1>3, <1>4

\* put and create of a key that is present.
LEMMA PutPresentStep ==
  ASSUME IInv, IInv', NEW k \in Key, NEW v \in Value \cup {NULL}, NEW put \in BOOLEAN,
         ~put => v = NULL, PutPresent(k, v, put)
  PROVE  IF put THEN Abstract!Put(k, v) ELSE Abstract!Create(k)
<1> DEFINE at == At(k, s_find_entry(k))
<1>1. Core /\ Core' /\ ~Inserting /\ ~Inserting' /\ Present(k)
  BY DEF IInv, Core, PutPresent, Idle, Inserting, localVars
<1>2. Map = Content(slots) /\ at \in Used(slots) /\ Same(slots[at].key, k) /\ Element(slots[at]) \in Map
  BY <1>1, HoldsPresent
<1>3. out' = [call |-> IF put THEN "put" ELSE "create", key |-> k, element |-> NoElement]
  BY DEF PutPresent, Returned
<1>4. CASE put
  <2> DEFINE w == [hash |-> slots[at].hash, key |-> k, value |-> v]
  <2>1. slots' = [slots EXCEPT ![at] = w]
    BY <1>4 DEF PutPresent
  <2> HIDE DEF at
  <2>2. slots[at].hash # 0 /\ DOMAIN slots = 0 .. size - 1 /\ at \in DOMAIN slots
        /\ \A j \in Used(slots) : j \in DOMAIN slots
    BY <1>1, <1>2, Sizes DEF Core, Used
  <2>3. w.hash = slots[at].hash /\ Element(w) = [key |-> k, value |-> v]
    BY DEF Element
  <2> HIDE DEF w
  <2>4. DOMAIN slots' = DOMAIN slots /\ slots'[at] = w /\ \A j \in DOMAIN slots : j # at => slots'[j] = slots[j]
    BY <2>1, <2>2
  <2>5. Used(slots)' = Used(slots)
    BY <2>2, <2>3, <2>4 DEF Used
  <2>6. Content(slots)' = {Element(slots[j]) : j \in Used(slots) \ {at}} \cup {Element(w)}
    <3>1. Content(slots)' = {Element(slots'[j]) : j \in Used(slots)'}
      BY DEF Content, Element, Used
    <3> QED BY <1>2, <2>2, <2>4, <2>5, <3>1
  <2>7. Map' = {e \in Map : ~Same(e.key, k)} \cup {[key |-> k, value |-> v]}
    <3>1. Map' = Content(slots)'
      BY <1>1, MapQuietNext DEF Core, Control
    <3>2. {Element(slots[j]) : j \in Used(slots) \ {at}} = {e \in Map : ~Same(e.key, k)}
      BY <1>1, <1>2, OtherKeys
    <3> QED BY <2>3, <2>6, <3>1, <3>2
  <2> QED BY <1>3, <1>4, <2>7 DEF Map, Abstract!Put, Abstract!Returns, Abstract!Without
<1>5. CASE ~put
  <2>1. Map' = Map
    BY <1>5 DEF PutPresent, Map, Elements, Used, localVars
  <2>2. \E e \in Map : Same(e.key, k)
    BY <1>2 DEF Element
  <2> QED BY <1>3, <1>5, <2>1, <2>2 DEF Map, Abstract!Create, Abstract!Returns, Abstract!Holds
<1> QED BY <1>4, <1>5

\* put and create of a key that is not present: nothing yet, unless they fail.
LEMMA PutAbsentStep ==
  ASSUME IInv, NEW k \in Key, NEW v \in Value \cup {NULL}, NEW put \in BOOLEAN,
         put => v \in Value, ~put => v = NULL, PutAbsent(k, v, put)
  PROVE  Abstract!Fail(k) \/ UNCHANGED <<Map, out>>
<1>1. Core /\ ~Inserting /\ ~Present(k) /\ pc = "idle"
  BY DEF IInv, PutAbsent, Idle, Inserting
<1>2. Map = Content(slots) /\ \A e \in Map : ~Same(e.key, k)
  BY <1>1, HoldsPresent
<1>3. CASE pc' = "idle"
  <2>1. out' = [call |-> "failed", key |-> k, element |-> NoElement] /\ UNCHANGED <<tableVars, localVars>>
    BY <1>3 DEF PutAbsent, Returned
  <2>2. Map' = Map
    BY <2>1 DEF Map, Elements, Used, tableVars, localVars
  <2> QED BY <1>2, <2>1, <2>2 DEF Map, Abstract!Fail, Abstract!Returns, Abstract!Holds
<1>4. CASE pc' # "idle"
  <2>1. Begun(k, v, put)
    BY <1>4, PutAbsentFacts, Zenon
  <2>2. request'.key = k
    BY <2>1 DEF Begun
  <2>3. CASE pc' = "expand"
    <3>1. old' = slots /\ i' = 0 /\ entry' = Empty /\ out' = out
          /\ slots' = [j \in 0 .. 2 * size - 1 |-> Empty]
      BY <1>1, <2>3 DEF PutAbsent, localVars
    <3>2. Used(slots)' = {} /\ Rest' = Used(slots) /\ Inserting'
      <4>1. \A j \in Used(slots) : j \in Nat
        BY <1>1, Sizes DEF Core
      <4> QED BY <2>3, <3>1, <4>1, EntryFacts DEF Used, Rest, Inserting
    <3>3. ASSUME NEW e PROVE e \in Map' <=> e \in Map
      <4>1. e \in Map' <=> ~Same(e.key, k) /\ \E j \in Used(slots) : e = Element(slots[j])
        <5>1. e \in Map' <=> Flies(e)'
          BY <3>2, MapBusyNext
        <5> QED BY <2>2, <3>1, <3>2, <5>1 DEF Flies, Element
      <4> QED BY <1>2, <4>1 DEF Content
    <3> QED BY <3>1, <3>3
  <2>4. CASE pc' # "expand"
    <3>1. slots' = slots /\ pc' = "emplace" /\ out' = out
          /\ entry' = [hash |-> s_hash_for(k), key |-> k, value |-> NULL]
      BY <1>1, <1>4, <2>4 DEF PutAbsent, localVars
    <3>2. Used(slots)' = Used(slots) /\ Rest' = {} /\ Inserting' /\ Same(Element(entry').key, k)
      BY <3>1 DEF Used, Rest, Inserting, Element, Same
    <3>3. ASSUME NEW e PROVE e \in Map' <=> e \in Map
      <4>1. e \in Map' <=> ~Same(e.key, k) /\ \E j \in Used(slots) : e = Element(slots[j])
        <5>1. e \in Map' <=> Flies(e)'
          BY <3>2, MapBusyNext
        <5> QED BY <2>2, <3>1, <3>2, <5>1 DEF Flies, Element
      <4> QED BY <1>2, <4>1 DEF Content
    <3> QED BY <3>1, <3>3
  <2> QED BY <2>3, <2>4
<1> QED BY <1>3, <1>4

\* Copying and displacing entries changes nothing a caller sees.
LEMMA InternalStep ==
  ASSUME IInv, s_expand_table \/ s_emplace_item
  PROVE  UNCHANGED <<Map, out>>
<1>1. Core /\ Inserting /\ Inserting' /\ request' = request /\ out' = out /\ slots \in [0 .. size - 1 -> Entries \cup {Empty}]
  BY DEF IInv, Core, Control, Type, Slot, s_expand_table, s_emplace_item, Inserting
<1>2. SUFFICES ASSUME NEW e, ~Same(e.key, request.key) PROVE Flies(e)' <=> Flies(e)
  <2>1. \A e : Flies(e)' <=> Flies(e)
    BY <1>1, <1>2 DEF Flies
  <2>2. \A e : e \in Map' <=> e \in Map
    BY <1>1, <2>1, MapBusy, MapBusyNext
  <2> QED BY <1>1, <2>2
<1>3. CASE s_expand_table
  <2>1. /\ pc = "expand" /\ entry = Empty /\ slots' = slots /\ i \in Nat
        /\ size \in Nat /\ old \in [0 .. (size \div 2) - 1 -> Entries \cup {Empty}]
    BY <1>1, <1>3, Sizes DEF s_expand_table, Core, Type
  <2>2. Used(slots)' = Used(slots) /\ Used(old) = {j \in 0 .. (size \div 2) - 1 : old[j].hash # 0}
    BY <2>1 DEF Used
  <2>3. CASE i < size \div 2
    <3>1. entry' = old[i] /\ i' = i + 1 /\ old' = old /\ pc' = pc
      BY <1>3, <2>3 DEF s_expand_table
    <3>2. i \in 0 .. (size \div 2) - 1
      BY <2>1, <2>3
    <3>3. Rest' = Rest \ {i} /\ (entry' # Empty <=> i \in Rest)
      <4>1. Rest' = {j \in Used(old) : j >= i + 1} /\ Rest = {j \in Used(old) : j >= i}
        BY <2>1, <3>1 DEF Rest, Used
      <4>2. \A j \in Used(old) : j >= i + 1 <=> j >= i /\ j # i
        BY <2>1, <2>2
      <4>3. entry' # Empty <=> i \in Used(old)
        BY <2>1, <2>2, <3>1, <3>2, EntryFacts
      <4>4. i >= i
        BY <2>1
      <4> QED BY <4>1, <4>2, <4>3, <4>4
    <3>4. (entry' # Empty /\ e = Element(old[i])) \/ (\E j \in Rest' : e = Element(old[j]))
             <=> \E j \in Rest : e = Element(old[j])
      BY <3>3
    <3> QED BY <1>1, <2>1, <2>2, <3>1, <3>4 DEF Flies, Element
  <2>4. CASE ~(i < size \div 2)
    <3>1. entry' = NewEntry /\ pc' = "emplace"
      BY <1>3, <2>4 DEF s_expand_table
    <3>2. Rest' = {} /\ Rest = {}
      BY <2>1, <2>2, <2>4, <3>1 DEF Rest
    <3>3. e # Element(entry')
      BY <1>2, <3>1 DEF NewEntry, Element, Same
    <3> QED BY <1>1, <2>1, <2>2, <3>2, <3>3 DEF Flies, Element
  <2> QED BY <2>3, <2>4
<1>4. CASE s_emplace_item
  <2> DEFINE at == Masked(entry.hash + probe_idx)
             v == slots[at]
  <2>1. Rest' = Rest /\ old' = old
    BY <1>4 DEF s_emplace_item, Rest, Used
  <2>2. CASE v.hash = 0 \/ ProbeOf(at) < probe_idx
    <3>1. slots' = [slots EXCEPT ![at] = entry] /\ entry' = v /\ entry # Empty
      BY <1>4, <2>2 DEF s_emplace_item
    <3>2. at \in 0 .. size - 1 /\ entry \in Entries /\ size \in Nat
      <4>1. size \in Nat /\ size > 0 /\ entry \in Entries /\ probe_idx \in 0 .. size - 1
        BY <1>1, <3>1, Sizes DEF Core, Type, Order
      <4>2. entry.hash + probe_idx \in Int
        BY <4>1, EntryFacts
      <4>3. (entry.hash + probe_idx) % size \in 0 .. size - 1
        BY <4>1, <4>2, Remainder
      <4> QED BY <4>1, <4>3 DEF Masked
    <3> HIDE DEF at
    <3>3. slots'[at] = entry /\ DOMAIN slots' = DOMAIN slots /\ DOMAIN slots = 0 .. size - 1
          /\ \A j \in 0 .. size - 1 : j # at => slots'[j] = slots[j]
      BY <1>1, <3>1, <3>2
    <3>4. v \in Entries \cup {Empty} /\ (v = Empty <=> v.hash = 0) /\ entry.hash # 0
      BY <1>1, <3>2, EntryFacts
    <3>5. Used(slots)' = Used(slots) \cup {at} /\ (at \in Used(slots) <=> v # Empty)
      BY <3>2, <3>3, <3>4 DEF Used
    <3>6. \A j \in Used(slots) : j # at => slots'[j] = slots[j]
      BY <3>3 DEF Used
    <3>7. (\E j \in Used(slots)' : e = Element(slots'[j])) \/ (v # Empty /\ e = Element(v)) <=>
             (\E j \in Used(slots) : e = Element(slots[j])) \/ e = Element(entry)
      <4>1. (\E j \in Used(slots)' : e = Element(slots'[j])) <=>
               (\E j \in Used(slots) : j # at /\ e = Element(slots[j])) \/ e = Element(entry)
        BY <3>3, <3>5, <3>6
      <4> QED BY <3>5, <4>1
    <3> HIDE DEF v
    <3> QED BY <1>1, <2>1, <3>1, <3>7 DEF Flies, Element
  <2>3. CASE ~(v.hash = 0 \/ ProbeOf(at) < probe_idx)
    <3>1. slots' = slots /\ entry' = entry
      BY <1>4, <2>3 DEF s_emplace_item
    <3> QED BY <1>1, <2>1, <3>1 DEF Flies, Used, Element
  <2> QED BY <2>2, <2>3
<1> QED BY <1>3, <1>4

\* The new element appears when the insertion returns.
LEMMA ReturnStep ==
  ASSUME IInv, IInv', PutReturns
  PROVE  /\ request.key \in Key /\ (request.put => request.value \in Value)
         /\ IF request.put THEN Abstract!Put(request.key, request.value) ELSE Abstract!Create(request.key)
<1> DEFINE k == request.key
           w == [hash |-> s_hash_for(request.key), key |-> request.key, value |-> request.value]
<1>1. /\ Core /\ Core' /\ Inserting /\ ~Inserting' /\ entry = Empty /\ Rest = {}
      /\ k \in Key /\ (request.put => request.value \in Value) /\ (~request.put => request.value = NULL)
      /\ request.put \in BOOLEAN
  BY DEF IInv, Core, Control, Type, PutReturns, Inserting, Rest
<1>2. /\ rval \in Used(slots) /\ slots[rval] = NewEntry /\ Used(slots)' = Used(slots)
      /\ slots' = [slots EXCEPT ![rval] = w]
  BY ReturnCore
<1>3. Element(w) = [key |-> k, value |-> request.value] /\ NewEntry.key = k
  BY DEF Element, NewEntry
<1> HIDE DEF w
<1>4. slots'[rval] = w /\ \A j \in Used(slots) : j # rval => slots'[j] = slots[j]
  BY <1>2 DEF Used
<1>5. \A e : e \in Map <=> \E j \in Used(slots) : j # rval /\ e = Element(slots[j])
  <2>1. ASSUME NEW j \in Used(slots) PROVE j # rval <=> ~Same(slots[j].key, k)
    <3>1. j # rval => ~Same(slots[j].key, slots[rval].key)
      BY <1>1, <1>2 DEF Core, Unique, Apart
    <3> QED BY <1>2, <1>3, <3>1 DEF Same
  <2>2. \A j \in Used(slots) : Element(slots[j]).key = slots[j].key
    BY DEF Element
  <2>3. ASSUME NEW e PROVE Flies(e) <=> \E j \in Used(slots) : j # rval /\ e = Element(slots[j])
    <3>1. Flies(e) <=> ~Same(e.key, k) /\ \E j \in Used(slots) : e = Element(slots[j])
      BY <1>1 DEF Flies
    <3> QED BY <2>1, <2>2, <3>1
  <2> QED BY <1>1, <2>3, MapBusy
<1>6. \A e \in Map : ~Same(e.key, k)
  BY <1>1, MapBusy DEF Flies
<1>7. Map' = Map \cup {[key |-> k, value |-> request.value]}
  <2>1. Map' = {Element(slots'[j]) : j \in Used(slots)'}
    <3>1. Map' = Content(slots)'
      BY <1>1, MapQuietNext DEF Core, Control
    <3> QED BY <3>1 DEF Content, Element, Used
  <2>2. \A e : e \in Map' <=> (\E j \in Used(slots) : j # rval /\ e = Element(slots[j])) \/ e = Element(w)
    BY <1>2, <1>4, <2>1
  <2> QED BY <1>3, <1>5, <2>2
<1>8. Map = {e \in Map : ~Same(e.key, k)}
  BY <1>6
<1>9. out' = [call |-> IF request.put THEN "put" ELSE "create", key |-> k, element |-> NoElement]
  BY DEF PutReturns, Returned
<1>10. CASE request.put
  <2>1. Map' = {e \in Map : ~Same(e.key, k)} \cup {[key |-> k, value |-> request.value]}
    BY <1>7, <1>8
  <2>2. Abstract!Put(k, request.value)
    BY <1>9, <1>10, <2>1 DEF Map, Abstract!Put, Abstract!Returns, Abstract!Without
  <2> QED BY <1>1, <1>10, <2>2
<1>11. CASE ~request.put
  <2>1. Map' = Map \cup {[key |-> k, value |-> NULL]}
    BY <1>1, <1>7, <1>11
  <2>2. Abstract!Create(k)
    BY <1>6, <1>9, <1>11, <2>1 DEF Map, Abstract!Create, Abstract!Returns, Abstract!Holds
  <2> QED BY <1>1, <1>11, <2>2
<1> QED BY <1>1, <1>10, <1>11

\* Every step is one of the map, or nothing a caller sees.
LEMMA AbstractStep ==
  ASSUME IInv, IInv', [Next]_vars
  PROVE  Abstract!Next \/ UNCHANGED <<Map, out>>
<1>1. CASE UNCHANGED vars
  BY <1>1 DEF vars, tableVars, localVars, Map, Elements, Used
<1>2. ASSUME NEW k \in Key, aws_hash_table_find(k) \/ aws_hash_table_remove(k)
      PROVE  Abstract!Next
  BY <1>2, ReadStep DEF Abstract!Next
<1>3. ASSUME NEW k \in Key, NEW v \in Value, PutPresent(k, v, TRUE) PROVE Abstract!Next
  <2>1. Abstract!Put(k, v)
    BY <1>3, PutPresentStep
  <2> QED BY <2>1 DEF Abstract!Next
<1>4. ASSUME NEW k \in Key, PutPresent(k, NULL, FALSE) PROVE Abstract!Next
  <2>1. Abstract!Create(k)
    BY <1>4, PutPresentStep
  <2> QED BY <2>1 DEF Abstract!Next
<1>5. ASSUME NEW k \in Key, NEW v \in Value, PutAbsent(k, v, TRUE)
      PROVE  Abstract!Next \/ UNCHANGED <<Map, out>>
  <2>1. Abstract!Fail(k) \/ UNCHANGED <<Map, out>>
    BY <1>5, PutAbsentStep
  <2> QED BY <2>1 DEF Abstract!Next
<1>6. ASSUME NEW k \in Key, PutAbsent(k, NULL, FALSE)
      PROVE  Abstract!Next \/ UNCHANGED <<Map, out>>
  <2>1. Abstract!Fail(k) \/ UNCHANGED <<Map, out>>
    BY <1>6, PutAbsentStep
  <2> QED BY <2>1 DEF Abstract!Next
<1>7. ASSUME s_expand_table \/ s_emplace_item PROVE UNCHANGED <<Map, out>>
  BY <1>7, InternalStep
<1>8. ASSUME PutReturns PROVE Abstract!Next
  <2>1. /\ request.key \in Key /\ (request.put => request.value \in Value)
        /\ IF request.put THEN Abstract!Put(request.key, request.value) ELSE Abstract!Create(request.key)
    BY <1>8, ReturnStep
  <2>2. CASE request.put
    BY <2>1, <2>2 DEF Abstract!Next
  <2>3. CASE ~request.put
    BY <2>1, <2>3 DEF Abstract!Next
  <2> QED BY <2>2, <2>3
<1>9. ASSUME NEW final \in BOOLEAN, aws_hash_table_clear(final) PROVE Abstract!Next
  <2>1. /\ slots' = [j \in Slot |-> Empty] /\ out' = [call |-> "clear", key |-> NULL, element |-> NoElement]
        /\ ~Inserting'
    BY <1>9 DEF aws_hash_table_clear, Returned, Inserting
  <2>2. Content(slots)' = {}
    BY <2>1, EntryFacts DEF Content, Used
  <2>3. Map' = {}
    BY <2>1, <2>2, MapQuietNext DEF IInv, Core, Control
  <2>4. Abstract!Clear
    BY <2>1, <2>3 DEF Map, Abstract!Clear, Abstract!Returns
  <2> QED BY <2>4 DEF Abstract!Next
<1>10. ASSUME aws_hash_iter_begin \/ aws_hash_iter_next \/ IterationEnds PROVE UNCHANGED <<Map, out>>
  BY <1>10 DEF aws_hash_iter_begin, aws_hash_iter_next, IterationEnds, tableVars, localVars, Map, Elements, Used
<1>11. ASSUME aws_hash_iter_delete PROVE Abstract!Next
  <2> DEFINE at == iter.slot
             k == slots[at].key
  <2>1. /\ slots' = s_remove_entry(at) /\ size' = size /\ pc' = pc /\ iter.status = "READY_FOR_USE"
        /\ out' = Returned("remove", k, Element(slots[at]))
    BY <1>11 DEF aws_hash_iter_delete, localVars
  <2>2. /\ Core /\ Core' /\ ~Inserting /\ ~Inserting' /\ at \in 0 .. SIZE_MAX /\ iter.limit \in 0 .. size
        /\ at < iter.limit /\ slots[at].hash # 0
    BY <2>1 DEF IInv, Iterating, Inserting
  <2> HIDE DEF at
  <2>3. at \in Used(slots)
    <3>1. size \in Nat
      BY <2>2, Sizes DEF Core
    <3>2. at \in 0 .. size - 1
      BY <2>2, <3>1
    <3> QED BY <2>2, <3>2, Sizes DEF Core
  <2>4. k \in Key /\ Same(slots[at].key, k)
    BY <2>2, <2>3, Objects, HashFacts
  <2>5. Abstract!Remove(k)
    <3> HIDE DEF k
    <3> QED BY <2>1, <2>2, <2>3, <2>4, RemoveStep
  <2> QED BY <2>4, <2>5 DEF Abstract!Next
<1> QED BY <1>1, <1>2, <1>3, <1>4, <1>5, <1>6, <1>7, <1>8, <1>9, <1>10, <1>11 DEF Next

\* include/aws/common/hash_table.h: the table is a map from classes of equal keys to
\* values.  Lookups find exactly what was put or created and not removed or cleared since,
\* a failed insertion has no effect, and displacement, expansion, backward shifts and
\* deletions by an iterator are invisible to the caller; for every hash function, every
\* set of keys and values, and every size and limit.
THEOREM HashTableImplementsMap == Spec => ImplementsMap
<1>1. Init => Abstract!Init
  <2> SUFFICES ASSUME Init PROVE Abstract!Init
    OBVIOUS
  <2>1. ~Inserting /\ entry = Empty
    BY DEF Init, Inserting
  <2>2. Content(slots) = {}
    BY EntryFacts DEF Init, Content, Used
  <2>3. Map = {}
    BY <2>1, <2>2, MapQuiet
  <2> QED BY <2>3 DEF Init, Returned, Map, Abstract!Init
<1>2. IInv /\ IInv' /\ [Next]_vars => [Abstract!Next]_Abstract!specVars
  BY AbstractStep DEF Map, Abstract!specVars
<1> QED BY <1>1, <1>2, Invariance, PTL DEF Spec, ImplementsMap, Abstract!Spec
=============================================================================
