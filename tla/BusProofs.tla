------------------------------ MODULE BusProofs ------------------------------
(***************************************************************************)
(* The bus destroys every payload exactly once, delivers in order and to   *)
(* the subscribers of the moment of the send, drains its queues and closes *)
(* every subscription, for any number of clients, listeners, addresses,    *)
(* messages and slots of the buffer.                                       *)
(***************************************************************************)
EXTENDS Bus, ListLemmas

----------------------------------------------------------------------------
(* The inductive invariant                                                 *)

Type ==
    /\ TypeOK
    /\ wanted \in [Payload -> SUBSET Listener]
    /\ touched \in [Payload -> SUBSET Listener]
    /\ within \in [Payload -> SUBSET Payload]
    /\ received \in [Listener -> Seq(Payload)]
    /\ destroyed \in [Payload -> Nat]
    /\ discarded \in SUBSET Payload
    /\ closed \in [Listener -> Nat]

\* Where the dispatch thread is and what it holds; a synchronous bus has none.
Control ==
    /\ policy # "sync" \/ Freed => calls = <<>>
    /\ policy = "sync" => msgs = <<>> /\ subs = <<>> /\ pc = "lock"
    /\ pc \in {"lock", "blocked", "test", "exited"} => pending_msgs = <<>>
    /\ pc \in {"lock", "blocked", "deliver", "free", "test", "exited"} => pending_subs = <<>>
    /\ pc = "apply" => pos = 1
    /\ pc = "free" => pos = Len(pending_msgs) + 1
    /\ Freed => policy = "sync" \/ pc = "exited"
    /\ policy = "async_unreliable" => \A i \in DOMAIN msgs : msgs[i].pooled

\* The last drain begins after the queues have been closed and empties them.
Drain ==
    /\ running => pending_drains = 1
    /\ pc = "exited" => pending_drains = 0
    /\ pending_drains = 0 /\ pc \notin {"lock", "blocked"} => msgs = <<>> /\ subs = <<>>

\* Payloads are queued in the order of their numbers, behind the ones taken out.
Queued ==
    /\ \A i, j \in DOMAIN msgs : i < j => msgs[i].payload < msgs[j].payload
    /\ \A i, j \in DOMAIN pending_msgs : i < j => pending_msgs[i].payload < pending_msgs[j].payload
    /\ \A i \in DOMAIN pending_msgs, j \in DOMAIN msgs : pending_msgs[i].payload < msgs[j].payload
    /\ \A i \in DOMAIN msgs : msgs[i].payload <= accepted
    /\ \A i \in DOMAIN pending_msgs : pending_msgs[i].payload <= accepted

\* What was delivered is older than what is queued or taken out and not delivered.
Delivered ==
    \A l \in Listener : \A i \in DOMAIN received[l] :
        /\ received[l][i] <= accepted
        /\ \A j \in DOMAIN msgs : received[l][i] < msgs[j].payload
        /\ \A j \in DOMAIN pending_msgs : j >= pos => received[l][i] < pending_msgs[j].payload

\* The requests the dispatch thread has not applied yet, the oldest one first.
Waiting == pending_subs \o subs

Concerns(r, a, l) == r.address = a /\ r.listener = l

\* Whether l is subscribed at a after the first k requests of q, table being the
\* slots table before: the last request for the two decides, if there is one.
After(table, q, k, a, l) ==
    \/ \E i \in 1 .. k : /\ Concerns(q[i], a, l) /\ q[i].op = "add"
                         /\ \A j \in i + 1 .. k : ~Concerns(q[j], a, l)
    \/ (\A i \in 1 .. k : ~Concerns(q[i], a, l)) /\ l \in ToSet(table[a])

\* The table and the waiting requests together are what the callers see, and no
\* waiting request adds a listener to a list that already has it.
Subscriptions == Freed \/
    /\ \A a \in Address : Distinct(slots[a])
    /\ \A k \in 1 .. Len(Waiting) :
          Waiting[k].op = "add" => ~After(slots, Waiting, k - 1, Waiting[k].address, Waiting[k].listener)
    /\ \A a \in Address, l \in Listener :
          <<a, l>> \in members <=> After(slots, Waiting, Len(Waiting), a, l)

\* m's subscribers have not changed since it was sent, except the touched ones.
Expects(m) ==
    \A l \in Listener : l \notin touched[m.payload] =>
        (l \in wanted[m.payload] <=> <<m.address, l>> \in members \/ <<ALL, l>> \in members)

\* So it is for every message that is not yet delivered, and requests that are still
\* queued when a message has been taken out came after it and touched it.
Expected ==
    /\ \A i \in DOMAIN msgs : Expects(msgs[i])
    /\ \A i \in DOMAIN pending_msgs : i >= pos =>
          /\ Expects(pending_msgs[i])
          /\ \A j \in DOMAIN subs : subs[j].listener \in touched[pending_msgs[i].payload]

\* Where send, of a synchronous bus, still has to go: the listeners behind its node,
\* and those of the address unless it is on their list already.
Ahead(send, l) ==
    \/ send.node = NoListener /\ l \in ToSet(ListOf(send))
    \/ send.node # NoListener /\ Precedes(ListOf(send), send.node, l)
    \/ ~send.last /\ l \in ToSet(slots[send.address])

\* A send of a synchronous bus stands on a node of the list, and has called or will
\* call the subscribers of the moment it was made, except the touched ones.
Tracked(send) ==
    /\ send.node # NoListener => send.node \in ToSet(ListOf(send))
    /\ \A l \in Listener : l \notin touched[send.payload] =>
          (l \in wanted[send.payload] <=> Contains(received[l], send.payload) \/ Ahead(send, l))

\* The sends on the stack are tracked, the inner ones are newer, and every message
\* that was accepted after one of them was sent inside of it.
Nested ==
    /\ \A i \in DOMAIN calls : calls[i].payload <= accepted /\ Tracked(calls[i])
    /\ \A i, j \in DOMAIN calls : i < j => calls[i].payload < calls[j].payload
    /\ \A i \in DOMAIN calls : \A q \in Payload :
          calls[i].payload < q /\ q <= accepted => calls[i].payload \in within[q]

Settled ==
    \A p \in Payload : destroyed[p] = IF p <= accepted /\ p \notin Undelivered THEN 1 ELSE 0

Closing == IF Freed THEN ClosedOncePerSubscription ELSE closed = [l \in Listener |-> 0]

Data ==
    /\ Queued /\ Delivered /\ Subscriptions /\ Expected /\ Nested /\ Closing
    /\ Settled /\ SubscriptionsPrecedeMessages /\ DeliveredInOrder

IInv == Type /\ Control /\ Drain /\ Data

----------------------------------------------------------------------------
(* Lemmas about the operators of the model                                 *)

\* The constants are what the arithmetic needs.
LEMMA Constants ==
  /\ Slots \in Nat /\ MaxSends \in Nat /\ MaxRequests \in Nat
  /\ Payload = 1 .. MaxSends /\ Payload \subseteq Nat
  /\ ALL \in Address /\ Owner \in Client /\ IsFiniteSet(Address)
BY BusAssumption DEF Payload

\* Appending and popping, index by index.
LEMMA AppendFacts ==
  ASSUME NEW S, NEW s \in Seq(S), NEW e \in S
  PROVE  /\ Append(s, e) \in Seq(S) /\ Append(s, e) # <<>>
         /\ DOMAIN s = 1 .. Len(s) /\ Len(s) \in Nat
         /\ Len(Append(s, e)) = Len(s) + 1
         /\ DOMAIN Append(s, e) = 1 .. Len(s) + 1
         /\ \A i \in 1 .. Len(s) : Append(s, e)[i] = s[i]
         /\ Append(s, e)[Len(s) + 1] = e
BY AppendProperties, LenProperties

\* Appending and popping, index by index.
LEMMA TailFacts ==
  ASSUME NEW S, NEW s \in Seq(S), s # <<>>
  PROVE  /\ Tail(s) \in Seq(S) /\ Head(s) = s[1] /\ Head(s) \in S
         /\ DOMAIN s = 1 .. Len(s) /\ Len(s) \in Nat /\ Len(s) >= 1
         /\ Len(Tail(s)) = Len(s) - 1
         /\ DOMAIN Tail(s) = 1 .. Len(s) - 1
         /\ \A i \in 1 .. Len(s) - 1 : Tail(s)[i] = s[i + 1]
BY HeadTailProperties, LenProperties, EmptySeq

\* The messages of the buffer in a queue are counted in Nat.
LEMMA PooledType ==
  ASSUME NEW s \in Seq(Message)
  PROVE  /\ Pooled(s) \in Nat /\ IsFiniteSet({i \in DOMAIN s : s[i].pooled})
         /\ Pooled(<<>>) = 0
<1>1. DOMAIN s = 1 .. Len(s) /\ Len(s) \in Nat
  BY LenProperties
<1>2. IsFiniteSet(1 .. Len(s))
  BY <1>1, FS_Interval
<1>3. IsFiniteSet({i \in DOMAIN s : s[i].pooled})
  BY <1>1, <1>2, FS_Subset
<1>4. {i \in DOMAIN << >> : << >>[i].pooled} = {}
  OBVIOUS
<1> QED BY <1>3, <1>4, FS_CardinalityType, FS_EmptySet DEF Pooled

\* ... and one more after an append of one of them.
LEMMA PooledAppend ==
  ASSUME NEW s \in Seq(Message), NEW m \in Message
  PROVE  Pooled(Append(s, m)) = Pooled(s) + IF m.pooled THEN 1 ELSE 0
<1> DEFINE A == {i \in DOMAIN s : s[i].pooled}
           u == Append(s, m)
           B == {i \in DOMAIN u : u[i].pooled}
<1>1. /\ DOMAIN s = 1 .. Len(s) /\ Len(s) \in Nat /\ DOMAIN u = 1 .. Len(s) + 1
      /\ \A i \in 1 .. Len(s) : u[i] = s[i]
      /\ u[Len(s) + 1] = m
  BY AppendFacts
<1>2. IsFiniteSet(A) /\ Cardinality(A) \in Nat
  BY PooledType DEF Pooled
<1>5. Pooled(s) = Cardinality(A) /\ Pooled(u) = Cardinality(B)
  BY DEF Pooled
<1> HIDE DEF u
<1>3. CASE m.pooled
  <2>1. B = A \cup {Len(s) + 1} /\ Len(s) + 1 \notin A
    BY <1>1, <1>3
  <2> HIDE DEF A, B
  <2>2. Cardinality(B) = Cardinality(A) + 1
    BY <1>2, <2>1, FS_AddElement
  <2> QED BY <1>2, <1>3, <1>5, <2>2 DEF u
<1>4. CASE ~m.pooled
  <2>1. B = A
    BY <1>1, <1>4
  <2> HIDE DEF A, B
  <2>2. Pooled(u) = Pooled(s) /\ Pooled(s) \in Nat
    BY <1>2, <1>5, <2>1
  <2>3. Pooled(u) = Pooled(s) + 0
    BY <2>2
  <2> QED BY <1>4, <2>3 DEF u
<1> QED BY <1>3, <1>4

\* ... and one less after the first message, one of them, is popped.
LEMMA PooledTail ==
  ASSUME NEW s \in Seq(Message), s # <<>>, Head(s).pooled
  PROVE  Pooled(Tail(s)) = Pooled(s) - 1
<1> DEFINE A == {i \in DOMAIN s : s[i].pooled}
           u == Tail(s)
           B == {i \in DOMAIN u : u[i].pooled}
           f == [i \in B |-> i + 1]
<1>1. /\ DOMAIN s = 1 .. Len(s) /\ Len(s) \in Nat /\ Len(s) >= 1
      /\ u \in Seq(Message) /\ DOMAIN u = 1 .. Len(s) - 1 /\ s[1].pooled
      /\ \A i \in 1 .. Len(s) - 1 : u[i] = s[i + 1]
  BY TailFacts
<1>2. IsFiniteSet(A) /\ Cardinality(A) \in Nat
  BY PooledType DEF Pooled
<1>3. IsFiniteSet(B)
  BY <1>1, PooledType
<1> HIDE DEF u
<1>4. f \in [B -> A \ {1}]
  BY <1>1
<1>5. \A i, j \in B : f[i] = f[j] => i = j
  BY <1>1
<1>6. \A k \in A \ {1} : k - 1 \in B /\ f[k - 1] = k
  BY <1>1
<1>7. ExistsBijection(B, A \ {1})
  <2> HIDE DEF f, A, B
  <2>1. f \in Injection(B, A \ {1})
    BY <1>4, <1>5 DEF Injection, IsInjective
  <2>2. f \in Surjection(B, A \ {1})
    BY <1>4, <1>6 DEF Surjection
  <2> QED BY <2>1, <2>2 DEF ExistsBijection, Bijection
<1>8. Cardinality(A \ {1}) = Cardinality(B)
  BY <1>3, <1>7, FS_Bijection
<1>9. 1 \in A
  BY <1>1
<1>10. Cardinality(A \ {1}) = Cardinality(A) - 1
  BY <1>2, <1>9, FS_RemoveElement
<1> QED BY <1>8, <1>10 DEF Pooled, u

\* A new request changes nothing for the ones before it ...
LEMMA AfterAppend ==
  ASSUME NEW table, NEW q \in Seq(Request), NEW r \in Request, NEW k \in 0 .. Len(q), NEW a, NEW l
  PROVE  After(table, Append(q, r), k, a, l) <=> After(table, q, k, a, l)
<1> DEFINE u == Append(q, r)
<1>1. Len(q) \in Nat /\ \A i \in 1 .. Len(q) : u[i] = q[i]
  BY AppendFacts
<1> HIDE DEF u
<1>2. \A i \in 1 .. k : u[i] = q[i]
  BY <1>1
<1>3. \A i \in 1 .. k : \A j \in i + 1 .. k : u[j] = q[j]
  BY <1>1
<1>4. After(table, u, k, a, l) <=> After(table, q, k, a, l)
  BY <1>2, <1>3 DEF After
<1> QED BY <1>4 DEF u

\* ... and decides about the subscription it concerns.
LEMMA AfterLast ==
  ASSUME NEW table, NEW q \in Seq(Request), NEW r \in Request, NEW a, NEW l
  PROVE  After(table, Append(q, r), Len(q) + 1, a, l) <=>
            IF Concerns(r, a, l) THEN r.op = "add" ELSE After(table, q, Len(q), a, l)
<1> DEFINE u == Append(q, r)
           n == Len(q)
<1>1. n \in Nat /\ u[n + 1] = r
  BY AppendFacts
<1>2. After(table, q, n, a, l) <=> After(table, u, n, a, l)
  BY <1>1, AfterAppend
<1> HIDE DEF u, n
<1>3. CASE Concerns(r, a, l)
  <2>1. \A i \in 1 .. n : n + 1 \in i + 1 .. n + 1
    BY <1>1
  <2>2. n + 1 \in 1 .. n + 1 /\ (n + 1) + 1 .. n + 1 = {}
    BY <1>1
  <2>3. \A i \in 1 .. n + 1 : i \in 1 .. n \/ i = n + 1
    BY <1>1
  <2>4. After(table, u, n + 1, a, l) <=> r.op = "add"
    BY <1>1, <1>3, <2>1, <2>2, <2>3 DEF After
  <2> QED BY <1>3, <2>4 DEF u, n
<1>4. CASE ~Concerns(r, a, l)
  <2>1. \A i \in 1 .. n + 1 : i \in 1 .. n \/ i = n + 1
    BY <1>1
  <2>2. \A i \in 1 .. n : i \in 1 .. n + 1
    BY <1>1
  <2>3. \A i \in 1 .. n : \A j \in i + 1 .. n + 1 : j \in i + 1 .. n \/ j = n + 1
    BY <1>1
  <2>4. \A i \in 1 .. n : \A j \in i + 1 .. n : j \in i + 1 .. n + 1
    BY <1>1
  <2>5. After(table, u, n + 1, a, l) <=> After(table, u, n, a, l)
    BY <1>1, <1>4, <2>1, <2>2, <2>3, <2>4 DEF After
  <2> QED BY <1>2, <1>4, <2>5 DEF u, n
<1> QED BY <1>3, <1>4

\* Applying the first request to the table is the same as leaving it in the queue.
LEMMA AfterTail ==
  ASSUME NEW table, NEW next, NEW q \in Seq(Request), q # <<>>, NEW k \in 0 .. Len(q) - 1, NEW a, NEW l,
         l \in ToSet(next[a]) <=> IF Concerns(Head(q), a, l) THEN Head(q).op = "add" ELSE l \in ToSet(table[a])
  PROVE  After(next, Tail(q), k, a, l) <=> After(table, q, k + 1, a, l)
<1> DEFINE u == Tail(q)
<1>1. Len(q) \in Nat /\ Head(q) = q[1] /\ k \in Nat /\ \A i \in 1 .. k : u[i] = q[i + 1]
  BY TailFacts
<1> HIDE DEF u
<1>2. \A i \in 1 .. k : \A j \in i + 1 .. k : u[j] = q[j + 1] /\ j + 1 \in (i + 1) + 1 .. k + 1
  BY <1>1
<1>3. \A i \in 1 .. k : \A j \in (i + 1) + 1 .. k + 1 : j - 1 \in i + 1 .. k /\ u[j - 1] = q[j]
  BY <1>1
<1>4. \A i \in 1 .. k : i + 1 \in 1 .. k + 1 /\ i + 1 \in 1 + 1 .. k + 1
  BY <1>1
<1>5. \A i \in 1 .. k + 1 : i = 1 \/ (i - 1 \in 1 .. k /\ u[i - 1] = q[i] /\ (i - 1) + 1 = i)
  BY <1>1
<1>6. ASSUME After(next, u, k, a, l) PROVE After(table, q, k + 1, a, l)
  <2>1. CASE \E i \in 1 .. k : /\ Concerns(u[i], a, l) /\ u[i].op = "add"
                              /\ \A j \in i + 1 .. k : ~Concerns(u[j], a, l)
    <3>1. PICK i \in 1 .. k : /\ Concerns(u[i], a, l) /\ u[i].op = "add"
                             /\ \A j \in i + 1 .. k : ~Concerns(u[j], a, l)
      BY <2>1
    <3>2. Concerns(q[i + 1], a, l) /\ q[i + 1].op = "add" /\ i + 1 \in 1 .. k + 1
      BY <1>1, <1>4, <3>1
    <3>3. \A j \in (i + 1) + 1 .. k + 1 : ~Concerns(q[j], a, l)
      BY <1>3, <3>1
    <3> QED BY <3>2, <3>3 DEF After
  <2>2. CASE (\A i \in 1 .. k : ~Concerns(u[i], a, l)) /\ l \in ToSet(next[a])
    <3>1. \A j \in 1 + 1 .. k + 1 : ~Concerns(q[j], a, l)
      <4>1. \A j \in 1 + 1 .. k + 1 : j - 1 \in 1 .. k /\ u[j - 1] = q[j]
        BY <1>1
      <4> QED BY <2>2, <4>1
    <3>2. 1 \in 1 .. k + 1
      BY <1>1
    <3>3. \A j \in 1 .. k + 1 : j = 1 \/ j \in 1 + 1 .. k + 1
      BY <1>1
    <3> QED BY <1>1, <2>2, <3>1, <3>2, <3>3 DEF After
  <2> QED BY <1>6, <2>1, <2>2 DEF After
<1>7. ASSUME After(table, q, k + 1, a, l) PROVE After(next, u, k, a, l)
  <2>1. CASE \E i \in 1 .. k + 1 : /\ Concerns(q[i], a, l) /\ q[i].op = "add"
                                  /\ \A j \in i + 1 .. k + 1 : ~Concerns(q[j], a, l)
    <3>1. PICK i \in 1 .. k + 1 : /\ Concerns(q[i], a, l) /\ q[i].op = "add"
                                 /\ \A j \in i + 1 .. k + 1 : ~Concerns(q[j], a, l)
      BY <2>1
    <3>2. CASE i = 1
      <4>1. \A j \in 1 .. k : ~Concerns(u[j], a, l)
        BY <1>1, <1>4, <3>1, <3>2
      <4> QED BY <1>1, <3>1, <3>2, <4>1 DEF After
    <3>3. CASE i # 1
      <4>1. i - 1 \in 1 .. k /\ Concerns(u[i - 1], a, l) /\ u[i - 1].op = "add" /\ (i - 1) + 1 = i
        BY <1>5, <3>1, <3>3
      <4>2. \A j \in (i - 1) + 1 .. k : ~Concerns(u[j], a, l)
        BY <1>2, <3>1, <4>1
      <4> QED BY <4>1, <4>2 DEF After
    <3> QED BY <3>2, <3>3
  <2>2. CASE (\A i \in 1 .. k + 1 : ~Concerns(q[i], a, l)) /\ l \in ToSet(table[a])
    <3>1. ~Concerns(q[1], a, l)
      <4>1. 1 \in 1 .. k + 1
        BY <1>1
      <4> QED BY <2>2, <4>1
    <3>2. \A i \in 1 .. k : ~Concerns(u[i], a, l)
      BY <1>1, <1>4, <2>2
    <3> QED BY <1>1, <2>2, <3>1, <3>2 DEF After
  <2> QED BY <1>7, <2>1, <2>2 DEF After
<1> QED BY <1>6, <1>7 DEF u

\* Without requests the table decides.
LEMMA AfterNone ==
  ASSUME NEW table, NEW q, NEW a, NEW l
  PROVE  After(table, q, 0, a, l) <=> l \in ToSet(table[a])
<1>1. 1 .. 0 = {}
  OBVIOUS
<1> QED BY <1>1 DEF After

\* Two lists that agree on the order of common elements one way agree both ways.
LEMMA OrderKept ==
  ASSUME NEW S, NEW s \in Seq(S), NEW u \in Seq(S), Distinct(s), Distinct(u),
         NEW x, NEW y, x \in ToSet(s) \cap ToSet(u), y \in ToSet(s) \cap ToSet(u),
         Precedes(u, x, y) => Precedes(s, x, y),
         Precedes(u, y, x) => Precedes(s, y, x)
  PROVE  Precedes(u, x, y) <=> Precedes(s, x, y)
<1>1. /\ DOMAIN s = 1 .. Len(s) /\ Len(s) \in Nat /\ DOMAIN u = 1 .. Len(u) /\ Len(u) \in Nat
  BY LenProperties
<1>2. PICK i \in DOMAIN u, j \in DOMAIN u : u[i] = x /\ u[j] = y
  BY DEF ToSet
<1>3. x = y \/ Precedes(u, x, y) \/ Precedes(u, y, x)
  BY <1>1, <1>2 DEF Precedes
<1>4. ~(Precedes(s, x, y) /\ Precedes(s, y, x)) /\ (x = y => ~Precedes(s, x, y))
  BY <1>1 DEF Precedes, Distinct
<1> QED BY <1>3, <1>4

\* What comes after the element before the i-th one, or in the whole list.
LEMMA NextInList ==
  ASSUME NEW S, NEW s \in Seq(S), Distinct(s), NEW i \in DOMAIN s, NEW l
  PROVE  /\ i = 1 => (l \in ToSet(s) <=> l = s[i] \/ Precedes(s, s[i], l))
         /\ i > 1 => (Precedes(s, s[i - 1], l) <=> l = s[i] \/ Precedes(s, s[i], l))
<1>1. DOMAIN s = 1 .. Len(s) /\ Len(s) \in Nat /\ i \in Nat
  BY LenProperties
<1>2. Precedes(s, s[i], l) <=> \E k \in DOMAIN s : i < k /\ s[k] = l
  BY <1>1 DEF Precedes, Distinct
<1>3. ASSUME i > 1 PROVE Precedes(s, s[i - 1], l) <=> \E k \in DOMAIN s : i - 1 < k /\ s[k] = l
  <2>1. i - 1 \in DOMAIN s
    BY <1>1, <1>3
  <2> QED BY <1>1, <2>1 DEF Precedes, Distinct
<1>4. \A k \in DOMAIN s : (i - 1 < k <=> k = i \/ i < k) /\ (i = 1 => k = i \/ i < k)
  BY <1>1
<1> QED BY <1>1, <1>2, <1>3, <1>4 DEF ToSet

\* Nothing comes after an element that is followed by nothing.
LEMMA EndOfList ==
  ASSUME NEW S, NEW s \in Seq(S), Distinct(s), NEW e,
         ~\E i \in DOMAIN s : i > 1 /\ s[i - 1] = e
  PROVE  \A l : ~Precedes(s, e, l)
<1>1. DOMAIN s = 1 .. Len(s) /\ Len(s) \in Nat
  BY LenProperties
<1>2. ASSUME NEW i \in DOMAIN s, NEW j \in DOMAIN s, i < j, s[i] = e PROVE FALSE
  <2>1. i + 1 \in DOMAIN s /\ i + 1 > 1 /\ (i + 1) - 1 = i
    BY <1>1, <1>2
  <2> QED BY <1>2, <2>1
<1> QED BY <1>2 DEF Precedes

\* The stack without its last send.
LEMMA FrontFacts ==
  ASSUME NEW S, NEW s \in Seq(S), s # <<>>
  PROVE  /\ Front(s) \in Seq(S) /\ Last(s) = s[Len(s)] /\ Last(s) \in S
         /\ DOMAIN s = 1 .. Len(s) /\ Len(s) \in Nat /\ Len(s) >= 1 /\ Len(s) \in DOMAIN s
         /\ Len(Front(s)) = Len(s) - 1 /\ DOMAIN Front(s) = 1 .. Len(s) - 1
         /\ \A i \in 1 .. Len(s) - 1 : Front(s)[i] = s[i]
<1>1. DOMAIN s = 1 .. Len(s) /\ Len(s) \in Nat /\ Len(s) >= 1 /\ \A i \in 1 .. Len(s) : s[i] \in S
  BY LenProperties, EmptySeq, ElementOfSeq
<1>2. Front(s) = SubSeq(s, 1, Len(s) - 1) /\ Last(s) = s[Len(s)]
  BY DEF Front, Last
<1>3. \A i \in 1 .. Len(s) - 1 : s[i] \in S
  BY <1>1
<1>4. /\ SubSeq(s, 1, Len(s) - 1) \in Seq(S) /\ Len(SubSeq(s, 1, Len(s) - 1)) = Len(s) - 1
      /\ \A i \in 1 .. Len(s) - 1 : SubSeq(s, 1, Len(s) - 1)[i] = s[i]
  BY <1>1, <1>3, SubSeqProperties
<1>5. DOMAIN Front(s) = 1 .. Len(s) - 1
  BY <1>2, <1>4, LenProperties
<1> QED BY <1>1, <1>2, <1>4, <1>5

\* What one request makes of the table, if it adds no listener twice.
LEMMA TableStep ==
  ASSUME slots \in [Address -> Seq(Listener)], \A b \in Address : Distinct(slots[b]),
         NEW op \in {"add", "remove"}, NEW a \in Address, NEW l \in Listener, NEW next,
         op = "add" => l \notin ToSet(slots[a]),
         next = IF op = "add" THEN s_bus_subscribe(a, l) ELSE s_bus_unsubscribe(a, l)
  PROVE  /\ next \in [Address -> Seq(Listener)]
         /\ \A b \in Address : Distinct(next[b])
         /\ \A b \in Address, k \in Listener :
               k \in ToSet(next[b]) <=> IF b = a /\ k = l THEN op = "add" ELSE k \in ToSet(slots[b])
         /\ \A b \in Address : \A x, y \in ToSet(slots[b]) \cap ToSet(next[b]) :
               Precedes(next[b], x, y) <=> Precedes(slots[b], x, y)
<1>1. slots[a] \in Seq(Listener) /\ Distinct(slots[a])
  OBVIOUS
<1>4. ASSUME NEW u \in Seq(Listener), Distinct(u), next[a] = u,
             \A b \in Address : b # a => next[b] = slots[b],
             \A x, y \in ToSet(slots[a]) : Precedes(u, x, y) => Precedes(slots[a], x, y)
      PROVE  \A b \in Address : \A x, y \in ToSet(slots[b]) \cap ToSet(next[b]) :
                Precedes(next[b], x, y) <=> Precedes(slots[b], x, y)
  <2>1. \A x, y \in ToSet(slots[a]) \cap ToSet(u) : Precedes(u, x, y) <=> Precedes(slots[a], x, y)
    BY <1>1, <1>4, OrderKept
  <2> QED BY <1>4, <2>1
<1>2. CASE op = "add"
  <2>1. /\ Append(slots[a], l) \in Seq(Listener) /\ Distinct(Append(slots[a], l))
        /\ ToSet(Append(slots[a], l)) = ToSet(slots[a]) \cup {l}
    BY <1>1, <1>2, AppendList
  <2>2. next = [slots EXCEPT ![a] = Append(slots[a], l)]
    BY <1>2 DEF s_bus_subscribe
  <2>3. next[a] = Append(slots[a], l) /\ \A b \in Address : b # a => next[b] = slots[b]
    BY <2>2
  <2>4. \A x, y \in ToSet(slots[a]) : Precedes(Append(slots[a], l), x, y) => Precedes(slots[a], x, y)
    BY <1>1, <1>2, AppendList
  <2>5. \A b \in Address : \A x, y \in ToSet(slots[b]) \cap ToSet(next[b]) :
           Precedes(next[b], x, y) <=> Precedes(slots[b], x, y)
    BY <1>4, <2>1, <2>3, <2>4
  <2> QED BY <1>2, <2>1, <2>2, <2>3, <2>5
<1>3. CASE op = "remove"
  <2>1. /\ RemoveFirst(slots[a], l) \in Seq(Listener) /\ Distinct(RemoveFirst(slots[a], l))
        /\ ToSet(RemoveFirst(slots[a], l)) = ToSet(slots[a]) \ {l}
    BY <1>1, RemoveList
  <2>2. next = [slots EXCEPT ![a] = RemoveFirst(slots[a], l)]
    BY <1>3 DEF s_bus_unsubscribe
  <2>3. next[a] = RemoveFirst(slots[a], l) /\ \A b \in Address : b # a => next[b] = slots[b]
    BY <2>2
  <2>4. \A x, y \in ToSet(slots[a]) : Precedes(RemoveFirst(slots[a], l), x, y) => Precedes(slots[a], x, y)
    BY <1>1, RemoveList
  <2>5. \A b \in Address : \A x, y \in ToSet(slots[b]) \cap ToSet(next[b]) :
           Precedes(next[b], x, y) <=> Precedes(slots[b], x, y)
    BY <1>4, <2>1, <2>3, <2>4
  <2> QED BY <1>3, <2>1, <2>2, <2>3, <2>5
<1> QED BY <1>2, <1>3

\* The payloads of two queues, of the second one from its k-th message on.
LEMMA PayloadsOf ==
  ASSUME NEW q \in Seq(Message), NEW s \in Seq(Message), NEW k \in 1 .. Len(s) + 1
  PROVE  \A p : p \in Payloads(q) \cup Payloads(SubSeq(s, k, Len(s))) <=>
                   \/ \E i \in DOMAIN q : q[i].payload = p
                   \/ \E i \in DOMAIN s : i >= k /\ s[i].payload = p
<1> DEFINE u == SubSeq(s, k, Len(s))
<1>1. DOMAIN s = 1 .. Len(s) /\ Len(s) \in Nat /\ \A i \in 1 .. Len(s) : s[i] \in Message
  BY LenProperties, ElementOfSeq
<1>2. \A i \in k .. Len(s) : s[i] \in Message
  BY <1>1
<1>3. /\ u \in Seq(Message) /\ Len(u) = IF k <= Len(s) THEN Len(s) - k + 1 ELSE 0
      /\ \A i \in 1 .. Len(s) - k + 1 : u[i] = s[k + i - 1]
  BY <1>1, <1>2, SubSeqProperties
<1>4. DOMAIN u = 1 .. Len(s) - k + 1
  BY <1>1, <1>3, LenProperties
<1> HIDE DEF u
<1>5. \A i \in DOMAIN u : k + i - 1 \in DOMAIN s /\ k + i - 1 >= k /\ u[i] = s[k + i - 1]
  <2>1. SUFFICES ASSUME NEW i \in 1 .. Len(s) - k + 1
                 PROVE  k + i - 1 \in 1 .. Len(s) /\ k + i - 1 >= k /\ u[i] = s[k + i - 1]
    BY <1>1, <1>4
  <2>2. k + i - 1 \in 1 .. Len(s) /\ k + i - 1 >= k
    BY <1>1
  <2> QED BY <1>3, <2>2
<1>6. \A i \in DOMAIN s : i >= k => i - k + 1 \in DOMAIN u /\ u[i - k + 1] = s[i]
  <2>1. SUFFICES ASSUME NEW i \in DOMAIN s, i >= k PROVE i - k + 1 \in DOMAIN u /\ u[i - k + 1] = s[i]
    OBVIOUS
  <2>2. i - k + 1 \in 1 .. Len(s) - k + 1 /\ k + (i - k + 1) - 1 = i
    BY <1>1, <2>1
  <2> QED BY <1>3, <1>4, <2>2
<1>7. \A p : p \in Payloads(u) <=> \E i \in DOMAIN s : i >= k /\ s[i].payload = p
  BY <1>5, <1>6 DEF Payloads
<1>8. \A p : p \in Payloads(q) <=> \E i \in DOMAIN q : q[i].payload = p
  BY DEF Payloads
<1> QED BY <1>7, <1>8 DEF u

\* What a delivery adds to the history of every listener.
LEMMA DeliverStep ==
  ASSUME Type, NEW a \in Address, NEW p \in Payload, s_bus_deliver_msg(a, p)
  PROVE  /\ received' \in [Listener -> Seq(Payload)]
         /\ \A l \in Listener :
               /\ \A i \in DOMAIN received[l] : received'[l][i] = received[l][i]
               /\ \A i \in DOMAIN received'[l] : i \in DOMAIN received[l] \/
                     ((\A j \in DOMAIN received[l] : j < i) /\ received'[l][i] = p)
               /\ \A x : Contains(received'[l], x) <=>
                     \/ Contains(received[l], x)
                     \/ x = p /\ l \in ToSet(slots[ALL]) \cup ToSet(slots[a])
<1> DEFINE n(l) == Cardinality({j \in DOMAIN Calls(a) : Calls(a)[j] = l})
           u(l) == [i \in 1 .. n(l) |-> p]
<1>1. Calls(a) \in Seq(Listener) /\ DOMAIN Calls(a) = 1 .. Len(Calls(a)) /\ Len(Calls(a)) \in Nat
  <2>1. slots[ALL] \in Seq(Listener) /\ slots[a] \in Seq(Listener)
    BY Constants DEF Type, TypeOK
  <2>2. Calls(a) \in Seq(Listener)
    BY <2>1, ConcatProperties DEF Calls
  <2> QED BY <2>2, LenProperties
<1>2. ASSUME NEW l \in Listener
      PROVE  n(l) \in Nat /\ (n(l) > 0 <=> l \in ToSet(slots[ALL]) \cup ToSet(slots[a]))
  <2> DEFINE A == {j \in DOMAIN Calls(a) : Calls(a)[j] = l}
  <2>1. IsFiniteSet(A)
    <3>1. IsFiniteSet(1 .. Len(Calls(a))) /\ A \in SUBSET (1 .. Len(Calls(a)))
      BY <1>1, FS_Interval
    <3> QED BY <3>1, FS_Subset
  <2>2. Cardinality(A) \in Nat /\ (Cardinality(A) = 0 <=> A = {})
    BY <2>1, FS_CardinalityType, FS_EmptySet
  <2>3. A # {} <=> Contains(Calls(a), l)
    BY <1>1 DEF Contains
  <2>4. Contains(Calls(a), l) <=> l \in ToSet(slots[ALL]) \cup ToSet(slots[a])
    <3>1. slots[ALL] \in Seq(Listener) /\ slots[a] \in Seq(Listener)
      BY Constants DEF Type, TypeOK
    <3> QED BY <3>1, ConcatList DEF Calls
  <2> HIDE DEF A
  <2>5. Cardinality(A) > 0 <=> A # {}
    BY <2>2
  <2> QED BY <2>2, <2>3, <2>4, <2>5 DEF A
<1>3. \A l \in Listener : received'[l] = received[l] \o u(l)
  BY DEF s_bus_deliver_msg
<1>4. received' = [l \in Listener |-> received'[l]]
  BY DEF s_bus_deliver_msg
<1>5. \A l \in Listener : received[l] \in Seq(Payload)
  BY DEF Type
<1> HIDE DEF n
<1>6. ASSUME NEW l \in Listener
      PROVE  /\ received'[l] \in Seq(Payload)
             /\ \A i \in DOMAIN received[l] : received'[l][i] = received[l][i]
             /\ \A i \in DOMAIN received'[l] : i \in DOMAIN received[l] \/
                   ((\A j \in DOMAIN received[l] : j < i) /\ received'[l][i] = p)
             /\ \A x : Contains(received'[l], x) <=>
                   \/ Contains(received[l], x)
                   \/ x = p /\ l \in ToSet(slots[ALL]) \cup ToSet(slots[a])
  <2> DEFINE r == received[l]
             w == received'[l]
  <2>1. u(l) \in Seq(Payload) /\ Len(u(l)) = n(l) /\ n(l) \in Nat /\ \A i \in 1 .. n(l) : u(l)[i] = p
    <3>1. n(l) \in Nat
      BY <1>2
    <3>2. u(l) \in [1 .. n(l) -> Payload]
      OBVIOUS
    <3>3. u(l) \in Seq(Payload)
      BY <3>1, <3>2, IsASeq
    <3> QED BY <3>1, <3>2, <3>3, LenProperties
  <2> HIDE DEF u
  <2>2. /\ r \in Seq(Payload) /\ DOMAIN r = 1 .. Len(r) /\ Len(r) \in Nat
        /\ w \in Seq(Payload) /\ Len(w) = Len(r) + n(l) /\ DOMAIN w = 1 .. Len(r) + n(l)
        /\ \A i \in 1 .. Len(r) + n(l) : w[i] = IF i <= Len(r) THEN r[i] ELSE u(l)[i - Len(r)]
    <3> DEFINE v == u(l)
    <3>1. r \in Seq(Payload) /\ v \in Seq(Payload) /\ Len(v) = n(l) /\ w = r \o v
      BY <1>3, <1>5, <2>1
    <3> HIDE DEF v, r, w
    <3>2. /\ w \in Seq(Payload) /\ Len(w) = Len(r) + Len(v)
          /\ \A i \in 1 .. Len(r) + Len(v) : w[i] = IF i <= Len(r) THEN r[i] ELSE v[i - Len(r)]
      BY <3>1, ConcatProperties
    <3>3. DOMAIN r = 1 .. Len(r) /\ Len(r) \in Nat /\ DOMAIN w = 1 .. Len(w)
      BY <3>1, <3>2, LenProperties
    <3> QED BY <3>1, <3>2, <3>3 DEF v
  <2> HIDE DEF r, w
  <2>3. \A i \in DOMAIN r : i \in DOMAIN w /\ w[i] = r[i]
    BY <2>1, <2>2
  <2>4. \A i \in DOMAIN w : i \in DOMAIN r \/ ((\A j \in DOMAIN r : j < i) /\ w[i] = p /\ n(l) > 0)
    BY <2>1, <2>2
  <2>5. n(l) > 0 => Len(r) + 1 \in DOMAIN w /\ w[Len(r) + 1] = p
    BY <2>1, <2>2
  <2>6. \A x : Contains(w, x) <=> Contains(r, x) \/ (x = p /\ n(l) > 0)
    <3>1. \A x : Contains(w, x) <=> \E i \in DOMAIN w : w[i] = x
      BY <2>2 DEF Contains
    <3>2. \A x : Contains(r, x) <=> \E i \in DOMAIN r : r[i] = x
      BY <2>2 DEF Contains
    <3> QED BY <2>3, <2>4, <2>5, <3>1, <3>2
  <2> QED BY <1>2, <2>2, <2>3, <2>4, <2>6 DEF r, w
<1> QED BY <1>4, <1>6

----------------------------------------------------------------------------
(* The invariant: initially, and what follows from it                      *)

\* aws_bus_new.
LEMMA InitInv == Init => IInv
<1> SUFFICES ASSUME Init PROVE IInv
  OBVIOUS
<1> USE DEF Init
<1>1. Type
  <2>1. Pooled(<<>>) = 0 /\ <<>> \in Seq(Message) /\ Len(<<>>) = 0
    <3>1. <<>> \in Seq(Message)
      BY EmptySeq
    <3> QED BY <3>1, PooledType, EmptySeq
  <2>2. free + Pooled(msgs) + Pooled(pending_msgs) = Slots /\ free \in 0 .. Slots
    BY <2>1, Constants
  <2>3. /\ slots \in [Address -> Seq(Listener)] /\ received \in [Listener -> Seq(Payload)]
        /\ subs \in Seq(Request) /\ pending_subs \in Seq(Request) /\ calls \in Seq(Send)
    BY EmptySeq
  <2>4. requests \in 0 .. MaxRequests /\ accepted \in 0 .. MaxSends /\ pos \in 1 .. Len(pending_msgs) + 1
    BY <2>1, Constants
  <2>5. cpc \in [Client -> {"idle", "notify", "closing", "spin", "freed"}]
    OBVIOUS
  <2>6. TypeOK
    BY <2>1, <2>2, <2>3, <2>4, <2>5 DEF TypeOK
  <2> QED BY <2>3, <2>6 DEF Type
<1>2. Control
  BY Constants, EmptySeq DEF Control, Freed
<1>3. Drain
  BY DEF Drain
<1>4. DOMAIN msgs = {} /\ DOMAIN pending_msgs = {} /\ DOMAIN subs = {}
  OBVIOUS
<1>5. Queued /\ Expected
  BY <1>4 DEF Queued, Expected
<1>6. \A l \in Listener : DOMAIN received[l] = {}
  OBVIOUS
<1>7. Delivered /\ DeliveredInOrder
  BY <1>6 DEF Delivered, DeliveredInOrder
<1>8. ~Freed
  BY Constants DEF Freed
<1>9. Closing
  BY <1>8 DEF Closing
<1>10. Settled
  BY Constants DEF Settled
<1>11. SubscriptionsPrecedeMessages
  BY DEF SubscriptionsPrecedeMessages
<1>13. Nested
  <2>1. DOMAIN calls = {}
    OBVIOUS
  <2> QED BY <2>1 DEF Nested
<1>12. Subscriptions
  <2>1. Waiting = <<>> /\ Len(Waiting) = 0
    <3>1. <<>> \in Seq(Request)
      BY EmptySeq
    <3> QED BY <3>1, ConcatEmptySeq, EmptySeq DEF Waiting
  <2>2. \A a \in Address, l \in Listener : ~After(slots, Waiting, 0, a, l)
    <3>1. SUFFICES ASSUME NEW a \in Address, NEW l \in Listener PROVE ~After(slots, Waiting, 0, a, l)
      OBVIOUS
    <3>2. l \notin ToSet(slots[a])
      BY EmptyList
    <3> QED BY <3>2, AfterNone
  <2>3. \A a \in Address : Distinct(slots[a])
    BY EmptyList
  <2>4. 1 .. 0 = {}
    OBVIOUS
  <2> QED BY <2>1, <2>2, <2>3, <2>4 DEF Subscriptions
<1> QED BY <1>1, <1>2, <1>3, <1>5, <1>7, <1>9, <1>10, <1>11, <1>12, <1>13 DEF IInv, Data

\* The queues as sequences.
LEMMA QueueFacts ==
  ASSUME Type
  PROVE  /\ msgs \in Seq(Message) /\ DOMAIN msgs = 1 .. Len(msgs) /\ Len(msgs) \in Nat
         /\ pending_msgs \in Seq(Message) /\ DOMAIN pending_msgs = 1 .. Len(pending_msgs)
         /\ Len(pending_msgs) \in Nat /\ pos \in 1 .. Len(pending_msgs) + 1
         /\ subs \in Seq(Request) /\ DOMAIN subs = 1 .. Len(subs) /\ Len(subs) \in Nat
         /\ pending_subs \in Seq(Request) /\ Waiting \in Seq(Request) /\ Len(Waiting) \in Nat
         /\ \A i \in DOMAIN msgs : msgs[i] \in Message
         /\ \A i \in DOMAIN pending_msgs : pending_msgs[i] \in Message
         /\ \A i \in DOMAIN subs : subs[i] \in Request
         /\ \A m \in Message : m.address \in Address /\ m.payload \in Payload /\ m.payload \in Nat
         /\ accepted \in Nat /\ free \in Nat /\ requests \in Nat
<1>1. /\ msgs \in Seq(Message) /\ pending_msgs \in Seq(Message) /\ pos \in 1 .. Len(pending_msgs) + 1
      /\ subs \in Seq(Request) /\ pending_subs \in Seq(Request)
      /\ accepted \in Nat /\ free \in Nat /\ requests \in Nat
  BY DEF Type, TypeOK
<1>2. Waiting \in Seq(Request)
  BY <1>1, ConcatProperties DEF Waiting
<1>3. \A m \in Message : m.address \in Address /\ m.payload \in Payload /\ m.payload \in Nat
  BY Constants DEF Message
<1> QED BY <1>1, <1>2, <1>3, LenProperties, ElementOfSeq

\* The stack of sends as a sequence.
LEMMA CallFacts ==
  ASSUME Type
  PROVE  /\ calls \in Seq(Send) /\ DOMAIN calls = 1 .. Len(calls) /\ Len(calls) \in Nat
         /\ \A i \in DOMAIN calls : calls[i] \in Send /\ calls[i].payload \in Payload /\ calls[i].payload \in Nat
         /\ \A f \in Send : /\ f.payload \in Payload /\ f.payload \in Nat /\ f.address \in Address
                             /\ f.last \in BOOLEAN /\ f.node \in Listener \cup {NoListener}
         /\ \A f \in Send : ListOf(f) \in Seq(Listener)
<1>1. calls \in Seq(Send) /\ slots \in [Address -> Seq(Listener)]
  BY DEF Type, TypeOK
<1>2. \A f \in Send : /\ f.payload \in Payload /\ f.payload \in Nat /\ f.address \in Address
                      /\ f.last \in BOOLEAN /\ f.node \in Listener \cup {NoListener}
  BY Constants DEF Send
<1>3. \A f \in Send : ListOf(f) \in Seq(Listener)
  BY <1>1, <1>2, Constants DEF ListOf
<1> QED BY <1>1, <1>2, <1>3, LenProperties, ElementOfSeq

\* An asynchronous bus has no stack of sends, nor has one that is freed.
LEMMA NoCalls ==
  ASSUME calls' = <<>>
  PROVE  InProgress' = {} /\ Nested'
<1>1. DOMAIN calls' = {}
  OBVIOUS
<1>2. InProgress' = {}
  BY <1>1 DEF InProgress
<1>3. Nested'
  BY <1>1 DEF Nested
<1> QED BY <1>2, <1>3

\* The payloads that are not delivered, by the place of their message.
LEMMA UndeliveredIs ==
  ASSUME Type, calls = <<>>
  PROVE  \A p : p \in Undelivered <=>
                   \/ \E i \in DOMAIN msgs : msgs[i].payload = p
                   \/ \E i \in DOMAIN pending_msgs : i >= pos /\ pending_msgs[i].payload = p
<1>1. msgs \in Seq(Message) /\ pending_msgs \in Seq(Message) /\ pos \in 1 .. Len(pending_msgs) + 1
  BY QueueFacts
<1>2. InProgress = {}
  <2>1. DOMAIN calls = {}
    OBVIOUS
  <2> QED BY <2>1 DEF InProgress
<1> QED BY <1>1, <1>2, PayloadsOf DEF Undelivered

\* The same in the next state.
LEMMA UndeliveredNext ==
  ASSUME Type', calls' = <<>>
  PROVE  \A p : p \in Undelivered' <=>
                   \/ \E i \in DOMAIN msgs' : msgs'[i].payload = p
                   \/ \E i \in DOMAIN pending_msgs' : i >= pos' /\ pending_msgs'[i].payload = p
<1>1. msgs' \in Seq(Message) /\ pending_msgs' \in Seq(Message) /\ pos' \in 1 .. Len(pending_msgs') + 1
  BY DEF Type, TypeOK
<1>2. Undelivered' = Payloads(msgs') \cup Payloads(SubSeq(pending_msgs', pos', Len(pending_msgs')))
  BY NoCalls DEF Undelivered, Payloads
<1> QED BY <1>1, <1>2, PayloadsOf

\* The payload of a message that is not delivered is open.
LEMMA LeftOpen ==
  ASSUME IInv
  PROVE  /\ \A i \in DOMAIN msgs : Open(msgs[i].payload)
         /\ \A i \in DOMAIN pending_msgs : i >= pos => Open(pending_msgs[i].payload)
         /\ \A i \in DOMAIN calls : Open(calls[i].payload)
<1>1. Type /\ Queued /\ Settled /\ Nested
  BY DEF IInv, Data
<1>2. msgs \in Seq(Message) /\ pending_msgs \in Seq(Message) /\ pos \in 1 .. Len(pending_msgs) + 1
  BY <1>1, QueueFacts
<1>3. /\ \A i \in DOMAIN msgs : msgs[i].payload \in Payload /\ msgs[i].payload \in Undelivered
      /\ \A i \in DOMAIN pending_msgs : i >= pos =>
            pending_msgs[i].payload \in Payload /\ pending_msgs[i].payload \in Undelivered
  BY <1>1, <1>2, QueueFacts, PayloadsOf DEF Undelivered
<1>4. \A i \in DOMAIN calls : calls[i].payload \in Payload /\ calls[i].payload \in Undelivered
  BY <1>1, CallFacts DEF Undelivered, InProgress
<1> QED BY <1>1, <1>3, <1>4 DEF Queued, Settled, Open, Nested

\* A synchronous bus leaves the queues alone.
LEMMA SyncFacts ==
  ASSUME IInv, policy = "sync", ~Freed
  PROVE  /\ msgs = <<>> /\ subs = <<>> /\ pending_msgs = <<>> /\ pending_subs = <<>>
         /\ Waiting = <<>> /\ Len(Waiting) = 0
         /\ DOMAIN msgs = {} /\ DOMAIN pending_msgs = {} /\ DOMAIN subs = {}
         /\ \A a \in Address : Distinct(slots[a])
         /\ \A a \in Address, l \in Listener : <<a, l>> \in members <=> l \in ToSet(slots[a])
         /\ Undelivered = InProgress
<1>1. msgs = <<>> /\ subs = <<>> /\ pending_msgs = <<>> /\ pending_subs = <<>>
  BY DEF IInv, Control
<1>2. Waiting = <<>> /\ Len(Waiting) = 0
  <2>1. <<>> \in Seq(Request)
    BY EmptySeq
  <2> QED BY <1>1, <2>1, ConcatEmptySeq, EmptySeq DEF Waiting
<1>3. \A a \in Address, l \in Listener : <<a, l>> \in members <=> After(slots, Waiting, 0, a, l)
  BY <1>2 DEF IInv, Data, Subscriptions
<1>4. \A a \in Address : Distinct(slots[a])
  BY DEF IInv, Data, Subscriptions
<1>5. DOMAIN msgs = {} /\ DOMAIN pending_msgs = {}
  BY <1>1
<1>6. Undelivered = InProgress
  <2>1. pending_msgs \in Seq(Message) /\ pos \in 1 .. Len(pending_msgs) + 1 /\ msgs \in Seq(Message)
    BY QueueFacts DEF IInv
  <2>2. Payloads(msgs) \cup Payloads(SubSeq(pending_msgs, pos, Len(pending_msgs))) = {}
    BY <1>5, <2>1, PayloadsOf
  <2> QED BY <2>2 DEF Undelivered
<1> QED BY <1>1, <1>2, <1>3, <1>4, <1>6, AfterNone

\* ... and also in the next state, if they do not change.
LEMMA SyncUndelivered ==
  ASSUME IInv, policy = "sync", ~Freed, UNCHANGED <<msgs, pending_msgs, pos>>
  PROVE  Undelivered' = InProgress'
<1>1. DOMAIN msgs = {} /\ DOMAIN pending_msgs = {}
  BY SyncFacts
<1>2. pending_msgs \in Seq(Message) /\ pos \in 1 .. Len(pending_msgs) + 1 /\ msgs \in Seq(Message)
  BY QueueFacts DEF IInv
<1>3. Payloads(msgs) \cup Payloads(SubSeq(pending_msgs, pos, Len(pending_msgs))) = {}
  BY <1>1, <1>2, PayloadsOf
<1>4. Undelivered' = Payloads(msgs) \cup Payloads(SubSeq(pending_msgs, pos, Len(pending_msgs))) \cup InProgress'
  BY DEF Undelivered, Payloads
<1> QED BY <1>3, <1>4

----------------------------------------------------------------------------
(* The invariant is preserved: requests                                    *)

\* What the callers see stays right while requests, table and members do.
LEMMA SubscriptionsFrame ==
  ASSUME Subscriptions, UNCHANGED <<slots, pending_subs, subs, members>>, Freed' <=> Freed
  PROVE  Subscriptions'
BY DEF Subscriptions, Waiting, After

\* A step that only moves threads preserves what is said of the data.
LEMMA QuietStep ==
  ASSUME IInv, Freed' <=> Freed, UNCHANGED <<calls, msgs, subs, pending_msgs, pending_subs, pos, slots>>,
         UNCHANGED <<askVars, endVars>>
  PROVE  Data'
<1>0. UNCHANGED <<accepted, members, wanted, touched, within, received, destroyed, discarded, closed>>
  BY DEF askVars, endVars
<1>1. Queued' /\ Delivered' /\ DeliveredInOrder' /\ SubscriptionsPrecedeMessages'
  BY <1>0 DEF IInv, Data, Queued, Delivered, DeliveredInOrder, SubscriptionsPrecedeMessages
<1>2. Subscriptions'
  BY <1>0, SubscriptionsFrame DEF IInv, Data
<1>3. Expected'
  BY <1>0 DEF IInv, Data, Expected, Expects
<1>4. Closing'
  BY <1>0 DEF IInv, Data, Closing, ClosedOncePerSubscription
<1>5. Settled'
  BY <1>0, ZenonT(40) DEF IInv, Data, Settled, Undelivered, Payloads, InProgress
<1>6. Nested'
  <2>1. ASSUME NEW i \in DOMAIN calls PROVE Tracked(calls[i])'
    <3>1. Tracked(calls[i])
      BY DEF IInv, Data, Nested
    <3> QED BY <1>0, <3>1 DEF Tracked, Ahead, ListOf
  <2> QED BY <1>0, <2>1 DEF IInv, Data, Nested
<1> QED BY <1>1, <1>2, <1>3, <1>4, <1>5, <1>6 DEF Data

\* The history of a request: messages that are settled are not touched by it.
LEMMA RequestStep ==
  ASSUME IInv, NEW op \in {"add", "remove"}, NEW a \in Address, NEW l \in Listener,
         requests < MaxRequests, RecordRequest(op, a, l), UNCHANGED endVars
  PROVE  /\ requests' \in 0 .. MaxRequests /\ members' \in SUBSET (Address \X Listener)
         /\ touched' \in [Payload -> SUBSET Listener]
         /\ \A b \in Address, k \in Listener :
               <<b, k>> \in members' <=> IF b = a /\ k = l THEN op = "add" ELSE <<b, k>> \in members
         /\ SubscriptionsPrecedeMessages'
         /\ \A m \in Message : Expects(m) /\ Open(m.payload) => Expects(m)'
         /\ \A p \in Payload : touched[p] \subseteq touched'[p] /\ (Open(p) => l \in touched'[p])
<1>1. /\ requests' = requests + 1
      /\ members' = IF op = "add" THEN members \cup {<<a, l>>} ELSE members \ {<<a, l>>}
      /\ touched' = [p \in Payload |-> IF Open(p) THEN touched[p] \cup {l} ELSE touched[p]]
      /\ wanted' = wanted /\ within' = within
      /\ UNCHANGED <<received, destroyed, discarded>>
  BY DEF RecordRequest, endVars
<1>2. /\ requests \in 0 .. MaxRequests /\ members \in SUBSET (Address \X Listener)
      /\ touched \in [Payload -> SUBSET Listener] /\ destroyed \in [Payload -> Nat]
  BY DEF IInv, Type, TypeOK
<1>3. requests' \in 0 .. MaxRequests
  BY <1>1, <1>2, Constants
<1>4. members' \in SUBSET (Address \X Listener)
  BY <1>1, <1>2
<1>5. touched' \in [Payload -> SUBSET Listener]
  BY <1>1, <1>2
<1>6. \A b \in Address, k \in Listener :
         <<b, k>> \in members' <=> IF b = a /\ k = l THEN op = "add" ELSE <<b, k>> \in members
  BY <1>1
<1>7. \A p \in Payload : touched[p] \subseteq touched'[p] /\ (Open(p) => l \in touched'[p])
  BY <1>1
<1>8. \A p \in Payload : destroyed[p] > 0 => touched'[p] = touched[p]
  BY <1>1, <1>2 DEF Open
<1>9. SubscriptionsPrecedeMessages'
  BY <1>1, <1>8 DEF IInv, Data, SubscriptionsPrecedeMessages
<1>10. ASSUME NEW m \in Message, Expects(m), Open(m.payload) PROVE Expects(m)'
  <2>1. m.payload \in Payload /\ m.address \in Address
    BY DEF Message
  <2>2. SUFFICES ASSUME NEW k \in Listener, k \notin touched'[m.payload]
                 PROVE  k \in wanted[m.payload] <=>
                           <<m.address, k>> \in members' \/ <<ALL, k>> \in members'
    BY <1>1 DEF Expects
  <2>3. k # l /\ k \notin touched[m.payload]
    BY <1>7, <1>10, <2>1, <2>2
  <2> QED BY <1>6, <1>10, <2>1, <2>3, Constants DEF Expects
<1> QED BY <1>3, <1>4, <1>5, <1>6, <1>7, <1>9, <1>10

\* s_bus_sync_subscribe and s_bus_sync_unsubscribe.
LEMMA SyncSubscriptionStep ==
  ASSUME IInv, NEW op \in {"add", "remove"}, NEW a \in Address, NEW l \in Listener,
         s_bus_sync_subscription(op, a, l)
  PROVE  IInv'
<1>1. /\ policy = "sync" /\ ~Freed /\ requests < MaxRequests /\ RecordRequest(op, a, l)
      /\ op = "add" => <<a, l>> \notin members
      /\ op = "remove" => ~Standing(a, l)
      /\ slots' = IF op = "add" THEN s_bus_subscribe(a, l) ELSE s_bus_unsubscribe(a, l)
      /\ UNCHANGED endVars
  BY DEF s_bus_sync_subscription, UserRuns, Freed
<1>2. UNCHANGED <<policy, calls, free, msgs, subs, running, pending_msgs, pending_subs, pending_drains, pos, pc,
                  cpc, wanted, within, accepted, received, destroyed, discarded, closed>>
  BY DEF s_bus_sync_subscription, queueVars, threadVars, endVars, RecordRequest
<1>3. /\ DOMAIN msgs = {} /\ DOMAIN pending_msgs = {} /\ Waiting = <<>> /\ Len(Waiting) = 0
      /\ \A b \in Address : Distinct(slots[b])
      /\ \A b \in Address, k \in Listener : <<b, k>> \in members <=> k \in ToSet(slots[b])
  BY <1>1, SyncFacts
<1>4. /\ slots' \in [Address -> Seq(Listener)]
      /\ \A b \in Address : Distinct(slots'[b])
      /\ \A b \in Address, k \in Listener :
            k \in ToSet(slots'[b]) <=> IF b = a /\ k = l THEN op = "add" ELSE k \in ToSet(slots[b])
      /\ \A b \in Address : \A x, y \in ToSet(slots[b]) \cap ToSet(slots'[b]) :
            Precedes(slots'[b], x, y) <=> Precedes(slots[b], x, y)
  <2>1. slots \in [Address -> Seq(Listener)]
    BY DEF IInv, Type, TypeOK
  <2> QED BY <1>1, <1>3, <2>1, TableStep
<1>5. /\ requests' \in 0 .. MaxRequests /\ members' \in SUBSET (Address \X Listener)
      /\ touched' \in [Payload -> SUBSET Listener]
      /\ \A b \in Address, k \in Listener :
            <<b, k>> \in members' <=> IF b = a /\ k = l THEN op = "add" ELSE <<b, k>> \in members
      /\ SubscriptionsPrecedeMessages'
      /\ \A p \in Payload : touched[p] \subseteq touched'[p] /\ (Open(p) => l \in touched'[p])
  BY <1>1, RequestStep
<1>6. Type'
  BY <1>2, <1>4, <1>5 DEF IInv, Type, TypeOK
<1>7. Control' /\ Drain'
  BY <1>2 DEF IInv, Control, Drain, Freed
<1>8. Queued' /\ Delivered' /\ DeliveredInOrder'
  BY <1>2 DEF IInv, Data, Queued, Delivered, DeliveredInOrder
<1>9. Settled'
  BY <1>2, ZenonT(40) DEF IInv, Data, Settled, Undelivered, Payloads, InProgress
<1>10. Closing'
  BY <1>1, <1>2 DEF IInv, Data, Closing, Freed
<1>11. Expected'
  BY <1>2, <1>3 DEF Expected
<1>13. Nested'
  <2>1. Type
    BY DEF IInv
  <2>2. ASSUME NEW i \in DOMAIN calls PROVE Tracked(calls[i])'
    <3>1. /\ calls[i] \in Send /\ calls[i].payload \in Payload /\ calls[i].address \in Address
          /\ calls[i].node \in Listener \cup {NoListener} /\ calls[i].last \in BOOLEAN
      BY <2>1, CallFacts
    <3>2. PICK b \in Address : b = IF calls[i].last THEN calls[i].address ELSE ALL
      BY <3>1, Constants
    <3>3. ListOf(calls[i]) = slots[b] /\ ListOf(calls[i])' = slots'[b]
      BY <1>2, <3>2 DEF ListOf
    <3>4. Tracked(calls[i]) /\ Open(calls[i].payload)
      BY LeftOpen DEF IInv, Data, Nested
    <3>5. calls[i].node # NoListener =>
             calls[i].node \in Listener /\ calls[i].node \in ToSet(slots[b]) /\ ~(op = "remove" /\ b = a /\ calls[i].node = l)
      BY <1>1, <3>1, <3>2, <3>3, <3>4 DEF Tracked, Standing
    <3>6. calls[i].node # NoListener => calls[i].node \in ToSet(slots'[b])
      BY <1>4, <3>5
    <3>7. ASSUME NEW k \in Listener, k \notin touched'[calls[i].payload]
          PROVE  /\ k \notin touched[calls[i].payload]
                 /\ Ahead(calls[i], k)' <=> Ahead(calls[i], k)
      <4>1. k # l /\ k \notin touched[calls[i].payload]
        BY <1>5, <3>1, <3>4, <3>7
      <4>2. /\ k \in ToSet(slots'[b]) <=> k \in ToSet(slots[b])
            /\ k \in ToSet(slots'[calls[i].address]) <=> k \in ToSet(slots[calls[i].address])
        BY <1>4, <3>1, <4>1
      <4>3. calls[i].node # NoListener =>
               (Precedes(slots'[b], calls[i].node, k) <=> Precedes(slots[b], calls[i].node, k))
        <5>1. CASE k \in ToSet(slots[b])
          BY <1>4, <3>5, <3>6, <4>2, <5>1
        <5>2. CASE k \notin ToSet(slots[b])
          BY <4>2, <5>2 DEF Precedes, ToSet
        <5> QED BY <5>1, <5>2
      <4> QED BY <1>2, <3>3, <4>1, <4>2, <4>3 DEF Ahead
    <3>8. SUFFICES ASSUME NEW k \in Listener, k \notin touched'[calls[i].payload]
                   PROVE  k \in wanted[calls[i].payload] <=>
                             Contains(received[k], calls[i].payload) \/ Ahead(calls[i], k)'
      BY <1>2, <3>3, <3>6 DEF Tracked
    <3> QED BY <3>4, <3>7, <3>8 DEF Tracked
  <2> QED BY <1>2, <2>2 DEF IInv, Data, Nested
<1>12. Subscriptions'
  <2>1. Waiting' = <<>> /\ Len(Waiting') = 0
    BY <1>2, <1>3 DEF Waiting
  <2>2. \A b \in Address, k \in Listener : <<b, k>> \in members' <=> k \in ToSet(slots'[b])
    BY <1>3, <1>4, <1>5
  <2>3. \A b \in Address, k \in Listener : <<b, k>> \in members' <=> After(slots', Waiting', 0, b, k)
    BY <2>2, AfterNone
  <2>4. 1 .. 0 = {}
    OBVIOUS
  <2> QED BY <1>4, <2>1, <2>3, <2>4 DEF Subscriptions
<1> QED BY <1>5, <1>6, <1>7, <1>8, <1>9, <1>10, <1>11, <1>12, <1>13 DEF IInv, Data

\* s_bus_async_subscribe and s_bus_async_unsubscribe.
LEMMA AsyncSubscriptionStep ==
  ASSUME IInv, NEW c \in Client, NEW op \in {"add", "remove"}, NEW a \in Address, NEW l \in Listener,
         s_bus_async_subscription(c, op, a, l)
  PROVE  IInv'
<1> DEFINE r == [op |-> op, address |-> a, listener |-> l]
<1>1. /\ policy # "sync" /\ ~Freed /\ running /\ requests < MaxRequests /\ RecordRequest(op, a, l)
      /\ op = "add" => <<a, l>> \notin members
      /\ subs' = Append(subs, r)
      /\ cpc[c] = "idle" /\ cpc' = [cpc EXCEPT ![c] = "notify"]
      /\ UNCHANGED endVars
  BY DEF s_bus_async_subscription, MayCall, Async, Freed
<1>2. UNCHANGED <<policy, calls, slots, free, msgs, running, pending_msgs, pending_subs, pending_drains, pos, pc,
                  wanted, within, accepted, received, destroyed, discarded, closed>>
  BY DEF s_bus_async_subscription, threadVars, endVars, RecordRequest
<1>3. r \in Request /\ r.op = op /\ r.address = a /\ r.listener = l
  BY DEF Request
<1> HIDE DEF r
<1>4. /\ requests' \in 0 .. MaxRequests /\ members' \in SUBSET (Address \X Listener)
      /\ touched' \in [Payload -> SUBSET Listener]
      /\ \A b \in Address, k \in Listener :
            <<b, k>> \in members' <=> IF b = a /\ k = l THEN op = "add" ELSE <<b, k>> \in members
      /\ SubscriptionsPrecedeMessages'
      /\ \A m \in Message : Expects(m) /\ Open(m.payload) => Expects(m)'
      /\ \A p \in Payload : touched[p] \subseteq touched'[p] /\ (Open(p) => l \in touched'[p])
  BY <1>1, RequestStep
<1>5. Type
  BY DEF IInv
<1>6. /\ subs' \in Seq(Request) /\ subs' # <<>> /\ DOMAIN subs' = 1 .. Len(subs) + 1
      /\ subs'[Len(subs) + 1] = r /\ \A j \in 1 .. Len(subs) : subs'[j] = subs[j]
      /\ Len(subs) \in Nat /\ DOMAIN subs = 1 .. Len(subs)
  BY <1>1, <1>3, <1>5, QueueFacts, AppendFacts
<1>7. ~Freed' /\ cpc' \in [Client -> {"idle", "notify", "closing", "spin", "freed"}]
  BY <1>1, Constants DEF IInv, Type, TypeOK, Freed
<1>8. Type'
  BY <1>2, <1>4, <1>6, <1>7 DEF IInv, Type, TypeOK
<1>9. Control'
  BY <1>1, <1>2, <1>7 DEF IInv, Control
<1>10. Drain'
  BY <1>1, <1>2 DEF IInv, Drain
<1>11. Queued' /\ Delivered' /\ DeliveredInOrder'
  BY <1>2 DEF IInv, Data, Queued, Delivered, DeliveredInOrder
<1>12. Settled'
  BY <1>2, ZenonT(40) DEF IInv, Data, Settled, Undelivered, Payloads, InProgress
<1>13. Closing'
  BY <1>1, <1>2, <1>7 DEF IInv, Data, Closing
<1>14. Expected'
  <2>1. \A i \in DOMAIN msgs : msgs[i] \in Message /\ Expects(msgs[i]) /\ Open(msgs[i].payload)
    BY <1>5, QueueFacts, LeftOpen DEF IInv, Data, Expected
  <2>2. \A i \in DOMAIN msgs : Expects(msgs[i])'
    <3>1. SUFFICES ASSUME NEW i \in DOMAIN msgs PROVE Expects(msgs[i])'
      OBVIOUS
    <3> DEFINE m == msgs[i]
    <3>2. m \in Message /\ Expects(m) /\ Open(m.payload) /\ m' = m
      BY <1>2, <2>1
    <3> QED BY <1>2, <1>4, <3>2 DEF Expects
  <2>3. ASSUME NEW i \in DOMAIN pending_msgs, i >= pos
        PROVE  /\ Expects(pending_msgs[i])'
               /\ \A j \in DOMAIN subs' : subs'[j].listener \in touched'[pending_msgs[i].payload]
    <3> DEFINE m == pending_msgs[i]
    <3>1. m \in Message /\ m.payload \in Payload /\ Expects(m) /\ Open(m.payload) /\ m' = m
      BY <1>2, <1>5, <2>3, QueueFacts, LeftOpen DEF IInv, Data, Expected
    <3>2. Expects(pending_msgs[i])'
      BY <1>2, <1>4, <3>1 DEF Expects
    <3>3. \A j \in DOMAIN subs : subs[j].listener \in touched[m.payload]
      BY <2>3 DEF IInv, Data, Expected
    <3>4. ASSUME NEW j \in DOMAIN subs' PROVE subs'[j].listener \in touched'[m.payload]
      <4>1. CASE j = Len(subs) + 1
        BY <1>3, <1>4, <1>6, <3>1, <4>1
      <4>2. CASE j \in 1 .. Len(subs)
        BY <1>4, <1>6, <3>1, <3>3, <4>2
      <4> QED BY <1>6, <3>4, <4>1, <4>2
    <3> QED BY <3>2, <3>4
  <2> QED BY <1>2, <2>2, <2>3 DEF Expected
<1>15. Subscriptions'
  <2> DEFINE q == Waiting
             n == Len(Waiting)
  <2>1. q \in Seq(Request) /\ n \in Nat
    BY <1>5, QueueFacts
  <2>2. Waiting' = Append(q, r)
    <3>1. subs \in Seq(Request) /\ pending_subs \in Seq(Request)
      BY <1>5, QueueFacts
    <3>2. pending_subs \o Append(subs, r) = Append(pending_subs \o subs, r)
      BY <1>3, <3>1
    <3> QED BY <1>1, <1>2, <3>2 DEF Waiting
  <2>3. Len(Waiting') = n + 1 /\ Waiting'[n + 1] = r /\ \A k \in 1 .. n : Waiting'[k] = q[k]
    BY <1>3, <2>1, <2>2, AppendFacts
  <2>4. /\ \A b \in Address : Distinct(slots[b])
        /\ \A k \in 1 .. n : q[k].op = "add" => ~After(slots, q, k - 1, q[k].address, q[k].listener)
        /\ \A b \in Address, k \in Listener : <<b, k>> \in members <=> After(slots, q, n, b, k)
    BY <1>1 DEF IInv, Data, Subscriptions
  <2> HIDE DEF q, n
  <2>5. ASSUME NEW k \in 1 .. n + 1, Waiting'[k].op = "add"
        PROVE  ~After(slots, Waiting', k - 1, Waiting'[k].address, Waiting'[k].listener)
    <3>1. CASE k \in 1 .. n
      <4>1. k - 1 \in 0 .. n /\ Waiting'[k] = q[k]
        BY <2>1, <2>3, <3>1
      <4>2. ~After(slots, q, k - 1, q[k].address, q[k].listener)
        BY <2>4, <2>5, <3>1, <4>1
      <4> QED BY <1>3, <2>1, <2>2, <4>1, <4>2, AfterAppend DEF q, n
    <3>2. CASE k = n + 1
      <4>1. k - 1 = n /\ Waiting'[k] = r /\ n \in 0 .. n
        BY <2>1, <2>3, <3>2
      <4>2. ~After(slots, q, n, a, l)
        BY <1>1, <1>3, <2>4, <2>5, <4>1
      <4>3. ~After(slots, Append(q, r), n, a, l)
        BY <1>3, <2>1, <4>1, <4>2, AfterAppend DEF q, n
      <4> QED BY <1>3, <2>2, <4>1, <4>3
    <3> QED BY <2>1, <2>5, <3>1, <3>2
  <2>6. ASSUME NEW b \in Address, NEW k \in Listener
        PROVE  <<b, k>> \in members' <=> After(slots, Waiting', n + 1, b, k)
    <3>1. After(slots, Append(q, r), n + 1, b, k) <=>
             IF Concerns(r, b, k) THEN r.op = "add" ELSE After(slots, q, n, b, k)
      BY <1>3, <2>1, AfterLast DEF q, n
    <3>2. Concerns(r, b, k) <=> b = a /\ k = l
      BY <1>3 DEF Concerns
    <3> QED BY <1>3, <1>4, <2>2, <2>4, <3>1, <3>2
  <2> QED BY <1>2, <2>3, <2>4, <2>5, <2>6 DEF Subscriptions
<1>16. Nested'
  BY <1>1, <1>2, NoCalls DEF IInv, Control
<1> QED BY <1>4, <1>8, <1>9, <1>10, <1>11, <1>12, <1>13, <1>14, <1>15, <1>16 DEF IInv, Data

----------------------------------------------------------------------------
(* The invariant is preserved: sends                                       *)

\* The history of a send: only the new payload's subscribers are recorded.
LEMMA SendStep ==
  ASSUME IInv, NEW a \in Address, NEW p \in Payload, p = accepted + 1, RecordSend(a, p)
  PROVE  /\ accepted' = p /\ accepted' \in 0 .. MaxSends /\ p \in Nat /\ accepted < p
         /\ UNCHANGED <<requests, members, touched>>
         /\ wanted' \in [Payload -> SUBSET Listener]
         /\ \A q \in Payload : q # p => wanted'[q] = wanted[q]
         /\ \A l \in Listener : l \in wanted'[p] <=> <<a, l>> \in members \/ <<ALL, l>> \in members
         /\ destroyed[p] = 0
         /\ \A q \in Payload : q <= p <=> q <= accepted \/ q = p
         /\ within' \in [Payload -> SUBSET Payload] /\ within'[p] = InProgress
         /\ \A q \in Payload : q # p => within'[q] = within[q]
<1>1. /\ accepted' = p /\ UNCHANGED <<requests, members, touched>>
      /\ within' = [within EXCEPT ![p] = InProgress]
      /\ wanted' = [wanted EXCEPT ![p] = {l \in Listener : <<a, l>> \in members \/ <<ALL, l>> \in members}]
  BY DEF RecordSend
<1>2. wanted \in [Payload -> SUBSET Listener] /\ accepted \in Nat
  BY QueueFacts DEF IInv, Type
<1>3. p \in Nat /\ accepted < p /\ p \in 0 .. MaxSends
  BY <1>2, Constants
<1>4. destroyed[p] = 0
  BY <1>2, <1>3 DEF IInv, Data, Settled
<1>5. \A q \in Payload : q <= p <=> q <= accepted \/ q = p
  BY <1>2, Constants
<1>6. /\ within' \in [Payload -> SUBSET Payload] /\ within'[p] = InProgress
      /\ \A q \in Payload : q # p => within'[q] = within[q]
  <2>1. InProgress \subseteq Payload /\ within \in [Payload -> SUBSET Payload]
    BY CallFacts DEF IInv, Type, InProgress
  <2> HIDE DEF InProgress
  <2> QED BY <1>1, <2>1
<1> QED BY <1>1, <1>2, <1>3, <1>4, <1>5, <1>6

\* Delivering a payload that is newer than all that was delivered keeps the order.
LEMMA DeliverOrder ==
  ASSUME IInv, NEW a \in Address, NEW p \in Payload, s_bus_deliver_msg(a, p), within' = within,
         \A l \in Listener : \A i \in DOMAIN received[l] : received[l][i] < p
  PROVE  /\ DeliveredInOrder'
         /\ \A l \in Listener : ~Contains(received[l], p)
         /\ \A l \in Listener : \A i \in DOMAIN received'[l] : received'[l][i] <= p
<1>1. Type
  BY DEF IInv
<1>2. \A l \in Listener : received[l] \in Seq(Payload) /\ received'[l] \in Seq(Payload)
  BY <1>1, DeliverStep DEF Type
<1>3. \A l \in Listener :
         /\ DOMAIN received[l] = 1 .. Len(received[l]) /\ DOMAIN received'[l] = 1 .. Len(received'[l])
         /\ Len(received[l]) \in Nat /\ Len(received'[l]) \in Nat
         /\ \A i \in DOMAIN received[l] : received[l][i] \in Nat
         /\ \A i \in DOMAIN received'[l] : received'[l][i] \in Nat
  BY <1>2, LenProperties, ElementOfSeq, Constants
<1>4. p \in Nat
  BY Constants
<1>5. ASSUME NEW l \in Listener, NEW i \in DOMAIN received'[l]
      PROVE  \/ i \in DOMAIN received[l] /\ received'[l][i] = received[l][i] /\ received[l][i] < p
             \/ (\A j \in DOMAIN received[l] : j < i) /\ received'[l][i] = p
  BY <1>1, DeliverStep
<1>6. \A l \in Listener : \A i \in DOMAIN received'[l] : received'[l][i] <= p
  BY <1>3, <1>4, <1>5
<1>7. \A l \in Listener : ~Contains(received[l], p)
  BY <1>3, <1>4 DEF Contains
<1>8. ASSUME NEW l \in Listener, NEW i \in DOMAIN received'[l], NEW j \in DOMAIN received'[l], i < j
      PROVE  received'[l][i] <= received'[l][j] \/ received'[l][j] \in within'[received'[l][i]]
  <2>1. CASE j \in DOMAIN received[l] /\ received'[l][j] = received[l][j]
    <3>1. i \in DOMAIN received[l]
      BY <1>3, <1>8, <2>1
    <3>2. received'[l][i] = received[l][i]
      BY <1>1, <3>1, DeliverStep
    <3>3. received[l][i] <= received[l][j] \/ received[l][j] \in within[received[l][i]]
      BY <1>8, <2>1, <3>1 DEF IInv, Data, DeliveredInOrder
    <3> QED BY <2>1, <3>2, <3>3
  <2>2. CASE received'[l][j] = p
    BY <1>6, <2>2
  <2> QED BY <1>5, <2>1, <2>2
<1> QED BY <1>6, <1>7, <1>8 DEF DeliveredInOrder

\* s_bus_sync_send, up to its first call of a listener.
LEMMA SyncSendStep ==
  ASSUME IInv, NEW a \in Address, NEW p \in Payload, s_bus_sync_send(a, p)
  PROVE  IInv'
<1> DEFINE n == Len(calls)
<1>1. /\ policy = "sync" /\ ~Freed /\ p = accepted + 1 /\ RecordSend(a, p)
      /\ calls' = Append(calls, [payload |-> p, address |-> a, last |-> FALSE, node |-> NoListener])
  BY DEF s_bus_sync_send, UserRuns, Freed
<1>2. UNCHANGED <<policy, slots, free, msgs, subs, running, pending_msgs, pending_subs, pending_drains, pos, pc,
                  cpc, received, destroyed, discarded, closed>>
  BY DEF s_bus_sync_send, queueVars, threadVars, endVars
<1>3. /\ DOMAIN msgs = {} /\ DOMAIN pending_msgs = {} /\ Undelivered = InProgress
      /\ \A b \in Address, k \in Listener : <<b, k>> \in members <=> k \in ToSet(slots[b])
  BY <1>1, SyncFacts
<1>4. /\ accepted' = p /\ accepted' \in 0 .. MaxSends /\ p \in Nat /\ accepted < p
      /\ UNCHANGED <<requests, members, touched>>
      /\ wanted' \in [Payload -> SUBSET Listener]
      /\ \A q \in Payload : q # p => wanted'[q] = wanted[q]
      /\ \A l \in Listener : l \in wanted'[p] <=> <<a, l>> \in members \/ <<ALL, l>> \in members
      /\ destroyed[p] = 0
      /\ \A q \in Payload : q <= p <=> q <= accepted \/ q = p
      /\ within' \in [Payload -> SUBSET Payload] /\ within'[p] = InProgress
      /\ \A q \in Payload : q # p => within'[q] = within[q]
  BY <1>1, SendStep
<1>5. Type /\ accepted \in Nat /\ Nested
  BY QueueFacts DEF IInv, Data
<1>22. [payload |-> p, address |-> a, last |-> FALSE, node |-> NoListener] \in Send
  BY DEF Send
<1>6. PICK f \in Send : /\ f = [payload |-> p, address |-> a, last |-> FALSE, node |-> NoListener]
                        /\ f.payload = p /\ f.address = a /\ f.last = FALSE /\ f.node = NoListener
  BY <1>22
<1>7. /\ calls' \in Seq(Send) /\ DOMAIN calls = 1 .. n /\ n \in Nat /\ DOMAIN calls' = 1 .. n + 1
      /\ calls'[n + 1] = f /\ \A i \in 1 .. n : calls'[i] = calls[i]
  BY <1>1, <1>5, <1>6, CallFacts, AppendFacts
<1> HIDE DEF n
<1>8. \A i \in DOMAIN calls' : i = n + 1 \/ (i \in DOMAIN calls /\ calls'[i] = calls[i])
  BY <1>7
<1>9. \A i \in DOMAIN calls : calls[i].payload \in Payload /\ calls[i].payload \in Nat /\ calls[i].payload < p
  <2>1. \A i \in DOMAIN calls : calls[i].payload \in Payload /\ calls[i].payload \in Nat /\ calls[i].payload <= accepted
    BY <1>5, CallFacts DEF Nested
  <2> QED BY <1>4, <1>5, <2>1
<1>10. Type'
  BY <1>2, <1>4, <1>7 DEF IInv, Type, TypeOK
<1>11. Control' /\ Drain'
  BY <1>1, <1>2 DEF IInv, Control, Drain, Freed
<1>12. Queued' /\ Expected'
  BY <1>2, <1>3 DEF Queued, Expected
<1>13. \A l \in Listener : \A i \in DOMAIN received[l] :
          received[l][i] \in Payload /\ received[l][i] \in Nat /\ received[l][i] < p
  <2>1. \A l \in Listener : \A i \in DOMAIN received[l] : received[l][i] \in Payload /\ received[l][i] \in Nat
    <3>1. \A l \in Listener : received[l] \in Seq(Payload)
      BY <1>5 DEF Type
    <3> QED BY <3>1, LenProperties, ElementOfSeq, Constants
  <2>2. \A l \in Listener : \A i \in DOMAIN received[l] : received[l][i] <= accepted
    BY DEF IInv, Data, Delivered
  <2> QED BY <1>4, <1>5, <2>1, <2>2
<1>14. Delivered'
  <2>1. \A l \in Listener : \A i \in DOMAIN received[l] : received[l][i] <= p
    BY <1>4, <1>13
  <2> QED BY <1>2, <1>3, <1>4, <2>1 DEF Delivered
<1>15. DeliveredInOrder'
  <2>1. \A l \in Listener : \A i \in DOMAIN received[l] : within'[received[l][i]] = within[received[l][i]]
    BY <1>4, <1>13
  <2> QED BY <1>2, <2>1 DEF IInv, Data, DeliveredInOrder
<1>16. Settled'
  <2>1. \A q : q \in InProgress' <=> q \in InProgress \/ q = p
    <3>1. \A q : q \in InProgress' <=> \E i \in DOMAIN calls' : calls'[i].payload = q
      BY DEF InProgress
    <3>2. \A q : q \in InProgress <=> \E i \in DOMAIN calls : calls[i].payload = q
      BY DEF InProgress
    <3> QED BY <1>6, <1>7, <1>8, <3>1, <3>2
  <2>2. Undelivered' = InProgress'
    BY <1>1, <1>2, SyncUndelivered
  <2> QED BY <1>2, <1>3, <1>4, <2>1, <2>2 DEF IInv, Data, Settled
<1>17. Closing'
  BY <1>1, <1>2 DEF IInv, Data, Closing, Freed
<1>18. Subscriptions'
  <2>1. (Freed' <=> Freed) /\ Subscriptions
    BY <1>2 DEF IInv, Data, Freed
  <2> QED BY <1>2, <1>4, <2>1, SubscriptionsFrame
<1>19. SubscriptionsPrecedeMessages'
  <2>1. SUFFICES ASSUME NEW q \in Payload \ discarded, NEW l \in Listener, destroyed[q] > 0, l \notin touched[q]
                 PROVE  l \in wanted'[q] <=> Contains(received[l], q)
    BY <1>2, <1>4 DEF SubscriptionsPrecedeMessages
  <2>2. q # p
    BY <1>4, <2>1
  <2> QED BY <1>4, <2>1, <2>2 DEF IInv, Data, SubscriptionsPrecedeMessages
<1>20. ASSUME NEW i \in DOMAIN calls' PROVE calls'[i].payload <= p /\ Tracked(calls[i])'
  <2>1. CASE i = n + 1
    <3>1. calls'[i] = f
      BY <1>7, <2>1
    <3>2. \A l \in Listener : ~Contains(received[l], p)
      BY <1>13 DEF Contains
    <3>3. \A l \in Listener : Ahead(calls[i], l)' <=> l \in ToSet(slots[ALL]) \/ l \in ToSet(slots[a])
      BY <1>2, <1>6, <3>1 DEF Ahead, ListOf
    <3>4. \A l \in Listener : l \in wanted'[p] <=> l \in ToSet(slots[ALL]) \/ l \in ToSet(slots[a])
      BY <1>3, <1>4, Constants
    <3> QED BY <1>2, <1>4, <1>6, <3>1, <3>2, <3>3, <3>4 DEF Tracked
  <2>2. CASE i \in DOMAIN calls /\ calls'[i] = calls[i]
    <3>1. Tracked(calls[i]) /\ wanted'[calls[i].payload] = wanted[calls[i].payload]
      BY <1>4, <1>5, <1>9, <2>2 DEF Nested
    <3>2. Tracked(calls[i])'
      BY <1>2, <1>4, <2>2, <3>1 DEF Tracked, Ahead, ListOf
    <3> QED BY <1>4, <1>9, <2>2, <3>2
  <2> QED BY <1>8, <2>1, <2>2
<1>21. Nested'
  <2>1. ASSUME NEW i \in DOMAIN calls', NEW j \in DOMAIN calls', i < j PROVE calls'[i].payload < calls'[j].payload
    <3>1. i \in DOMAIN calls /\ calls'[i] = calls[i]
      BY <1>7, <2>1
    <3>2. CASE j = n + 1
      BY <1>6, <1>7, <1>9, <3>1, <3>2
    <3>3. CASE j \in DOMAIN calls /\ calls'[j] = calls[j]
      BY <1>5, <2>1, <3>1, <3>3 DEF Nested
    <3> QED BY <1>8, <3>2, <3>3
  <2>2. ASSUME NEW i \in DOMAIN calls', NEW q \in Payload, calls'[i].payload < q, q <= p
        PROVE  calls'[i].payload \in within'[q]
    <3>1. CASE i = n + 1
      BY <1>4, <1>6, <1>7, <2>2, <3>1, Constants
    <3>2. CASE i \in DOMAIN calls /\ calls'[i] = calls[i]
      <4>1. CASE q = p
        BY <1>4, <3>2, <4>1 DEF InProgress
      <4>2. CASE q # p
        BY <1>4, <1>5, <2>2, <3>2, <4>2 DEF Nested
      <4> QED BY <4>1, <4>2
    <3> QED BY <1>8, <3>1, <3>2
  <2> QED BY <1>4, <1>20, <2>1, <2>2 DEF Nested
<1> QED BY <1>10, <1>11, <1>12, <1>14, <1>15, <1>16, <1>17, <1>18, <1>19, <1>21 DEF IInv, Data

\* s_bus_deliver_msg_to_slot: the innermost send goes on.
LEMMA SyncDeliverStep ==
  ASSUME IInv, s_bus_deliver_msg_to_slot
  PROVE  IInv'
<1> DEFINE n == Len(calls)
<1>1. policy = "sync" /\ calls # <<>> /\ ~Freed
  BY DEF s_bus_deliver_msg_to_slot, IInv, Control
<1>2. UNCHANGED <<policy, slots, free, msgs, subs, running, pending_msgs, pending_subs, pending_drains, pos, pc, cpc,
                  requests, members, wanted, touched, within, accepted, discarded, closed>>
  BY DEF s_bus_deliver_msg_to_slot, queueVars, threadVars, askVars
<1>3. /\ DOMAIN msgs = {} /\ DOMAIN pending_msgs = {} /\ Undelivered = InProgress
      /\ \A b \in Address : Distinct(slots[b])
  BY <1>1, SyncFacts
<1>4. Undelivered' = InProgress'
  BY <1>1, <1>2, SyncUndelivered
<1>5. Type /\ Nested /\ Delivered
  BY DEF IInv, Data
<1>6. /\ calls \in Seq(Send) /\ DOMAIN calls = 1 .. n /\ n \in Nat /\ n >= 1 /\ n \in DOMAIN calls
      /\ Last(calls) = calls[n] /\ Front(calls) \in Seq(Send)
      /\ Len(Front(calls)) = n - 1 /\ DOMAIN Front(calls) = 1 .. n - 1
      /\ \A i \in 1 .. n - 1 : Front(calls)[i] = calls[i]
  BY <1>1, <1>5, CallFacts, FrontFacts
<1> HIDE DEF n
<1>7. PICK f \in Send : f = calls[n]
  BY <1>5, <1>6, CallFacts
<1>8. PICK p \in Payload : p = f.payload /\ p \in Nat
  BY <1>5, <1>7, CallFacts
<1>9. /\ \A i \in DOMAIN calls : i # n => calls[i].payload < p
      /\ \A i \in DOMAIN calls : calls[i].payload \in Payload /\ calls[i].payload \in Nat
      /\ p <= accepted /\ accepted \in Nat /\ destroyed[p] = 0 /\ Tracked(f)
  <2>1. \A i \in DOMAIN calls : i # n => i < n
    BY <1>6
  <2>2. Open(p)
    BY <1>6, <1>7, <1>8, LeftOpen
  <2> QED BY <1>5, <1>6, <1>7, <1>8, <2>1, <2>2, CallFacts, QueueFacts DEF Nested, Open
<1>10. \A q : q \in InProgress <=> \E i \in DOMAIN calls : calls[i].payload = q
  BY DEF InProgress
<1>11. \A q : q \in InProgress' <=> \E i \in DOMAIN calls' : calls'[i].payload = q
  BY DEF InProgress
<1>12. Control' /\ Drain'
  BY <1>1, <1>2 DEF IInv, Control, Drain, Freed
<1>13. Queued' /\ Expected'
  BY <1>2, <1>3 DEF Queued, Expected
<1>14. Closing'
  BY <1>1, <1>2 DEF IInv, Data, Closing, Freed
<1>15. Subscriptions'
  <2>1. (Freed' <=> Freed) /\ Subscriptions
    BY <1>2 DEF IInv, Data, Freed
  <2> QED BY <1>2, <2>1, SubscriptionsFrame
<1>16. ASSUME NEW g \in Send, g.payload = p, calls' = Append(Front(calls), g), destroyed' = destroyed,
              received' \in [Listener -> Seq(Payload)], Delivered', DeliveredInOrder',
              \A l \in Listener : \A x : x # p => (Contains(received'[l], x) <=> Contains(received[l], x)),
              g.node # NoListener => g.node \in ToSet(ListOf(g)),
              \A l \in Listener : l \notin touched[p] =>
                 (l \in wanted[p] <=> Contains(received'[l], p) \/ Ahead(g, l))
       PROVE  IInv'
  <2>1. /\ calls' \in Seq(Send) /\ DOMAIN calls' = DOMAIN calls /\ calls'[n] = g
        /\ \A i \in DOMAIN calls : i # n => calls'[i] = calls[i]
    <3>1. /\ Append(Front(calls), g) \in Seq(Send) /\ DOMAIN Append(Front(calls), g) = 1 .. (n - 1) + 1
          /\ \A i \in 1 .. n - 1 : Append(Front(calls), g)[i] = Front(calls)[i]
          /\ Append(Front(calls), g)[(n - 1) + 1] = g
      BY <1>6, AppendFacts
    <3>2. (n - 1) + 1 = n /\ \A i \in DOMAIN calls : i # n => i \in 1 .. n - 1
      BY <1>6
    <3> QED BY <1>6, <1>16, <3>1, <3>2
  <2>2. \A i \in DOMAIN calls : calls'[i].payload = calls[i].payload
    BY <1>7, <1>8, <1>16, <2>1
  <2>3. Type'
    BY <1>2, <1>16, <2>1 DEF IInv, Type, TypeOK
  <2>4. Settled'
    <3>1. \A q : q \in Undelivered' <=> q \in Undelivered
      BY <1>3, <1>4, <1>10, <1>11, <2>1, <2>2
    <3> QED BY <1>2, <1>16, <3>1 DEF IInv, Data, Settled
  <2>5. SubscriptionsPrecedeMessages'
    <3>1. SUFFICES ASSUME NEW q \in Payload \ discarded, NEW l \in Listener, destroyed[q] > 0, l \notin touched[q]
                   PROVE  l \in wanted[q] <=> Contains(received'[l], q)
      BY <1>2, <1>16 DEF SubscriptionsPrecedeMessages
    <3>2. q # p
      BY <1>9, <3>1
    <3> QED BY <1>16, <3>1, <3>2 DEF IInv, Data, SubscriptionsPrecedeMessages
  <2>6. ASSUME NEW i \in DOMAIN calls PROVE Tracked(calls[i])'
    <3>1. CASE i = n
      <4>1. calls'[i] = g
        BY <2>1, <3>1
      <4> QED BY <1>2, <1>16, <4>1 DEF Tracked, Ahead, ListOf
    <3>2. CASE i # n
      <4>1. calls'[i] = calls[i] /\ calls[i].payload # p /\ Tracked(calls[i])
        BY <1>5, <1>8, <1>9, <2>1, <3>2 DEF Nested
      <4> QED BY <1>2, <1>16, <4>1 DEF Tracked, Ahead, ListOf
    <3> QED BY <3>1, <3>2
  <2>7. Nested'
    BY <1>2, <1>5, <2>1, <2>2, <2>6 DEF Nested
  <2> QED BY <1>12, <1>13, <1>14, <1>15, <1>16, <2>3, <2>4, <2>5, <2>7 DEF IInv, Data
<1>17. /\ ListOf(f) \in Seq(Listener) /\ Distinct(ListOf(f)) /\ DOMAIN ListOf(f) = 1 .. Len(ListOf(f))
       /\ Len(ListOf(f)) \in Nat
  <2>1. ListOf(f) \in Seq(Listener) /\ f.address \in Address
    BY <1>5, CallFacts
  <2> QED BY <1>3, <2>1, Constants, LenProperties DEF ListOf
<1>18. \A l \in Listener : received[l] \in Seq(Payload)
  BY <1>5 DEF Type
<1>19. \A l \in Listener : \A i \in DOMAIN received[l] :
          received[l][i] \in Payload /\ received[l][i] \in Nat /\ received[l][i] <= accepted
  BY <1>5, <1>18, LenProperties, ElementOfSeq, Constants DEF Delivered
<1>20. ASSUME NEW i \in DOMAIN ListOf(f), Follows(f, i),
              received' = [received EXCEPT ![ListOf(f)[i]] = Append(@, p)],
              calls' = Append(Front(calls), [f EXCEPT !.node = ListOf(f)[i]]), destroyed' = destroyed
       PROVE  IInv'
  <2>1. PICK k \in Listener : k = ListOf(f)[i]
    BY <1>17, ElementOfSeq
  <2>2. [f EXCEPT !.node = k] \in Send /\ NoListener # k
    BY BusAssumption DEF Send
  <2>3. PICK g \in Send : /\ g = [f EXCEPT !.node = k] /\ g.payload = p /\ g.node = k
                          /\ g.last = f.last /\ g.address = f.address
    BY <1>8, <2>2 DEF Send
  <2>4. /\ DOMAIN received[k] = 1 .. Len(received[k]) /\ Len(received[k]) \in Nat
        /\ received'[k] \in Seq(Payload) /\ DOMAIN received'[k] = 1 .. Len(received[k]) + 1
        /\ received'[k][Len(received[k]) + 1] = p
        /\ \A j \in 1 .. Len(received[k]) : received'[k][j] = received[k][j]
    <3>1. received'[k] = Append(received[k], p) /\ received[k] \in Seq(Payload)
      BY <1>5, <1>18, <1>20, <2>1 DEF Type
    <3> QED BY <3>1, AppendFacts
  <2>5. received' \in [Listener -> Seq(Payload)] /\ \A l \in Listener : l # k => received'[l] = received[l]
    BY <1>5, <1>20, <2>1, <2>4 DEF Type
  <2>6. \A l \in Listener : \A j \in DOMAIN received'[l] :
           \/ j \in DOMAIN received[l] /\ received'[l][j] = received[l][j]
           \/ received'[l][j] = p /\ (\A h \in DOMAIN received[l] : h < j)
              /\ (\A h \in DOMAIN received'[l] : h < j => h \in DOMAIN received[l] /\ received'[l][h] = received[l][h])
    <3>1. SUFFICES ASSUME NEW l \in Listener, NEW j \in DOMAIN received'[l], l = k
                   PROVE  \/ j \in DOMAIN received[l] /\ received'[l][j] = received[l][j]
                          \/ received'[l][j] = p /\ (\A h \in DOMAIN received[l] : h < j)
                             /\ (\A h \in DOMAIN received'[l] : h < j => h \in DOMAIN received[l] /\ received'[l][h] = received[l][h])
      BY <2>5
    <3>2. CASE j \in 1 .. Len(received[k])
      BY <2>4, <3>1, <3>2
    <3>3. CASE j = Len(received[k]) + 1
      <4>1. \A h \in 1 .. Len(received[k]) : h < j
        BY <2>4, <3>3
      <4>2. \A h \in 1 .. Len(received[k]) + 1 : h < j => h \in 1 .. Len(received[k])
        BY <2>4, <3>3
      <4> QED BY <2>4, <3>1, <3>3, <4>1, <4>2
    <3>4. j \in 1 .. Len(received[k]) \/ j = Len(received[k]) + 1
      BY <2>4, <3>1
    <3> QED BY <3>2, <3>3, <3>4
  <2>7. \A l \in Listener : \A x : Contains(received'[l], x) <=> Contains(received[l], x) \/ (l = k /\ x = p)
    <3>1. \A x : Contains(received'[k], x) <=> Contains(received[k], x) \/ x = p
      <4>1. \A x : Contains(received[k], x) <=> \E j \in 1 .. Len(received[k]) : received[k][j] = x
        BY <1>18, <2>4 DEF Contains
      <4>2. \A x : Contains(received'[k], x) <=> \E j \in 1 .. Len(received[k]) + 1 : received'[k][j] = x
        BY <2>4 DEF Contains
      <4>3. \A j : j \in 1 .. Len(received[k]) + 1 <=> j \in 1 .. Len(received[k]) \/ j = Len(received[k]) + 1
        BY <2>4
      <4> QED BY <2>4, <4>1, <4>2, <4>3
    <3> QED BY <2>5, <3>1
  <2>8. Delivered'
    BY <1>2, <1>3, <1>9, <1>19, <2>6 DEF Delivered
  <2>9. DeliveredInOrder'
    <3>1. SUFFICES ASSUME NEW l \in Listener, NEW h \in DOMAIN received'[l], NEW j \in DOMAIN received'[l], h < j
                   PROVE  received'[l][h] <= received'[l][j] \/ received'[l][j] \in within[received'[l][h]]
      BY <1>2 DEF DeliveredInOrder
    <3>2. CASE j \in DOMAIN received[l] /\ received'[l][j] = received[l][j]
      <4>1. h \in DOMAIN received[l] /\ received'[l][h] = received[l][h]
        <5>1. received[l] \in Seq(Payload) /\ received'[l] \in Seq(Payload)
          BY <1>18, <2>5
        <5>2. DOMAIN received[l] = 1 .. Len(received[l]) /\ DOMAIN received'[l] = 1 .. Len(received'[l])
              /\ Len(received[l]) \in Nat /\ Len(received'[l]) \in Nat
          BY <5>1, LenProperties
        <5>3. h \in DOMAIN received[l]
          BY <3>1, <3>2, <5>2
        <5> QED BY <2>4, <2>5, <5>3
      <4> QED BY <3>1, <3>2, <4>1 DEF IInv, Data, DeliveredInOrder
    <3>3. CASE received'[l][j] = p /\ h \in DOMAIN received[l] /\ received'[l][h] = received[l][h]
      <4>1. CASE received[l][h] <= p
        BY <3>3, <4>1
      <4>2. CASE ~(received[l][h] <= p)
        <5>1. received[l][h] \in Payload /\ p < received[l][h] /\ received[l][h] <= accepted
          BY <1>8, <1>19, <3>3, <4>2
        <5>2. p \in within[received[l][h]]
          BY <1>5, <1>6, <1>7, <1>8, <5>1 DEF Nested
        <5> QED BY <3>3, <5>2
      <4> QED BY <4>1, <4>2
    <3> QED BY <2>6, <3>1, <3>2, <3>3
  <2>10. ListOf(g) = ListOf(f) /\ k \in ToSet(ListOf(f))
    BY <1>20, <2>1, <2>3 DEF ListOf, ToSet
  <2>11. ASSUME NEW l \in Listener PROVE Ahead(f, l) <=> l = k \/ Ahead(g, l)
    <3>1. /\ i = 1 => (l \in ToSet(ListOf(f)) <=> l = k \/ Precedes(ListOf(f), k, l))
          /\ i > 1 => (Precedes(ListOf(f), ListOf(f)[i - 1], l) <=> l = k \/ Precedes(ListOf(f), k, l))
      BY <1>17, <1>20, <2>1, NextInList
    <3>2. Ahead(g, l) <=> Precedes(ListOf(f), k, l) \/ (~f.last /\ l \in ToSet(slots[f.address]))
      BY <2>2, <2>3, <2>10 DEF Ahead
    <3>3. CASE f.node = NoListener
      <4>1. i = 1
        BY <1>20, <3>3 DEF Follows
      <4> QED BY <3>1, <3>2, <3>3, <4>1 DEF Ahead
    <3>4. CASE f.node # NoListener
      <4>1. i > 1 /\ ListOf(f)[i - 1] = f.node
        BY <1>20, <3>4 DEF Follows
      <4> QED BY <3>1, <3>2, <3>4, <4>1 DEF Ahead
    <3> QED BY <3>3, <3>4
  <2>12. \A l \in Listener : l \notin touched[p] =>
            (l \in wanted[p] <=> Contains(received'[l], p) \/ Ahead(g, l))
    BY <1>8, <1>9, <2>7, <2>11 DEF Tracked
  <2>13. calls' = Append(Front(calls), g)
    BY <1>20, <2>1, <2>3
  <2>14. \A l \in Listener : \A x : x # p => (Contains(received'[l], x) <=> Contains(received[l], x))
    BY <2>7
  <2>15. g.node # NoListener => g.node \in ToSet(ListOf(g))
    BY <2>3, <2>10
  <2>16. destroyed' = destroyed /\ received' \in [Listener -> Seq(Payload)]
    BY <1>20, <2>5
  <2> QED BY <1>16, <2>3, <2>8, <2>9, <2>12, <2>13, <2>14, <2>15, <2>16
<1>21. ASSUME ~\E i \in DOMAIN ListOf(f) : Follows(f, i)
       PROVE  \A l \in Listener : Ahead(f, l) <=> ~f.last /\ l \in ToSet(slots[f.address])
  <2>1. CASE f.node = NoListener
    <3>1. 1 \notin DOMAIN ListOf(f)
      BY <1>21, <2>1 DEF Follows
    <3>2. DOMAIN ListOf(f) = {}
      BY <1>17, <3>1
    <3> QED BY <2>1, <3>2 DEF Ahead, ToSet
  <2>2. CASE f.node # NoListener
    <3>1. ~\E i \in DOMAIN ListOf(f) : i > 1 /\ ListOf(f)[i - 1] = f.node
      BY <1>21, <2>2 DEF Follows
    <3>2. \A l : ~Precedes(ListOf(f), f.node, l)
      BY <1>17, <3>1, EndOfList
    <3> QED BY <2>2, <3>2 DEF Ahead
  <2> QED BY <2>1, <2>2
<1>22. ASSUME ~\E i \in DOMAIN ListOf(f) : Follows(f, i), ~f.last,
              calls' = Append(Front(calls), [f EXCEPT !.last = TRUE, !.node = NoListener]),
              UNCHANGED <<received, destroyed>>
       PROVE  IInv'
  <2>1. [f EXCEPT !.last = TRUE, !.node = NoListener] \in Send
    BY DEF Send
  <2>2. PICK g \in Send : /\ g = [f EXCEPT !.last = TRUE, !.node = NoListener] /\ g.payload = p
                          /\ g.node = NoListener /\ g.last = TRUE /\ g.address = f.address
    BY <1>8, <2>1 DEF Send
  <2>3. \A l \in Listener : Ahead(f, l) <=> Ahead(g, l)
    BY <1>21, <1>22, <2>2 DEF Ahead, ListOf
  <2>4. \A l \in Listener : l \notin touched[p] =>
            (l \in wanted[p] <=> Contains(received'[l], p) \/ Ahead(g, l))
    BY <1>8, <1>9, <1>22, <2>3 DEF Tracked
  <2>5. received' \in [Listener -> Seq(Payload)] /\ Delivered' /\ DeliveredInOrder'
    BY <1>2, <1>5, <1>22 DEF Type, Delivered, DeliveredInOrder, IInv, Data
  <2> QED BY <1>16, <1>22, <2>2, <2>4, <2>5
<1>23. ASSUME ~\E i \in DOMAIN ListOf(f) : Follows(f, i), f.last, calls' = Front(calls), Destroy(p),
              received' = received
       PROVE  IInv'
  <2>1. destroyed' \in [Payload -> Nat] /\ destroyed'[p] = 1 /\ \A q \in Payload : q # p => destroyed'[q] = destroyed[q]
    <3>1. destroyed \in [Payload -> Nat] /\ destroyed' = [destroyed EXCEPT ![p] = @ + 1]
      BY <1>5, <1>23 DEF Type, Destroy
    <3> QED BY <1>9, <3>1
  <2>2. \A i : i \in DOMAIN calls' <=> i \in DOMAIN calls /\ i # n
    BY <1>6, <1>23
  <2>3. \A i \in DOMAIN calls' : calls'[i] = calls[i]
    BY <1>6, <1>23
  <2>4. Type'
    BY <1>2, <1>6, <1>23, <2>1 DEF IInv, Type, TypeOK
  <2>5. Delivered' /\ DeliveredInOrder'
    BY <1>2, <1>5, <1>23 DEF Delivered, DeliveredInOrder, IInv, Data
  <2>6. \A q : q \in InProgress' <=> q \in InProgress /\ q # p
    BY <1>6, <1>7, <1>8, <1>9, <1>10, <1>11, <2>2, <2>3
  <2>7. Settled'
    <3>1. SUFFICES ASSUME NEW q \in Payload
                   PROVE  destroyed'[q] = IF q <= accepted /\ q \notin Undelivered' THEN 1 ELSE 0
      BY <1>2 DEF Settled
    <3>2. CASE q = p
      BY <1>4, <1>9, <2>1, <2>6, <3>2
    <3>3. CASE q # p
      BY <1>3, <1>4, <2>1, <2>6, <3>3 DEF IInv, Data, Settled
    <3> QED BY <3>2, <3>3
  <2>8. SubscriptionsPrecedeMessages'
    <3>1. SUFFICES ASSUME NEW q \in Payload \ discarded, NEW l \in Listener, destroyed'[q] > 0, l \notin touched[q]
                   PROVE  l \in wanted[q] <=> Contains(received[l], q)
      BY <1>2, <1>23 DEF SubscriptionsPrecedeMessages
    <3>2. CASE q = p
      BY <1>8, <1>9, <1>21, <1>23, <3>1, <3>2 DEF Tracked
    <3>3. CASE q # p
      BY <2>1, <3>1, <3>3 DEF IInv, Data, SubscriptionsPrecedeMessages
    <3> QED BY <3>2, <3>3
  <2>9. ASSUME NEW i \in DOMAIN calls' PROVE Tracked(calls[i])'
    <3>1. calls'[i] = calls[i] /\ Tracked(calls[i])
      BY <1>5, <2>2, <2>3 DEF Nested
    <3> QED BY <1>2, <1>23, <3>1 DEF Tracked, Ahead, ListOf
  <2>10. Nested'
    BY <1>2, <1>5, <2>2, <2>3, <2>9 DEF Nested
  <2> QED BY <1>12, <1>13, <1>14, <1>15, <2>4, <2>5, <2>7, <2>8, <2>10 DEF IInv, Data
<1> QED BY <1>6, <1>7, <1>8, <1>20, <1>22, <1>23 DEF s_bus_deliver_msg_to_slot

\* What s_bus_async_alloc_message and the append leave of the data: s is what is
\* left of the queue before the append, dropped the payloads that were discarded.
LEMMA SendData ==
  ASSUME IInv, NEW a \in Address, NEW p \in Payload, p = accepted + 1, RecordSend(a, p),
         NEW pooled \in BOOLEAN, NEW s \in Seq(Message), NEW dropped \in SUBSET Payload,
         msgs' = Append(s, Queue(a, p, pooled)),
         \A i, j \in DOMAIN s : i < j => s[i].payload < s[j].payload,
         \A i \in DOMAIN s : \E j \in DOMAIN msgs : s[i] = msgs[j],
         \A q : (\E i \in DOMAIN s : s[i].payload = q) <=>
                   (\E i \in DOMAIN msgs : msgs[i].payload = q) /\ q \notin dropped,
         \A q \in dropped : \E i \in DOMAIN msgs : msgs[i].payload = q,
         destroyed' = [q \in Payload |-> IF q \in dropped THEN destroyed[q] + 1 ELSE destroyed[q]],
         discarded' = discarded \cup dropped,
         UNCHANGED <<slots, subs, pending_msgs, pending_subs, pos, received, closed>>, calls = <<>>, calls' = <<>>,
         Type', Freed' <=> Freed
  PROVE  Data'
<1> DEFINE m == Queue(a, p, pooled)
<1>1. /\ accepted' = p /\ p \in Nat /\ accepted < p /\ accepted \in Nat
      /\ UNCHANGED <<members, touched>>
      /\ \A q \in Payload : q # p => wanted'[q] = wanted[q]
      /\ \A l \in Listener : l \in wanted'[p] <=> <<a, l>> \in members \/ <<ALL, l>> \in members
      /\ destroyed[p] = 0
      /\ \A q \in Payload : q <= p <=> q <= accepted \/ q = p
      /\ \A q \in Payload : q # p => within'[q] = within[q]
  BY SendStep, QueueFacts DEF IInv
<1>2. m \in Message /\ m.address = a /\ m.payload = p
  BY DEF Queue, Message
<1> HIDE DEF m
<1>3. /\ DOMAIN s = 1 .. Len(s) /\ Len(s) \in Nat /\ DOMAIN msgs' = 1 .. Len(s) + 1
      /\ msgs'[Len(s) + 1] = m /\ \A i \in 1 .. Len(s) : msgs'[i] = s[i]
  BY <1>2, AppendFacts DEF m
<1>4. Type /\ Queued
  BY DEF IInv, Data
<1>5. \A i \in DOMAIN msgs' : i = Len(s) + 1 \/ (i \in DOMAIN s /\ msgs'[i] = s[i])
  BY <1>3
<1>6. /\ \A i \in DOMAIN msgs : msgs[i] \in Message /\ msgs[i].payload \in Payload /\ msgs[i].payload \in Nat
      /\ \A i \in DOMAIN pending_msgs : pending_msgs[i].payload \in Payload /\ pending_msgs[i].payload \in Nat
  BY <1>4, QueueFacts
<1>7. Queued'
  <2>1. ASSUME NEW i \in DOMAIN msgs', NEW j \in DOMAIN msgs', i < j
        PROVE  msgs'[i].payload < msgs'[j].payload
    <3>1. i \in DOMAIN s /\ msgs'[i] = s[i]
      BY <1>3, <2>1
    <3>2. s[i].payload <= accepted /\ s[i].payload \in Nat
      BY <1>4, <1>6, <3>1 DEF Queued
    <3>3. CASE j = Len(s) + 1
      BY <1>1, <1>2, <1>3, <3>1, <3>2, <3>3
    <3>4. CASE j \in DOMAIN s /\ msgs'[j] = s[j]
      BY <2>1, <3>1, <3>4
    <3> QED BY <1>5, <3>3, <3>4
  <2>2. ASSUME NEW j \in DOMAIN msgs', NEW i \in DOMAIN pending_msgs
        PROVE  pending_msgs[i].payload < msgs'[j].payload
    <3>1. CASE j = Len(s) + 1
      BY <1>1, <1>2, <1>3, <1>4, <1>6, <3>1 DEF Queued
    <3>2. CASE j \in DOMAIN s /\ msgs'[j] = s[j]
      BY <1>4, <3>2 DEF Queued
    <3> QED BY <1>5, <3>1, <3>2
  <2>3. ASSUME NEW i \in DOMAIN msgs' PROVE msgs'[i].payload <= p
    <3>1. CASE i = Len(s) + 1
      BY <1>1, <1>2, <1>3, <3>1
    <3>2. CASE i \in DOMAIN s /\ msgs'[i] = s[i]
      <4>1. s[i].payload <= accepted /\ s[i].payload \in Nat
        BY <1>4, <1>6, <3>2 DEF Queued
      <4> QED BY <1>1, <3>2, <4>1
    <3> QED BY <1>5, <3>1, <3>2
  <2>4. \A i \in DOMAIN pending_msgs : pending_msgs[i].payload <= p
    BY <1>1, <1>4, <1>6 DEF Queued
  <2>5. \A i, j \in DOMAIN pending_msgs : i < j => pending_msgs[i].payload < pending_msgs[j].payload
    BY <1>4 DEF Queued
  <2> QED BY <1>1, <2>1, <2>2, <2>3, <2>4, <2>5 DEF Queued
<1>8. \A l \in Listener : \A i \in DOMAIN received[l] : received[l][i] \in Nat /\ received[l][i] \in Payload
  <2>1. \A l \in Listener : received[l] \in Seq(Payload)
    BY <1>4 DEF Type
  <2> QED BY <2>1, LenProperties, ElementOfSeq, Constants
<1>9. Delivered'
  <2>1. ASSUME NEW l \in Listener, NEW i \in DOMAIN received[l]
        PROVE  /\ received[l][i] <= p
               /\ \A j \in DOMAIN msgs' : received[l][i] < msgs'[j].payload
               /\ \A j \in DOMAIN pending_msgs : j >= pos => received[l][i] < pending_msgs[j].payload
    <3>1. /\ received[l][i] <= accepted /\ received[l][i] \in Nat
          /\ \A j \in DOMAIN msgs : received[l][i] < msgs[j].payload
          /\ \A j \in DOMAIN pending_msgs : j >= pos => received[l][i] < pending_msgs[j].payload
      BY <1>8 DEF IInv, Data, Delivered
    <3>2. received[l][i] < p
      BY <1>1, <3>1
    <3>3. ASSUME NEW j \in DOMAIN msgs' PROVE received[l][i] < msgs'[j].payload
      BY <1>2, <1>3, <1>5, <3>1, <3>2
    <3> QED BY <1>1, <3>1, <3>2, <3>3
  <2> QED BY <1>1, <2>1 DEF Delivered
<1>10. Expected'
  <2>1. ASSUME NEW x \in Message, x.payload <= accepted, Expects(x) PROVE Expects(x)'
    <3>1. x.payload \in Payload /\ x.payload # p
      BY <1>1, <1>4, <2>1, QueueFacts
    <3> QED BY <1>1, <2>1, <3>1 DEF Expects
  <2>2. Expects(m)'
    BY <1>1, <1>2 DEF Expects, m
  <2>3. ASSUME NEW i \in DOMAIN msgs' PROVE Expects(msgs[i])'
    <3>1. CASE i = Len(s) + 1
      <4>1. msgs'[i] = m /\ (msgs[i])' = m
        BY <1>3, <3>1
      <4> QED BY <1>1, <1>2, <4>1 DEF Expects
    <3>2. CASE i \in DOMAIN s /\ msgs'[i] = s[i]
      <4>1. PICK j \in DOMAIN msgs : s[i] = msgs[j]
        BY <3>2
      <4> DEFINE x == s[i]
      <4>2. x \in Message /\ x.payload <= accepted /\ Expects(x)
        BY <1>4, <1>6, <4>1 DEF Queued, IInv, Data, Expected
      <4>3. x.payload \in Payload /\ x.payload # p /\ msgs'[i] = x
        BY <1>1, <1>4, <3>2, <4>2, QueueFacts, SMTT(30)
      <4> HIDE DEF x
      <4> QED BY <1>1, <4>2, <4>3 DEF Expects
    <3> QED BY <1>5, <3>1, <3>2
  <2>4. ASSUME NEW i \in DOMAIN pending_msgs, i >= pos
        PROVE  /\ Expects(pending_msgs[i])'
               /\ \A j \in DOMAIN subs : subs[j].listener \in touched[pending_msgs[i].payload]
    <3> DEFINE x == pending_msgs[i]
    <3>1. /\ x \in Message /\ x.payload <= accepted /\ Expects(x)
          /\ \A j \in DOMAIN subs : subs[j].listener \in touched[x.payload]
      BY <1>4, <2>4, QueueFacts DEF Queued, IInv, Data, Expected
    <3>2. x.payload \in Payload /\ x.payload # p /\ pending_msgs'[i] = x
      BY <1>1, <1>4, <3>1, QueueFacts, SMTT(30)
    <3> HIDE DEF x
    <3>3. Expects(pending_msgs[i])'
      BY <1>1, <3>1, <3>2 DEF Expects
    <3> QED BY <3>1, <3>3 DEF x
  <2> QED BY <1>1, <2>3, <2>4 DEF Expected
<1>11. Settled'
  <2>1. \A q : q \in Undelivered <=>
                  \/ \E i \in DOMAIN msgs : msgs[i].payload = q
                  \/ \E i \in DOMAIN pending_msgs : i >= pos /\ pending_msgs[i].payload = q
    BY <1>4, UndeliveredIs
  <2>2. \A q : q \in Undelivered' <=>
                  \/ \E i \in DOMAIN msgs' : msgs'[i].payload = q
                  \/ \E i \in DOMAIN pending_msgs : i >= pos /\ pending_msgs[i].payload = q
    BY UndeliveredNext
  <2>3. \A q : (\E i \in DOMAIN msgs' : msgs'[i].payload = q) <=>
                  (\E i \in DOMAIN s : s[i].payload = q) \/ q = p
    BY <1>2, <1>3, <1>5
  <2>4. \A q \in dropped : ~\E i \in DOMAIN pending_msgs : i >= pos /\ pending_msgs[i].payload = q
    BY <1>4, <1>6 DEF Queued
  <2>5. \A q : q \in Undelivered' <=> (q \in Undelivered /\ q \notin dropped) \/ q = p
    BY <2>1, <2>2, <2>3, <2>4
  <2>6. \A q \in dropped : q \in Undelivered /\ q <= accepted /\ q # p
    BY <1>1, <1>4, <1>6, <2>1 DEF Queued
  <2>7. SUFFICES ASSUME NEW q \in Payload
                 PROVE  destroyed'[q] = IF q <= p /\ q \notin Undelivered' THEN 1 ELSE 0
    BY <1>1 DEF Settled
  <2>8. destroyed[q] = IF q <= accepted /\ q \notin Undelivered THEN 1 ELSE 0
    BY DEF IInv, Data, Settled
  <2>9. CASE q \in dropped
    BY <1>1, <2>5, <2>6, <2>8, <2>9
  <2>10. CASE q \notin dropped
    BY <1>1, <2>5, <2>8, <2>10
  <2> QED BY <2>9, <2>10
<1>12. SubscriptionsPrecedeMessages'
  <2>1. SUFFICES ASSUME NEW q \in Payload, q \notin discarded', NEW l \in Listener, destroyed'[q] > 0,
                        l \notin touched[q]
                 PROVE  l \in wanted'[q] <=> Contains(received[l], q)
    BY <1>1 DEF SubscriptionsPrecedeMessages
  <2>2. q \notin dropped /\ q \notin discarded /\ destroyed[q] > 0
    BY <2>1
  <2>3. q # p
    BY <1>1, <2>2
  <2> QED BY <1>1, <2>1, <2>2, <2>3 DEF IInv, Data, SubscriptionsPrecedeMessages
<1>13. Closing' /\ DeliveredInOrder'
  <2>1. \A l \in Listener : \A i \in DOMAIN received[l] : within'[received[l][i]] = within[received[l][i]]
    BY <1>1, <1>8 DEF IInv, Data, Delivered
  <2> QED BY <1>1, <2>1 DEF IInv, Data, Closing, ClosedOncePerSubscription, DeliveredInOrder
<1>15. Nested'
  BY NoCalls
<1>14. Subscriptions'
  BY <1>1, SubscriptionsFrame DEF IInv, Data
<1> QED BY <1>7, <1>9, <1>10, <1>11, <1>12, <1>13, <1>14, <1>15 DEF Data

\* s_bus_async_send.
LEMMA AsyncSendStep ==
  ASSUME IInv, NEW c \in Client, NEW a \in Address, NEW p \in Payload, s_bus_async_send(c, a, p)
  PROVE  IInv'
<1>1. /\ policy # "sync" /\ ~Freed /\ running /\ pc # "corrupt" /\ cpc[c] = "idle" /\ p = accepted + 1
      /\ s_bus_async_alloc_message(a, p)
  BY DEF s_bus_async_send, MayCall, Async, Freed
<1>2. UNCHANGED <<policy, calls, slots, subs, running, pending_msgs, pending_subs, pending_drains, pos, received, closed>>
  BY DEF s_bus_async_send, threadVars
<1>3. Type /\ Control /\ Drain /\ Queued /\ calls = <<>> /\ calls' = <<>>
  BY <1>1, <1>2 DEF IInv, Data, Control
<1>4. /\ msgs \in Seq(Message) /\ DOMAIN msgs = 1 .. Len(msgs) /\ Len(msgs) \in Nat
      /\ \A i \in DOMAIN msgs : msgs[i].payload \in Payload /\ msgs[i].payload \in Nat
  BY <1>3, QueueFacts
<1>5. \A b \in BOOLEAN : Queue(a, p, b) \in Message /\ Queue(a, p, b).pooled = b
  BY DEF Queue, Message
<1>6. /\ free \in 0 .. Slots /\ free + Pooled(msgs) + Pooled(pending_msgs) = Slots
      /\ destroyed \in [Payload -> Nat] /\ discarded \in SUBSET Payload
      /\ Pooled(msgs) \in Nat /\ Pooled(pending_msgs) \in Nat /\ Slots \in Nat
  BY <1>3, PooledType, Constants DEF Type, TypeOK
<1>14. ASSUME NEW t \in Seq(Message)
       PROVE  /\ Pooled(Append(t, Queue(a, p, TRUE))) = Pooled(t) + 1
              /\ Pooled(Append(t, Queue(a, p, FALSE))) = Pooled(t) + 0
  <2> DEFINE m == Queue(a, p, TRUE)
             n == Queue(a, p, FALSE)
  <2>1. m \in Message /\ m.pooled /\ n \in Message /\ ~n.pooled
    BY <1>5
  <2> HIDE DEF m, n
  <2>2. Pooled(Append(t, m)) = Pooled(t) + IF m.pooled THEN 1 ELSE 0
    BY <2>1, PooledAppend
  <2>3. Pooled(Append(t, n)) = Pooled(t) + IF n.pooled THEN 1 ELSE 0
    BY <2>1, PooledAppend
  <2>4. Pooled(Append(t, m)) = Pooled(t) + 1 /\ Pooled(Append(t, n)) = Pooled(t) + 0
    BY <2>1, <2>2, <2>3, Zenon
  <2> QED BY <2>4 DEF m, n
<1>7. ASSUME pc' = "corrupt", UNCHANGED <<free, msgs, destroyed, discarded>>
      PROVE  IInv'
  <2>1. UNCHANGED <<askVars, cpc>>
    BY <1>7 DEF s_bus_async_send
  <2>2. UNCHANGED <<requests, members, accepted, wanted, touched, within>>
    BY <2>1 DEF askVars
  <2>3. Type'
    BY <1>2, <1>3, <1>7, <2>1, <2>2 DEF Type, TypeOK
  <2>4. Freed' <=> Freed
    BY <2>1 DEF Freed
  <2>5. Control'
    BY <1>1, <1>2, <1>3, <1>7, <2>4 DEF Control
  <2>6. Drain'
    BY <1>1, <1>2, <1>3, <1>7 DEF Drain
  <2>7. Data'
    BY <1>2, <1>7, <2>1, <2>4, QuietStep DEF endVars
  <2> QED BY <2>3, <2>5, <2>6, <2>7 DEF IInv
<1>8. ASSUME pc' = pc,
             NEW pooled \in BOOLEAN, NEW s \in Seq(Message), NEW dropped \in SUBSET Payload,
             msgs' = Append(s, Queue(a, p, pooled)),
             \A i, j \in DOMAIN s : i < j => s[i].payload < s[j].payload,
             \A i \in DOMAIN s : \E j \in DOMAIN msgs : s[i] = msgs[j],
             \A q : (\E i \in DOMAIN s : s[i].payload = q) <=>
                       (\E i \in DOMAIN msgs : msgs[i].payload = q) /\ q \notin dropped,
             \A q \in dropped : \E i \in DOMAIN msgs : msgs[i].payload = q,
             destroyed' = [q \in Payload |-> IF q \in dropped THEN destroyed[q] + 1 ELSE destroyed[q]],
             discarded' = discarded \cup dropped,
             policy = "async_unreliable" => pooled,
             free' \in 0 .. Slots, free' + Pooled(msgs') + Pooled(pending_msgs) = Slots
      PROVE  IInv'
  <2>1. RecordSend(a, p) /\ cpc' = [cpc EXCEPT ![c] = "notify"]
    BY <1>1, <1>8 DEF s_bus_async_send
  <2>2. /\ accepted' \in 0 .. MaxSends /\ UNCHANGED <<requests, members, touched>>
        /\ wanted' \in [Payload -> SUBSET Listener] /\ within' \in [Payload -> SUBSET Payload]
    BY <1>1, <2>1, SendStep
  <2>3. ~Freed' /\ cpc' \in [Client -> {"idle", "notify", "closing", "spin", "freed"}]
    BY <1>1, <1>3, <2>1, Constants DEF Type, TypeOK, Freed
  <2> DEFINE m == Queue(a, p, pooled)
  <2>4. m \in Message /\ m.pooled = pooled
    BY <1>5
  <2> HIDE DEF m
  <2>5. /\ msgs' \in Seq(Message) /\ DOMAIN msgs' = 1 .. Len(s) + 1 /\ DOMAIN s = 1 .. Len(s)
        /\ Len(s) \in Nat /\ msgs'[Len(s) + 1] = m /\ \A i \in 1 .. Len(s) : msgs'[i] = s[i]
    BY <1>8, <2>4, AppendFacts DEF m
  <2>6. destroyed' \in [Payload -> Nat] /\ discarded' \in SUBSET Payload
    BY <1>6, <1>8
  <2>7. TypeOK'
    BY <1>2, <1>3, <1>8, <2>2, <2>3, <2>5 DEF Type, TypeOK
  <2>8. Type'
    BY <1>2, <1>3, <2>2, <2>6, <2>7 DEF Type
  <2>9. policy = "async_unreliable" => \A i \in DOMAIN msgs' : msgs'[i].pooled
    <3>1. SUFFICES ASSUME policy = "async_unreliable", NEW i \in DOMAIN msgs' PROVE msgs'[i].pooled
      OBVIOUS
    <3>2. CASE i = Len(s) + 1
      BY <1>8, <2>4, <2>5, <3>1, <3>2
    <3>3. CASE i \in DOMAIN s
      BY <1>3, <1>8, <2>5, <3>1, <3>3 DEF Control
    <3> QED BY <2>5, <3>1, <3>2, <3>3
  <2>10. Control'
    BY <1>1, <1>2, <1>3, <1>8, <2>3, <2>9 DEF Control
  <2>11. Drain'
    BY <1>1, <1>2, <1>3, <1>8 DEF Drain
  <2>12. Data'
    BY <1>1, <1>2, <1>3, <1>8, <2>1, <2>3, <2>8, SendData, ZenonT(40)
  <2> QED BY <2>8, <2>10, <2>11, <2>12 DEF IInv
<1>9. ASSUME NEW pooled \in BOOLEAN, msgs' = Append(msgs, Queue(a, p, pooled)),
             UNCHANGED <<pc, destroyed, discarded>>, policy = "async_unreliable" => pooled,
             free' \in 0 .. Slots, free' + Pooled(msgs') + Pooled(pending_msgs) = Slots
      PROVE  IInv'
  <2> DEFINE s == msgs
             dropped == {}
  <2>1. \A i, j \in DOMAIN s : i < j => s[i].payload < s[j].payload
    BY <1>3 DEF Queued
  <2>2. destroyed' = [q \in Payload |-> IF q \in dropped THEN destroyed[q] + 1 ELSE destroyed[q]]
    BY <1>6, <1>9
  <2>3. discarded' = discarded \cup dropped /\ dropped \in SUBSET Payload /\ pc' = pc
    BY <1>9
  <2>4. /\ \A i \in DOMAIN s : \E j \in DOMAIN msgs : s[i] = msgs[j]
        /\ \A q : (\E i \in DOMAIN s : s[i].payload = q) <=>
                     (\E i \in DOMAIN msgs : msgs[i].payload = q) /\ q \notin dropped
        /\ \A q \in dropped : \E i \in DOMAIN msgs : msgs[i].payload = q
    OBVIOUS
  <2>5. s \in Seq(Message) /\ msgs' = Append(s, Queue(a, p, pooled))
    BY <1>4, <1>9
  <2> HIDE DEF s, dropped
  <2> QED BY <1>8, <1>9, <2>1, <2>2, <2>3, <2>4, <2>5, ZenonT(40)
<1>10. CASE /\ free > 0
            /\ free' = free - 1
            /\ msgs' = Append(msgs, Queue(a, p, TRUE))
            /\ UNCHANGED <<pc, destroyed, discarded>>
  <2>1. Pooled(msgs') = Pooled(msgs) + 1
    BY <1>4, <1>10, <1>14
  <2>2. free > 0 /\ free' = free - 1
    BY <1>10
  <2>3. free' \in 0 .. Slots /\ free' + Pooled(msgs') + Pooled(pending_msgs) = Slots
    BY <1>6, <2>1, <2>2
  <2> QED BY <1>9, <1>10, <2>3
<1>11. CASE /\ free = 0 /\ policy = "async_reliable"
            /\ msgs' = Append(msgs, Queue(a, p, FALSE))
            /\ UNCHANGED <<free, pc, destroyed, discarded>>
  <2>1. Pooled(msgs') = Pooled(msgs) + 0
    BY <1>4, <1>11, <1>14
  <2>2. free' = free
    BY <1>11
  <2>3. free' \in 0 .. Slots /\ free' + Pooled(msgs') + Pooled(pending_msgs) = Slots
    BY <1>6, <2>1, <2>2
  <2> QED BY <1>9, <1>11, <2>3
<1>12. CASE /\ free = 0 /\ policy = "async_unreliable" /\ msgs # <<>>
            /\ Destroy(Head(msgs).payload)
            /\ discarded' = discarded \cup {Head(msgs).payload}
            /\ msgs' = Append(Tail(msgs), Queue(a, p, TRUE))
            /\ UNCHANGED <<free, pc>>
  <2> DEFINE s == Tail(msgs)
             h == msgs[1].payload
             dropped == {h}
  <2>1. /\ s \in Seq(Message) /\ Head(msgs) = msgs[1] /\ Len(msgs) >= 1 /\ DOMAIN s = 1 .. Len(msgs) - 1
        /\ \A i \in 1 .. Len(msgs) - 1 : s[i] = msgs[i + 1]
    BY <1>4, <1>12, TailFacts
  <2>2. 1 \in DOMAIN msgs /\ h \in Payload /\ msgs[1].pooled
    BY <1>3, <1>4, <1>12, <2>1 DEF Control
  <2>3. Pooled(s) = Pooled(msgs) - 1
    BY <1>4, <1>12, <2>1, <2>2, PooledTail
  <2>4. Pooled(msgs') = Pooled(s) + 1
    BY <1>12, <1>14, <2>1
  <2>5. free' \in 0 .. Slots /\ free' + Pooled(msgs') + Pooled(pending_msgs) = Slots
    <3>1. free' = free
      BY <1>12
    <3> HIDE DEF s
    <3> QED BY <1>6, <2>3, <2>4, <3>1
  <2>6. destroyed' = [q \in Payload |-> IF q \in dropped THEN destroyed[q] + 1 ELSE destroyed[q]]
    BY <1>6, <1>12, <2>1, <2>2 DEF Destroy
  <2>7. discarded' = discarded \cup dropped /\ dropped \in SUBSET Payload /\ pc' = pc
    BY <1>12, <2>1, <2>2
  <2>8. msgs' = Append(s, Queue(a, p, TRUE))
    BY <1>12
  <2> HIDE DEF s, h
  <2>9. \A i \in DOMAIN s : i + 1 \in DOMAIN msgs /\ i + 1 > 1 /\ i \in Nat /\ s[i] = msgs[i + 1]
    BY <1>4, <2>1
  <2>10. \A i, j \in DOMAIN s : i < j => s[i].payload < s[j].payload
    <3>1. \A i, j \in DOMAIN s : i < j => i + 1 < j + 1
      BY <2>9
    <3> QED BY <1>3, <2>9, <3>1 DEF Queued
  <2>11. \A i \in DOMAIN s : \E j \in DOMAIN msgs : s[i] = msgs[j]
    BY <2>9
  <2>12. \A j \in DOMAIN msgs : j = 1 \/ (j > 1 /\ j - 1 \in DOMAIN s /\ s[j - 1] = msgs[j])
    BY <1>4, <2>1
  <2>13. \A j \in DOMAIN msgs : j > 1 => msgs[j].payload # h
    <3>1. \A j \in DOMAIN msgs : j > 1 => h < msgs[j].payload /\ h \in Nat /\ msgs[j].payload \in Nat
      BY <1>3, <1>4, <2>2 DEF Queued, h
    <3> QED BY <3>1
  <2>14. ASSUME NEW q
         PROVE  (\E i \in DOMAIN s : s[i].payload = q) <=>
                   (\E i \in DOMAIN msgs : msgs[i].payload = q) /\ q \notin dropped
    <3>1. ASSUME NEW i \in DOMAIN s, s[i].payload = q
          PROVE  (\E j \in DOMAIN msgs : msgs[j].payload = q) /\ q # h
      BY <2>9, <2>13, <3>1
    <3>2. ASSUME NEW j \in DOMAIN msgs, msgs[j].payload = q, q # h
          PROVE  \E i \in DOMAIN s : s[i].payload = q
      BY <2>12, <3>2 DEF h
    <3> QED BY <3>1, <3>2
  <2>15. \A q \in dropped : \E i \in DOMAIN msgs : msgs[i].payload = q
    BY <2>2 DEF h
  <2> HIDE DEF dropped
  <2> QED BY <1>8, <2>1, <2>5, <2>6, <2>7, <2>8, <2>10, <2>11, <2>14, <2>15
<1>13. CASE pc' = "corrupt" /\ UNCHANGED <<free, msgs, destroyed, discarded>>
  BY <1>7, <1>13
<1> QED BY <1>1, <1>10, <1>11, <1>12, <1>13 DEF s_bus_async_alloc_message

----------------------------------------------------------------------------
(* The invariant is preserved: notification and clean-up                   *)

\* A listener stands once in the list of every address it is subscribed at.
LEMMA EntriesCount ==
  ASSUME slots \in [Address -> Seq(Listener)], \A a \in Address : Distinct(slots[a]), NEW l \in Listener
  PROVE  Cardinality(Entries(l, Address)) = Cardinality({a \in Address : l \in ToSet(slots[a])})
         /\ Cardinality(Entries(l, Address)) \in Nat
<1> DEFINE B == {a \in Address : l \in ToSet(slots[a])}
           at(a) == CHOOSE i \in DOMAIN slots[a] : slots[a][i] = l
           f == [a \in B |-> <<a, at(a)>>]
           E == Entries(l, Address)
<1>1. IsFiniteSet(B)
  BY Constants, FS_Subset
<1>2. \A a \in B : at(a) \in DOMAIN slots[a] /\ slots[a][at(a)] = l
  BY DEF ToSet
<1>3. \A e : e \in E <=> \E a \in Address : \E i \in DOMAIN slots[a] : slots[a][i] = l /\ e = <<a, i>>
  BY DEF Entries
<1> HIDE DEF at, E
<1>4. f \in [B -> E]
  BY <1>2, <1>3
<1>5. \A a, b \in B : f[a] = f[b] => a = b
  OBVIOUS
<1>6. ASSUME NEW e \in E PROVE \E a \in B : f[a] = e
  <2>1. PICK a \in Address : \E i \in DOMAIN slots[a] : slots[a][i] = l /\ e = <<a, i>>
    BY <1>3, <1>6
  <2>2. PICK i \in DOMAIN slots[a] : slots[a][i] = l /\ e = <<a, i>>
    BY <2>1
  <2>3. a \in B
    BY <2>2 DEF ToSet
  <2>4. i = at(a)
    BY <1>2, <2>2, <2>3 DEF Distinct
  <2> QED BY <2>2, <2>3, <2>4
<1>7. ExistsBijection(B, E)
  <2> HIDE DEF f, B
  <2>1. f \in Injection(B, E)
    BY <1>4, <1>5 DEF Injection, IsInjective
  <2>2. f \in Surjection(B, E)
    BY <1>4, <1>6 DEF Surjection
  <2> QED BY <2>1, <2>2 DEF ExistsBijection, Bijection
<1>8. IsFiniteSet(E) /\ Cardinality(E) = Cardinality(B)
  BY <1>1, <1>7, FS_Bijection
<1> QED BY <1>8, FS_CardinalityType DEF E

\* s_bus_destroy_listener_list for every slot, when no request is waiting.
LEMMA CloseStep ==
  ASSUME IInv, ~Freed, pending_subs = <<>>, subs = <<>>, CloseAll
  PROVE  /\ slots' \in [Address -> Seq(Listener)] /\ closed' \in [Listener -> Nat]
         /\ \A l \in Listener : closed'[l] = Cardinality({a \in Address : <<a, l>> \in members})
<1>1. slots \in [Address -> Seq(Listener)] /\ closed = [l \in Listener |-> 0]
  BY DEF IInv, Type, TypeOK, Data, Closing
<1>2. Waiting = <<>> /\ Len(Waiting) = 0
  <2>1. <<>> \in Seq(Request)
    BY EmptySeq
  <2> QED BY <2>1, ConcatEmptySeq, EmptySeq DEF Waiting
<1>3. \A a \in Address : Distinct(slots[a])
  BY DEF IInv, Data, Subscriptions
<1>4. \A a \in Address, l \in Listener : <<a, l>> \in members <=> After(slots, Waiting, 0, a, l)
  BY <1>2 DEF IInv, Data, Subscriptions
<1>5. \A a \in Address, l \in Listener : <<a, l>> \in members <=> l \in ToSet(slots[a])
  BY <1>4, AfterNone
<1>6. ASSUME NEW l \in Listener
      PROVE  /\ closed'[l] = Cardinality({a \in Address : <<a, l>> \in members})
             /\ closed'[l] \in Nat
  <2>1. closed'[l] = 0 + Cardinality(Entries(l, Address))
    BY <1>1 DEF CloseAll
  <2>2. {a \in Address : l \in ToSet(slots[a])} = {a \in Address : <<a, l>> \in members}
    BY <1>5
  <2>3. /\ Cardinality(Entries(l, Address)) = Cardinality({a \in Address : l \in ToSet(slots[a])})
        /\ Cardinality(Entries(l, Address)) \in Nat
    BY <1>1, <1>3, EntriesCount
  <2>4. closed'[l] = Cardinality(Entries(l, Address))
    BY <2>1, <2>3
  <2> QED BY <2>2, <2>3, <2>4
<1>7. closed' = [l \in Listener |-> closed'[l]]
  BY DEF CloseAll
<1>8. slots' \in [Address -> Seq(Listener)]
  BY EmptySeq DEF CloseAll
<1> QED BY <1>6, <1>7, <1>8

\* The bus is freed, its listeners have been closed.
LEMMA FreedStep ==
  ASSUME IInv, ~Freed, pending_subs = <<>>, subs = <<>>, calls = <<>>, CloseAll,
         policy = "sync" \/ pc = "exited", cpc' = [cpc EXCEPT ![Owner] = "freed"],
         UNCHANGED <<policy, calls, free, msgs, subs, running, threadVars, pc, askVars, received, destroyed, discarded>>
  PROVE  IInv'
<1>1. UNCHANGED <<pending_msgs, pending_subs, pending_drains, pos, requests, members, wanted, touched, within, accepted>>
  BY DEF threadVars, askVars
<1>2. /\ slots' \in [Address -> Seq(Listener)] /\ closed' \in [Listener -> Nat]
      /\ \A l \in Listener : closed'[l] = Cardinality({a \in Address : <<a, l>> \in members})
  BY CloseStep
<1>3. cpc' \in [Client -> {"idle", "notify", "closing", "spin", "freed"}] /\ Freed'
  BY Constants DEF IInv, Type, TypeOK, Freed
<1>4. Type'
  BY <1>1, <1>2, <1>3 DEF IInv, Type, TypeOK
<1>5. Control' /\ Drain'
  BY <1>1, <1>3 DEF IInv, Control, Drain
<1>6. Queued' /\ Delivered' /\ DeliveredInOrder' /\ SubscriptionsPrecedeMessages'
  BY <1>1 DEF IInv, Data, Queued, Delivered, DeliveredInOrder, SubscriptionsPrecedeMessages
<1>7. Expected'
  BY <1>1 DEF IInv, Data, Expected, Expects
<1>8. Settled'
  <2>1. UNCHANGED <<msgs, pending_msgs, pos, calls, destroyed, accepted>>
    BY <1>1
  <2>2. Undelivered' = Undelivered
    BY <2>1 DEF Undelivered, Payloads, InProgress
  <2> QED BY <2>1, <2>2 DEF IInv, Data, Settled
<1>9. Subscriptions'
  BY <1>3 DEF Subscriptions
<1>10. Closing'
  BY <1>1, <1>2, <1>3 DEF Closing, ClosedOncePerSubscription
<1>11. Nested'
  BY NoCalls
<1> QED BY <1>4, <1>5, <1>11, <1>6, <1>7, <1>8, <1>9, <1>10 DEF IInv, Data

\* s_bus_sync_clean_up.
LEMMA SyncCleanUpStep ==
  ASSUME IInv, s_bus_sync_clean_up
  PROVE  IInv'
<1>1. policy = "sync" /\ ~Freed /\ calls = <<>> /\ CloseAll /\ cpc' = [cpc EXCEPT ![Owner] = "freed"]
  BY DEF s_bus_sync_clean_up, Freed
<1>2. UNCHANGED <<policy, calls, free, msgs, subs, running, threadVars, pc, askVars, received, destroyed, discarded>>
  BY DEF s_bus_sync_clean_up, queueVars
<1>3. pending_subs = <<>> /\ subs = <<>>
  BY <1>1, SyncFacts
<1> QED BY <1>1, <1>2, <1>3, FreedStep

\* A step that moves the threads and leaves the data: the dispatch thread stays where
\* it is or is woken, clients stay in or out of the bus.
LEMMA MoveStep ==
  ASSUME IInv, Freed' <=> Freed, pc' = pc \/ (pc = "blocked" /\ pc' = "lock"), running' => running,
         cpc' \in [Client -> {"idle", "notify", "closing", "spin", "freed"}], running' \in BOOLEAN,
         UNCHANGED <<policy, calls, slots, free, msgs, subs, threadVars, askVars, endVars>>
  PROVE  IInv'
<1>1. UNCHANGED <<pending_msgs, pending_subs, pending_drains, pos, requests, members, wanted, touched, within, accepted,
                  received, destroyed, discarded, closed>>
  BY DEF threadVars, askVars, endVars
<1>2. Type'
  BY <1>1 DEF IInv, Type, TypeOK
<1>3. Control'
  BY <1>1 DEF IInv, Control
<1>4. Drain'
  BY <1>1 DEF IInv, Drain
<1>5. Data'
  BY <1>1, QuietStep
<1> QED BY <1>2, <1>3, <1>4, <1>5 DEF IInv

\* The notification that ends a call.
LEMMA ClientNotifiesStep ==
  ASSUME IInv, NEW c \in Client, ClientNotifies(c)
  PROVE  IInv'
<1>1. /\ cpc[c] = "notify" /\ cpc' = [cpc EXCEPT ![c] = "idle"]
      /\ pc' = pc \/ (pc = "blocked" /\ pc' = "lock")
  BY DEF ClientNotifies, Notify
<1>2. cpc \in [Client -> {"idle", "notify", "closing", "spin", "freed"}] /\ running \in BOOLEAN
  BY DEF IInv, Type, TypeOK
<1>3. cpc' \in [Client -> {"idle", "notify", "closing", "spin", "freed"}]
  BY <1>1, <1>2
<1>4. Freed' <=> Freed
  BY <1>1, <1>2, Constants DEF Freed
<1>5. UNCHANGED <<policy, calls, slots, free, msgs, subs, running, threadVars, askVars, endVars>>
  BY DEF ClientNotifies, queueVars
<1> QED BY <1>1, <1>2, <1>3, <1>4, <1>5, MoveStep

\* s_bus_async_clean_up.
LEMMA AsyncCleanUpStep ==
  ASSUME IInv, s_bus_async_clean_up
  PROVE  IInv'
<1>1. UNCHANGED <<policy, calls, free, msgs, subs, threadVars, askVars, received, destroyed, discarded>>
  BY DEF s_bus_async_clean_up
<1>2. cpc \in [Client -> {"idle", "notify", "closing", "spin", "freed"}] /\ running \in BOOLEAN
  BY DEF IInv, Type, TypeOK
<1>3. ASSUME cpc[Owner] # "freed", NEW s \in {"closing", "spin"}, cpc' = [cpc EXCEPT ![Owner] = s]
      PROVE  (Freed' <=> Freed) /\ cpc' \in [Client -> {"idle", "notify", "closing", "spin", "freed"}]
  BY <1>2, <1>3, Constants DEF Freed
<1>4. CASE /\ cpc[Owner] = "idle"
           /\ running' = FALSE
           /\ cpc' = [cpc EXCEPT ![Owner] = "closing"]
           /\ UNCHANGED <<slots, pc, closed>>
  <2>1. (Freed' <=> Freed) /\ cpc' \in [Client -> {"idle", "notify", "closing", "spin", "freed"}]
    BY <1>3, <1>4
  <2>2. UNCHANGED <<policy, calls, slots, free, msgs, subs, threadVars, askVars, endVars>>
    BY <1>1, <1>4 DEF endVars
  <2> QED BY <1>4, <2>1, <2>2, MoveStep
<1>5. CASE /\ cpc[Owner] = "closing"
           /\ Notify
           /\ cpc' = [cpc EXCEPT ![Owner] = "spin"]
           /\ UNCHANGED <<slots, running, closed>>
  <2>1. (Freed' <=> Freed) /\ cpc' \in [Client -> {"idle", "notify", "closing", "spin", "freed"}]
    BY <1>3, <1>5
  <2>2. UNCHANGED <<policy, calls, slots, free, msgs, subs, threadVars, askVars, endVars>>
    BY <1>1, <1>5 DEF endVars
  <2>3. (pc' = pc \/ (pc = "blocked" /\ pc' = "lock")) /\ running' = running
    BY <1>5 DEF Notify
  <2> QED BY <1>2, <2>1, <2>2, <2>3, MoveStep
<1>6. CASE /\ cpc[Owner] = "spin"
           /\ pc = "exited"
           /\ CloseAll
           /\ cpc' = [cpc EXCEPT ![Owner] = "freed"]
           /\ UNCHANGED <<running, pc>>
  <2>1. ~Freed /\ pending_subs = <<>> /\ subs = <<>> /\ calls = <<>>
    BY <1>6 DEF s_bus_async_clean_up, Async, IInv, Control, Drain, Freed
  <2> QED BY <1>1, <1>6, <2>1, FreedStep
<1> QED BY <1>4, <1>5, <1>6 DEF s_bus_async_clean_up

----------------------------------------------------------------------------
(* The invariant is preserved: the dispatch thread                         *)

\* The thread is at work only while the bus exists.
LEMMA AtWork ==
  ASSUME IInv, Async, pc # "exited"
  PROVE  ~Freed /\ policy # "sync" /\ calls = <<>>
BY DEF IInv, Control, Async

\* Both queues are taken out, or the thread sleeps.
LEMMA TakeQueuesStep ==
  ASSUME IInv, Async, TakeQueues
  PROVE  IInv'
<1>1. pc = "lock" /\ UNCHANGED <<policy, calls, slots, free, running, pending_drains, cpc, askVars, endVars>>
  BY DEF TakeQueues
<1>2. /\ UNCHANGED <<requests, members, wanted, touched, within, accepted, received, destroyed, discarded, closed>>
      /\ Freed' <=> Freed
  BY <1>1 DEF askVars, endVars, Freed
<1>3. pending_msgs = <<>> /\ pending_subs = <<>> /\ ~Freed /\ policy # "sync" /\ calls = <<>> /\ calls' = <<>>
  BY <1>1, AtWork DEF IInv, Control
<1>4. CASE /\ pc' = "blocked"
           /\ UNCHANGED <<subs, msgs, pending_subs, pending_msgs, pos>>
  <2>1. Type'
    BY <1>1, <1>2, <1>4 DEF IInv, Type, TypeOK
  <2>2. Control'
    BY <1>1, <1>2, <1>3, <1>4 DEF IInv, Control
  <2>3. Drain'
    BY <1>1, <1>4 DEF IInv, Drain
  <2>4. Data'
    BY <1>1, <1>2, <1>4, QuietStep
  <2> QED BY <2>1, <2>2, <2>3, <2>4 DEF IInv
<1>5. CASE /\ pending_subs' = subs /\ subs' = <<>>
           /\ pending_msgs' = msgs /\ msgs' = <<>>
           /\ pos' = 1
           /\ pc' = "apply"
  <2>1. /\ msgs \in Seq(Message) /\ subs \in Seq(Request) /\ Len(msgs) \in Nat /\ DOMAIN msgs = 1 .. Len(msgs)
        /\ <<>> \in Seq(Message) /\ <<>> \in Seq(Request)
    BY QueueFacts, EmptySeq DEF IInv
  <2>2. Pooled(<<>>) = 0 /\ Pooled(msgs) \in Nat
    BY <2>1, PooledType
  <2>3. free' + Pooled(msgs') + Pooled(pending_msgs') = Slots
    <3>1. free + Pooled(msgs) + Pooled(<<>>) = Slots /\ free \in Nat
      BY <1>3 DEF IInv, Type, TypeOK
    <3>2. free' = free /\ Pooled(msgs') = Pooled(<<>>) /\ Pooled(pending_msgs') = Pooled(msgs)
      BY <1>1, <1>5
    <3> QED BY <2>2, <3>1, <3>2
  <2>4. pos' \in 1 .. Len(pending_msgs') + 1
    BY <1>5, <2>1
  <2>5. Type'
    BY <1>1, <1>2, <1>5, <2>1, <2>3, <2>4 DEF IInv, Type, TypeOK
  <2>6. Control'
    BY <1>1, <1>2, <1>3, <1>5 DEF IInv, Control
  <2>7. Drain'
    BY <1>1, <1>5 DEF IInv, Drain
  <2>8. DOMAIN msgs' = {} /\ DOMAIN subs' = {}
    BY <1>5
  <2>9. Queued'
    BY <1>2, <1>5, <2>8 DEF IInv, Data, Queued
  <2>10. Delivered' /\ DeliveredInOrder' /\ SubscriptionsPrecedeMessages'
    BY <1>2, <1>5, <2>8 DEF IInv, Data, Delivered, DeliveredInOrder, SubscriptionsPrecedeMessages
  <2>11. Expected'
    <3>1. ASSUME NEW i \in DOMAIN msgs PROVE Expects(pending_msgs[i])'
      <4>1. Expects(msgs[i]) /\ pending_msgs'[i] = msgs[i]
        BY <1>5 DEF IInv, Data, Expected
      <4> QED BY <1>2, <4>1 DEF Expects
    <3> QED BY <1>2, <1>5, <2>8, <3>1 DEF Expected
  <2>12. Closing'
    BY <1>2, <1>3 DEF IInv, Data, Closing
  <2>13. Settled'
    <3>1. \A q : q \in Undelivered <=> \E i \in DOMAIN msgs : msgs[i].payload = q
      BY <1>3, UndeliveredIs DEF IInv
    <3>2. \A q : q \in Undelivered' <=> \E i \in DOMAIN msgs : i >= 1 /\ msgs[i].payload = q
      BY <1>3, <1>5, <2>5, <2>8, UndeliveredNext
    <3>3. \A q : q \in Undelivered' <=> q \in Undelivered
      BY <2>1, <3>1, <3>2
    <3> QED BY <1>2, <3>3 DEF IInv, Data, Settled
  <2>14. Subscriptions'
    <3>1. Waiting' = Waiting
      BY <1>3, <1>5, <2>1, ConcatEmptySeq DEF Waiting
    <3> QED BY <1>1, <1>2, <1>3, <3>1 DEF IInv, Data, Subscriptions, After
  <2>15. Nested'
    BY <1>3, NoCalls
  <2> QED BY <2>5, <2>6, <2>7, <2>15, <2>9, <2>10, <2>11, <2>12, <2>13, <2>14 DEF IInv, Data
<1> QED BY <1>4, <1>5 DEF TakeQueues

\* s_bus_apply_listeners.
LEMMA ApplyStep ==
  ASSUME IInv, Async, s_bus_apply_listeners
  PROVE  IInv'
<1>1. /\ pc = "apply"
      /\ UNCHANGED <<policy, calls, queueVars, pending_msgs, pending_drains, pos, cpc, askVars, endVars>>
  BY DEF s_bus_apply_listeners
<1>2. /\ UNCHANGED <<free, msgs, subs, running>>
      /\ UNCHANGED <<requests, members, wanted, touched, within, accepted, received, destroyed, discarded, closed>>
      /\ Freed' <=> Freed
  BY <1>1 DEF queueVars, askVars, endVars, Freed
<1>3. ~Freed /\ policy # "sync" /\ calls = <<>> /\ calls' = <<>>
  BY <1>1, AtWork
<1>4. CASE /\ pending_subs = <<>>
           /\ pc' = IF pending_msgs # <<>> THEN "deliver" ELSE "test"
           /\ UNCHANGED <<slots, pending_subs>>
  <2>1. pc' \in {"deliver", "test"} /\ (pc' = "test" => pending_msgs = <<>>)
    BY <1>4
  <2>2. Type'
    BY <1>1, <1>2, <1>4, <2>1 DEF IInv, Type, TypeOK
  <2>3. Control'
    BY <1>1, <1>2, <1>3, <1>4, <2>1 DEF IInv, Control
  <2>4. Drain'
    BY <1>1, <1>2, <2>1 DEF IInv, Drain
  <2>5. Data'
    BY <1>1, <1>2, <1>4, QuietStep
  <2> QED BY <2>2, <2>3, <2>4, <2>5 DEF IInv
<1>5. ASSUME pending_subs # <<>>, NEW r, r = Head(pending_subs),
             slots' = IF r.op = "add" THEN s_bus_subscribe(r.address, r.listener)
                      ELSE s_bus_unsubscribe(r.address, r.listener),
             pending_subs' = Tail(pending_subs), pc' = pc
      PROVE  IInv'
  <2> DEFINE q == Waiting
             n == Len(Waiting)
  <2>1. subs \in Seq(Request) /\ pending_subs \in Seq(Request) /\ q \in Seq(Request) /\ n \in Nat
    BY QueueFacts DEF IInv
  <2>2. pending_subs' \in Seq(Request) /\ r \in Request
    BY <1>5, <2>1, TailFacts
  <2>3. q # <<>> /\ Head(q) = r /\ Waiting' = Tail(q)
    BY <1>2, <1>5, <2>1, SMTT(30) DEF Waiting
  <2>4. /\ q[1] = r /\ n >= 1 /\ Len(Waiting') = n - 1 /\ Waiting' \in Seq(Request)
        /\ \A k \in 1 .. n - 1 : Waiting'[k] = q[k + 1]
    BY <2>1, <2>3, TailFacts
  <2>5. /\ \A b \in Address : Distinct(slots[b])
        /\ \A k \in 1 .. n : q[k].op = "add" => ~After(slots, q, k - 1, q[k].address, q[k].listener)
        /\ \A b \in Address, k \in Listener : <<b, k>> \in members <=> After(slots, q, n, b, k)
    BY <1>3 DEF IInv, Data, Subscriptions
  <2> HIDE DEF q, n
  <2>6. r.op \in {"add", "remove"} /\ r.address \in Address /\ r.listener \in Listener
    BY <2>2 DEF Request
  <2>7. r.op = "add" => r.listener \notin ToSet(slots[r.address])
    <3>1. 1 \in 1 .. n /\ 1 - 1 = 0
      BY <2>1, <2>4
    <3>2. r.op = "add" => ~After(slots, q, 0, r.address, r.listener)
      BY <2>4, <2>5, <3>1
    <3> QED BY <3>2, AfterNone
  <2>8. /\ slots' \in [Address -> Seq(Listener)]
        /\ \A b \in Address : Distinct(slots'[b])
        /\ \A b \in Address, k \in Listener :
              k \in ToSet(slots'[b]) <=> IF b = r.address /\ k = r.listener THEN r.op = "add" ELSE k \in ToSet(slots[b])
    <3>1. slots \in [Address -> Seq(Listener)]
      BY DEF IInv, Type, TypeOK
    <3>2. PICK o \in {"add", "remove"}, a \in Address, l \in Listener : o = r.op /\ a = r.address /\ l = r.listener
      BY <2>6
    <3>3. /\ slots' = IF o = "add" THEN s_bus_subscribe(a, l) ELSE s_bus_unsubscribe(a, l)
          /\ o = "add" => l \notin ToSet(slots[a])
      BY <1>5, <2>7, <3>2
    <3>4. /\ slots' \in [Address -> Seq(Listener)]
          /\ \A b \in Address : Distinct(slots'[b])
          /\ \A b \in Address, k \in Listener :
                k \in ToSet(slots'[b]) <=> IF b = a /\ k = l THEN o = "add" ELSE k \in ToSet(slots[b])
      BY <2>5, <3>1, <3>3, TableStep
    <3> QED BY <3>2, <3>4
  <2>9. ASSUME NEW b \in Address, NEW l \in Listener, NEW k \in 0 .. n - 1
        PROVE  After(slots', Waiting', k, b, l) <=> After(slots, q, k + 1, b, l)
    <3>1. l \in ToSet(slots'[b]) <=> IF Concerns(Head(q), b, l) THEN Head(q).op = "add" ELSE l \in ToSet(slots[b])
      <4>1. Concerns(Head(q), b, l) <=> b = r.address /\ l = r.listener
        BY <2>3 DEF Concerns
      <4> QED BY <2>3, <2>8, <4>1
    <3> QED BY <2>1, <2>3, <3>1, AfterTail DEF n, q
  <2>10. Subscriptions'
    <3>1. ASSUME NEW k \in 1 .. n - 1, Waiting'[k].op = "add"
          PROVE  ~After(slots', Waiting', k - 1, Waiting'[k].address, Waiting'[k].listener)
      <4>1. k + 1 \in 1 .. n /\ k - 1 \in 0 .. n - 1 /\ (k - 1) + 1 = k /\ (k + 1) - 1 = k /\ Waiting'[k] = q[k + 1]
        BY <2>1, <2>4, SMTT(30)
      <4>2. q[k + 1] \in Request
        BY <2>1, <4>1, ElementOfSeq DEF n, q
      <4>3. q[k + 1].address \in Address /\ q[k + 1].listener \in Listener
        BY <4>2 DEF Request
      <4>4. ~After(slots, q, k, q[k + 1].address, q[k + 1].listener)
        BY <2>5, <3>1, <4>1
      <4> QED BY <2>9, <4>1, <4>3, <4>4
    <3>2. ASSUME NEW b \in Address, NEW l \in Listener
          PROVE  <<b, l>> \in members' <=> After(slots', Waiting', n - 1, b, l)
      <4>1. n - 1 \in 0 .. n - 1 /\ (n - 1) + 1 = n
        BY <2>1, <2>4
      <4> QED BY <1>2, <2>5, <2>9, <4>1
    <3> QED BY <2>4, <2>8, <3>1, <3>2 DEF Subscriptions
  <2>11. Type'
    BY <1>1, <1>2, <1>5, <2>2, <2>8 DEF IInv, Type, TypeOK
  <2>12. Control'
    BY <1>1, <1>2, <1>3, <1>5 DEF IInv, Control
  <2>13. Drain'
    BY <1>1, <1>2, <1>5 DEF IInv, Drain
  <2>14. Queued' /\ Delivered' /\ DeliveredInOrder' /\ SubscriptionsPrecedeMessages'
    BY <1>1, <1>2 DEF IInv, Data, Queued, Delivered, DeliveredInOrder, SubscriptionsPrecedeMessages
  <2>15. Expected'
    BY <1>1, <1>2 DEF IInv, Data, Expected, Expects
  <2>16. Closing'
    BY <1>2, <1>3 DEF IInv, Data, Closing
  <2>17. Settled'
    BY <1>1, <1>2, ZenonT(40) DEF IInv, Data, Settled, Undelivered, Payloads, InProgress
  <2>18. Nested'
    BY <1>3, NoCalls
  <2> QED BY <2>10, <2>11, <2>18, <2>12, <2>13, <2>14, <2>15, <2>16, <2>17 DEF IInv, Data
<1> QED BY <1>4, <1>5 DEF s_bus_apply_listeners

\* Requests of others do not decide about l.
LEMMA AfterOthers ==
  ASSUME NEW table, NEW q, NEW n, NEW a, NEW l, \A j \in 1 .. n : q[j].listener # l
  PROVE  After(table, q, n, a, l) <=> l \in ToSet(table[a])
BY DEF After, Concerns

\* s_bus_async_deliver_messages.
LEMMA DeliverMessagesStep ==
  ASSUME IInv, Async, s_bus_async_deliver_messages
  PROVE  IInv'
<1>1. /\ pc = "deliver"
      /\ UNCHANGED <<policy, calls, slots, queueVars, pending_msgs, pending_subs, pending_drains, cpc, askVars, discarded, closed>>
  BY DEF s_bus_async_deliver_messages
<1>2. /\ UNCHANGED <<free, msgs, subs, running>>
      /\ UNCHANGED <<requests, members, wanted, touched, within, accepted, discarded, closed>>
      /\ Freed' <=> Freed
  BY <1>1 DEF queueVars, askVars, Freed
<1>3. ~Freed /\ policy # "sync" /\ pending_subs = <<>> /\ calls = <<>> /\ calls' = <<>>
  BY <1>1, AtWork DEF IInv, Control
<1>4. /\ Type /\ pos \in 1 .. Len(pending_msgs) + 1 /\ Len(pending_msgs) \in Nat
      /\ DOMAIN pending_msgs = 1 .. Len(pending_msgs)
  BY QueueFacts DEF IInv
<1>5. CASE pos > Len(pending_msgs) /\ pc' = "free" /\ UNCHANGED <<pos, received, destroyed>>
  <2>1. Type'
    BY <1>1, <1>2, <1>5 DEF IInv, Type, TypeOK
  <2>2. pos = Len(pending_msgs) + 1
    BY <1>4, <1>5
  <2>3. Control'
    BY <1>1, <1>2, <1>3, <1>5, <2>2 DEF IInv, Control
  <2>4. Drain'
    BY <1>1, <1>2, <1>5 DEF IInv, Drain
  <2>5. Data'
    BY <1>1, <1>2, <1>5, QuietStep DEF endVars
  <2> QED BY <2>1, <2>3, <2>4, <2>5 DEF IInv
<1>6. ASSUME pos <= Len(pending_msgs), NEW a, NEW p,
             a = pending_msgs[pos].address, p = pending_msgs[pos].payload,
             s_bus_deliver_msg(a, p), destroyed' = [destroyed EXCEPT ![p] = @ + 1], pos' = pos + 1, pc' = pc
      PROVE  IInv'
  <2> DEFINE m == pending_msgs[pos]
  <2>1. pos \in DOMAIN pending_msgs /\ pos >= pos /\ m \in Message /\ a \in Address /\ p \in Payload /\ p \in Nat
    <3>1. pos \in DOMAIN pending_msgs /\ pos >= pos
      BY <1>4, <1>6
    <3> QED BY <1>4, <1>6, <3>1, QueueFacts
  <2>2. \A l \in Listener : \A i \in DOMAIN received[l] : received[l][i] < p
    BY <1>6, <2>1 DEF IInv, Data, Delivered
  <2>3. /\ DeliveredInOrder'
        /\ \A l \in Listener : ~Contains(received[l], p)
        /\ \A l \in Listener : \A i \in DOMAIN received'[l] : received'[l][i] <= p
    BY <1>2, <1>6, <2>1, <2>2, DeliverOrder
  <2>4. /\ received' \in [Listener -> Seq(Payload)]
        /\ \A l \in Listener : \A x : Contains(received'[l], x) <=>
              \/ Contains(received[l], x)
              \/ x = p /\ l \in ToSet(slots[ALL]) \cup ToSet(slots[a])
    BY <1>4, <1>6, <2>1, DeliverStep
  <2>5. Open(p)
    BY <1>6, <2>1, LeftOpen
  <2>6. destroyed' \in [Payload -> Nat] /\ destroyed'[p] = 1 /\ \A q \in Payload : q # p => destroyed'[q] = destroyed[q]
    <3>1. destroyed \in [Payload -> Nat] /\ destroyed[p] = 0
      BY <1>4, <2>5 DEF Type, Open
    <3> QED BY <1>6, <2>1, <3>1
  <2>7. pos' \in 1 .. Len(pending_msgs) + 1
    BY <1>4, <1>6
  <2>8. Type'
    BY <1>1, <1>2, <1>6, <2>4, <2>6, <2>7 DEF IInv, Type, TypeOK
  <2>9. Control'
    BY <1>1, <1>2, <1>3, <1>6 DEF IInv, Control
  <2>10. Drain'
    BY <1>1, <1>2, <1>6 DEF IInv, Drain
  <2>11. Queued
    BY DEF IInv, Data
  <2>12. Queued'
    BY <1>1, <1>2, <2>11 DEF Queued
  <2>13. \A j \in DOMAIN pending_msgs : j >= pos' <=> j >= pos /\ j # pos
    BY <1>4, <1>6
  <2>14. /\ \A j \in DOMAIN pending_msgs : j >= pos /\ j # pos => p < pending_msgs[j].payload
         /\ \A j \in DOMAIN msgs : p < msgs[j].payload
         /\ p <= accepted
    <3>1. \A j \in DOMAIN pending_msgs : j >= pos /\ j # pos => pos < j
      BY <1>4
    <3> QED BY <1>6, <2>1, <2>11, <3>1 DEF Queued
  <2>15. Delivered'
    <3>1. ASSUME NEW l \in Listener, NEW i \in DOMAIN received'[l]
          PROVE  /\ received'[l][i] <= accepted
                 /\ \A j \in DOMAIN msgs : received'[l][i] < msgs[j].payload
                 /\ \A j \in DOMAIN pending_msgs : j >= pos' => received'[l][i] < pending_msgs[j].payload
      <4>1. received'[l][i] <= p /\ received'[l][i] \in Nat
        <5>1. received'[l] \in Seq(Payload)
          BY <2>4
        <5> QED BY <2>3, <3>1, <5>1, LenProperties, ElementOfSeq, Constants
      <4>2. /\ \A j \in DOMAIN msgs : msgs[j].payload \in Nat
            /\ \A j \in DOMAIN pending_msgs : pending_msgs[j].payload \in Nat
            /\ accepted \in Nat
        BY <1>4, QueueFacts
      <4> QED BY <2>1, <2>13, <2>14, <4>1, <4>2
    <3> QED BY <1>1, <1>2, <3>1 DEF Delivered
  <2>16. Subscriptions'
    BY <1>1, <1>2, SubscriptionsFrame DEF IInv, Data
  <2>17. Expected'
    <3>1. /\ \A i \in DOMAIN msgs : Expects(msgs[i])
          /\ \A i \in DOMAIN pending_msgs : i >= pos' =>
                /\ Expects(pending_msgs[i])
                /\ \A j \in DOMAIN subs : subs[j].listener \in touched[pending_msgs[i].payload]
      BY <2>13 DEF IInv, Data, Expected
    <3> QED BY <1>1, <1>2, <3>1 DEF Expected, Expects
  <2>18. Closing'
    BY <1>2, <1>3 DEF IInv, Data, Closing
  <2>19. Settled'
    <3>1. \A q : q \in Undelivered <=>
                    \/ \E i \in DOMAIN msgs : msgs[i].payload = q
                    \/ \E i \in DOMAIN pending_msgs : i >= pos /\ pending_msgs[i].payload = q
      BY <1>3, <1>4, UndeliveredIs
    <3>2. \A q : q \in Undelivered' <=>
                    \/ \E i \in DOMAIN msgs : msgs[i].payload = q
                    \/ \E i \in DOMAIN pending_msgs : i >= pos' /\ pending_msgs[i].payload = q
      BY <1>1, <1>2, <1>3, <2>8, UndeliveredNext
    <3>3. /\ \A j \in DOMAIN pending_msgs : j >= pos /\ j # pos => pending_msgs[j].payload # p
          /\ \A j \in DOMAIN msgs : msgs[j].payload # p
      <4>1. /\ \A j \in DOMAIN msgs : msgs[j].payload \in Nat
            /\ \A j \in DOMAIN pending_msgs : pending_msgs[j].payload \in Nat
        BY <1>4, QueueFacts
      <4> QED BY <2>1, <2>14, <4>1
    <3>4. p \notin Undelivered'
      BY <2>13, <3>2, <3>3
    <3>5. \A q : q # p => (q \in Undelivered' <=> q \in Undelivered)
      BY <1>6, <2>1, <2>13, <3>1, <3>2
    <3>6. SUFFICES ASSUME NEW q \in Payload
                   PROVE  destroyed'[q] = IF q <= accepted /\ q \notin Undelivered' THEN 1 ELSE 0
      BY <1>2 DEF Settled
    <3>7. CASE q = p
      BY <2>6, <2>14, <3>4, <3>7
    <3>8. CASE q # p
      BY <2>6, <3>5, <3>8 DEF IInv, Data, Settled
    <3> QED BY <3>7, <3>8
  <2>20. SubscriptionsPrecedeMessages'
    <3>1. SUFFICES ASSUME NEW q \in Payload \ discarded, NEW l \in Listener, destroyed'[q] > 0, l \notin touched[q]
                   PROVE  l \in wanted[q] <=> Contains(received'[l], q)
      BY <1>2 DEF SubscriptionsPrecedeMessages
    <3>2. CASE q # p
      BY <2>4, <2>6, <3>1, <3>2 DEF IInv, Data, SubscriptionsPrecedeMessages
    <3>3. CASE q = p
      <4>1. /\ Expects(m)
            /\ \A j \in DOMAIN subs : subs[j].listener \in touched[m.payload]
        BY <2>1 DEF IInv, Data, Expected
      <4>2. l \in wanted[p] <=> <<a, l>> \in members \/ <<ALL, l>> \in members
        BY <1>6, <3>1, <3>3, <4>1 DEF Expects
      <4>3. Waiting = subs /\ DOMAIN subs = 1 .. Len(subs)
        <5>1. subs \in Seq(Request) /\ DOMAIN subs = 1 .. Len(subs)
          BY <1>4, QueueFacts
        <5> QED BY <1>3, <5>1, ConcatEmptySeq DEF Waiting
      <4>4. \A j \in 1 .. Len(Waiting) : Waiting[j].listener # l
        BY <1>6, <3>1, <3>3, <4>1, <4>3
      <4>5. \A b \in Address : <<b, l>> \in members <=> After(slots, Waiting, Len(Waiting), b, l)
        BY <1>3 DEF IInv, Data, Subscriptions
      <4>6. \A b \in Address : <<b, l>> \in members <=> l \in ToSet(slots[b])
        BY <4>4, <4>5, AfterOthers
      <4> QED BY <2>1, <2>3, <2>4, <3>3, <4>2, <4>6, Constants
    <3> QED BY <3>2, <3>3
  <2>21. Nested'
    BY <1>3, NoCalls
  <2> QED BY <2>3, <2>8, <2>21, <2>9, <2>10, <2>12, <2>15, <2>16, <2>17, <2>18, <2>19, <2>20 DEF IInv, Data
<1> QED BY <1>4, <1>5, <1>6 DEF s_bus_async_deliver_messages, Destroy

\* The messages that were delivered are freed.
LEMMA FreeMessagesStep ==
  ASSUME IInv, Async, FreeMessages
  PROVE  IInv'
<1>0. /\ pc = "free" /\ pos = Len(pending_msgs) + 1 /\ DOMAIN pending_msgs = 1 .. Len(pending_msgs)
      /\ Len(pending_msgs) \in Nat /\ destroyed \in [Payload -> Nat]
  BY QueueFacts DEF FreeMessages, IInv, Control, Type
<1>16. destroyed' = destroyed
  <2>1. \A p : {i \in DOMAIN pending_msgs : HasDestructor(i) /\ pending_msgs[i].payload = p} = {}
    BY <1>0 DEF HasDestructor
  <2>2. destroyed' = [p \in Payload |-> destroyed[p] + 0]
    BY <2>1, FS_EmptySet, Zenon DEF FreeMessages
  <2> QED BY <1>0, <2>2
<1>1. /\ pc = "free" /\ free' = free + Pooled(pending_msgs)
      /\ pending_msgs' = <<>> /\ pos' = 1 /\ pc' = "test"
      /\ UNCHANGED <<policy, calls, slots, msgs, subs, running, pending_subs, pending_drains, cpc, askVars, endVars>>
  BY <1>16 DEF FreeMessages, s_bus_async_free_message, endVars
<1>2. /\ UNCHANGED <<requests, members, wanted, touched, within, accepted, received, destroyed, discarded, closed>>
      /\ Freed' <=> Freed
  BY <1>1 DEF askVars, endVars, Freed
<1>3. /\ ~Freed /\ policy # "sync" /\ pending_subs = <<>> /\ pos = Len(pending_msgs) + 1
      /\ calls = <<>> /\ calls' = <<>>
  BY <1>1, AtWork DEF IInv, Control
<1>4. /\ Type /\ Len(pending_msgs) \in Nat /\ DOMAIN pending_msgs = 1 .. Len(pending_msgs)
      /\ <<>> \in Seq(Message) /\ Len(<<>>) = 0 /\ DOMAIN pending_msgs' = {}
  BY <1>1, QueueFacts, EmptySeq DEF IInv
<1>5. free' \in 0 .. Slots /\ free' + Pooled(msgs') + Pooled(pending_msgs') = Slots
  <2>1. /\ free + Pooled(msgs) + Pooled(pending_msgs) = Slots /\ free \in Nat /\ Slots \in Nat
        /\ msgs \in Seq(Message) /\ pending_msgs \in Seq(Message)
    BY <1>4, Constants DEF Type, TypeOK
  <2>2. Pooled(msgs) \in Nat /\ Pooled(pending_msgs) \in Nat /\ Pooled(<<>>) = 0
    BY <2>1, PooledType
  <2>3. Pooled(msgs') = Pooled(msgs) /\ Pooled(pending_msgs') = 0 /\ free' = free + Pooled(pending_msgs)
    BY <1>1, <2>2
  <2> QED BY <2>1, <2>2, <2>3
<1>6. pos' \in 1 .. Len(pending_msgs') + 1
  BY <1>1, <1>4
<1>7. Type'
  BY <1>1, <1>2, <1>4, <1>5, <1>6 DEF Type, TypeOK
<1>8. Control'
  BY <1>1, <1>2, <1>3 DEF IInv, Control
<1>9. Drain'
  BY <1>1 DEF IInv, Drain
<1>10. \A j \in DOMAIN pending_msgs : ~(j >= pos)
  BY <1>3, <1>4
<1>11. Queued' /\ Delivered' /\ DeliveredInOrder' /\ SubscriptionsPrecedeMessages'
  BY <1>1, <1>2, <1>4 DEF IInv, Data, Queued, Delivered, DeliveredInOrder, SubscriptionsPrecedeMessages
<1>12. Expected'
  BY <1>1, <1>2, <1>4 DEF IInv, Data, Expected, Expects
<1>13. Closing'
  BY <1>2, <1>3 DEF IInv, Data, Closing
<1>14. Subscriptions'
  BY <1>1, <1>2, SubscriptionsFrame DEF IInv, Data
<1>15. Settled'
  <2>1. \A q : q \in Undelivered <=> \E i \in DOMAIN msgs : msgs[i].payload = q
    BY <1>3, <1>4, <1>10, UndeliveredIs
  <2>2. \A q : q \in Undelivered' <=> \E i \in DOMAIN msgs : msgs[i].payload = q
    BY <1>1, <1>3, <1>4, <1>7, UndeliveredNext
  <2> QED BY <1>2, <2>1, <2>2 DEF IInv, Data, Settled
<1>17. Nested'
  BY <1>3, NoCalls
<1> QED BY <1>7, <1>8, <1>17, <1>9, <1>11, <1>12, <1>13, <1>14, <1>15 DEF IInv, Data

\* The test of the dispatch loop, and a wake-up nobody asked for.
LEMMA LoopStep ==
  ASSUME IInv, (Async /\ LoopTest) \/ SpuriousWakeUp
  PROVE  IInv'
<1>1. CASE Async /\ LoopTest
  <2>1. /\ pc = "test" /\ pc' = IF running \/ pending_drains > 0 THEN "lock" ELSE "exited"
        /\ pending_drains' = IF running THEN pending_drains ELSE 0
        /\ UNCHANGED <<policy, calls, slots, queueVars, pending_msgs, pending_subs, pos, cpc, askVars, endVars>>
    BY <1>1 DEF LoopTest
  <2>2. /\ UNCHANGED <<free, msgs, subs, running>>
        /\ UNCHANGED <<requests, members, wanted, touched, within, accepted, received, destroyed, discarded, closed>>
        /\ Freed' <=> Freed
    BY <2>1 DEF queueVars, askVars, endVars, Freed
  <2>3. ~Freed /\ policy # "sync" /\ pc' \in {"lock", "exited"}
    BY <1>1, <2>1, AtWork
  <2>4. pending_drains' \in 0 .. 1 /\ pending_drains \in {0, 1}
    BY <2>1 DEF IInv, Type, TypeOK
  <2>5. Type'
    BY <2>1, <2>2, <2>3, <2>4 DEF IInv, Type, TypeOK
  <2>6. Control'
    BY <2>1, <2>2, <2>3 DEF IInv, Control
  <2>7. Drain'
    BY <2>1, <2>2, <2>4 DEF IInv, Drain
  <2>8. Data'
    BY <2>1, <2>2, QuietStep
  <2> QED BY <2>5, <2>6, <2>7, <2>8 DEF IInv
<1>2. CASE SpuriousWakeUp
  <2>1. /\ pc = "blocked" /\ pc' = "lock"
        /\ UNCHANGED <<policy, calls, slots, free, msgs, subs, running, threadVars, cpc, askVars, endVars>>
    BY <1>2 DEF SpuriousWakeUp, queueVars
  <2>2. /\ Freed' <=> Freed
        /\ cpc' \in [Client -> {"idle", "notify", "closing", "spin", "freed"}] /\ running' \in BOOLEAN
    BY <2>1 DEF IInv, Type, TypeOK, Freed
  <2> QED BY <2>1, <2>2, MoveStep
<1> QED BY <1>1, <1>2

\* Every step preserves the invariant.
LEMMA NextInv == IInv /\ [Next]_vars => IInv'
<1> SUFFICES ASSUME IInv, [Next]_vars PROVE IInv'
  OBVIOUS
<1>0. \A s \in Subscription : s[1] \in Address /\ s[2] \in Listener
  BY BusAssumption
<1>7. CASE s_bus_deliver_msg_to_slot
  BY <1>7, SyncDeliverStep
<1>1. CASE ClientCall
  BY <1>0, <1>1, SyncSubscriptionStep, SyncSendStep, SyncCleanUpStep, AsyncSubscriptionStep, AsyncSendStep DEF ClientCall
<1>2. CASE \E c \in Client : ClientNotifies(c)
  BY <1>2, ClientNotifiesStep
<1>3. CASE s_bus_async_clean_up
  BY <1>3, AsyncCleanUpStep
<1>4. CASE DispatchStep
  BY <1>4, TakeQueuesStep, ApplyStep, DeliverMessagesStep, FreeMessagesStep, LoopStep DEF DispatchStep
<1>5. CASE SpuriousWakeUp
  BY <1>5, LoopStep
<1>6. CASE UNCHANGED vars
  <2>1. UNCHANGED <<policy, calls, slots, free, msgs, subs, running, threadVars, pc, cpc, askVars, endVars>>
    BY <1>6 DEF vars, queueVars
  <2>2. /\ Freed' <=> Freed
        /\ cpc' \in [Client -> {"idle", "notify", "closing", "spin", "freed"}] /\ running' \in BOOLEAN
    BY <2>1 DEF IInv, Type, TypeOK, Freed
  <2> QED BY <2>1, <2>2, MoveStep
<1> QED BY <1>1, <1>2, <1>3, <1>4, <1>5, <1>6, <1>7 DEF Next

----------------------------------------------------------------------------
(* The theorems                                                            *)

\* The invariant holds in every reachable state.
LEMMA Invariance == Spec => []IInv
BY InitInv, NextInv, PTL DEF Spec

\* Every payload a bus accepts is destroyed exactly once, when its message has been
\* delivered or discarded, and every message of the buffer is free or queued once.
THEOREM PayloadDestroyedOnceCorrect == Spec => []PayloadDestroyedOnce
<1>1. IInv => PayloadDestroyedOnce
  BY DEF IInv, Type, Data, Settled, PayloadDestroyedOnce
<1> QED BY <1>1, Invariance, PTL

\* A change of subscription accepted before a message counts for the message, although
\* requests and messages travel through two queues.
THEOREM SubscriptionsPrecedeMessagesCorrect == Spec => []SubscriptionsPrecedeMessages
<1>1. IInv => SubscriptionsPrecedeMessages
  BY DEF IInv, Data
<1> QED BY <1>1, Invariance, PTL

\* Every listener is called in the order in which the messages were accepted, except
\* that what a listener of a synchronous bus sends overtakes what it was called with.
THEOREM DeliveredInOrderCorrect == Spec => []DeliveredInOrder
<1>1. IInv => DeliveredInOrder
  BY DEF IInv, Data
<1> QED BY <1>1, Invariance, PTL

\* One drain after the shutdown was noticed is enough.
THEOREM FinalDrainIsFinalCorrect == Spec => []FinalDrainIsFinal
<1>1. IInv => FinalDrainIsFinal
  BY DEF IInv, Control, Drain, FinalDrainIsFinal
<1> QED BY <1>1, Invariance, PTL

\* Every subscription that was not taken back is closed exactly once.
THEOREM ClosedOncePerSubscriptionCorrect == Spec => []ClosedOncePerSubscription
<1>1. IInv => ClosedOncePerSubscription
  BY DEF IInv, Data, Closing, ClosedOncePerSubscription
<1> QED BY <1>1, Invariance, PTL
=============================================================================
