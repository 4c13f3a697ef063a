----------------------------- MODULE ListLemmas -----------------------------
(***************************************************************************)
(* What the operations of a linked list do to its elements and to their    *)
(* order, for lists that hold a node once: the proofs about schedulers,    *)
(* which pass tasks from list to list, reason with these and not with      *)
(* indices.                                                                *)
(***************************************************************************)
EXTENDS Naturals, Integers, SequencesExt, FiniteSetsExt, SequenceTheorems, FiniteSetTheorems,
        WellFoundedInduction, NaturalsInduction, TLAPS

\* A node is linked at most once.
Distinct(s) == \A i, j \in DOMAIN s : s[i] = s[j] => i = j

\* Some a comes before some b.
Precedes(s, a, b) == \E i, j \in DOMAIN s : i < j /\ s[i] = a /\ s[j] = b

----------------------------------------------------------------------------

\* The elements of a sequence, and that only the empty one has none.
LEMMA ListFacts ==
  ASSUME NEW S, NEW s \in Seq(S)
  PROVE  /\ DOMAIN s = 1 .. Len(s) /\ Len(s) \in Nat
         /\ ToSet(s) \subseteq S
         /\ ToSet(s) = {} <=> s = <<>>
         /\ \A e : e \in ToSet(s) <=> Contains(s, e)
<1>1. DOMAIN s = 1 .. Len(s) /\ Len(s) \in Nat /\ s \in [1 .. Len(s) -> S]
  BY LenProperties
<1>2. ToSet(s) \subseteq S
  BY <1>1 DEF ToSet
<1>3. ASSUME s # <<>> PROVE s[1] \in ToSet(s)
  BY <1>1, <1>3, EmptySeq DEF ToSet
<1>4. ToSet(<<>>) = {}
  BY DEF ToSet
<1>5. \A e : e \in ToSet(s) <=> Contains(s, e)
  BY <1>1 DEF ToSet, Contains
<1> QED BY <1>1, <1>2, <1>3, <1>4, <1>5

\* The empty list.
LEMMA EmptyList == ToSet(<<>>) = {} /\ Distinct(<<>>) /\ \A a, b : ~Precedes(<<>>, a, b)
BY DEF ToSet, Distinct, Precedes

\* aws_linked_list_push_back.
LEMMA AppendList ==
  ASSUME NEW S, NEW s \in Seq(S), Distinct(s), NEW e \in S, e \notin ToSet(s)
  PROVE  /\ Append(s, e) \in Seq(S) /\ Append(s, e) # <<>>
         /\ Distinct(Append(s, e))
         /\ ToSet(Append(s, e)) = ToSet(s) \cup {e}
         /\ \A a, b : Precedes(Append(s, e), a, b) => Precedes(s, a, b) \/ (a \in ToSet(s) /\ b = e)
<1> DEFINE u == Append(s, e)
<1>1. /\ DOMAIN s = 1 .. Len(s) /\ Len(s) \in Nat
      /\ u \in Seq(S) /\ u # <<>> /\ Len(u) = Len(s) + 1 /\ DOMAIN u = 1 .. Len(u)
      /\ \A i \in 1 .. Len(s) : u[i] = s[i]
      /\ u[Len(s) + 1] = e
  BY AppendProperties, LenProperties
<1> HIDE DEF u
<1>2. DOMAIN u = DOMAIN s \cup {Len(s) + 1} /\ Len(s) + 1 \notin DOMAIN s
  BY <1>1
<1>3. \A i \in DOMAIN s : u[i] = s[i] /\ s[i] \in ToSet(s)
  BY <1>1 DEF ToSet
<1>4. Distinct(u)
  BY <1>1, <1>2, <1>3 DEF Distinct
<1>5. ToSet(u) = ToSet(s) \cup {e}
  <2>1. ASSUME NEW i \in DOMAIN u PROVE u[i] \in ToSet(s) \cup {e}
    BY <1>1, <1>2, <1>3
  <2>2. ASSUME NEW i \in DOMAIN s PROVE \E j \in DOMAIN u : u[j] = s[i]
    BY <1>2, <1>3
  <2>3. \E j \in DOMAIN u : u[j] = e
    BY <1>1, <1>2
  <2> QED BY <2>1, <2>2, <2>3 DEF ToSet
<1>6. ASSUME NEW a, NEW b, Precedes(u, a, b)
      PROVE  Precedes(s, a, b) \/ (a \in ToSet(s) /\ b = e)
  <2>1. PICK i, j \in DOMAIN u : i < j /\ u[i] = a /\ u[j] = b
    BY <1>6 DEF Precedes
  <2>2. i \in DOMAIN s
    BY <1>1, <1>2, <2>1
  <2>3. CASE j \in DOMAIN s
    BY <1>3, <2>1, <2>2, <2>3 DEF Precedes
  <2>4. CASE j = Len(s) + 1
    BY <1>1, <1>3, <2>1, <2>2, <2>4
  <2> QED BY <1>2, <2>3, <2>4
<1> QED BY <1>1, <1>4, <1>5, <1>6 DEF u

\* aws_linked_list_pop_front.
LEMMA TailList ==
  ASSUME NEW S, NEW s \in Seq(S), Distinct(s), s # <<>>
  PROVE  /\ Tail(s) \in Seq(S) /\ Head(s) \in S /\ Head(s) \in ToSet(s)
         /\ Distinct(Tail(s))
         /\ ToSet(Tail(s)) = ToSet(s) \ {Head(s)}
         /\ \A a, b : Precedes(Tail(s), a, b) => Precedes(s, a, b)
         /\ \A b \in ToSet(Tail(s)) : Precedes(s, Head(s), b)
<1> DEFINE u == Tail(s)
<1>1. /\ DOMAIN s = 1 .. Len(s) /\ Len(s) \in Nat \ {0}
      /\ u \in Seq(S) /\ Len(u) = Len(s) - 1 /\ DOMAIN u = 1 .. Len(u)
      /\ Head(s) = s[1] /\ Head(s) \in S
      /\ \A i \in 1 .. Len(u) : u[i] = s[i + 1]
  BY HeadTailProperties, LenProperties, EmptySeq
<1> HIDE DEF u
<1>2. \A i \in DOMAIN u : i + 1 \in DOMAIN s /\ i \in Nat /\ i >= 1 /\ u[i] = s[i + 1]
  BY <1>1
<1>3. \A k \in DOMAIN s : k # 1 => k \in Nat /\ k - 1 \in DOMAIN u /\ u[k - 1] = s[k]
  BY <1>1
<1>4. Distinct(u)
  BY <1>2 DEF Distinct
<1>5. ToSet(u) = ToSet(s) \ {Head(s)}
  <2>1. ASSUME NEW i \in DOMAIN u PROVE u[i] \in ToSet(s) \ {s[1]}
    BY <1>1, <1>2 DEF Distinct, ToSet
  <2>2. ASSUME NEW k \in DOMAIN s, s[k] # s[1] PROVE \E i \in DOMAIN u : u[i] = s[k]
    BY <1>3, <2>2
  <2> QED BY <1>1, <2>1, <2>2 DEF ToSet
<1>6. \A a, b : Precedes(u, a, b) => Precedes(s, a, b)
  BY <1>2 DEF Precedes
<1>7. \A b \in ToSet(u) : Precedes(s, s[1], b)
  BY <1>1, <1>2 DEF Precedes, ToSet
<1>8. Head(s) \in ToSet(s)
  BY <1>1 DEF ToSet
<1> QED BY <1>1, <1>4, <1>5, <1>6, <1>7, <1>8 DEF u

\* RemoveAt, index by index.
LEMMA RemoveAtFacts ==
  ASSUME NEW S, NEW s \in Seq(S), NEW k \in DOMAIN s
  PROVE  /\ RemoveAt(s, k) \in Seq(S) /\ Len(RemoveAt(s, k)) = Len(s) - 1
         /\ \A i \in 1 .. Len(s) - 1 : RemoveAt(s, k)[i] = IF i < k THEN s[i] ELSE s[i + 1]
<1> DEFINE x == SubSeq(s, 1, k - 1)
           y == SubSeq(s, k + 1, Len(s))
<1>1. s \in [1 .. Len(s) -> S] /\ DOMAIN s = 1 .. Len(s) /\ Len(s) \in Nat /\ k \in 1 .. Len(s)
  BY LenProperties
<1>2. x \in Seq(S) /\ Len(x) = k - 1 /\ \A i \in 1 .. k - 1 : x[i] = s[i]
  <2>1. \A i \in 1 .. k - 1 : s[i] \in S
    BY <1>1
  <2> QED BY <1>1, <2>1, SubSeqProperties
<1>3. y \in Seq(S) /\ Len(y) = Len(s) - k /\ \A i \in 1 .. Len(s) - k : y[i] = s[k + i]
  <2>1. \A i \in k + 1 .. Len(s) : s[i] \in S
    BY <1>1
  <2>2. /\ y \in Seq(S) /\ Len(y) = IF k + 1 <= Len(s) THEN Len(s) - (k + 1) + 1 ELSE 0
        /\ \A i \in 1 .. Len(s) - (k + 1) + 1 : y[i] = s[(k + 1) + i - 1]
    BY <1>1, <2>1, SubSeqProperties
  <2>3. Len(s) - (k + 1) + 1 = Len(s) - k /\ \A i \in 1 .. Len(s) - k : (k + 1) + i - 1 = k + i
    BY <1>1
  <2> QED BY <1>1, <2>2, <2>3
<1>4. RemoveAt(s, k) = x \o y
  BY DEF RemoveAt
<1> HIDE DEF x, y
<1>5. /\ x \o y \in Seq(S) /\ Len(x \o y) = Len(s) - 1
      /\ \A i \in 1 .. Len(s) - 1 : (x \o y)[i] = IF i <= k - 1 THEN x[i] ELSE y[i - (k - 1)]
  <2>1. /\ x \o y \in Seq(S)
        /\ Len(x \o y) = Len(x) + Len(y)
        /\ \A i \in 1 .. Len(x) + Len(y) : (x \o y)[i] = IF i <= Len(x) THEN x[i] ELSE y[i - Len(x)]
    BY <1>2, <1>3, ConcatProperties
  <2>2. Len(x) + Len(y) = Len(s) - 1 /\ Len(x) = k - 1
    BY <1>1, <1>2, <1>3
  <2> QED BY <2>1, <2>2
<1>6. ASSUME NEW i \in 1 .. Len(s) - 1 PROVE (x \o y)[i] = IF i < k THEN s[i] ELSE s[i + 1]
  <2>1. CASE i < k
    BY <1>1, <1>2, <1>5, <2>1
  <2>2. CASE ~(i < k)
    <3>1. i - (k - 1) \in 1 .. Len(s) - k /\ k + (i - (k - 1)) = i + 1 /\ ~(i <= k - 1)
      BY <1>1, <2>2
    <3>2. y[i - (k - 1)] = s[i + 1]
      BY <1>3, <3>1
    <3> QED BY <1>5, <2>2, <3>1, <3>2
  <2> QED BY <2>1, <2>2
<1> QED BY <1>4, <1>5, <1>6

\* The strict order of the natural numbers, as a relation.
NatLess == {ss \in Nat \X Nat : ss[1] < ss[2]}

\* A non-empty set of naturals has a least element, and Min is that.
LEMMA MinIsLeast ==
  ASSUME NEW T \in SUBSET Nat, T # {}
  PROVE  Min(T) \in T /\ \A y \in T : Min(T) <= y
<1>1. IsWellFoundedOn(NatLess, Nat)
  BY NatLessThanWellFounded DEF OpToRel, NatLess
<1>2. PICK x \in T : \A y \in T : ~(<<y, x>> \in NatLess)
  BY <1>1, WFMin
<1>3. \A y \in T : ~(y < x)
  BY <1>2 DEF NatLess
<1>4. \A y \in T : x <= y
  BY <1>3
<1> QED BY <1>4 DEF Min

\* Whatever is least is Min.
LEMMA LeastIsMin ==
  ASSUME NEW T \in SUBSET Nat, NEW x \in T, \A y \in T : x <= y
  PROVE  Min(T) = x
<1>1. Min(T) \in T /\ \A y \in T : Min(T) <= y
  BY MinIsLeast
<1>2. Min(T) <= x /\ x <= Min(T) /\ x \in Nat /\ Min(T) \in Nat
  BY <1>1
<1> QED BY <1>2

\* The position RemoveFirst looks for.
LEMMA FirstPosition ==
  ASSUME NEW S, NEW s \in Seq(S), NEW e, Contains(s, e)
  PROVE  \E k \in DOMAIN s : s[k] = e /\ RemoveFirst(s, e) = RemoveAt(s, k)
<1> DEFINE I == {i \in 1 .. Len(s) : s[i] = e}
<1>1. DOMAIN s = 1 .. Len(s) /\ Len(s) \in Nat
  BY LenProperties
<1>2. I # {} /\ I \in SUBSET Nat
  BY <1>1 DEF Contains
<1>3. Min(I) \in I
  <2> HIDE DEF I
  <2> QED BY <1>2, MinIsLeast
<1>4. RemoveFirst(s, e) = RemoveAt(s, Min(I))
  BY <1>2 DEF RemoveFirst, SelectInSeq, Contains
<1> QED BY <1>1, <1>3, <1>4

\* aws_linked_list_remove.
LEMMA RemoveList ==
  ASSUME NEW S, NEW s \in Seq(S), Distinct(s), NEW e
  PROVE  /\ RemoveFirst(s, e) \in Seq(S)
         /\ Distinct(RemoveFirst(s, e))
         /\ ToSet(RemoveFirst(s, e)) = ToSet(s) \ {e}
         /\ \A a, b : Precedes(RemoveFirst(s, e), a, b) => Precedes(s, a, b)
<1>1. DOMAIN s = 1 .. Len(s) /\ Len(s) \in Nat
  BY LenProperties
<1>2. CASE ~Contains(s, e)
  BY <1>1, <1>2 DEF RemoveFirst, Contains, ToSet
<1>3. CASE Contains(s, e)
  <2>1. PICK k \in DOMAIN s : s[k] = e /\ RemoveFirst(s, e) = RemoveAt(s, k)
    BY <1>3, FirstPosition
  <2> DEFINE u == RemoveAt(s, k)
  <2>2. RemoveFirst(s, e) = u
    BY <2>1
  <2>3. /\ u \in Seq(S) /\ Len(u) = Len(s) - 1
        /\ \A i \in 1 .. Len(s) - 1 : u[i] = IF i < k THEN s[i] ELSE s[i + 1]
    BY <2>1, RemoveAtFacts
  <2>4. DOMAIN u = 1 .. Len(s) - 1
    BY <2>3, LenProperties
  <2> HIDE DEF u
  <2> DEFINE at(i) == IF i < k THEN i ELSE i + 1
  <2>5. \A i \in DOMAIN u : at(i) \in DOMAIN s /\ at(i) # k /\ u[i] = s[at(i)]
    BY <1>1, <2>1, <2>3, <2>4
  <2>6. \A i, j \in DOMAIN u : at(i) = at(j) => i = j
    BY <1>1, <2>1, <2>4
  <2>7. \A i, j \in DOMAIN u : i < j => at(i) < at(j)
    BY <1>1, <2>1, <2>4
  <2>8. ASSUME NEW i \in DOMAIN s, i # k PROVE \E j \in DOMAIN u : at(j) = i
    <3>1. CASE i < k
      BY <1>1, <2>1, <2>4, <2>8, <3>1
    <3>2. CASE i > k
      <4>1. i - 1 \in DOMAIN u /\ at(i - 1) = i
        BY <1>1, <2>1, <2>4, <2>8, <3>2
      <4> QED BY <4>1
    <3> QED BY <1>1, <2>1, <2>8, <3>1, <3>2
  <2> HIDE DEF at
  <2>9. Distinct(u)
    BY <2>5, <2>6 DEF Distinct
  <2>10. \A a, b : Precedes(u, a, b) => Precedes(s, a, b)
    BY <2>5, <2>7 DEF Precedes
  <2>11. ToSet(u) = ToSet(s) \ {e}
    <3>1. ASSUME NEW i \in DOMAIN u PROVE u[i] \in ToSet(s) \ {e}
      BY <2>1, <2>5 DEF ToSet, Distinct
    <3>2. ASSUME NEW i \in DOMAIN s, s[i] # e PROVE \E j \in DOMAIN u : u[j] = s[i]
      BY <2>1, <2>5, <2>8, <3>2
    <3> QED BY <3>1, <3>2 DEF ToSet
  <2> QED BY <2>2, <2>3, <2>9, <2>10, <2>11
<1> QED BY <1>2, <1>3

\* u is s with e inserted as its k-th element.
Inserted(u, s, k, e) ==
    /\ Len(u) = Len(s) + 1
    /\ \A i \in 1 .. Len(s) + 1 : u[i] = IF i < k THEN s[i] ELSE IF i = k THEN e ELSE s[i - 1]

\* InsertAt, index by index.
LEMMA InsertAtFacts ==
  ASSUME NEW S, NEW s \in Seq(S), NEW k \in 1 .. Len(s) + 1, NEW e \in S,
         NEW u, u = InsertAt(s, k, e)
  PROVE  u \in Seq(S) /\ Inserted(u, s, k, e)
<1> DEFINE x == SubSeq(s, 1, k - 1)
           y == SubSeq(s, k, Len(s))
           w == <<e>>
<1>1. /\ s \in [1 .. Len(s) -> S] /\ DOMAIN s = 1 .. Len(s) /\ Len(s) \in Nat
      /\ k \in Nat \ {0} /\ k <= Len(s) + 1
  BY LenProperties
<1>2. x \in Seq(S) /\ Len(x) = k - 1 /\ \A i \in 1 .. k - 1 : x[i] = s[i]
  <2>1. \A i \in 1 .. k - 1 : s[i] \in S
    BY <1>1
  <2> QED BY <1>1, <2>1, SubSeqProperties
<1>3. y \in Seq(S) /\ Len(y) = Len(s) + 1 - k /\ \A i \in 1 .. Len(s) + 1 - k : y[i] = s[k + i - 1]
  <2>1. \A i \in k .. Len(s) : s[i] \in S
    BY <1>1
  <2>2. /\ y \in Seq(S) /\ Len(y) = IF k <= Len(s) THEN Len(s) - k + 1 ELSE 0
        /\ \A i \in 1 .. Len(s) - k + 1 : y[i] = s[k + i - 1]
    BY <1>1, <2>1, SubSeqProperties
  <2>3. Len(s) - k + 1 = Len(s) + 1 - k
    BY <1>1
  <2> QED BY <1>1, <2>2, <2>3
<1>4. w \in Seq(S) /\ Len(w) = 1 /\ w[1] = e
  OBVIOUS
<1>5. u = (x \o w) \o y
  BY DEF InsertAt
<1> HIDE DEF x, y, w
<1>6. x \o w \in Seq(S) /\ Len(x \o w) = k /\ \A i \in 1 .. k : (x \o w)[i] = IF i < k THEN s[i] ELSE e
  <2>1. /\ x \o w \in Seq(S) /\ Len(x \o w) = Len(x) + Len(w)
        /\ \A i \in 1 .. Len(x) + Len(w) : (x \o w)[i] = IF i <= Len(x) THEN x[i] ELSE w[i - Len(x)]
    BY <1>2, <1>4, ConcatProperties
  <2>2. \A i \in 1 .. k : (x \o w)[i] = IF i <= k - 1 THEN x[i] ELSE w[i - (k - 1)]
    BY <1>1, <1>2, <1>4, <2>1
  <2>3. ASSUME NEW i \in 1 .. k, i < k PROVE (x \o w)[i] = s[i]
    BY <1>1, <1>2, <2>2, <2>3
  <2>4. ASSUME NEW i \in 1 .. k, ~(i < k) PROVE (x \o w)[i] = e
    <3>1. i = k /\ i - (k - 1) = 1 /\ ~(i <= k - 1)
      BY <1>1, <2>4
    <3> QED BY <1>4, <2>2, <3>1
  <2> QED BY <1>1, <1>2, <1>4, <2>1, <2>3, <2>4
<1> DEFINE v == x \o w
<1>7. v \in Seq(S) /\ Len(v) = k /\ \A i \in 1 .. k : v[i] = IF i < k THEN s[i] ELSE e
  BY <1>6
<1> HIDE DEF v
<1>8. /\ v \o y \in Seq(S) /\ Len(v \o y) = Len(v) + Len(y)
      /\ \A i \in 1 .. Len(v) + Len(y) : (v \o y)[i] = IF i <= Len(v) THEN v[i] ELSE y[i - Len(v)]
  BY <1>3, <1>7, ConcatProperties
<1>9. Len(v) + Len(y) = Len(s) + 1
  BY <1>1, <1>3, <1>7
<1>10. ASSUME NEW i \in 1 .. Len(s) + 1
       PROVE  (v \o y)[i] = IF i < k THEN s[i] ELSE IF i = k THEN e ELSE s[i - 1]
  <2>1. CASE i <= k
    BY <1>1, <1>7, <1>8, <1>9, <2>1
  <2>2. CASE ~(i <= k)
    <3>1. i - k \in 1 .. Len(s) + 1 - k /\ k + (i - k) - 1 = i - 1 /\ ~(i < k) /\ i # k
      BY <1>1, <2>2
    <3>2. y[i - k] = s[i - 1]
      BY <1>3, <3>1
    <3>3. (v \o y)[i] = y[i - k]
      BY <1>7, <1>8, <1>9, <2>2
    <3> QED BY <3>1, <3>2, <3>3
  <2> QED BY <2>1, <2>2
<1> QED BY <1>5, <1>8, <1>9, <1>10 DEF v, Inserted

\* aws_linked_list_insert_before.
LEMMA InsertList ==
  ASSUME NEW S, NEW s \in Seq(S), Distinct(s), NEW k \in 1 .. Len(s) + 1, NEW e \in S, e \notin ToSet(s)
  PROVE  /\ InsertAt(s, k, e) \in Seq(S)
         /\ Distinct(InsertAt(s, k, e))
         /\ ToSet(InsertAt(s, k, e)) = ToSet(s) \cup {e}
         /\ \A a, b : Precedes(InsertAt(s, k, e), a, b) =>
                \/ Precedes(s, a, b)
                \/ b = e /\ \E i \in DOMAIN s : i < k /\ s[i] = a
                \/ a = e /\ \E i \in DOMAIN s : i >= k /\ s[i] = b
<1> DEFINE u == InsertAt(s, k, e)
<1>0. u = InsertAt(s, k, e)
  OBVIOUS
<1> HIDE DEF u
<1>1. DOMAIN s = 1 .. Len(s) /\ Len(s) \in Nat /\ k \in Nat
  BY LenProperties
<1>2. /\ u \in Seq(S) /\ Len(u) = Len(s) + 1
      /\ \A i \in 1 .. Len(s) + 1 : u[i] = IF i < k THEN s[i] ELSE IF i = k THEN e ELSE s[i - 1]
  <2>1. u \in Seq(S) /\ Inserted(u, s, k, e)
    BY <1>0, InsertAtFacts
  <2> QED BY <2>1 DEF Inserted
<1>3. DOMAIN u = 1 .. Len(s) + 1
  BY <1>2, LenProperties
<1> DEFINE at(i) == IF i < k THEN i ELSE i - 1
<1>4. k \in DOMAIN u /\ u[k] = e
  BY <1>1, <1>2, <1>3
<1>5. \A i \in DOMAIN u : i # k => at(i) \in DOMAIN s /\ u[i] = s[at(i)]
  BY <1>1, <1>2, <1>3
<1>6. \A i, j \in DOMAIN u : i # k /\ j # k /\ at(i) = at(j) => i = j
  BY <1>1, <1>3
<1>7. \A i, j \in DOMAIN u : i # k /\ j # k /\ i < j => at(i) < at(j)
  BY <1>1, <1>3
<1>8. \A i \in DOMAIN u : /\ i < k => at(i) < k
                          /\ k < i => at(i) >= k
  BY <1>1, <1>3
<1>9. ASSUME NEW i \in DOMAIN s PROVE \E j \in DOMAIN u : j # k /\ at(j) = i
  <2>1. CASE i < k
    BY <1>1, <1>3, <2>1
  <2>2. CASE i >= k
    <3>1. i + 1 \in DOMAIN u /\ i + 1 # k /\ at(i + 1) = i
      BY <1>1, <1>3, <2>2
    <3> QED BY <3>1
  <2> QED BY <1>1, <2>1, <2>2
<1>10. \A i \in DOMAIN u : i # k => at(i) \in DOMAIN s /\ i \in Nat /\ k \in Nat
  BY <1>1, <1>3, <1>5
<1> HIDE DEF at
<1>11. \A i \in DOMAIN u : i # k => u[i] # e
  BY <1>5 DEF ToSet
<1>12. Distinct(u)
  BY <1>4, <1>5, <1>6, <1>11 DEF Distinct
<1>13. ToSet(u) = ToSet(s) \cup {e}
  <2>1. ASSUME NEW i \in DOMAIN u PROVE u[i] \in ToSet(s) \cup {e}
    BY <1>4, <1>5 DEF ToSet
  <2>2. ASSUME NEW i \in DOMAIN s PROVE \E j \in DOMAIN u : u[j] = s[i]
    BY <1>5, <1>9
  <2> QED BY <1>4, <2>1, <2>2 DEF ToSet
<1>14. ASSUME NEW a, NEW b, Precedes(u, a, b)
       PROVE  \/ Precedes(s, a, b)
              \/ b = e /\ \E i \in DOMAIN s : i < k /\ s[i] = a
              \/ a = e /\ \E i \in DOMAIN s : i >= k /\ s[i] = b
  <2>1. PICK i, j \in DOMAIN u : i < j /\ u[i] = a /\ u[j] = b
    BY <1>14 DEF Precedes
  <2>2. CASE i = k
    BY <1>1, <1>3, <1>4, <1>5, <1>8, <2>1, <2>2
  <2>3. CASE j = k
    BY <1>1, <1>3, <1>4, <1>5, <1>8, <2>1, <2>3
  <2>4. CASE i # k /\ j # k
    BY <1>5, <1>7, <2>1, <2>4 DEF Precedes
  <2> QED BY <2>2, <2>3, <2>4
<1> QED BY <1>2, <1>12, <1>13, <1>14 DEF u

\* A list that holds nodes once holds e once or not at all.
LEMMA OccursOnce ==
  ASSUME NEW S, NEW s \in Seq(S), Distinct(s), NEW e
  PROVE  Cardinality({i \in DOMAIN s : s[i] = e}) = IF e \in ToSet(s) THEN 1 ELSE 0
<1>1. CASE e \in ToSet(s)
  <2>1. PICK k \in DOMAIN s : s[k] = e
    BY <1>1 DEF ToSet
  <2>2. {i \in DOMAIN s : s[i] = e} = {k}
    BY <2>1 DEF Distinct
  <2> QED BY <1>1, <2>2, FS_Singleton
<1>2. CASE e \notin ToSet(s)
  <2>1. {i \in DOMAIN s : s[i] = e} = {}
    BY <1>2 DEF ToSet
  <2> QED BY <1>2, <2>1, FS_EmptySet
<1> QED BY <1>1, <1>2

\* What two lists contain.
LEMMA ConcatList ==
  ASSUME NEW S, NEW s \in Seq(S), NEW u \in Seq(S), NEW e
  PROVE  Contains(s \o u, e) <=> e \in ToSet(s) \cup ToSet(u)
<1>1. /\ DOMAIN s = 1 .. Len(s) /\ Len(s) \in Nat /\ DOMAIN u = 1 .. Len(u) /\ Len(u) \in Nat
      /\ Len(s \o u) = Len(s) + Len(u)
      /\ \A i \in 1 .. Len(s) + Len(u) : (s \o u)[i] = IF i <= Len(s) THEN s[i] ELSE u[i - Len(s)]
  BY LenProperties, ConcatProperties
<1>2. ASSUME Contains(s \o u, e) PROVE e \in ToSet(s) \cup ToSet(u)
  <2>1. PICK i \in 1 .. Len(s) + Len(u) : (s \o u)[i] = e
    BY <1>1, <1>2 DEF Contains
  <2>2. CASE i <= Len(s)
    BY <1>1, <2>1, <2>2 DEF ToSet
  <2>3. CASE ~(i <= Len(s))
    <3>1. i - Len(s) \in DOMAIN u /\ u[i - Len(s)] = e
      BY <1>1, <2>1, <2>3
    <3> QED BY <3>1 DEF ToSet
  <2> QED BY <2>2, <2>3
<1>3. ASSUME e \in ToSet(s) PROVE Contains(s \o u, e)
  <2>1. PICK i \in DOMAIN s : s[i] = e
    BY <1>3 DEF ToSet
  <2>2. i \in 1 .. Len(s) + Len(u) /\ (s \o u)[i] = e
    BY <1>1, <2>1
  <2> QED BY <1>1, <2>2 DEF Contains
<1>4. ASSUME e \in ToSet(u) PROVE Contains(s \o u, e)
  <2>1. PICK i \in DOMAIN u : u[i] = e
    BY <1>4 DEF ToSet
  <2>2. i + Len(s) \in 1 .. Len(s) + Len(u) /\ ~(i + Len(s) <= Len(s)) /\ (i + Len(s)) - Len(s) = i
    BY <1>1
  <2>3. (s \o u)[i + Len(s)] = e
    BY <1>1, <2>1, <2>2
  <2> QED BY <1>1, <2>2, <2>3 DEF Contains
<1> QED BY <1>2, <1>3, <1>4
=============================================================================
