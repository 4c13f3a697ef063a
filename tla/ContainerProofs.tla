-------------------------- MODULE ContainerProofs --------------------------
(***************************************************************************)
(* The containers, for every set of items and every size: the heap of      *)
(* priority_queue.c is a heap, its handles are exact, and it implements    *)
(* PriorityQueueSpec; array lists, linked lists and byte buffers are the   *)
(* sequences their users build.                                            *)
(***************************************************************************)
EXTENDS PriorityQueue, ArrayList, LinkedList, ByteBuf, ListLemmas

USE DEF Pushing, Sifting

----------------------------------------------------------------------------
(* Arithmetic of the implicit tree                                         *)

\* The parent of a positive index is a smaller index, and the index is its left
\* or its right child (PARENT_OF, LEFT_OF, RIGHT_OF).
LEMMA ParentFacts ==
  ASSUME NEW i \in Nat, i > 0
  PROVE  /\ PARENT_OF(i) \in Nat
         /\ PARENT_OF(i) < i
         /\ i = LEFT_OF(PARENT_OF(i)) \/ i = RIGHT_OF(PARENT_OF(i))
BY DEF PARENT_OF, LEFT_OF, RIGHT_OF

\* The two children of an index have that index as their parent.
LEMMA ChildFacts ==
  ASSUME NEW i \in Nat
  PROVE  /\ LEFT_OF(i) \in Nat /\ RIGHT_OF(i) \in Nat
         /\ LEFT_OF(i) > i /\ RIGHT_OF(i) > i
         /\ RIGHT_OF(i) = LEFT_OF(i) + 1
         /\ PARENT_OF(LEFT_OF(i)) = i
         /\ PARENT_OF(RIGHT_OF(i)) = i
BY DEF PARENT_OF, LEFT_OF, RIGHT_OF

\* The parent of a slot in use is a slot in use.
LEMMA ParentIndex ==
  ASSUME NEW i \in Index, i > 0
  PROVE  PARENT_OF(i) \in Index /\ PARENT_OF(i) < i
BY ParentFacts, PQAssumption DEF Index

----------------------------------------------------------------------------
(* Type correctness                                                        *)

\* Exchanging two slots of an array gives an array with just those slots changed.
LEMMA ExchangeFacts ==
  ASSUME NEW S, NEW f \in [Index -> S], NEW a \in Index, NEW b \in Index
  PROVE  /\ Exchange(f, a, b) \in [Index -> S]
         /\ \A i \in Index : Exchange(f, a, b)[i] =
              IF i = a THEN f[b] ELSE IF i = b THEN f[a] ELSE f[i]
BY DEF Exchange

\* Storing the new indices of two nodes keeps current_index a function to indices.
LEMMA ReindexedType ==
  ASSUME NEW ci \in [Item -> Nat], NEW bp \in [Index -> Item \cup {NoItem}],
         NEW a \in Index, NEW b \in Index
  PROVE  Reindexed(ci, bp, a, b) \in [Item -> Nat]
BY PQAssumption DEF Reindexed, Index

\* s_swap keeps the types.
LEMMA SwapType ==
  ASSUME TypeOK, NEW a \in Index, NEW b \in Index, s_swap(a, b)
  PROVE  /\ container' \in [Index -> Item \cup {NoItem}]
         /\ backpointers' \in [Index -> Item \cup {NoItem}]
         /\ current_index' \in [Item -> Nat]
<1>1. container' \in [Index -> Item \cup {NoItem}] /\ backpointers' \in [Index -> Item \cup {NoItem}]
  BY ExchangeFacts DEF TypeOK, s_swap
<1>2. current_index' \in [Item -> Nat]
  BY ExchangeFacts, ReindexedType, <1>1 DEF TypeOK, s_swap
<1> QED BY <1>1, <1>2

\* s_remove_node keeps the types.
LEMMA RemoveType ==
  ASSUME TypeOK, NEW i \in Index, i < size, s_remove_node(i)
  PROVE  TypeOK'
<1> DEFINE last == size - 1
           bp == Exchange(backpointers, i, last)
           c == Exchange(container, i, last)
           ci == Reindexed(current_index, bp, i, last)
<1>1. last \in Index /\ last \in 0 .. MaxSize /\ size > 0
  BY PQAssumption DEF TypeOK, Index
<1>2. /\ bp \in [Index -> Item \cup {NoItem}]
      /\ c \in [Index -> Item \cup {NoItem}]
  BY ExchangeFacts, <1>1 DEF TypeOK
<1>3. ci \in [Item -> Nat]
  BY <1>1, <1>2, ReindexedType DEF TypeOK
<1> HIDE DEF last, bp, c, ci
<1>4. /\ container' = [c EXCEPT ![last] = NoItem]
      /\ size' = last
      /\ backpointers' = [bp EXCEPT ![last] = NoItem]
      /\ current_index' = IF BackpointersExist
                          THEN [x \in Item |-> IF bp[last] = x THEN SIZE_MAX ELSE ci[x]]
                          ELSE current_index
      /\ IF i = last THEN LoopEnds
                     ELSE pc' = (IF i = 0 THEN "down" ELSE "either") /\ cur' = i
      /\ out' = container[i]
      /\ UNCHANGED <<mode, issued>>
  BY DEF s_remove_node, last, bp, c, ci
<1>5. current_index' \in [Item -> Nat]
  BY <1>3, <1>4, PQAssumption DEF TypeOK
<1>6. container' \in [Index -> Item \cup {NoItem}] /\ backpointers' \in [Index -> Item \cup {NoItem}]
  BY <1>2, <1>4
<1>7. /\ cur' \in Index /\ pc' \in {"idle", "cleaned"} \cup Pushing \cup Sifting
      /\ pc' \in Pushing \cup Sifting => cur' < size'
      /\ pc' \notin Pushing
  <2>1. CASE i = last
    BY <2>1, <1>1, <1>4, PQAssumption DEF LoopEnds, Index
  <2>2. CASE i # last
    BY <2>2, <1>1, <1>4, PQAssumption DEF Index, last, TypeOK
  <2> QED BY <2>1, <2>2
<1>8. size' \in 0 .. MaxSize /\ out' \in Item \cup {NoItem, Error}
  BY <1>1, <1>4 DEF TypeOK
<1> QED
  BY <1>4, <1>5, <1>6, <1>7, <1>8 DEF TypeOK

\* The index s_sift_down goes on with is a slot in use: the loop stays in the array.
LEMMA FirstOfIndex ==
  ASSUME TypeOK, pc = "down", LEFT_OF(cur) < size
  PROVE  /\ FirstOf(cur) \in Index /\ FirstOf(cur) < size
         /\ FirstOf(cur) \in {cur, LEFT_OF(cur), RIGHT_OF(cur)}
         /\ FirstOf(cur) = RIGHT_OF(cur) => RIGHT_OF(cur) < size
<1>1. cur \in Nat /\ cur < size /\ size \in Nat /\ size <= MaxSize /\ cur \in Index
  BY PQAssumption DEF TypeOK, Index
<1>2. LEFT_OF(cur) \in Nat /\ RIGHT_OF(cur) \in Nat /\ LEFT_OF(cur) # RIGHT_OF(cur)
      /\ LEFT_OF(cur) > cur /\ RIGHT_OF(cur) > cur
  BY <1>1, ChildFacts
<1>3. \/ FirstOf(cur) = cur
      \/ FirstOf(cur) = LEFT_OF(cur)
      \/ FirstOf(cur) = RIGHT_OF(cur) /\ RIGHT_OF(cur) < size
  BY DEF FirstOf
<1> QED BY <1>1, <1>2, <1>3, PQAssumption DEF Index

\* Every step keeps the types: no loop of the heap leaves the array.
LEMMA TypeStep == TypeOK /\ [Next]_vars => TypeOK'
<1> SUFFICES ASSUME TypeOK, [Next]_vars PROVE TypeOK'
  OBVIOUS
<1> USE PQAssumption
<1>0. 0 \in Index BY DEF Index
<1>1. ASSUME NEW x \in Item, NEW ref \in BOOLEAN, aws_priority_queue_push_ref(x, ref)
      PROVE  TypeOK'
  <2>1. CASE \E error : Refused(error)
    BY <2>1 DEF Refused, TypeOK
  <2>2. CASE /\ size < MaxSize /\ container' = [container EXCEPT ![size] = x]
             /\ size' = size + 1 /\ pc' = (IF ref THEN "push_ref" ELSE "push") /\ cur' = size
             /\ UNCHANGED <<mode, backpointers, current_index, issued, out>>
    <3>1. size \in Index BY <2>2 DEF TypeOK, Index
    <3>2. size' \in 0 .. MaxSize /\ cur' < size' /\ size \in Nat BY <2>2 DEF TypeOK
    <3>3. container' \in [Index -> Item \cup {NoItem}] BY <2>2 DEF TypeOK
    <3>4. container'[cur'] \in Item BY <2>2, <3>1 DEF TypeOK
    <3> QED BY <2>2, <3>1, <3>2, <3>3, <3>4 DEF TypeOK
  <2> QED BY <1>1, <2>1, <2>2 DEF aws_priority_queue_push_ref
<1>8. CASE backpointer_update
  <2>1. cur \in Index /\ cur \in Nat BY DEF TypeOK, Index
  <2>2. current_index' \in [Item -> Nat] BY <1>8, <2>1 DEF backpointer_update, TypeOK
  <2>3. backpointers' \in [Index -> Item \cup {NoItem}] BY <1>8 DEF backpointer_update, TypeOK
  <2>4. issued' \in SUBSET Item
    <3>1. container[cur] \in Item BY <1>8, <2>1 DEF backpointer_update, TypeOK
    <3> QED BY <1>8, <3>1 DEF backpointer_update, TypeOK
  <2> QED BY <1>8, <2>2, <2>3, <2>4 DEF backpointer_update, TypeOK
<1>9. CASE backpointer_update_failed
  <2>1. size' \in 0 .. MaxSize BY <1>9 DEF backpointer_update_failed, TypeOK, Index
  <2>2. container' \in [Index -> Item \cup {NoItem}] BY <1>9 DEF backpointer_update_failed, TypeOK
  <2> QED BY <1>0, <1>9, <2>1, <2>2 DEF backpointer_update_failed, TypeOK
<1>2. CASE aws_priority_queue_pop
  <2>1. CASE size = 0
    BY <1>2, <2>1 DEF aws_priority_queue_pop, Refused, TypeOK
  <2>2. CASE size # 0
    <3>1. 0 < size BY <2>2 DEF TypeOK
    <3>2. s_remove_node(0) BY <1>2, <2>2 DEF aws_priority_queue_pop
    <3> QED BY <1>0, <3>1, <3>2, RemoveType
  <2> QED BY <2>1, <2>2
<1>3. ASSUME NEW x \in Item, aws_priority_queue_remove(x)
      PROVE  TypeOK'
  <2>1. CASE current_index[x] < size /\ BackpointersExist
    <3>1. current_index[x] \in Index BY <2>1 DEF TypeOK, Index
    <3> QED BY <1>3, <2>1, <3>1, RemoveType DEF aws_priority_queue_remove
  <2>2. CASE ~(current_index[x] < size /\ BackpointersExist)
    BY <1>3, <2>2 DEF aws_priority_queue_remove, Refused, TypeOK
  <2> QED BY <2>1, <2>2
<1>4. CASE aws_priority_queue_clean_up
  BY <1>4 DEF aws_priority_queue_clean_up, TypeOK
<1>5. CASE s_sift_up
  <2>1. CASE cur > 0 /\ After(PARENT_OF(cur), cur)
    <3>1. PARENT_OF(cur) \in Index /\ PARENT_OF(cur) < cur
      BY <2>1, ParentIndex DEF TypeOK
    <3>2. s_swap(cur, PARENT_OF(cur)) /\ cur' = PARENT_OF(cur) BY <1>5, <2>1 DEF s_sift_up
    <3>3. cur' < size' BY <1>5, <3>1, <3>2 DEF s_sift_up, TypeOK, Index
    <3>4. cur \in Index BY DEF TypeOK
    <3>5. /\ container' \in [Index -> Item \cup {NoItem}]
          /\ backpointers' \in [Index -> Item \cup {NoItem}]
          /\ current_index' \in [Item -> Nat]
      BY <3>1, <3>2, <3>4, SwapType
    <3> QED BY <1>5, <2>1, <3>1, <3>2, <3>3, <3>5 DEF s_sift_up, TypeOK
  <2>2. CASE ~(cur > 0 /\ After(PARENT_OF(cur), cur))
    BY <1>0, <1>5, <2>2 DEF s_sift_up, LoopEnds, TypeOK
  <2> QED BY <2>1, <2>2
<1>6. CASE s_sift_down
  <2>1. CASE LEFT_OF(cur) < size /\ FirstOf(cur) # cur
    <3>1. FirstOf(cur) \in Index /\ FirstOf(cur) < size
      BY <1>6, <2>1, FirstOfIndex DEF s_sift_down
    <3>2. s_swap(FirstOf(cur), cur) /\ cur' = FirstOf(cur) BY <1>6, <2>1 DEF s_sift_down
    <3>4. cur \in Index BY DEF TypeOK
    <3>5. /\ container' \in [Index -> Item \cup {NoItem}]
          /\ backpointers' \in [Index -> Item \cup {NoItem}]
          /\ current_index' \in [Item -> Nat]
      BY <3>1, <3>2, <3>4, SwapType
    <3> QED BY <1>6, <2>1, <3>1, <3>2, <3>5 DEF s_sift_down, TypeOK
  <2>2. CASE ~(LEFT_OF(cur) < size /\ FirstOf(cur) # cur)
    BY <1>0, <1>6, <2>2 DEF s_sift_down, LoopEnds, TypeOK
  <2> QED BY <2>1, <2>2
<1>7. CASE UNCHANGED vars
  BY <1>7 DEF vars, TypeOK
<1> QED
  BY <1>1, <1>2, <1>3, <1>4, <1>5, <1>6, <1>7, <1>8, <1>9 DEF Next

\* Every reachable state of the queue is well typed; in particular the sift loops
\* and the indices stored in the nodes stay inside the array (priority_queue.c).
THEOREM TypeCorrect == Spec => []TypeOK
<1>1. Init => TypeOK
  BY PQAssumption DEF Init, TypeOK, Index
<1> QED
  BY <1>1, TypeStep, PTL DEF Spec

----------------------------------------------------------------------------
(* Slots and backpointers                                                  *)

\* s_swap moves items and backpointers together.
LEMMA SwapSlots ==
  ASSUME TypeOK, SlotsInv, BackpointerInv, UNCHANGED <<size, issued>>,
         NEW a \in Index, NEW b \in Index, a < size, b < size, s_swap(a, b)
  PROVE  SlotsInv' /\ BackpointerInv'
<1> USE PQAssumption
<1> DEFINE bp == Exchange(backpointers, a, b)
<1>1. \A i \in Index : container'[i] =
        IF i = a THEN container[b] ELSE IF i = b THEN container[a] ELSE container[i]
  <2>1. container \in [Index -> Item \cup {NoItem}] /\ container' = Exchange(container, a, b)
    BY DEF TypeOK, s_swap
  <2> QED BY <2>1 DEF Exchange
<1>2. /\ \A i \in Index : bp[i] =
           IF i = a THEN backpointers[b] ELSE IF i = b THEN backpointers[a] ELSE backpointers[i]
      /\ backpointers' = bp
  <2>1. backpointers \in [Index -> Item \cup {NoItem}] /\ backpointers' = bp
    BY DEF TypeOK, s_swap
  <2> QED BY <2>1 DEF Exchange
<1>3. SlotsInv'
  BY <1>1 DEF SlotsInv
<1>4. CASE issued = {}
  <2>1. \A i \in Index : backpointers'[i] = NoItem
    BY <1>2, <1>4 DEF BackpointerInv
  <2> QED BY <1>3, <1>4, <2>1 DEF BackpointerInv, HandlesExact
<1>5. CASE issued # {}
  <2>1. \A x \in Item : current_index'[x] =
          IF bp[b] = x THEN b ELSE IF bp[a] = x THEN a ELSE current_index[x]
    BY <1>5 DEF s_swap, Reindexed, BackpointersExist
  <2> HIDE DEF bp
  <2>2. ASSUME NEW i \in Index, backpointers'[i] # NoItem
        PROVE  /\ i < size' /\ backpointers'[i] = container'[i]
               /\ backpointers'[i] \in issued' /\ current_index'[backpointers'[i]] = i
    BY <1>1, <1>2, <2>1, <2>2 DEF BackpointerInv, SlotsInv, TypeOK
  <2>3. ASSUME NEW x \in issued'
        PROVE  \/ current_index'[x] = SIZE_MAX
               \/ /\ current_index'[x] < size'
                  /\ container'[current_index'[x]] = x
                  /\ backpointers'[current_index'[x]] = x
    <3>1. x \in Item /\ x # NoItem BY <2>3 DEF TypeOK
    <3>2. CASE current_index[x] = SIZE_MAX
      <4>1. \A i \in Index : backpointers[i] # x
        BY <3>1, <3>2 DEF BackpointerInv, TypeOK, Index
      <4>2. bp[a] # x /\ bp[b] # x BY <1>2, <4>1
      <4> QED BY <2>1, <3>1, <3>2, <4>2
    <3>3. CASE current_index[x] < size /\ container[current_index[x]] = x
               /\ backpointers[current_index[x]] = x
      <4>1. current_index[x] \in Index BY <3>1, <3>3 DEF TypeOK, Index
      <4> QED BY <1>1, <1>2, <2>1, <3>1, <3>3, <4>1 DEF BackpointerInv, SlotsInv
    <3> QED BY <2>3, <3>2, <3>3 DEF BackpointerInv, HandlesExact
  <2> QED BY <1>3, <2>2, <2>3 DEF BackpointerInv, HandlesExact
<1> QED BY <1>4, <1>5

\* What s_remove_node does to each slot and each node.
LEMMA RemovePointwise ==
  ASSUME TypeOK, NEW i \in Index, i < size, s_remove_node(i)
  PROVE  /\ size' = size - 1 /\ size - 1 \in Index /\ issued' = issued
         /\ \A j \in Index : container'[j] =
              IF j = size - 1 THEN NoItem ELSE IF j = i THEN container[size - 1] ELSE container[j]
         /\ \A j \in Index : backpointers'[j] =
              IF j = size - 1 THEN NoItem ELSE IF j = i THEN backpointers[size - 1] ELSE backpointers[j]
         /\ issued # {} =>
              \A x \in Item : current_index'[x] =
                IF backpointers[i] = x THEN SIZE_MAX
                ELSE IF backpointers[size - 1] = x THEN i ELSE current_index[x]
<1> USE PQAssumption
<1> DEFINE last == size - 1
           bp == Exchange(backpointers, i, last)
           c == Exchange(container, i, last)
<1>1. last \in Index
  BY DEF TypeOK, Index
<1>2. /\ bp \in [Index -> Item \cup {NoItem}]
      /\ c \in [Index -> Item \cup {NoItem}]
      /\ \A j \in Index : bp[j] =
           IF j = i THEN backpointers[last] ELSE IF j = last THEN backpointers[i] ELSE backpointers[j]
      /\ \A j \in Index : c[j] =
           IF j = i THEN container[last] ELSE IF j = last THEN container[i] ELSE container[j]
  <2>1. /\ backpointers \in [Index -> Item \cup {NoItem}]
        /\ container \in [Index -> Item \cup {NoItem}]
    BY DEF TypeOK
  <2> HIDE DEF last
  <2> QED BY <1>1, <2>1 DEF Exchange, bp, c
<1>3. /\ container' = [c EXCEPT ![last] = NoItem]
      /\ size' = last
      /\ backpointers' = [bp EXCEPT ![last] = NoItem]
      /\ issued' = issued
  BY DEF s_remove_node
<1>4. issued # {} =>
        current_index' = [x \in Item |-> IF bp[last] = x THEN SIZE_MAX
                                         ELSE IF bp[last] = x THEN last
                                         ELSE IF bp[i] = x THEN i ELSE current_index[x]]
  BY DEF s_remove_node, Reindexed, BackpointersExist
<1> HIDE DEF bp, c, last
<1>5. /\ \A j \in Index : container'[j] =
           IF j = last THEN NoItem ELSE IF j = i THEN container[last] ELSE container[j]
      /\ \A j \in Index : backpointers'[j] =
           IF j = last THEN NoItem ELSE IF j = i THEN backpointers[last] ELSE backpointers[j]
  BY <1>1, <1>2, <1>3
<1>6. bp[last] = backpointers[i] /\ bp[i] = backpointers[last]
  BY <1>1, <1>2
<1>7. issued # {} =>
         \A x \in Item : current_index'[x] =
            IF backpointers[i] = x THEN SIZE_MAX
            ELSE IF backpointers[last] = x THEN i ELSE current_index[x]
  BY <1>4, <1>6
<1> QED
  BY <1>1, <1>3, <1>5, <1>7 DEF last

\* s_remove_node removes exactly one item, and the handles stay exact.
LEMMA RemoveSlots ==
  ASSUME TypeOK, SlotsInv, BackpointerInv,
         NEW i \in Index, i < size, s_remove_node(i)
  PROVE  SlotsInv' /\ BackpointerInv'
<1> USE PQAssumption
<1> size \in Nat BY DEF TypeOK
<1>1. /\ size' = size - 1 /\ size - 1 \in Index /\ issued' = issued
      /\ \A j \in Index : container'[j] =
            IF j = size - 1 THEN NoItem ELSE IF j = i THEN container[size - 1] ELSE container[j]
      /\ \A j \in Index : backpointers'[j] =
            IF j = size - 1 THEN NoItem ELSE IF j = i THEN backpointers[size - 1] ELSE backpointers[j]
  BY RemovePointwise
<1>2. SlotsInv'
  BY <1>1, SMTT(30) DEF SlotsInv, TypeOK, Index
<1>3. CASE issued = {}
  <2>1. \A j \in Index : backpointers'[j] = NoItem
    BY <1>1, <1>3 DEF BackpointerInv
  <2> QED BY <1>1, <1>2, <1>3, <2>1 DEF BackpointerInv, HandlesExact
<1>4. CASE issued # {}
  <2>1. \A x \in Item : current_index'[x] =
             IF backpointers[i] = x THEN SIZE_MAX
             ELSE IF backpointers[size - 1] = x THEN i ELSE current_index[x]
    BY <1>4, RemovePointwise
  <2>2. ASSUME NEW j \in Index, backpointers'[j] # NoItem
        PROVE  /\ j < size' /\ backpointers'[j] = container'[j]
               /\ backpointers'[j] \in issued' /\ current_index'[backpointers'[j]] = j
    <3>1. j # size - 1 BY <1>1, <2>2
    <3>2. CASE j = i
      <4>1. backpointers'[j] = backpointers[size - 1] /\ container'[j] = container[size - 1]
        BY <1>1, <3>1, <3>2
      <4>2. /\ backpointers[size - 1] = container[size - 1] /\ backpointers[size - 1] \in issued
            /\ backpointers[size - 1] \in Item /\ current_index[backpointers[size - 1]] = size - 1
        BY <1>1, <2>2, <4>1 DEF BackpointerInv, TypeOK
      <4>3. backpointers[i] # backpointers[size - 1]
        BY <1>1, <3>1, <3>2, <4>2 DEF BackpointerInv
      <4> QED BY <1>1, <2>1, <3>1, <3>2, <4>1, <4>2, <4>3 DEF Index, TypeOK
    <3>3. CASE j # i
      <4>1. backpointers'[j] = backpointers[j] /\ container'[j] = container[j]
        BY <1>1, <3>1, <3>3
      <4>2. /\ j < size /\ backpointers[j] = container[j] /\ backpointers[j] \in issued
            /\ backpointers[j] \in Item /\ current_index[backpointers[j]] = j
        BY <2>2, <4>1 DEF BackpointerInv, TypeOK
      <4>3. backpointers[i] # backpointers[j] /\ backpointers[size - 1] # backpointers[j]
        BY <1>1, <3>1, <3>3, <4>2 DEF BackpointerInv
      <4> QED BY <1>1, <2>1, <3>1, <4>1, <4>2, <4>3 DEF Index, TypeOK
    <3> QED BY <3>2, <3>3
  <2>3. ASSUME NEW x \in issued'
        PROVE  \/ current_index'[x] = SIZE_MAX
               \/ /\ current_index'[x] < size'
                  /\ container'[current_index'[x]] = x
                  /\ backpointers'[current_index'[x]] = x
    <3>1. x \in Item /\ x # NoItem /\ x \in issued BY <1>1, <2>3 DEF TypeOK
    <3>2. CASE current_index[x] = SIZE_MAX
      <4>1. \A j \in Index : backpointers[j] # x
        BY <3>1, <3>2 DEF BackpointerInv, TypeOK, Index
      <4> QED BY <1>1, <2>1, <3>1, <3>2, <4>1
    <3>3. CASE current_index[x] < size /\ container[current_index[x]] = x
               /\ backpointers[current_index[x]] = x
      <4>1. current_index[x] \in Index BY <3>1, <3>3 DEF TypeOK, Index
      <4>2. CASE current_index[x] = i
        BY <2>1, <3>1, <3>3, <4>2
      <4>3. CASE current_index[x] # i /\ current_index[x] = size - 1
        <5>1. backpointers[i] # x
          BY <3>1, <4>3 DEF BackpointerInv
        <5>2. current_index'[x] = i BY <2>1, <3>1, <3>3, <4>3, <5>1
        <5>3. i < size' /\ i # size - 1
          BY <1>1, <4>3 DEF TypeOK, Index
        <5> QED BY <1>1, <3>3, <4>3, <5>2, <5>3
      <4>4. CASE current_index[x] # i /\ current_index[x] # size - 1
        <5>1. backpointers[i] # x /\ backpointers[size - 1] # x
          BY <1>1, <3>1, <4>4 DEF BackpointerInv
        <5>2. current_index'[x] = current_index[x] BY <2>1, <3>1, <5>1
        <5> QED BY <1>1, <3>3, <4>1, <4>4, <5>2 DEF Index
      <4> QED BY <4>2, <4>3, <4>4
    <3> QED BY <3>1, <3>2, <3>3 DEF BackpointerInv, HandlesExact
  <2> QED BY <1>2, <2>2, <2>3 DEF BackpointerInv, HandlesExact
<1> QED BY <1>3, <1>4

----------------------------------------------------------------------------
(* Heap order                                                              *)

\* The key in slot i, before and after a step.
K(i) == Prio[container[i]]
NewK(i) == Prio[container'[i]]

\* The keys of the slots in use are integers, and their parents are in use.
LEMMA KeyFacts ==
  ASSUME TypeOK, SlotsInv
  PROVE  /\ \A i \in Index : i < size => K(i) \in Int
         /\ \A i \in Index : i > 0 => PARENT_OF(i) \in Index /\ PARENT_OF(i) < i
         /\ Index \subseteq Nat /\ size \in Nat
         /\ cur \in Index
<1>1. \A i \in Index : i < size => container[i] \in Item
  BY DEF TypeOK, SlotsInv
<1>2. \A i \in Index : i < size => K(i) \in Int
  BY <1>1, PQAssumption DEF K, NewK
<1>3. \A i \in Index : i > 0 => PARENT_OF(i) \in Index /\ PARENT_OF(i) < i
  BY ParentIndex
<1> QED BY <1>2, <1>3 DEF TypeOK, Index

\* One iteration of s_sift_up that exchanges cur with its parent.
LEMMA SiftUpMove ==
  ASSUME TypeOK, TypeOK', HeapInv, SlotsInv', pc \in {"up", "either"},
         cur > 0, After(PARENT_OF(cur), cur), s_sift_up
  PROVE  SiftInv'
<1> DEFINE p == PARENT_OF(cur)
<1>1. p \in Index /\ p < cur /\ cur < size /\ p < size /\ cur \in Index /\ p # cur
  BY KeyFacts DEF HeapInv, TypeOK, Index
<1>2. pc' = "up" /\ cur' = p /\ size' = size /\ container' = Exchange(container, cur, p)
  BY DEF s_sift_up, s_swap
<1>3. \A i \in Index : NewK(i) = IF i = cur THEN K(p) ELSE IF i = p THEN K(cur) ELSE K(i)
  BY <1>1, <1>2 DEF K, NewK, Exchange, TypeOK
<1>4. /\ \A i \in Index : i < size => K(i) \in Int
      /\ \A i \in Index : i > 0 => PARENT_OF(i) \in Index /\ PARENT_OF(i) < i
      /\ Index \subseteq Nat /\ size \in Nat
  BY KeyFacts DEF HeapInv
<1>5. K(p) > K(cur)
  BY DEF After, K, NewK
<1>6. \A i \in Index : i > 0 /\ i < size /\ i # cur /\ PARENT_OF(i) # cur => ~(K(PARENT_OF(i)) > K(i))
  BY DEF HeapInv, SiftInv, Ordered, After, K, NewK
<1>7. \A i \in Index : i > 0 /\ i < size /\ PARENT_OF(i) = cur => ~(K(p) > K(i))
  BY DEF HeapInv, SiftInv, GrandparentOrdered, After, K, NewK
<1> HIDE DEF p
<1>8. ASSUME NEW i \in Index, i > 0, i < size, i # p
      PROVE  ~(NewK(PARENT_OF(i)) > NewK(i))
  <2>1. PARENT_OF(i) \in Index /\ PARENT_OF(i) < i BY <1>4, <1>8
  <2>2. CASE i = cur
    <3>1. PARENT_OF(i) = p BY <2>2 DEF p
    <3>2. NewK(p) = K(cur) /\ NewK(cur) = K(p) BY <1>1, <1>3
    <3>3. K(p) \in Int /\ K(cur) \in Int BY <1>1, <1>4
    <3> QED BY <1>5, <2>2, <3>1, <3>2, <3>3
  <2>3. CASE i # cur /\ PARENT_OF(i) = p
    <3>1. p # cur BY <1>1
    <3>2. ~(K(p) > K(i)) BY <1>6, <1>8, <2>3, <3>1
    <3>3. NewK(p) = K(cur) /\ NewK(i) = K(i) BY <1>1, <1>3, <1>8, <2>3
    <3> QED BY <1>1, <1>4, <1>5, <1>8, <2>3, <3>2, <3>3
  <2>4. CASE i # cur /\ PARENT_OF(i) = cur
    BY <1>1, <1>3, <1>7, <1>8, <2>4
  <2>5. CASE i # cur /\ PARENT_OF(i) # p /\ PARENT_OF(i) # cur
    BY <1>1, <1>3, <1>6, <1>8, <2>1, <2>5
  <2> QED BY <2>2, <2>3, <2>4, <2>5
<1>9. ASSUME NEW i \in Index, i > 0, i < size, PARENT_OF(i) = p, p > 0
      PROVE  ~(NewK(PARENT_OF(p)) > NewK(i))
  <2>1. PARENT_OF(p) \in Index /\ PARENT_OF(p) < p BY <1>1, <1>4, <1>9
  <2>2. PARENT_OF(p) # cur /\ PARENT_OF(p) # p BY <1>1, <1>4, <2>1
  <2>3. ~(K(PARENT_OF(p)) > K(p)) BY <1>1, <1>6, <1>9, <2>2
  <2>4. NewK(PARENT_OF(p)) = K(PARENT_OF(p)) BY <1>3, <2>1, <2>2
  <2>5. CASE i = cur
    BY <1>1, <1>3, <2>3, <2>4, <2>5
  <2>6. CASE i # cur
    <3>1. i # p /\ NewK(i) = K(i) BY <1>3, <1>4, <1>9, <2>6
    <3>2. ~(K(p) > K(i)) BY <1>1, <1>6, <1>9, <2>6
    <3>3. K(p) \in Int /\ K(i) \in Int /\ K(PARENT_OF(p)) \in Int
      BY <1>1, <1>4, <1>9, <2>1, PQAssumption DEF Index
    <3> QED BY <2>3, <2>4, <3>1, <3>2, <3>3
  <2> QED BY <2>5, <2>6
<1>10. cur' = p /\ size' = size /\ pc' = "up"
  BY <1>2
<1> QED
  BY <1>8, <1>9, <1>10 DEF SiftInv, HeapOrder, GrandparentOrdered, Ordered, After, K, NewK

\* An iteration of s_sift_up that stops, or hands over to s_sift_down.
LEMMA SiftUpStop ==
  ASSUME TypeOK, HeapInv, s_sift_up, ~(cur > 0 /\ After(PARENT_OF(cur), cur))
  PROVE  SiftInv'
<1>1. UNCHANGED <<container, size>>
  BY DEF s_sift_up
<1>2. CASE pc = "either"
  <2>1. pc' = "down" /\ cur' = cur BY <1>2 DEF s_sift_up
  <2> QED BY <1>1, <1>2, <2>1 DEF HeapInv, SiftInv, HeapOrder, GrandparentOrdered, Ordered, After
<1>3. CASE pc = "up"
  <2>1. pc' = "idle" BY <1>3 DEF s_sift_up, LoopEnds
  <2>2. \A i \in Index : 0 < i /\ i < size => Ordered(i)
    BY <1>3 DEF HeapInv, SiftInv, Ordered
  <2> QED BY <1>1, <2>1, <2>2 DEF SiftInv, HeapOrder, Ordered, After
<1> QED BY <1>2, <1>3 DEF s_sift_up

\* The slot s_sift_down selects holds the least key among cur and its children.
LEMMA FirstOfLeast ==
  ASSUME TypeOK, SlotsInv, pc = "down", LEFT_OF(cur) < size
  PROVE  /\ ~(K(FirstOf(cur)) > K(cur))
         /\ ~(K(FirstOf(cur)) > K(LEFT_OF(cur)))
         /\ RIGHT_OF(cur) < size => ~(K(FirstOf(cur)) > K(RIGHT_OF(cur)))
<1>1. cur \in Nat /\ cur \in Index /\ cur < size /\ size <= MaxSize /\ size \in Nat /\ MaxSize \in Nat
  BY PQAssumption DEF TypeOK, Index
<1>2. LEFT_OF(cur) \in Nat /\ RIGHT_OF(cur) \in Nat BY <1>1, ChildFacts
<1>3. LEFT_OF(cur) \in Index /\ (RIGHT_OF(cur) < size => RIGHT_OF(cur) \in Index)
  BY <1>1, <1>2 DEF Index
<1>4. K(cur) \in Int /\ K(LEFT_OF(cur)) \in Int /\ (RIGHT_OF(cur) < size => K(RIGHT_OF(cur)) \in Int)
  BY <1>1, <1>3, KeyFacts
<1> QED BY <1>4 DEF FirstOf, After, K, NewK

\* One iteration of s_sift_down that exchanges cur with a child.
LEMMA SiftDownMove ==
  ASSUME TypeOK, TypeOK', HeapInv, SlotsInv', s_sift_down,
         LEFT_OF(cur) < size, FirstOf(cur) # cur
  PROVE  SiftInv'
<1> DEFINE f == FirstOf(cur)
<1>1. /\ pc = "down" /\ pc' = "down" /\ cur' = f /\ size' = size
      /\ container' = Exchange(container, f, cur)
  BY DEF s_sift_down, s_swap
<1>2. /\ f \in Index /\ f < size /\ f \in {LEFT_OF(cur), RIGHT_OF(cur)} /\ cur \in Index
      /\ cur < size
  BY <1>1, FirstOfIndex DEF TypeOK
<1>3. /\ \A i \in Index : i < size => K(i) \in Int
      /\ \A i \in Index : i > 0 => PARENT_OF(i) \in Index /\ PARENT_OF(i) < i
      /\ Index \subseteq Nat /\ size \in Nat
  BY KeyFacts DEF HeapInv
<1>4. f > 0 /\ PARENT_OF(f) = cur /\ f > cur
  <2>1. cur \in Nat BY <1>2, <1>3
  <2> QED BY <1>2, <2>1, ChildFacts
<1>5. \A i \in Index : NewK(i) = IF i = f THEN K(cur) ELSE IF i = cur THEN K(f) ELSE K(i)
  <2> HIDE DEF f
  <2> QED BY <1>1, <1>2 DEF K, NewK, Exchange, TypeOK
<1>6. \A i \in Index : i > 0 /\ i < size /\ PARENT_OF(i) # cur => ~(K(PARENT_OF(i)) > K(i))
  BY <1>1 DEF HeapInv, SiftInv, Ordered, After, K, NewK
<1>7. \A i \in Index : i > 0 /\ i < size /\ cur > 0 /\ PARENT_OF(i) = cur => ~(K(PARENT_OF(cur)) > K(i))
  BY <1>1 DEF HeapInv, SiftInv, GrandparentOrdered, After, K, NewK
<1>8. ~(K(f) > K(cur)) /\ \A i \in Index : i > 0 /\ i < size /\ PARENT_OF(i) = cur => ~(K(f) > K(i))
  <2>1. SlotsInv BY DEF HeapInv
  <2>2. \A i \in Index : i > 0 /\ PARENT_OF(i) = cur => i = LEFT_OF(cur) \/ i = RIGHT_OF(cur)
    BY <1>3, ParentFacts
  <2> QED BY <1>1, <2>1, <2>2, FirstOfLeast
<1> HIDE DEF f
<1>9. ASSUME NEW i \in Index, i > 0, i < size, PARENT_OF(i) # f
      PROVE  ~(NewK(PARENT_OF(i)) > NewK(i))
  <2>1. PARENT_OF(i) \in Index /\ PARENT_OF(i) < i BY <1>3, <1>9
  <2>2. CASE PARENT_OF(i) = cur /\ i = f
    BY <1>2, <1>4, <1>5, <1>8, <2>2
  <2>3. CASE PARENT_OF(i) = cur /\ i # f
    <3>1. i # cur /\ cur # f BY <1>3, <1>4, <2>1, <2>3, PQAssumption DEF Index
    <3>2. NewK(i) = K(i) /\ NewK(cur) = K(f) BY <1>2, <1>5, <2>3, <3>1
    <3> QED BY <1>8, <1>9, <2>3, <3>2
  <2>4. CASE PARENT_OF(i) # cur /\ i = cur
    <3>1. NewK(i) = K(f) /\ NewK(PARENT_OF(i)) = K(PARENT_OF(i))
      BY <1>2, <1>4, <1>5, <1>9, <2>1, <2>4
    <3> QED BY <1>2, <1>4, <1>7, <1>9, <2>4, <3>1
  <2>5. CASE PARENT_OF(i) # cur /\ i # cur
    <3>1. i # f BY <1>4, <2>5
    <3>2. NewK(i) = K(i) /\ NewK(PARENT_OF(i)) = K(PARENT_OF(i)) BY <1>5, <1>9, <2>1, <2>5, <3>1
    <3> QED BY <1>6, <1>9, <2>5, <3>2
  <2> QED BY <2>2, <2>3, <2>4, <2>5
<1>10. ASSUME NEW i \in Index, i > 0, i < size, PARENT_OF(i) = f
       PROVE  ~(NewK(PARENT_OF(f)) > NewK(i))
  <2>1. f < i /\ i # cur /\ i # f BY <1>2, <1>3, <1>4, <1>10
  <2>2. NewK(i) = K(i) /\ NewK(cur) = K(f) BY <1>2, <1>4, <1>5, <2>1
  <2>3. f # cur BY <1>2, <1>4, PQAssumption DEF Index
  <2>4. ~(K(f) > K(i)) BY <1>6, <1>10, <2>3
  <2> QED BY <1>4, <2>2, <2>4
<1> QED
  BY <1>1, <1>9, <1>10 DEF SiftInv, HeapOrder, GrandparentOrdered, Ordered, After, K, NewK

\* The last iteration of s_sift_down leaves a heap.
LEMMA SiftDownStop ==
  ASSUME TypeOK, HeapInv, s_sift_down, ~(LEFT_OF(cur) < size /\ FirstOf(cur) # cur)
  PROVE  SiftInv'
<1>1. UNCHANGED <<container, size>> /\ pc' = "idle" /\ pc = "down"
  BY DEF s_sift_down, LoopEnds
<1>2. SlotsInv /\ cur \in Nat /\ size \in Nat /\ Index \subseteq Nat
  BY DEF HeapInv, TypeOK, Index
<1>3. ASSUME NEW i \in Index, 0 < i, i < size PROVE Ordered(i)
  <2>1. CASE PARENT_OF(i) # cur
    BY <1>1, <1>3, <2>1 DEF HeapInv, SiftInv
  <2>2. CASE PARENT_OF(i) = cur
    <3>1. i \in Nat BY <1>2
    <3>2. i = LEFT_OF(cur) \/ i = RIGHT_OF(cur) BY <1>3, <2>2, <3>1, ParentFacts
    <3>3. LEFT_OF(cur) < size /\ LEFT_OF(cur) \in Nat /\ RIGHT_OF(cur) = LEFT_OF(cur) + 1
      BY <1>2, <1>3, <3>2, ChildFacts
    <3>4. FirstOf(cur) = cur BY <3>3
    <3>5. ~(K(cur) > K(i)) BY <1>1, <1>2, <1>3, <3>2, <3>3, <3>4, FirstOfLeast
    <3> QED BY <2>2, <3>5 DEF Ordered, After, K, NewK
  <2> QED BY <2>1, <2>2
<1> QED BY <1>1, <1>3 DEF SiftInv, HeapOrder, Ordered, After

\* After s_remove_node only the hole that the last element filled can be out of
\* order, and its parent still precedes its children.
LEMMA RemoveOrder ==
  ASSUME TypeOK, TypeOK', HeapInv, pc = "idle", NEW h \in Index, h < size, s_remove_node(h)
  PROVE  SiftInv'
<1>1. size' = size - 1 /\ size - 1 \in Index
      /\ \A j \in Index : container'[j] =
            IF j = size - 1 THEN NoItem ELSE IF j = h THEN container[size - 1] ELSE container[j]
  BY RemovePointwise
<1>2. /\ \A i \in Index : i < size => K(i) \in Int
      /\ \A i \in Index : i > 0 => PARENT_OF(i) \in Index /\ PARENT_OF(i) < i
      /\ Index \subseteq Nat /\ size \in Nat
  BY KeyFacts DEF HeapInv
<1>3. \A i \in Index : i > 0 /\ i < size => ~(K(PARENT_OF(i)) > K(i))
  BY DEF HeapInv, SiftInv, HeapOrder, Ordered, After, K, NewK
<1>4. ASSUME NEW i \in Index, i < size - 1, i # h PROVE NewK(i) = K(i)
  <2>1. i \in Nat /\ size \in Nat BY <1>2
  <2>2. i # size - 1 BY <1>4, <2>1
  <2>3. container'[i] = container[i] BY <1>1, <1>4, <2>2
  <2> QED BY <2>3 DEF K, NewK
<1>5. CASE h = size - 1
  <2>1. pc' = "idle" BY <1>5 DEF s_remove_node, LoopEnds
  <2>2. ASSUME NEW i \in Index, 0 < i, i < size' PROVE ~(NewK(PARENT_OF(i)) > NewK(i))
    <3>1. PARENT_OF(i) \in Index /\ PARENT_OF(i) < i BY <1>2, <2>2
    <3>2. i < size - 1 /\ PARENT_OF(i) < size - 1 /\ i # h /\ PARENT_OF(i) # h
      BY <1>1, <1>2, <1>5, <2>2, <3>1, PQAssumption DEF Index
    <3>3. i < size BY <1>2, <3>2
    <3> QED BY <1>3, <1>4, <2>2, <3>1, <3>2, <3>3
  <2> QED BY <2>1, <2>2 DEF SiftInv, HeapOrder, Ordered, After, K, NewK
<1>6. CASE h # size - 1
  <2>1. pc' = (IF h = 0 THEN "down" ELSE "either") /\ cur' = h
    BY <1>6 DEF s_remove_node
  <2>2. ASSUME NEW i \in Index, 0 < i, i < size', i # h, PARENT_OF(i) # h
        PROVE  ~(NewK(PARENT_OF(i)) > NewK(i))
    <3>1. PARENT_OF(i) \in Index /\ PARENT_OF(i) < i BY <1>2, <2>2
    <3>2. i < size - 1 /\ PARENT_OF(i) < size - 1 /\ i < size
      BY <1>1, <1>2, <2>2, <3>1, PQAssumption DEF Index
    <3> QED BY <1>3, <1>4, <2>2, <3>1, <3>2
  <2>3. ASSUME NEW i \in Index, 0 < i, i < size', PARENT_OF(i) = h, h > 0
        PROVE  ~(NewK(PARENT_OF(h)) > NewK(i))
    <3>1. /\ PARENT_OF(h) \in Index /\ PARENT_OF(h) < h /\ h < i
          /\ i < size - 1 /\ i < size /\ h < size - 1 /\ PARENT_OF(h) < size - 1
      BY <1>1, <1>2, <2>3, PQAssumption DEF Index
    <3>2. NewK(PARENT_OF(h)) = K(PARENT_OF(h)) /\ NewK(i) = K(i)
      BY <1>2, <1>4, <3>1, PQAssumption DEF Index
    <3>3. ~(K(PARENT_OF(h)) > K(h)) /\ ~(K(h) > K(i)) BY <1>3, <2>3, <3>1
    <3>4. K(h) \in Int /\ K(i) \in Int /\ K(PARENT_OF(h)) \in Int
      BY <1>2, <3>1, PQAssumption DEF Index
    <3> QED BY <3>2, <3>3, <3>4
  <2>4. CASE h = 0
    <3>1. pc' = "down" /\ cur' = 0 BY <2>1, <2>4
    <3>2. \A i \in Index : 0 < i /\ i < size' /\ PARENT_OF(i) # h => ~(NewK(PARENT_OF(i)) > NewK(i))
      BY <2>2, <2>4
    <3> QED BY <2>4, <3>1, <3>2 DEF SiftInv, HeapOrder, GrandparentOrdered, Ordered, After, K, NewK
  <2>5. CASE h # 0
    <3>1. pc' = "either" /\ cur' = h BY <2>1, <2>5
    <3> QED BY <2>2, <2>3, <3>1 DEF SiftInv, HeapOrder, GrandparentOrdered, Ordered, After, K, NewK
  <2> QED BY <2>4, <2>5
<1> QED BY <1>5, <1>6

----------------------------------------------------------------------------
(* The inductive invariant                                                 *)

\* push and push_ref append their item in the first free slot.
LEMMA PushInv ==
  ASSUME TypeOK, TypeOK', HeapInv, NEW x \in Item, NEW ref \in BOOLEAN,
         aws_priority_queue_push_ref(x, ref)
  PROVE  HeapInv'
<1> USE PQAssumption
<1>1. CASE \E error : Refused(error)
  BY <1>1 DEF Refused, HeapInv, SlotsInv, BackpointerInv, HandlesExact, SiftInv,
              HeapOrder, GrandparentOrdered, Ordered, After
<1>2. CASE /\ size < MaxSize /\ container' = [container EXCEPT ![size] = x]
           /\ size' = size + 1 /\ pc' = (IF ref THEN "push_ref" ELSE "push") /\ cur' = size
           /\ UNCHANGED <<mode, backpointers, current_index, issued, out>>
  <2>1. size \in Index /\ size \in Nat BY <1>2 DEF TypeOK, Index
  <2>2. ~InQueue(x) /\ pc = "idle" BY DEF aws_priority_queue_push_ref
  <2>3. \A i \in Index : container[i] # x
    BY <2>2 DEF InQueue, HeapInv, SlotsInv
  <2>4. \A i \in Index : container'[i] = IF i = size THEN x ELSE container[i]
    BY <1>2, <2>1 DEF TypeOK
  <2>5. backpointers[size] = NoItem
    BY <2>1 DEF HeapInv, BackpointerInv
  <2>6. SlotsInv'
    BY <1>2, <2>1, <2>3, <2>4 DEF HeapInv, SlotsInv, Index
  <2>7. ASSUME NEW i \in Index, backpointers'[i] # NoItem
        PROVE  /\ i < size' /\ backpointers'[i] = container'[i]
               /\ backpointers'[i] \in issued' /\ current_index'[backpointers'[i]] = i
    <3>1. backpointers'[i] = backpointers[i] /\ i # size BY <1>2, <2>5, <2>7
    <3>2. /\ i < size /\ backpointers[i] = container[i] /\ backpointers[i] \in issued
          /\ current_index[backpointers[i]] = i
      BY <2>7, <3>1 DEF HeapInv, BackpointerInv
    <3> QED BY <1>2, <2>1, <2>4, <3>1, <3>2 DEF Index
  <2>8. ASSUME NEW y \in issued'
        PROVE  \/ current_index'[y] = SIZE_MAX
               \/ /\ current_index'[y] < size'
                  /\ container'[current_index'[y]] = y
                  /\ backpointers'[current_index'[y]] = y
    <3>1. y \in issued /\ y \in Item /\ current_index'[y] = current_index[y]
      BY <1>2, <2>8 DEF TypeOK
    <3>2. CASE current_index[y] = SIZE_MAX
      BY <3>1, <3>2
    <3>3. CASE current_index[y] < size /\ container[current_index[y]] = y
               /\ backpointers[current_index[y]] = y
      <4>1. current_index[y] \in Index /\ current_index[y] # size
        BY <2>1, <3>1, <3>3 DEF TypeOK, Index
      <4>2. current_index[y] < size' BY <1>2, <2>1, <3>3, <4>1 DEF Index
      <4> QED BY <1>2, <2>4, <3>1, <3>3, <4>1, <4>2
    <3> QED BY <3>1, <3>2, <3>3 DEF HeapInv, BackpointerInv, HandlesExact
  <2>9. BackpointerInv'
    BY <2>7, <2>8 DEF BackpointerInv, HandlesExact
  <2>10. ASSUME NEW i \in Index, 0 < i, i < size
         PROVE  ~(NewK(PARENT_OF(i)) > NewK(i))
    <3>1. PARENT_OF(i) \in Index /\ PARENT_OF(i) # size /\ i # size
      BY <2>1, <2>10, ParentIndex DEF Index
    <3>2. NewK(i) = K(i) /\ NewK(PARENT_OF(i)) = K(PARENT_OF(i))
      BY <2>4, <2>10, <3>1 DEF K, NewK
    <3>3. ~(K(PARENT_OF(i)) > K(i))
      BY <2>2, <2>10, <3>1 DEF HeapInv, SiftInv, HeapOrder, Ordered, After, K
    <3> QED BY <3>2, <3>3
  <2>11. SiftInv'
    <3>1. pc' \in Pushing /\ cur' = size /\ size' = size + 1 /\ backpointers'[size] = NoItem
      BY <1>2, <2>5
    <3> QED BY <2>10, <3>1 DEF SiftInv, HeapOrder, Ordered, After, NewK
  <2> QED BY <2>6, <2>9, <2>11 DEF HeapInv
<1> QED BY <1>1, <1>2 DEF aws_priority_queue_push_ref

\* What is known of the slot a push has filled: no other slot and no node has its item.
LEMMA PushedSlot ==
  ASSUME TypeOK, HeapInv, pc \in Pushing
  PROVE  /\ cur \in Index /\ cur \in Nat /\ size = cur + 1 /\ container[cur] \in Item
         /\ backpointers[cur] = NoItem
         /\ \A i \in Index : i # cur => container[i] # container[cur]
         /\ \A i \in Index : backpointers[i] # container[cur]
         /\ \A y \in issued : current_index[y] # cur
<1> USE PQAssumption
<1>1. /\ cur \in Index /\ cur \in Nat /\ size = cur + 1 /\ container[cur] \in Item
      /\ backpointers[cur] = NoItem
  BY DEF TypeOK, Index, HeapInv, SiftInv
<1>2. \A i \in Index : i # cur => container[i] # container[cur]
  BY <1>1 DEF HeapInv, SlotsInv
<1>3. \A i \in Index : backpointers[i] # container[cur]
  BY <1>1, <1>2 DEF HeapInv, BackpointerInv
<1>4. ASSUME NEW y \in issued PROVE current_index[y] # cur
  <2>1. y \in Item /\ cur # SIZE_MAX BY <1>1 DEF TypeOK, Index
  <2> QED BY <1>1, <2>1 DEF HeapInv, BackpointerInv, HandlesExact
<1> QED BY <1>1, <1>2, <1>3, <1>4

\* The node is told the slot: the last slot is the only one that may be out of order.
LEMMA UpdateInv ==
  ASSUME TypeOK, TypeOK', HeapInv, backpointer_update
  PROVE  HeapInv'
<1> USE PQAssumption
<1> DEFINE x == container[cur]
           ref == pc = "push_ref"
<1>1. pc \in Pushing BY DEF backpointer_update
<1>2. /\ cur \in Index /\ cur \in Nat /\ size = cur + 1 /\ x \in Item
      /\ backpointers[cur] = NoItem
      /\ \A i \in Index : i # cur => container[i] # x
      /\ \A i \in Index : backpointers[i] # x
      /\ \A y \in issued : current_index[y] # cur
  BY <1>1, PushedSlot
<1>3. UNCHANGED <<container, size, cur>> /\ pc' = "up"
  BY DEF backpointer_update
<1>4. \A i \in Index : backpointers'[i] = IF i = cur THEN IF ref THEN x ELSE NoItem ELSE backpointers[i]
  BY <1>2 DEF backpointer_update, TypeOK
<1>5. \A y \in Item : current_index'[y] = IF ref /\ y = x THEN cur ELSE current_index[y]
  BY <1>2 DEF backpointer_update, TypeOK
<1>6. issued' = IF ref THEN issued \cup {x} ELSE issued
  BY DEF backpointer_update
<1> HIDE DEF x, ref
<1>7. ASSUME NEW i \in Index, backpointers'[i] # NoItem
      PROVE  /\ i < size' /\ backpointers'[i] = container'[i]
             /\ backpointers'[i] \in issued' /\ current_index'[backpointers'[i]] = i
  <2>1. CASE i = cur
    BY <1>2, <1>3, <1>4, <1>5, <1>6, <1>7, <2>1 DEF x
  <2>2. CASE i # cur
    <3>1. backpointers'[i] = backpointers[i] BY <1>4, <2>2
    <3>2. /\ i < size /\ backpointers[i] = container[i] /\ backpointers[i] \in issued
          /\ backpointers[i] \in Item /\ current_index[backpointers[i]] = i
      BY <1>7, <3>1 DEF HeapInv, BackpointerInv, TypeOK
    <3> QED BY <1>2, <1>3, <1>5, <1>6, <3>1, <3>2
  <2> QED BY <2>1, <2>2
<1>8. ASSUME NEW y \in issued'
      PROVE  \/ current_index'[y] = SIZE_MAX
             \/ /\ current_index'[y] < size'
                /\ container'[current_index'[y]] = y
                /\ backpointers'[current_index'[y]] = y
  <2>1. CASE ref /\ y = x
    BY <1>2, <1>3, <1>4, <1>5, <2>1 DEF x
  <2>2. CASE ~(ref /\ y = x)
    <3>1. y \in issued /\ y \in Item /\ current_index'[y] = current_index[y] /\ current_index[y] # cur
      BY <1>2, <1>5, <1>6, <1>8, <2>2 DEF TypeOK
    <3>2. CASE current_index[y] = SIZE_MAX
      BY <3>1, <3>2
    <3>3. CASE current_index[y] < size /\ container[current_index[y]] = y
               /\ backpointers[current_index[y]] = y
      <4>1. current_index[y] \in Index BY <3>1, <3>3 DEF TypeOK, Index
      <4> QED BY <1>3, <1>4, <3>1, <3>3, <4>1
    <3> QED BY <3>1, <3>2, <3>3 DEF HeapInv, BackpointerInv, HandlesExact
  <2> QED BY <2>1, <2>2
<1>9. BackpointerInv' BY <1>7, <1>8 DEF BackpointerInv, HandlesExact
<1>10. SlotsInv' BY <1>3 DEF HeapInv, SlotsInv
<1>11. \A i \in Index : 0 < i /\ i < size /\ i # cur => Ordered(i)
  BY <1>1, <1>2 DEF HeapInv, SiftInv, Index
<1>12. ASSUME NEW i \in Index, 0 < i, i < size PROVE PARENT_OF(i) # cur
  BY <1>2, <1>12, ParentIndex DEF Index
<1>13. SiftInv'
  BY <1>3, <1>11, <1>12 DEF SiftInv, HeapOrder, GrandparentOrdered, Ordered, After
<1> QED BY <1>9, <1>10, <1>13 DEF HeapInv

\* The back-out of a failed push restores the heap of before the push.
LEMMA FailedInv ==
  ASSUME TypeOK, TypeOK', HeapInv, backpointer_update_failed
  PROVE  HeapInv'
<1> USE PQAssumption
<1>1. pc \in Pushing BY DEF backpointer_update_failed
<1>2. /\ cur \in Index /\ cur \in Nat /\ size = cur + 1
      /\ backpointers[cur] = NoItem
      /\ \A y \in issued : current_index[y] # cur
  BY <1>1, PushedSlot
<1>3. size' = cur /\ pc' = "idle" /\ UNCHANGED <<backpointers, current_index, issued>>
  BY <1>2 DEF backpointer_update_failed
<1>4. \A i \in Index : container'[i] = IF i = cur THEN NoItem ELSE container[i]
  BY <1>2 DEF backpointer_update_failed, TypeOK
<1>5. \A i \in Index : i < cur <=> i < size /\ i # cur
  BY <1>2 DEF Index
<1>6. SlotsInv'
  BY <1>2, <1>3, <1>4, <1>5 DEF HeapInv, SlotsInv
<1>7. ASSUME NEW y \in issued
      PROVE  \/ current_index'[y] = SIZE_MAX
             \/ /\ current_index'[y] < size'
                /\ container'[current_index'[y]] = y
                /\ backpointers'[current_index'[y]] = y
  <2>1. y \in Item /\ current_index[y] # cur /\ current_index'[y] = current_index[y]
    BY <1>2, <1>3 DEF TypeOK
  <2>2. CASE current_index[y] = SIZE_MAX
    BY <2>1, <2>2
  <2>3. CASE current_index[y] < size /\ container[current_index[y]] = y
             /\ backpointers[current_index[y]] = y
    <3>1. current_index[y] \in Index BY <2>1, <2>3 DEF TypeOK, Index
    <3> QED BY <1>3, <1>4, <1>5, <2>1, <2>3, <3>1
  <2> QED BY <2>2, <2>3 DEF HeapInv, BackpointerInv, HandlesExact
<1>8. BackpointerInv'
  <2>1. ASSUME NEW i \in Index, backpointers'[i] # NoItem
        PROVE  /\ i < size' /\ backpointers'[i] = container'[i]
               /\ backpointers'[i] \in issued' /\ current_index'[backpointers'[i]] = i
    <3>1. /\ i < size /\ i # cur /\ backpointers[i] = container[i] /\ backpointers[i] \in issued
          /\ current_index[backpointers[i]] = i
      BY <1>2, <1>3, <2>1 DEF HeapInv, BackpointerInv
    <3> QED BY <1>3, <1>4, <1>5, <3>1
  <2> QED BY <1>3, <1>7, <2>1 DEF BackpointerInv, HandlesExact
<1>9. ASSUME NEW i \in Index, 0 < i, i < cur PROVE ~(NewK(PARENT_OF(i)) > NewK(i))
  <2>1. PARENT_OF(i) \in Index /\ PARENT_OF(i) # cur /\ i # cur
    BY <1>2, <1>9, ParentIndex DEF Index
  <2>2. NewK(i) = K(i) /\ NewK(PARENT_OF(i)) = K(PARENT_OF(i))
    BY <1>4, <1>9, <2>1 DEF K, NewK
  <2>3. ~(K(PARENT_OF(i)) > K(i))
    BY <1>1, <1>9, <2>1 DEF HeapInv, SiftInv, Ordered, After, K
  <2> QED BY <2>2, <2>3
<1>10. SiftInv'
  BY <1>3, <1>9 DEF SiftInv, HeapOrder, Ordered, After, NewK
<1> QED BY <1>6, <1>8, <1>10 DEF HeapInv

\* Every step of the queue, an iteration of a loop included, keeps HeapInv.
LEMMA HeapStep == TypeOK /\ HeapInv /\ [Next]_vars => HeapInv'
<1> SUFFICES ASSUME TypeOK, HeapInv, [Next]_vars PROVE HeapInv'
  OBVIOUS
<1> USE PQAssumption
<1>0. TypeOK' BY TypeStep
<1>1. ASSUME NEW x \in Item, NEW ref \in BOOLEAN, aws_priority_queue_push_ref(x, ref)
      PROVE  HeapInv'
  BY <1>0, <1>1, PushInv
<1>2. ASSUME NEW h \in Index, h < size, pc = "idle", s_remove_node(h)
      PROVE  HeapInv'
  BY <1>0, <1>2, RemoveSlots, RemoveOrder DEF HeapInv
<1>3. ASSUME NEW error, Refused(error)
      PROVE  HeapInv'
  BY <1>3 DEF Refused, HeapInv, SlotsInv, BackpointerInv, HandlesExact, SiftInv,
              HeapOrder, GrandparentOrdered, Ordered, After
<1>4. CASE aws_priority_queue_pop
  <2>1. CASE size # 0
    <3>1. 0 \in Index /\ 0 < size BY <2>1 DEF TypeOK, Index
    <3> QED BY <1>2, <1>4, <2>1, <3>1 DEF aws_priority_queue_pop
  <2>2. CASE size = 0
    BY <1>3, <1>4, <2>2 DEF aws_priority_queue_pop
  <2> QED BY <2>1, <2>2
<1>5. ASSUME NEW x \in Item, aws_priority_queue_remove(x)
      PROVE  HeapInv'
  <2>1. CASE current_index[x] < size /\ BackpointersExist
    <3>1. current_index[x] \in Index BY <2>1 DEF TypeOK, Index
    <3> QED BY <1>2, <1>5, <2>1, <3>1 DEF aws_priority_queue_remove
  <2>2. CASE ~(current_index[x] < size /\ BackpointersExist)
    BY <1>3, <1>5, <2>2 DEF aws_priority_queue_remove
  <2> QED BY <2>1, <2>2
<1>6. CASE aws_priority_queue_clean_up
  <2>1. /\ \A i \in Index : container'[i] = NoItem /\ backpointers'[i] = NoItem
        /\ size' = 0 /\ issued' = {} /\ pc' = "cleaned"
    BY <1>6 DEF aws_priority_queue_clean_up
  <2>2. \A i \in Index : ~(i < size') BY <2>1 DEF Index
  <2> QED BY <2>1, <2>2 DEF HeapInv, SlotsInv, BackpointerInv, HandlesExact, SiftInv, HeapOrder
<1>7. CASE s_sift_up
  <2>1. CASE cur > 0 /\ After(PARENT_OF(cur), cur)
    <3>1. PARENT_OF(cur) \in Index /\ PARENT_OF(cur) < cur /\ cur \in Index
      BY <2>1, ParentIndex DEF TypeOK
    <3>2. cur < size /\ PARENT_OF(cur) < size /\ pc \in {"up", "either"}
      BY <1>7, <3>1 DEF s_sift_up, TypeOK, Index
    <3>3. s_swap(cur, PARENT_OF(cur)) /\ UNCHANGED <<size, issued>>
      BY <1>7, <2>1 DEF s_sift_up
    <3>4. SlotsInv' /\ BackpointerInv' BY <3>1, <3>2, <3>3, SwapSlots DEF HeapInv
    <3>5. SiftInv' BY <1>0, <1>7, <2>1, <3>2, <3>4, SiftUpMove
    <3> QED BY <3>4, <3>5 DEF HeapInv
  <2>2. CASE ~(cur > 0 /\ After(PARENT_OF(cur), cur))
    <3>1. SiftInv' BY <1>7, <2>2, SiftUpStop
    <3>2. UNCHANGED <<container, backpointers, current_index, size, issued>>
      BY <1>7, <2>2 DEF s_sift_up
    <3> QED BY <3>1, <3>2 DEF HeapInv, SlotsInv, BackpointerInv, HandlesExact
  <2> QED BY <2>1, <2>2
<1>8. CASE s_sift_down
  <2>1. CASE LEFT_OF(cur) < size /\ FirstOf(cur) # cur
    <3>1. FirstOf(cur) \in Index /\ FirstOf(cur) < size /\ cur \in Index /\ cur < size
      BY <1>8, <2>1, FirstOfIndex DEF s_sift_down, TypeOK
    <3>3. s_swap(FirstOf(cur), cur) /\ UNCHANGED <<size, issued>>
      BY <1>8, <2>1 DEF s_sift_down
    <3>4. SlotsInv' /\ BackpointerInv' BY <3>1, <3>3, SwapSlots DEF HeapInv
    <3>5. SiftInv' BY <1>0, <1>8, <2>1, <3>4, SiftDownMove
    <3> QED BY <3>4, <3>5 DEF HeapInv
  <2>2. CASE ~(LEFT_OF(cur) < size /\ FirstOf(cur) # cur)
    <3>1. SiftInv' BY <1>8, <2>2, SiftDownStop
    <3>2. UNCHANGED <<container, backpointers, current_index, size, issued>>
      BY <1>8, <2>2 DEF s_sift_down
    <3> QED BY <3>1, <3>2 DEF HeapInv, SlotsInv, BackpointerInv, HandlesExact
  <2> QED BY <2>1, <2>2
<1>9. CASE UNCHANGED vars
  BY <1>9 DEF vars, HeapInv, SlotsInv, BackpointerInv, HandlesExact, SiftInv,
              HeapOrder, GrandparentOrdered, Ordered, After
<1> QED
  BY <1>0, <1>1, <1>4, <1>5, <1>6, <1>7, <1>8, <1>9, UpdateInv, FailedInv DEF Next

\* The types and HeapInv together hold in every reachable state.
LEMMA HeapInvariant == Spec => [](TypeOK /\ HeapInv)
<1>1. Init => TypeOK
  BY PQAssumption DEF Init, TypeOK, Index
<1>2. Init => HeapInv
  <2> SUFFICES ASSUME Init PROVE HeapInv
    OBVIOUS
  <2>1. \A i \in Index : ~(i < size)
    BY PQAssumption DEF Init, Index
  <2> QED
    BY <2>1 DEF Init, HeapInv, SlotsInv, BackpointerInv, HandlesExact, SiftInv, HeapOrder
<1> QED
  BY <1>1, <1>2, TypeStep, HeapStep, PTL DEF Spec

\* Between operations the array of priority_queue.c is in heap order, for every
\* sequence of pushes, pops and removals and every assignment of keys.
THEOREM HeapOrderCorrect == Spec => []HeapOrder
<1>1. HeapInv => HeapOrder
  BY DEF HeapInv, SiftInv
<1> QED
  BY <1>1, HeapInvariant, PTL

\* A node passed to push_ref holds the sentinel or the index of its own item after
\* every exchange, so aws_priority_queue_remove never removes another item.
THEOREM HandlesExactCorrect == Spec => []HandlesExact
<1>1. HeapInv => HandlesExact
  BY DEF HeapInv, BackpointerInv
<1> QED
  BY <1>1, HeapInvariant, PTL

----------------------------------------------------------------------------
(* Refinement of PriorityQueueSpec                                         *)

\* A non-empty set of naturals has a least element.
LEMMA LeastElement ==
  ASSUME NEW T \in SUBSET Nat, T # {}
  PROVE  \E x \in T : \A y \in T : x <= y
<1>1. IsWellFoundedOn(NatLess, Nat)
  BY NatLessThanWellFounded DEF OpToRel, NatLess
<1>2. PICK x \in T : \A y \in T : ~(<<y, x>> \in NatLess)
  BY <1>1, WFMin
<1>3. \A y \in T : ~(y < x)
  BY <1>2 DEF NatLess
<1> QED BY <1>3

\* In a heap the root holds a least key: an index of least value with a smaller
\* key would have a parent with a smaller key too.
LEMMA RootLeast ==
  ASSUME TypeOK, HeapInv, pc = "idle"
  PROVE  \A i \in Index : i < size => K(0) <= K(i)
<1> DEFINE T == {i \in Index : i < size /\ ~(K(0) <= K(i))}
<1> SUFFICES ASSUME T # {} PROVE FALSE
  OBVIOUS
<1>1. /\ \A i \in Index : i < size => K(i) \in Int
      /\ \A i \in Index : i > 0 => PARENT_OF(i) \in Index /\ PARENT_OF(i) < i
      /\ Index \subseteq Nat /\ size \in Nat
  BY KeyFacts DEF HeapInv
<1>2. PICK t \in T : \A u \in T : t <= u
  <2>1. T \in SUBSET Nat BY <1>1
  <2> HIDE DEF T
  <2> QED BY <2>1, LeastElement
<1>3. t \in Nat /\ t \in Index /\ t < size /\ ~(K(0) <= K(t))
  BY <1>1
<1>4. 0 \in Index /\ 0 < size /\ K(0) \in Int /\ K(t) \in Int
  BY <1>1, <1>3, PQAssumption DEF Index
<1>5. t > 0
  BY <1>3, <1>4
<1>6. PARENT_OF(t) \in Index /\ PARENT_OF(t) < t
  BY <1>1, <1>3, <1>5
<1>7. PARENT_OF(t) \in Nat /\ PARENT_OF(t) < size
  BY <1>1, <1>3, <1>6, PQAssumption DEF Index
<1>8. ~(K(PARENT_OF(t)) > K(t))
  BY <1>3, <1>5 DEF HeapInv, SiftInv, HeapOrder, Ordered, After, K
<1>9. K(PARENT_OF(t)) \in Int BY <1>1, <1>6, <1>7
<1>10. PARENT_OF(t) \in T
  BY <1>3, <1>4, <1>6, <1>7, <1>8, <1>9
<1>11. t <= PARENT_OF(t)
  BY <1>2, <1>10
<1> QED
  BY <1>3, <1>6, <1>7, <1>11

\* The items and the handles of the abstract queue.
Elems == {container[i] : i \in {j \in Index : j < Filled}}
Handles == {backpointers[i] : i \in {j \in Index : j < Filled}} \ {NoItem}

\* An exchange of two slots in use changes neither set.
LEMMA SwapKeepsSets ==
  ASSUME TypeOK, NEW a \in Index, NEW b \in Index, a < size, b < size,
         s_swap(a, b), UNCHANGED size, Filled = size, Filled' = size'
  PROVE  Elems' = Elems /\ Handles' = Handles
<1>1. \A i \in Index :
        /\ container'[i] = IF i = a THEN container[b] ELSE IF i = b THEN container[a] ELSE container[i]
        /\ backpointers'[i] = IF i = a THEN backpointers[b] ELSE IF i = b THEN backpointers[a] ELSE backpointers[i]
  BY DEF s_swap, Exchange, TypeOK
<1>2. Elems' = Elems
  <2>1. ASSUME NEW x \in Elems' PROVE x \in Elems
    BY <1>1, <2>1 DEF Elems
  <2>2. ASSUME NEW x \in Elems PROVE x \in Elems'
    <3>1. PICK i \in Index : i < size /\ x = container[i] BY <2>2 DEF Elems
    <3>2. \E j \in Index : j < size /\ container'[j] = x BY <1>1, <3>1
    <3> QED BY <3>2 DEF Elems
  <2> QED BY <2>1, <2>2
<1>3. Handles' = Handles
  <2>1. ASSUME NEW x \in Handles' PROVE x \in Handles
    BY <1>1, <2>1 DEF Handles
  <2>2. ASSUME NEW x \in Handles PROVE x \in Handles'
    <3>1. PICK i \in Index : i < size /\ x = backpointers[i] BY <2>2 DEF Handles
    <3>2. \E j \in Index : j < size /\ backpointers'[j] = x BY <1>1, <3>1
    <3> QED BY <2>2, <3>2 DEF Handles
  <2> QED BY <2>1, <2>2
<1> QED BY <1>2, <1>3

\* s_remove_node takes the item in the given slot, and its handle, out of the sets.
LEMMA RemoveTakes ==
  ASSUME TypeOK, HeapInv, pc = "idle", NEW h \in Index, h < size, s_remove_node(h)
  PROVE  /\ container[h] \in Elems
         /\ Elems' = Elems \ {container[h]}
         /\ Handles' = Handles \ {container[h]}
         /\ out' = container[h]
<1> USE PQAssumption
<1>1. /\ size' = size - 1 /\ size - 1 \in Index
      /\ \A j \in Index : container'[j] =
            IF j = size - 1 THEN NoItem ELSE IF j = h THEN container[size - 1] ELSE container[j]
      /\ \A j \in Index : backpointers'[j] =
            IF j = size - 1 THEN NoItem ELSE IF j = h THEN backpointers[size - 1] ELSE backpointers[j]
  BY RemovePointwise
<1>2. size \in Nat /\ \A j \in Index : j < size <=> j < size - 1 \/ j = size - 1
  BY DEF TypeOK, Index
<1>3. \A i, j \in Index : i < size /\ j < size /\ container[i] = container[j] => i = j
  BY DEF HeapInv, SlotsInv
<1>4. \A j \in Index : backpointers[j] # NoItem => backpointers[j] = container[j] /\ j < size
  BY DEF HeapInv, BackpointerInv
<1>10. Filled = size /\ Filled' = size'
  BY DEF s_remove_node, LoopEnds, Filled
<1>5. ASSUME NEW x \in Elems' PROVE x \in Elems \ {container[h]}
  <2>1. PICK i \in Index : i < size' /\ x = container'[i] BY <1>5, <1>10 DEF Elems
  <2>2. i < size - 1 /\ i # size - 1 /\ i < size BY <1>1, <1>2, <2>1 DEF Index
  <2>3. CASE i = h
    BY <1>1, <1>2, <1>3, <2>1, <2>2, <2>3, <1>10 DEF Elems
  <2>4. CASE i # h
    BY <1>1, <1>2, <1>3, <2>1, <2>2, <2>4, <1>10 DEF Elems
  <2> QED BY <2>3, <2>4
<1>6. ASSUME NEW x \in Elems \ {container[h]} PROVE x \in Elems'
  <2>1. PICK i \in Index : i < size /\ x = container[i] BY <1>6, <1>10 DEF Elems
  <2>2. i # h BY <1>6, <2>1
  <2>3. CASE i = size - 1
    <3>1. h < size' /\ container'[h] = x BY <1>1, <1>2, <2>1, <2>2, <2>3
    <3> QED BY <3>1, <1>10 DEF Elems
  <2>4. CASE i # size - 1
    <3>1. i < size' /\ container'[i] = x BY <1>1, <1>2, <2>1, <2>2, <2>4
    <3> QED BY <3>1, <1>10 DEF Elems
  <2> QED BY <2>3, <2>4
<1>7. ASSUME NEW x \in Handles' PROVE x \in Handles \ {container[h]}
  <2>1. PICK i \in Index : i < size' /\ x = backpointers'[i] /\ x # NoItem BY <1>7, <1>10 DEF Handles
  <2>2. i < size - 1 /\ i # size - 1 /\ i < size BY <1>1, <1>2, <2>1 DEF Index
  <2>3. CASE i = h
    <3>1. x = backpointers[size - 1] /\ x = container[size - 1] /\ size - 1 < size
      BY <1>1, <1>2, <1>4, <2>1, <2>2, <2>3
    <3> QED BY <1>1, <1>3, <2>1, <2>2, <2>3, <3>1, <1>10 DEF Handles
  <2>4. CASE i # h
    <3>1. x = backpointers[i] /\ x = container[i] BY <1>1, <1>4, <2>1, <2>2, <2>4
    <3> QED BY <1>3, <2>1, <2>2, <2>4, <3>1, <1>10 DEF Handles
  <2> QED BY <2>3, <2>4
<1>8. ASSUME NEW x \in Handles \ {container[h]} PROVE x \in Handles'
  <2>1. PICK i \in Index : i < size /\ x = backpointers[i] /\ x # NoItem BY <1>8, <1>10 DEF Handles
  <2>2. i # h BY <1>4, <1>8, <2>1
  <2>3. CASE i = size - 1
    <3>1. h < size' /\ backpointers'[h] = x BY <1>1, <1>2, <2>1, <2>2, <2>3
    <3> QED BY <2>1, <3>1, <1>10 DEF Handles
  <2>4. CASE i # size - 1
    <3>1. i < size' /\ backpointers'[i] = x BY <1>1, <1>2, <2>1, <2>2, <2>4
    <3> QED BY <2>1, <3>1, <1>10 DEF Handles
  <2> QED BY <2>3, <2>4
<1>9. container[h] \in Elems /\ out' = container[h]
  BY <1>10 DEF Elems, s_remove_node
<1> QED BY <1>5, <1>6, <1>7, <1>8, <1>9

\* Every step of the heap is a step of the abstract queue or leaves it alone.
LEMMA AbstractStep ==
  ASSUME TypeOK, HeapInv, Next
  PROVE  Abstract!Next \/ UNCHANGED <<Elems, Handles, out>>
<1> USE PQAssumption
<1>1. ASSUME NEW error, Refused(error)
      PROVE  Abstract!Next
  <2>1. Elems' = Elems /\ Handles' = Handles /\ out' = Error
    BY <1>1 DEF Refused, Elems, Handles, Filled
  <2> QED BY <2>1 DEF Abstract!Next, Abstract!Refuse, Elems, Handles
<1>2. ASSUME NEW x \in Item, NEW ref \in BOOLEAN, aws_priority_queue_push_ref(x, ref)
      PROVE  Abstract!Next \/ UNCHANGED <<Elems, Handles, out>>
  <2>1. CASE \E error : Refused(error)
    BY <1>1, <2>1
  <2>2. CASE /\ size < MaxSize /\ container' = [container EXCEPT ![size] = x]
             /\ pc' = (IF ref THEN "push_ref" ELSE "push") /\ cur' = size
             /\ UNCHANGED <<backpointers, out>>
    <3>1. size \in Nat BY DEF TypeOK
    <3>2. Filled = size /\ Filled' = size
      BY <1>2, <2>2 DEF aws_priority_queue_push_ref, Filled
    <3>3. \A i \in Index : i < size => container'[i] = container[i]
      BY <2>2, <3>1 DEF TypeOK, Index
    <3>4. Elems' = Elems
      BY <3>2, <3>3 DEF Elems
    <3>5. Handles' = Handles
      BY <2>2, <3>2 DEF Handles
    <3> QED BY <2>2, <3>4, <3>5
  <2> QED BY <1>2, <2>1, <2>2 DEF aws_priority_queue_push_ref
<1>8. CASE backpointer_update
  <2>1. pc \in Pushing BY <1>8 DEF backpointer_update
  <2>11. PICK x \in Item : x = container[cur] BY <2>1, PushedSlot
  <2>12. PICK ref \in BOOLEAN : ref = (pc = "push_ref") OBVIOUS
  <2>2. /\ cur \in Index /\ cur \in Nat /\ size = cur + 1
        /\ \A i \in Index : i # cur => container[i] # x
    BY <2>1, <2>11, PushedSlot
  <2>3. Filled = cur /\ Filled' = cur + 1 /\ out' = NoItem /\ UNCHANGED container
    BY <1>8, <2>1, <2>2 DEF backpointer_update, Filled
  <2>4. \A i \in Index : i < Filled' <=> i < cur \/ i = cur
    BY <2>2, <2>3 DEF Index
  <2>5. \A i \in Index : backpointers'[i] = IF i = cur THEN IF ref THEN x ELSE NoItem ELSE backpointers[i]
    BY <1>8, <2>2, <2>11, <2>12 DEF backpointer_update, TypeOK
  <2>6. ~(cur < cur) BY <2>2
  <2>7. Elems' = Elems \cup {x}
    <3>1. ASSUME NEW y \in Elems' PROVE y \in Elems \cup {x}
      BY <2>3, <2>4, <2>11, <3>1 DEF Elems
    <3>2. ASSUME NEW y \in Elems PROVE y \in Elems'
      BY <2>3, <2>4, <3>2 DEF Elems
    <3>3. x \in Elems' BY <2>2, <2>3, <2>4, <2>11 DEF Elems
    <3> QED BY <3>1, <3>2, <3>3
  <2>8. Handles' = IF ref THEN Handles \cup {x} ELSE Handles
    <3>1. ASSUME NEW y \in Handles' PROVE y \in IF ref THEN Handles \cup {x} ELSE Handles
      BY <2>3, <2>4, <2>5, <3>1 DEF Handles
    <3>2. ASSUME NEW y \in Handles PROVE y \in Handles'
      <4>1. PICK i \in Index : i < Filled /\ y = backpointers[i] BY <3>2 DEF Handles
      <4>2. i < Filled' /\ backpointers'[i] = y BY <2>3, <2>4, <2>5, <2>6, <4>1
      <4> QED BY <3>2, <4>2 DEF Handles
    <3>3. ref => x \in Handles' BY <2>2, <2>3, <2>4, <2>5 DEF Handles
    <3> QED BY <3>1, <3>2, <3>3
  <2>9. x \notin Elems
    BY <2>2, <2>3, <2>6 DEF Elems
  <2>10. Abstract!Push(x, ref)
    BY <2>3, <2>7, <2>8, <2>9 DEF Abstract!Push, Elems, Handles
  <2> QED BY <2>10 DEF Abstract!Next
<1>9. CASE backpointer_update_failed
  <2>1. pc \in Pushing BY <1>9 DEF backpointer_update_failed
  <2>2. cur \in Index /\ cur \in Nat /\ size = cur + 1
    BY <2>1, PushedSlot
  <2>3. Filled = cur /\ Filled' = cur /\ out' = Error /\ UNCHANGED backpointers
    BY <1>9, <2>1, <2>2 DEF backpointer_update_failed, Filled
  <2>4. \A i \in Index : i < cur => container'[i] = container[i]
    BY <1>9, <2>2 DEF backpointer_update_failed, TypeOK, Index
  <2>5. Elems' = Elems BY <2>3, <2>4 DEF Elems
  <2>6. Handles' = Handles BY <2>3 DEF Handles
  <2> QED BY <2>3, <2>5, <2>6 DEF Abstract!Next, Abstract!Refuse, Elems, Handles
<1>3. CASE aws_priority_queue_pop
  <2>1. CASE size = 0
    BY <1>1, <1>3, <2>1 DEF aws_priority_queue_pop
  <2>2. CASE size # 0
    <3>1. 0 \in Index /\ 0 < size /\ pc = "idle" /\ s_remove_node(0)
      BY <1>3, <2>2 DEF aws_priority_queue_pop, TypeOK, Index
    <3>2. \A i \in Index : i < size => K(0) <= K(i)
      BY <3>1, RootLeast
    <3>3. PICK x \in Elems : x = container[0]
      BY <3>1 DEF Elems, Filled
    <3>4. \A y \in Elems : Prio[x] <= Prio[y]
      BY <3>1, <3>2, <3>3 DEF Elems, K, Filled
    <3>5. Abstract!Take(x)
      BY <3>1, <3>3, RemoveTakes DEF Abstract!Take, Elems, Handles
    <3>6. \E z \in Elems : (\A y \in Elems : Prio[z] <= Prio[y]) /\ Abstract!Take(z)
      BY <3>4, <3>5
    <3>7. Abstract!Pop
      BY <3>6 DEF Abstract!Pop, Elems
    <3> QED BY <3>7 DEF Abstract!Next
  <2> QED BY <2>1, <2>2
<1>4. ASSUME NEW x \in Item, aws_priority_queue_remove(x)
      PROVE  Abstract!Next
  <2>1. CASE current_index[x] < size /\ BackpointersExist
    <3>1. current_index[x] \in Index /\ x \in issued
      BY <1>4, <2>1 DEF TypeOK, Index, aws_priority_queue_remove
    <3>2. current_index[x] # SIZE_MAX
      BY <2>1, <3>1 DEF TypeOK, Index
    <3>3. container[current_index[x]] = x /\ backpointers[current_index[x]] = x
      BY <3>1, <3>2 DEF HeapInv, BackpointerInv, HandlesExact
    <3>4. s_remove_node(current_index[x]) /\ pc = "idle"
      BY <1>4, <2>1 DEF aws_priority_queue_remove
    <3>5. Abstract!Take(x)
      BY <2>1, <3>1, <3>3, <3>4, RemoveTakes DEF Abstract!Take, Elems, Handles
    <3>6. x \in Handles
      BY <2>1, <3>1, <3>3, <3>4 DEF Handles, Filled
    <3>7. Abstract!Remove(x) BY <3>5, <3>6 DEF Abstract!Remove, Handles
    <3> QED BY <3>7 DEF Abstract!Next
  <2>2. CASE ~(current_index[x] < size /\ BackpointersExist)
    BY <1>1, <1>4, <2>2 DEF aws_priority_queue_remove
  <2> QED BY <2>1, <2>2
<1>5. CASE aws_priority_queue_clean_up
  <2>1. Filled' = 0 /\ out' = NoItem BY <1>5 DEF aws_priority_queue_clean_up, Filled
  <2>2. \A i \in Index : ~(i < Filled') BY <2>1 DEF Index
  <2>3. Elems' = {} /\ Handles' = {} BY <2>2 DEF Elems, Handles
  <2> QED BY <2>1, <2>3 DEF Abstract!Next, Abstract!CleanUp, Elems, Handles
<1>6. CASE s_sift_up
  <2>1. CASE cur > 0 /\ After(PARENT_OF(cur), cur)
    <3>1. PARENT_OF(cur) \in Index /\ PARENT_OF(cur) < cur /\ cur \in Index
      BY <2>1, ParentIndex DEF TypeOK
    <3>2. cur < size /\ PARENT_OF(cur) < size
      BY <1>6, <3>1 DEF s_sift_up, TypeOK, Index
    <3>3. /\ s_swap(cur, PARENT_OF(cur)) /\ UNCHANGED <<size, out>>
          /\ Filled = size /\ Filled' = size'
      BY <1>6, <2>1 DEF s_sift_up, Filled
    <3> QED BY <3>1, <3>2, <3>3, SwapKeepsSets
  <2>2. CASE ~(cur > 0 /\ After(PARENT_OF(cur), cur))
    BY <1>6, <2>2 DEF s_sift_up, LoopEnds, Elems, Handles, Filled
  <2> QED BY <2>1, <2>2
<1>7. CASE s_sift_down
  <2>1. CASE LEFT_OF(cur) < size /\ FirstOf(cur) # cur
    <3>1. FirstOf(cur) \in Index /\ FirstOf(cur) < size /\ cur \in Index /\ cur < size
      BY <1>7, <2>1, FirstOfIndex DEF s_sift_down, TypeOK
    <3>2. /\ s_swap(FirstOf(cur), cur) /\ UNCHANGED <<size, out>>
          /\ Filled = size /\ Filled' = size'
      BY <1>7, <2>1 DEF s_sift_down, Filled
    <3> QED BY <3>1, <3>2, SwapKeepsSets
  <2>2. CASE ~(LEFT_OF(cur) < size /\ FirstOf(cur) # cur)
    BY <1>7, <2>2 DEF s_sift_down, LoopEnds, Elems, Handles, Filled
  <2> QED BY <2>1, <2>2
<1> QED
  BY <1>2, <1>3, <1>4, <1>5, <1>6, <1>7, <1>8, <1>9 DEF Next

\* The heap with backpointers implements the abstract priority queue: pop returns
\* an item of least key, remove the item the handle was issued for, refused
\* calls and the iterations of the sift loops change nothing the user sees.
THEOREM HeapImplementsPriorityQueue == Spec => ImplementsPriorityQueue
<1>1. Init => Abstract!Init
  <2> SUFFICES ASSUME Init PROVE Abstract!Init
    OBVIOUS
  <2>1. \A i \in Index : ~(i < size)
    BY PQAssumption DEF Init, Index
  <2> QED BY <2>1 DEF Init, Abstract!Init, Filled
<1>2. TypeOK /\ HeapInv /\ [Next]_vars => [Abstract!Next]_Abstract!specVars
  <2> SUFFICES ASSUME TypeOK, HeapInv, [Next]_vars
               PROVE  [Abstract!Next]_Abstract!specVars
    OBVIOUS
  <2>1. CASE Next
    BY <2>1, AbstractStep DEF Abstract!specVars, Elems, Handles
  <2>2. CASE UNCHANGED vars
    BY <2>2 DEF vars, Abstract!specVars, Filled
  <2> QED BY <2>1, <2>2
<1> QED
  BY <1>1, <1>2, HeapInvariant, PTL DEF Spec, ImplementsPriorityQueue, Abstract!Spec

HIDE DEF Pushing, Sifting

----------------------------------------------------------------------------
(* Array lists                                                             *)

\* A list's fields, with items among V.
ListOver(V) == [data : Seq(V), length : Nat, current_size : Nat, alloc : BOOLEAN]

\* The list ls holds the sequence s in memory whose size fits size_t.
Holds(ls, s) ==
    /\ ls.current_size = Len(ls.data) * item_size /\ ls.current_size < SizeLimit
    /\ ls.length = Len(s) /\ ls.length <= Len(ls.data)
    /\ \A i \in 1 .. Len(s) : s[i] # None => ls.data[i] = s[i]

ArrayOver(V) ==
    /\ ListItem \cup {None} \subseteq V
    /\ list \in [ListName -> ListOver(V)] /\ items \in [ListName -> Seq(V)]
    /\ \A l \in ListName : Holds(list[l], items[l])

ArrayInv == \E V : ArrayOver(V)

\* The memory e is d, but for the slot at an offset.
Written(d, at, item, e) ==
    Len(e) = Len(d) /\ e[at + 1] = item /\ \A i \in 1 .. Len(d) : i # at + 1 => e[i] = d[i]

\* The memory d with the items x at its front.
FrontReplaced(x, d) == x \o SubSeq(d, Len(x) + 1, Len(d))

\* The memory e begins with the items x.
StartsWith(x, e) == \A i \in 1 .. Len(x) : e[i] = x[i]

\* The memory e is d after n items moved from one offset to another.
Moved(d, to, from, n, e) ==
    /\ Len(e) = Len(d)
    /\ \A i \in 1 .. Len(d) : e[i] = IF to < i /\ i <= to + n THEN d[i - to + from] ELSE d[i]

----------------------------------------------------------------------------

\* A function on 1 .. n is a sequence.
LEMMA FunctionIsSeq ==
  ASSUME NEW V, NEW n \in Nat, NEW f \in [1 .. n -> V]
  PROVE  f \in Seq(V) /\ Len(f) = n /\ DOMAIN f = 1 .. n
OBVIOUS

\* The elements of a sequence, for steps that need no more.
LEMMA SeqIsFunction ==
  ASSUME NEW V, NEW s \in Seq(V)
  PROVE  Len(s) \in Nat /\ DOMAIN s = 1 .. Len(s) /\ s \in [1 .. Len(s) -> V]
BY LenProperties

\* Uninitialised slots.
LEMMA SlotsFacts ==
  ASSUME NEW V, None \in V, NEW n \in Nat
  PROVE  Slots(n) \in Seq(V) /\ Len(Slots(n)) = n
<1>1. Slots(n) \in [1 .. n -> V]
  BY DEF Slots
<1> QED BY <1>1, FunctionIsSeq

\* The larger of two numbers.
LEMMA MaxOfTwo ==
  ASSUME NEW a \in Int, NEW b \in Int
  PROVE  Max({a, b}) = IF a >= b THEN a ELSE b
<1> DEFINE m == IF a >= b THEN a ELSE b
<1>1. m \in {a, b} /\ \A y \in {a, b} : m >= y
  OBVIOUS
<1>2. \A x \in {a, b} : (\A y \in {a, b} : x >= y) => x = m
  OBVIOUS
<1>3. Max({a, b}) \in {a, b} /\ \A y \in {a, b} : Max({a, b}) >= y
  BY <1>1 DEF Max
<1> QED BY <1>2, <1>3

\* A multiple of the item size, divided by it.
LEMMA MultipleDivided ==
  ASSUME NEW k \in Nat, NEW m \in Nat \ {0}
  PROVE  (k * m) \div m = k
OBVIOUS

\* Twice a size, in size_t.
LEMMA DoubledInSizeT ==
  ASSUME NEW a \in Nat, NEW m \in Nat, a < m
  PROVE  (2 * a) % m = IF 2 * a < m THEN 2 * a ELSE 2 * a - m
OBVIOUS

\* More items take more memory.
LEMMA SizesOrdered ==
  ASSUME NEW a \in Nat, NEW b \in Nat, NEW m \in Nat \ {0}
  PROVE  /\ a * m \in Nat /\ (a <= b <=> a * m <= b * m)
         /\ 2 * (a * m) = (2 * a) * m
OBVIOUS

\* A list that is replaced by one that holds what it should.
LEMMA ListReplaced ==
  ASSUME NEW V, ArrayOver(V), NEW l \in ListName, NEW new \in ListOver(V), NEW s \in Seq(V),
         Holds(new, s), Becomes(l, new, s)
  PROVE  ArrayOver(V)'
BY DEF ArrayOver, Becomes, Holds

\* Growing keeps the items and makes room for the index, or the call fails; the doubled size
\* may wrap, and is smaller than the size in use then.
LEMMA EnsureCapacityFacts ==
  ASSUME ArrayConstants, NEW V, ArrayOver(V), NEW l \in ListName, NEW index \in Nat,
         NEW ls, ls = aws_array_list_ensure_capacity(l, index), ~Refuses(ls)
  PROVE  /\ ls \in ListOver(V) /\ Holds(ls, items[l]) /\ ls.length = list[l].length
         /\ index < Len(ls.data)
<1> DEFINE old == list[l]
           necessary == (index + 1) * item_size
           doubled == (2 * old.current_size) % SizeLimit
           new == Max({doubled, necessary})
           n == Len(old.data)
<1>1. /\ item_size \in Nat \ {0} /\ SizeLimit \in Nat
      /\ old \in ListOver(V) /\ Holds(old, items[l]) /\ None \in V
      /\ items[l] \in Seq(V)
  BY DEF ArrayConstants, ArrayOver
<1>2. /\ old.data \in Seq(V) /\ old.length \in Nat /\ old.current_size \in Nat /\ n \in Nat
      /\ old.current_size = n * item_size /\ old.current_size < SizeLimit
  BY <1>1, SeqIsFunction DEF ListOver, Holds
<1>3. /\ necessary \in Nat
      /\ doubled = IF 2 * old.current_size < SizeLimit THEN 2 * old.current_size ELSE 2 * old.current_size - SizeLimit
      /\ doubled \in Nat
  <2>1. index + 1 \in Nat
    OBVIOUS
  <2>2. necessary \in Nat
    BY <2>1, <1>1, SizesOrdered
  <2>3. doubled = IF 2 * old.current_size < SizeLimit THEN 2 * old.current_size ELSE 2 * old.current_size - SizeLimit
    BY <1>1, <1>2, DoubledInSizeT
  <2> HIDE DEF doubled
  <2>4. doubled \in Nat
    BY <2>3, <1>1, <1>2
  <2> QED BY <2>2, <2>3, <2>4
<1>d. ls = IF Overflows(index + 1) THEN [old EXCEPT !.length = -1]
           ELSE IF old.current_size >= necessary THEN old
           ELSE IF ~old.alloc \/ new < old.current_size THEN [old EXCEPT !.length = -1]
           ELSE [old EXCEPT !.data = old.data \o Slots(new \div item_size - n), !.current_size = new]
  BY DEF aws_array_list_ensure_capacity
<1>n. necessary = (index + 1) * item_size
  OBVIOUS
<1>m. n = Len(old.data)
  OBVIOUS
<1>4. new = IF doubled >= necessary THEN doubled ELSE necessary
  <2> HIDE DEF doubled, necessary
  <2> QED BY <1>3, MaxOfTwo
<1>r. [old EXCEPT !.length = -1].length = -1
  BY <1>1 DEF ListOver
<1>h. Overflows(index + 1) <=> necessary >= SizeLimit
  BY DEF Overflows
<1> HIDE DEF old, necessary, doubled, new, n
<1>5. ~Overflows(index + 1) /\ necessary < SizeLimit
  BY <1>d, <1>r, <1>h, <1>1, <1>3 DEF Refuses
<1>6. CASE old.current_size >= necessary
  <2>1. ls = old
    BY <1>5, <1>6, <1>d
  <2>2. index + 1 <= n
    BY <1>1, <1>2, <1>6, <1>n, SizesOrdered
  <2> QED BY <2>1, <2>2, <1>1, <1>2, <1>m DEF old
<1>7. CASE old.current_size < necessary
  <2>1. ls = [old EXCEPT !.data = old.data \o Slots(new \div item_size - n), !.current_size = new] /\ new >= old.current_size
    BY <1>5, <1>7, <1>d, <1>r, <1>1, <1>2, <1>3, <1>4 DEF Refuses
  <2>2. PICK k \in Nat : new = k * item_size /\ k >= n /\ k >= index + 1 /\ new < SizeLimit
    <3>1. CASE new = necessary
      <4>1. index + 1 >= n
        BY <1>1, <1>2, <1>7, <1>n, SizesOrdered
      <4> QED BY <3>1, <4>1, <1>5, <1>n
    <3>2. CASE new # necessary
      <4>1. new = doubled /\ doubled >= necessary
        BY <3>2, <1>4
      <4>2. doubled = 2 * old.current_size /\ 2 * old.current_size < SizeLimit
        BY <4>1, <1>1, <1>2, <1>3, <1>7
      <4>3. 2 * old.current_size = (2 * n) * item_size
        BY <1>1, <1>2, SizesOrdered
      <4>4. index + 1 <= 2 * n
        BY <4>1, <4>2, <4>3, <1>1, <1>2, <1>n, SizesOrdered
      <4> QED BY <4>1, <4>2, <4>3, <4>4, <1>2
    <3> QED BY <3>1, <3>2
  <2>3. new \div item_size = k
    BY <2>2, <1>1, MultipleDivided
  <2> DEFINE more == Slots(k - n)
  <2>4. more \in Seq(V) /\ Len(more) = k - n
    <3>1. k - n \in Nat
      BY <2>2, <1>2
    <3> QED BY <3>1, <1>1, SlotsFacts
  <2>5. ls = [old EXCEPT !.data = old.data \o more, !.current_size = new]
    BY <2>1, <2>3
  <2> HIDE DEF more
  <2>6. /\ old.data \o more \in Seq(V) /\ Len(old.data \o more) = k
        /\ \A i \in 1 .. n : (old.data \o more)[i] = old.data[i]
    BY <2>4, <1>2, <1>m, <2>2, ConcatProperties
  <2>7. /\ ls.data = old.data \o more /\ ls.current_size = new
        /\ ls.length = old.length /\ ls.alloc = old.alloc /\ ls \in ListOver(V)
    <3> DEFINE d == old.data \o more
    <3>1. d \in Seq(V) /\ new \in Nat
      BY <2>6, <2>2, <1>3, <1>4
    <3>2. ls = [old EXCEPT !.data = d, !.current_size = new]
      BY <2>5
    <3> HIDE DEF d
    <3>3. ls.data = d /\ ls.current_size = new /\ ls.length = old.length /\ ls.alloc = old.alloc /\ ls \in ListOver(V)
      BY <3>1, <3>2, <1>1 DEF ListOver
    <3> QED BY <3>3 DEF d
  <2>8. Holds(ls, items[l])
    <3>1. old.length = Len(items[l]) /\ old.length <= n /\ \A i \in 1 .. Len(items[l]) : items[l][i] # None => old.data[i] = items[l][i]
      BY <1>1, <1>m DEF Holds
    <3>2. Len(items[l]) \in Nat
      BY <1>1, SeqIsFunction
    <3> QED BY <3>1, <3>2, <2>2, <2>6, <2>7, <1>2, SMTT(30) DEF Holds
  <2> QED BY <2>2, <2>6, <2>7, <2>8 DEF old
<1> QED BY <1>2, <1>3, <1>6, <1>7

\* The items are moved within the memory the list has.
LEMMA DataChanged ==
  ASSUME NEW V, NEW ls \in ListOver(V), NEW s, Holds(ls, s),
         NEW d \in Seq(V), Len(d) = Len(ls.data), NEW t \in Seq(V), Len(t) <= Len(d),
         \A i \in 1 .. Len(t) : t[i] # None => d[i] = t[i],
         NEW new, new = [ls EXCEPT !.data = d, !.length = Len(t)]
  PROVE  new \in ListOver(V) /\ Holds(new, t)
<1>1. Len(t) \in Nat
  BY SeqIsFunction
<1>2. /\ new.data = d /\ new.length = Len(t) /\ new.current_size = ls.current_size
      /\ new.alloc = ls.alloc /\ new \in ListOver(V)
  BY <1>1 DEF ListOver
<1> QED BY <1>1, <1>2 DEF Holds

\* Writing one slot.
LEMMA Put1Facts ==
  ASSUME NEW V, NEW d \in Seq(V), NEW at \in Nat, at < Len(d), NEW item \in V,
         NEW e, e = Put1(d, at, item)
  PROVE  e \in Seq(V) /\ Written(d, at, item, e)
<1>1. Len(d) \in Nat /\ d \in [1 .. Len(d) -> V]
  BY SeqIsFunction
<1>2. e \in [1 .. Len(d) -> V] /\ e[at + 1] = item /\ \A i \in 1 .. Len(d) : i # at + 1 => e[i] = d[i]
  BY <1>1 DEF Put1
<1> QED BY <1>1, <1>2, FunctionIsSeq DEF Written

\* Moving a range of slots.
LEMMA MemmoveFacts ==
  ASSUME NEW V, NEW d \in Seq(V), NEW to \in Nat, NEW from \in Nat, NEW n \in Nat,
         from + n <= Len(d), to + n <= Len(d), NEW e, e = Memmove(d, to, from, n)
  PROVE  e \in Seq(V) /\ Moved(d, to, from, n, e)
<1>1. Len(d) \in Nat /\ d \in [1 .. Len(d) -> V] /\ DOMAIN d = 1 .. Len(d)
  BY SeqIsFunction
<1>2. \A i \in 1 .. Len(d) : i \in to + 1 .. to + n <=> to < i /\ i <= to + n
  BY <1>1
<1>3. \A i \in 1 .. Len(d) : i \in to + 1 .. to + n => i - to + from \in 1 .. Len(d)
  BY <1>1
<1>4. e \in [1 .. Len(d) -> V]
  BY <1>1, <1>3 DEF Memmove
<1>5. \A i \in 1 .. Len(d) : e[i] = IF to < i /\ i <= to + n THEN d[i - to + from] ELSE d[i]
  BY <1>1, <1>2 DEF Memmove
<1> QED BY <1>1, <1>4, <1>5, FunctionIsSeq DEF Moved

\* What a step of a list may rely on.
LEMMA ListState ==
  ASSUME NEW V, ArrayOver(V), NEW l \in ListName
  PROVE  /\ list[l] \in ListOver(V) /\ items[l] \in Seq(V) /\ Holds(list[l], items[l])
         /\ list[l].data \in Seq(V) /\ Len(list[l].data) \in Nat
         /\ list[l].length = Len(items[l]) /\ Len(items[l]) \in Nat
         /\ Len(items[l]) <= Len(list[l].data)
         /\ \A i \in 1 .. Len(items[l]) : items[l][i] # None => list[l].data[i] = items[l][i]
         /\ None \in V /\ ListItem \subseteq V
<1>1. /\ list[l] \in ListOver(V) /\ items[l] \in Seq(V) /\ Holds(list[l], items[l])
      /\ None \in V /\ ListItem \subseteq V
  BY DEF ArrayOver
<1>2. list[l].data \in Seq(V)
  BY <1>1 DEF ListOver
<1> QED BY <1>1, <1>2, SeqIsFunction DEF Holds

\* A call that fails leaves the lists as they are.
LEMMA ListFailsKeeps ==
  ASSUME NEW V, ArrayOver(V), ListFails
  PROVE  ArrayOver(V)'
BY DEF ArrayOver, ListFails, arrayVars

\* Setting an item, at the end or beyond it too.
LEMMA SetAtKeeps ==
  ASSUME ArrayConstants, NEW V, ArrayOver(V), NEW l \in ListName, NEW item \in ListItem, NEW index \in Nat,
         aws_array_list_set_at(l, item, index)
  PROVE  ArrayOver(V)'
<1> DEFINE ls == aws_array_list_ensure_capacity(l, index)
           s == items[l]
           t == SetSeq(s, index, item)
           d == Put1(ls.data, index, item)
           new == [ls EXCEPT !.data = Put1(@, index, item), !.length = Max({@, index + 1})]
<1>1. CASE Refuses(ls)
  BY <1>1, ListFailsKeeps DEF aws_array_list_set_at
<1>2. CASE ~Refuses(ls)
  <2>1. Becomes(l, new, t)
    BY <1>2 DEF aws_array_list_set_at
  <2>2. /\ ls \in ListOver(V) /\ Holds(ls, s) /\ ls.length = list[l].length
        /\ index < Len(ls.data)
    BY <1>2, EnsureCapacityFacts
  <2>3. /\ s \in Seq(V) /\ Len(s) \in Nat /\ ls.length = Len(s) /\ item \in V /\ None \in V
        /\ ls.data \in Seq(V) /\ Len(ls.data) \in Nat /\ Len(s) <= Len(ls.data)
        /\ \A i \in 1 .. Len(s) : s[i] # None => ls.data[i] = s[i]
    <3>1. ls.data \in Seq(V)
      BY <2>2 DEF ListOver
    <3> HIDE DEF ls
    <3> QED BY <3>1, <2>2, ListState, SeqIsFunction DEF Holds
  <2> HIDE DEF ls
  <2>4. Max({Len(s), index + 1}) = (IF Len(s) >= index + 1 THEN Len(s) ELSE index + 1)
    <3> HIDE DEF s
    <3>1. Len(s) \in Int /\ index + 1 \in Int
      BY <2>3
    <3> QED BY <3>1, MaxOfTwo, Zenon
  <2> DEFINE n == Max({Len(s), index + 1})
  <2>5. n \in Nat /\ Len(s) <= n /\ index + 1 <= n /\ (n = Len(s) \/ n = index + 1)
    <3> HIDE DEF n
    <3>1. n = (IF Len(s) >= index + 1 THEN Len(s) ELSE index + 1)
      BY <2>4 DEF n
    <3> QED BY <3>1, <2>3
  <2>6. t = [i \in 1 .. n |-> IF i = index + 1 THEN item ELSE IF i <= Len(s) THEN s[i] ELSE None]
    BY DEF SetSeq
  <2> HIDE DEF n, t
  <2>7. t \in Seq(V) /\ Len(t) = n
    <3>1. s \in [1 .. Len(s) -> V]
      BY <2>3, SeqIsFunction
    <3>2. t \in [1 .. n -> V]
      BY <3>1, <2>3, <2>5, <2>6
    <3> QED BY <3>2, <2>5, FunctionIsSeq
  <2>8. d \in Seq(V) /\ Written(ls.data, index, item, d)
    <3>1. d = Put1(ls.data, index, item)
      OBVIOUS
    <3> HIDE DEF d
    <3> QED BY <3>1, <2>2, <2>3, Put1Facts
  <2>9. new = [ls EXCEPT !.data = d, !.length = Len(t)]
    BY <2>2, <2>3, <2>7 DEF ListOver, n
  <2> HIDE DEF d, new
  <2>10. Len(t) <= Len(d) /\ \A i \in 1 .. Len(t) : t[i] # None => d[i] = t[i]
    <3>1. /\ Len(d) = Len(ls.data) /\ d[index + 1] = item
          /\ \A i \in 1 .. Len(ls.data) : i # index + 1 => d[i] = ls.data[i]
      BY <2>8 DEF Written
    <3>2. Len(t) <= Len(d)
      BY <3>1, <2>2, <2>3, <2>5, <2>7
    <3>3. ASSUME NEW i \in 1 .. Len(t), t[i] # None PROVE d[i] = t[i]
      <4>1. i \in 1 .. n /\ i \in 1 .. Len(ls.data)
        BY <3>1, <3>2, <2>3, <2>5, <2>7
      <4>2. t[i] = IF i = index + 1 THEN item ELSE IF i <= Len(s) THEN s[i] ELSE None
        BY <4>1, <2>6
      <4>3. CASE i = index + 1
        BY <4>2, <4>3, <3>1
      <4>4. CASE i # index + 1
        <5>1. i <= Len(s) /\ t[i] = s[i]
          BY <3>3, <4>2, <4>4
        <5>2. i \in 1 .. Len(s)
          BY <5>1, <4>1, <2>3
        <5> QED BY <5>1, <5>2, <4>1, <4>4, <3>1, <3>3, <2>3
      <4> QED BY <4>3, <4>4
    <3> QED BY <3>2, <3>3
  <2>11. new \in ListOver(V) /\ Holds(new, t)
    <3>1. Len(d) = Len(ls.data)
      BY <2>8 DEF Written
    <3> QED BY <3>1, <2>2, <2>7, <2>8, <2>9, <2>10, DataChanged
  <2> QED BY <2>1, <2>7, <2>11, ListReplaced
<1> QED BY <1>1, <1>2

\* All items move up by one.
LEMMA PushFrontKeeps ==
  ASSUME ArrayConstants, NEW V, ArrayOver(V), NEW l \in ListName, NEW item \in ListItem,
         aws_array_list_push_front(l, item)
  PROVE  ArrayOver(V)'
<1> DEFINE s == items[l]
           ls == aws_array_list_ensure_capacity(l, list[l].length)
           m == Memmove(ls.data, 1, 0, ls.length)
           d == Put1(m, 0, item)
           t == <<item>> \o s
           new == [ls EXCEPT !.data = Put1(Memmove(@, 1, 0, ls.length), 0, item), !.length = @ + 1]
<1>1. CASE Refuses(ls)
  BY <1>1, ListFailsKeeps DEF aws_array_list_push_front
<1>2. CASE ~Refuses(ls)
  <2>0. list[l].length \in Nat
    BY ListState
  <2>1. Becomes(l, new, t)
    BY <1>2 DEF aws_array_list_push_front
  <2>2. /\ ls \in ListOver(V) /\ Holds(ls, s) /\ ls.length = list[l].length
        /\ list[l].length < Len(ls.data)
    BY <1>2, <2>0, EnsureCapacityFacts
  <2>3. /\ s \in Seq(V) /\ Len(s) \in Nat /\ ls.length = Len(s) /\ item \in V
        /\ ls.data \in Seq(V) /\ Len(ls.data) \in Nat /\ Len(s) < Len(ls.data)
        /\ \A i \in 1 .. Len(s) : s[i] # None => ls.data[i] = s[i]
    <3>1. ls.data \in Seq(V)
      BY <2>2 DEF ListOver
    <3> HIDE DEF ls
    <3> QED BY <3>1, <2>2, ListState, SeqIsFunction DEF Holds
  <2> HIDE DEF ls
  <2>4. /\ m \in Seq(V) /\ Len(m) = Len(ls.data)
        /\ \A i \in 1 .. Len(ls.data) : m[i] = IF 1 < i /\ i <= 1 + Len(s) THEN ls.data[i - 1 + 0] ELSE ls.data[i]
    <3>1. 0 + Len(s) <= Len(ls.data) /\ 1 + Len(s) <= Len(ls.data)
      BY <2>3
    <3>2. m = Memmove(ls.data, 1, 0, Len(s))
      BY <2>3
    <3> HIDE DEF m
    <3>3. 1 \in Nat /\ 0 \in Nat
      OBVIOUS
    <3>4. m \in Seq(V) /\ Moved(ls.data, 1, 0, Len(s), m)
      BY <3>1, <3>2, <3>3, <2>3, MemmoveFacts
    <3> QED BY <3>4 DEF Moved
  <2>5. new = [ls EXCEPT !.data = d, !.length = Len(s) + 1]
    BY <2>2, <2>3 DEF ListOver
  <2> HIDE DEF m
  <2>6. /\ d \in Seq(V) /\ Len(d) = Len(ls.data)
        /\ d[1] = item /\ \A i \in 1 .. Len(ls.data) : i # 1 => d[i] = m[i]
    <3>1. d = Put1(m, 0, item) /\ 0 \in Nat /\ 0 < Len(m) /\ 0 + 1 = 1
      BY <2>3, <2>4
    <3> HIDE DEF d
    <3>2. d \in Seq(V) /\ Written(m, 0, item, d)
      BY <3>1, <2>3, <2>4, Put1Facts
    <3> QED BY <3>1, <3>2, <2>4 DEF Written
  <2>7. t \in Seq(V) /\ Len(t) = Len(s) + 1 /\ t[1] = item /\ \A i \in 2 .. Len(s) + 1 : t[i] = s[i - 1]
    BY <2>3
  <2> HIDE DEF d, t, new
  <2>8. ASSUME NEW i \in 1 .. Len(t), t[i] # None PROVE d[i] = t[i]
    <3>1. CASE i = 1
      BY <3>1, <2>3, <2>6, <2>7
    <3>2. CASE i # 1
      <4>1. i \in 2 .. Len(s) + 1 /\ i - 1 \in 1 .. Len(s) /\ i \in 1 .. Len(ls.data)
        BY <3>2, <2>3, <2>7
      <4>2. d[i] = ls.data[i - 1]
        BY <4>1, <2>3, <2>4, <2>6
      <4> QED BY <4>1, <4>2, <2>3, <2>7, <2>8
    <3> QED BY <3>1, <3>2
  <2>9. new \in ListOver(V) /\ Holds(new, t)
    <3>1. new = [ls EXCEPT !.data = d, !.length = Len(t)] /\ Len(t) <= Len(d)
      BY <2>3, <2>5, <2>6, <2>7
    <3>2. \A i \in 1 .. Len(t) : t[i] # None => d[i] = t[i]
      BY <2>8
    <3> QED BY <3>1, <3>2, <2>2, <2>6, <2>7, DataChanged
  <2> QED BY <2>1, <2>7, <2>9, ListReplaced
<1> QED BY <1>1, <1>2

\* A list emptied keeps its memory.
LEMMA ClearKeeps ==
  ASSUME NEW V, ArrayOver(V), NEW l \in ListName, aws_array_list_clear(l)
  PROVE  ArrayOver(V)'
<1> DEFINE ls == list[l]
           new == IF ls.data # <<>> THEN [ls EXCEPT !.length = 0] ELSE ls
<1>1. Becomes(l, new, <<>>)
  BY DEF aws_array_list_clear
<1>2. /\ ls \in ListOver(V) /\ Holds(ls, items[l]) /\ ls.data \in Seq(V)
      /\ Len(ls.data) \in Nat /\ ls.length = Len(items[l]) /\ Len(items[l]) \in Nat
      /\ Len(items[l]) <= Len(ls.data)
  BY ListState
<1> HIDE DEF ls
<1>3. <<>> \in Seq(V) /\ Len(<<>>) = 0
  OBVIOUS
<1>4. /\ new.data = ls.data /\ new.length = 0 /\ new.current_size = ls.current_size
      /\ new \in ListOver(V)
  <2>1. CASE ls.data # <<>>
    BY <1>2, <2>1 DEF ListOver
  <2>2. CASE ls.data = <<>>
    BY <1>2, <1>3, <2>2
  <2> QED BY <2>1, <2>2
<1> HIDE DEF new
<1>5. Holds(new, <<>>)
  BY <1>2, <1>3, <1>4 DEF Holds
<1> QED BY <1>1, <1>3, <1>4, <1>5, ListReplaced

\* The items after the first n move to the front.
LEMMA PopFrontKeeps ==
  ASSUME NEW V, ArrayOver(V), NEW l \in ListName, NEW n \in Nat, aws_array_list_pop_front_n(l, n)
  PROVE  ArrayOver(V)'
<1> DEFINE ls == list[l]
           s == items[l]
           r == ls.length - n
           d == Memmove(ls.data, 0, n, r)
           t == SubSeq(s, n + 1, Len(s))
           new == [ls EXCEPT !.data = Memmove(@, 0, n, r), !.length = r]
<1>1. CASE n >= ls.length
  BY <1>1, ClearKeeps DEF aws_array_list_pop_front_n
<1>2. CASE ~(n >= ls.length)
  <2>1. Becomes(l, new, t)
    BY <1>2 DEF aws_array_list_pop_front_n
  <2>2. /\ ls \in ListOver(V) /\ Holds(ls, s) /\ ls.data \in Seq(V) /\ s \in Seq(V)
        /\ Len(ls.data) \in Nat /\ ls.length = Len(s) /\ Len(s) \in Nat /\ Len(s) <= Len(ls.data)
        /\ \A i \in 1 .. Len(s) : s[i] # None => ls.data[i] = s[i]
    BY ListState
  <2> HIDE DEF ls
  <2>3. r \in Nat /\ n + r = Len(s) /\ r = Len(s) - n /\ n + r <= Len(ls.data) /\ 0 + r <= Len(ls.data)
    BY <1>2, <2>2
  <2>4. t \in Seq(V) /\ Len(t) = r /\ \A i \in 1 .. r : t[i] = s[n + i]
    BY <2>2, <2>3
  <2>5. new = [ls EXCEPT !.data = d, !.length = Len(t)]
    BY <2>2, <2>4 DEF ListOver
  <2>6. d = Memmove(ls.data, 0, n, r) /\ 0 \in Nat
    OBVIOUS
  <2> HIDE DEF d, r, t, new
  <2>7. d \in Seq(V) /\ Moved(ls.data, 0, n, r, d)
    BY <2>2, <2>3, <2>6, MemmoveFacts
  <2>8. ASSUME NEW i \in 1 .. Len(t), t[i] # None PROVE d[i] = t[i]
    <3>1. i \in 1 .. r /\ i \in 1 .. Len(ls.data) /\ n + i \in 1 .. Len(s) /\ i - 0 + n = n + i /\ 0 < i /\ i <= 0 + r
      BY <2>2, <2>3, <2>4
    <3>2. d[i] = ls.data[n + i]
      BY <3>1, <2>7 DEF Moved
    <3>3. t[i] = s[n + i]
      BY <3>1, <2>4
    <3> QED BY <3>1, <3>2, <3>3, <2>2, <2>8
  <2>9. Len(d) = Len(ls.data) /\ Len(t) <= Len(d)
    BY <2>2, <2>3, <2>4, <2>7 DEF Moved
  <2>10. new \in ListOver(V) /\ Holds(new, t)
    BY <2>2, <2>4, <2>5, <2>7, <2>8, <2>9, DataChanged
  <2> QED BY <2>1, <2>4, <2>10, ListReplaced
<1> QED BY <1>1, <1>2

\* The last item is taken from a list that holds at least one.
LEMMA PoppedBackFacts ==
  ASSUME NEW V, NEW ls \in ListOver(V), NEW s, Holds(ls, s), None \in V, ls.length > 0,
         NEW t \in Seq(V), Len(t) = ls.length - 1,
         \A i \in 1 .. Len(t) : t[i] # None => ls.data[i] = t[i]
  PROVE  PoppedBack(ls) \in ListOver(V) /\ Holds(PoppedBack(ls), t)
<1> DEFINE k == ls.length - 1
           d == Put1(ls.data, k, None)
<1>1. ls.data \in Seq(V) /\ ls.length \in Nat /\ ls.length <= Len(ls.data) /\ Len(ls.data) \in Nat
  <2>1. ls.data \in Seq(V)
    BY DEF ListOver
  <2> QED BY <2>1, SeqIsFunction DEF ListOver, Holds
<1>2. k \in Nat /\ k < Len(ls.data) /\ Len(t) = k
  BY <1>1
<1>3. PoppedBack(ls) = [ls EXCEPT !.data = d, !.length = Len(t)]
  BY <1>1, <1>2 DEF PoppedBack, ListOver
<1>4. d = Put1(ls.data, k, None)
  OBVIOUS
<1> HIDE DEF d, k
<1>5. d \in Seq(V) /\ Written(ls.data, k, None, d)
  BY <1>1, <1>2, <1>4, Put1Facts
<1>6. ASSUME NEW i \in 1 .. Len(t), t[i] # None PROVE d[i] = t[i]
  <2>1. i \in 1 .. Len(ls.data) /\ i # k + 1
    BY <1>1, <1>2
  <2> QED BY <2>1, <1>5, <1>6 DEF Written
<1>7. Len(d) = Len(ls.data) /\ Len(t) <= Len(d)
  BY <1>1, <1>2, <1>5 DEF Written
<1> DEFINE new == PoppedBack(ls)
<1> HIDE DEF new
<1>8. new = [ls EXCEPT !.data = d, !.length = Len(t)]
  BY <1>3 DEF new
<1>9. new \in ListOver(V) /\ Holds(new, t)
  BY <1>5, <1>6, <1>7, <1>8, DataChanged
<1> QED BY <1>9 DEF new

\* Popping the last item.
LEMMA PopBackKeeps ==
  ASSUME NEW V, ArrayOver(V), NEW l \in ListName, aws_array_list_pop_back(l)
  PROVE  ArrayOver(V)'
<1> DEFINE ls == list[l]
           s == items[l]
           t == Front(s)
<1>1. CASE ls.length = 0
  BY <1>1, ListFailsKeeps DEF aws_array_list_pop_back
<1>2. CASE ls.length # 0
  <2>1. Becomes(l, PoppedBack(ls), t)
    BY <1>2 DEF aws_array_list_pop_back
  <2>2. /\ ls \in ListOver(V) /\ Holds(ls, s) /\ s \in Seq(V) /\ None \in V
        /\ ls.length = Len(s) /\ Len(s) \in Nat
        /\ \A i \in 1 .. Len(s) : s[i] # None => ls.data[i] = s[i]
    BY ListState
  <2> HIDE DEF ls
  <2>3. ls.length > 0
    BY <1>2, <2>2
  <2>4. t \in Seq(V) /\ Len(t) = Len(s) - 1 /\ \A i \in 1 .. Len(t) : t[i] = s[i]
    BY <2>2, <2>3 DEF Front
  <2> HIDE DEF t
  <2>5. \A i \in 1 .. Len(t) : t[i] # None => ls.data[i] = t[i]
    BY <2>2, <2>4
  <2>6. PoppedBack(ls) \in ListOver(V) /\ Holds(PoppedBack(ls), t)
    BY <2>2, <2>3, <2>4, <2>5, PoppedBackFacts
  <2> QED BY <2>1, <2>4, <2>6, ListReplaced
<1> QED BY <1>1, <1>2

\* A sorted list is as long as it was.
LEMMA SortedFacts ==
  ASSUME NEW V, NEW s \in Seq(V)
  PROVE  \E W : V \subseteq W /\ Sorted(s) \in Seq(W) /\ Len(Sorted(s)) = Len(s)
<1> DEFINE perm == CHOOSE p \in Bijection(DOMAIN s, DOMAIN s) :
                       \A i, j \in DOMAIN s : i < j => s[p[i]] <= s[p[j]]
           f == [i \in DOMAIN s |-> s[perm[i]]]
           W == V \cup {f[i] : i \in DOMAIN s}
<1>1. Sorted(s) = f
  BY DEF Sorted
<1> HIDE DEF perm
<1>2. Len(s) \in Nat /\ DOMAIN s = 1 .. Len(s)
  BY SeqIsFunction
<1>3. f \in [1 .. Len(s) -> W]
  BY <1>2
<1>4. V \subseteq W
  OBVIOUS
<1> HIDE DEF f, W
<1>5. f \in Seq(W) /\ Len(f) = Len(s)
  BY <1>2, <1>3, FunctionIsSeq
<1> QED BY <1>1, <1>4, <1>5

\* The invariant does not depend on the set of values.
LEMMA ArrayOverMore ==
  ASSUME NEW V, NEW W, V \subseteq W, ArrayOver(V)
  PROVE  ArrayOver(W)
<1>1. Seq(V) \subseteq Seq(W)
  OBVIOUS
<1>2. ListOver(V) \subseteq ListOver(W)
  BY <1>1 DEF ListOver
<1> QED BY <1>1, <1>2 DEF ArrayOver

\* The first items of a sequence.
LEMMA PrefixFacts ==
  ASSUME NEW V, NEW s \in Seq(V), NEW n \in Nat, n <= Len(s)
  PROVE  /\ SubSeq(s, 1, n) \in Seq(V) /\ Len(SubSeq(s, 1, n)) = n
         /\ \A i \in 1 .. n : SubSeq(s, 1, n)[i] = s[i]
<1>1. Len(s) \in Nat /\ s \in [1 .. Len(s) -> V]
  BY SeqIsFunction
<1>2. \A i \in 1 .. n : s[i] \in V
  BY <1>1
<1> QED BY <1>1, <1>2, SubSeqProperties

\* The memory that starts with the items x, as long as d.
LEMMA FrontWritten ==
  ASSUME NEW V, NEW d \in Seq(V), NEW x \in Seq(V), Len(x) <= Len(d),
         NEW e, e = FrontReplaced(x, d)
  PROVE  e \in Seq(V) /\ Len(e) = Len(d) /\ StartsWith(x, e)
<1> DEFINE y == SubSeq(d, Len(x) + 1, Len(d))
<1>1. Len(d) \in Nat /\ d \in [1 .. Len(d) -> V] /\ Len(x) \in Nat
  BY SeqIsFunction
<1>2. \A i \in Len(x) + 1 .. Len(d) : d[i] \in V
  BY <1>1
<1>3. y \in Seq(V) /\ Len(y) = IF Len(x) + 1 <= Len(d) THEN Len(d) - (Len(x) + 1) + 1 ELSE 0
  BY <1>1, <1>2, SubSeqProperties
<1>4. Len(y) = Len(d) - Len(x)
  BY <1>1, <1>3
<1> HIDE DEF y
<1>5. x \o y \in Seq(V) /\ Len(x \o y) = Len(x) + Len(y) /\ \A i \in 1 .. Len(x) : (x \o y)[i] = x[i]
  <2>1. /\ x \o y \in Seq(V) /\ Len(x \o y) = Len(x) + Len(y)
        /\ \A i \in 1 .. Len(x) + Len(y) : (x \o y)[i] = IF i <= Len(x) THEN x[i] ELSE y[i - Len(x)]
    BY <1>3, ConcatProperties
  <2>2. \A i \in 1 .. Len(x) : i \in 1 .. Len(x) + Len(y) /\ i <= Len(x)
    BY <1>1, <1>4
  <2> QED BY <2>1, <2>2
<1>6. e = x \o y
  BY DEF y, FrontReplaced
<1>7. Len(e) = Len(d)
  <2>1. Len(x) + Len(y) = Len(d)
    BY <1>1, <1>4
  <2> QED BY <2>1, <1>5, <1>6, Zenon
<1>8. \A i \in 1 .. Len(x) : e[i] = x[i]
  BY <1>5, <1>6, Zenon
<1> QED BY <1>5, <1>6, <1>7, <1>8, Zenon DEF StartsWith

\* An item in the middle: the items after it move down, and the last slot is cleared.
LEMMA EraseKeeps ==
  ASSUME NEW V, ArrayOver(V), NEW l \in ListName, NEW index \in Nat, aws_array_list_erase(l, index)
  PROVE  ArrayOver(V)'
<1> DEFINE ls == list[l]
           s == items[l]
           n == ls.length - index - 1
           d == Memmove(ls.data, index, index + 1, n)
           moved == [ls EXCEPT !.data = Memmove(@, index, index + 1, n)]
           t == RemoveAt(s, index + 1)
<1>1. CASE index >= ls.length
  BY <1>1, ListFailsKeeps DEF aws_array_list_erase
<1>2. CASE ~(index >= ls.length) /\ index = 0
  <2>1. aws_array_list_pop_front_n(l, 1)
    BY <1>2 DEF aws_array_list_erase
  <2>2. 1 \in Nat
    OBVIOUS
  <2> QED BY <2>1, <2>2, PopFrontKeeps
<1>3. CASE ~(index >= ls.length) /\ index # 0 /\ index = ls.length - 1
  <2>1. aws_array_list_pop_back(l)
    BY <1>3 DEF aws_array_list_erase
  <2> QED BY <2>1, PopBackKeeps
<1>4. CASE ~(index >= ls.length) /\ index # 0 /\ index # ls.length - 1
  <2>1. Becomes(l, PoppedBack(moved), t)
    BY <1>4 DEF aws_array_list_erase
  <2>2. /\ ls \in ListOver(V) /\ Holds(ls, s) /\ ls.data \in Seq(V) /\ s \in Seq(V) /\ None \in V
        /\ Len(ls.data) \in Nat /\ ls.length = Len(s) /\ Len(s) \in Nat /\ Len(s) <= Len(ls.data)
        /\ \A i \in 1 .. Len(s) : s[i] # None => ls.data[i] = s[i]
    BY ListState
  <2> HIDE DEF ls
  <2>3. /\ n \in Nat /\ index + 1 \in Nat /\ n = Len(s) - index - 1
        /\ (index + 1) + n <= Len(ls.data) /\ index + n <= Len(ls.data) /\ index + 1 \in 1 .. Len(s)
    <3>1. ls.length \in Nat /\ index < ls.length /\ index # ls.length - 1 /\ ls.length = Len(s) /\ ls.length <= Len(ls.data)
      BY <1>4, <2>2
    <3> HIDE DEF s
    <3> QED BY <3>1, <2>2
  <2>4. moved = [ls EXCEPT !.data = d] /\ d = Memmove(ls.data, index, index + 1, n)
    OBVIOUS
  <2> HIDE DEF d, n, moved
  <2>5. d \in Seq(V) /\ Moved(ls.data, index, index + 1, n, d)
    BY <2>2, <2>3, <2>4, MemmoveFacts
  <2>6. /\ moved \in ListOver(V) /\ moved.data = d /\ moved.length = Len(s)
        /\ moved.current_size = ls.current_size
    BY <2>2, <2>4, <2>5 DEF ListOver
  <2>7. /\ t \in Seq(V) /\ Len(t) = Len(s) - 1
        /\ \A i \in 1 .. Len(s) - 1 : t[i] = IF i < index + 1 THEN s[i] ELSE s[i + 1]
    <3>1. index + 1 \in DOMAIN s
      BY <2>2, <2>3, SeqIsFunction
    <3> QED BY <3>1, <2>2, RemoveAtFacts
  <2> HIDE DEF t
  <2>8. ASSUME NEW i \in 1 .. Len(t), t[i] # None PROVE d[i] = t[i]
    <3>1. i \in 1 .. Len(s) - 1 /\ i \in 1 .. Len(ls.data) /\ i \in 1 .. Len(s) /\ i + 1 \in 1 .. Len(s)
      BY <2>2, <2>7
    <3>2. t[i] = IF i < index + 1 THEN s[i] ELSE s[i + 1]
      BY <3>1, <2>7
    <3>3. d[i] = IF index < i /\ i <= index + n THEN ls.data[i - index + (index + 1)] ELSE ls.data[i]
      BY <3>1, <2>5 DEF Moved
    <3>4. CASE i < index + 1
      <4>1. ~(index < i)
        BY <3>4, <3>1
      <4> QED BY <4>1, <3>1, <3>2, <3>3, <3>4, <2>2, <2>8
    <3>5. CASE ~(i < index + 1)
      <4>1. index < i /\ i <= index + n /\ i - index + (index + 1) = i + 1
        BY <3>1, <3>5, <2>2, <2>3
      <4>2. d[i] = ls.data[i + 1] /\ t[i] = s[i + 1]
        BY <4>1, <3>2, <3>3, <3>5
      <4> QED BY <4>2, <3>1, <2>2, <2>8
    <3> QED BY <3>4, <3>5
  <2>9. Len(d) = Len(ls.data)
    BY <2>5 DEF Moved
  <2>10. PoppedBack(moved) \in ListOver(V) /\ Holds(PoppedBack(moved), t)
    <3> DEFINE u == SubSeq(d, 1, Len(s))
    <3>1. u \in Seq(V) /\ Len(u) = Len(s) /\ \A i \in 1 .. Len(s) : u[i] = d[i]
      BY <2>2, <2>5, <2>9, PrefixFacts
    <3> HIDE DEF u
    <3>2. Holds(moved, u)
      BY <3>1, <2>2, <2>6, <2>9 DEF Holds
    <3>3. moved.length > 0 /\ Len(t) = moved.length - 1
      BY <2>2, <2>3, <2>6, <2>7
    <3>4. \A i \in 1 .. Len(t) : t[i] # None => moved.data[i] = t[i]
      BY <2>6, <2>8
    <3> QED BY <3>2, <3>3, <3>4, <2>2, <2>6, <2>7, PoppedBackFacts
  <2> QED BY <2>1, <2>7, <2>10, ListReplaced
<1> QED BY <1>1, <1>2, <1>3, <1>4

\* Two items change places.
LEMMA SwapKeeps ==
  ASSUME NEW V, ArrayOver(V), NEW l \in ListName, NEW a \in Nat, NEW b \in Nat, aws_array_list_swap(l, a, b)
  PROVE  ArrayOver(V)'
<1> DEFINE ls == list[l]
           s == items[l]
           d == [ls.data EXCEPT ![a + 1] = ls.data[b + 1], ![b + 1] = ls.data[a + 1]]
           t == [s EXCEPT ![a + 1] = s[b + 1], ![b + 1] = s[a + 1]]
           new == [ls EXCEPT !.data = d]
<1>1. CASE a = b
  BY <1>1, ListFailsKeeps DEF aws_array_list_swap
<1>2. CASE a # b
  <2>1. Becomes(l, new, t) /\ a < ls.length /\ b < ls.length
    BY <1>2 DEF aws_array_list_swap
  <2>2. /\ ls \in ListOver(V) /\ Holds(ls, s) /\ ls.data \in Seq(V) /\ s \in Seq(V)
        /\ Len(ls.data) \in Nat /\ ls.length = Len(s) /\ Len(s) \in Nat /\ Len(s) <= Len(ls.data)
        /\ \A i \in 1 .. Len(s) : s[i] # None => ls.data[i] = s[i]
    BY ListState
  <2>3. ls.data \in [1 .. Len(ls.data) -> V] /\ s \in [1 .. Len(s) -> V]
    <3> HIDE DEF ls
    <3> QED BY <2>2, SeqIsFunction
  <2>4. a + 1 \in 1 .. Len(s) /\ b + 1 \in 1 .. Len(s) /\ a + 1 \in 1 .. Len(ls.data) /\ b + 1 \in 1 .. Len(ls.data)
    <3> HIDE DEF ls
    <3> QED BY <2>1, <2>2
  <2> HIDE DEF ls
  <2>5. d \in [1 .. Len(ls.data) -> V] /\ t \in [1 .. Len(s) -> V]
    BY <2>3, <2>4
  <2>6. d \in Seq(V) /\ Len(d) = Len(ls.data) /\ t \in Seq(V) /\ Len(t) = Len(s)
    <3> HIDE DEF d, t
    <3> QED BY <2>2, <2>5, FunctionIsSeq
  <2>7. ASSUME NEW i \in 1 .. Len(t), t[i] # None PROVE d[i] = t[i]
    <3>1. i \in 1 .. Len(s) /\ i \in 1 .. Len(ls.data)
      BY <2>2, <2>6
    <3>2. t[i] = IF i = b + 1 THEN s[a + 1] ELSE IF i = a + 1 THEN s[b + 1] ELSE s[i]
      BY <3>1, <2>3, <2>4
    <3>3. d[i] = IF i = b + 1 THEN ls.data[a + 1] ELSE IF i = a + 1 THEN ls.data[b + 1] ELSE ls.data[i]
      BY <3>1, <2>3, <2>4
    <3> HIDE DEF d, t
    <3> QED BY <3>1, <3>2, <3>3, <2>2, <2>4, <2>7
  <2>8. new = [ls EXCEPT !.data = d, !.length = Len(t)]
    <3> HIDE DEF d, t
    <3> QED BY <2>2, <2>6 DEF ListOver
  <2>9. Len(t) <= Len(d)
    <3> HIDE DEF d, t
    <3> QED BY <2>2, <2>6
  <2> HIDE DEF d, t, new
  <2>10. new \in ListOver(V) /\ Holds(new, t)
    BY <2>2, <2>6, <2>7, <2>8, <2>9, DataChanged
  <2> QED BY <2>1, <2>6, <2>10, ListReplaced
<1> QED BY <1>1, <1>2

\* What a list of set items holds is exactly the front of its memory.
LEMMA SetItemsInMemory ==
  ASSUME NEW V, ArrayOver(V), NEW l \in ListName, ~Contains(items[l], None)
  PROVE  SubSeq(list[l].data, 1, list[l].length) = items[l]
<1> DEFINE ls == list[l]
           s == items[l]
           x == SubSeq(ls.data, 1, ls.length)
<1>1. /\ ls.data \in Seq(V) /\ s \in Seq(V) /\ ls.length = Len(s) /\ Len(s) \in Nat /\ Len(s) <= Len(ls.data)
      /\ \A i \in 1 .. Len(s) : s[i] # None => ls.data[i] = s[i]
  BY ListState
<1> HIDE DEF ls
<1>2. \A i \in 1 .. Len(s) : s[i] # None
  BY DEF Contains
<1>3. x \in Seq(V) /\ Len(x) = Len(s) /\ \A i \in 1 .. Len(s) : x[i] = ls.data[i]
  BY <1>1, PrefixFacts
<1> HIDE DEF x
<1>4. \A i \in 1 .. Len(s) : x[i] = s[i]
  BY <1>1, <1>2, <1>3
<1>5. x = s
  <2>1. x \in [1 .. Len(s) -> V] /\ s \in [1 .. Len(s) -> V]
    BY <1>1, <1>3, SeqIsFunction
  <2> QED BY <2>1, <1>4
<1> QED BY <1>5 DEF x, ls

\* Sorting the items that are set; the set of values may have to grow.
LEMMA SortKeeps ==
  ASSUME NEW V, ArrayOver(V), NEW l \in ListName, aws_array_list_sort(l)
  PROVE  \E W : ArrayOver(W)'
<1> DEFINE ls == list[l]
           s == items[l]
           t == Sorted(s)
           d == t \o SubSeq(ls.data, Len(t) + 1, Len(ls.data))
           new == [ls EXCEPT !.data = Sorted(SubSeq(@, 1, ls.length)) \o SubSeq(@, ls.length + 1, Len(@))]
<1>1. Becomes(l, new, t) /\ ~Contains(s, None)
  BY DEF aws_array_list_sort
<1>2. s \in Seq(V)
  BY ListState
<1>3. PICK W : V \subseteq W /\ t \in Seq(W) /\ Len(t) = Len(s)
  BY <1>2, SortedFacts
<1>4. ArrayOver(W)
  BY <1>3, ArrayOverMore
<1>5. /\ ls \in ListOver(W) /\ Holds(ls, s) /\ ls.data \in Seq(W)
      /\ Len(ls.data) \in Nat /\ ls.length = Len(s) /\ Len(s) \in Nat /\ Len(s) <= Len(ls.data)
  BY <1>4, ListState
<1>6. new = [ls EXCEPT !.data = d, !.length = Len(t)]
  <2>1. SubSeq(ls.data, 1, ls.length) = s
    BY <1>1, SetItemsInMemory
  <2>2. new = [ls EXCEPT !.data = Sorted(SubSeq(ls.data, 1, ls.length)) \o SubSeq(ls.data, ls.length + 1, Len(ls.data))]
    OBVIOUS
  <2> HIDE DEF ls, t, new
  <2>3. new = [ls EXCEPT !.data = d]
    BY <2>1, <2>2, <1>3, <1>5 DEF t
  <2> HIDE DEF d
  <2> QED BY <2>3, <1>3, <1>5 DEF ListOver
<1> HIDE DEF ls, t, new
<1>7. d \in Seq(W) /\ Len(d) = Len(ls.data) /\ StartsWith(t, d)
  <2>1. Len(t) <= Len(ls.data) /\ d = FrontReplaced(t, ls.data)
    BY <1>3, <1>5 DEF FrontReplaced
  <2> HIDE DEF d
  <2> QED BY <2>1, <1>3, <1>5, FrontWritten
<1> HIDE DEF d
<1>8. Len(t) <= Len(d) /\ \A i \in 1 .. Len(t) : t[i] # None => d[i] = t[i]
  BY <1>3, <1>5, <1>7 DEF StartsWith
<1>9. new \in ListOver(W) /\ Holds(new, t)
  BY <1>3, <1>5, <1>6, <1>7, <1>8, DataChanged
<1>10. ArrayOver(W)'
  BY <1>1, <1>3, <1>4, <1>9, ListReplaced
<1> QED BY <1>10

\* Memory is cut to the items it holds.
LEMMA ShrinkKeeps ==
  ASSUME ArrayConstants, NEW V, ArrayOver(V), NEW l \in ListName, aws_array_list_shrink_to_fit(l)
  PROVE  ArrayOver(V)'
<1> DEFINE ls == list[l]
           s == items[l]
           x == SubSeq(ls.data, 1, ls.length)
           new == [ls EXCEPT !.data = SubSeq(@, 1, ls.length), !.current_size = ls.length * item_size]
<1>1. CASE ~ls.alloc
  BY <1>1, ListFailsKeeps DEF aws_array_list_shrink_to_fit
<1>2. CASE ls.alloc
  <2>1. Becomes(l, new, s)
    BY <1>2 DEF aws_array_list_shrink_to_fit
  <2>2. /\ ls \in ListOver(V) /\ Holds(ls, s) /\ ls.data \in Seq(V) /\ s \in Seq(V)
        /\ Len(ls.data) \in Nat /\ ls.length = Len(s) /\ Len(s) \in Nat /\ Len(s) <= Len(ls.data)
        /\ \A i \in 1 .. Len(s) : s[i] # None => ls.data[i] = s[i]
    BY ListState
  <2> HIDE DEF ls
  <2>3. x \in Seq(V) /\ Len(x) = Len(s) /\ \A i \in 1 .. Len(s) : x[i] = ls.data[i]
    BY <2>2, PrefixFacts
  <2>4. /\ item_size \in Nat \ {0} /\ SizeLimit \in Nat
        /\ ls.current_size = Len(ls.data) * item_size /\ ls.current_size < SizeLimit
    BY <2>2 DEF ArrayConstants, Holds
  <2> DEFINE bytes == Len(s) * item_size
  <2>5. bytes \in Nat /\ bytes < SizeLimit
    <3>1. bytes \in Nat /\ bytes <= Len(ls.data) * item_size
      BY <2>2, <2>4, SizesOrdered
    <3> HIDE DEF bytes
    <3> QED BY <3>1, <2>4, <2>2
  <2>6. new = [ls EXCEPT !.data = x, !.current_size = bytes]
    BY <2>2
  <2> HIDE DEF x, bytes, new
  <2>7. new \in ListOver(V) /\ new.data = x /\ new.current_size = bytes /\ new.length = ls.length
    BY <2>2, <2>3, <2>5, <2>6 DEF ListOver
  <2>8. Holds(new, s)
    <3>1. new.current_size = Len(new.data) * item_size
      BY <2>3, <2>7 DEF bytes
    <3>2. \A i \in 1 .. Len(s) : s[i] # None => new.data[i] = s[i]
      BY <2>2, <2>3, <2>7
    <3> QED BY <3>1, <3>2, <2>2, <2>3, <2>5, <2>7 DEF Holds
  <2> QED BY <2>1, <2>2, <2>7, <2>8, ListReplaced
<1> QED BY <1>1, <1>2

\* A copy keeps the larger memory, or is allocated to fit.
LEMMA CopyKeeps ==
  ASSUME ArrayConstants, NEW V, ArrayOver(V), NEW from \in ListName, NEW to \in ListName,
         aws_array_list_copy(from, to)
  PROVE  ArrayOver(V)'
<1> DEFINE ls == list[to]
           old == list[from]
           s == items[from]
           x == SubSeq(old.data, 1, old.length)
           bytes == Len(x) * item_size
           d == x \o SubSeq(ls.data, Len(x) + 1, Len(ls.data))
           kept == [ls EXCEPT !.data = x \o SubSeq(@, Len(x) + 1, Len(@)), !.length = Len(x)]
           fresh == [data |-> x, length |-> Len(x), current_size |-> bytes, alloc |-> TRUE]
<1>1. \/ ls.current_size >= bytes /\ Becomes(to, kept, s)
      \/ Becomes(to, fresh, s)
      \/ ListFails
  BY DEF aws_array_list_copy
<1>2. /\ old \in ListOver(V) /\ Holds(old, s) /\ old.data \in Seq(V) /\ s \in Seq(V)
      /\ Len(old.data) \in Nat /\ old.length = Len(s) /\ Len(s) \in Nat /\ Len(s) <= Len(old.data)
      /\ \A i \in 1 .. Len(s) : s[i] # None => old.data[i] = s[i]
  BY ListState
<1>3. /\ ls \in ListOver(V) /\ Holds(ls, items[to]) /\ ls.data \in Seq(V) /\ Len(ls.data) \in Nat
  BY ListState
<1> HIDE DEF ls, old
<1>4. x \in Seq(V) /\ Len(x) = Len(s) /\ \A i \in 1 .. Len(s) : s[i] # None => x[i] = s[i]
  <2>1. x \in Seq(V) /\ Len(x) = Len(s) /\ \A i \in 1 .. Len(s) : x[i] = old.data[i]
    BY <1>2, PrefixFacts
  <2> HIDE DEF x
  <2> QED BY <2>1, <1>2
<1> HIDE DEF x
<1>5. /\ item_size \in Nat \ {0} /\ SizeLimit \in Nat
      /\ old.current_size = Len(old.data) * item_size /\ old.current_size < SizeLimit
      /\ ls.current_size = Len(ls.data) * item_size
  BY <1>2, <1>3 DEF ArrayConstants, Holds
<1>6. bytes \in Nat /\ bytes < SizeLimit
  <2>1. bytes \in Nat /\ bytes <= Len(old.data) * item_size
    BY <1>2, <1>4, <1>5, SizesOrdered
  <2> HIDE DEF bytes
  <2> QED BY <2>1, <1>2, <1>5
<1>7. CASE ls.current_size >= bytes /\ Becomes(to, kept, s)
  <2>1. Len(x) <= Len(ls.data)
    <3>1. Len(x) * item_size <= Len(ls.data) * item_size /\ Len(x) \in Nat
      BY <1>2, <1>3, <1>4, <1>5, <1>7
    <3> QED BY <3>1, <1>3, <1>5, SizesOrdered
  <2>2. kept = [ls EXCEPT !.data = d, !.length = Len(s)]
    BY <1>4
  <2>3. d = FrontReplaced(x, ls.data)
    BY DEF FrontReplaced
  <2> HIDE DEF d, kept, bytes
  <2>4. d \in Seq(V) /\ Len(d) = Len(ls.data) /\ StartsWith(x, d)
    BY <2>1, <2>3, <1>3, <1>4, FrontWritten
  <2>5. Len(s) <= Len(d) /\ \A i \in 1 .. Len(s) : s[i] # None => d[i] = s[i]
    BY <2>1, <2>4, <1>4 DEF StartsWith
  <2>6. kept \in ListOver(V) /\ Holds(kept, s)
    BY <2>2, <2>4, <2>5, <1>2, <1>3, DataChanged
  <2> QED BY <2>6, <1>2, <1>7, ListReplaced
<1>8. CASE Becomes(to, fresh, s)
  <2>1. fresh \in ListOver(V)
    <3> HIDE DEF bytes
    <3> QED BY <1>2, <1>4, <1>6 DEF ListOver
  <2>2. Holds(fresh, s)
    <3>1. fresh.current_size = Len(x) * item_size /\ fresh.current_size = bytes /\ fresh.length = Len(x) /\ fresh.data = x
      OBVIOUS
    <3> HIDE DEF bytes, fresh
    <3> QED BY <3>1, <1>2, <1>4, <1>6 DEF Holds
  <2> HIDE DEF fresh
  <2> QED BY <2>1, <2>2, <1>2, <1>8, ListReplaced
<1> QED BY <1>1, <1>7, <1>8, ListFailsKeeps

\* Two lists exchange all they have.
LEMMA SwapContentsKeeps ==
  ASSUME NEW V, ArrayOver(V), NEW a \in ListName, NEW b \in ListName, aws_array_list_swap_contents(a, b)
  PROVE  ArrayOver(V)'
<1>1. /\ list \in [ListName -> ListOver(V)] /\ items \in [ListName -> Seq(V)]
      /\ \A l \in ListName : Holds(list[l], items[l])
  BY DEF ArrayOver
<1>2. /\ list' = [list EXCEPT ![a] = list[b], ![b] = list[a]]
      /\ items' = [items EXCEPT ![a] = items[b], ![b] = items[a]]
  BY DEF aws_array_list_swap_contents
<1>3. list' \in [ListName -> ListOver(V)] /\ items' \in [ListName -> Seq(V)]
  BY <1>1, <1>2
<1>4. ASSUME NEW l \in ListName PROVE Holds(list'[l], items'[l])
  <2>1. CASE l = b
    BY <1>1, <1>2, <2>1
  <2>2. CASE l = a /\ l # b
    BY <1>1, <1>2, <2>2
  <2>3. CASE l # a /\ l # b
    BY <1>1, <1>2, <2>3
  <2> QED BY <2>1, <2>2, <2>3
<1> QED BY <1>3, <1>4 DEF ArrayOver, Holds

\* A list just initialised.
LEMMA NewListFacts ==
  ASSUME ArrayConstants, NEW V, None \in V, NEW n \in 0 .. 2, NEW alloc \in BOOLEAN
  PROVE  NewList(n, alloc) \in ListOver(V) /\ Holds(NewList(n, alloc), <<>>)
<1> DEFINE new == NewList(n, alloc)
<1>1. item_size \in Nat \ {0} /\ SizeLimit \in Nat /\ 2 * item_size < SizeLimit /\ n \in Nat
  BY DEF ArrayConstants
<1>2. Slots(n) \in Seq(V) /\ Len(Slots(n)) = n
  BY <1>1, SlotsFacts
<1>3. n * item_size \in Nat /\ n * item_size < SizeLimit
  <2>1. n = 0 \/ n = 1 \/ n = 2
    OBVIOUS
  <2> QED BY <2>1, <1>1
<1>4. /\ new.data = Slots(n) /\ new.length = 0 /\ new.current_size = n * item_size
      /\ new.alloc = alloc /\ new \in ListOver(V)
  BY <1>1, <1>2, <1>3 DEF NewList, ListOver
<1> HIDE DEF new
<1>5. Len(<<>>) = 0
  OBVIOUS
<1>6. Holds(new, <<>>)
  BY <1>1, <1>2, <1>3, <1>4, <1>5 DEF Holds
<1> QED BY <1>4, <1>6 DEF new

\* Every step keeps the invariant.
LEMMA ArrayStep ==
  ASSUME ArrayConstants, ArrayInv, [ArrayNext]_arrayVars
  PROVE  ArrayInv'
<1>1. PICK V : ArrayOver(V)
  BY DEF ArrayInv
<1>2. SUFFICES \E W : ArrayOver(W)'
  BY DEF ArrayInv
<1>3. CASE UNCHANGED arrayVars
  <2>1. ArrayOver(V)'
    BY <1>1, <1>3, ListFailsKeeps DEF ListFails
  <2> QED BY <2>1
<1>4. ASSUME NEW l \in ListName, aws_array_list_clean_up(l) PROVE ArrayOver(V)'
  <2>1. PICK n \in 0 .. 1 : Becomes(l, NewList(n, TRUE), <<>>)
    BY <1>4 DEF aws_array_list_clean_up
  <2>2. n \in 0 .. 2 /\ TRUE \in BOOLEAN /\ None \in V /\ <<>> \in Seq(V)
    BY <1>1, ListState
  <2>3. NewList(n, TRUE) \in ListOver(V) /\ Holds(NewList(n, TRUE), <<>>)
    BY <2>2, NewListFacts
  <2> QED BY <1>1, <2>1, <2>2, <2>3, ListReplaced
<1>5. ASSUME NEW l \in ListName, NEW item \in ListItem, aws_array_list_push_back(l, item) PROVE ArrayOver(V)'
  <2>1. aws_array_list_set_at(l, item, list[l].length) /\ list[l].length \in Nat
    BY <1>1, <1>5, ListState DEF aws_array_list_push_back
  <2> QED BY <1>1, <2>1, SetAtKeeps
<1>6. CASE ArrayNext
  <2>1. MaxItems \in Nat
    BY DEF ArrayConstants
  <2>2. \A i \in 0 .. MaxItems + 1 : i \in Nat
    BY <2>1
  <2>3. \A i \in 0 .. MaxItems : i \in Nat /\ \A j \in 0 .. i : j \in Nat
    BY <2>1
  <2>4. PICK l \in ListName :
        \/ aws_array_list_shrink_to_fit(l) \/ aws_array_list_clear(l) \/ aws_array_list_pop_back(l)
        \/ aws_array_list_sort(l) \/ aws_array_list_clean_up(l)
        \/ \E k \in ListName : aws_array_list_copy(l, k) \/ aws_array_list_swap_contents(l, k)
        \/ \E item \in ListItem : \/ aws_array_list_push_back(l, item) \/ aws_array_list_push_front(l, item)
                                  \/ \E index \in Nat : aws_array_list_set_at(l, item, index)
        \/ \E index \in Nat : \/ aws_array_list_erase(l, index)
                               \/ aws_array_list_pop_front_n(l, index)
                               \/ \E other \in Nat : aws_array_list_swap(l, index, other)
    BY <1>6, <2>2, <2>3 DEF ArrayNext
  <2>5. CASE aws_array_list_sort(l)
    BY <1>1, <2>5, SortKeeps
  <2>6. CASE aws_array_list_shrink_to_fit(l) \/ aws_array_list_clear(l) \/ aws_array_list_pop_back(l) \/ aws_array_list_clean_up(l)
    <3>1. ArrayOver(V)'
      BY <1>1, <1>4, <2>6, ShrinkKeeps, ClearKeeps, PopBackKeeps
    <3> QED BY <3>1
  <2>7. CASE \E k \in ListName : aws_array_list_copy(l, k) \/ aws_array_list_swap_contents(l, k)
    <3>1. ArrayOver(V)'
      BY <1>1, <2>7, CopyKeeps, SwapContentsKeeps
    <3> QED BY <3>1
  <2>8. CASE \E item \in ListItem : \/ aws_array_list_push_back(l, item) \/ aws_array_list_push_front(l, item)
                                    \/ \E index \in Nat : aws_array_list_set_at(l, item, index)
    <3>1. ArrayOver(V)'
      BY <1>1, <1>5, <2>8, PushFrontKeeps, SetAtKeeps
    <3> QED BY <3>1
  <2>9. CASE \E index \in Nat : \/ aws_array_list_erase(l, index)
                                 \/ aws_array_list_pop_front_n(l, index)
                                 \/ \E other \in Nat : aws_array_list_swap(l, index, other)
    <3>1. ArrayOver(V)'
      BY <1>1, <2>9, EraseKeeps, PopFrontKeeps, SwapKeeps
    <3> QED BY <3>1
  <2> QED BY <2>4, <2>5, <2>6, <2>7, <2>8, <2>9
<1> QED BY <1>3, <1>6

\* New lists hold nothing.
LEMMA ArrayStart ==
  ASSUME ArrayConstants, ArrayInit
  PROVE  ArrayInv
<1> DEFINE V == ListItem \cup {None}
<1>1. None \in V /\ ListItem \cup {None} \subseteq V
  OBVIOUS
<1> HIDE DEF V
<1>2. 0 \in 0 .. 2 /\ 2 \in 0 .. 2 /\ TRUE \in BOOLEAN /\ FALSE \in BOOLEAN /\ <<>> \in Seq(V)
  OBVIOUS
<1>3. \A ls \in {NewList(0, TRUE), NewList(2, FALSE)} : ls \in ListOver(V) /\ Holds(ls, <<>>)
  BY <1>1, <1>2, NewListFacts
<1>4. list \in [ListName -> {NewList(0, TRUE), NewList(2, FALSE)}] /\ items = [l \in ListName |-> <<>>]
  BY DEF ArrayInit
<1>5. list \in [ListName -> ListOver(V)] /\ \A l \in ListName : Holds(list[l], <<>>)
  BY <1>3, <1>4
<1>6. ArrayOver(V)
  BY <1>1, <1>2, <1>4, <1>5 DEF ArrayOver
<1> QED BY <1>6 DEF ArrayInv

\* The invariant says what a reader of the list sees.
LEMMA ArrayMeans ==
  ASSUME ArrayInv
  PROVE  ArrayIsSequence
<1>1. PICK V : ArrayOver(V)
  BY DEF ArrayInv
<1>2. SUFFICES ASSUME NEW l \in ListName
      PROVE  /\ list[l].current_size = Len(list[l].data) * item_size
             /\ list[l].length = Len(items[l])
             /\ list[l].length <= Len(list[l].data)
             /\ \A i \in 1 .. MaxItems + 1 :
                    IF i > Len(items[l]) THEN aws_array_list_get_at(l, i - 1) = -1
                    ELSE items[l][i] # None => aws_array_list_get_at(l, i - 1) = items[l][i]
  BY DEF ArrayIsSequence
<1>3. /\ list[l].length = Len(items[l]) /\ Len(items[l]) \in Nat /\ list[l].length <= Len(list[l].data)
      /\ \A i \in 1 .. Len(items[l]) : items[l][i] # None => list[l].data[i] = items[l][i]
      /\ list[l].current_size = Len(list[l].data) * item_size
  BY <1>1, ListState DEF Holds
<1>4. ASSUME NEW i \in 1 .. MaxItems + 1
      PROVE  IF i > Len(items[l]) THEN aws_array_list_get_at(l, i - 1) = -1
             ELSE items[l][i] # None => aws_array_list_get_at(l, i - 1) = items[l][i]
  <2>1. i \in Nat /\ i >= 1 /\ (i - 1) + 1 = i
    OBVIOUS
  <2>2. (list[l].length > i - 1) <=> ~(i > Len(items[l]))
    BY <1>3, <2>1
  <2>3. ~(i > Len(items[l])) => i \in 1 .. Len(items[l])
    BY <1>3, <2>1
  <2> QED BY <1>3, <2>1, <2>2, <2>3 DEF aws_array_list_get_at
<1> QED BY <1>3, <1>4

\* For every size of items and of size_t: an array list holds the items that were put there,
\* in their places, through growth in doubling sizes that may wrap, moves within its memory,
\* copies, shrinking, sorting and exchanges.
THEOREM ArrayIsSequenceCorrect == ArrayConstants => (ArraySpec => []ArrayIsSequence)
<1> SUFFICES ASSUME ArrayConstants PROVE ArraySpec => []ArrayIsSequence
  OBVIOUS
<1>1. ArrayInit => ArrayInv
  BY ArrayStart
<1>2. ArrayInv /\ [ArrayNext]_arrayVars => ArrayInv'
  BY ArrayStep
<1>3. ArrayInv => ArrayIsSequence
  BY ArrayMeans
<1> QED BY <1>1, <1>2, <1>3, PTL DEF ArraySpec

----------------------------------------------------------------------------
(* Linked lists                                                            *)

\* The cells, and what a pointer may hold.
Cell == Cells(Node, AList)
Pointer == Cell \cup {NULL}
Links == [next : [Cell -> Pointer], prev : [Cell -> Pointer]]

\* No node is twice in the lists.
OnceLinked(ord) ==
    \A l, m \in AList : \A i \in 1 .. Len(ord[l]) : \A k \in 1 .. Len(ord[m]) :
        ord[l][i] = ord[m][k] => l = m /\ i = k

InNoList(ord, n) == \A l \in AList : \A i \in 1 .. Len(ord[l]) : ord[l][i] # n

Unlinked(p, n) == p.next[OfNode(n)] = NULL /\ p.prev[OfNode(n)] = NULL

\* The pointers p are those of the lists ord.
Linked(p, ord) ==
    /\ p \in Links /\ ord \in [AList -> Seq(Node)] /\ OnceLinked(ord)
    /\ \A l \in AList : Chained(p, l, ord[l])
    /\ \A n \in Node : InNoList(ord, n) => Unlinked(p, n)

LinkInv == Linked(links, order)

\* q is p after a->next = b; b->prev = a.
Joined(p, a, b, q) ==
    /\ q \in Links
    /\ \A c \in Cell : /\ q.next[c] = IF c = a THEN b ELSE p.next[c]
                       /\ q.prev[c] = IF c = b THEN a ELSE p.prev[c]

----------------------------------------------------------------------------

\* The cells of nodes and the two of a list are different, and none is NULL.
LEMMA CellFacts ==
  /\ \A n \in Node : OfNode(n) \in Cell
  /\ \A l \in AList : HeadOf(l) \in Cell /\ TailOf(l) \in Cell
  /\ NULL \notin Cell
  /\ \A n, m : OfNode(n) = OfNode(m) <=> n = m
  /\ \A n, m : HeadOf(n) = HeadOf(m) <=> n = m
  /\ \A n, m : TailOf(n) = TailOf(m) <=> n = m
  /\ \A n, m : OfNode(n) # HeadOf(m) /\ OfNode(n) # TailOf(m) /\ HeadOf(n) # TailOf(m)
<1>1. \A n \in Node : OfNode(n) \in Cell
  BY DEF Cell, Cells
<1>2. \A l \in AList : HeadOf(l) \in Cell /\ TailOf(l) \in Cell
  BY DEF Cell, Cells, Ends
<1>3. NULL \notin Cell
  BY DEF Cell, Cells, Ends, NULL, OfNode, HeadOf, TailOf
<1>4. \A n, m : OfNode(n) = OfNode(m) <=> n = m
  BY DEF OfNode
<1>5. \A n, m : HeadOf(n) = HeadOf(m) <=> n = m
  BY DEF HeadOf
<1>6. \A n, m : TailOf(n) = TailOf(m) <=> n = m
  BY DEF TailOf
<1>7. \A n, m : OfNode(n) # HeadOf(m) /\ OfNode(n) # TailOf(m) /\ HeadOf(n) # TailOf(m)
  BY DEF OfNode, HeadOf, TailOf
<1> QED BY <1>1, <1>2, <1>3, <1>4, <1>5, <1>6, <1>7

\* Joining two cells.
LEMMA JoinFacts ==
  ASSUME NEW p \in Links, NEW a \in Cell, NEW b \in Cell, NEW q, q = Join(p, a, b)
  PROVE  Joined(p, a, b, q)
<1>1. a \in Pointer /\ b \in Pointer
  BY DEF Pointer
<1>2. p.next \in [Cell -> Pointer] /\ p.prev \in [Cell -> Pointer]
  BY DEF Links
<1> DEFINE n == [p.next EXCEPT ![a] = b]
           v == [p.prev EXCEPT ![b] = a]
<1>3. n \in [Cell -> Pointer] /\ v \in [Cell -> Pointer]
  BY <1>1, <1>2
<1>4. q.next = n /\ q.prev = v /\ q \in Links
  BY <1>1, <1>2, <1>3 DEF Join, SetNext, SetPrev, Links
<1> QED BY <1>2, <1>4 DEF Joined

\* The cells an iteration over a list meets.
LEMMA CellAtFacts ==
  ASSUME NEW l \in AList, NEW s \in Seq(Node)
  PROVE  /\ Len(s) \in Nat
         /\ CellAt(l, s, 0) = HeadOf(l) /\ CellAt(l, s, Len(s) + 1) = TailOf(l)
         /\ \A i \in 1 .. Len(s) : CellAt(l, s, i) = OfNode(s[i]) /\ s[i] \in Node
         /\ \A i \in 0 .. Len(s) + 1 : CellAt(l, s, i) \in Cell
<1>1. Len(s) \in Nat /\ \A i \in 1 .. Len(s) : s[i] \in Node
  OBVIOUS
<1>2. CellAt(l, s, 0) = HeadOf(l)
  BY DEF CellAt
<1>3. CellAt(l, s, Len(s) + 1) = TailOf(l)
  <2>1. Len(s) + 1 # 0 /\ Len(s) + 1 > Len(s)
    BY <1>1
  <2> QED BY <2>1 DEF CellAt
<1>4. \A i \in 1 .. Len(s) : CellAt(l, s, i) = OfNode(s[i])
  <2>1. \A i \in 1 .. Len(s) : i # 0 /\ ~(i > Len(s))
    BY <1>1
  <2> QED BY <2>1 DEF CellAt
<1>5. \A i \in 0 .. Len(s) + 1 : i = 0 \/ i = Len(s) + 1 \/ i \in 1 .. Len(s)
  BY <1>1
<1>6. \A i \in 0 .. Len(s) + 1 : CellAt(l, s, i) \in Cell
  BY <1>1, <1>2, <1>3, <1>4, <1>5, CellFacts
<1> QED BY <1>1, <1>2, <1>3, <1>4, <1>6

\* Different places are different cells.
LEMMA CellsDiffer ==
  ASSUME NEW ord \in [AList -> Seq(Node)], OnceLinked(ord), NEW l \in AList, NEW m \in AList,
         NEW i \in 0 .. Len(ord[l]) + 1, NEW k \in 0 .. Len(ord[m]) + 1,
         CellAt(l, ord[l], i) = CellAt(m, ord[m], k)
  PROVE  l = m /\ i = k
<1> DEFINE s == ord[l]
           t == ord[m]
<1>1. s \in Seq(Node) /\ t \in Seq(Node)
  OBVIOUS
<1> HIDE DEF s, t
<1>2. /\ Len(s) \in Nat /\ CellAt(l, s, 0) = HeadOf(l) /\ CellAt(l, s, Len(s) + 1) = TailOf(l)
      /\ \A j \in 1 .. Len(s) : CellAt(l, s, j) = OfNode(s[j])
  BY <1>1, CellAtFacts
<1>3. /\ Len(t) \in Nat /\ CellAt(m, t, 0) = HeadOf(m) /\ CellAt(m, t, Len(t) + 1) = TailOf(m)
      /\ \A j \in 1 .. Len(t) : CellAt(m, t, j) = OfNode(t[j])
  BY <1>1, CellAtFacts
<1>4. (i = 0 \/ i = Len(s) + 1 \/ i \in 1 .. Len(s)) /\ (k = 0 \/ k = Len(t) + 1 \/ k \in 1 .. Len(t))
  BY <1>2, <1>3 DEF s, t
<1>5. CellAt(l, s, i) = CellAt(m, t, k)
  BY DEF s, t
<1>6. CASE i = 0
  <2>1. HeadOf(l) = CellAt(m, t, k)
    BY <1>2, <1>5, <1>6
  <2>a. HeadOf(l) # TailOf(m) /\ \A j : HeadOf(l) # OfNode(t[j])
    BY CellFacts, Zenon
  <2>2. k # Len(t) + 1 /\ k \notin 1 .. Len(t)
    BY <2>1, <2>a, <1>3
  <2>3. k = 0 /\ HeadOf(l) = HeadOf(m)
    BY <2>1, <2>2, <1>3, <1>4
  <2> QED BY <2>3, <1>6, CellFacts
<1>7. CASE i = Len(s) + 1
  <2>1. TailOf(l) = CellAt(m, t, k)
    BY <1>2, <1>5, <1>7
  <2>2. k # 0 /\ k \notin 1 .. Len(t)
    BY <2>1, <1>3, CellFacts
  <2>3. k = Len(t) + 1 /\ TailOf(l) = TailOf(m)
    BY <2>1, <2>2, <1>3, <1>4
  <2>4. l = m
    BY <2>3, CellFacts
  <2> QED BY <2>3, <2>4, <1>7 DEF s, t
<1>8. CASE i \in 1 .. Len(s)
  <2>1. OfNode(s[i]) = CellAt(m, t, k)
    BY <1>2, <1>5, <1>8
  <2>a. OfNode(s[i]) # TailOf(m) /\ OfNode(s[i]) # HeadOf(m)
    BY CellFacts, Zenon
  <2>2. k # 0 /\ k # Len(t) + 1
    BY <2>1, <2>a, <1>3
  <2>3. k \in 1 .. Len(t) /\ OfNode(s[i]) = OfNode(t[k])
    BY <2>1, <2>2, <1>3, <1>4
  <2>4. s[i] = t[k]
    BY <2>3, CellFacts
  <2> QED BY <2>3, <2>4, <1>8 DEF s, t, OnceLinked
<1> QED BY <1>4, <1>6, <1>7, <1>8

\* A chain whose pointers are not touched stays.
LEMMA ChainKept ==
  ASSUME NEW p, NEW q, NEW l, NEW s, Chained(p, l, s), Len(s) \in Nat,
         CellAt(l, s, 0) = HeadOf(l), CellAt(l, s, Len(s) + 1) = TailOf(l),
         \A i \in 0 .. Len(s) + 1 : /\ q.next[CellAt(l, s, i)] = p.next[CellAt(l, s, i)]
                                    /\ q.prev[CellAt(l, s, i)] = p.prev[CellAt(l, s, i)]
  PROVE  Chained(q, l, s)
<1>1. \A i \in 0 .. Len(s) : i \in 0 .. Len(s) + 1 /\ i + 1 \in 0 .. Len(s) + 1
  OBVIOUS
<1>2. 0 \in 0 .. Len(s) + 1 /\ Len(s) + 1 \in 0 .. Len(s) + 1
  OBVIOUS
<1>3. q.prev[HeadOf(l)] = NULL /\ q.next[TailOf(l)] = NULL
  BY <1>2 DEF Chained
<1>4. \A i \in 0 .. Len(s) : /\ q.next[CellAt(l, s, i)] = CellAt(l, s, i + 1)
                             /\ q.prev[CellAt(l, s, i + 1)] = CellAt(l, s, i)
  BY <1>1 DEF Chained
<1> QED BY <1>3, <1>4 DEF Chained

\* t is s with n between its places k and k + 1.
Between(s, k, n, t) ==
    /\ t \in Seq(Node) /\ Len(t) = Len(s) + 1
    /\ \A i \in 1 .. Len(s) + 1 : t[i] = IF i <= k THEN s[i] ELSE IF i = k + 1 THEN n ELSE s[i - 1]

\* The cells of the list with n.
LEMMA CellsBetween ==
  ASSUME NEW l \in AList, NEW s \in Seq(Node), NEW k \in 0 .. Len(s), NEW n \in Node, NEW t, Between(s, k, n, t)
  PROVE  \A i \in 0 .. Len(t) + 1 : CellAt(l, t, i) =
             IF i <= k THEN CellAt(l, s, i) ELSE IF i = k + 1 THEN OfNode(n) ELSE CellAt(l, s, i - 1)
<1>1. t \in Seq(Node) /\ Len(t) = Len(s) + 1 /\ Len(s) \in Nat /\ k \in Nat /\ k <= Len(s)
  BY DEF Between
<1> SUFFICES ASSUME NEW i \in 0 .. Len(t) + 1
             PROVE  CellAt(l, t, i) = IF i <= k THEN CellAt(l, s, i) ELSE IF i = k + 1 THEN OfNode(n) ELSE CellAt(l, s, i - 1)
  OBVIOUS
<1>2. CASE i = 0
  BY <1>1, <1>2 DEF CellAt
<1>3. CASE i = Len(t) + 1
  <2>1. i > Len(t) /\ i # 0 /\ ~(i <= k) /\ i # k + 1 /\ i - 1 # 0 /\ i - 1 > Len(s)
    BY <1>1, <1>3
  <2> QED BY <2>1 DEF CellAt
<1>4. CASE i \in 1 .. Len(t)
  <2>1. i # 0 /\ ~(i > Len(t)) /\ i \in 1 .. Len(s) + 1
    BY <1>1, <1>4
  <2>2. CellAt(l, t, i) = OfNode(t[i])
    BY <2>1 DEF CellAt
  <2>3. t[i] = IF i <= k THEN s[i] ELSE IF i = k + 1 THEN n ELSE s[i - 1]
    BY <2>1 DEF Between
  <2>4. CASE i <= k
    <3>1. ~(i > Len(s))
      BY <1>1, <2>1, <2>4
    <3> QED BY <3>1, <2>1, <2>2, <2>3, <2>4 DEF CellAt
  <2>5. CASE ~(i <= k) /\ i = k + 1
    BY <2>2, <2>3, <2>5
  <2>6. CASE ~(i <= k) /\ i # k + 1
    <3>1. ~(i - 1 > Len(s)) /\ i - 1 # 0
      BY <1>1, <2>1, <2>6
    <3> QED BY <3>1, <2>2, <2>3, <2>6 DEF CellAt
  <2> QED BY <2>4, <2>5, <2>6
<1> QED BY <1>1, <1>2, <1>3, <1>4

\* A node in no list is none of the cells of a list.
LEMMA NodeOutside ==
  ASSUME NEW ord \in [AList -> Seq(Node)], NEW n, InNoList(ord, n), NEW m \in AList,
         NEW i \in 0 .. Len(ord[m]) + 1
  PROVE  CellAt(m, ord[m], i) # OfNode(n)
<1> DEFINE t == ord[m]
<1>1. t \in Seq(Node) /\ \A j \in 1 .. Len(t) : t[j] # n
  BY DEF InNoList
<1>2. i \in 0 .. Len(t) + 1
  OBVIOUS
<1> HIDE DEF t
<1>3. /\ Len(t) \in Nat /\ CellAt(m, t, 0) = HeadOf(m) /\ CellAt(m, t, Len(t) + 1) = TailOf(m)
      /\ \A j \in 1 .. Len(t) : CellAt(m, t, j) = OfNode(t[j])
  BY <1>1, CellAtFacts
<1>4. i = 0 \/ i = Len(t) + 1 \/ i \in 1 .. Len(t)
  BY <1>2, <1>3
<1>5. HeadOf(m) # OfNode(n) /\ TailOf(m) # OfNode(n) /\ \A j \in 1 .. Len(t) : OfNode(t[j]) # OfNode(n)
  BY <1>1, CellFacts, Zenon
<1>6. CellAt(m, t, i) # OfNode(n)
  BY <1>3, <1>4, <1>5
<1> QED BY <1>6 DEF t

\* What a list is linked with.
LEMMA LinkedFacts ==
  ASSUME NEW p, NEW ord, Linked(p, ord), NEW l \in AList
  PROVE  /\ p \in Links /\ ord \in [AList -> Seq(Node)] /\ OnceLinked(ord)
         /\ ord[l] \in Seq(Node) /\ Len(ord[l]) \in Nat
         /\ CellAt(l, ord[l], 0) = HeadOf(l) /\ CellAt(l, ord[l], Len(ord[l]) + 1) = TailOf(l)
         /\ \A i \in 1 .. Len(ord[l]) : CellAt(l, ord[l], i) = OfNode(ord[l][i]) /\ ord[l][i] \in Node
         /\ \A i \in 0 .. Len(ord[l]) + 1 : CellAt(l, ord[l], i) \in Cell
         /\ Chained(p, l, ord[l])
<1>1. p \in Links /\ ord \in [AList -> Seq(Node)] /\ OnceLinked(ord) /\ Chained(p, l, ord[l])
  BY DEF Linked
<1>2. ord[l] \in Seq(Node)
  BY <1>1
<1> QED BY <1>1, <1>2, CellAtFacts

\* x stands between a and b now.
LinkedBetween(p, a, b, x, q) ==
    /\ q \in Links
    /\ \A c \in Cell : /\ q.next[c] = IF c = a THEN x ELSE IF c = x THEN b ELSE p.next[c]
                       /\ q.prev[c] = IF c = x THEN a ELSE IF c = b THEN x ELSE p.prev[c]

\* The two pairs of assignments of an insertion.
LEMMA LinkedBetweenFacts ==
  ASSUME NEW p \in Links, NEW a \in Cell, NEW b \in Cell, NEW x \in Cell,
         NEW q, q = Join(Join(p, x, b), a, x)
  PROVE  LinkedBetween(p, a, b, x, q)
<1> DEFINE r == Join(p, x, b)
<1>1. Joined(p, x, b, r)
  BY JoinFacts
<1>2. q = Join(r, a, x)
  OBVIOUS
<1> HIDE DEF r
<1>3. r \in Links
  BY <1>1 DEF Joined
<1>4. Joined(r, a, x, q)
  BY <1>2, <1>3, JoinFacts
<1> QED BY <1>1, <1>4 DEF Joined, LinkedBetween

\* The lists with a node more: each node is in them once.
LEMMA OnceWithNode ==
  ASSUME NEW ord \in [AList -> Seq(Node)], OnceLinked(ord), NEW l \in AList, NEW k \in 0 .. Len(ord[l]),
         NEW n \in Node, InNoList(ord, n), NEW t, Between(ord[l], k, n, t)
  PROVE  /\ OnceLinked([ord EXCEPT ![l] = t])
         /\ \A x \in Node : InNoList([ord EXCEPT ![l] = t], x) => x # n /\ InNoList(ord, x)
<1> DEFINE s == ord[l]
           new == [ord EXCEPT ![l] = t]
           Was(i) == IF i <= k THEN i ELSE i - 1
<1>1. s \in Seq(Node) /\ Len(s) \in Nat /\ k \in Nat /\ k <= Len(s)
  OBVIOUS
<1>2. new[l] = t /\ \A m \in AList : m # l => new[m] = ord[m]
  OBVIOUS
<1>3. /\ Len(t) = Len(s) + 1
      /\ \A i \in 1 .. Len(s) + 1 : t[i] = IF i <= k THEN s[i] ELSE IF i = k + 1 THEN n ELSE s[i - 1]
  BY DEF Between
<1>4. \A m \in AList : \A i \in 1 .. Len(ord[m]) : ord[m][i] # n
  BY DEF InNoList
<1>5. \A j, m \in AList : \A i \in 1 .. Len(ord[j]) : \A h \in 1 .. Len(ord[m]) :
          ord[j][i] = ord[m][h] => j = m /\ i = h
  BY DEF OnceLinked
<1> HIDE DEF new
<1>6. \A i \in 1 .. Len(t) : i # k + 1 => Was(i) \in 1 .. Len(s) /\ t[i] = s[Was(i)]
  <2> HIDE DEF s
  <2> QED BY <1>1, <1>3
<1>7. t[k + 1] = n /\ k + 1 \in 1 .. Len(t)
  <2> HIDE DEF s
  <2> QED BY <1>1, <1>3
<1>8. \A i, h \in 1 .. Len(t) : i # k + 1 /\ h # k + 1 /\ Was(i) = Was(h) => i = h
  <2>1. Len(t) \in Nat
    <3> HIDE DEF s
    <3> QED BY <1>1, <1>3
  <2> QED BY <2>1, <1>1
<1> HIDE DEF Was
<1>9. ASSUME NEW i \in 1 .. Len(t), NEW m \in AList, m # l, NEW h \in 1 .. Len(ord[m])
      PROVE  t[i] # ord[m][h]
  <2>1. CASE i = k + 1
    BY <2>1, <1>4, <1>7
  <2>2. CASE i # k + 1
    BY <2>2, <1>5, <1>6, <1>9
  <2> QED BY <2>1, <2>2
<1>10. ASSUME NEW i \in 1 .. Len(t), NEW h \in 1 .. Len(t), t[i] = t[h] PROVE i = h
  <2>1. CASE i = k + 1 /\ h # k + 1
    BY <2>1, <1>4, <1>6, <1>7, <1>10
  <2>2. CASE i # k + 1 /\ h = k + 1
    BY <2>2, <1>4, <1>6, <1>7, <1>10
  <2>3. CASE i # k + 1 /\ h # k + 1
    <3>1. s[Was(i)] = s[Was(h)] /\ Was(i) \in 1 .. Len(s) /\ Was(h) \in 1 .. Len(s)
      BY <2>3, <1>6, <1>10
    <3>2. Was(i) = Was(h)
      BY <3>1, <1>5
    <3> QED BY <3>2, <2>3, <1>8
  <2> QED BY <2>1, <2>2, <2>3
<1>11. OnceLinked(new)
  <2> SUFFICES ASSUME NEW j \in AList, NEW m \in AList, NEW i \in 1 .. Len(new[j]), NEW h \in 1 .. Len(new[m]),
                      new[j][i] = new[m][h]
               PROVE  j = m /\ i = h
    BY DEF OnceLinked
  <2>1. CASE j = l /\ m = l
    BY <2>1, <1>2, <1>10
  <2>2. CASE j = l /\ m # l
    BY <2>2, <1>2, <1>9
  <2>3. CASE j # l /\ m = l
    BY <2>3, <1>2, <1>9
  <2>4. CASE j # l /\ m # l
    BY <2>4, <1>2, <1>5
  <2> QED BY <2>1, <2>2, <2>3, <2>4
<1>12. ASSUME NEW x \in Node, InNoList(new, x) PROVE x # n /\ InNoList(ord, x)
  <2>1. \A m \in AList : \A i \in 1 .. Len(new[m]) : new[m][i] # x
    BY <1>12 DEF InNoList
  <2>2. x # n
    BY <2>1, <1>2, <1>7
  <2>3. ASSUME NEW i \in 1 .. Len(s) PROVE s[i] # x
    <3> DEFINE h == IF i <= k THEN i ELSE i + 1
    <3>1. h \in 1 .. Len(t) /\ h \in 1 .. Len(s) + 1 /\ h # k + 1
      <4> HIDE DEF s
      <4> QED BY <1>1, <1>3, <2>3
    <3>2. t[h] = s[i]
      <4>1. CASE i <= k
        <5> HIDE DEF s
        <5> QED BY <4>1, <3>1, <1>3
      <4>2. CASE ~(i <= k)
        <5>1. h = i + 1 /\ ~(h <= k) /\ h - 1 = i
          <6> HIDE DEF s
          <6> QED BY <4>2, <1>1, <2>3
        <5> HIDE DEF h, s
        <5> QED BY <5>1, <3>1, <1>3
      <4> QED BY <4>1, <4>2
    <3> HIDE DEF h
    <3> QED BY <3>1, <3>2, <2>1, <1>2
  <2>4. \A m \in AList : \A i \in 1 .. Len(ord[m]) : ord[m][i] # x
    BY <2>1, <2>3, <1>2
  <2> QED BY <2>2, <2>4 DEF InNoList
<1> QED BY <1>11, <1>12 DEF new

\* A chain none of whose pointers an insertion touches: a list that x is not put into.
LEMMA InsertLeavesOthers ==
  ASSUME NEW p, NEW ord, Linked(p, ord), NEW l \in AList, NEW k \in 0 .. Len(ord[l]),
         NEW n \in Node, InNoList(ord, n), NEW q,
         LinkedBetween(p, CellAt(l, ord[l], k), CellAt(l, ord[l], k + 1), OfNode(n), q),
         NEW m \in AList, m # l
  PROVE  Chained(q, m, ord[m])
<1> DEFINE s == ord[l]
           t == ord[m]
           a == CellAt(l, s, k)
           b == CellAt(l, s, k + 1)
           x == OfNode(n)
<1>1. ord \in [AList -> Seq(Node)] /\ OnceLinked(ord)
  BY DEF Linked
<1>2. /\ Len(t) \in Nat /\ CellAt(m, t, 0) = HeadOf(m) /\ CellAt(m, t, Len(t) + 1) = TailOf(m)
      /\ \A i \in 0 .. Len(t) + 1 : CellAt(m, t, i) \in Cell
      /\ Chained(p, m, t)
  BY LinkedFacts
<1>3. k \in 0 .. Len(s) + 1 /\ k + 1 \in 0 .. Len(s) + 1
  BY <1>1
<1>4. ASSUME NEW i \in 0 .. Len(t) + 1 PROVE CellAt(m, t, i) # a /\ CellAt(m, t, i) # b /\ CellAt(m, t, i) # x
  BY <1>1, <1>3, CellsDiffer, NodeOutside
<1>5. \A i \in 0 .. Len(t) + 1 : q.next[CellAt(m, t, i)] = p.next[CellAt(m, t, i)] /\ q.prev[CellAt(m, t, i)] = p.prev[CellAt(m, t, i)]
  <2> HIDE DEF a, b, x, t
  <2>1. \A c \in Cell : c # a /\ c # b /\ c # x => q.next[c] = p.next[c] /\ q.prev[c] = p.prev[c]
    BY DEF LinkedBetween, a, b, x, s
  <2> QED BY <2>1, <1>2, <1>4
<1> HIDE DEF t
<1>6. Chained(q, m, t)
  BY <1>2, <1>5, ChainKept
<1> QED BY <1>6 DEF t

\* The list that x is put into.
LEMMA InsertChains ==
  ASSUME NEW p, NEW ord, Linked(p, ord), NEW l \in AList, NEW k \in 0 .. Len(ord[l]),
         NEW n \in Node, InNoList(ord, n), NEW t, Between(ord[l], k, n, t), NEW q,
         LinkedBetween(p, CellAt(l, ord[l], k), CellAt(l, ord[l], k + 1), OfNode(n), q)
  PROVE  Chained(q, l, t)
<1> DEFINE s == ord[l]
           C(i) == CellAt(l, s, i)
           T(i) == CellAt(l, t, i)
           x == OfNode(n)
<1>1. /\ ord \in [AList -> Seq(Node)] /\ OnceLinked(ord) /\ s \in Seq(Node) /\ Len(s) \in Nat
      /\ C(0) = HeadOf(l) /\ C(Len(s) + 1) = TailOf(l)
      /\ \A i \in 0 .. Len(s) + 1 : C(i) \in Cell
  BY LinkedFacts
<1>2. /\ p.prev[HeadOf(l)] = NULL /\ p.next[TailOf(l)] = NULL
      /\ \A i \in 0 .. Len(s) : p.next[C(i)] = C(i + 1) /\ p.prev[C(i + 1)] = C(i)
  BY LinkedFacts DEF Chained
<1>3. \A i, j \in 0 .. Len(s) + 1 : C(i) = C(j) => i = j
  BY <1>1, CellsDiffer
<1>4. \A i \in 0 .. Len(s) + 1 : C(i) # x
  BY <1>1, NodeOutside
<1>5. x \in Cell
  BY CellFacts
<1>6. /\ Len(t) = Len(s) + 1 /\ t \in Seq(Node)
      /\ \A i \in 0 .. Len(t) + 1 : T(i) = IF i <= k THEN C(i) ELSE IF i = k + 1 THEN x ELSE C(i - 1)
  BY <1>1, CellsBetween, SMTT(30) DEF Between
<1>7. \A c \in Cell : /\ q.next[c] = IF c = C(k) THEN x ELSE IF c = x THEN C(k + 1) ELSE p.next[c]
                      /\ q.prev[c] = IF c = x THEN C(k) ELSE IF c = C(k + 1) THEN x ELSE p.prev[c]
  BY DEF LinkedBetween
<1>8. k \in Nat /\ k <= Len(s)
  OBVIOUS
<1> SUFFICES /\ q.prev[HeadOf(l)] = NULL /\ q.next[TailOf(l)] = NULL
             /\ \A i \in 0 .. Len(t) : q.next[T(i)] = T(i + 1) /\ q.prev[T(i + 1)] = T(i)
  BY DEF Chained
<1> HIDE DEF s, C, T, x
<1>9. \A i \in 0 .. Len(s) + 1 : /\ q.next[C(i)] = IF i = k THEN x ELSE p.next[C(i)]
                                 /\ q.prev[C(i)] = IF i = k + 1 THEN x ELSE p.prev[C(i)]
  <2>1. k \in 0 .. Len(s) + 1 /\ k + 1 \in 0 .. Len(s) + 1
    BY <1>1, <1>8
  <2> QED BY <2>1, <1>1, <1>3, <1>4, <1>7
<1>10. q.next[x] = C(k + 1) /\ q.prev[x] = C(k)
  <2>1. k \in 0 .. Len(s) + 1
    BY <1>1, <1>8
  <2> QED BY <2>1, <1>4, <1>5, <1>7
<1>11. q.prev[HeadOf(l)] = NULL /\ q.next[TailOf(l)] = NULL
  <2>1. 0 \in 0 .. Len(s) + 1 /\ Len(s) + 1 \in 0 .. Len(s) + 1 /\ 0 # k + 1 /\ Len(s) + 1 # k
    BY <1>1, <1>8
  <2> QED BY <2>1, <1>1, <1>2, <1>9
<1>12. ASSUME NEW i \in 0 .. Len(t) PROVE q.next[T(i)] = T(i + 1) /\ q.prev[T(i + 1)] = T(i)
  <2>0. i \in 0 .. Len(t) + 1 /\ i + 1 \in 0 .. Len(t) + 1 /\ i \in Nat /\ i <= Len(s) + 1 /\ (i + 1) - 1 = i
    BY <1>1, <1>6
  <2>1. CASE i < k
    <3>1. i <= k /\ i + 1 <= k /\ i # k /\ i + 1 # k + 1 /\ i \in 0 .. Len(s) + 1 /\ i + 1 \in 0 .. Len(s) + 1 /\ i \in 0 .. Len(s)
      BY <2>0, <2>1, <1>1, <1>8
    <3>2. T(i) = C(i) /\ T(i + 1) = C(i + 1)
      BY <3>1, <2>0, <1>6
    <3> QED BY <3>1, <3>2, <1>2, <1>9
  <2>2. CASE i = k
    <3>1. i <= k /\ ~(i + 1 <= k) /\ i + 1 = k + 1 /\ i \in 0 .. Len(s) + 1
      BY <2>0, <2>2, <1>1, <1>8
    <3>2. T(i) = C(k) /\ T(i + 1) = x
      BY <3>1, <2>0, <2>2, <1>6
    <3> QED BY <3>1, <3>2, <2>2, <1>9, <1>10
  <2>3. CASE i = k + 1
    <3>1. ~(i <= k) /\ ~(i + 1 <= k) /\ i + 1 # k + 1 /\ k + 1 \in 0 .. Len(s) + 1
      BY <2>0, <2>3, <1>1, <1>8
    <3>2. T(i) = x /\ T(i + 1) = C(k + 1)
      BY <3>1, <2>0, <2>3, <1>6
    <3> QED BY <3>1, <3>2, <1>9, <1>10
  <2>4. CASE i > k + 1
    <3> DEFINE h == i - 1
    <3>1. ~(i <= k) /\ i # k + 1 /\ ~(i + 1 <= k) /\ i + 1 # k + 1 /\ h # k /\ h + 1 = i /\ h + 1 # k + 1
          /\ h \in 0 .. Len(s) /\ h \in 0 .. Len(s) + 1 /\ h + 1 \in 0 .. Len(s) + 1
      BY <2>0, <2>4, <1>1, <1>8
    <3>2. T(i) = C(h) /\ T(i + 1) = C(h + 1)
      BY <3>1, <2>0, <1>6
    <3> HIDE DEF h
    <3> QED BY <3>1, <3>2, <1>2, <1>9
  <2> QED BY <2>0, <2>1, <2>2, <2>3, <2>4, <1>8
<1> QED BY <1>11, <1>12

\* A node put between two cells of a list.
LEMMA InsertKeeps ==
  ASSUME NEW p, NEW ord, Linked(p, ord), NEW l \in AList, NEW k \in 0 .. Len(ord[l]),
         NEW n \in Node, InNoList(ord, n), NEW t, Between(ord[l], k, n, t), NEW q,
         q = Join(Join(p, OfNode(n), CellAt(l, ord[l], k + 1)), CellAt(l, ord[l], k), OfNode(n))
  PROVE  Linked(q, [ord EXCEPT ![l] = t])
<1> DEFINE s == ord[l]
           a == CellAt(l, s, k)
           b == CellAt(l, s, k + 1)
           new == [ord EXCEPT ![l] = t]
<1>1. /\ p \in Links /\ ord \in [AList -> Seq(Node)] /\ OnceLinked(ord) /\ Len(s) \in Nat
      /\ \A i \in 0 .. Len(s) + 1 : CellAt(l, s, i) \in Cell
  BY LinkedFacts
<1>2. k \in 0 .. Len(s) + 1 /\ k + 1 \in 0 .. Len(s) + 1
  <2> HIDE DEF s
  <2>1. k \in 0 .. Len(s)
    BY DEF s
  <2> QED BY <1>1, <2>1
<1>3. LinkedBetween(p, a, b, OfNode(n), q)
  <2>1. a \in Cell /\ b \in Cell /\ OfNode(n) \in Cell
    BY <1>1, <1>2, CellFacts
  <2>2. q = Join(Join(p, OfNode(n), b), a, OfNode(n))
    OBVIOUS
  <2> HIDE DEF a, b
  <2> QED BY <1>1, <2>1, <2>2, LinkedBetweenFacts
<1>4. q \in Links
  BY <1>3 DEF LinkedBetween
<1>5. t \in Seq(Node) /\ new \in [AList -> Seq(Node)]
  BY <1>1 DEF Between
<1>6. OnceLinked(new) /\ \A x \in Node : InNoList(new, x) => x # n /\ InNoList(ord, x)
  BY <1>1, OnceWithNode
<1>7. Chained(q, l, t)
  BY <1>3, InsertChains
<1>8. ASSUME NEW m \in AList, m # l PROVE Chained(q, m, ord[m])
  <2>1. LinkedBetween(p, CellAt(l, ord[l], k), CellAt(l, ord[l], k + 1), OfNode(n), q) /\ m # l
    BY <1>3, <1>8
  <2> QED BY ONLY <2>1, InsertLeavesOthers, Linked(p, ord), l \in AList, m \in AList, n \in Node,
                  k \in 0 .. Len(ord[l]), InNoList(ord, n)
<1>9. \A m \in AList : Chained(q, m, new[m])
  BY <1>1, <1>7, <1>8
<1>10. ASSUME NEW x \in Node, InNoList(new, x) PROVE Unlinked(q, x)
  <2>1. x # n /\ InNoList(ord, x)
    BY <1>6, <1>10
  <2>2. Unlinked(p, x)
    BY <2>1 DEF Linked
  <2>3. a # OfNode(x) /\ b # OfNode(x)
    BY <2>1, <1>1, <1>2, NodeOutside
  <2>4. OfNode(x) # OfNode(n) /\ OfNode(x) \in Cell
    BY <2>1, CellFacts, Zenon
  <2> HIDE DEF a, b
  <2> QED BY <2>2, <2>3, <2>4, <1>3 DEF LinkedBetween, Unlinked
<1> HIDE DEF new
<1>11. Linked(q, new)
  BY <1>4, <1>5, <1>6, <1>9, <1>10 DEF Linked
<1> QED BY <1>11 DEF new

\* t is s without its k-th node.
Without(s, k, t) ==
    /\ t \in Seq(Node) /\ Len(t) = Len(s) - 1
    /\ \A i \in 1 .. Len(s) - 1 : t[i] = IF i < k THEN s[i] ELSE s[i + 1]

\* The cells of the list without a node.
LEMMA CellsWithout ==
  ASSUME NEW l \in AList, NEW s \in Seq(Node), NEW k \in 1 .. Len(s), NEW t, Without(s, k, t)
  PROVE  \A i \in 0 .. Len(t) + 1 : CellAt(l, t, i) = IF i < k THEN CellAt(l, s, i) ELSE CellAt(l, s, i + 1)
<1>1. t \in Seq(Node) /\ Len(t) = Len(s) - 1 /\ Len(s) \in Nat /\ k \in Nat /\ k <= Len(s) /\ k > 0
  BY DEF Without
<1> SUFFICES ASSUME NEW i \in 0 .. Len(t) + 1
             PROVE  CellAt(l, t, i) = IF i < k THEN CellAt(l, s, i) ELSE CellAt(l, s, i + 1)
  OBVIOUS
<1>2. CASE i = 0
  BY <1>1, <1>2 DEF CellAt
<1>3. CASE i = Len(t) + 1
  <2>1. i > Len(t) /\ i # 0 /\ ~(i < k) /\ i + 1 # 0 /\ i + 1 > Len(s)
    BY <1>1, <1>3
  <2> QED BY <2>1 DEF CellAt
<1>4. CASE i \in 1 .. Len(t)
  <2>1. i # 0 /\ ~(i > Len(t)) /\ i \in 1 .. Len(s) - 1 /\ ~(i > Len(s)) /\ ~(i + 1 > Len(s)) /\ i + 1 # 0
    BY <1>1, <1>4
  <2>2. CellAt(l, t, i) = OfNode(t[i])
    BY <2>1 DEF CellAt
  <2>3. t[i] = IF i < k THEN s[i] ELSE s[i + 1]
    BY <2>1 DEF Without
  <2> QED BY <2>1, <2>2, <2>3 DEF CellAt
<1> QED BY <1>1, <1>2, <1>3, <1>4

\* x is taken out from between a and b, and points nowhere.
TakenOut(p, a, b, x, q) ==
    /\ q \in Links
    /\ \A c \in Cell : /\ q.next[c] = IF c = x THEN NULL ELSE IF c = a THEN b ELSE p.next[c]
                       /\ q.prev[c] = IF c = x THEN NULL ELSE IF c = b THEN a ELSE p.prev[c]

\* The assignments of a removal.
LEMMA TakenOutFacts ==
  ASSUME NEW p \in Links, NEW a \in Cell, NEW b \in Cell, NEW x \in Cell,
         NEW q, q = aws_linked_list_node_reset(Join(p, a, b), x)
  PROVE  TakenOut(p, a, b, x, q)
<1> DEFINE r == Join(p, a, b)
<1>1. Joined(p, a, b, r)
  BY JoinFacts
<1>2. q = aws_linked_list_node_reset(r, x)
  OBVIOUS
<1> HIDE DEF r
<1>3. r \in Links
  BY <1>1 DEF Joined
<1>4. r.next \in [Cell -> Pointer] /\ r.prev \in [Cell -> Pointer] /\ NULL \in Pointer
  BY <1>3 DEF Links, Pointer
<1> DEFINE n == [r.next EXCEPT ![x] = NULL]
           v == [r.prev EXCEPT ![x] = NULL]
<1>5. n \in [Cell -> Pointer] /\ v \in [Cell -> Pointer]
  BY <1>4
<1>6. q.next = n /\ q.prev = v /\ q \in Links
  BY <1>2, <1>3, <1>4, <1>5 DEF aws_linked_list_node_reset, SetNext, SetPrev, Links
<1>7. \A c \in Cell : q.next[c] = (IF c = x THEN NULL ELSE r.next[c]) /\ q.prev[c] = (IF c = x THEN NULL ELSE r.prev[c])
  BY <1>4, <1>6
<1> QED BY <1>1, <1>6, <1>7 DEF Joined, TakenOut

\* The lists with a node less.
LEMMA OnceWithoutNode ==
  ASSUME NEW ord \in [AList -> Seq(Node)], OnceLinked(ord), NEW l \in AList, NEW k \in 1 .. Len(ord[l]),
         NEW t, Without(ord[l], k, t)
  PROVE  /\ OnceLinked([ord EXCEPT ![l] = t])
         /\ \A x \in Node : InNoList([ord EXCEPT ![l] = t], x) => x = ord[l][k] \/ InNoList(ord, x)
<1> DEFINE s == ord[l]
           new == [ord EXCEPT ![l] = t]
           Was(i) == IF i < k THEN i ELSE i + 1
<1>1. s \in Seq(Node) /\ Len(s) \in Nat /\ k \in Nat /\ k <= Len(s) /\ k > 0
  OBVIOUS
<1>2. new[l] = t /\ \A m \in AList : m # l => new[m] = ord[m]
  OBVIOUS
<1>3. Len(t) = Len(s) - 1 /\ \A i \in 1 .. Len(s) - 1 : t[i] = IF i < k THEN s[i] ELSE s[i + 1]
  BY DEF Without
<1>5. \A j, m \in AList : \A i \in 1 .. Len(ord[j]) : \A h \in 1 .. Len(ord[m]) :
          ord[j][i] = ord[m][h] => j = m /\ i = h
  BY DEF OnceLinked
<1> HIDE DEF new
<1>6. \A i \in 1 .. Len(t) : Was(i) \in 1 .. Len(s) /\ t[i] = s[Was(i)]
  <2> HIDE DEF s
  <2> QED BY <1>1, <1>3
<1>8. \A i, h \in 1 .. Len(t) : Was(i) = Was(h) => i = h
  <2>1. Len(t) \in Nat
    <3> HIDE DEF s
    <3> QED BY <1>1, <1>3
  <2> QED BY <2>1, <1>1
<1> HIDE DEF Was
<1>9. ASSUME NEW i \in 1 .. Len(t), NEW m \in AList, m # l, NEW h \in 1 .. Len(ord[m])
      PROVE  t[i] # ord[m][h]
  BY <1>5, <1>6, <1>9
<1>10. ASSUME NEW i \in 1 .. Len(t), NEW h \in 1 .. Len(t), t[i] = t[h] PROVE i = h
  <2>1. s[Was(i)] = s[Was(h)] /\ Was(i) \in 1 .. Len(s) /\ Was(h) \in 1 .. Len(s)
    BY <1>6, <1>10
  <2>2. Was(i) = Was(h)
    BY <2>1, <1>5
  <2> QED BY <2>2, <1>8
<1>11. OnceLinked(new)
  <2> SUFFICES ASSUME NEW j \in AList, NEW m \in AList, NEW i \in 1 .. Len(new[j]), NEW h \in 1 .. Len(new[m]),
                      new[j][i] = new[m][h]
               PROVE  j = m /\ i = h
    BY DEF OnceLinked
  <2>1. CASE j = l /\ m = l
    BY <2>1, <1>2, <1>10
  <2>2. CASE j = l /\ m # l
    BY <2>2, <1>2, <1>9
  <2>3. CASE j # l /\ m = l
    BY <2>3, <1>2, <1>9
  <2>4. CASE j # l /\ m # l
    BY <2>4, <1>2, <1>5
  <2> QED BY <2>1, <2>2, <2>3, <2>4
<1>12. ASSUME NEW x \in Node, InNoList(new, x), x # s[k] PROVE InNoList(ord, x)
  <2>1. \A m \in AList : \A i \in 1 .. Len(new[m]) : new[m][i] # x
    BY <1>12 DEF InNoList
  <2>3. ASSUME NEW i \in 1 .. Len(s), i # k PROVE s[i] # x
    <3> DEFINE h == IF i < k THEN i ELSE i - 1
    <3>1. h \in 1 .. Len(t) /\ h \in 1 .. Len(s) - 1
      <4> HIDE DEF s
      <4> QED BY <1>1, <1>3, <2>3
    <3>2. t[h] = s[i]
      <4>1. CASE i < k
        <5> HIDE DEF s
        <5> QED BY <4>1, <3>1, <1>3
      <4>2. CASE ~(i < k)
        <5>1. ~(h < k) /\ h + 1 = i
          <6> HIDE DEF s
          <6> QED BY <4>2, <1>1, <2>3
        <5> HIDE DEF h, s
        <5> QED BY <5>1, <3>1, <1>3
      <4> QED BY <4>1, <4>2
    <3> HIDE DEF h
    <3> QED BY <3>1, <3>2, <2>1, <1>2
  <2>4. \A m \in AList : \A i \in 1 .. Len(ord[m]) : ord[m][i] # x
    BY <2>1, <2>3, <1>2, <1>12
  <2> QED BY <2>4 DEF InNoList
<1> QED BY <1>11, <1>12 DEF new

\* A node taken out of its list.
LEMMA RemoveKeeps ==
  ASSUME NEW p, NEW ord, Linked(p, ord), NEW l \in AList, NEW k \in 1 .. Len(ord[l]),
         NEW t, Without(ord[l], k, t), NEW q, q = aws_linked_list_remove(p, OfNode(ord[l][k]))
  PROVE  Linked(q, [ord EXCEPT ![l] = t])
<1> DEFINE s == ord[l]
           C(i) == CellAt(l, s, i)
           T(i) == CellAt(l, t, i)
           x == OfNode(s[k])
           new == [ord EXCEPT ![l] = t]
<1>1. /\ p \in Links /\ ord \in [AList -> Seq(Node)] /\ OnceLinked(ord) /\ s \in Seq(Node) /\ Len(s) \in Nat
      /\ C(0) = HeadOf(l) /\ C(Len(s) + 1) = TailOf(l) /\ C(k) = x /\ s[k] \in Node
      /\ \A i \in 0 .. Len(s) + 1 : C(i) \in Cell
  BY LinkedFacts
<1>2. /\ p.prev[HeadOf(l)] = NULL /\ p.next[TailOf(l)] = NULL
      /\ \A i \in 0 .. Len(s) : p.next[C(i)] = C(i + 1) /\ p.prev[C(i + 1)] = C(i)
  BY LinkedFacts DEF Chained
<1>3. \A m \in AList : \A i \in 0 .. Len(ord[m]) + 1 : \A j \in 0 .. Len(s) + 1 :
          CellAt(m, ord[m], i) = C(j) => m = l /\ i = j
  BY <1>1, CellsDiffer
<1>4. /\ Len(t) = Len(s) - 1 /\ t \in Seq(Node)
      /\ \A i \in 0 .. Len(t) + 1 : T(i) = IF i < k THEN C(i) ELSE C(i + 1)
  BY <1>1, CellsWithout DEF Without
<1>5. new \in [AList -> Seq(Node)] /\ new[l] = t /\ \A m \in AList : m # l => new[m] = ord[m]
  BY <1>1, <1>4
<1>6. OnceLinked(new) /\ \A y \in Node : InNoList(new, y) => y = s[k] \/ InNoList(ord, y)
  BY <1>1, OnceWithoutNode
<1>7. q = aws_linked_list_node_reset(Join(p, p.prev[x], p.next[x]), x)
  BY DEF aws_linked_list_remove
<1>8. k \in 1 .. Len(s)
  OBVIOUS
<1>c. \A i \in 0 .. Len(s) + 1 : \A j \in 0 .. Len(s) + 1 : C(i) = C(j) => i = j
  BY <1>1, CellsDiffer
<1> DEFINE h == k - 1
<1>9. h \in Nat /\ h + 1 = k /\ h \in 0 .. Len(s) /\ k \in 0 .. Len(s) /\ h \in 0 .. Len(s) + 1
      /\ k \in 0 .. Len(s) + 1 /\ k + 1 \in 0 .. Len(s) + 1 /\ k <= Len(s) /\ k \in Nat
  <2> HIDE DEF s
  <2> QED BY <1>1, <1>8
<1> HIDE DEF h
<1>10. TakenOut(p, C(h), C(k + 1), x, q)
  <2>1. p.prev[x] = C(h) /\ p.next[x] = C(k + 1)
    BY <1>1, <1>2, <1>9
  <2>2. C(h) \in Cell /\ C(k + 1) \in Cell /\ x \in Cell
    BY <1>1, <1>9
  <2>3. q = aws_linked_list_node_reset(Join(p, C(h), C(k + 1)), x)
    BY <1>7, <2>1
  <2> HIDE DEF C, x
  <2> QED BY <1>1, <2>2, <2>3, TakenOutFacts
<1>11. \A c \in Cell : /\ q.next[c] = IF c = x THEN NULL ELSE IF c = C(h) THEN C(k + 1) ELSE p.next[c]
                       /\ q.prev[c] = IF c = x THEN NULL ELSE IF c = C(k + 1) THEN C(h) ELSE p.prev[c]
  BY <1>10 DEF TakenOut
<1>12. Chained(q, l, t)
  <2> SUFFICES /\ q.prev[HeadOf(l)] = NULL /\ q.next[TailOf(l)] = NULL
               /\ \A i \in 0 .. Len(t) : q.next[T(i)] = T(i + 1) /\ q.prev[T(i + 1)] = T(i)
    BY DEF Chained
  <2> HIDE DEF s, C, T, x, new
  <2>1. \A i \in 0 .. Len(s) + 1 : i # k =>
            /\ q.next[C(i)] = IF i = h THEN C(k + 1) ELSE p.next[C(i)]
            /\ q.prev[C(i)] = IF i = k + 1 THEN C(h) ELSE p.prev[C(i)]
    BY <1>1, <1>9, <1>11, <1>c
  <2>2. q.prev[HeadOf(l)] = NULL /\ q.next[TailOf(l)] = NULL
    <3>1. /\ 0 \in 0 .. Len(s) + 1 /\ Len(s) + 1 \in 0 .. Len(s) + 1 /\ 0 # k + 1 /\ Len(s) + 1 # h
          /\ 0 # k /\ Len(s) + 1 # k
      BY <1>1, <1>9
    <3> QED BY <3>1, <2>1, <1>1, <1>2
  <2>3. ASSUME NEW i \in 0 .. Len(t) PROVE q.next[T(i)] = T(i + 1) /\ q.prev[T(i + 1)] = T(i)
    <3>0. i \in 0 .. Len(t) + 1 /\ i + 1 \in 0 .. Len(t) + 1 /\ i \in Nat /\ i <= Len(s) - 1
      BY <1>1, <1>4
    <3>1. CASE i < h
      <4>1. /\ i < k /\ i + 1 < k /\ i # h /\ i # k /\ i + 1 # k /\ i + 1 # k + 1
            /\ i \in 0 .. Len(s) /\ i \in 0 .. Len(s) + 1 /\ i + 1 \in 0 .. Len(s) + 1
        BY <3>0, <3>1, <1>1, <1>9
      <4>2. T(i) = C(i) /\ T(i + 1) = C(i + 1)
        BY <4>1, <3>0, <1>4
      <4> QED BY <4>1, <4>2, <2>1, <1>2
    <3>2. CASE i = h
      <4>1. i < k /\ i + 1 = k /\ ~(k < k) /\ h # k /\ k + 1 # k
        BY <3>2, <1>9
      <4>2. T(i) = C(h) /\ T(i + 1) = C(k + 1)
        BY <4>1, <3>0, <3>2, <1>4
      <4> QED BY <4>1, <4>2, <2>1, <1>9
    <3>3. CASE i > h
      <4> DEFINE j == i + 1
      <4>1. /\ ~(i < k) /\ ~(j < k) /\ j # h /\ j # k /\ j + 1 # k + 1 /\ j + 1 # k
            /\ j \in 0 .. Len(s) /\ j \in 0 .. Len(s) + 1 /\ j + 1 \in 0 .. Len(s) + 1
        BY <3>0, <3>3, <1>1, <1>9
      <4>2. T(i) = C(j) /\ T(i + 1) = C(j + 1)
        BY <4>1, <3>0, <1>4
      <4> HIDE DEF j
      <4> QED BY <4>1, <4>2, <2>1, <1>2
    <3> QED BY <3>0, <3>1, <3>2, <3>3, <1>9
  <2> QED BY <2>2, <2>3
<1>13. ASSUME NEW m \in AList, m # l PROVE Chained(q, m, ord[m])
  <2> DEFINE u == ord[m]
  <2>1. /\ Len(u) \in Nat /\ CellAt(m, u, 0) = HeadOf(m) /\ CellAt(m, u, Len(u) + 1) = TailOf(m)
        /\ \A i \in 0 .. Len(u) + 1 : CellAt(m, u, i) \in Cell
        /\ Chained(p, m, u)
    BY LinkedFacts
  <2>2. ASSUME NEW i \in 0 .. Len(u) + 1
        PROVE  CellAt(m, u, i) # C(h) /\ CellAt(m, u, i) # C(k + 1) /\ CellAt(m, u, i) # x
    BY <1>1, <1>3, <1>9, <1>13
  <2> HIDE DEF u, C, x
  <2>3. \A i \in 0 .. Len(u) + 1 : /\ q.next[CellAt(m, u, i)] = p.next[CellAt(m, u, i)]
                                   /\ q.prev[CellAt(m, u, i)] = p.prev[CellAt(m, u, i)]
    BY <2>1, <2>2, <1>11
  <2>4. Chained(q, m, u)
    BY <2>1, <2>3, ChainKept
  <2> QED BY <2>4 DEF u
<1>14. ASSUME NEW y \in Node, InNoList(new, y) PROVE Unlinked(q, y)
  <2>1. y = s[k] \/ InNoList(ord, y)
    BY <1>6, <1>14
  <2>2. x \in Cell
    BY <1>1, CellFacts
  <2>3. CASE y = s[k]
    BY <2>2, <2>3, <1>11 DEF Unlinked
  <2>4. CASE y # s[k] /\ InNoList(ord, y)
    <3>1. Unlinked(p, y)
      BY <2>4 DEF Linked
    <3>2. C(h) # OfNode(y) /\ C(k + 1) # OfNode(y)
      BY <2>4, <1>1, <1>9, NodeOutside
    <3>3. OfNode(y) # x /\ OfNode(y) \in Cell
      BY <2>4, CellFacts, Zenon
    <3> HIDE DEF C, x
    <3> QED BY <3>1, <3>2, <3>3, <1>11 DEF Unlinked
  <2> QED BY <2>1, <2>3, <2>4
<1>15. q \in Links /\ \A m \in AList : Chained(q, m, new[m])
  BY <1>5, <1>10, <1>12, <1>13 DEF TakenOut
<1> HIDE DEF new
<1>16. Linked(q, new)
  BY <1>5, <1>6, <1>14, <1>15 DEF Linked
<1> QED BY <1>16 DEF new

----------------------------------------------------------------------------

\* Every cell has a place in a list, or is a node in no list.
LEMMA CellPlace ==
  ASSUME NEW ord \in [AList -> Seq(Node)], NEW c \in Cell
  PROVE  \/ \E m \in AList : \E i \in 0 .. Len(ord[m]) + 1 : c = CellAt(m, ord[m], i)
         \/ \E n \in Node : InNoList(ord, n) /\ c = OfNode(n)
<1>1. \A m \in AList : /\ Len(ord[m]) \in Nat /\ CellAt(m, ord[m], 0) = HeadOf(m)
                       /\ CellAt(m, ord[m], Len(ord[m]) + 1) = TailOf(m)
                       /\ \A i \in 1 .. Len(ord[m]) : CellAt(m, ord[m], i) = OfNode(ord[m][i])
  BY CellAtFacts
<1>2. \A m \in AList : 0 \in 0 .. Len(ord[m]) + 1 /\ Len(ord[m]) + 1 \in 0 .. Len(ord[m]) + 1
  BY <1>1
<1>3. \A m \in AList : \A i \in 1 .. Len(ord[m]) : i \in 0 .. Len(ord[m]) + 1
  BY <1>1
<1>4. (\E m \in AList : c = HeadOf(m) \/ c = TailOf(m)) \/ \E n \in Node : c = OfNode(n)
  BY DEF Cell, Cells, Ends
<1>5. CASE \E m \in AList : c = HeadOf(m) \/ c = TailOf(m)
  BY <1>1, <1>2, <1>5
<1>6. CASE \E n \in Node : c = OfNode(n)
  <2>1. PICK n \in Node : c = OfNode(n)
    BY <1>6
  <2>2. CASE InNoList(ord, n)
    BY <2>1, <2>2
  <2>3. CASE ~InNoList(ord, n)
    <3>0. PICK m \in AList : \E i \in 1 .. Len(ord[m]) : ord[m][i] = n
      BY <2>3 DEF InNoList
    <3>1. PICK i \in 1 .. Len(ord[m]) : ord[m][i] = n
      BY <3>0
    <3>2. c = CellAt(m, ord[m], i) /\ i \in 0 .. Len(ord[m]) + 1
      BY <2>1, <3>1, <1>1, <1>3
    <3> QED BY <3>2
  <2> QED BY <2>2, <2>3
<1> QED BY <1>4, <1>5, <1>6

\* next and prev are inverse to each other, and no cell is its own neighbour.
Inverse2(f, g) == \A c \in Cell : f[c] # NULL => f[c] \in Cell /\ f[c] # c /\ g[f[c]] = c

\* The two pointers of a cell at a place of a list.
LEMMA PointersAt ==
  ASSUME NEW p, NEW ord, Linked(p, ord), NEW m \in AList, NEW i \in 0 .. Len(ord[m]) + 1
  PROVE  /\ p.next[CellAt(m, ord[m], i)] = IF i = Len(ord[m]) + 1 THEN NULL ELSE CellAt(m, ord[m], i + 1)
         /\ p.prev[CellAt(m, ord[m], i)] = IF i = 0 THEN NULL ELSE CellAt(m, ord[m], i - 1)
<1> DEFINE s == ord[m]
           C(j) == CellAt(m, s, j)
<1>1. Len(s) \in Nat /\ C(0) = HeadOf(m) /\ C(Len(s) + 1) = TailOf(m)
  BY LinkedFacts
<1>2. /\ p.prev[HeadOf(m)] = NULL /\ p.next[TailOf(m)] = NULL
      /\ \A j \in 0 .. Len(s) : p.next[C(j)] = C(j + 1) /\ p.prev[C(j + 1)] = C(j)
  BY LinkedFacts DEF Chained
<1>3. i \in 0 .. Len(s) + 1
  OBVIOUS
<1> HIDE DEF s, C
<1>4. p.next[C(i)] = IF i = Len(s) + 1 THEN NULL ELSE C(i + 1)
  <2>1. CASE i = Len(s) + 1
    BY <1>1, <1>2, <2>1
  <2>2. CASE i # Len(s) + 1
    <3>1. i \in 0 .. Len(s)
      BY <2>2, <1>1, <1>3
    <3> QED BY <3>1, <2>2, <1>2
  <2> QED BY <2>1, <2>2
<1>5. p.prev[C(i)] = IF i = 0 THEN NULL ELSE C(i - 1)
  <2>1. CASE i = 0
    BY <1>1, <1>2, <2>1
  <2>2. CASE i # 0
    <3> DEFINE j == i - 1
    <3>1. j \in 0 .. Len(s) /\ j + 1 = i
      BY <2>2, <1>1, <1>3
    <3>2. j = i - 1
      OBVIOUS
    <3> HIDE DEF j
    <3> QED BY <3>1, <3>2, <2>2, <1>2
  <2> QED BY <2>1, <2>2
<1> QED BY <1>4, <1>5 DEF C, s

\* Linked cells point to each other.
LEMMA LinksInverse ==
  ASSUME NEW p, NEW ord, Linked(p, ord)
  PROVE  Inverse2(p.next, p.prev) /\ Inverse2(p.prev, p.next)
<1>1. p \in Links /\ ord \in [AList -> Seq(Node)] /\ OnceLinked(ord)
  BY DEF Linked
<1>2. ASSUME NEW n \in Node, InNoList(ord, n) PROVE p.next[OfNode(n)] = NULL /\ p.prev[OfNode(n)] = NULL
  BY <1>2 DEF Linked, Unlinked
<1>3. ASSUME NEW m \in AList, NEW i \in 0 .. Len(ord[m]) + 1, NEW c, c = CellAt(m, ord[m], i)
      PROVE  /\ p.next[c] # NULL => p.next[c] \in Cell /\ p.next[c] # c /\ p.prev[p.next[c]] = c
             /\ p.prev[c] # NULL => p.prev[c] \in Cell /\ p.prev[c] # c /\ p.next[p.prev[c]] = c
  <2> DEFINE s == ord[m]
             C(j) == CellAt(m, s, j)
  <2>1. Len(s) \in Nat /\ \A j \in 0 .. Len(s) + 1 : C(j) \in Cell
    BY LinkedFacts
  <2>2. \A j \in 0 .. Len(s) + 1 : /\ p.next[C(j)] = IF j = Len(s) + 1 THEN NULL ELSE C(j + 1)
                                   /\ p.prev[C(j)] = IF j = 0 THEN NULL ELSE C(j - 1)
    BY PointersAt
  <2>3. \A j, h \in 0 .. Len(s) + 1 : C(j) = C(h) => j = h
    BY <1>1, CellsDiffer
  <2>4. c = C(i) /\ i \in 0 .. Len(s) + 1
    BY <1>3
  <2> HIDE DEF s, C
  <2>5. ASSUME p.next[c] # NULL PROVE p.next[c] \in Cell /\ p.next[c] # c /\ p.prev[p.next[c]] = c
    <3>1. i + 1 \in 0 .. Len(s) + 1 /\ i + 1 # 0 /\ (i + 1) - 1 = i /\ i + 1 # i
      BY <2>1, <2>2, <2>4, <2>5
    <3>2. p.next[c] = C(i + 1)
      BY <2>2, <2>4, <2>5
    <3>3. C(i + 1) # C(i)
      BY <3>1, <2>3, <2>4
    <3>4. p.prev[C(i + 1)] = C(i)
      BY <3>1, <2>2
    <3> QED BY <3>1, <3>2, <3>3, <3>4, <2>1, <2>4
  <2>6. ASSUME p.prev[c] # NULL PROVE p.prev[c] \in Cell /\ p.prev[c] # c /\ p.next[p.prev[c]] = c
    <3>1. i - 1 \in 0 .. Len(s) + 1 /\ i - 1 # Len(s) + 1 /\ (i - 1) + 1 = i /\ i - 1 # i
      BY <2>1, <2>2, <2>4, <2>6
    <3>2. p.prev[c] = C(i - 1)
      BY <2>2, <2>4, <2>6
    <3>3. C(i - 1) # C(i)
      BY <3>1, <2>3, <2>4
    <3>4. p.next[C(i - 1)] = C(i)
      BY <3>1, <2>2
    <3> QED BY <3>1, <3>2, <3>3, <3>4, <2>1, <2>4
  <2> QED BY <2>5, <2>6
<1>4. ASSUME NEW c \in Cell
      PROVE  /\ p.next[c] # NULL => p.next[c] \in Cell /\ p.next[c] # c /\ p.prev[p.next[c]] = c
             /\ p.prev[c] # NULL => p.prev[c] \in Cell /\ p.prev[c] # c /\ p.next[p.prev[c]] = c
  <2>1. \/ \E m \in AList : \E i \in 0 .. Len(ord[m]) + 1 : c = CellAt(m, ord[m], i)
        \/ \E n \in Node : InNoList(ord, n) /\ c = OfNode(n)
    BY <1>1, CellPlace
  <2> QED BY <2>1, <1>2, <1>3
<1> QED BY <1>4 DEF Inverse2

\* Two nodes exchanged.
Transposed(A, B, c) == IF c = A THEN B ELSE IF c = B THEN A ELSE c

\* The pointers p, with the names of two cells exchanged.
Renamed(p, A, B, q) ==
    /\ q \in Links
    /\ \A c \in Cell : /\ q.next[c] = Transposed(A, B, p.next[Transposed(A, B, c)])
                       /\ q.prev[c] = Transposed(A, B, p.prev[Transposed(A, B, c)])

\* One direction of it: the neighbours' pointers are set, then the nodes' own.
Relinked(f, g, A, B) == [[f EXCEPT ![g[A]] = B] EXCEPT ![g[B]] = A]
OwnExchanged(f, A, B) == [f EXCEPT ![A] = f[B], ![B] = f[A]]
Conjugate(f, h, A, B) ==
    h \in [Cell -> Pointer] /\ \A c \in Cell : h[c] = Transposed(A, B, f[Transposed(A, B, c)])

\* One direction of the exchange: the neighbours' pointers are set, then the nodes' own.
LEMMA OneDirection ==
  ASSUME NEW f \in [Cell -> Pointer], NEW g \in [Cell -> Pointer], Inverse2(f, g), Inverse2(g, f),
         NEW A \in Cell, NEW B \in Cell, A # B, f[A] # NULL, f[B] # NULL, g[A] # NULL, g[B] # NULL,
         NEW f1, f1 = Relinked(f, g, A, B), NEW f2, f2 = OwnExchanged(f1, A, B)
  PROVE  Conjugate(f, f2, A, B)
<1>1. /\ \A c \in Cell : f[c] # NULL => f[c] \in Cell /\ f[c] # c /\ g[f[c]] = c
      /\ \A c \in Cell : g[c] # NULL => g[c] \in Cell /\ g[c] # c /\ f[g[c]] = c
  BY DEF Inverse2
<1>2. A \in Pointer /\ B \in Pointer /\ NULL \notin Cell
  BY CellFacts DEF Pointer
<1>3. g[A] \in Cell /\ g[B] \in Cell /\ g[A] # A /\ g[B] # B /\ f[g[A]] = A /\ f[g[B]] = B /\ g[A] # g[B]
  BY <1>1
<1>4. f1 \in [Cell -> Pointer] /\ \A c \in Cell : f1[c] = IF c = g[B] THEN A ELSE IF c = g[A] THEN B ELSE f[c]
  BY <1>2, <1>3 DEF Relinked
<1>5. f2 \in [Cell -> Pointer] /\ \A c \in Cell : f2[c] = IF c = B THEN f1[A] ELSE IF c = A THEN f1[B] ELSE f1[c]
  BY <1>4 DEF OwnExchanged
<1>6. \A c \in Cell : (f[c] = A <=> c = g[A]) /\ (f[c] = B <=> c = g[B])
  BY <1>1, <1>2, <1>3
<1>7. f[A] # A /\ f[B] # B
  BY <1>1
<1>8. f2[A] = Transposed(A, B, f[B])
  BY <1>3, <1>4, <1>5, <1>6, <1>7 DEF Transposed
<1>9. f2[B] = Transposed(A, B, f[A])
  BY <1>3, <1>4, <1>5, <1>6, <1>7 DEF Transposed
<1>10. ASSUME NEW c \in Cell, c # A, c # B PROVE f2[c] = Transposed(A, B, f[c])
  BY <1>3, <1>4, <1>5, <1>6, <1>10 DEF Transposed
<1>11. ASSUME NEW c \in Cell PROVE f2[c] = Transposed(A, B, f[Transposed(A, B, c)])
  BY <1>8, <1>9, <1>10 DEF Transposed
<1> QED BY <1>5, <1>11 DEF Conjugate

\* The pointers after the assignments of the exchange.
LEMMA SwapNodesFacts ==
  ASSUME NEW p \in Links, Inverse2(p.next, p.prev), Inverse2(p.prev, p.next),
         NEW A \in Cell, NEW B \in Cell, A # B,
         p.next[A] # NULL, p.next[B] # NULL, p.prev[A] # NULL, p.prev[B] # NULL,
         NEW q, q = aws_linked_list_swap_nodes(p, A, B)
  PROVE  Renamed(p, A, B, q)
<1> DEFINE n == p.next
           v == p.prev
           n1 == [[n EXCEPT ![v[A]] = B] EXCEPT ![v[B]] = A]
           v1 == [[v EXCEPT ![n[A]] = B] EXCEPT ![n[B]] = A]
           n2 == [n1 EXCEPT ![A] = n1[B], ![B] = n1[A]]
           v2 == [v1 EXCEPT ![A] = v1[B], ![B] = v1[A]]
           p1 == SetNext(p, v[A], B)
           p2 == SetPrev(p1, p1.next[A], B)
           p3 == SetNext(p2, v[B], A)
           p4 == SetPrev(p3, n[B], A)
<1>1. n \in [Cell -> Pointer] /\ v \in [Cell -> Pointer] /\ p = [next |-> n, prev |-> v]
  BY DEF Links
<1>2. v[A] # A
  BY SMTT(30) DEF Inverse2
<1>3. q = [next |-> [p4.next EXCEPT ![A] = p4.next[B], ![B] = p4.next[A]],
           prev |-> [p4.prev EXCEPT ![A] = p4.prev[B], ![B] = p4.prev[A]]]
  BY DEF aws_linked_list_swap_nodes
<1>p. p1 = [p EXCEPT !.next = [p.next EXCEPT ![v[A]] = B]]
  BY <1>1 DEF SetNext
<1> HIDE DEF n, v
<1>4. p1 = [next |-> [n EXCEPT ![v[A]] = B], prev |-> v]
  BY <1>1 DEF SetNext
<1> HIDE DEF p1
<1>5. p1.next = [n EXCEPT ![v[A]] = B] /\ p1.prev = v /\ p1.next[A] = n[A]
  BY <1>1, <1>2, <1>4
<1>6. p2 = [next |-> p1.next, prev |-> [v EXCEPT ![n[A]] = B]]
  BY <1>4, <1>5 DEF SetPrev
<1> HIDE DEF p2
<1>7. p3 = [next |-> n1, prev |-> p2.prev]
  BY <1>5, <1>6 DEF SetNext
<1> HIDE DEF p3
<1>8. p4 = [next |-> n1, prev |-> v1]
  BY <1>6, <1>7 DEF SetPrev
<1> HIDE DEF p4
<1>9. q = [next |-> n2, prev |-> v2]
  BY <1>3, <1>8
<1>10. Inverse2(n, v) /\ Inverse2(v, n) /\ n[A] # NULL /\ n[B] # NULL /\ v[A] # NULL /\ v[B] # NULL
  BY DEF n, v
<1> DEFINE a1 == n1
           b1 == v1
           a2 == n2
           b2 == v2
<1>11. a1 = Relinked(n, v, A, B) /\ a2 = OwnExchanged(a1, A, B)
  BY DEF Relinked, OwnExchanged
<1>12. b1 = Relinked(v, n, A, B) /\ b2 = OwnExchanged(b1, A, B)
  BY DEF Relinked, OwnExchanged
<1>13. q = [next |-> a2, prev |-> b2]
  BY <1>9
<1> HIDE DEF a1, a2, b1, b2
<1>14. Conjugate(n, a2, A, B)
  BY <1>1, <1>10, <1>11, OneDirection
<1>15. Conjugate(v, b2, A, B)
  BY <1>1, <1>10, <1>12, OneDirection
<1>16. q \in Links /\ q.next = a2 /\ q.prev = b2
  BY <1>13, <1>14, <1>15 DEF Links, Conjugate
<1> QED BY <1>14, <1>15, <1>16 DEF Renamed, Conjugate, n, v

\* The sequence s with two nodes exchanged, as SwapsNodes computes it.
Exchanged(s, a, b) == [j \in DOMAIN s |-> IF s[j] = a THEN b ELSE IF s[j] = b THEN a ELSE s[j]]

\* Two nodes of the lists exchanged: neighbours, in one list or in two.
LEMMA SwapNodesKeeps ==
  ASSUME NEW p, NEW ord, Linked(p, ord), NEW l \in AList, NEW i \in 1 .. Len(ord[l]),
         NEW m \in AList, NEW k \in 1 .. Len(ord[m]), NEW a, a = ord[l][i], NEW b, b = ord[m][k],
         NEW q, q = aws_linked_list_swap_nodes(p, OfNode(a), OfNode(b)),
         NEW new, new = [x \in AList |-> Exchanged(ord[x], a, b)]
  PROVE  Linked(q, new)
<1>1. p \in Links /\ ord \in [AList -> Seq(Node)] /\ OnceLinked(ord)
  BY DEF Linked
<1>2. \A x \in AList : Len(ord[x]) \in Nat /\ DOMAIN ord[x] = 1 .. Len(ord[x]) /\ ord[x] \in [1 .. Len(ord[x]) -> Node]
  BY <1>1
<1>3. a \in Node /\ b \in Node
  BY <1>2
<1>4. CASE a = b
  <2>1. q = p
    BY <1>4 DEF aws_linked_list_swap_nodes
  <2>2. \A x \in AList : Exchanged(ord[x], a, b) = ord[x]
    BY <1>2, <1>4 DEF Exchanged
  <2>3. new = ord
    BY <1>1, <2>2
  <2> QED BY <2>1, <2>3
<1>5. CASE a # b
  <2> DEFINE A == OfNode(a)
             B == OfNode(b)
             E(c) == Transposed(A, B, c)
  <2>1. A \in Cell /\ B \in Cell /\ A # B
    BY <1>3, <1>5, CellFacts, Zenon
  <2>2. p.next[A] # NULL /\ p.prev[A] # NULL /\ p.next[B] # NULL /\ p.prev[B] # NULL
    <3>1. ASSUME NEW x \in AList, NEW j \in 1 .. Len(ord[x])
          PROVE  p.next[OfNode(ord[x][j])] # NULL /\ p.prev[OfNode(ord[x][j])] # NULL
      <4>1. /\ j \in 0 .. Len(ord[x]) + 1 /\ j # Len(ord[x]) + 1 /\ j # 0
            /\ j + 1 \in 0 .. Len(ord[x]) + 1 /\ j - 1 \in 0 .. Len(ord[x]) + 1
        BY <1>2
      <4>2. /\ CellAt(x, ord[x], j) = OfNode(ord[x][j])
            /\ CellAt(x, ord[x], j + 1) \in Cell /\ CellAt(x, ord[x], j - 1) \in Cell
        BY <4>1, LinkedFacts
      <4>3. /\ p.next[CellAt(x, ord[x], j)] = CellAt(x, ord[x], j + 1)
            /\ p.prev[CellAt(x, ord[x], j)] = CellAt(x, ord[x], j - 1)
        <5>1. /\ p.next[CellAt(x, ord[x], j)] = IF j = Len(ord[x]) + 1 THEN NULL ELSE CellAt(x, ord[x], j + 1)
              /\ p.prev[CellAt(x, ord[x], j)] = IF j = 0 THEN NULL ELSE CellAt(x, ord[x], j - 1)
          BY <4>1, PointersAt
        <5> QED BY <5>1, <4>1
      <4> QED BY <4>2, <4>3, CellFacts
    <3> QED BY <3>1
  <2>3. Renamed(p, A, B, q)
    <3>1. Inverse2(p.next, p.prev) /\ Inverse2(p.prev, p.next)
      BY LinksInverse
    <3>2. q = aws_linked_list_swap_nodes(p, A, B)
      OBVIOUS
    <3> HIDE DEF A, B
    <3> QED BY <3>1, <3>2, <2>1, <2>2, <1>1, SwapNodesFacts
  <2>4. /\ q \in Links
        /\ \A c \in Cell : q.next[c] = E(p.next[E(c)]) /\ q.prev[c] = E(p.prev[E(c)])
    BY <2>3 DEF Renamed
  <2>5. \A c \in Cell : E(c) \in Cell /\ E(E(c)) = c
    <3> HIDE DEF A, B
    <3> QED BY <2>1 DEF Transposed
  <2>6. E(NULL) = NULL /\ \A x \in AList : E(HeadOf(x)) = HeadOf(x) /\ E(TailOf(x)) = TailOf(x)
    <3>1. NULL # A /\ NULL # B
      BY <2>1, CellFacts
    <3>2. \A x \in AList : HeadOf(x) # A /\ HeadOf(x) # B /\ TailOf(x) # A /\ TailOf(x) # B
      BY CellFacts, Zenon
    <3> HIDE DEF A, B
    <3> QED BY <3>1, <3>2 DEF Transposed
  <2>7. \A c \in Cell : q.next[E(c)] = E(p.next[c]) /\ q.prev[E(c)] = E(p.prev[c])
    <3> HIDE DEF E
    <3> QED BY <2>4, <2>5
  <2>8. ASSUME NEW x \in AList
        PROVE  /\ new[x] \in Seq(Node) /\ Len(new[x]) = Len(ord[x])
               /\ \A j \in 1 .. Len(ord[x]) : new[x][j] = Transposed(a, b, ord[x][j])
    <3>1. new[x] = [j \in 1 .. Len(ord[x]) |-> Transposed(a, b, ord[x][j])]
      BY <1>2 DEF Exchanged, Transposed
    <3>2. \A j \in 1 .. Len(ord[x]) : Transposed(a, b, ord[x][j]) \in Node
      BY <1>2, <1>3 DEF Transposed
    <3>3. new[x] \in [1 .. Len(ord[x]) -> Node]
      BY <3>1, <3>2
    <3> QED BY <3>1, <3>3, <1>2
  <2>9. new \in [AList -> Seq(Node)]
    BY <2>8
  <2>10. OnceLinked(new)
    <3>1. \A y, z : Transposed(a, b, y) = Transposed(a, b, z) => y = z
      BY DEF Transposed
    <3> QED BY <3>1, <2>8, <1>1 DEF OnceLinked
  <2>11. ASSUME NEW x \in AList, NEW j \in 0 .. Len(ord[x]) + 1
         PROVE  CellAt(x, new[x], j) = E(CellAt(x, ord[x], j))
    <3>1. CASE j = 0 \/ j = Len(ord[x]) + 1
      <4>1. j = 0 \/ (j # 0 /\ j > Len(ord[x]))
        BY <3>1, <1>2
      <4>2. \/ CellAt(x, new[x], j) = HeadOf(x) /\ CellAt(x, ord[x], j) = HeadOf(x)
            \/ CellAt(x, new[x], j) = TailOf(x) /\ CellAt(x, ord[x], j) = TailOf(x)
        <5>1. Len(new[x]) = Len(ord[x])
          BY <2>8
        <5>2. CASE j = 0
          BY <5>2 DEF CellAt
        <5>3. CASE j # 0 /\ j > Len(ord[x])
          <6>1. j > Len(new[x])
            BY <5>1, <5>3
          <6> QED BY <6>1, <5>3 DEF CellAt
        <5> QED BY <5>2, <5>3, <4>1
      <4> HIDE DEF E
      <4> QED BY <4>2, <2>6
    <3>2. CASE j # 0 /\ j # Len(ord[x]) + 1
      <4>1. j \in 1 .. Len(ord[x]) /\ ~(j > Len(ord[x]))
        <5>1. Len(ord[x]) \in Nat
          BY <1>2
        <5> QED BY ONLY <5>1, <3>2, j \in 0 .. Len(ord[x]) + 1
      <4>2. CellAt(x, new[x], j) = OfNode(Transposed(a, b, ord[x][j])) /\ CellAt(x, ord[x], j) = OfNode(ord[x][j])
        BY <3>2, <4>1, <2>8 DEF CellAt
      <4>3. \A y : OfNode(Transposed(a, b, y)) = E(OfNode(y))
        BY CellFacts DEF Transposed
      <4> QED BY <4>2, <4>3
    <3> QED BY <3>1, <3>2
  <2>12. ASSUME NEW x \in AList PROVE Chained(q, x, new[x])
    <3> DEFINE s == ord[x]
               t == new[x]
               C(j) == CellAt(x, s, j)
               T(j) == CellAt(x, t, j)
    <3>1. /\ Len(s) \in Nat /\ \A j \in 0 .. Len(s) + 1 : C(j) \in Cell
      BY LinkedFacts
    <3>2. /\ p.prev[HeadOf(x)] = NULL /\ p.next[TailOf(x)] = NULL
          /\ \A j \in 0 .. Len(s) : p.next[C(j)] = C(j + 1) /\ p.prev[C(j + 1)] = C(j)
      BY LinkedFacts DEF Chained
    <3>3. Len(t) = Len(s) /\ \A j \in 0 .. Len(s) + 1 : T(j) = E(C(j))
      BY <2>8, <2>11
    <3>4. HeadOf(x) \in Cell /\ TailOf(x) \in Cell
      BY CellFacts
    <3>5. q.prev[HeadOf(x)] = NULL /\ q.next[TailOf(x)] = NULL
      <4> HIDE DEF E
      <4> QED BY <3>2, <3>4, <2>4, <2>6
    <3> SUFFICES \A j \in 0 .. Len(t) : q.next[T(j)] = T(j + 1) /\ q.prev[T(j + 1)] = T(j)
      BY <3>5 DEF Chained
    <3> HIDE DEF s, t, C, T, E
    <3>6. \A j \in 0 .. Len(s) : j \in 0 .. Len(s) + 1 /\ j + 1 \in 0 .. Len(s) + 1
      BY <3>1
    <3> QED BY <3>1, <3>2, <3>3, <3>6, <2>7
  <2>13. ASSUME NEW n \in Node, InNoList(new, n) PROVE Unlinked(q, n)
    <3>1. \A x \in AList : \A j \in 1 .. Len(new[x]) : new[x][j] # n
      BY <2>13 DEF InNoList
    <3>2. n # a /\ n # b
      <4>1. new[m][k] = a /\ new[l][i] = b
        BY <2>8, <1>5 DEF Transposed
      <4> QED BY <4>1, <3>1, <2>8
    <3>3. InNoList(ord, n)
      BY <3>1, <3>2, <2>8 DEF InNoList, Transposed
    <3>4. p.next[OfNode(n)] = NULL /\ p.prev[OfNode(n)] = NULL
      BY <3>3 DEF Linked, Unlinked
    <3>5. OfNode(n) # A /\ OfNode(n) # B /\ OfNode(n) \in Cell
      BY <3>2, CellFacts, Zenon
    <3>6. E(OfNode(n)) = OfNode(n)
      <4> HIDE DEF A, B
      <4> QED BY <3>5 DEF Transposed
    <3> HIDE DEF E
    <3> QED BY <3>4, <3>5, <3>6, <2>4, <2>6 DEF Unlinked
  <2> QED BY <2>4, <2>9, <2>10, <2>12, <2>13 DEF Linked
<1> QED BY <1>4, <1>5

----------------------------------------------------------------------------

\* a and b are neighbours.
Neighbours(q, a, b) == q.next[a] = b /\ q.prev[b] = a

\* A list of two parts, the first with its head and the second with its tail.
LEMMA ConcatChained ==
  ASSUME NEW l \in AList, NEW x \in Seq(Node), NEW y \in Seq(Node), NEW q,
         q.prev[HeadOf(l)] = NULL, q.next[TailOf(l)] = NULL,
         \A i \in 0 .. Len(x) - 1 : Neighbours(q, CellAt(l, x, i), CellAt(l, x, i + 1)),
         Neighbours(q, CellAt(l, x, Len(x)), CellAt(l, y, 1)),
         \A i \in 1 .. Len(y) : Neighbours(q, CellAt(l, y, i), CellAt(l, y, i + 1))
  PROVE  Chained(q, l, x \o y)
<1> DEFINE u == x \o y
           U(i) == CellAt(l, u, i)
<1>1. Len(x) \in Nat /\ Len(y) \in Nat
  OBVIOUS
<1>2. /\ u \in Seq(Node) /\ Len(u) = Len(x) + Len(y)
      /\ \A i \in 1 .. Len(x) + Len(y) : u[i] = IF i <= Len(x) THEN x[i] ELSE y[i - Len(x)]
  BY ConcatProperties
<1> HIDE DEF u
<1>l. Len(u) = Len(x) + Len(y)
  BY <1>2
<1>3. ASSUME NEW i \in 0 .. Len(x) PROVE U(i) = CellAt(l, x, i)
  <2>1. CASE i = 0
    BY <2>1 DEF CellAt
  <2>2. CASE i # 0
    <3>1. i \in 1 .. Len(x) + Len(y) /\ i <= Len(x) /\ ~(i > Len(x)) /\ ~(i > Len(u))
      BY <2>2, <1>1, <1>2
    <3> QED BY <3>1, <2>2, <1>2 DEF CellAt
  <2> QED BY <2>1, <2>2
<1>4. ASSUME NEW j \in 1 .. Len(y) + 1 PROVE U(Len(x) + j) = CellAt(l, y, j)
  <2> DEFINE i == Len(x) + j
  <2>1. CASE j = Len(y) + 1
    <3>1. i # 0 /\ i > Len(u) /\ j # 0 /\ j > Len(y)
      BY <2>1, <1>1, <1>2
    <3> HIDE DEF i
    <3> QED BY <3>1 DEF CellAt, i
  <2>2. CASE j # Len(y) + 1
    <3>1. i # 0 /\ ~(i > Len(u)) /\ j # 0 /\ ~(j > Len(y)) /\ i \in 1 .. Len(x) + Len(y) /\ ~(i <= Len(x)) /\ i - Len(x) = j
      BY <2>2, <1>1, <1>l
    <3>2. u[i] = y[j]
      <4> HIDE DEF i
      <4> QED BY <3>1, <1>2
    <3>3. U(i) = OfNode(u[i]) /\ CellAt(l, y, j) = OfNode(y[j])
      <4> HIDE DEF i
      <4> QED BY <3>1 DEF CellAt
    <3> QED BY <3>2, <3>3
  <2> QED BY <2>1, <2>2
<1> HIDE DEF U
<1>5. ASSUME NEW i \in 0 .. Len(u) PROVE Neighbours(q, U(i), U(i + 1))
  <2>0. i \in Nat /\ i <= Len(x) + Len(y)
    BY <1>1, <1>2
  <2>1. CASE i < Len(x)
    <3>1. i \in 0 .. Len(x) /\ i + 1 \in 0 .. Len(x) /\ i \in 0 .. Len(x) - 1
      BY <2>0, <2>1, <1>1
    <3> QED BY <3>1, <1>3
  <2>2. CASE i = Len(x)
    <3>1. i \in 0 .. Len(x) /\ 1 \in 1 .. Len(y) + 1 /\ i + 1 = Len(x) + 1
      BY <2>0, <2>2, <1>1
    <3>2. U(i) = CellAt(l, x, Len(x)) /\ U(i + 1) = CellAt(l, y, 1)
      BY <3>1, <2>2, <1>3, <1>4
    <3> QED BY <3>2
  <2>3. CASE i > Len(x)
    <3> DEFINE j == i - Len(x)
    <3>1. j \in 1 .. Len(y) + 1 /\ j + 1 \in 1 .. Len(y) + 1 /\ i = Len(x) + j /\ i + 1 = Len(x) + (j + 1) /\ j \in 1 .. Len(y)
      BY <2>0, <2>3, <1>1
    <3> HIDE DEF j
    <3>2. U(i) = CellAt(l, y, j) /\ U(i + 1) = CellAt(l, y, j + 1)
      BY <3>1, <1>4
    <3> QED BY <3>1, <3>2
  <2> QED BY <2>0, <2>1, <2>2, <2>3, <1>1
<1>6. Chained(q, l, u)
  BY <1>5 DEF Chained, Neighbours, U
<1> QED BY <1>6 DEF u

\* A list without nodes.
LEMMA EmptyChained ==
  ASSUME NEW l \in AList, NEW q, q.prev[HeadOf(l)] = NULL, q.next[TailOf(l)] = NULL,
         Neighbours(q, HeadOf(l), TailOf(l))
  PROVE  Chained(q, l, <<>>)
<1>1. Len(<<>>) = 0 /\ 0 .. 0 = {0} /\ 0 + 1 # 0 /\ 0 + 1 > 0
  OBVIOUS
<1>2. CellAt(l, <<>>, 0) = HeadOf(l) /\ CellAt(l, <<>>, 0 + 1) = TailOf(l)
  BY <1>1 DEF CellAt
<1> QED BY <1>1, <1>2 DEF Chained, Neighbours

\* A node has one place.
LEMMA OnePlace ==
  ASSUME NEW ord \in [AList -> Seq(Node)], OnceLinked(ord), NEW j \in AList, NEW h \in AList, NEW i \in 1 .. Len(ord[j]), NEW k \in 1 .. Len(ord[h]),
         ord[j][i] = ord[h][k]
  PROVE  j = h /\ i = k
BY DEF OnceLinked

\* new are the lists ord with the nodes of m moved behind or before those of l.
AllMoved(ord, l, m, new) ==
    \/ new = [ord EXCEPT ![l] = ord[l] \o ord[m], ![m] = <<>>]
    \/ new = [ord EXCEPT ![l] = ord[m] \o ord[l], ![m] = <<>>]

\* The nodes of two lists as one, and each is there once.
LEMMA OnceMoved ==
  ASSUME NEW ord \in [AList -> Seq(Node)], OnceLinked(ord), NEW l \in AList, NEW m \in AList, l # m,
         NEW new, AllMoved(ord, l, m, new)
  PROVE  new \in [AList -> Seq(Node)] /\ OnceLinked(new) /\ \A n \in Node : InNoList(new, n) => InNoList(ord, n)
<1>0. PICK u : (u = ord[l] \o ord[m] \/ u = ord[m] \o ord[l]) /\ new = [ord EXCEPT ![l] = u, ![m] = <<>>]
  BY DEF AllMoved
<1>1. PICK x \in {l, m}, y \in {l, m} : x # y /\ u = ord[x] \o ord[y]
  BY <1>0
<1> DEFINE f == ord[x]
           g == ord[y]
<1>2. f \in Seq(Node) /\ g \in Seq(Node) /\ Len(f) \in Nat /\ Len(g) \in Nat /\ x \in AList /\ y \in AList
  OBVIOUS
<1>3. /\ u \in Seq(Node) /\ Len(u) = Len(f) + Len(g)
      /\ \A i \in 1 .. Len(f) + Len(g) : u[i] = IF i <= Len(f) THEN f[i] ELSE g[i - Len(f)]
  <2>1. u = f \o g
    BY <1>1
  <2> HIDE DEF f, g
  <2> QED BY <1>2, <2>1, ConcatProperties
<1>4. <<>> \in Seq(Node) /\ Len(<<>>) = 0
  OBVIOUS
<1>5. /\ new \in [AList -> Seq(Node)] /\ new[l] = u /\ new[m] = <<>>
      /\ \A j \in AList : j # l /\ j # m => new[j] = ord[j]
  BY <1>0, <1>3, <1>4
<1>6. \A j, h \in AList : \A i \in 1 .. Len(ord[j]) : \A k \in 1 .. Len(ord[h]) :
          ord[j][i] = ord[h][k] => j = h /\ i = k
  BY DEF OnceLinked
<1> DEFINE Of(i) == IF i <= Len(f) THEN x ELSE y
           At(i) == IF i <= Len(f) THEN i ELSE i - Len(f)
<1>7. ASSUME NEW i \in 1 .. Len(u) PROVE Of(i) \in AList /\ Of(i) \in {l, m} /\ At(i) \in 1 .. Len(ord[Of(i)]) /\ u[i] = ord[Of(i)][At(i)]
  <2>1. CASE i <= Len(f)
    <3>1. i \in 1 .. Len(f) /\ i \in 1 .. Len(f) + Len(g)
      <4> HIDE DEF f, g
      <4> QED BY <2>1, <1>2, <1>3
    <3> QED BY <2>1, <3>1, <1>2, <1>3
  <2>2. CASE ~(i <= Len(f))
    <3>1. i - Len(f) \in 1 .. Len(g) /\ i \in 1 .. Len(f) + Len(g)
      <4> HIDE DEF f, g
      <4> QED BY <2>2, <1>2, <1>3
    <3> QED BY <2>2, <3>1, <1>2, <1>3
  <2> QED BY <2>1, <2>2
<1>8. \A i, k \in 1 .. Len(u) : Of(i) = Of(k) /\ At(i) = At(k) => i = k
  <2>1. Len(u) \in Nat
    BY <1>2, <1>3
  <2> HIDE DEF f, g
  <2> QED BY <2>1, <1>1, <1>2
<1> HIDE DEF Of, At
<1>9. OnceLinked(new)
  <2> SUFFICES ASSUME NEW j \in AList, NEW h \in AList, NEW i \in 1 .. Len(new[j]), NEW k \in 1 .. Len(new[h]),
                      new[j][i] = new[h][k]
               PROVE  j = h /\ i = k
    BY DEF OnceLinked
  <2>0. j # m /\ h # m
    BY <1>4, <1>5
  <2>1. CASE j = l /\ h = l
    <3>1. i \in 1 .. Len(u) /\ k \in 1 .. Len(u) /\ u[i] = u[k]
      BY <2>1, <1>5
    <3>2. PICK z \in AList : \E w \in 1 .. Len(ord[z]) : z = Of(i) /\ w = At(i) /\ u[i] = ord[z][w]
      BY <3>1, <1>7
    <3>3. PICK w \in 1 .. Len(ord[z]) : z = Of(i) /\ w = At(i) /\ u[i] = ord[z][w]
      BY <3>2
    <3>4. PICK d \in AList : \E e \in 1 .. Len(ord[d]) : d = Of(k) /\ e = At(k) /\ u[k] = ord[d][e]
      BY <3>1, <1>7
    <3>5. PICK e \in 1 .. Len(ord[d]) : d = Of(k) /\ e = At(k) /\ u[k] = ord[d][e]
      BY <3>4
    <3>6. ord[z][w] = ord[d][e]
      BY <3>1, <3>3, <3>5
    <3>7. z = d /\ w = e
      BY ONLY <3>6, <1>6, z \in AList, d \in AList, w \in 1 .. Len(ord[z]), e \in 1 .. Len(ord[d])
    <3> QED BY <3>1, <3>3, <3>5, <3>7, <2>1, <1>8
  <2>2. CASE j = l /\ h # l
    <3>1. i \in 1 .. Len(u) /\ k \in 1 .. Len(ord[h]) /\ u[i] = ord[h][k]
      BY <2>0, <2>2, <1>5
    <3>2. PICK z \in AList : z \in {l, m} /\ \E w \in 1 .. Len(ord[z]) : u[i] = ord[z][w]
      BY <3>1, <1>7
    <3>3. PICK w \in 1 .. Len(ord[z]) : u[i] = ord[z][w]
      BY <3>2
    <3>4. z = h
      <4>1. ord[z][w] = ord[h][k] /\ k \in 1 .. Len(ord[h])
        BY <3>1, <3>3
      <4> QED BY <4>1, OnePlace
    <3> QED BY <3>2, <3>4, <2>0, <2>2
  <2>3. CASE j # l /\ h = l
    <3>1. k \in 1 .. Len(u) /\ i \in 1 .. Len(ord[j]) /\ u[k] = ord[j][i]
      BY <2>0, <2>3, <1>5
    <3>2. PICK z \in AList : z \in {l, m} /\ \E w \in 1 .. Len(ord[z]) : u[k] = ord[z][w]
      BY <3>1, <1>7
    <3>3. PICK w \in 1 .. Len(ord[z]) : u[k] = ord[z][w]
      BY <3>2
    <3>4. z = j
      <4>1. ord[z][w] = ord[j][i] /\ i \in 1 .. Len(ord[j])
        BY <3>1, <3>3
      <4> QED BY <4>1, OnePlace
    <3> QED BY <3>2, <3>4, <2>0, <2>3
  <2>4. CASE j # l /\ h # l
    BY <2>0, <2>4, <1>5, <1>6
  <2> QED BY <2>1, <2>2, <2>3, <2>4
<1>10. ASSUME NEW n \in Node, InNoList(new, n) PROVE InNoList(ord, n)
  <2>1. \A j \in AList : \A i \in 1 .. Len(new[j]) : new[j][i] # n
    BY <1>10 DEF InNoList
  <2>2. \A i \in 1 .. Len(u) : u[i] # n
    BY <2>1, <1>5
  <2>3. ASSUME NEW i \in 1 .. Len(f) PROVE f[i] # n
    <3>1. i \in 1 .. Len(u) /\ i \in 1 .. Len(f) + Len(g) /\ i <= Len(f)
      <4> HIDE DEF f, g
      <4> QED BY <1>2, <1>3
    <3> HIDE DEF f, g
    <3> QED BY <3>1, <2>2, <1>3
  <2>4. ASSUME NEW i \in 1 .. Len(g) PROVE g[i] # n
    <3> DEFINE k == Len(f) + i
    <3>1. k \in 1 .. Len(u) /\ k \in 1 .. Len(f) + Len(g) /\ ~(k <= Len(f)) /\ k - Len(f) = i
      <4> HIDE DEF f, g
      <4> QED BY <1>2, <1>3
    <3> HIDE DEF f, g, k
    <3> QED BY <3>1, <2>2, <1>3
  <2>5. ASSUME NEW j \in AList, NEW i \in 1 .. Len(ord[j]) PROVE ord[j][i] # n
    <3>1. CASE j = x
      BY <3>1, <2>3
    <3>2. CASE j = y
      BY <3>2, <2>4
    <3>3. CASE j # l /\ j # m
      BY <3>3, <2>1, <1>5
    <3> QED BY <3>1, <3>2, <3>3, <1>1
  <2> QED BY <2>5 DEF InNoList
<1> QED BY <1>5, <1>9, <1>10
\* q is p after three such pairs of assignments.
Joined3(p, a, b, c, d, e, f, q) ==
    /\ q \in Links
    /\ \A x \in Cell : /\ q.next[x] = IF x = e THEN f ELSE IF x = c THEN d ELSE IF x = a THEN b ELSE p.next[x]
                       /\ q.prev[x] = IF x = f THEN e ELSE IF x = d THEN c ELSE IF x = b THEN a ELSE p.prev[x]

\* The assignments of a move of all nodes.
LEMMA Joined3Facts ==
  ASSUME NEW p \in Links, NEW a \in Cell, NEW b \in Cell, NEW c \in Cell, NEW d \in Cell, NEW e \in Cell, NEW f \in Cell,
         NEW q, q = Join(Join(Join(p, a, b), c, d), e, f)
  PROVE  Joined3(p, a, b, c, d, e, f, q)
<1>1. PICK p1 : p1 = Join(p, a, b)
  OBVIOUS
<1>2. PICK p2 : p2 = Join(p1, c, d)
  OBVIOUS
<1>3. Joined(p, a, b, p1)
  BY <1>1, JoinFacts
<1>4. p1 \in Links
  BY <1>3 DEF Joined
<1>5. Joined(p1, c, d, p2)
  BY <1>2, <1>4, JoinFacts
<1>6. p2 \in Links
  BY <1>5 DEF Joined
<1>7. q = Join(p2, e, f)
  BY <1>1, <1>2
<1>8. Joined(p2, e, f, q)
  BY <1>6, <1>7, JoinFacts
<1> QED BY ONLY <1>3, <1>5, <1>8 DEF Joined, Joined3

\* No cell of a list is a cell of another, or in another place of its own.
Apart(l, s, m, t) ==
    /\ \A i \in 0 .. Len(s) + 1 : \A k \in 0 .. Len(t) + 1 : CellAt(l, s, i) # CellAt(m, t, k)
    /\ \A i, k \in 0 .. Len(s) + 1 : CellAt(l, s, i) = CellAt(l, s, k) => i = k
    /\ \A i, k \in 0 .. Len(t) + 1 : CellAt(m, t, i) = CellAt(m, t, k) => i = k

\* The cells of two lists.
LEMMA ListsApart ==
  ASSUME NEW p, NEW ord, Linked(p, ord), NEW l \in AList, NEW m \in AList, l # m
  PROVE  Apart(l, ord[l], m, ord[m])
<1>1. ord \in [AList -> Seq(Node)] /\ OnceLinked(ord)
  BY DEF Linked
<1>2. ASSUME NEW i \in 0 .. Len(ord[l]) + 1, NEW k \in 0 .. Len(ord[m]) + 1 PROVE CellAt(l, ord[l], i) # CellAt(m, ord[m], k)
  BY <1>1, CellsDiffer
<1>3. ASSUME NEW i \in 0 .. Len(ord[l]) + 1, NEW k \in 0 .. Len(ord[l]) + 1, CellAt(l, ord[l], i) = CellAt(l, ord[l], k) PROVE i = k
  BY <1>1, <1>3, CellsDiffer
<1>4. ASSUME NEW i \in 0 .. Len(ord[m]) + 1, NEW k \in 0 .. Len(ord[m]) + 1, CellAt(m, ord[m], i) = CellAt(m, ord[m], k) PROVE i = k
  BY <1>1, <1>4, CellsDiffer
<1> QED BY ONLY <1>2, <1>3, <1>4 DEF Apart

\* A list is empty exactly when its head points to its tail.
LEMMA EndsOfList ==
  ASSUME NEW p, NEW ord, Linked(p, ord), NEW l \in AList
  PROVE  /\ aws_linked_list_empty(p, l) <=> ord[l] = <<>>
         /\ aws_linked_list_front(p, l) = CellAt(l, ord[l], 1)
         /\ aws_linked_list_back(p, l) = CellAt(l, ord[l], Len(ord[l]))
<1> DEFINE s == ord[l]
           C(i) == CellAt(l, s, i)
<1> SUFFICES /\ aws_linked_list_empty(p, l) <=> s = <<>>
             /\ aws_linked_list_front(p, l) = C(1) /\ aws_linked_list_back(p, l) = C(Len(s))
  OBVIOUS
<1>1. /\ s \in Seq(Node) /\ Len(s) \in Nat /\ C(0) = HeadOf(l) /\ C(Len(s) + 1) = TailOf(l)
      /\ \A i \in 1 .. Len(s) : C(i) = OfNode(s[i])
  BY LinkedFacts
<1>2. \A i \in 0 .. Len(s) : p.next[C(i)] = C(i + 1) /\ p.prev[C(i + 1)] = C(i)
  BY LinkedFacts DEF Chained
<1>3. s = <<>> <=> Len(s) = 0
  BY <1>1
<1> HIDE DEF s, C
<1>4. p.next[HeadOf(l)] = C(1) /\ p.prev[TailOf(l)] = C(Len(s))
  BY <1>1, <1>2
<1>5. CASE Len(s) = 0
  <2>1. C(1) = TailOf(l)
    BY <1>1, <1>5
  <2> QED BY <2>1, <1>3, <1>4, <1>5 DEF aws_linked_list_empty, aws_linked_list_front, aws_linked_list_back
<1>6. CASE Len(s) # 0
  <2>1. C(1) = OfNode(s[1])
    BY <1>1, <1>6
  <2>2. C(1) # TailOf(l)
    BY <2>1, CellFacts
  <2> QED BY <2>2, <1>3, <1>4, <1>6 DEF aws_linked_list_empty, aws_linked_list_front, aws_linked_list_back
<1> QED BY <1>5, <1>6
\* The two ways the nodes of m come to stand in l: behind l's nodes, or before them.
MovedBehind(p, l, s, m, t, q) ==
    Joined3(p, CellAt(l, s, Len(s)), CellAt(m, t, 1), CellAt(m, t, Len(t)), TailOf(l), HeadOf(m), TailOf(m), q)
MovedBefore(p, l, s, m, t, q) ==
    Joined3(p, CellAt(m, t, Len(t)), CellAt(l, s, 1), HeadOf(l), CellAt(m, t, 1), HeadOf(m), TailOf(m), q)

\* The nodes of m behind those of l.
LEMMA BehindChained ==
  ASSUME NEW p, NEW ord, Linked(p, ord), NEW l \in AList, NEW m \in AList, l # m, ord[m] # <<>>,
         NEW q, MovedBehind(p, l, ord[l], m, ord[m], q)
  PROVE  Chained(q, l, ord[l] \o ord[m]) /\ Chained(q, m, <<>>)
<1> DEFINE s == ord[l]
           t == ord[m]
           L(i) == CellAt(l, s, i)
           M(i) == CellAt(m, t, i)
<1>1. /\ s \in Seq(Node) /\ Len(s) \in Nat /\ L(0) = HeadOf(l) /\ L(Len(s) + 1) = TailOf(l)
      /\ \A i \in 0 .. Len(s) + 1 : L(i) \in Cell
  BY LinkedFacts
<1>2. /\ t \in Seq(Node) /\ Len(t) \in Nat /\ M(0) = HeadOf(m) /\ M(Len(t) + 1) = TailOf(m)
      /\ \A i \in 0 .. Len(t) + 1 : M(i) \in Cell
      /\ \A i \in 1 .. Len(t) : M(i) = OfNode(t[i])
  BY LinkedFacts
<1>3. Len(t) \in Nat \ {0}
  BY <1>2
<1>4. /\ \A i \in 0 .. Len(s) + 1 : \A k \in 0 .. Len(t) + 1 : L(i) # M(k)
      /\ \A i, k \in 0 .. Len(s) + 1 : L(i) = L(k) => i = k
      /\ \A i, k \in 0 .. Len(t) + 1 : M(i) = M(k) => i = k
  BY ListsApart DEF Apart
<1>5. /\ p.prev[L(0)] = NULL /\ p.next[L(Len(s) + 1)] = NULL
      /\ \A i \in 0 .. Len(s) : p.next[L(i)] = L(i + 1) /\ p.prev[L(i + 1)] = L(i)
  BY <1>1, LinkedFacts DEF Chained
<1>6. /\ p.prev[M(0)] = NULL /\ p.next[M(Len(t) + 1)] = NULL
      /\ \A i \in 0 .. Len(t) : p.next[M(i)] = M(i + 1) /\ p.prev[M(i + 1)] = M(i)
  BY <1>2, LinkedFacts DEF Chained
<1>7. \A c \in Cell :
         /\ q.next[c] = IF c = M(0) THEN M(Len(t) + 1) ELSE IF c = M(Len(t)) THEN L(Len(s) + 1)
                        ELSE IF c = L(Len(s)) THEN M(1) ELSE p.next[c]
         /\ q.prev[c] = IF c = M(Len(t) + 1) THEN M(0) ELSE IF c = L(Len(s) + 1) THEN M(Len(t))
                        ELSE IF c = M(1) THEN L(Len(s)) ELSE p.prev[c]
  BY <1>1, <1>2 DEF MovedBehind, Joined3
<1>8. \A i \in 1 .. Len(t) : CellAt(l, t, i) = M(i)
  BY <1>2 DEF CellAt
<1>9. CellAt(l, t, Len(t) + 1) = L(Len(s) + 1)
  BY <1>1, <1>2, CellAtFacts
<1>10. Chained(q, l, s \o t)
  <2>1. q.prev[HeadOf(l)] = NULL /\ q.next[TailOf(l)] = NULL
    <3> HIDE DEF s, t, L, M
    <3> QED BY <1>1, <1>2, <1>3, <1>4, <1>5, <1>7
  <2>2. ASSUME NEW i \in 0 .. Len(s) - 1 PROVE Neighbours(q, L(i), L(i + 1))
    <3> HIDE DEF s, t, L, M
    <3>1. i \in 0 .. Len(s) + 1 /\ i + 1 \in 0 .. Len(s) + 1 /\ i # Len(s) /\ i + 1 # Len(s) + 1 /\ i \in 0 .. Len(s)
      BY <1>1
    <3>2. /\ Len(s) \in 0 .. Len(s) + 1 /\ Len(s) + 1 \in 0 .. Len(s) + 1 /\ 0 \in 0 .. Len(t) + 1 /\ 1 \in 0 .. Len(t) + 1
          /\ Len(t) \in 0 .. Len(t) + 1 /\ Len(t) + 1 \in 0 .. Len(t) + 1
      BY <1>1, <1>3
    <3>3. L(i) \in Cell /\ L(i + 1) \in Cell /\ L(i) # M(0) /\ L(i) # M(Len(t)) /\ L(i) # L(Len(s))
      BY <3>1, <3>2, <1>1, <1>4
    <3>4. L(i + 1) # M(Len(t) + 1) /\ L(i + 1) # L(Len(s) + 1) /\ L(i + 1) # M(1)
      BY <3>1, <3>2, <1>4
    <3>5. p.next[L(i)] = L(i + 1) /\ p.prev[L(i + 1)] = L(i)
      BY <3>1, <1>5
    <3> QED BY <3>3, <3>4, <3>5, <1>7 DEF Neighbours
  <2>3. Neighbours(q, L(Len(s)), CellAt(l, t, 1))
    <3>1. CellAt(l, t, 1) = M(1)
      BY <1>3, <1>8
    <3> HIDE DEF s, t, L, M
    <3>2. Len(s) \in 0 .. Len(s) + 1 /\ Len(s) + 1 \in 0 .. Len(s) + 1 /\ 0 \in 0 .. Len(t) + 1 /\ 1 \in 0 .. Len(t) + 1
          /\ Len(t) \in 0 .. Len(t) + 1 /\ Len(t) + 1 \in 0 .. Len(t) + 1 /\ 1 # Len(t) + 1
      BY <1>1, <1>3
    <3>3. L(Len(s)) \in Cell /\ M(1) \in Cell /\ L(Len(s)) # M(0) /\ L(Len(s)) # M(Len(t)) /\ M(1) # M(Len(t) + 1) /\ M(1) # L(Len(s) + 1)
      BY <3>2, <1>1, <1>2, <1>4
    <3> QED BY <3>1, <3>3, <1>7 DEF Neighbours
  <2>4. ASSUME NEW i \in 1 .. Len(t) PROVE Neighbours(q, CellAt(l, t, i), CellAt(l, t, i + 1))
    <3> HIDE DEF s, t, L, M
    <3>1. /\ Len(s) \in 0 .. Len(s) + 1 /\ Len(s) + 1 \in 0 .. Len(s) + 1 /\ 0 \in 0 .. Len(t) + 1 /\ 1 \in 0 .. Len(t) + 1
          /\ Len(t) \in 0 .. Len(t) + 1 /\ Len(t) + 1 \in 0 .. Len(t) + 1 /\ Len(t) # 0
      BY <1>1, <1>3
    <3>2. CASE i = Len(t)
      <4>1. CellAt(l, t, i) = M(Len(t)) /\ CellAt(l, t, i + 1) = L(Len(s) + 1)
        BY <3>2, <1>8, <1>9
      <4>2. M(Len(t)) \in Cell /\ L(Len(s) + 1) \in Cell /\ M(Len(t)) # M(0) /\ L(Len(s) + 1) # M(Len(t) + 1)
        BY <3>1, <1>1, <1>2, <1>4
      <4> QED BY <4>1, <4>2, <1>7 DEF Neighbours
    <3>3. CASE i # Len(t)
      <4>1. i \in 0 .. Len(t) + 1 /\ i + 1 \in 0 .. Len(t) + 1 /\ i # 0 /\ i + 1 # 1 /\ i + 1 # Len(t) + 1 /\ i \in 0 .. Len(t) /\ i + 1 \in 1 .. Len(t)
        BY <3>3, <1>2
      <4>2. M(i) \in Cell /\ M(i + 1) \in Cell /\ M(i) # M(0) /\ M(i) # M(Len(t)) /\ M(i) # L(Len(s))
        BY <3>1, <3>3, <4>1, <1>2, <1>4
      <4>3. M(i + 1) # M(Len(t) + 1) /\ M(i + 1) # L(Len(s) + 1) /\ M(i + 1) # M(1)
        BY <3>1, <4>1, <1>4
      <4>4. p.next[M(i)] = M(i + 1) /\ p.prev[M(i + 1)] = M(i)
        BY <4>1, <1>6
      <4>5. CellAt(l, t, i) = M(i) /\ CellAt(l, t, i + 1) = M(i + 1)
        BY <4>1, <1>8
      <4> QED BY <4>2, <4>3, <4>4, <4>5, <1>7 DEF Neighbours
    <3> QED BY <3>2, <3>3
  <2> QED BY <1>1, <1>2, <2>1, <2>2, <2>3, <2>4, ConcatChained
<1>11. Chained(q, m, <<>>)
  <2>1. q.prev[HeadOf(m)] = NULL /\ q.next[TailOf(m)] = NULL /\ Neighbours(q, HeadOf(m), TailOf(m))
    <3> HIDE DEF s, t, L, M
    <3>1. /\ Len(s) \in 0 .. Len(s) + 1 /\ Len(s) + 1 \in 0 .. Len(s) + 1 /\ 0 \in 0 .. Len(t) + 1 /\ 1 \in 0 .. Len(t) + 1
          /\ Len(t) \in 0 .. Len(t) + 1 /\ Len(t) + 1 \in 0 .. Len(t) + 1 /\ Len(t) + 1 # 0 /\ Len(t) + 1 # Len(t)
      BY <1>1, <1>3
    <3>2. M(0) \in Cell /\ M(Len(t) + 1) \in Cell /\ M(0) # M(Len(t) + 1) /\ M(0) # L(Len(s) + 1) /\ M(0) # M(1)
      BY <3>1, <1>2, <1>4
    <3>3. M(Len(t) + 1) # M(Len(t)) /\ M(Len(t) + 1) # L(Len(s))
      BY <3>1, <1>4
    <3> QED BY <3>2, <3>3, <1>2, <1>6, <1>7 DEF Neighbours
  <2> QED BY <2>1, EmptyChained
<1> QED BY <1>10, <1>11
\* The nodes of m before those of l.
LEMMA BeforeChained ==
  ASSUME NEW p, NEW ord, Linked(p, ord), NEW l \in AList, NEW m \in AList, l # m, ord[m] # <<>>,
         NEW q, MovedBefore(p, l, ord[l], m, ord[m], q)
  PROVE  Chained(q, l, ord[m] \o ord[l]) /\ Chained(q, m, <<>>)
<1> DEFINE s == ord[l]
           t == ord[m]
           L(i) == CellAt(l, s, i)
           M(i) == CellAt(m, t, i)
<1>1. /\ s \in Seq(Node) /\ Len(s) \in Nat /\ L(0) = HeadOf(l) /\ L(Len(s) + 1) = TailOf(l)
      /\ \A i \in 0 .. Len(s) + 1 : L(i) \in Cell
  BY LinkedFacts
<1>2. /\ t \in Seq(Node) /\ Len(t) \in Nat /\ M(0) = HeadOf(m) /\ M(Len(t) + 1) = TailOf(m)
      /\ \A i \in 0 .. Len(t) + 1 : M(i) \in Cell
      /\ \A i \in 1 .. Len(t) : M(i) = OfNode(t[i])
  BY LinkedFacts
<1>3. Len(t) \in Nat \ {0}
  BY <1>2
<1>4. /\ \A i \in 0 .. Len(s) + 1 : \A k \in 0 .. Len(t) + 1 : L(i) # M(k)
      /\ \A i, k \in 0 .. Len(s) + 1 : L(i) = L(k) => i = k
      /\ \A i, k \in 0 .. Len(t) + 1 : M(i) = M(k) => i = k
  BY ListsApart DEF Apart
<1>5. /\ p.prev[L(0)] = NULL /\ p.next[L(Len(s) + 1)] = NULL
      /\ \A i \in 0 .. Len(s) : p.next[L(i)] = L(i + 1) /\ p.prev[L(i + 1)] = L(i)
  BY <1>1, LinkedFacts DEF Chained
<1>6. /\ p.prev[M(0)] = NULL /\ p.next[M(Len(t) + 1)] = NULL
      /\ \A i \in 0 .. Len(t) : p.next[M(i)] = M(i + 1) /\ p.prev[M(i + 1)] = M(i)
  BY <1>2, LinkedFacts DEF Chained
<1>7. \A c \in Cell :
         /\ q.next[c] = IF c = M(0) THEN M(Len(t) + 1) ELSE IF c = L(0) THEN M(1)
                        ELSE IF c = M(Len(t)) THEN L(1) ELSE p.next[c]
         /\ q.prev[c] = IF c = M(Len(t) + 1) THEN M(0) ELSE IF c = M(1) THEN L(0)
                        ELSE IF c = L(1) THEN M(Len(t)) ELSE p.prev[c]
  BY <1>1, <1>2 DEF MovedBefore, Joined3
<1>8. \A i \in 1 .. Len(t) : CellAt(l, t, i) = M(i)
  BY <1>2 DEF CellAt
<1>9. CellAt(l, t, 0) = L(0)
  BY <1>1, <1>2, CellAtFacts
<1>0. /\ 0 \in 0 .. Len(s) + 1 /\ 1 \in 0 .. Len(s) + 1 /\ Len(s) + 1 \in 0 .. Len(s) + 1 /\ 0 \in 0 .. Len(t) + 1 /\ 1 \in 0 .. Len(t) + 1
      /\ Len(t) \in 0 .. Len(t) + 1 /\ Len(t) + 1 \in 0 .. Len(t) + 1 /\ Len(t) + 1 # 1 /\ Len(t) # Len(t) + 1
  <2> HIDE DEF s, t
  <2> QED BY <1>1, <1>3
<1>10. Chained(q, l, t \o s)
  <2>1. q.prev[HeadOf(l)] = NULL /\ q.next[TailOf(l)] = NULL
    <3> HIDE DEF s, t, L, M
    <3>1. L(0) # M(Len(t) + 1) /\ L(0) # M(1) /\ L(0) # L(1) /\ L(0) \in Cell
      BY <1>0, <1>1, <1>4
    <3>2. Len(s) + 1 # 0
      BY <1>1
    <3>3. L(Len(s) + 1) # M(0) /\ L(Len(s) + 1) # L(0) /\ L(Len(s) + 1) # M(Len(t)) /\ L(Len(s) + 1) \in Cell
      BY <3>2, <1>0, <1>1, <1>4
    <3> QED BY <3>1, <3>3, <1>1, <1>5, <1>7
  <2>2. ASSUME NEW i \in 0 .. Len(t) - 1 PROVE Neighbours(q, CellAt(l, t, i), CellAt(l, t, i + 1))
    <3> HIDE DEF s, t, L, M
    <3>2. CASE i = 0
      <4>1. CellAt(l, t, i) = L(0) /\ CellAt(l, t, i + 1) = M(1)
        BY <3>2, <1>3, <1>8, <1>9
      <4>2. L(0) \in Cell /\ M(1) \in Cell /\ L(0) # M(0) /\ M(1) # M(Len(t) + 1)
        BY <1>0, <1>1, <1>2, <1>4
      <4> QED BY <4>1, <4>2, <1>7 DEF Neighbours
    <3>3. CASE i # 0
      <4>1. i \in 0 .. Len(t) + 1 /\ i + 1 \in 0 .. Len(t) + 1 /\ i # 0 /\ i + 1 # 1 /\ i # Len(t) /\ i + 1 # Len(t) + 1 /\ i \in 0 .. Len(t)
            /\ i \in 1 .. Len(t) /\ i + 1 \in 1 .. Len(t)
        BY <3>3, <1>2
      <4>2. M(i) \in Cell /\ M(i + 1) \in Cell /\ M(i) # M(0) /\ M(i) # M(Len(t)) /\ M(i) # L(0)
        BY <1>0, <4>1, <1>2, <1>4
      <4>3. M(i + 1) # M(Len(t) + 1) /\ M(i + 1) # L(1) /\ M(i + 1) # M(1)
        BY <1>0, <4>1, <1>4
      <4>4. p.next[M(i)] = M(i + 1) /\ p.prev[M(i + 1)] = M(i)
        BY <4>1, <1>6
      <4>5. CellAt(l, t, i) = M(i) /\ CellAt(l, t, i + 1) = M(i + 1)
        BY <4>1, <1>8
      <4> QED BY <4>2, <4>3, <4>4, <4>5, <1>7 DEF Neighbours
    <3> QED BY <3>2, <3>3
  <2>3. Neighbours(q, CellAt(l, t, Len(t)), L(1))
    <3>1. CellAt(l, t, Len(t)) = M(Len(t))
      BY <1>3, <1>8
    <3> HIDE DEF s, t, L, M
    <3>2. Len(t) # 0
      BY <1>3
    <3>3. M(Len(t)) \in Cell /\ L(1) \in Cell /\ M(Len(t)) # M(0) /\ M(Len(t)) # L(0) /\ L(1) # M(Len(t) + 1) /\ L(1) # M(1)
      BY <3>2, <1>0, <1>1, <1>2, <1>4
    <3> QED BY <3>1, <3>3, <1>7 DEF Neighbours
  <2>4. ASSUME NEW i \in 1 .. Len(s) PROVE Neighbours(q, L(i), L(i + 1))
    <3> HIDE DEF s, t, L, M
    <3>1. i \in 0 .. Len(s) + 1 /\ i + 1 \in 0 .. Len(s) + 1 /\ i # 0 /\ i + 1 # 1 /\ i \in 0 .. Len(s)
      BY <1>1
    <3>3. L(i) \in Cell /\ L(i + 1) \in Cell /\ L(i) # M(0) /\ L(i) # M(Len(t)) /\ L(i) # L(0)
      BY <3>1, <1>0, <1>1, <1>4
    <3>4. L(i + 1) # M(Len(t) + 1) /\ L(i + 1) # L(1) /\ L(i + 1) # M(1)
      BY <3>1, <1>0, <1>4
    <3>5. p.next[L(i)] = L(i + 1) /\ p.prev[L(i + 1)] = L(i)
      BY <3>1, <1>5
    <3> QED BY <3>3, <3>4, <3>5, <1>7 DEF Neighbours
  <2> QED BY <1>1, <1>2, <2>1, <2>2, <2>3, <2>4, ConcatChained
<1>11. Chained(q, m, <<>>)
  <2>1. q.prev[HeadOf(m)] = NULL /\ q.next[TailOf(m)] = NULL /\ Neighbours(q, HeadOf(m), TailOf(m))
    <3> HIDE DEF s, t, L, M
    <3>1. Len(t) + 1 # 0
      BY <1>3
    <3>2. M(0) \in Cell /\ M(Len(t) + 1) \in Cell /\ M(0) # M(Len(t) + 1) /\ M(0) # L(1) /\ M(0) # M(1)
      BY <3>1, <1>0, <1>2, <1>4
    <3>3. M(Len(t) + 1) # M(Len(t)) /\ M(Len(t) + 1) # L(0)
      BY <1>0, <1>4
    <3> QED BY <3>2, <3>3, <1>2, <1>6, <1>7 DEF Neighbours
  <2> QED BY <2>1, EmptyChained
<1> QED BY <1>10, <1>11

\* Pointers changed only at cells of the lists l and m: the other lists and the free nodes are as they were.
OnlyIn(p, l, s, m, t, q) ==
    /\ q \in Links
    /\ \A c \in Cell : \/ \E i \in 0 .. Len(s) + 1 : c = CellAt(l, s, i)
                       \/ \E i \in 0 .. Len(t) + 1 : c = CellAt(m, t, i)
                       \/ q.next[c] = p.next[c] /\ q.prev[c] = p.prev[c]

\* What the lists that take part in a call hold afterwards decides what all do.
LEMMA TwoListsKeep ==
  ASSUME NEW p, NEW ord, Linked(p, ord), NEW l \in AList, NEW m \in AList, l # m,
         NEW q, OnlyIn(p, l, ord[l], m, ord[m], q),
         NEW new \in [AList -> Seq(Node)], OnceLinked(new), \A j \in AList \ {l, m} : new[j] = ord[j],
         \A n \in Node : InNoList(new, n) => InNoList(ord, n),
         Chained(q, l, new[l]), Chained(q, m, new[m])
  PROVE  Linked(q, new)
<1>1. ord \in [AList -> Seq(Node)] /\ OnceLinked(ord)
  BY DEF Linked
<1>2. ASSUME NEW j \in AList \ {l, m} PROVE Chained(q, j, ord[j])
  <2> DEFINE s == ord[j]
  <2>1. /\ Chained(p, j, s) /\ Len(s) \in Nat /\ CellAt(j, s, 0) = HeadOf(j) /\ CellAt(j, s, Len(s) + 1) = TailOf(j)
        /\ \A i \in 0 .. Len(s) + 1 : CellAt(j, s, i) \in Cell
    BY LinkedFacts
  <2>2. ASSUME NEW i \in 0 .. Len(s) + 1
        PROVE  q.next[CellAt(j, s, i)] = p.next[CellAt(j, s, i)] /\ q.prev[CellAt(j, s, i)] = p.prev[CellAt(j, s, i)]
    <3>1. ASSUME NEW k \in 0 .. Len(ord[l]) + 1 PROVE CellAt(j, s, i) # CellAt(l, ord[l], k)
      BY <1>1, CellsDiffer
    <3>2. ASSUME NEW k \in 0 .. Len(ord[m]) + 1 PROVE CellAt(j, s, i) # CellAt(m, ord[m], k)
      BY <1>1, CellsDiffer
    <3>3. CellAt(j, s, i) \in Cell
      BY <2>1
    <3> QED BY ONLY <3>1, <3>2, <3>3, OnlyIn(p, l, ord[l], m, ord[m], q) DEF OnlyIn
  <2> QED BY ONLY <2>1, <2>2, ChainKept
<1>3. \A j \in AList : Chained(q, j, new[j])
  BY <1>2
<1>4. ASSUME NEW n \in Node, InNoList(new, n) PROVE Unlinked(q, n)
  <2>1. InNoList(ord, n)
    BY <1>4
  <2>2. Unlinked(p, n)
    BY <2>1 DEF Linked
  <2>3. ASSUME NEW k \in 0 .. Len(ord[l]) + 1 PROVE OfNode(n) # CellAt(l, ord[l], k)
    BY <1>1, <2>1, NodeOutside
  <2>4. ASSUME NEW k \in 0 .. Len(ord[m]) + 1 PROVE OfNode(n) # CellAt(m, ord[m], k)
    BY <1>1, <2>1, NodeOutside
  <2>5. OfNode(n) \in Cell
    BY CellFacts
  <2> QED BY ONLY <2>2, <2>3, <2>4, <2>5, OnlyIn(p, l, ord[l], m, ord[m], q) DEF OnlyIn, Unlinked
<1>5. q \in Links
  BY DEF OnlyIn
<1> QED BY <1>3, <1>4, <1>5 DEF Linked
\* Nothing moves out of an empty list.
LEMMA MoveNothing ==
  ASSUME NEW ord \in [AList -> Seq(Node)], NEW l \in AList, NEW m \in AList, l # m, ord[m] = <<>>
  PROVE  /\ [ord EXCEPT ![l] = ord[l] \o ord[m], ![m] = <<>>] = ord
         /\ [ord EXCEPT ![l] = ord[m] \o ord[l], ![m] = <<>>] = ord
<1>1. ord[l] \in Seq(Node)
  OBVIOUS
<1>2. ord[l] \o <<>> = ord[l] /\ <<>> \o ord[l] = ord[l]
  BY <1>1, ConcatEmptySeq
<1> QED BY <1>2

\* aws_linked_list_move_all_back.
LEMMA MoveBackKeeps ==
  ASSUME NEW p, NEW ord, Linked(p, ord), NEW l \in AList, NEW m \in AList, l # m,
         NEW q, q = aws_linked_list_move_all_back(p, l, m)
  PROVE  Linked(q, [ord EXCEPT ![l] = ord[l] \o ord[m], ![m] = <<>>])
<1> DEFINE s == ord[l]
           t == ord[m]
           new == [ord EXCEPT ![l] = s \o t, ![m] = <<>>]
<1>1. p \in Links /\ ord \in [AList -> Seq(Node)] /\ OnceLinked(ord)
  BY DEF Linked
<1>2. CASE t = <<>>
  <2>1. aws_linked_list_empty(p, m)
    BY <1>2, EndsOfList
  <2>2. q = p
    BY <2>1 DEF aws_linked_list_move_all_back
  <2>3. new = ord
    BY <1>1, <1>2, MoveNothing
  <2> QED BY <2>2, <2>3
<1>3. CASE t # <<>>
  <2>1. ~aws_linked_list_empty(p, m)
    BY <1>3, EndsOfList
  <2>2. q = Join(Join(Join(p, CellAt(l, s, Len(s)), CellAt(m, t, 1)), CellAt(m, t, Len(t)), TailOf(l)), HeadOf(m), TailOf(m))
    <3>1. aws_linked_list_back(p, l) = CellAt(l, s, Len(s))
      BY EndsOfList
    <3>2. aws_linked_list_front(p, m) = CellAt(m, t, 1) /\ aws_linked_list_back(p, m) = CellAt(m, t, Len(t))
      BY EndsOfList
    <3> HIDE DEF s, t
    <3> QED BY <2>1, <3>1, <3>2 DEF aws_linked_list_move_all_back
  <2>3. /\ Len(s) \in Nat /\ CellAt(l, s, 0) = HeadOf(l) /\ CellAt(l, s, Len(s) + 1) = TailOf(l)
        /\ \A i \in 0 .. Len(s) + 1 : CellAt(l, s, i) \in Cell
    BY LinkedFacts
  <2>4. /\ Len(t) \in Nat /\ CellAt(m, t, 0) = HeadOf(m) /\ CellAt(m, t, Len(t) + 1) = TailOf(m)
        /\ \A i \in 0 .. Len(t) + 1 : CellAt(m, t, i) \in Cell
    BY LinkedFacts
  <2>5. MovedBehind(p, l, s, m, t, q)
    <3>1. CellAt(l, s, Len(s)) \in Cell /\ CellAt(m, t, 1) \in Cell /\ CellAt(m, t, Len(t)) \in Cell
      <4> HIDE DEF s, t
      <4> QED BY <2>3, <2>4
    <3>2. TailOf(l) \in Cell /\ HeadOf(m) \in Cell /\ TailOf(m) \in Cell
      BY CellFacts
    <3> HIDE DEF s, t
    <3> QED BY ONLY <2>2, <3>1, <3>2, <1>1, Joined3Facts DEF MovedBehind
  <2>6. Chained(q, l, s \o t) /\ Chained(q, m, <<>>)
    BY <1>3, <2>5, BehindChained
  <2>7. OnlyIn(p, l, s, m, t, q)
    <3> HIDE DEF s, t
    <3>1. /\ Len(s) \in 0 .. Len(s) + 1 /\ Len(s) + 1 \in 0 .. Len(s) + 1 /\ 0 \in 0 .. Len(t) + 1 /\ 1 \in 0 .. Len(t) + 1
          /\ Len(t) \in 0 .. Len(t) + 1 /\ Len(t) + 1 \in 0 .. Len(t) + 1
      BY <2>3, <2>4
    <3> QED BY ONLY <2>3, <2>4, <2>5, <3>1 DEF MovedBehind, Joined3, OnlyIn
  <2>8. new \in [AList -> Seq(Node)] /\ OnceLinked(new) /\ \A n \in Node : InNoList(new, n) => InNoList(ord, n)
    <3>1. AllMoved(ord, l, m, new)
      BY DEF AllMoved
    <3> HIDE DEF new
    <3> QED BY ONLY <3>1, <1>1, l \in AList, m \in AList, l # m, OnceMoved
  <2>9. new[l] = s \o t /\ new[m] = <<>> /\ \A j \in AList \ {l, m} : new[j] = ord[j]
    BY <1>1
  <2>10. Chained(q, l, new[l]) /\ Chained(q, m, new[m])
    BY <2>6, <2>9
  <2> HIDE DEF new
  <2>11. Linked(q, new)
    BY ONLY <2>7, <2>8, <2>9, <2>10, Linked(p, ord), l \in AList, m \in AList, l # m, TwoListsKeep
  <2> QED BY <2>11 DEF new
<1> QED BY <1>2, <1>3

\* aws_linked_list_move_all_front.
LEMMA MoveFrontKeeps ==
  ASSUME NEW p, NEW ord, Linked(p, ord), NEW l \in AList, NEW m \in AList, l # m,
         NEW q, q = aws_linked_list_move_all_front(p, l, m)
  PROVE  Linked(q, [ord EXCEPT ![l] = ord[m] \o ord[l], ![m] = <<>>])
<1> DEFINE s == ord[l]
           t == ord[m]
           new == [ord EXCEPT ![l] = t \o s, ![m] = <<>>]
<1>1. p \in Links /\ ord \in [AList -> Seq(Node)] /\ OnceLinked(ord)
  BY DEF Linked
<1>2. CASE t = <<>>
  <2>1. aws_linked_list_empty(p, m)
    BY <1>2, EndsOfList
  <2>2. q = p
    BY <2>1 DEF aws_linked_list_move_all_front
  <2>3. new = ord
    BY <1>1, <1>2, MoveNothing
  <2> QED BY <2>2, <2>3
<1>3. CASE t # <<>>
  <2>1. ~aws_linked_list_empty(p, m)
    BY <1>3, EndsOfList
  <2>2. q = Join(Join(Join(p, CellAt(m, t, Len(t)), CellAt(l, s, 1)), HeadOf(l), CellAt(m, t, 1)), HeadOf(m), TailOf(m))
    <3>1. aws_linked_list_front(p, l) = CellAt(l, s, 1)
      BY EndsOfList
    <3>2. aws_linked_list_front(p, m) = CellAt(m, t, 1) /\ aws_linked_list_back(p, m) = CellAt(m, t, Len(t))
      BY EndsOfList
    <3> HIDE DEF s, t
    <3> QED BY <2>1, <3>1, <3>2 DEF aws_linked_list_move_all_front
  <2>3. /\ Len(s) \in Nat /\ CellAt(l, s, 0) = HeadOf(l) /\ CellAt(l, s, Len(s) + 1) = TailOf(l)
        /\ \A i \in 0 .. Len(s) + 1 : CellAt(l, s, i) \in Cell
    BY LinkedFacts
  <2>4. /\ Len(t) \in Nat /\ CellAt(m, t, 0) = HeadOf(m) /\ CellAt(m, t, Len(t) + 1) = TailOf(m)
        /\ \A i \in 0 .. Len(t) + 1 : CellAt(m, t, i) \in Cell
    BY LinkedFacts
  <2>5. MovedBefore(p, l, s, m, t, q)
    <3>1. CellAt(l, s, 1) \in Cell /\ CellAt(m, t, 1) \in Cell /\ CellAt(m, t, Len(t)) \in Cell
      <4> HIDE DEF s, t
      <4> QED BY <2>3, <2>4
    <3>2. HeadOf(l) \in Cell /\ HeadOf(m) \in Cell /\ TailOf(m) \in Cell
      BY CellFacts
    <3> HIDE DEF s, t
    <3> QED BY ONLY <2>2, <3>1, <3>2, <1>1, Joined3Facts DEF MovedBefore
  <2>6. Chained(q, l, t \o s) /\ Chained(q, m, <<>>)
    BY <1>3, <2>5, BeforeChained
  <2>7. OnlyIn(p, l, s, m, t, q)
    <3> HIDE DEF s, t
    <3>1. /\ 0 \in 0 .. Len(s) + 1 /\ 1 \in 0 .. Len(s) + 1 /\ 0 \in 0 .. Len(t) + 1 /\ 1 \in 0 .. Len(t) + 1
          /\ Len(t) \in 0 .. Len(t) + 1 /\ Len(t) + 1 \in 0 .. Len(t) + 1
      BY <2>3, <2>4
    <3> QED BY ONLY <2>3, <2>4, <2>5, <3>1 DEF MovedBefore, Joined3, OnlyIn
  <2>8. new \in [AList -> Seq(Node)] /\ OnceLinked(new) /\ \A n \in Node : InNoList(new, n) => InNoList(ord, n)
    <3>1. AllMoved(ord, l, m, new)
      BY DEF AllMoved
    <3> HIDE DEF new
    <3> QED BY ONLY <3>1, <1>1, l \in AList, m \in AList, l # m, OnceMoved
  <2>9. new[l] = t \o s /\ new[m] = <<>> /\ \A j \in AList \ {l, m} : new[j] = ord[j]
    BY <1>1
  <2>10. Chained(q, l, new[l]) /\ Chained(q, m, new[m])
    BY <2>6, <2>9
  <2> HIDE DEF new
  <2>11. Linked(q, new)
    BY ONLY <2>7, <2>8, <2>9, <2>10, Linked(p, ord), l \in AList, m \in AList, l # m, TwoListsKeep
  <2> QED BY <2>11 DEF new
<1> QED BY <1>2, <1>3
\* q is p after the list l has taken over the chain of nodes t.
TakesOver(p, l, t, q) ==
    /\ q \in Links
    /\ \A c \in Cell :
          /\ q.next[c] = IF c = HeadOf(l) THEN CellAt(l, t, 1)
                         ELSE IF c = CellAt(l, t, Len(t)) THEN TailOf(l) ELSE p.next[c]
          /\ q.prev[c] = IF c = TailOf(l) THEN CellAt(l, t, Len(t))
                         ELSE IF c = CellAt(l, t, 1) THEN HeadOf(l) ELSE p.prev[c]

\* An initialised list holds no nodes.
LEMMA InitTakesOver ==
  ASSUME NEW p \in Links, NEW l \in AList, p.prev[HeadOf(l)] = NULL, p.next[TailOf(l)] = NULL,
         NEW q, q = aws_linked_list_init(p, l)
  PROVE  TakesOver(p, l, <<>>, q)
<1> DEFINE h == HeadOf(l)
           t == TailOf(l)
<1>1. h \in Cell /\ t \in Cell /\ h # t
  BY CellFacts
<1>2. PICK p1 : p1 = Join(p, h, t)
  OBVIOUS
<1>3. Joined(p, h, t, p1)
  BY <1>1, <1>2, JoinFacts
<1>4. p1 \in Links
  BY <1>3 DEF Joined
<1>5. NULL \in Pointer
  BY DEF Pointer
<1>6. q = SetNext(SetPrev(p1, h, NULL), t, NULL)
  BY <1>2 DEF aws_linked_list_init
<1> HIDE DEF h, t
<1>7. /\ q \in Links
      /\ \A c \in Cell : /\ q.next[c] = IF c = t THEN NULL ELSE p1.next[c]
                         /\ q.prev[c] = IF c = h THEN NULL ELSE p1.prev[c]
  BY ONLY <1>1, <1>4, <1>5, <1>6 DEF SetNext, SetPrev, Links
<1>8. p.prev[h] = NULL /\ p.next[t] = NULL
  BY DEF h, t
<1>9. Len(<<>>) = 0 /\ CellAt(l, <<>>, 0) = h /\ CellAt(l, <<>>, 1) = t
  <2>1. Len(<<>>) = 0 /\ 1 > 0 /\ 1 # 0
    OBVIOUS
  <2> QED BY <2>1 DEF CellAt, h, t
<1>10. \A c \in Cell : /\ q.next[c] = IF c = h THEN t ELSE p.next[c]
                       /\ q.prev[c] = IF c = t THEN h ELSE p.prev[c]
  BY <1>1, <1>3, <1>7, <1>8 DEF Joined
<1> QED BY <1>7, <1>9, <1>10 DEF TakesOver, h, t

\* A list that adopts the nodes of another.
LEMMA AdoptTakesOver ==
  ASSUME NEW p \in Links, NEW l \in AList, NEW m \in AList, NEW t \in Seq(Node), t # <<>>,
         NEW q, q = Adopts(p, l, CellAt(m, t, 1), CellAt(m, t, Len(t)))
  PROVE  TakesOver(p, l, t, q)
<1>1. Len(t) \in Nat \ {0} /\ 1 \in 1 .. Len(t) /\ Len(t) \in 1 .. Len(t)
  OBVIOUS
<1>2. \A i \in 1 .. Len(t) : CellAt(l, t, i) = OfNode(t[i]) /\ CellAt(m, t, i) = OfNode(t[i]) /\ t[i] \in Node
  BY CellAtFacts
<1> DEFINE a == OfNode(t[1])
           b == OfNode(t[Len(t)])
<1>3. CellAt(l, t, 1) = a /\ CellAt(m, t, 1) = a /\ CellAt(l, t, Len(t)) = b /\ CellAt(m, t, Len(t)) = b
  BY <1>1, <1>2
<1>4. a \in Cell /\ b \in Cell /\ HeadOf(l) \in Cell /\ TailOf(l) \in Cell
  BY <1>1, <1>2, CellFacts
<1>5. b # HeadOf(l) /\ a # TailOf(l)
  BY CellFacts
<1>6. PICK p1 : p1 = Join(p, HeadOf(l), a)
  OBVIOUS
<1>7. Joined(p, HeadOf(l), a, p1)
  BY <1>4, <1>6, JoinFacts
<1>8. p1 \in Links
  BY <1>7 DEF Joined
<1>9. q = Join(p1, b, TailOf(l))
  BY <1>3, <1>6 DEF Adopts
<1>10. Joined(p1, b, TailOf(l), q)
  BY <1>4, <1>8, <1>9, JoinFacts
<1> HIDE DEF a, b
<1> QED BY ONLY <1>3, <1>5, <1>7, <1>10 DEF Joined, TakesOver

\* What the two lists s of l and t of m are after an exchange of their contents.
ContentsSwapped(p, l, s, m, t, q) ==
    /\ q \in Links
    /\ \A c \in Cell :
          /\ q.next[c] = IF c = HeadOf(l) THEN CellAt(l, t, 1) ELSE IF c = CellAt(l, t, Len(t)) THEN TailOf(l)
                         ELSE IF c = HeadOf(m) THEN CellAt(m, s, 1) ELSE IF c = CellAt(m, s, Len(s)) THEN TailOf(m)
                         ELSE p.next[c]
          /\ q.prev[c] = IF c = TailOf(l) THEN CellAt(l, t, Len(t)) ELSE IF c = CellAt(l, t, 1) THEN HeadOf(l)
                         ELSE IF c = TailOf(m) THEN CellAt(m, s, Len(s)) ELSE IF c = CellAt(m, s, 1) THEN HeadOf(m)
                         ELSE p.prev[c]

\* The ends of a list whose nodes have come from another.
Ends2(l, s, m, t) ==
    /\ CellAt(l, t, 1) = IF Len(t) = 0 THEN TailOf(l) ELSE CellAt(m, t, 1)
    /\ CellAt(l, t, Len(t)) = IF Len(t) = 0 THEN HeadOf(l) ELSE CellAt(m, t, Len(t))
    /\ CellAt(m, s, 1) = IF Len(s) = 0 THEN TailOf(m) ELSE CellAt(l, s, 1)
    /\ CellAt(m, s, Len(s)) = IF Len(s) = 0 THEN HeadOf(m) ELSE CellAt(l, s, Len(s))

\* They are an end of the list itself or the node at an end of the other list.
LEMMA EndsTaken ==
  ASSUME NEW l \in AList, NEW s \in Seq(Node), NEW m \in AList, NEW t \in Seq(Node)
  PROVE  Ends2(l, s, m, t)
<1>1. ASSUME NEW x \in AList, NEW y \in AList, NEW u \in Seq(Node)
      PROVE  /\ CellAt(x, u, 1) = IF Len(u) = 0 THEN TailOf(x) ELSE CellAt(y, u, 1)
             /\ CellAt(x, u, Len(u)) = IF Len(u) = 0 THEN HeadOf(x) ELSE CellAt(y, u, Len(u))
  <2>1. /\ Len(u) \in Nat /\ CellAt(x, u, 0) = HeadOf(x) /\ CellAt(x, u, Len(u) + 1) = TailOf(x)
        /\ \A i \in 1 .. Len(u) : CellAt(x, u, i) = OfNode(u[i])
    BY CellAtFacts
  <2>2. \A i \in 1 .. Len(u) : CellAt(y, u, i) = OfNode(u[i])
    BY CellAtFacts
  <2> QED BY <2>1, <2>2
<1> QED BY <1>1 DEF Ends2

\* It does not matter which of the lists is written first.
LEMMA SwappedEitherWay ==
  ASSUME NEW p, NEW ord, Linked(p, ord), NEW l \in AList, NEW m \in AList, l # m,
         NEW q, ContentsSwapped(p, l, ord[l], m, ord[m], q)
  PROVE  ContentsSwapped(p, m, ord[m], l, ord[l], q)
<1> DEFINE s == ord[l]
           t == ord[m]
           L(i) == CellAt(l, s, i)
           M(i) == CellAt(m, t, i)
           S(i) == CellAt(m, s, i)
           T(i) == CellAt(l, t, i)
<1>1. s \in Seq(Node) /\ Len(s) \in Nat /\ L(0) = HeadOf(l) /\ L(Len(s) + 1) = TailOf(l)
  BY LinkedFacts
<1>2. t \in Seq(Node) /\ Len(t) \in Nat /\ M(0) = HeadOf(m) /\ M(Len(t) + 1) = TailOf(m)
  BY LinkedFacts
<1>3. /\ \A i \in 0 .. Len(s) + 1 : \A k \in 0 .. Len(t) + 1 : L(i) # M(k)
      /\ \A i, k \in 0 .. Len(s) + 1 : L(i) = L(k) => i = k
      /\ \A i, k \in 0 .. Len(t) + 1 : M(i) = M(k) => i = k
  BY ListsApart DEF Apart
<1>4. /\ T(1) = IF Len(t) = 0 THEN L(Len(s) + 1) ELSE M(1)
      /\ T(Len(t)) = IF Len(t) = 0 THEN L(0) ELSE M(Len(t))
      /\ S(1) = IF Len(s) = 0 THEN M(Len(t) + 1) ELSE L(1)
      /\ S(Len(s)) = IF Len(s) = 0 THEN M(0) ELSE L(Len(s))
  BY <1>1, <1>2, EndsTaken DEF Ends2
<1> HIDE DEF s, t, L, M, S, T
<1>5. /\ Len(s) \in 0 .. Len(s) + 1 /\ Len(s) + 1 \in 0 .. Len(s) + 1 /\ 0 \in 0 .. Len(s) + 1 /\ 1 \in 0 .. Len(s) + 1
      /\ 0 \in 0 .. Len(t) + 1 /\ 1 \in 0 .. Len(t) + 1 /\ Len(t) \in 0 .. Len(t) + 1 /\ Len(t) + 1 \in 0 .. Len(t) + 1
      /\ Len(s) + 1 # 0 /\ Len(t) + 1 # 0
  BY <1>1, <1>2
<1>6. L(0) # M(0) /\ L(0) # S(Len(s)) /\ M(0) # T(Len(t)) /\ T(Len(t)) # S(Len(s))
  BY <1>3, <1>4, <1>5
<1>7. L(Len(s) + 1) # M(Len(t) + 1) /\ L(Len(s) + 1) # S(1) /\ M(Len(t) + 1) # T(1) /\ T(1) # S(1)
  <2>1. Len(s) # 0 => 1 # Len(s) + 1
    BY <1>1
  <2>2. Len(t) # 0 => 1 # Len(t) + 1
    BY <1>2
  <2> QED BY <2>1, <2>2, <1>3, <1>4, <1>5
<1>8. /\ q \in Links
      /\ \A c \in Cell :
          /\ q.next[c] = IF c = L(0) THEN T(1) ELSE IF c = T(Len(t)) THEN L(Len(s) + 1)
                         ELSE IF c = M(0) THEN S(1) ELSE IF c = S(Len(s)) THEN M(Len(t) + 1) ELSE p.next[c]
          /\ q.prev[c] = IF c = L(Len(s) + 1) THEN T(Len(t)) ELSE IF c = T(1) THEN L(0)
                         ELSE IF c = M(Len(t) + 1) THEN S(Len(s)) ELSE IF c = S(1) THEN M(0) ELSE p.prev[c]
  BY <1>1, <1>2 DEF ContentsSwapped, L, M, S, T, s, t
<1>9. \A c \in Cell :
          /\ q.next[c] = IF c = M(0) THEN S(1) ELSE IF c = S(Len(s)) THEN M(Len(t) + 1)
                         ELSE IF c = L(0) THEN T(1) ELSE IF c = T(Len(t)) THEN L(Len(s) + 1) ELSE p.next[c]
          /\ q.prev[c] = IF c = M(Len(t) + 1) THEN S(Len(s)) ELSE IF c = S(1) THEN M(0)
                         ELSE IF c = L(Len(s) + 1) THEN T(Len(t)) ELSE IF c = T(1) THEN L(0) ELSE p.prev[c]
  BY ONLY <1>6, <1>7, <1>8
<1> QED BY <1>1, <1>2, <1>8, <1>9 DEF ContentsSwapped, L, M, S, T, s, t
\* The list l holds the nodes m had.
LEMMA SwappedChained ==
  ASSUME NEW p, NEW ord, Linked(p, ord), NEW l \in AList, NEW m \in AList, l # m,
         NEW q, ContentsSwapped(p, l, ord[l], m, ord[m], q)
  PROVE  Chained(q, l, ord[m])
<1> DEFINE s == ord[l]
           t == ord[m]
           L(i) == CellAt(l, s, i)
           M(i) == CellAt(m, t, i)
           S(i) == CellAt(m, s, i)
           T(i) == CellAt(l, t, i)
<1>1. /\ s \in Seq(Node) /\ Len(s) \in Nat /\ L(0) = HeadOf(l) /\ L(Len(s) + 1) = TailOf(l)
      /\ \A i \in 0 .. Len(s) + 1 : L(i) \in Cell
  BY LinkedFacts
<1>2. /\ t \in Seq(Node) /\ Len(t) \in Nat /\ M(0) = HeadOf(m) /\ M(Len(t) + 1) = TailOf(m)
      /\ \A i \in 0 .. Len(t) + 1 : M(i) \in Cell
      /\ \A i \in 1 .. Len(t) : M(i) = OfNode(t[i])
  BY LinkedFacts
<1>3. /\ \A i \in 0 .. Len(s) + 1 : \A k \in 0 .. Len(t) + 1 : L(i) # M(k)
      /\ \A i, k \in 0 .. Len(s) + 1 : L(i) = L(k) => i = k
      /\ \A i, k \in 0 .. Len(t) + 1 : M(i) = M(k) => i = k
  BY ListsApart DEF Apart
<1>4. /\ T(1) = IF Len(t) = 0 THEN L(Len(s) + 1) ELSE M(1)
      /\ T(Len(t)) = IF Len(t) = 0 THEN L(0) ELSE M(Len(t))
      /\ S(1) = IF Len(s) = 0 THEN M(Len(t) + 1) ELSE L(1)
      /\ S(Len(s)) = IF Len(s) = 0 THEN M(0) ELSE L(Len(s))
  BY <1>1, <1>2, EndsTaken DEF Ends2
<1>5. /\ p.prev[L(0)] = NULL /\ p.next[L(Len(s) + 1)] = NULL
      /\ \A i \in 0 .. Len(t) : p.next[M(i)] = M(i + 1) /\ p.prev[M(i + 1)] = M(i)
  BY <1>1, <1>2, LinkedFacts DEF Chained
<1>6. T(0) = L(0) /\ T(Len(t) + 1) = L(Len(s) + 1) /\ \A i \in 1 .. Len(t) : T(i) = M(i)
  BY <1>1, <1>2, CellAtFacts
<1>7. \A c \in Cell :
          /\ q.next[c] = IF c = L(0) THEN T(1) ELSE IF c = T(Len(t)) THEN L(Len(s) + 1)
                         ELSE IF c = M(0) THEN S(1) ELSE IF c = S(Len(s)) THEN M(Len(t) + 1) ELSE p.next[c]
          /\ q.prev[c] = IF c = L(Len(s) + 1) THEN T(Len(t)) ELSE IF c = T(1) THEN L(0)
                         ELSE IF c = M(Len(t) + 1) THEN S(Len(s)) ELSE IF c = S(1) THEN M(0) ELSE p.prev[c]
  BY <1>1, <1>2 DEF ContentsSwapped
<1> HIDE DEF s, t, L, M, S, T
<1>8. /\ Len(s) \in 0 .. Len(s) + 1 /\ Len(s) + 1 \in 0 .. Len(s) + 1 /\ 0 \in 0 .. Len(s) + 1 /\ 1 \in 0 .. Len(s) + 1
      /\ 0 \in 0 .. Len(t) + 1 /\ 1 \in 0 .. Len(t) + 1 /\ Len(t) \in 0 .. Len(t) + 1 /\ Len(t) + 1 \in 0 .. Len(t) + 1
      /\ Len(s) + 1 # 0 /\ Len(t) + 1 # 0 /\ Len(s) + 1 # Len(s) /\ (Len(s) # 0 => 1 # Len(s) + 1)
  BY <1>1, <1>2
<1>9. q.prev[L(0)] = NULL /\ q.next[L(Len(s) + 1)] = NULL
  <2>1. L(0) \in Cell /\ L(0) # L(Len(s) + 1) /\ L(0) # T(1) /\ L(0) # M(Len(t) + 1) /\ L(0) # S(1)
    BY <1>1, <1>3, <1>4, <1>8
  <2>2. /\ L(Len(s) + 1) \in Cell /\ L(Len(s) + 1) # L(0) /\ L(Len(s) + 1) # T(Len(t)) /\ L(Len(s) + 1) # M(0)
        /\ L(Len(s) + 1) # S(Len(s))
    BY <1>1, <1>3, <1>4, <1>8
  <2> QED BY <2>1, <2>2, <1>5, <1>7
<1>10. ASSUME NEW i \in 0 .. Len(t) PROVE q.next[T(i)] = T(i + 1)
  <2>1. CASE i = 0
    BY <2>1, <1>1, <1>6, <1>7, <1>8
  <2>2. CASE i # 0 /\ i = Len(t)
    <3>1. T(Len(t)) = M(Len(t)) /\ M(Len(t)) # L(0) /\ M(Len(t)) \in Cell
      BY <2>2, <1>2, <1>3, <1>4, <1>8
    <3> QED BY <2>2, <3>1, <1>6, <1>7
  <2>3. CASE i # 0 /\ i # Len(t)
    <3>1. i \in 1 .. Len(t) /\ i + 1 \in 1 .. Len(t) /\ i \in 0 .. Len(t) + 1 /\ Len(t) # 0
      BY <2>3, <1>2
    <3>2. /\ T(i) = M(i) /\ T(i + 1) = M(i + 1) /\ M(i) \in Cell /\ M(i) # L(0) /\ M(i) # T(Len(t)) /\ M(i) # M(0)
      BY <2>3, <3>1, <1>2, <1>3, <1>4, <1>6, <1>8
    <3>3. M(i) # S(Len(s))
      BY <2>3, <3>1, <1>3, <1>4, <1>8
    <3>4. p.next[M(i)] = M(i + 1)
      BY <1>5
    <3> QED BY <3>2, <3>3, <3>4, <1>7
  <2> QED BY <2>1, <2>2, <2>3
<1>11. ASSUME NEW i \in 0 .. Len(t) PROVE q.prev[T(i + 1)] = T(i)
  <2>1. CASE i = Len(t)
    BY <2>1, <1>1, <1>6, <1>7, <1>8
  <2>2. CASE i # Len(t) /\ i = 0
    <3>1. T(1) = M(1) /\ M(1) # L(Len(s) + 1) /\ M(1) \in Cell
      BY <2>2, <1>2, <1>3, <1>4, <1>8
    <3>2. i + 1 = 1
      BY <2>2
    <3> QED BY <2>2, <3>1, <3>2, <1>6, <1>7
  <2>3. CASE i # 0 /\ i # Len(t)
    <3>1. /\ i \in 1 .. Len(t) /\ i + 1 \in 1 .. Len(t) /\ i + 1 \in 0 .. Len(t) + 1 /\ Len(t) # 0
          /\ i + 1 # 1 /\ i + 1 # Len(t) + 1
      BY <2>3, <1>2
    <3>2. /\ T(i) = M(i) /\ T(i + 1) = M(i + 1) /\ M(i + 1) \in Cell /\ M(i + 1) # L(Len(s) + 1) /\ M(i + 1) # T(1)
          /\ M(i + 1) # M(Len(t) + 1)
      BY <2>3, <3>1, <1>2, <1>3, <1>4, <1>6, <1>8
    <3>3. M(i + 1) # S(1)
      BY <2>3, <3>1, <1>3, <1>4, <1>8
    <3>4. p.prev[M(i + 1)] = M(i)
      BY <1>5
    <3> QED BY <3>2, <3>3, <3>4, <1>7
  <2> QED BY <2>1, <2>2, <2>3
<1> QED BY <1>1, <1>9, <1>10, <1>11 DEF Chained, T, t

\* aws_linked_list_swap_contents, with either list empty or not.
LEMMA SwapListsKeeps ==
  ASSUME NEW p, NEW ord, Linked(p, ord), NEW l \in AList, NEW m \in AList, l # m,
         NEW q, q = aws_linked_list_swap_contents(p, l, m)
  PROVE  Linked(q, [ord EXCEPT ![l] = ord[m], ![m] = ord[l]])
<1> DEFINE s == ord[l]
           t == ord[m]
           new == [ord EXCEPT ![l] = t, ![m] = s]
<1>1. p \in Links /\ ord \in [AList -> Seq(Node)] /\ OnceLinked(ord)
  BY DEF Linked
<1>2. /\ s \in Seq(Node) /\ Len(s) \in Nat /\ CellAt(l, s, 0) = HeadOf(l) /\ CellAt(l, s, Len(s) + 1) = TailOf(l)
      /\ \A i \in 0 .. Len(s) + 1 : CellAt(l, s, i) \in Cell
  BY LinkedFacts
<1>3. /\ t \in Seq(Node) /\ Len(t) \in Nat /\ CellAt(m, t, 0) = HeadOf(m) /\ CellAt(m, t, Len(t) + 1) = TailOf(m)
      /\ \A i \in 0 .. Len(t) + 1 : CellAt(m, t, i) \in Cell
  BY LinkedFacts
<1>4. /\ p.prev[HeadOf(l)] = NULL /\ p.next[TailOf(l)] = NULL /\ p.prev[HeadOf(m)] = NULL /\ p.next[TailOf(m)] = NULL
  BY LinkedFacts DEF Chained
<1>5. /\ aws_linked_list_empty(p, m) <=> t = <<>>
      /\ aws_linked_list_front(p, m) = CellAt(m, t, 1) /\ aws_linked_list_back(p, m) = CellAt(m, t, Len(t))
  BY EndsOfList
<1>6. /\ aws_linked_list_front(p, l) = TailOf(l) <=> s = <<>>
      /\ aws_linked_list_front(p, l) = CellAt(l, s, 1) /\ aws_linked_list_back(p, l) = CellAt(l, s, Len(s))
  BY EndsOfList DEF aws_linked_list_empty, aws_linked_list_front
<1>7. PICK p1 : p1 = IF t = <<>> THEN aws_linked_list_init(p, l) ELSE Adopts(p, l, CellAt(m, t, 1), CellAt(m, t, Len(t)))
  OBVIOUS
<1>8. q = IF s = <<>> THEN aws_linked_list_init(p1, m) ELSE Adopts(p1, m, CellAt(l, s, 1), CellAt(l, s, Len(s)))
  <2> HIDE DEF s, t
  <2> QED BY <1>5, <1>6, <1>7 DEF aws_linked_list_swap_contents
<1>9. TakesOver(p, l, t, p1)
  <2>1. CASE t = <<>>
    <3>1. TakesOver(p, l, <<>>, p1)
      BY <2>1, <1>1, <1>4, <1>7, InitTakesOver
    <3> QED BY <2>1, <3>1
  <2>2. CASE t # <<>>
    <3>1. p1 = Adopts(p, l, CellAt(m, t, 1), CellAt(m, t, Len(t)))
      BY <2>2, <1>7
    <3> HIDE DEF t
    <3> QED BY <2>2, <3>1, <1>1, <1>3, AdoptTakesOver
  <2> QED BY <2>1, <2>2
<1>10. p1 \in Links
  BY <1>9 DEF TakesOver
<1>11. Ends2(l, s, m, t)
  BY <1>2, <1>3, EndsTaken
<1>12. p1.prev[HeadOf(m)] = NULL /\ p1.next[TailOf(m)] = NULL
  <2>1. /\ HeadOf(m) \in Cell /\ TailOf(m) \in Cell /\ HeadOf(m) # TailOf(l) /\ TailOf(m) # HeadOf(l)
    BY CellFacts
  <2>2. \A n \in Nat : t # <<>> /\ n \in 1 .. Len(t) => CellAt(l, t, n) = OfNode(t[n])
    BY <1>3, CellAtFacts
  <2>3. CellAt(l, t, 1) # HeadOf(m) /\ CellAt(l, t, Len(t)) # TailOf(m)
    <3>1. CASE Len(t) = 0
      <4>1. CellAt(l, t, 1) = TailOf(l) /\ CellAt(l, t, Len(t)) = HeadOf(l)
        BY <3>1, <1>11 DEF Ends2
      <4> QED BY <4>1, <2>1
    <3>2. CASE Len(t) # 0
      <4>1. t # <<>> /\ 1 \in 1 .. Len(t) /\ Len(t) \in 1 .. Len(t)
        BY <3>2, <1>3
      <4>2. CellAt(l, t, 1) = OfNode(t[1]) /\ CellAt(l, t, Len(t)) = OfNode(t[Len(t)])
        BY <4>1, <2>2
      <4> QED BY <4>2, CellFacts
    <3> QED BY <3>1, <3>2
  <2> HIDE DEF s, t
  <2> QED BY ONLY <2>1, <2>3, <1>4, <1>9 DEF TakesOver
<1>13. TakesOver(p1, m, s, q)
  <2>1. CASE s = <<>>
    <3>1. TakesOver(p1, m, <<>>, q)
      BY <2>1, <1>10, <1>12, <1>8, InitTakesOver
    <3> QED BY <2>1, <3>1
  <2>2. CASE s # <<>>
    <3>1. q = Adopts(p1, m, CellAt(l, s, 1), CellAt(l, s, Len(s)))
      BY <2>2, <1>8
    <3> HIDE DEF s
    <3> QED BY <2>2, <3>1, <1>10, <1>2, AdoptTakesOver
  <2> QED BY <2>1, <2>2
<1>14. ContentsSwapped(p, m, t, l, s, q)
  <2> HIDE DEF s, t
  <2> QED BY ONLY <1>9, <1>13 DEF TakesOver, ContentsSwapped
<1>15. ContentsSwapped(p, l, s, m, t, q)
  BY <1>14, SwappedEitherWay
<1>16. Chained(q, l, t) /\ Chained(q, m, s)
  BY <1>14, <1>15, SwappedChained
<1>17. OnlyIn(p, l, s, m, t, q)
  <2> HIDE DEF s, t
  <2>1. /\ Len(s) \in 0 .. Len(s) + 1 /\ Len(s) + 1 \in 0 .. Len(s) + 1 /\ 0 \in 0 .. Len(s) + 1 /\ 1 \in 0 .. Len(s) + 1
        /\ 0 \in 0 .. Len(t) + 1 /\ 1 \in 0 .. Len(t) + 1 /\ Len(t) \in 0 .. Len(t) + 1 /\ Len(t) + 1 \in 0 .. Len(t) + 1
    BY <1>2, <1>3
  <2> DEFINE In(c) == (\E i \in 0 .. Len(s) + 1 : c = CellAt(l, s, i)) \/ (\E i \in 0 .. Len(t) + 1 : c = CellAt(m, t, i))
  <2>2. In(HeadOf(l)) /\ In(TailOf(l)) /\ In(HeadOf(m)) /\ In(TailOf(m))
    BY ONLY <2>1, <1>2, <1>3
  <2>3. In(CellAt(l, s, 1)) /\ In(CellAt(l, s, Len(s))) /\ In(CellAt(m, t, 1)) /\ In(CellAt(m, t, Len(t)))
    BY ONLY <2>1
  <2> HIDE DEF In
  <2>4. In(CellAt(l, t, 1)) /\ In(CellAt(l, t, Len(t))) /\ In(CellAt(m, s, 1)) /\ In(CellAt(m, s, Len(s)))
    BY ONLY <2>2, <2>3, <1>11 DEF Ends2
  <2>5. q \in Links /\ \A c \in Cell : In(c) \/ (q.next[c] = p.next[c] /\ q.prev[c] = p.prev[c])
    BY ONLY <2>2, <2>4, <1>15 DEF ContentsSwapped
  <2> QED BY ONLY <2>5 DEF OnlyIn, In
<1>18. new \in [AList -> Seq(Node)] /\ new[l] = t /\ new[m] = s /\ \A j \in AList \ {l, m} : new[j] = ord[j]
  BY <1>1
<1> DEFINE Of(j) == IF j = l THEN m ELSE IF j = m THEN l ELSE j
<1>19. \A j \in AList : Of(j) \in AList /\ new[j] = ord[Of(j)] /\ Of(Of(j)) = j
  BY <1>18
<1> HIDE DEF new, Of
<1>20. OnceLinked(new)
  <2> SUFFICES ASSUME NEW j \in AList, NEW h \in AList, NEW i \in 1 .. Len(new[j]), NEW k \in 1 .. Len(new[h]),
                      new[j][i] = new[h][k]
               PROVE  j = h /\ i = k
    BY DEF OnceLinked
  <2>1. Of(j) \in AList /\ Of(h) \in AList /\ i \in 1 .. Len(ord[Of(j)]) /\ k \in 1 .. Len(ord[Of(h)]) /\ ord[Of(j)][i] = ord[Of(h)][k]
    BY <1>19
  <2>2. Of(j) = Of(h) /\ i = k
    BY <2>1, <1>1, OnePlace
  <2> QED BY <2>2, <1>19
<1>21. ASSUME NEW n \in Node, InNoList(new, n) PROVE InNoList(ord, n)
  <2> SUFFICES ASSUME NEW j \in AList, NEW i \in 1 .. Len(ord[j]) PROVE ord[j][i] # n
    BY DEF InNoList
  <2>1. Of(j) \in AList /\ new[Of(j)] = ord[j]
    BY <1>19
  <2> QED BY <2>1, <1>21 DEF InNoList
<1>22. Chained(q, l, new[l]) /\ Chained(q, m, new[m])
  BY <1>16, <1>18
<1>23. Linked(q, new)
  BY ONLY <1>17, <1>18, <1>20, <1>21, <1>22, Linked(p, ord), l \in AList, m \in AList, l # m, TwoListsKeep
<1> QED BY <1>23 DEF new
\* The nodes of no list are the free ones.
LEMMA FreeNodes ==
  ASSUME order \in [AList -> Seq(Node)]
  PROVE  \A n \in Node : n \in Free <=> InNoList(order, n)
<1>1. ASSUME NEW l \in AList, NEW n PROVE n \in ToSet(order[l]) <=> \E i \in 1 .. Len(order[l]) : order[l][i] = n
  <2>1. order[l] \in Seq(Node) /\ DOMAIN order[l] = 1 .. Len(order[l])
    OBVIOUS
  <2> QED BY <2>1 DEF ToSet
<1> QED BY <1>1 DEF Free, InNoList

\* An insertion at a place of a sequence.
LEMMA Insertions ==
  ASSUME NEW s \in Seq(Node), NEW n \in Node
  PROVE  /\ Between(s, Len(s), n, Append(s, n))
         /\ Between(s, 0, n, <<n>> \o s)
         /\ \A i \in 1 .. Len(s) : Between(s, i, n, InsertAt(s, i + 1, n))
<1>1. Len(s) \in Nat
  OBVIOUS
<1>2. Between(s, Len(s), n, Append(s, n))
  <2> DEFINE t == Append(s, n)
  <2>1. t \in Seq(Node) /\ Len(t) = Len(s) + 1 /\ (\A i \in 1 .. Len(s) : t[i] = s[i]) /\ t[Len(s) + 1] = n
    BY AppendProperties
  <2> HIDE DEF t
  <2>2. Between(s, Len(s), n, t)
    BY <1>1, <2>1 DEF Between
  <2> QED BY <2>2 DEF t
<1>3. Between(s, 0, n, <<n>> \o s)
  <2>1. <<n>> \in Seq(Node) /\ Len(<<n>>) = 1 /\ <<n>>[1] = n
    OBVIOUS
  <2>2. /\ <<n>> \o s \in Seq(Node) /\ Len(<<n>> \o s) = 1 + Len(s)
        /\ \A i \in 1 .. 1 + Len(s) : (<<n>> \o s)[i] = IF i <= 1 THEN <<n>>[i] ELSE s[i - 1]
    BY <2>1, ConcatProperties
  <2>3. PICK t : t = <<n>> \o s
    OBVIOUS
  <2>4. Between(s, 0, n, t)
    BY <1>1, <2>1, <2>2, <2>3 DEF Between
  <2> QED BY <2>3, <2>4
<1>4. ASSUME NEW i \in 1 .. Len(s) PROVE Between(s, i, n, InsertAt(s, i + 1, n))
  <2>1. i + 1 \in 1 .. Len(s) + 1
    BY <1>1
  <2>2. PICK j : j = i + 1
    OBVIOUS
  <2>3. PICK t : t = InsertAt(s, j, n)
    OBVIOUS
  <2>4. /\ t \in Seq(Node) /\ Len(t) = Len(s) + 1
        /\ \A k \in 1 .. Len(s) + 1 : t[k] = IF k < j THEN s[k] ELSE IF k = j THEN n ELSE s[k - 1]
    BY <2>1, <2>2, <2>3, InsertAtFacts, SMTT(30) DEF Inserted
  <2>5. Between(s, i, n, t)
    BY <1>1, <2>2, <2>4 DEF Between
  <2> QED BY <2>2, <2>3, <2>5
<1> QED BY <1>2, <1>3, <1>4

\* At the beginning the lists are empty and the nodes point nowhere.
LEMMA LinkInitHolds == LinkInit => LinkInv
<1> SUFFICES ASSUME LinkInit PROVE Linked(links, order)
  BY DEF LinkInv
<1> DEFINE N == [c \in Cell |-> IF c[2] = "head" THEN TailOf(c[1]) ELSE NULL]
           P == [c \in Cell |-> IF c[2] = "tail" THEN HeadOf(c[1]) ELSE NULL]
<1>1. links = [next |-> N, prev |-> P] /\ order = [l \in AList |-> <<>>]
  BY DEF LinkInit, EmptyLists, Cell
<1>2. NULL \in Pointer /\ \A l \in AList : HeadOf(l) \in Pointer /\ TailOf(l) \in Pointer
  BY CellFacts DEF Pointer
<1>3. \A l : HeadOf(l)[1] = l /\ HeadOf(l)[2] = "head" /\ TailOf(l)[1] = l /\ TailOf(l)[2] = "tail" /\ OfNode(l)[2] = "node"
  BY DEF HeadOf, TailOf, OfNode
<1>4. \A c \in Cell : (c[2] = "head" => \E l \in AList : c[1] = l) /\ (c[2] = "tail" => \E l \in AList : c[1] = l)
  BY <1>3 DEF Cell, Cells, Ends
<1>5. N \in [Cell -> Pointer] /\ P \in [Cell -> Pointer]
  BY <1>2, <1>4
<1>6. \A l \in AList : /\ N[HeadOf(l)] = TailOf(l) /\ N[TailOf(l)] = NULL
                       /\ P[TailOf(l)] = HeadOf(l) /\ P[HeadOf(l)] = NULL
  BY <1>3, CellFacts
<1>7. \A n \in Node : N[OfNode(n)] = NULL /\ P[OfNode(n)] = NULL
  BY <1>3, CellFacts
<1> HIDE DEF N, P
<1>8. links \in Links /\ links.next = N /\ links.prev = P
  BY <1>1, <1>5 DEF Links
<1>9. order \in [AList -> Seq(Node)] /\ \A l \in AList : order[l] = <<>> /\ Len(order[l]) = 0
  BY <1>1
<1>10. OnceLinked(order)
  <2>1. \A l \in AList : 1 .. Len(order[l]) = {}
    BY <1>9
  <2> QED BY <2>1 DEF OnceLinked
<1>11. ASSUME NEW l \in AList PROVE Chained(links, l, order[l])
  <2>1. Chained(links, l, <<>>)
    BY <1>6, <1>8, EmptyChained DEF Neighbours
  <2> QED BY <2>1, <1>9
<1>12. \A n \in Node : Unlinked(links, n)
  BY <1>7, <1>8 DEF Unlinked
<1> QED BY <1>8, <1>9, <1>10, <1>11, <1>12 DEF Linked

\* Every call keeps the pointers those of the sequences.
LEMMA LinkStep == LinkInv /\ [LinkNext]_linkVars => LinkInv'
<1> SUFFICES ASSUME Linked(links, order), [LinkNext]_linkVars PROVE Linked(links', order')
  BY DEF LinkInv
<1>1. links \in Links /\ order \in [AList -> Seq(Node)]
  BY DEF Linked
<1>2. \A n \in Node : n \in Free <=> InNoList(order, n)
  BY <1>1, FreeNodes
<1>3. CASE UNCHANGED linkVars
  BY <1>3 DEF linkVars
<1>4. ASSUME NEW l \in AList, NEW n \in Node, PushesBack(l, n) PROVE Linked(links', order')
  <2> DEFINE s == order[l]
             t == Append(s, n)
  <2>1. /\ InNoList(order, n) /\ order' = [order EXCEPT ![l] = t]
        /\ links' = aws_linked_list_push_back(links, l, OfNode(n))
    BY <1>2, <1>4 DEF PushesBack
  <2>2. s \in Seq(Node) /\ Len(s) \in Nat /\ CellAt(l, s, Len(s) + 1) = TailOf(l)
    BY LinkedFacts
  <2>3. links.prev[TailOf(l)] = CellAt(l, s, Len(s))
    <3>1. aws_linked_list_back(links, l) = CellAt(l, s, Len(s))
      BY EndsOfList
    <3> QED BY <3>1 DEF aws_linked_list_back
  <2>4. links' = Join(Join(links, OfNode(n), CellAt(l, s, Len(s) + 1)), CellAt(l, s, Len(s)), OfNode(n))
    BY <2>1, <2>2, <2>3 DEF aws_linked_list_push_back, aws_linked_list_insert_before
  <2>5. Len(s) \in 0 .. Len(s)
    BY <2>2
  <2>6. Between(s, Len(s), n, t)
    <3> HIDE DEF s
    <3> QED BY <2>2, Insertions
  <2> HIDE DEF t
  <2> QED BY <2>1, <2>4, <2>5, <2>6, InsertKeeps
<1>5. ASSUME NEW l \in AList, NEW n \in Node, PushesFront(l, n) PROVE Linked(links', order')
  <2> DEFINE s == order[l]
             t == <<n>> \o s
  <2>1. /\ InNoList(order, n) /\ order' = [order EXCEPT ![l] = t]
        /\ links' = aws_linked_list_push_front(links, l, OfNode(n))
    BY <1>2, <1>5 DEF PushesFront
  <2>2. s \in Seq(Node) /\ Len(s) \in Nat /\ 1 \in 0 .. Len(s) + 1 /\ 1 # 0 /\ 1 - 1 = 0 /\ 0 + 1 = 1
    BY LinkedFacts
  <2>3. aws_linked_list_front(links, l) = CellAt(l, s, 1)
    BY EndsOfList
  <2>4. links.prev[CellAt(l, s, 1)] = CellAt(l, s, 0)
    BY <2>2, PointersAt
  <2>5. links' = Join(Join(links, OfNode(n), CellAt(l, s, 0 + 1)), CellAt(l, s, 0), OfNode(n))
    BY <2>1, <2>2, <2>3, <2>4 DEF aws_linked_list_push_front, aws_linked_list_insert_before
  <2>6. 0 \in 0 .. Len(s) /\ Between(s, 0, n, t)
    BY <2>2, Insertions
  <2> HIDE DEF t
  <2> QED BY <2>1, <2>5, <2>6, InsertKeeps
<1>6. ASSUME NEW l \in AList, NEW n \in Node, NEW i \in DOMAIN order[l], InsertsAfter(l, i, n) PROVE Linked(links', order')
  <2> DEFINE s == order[l]
             t == InsertAt(s, i + 1, n)
  <2>1. /\ InNoList(order, n) /\ order' = [order EXCEPT ![l] = t]
        /\ links' = aws_linked_list_insert_after(links, OfNode(s[i]), OfNode(n))
    BY <1>2, <1>6 DEF InsertsAfter
  <2>2. s \in Seq(Node) /\ Len(s) \in Nat /\ DOMAIN s = 1 .. Len(s) /\ \A k \in 1 .. Len(s) : CellAt(l, s, k) = OfNode(s[k])
    BY LinkedFacts
  <2>3. i \in 1 .. Len(s) /\ i \in 0 .. Len(s) /\ i \in 0 .. Len(s) + 1 /\ i # Len(s) + 1
    BY <2>2
  <2>4. OfNode(s[i]) = CellAt(l, s, i) /\ links.next[CellAt(l, s, i)] = CellAt(l, s, i + 1)
    BY <2>2, <2>3, PointersAt
  <2>5. links' = Join(Join(links, OfNode(n), CellAt(l, s, i + 1)), CellAt(l, s, i), OfNode(n))
    BY <2>1, <2>4 DEF aws_linked_list_insert_after
  <2>6. Between(s, i, n, t)
    BY <2>2, <2>3, Insertions
  <2> HIDE DEF t
  <2> QED BY <2>1, <2>3, <2>5, <2>6, InsertKeeps
<1>7. ASSUME NEW l \in AList, NEW i \in DOMAIN order[l], Removes(l, i) PROVE Linked(links', order')
  <2> DEFINE s == order[l]
             t == RemoveAt(s, i)
  <2>1. order' = [order EXCEPT ![l] = t] /\ links' = aws_linked_list_remove(links, OfNode(s[i]))
    BY <1>7 DEF Removes
  <2>2. s \in Seq(Node) /\ i \in 1 .. Len(s)
    BY <1>1
  <2>3. Without(s, i, t)
    BY <2>2, RemoveAtFacts DEF Without
  <2> HIDE DEF t
  <2> QED BY <2>1, <2>2, <2>3, RemoveKeeps
<1>8. ASSUME NEW l \in AList, NEW i \in DOMAIN order[l], NEW m \in AList, NEW k \in DOMAIN order[m], SwapsNodes(l, i, m, k)
      PROVE  Linked(links', order')
  <2>1. PICK a, b : a = order[l][i] /\ b = order[m][k]
    OBVIOUS
  <2>2. /\ links' = aws_linked_list_swap_nodes(links, OfNode(a), OfNode(b))
        /\ order' = [x \in AList |-> Exchanged(order[x], a, b)]
    BY <1>8, <2>1 DEF SwapsNodes, Exchanged
  <2>3. i \in 1 .. Len(order[l]) /\ k \in 1 .. Len(order[m])
    BY <1>1
  <2> QED BY <2>1, <2>2, <2>3, SwapNodesKeeps
<1>9. ASSUME NEW l \in AList, NEW m \in AList \ {l}, SwapsContents(l, m) \/ MovesAllBack(l, m) \/ MovesAllFront(l, m)
      PROVE  Linked(links', order')
  <2>1. CASE SwapsContents(l, m)
    BY <2>1, SwapListsKeeps DEF SwapsContents
  <2>2. CASE MovesAllBack(l, m)
    BY <2>2, MoveBackKeeps DEF MovesAllBack
  <2>3. CASE MovesAllFront(l, m)
    BY <2>3, MoveFrontKeeps DEF MovesAllFront
  <2> QED BY <2>1, <2>2, <2>3, <1>9
<1> QED BY <1>3, <1>4, <1>5, <1>6, <1>7, <1>8, <1>9 DEF LinkNext

\* Whatever calls were made, the pointers of each list lead through the nodes put there, in
\* order and back, and a node that was taken out points nowhere.
THEOREM LinksAreSequencesCorrect == LinkSpec => []LinksAreSequences
<1>1. LinkInv => LinksAreSequences
  BY FreeNodes DEF LinkInv, Linked, LinksAreSequences, Unlinked, Free
<1> QED BY <1>1, LinkInitHolds, LinkStep, PTL DEF LinkSpec

----------------------------------------------------------------------------
(* Byte buffers                                                            *)

\* A buffer over the bytes V with the contents c.
BufHolds(V, b, c) ==
    /\ b \in [buffer : Seq(V), len : Nat, capacity : Nat, allocator : BOOLEAN] /\ c \in Seq(V)
    /\ Len(b.buffer) = b.capacity /\ b.len <= b.capacity /\ Len(c) = b.len
    /\ \A i \in 1 .. b.len : b.buffer[i] = c[i]

\* d are the bytes of s behind the offset ptr.
RangeOf(s, ptr, d) == ptr + Len(d) <= Len(s) /\ \A i \in 1 .. Len(d) : d[i] = s[ptr + i]

\* The cursor k denotes the bytes d, in the caller's array or in the contents c.
Denotes(V, k, c, d) ==
    /\ k \in [in : {"own", "data", "gone"}, ptr : Nat, len : Nat] /\ d \in Seq(V)
    /\ k.in # "gone" => Len(d) = k.len
    /\ k.in = "own" => RangeOf(c, k.ptr, d)
    /\ k.in = "data" => RangeOf(Data, k.ptr, d)

\* The sub-buffer lies in the contents.
Within(o, c) == o \in [ptr : Nat, len : Nat, capacity : Nat] /\ o.ptr + o.capacity <= Len(c)

\* The state of ByteBuf over the bytes V, those nobody has written included.
BufOver(V) ==
    /\ 0 .. ByteBase \subseteq V
    /\ BufHolds(V, buf, contents) /\ Denotes(V, cursor, contents, denotes) /\ Within(output, contents)

\* Calls bring in bytes of their own: of a lookup table, or the digits of an integer.
BufInv == \E V : BufOver(V)

\* t begins with s.
Begins(s, t) == Len(s) <= Len(t) /\ \A i \in 1 .. Len(s) : t[i] = s[i]

----------------------------------------------------------------------------

\* A sequence is a function.
LEMMA ASeq ==
  ASSUME NEW V, NEW s \in Seq(V)
  PROVE  Len(s) \in Nat /\ DOMAIN s = 1 .. Len(s) /\ s \in [1 .. Len(s) -> V] /\ \A i \in 1 .. Len(s) : s[i] \in V
BY LenProperties

\* And a function of that kind a sequence.
LEMMA ASeqToo ==
  ASSUME NEW V, NEW n \in Nat, NEW f \in [1 .. n -> V]
  PROVE  f \in Seq(V) /\ Len(f) = n /\ DOMAIN f = 1 .. n
OBVIOUS

\* The bytes p are those of s from offset a to offset b.
Cut(s, a, b, p) == Len(p) = b - a /\ \A i \in 1 .. b - a : p[i] = s[a + i]

\* A part of a sequence.
LEMMA CutFacts ==
  ASSUME NEW V, NEW s \in Seq(V), NEW a \in Nat, NEW b \in Nat, a <= b, b <= Len(s),
         NEW p, p = SubSeq(s, a + 1, b)
  PROVE  p \in Seq(V) /\ Cut(s, a, b, p)
<1>1. Len(s) \in Nat /\ \A i \in 1 .. Len(s) : s[i] \in V
  BY ASeq
<1>2. a + 1 \in Int /\ b \in Int /\ \A i \in a + 1 .. b : s[i] \in V
  BY <1>1
<1>3. PICK m : m = a + 1
  OBVIOUS
<1>4. /\ SubSeq(s, m, b) \in Seq(V) /\ Len(SubSeq(s, m, b)) = IF m <= b THEN b - m + 1 ELSE 0
      /\ \A i \in 1 .. b - m + 1 : SubSeq(s, m, b)[i] = s[m + i - 1]
  BY <1>2, <1>3, SubSeqProperties
<1>5. p = SubSeq(s, m, b)
  BY <1>3
<1>6. /\ p \in Seq(V) /\ Len(p) = IF m <= b THEN b - m + 1 ELSE 0
      /\ \A i \in 1 .. b - m + 1 : p[i] = s[m + i - 1]
  BY <1>4, <1>5
<1>7. Len(p) = b - a
  BY <1>3, <1>6
<1>8. ASSUME NEW i \in 1 .. b - a PROVE p[i] = s[a + i]
  <2>1. i \in 1 .. b - m + 1 /\ m + i - 1 = a + i
    BY <1>3
  <2> QED BY <2>1, <1>6
<1> QED BY <1>6, <1>7, <1>8 DEF Cut

\* memcpy of bytes into memory.
Copied(mem, at, bytes, e) ==
    /\ Len(e) = Len(mem)
    /\ \A i \in 1 .. Len(mem) : e[i] = IF at < i /\ i <= at + Len(bytes) THEN bytes[i - at] ELSE mem[i]

\* What a copy of bytes into memory leaves there.
LEMMA PutFacts ==
  ASSUME NEW V, NEW mem \in Seq(V), NEW bytes \in Seq(V), NEW at \in Nat, at + Len(bytes) <= Len(mem),
         NEW e, e = Put(mem, at, bytes)
  PROVE  e \in Seq(V) /\ Copied(mem, at, bytes, e)
<1>1. Len(mem) \in Nat /\ DOMAIN mem = 1 .. Len(mem) /\ \A i \in 1 .. Len(mem) : mem[i] \in V
  BY ASeq
<1>2. Len(bytes) \in Nat /\ \A i \in 1 .. Len(bytes) : bytes[i] \in V
  BY ASeq
<1>3. \A i \in 1 .. Len(mem) : i \in at + 1 .. at + Len(bytes) <=> at < i /\ i <= at + Len(bytes)
  BY <1>1, <1>2
<1>4. \A i \in 1 .. Len(mem) : at < i /\ i <= at + Len(bytes) => i - at \in 1 .. Len(bytes)
  BY <1>1, <1>2
<1> DEFINE F(i) == IF at < i /\ i <= at + Len(bytes) THEN bytes[i - at] ELSE mem[i]
<1>5. e = [i \in 1 .. Len(mem) |-> F(i)]
  BY <1>1, <1>3 DEF Put
<1>6. \A i \in 1 .. Len(mem) : F(i) \in V
  BY <1>1, <1>2, <1>4
<1> HIDE DEF F
<1>7. e \in [1 .. Len(mem) -> V] /\ \A i \in 1 .. Len(mem) : e[i] = F(i)
  BY <1>5, <1>6
<1>8. e \in Seq(V) /\ Len(e) = Len(mem)
  BY <1>1, <1>7, ASeqToo
<1> QED BY <1>7, <1>8 DEF Copied, F

\* A block just allocated.
LEMMA BlockFacts ==
  ASSUME NEW V, ByteBase \in V, NEW n \in Nat
  PROVE  Block(n) \in Seq(V) /\ Len(Block(n)) = n
<1>1. Block(n) \in [1 .. n -> V]
  BY DEF Block, Junk
<1> QED BY <1>1, ASeqToo

\* One sequence behind another.
Concats(s, t, u) ==
    /\ Len(u) = Len(s) + Len(t)
    /\ \A i \in 1 .. Len(s) + Len(t) : u[i] = IF i <= Len(s) THEN s[i] ELSE t[i - Len(s)]

\* Concatenation, byte by byte.
LEMMA ConcatsFacts ==
  ASSUME NEW V, NEW s \in Seq(V), NEW t \in Seq(V), NEW u, u = s \o t
  PROVE  u \in Seq(V) /\ Concats(s, t, u)
BY ConcatProperties DEF Concats

\* What a usable cursor reads is what it denotes.
LEMMA CursorReads ==
  ASSUME ByteConstants, NEW V, BufOver(V), Usable(cursor)
  PROVE  Reads(cursor) = denotes /\ denotes \in Seq(V) /\ Len(denotes) = cursor.len /\ cursor.len \in Nat
<1> DEFINE k == cursor
           d == denotes
<1>1. /\ k \in [in : {"own", "data", "gone"}, ptr : Nat, len : Nat] /\ d \in Seq(V)
      /\ k.in # "gone" => Len(d) = k.len
      /\ k.in = "own" => RangeOf(contents, k.ptr, d)
      /\ k.in = "data" => RangeOf(Data, k.ptr, d)
  BY DEF BufOver, Denotes
<1>2. k.ptr \in Nat /\ k.len \in Nat /\ k.in \in {"own", "data"} /\ Len(d) = k.len
  BY <1>1 DEF Usable
<1>3. ASSUME NEW s \in Seq(V), RangeOf(s, k.ptr, d) PROVE SubSeq(s, k.ptr + 1, k.ptr + k.len) = d
  <2>1. PICK a, b, p : a = k.ptr /\ b = k.ptr + k.len /\ p = SubSeq(s, a + 1, b)
    OBVIOUS
  <2> HIDE DEF k, d
  <2>2. a \in Nat /\ b \in Nat /\ a <= b /\ b <= Len(s) /\ b - a = Len(d)
    BY <2>1, <1>2, <1>3 DEF RangeOf
  <2>3. p \in Seq(V) /\ Cut(s, a, b, p)
    BY <2>1, <2>2, CutFacts
  <2>4. Len(p) = Len(d) /\ \A i \in 1 .. Len(p) : p[i] = d[i]
    BY <2>1, <2>2, <2>3, <1>3, ZenonT(60) DEF Cut, RangeOf
  <2>5. p = d
    BY <2>3, <2>4, <1>1, SeqEqual
  <2> QED BY <2>1, <2>5
<1>4. CASE k.in = "data"
  <2>1. Data \in Seq(V)
    <3>1. 0 .. ByteBase - 1 \subseteq V
      BY DEF BufOver, ByteConstants
    <3> QED BY <3>1, SeqMonotonic DEF ByteConstants
  <2>2. SubSeq(Data, k.ptr + 1, k.ptr + k.len) = d
    BY <1>1, <1>3, <1>4, <2>1
  <2> QED BY <1>1, <1>2, <1>4, <2>2 DEF Reads
<1>5. CASE k.in = "own"
  <2>1. /\ buf.buffer \in Seq(V) /\ contents \in Seq(V) /\ buf.len \in Nat /\ Len(buf.buffer) = buf.capacity
        /\ buf.len <= buf.capacity /\ Len(contents) = buf.len /\ buf.capacity \in Nat
        /\ \A i \in 1 .. buf.len : buf.buffer[i] = contents[i]
    BY DEF BufOver, BufHolds
  <2>2. RangeOf(contents, k.ptr, d)
    BY <1>1, <1>5
  <2>3. RangeOf(buf.buffer, k.ptr, d)
    <3> HIDE DEF k, d
    <3>1. k.ptr + Len(d) <= Len(buf.buffer)
      BY <2>1, <2>2, <1>2 DEF RangeOf
    <3>2. ASSUME NEW i \in 1 .. Len(d) PROVE d[i] = buf.buffer[k.ptr + i]
      <4>1. k.ptr + i \in 1 .. buf.len
        BY <2>1, <2>2, <1>2 DEF RangeOf
      <4> QED BY <4>1, <2>1, <2>2 DEF RangeOf
    <3> QED BY <3>1, <3>2 DEF RangeOf
  <2>4. SubSeq(buf.buffer, k.ptr + 1, k.ptr + k.len) = d
    BY <1>3, <2>1, <2>3
  <2> QED BY <1>1, <1>2, <1>5, <2>4 DEF Reads
<1> QED BY <1>2, <1>4, <1>5

\* The three fields that calls change.
LEMMA BufFields ==
  ASSUME NEW V, NEW b \in [buffer : Seq(V), len : Nat, capacity : Nat, allocator : BOOLEAN],
         NEW m \in Seq(V), NEW n \in Nat, NEW cap \in Nat,
         NEW b2, b2 = [b EXCEPT !.buffer = m, !.len = n, !.capacity = cap]
  PROVE  /\ b2 \in [buffer : Seq(V), len : Nat, capacity : Nat, allocator : BOOLEAN]
         /\ b2.buffer = m /\ b2.len = n /\ b2.capacity = cap
<1>1. b = [buffer |-> b.buffer, len |-> b.len, capacity |-> b.capacity, allocator |-> b.allocator] /\ b.allocator \in BOOLEAN
  OBVIOUS
<1>2. b2 = [buffer |-> m, len |-> n, capacity |-> cap, allocator |-> b.allocator]
  BY <1>1
<1> QED BY ONLY <1>1, <1>2, m \in Seq(V), n \in Nat, cap \in Nat

\* Bytes written behind the contents, in memory that has room for them.
LEMMA AppendedHolds ==
  ASSUME NEW V, NEW b, NEW c, BufHolds(V, b, c), NEW bytes \in Seq(V), b.len + Len(bytes) <= b.capacity,
         NEW b2, b2 = [b EXCEPT !.buffer = Put(@, b.len, bytes), !.len = @ + Len(bytes)],
         NEW c2, c2 = c \o bytes
  PROVE  BufHolds(V, b2, c2) /\ Begins(c, c2)
<1>1. /\ b \in [buffer : Seq(V), len : Nat, capacity : Nat, allocator : BOOLEAN] /\ c \in Seq(V)
      /\ b.buffer \in Seq(V) /\ b.len \in Nat /\ b.capacity \in Nat
      /\ Len(b.buffer) = b.capacity /\ b.len <= b.capacity /\ Len(c) = b.len
      /\ \A i \in 1 .. b.len : b.buffer[i] = c[i]
  BY DEF BufHolds
<1>2. Len(bytes) \in Nat
  OBVIOUS
<1>3. PICK m : m = Put(b.buffer, b.len, bytes)
  OBVIOUS
<1>4. m \in Seq(V) /\ Copied(b.buffer, b.len, bytes, m)
  BY <1>1, <1>3, PutFacts
<1>5. c2 \in Seq(V) /\ Concats(c, bytes, c2)
  BY <1>1, ConcatsFacts
<1>6. b2 = [b EXCEPT !.buffer = m, !.len = b.len + Len(bytes)]
  BY ONLY <1>3, b2 = [b EXCEPT !.buffer = Put(@, b.len, bytes), !.len = @ + Len(bytes)]
<1>7. /\ b2 \in [buffer : Seq(V), len : Nat, capacity : Nat, allocator : BOOLEAN]
      /\ b2.buffer = m /\ b2.len = b.len + Len(bytes) /\ b2.capacity = b.capacity
  <2>1. PICK n : n = b.len + Len(bytes)
    OBVIOUS
  <2>2. b = [buffer |-> b.buffer, len |-> b.len, capacity |-> b.capacity, allocator |-> b.allocator]
    BY <1>1
  <2>3. b2 = [b EXCEPT !.buffer = m, !.len = n, !.capacity = b.capacity]
    BY ONLY <2>1, <2>2, <1>6
  <2>4. n \in Nat
    BY <2>1, <1>1, <1>2
  <2> QED BY ONLY <2>1, <2>3, <2>4, <1>1, <1>4, BufFields
<1>8. Len(c2) = b2.len /\ Len(b2.buffer) = b2.capacity /\ b2.len <= b2.capacity
  BY <1>1, <1>4, <1>5, <1>7 DEF Copied, Concats
<1>9. ASSUME NEW i \in 1 .. b2.len PROVE b2.buffer[i] = c2[i]
  <2>1. i \in 1 .. Len(c) + Len(bytes) /\ i \in 1 .. Len(b.buffer)
    BY <1>1, <1>2, <1>7
  <2>2. m[i] = IF b.len < i /\ i <= b.len + Len(bytes) THEN bytes[i - b.len] ELSE b.buffer[i]
    BY <2>1, <1>4 DEF Copied
  <2>3. c2[i] = IF i <= Len(c) THEN c[i] ELSE bytes[i - Len(c)]
    BY <2>1, <1>5 DEF Concats
  <2> QED BY <2>1, <2>2, <2>3, <1>1, <1>2, <1>7
<1>10. Begins(c, c2)
  BY <1>1, <1>2, <1>5 DEF Begins, Concats
<1> QED BY <1>5, <1>7, <1>8, <1>9, <1>10 DEF BufHolds

\* A cursor denotes the same bytes when more are appended, and the sub-buffer is still inside.
LEMMA StillDenotes ==
  ASSUME NEW V, NEW k, NEW c \in Seq(V), NEW c2 \in Seq(V), NEW d, Denotes(V, k, c, d), Begins(c, c2)
  PROVE  Denotes(V, k, c2, d)
<1>1. Len(c) \in Nat /\ Len(c2) \in Nat
  OBVIOUS
<1>2. k.ptr \in Nat /\ d \in Seq(V) /\ Len(d) \in Nat
  BY DEF Denotes
<1>3. ASSUME RangeOf(c, k.ptr, d) PROVE RangeOf(c2, k.ptr, d)
  <2>1. k.ptr + Len(d) <= Len(c2)
    BY <1>1, <1>2, <1>3 DEF RangeOf, Begins
  <2>2. ASSUME NEW i \in 1 .. Len(d) PROVE d[i] = c2[k.ptr + i]
    <3>1. k.ptr + i \in 1 .. Len(c)
      BY <1>1, <1>2, <1>3 DEF RangeOf
    <3> QED BY <3>1, <1>3 DEF RangeOf, Begins
  <2> QED BY <2>1, <2>2 DEF RangeOf
<1> QED BY <1>3 DEF Denotes

\* So is the sub-buffer inside.
LEMMA StillWithin ==
  ASSUME NEW V, NEW o, NEW c \in Seq(V), NEW c2 \in Seq(V), Within(o, c), Len(c) <= Len(c2)
  PROVE  Within(o, c2)
<1>1. Len(c) \in Nat /\ Len(c2) \in Nat
  OBVIOUS
<1>2. o.ptr \in Nat /\ o.capacity \in Nat
  BY DEF Within
<1> QED BY <1>1, <1>2 DEF Within

\* A larger set of bytes.
LEMMA Wider ==
  ASSUME NEW V, NEW W, V \subseteq W, BufOver(V)
  PROVE  BufOver(W)
<1>1. \A s \in Seq(V) : s \in Seq(W)
  BY SeqMonotonic
<1>2. /\ buf \in [buffer : Seq(V), len : Nat, capacity : Nat, allocator : BOOLEAN] /\ contents \in Seq(V) /\ denotes \in Seq(V)
  BY DEF BufOver, BufHolds, Denotes
<1>3. buf \in [buffer : Seq(W), len : Nat, capacity : Nat, allocator : BOOLEAN]
  <2>1. buf = [buffer |-> buf.buffer, len |-> buf.len, capacity |-> buf.capacity, allocator |-> buf.allocator]
        /\ buf.buffer \in Seq(V) /\ buf.len \in Nat /\ buf.capacity \in Nat /\ buf.allocator \in BOOLEAN
    BY <1>2
  <2>2. buf.buffer \in Seq(W)
    BY <2>1, <1>1
  <2> QED BY ONLY <2>1, <2>2
<1>4. contents \in Seq(W) /\ denotes \in Seq(W)
  BY <1>1, <1>2
<1>5. BufHolds(W, buf, contents)
  BY <1>3, <1>4 DEF BufOver, BufHolds
<1>6. Denotes(W, cursor, contents, denotes)
  BY <1>4 DEF BufOver, Denotes
<1> QED BY <1>5, <1>6 DEF BufOver

\* The state, taken apart.
LEMMA BufState ==
  ASSUME NEW V, BufOver(V)
  PROVE  /\ buf \in [buffer : Seq(V), len : Nat, capacity : Nat, allocator : BOOLEAN] /\ contents \in Seq(V)
         /\ buf.buffer \in Seq(V) /\ buf.len \in Nat /\ buf.capacity \in Nat
         /\ Len(buf.buffer) = buf.capacity /\ buf.len <= buf.capacity /\ Len(contents) = buf.len
         /\ \A i \in 1 .. buf.len : buf.buffer[i] = contents[i]
         /\ cursor \in [in : {"own", "data", "gone"}, ptr : Nat, len : Nat]
         /\ cursor.ptr \in Nat /\ cursor.len \in Nat /\ denotes \in Seq(V)
         /\ output \in [ptr : Nat, len : Nat, capacity : Nat]
         /\ output.ptr \in Nat /\ output.len \in Nat /\ output.capacity \in Nat
         /\ output.ptr + output.capacity <= buf.len
         /\ 0 .. ByteBase \subseteq V
         /\ BufHolds(V, buf, contents) /\ Denotes(V, cursor, contents, denotes) /\ Within(output, contents)
<1>1. BufHolds(V, buf, contents) /\ Denotes(V, cursor, contents, denotes) /\ Within(output, contents) /\ 0 .. ByteBase \subseteq V
  BY DEF BufOver
<1>2. /\ buf \in [buffer : Seq(V), len : Nat, capacity : Nat, allocator : BOOLEAN] /\ contents \in Seq(V)
      /\ buf.buffer \in Seq(V) /\ buf.len \in Nat /\ buf.capacity \in Nat
      /\ Len(buf.buffer) = buf.capacity /\ buf.len <= buf.capacity /\ Len(contents) = buf.len
      /\ \A i \in 1 .. buf.len : buf.buffer[i] = contents[i]
  BY <1>1 DEF BufHolds
<1>3. cursor \in [in : {"own", "data", "gone"}, ptr : Nat, len : Nat] /\ cursor.ptr \in Nat /\ cursor.len \in Nat /\ denotes \in Seq(V)
  BY <1>1 DEF Denotes
<1>4. /\ output \in [ptr : Nat, len : Nat, capacity : Nat]
      /\ output.ptr \in Nat /\ output.len \in Nat /\ output.capacity \in Nat
      /\ output.ptr + output.capacity <= buf.len
  BY <1>1, <1>2 DEF Within
<1> QED BY ONLY <1>1, <1>2, <1>3, <1>4

\* A call that fails.
LEMMA BufFailsKeeps ==
  ASSUME NEW V, BufOver(V), Fails
  PROVE  BufOver(V)'
BY DEF BufOver, Fails, BufHolds, Denotes, Within

\* A call that appends bytes for which there is room, and leaves cursor and sub-buffer alone.
LEMMA AppendsKeeps ==
  ASSUME NEW V, BufOver(V), NEW bytes \in Seq(V), buf.len + Len(bytes) <= buf.capacity,
         Appends(bytes, bytes), Kept
  PROVE  BufOver(V)'
<1>1. BufHolds(V, buf', contents') /\ Begins(contents, contents')
  BY BufState, AppendedHolds DEF Appends
<1>2. contents \in Seq(V) /\ contents' \in Seq(V) /\ cursor' = cursor /\ output' = output /\ denotes' = denotes
  BY <1>1, BufState DEF BufHolds, Kept
<1>3. Denotes(V, cursor, contents', denotes)
  BY <1>1, <1>2, BufState, StillDenotes
<1>4. Within(output, contents')
  BY <1>1, <1>2, BufState, StillWithin DEF Begins
<1>5. 0 .. ByteBase \subseteq V
  BY BufState
<1> QED BY ONLY <1>1, <1>2, <1>3, <1>4, <1>5 DEF BufOver

\* A call that replaces the block, or empties the buffer.
LEMMA DanglesKeeps ==
  ASSUME NEW V, BufOver(V), BufHolds(V, buf', contents'), Dangles
  PROVE  BufOver(V)'
<1>1. contents' \in Seq(V) /\ Len(contents') \in Nat
  BY DEF BufHolds
<1>2. Within(output', contents')
  BY <1>1 DEF Dangles, Within, NoOutput
<1>3. Denotes(V, cursor', contents', denotes')
  <2>1. CASE cursor.in = "own"
    <3>1. cursor' = Gone /\ denotes' = <<>>
      BY <2>1 DEF Dangles
    <3>2. cursor'.in = "gone" /\ cursor' \in [in : {"own", "data", "gone"}, ptr : Nat, len : Nat] /\ denotes' \in Seq(V)
      BY <3>1 DEF Gone
    <3> QED BY <3>2 DEF Denotes
  <2>2. CASE cursor.in # "own"
    <3>1. cursor' = cursor /\ denotes' = denotes
      BY <2>2 DEF Dangles
    <3> QED BY <2>2, <3>1, BufState DEF Denotes
  <2> QED BY <2>1, <2>2
<1>4. 0 .. ByteBase \subseteq V
  BY BufState
<1> QED BY ONLY <1>2, <1>3, <1>4, BufHolds(V, buf', contents') DEF BufOver

\* A buffer put together from its fields.
LEMMA BufMade ==
  ASSUME NEW V, NEW m \in Seq(V), NEW len \in Nat, NEW cap \in Nat, NEW al \in BOOLEAN, NEW c \in Seq(V),
         Len(m) = cap, len <= cap, Len(c) = len, \A i \in 1 .. len : m[i] = c[i],
         NEW b, b = [buffer |-> m, len |-> len, capacity |-> cap, allocator |-> al]
  PROVE  BufHolds(V, b, c)
<1>1. b.buffer = m /\ b.len = len /\ b.capacity = cap
  BY ONLY b = [buffer |-> m, len |-> len, capacity |-> cap, allocator |-> al]
<1>2. b \in [buffer : Seq(V), len : Nat, capacity : Nat, allocator : BOOLEAN]
  BY ONLY b = [buffer |-> m, len |-> len, capacity |-> cap, allocator |-> al],
          m \in Seq(V), len \in Nat, cap \in Nat, al \in BOOLEAN
<1> QED BY <1>1, <1>2 DEF BufHolds

\* A call that replaces contents by contents that begin alike, without touching the cursor.
LEMMA GrownKeeps ==
  ASSUME NEW V, BufOver(V), BufHolds(V, buf', contents'), Begins(contents, contents'), Kept
  PROVE  BufOver(V)'
<1>2. contents \in Seq(V) /\ contents' \in Seq(V) /\ cursor' = cursor /\ output' = output /\ denotes' = denotes
  BY BufState DEF BufHolds, Kept
<1>3. Denotes(V, cursor, contents', denotes)
  BY <1>2, BufState, StillDenotes
<1>4. Within(output, contents')
  BY <1>2, BufState, StillWithin DEF Begins
<1>5. 0 .. ByteBase \subseteq V
  BY BufState
<1> QED BY ONLY <1>2, <1>3, <1>4, <1>5, BufHolds(V, buf', contents') DEF BufOver

\* aws_byte_buf_init.
LEMMA BufInitKeeps ==
  ASSUME ByteConstants, NEW V, BufOver(V), NEW n \in Nat, aws_byte_buf_init(n)
  PROVE  BufOver(V)'
<1>1. contents \in Seq(V) /\ Len(contents) = 0 /\ Len(contents) \in Nat
  BY BufState DEF aws_byte_buf_init
<1>2. ByteBase \in V
  BY BufState DEF ByteConstants
<1>3. PICK m : m = Block(n)
  OBVIOUS
<1>5. m \in Seq(V) /\ Len(m) = n
  BY <1>2, <1>3, BlockFacts
<1>4. buf' = [buffer |-> m, len |-> 0, capacity |-> n, allocator |-> TRUE] /\ contents' = contents
  BY <1>3, <1>5 DEF aws_byte_buf_init, NewBuffer
<1>6. BufHolds(V, buf', contents')
  <2>1. (\A i \in 1 .. 0 : m[i] = contents'[i]) /\ 0 <= n /\ 0 \in Nat /\ TRUE \in BOOLEAN
    OBVIOUS
  <2>2. contents' \in Seq(V) /\ Len(contents') = 0
    BY <1>1, <1>4
  <2> QED BY <1>4, <1>5, <2>1, <2>2, BufMade
<1>7. Begins(contents, contents')
  BY <1>1, <1>4 DEF Begins
<1> QED BY <1>6, <1>7, GrownKeeps DEF aws_byte_buf_init, Kept

\* aws_byte_buf_init_copy_from_cursor.
LEMMA BufInitCopyKeeps ==
  ASSUME ByteConstants, NEW V, BufOver(V), aws_byte_buf_init_copy_from_cursor
  PROVE  BufOver(V)'
<1>1. contents \in Seq(V) /\ Len(contents) = 0
  BY BufState DEF aws_byte_buf_init_copy_from_cursor
<1>2. Reads(cursor) = denotes /\ denotes \in Seq(V) /\ Len(denotes) = cursor.len /\ cursor.len \in Nat
  BY CursorReads DEF aws_byte_buf_init_copy_from_cursor
<1>3. /\ buf' = [buffer |-> denotes, len |-> cursor.len, capacity |-> cursor.len, allocator |-> TRUE]
      /\ contents' = denotes
  BY <1>2 DEF aws_byte_buf_init_copy_from_cursor, NewBuffer
<1>4. BufHolds(V, buf', contents')
  <2>1. cursor.len <= cursor.len /\ TRUE \in BOOLEAN
    BY <1>2
  <2> QED BY <1>2, <1>3, <2>1, BufMade
<1>5. Begins(contents, contents')
  BY <1>1, <1>2, <1>3 DEF Begins
<1> QED BY <1>4, <1>5, GrownKeeps DEF aws_byte_buf_init_copy_from_cursor, Kept

\* The first n bytes of the caller's array.
LEMMA DataPrefix ==
  ASSUME ByteConstants, NEW V, BufOver(V), NEW n \in 0 .. Len(Data)
  PROVE  /\ SubSeq(Data, 1, n) \in Seq(V) /\ Len(SubSeq(Data, 1, n)) = n
         /\ RangeOf(Data, 0, SubSeq(Data, 1, n))
<1>1. Data \in Seq(V)
  <2>1. 0 .. ByteBase - 1 \subseteq V
    BY BufState DEF ByteConstants
  <2> QED BY <2>1, SeqMonotonic DEF ByteConstants
<1>2. PICK p : p = SubSeq(Data, 1, n)
  OBVIOUS
<1>3. p \in Seq(V) /\ Cut(Data, 0, n, p)
  <2>1. n \in Nat /\ 0 \in Nat /\ 0 <= n /\ n <= Len(Data) /\ 0 + 1 = 1
    BY <1>1
  <2>2. p = SubSeq(Data, 0 + 1, n)
    BY <1>2, <2>1
  <2> QED BY <1>1, <2>1, <2>2, CutFacts
<1>4. Len(p) = n /\ \A i \in 1 .. n : p[i] = Data[0 + i]
  BY <1>3 DEF Cut
<1>5. RangeOf(Data, 0, p)
  BY <1>1, <1>4 DEF RangeOf
<1> QED BY <1>2, <1>3, <1>4, <1>5

\* aws_byte_buf_init_cache_and_update_cursors.
LEMMA InitCacheKeeps ==
  ASSUME ByteConstants, NEW V, BufOver(V), NEW n \in 0 .. Len(Data),
         aws_byte_buf_init_cache_and_update_cursors(n)
  PROVE  BufOver(V)'
<1>2. Reads(cursor) = denotes /\ denotes \in Seq(V) /\ Len(denotes) = cursor.len /\ cursor.len \in Nat
  BY CursorReads DEF aws_byte_buf_init_cache_and_update_cursors
<1>3. PICK p, u, tot : p = SubSeq(Data, 1, n) /\ u = p \o denotes /\ tot = n + cursor.len
  OBVIOUS
<1>4. p \in Seq(V) /\ Len(p) = n /\ n \in Nat
  BY <1>3, DataPrefix
<1>5. u \in Seq(V) /\ Concats(p, denotes, u)
  BY <1>2, <1>3, <1>4, ConcatsFacts
<1>6. Len(u) = tot /\ tot \in Nat
  BY <1>2, <1>3, <1>4, <1>5 DEF Concats
<1>7. /\ buf' = [buffer |-> u, len |-> tot, capacity |-> tot, allocator |-> TRUE]
      /\ contents' = u /\ output' = output /\ denotes' = denotes
      /\ cursor' = [in |-> "own", ptr |-> tot - cursor.len, len |-> cursor.len]
  BY <1>2, <1>3, <1>6 DEF aws_byte_buf_init_cache_and_update_cursors, NewBuffer
<1>8. BufHolds(V, buf', contents')
  <2>1. tot <= tot /\ TRUE \in BOOLEAN
    BY <1>6
  <2> QED BY <1>5, <1>6, <1>7, <2>1, BufMade
<1>9. tot - cursor.len = n
  BY <1>2, <1>3, <1>4
<1>10. RangeOf(contents', n, denotes)
  <2>1. n + Len(denotes) <= Len(u)
    BY <1>2, <1>3, <1>4, <1>6
  <2>2. ASSUME NEW i \in 1 .. Len(denotes) PROVE denotes[i] = u[n + i]
    <3>1. n + i \in 1 .. Len(p) + Len(denotes) /\ ~(n + i <= Len(p)) /\ n + i - Len(p) = i
      BY <1>2, <1>4
    <3> QED BY <3>1, <1>5 DEF Concats
  <2> QED BY <2>1, <2>2, <1>7 DEF RangeOf
<1>11. Denotes(V, cursor', contents', denotes')
  <2>1. cursor' = [in |-> "own", ptr |-> n, len |-> cursor.len] /\ denotes' = denotes
    BY <1>7, <1>9
  <2>2. cursor' \in [in : {"own", "data", "gone"}, ptr : Nat, len : Nat] /\ cursor'.in = "own" /\ cursor'.ptr = n /\ cursor'.len = cursor.len
    BY ONLY <2>1, <1>2, <1>4
  <2> QED BY <2>1, <2>2, <1>2, <1>10 DEF Denotes
<1>12. Within(output', contents')
  <2>1. output \in [ptr : Nat, len : Nat, capacity : Nat] /\ output.ptr + output.capacity <= 0 /\ output.ptr \in Nat /\ output.capacity \in Nat
    BY BufState DEF aws_byte_buf_init_cache_and_update_cursors
  <2> QED BY <2>1, <1>6, <1>7 DEF Within
<1>13. 0 .. ByteBase \subseteq V
  BY BufState
<1> QED BY ONLY <1>8, <1>11, <1>12, <1>13 DEF BufOver

\* aws_byte_buf_reserve.
LEMMA ReserveKeeps ==
  ASSUME ByteConstants, NEW V, BufOver(V), NEW n \in Nat, aws_byte_buf_reserve(n)
  PROVE  BufOver(V)'
<1>1. CASE ~buf.allocator \/ n <= buf.capacity
  BY <1>1, BufFailsKeeps DEF aws_byte_buf_reserve
<1>2. CASE ~(~buf.allocator \/ n <= buf.capacity)
  <2>1. PICK k, m : k = Block(n) /\ m = Put(k, 0, buf.buffer)
    OBVIOUS
  <2>2. /\ buf' = [buf EXCEPT !.buffer = m, !.capacity = n] /\ Dangles /\ contents' = contents
    BY <1>2, <2>1 DEF aws_byte_buf_reserve
  <2>3. ByteBase \in V
    BY BufState DEF ByteConstants
  <2>4. k \in Seq(V) /\ Len(k) = n
    BY <2>1, <2>3, BlockFacts
  <2>5. /\ buf.buffer \in Seq(V) /\ Len(buf.buffer) = buf.capacity /\ buf.capacity \in Nat /\ buf.len \in Nat
        /\ buf.len <= buf.capacity /\ contents \in Seq(V) /\ Len(contents) = buf.len /\ \A i \in 1 .. buf.len : buf.buffer[i] = contents[i]
    BY BufState
  <2>6. m \in Seq(V) /\ Copied(k, 0, buf.buffer, m)
    <3>1. 0 \in Nat /\ 0 + Len(buf.buffer) <= Len(k)
      BY <1>2, <2>4, <2>5
    <3> QED BY <2>1, <2>4, <2>5, <3>1, PutFacts
  <2>7. buf' = [buffer |-> m, len |-> buf.len, capacity |-> n, allocator |-> buf.allocator] /\ buf.allocator \in BOOLEAN
    <3>1. buf = [buffer |-> buf.buffer, len |-> buf.len, capacity |-> buf.capacity, allocator |-> buf.allocator] /\ buf.allocator \in BOOLEAN
      BY BufState
    <3> QED BY ONLY <3>1, <2>2
  <2>8. ASSUME NEW i \in 1 .. buf.len PROVE m[i] = contents[i]
    <3>1. i \in 1 .. Len(k) /\ 0 < i /\ i <= 0 + Len(buf.buffer) /\ i - 0 = i
      BY <1>2, <2>4, <2>5
    <3> QED BY <3>1, <2>5, <2>6 DEF Copied
  <2>9. BufHolds(V, buf', contents')
    <3>1. Len(m) = n /\ buf.len <= n
      BY <1>2, <2>4, <2>5, <2>6 DEF Copied
    <3>2. contents' \in Seq(V) /\ Len(contents') = buf.len /\ \A i \in 1 .. buf.len : m[i] = contents'[i]
      BY <2>2, <2>5, <2>8
    <3> QED BY <3>1, <3>2, <2>5, <2>6, <2>7, BufMade, ZenonT(60)
  <2> QED BY <2>2, <2>9, DanglesKeeps
<1> QED BY <1>1, <1>2

\* aws_byte_buf_reset.
LEMMA BufResetKeeps ==
  ASSUME ByteConstants, NEW V, BufOver(V), NEW zero \in BOOLEAN, aws_byte_buf_reset(zero)
  PROVE  BufOver(V)'
<1>1. PICK m : m = IF zero THEN Zeros(buf.capacity) ELSE buf.buffer
  OBVIOUS
<1>2. buf' = [buf EXCEPT !.len = 0, !.buffer = m] /\ contents' = <<>> /\ Dangles
  BY <1>1 DEF aws_byte_buf_reset
<1>3. buf = [buffer |-> buf.buffer, len |-> buf.len, capacity |-> buf.capacity, allocator |-> buf.allocator] /\ buf.allocator \in BOOLEAN
  BY BufState
<1>4. buf' = [buffer |-> m, len |-> 0, capacity |-> buf.capacity, allocator |-> buf.allocator]
  BY ONLY <1>2, <1>3
<1>5. m \in Seq(V) /\ Len(m) = buf.capacity
  <2>1. 0 \in V /\ buf.capacity \in Nat /\ buf.buffer \in Seq(V) /\ Len(buf.buffer) = buf.capacity
    BY BufState DEF ByteConstants
  <2>2. Zeros(buf.capacity) \in [1 .. buf.capacity -> V]
    BY <2>1 DEF Zeros
  <2>3. Zeros(buf.capacity) \in Seq(V) /\ Len(Zeros(buf.capacity)) = buf.capacity
    BY <2>1, <2>2, ASeqToo
  <2> QED BY <1>1, <2>1, <2>3
<1>6. BufHolds(V, buf', contents')
  <2>1. contents' \in Seq(V) /\ Len(contents') = 0 /\ \A i \in 1 .. 0 : m[i] = contents'[i]
    BY <1>2
  <2>2. buf.capacity \in Nat /\ 0 \in Nat /\ 0 <= buf.capacity
    BY BufState
  <2> QED BY <1>3, <1>4, <1>5, <2>1, <2>2, BufMade
<1> QED BY <1>2, <1>6, DanglesKeeps

\* aws_byte_buf_clean_up.
LEMMA BufCleanUpKeeps ==
  ASSUME NEW V, BufOver(V), NEW secure \in BOOLEAN, aws_byte_buf_clean_up(secure)
  PROVE  BufOver(V)'
<1>1. buf' = [buffer |-> <<>>, len |-> 0, capacity |-> 0, allocator |-> FALSE] /\ contents' = <<>> /\ Dangles
  BY DEF aws_byte_buf_clean_up, NoBuffer
<1>2. <<>> \in Seq(V) /\ Len(<<>>) = 0 /\ 0 <= 0 /\ 0 \in Nat /\ FALSE \in BOOLEAN
  OBVIOUS
<1>3. \A i \in 1 .. 0 : (<<>>)[i] = (<<>>)[i]
  OBVIOUS
<1>4. BufHolds(V, buf', contents')
  BY <1>1, <1>2, <1>3, BufMade
<1> QED BY <1>1, <1>4, DanglesKeeps

\* aws_byte_buf_append.
LEMMA AppendCursorKeeps ==
  ASSUME ByteConstants, NEW V, BufOver(V), aws_byte_buf_append
  PROVE  BufOver(V)'
<1>1. Reads(cursor) = denotes /\ denotes \in Seq(V) /\ Len(denotes) = cursor.len /\ cursor.len \in Nat
  BY CursorReads DEF aws_byte_buf_append
<1>2. CASE Room < cursor.len
  BY <1>2, BufFailsKeeps DEF aws_byte_buf_append
<1>3. CASE ~(Room < cursor.len)
  <2>1. Appends(denotes, denotes) /\ Kept
    BY <1>1, <1>3 DEF aws_byte_buf_append
  <2>2. buf.len + Len(denotes) <= buf.capacity
    BY <1>1, <1>3, BufState DEF Room
  <2> QED BY <1>1, <2>1, <2>2, AppendsKeeps
<1> QED BY <1>2, <1>3

\* aws_byte_buf_cat.
LEMMA CatKeeps ==
  ASSUME ByteConstants, NEW V, BufOver(V), NEW n \in 0 .. Len(Data), aws_byte_buf_cat(n)
  PROVE  BufOver(V)'
<1>1. Reads(cursor) = denotes /\ denotes \in Seq(V) /\ Len(denotes) = cursor.len /\ cursor.len \in Nat
  BY CursorReads DEF aws_byte_buf_cat
<1>2. CASE Room < cursor.len
  BY <1>2, BufFailsKeeps DEF aws_byte_buf_cat
<1>3. CASE ~(Room < cursor.len) /\ Room - cursor.len < n
  <2>1. Appends(denotes, denotes) /\ Kept
    BY <1>1, <1>3 DEF aws_byte_buf_cat
  <2>2. buf.len + Len(denotes) <= buf.capacity
    BY <1>1, <1>3, BufState DEF Room
  <2> QED BY <1>1, <2>1, <2>2, AppendsKeeps
<1>4. CASE ~(Room < cursor.len) /\ ~(Room - cursor.len < n)
  <2>1. PICK p, u : p = SubSeq(Data, 1, n) /\ u = denotes \o p
    OBVIOUS
  <2>2. p \in Seq(V) /\ Len(p) = n /\ n \in Nat
    BY <2>1, DataPrefix
  <2>3. u \in Seq(V) /\ Len(u) = cursor.len + n
    BY <1>1, <2>1, <2>2, ConcatsFacts DEF Concats
  <2>4. Appends(u, u) /\ Kept
    BY <1>1, <1>4, <2>1 DEF aws_byte_buf_cat
  <2>5. buf.len + Len(u) <= buf.capacity
    <3>1. buf.len \in Nat /\ buf.capacity \in Nat /\ ~((buf.capacity - buf.len) - cursor.len < n)
      BY <1>4, BufState DEF Room
    <3>2. cursor.len \in Nat /\ n \in Nat /\ Len(u) = cursor.len + n
      BY <1>1, <2>2, <2>3
    <3> QED BY ONLY <3>1, <3>2
  <2> QED BY <2>3, <2>4, <2>5, AppendsKeeps
<1> QED BY <1>2, <1>3, <1>4

\* aws_byte_buf_append_with_lookup: every byte is replaced by one of the table.
LEMMA AppendLookupKeeps ==
  ASSUME ByteConstants, BufInv, aws_byte_buf_append_with_lookup
  PROVE  BufInv'
<1>0. PICK V : BufOver(V)
  BY DEF BufInv
<1>1. Reads(cursor) = denotes /\ denotes \in Seq(V) /\ Len(denotes) = cursor.len /\ cursor.len \in Nat
  BY <1>0, CursorReads DEF aws_byte_buf_append_with_lookup
<1>2. PICK W : W = V \cup {ByteBase - 1 - denotes[i] : i \in 1 .. Len(denotes)}
  OBVIOUS
<1>3. BufOver(W)
  BY <1>0, <1>2, Wider
<1>4. CASE Room < cursor.len
  <2>1. Fails
    BY <1>4 DEF aws_byte_buf_append_with_lookup
  <2>2. BufOver(W)'
    BY <1>3, <2>1, BufFailsKeeps
  <2> QED BY <2>2 DEF BufInv
<1>5. CASE ~(Room < cursor.len)
  <2>1. PICK t : t = Lookup(denotes)
    OBVIOUS
  <2>2. Appends(t, t) /\ Kept
    BY <1>1, <1>5, <2>1 DEF aws_byte_buf_append_with_lookup
  <2>3. t \in Seq(W) /\ Len(t) = Len(denotes)
    <3>1. DOMAIN denotes = 1 .. Len(denotes) /\ Len(denotes) \in Nat
      BY <1>1
    <3>2. t = [i \in 1 .. Len(denotes) |-> ByteBase - 1 - denotes[i]]
      BY <2>1, <3>1 DEF Lookup
    <3>3. t \in [1 .. Len(denotes) -> W]
      BY <3>2, <1>2
    <3> QED BY <3>1, <3>3, ASeqToo
  <2>4. buf.len + Len(t) <= buf.capacity
    BY <1>1, <1>3, <1>5, <2>3, BufState DEF Room
  <2>5. BufOver(W)'
    BY <1>3, <2>2, <2>3, <2>4, AppendsKeeps
  <2> QED BY <2>5 DEF BufInv
<1> QED BY <1>4, <1>5

\* The bytes just appended lie behind the old contents.
LEMMA AppendedRange ==
  ASSUME NEW V, NEW s \in Seq(V), NEW t \in Seq(V), NEW u, u = s \o t
  PROVE  RangeOf(u, Len(s), t)
<1>0. u \in Seq(V) /\ Concats(s, t, u)
  BY ConcatsFacts
<1>1. Len(s) \in Nat /\ Len(t) \in Nat /\ Concats(s, t, u)
  BY <1>0
<1>2. Len(s) + Len(t) <= Len(u)
  BY <1>1 DEF Concats
<1>3. ASSUME NEW i \in 1 .. Len(t) PROVE t[i] = u[Len(s) + i]
  <2>1. Len(s) + i \in 1 .. Len(s) + Len(t) /\ ~(Len(s) + i <= Len(s)) /\ Len(s) + i - Len(s) = i
    BY <1>1
  <2> QED BY <2>1, <1>1 DEF Concats
<1> QED BY <1>2, <1>3 DEF RangeOf

\* aws_byte_buf_append_and_update: the cursor moves to the copy of its bytes.
LEMMA AppendUpdateKeeps ==
  ASSUME ByteConstants, NEW V, BufOver(V), aws_byte_buf_append_and_update
  PROVE  BufOver(V)'
<1>1. Reads(cursor) = denotes /\ denotes \in Seq(V) /\ Len(denotes) = cursor.len /\ cursor.len \in Nat
  BY CursorReads DEF aws_byte_buf_append_and_update
<1>2. CASE Room < cursor.len
  BY <1>2, BufFailsKeeps DEF aws_byte_buf_append_and_update
<1>3. CASE ~(Room < cursor.len)
  <2>1. /\ Appends(denotes, denotes) /\ output' = output /\ denotes' = denotes
        /\ cursor' = [in |-> "own", ptr |-> buf.len, len |-> cursor.len]
    BY <1>1, <1>3 DEF aws_byte_buf_append_and_update
  <2>2. buf.len + Len(denotes) <= buf.capacity
    BY <1>1, <1>3, BufState DEF Room
  <2>3. BufHolds(V, buf', contents') /\ Begins(contents, contents')
    BY <1>1, <2>1, <2>2, BufState, AppendedHolds DEF Appends
  <2>4. contents \in Seq(V) /\ Len(contents) = buf.len /\ buf.len \in Nat /\ contents' \in Seq(V)
    BY <2>3, BufState DEF BufHolds
  <2>5. RangeOf(contents', buf.len, denotes)
    <3>1. contents' = contents \o denotes
      BY <2>1 DEF Appends
    <3> QED BY <1>1, <2>4, <3>1, AppendedRange
  <2>6. Denotes(V, cursor', contents', denotes')
    <3>1. cursor' \in [in : {"own", "data", "gone"}, ptr : Nat, len : Nat] /\ cursor'.in = "own" /\ cursor'.ptr = buf.len /\ cursor'.len = cursor.len
      BY ONLY <2>1, <1>1, <2>4
    <3> QED BY <3>1, <1>1, <2>1, <2>5 DEF Denotes
  <2>7. Within(output', contents')
    BY <2>1, <2>3, <2>4, BufState, StillWithin DEF Begins
  <2>8. 0 .. ByteBase \subseteq V
    BY BufState
  <2> QED BY ONLY <2>3, <2>6, <2>7, <2>8 DEF BufOver
<1> QED BY <1>2, <1>3

\* The smaller of two numbers.
LEMMA MinOfTwo ==
  ASSUME NEW a \in Int, NEW b \in Int
  PROVE  Min({a, b}) = IF a <= b THEN a ELSE b
<1> DEFINE m == IF a <= b THEN a ELSE b
<1>1. m \in {a, b} /\ \A y \in {a, b} : m <= y
  OBVIOUS
<1>2. \A x \in {a, b} : (\A y \in {a, b} : x <= y) => x = m
  OBVIOUS
<1>3. Min({a, b}) \in {a, b} /\ \A y \in {a, b} : Min({a, b}) <= y
  BY <1>1 DEF Min
<1> QED BY <1>2, <1>3

\* A new block with the old contents, and more bytes behind them.
LEMMA RegrownHolds ==
  ASSUME ByteBase \in Nat, NEW V, ByteBase \in V, NEW c \in Seq(V), NEW bytes \in Seq(V), NEW cap \in Nat,
         Len(c) + Len(bytes) <= cap, NEW al \in BOOLEAN,
         NEW b, b = [buffer |-> Put(Put(Block(cap), 0, c), Len(c), bytes), len |-> Len(c) + Len(bytes),
                     capacity |-> cap, allocator |-> al],
         NEW c2, c2 = c \o bytes
  PROVE  BufHolds(V, b, c2)
<1>1. PICK k, m, e, n : k = Block(cap) /\ m = Put(k, 0, c) /\ e = Put(m, Len(c), bytes) /\ n = Len(c) + Len(bytes)
  OBVIOUS
<1>2. k \in Seq(V) /\ Len(k) = cap
  BY <1>1, BlockFacts
<1>3. Len(c) \in Nat /\ Len(bytes) \in Nat
  OBVIOUS
<1>4. m \in Seq(V) /\ Copied(k, 0, c, m)
  <2>1. 0 \in Nat /\ 0 + Len(c) <= Len(k)
    BY <1>2, <1>3
  <2> QED BY <1>1, <1>2, <2>1, PutFacts
<1>5. Len(m) = cap
  BY <1>2, <1>4 DEF Copied
<1>6. e \in Seq(V) /\ Copied(m, Len(c), bytes, e)
  BY <1>1, <1>3, <1>4, <1>5, PutFacts
<1>7. Len(e) = cap
  BY <1>5, <1>6 DEF Copied
<1>8. c2 \in Seq(V) /\ Concats(c, bytes, c2) /\ Len(c2) = n
  BY <1>1, ConcatsFacts DEF Concats
<1>9. ASSUME NEW i \in 1 .. n PROVE e[i] = c2[i]
  <2>1. i \in 1 .. Len(m) /\ i \in 1 .. Len(k) /\ i \in 1 .. Len(c) + Len(bytes)
    BY <1>1, <1>2, <1>3, <1>5
  <2>2. c2[i] = IF i <= Len(c) THEN c[i] ELSE bytes[i - Len(c)]
    BY <2>1, <1>8 DEF Concats
  <2>3. e[i] = IF Len(c) < i /\ i <= Len(c) + Len(bytes) THEN bytes[i - Len(c)] ELSE m[i]
    BY <2>1, <1>6 DEF Copied
  <2>4. m[i] = IF 0 < i /\ i <= 0 + Len(c) THEN c[i - 0] ELSE k[i]
    BY <2>1, <1>4 DEF Copied
  <2>5. i - 0 = i /\ i \in Nat /\ 0 < i /\ i <= Len(c) + Len(bytes)
    BY <2>1, <1>3
  <2> QED BY <2>2, <2>3, <2>4, <2>5, <1>3
<1>10. b = [buffer |-> e, len |-> n, capacity |-> cap, allocator |-> al]
  BY <1>1
<1>11. n \in Nat /\ n <= cap
  BY <1>1, <1>3
<1> QED BY <1>6, <1>7, <1>8, <1>9, <1>10, <1>11, BufMade, ZenonT(60)

\* s_aws_byte_buf_append_dynamic, whatever the bytes.
LEMMA DynamicKeeps ==
  ASSUME ByteConstants, NEW V, BufOver(V), NEW bytes \in Seq(V), NEW secure,
         s_aws_byte_buf_append_dynamic(bytes, bytes, secure)
  PROVE  BufOver(V)'
<1> DEFINE required == buf.capacity + (Len(bytes) - Room)
           growth == Min({2 * buf.capacity, SizeMax})
           new == Max({required, growth})
           old == SubSeq(buf.buffer, 1, buf.len)
<1>0. /\ Len(bytes) \in Nat /\ buf.len \in Nat /\ buf.capacity \in Nat /\ buf.len <= buf.capacity
      /\ SizeMax \in Nat /\ ByteBase \in Nat /\ ByteBase \in V
  BY BufState DEF ByteConstants
<1>1. CASE ~buf.allocator
  BY <1>1, BufFailsKeeps DEF s_aws_byte_buf_append_dynamic
<1>2. CASE buf.allocator /\ Room >= Len(bytes)
  <2>1. Appends(bytes, bytes) /\ Kept
    BY <1>2 DEF s_aws_byte_buf_append_dynamic
  <2>2. buf.len + Len(bytes) <= buf.capacity
    BY <1>0, <1>2 DEF Room
  <2> QED BY <2>1, <2>2, AppendsKeeps
<1>3. CASE buf.allocator /\ ~(Room >= Len(bytes)) /\ required > SizeMax
  BY <1>3, BufFailsKeeps DEF s_aws_byte_buf_append_dynamic
<1>4. CASE buf.allocator /\ ~(Room >= Len(bytes)) /\ ~(required > SizeMax)
  <2>1. /\ buf' = [buf EXCEPT !.buffer = Put(Put(Block(new), 0, old), buf.len, bytes),
                              !.len = @ + Len(bytes), !.capacity = new]
        /\ contents' = contents \o bytes /\ Dangles
    BY <1>4 DEF s_aws_byte_buf_append_dynamic
  <2>2. old = contents /\ Len(contents) = buf.len /\ contents \in Seq(V)
    <3>1. PICK p : p = SubSeq(buf.buffer, 0 + 1, buf.len)
      OBVIOUS
    <3>2. buf.buffer \in Seq(V) /\ Len(buf.buffer) = buf.capacity /\ contents \in Seq(V) /\ Len(contents) = buf.len /\ \A i \in 1 .. buf.len : buf.buffer[i] = contents[i]
      BY BufState
    <3>3. p \in Seq(V) /\ Cut(buf.buffer, 0, buf.len, p)
      <4>1. 0 \in Nat /\ 0 <= buf.len /\ buf.len <= Len(buf.buffer)
        BY <1>0, <3>2
      <4> QED BY <1>0, <3>1, <3>2, <4>1, CutFacts
    <3>4. Len(p) = Len(contents) /\ \A i \in 1 .. Len(p) : p[i] = contents[i]
      BY <1>0, <3>2, <3>3 DEF Cut
    <3>5. p = contents
      BY <3>2, <3>3, <3>4, SeqEqual
    <3> QED BY <3>1, <3>2, <3>5
  <2>3. growth \in Int
    <3>1. 2 * buf.capacity \in Int /\ SizeMax \in Int
      BY <1>0
    <3> QED BY <3>1, MinOfTwo
  <2>4. required \in Int /\ required = buf.len + Len(bytes)
    BY <1>0 DEF Room
  <2> HIDE DEF required, growth, old
  <2>5. new = IF required >= growth THEN required ELSE growth
    BY <2>3, <2>4, MaxOfTwo
  <2>6. new \in Nat /\ buf.len + Len(bytes) <= new
    BY <1>0, <2>3, <2>4, <2>5
  <2> HIDE DEF new
  <2>7. buf = [buffer |-> buf.buffer, len |-> buf.len, capacity |-> buf.capacity, allocator |-> buf.allocator] /\ buf.allocator \in BOOLEAN
    BY BufState
  <2>8. buf' = [buffer |-> Put(Put(Block(new), 0, contents), Len(contents), bytes), len |-> Len(contents) + Len(bytes),
                capacity |-> new, allocator |-> buf.allocator]
    BY ONLY <2>1, <2>2, <2>7
  <2>9. BufHolds(V, buf', contents')
    BY <1>0, <2>1, <2>2, <2>6, <2>7, <2>8, RegrownHolds, ZenonT(60)
  <2> QED BY <2>1, <2>9, DanglesKeeps
<1> QED BY <1>1, <1>2, <1>3, <1>4

\* aws_byte_buf_append_dynamic.
LEMMA AppendDynamicKeeps ==
  ASSUME ByteConstants, NEW V, BufOver(V), NEW secure, aws_byte_buf_append_dynamic(secure)
  PROVE  BufOver(V)'
<1>1. Reads(cursor) = denotes /\ denotes \in Seq(V)
  BY CursorReads DEF aws_byte_buf_append_dynamic
<1>2. s_aws_byte_buf_append_dynamic(denotes, denotes, secure)
  BY <1>1 DEF aws_byte_buf_append_dynamic
<1> QED BY <1>1, <1>2, DynamicKeeps

\* s_aws_byte_buf_append_byte_dynamic.
LEMMA AppendByteKeeps ==
  ASSUME ByteConstants, NEW V, BufOver(V), NEW secure, s_aws_byte_buf_append_byte_dynamic(0, secure)
  PROVE  BufOver(V)'
<1>1. 0 \in V
  BY BufState DEF ByteConstants
<1>2. PICK s : s = <<0>>
  OBVIOUS
<1>3. s \in Seq(V)
  BY <1>1, <1>2
<1>4. s_aws_byte_buf_append_dynamic(s, s, secure)
  BY <1>2 DEF s_aws_byte_buf_append_byte_dynamic
<1> QED BY <1>3, <1>4, DynamicKeeps

\* aws_byte_buf_write, whatever the bytes.
LEMMA WriteKeeps ==
  ASSUME NEW V, BufOver(V), NEW bytes \in Seq(V), aws_byte_buf_write(bytes, bytes)
  PROVE  BufOver(V)'
<1>1. CASE Len(bytes) = 0 \/ ~CanWrite(Len(bytes))
  BY <1>1, BufFailsKeeps DEF aws_byte_buf_write
<1>2. CASE ~(Len(bytes) = 0 \/ ~CanWrite(Len(bytes)))
  <2>1. Appends(bytes, bytes) /\ Kept
    BY <1>2 DEF aws_byte_buf_write
  <2>2. buf.len + Len(bytes) <= buf.capacity
    BY <1>2 DEF CanWrite
  <2> QED BY <2>1, <2>2, AppendsKeeps
<1> QED BY <1>1, <1>2

\* aws_byte_buf_write_from_whole_cursor.
LEMMA WriteCursorKeeps ==
  ASSUME ByteConstants, NEW V, BufOver(V), aws_byte_buf_write_from_whole_cursor
  PROVE  BufOver(V)'
<1>1. Reads(cursor) = denotes /\ denotes \in Seq(V)
  BY CursorReads DEF aws_byte_buf_write_from_whole_cursor
<1>2. aws_byte_buf_write(denotes, denotes)
  BY <1>1 DEF aws_byte_buf_write_from_whole_cursor
<1> QED BY <1>1, <1>2, WriteKeeps

\* aws_byte_buf_write_u8_n.
LEMMA WriteRepeatedKeeps ==
  ASSUME ByteConstants, NEW V, BufOver(V), NEW value \in 0 .. ByteBase - 1, NEW count \in Nat,
         aws_byte_buf_write_u8_n(value, count)
  PROVE  BufOver(V)'
<1>1. PICK s : s = [i \in 1 .. count |-> value]
  OBVIOUS
<1>2. value \in V
  BY BufState DEF ByteConstants
<1>3. s \in Seq(V) /\ Len(s) = count
  <2>1. s \in [1 .. count -> V]
    BY <1>1, <1>2
  <2> QED BY <2>1, ASeqToo
<1>4. CASE ~CanWrite(count)
  BY <1>4, BufFailsKeeps DEF aws_byte_buf_write_u8_n
<1>5. CASE CanWrite(count)
  <2>1. Appends(s, s) /\ Kept
    BY <1>1, <1>5 DEF aws_byte_buf_write_u8_n
  <2>2. buf.len + Len(s) <= buf.capacity
    BY <1>3, <1>5 DEF CanWrite
  <2> QED BY <1>3, <2>1, <2>2, AppendsKeeps
<1> QED BY <1>4, <1>5

\* The same cursor, advanced by n bytes.
LEMMA AdvancedDenotes ==
  ASSUME NEW V, NEW k, NEW c, NEW d, Denotes(V, k, c, d), k.in # "gone", NEW n \in Nat, n <= k.len,
         NEW k2, k2 = [k EXCEPT !.ptr = @ + n, !.len = @ - n],
         NEW d2, d2 = SubSeq(d, n + 1, Len(d))
  PROVE  Denotes(V, k2, c, d2)
<1>1. k \in [in : {"own", "data", "gone"}, ptr : Nat, len : Nat] /\ d \in Seq(V) /\ Len(d) = k.len /\ Len(d) \in Nat
  BY DEF Denotes
<1>2. k = [in |-> k.in, ptr |-> k.ptr, len |-> k.len] /\ k.in \in {"own", "data", "gone"} /\ k.ptr \in Nat /\ k.len \in Nat
  BY <1>1
<1>3. PICK a, b : a = k.ptr + n /\ b = k.len - n
  OBVIOUS
<1>4. a \in Nat /\ b \in Nat
  BY <1>2, <1>3
<1>5. k2 = [in |-> k.in, ptr |-> a, len |-> b]
  BY ONLY <1>2, <1>3, k2 = [k EXCEPT !.ptr = @ + n, !.len = @ - n]
<1>6. k2 \in [in : {"own", "data", "gone"}, ptr : Nat, len : Nat] /\ k2.in = k.in /\ k2.ptr = a /\ k2.len = b
  BY ONLY <1>2, <1>4, <1>5
<1>7. d2 \in Seq(V) /\ Cut(d, n, Len(d), d2)
  <2>1. n <= Len(d) /\ Len(d) <= Len(d)
    BY <1>1
  <2> QED BY <1>1, <2>1, CutFacts
<1>8. Len(d2) = b /\ \A i \in 1 .. b : d2[i] = d[n + i]
  BY <1>1, <1>3, <1>7 DEF Cut
<1>9. ASSUME NEW s, RangeOf(s, k.ptr, d) PROVE RangeOf(s, a, d2)
  <2>0. a + Len(d2) = k.ptr + Len(d)
    BY <1>1, <1>2, <1>3, <1>8
  <2>1. a + Len(d2) <= Len(s)
    BY <2>0, <1>9 DEF RangeOf
  <2>2. ASSUME NEW i \in 1 .. Len(d2) PROVE d2[i] = s[a + i]
    <3>1. n + i \in 1 .. Len(d) /\ k.ptr + (n + i) = a + i /\ i \in 1 .. b
      BY <1>1, <1>2, <1>3, <1>8
    <3> QED BY <3>1, <1>8, <1>9 DEF RangeOf
  <2> QED BY <2>1, <2>2 DEF RangeOf
<1> QED BY <1>1, <1>6, <1>7, <1>8, <1>9 DEF Denotes

\* A read at half the address space leaves a cursor that denotes nothing.
LEMMA ReadClearsKeeps ==
  ASSUME ByteConstants, NEW V, BufOver(V), ReadClears
  PROVE  BufOver(V)'
<1>1. cursor' = [in |-> "data", ptr |-> 0, len |-> 0] /\ denotes' = <<>> /\ buf' = buf /\ output' = output
      /\ contents' = contents
  BY DEF ReadClears, NoCursor
<1>2. BufHolds(V, buf, contents) /\ Within(output, contents) /\ 0 .. ByteBase \subseteq V
  BY BufState
<1>3. denotes' \in Seq(V) /\ Len(denotes') = 0
  BY <1>1
<1>4. cursor' \in [in : {"own", "data", "gone"}, ptr : Nat, len : Nat] /\ cursor'.in = "data"
      /\ cursor'.ptr = 0 /\ cursor'.len = 0
  BY ONLY <1>1
<1>5. RangeOf(Data, 0, denotes')
  BY <1>3 DEF RangeOf, ByteConstants
<1>6. Denotes(V, cursor', contents, denotes')
  BY <1>3, <1>4, <1>5 DEF Denotes
<1> QED BY ONLY <1>1, <1>2, <1>6 DEF BufOver

\* aws_byte_cursor_read.
LEMMA CursorReadKeeps ==
  ASSUME ByteConstants, NEW V, BufOver(V), NEW n \in Nat, aws_byte_cursor_read(n)
  PROVE  BufOver(V)'
<1>1. CASE n = 0 \/ n > cursor.len \/ cursor.len > SizeHalf
  BY <1>1, BufFailsKeeps DEF aws_byte_cursor_read
<1>3. CASE ~(n = 0 \/ n > cursor.len \/ cursor.len > SizeHalf) /\ cursor.len = SizeHalf
  BY <1>3, ReadClearsKeeps DEF aws_byte_cursor_read
<1>2. CASE ~(n = 0 \/ n > cursor.len \/ cursor.len > SizeHalf) /\ cursor.len # SizeHalf
  <2>1. /\ cursor' = [cursor EXCEPT !.ptr = @ + n, !.len = @ - n]
        /\ denotes' = SubSeq(denotes, n + 1, Len(denotes))
        /\ buf' = buf /\ output' = output /\ contents' = contents
    BY <1>2 DEF aws_byte_cursor_read
  <2>2. cursor.in # "gone" /\ n <= cursor.len
    BY <1>2, BufState DEF aws_byte_cursor_read, Usable
  <2>3. Denotes(V, cursor', contents, denotes')
    BY <2>1, <2>2, BufState, AdvancedDenotes
  <2>4. BufHolds(V, buf, contents) /\ Within(output, contents) /\ 0 .. ByteBase \subseteq V
    BY BufState
  <2> QED BY ONLY <2>1, <2>3, <2>4 DEF BufOver
<1> QED BY <1>1, <1>2, <1>3

\* aws_byte_buf_write_to_capacity: what is left of the cursor is denoted by it.
LEMMA WriteToCapacityKeeps ==
  ASSUME ByteConstants, NEW V, BufOver(V), aws_byte_buf_write_to_capacity
  PROVE  BufOver(V)'
<1>1. Usable(cursor)
  BY DEF aws_byte_buf_write_to_capacity
<1>2. Reads(cursor) = denotes /\ denotes \in Seq(V) /\ Len(denotes) = cursor.len /\ cursor.len \in Nat
  BY <1>1, CursorReads
<1>3. PICK n : n = Min({Room, cursor.len})
  OBVIOUS
<1>4. Room \in Nat
  BY BufState DEF Room
<1>5. n = IF Room <= cursor.len THEN Room ELSE cursor.len
  BY <1>2, <1>3, <1>4, MinOfTwo
<1>6. n \in Nat /\ n <= cursor.len /\ n <= Room
  BY <1>2, <1>4, <1>5
<1>7. CASE cursor.len > SizeHalf
  BY <1>7, BufFailsKeeps DEF aws_byte_buf_write_to_capacity
<1>8. CASE ~(cursor.len > SizeHalf)
  <2>0. PICK s : s = SubSeq(Reads(cursor), 1, n)
    OBVIOUS
  <2>1. s = SubSeq(denotes, 1, n) /\ s = SubSeq(denotes, 0 + 1, n)
    BY <1>2, <2>0
  <2>2. /\ cursor' = [cursor EXCEPT !.ptr = @ + n, !.len = @ - n]
        /\ denotes' = SubSeq(denotes, n + 1, Len(denotes)) /\ output' = output
        /\ CanWrite(n) => Appends(s, s)
        /\ ~CanWrite(n) => buf' = buf /\ contents' = contents
    BY <1>3, <1>8, <2>0, <2>1 DEF aws_byte_buf_write_to_capacity
  <2>3. s \in Seq(V) /\ Len(s) = n
    <3>1. 0 \in Nat /\ 0 <= n /\ n <= Len(denotes)
      BY <1>2, <1>6
    <3>2. s \in Seq(V) /\ Cut(denotes, 0, n, s)
      BY <1>2, <1>6, <2>1, <3>1, CutFacts
    <3> QED BY <1>6, <3>2 DEF Cut
  <2>4. BufHolds(V, buf', contents') /\ Begins(contents, contents')
    <3>1. CASE CanWrite(n)
      <4>1. buf.len + Len(s) <= buf.capacity
        BY <3>1, <2>3 DEF CanWrite
      <4> QED BY <3>1, <4>1, <2>2, <2>3, BufState, AppendedHolds DEF Appends
    <3>2. CASE ~CanWrite(n)
      <4>1. Begins(contents, contents)
        BY BufState DEF Begins
      <4> QED BY <3>2, <4>1, <2>2, BufState
    <3> QED BY <3>1, <3>2
  <2>5. contents \in Seq(V) /\ contents' \in Seq(V)
    BY <2>4, BufState DEF BufHolds
  <2>6. Denotes(V, cursor, contents', denotes)
    BY <2>4, <2>5, BufState, StillDenotes
  <2>7. Denotes(V, cursor', contents', denotes')
    <3>1. cursor.in # "gone"
      BY <1>1 DEF Usable
    <3> QED BY <1>6, <2>2, <2>6, <3>1, AdvancedDenotes
  <2>8. Within(output', contents')
    BY <2>2, <2>4, <2>5, BufState, StillWithin DEF Begins
  <2>9. 0 .. ByteBase \subseteq V
    BY BufState
  <2> QED BY ONLY <2>4, <2>7, <2>8, <2>9 DEF BufOver
<1> QED BY <1>7, <1>8

\* aws_byte_cursor_from_buf.
LEMMA CursorFromBufKeeps ==
  ASSUME NEW V, BufOver(V), aws_byte_cursor_from_buf
  PROVE  BufOver(V)'
<1>1. /\ cursor' = [in |-> "own", ptr |-> 0, len |-> buf.len] /\ denotes' = contents
      /\ buf' = buf /\ output' = output /\ contents' = contents
  BY DEF aws_byte_cursor_from_buf
<1>2. contents \in Seq(V) /\ Len(contents) = buf.len /\ buf.len \in Nat
  BY BufState
<1>3. RangeOf(contents, 0, contents)
  BY <1>2 DEF RangeOf
<1>4. cursor' \in [in : {"own", "data", "gone"}, ptr : Nat, len : Nat] /\ cursor'.in = "own" /\ cursor'.ptr = 0 /\ cursor'.len = buf.len
  BY ONLY <1>1, <1>2
<1>5. Denotes(V, cursor', contents', denotes')
  BY <1>1, <1>2, <1>3, <1>4 DEF Denotes
<1>6. BufHolds(V, buf, contents) /\ Within(output, contents) /\ 0 .. ByteBase \subseteq V
  BY BufState
<1> QED BY ONLY <1>1, <1>5, <1>6 DEF BufOver

\* aws_byte_cursor_from_array.
LEMMA CursorFromArrayKeeps ==
  ASSUME ByteConstants, NEW V, BufOver(V), NEW n \in 0 .. Len(Data), aws_byte_cursor_from_array(n)
  PROVE  BufOver(V)'
<1>1. /\ cursor' = [in |-> "data", ptr |-> 0, len |-> n] /\ denotes' = SubSeq(Data, 1, n)
      /\ buf' = buf /\ output' = output /\ contents' = contents
  BY DEF aws_byte_cursor_from_array
<1>2. denotes' \in Seq(V) /\ Len(denotes') = n /\ RangeOf(Data, 0, denotes')
  BY <1>1, DataPrefix
<1>3. cursor' \in [in : {"own", "data", "gone"}, ptr : Nat, len : Nat] /\ cursor'.in = "data" /\ cursor'.ptr = 0 /\ cursor'.len = n
  <2>1. n \in Nat
    BY DEF ByteConstants
  <2> QED BY ONLY <1>1, <2>1
<1>4. Denotes(V, cursor', contents', denotes')
  BY <1>2, <1>3 DEF Denotes
<1>5. BufHolds(V, buf, contents) /\ Within(output, contents) /\ 0 .. ByteBase \subseteq V
  BY BufState
<1> QED BY ONLY <1>1, <1>4, <1>5 DEF BufOver

\* aws_hton on a little-endian host gives the digits of an integer, the highest first.
LEMMA NetworkOrder ==
  ASSUME NEW x, NEW n \in Nat
  PROVE  aws_hton(HostBytes(x, n)) = BigEndian(x, n)
<1> DEFINE D(k) == (x \div ByteBase^k) % ByteBase
           S == {D(i - 1) : i \in 1 .. n}
<1> PICK h : h = HostBytes(x, n)
  OBVIOUS
<1>1. h = [i \in 1 .. n |-> D(i - 1)] /\ BigEndian(x, n) = [i \in 1 .. n |-> D(n - i)]
  BY DEF HostBytes, BigEndian
<1>2. h \in [1 .. n -> S]
  <2> HIDE DEF D
  <2> QED BY <1>1
<1> HIDE DEF D, S
<1>3. Len(h) = n
  BY <1>2, ASeqToo
<1>4. aws_hton(h) = [i \in 1 .. n |-> h[(n - i) + 1]]
  BY <1>3 DEF aws_hton, Reverse
<1>5. ASSUME NEW i \in 1 .. n PROVE h[(n - i) + 1] = D(n - i)
  <2>1. PICK j : j = (n - i) + 1
    OBVIOUS
  <2>2. j \in 1 .. n /\ j - 1 = n - i
    BY <2>1
  <2>3. h[j] = D(j - 1)
    BY <1>1, <2>2
  <2> QED BY <2>1, <2>2, <2>3
<1> QED BY <1>1, <1>4, <1>5

\* The digits are a sequence over some set.
LEMMA DigitsFacts ==
  ASSUME NEW x, NEW n \in Nat
  PROVE  \E S : BigEndian(x, n) \in Seq(S) /\ Len(BigEndian(x, n)) = n
<1> DEFINE D(i) == (x \div ByteBase^(n - i)) % ByteBase
           S == {D(i) : i \in 1 .. n}
<1> PICK h : h = BigEndian(x, n)
  OBVIOUS
<1>1. h = [i \in 1 .. n |-> D(i)]
  BY DEF BigEndian
<1>2. h \in [1 .. n -> S]
  <2> HIDE DEF D
  <2> QED BY <1>1
<1> HIDE DEF D, S
<1>3. h \in Seq(S) /\ Len(h) = n
  BY <1>2, ASeqToo
<1> QED BY <1>3

\* The three low bytes of a word of four are the digits of an integer of 24 bits.
LEMMA LowBytes ==
  ASSUME NEW x
  PROVE  SubSeq(BigEndian(x, 4), 2, 4) = BigEndian(x, 3)
<1>1. PICK S : BigEndian(x, 4) \in Seq(S) /\ Len(BigEndian(x, 4)) = 4
  <2>1. 4 \in Nat
    OBVIOUS
  <2> QED BY <2>1, DigitsFacts
<1>2. PICK T : BigEndian(x, 3) \in Seq(T) /\ Len(BigEndian(x, 3)) = 3
  <2>1. 3 \in Nat
    OBVIOUS
  <2> QED BY <2>1, DigitsFacts
<1> DEFINE D(k) == (x \div ByteBase^k) % ByteBase
<1> PICK g, h, p, W : g = BigEndian(x, 4) /\ h = BigEndian(x, 3) /\ p = SubSeq(g, 1 + 1, 4) /\ W = S \cup T
  OBVIOUS
<1>3. g = [i \in 1 .. 4 |-> D(4 - i)] /\ h = [i \in 1 .. 3 |-> D(3 - i)]
  BY DEF BigEndian
<1> HIDE DEF D
<1>4. g \in Seq(W) /\ h \in Seq(W) /\ Len(g) = 4 /\ Len(h) = 3
  BY <1>1, <1>2, SeqMonotonic
<1>5. p \in Seq(W) /\ Cut(g, 1, 4, p)
  <2>1. 1 \in Nat /\ 4 \in Nat /\ 1 <= 4 /\ 4 <= Len(g)
    BY <1>4
  <2> QED BY <1>4, <2>1, CutFacts
<1>6. Len(p) = 3
  BY <1>5 DEF Cut
<1>7. ASSUME NEW i \in 1 .. 3 PROVE p[i] = h[i]
  <2>1. i \in 1 .. 4 - 1 /\ 1 + i \in 1 .. 4 /\ 4 - (1 + i) = 3 - i
    OBVIOUS
  <2>2. p[i] = g[1 + i]
    BY <2>1, <1>5 DEF Cut
  <2>3. g[1 + i] = D(4 - (1 + i))
    BY <2>1, <1>3
  <2>4. h[i] = D(3 - i)
    BY <1>3
  <2> QED BY <2>1, <2>2, <2>3, <2>4
<1>8. p = h
  BY <1>4, <1>5, <1>6, <1>7, SeqEqual
<1>9. p = SubSeq(BigEndian(x, 4), 2, 4)
  OBVIOUS
<1> QED BY <1>8, <1>9

\* An integer of n bytes, written digit by digit.
LEMMA WriteDigitsKeeps ==
  ASSUME BufInv, NEW x, NEW n \in Nat, aws_byte_buf_write(BigEndian(x, n), BigEndian(x, n))
  PROVE  BufInv'
<1>1. PICK V : BufOver(V)
  BY DEF BufInv
<1>2. PICK S : BigEndian(x, n) \in Seq(S)
  BY DigitsFacts
<1>3. PICK W : W = V \cup S
  OBVIOUS
<1>4. BigEndian(x, n) \in Seq(W)
  BY <1>2, <1>3, SeqMonotonic
<1>5. BufOver(W)
  BY <1>1, <1>3, Wider
<1>6. BufOver(W)'
  BY <1>4, <1>5, WriteKeeps
<1> QED BY <1>6 DEF BufInv

\* aws_byte_buf_write_be16, be32 and the others.
LEMMA WriteBeKeeps ==
  ASSUME BufInv, NEW x, NEW n \in Nat, aws_byte_buf_write_be(x, n)
  PROVE  BufInv'
BY WriteDigitsKeeps, NetworkOrder DEF aws_byte_buf_write_be

\* aws_byte_buf_write_be24.
LEMMA WriteBe24Keeps ==
  ASSUME BufInv, NEW x, aws_byte_buf_write_be24(x)
  PROVE  BufInv'
<1>1. CASE x >= ByteBase^3
  <2>1. PICK V : BufOver(V)
    BY DEF BufInv
  <2>2. Fails
    BY <1>1 DEF aws_byte_buf_write_be24
  <2>3. BufOver(V)'
    BY <2>1, <2>2, BufFailsKeeps
  <2> QED BY <2>3 DEF BufInv
<1>2. CASE ~(x >= ByteBase^3)
  <2>1. aws_byte_buf_write(SubSeq(aws_hton(HostBytes(x, 4)), 2, 4), BigEndian(x, 3))
    BY <1>2 DEF aws_byte_buf_write_be24
  <2>2. 4 \in Nat /\ 3 \in Nat
    OBVIOUS
  <2>3. aws_hton(HostBytes(x, 4)) = BigEndian(x, 4)
    BY <2>2, NetworkOrder
  <2>4. aws_byte_buf_write(BigEndian(x, 3), BigEndian(x, 3))
    BY <2>1, <2>3, LowBytes
  <2> QED BY <2>2, <2>4, WriteDigitsKeeps
<1> QED BY <1>1, <1>2

\* aws_byte_buf_advance: the sub-buffer is what was appended.
LEMMA AdvanceKeeps ==
  ASSUME NEW V, BufOver(V), NEW n \in Nat, aws_byte_buf_advance(n)
  PROVE  BufOver(V)'
<1>0. /\ buf.buffer \in Seq(V) /\ buf.len \in Nat /\ buf.capacity \in Nat /\ Len(buf.buffer) = buf.capacity
      /\ buf.len <= buf.capacity /\ contents \in Seq(V) /\ Len(contents) = buf.len
  BY BufState
<1>1. CASE Room < n
  <2>1. output' = NoOutput /\ buf' = buf /\ cursor' = cursor /\ contents' = contents /\ denotes' = denotes
    BY <1>1 DEF aws_byte_buf_advance
  <2>2. Within(output', contents)
    BY <1>0, <2>1 DEF Within, NoOutput
  <2>3. BufHolds(V, buf, contents) /\ Denotes(V, cursor, contents, denotes) /\ 0 .. ByteBase \subseteq V
    BY BufState
  <2> QED BY ONLY <2>1, <2>2, <2>3 DEF BufOver
<1>2. CASE ~(Room < n)
  <2>1. PICK s, e : s = SubSeq(buf.buffer, buf.len + 1, e) /\ e = buf.len + n
    OBVIOUS
  <2>2. /\ output' = [ptr |-> buf.len, len |-> 0, capacity |-> n]
        /\ Appends(s, s) /\ cursor' = cursor /\ denotes' = denotes
    BY <1>2, <2>1 DEF aws_byte_buf_advance
  <2>3. e \in Nat /\ buf.len <= e /\ e <= Len(buf.buffer) /\ e - buf.len = n
    <3>1. e = buf.len + n /\ ~(buf.capacity - buf.len < n)
      BY <1>2, <2>1 DEF Room
    <3>2. e \in Nat /\ buf.len <= e /\ e <= buf.capacity /\ e - buf.len = n
      BY ONLY <3>1, <1>0, n \in Nat
    <3> QED BY ONLY <3>2, <1>0
  <2>4. s \in Seq(V) /\ Len(s) = n
    <3>1. s \in Seq(V) /\ Cut(buf.buffer, buf.len, e, s)
      BY <1>0, <2>1, <2>3, CutFacts
    <3> QED BY <2>3, <3>1 DEF Cut
  <2>5. BufHolds(V, buf', contents') /\ Begins(contents, contents')
    <3>1. buf.len + Len(s) <= buf.capacity
      BY <1>0, <2>1, <2>3, <2>4
    <3> QED BY <3>1, <2>2, <2>4, BufState, AppendedHolds DEF Appends
  <2>6. contents' \in Seq(V) /\ Len(contents') = buf.len + n
    <3>1. contents' = contents \o s
      BY <2>2 DEF Appends
    <3>2. contents' \in Seq(V) /\ Concats(contents, s, contents')
      BY <3>1, <1>0, <2>4, ConcatsFacts
    <3> QED BY <3>2, <1>0, <2>4 DEF Concats
  <2>7. Denotes(V, cursor, contents', denotes)
    BY <1>0, <2>5, <2>6, BufState, StillDenotes
  <2>8. Within(output', contents')
    <3>1. output' \in [ptr : Nat, len : Nat, capacity : Nat] /\ output'.ptr = buf.len /\ output'.capacity = n
      BY ONLY <2>2, <1>0, n \in Nat
    <3> QED BY <3>1, <1>0, <2>6 DEF Within
  <2>9. 0 .. ByteBase \subseteq V
    BY BufState
  <2> QED BY ONLY <2>2, <2>5, <2>7, <2>8, <2>9 DEF BufOver
<1> QED BY <1>1, <1>2

\* A write to the sub-buffer shows in the buffer, and in a cursor that covers it.
LEMMA WritesToOutputKeeps ==
  ASSUME ByteConstants, NEW V, BufOver(V), NEW value \in 0 .. ByteBase - 1, WritesToOutput(value)
  PROVE  BufOver(V)'
<1>0. /\ buf.buffer \in Seq(V) /\ buf.len \in Nat /\ buf.capacity \in Nat /\ Len(buf.buffer) = buf.capacity
      /\ buf.len <= buf.capacity /\ contents \in Seq(V) /\ Len(contents) = buf.len
      /\ \A i \in 1 .. buf.len : buf.buffer[i] = contents[i]
      /\ output.ptr \in Nat /\ output.len \in Nat /\ output.capacity \in Nat /\ output.ptr + output.capacity <= buf.len
      /\ cursor \in [in : {"own", "data", "gone"}, ptr : Nat, len : Nat] /\ cursor.ptr \in Nat /\ cursor.len \in Nat
      /\ denotes \in Seq(V)
  BY BufState
<1>1. PICK p, s, m, e : p = output.ptr + output.len /\ s = <<value>> /\ m = Put(buf.buffer, p, s) /\ e = Put(contents, p, s)
  OBVIOUS
<1>2. /\ output.len < output.capacity /\ output' = [output EXCEPT !.len = @ + 1]
      /\ buf' = [buf EXCEPT !.buffer = m] /\ contents' = e /\ cursor' = cursor
      /\ cursor.in = "own" => denotes' = SubSeq(e, cursor.ptr + 1, cursor.ptr + cursor.len)
      /\ cursor.in # "own" => denotes' = denotes
  BY <1>1 DEF WritesToOutput
<1>3. s \in Seq(V) /\ Len(s) = 1
  <2>1. value \in V
    BY BufState DEF ByteConstants
  <2> QED BY <1>1, <2>1
<1>4. p \in Nat /\ p + Len(s) <= Len(contents) /\ p + Len(s) <= Len(buf.buffer)
  <2>1. p = output.ptr + output.len /\ output.len < output.capacity
    BY <1>1, <1>2
  <2>2. p \in Nat /\ p + 1 <= buf.len /\ p + 1 <= buf.capacity
    <3>1. /\ buf.len \in Nat /\ buf.capacity \in Nat /\ buf.len <= buf.capacity
          /\ output.ptr \in Nat /\ output.len \in Nat /\ output.capacity \in Nat /\ output.ptr + output.capacity <= buf.len
      BY ONLY <1>0
    <3> QED BY ONLY <2>1, <3>1
  <2> QED BY ONLY <2>2, <1>0, <1>3
<1>5. m \in Seq(V) /\ Copied(buf.buffer, p, s, m)
  BY <1>0, <1>1, <1>3, <1>4, PutFacts
<1>6. e \in Seq(V) /\ Copied(contents, p, s, e)
  BY <1>0, <1>1, <1>3, <1>4, PutFacts
<1>7. Len(m) = buf.capacity /\ Len(e) = buf.len
  BY <1>0, <1>5, <1>6 DEF Copied
<1>8. ASSUME NEW i \in 1 .. buf.len PROVE m[i] = e[i]
  <2>1. i \in 1 .. Len(buf.buffer) /\ i \in 1 .. Len(contents)
    BY <1>0
  <2>2. m[i] = IF p < i /\ i <= p + Len(s) THEN s[i - p] ELSE buf.buffer[i]
    BY <2>1, <1>5 DEF Copied
  <2>3. e[i] = IF p < i /\ i <= p + Len(s) THEN s[i - p] ELSE contents[i]
    BY <2>1, <1>6 DEF Copied
  <2> QED BY ONLY <2>2, <2>3, <1>0, i \in 1 .. buf.len
<1>9. BufHolds(V, buf', contents')
  <2>1. buf = [buffer |-> buf.buffer, len |-> buf.len, capacity |-> buf.capacity, allocator |-> buf.allocator] /\ buf.allocator \in BOOLEAN
    BY BufState
  <2>2. buf' = [buffer |-> m, len |-> buf.len, capacity |-> buf.capacity, allocator |-> buf.allocator]
    BY ONLY <2>1, <1>2
  <2>3. m \in Seq(V) /\ e \in Seq(V) /\ buf.len \in Nat /\ buf.capacity \in Nat /\ buf.allocator \in BOOLEAN /\ buf.len <= buf.capacity
    BY ONLY <1>0, <1>5, <1>6, <2>1
  <2>4. BufHolds(V, buf', e)
    BY ONLY <1>7, <1>8, <2>2, <2>3, BufMade
  <2> QED BY <2>4, <1>2
<1>10. Denotes(V, cursor', contents', denotes')
  <2>1. CASE cursor.in = "own"
    <3>1. RangeOf(contents, cursor.ptr, denotes) /\ Len(denotes) = cursor.len
      BY <2>1, BufState DEF Denotes
    <3>2. PICK b : b = cursor.ptr + cursor.len
      OBVIOUS
    <3>3. b \in Nat /\ cursor.ptr <= b /\ b <= Len(e) /\ b - cursor.ptr = cursor.len
      BY <1>0, <1>7, <3>1, <3>2 DEF RangeOf
    <3>4. denotes' = SubSeq(e, cursor.ptr + 1, b)
      BY <1>2, <2>1, <3>2
    <3>5. denotes' \in Seq(V) /\ Cut(e, cursor.ptr, b, denotes')
      BY <1>0, <1>6, <3>3, <3>4, CutFacts
    <3>6. Len(denotes') = cursor.len /\ \A i \in 1 .. cursor.len : denotes'[i] = e[cursor.ptr + i]
      BY <3>3, <3>5 DEF Cut
    <3>7. RangeOf(e, cursor.ptr, denotes')
      BY <3>2, <3>3, <3>6 DEF RangeOf
    <3> QED BY <1>0, <1>2, <2>1, <3>5, <3>6, <3>7 DEF Denotes
  <2>2. CASE cursor.in # "own"
    <3>1. Denotes(V, cursor, contents, denotes)
      BY BufState
    <3>2. Denotes(V, cursor, e, denotes)
      BY ONLY <2>2, <3>1 DEF Denotes
    <3> QED BY <1>2, <2>2, <3>2
  <2> QED BY <2>1, <2>2
<1>11. Within(output', contents')
  <2>1. output = [ptr |-> output.ptr, len |-> output.len, capacity |-> output.capacity]
    BY BufState
  <2>2. PICK n : n = output.len + 1
    OBVIOUS
  <2>3. output' = [ptr |-> output.ptr, len |-> n, capacity |-> output.capacity]
    BY ONLY <1>2, <2>1, <2>2
  <2>4. n \in Nat
    BY <1>0, <2>2
  <2>5. output' \in [ptr : Nat, len : Nat, capacity : Nat] /\ output'.ptr = output.ptr /\ output'.capacity = output.capacity
    BY ONLY <1>0, <2>3, <2>4
  <2> QED BY <1>0, <1>2, <1>7, <2>5 DEF Within
<1>12. 0 .. ByteBase \subseteq V
  BY BufState
<1> QED BY ONLY <1>9, <1>10, <1>11, <1>12 DEF BufOver

\* aws_byte_cursor_read_and_fill_buffer.
LEMMA FillKeeps ==
  ASSUME ByteConstants, NEW V, BufOver(V), aws_byte_cursor_read_and_fill_buffer
  PROVE  BufOver(V)'
<1>0. /\ buf.len \in Nat /\ buf.capacity \in Nat /\ buf.len <= buf.capacity
      /\ buf = [buffer |-> buf.buffer, len |-> buf.len, capacity |-> buf.capacity, allocator |-> buf.allocator] /\ buf.allocator \in BOOLEAN
      /\ contents \in Seq(V) /\ Len(contents) = buf.len
  BY BufState
<1>1. cursor.in = "data" /\ Usable(cursor)
  BY DEF aws_byte_cursor_read_and_fill_buffer, Usable
<1>2. Reads(cursor) = denotes /\ denotes \in Seq(V) /\ Len(denotes) = cursor.len /\ cursor.len \in Nat
  BY <1>1, CursorReads
<1>3. CASE buf.capacity > cursor.len \/ cursor.len > SizeHalf
  BY <1>3, BufFailsKeeps DEF aws_byte_cursor_read_and_fill_buffer
<1>5. CASE ~(buf.capacity > cursor.len \/ cursor.len > SizeHalf) /\ cursor.len = SizeHalf
  BY <1>5, ReadClearsKeeps DEF aws_byte_cursor_read_and_fill_buffer
<1>4. CASE ~(buf.capacity > cursor.len \/ cursor.len > SizeHalf) /\ cursor.len # SizeHalf
  <2>1. PICK n, s : n = buf.capacity /\ s = SubSeq(Reads(cursor), 1, n)
    OBVIOUS
  <2>2. s = SubSeq(denotes, 1, n) /\ s = SubSeq(denotes, 0 + 1, n)
    BY <1>2, <2>1
  <2>3. /\ buf' = [buf EXCEPT !.buffer = s, !.len = n] /\ contents' = s /\ output' = output
        /\ cursor' = [cursor EXCEPT !.ptr = @ + n, !.len = @ - n]
        /\ denotes' = SubSeq(denotes, n + 1, Len(denotes))
    BY <1>4, <2>1, <2>2 DEF aws_byte_cursor_read_and_fill_buffer
  <2>4. n \in Nat /\ 0 \in Nat /\ 0 <= n /\ n <= Len(denotes) /\ n <= cursor.len
    BY <1>0, <1>2, <1>4, <2>1
  <2>5. s \in Seq(V) /\ Len(s) = n
    <3>1. s \in Seq(V) /\ Cut(denotes, 0, n, s)
      BY <1>2, <2>2, <2>4, CutFacts
    <3> QED BY <2>4, <3>1 DEF Cut
  <2>6. BufHolds(V, buf', contents')
    <3>1. buf' = [buffer |-> s, len |-> n, capacity |-> n, allocator |-> buf.allocator]
      BY ONLY <1>0, <2>1, <2>3
    <3>2. n <= n /\ (\A i \in 1 .. n : s[i] = s[i])
      BY <2>4
    <3>3. BufHolds(V, buf', s)
      BY <1>0, <2>4, <2>5, <3>1, <3>2, BufMade
    <3> QED BY <2>3, <3>3
  <2>7. Denotes(V, cursor', contents, denotes')
    <3>1. cursor.in # "gone"
      BY <1>1
    <3> QED BY <2>3, <2>4, <3>1, BufState, AdvancedDenotes
  <2>8. Denotes(V, cursor', contents', denotes')
    <3>1. cursor'.in = "data"
      <4>1. cursor = [in |-> cursor.in, ptr |-> cursor.ptr, len |-> cursor.len]
        BY BufState
      <4> QED BY ONLY <4>1, <1>1, <2>3
    <3> QED BY ONLY <2>7, <3>1 DEF Denotes
  <2>9. Within(output', contents')
    <3>1. contents' \in Seq(V) /\ Len(contents) <= Len(contents')
      BY <1>0, <2>1, <2>3, <2>4, <2>5
    <3> QED BY <1>0, <2>3, <3>1, BufState, StillWithin
  <2>10. 0 .. ByteBase \subseteq V
    BY BufState
  <2> QED BY ONLY <2>6, <2>8, <2>9, <2>10 DEF BufOver
<1> QED BY <1>3, <1>4, <1>5

\* A fresh buffer, over memory of the caller or without memory.
LEMMA BufStarts ==
  ASSUME ByteConstants, BufInit
  PROVE  BufInv
<1>1. PICK V : V = 0 .. ByteBase
  OBVIOUS
<1>2. ByteBase \in V /\ 0 .. ByteBase \subseteq V
  BY <1>1 DEF ByteConstants
<1>3. contents = <<>> /\ denotes = <<>> /\ contents \in Seq(V) /\ denotes \in Seq(V) /\ Len(contents) = 0 /\ Len(denotes) = 0
  BY DEF BufInit
<1>4. BufHolds(V, buf, contents)
  <2>1. CASE buf = NoBuffer
    <3>1. buf = [buffer |-> <<>>, len |-> 0, capacity |-> 0, allocator |-> FALSE]
      BY <2>1 DEF NoBuffer
    <3>2. <<>> \in Seq(V) /\ Len(<<>>) = 0 /\ 0 <= 0 /\ 0 \in Nat /\ FALSE \in BOOLEAN /\ \A i \in 1 .. 0 : (<<>>)[i] = contents[i]
      OBVIOUS
    <3> QED BY ONLY <1>3, <3>1, <3>2, BufMade
  <2>2. ASSUME NEW n \in 1 .. 2, buf = [NoBuffer EXCEPT !.buffer = Block(n), !.capacity = n]
        PROVE  BufHolds(V, buf, contents)
    <3>1. PICK m : m = Block(n)
      OBVIOUS
    <3>2. buf = [buffer |-> m, len |-> 0, capacity |-> n, allocator |-> FALSE]
      BY <2>2, <3>1 DEF NoBuffer
    <3>3. n \in Nat /\ 0 <= n /\ 0 \in Nat /\ FALSE \in BOOLEAN /\ \A i \in 1 .. 0 : m[i] = contents[i]
      OBVIOUS
    <3>4. m \in Seq(V) /\ Len(m) = n
      BY <1>2, <3>1, <3>3, BlockFacts
    <3> QED BY ONLY <1>3, <3>2, <3>3, <3>4, BufMade
  <2> QED BY <2>1, <2>2 DEF BufInit
<1>5. Denotes(V, cursor, contents, denotes)
  <2>1. cursor = [in |-> "data", ptr |-> 0, len |-> 0]
    BY DEF BufInit, NoCursor
  <2>2. cursor \in [in : {"own", "data", "gone"}, ptr : Nat, len : Nat] /\ cursor.in = "data" /\ cursor.ptr = 0 /\ cursor.len = 0
    BY ONLY <2>1
  <2>3. RangeOf(Data, 0, denotes)
    BY <1>3 DEF RangeOf, ByteConstants
  <2> QED BY <1>3, <2>2, <2>3 DEF Denotes
<1>6. Within(output, contents)
  BY <1>3 DEF BufInit, Within, NoOutput
<1>7. BufOver(V)
  BY ONLY <1>2, <1>4, <1>5, <1>6 DEF BufOver
<1> QED BY <1>7 DEF BufInv

\* No call loses, changes or invents a byte.
LEMMA BufNextKeeps ==
  ASSUME ByteConstants, BufInv, BufNext
  PROVE  BufInv'
<1>0. PICK V : BufOver(V)
  BY DEF BufInv
<1> USE DEF BufInv
<1>s. 0 .. SizeMax \subseteq Nat
  BY DEF ByteConstants
<1>1. ASSUME NEW n \in 0 .. SizeMax, aws_byte_buf_init(n) PROVE BufInv'
  BY <1>0, <1>1, <1>s, BufInitKeeps
<1>2. ASSUME NEW n \in 0 .. SizeMax, aws_byte_buf_reserve(n) PROVE BufInv'
  BY <1>0, <1>2, <1>s, ReserveKeeps
<1>3. ASSUME NEW n \in 0 .. SizeMax, aws_byte_buf_reserve_relative(n) PROVE BufInv'
  <2>1. CASE buf.len + n > SizeMax
    <3>1. Fails
      BY <1>3, <2>1 DEF aws_byte_buf_reserve_relative
    <3> QED BY <1>0, <3>1, BufFailsKeeps
  <2>2. CASE ~(buf.len + n > SizeMax)
    <3>1. PICK m : m = buf.len + n
      OBVIOUS
    <3>2. m \in Nat
      BY <1>0, <1>s, <3>1, BufState
    <3>3. aws_byte_buf_reserve(m)
      BY <1>3, <2>2, <3>1 DEF aws_byte_buf_reserve_relative
    <3> QED BY <1>0, <3>2, <3>3, ReserveKeeps
  <2> QED BY <2>1, <2>2
<1>4. ASSUME NEW n \in 0 .. SizeMax, aws_byte_buf_advance(n) PROVE BufInv'
  BY <1>0, <1>4, <1>s, AdvanceKeeps
<1>5. ASSUME NEW n \in 0 .. SizeMax, aws_byte_cursor_read(n) PROVE BufInv'
  BY <1>0, <1>5, <1>s, CursorReadKeeps
<1>6. ASSUME NEW n \in 0 .. SizeMax, NEW value \in 0 .. ByteBase - 1, aws_byte_buf_write_u8_n(value, n) PROVE BufInv'
  BY <1>0, <1>6, <1>s, WriteRepeatedKeeps
<1>7. ASSUME NEW n \in 0 .. Len(Data), aws_byte_cursor_from_array(n) PROVE BufInv'
  BY <1>0, <1>7, CursorFromArrayKeeps
<1>8. ASSUME NEW n \in 0 .. Len(Data), aws_byte_buf_cat(n) PROVE BufInv'
  BY <1>0, <1>8, CatKeeps
<1>9. ASSUME NEW n \in 0 .. Len(Data), aws_byte_buf_init_cache_and_update_cursors(n) PROVE BufInv'
  BY <1>0, <1>9, InitCacheKeeps
<1>10. CASE aws_byte_buf_init_copy_from_cursor
  BY <1>0, <1>10, BufInitCopyKeeps
<1>11. ASSUME NEW zero \in BOOLEAN, aws_byte_buf_reset(zero) PROVE BufInv'
  BY <1>0, <1>11, BufResetKeeps
<1>12. ASSUME NEW zero \in BOOLEAN, aws_byte_buf_clean_up(zero) PROVE BufInv'
  BY <1>0, <1>12, BufCleanUpKeeps
<1>13. ASSUME NEW zero \in BOOLEAN, aws_byte_buf_append_dynamic(zero) PROVE BufInv'
  BY <1>0, <1>13, AppendDynamicKeeps
<1>14. ASSUME NEW zero \in BOOLEAN, s_aws_byte_buf_append_byte_dynamic(0, zero) PROVE BufInv'
  BY <1>0, <1>14, AppendByteKeeps
<1>15. CASE aws_byte_buf_append
  BY <1>0, <1>15, AppendCursorKeeps
<1>16. CASE aws_byte_buf_append_and_update
  BY <1>0, <1>16, AppendUpdateKeeps
<1>17. CASE aws_byte_buf_write_from_whole_cursor
  BY <1>0, <1>17, WriteCursorKeeps
<1>18. CASE aws_byte_buf_write_to_capacity
  BY <1>0, <1>18, WriteToCapacityKeeps
<1>19. ASSUME NEW value \in 0 .. ByteBase - 1, WritesToOutput(value) PROVE BufInv'
  BY <1>0, <1>19, WritesToOutputKeeps
<1>20. CASE aws_byte_cursor_from_buf
  BY <1>0, <1>20, CursorFromBufKeeps
<1>21. CASE aws_byte_cursor_read_and_fill_buffer
  BY <1>0, <1>21, FillKeeps
<1>22. CASE aws_byte_buf_append_with_lookup
  BY <1>22, AppendLookupKeeps
<1>23. ASSUME NEW n \in {1, 2, 4}, NEW x \in {1, ByteBase^n - 1}, aws_byte_buf_write_be(x, n) PROVE BufInv'
  <2>1. n \in Nat
    OBVIOUS
  <2> QED BY <1>23, <2>1, WriteBeKeeps
<1>24. ASSUME NEW x \in {1, ByteBase^3}, aws_byte_buf_write_be24(x) PROVE BufInv'
  BY <1>24, WriteBe24Keeps
<1> QED
  BY <1>1, <1>2, <1>3, <1>4, <1>5, <1>6, <1>7, <1>8, <1>9, <1>10, <1>11, <1>12, <1>13, <1>14, <1>15, <1>16,
     <1>17, <1>18, <1>19, <1>20, <1>21, <1>22, <1>23, <1>24 DEF BufNext

\* The invariant says what the property says.
LEMMA BufShows ==
  ASSUME ByteConstants, BufInv
  PROVE  BufferIsSequence
<1>0. PICK V : BufOver(V)
  BY DEF BufInv
<1>1. /\ buf.buffer \in Seq(V) /\ buf.len \in Nat /\ buf.capacity \in Nat /\ Len(buf.buffer) = buf.capacity
      /\ buf.len <= buf.capacity /\ contents \in Seq(V) /\ Len(contents) = buf.len
      /\ \A i \in 1 .. buf.len : buf.buffer[i] = contents[i]
      /\ output.ptr + output.capacity <= buf.len
  BY <1>0, BufState
<1>2. Usable(cursor) => Reads(cursor) = denotes
  BY <1>0, CursorReads
<1>3. PICK p : p = SubSeq(buf.buffer, 1, buf.len)
  OBVIOUS
<1>4. p \in Seq(V) /\ Cut(buf.buffer, 0, buf.len, p)
  <2>1. 0 \in Nat /\ 0 <= buf.len /\ buf.len <= Len(buf.buffer) /\ p = SubSeq(buf.buffer, 0 + 1, buf.len)
    BY <1>1, <1>3
  <2> QED BY <1>1, <2>1, CutFacts
<1>5. Len(p) = Len(contents) /\ \A i \in 1 .. Len(p) : p[i] = contents[i]
  BY <1>1, <1>4 DEF Cut
<1>6. p = contents
  BY <1>1, <1>4, <1>5, SeqEqual
<1> QED BY <1>1, <1>2, <1>3, <1>6 DEF BufferIsSequence

\* The buffer holds exactly what the successful calls put there, through every growth,
\* also when it is appended to itself or written through a sub-buffer; a cursor denotes
\* the same bytes as long as its memory lives.
THEOREM BufferIsSequenceCorrect == ByteConstants => (BufSpec => []BufferIsSequence)
<1> SUFFICES ASSUME ByteConstants PROVE BufSpec => []BufferIsSequence
  OBVIOUS
<1>1. BufInit => BufInv
  BY BufStarts
<1>2. BufInv /\ [BufNext]_bufVars => BufInv'
  <2>1. ASSUME BufInv, UNCHANGED bufVars PROVE BufInv'
    <3>1. Fails
      BY <2>1 DEF Fails, bufVars
    <3> QED BY <2>1, <3>1, BufFailsKeeps DEF BufInv
  <2> QED BY <2>1, BufNextKeeps
<1>3. BufInv => BufferIsSequence
  BY BufShows
<1> QED BY <1>1, <1>2, <1>3, PTL DEF BufSpec
=============================================================================
