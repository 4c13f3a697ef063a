-------------------------- MODULE RingBufferProofs --------------------------
(***************************************************************************)
(* For every size of the allocation: the buffers of a ring buffer are      *)
(* disjoint, equal pointers mean an empty ring, and a call gets as much    *)
(* as there is.                                                            *)
(***************************************************************************)
EXTENDS RingBuffer, TLAPS

IInv == TypeOK /\ RingInv

\* What both forms of acquire promise about the place of a buffer: in an empty
\* ring it starts the allocation; else it follows the head, or starts the
\* allocation when the head has not wrapped, and it ends before the tail if the
\* tail is above it.
LEMMA PlacementIsFree ==
    ASSUME NEW t \in Pointer, NEW h \in Pointer, NEW c \in Calls,
           NEW b \in Placement(c, t, h)
    PROVE  /\ b \in Buffers
           /\ t = h => b.lo = 0
           /\ h < t => b.lo = h /\ b.hi < t
           /\ t < h => \/ b.lo = h
                       \/ b.lo = 0 /\ b.hi < t
<1>1. c.minimum_size \in 1 .. RingSize + 1 /\ c.requested_size \in 1 .. RingSize + 1
      /\ c.minimum_size <= c.requested_size
  BY DEF Calls
<1>2. ASSUME NEW lo \in Pointer, NEW n \in Nat, b = Buf(lo, n), n > 0, lo + n <= RingSize
      PROVE  b \in Buffers /\ b.lo = lo /\ b.hi = lo + n
  BY <1>2, RingBufferAssumption DEF Buf, Buffers, Pointer
<1>3. \E lo \in Pointer, n \in Nat :
        /\ b = Buf(lo, n) /\ n > 0 /\ lo + n <= RingSize
        /\ t = h => lo = 0
        /\ h < t => lo = h /\ lo + n < t
        /\ t < h => lo = h \/ (lo = 0 /\ n < t)
  <2>1. CASE c.upto = "acquire"
    <3>1. b \in aws_ring_buffer_acquire(t, h, c.requested_size)
      BY <2>1 DEF Placement
    <3> QED
      BY <1>1, <3>1, RingBufferAssumption DEF aws_ring_buffer_acquire, Pointer
  <2>2. CASE c.upto # "acquire"
    <3>1. b \in aws_ring_buffer_acquire_up_to(t, h, c.minimum_size, c.requested_size)
      BY <2>2 DEF Placement
    <3> QED
      BY <1>1, <3>1, RingBufferAssumption DEF aws_ring_buffer_acquire_up_to, Lesser, Pointer
  <2> QED BY <2>1, <2>2
<1>4. PICK lo \in Pointer, n \in Nat :
        /\ b = Buf(lo, n) /\ n > 0 /\ lo + n <= RingSize
        /\ t = h => lo = 0
        /\ h < t => lo = h /\ lo + n < t
        /\ t < h => lo = h \/ (lo = 0 /\ n < t)
  BY <1>3
<1>5. b \in Buffers /\ b.lo = lo /\ b.hi = lo + n
  BY <1>2, <1>4
<1> QED BY <1>4, <1>5 DEF Pointer

----------------------------------------------------------------------------

LEMMA InitIInv == RingInit => IInv
<1> SUFFICES ASSUME RingInit PROVE IInv
  OBVIOUS
<1>1. TypeOK
  BY RingBufferAssumption DEF RingInit, TypeOK, HeadTailValid, Pointer
<1>2. RingInv
  BY DEF RingInit, RingInv
<1> QED BY <1>1, <1>2 DEF IInv

LEMMA AppendFacts ==
    ASSUME NEW v \in Seq(Buffers), NEW b \in Buffers
    PROVE  /\ Append(v, b) \in Seq(Buffers)
           /\ Append(v, b) # <<>>
           /\ Len(Append(v, b)) = Len(v) + 1
           /\ \A i \in 1 .. Len(v) : Append(v, b)[i] = v[i]
           /\ Append(v, b)[Len(v) + 1] = b
  OBVIOUS

LEMMA EmptyIffZero ==
    ASSUME NEW S, NEW v \in Seq(S)
    PROVE  v = <<>> <=> Len(v) = 0
  OBVIOUS

LEMMA TailFacts ==
    ASSUME NEW v \in Seq(Buffers), v # <<>>
    PROVE  /\ Tail(v) \in Seq(Buffers)
           /\ Len(v) \in Nat \ {0}
           /\ Len(Tail(v)) = Len(v) - 1
           /\ \A i \in 1 .. Len(v) - 1 : Tail(v)[i] = v[i + 1]
           /\ Head(v) = v[1]
           /\ v[1] \in Buffers
           /\ Tail(v) = <<>> <=> Len(v) = 1
<1>1. Len(v) \in Nat \ {0}
  OBVIOUS
<1>2. /\ Tail(v) \in Seq(Buffers)
      /\ Len(Tail(v)) = Len(v) - 1
  BY <1>1
<1>3. \A i \in 1 .. Len(v) - 1 : Tail(v)[i] = v[i + 1]
  BY <1>1
<1>4. Head(v) = v[1] /\ v[1] \in Buffers
  BY <1>1
<1>5. Tail(v) = <<>> <=> Len(v) = 1
  <2>1. Tail(v) = <<>> <=> Len(Tail(v)) = 0
    BY <1>2, EmptyIffZero
  <2> QED BY <1>1, <1>2, <2>1
<1> QED BY <1>1, <1>2, <1>3, <1>4, <1>5

----------------------------------------------------------------------------
(* One lemma per step of the two threads.                                  *)

LEMMA LoadTailStep ==
    ASSUME IInv, NEW c \in Calls, LoadTail(c)
    PROVE  IInv'
<1>1. TypeOK'
  BY DEF IInv, TypeOK, LoadTail, HeadTailValid
<1>2. (Straight <=> Straight') /\ (Wrapped <=> Wrapped')
  BY DEF LoadTail, Straight, Wrapped
<1>3. CopyBehind'
  BY DEF IInv, TypeOK, LoadTail, CopyBehind, Pointer
<1> QED BY <1>1, <1>2, <1>3 DEF IInv, RingInv, LoadTail

LEMMA FailsStep ==
    ASSUME IInv, Fails
    PROVE  IInv'
<1>1. TypeOK'
  BY DEF IInv, TypeOK, Fails, HeadTailValid
<1>2. (Straight <=> Straight') /\ (Wrapped <=> Wrapped')
  BY DEF Fails, Straight, Wrapped
<1> QED BY <1>1, <1>2 DEF IInv, RingInv, Fails

LEMMA StoreHeadStep ==
    ASSUME IInv, StoreHead
    PROVE  IInv'
<1> USE DEF Pointer
<1>0. /\ head \in Pointer /\ tail \in Pointer /\ tail_cpy \in Pointer
      /\ vended \in Seq(Buffers) /\ request \in Calls /\ pc = "loaded"
      /\ Len(vended) \in Nat
      /\ \A i \in 1 .. Len(vended) : vended[i] \in Buffers
  BY DEF IInv, TypeOK, StoreHead
<1>1. PICK b \in Placement(request, tail_cpy, head) :
         /\ head' = b.hi
         /\ IF head = tail_cpy
            THEN pc' = "store_tail" /\ dest' = b /\ UNCHANGED vended
            ELSE pc' = "idle" /\ vended' = Append(vended, b) /\ UNCHANGED dest
  BY DEF StoreHead
<1>2. /\ b \in Buffers
      /\ tail_cpy = head => b.lo = 0
      /\ head < tail_cpy => b.lo = head /\ b.hi < tail_cpy
      /\ tail_cpy < head => b.lo = head \/ (b.lo = 0 /\ b.hi < tail_cpy)
  BY <1>0, <1>1, PlacementIsFree
<1>3. b.lo \in Pointer /\ b.hi \in Pointer /\ b.lo < b.hi
  BY <1>2 DEF Buffers
<1>4. \A i \in 1 .. Len(vended) :
        vended[i].lo \in Pointer /\ vended[i].hi \in Pointer /\ vended[i].lo < vended[i].hi
  BY <1>0 DEF Buffers
<1>5. UNCHANGED <<tail, tail_cpy, request, life>>
  BY DEF StoreHead
<1>6. /\ head = tail <=> vended = <<>>
      /\ tail < head => Straight
      /\ head < tail => Wrapped
      /\ CopyBehind
  BY <1>0 DEF IInv, RingInv
<1>7. CASE head = tail_cpy
  <2>1. TypeOK'
    BY <1>0, <1>1, <1>2, <1>3, <1>5, <1>7 DEF IInv, TypeOK, HeadTailValid
  <2>2. vended' = <<>>
    BY <1>1, <1>6, <1>7 DEF CopyBehind
  <2>3. RingInv'
    BY <1>1, <1>2, <1>3, <1>7, <2>2 DEF RingInv
  <2> QED BY <2>1, <2>3 DEF IInv
<1>8. CASE head # tail_cpy
  <2> DEFINE L == Len(vended)
  <2>1. /\ vended' \in Seq(Buffers)
        /\ vended' # <<>>
        /\ Len(vended') = L + 1
        /\ \A i \in 1 .. L : vended'[i] = vended[i]
        /\ vended'[L + 1] = b
    BY <1>0, <1>1, <1>2, <1>8, AppendFacts
  <2>2. TypeOK'
    BY <1>0, <1>1, <1>3, <1>5, <1>8, <2>1 DEF IInv, TypeOK, HeadTailValid
  <2>3. /\ tail # head'
        /\ vended'[Len(vended')].hi = head'
    BY <1>0, <1>1, <1>2, <1>3, <1>6, <1>8, <2>1 DEF CopyBehind
  <2>4. L \in Nat
    BY <1>0
  <2>5. \A i \in 1 .. L + 1 : i \in 1 .. L \/ i = L + 1
    BY <2>4
  <2>9. head' = b.hi
    BY <1>1
  <2>10. \A i \in 1 .. L :
          vended[i].lo \in Pointer /\ vended[i].hi \in Pointer /\ vended[i].lo < vended[i].hi
    BY <1>4
  <2> HIDE DEF L
  <2>6. ASSUME tail < head' PROVE Straight'
    <3>1. tail <= head /\ b.lo = head
      BY <1>0, <1>1, <1>2, <1>3, <1>6, <1>8, <2>6 DEF CopyBehind
    <3>2. \A i \in 1 .. L : tail <= vended[i].lo /\ vended[i].hi <= head
      <4>1. CASE tail = head
        BY <1>6, <4>1 DEF L
      <4>2. CASE tail < head
        BY <1>6, <4>2 DEF Straight, L
      <4> QED BY <1>0, <3>1, <4>1, <4>2
    <3>3. \A i, j \in 1 .. L : i < j => vended[i].hi <= vended[j].lo
      <4>1. CASE tail = head
        BY <1>6, <4>1 DEF L
      <4>2. CASE tail < head
        BY <1>6, <4>2 DEF Straight, L
      <4> QED BY <1>0, <3>1, <4>1, <4>2
    <3>4. \A i \in 1 .. L + 1 : tail <= vended'[i].lo /\ vended'[i].hi <= head'
      BY <1>0, <1>1, <1>3, <2>10, <2>1, <2>5, <3>1, <3>2 DEF L
    <3>5. \A i, j \in 1 .. L + 1 : i < j => vended'[i].hi <= vended'[j].lo
      <4> SUFFICES ASSUME NEW i \in 1 .. L + 1, NEW j \in 1 .. L + 1, i < j
                   PROVE  vended'[i].hi <= vended'[j].lo
        OBVIOUS
      <4>1. i \in 1 .. L /\ vended'[i] = vended[i]
        BY <2>1, <2>4
      <4>2. CASE j \in 1 .. L
        BY <2>1, <3>3, <4>1, <4>2
      <4>3. CASE j = L + 1
        BY <2>1, <3>1, <3>2, <4>1, <4>3
      <4> QED BY <2>5, <4>2, <4>3
    <3> QED BY <1>5, <2>1, <3>4, <3>5 DEF Straight
  <2>7. ASSUME head' < tail PROVE Wrapped'
    <3>1. CASE b.lo = head
      <4>1. head < tail
        BY <1>0, <1>1, <1>3, <2>7, <3>1
      <4>2. /\ \A i \in 1 .. L : tail <= vended[i].lo \/ vended[i].hi <= head
            /\ \A i, j \in 1 .. L : i < j =>
                 /\ vended[i].hi <= head => vended[j].hi <= head /\ vended[i].hi <= vended[j].lo
                 /\ tail <= vended[j].lo => tail <= vended[i].lo /\ vended[i].hi <= vended[j].lo
        BY <1>6, <4>1 DEF Wrapped, L
      <4>3. \A i \in 1 .. L + 1 : tail <= vended'[i].lo \/ vended'[i].hi <= head'
        BY <1>0, <1>1, <1>3, <2>10, <2>1, <2>5, <3>1, <4>2
      <4>4. \A i \in 1 .. L : vended[i].hi <= head' => vended[i].hi <= head
        BY <1>0, <1>3, <2>10, <1>1, <2>7, <4>2
      <4>5. \A i, j \in 1 .. L + 1 : i < j =>
              /\ vended'[i].hi <= head' => vended'[j].hi <= head' /\ vended'[i].hi <= vended'[j].lo
              /\ tail <= vended'[j].lo => tail <= vended'[i].lo /\ vended'[i].hi <= vended'[j].lo
        <5> SUFFICES ASSUME NEW i \in 1 .. L + 1, NEW j \in 1 .. L + 1, i < j
                     PROVE  /\ vended'[i].hi <= head' => vended'[j].hi <= head' /\ vended'[i].hi <= vended'[j].lo
                            /\ tail <= vended'[j].lo => tail <= vended'[i].lo /\ vended'[i].hi <= vended'[j].lo
          OBVIOUS
        <5>1. i \in 1 .. L /\ vended'[i] = vended[i]
          BY <2>1, <2>4
        <5>2. CASE j \in 1 .. L
          <6>1. vended'[j] = vended[j]
            BY <2>1, <5>2
          <6>2. /\ vended[i].hi <= head => vended[j].hi <= head /\ vended[i].hi <= vended[j].lo
                /\ tail <= vended[j].lo => tail <= vended[i].lo /\ vended[i].hi <= vended[j].lo
            BY <4>2, <5>1, <5>2
          <6>3. vended[i].hi <= head' => vended[i].hi <= head
            BY <4>4, <5>1
          <6>4. vended[j].hi <= head => vended[j].hi <= head'
            BY <1>0, <1>3, <2>9, <2>10, <3>1, <5>2
          <6> QED BY <5>1, <6>1, <6>2, <6>3, <6>4
        <5>3. CASE j = L + 1
          BY <1>0, <1>1, <1>3, <2>10, <2>1, <2>7, <3>1, <4>1, <4>2, <4>4, <5>1, <5>3
        <5> QED BY <2>5, <5>2, <5>3
      <4> QED BY <1>5, <2>1, <4>3, <4>5 DEF Wrapped
    <3>2. CASE b.lo # head
      <4>1. tail_cpy < head /\ b.lo = 0 /\ b.hi < tail_cpy /\ tail_cpy <= tail /\ tail <= head
        BY <1>0, <1>2, <1>6, <1>8, <3>2 DEF CopyBehind
      <4>2. \A i \in 1 .. L : tail <= vended[i].lo /\ vended[i].hi <= head
        <5>1. CASE tail = head
          BY <1>6, <5>1 DEF L
        <5>2. CASE tail < head
          BY <1>6, <5>2 DEF Straight, L
        <5> QED BY <1>0, <4>1, <5>1, <5>2
      <4>3. \A i, j \in 1 .. L : i < j => vended[i].hi <= vended[j].lo
        <5>1. CASE tail = head
          BY <1>6, <5>1 DEF L
        <5>2. CASE tail < head
          BY <1>6, <5>2 DEF Straight, L
        <5> QED BY <1>0, <4>1, <5>1, <5>2
      <4>4. \A i \in 1 .. L + 1 : tail <= vended'[i].lo \/ vended'[i].hi <= head'
        BY <1>0, <1>1, <1>3, <2>10, <2>1, <2>5, <4>2
      <4>5. \A i, j \in 1 .. L + 1 : i < j =>
              /\ vended'[i].hi <= head' => vended'[j].hi <= head' /\ vended'[i].hi <= vended'[j].lo
              /\ tail <= vended'[j].lo => tail <= vended'[i].lo /\ vended'[i].hi <= vended'[j].lo
        <5> SUFFICES ASSUME NEW i \in 1 .. L + 1, NEW j \in 1 .. L + 1, i < j
                     PROVE  /\ vended'[i].hi <= head' => vended'[j].hi <= head' /\ vended'[i].hi <= vended'[j].lo
                            /\ tail <= vended'[j].lo => tail <= vended'[i].lo /\ vended'[i].hi <= vended'[j].lo
          OBVIOUS
        <5>1. i \in 1 .. L /\ vended'[i] = vended[i]
          BY <2>1, <2>4
        <5>2. CASE j \in 1 .. L
          <6>1. vended'[j] = vended[j]
            BY <2>1, <5>2
          <6>2. vended[i].hi <= vended[j].lo /\ tail <= vended[i].lo
            BY <4>2, <4>3, <5>1, <5>2
          <6>3. ~(vended[i].hi <= head')
            BY <1>0, <1>3, <2>7, <2>9, <2>10, <5>1, <6>2, SMTT(30)
          <6> QED BY <5>1, <6>1, <6>2, <6>3
        <5>3. CASE j = L + 1
          BY <1>0, <1>1, <1>3, <2>10, <2>1, <2>7, <4>1, <4>2, <5>1, <5>3
        <5> QED BY <2>5, <5>2, <5>3
      <4> QED BY <1>5, <2>1, <4>4, <4>5 DEF Wrapped
    <3> QED BY <3>1, <3>2
  <2>8. RingInv'
    BY <1>1, <1>5, <1>8, <2>1, <2>3, <2>6, <2>7 DEF RingInv
  <2> QED BY <2>2, <2>8 DEF IInv
<1> QED BY <1>7, <1>8

LEMMA StoreTailStep ==
    ASSUME IInv, StoreTail
    PROVE  IInv'
<1>1. /\ vended = <<>> /\ dest.lo = 0 /\ dest.hi = head /\ 0 < head
      /\ head \in Pointer /\ dest \in Buffers \cup {NoBuffer}
  BY DEF IInv, RingInv, TypeOK, StoreTail
<1>2. dest \in Buffers
  BY <1>1 DEF NoBuffer, Pointer
<1>3. vended' = <<dest>>
  BY <1>1 DEF StoreTail
<1>4. TypeOK'
  BY <1>1, <1>2, <1>3, RingBufferAssumption
     DEF IInv, TypeOK, StoreTail, HeadTailValid, Pointer
<1>5. Straight'
  BY <1>1, <1>2, <1>3 DEF Straight, StoreTail, Pointer
<1>6. RingInv'
  BY <1>1, <1>3, <1>5 DEF RingInv, StoreTail, Pointer
<1> QED BY <1>4, <1>6 DEF IInv

\* The oldest buffer is the first one above the tail, so the tail moves up to the
\* next buffer, to the head, or, when the last buffer above it is gone, around.
LEMMA ReleaseStep ==
    ASSUME IInv, aws_ring_buffer_release
    PROVE  IInv'
<1> DEFINE L == Len(vended)
<1>1. /\ head \in Pointer /\ tail \in Pointer /\ tail_cpy \in Pointer
      /\ vended \in Seq(Buffers) /\ vended # <<>>
      /\ pc \in {"idle", "loaded", "store_tail"}
  BY DEF IInv, TypeOK, aws_ring_buffer_release
<1>2. pc # "store_tail"
  BY <1>1 DEF IInv, RingInv
<1>3. /\ head # tail
      /\ vended[L].hi = head
      /\ tail < head => Straight
      /\ head < tail => Wrapped
      /\ pc = "loaded" => CopyBehind
  BY <1>1, <1>2 DEF IInv, RingInv
<1>4. /\ vended' \in Seq(Buffers)
      /\ L \in Nat \ {0}
      /\ Len(vended') = L - 1
      /\ \A i \in 1 .. L - 1 : vended'[i] = vended[i + 1]
      /\ tail' = vended[1].hi
      /\ vended' = <<>> <=> L = 1
  BY <1>1, TailFacts DEF aws_ring_buffer_release
<1>5. \A i \in 1 .. L :
        vended[i].lo \in Pointer /\ vended[i].hi \in Pointer /\ vended[i].lo < vended[i].hi
  BY <1>1 DEF Buffers
<1>6. UNCHANGED <<head, tail_cpy, request, pc, dest, life>>
  BY DEF aws_ring_buffer_release
<1> HIDE DEF L
<1>7. 1 \in 1 .. L /\ L \in 1 .. L
  BY <1>4
<1>8. tail' \in Pointer /\ 0 < tail'
  BY <1>4, <1>5, <1>7 DEF Pointer
<1>9. head # 0
  BY <1>3, <1>5, <1>7 DEF Pointer
<1>10. TypeOK'
  BY <1>4, <1>6, <1>8, <1>9 DEF IInv, TypeOK, HeadTailValid
<1>11. ASSUME L # 1
       PROVE  2 \in 1 .. L /\ 1 < L
  BY <1>4, <1>11
<1>12. CASE tail < head
  <2>1. /\ \A i \in 1 .. L : tail <= vended[i].lo /\ vended[i].hi <= head
        /\ \A i, j \in 1 .. L : i < j => vended[i].hi <= vended[j].lo
    BY <1>3, <1>12 DEF Straight, L
  <2>2. tail < tail' /\ tail' <= head
    <3>1. tail <= vended[1].lo /\ vended[1].hi <= head
      BY <1>7, <2>1
    <3>2. vended[1].lo \in Pointer /\ vended[1].hi \in Pointer /\ vended[1].lo < vended[1].hi
      BY <1>5, <1>7
    <3>3. tail' = vended[1].hi /\ tail \in Pointer /\ head \in Pointer
      BY <1>1, <1>4
    <3> QED BY <3>1, <3>2, <3>3 DEF Pointer
  <2>3. head = tail' <=> L = 1
    <3>1. L # 1 => vended[1].hi <= vended[2].lo /\ vended[2].hi <= head
      BY <1>7, <1>11, <2>1
    <3> QED BY <1>1, <1>3, <1>4, <1>5, <1>7, <1>11, <3>1 DEF Pointer
  <2>4. Straight'
    <3>1. ASSUME NEW i \in 1 .. L - 1
          PROVE  tail' <= vended'[i].lo /\ vended'[i].hi <= head
      <4>1. i + 1 \in 1 .. L /\ 1 < i + 1 /\ vended'[i] = vended[i + 1]
        BY <1>4
      <4> QED BY <1>4, <1>7, <2>1, <4>1
    <3>2. \A i, j \in 1 .. L - 1 : i < j => vended'[i].hi <= vended'[j].lo
      BY <1>4, <2>1
    <3> QED BY <1>4, <1>6, <3>1, <3>2 DEF Straight
  <2>5. L # 1 => vended'[Len(vended')].hi = head
    BY <1>3, <1>4, <1>7
  <2>6. pc = "loaded" => CopyBehind'
    BY <1>1, <1>3, <1>6, <1>8, <2>2, <1>12 DEF CopyBehind, Pointer
  <2>7. ~(head < tail')
    BY <1>1, <1>8, <2>2 DEF Pointer
  <2>8. RingInv'
    BY <1>2, <1>4, <1>6, <2>3, <2>4, <2>5, <2>6, <2>7 DEF RingInv
  <2> QED BY <1>10, <2>8 DEF IInv
<1>13. CASE head < tail
  <2>1. /\ \A i \in 1 .. L : tail <= vended[i].lo \/ vended[i].hi <= head
        /\ \A i, j \in 1 .. L : i < j =>
             /\ vended[i].hi <= head => vended[j].hi <= head /\ vended[i].hi <= vended[j].lo
             /\ tail <= vended[j].lo => tail <= vended[i].lo /\ vended[i].hi <= vended[j].lo
    BY <1>3, <1>13 DEF Wrapped, L
  <2>2. L # 1 => vended'[Len(vended')].hi = head
    BY <1>3, <1>4, <1>7
  <2>3. CASE tail <= vended[1].lo
    <3>1. tail < tail' /\ head < tail'
      BY <1>1, <1>4, <1>5, <1>7, <1>13, <2>3 DEF Pointer
    <3>2. L # 1
      BY <1>1, <1>3, <1>4, <1>8, <3>1 DEF Pointer
    <3>3. \A i \in 1 .. L - 1 : tail' <= vended'[i].lo \/ vended'[i].hi <= head
      BY <1>4, <1>7, <2>1
    <3>4. \A i, j \in 1 .. L - 1 : i < j =>
             /\ vended'[i].hi <= head => vended'[j].hi <= head /\ vended'[i].hi <= vended'[j].lo
             /\ tail' <= vended'[j].lo => tail' <= vended'[i].lo /\ vended'[i].hi <= vended'[j].lo
      <4> SUFFICES ASSUME NEW i \in 1 .. L - 1, NEW j \in 1 .. L - 1, i < j
                   PROVE  /\ vended'[i].hi <= head => vended'[j].hi <= head /\ vended'[i].hi <= vended'[j].lo
                          /\ tail' <= vended'[j].lo => tail' <= vended'[i].lo /\ vended'[i].hi <= vended'[j].lo
        OBVIOUS
      <4>1. /\ i + 1 \in 1 .. L /\ j + 1 \in 1 .. L /\ i + 1 < j + 1 /\ 1 < i + 1
            /\ vended'[i] = vended[i + 1] /\ vended'[j] = vended[j + 1]
        BY <1>4
      <4>2. /\ vended[i + 1].hi <= head => vended[j + 1].hi <= head /\ vended[i + 1].hi <= vended[j + 1].lo
            /\ tail <= vended[j + 1].lo => tail <= vended[i + 1].lo /\ vended[i + 1].hi <= vended[j + 1].lo
        BY <2>1, <4>1
      <4>3. tail <= vended[i + 1].lo => tail' <= vended[i + 1].lo
        BY <1>4, <1>7, <2>1, <4>1
      <4>4. tail' <= vended[j + 1].lo => tail <= vended[j + 1].lo
        BY <1>1, <1>5, <1>8, <3>1, <4>1 DEF Pointer
      <4> QED BY <4>1, <4>2, <4>3, <4>4
    <3>5. Wrapped'
      BY <1>4, <1>6, <3>3, <3>4 DEF Wrapped
    <3>6. pc = "loaded" => CopyBehind'
      BY <1>1, <1>3, <1>6, <1>8, <3>1, <1>13 DEF CopyBehind, Pointer
    <3>7. ~(tail' < head) /\ head # tail'
      BY <1>1, <1>8, <3>1 DEF Pointer
    <3>8. RingInv'
      BY <1>2, <1>4, <1>6, <2>2, <3>2, <3>5, <3>6, <3>7 DEF RingInv
    <3> QED BY <1>10, <3>8 DEF IInv
  <2>4. CASE ~(tail <= vended[1].lo)
    <3>1. vended[1].hi <= head
      BY <1>7, <2>1, <2>4
    <3>2. tail' <= head
      BY <1>4, <3>1
    <3>3. \A i \in 1 .. L : 1 < i => vended[i].hi <= head /\ vended[1].hi <= vended[i].lo
      BY <1>7, <2>1, <3>1
    <3>4. head = tail' <=> L = 1
      BY <1>1, <1>3, <1>4, <1>5, <1>7, <1>11, <3>3 DEF Pointer
    <3>5. Straight'
      <4>1. \A i \in 1 .. L - 1 : tail' <= vended'[i].lo /\ vended'[i].hi <= head
        BY <1>4, <3>3
      <4>2. \A i, j \in 1 .. L - 1 : i < j => vended'[i].hi <= vended'[j].lo
        <5> SUFFICES ASSUME NEW i \in 1 .. L - 1, NEW j \in 1 .. L - 1, i < j
                     PROVE  vended'[i].hi <= vended'[j].lo
          OBVIOUS
        <5>1. /\ i + 1 \in 1 .. L /\ j + 1 \in 1 .. L /\ i + 1 < j + 1 /\ 1 < i + 1
              /\ vended'[i] = vended[i + 1] /\ vended'[j] = vended[j + 1]
          BY <1>4
        <5>2. vended[i + 1].hi <= head
          BY <3>3, <5>1
        <5> QED BY <2>1, <5>1, <5>2
      <4> QED BY <1>4, <1>6, <4>1, <4>2 DEF Straight
    <3>6. pc = "loaded" => CopyBehind'
      BY <1>1, <1>3, <1>6, <1>8, <3>2, <1>13 DEF CopyBehind, Pointer
    <3>7. ~(head < tail')
      BY <1>1, <1>8, <3>2 DEF Pointer
    <3>8. RingInv'
      BY <1>2, <1>4, <1>6, <2>2, <3>4, <3>5, <3>6, <3>7 DEF RingInv
    <3> QED BY <1>10, <3>8 DEF IInv
  <2> QED BY <2>3, <2>4
<1> QED BY <1>1, <1>3, <1>12, <1>13 DEF Pointer

LEMMA CleanUpStep ==
    ASSUME IInv, aws_ring_buffer_clean_up
    PROVE  IInv'
<1>1. TypeOK'
  BY RingBufferAssumption DEF IInv, TypeOK, aws_ring_buffer_clean_up, HeadTailValid, Pointer
<1>2. RingInv'
  BY DEF IInv, RingInv, aws_ring_buffer_clean_up
<1> QED BY <1>1, <1>2 DEF IInv

LEMMA NextIInv == IInv /\ [RingNext]_ringVars => IInv'
<1> SUFFICES ASSUME IInv, [RingNext]_ringVars PROVE IInv'
  OBVIOUS
<1>1. CASE \E c \in Calls : LoadTail(c)
  BY <1>1, LoadTailStep
<1>2. CASE Fails
  BY <1>2, FailsStep
<1>3. CASE StoreHead
  BY <1>3, StoreHeadStep
<1>4. CASE StoreTail
  BY <1>4, StoreTailStep
<1>5. CASE aws_ring_buffer_release
  BY <1>5, ReleaseStep
<1>6. CASE aws_ring_buffer_clean_up
  BY <1>6, CleanUpStep
<1>7. CASE UNCHANGED ringVars
  BY <1>7 DEF ringVars, IInv, TypeOK, HeadTailValid, RingInv, Straight, Wrapped, CopyBehind
<1> QED BY <1>1, <1>2, <1>3, <1>4, <1>5, <1>6, <1>7 DEF RingNext

LEMMA Invariance == RingSpec => []IInv
<1>1. RingInit => IInv
  BY InitIInv
<1>2. IInv /\ [RingNext]_ringVars => IInv'
  BY NextIInv
<1> QED BY <1>1, <1>2, PTL DEF RingSpec

----------------------------------------------------------------------------
(* What fits, in numbers, and what the calls return.                       *)

LEMMA FitsBound ==
    ASSUME NEW t \in Pointer, NEW h \in Pointer, NEW b \in Fits(t, h)
    PROVE  /\ b.lo \in Pointer /\ b.hi \in Pointer /\ b.lo < b.hi
           /\ h < t => b.hi - b.lo <= t - h - 1
           /\ t < h => b.hi - b.lo <= RingSize - h \/ b.hi - b.lo <= t - 1
<1>1. b.lo \in Pointer /\ b.hi \in Pointer /\ b.lo < b.hi
  BY DEF Fits, Buffers
<1>2. /\ b.lo = h \/ b.lo = 0
      /\ \A x \in b.lo .. b.hi - 1 : ~InUse(x, t, h)
      /\ h # t => b.hi # t
  BY DEF Fits
<1>3. CASE h < t
  <2>1. b.lo = h
    <3>1. b.lo \in b.lo .. b.hi - 1
      BY <1>1 DEF Pointer
    <3>2. ~InUse(b.lo, t, h)
      BY <1>2, <3>1
    <3> QED BY <1>1, <1>2, <1>3, <3>2 DEF InUse, Pointer
  <2>2. b.hi - 1 \in b.lo .. b.hi - 1
    BY <1>1 DEF Pointer
  <2>3. ~InUse(b.hi - 1, t, h)
    BY <1>2, <2>2
  <2> QED BY <1>1, <1>2, <1>3, <2>1, <2>3 DEF InUse, Pointer
<1>4. CASE t < h
  <2>1. CASE b.lo = h
    BY <1>1, <1>4, <2>1, RingBufferAssumption DEF Pointer
  <2>2. CASE b.lo = 0
    <3>1. CASE t \in b.lo .. b.hi - 1
      BY <1>2, <1>4, <3>1 DEF InUse, Pointer
    <3>2. CASE t \notin b.lo .. b.hi - 1
      BY <1>1, <1>2, <1>4, <2>2, <3>2 DEF Pointer
    <3> QED BY <3>1, <3>2
  <2> QED BY <1>2, <2>1, <2>2
<1> QED BY <1>1, <1>3, <1>4 DEF Pointer

LEMMA BufLength ==
    ASSUME NEW lo \in Int, NEW n \in Int
    PROVE  Buf(lo, n).hi - Buf(lo, n).lo = n
  BY DEF Buf

LEMMA Greedy ==
    ASSUME NEW t \in Pointer, NEW h \in Pointer, NEW c \in Calls, NEW b \in Fits(t, h)
    PROVE  \/ b.hi - b.lo < c.minimum_size
           \/ \E a \in Placement(c, t, h) :
                 a.hi - a.lo >= Lesser(b.hi - b.lo, c.requested_size)
<1>1. /\ c.minimum_size \in 1 .. RingSize + 1 /\ c.requested_size \in 1 .. RingSize + 1
      /\ c.minimum_size <= c.requested_size
      /\ c.upto = "acquire" => c.minimum_size = c.requested_size
  BY DEF Calls
<1> DEFINE k == b.hi - b.lo
           m == c.minimum_size
           n == c.requested_size
<1>2. /\ k \in Int /\ k >= 1 /\ k <= RingSize
      /\ h < t => k <= t - h - 1
      /\ t < h => k <= RingSize - h \/ k <= t - 1
  BY FitsBound, RingBufferAssumption DEF Pointer
<1>3. m \in Nat /\ n \in Nat /\ m <= n /\ t \in Nat /\ h \in Nat /\ RingSize \in Nat
  BY <1>1, RingBufferAssumption DEF Pointer
<1> SUFFICES ASSUME k >= m
             PROVE  \E a \in Placement(c, t, h) : a.hi - a.lo >= Lesser(k, n)
  BY <1>2, <1>3
<1> HIDE DEF k, m, n
<1>4. CASE c.upto = "acquire"
  <2>1. m = n
    BY <1>1, <1>4 DEF m, n
  <2>2. \E lo \in {0, h} : Buf(lo, n) \in aws_ring_buffer_acquire(t, h, n)
    BY <1>2, <1>3, <2>1 DEF aws_ring_buffer_acquire
  <2>3. PICK lo \in {0, h} : Buf(lo, n) \in aws_ring_buffer_acquire(t, h, n)
    BY <2>2
  <2>4. Buf(lo, n) \in Placement(c, t, h)
    BY <1>4, <2>3 DEF Placement, n
  <2>5. Buf(lo, n).hi - Buf(lo, n).lo >= Lesser(k, n)
    BY <1>2, <1>3, BufLength DEF Lesser
  <2> QED BY <2>4, <2>5
<1>5. CASE c.upto # "acquire"
  <2>1. \E lo \in {0, h}, l \in Nat :
          Buf(lo, l) \in aws_ring_buffer_acquire_up_to(t, h, m, n) /\ l >= Lesser(k, n)
    <3>1. CASE h = t
      <4>1. Buf(0, Lesser(RingSize, n)) \in aws_ring_buffer_acquire_up_to(t, h, m, n)
        BY <1>2, <1>3, <3>1 DEF aws_ring_buffer_acquire_up_to, Lesser
      <4>2. Lesser(RingSize, n) \in Nat /\ Lesser(RingSize, n) >= Lesser(k, n)
        BY <1>2, <1>3 DEF Lesser
      <4> QED BY <4>1, <4>2
    <3>2. CASE h < t
      <4>1. Buf(h, Lesser(t - h - 1, n)) \in aws_ring_buffer_acquire_up_to(t, h, m, n)
        BY <1>2, <1>3, <3>2 DEF aws_ring_buffer_acquire_up_to, Lesser
      <4>2. Lesser(t - h - 1, n) \in Nat /\ Lesser(t - h - 1, n) >= Lesser(k, n)
        BY <1>2, <1>3, <3>2 DEF Lesser
      <4> QED BY <4>1, <4>2
    <3>3. CASE t < h
      <4> DEFINE result == aws_ring_buffer_acquire_up_to(t, h, m, n)
      <4>1. \/ Buf(h, n) \in result
            \/ Buf(0, n) \in result
            \/ Buf(h, RingSize - h) \in result /\ RingSize - h >= t
            \/ Buf(0, t - 1) \in result /\ t >= 1 /\ (RingSize - h < m \/ RingSize - h < t)
        BY <1>2, <1>3, <3>3 DEF aws_ring_buffer_acquire_up_to
      <4>2. RingSize - h \in Nat
        BY <1>3 DEF Pointer
      <4> HIDE DEF result
      <4>3. n >= Lesser(k, n)
        BY <1>2, <1>3 DEF Lesser
      <4>4. CASE Buf(h, n) \in result
        BY <1>3, <4>3, <4>4 DEF result
      <4>5. CASE Buf(0, n) \in result
        BY <1>3, <4>3, <4>5 DEF result
      <4>6. CASE Buf(h, RingSize - h) \in result /\ RingSize - h >= t
        <5>1. RingSize - h >= Lesser(k, n)
          BY <1>2, <1>3, <3>3, <4>6 DEF Lesser
        <5> QED BY <4>2, <4>6, <5>1 DEF result
      <4>7. CASE Buf(0, t - 1) \in result /\ t >= 1 /\ (RingSize - h < m \/ RingSize - h < t)
        <5>1. t - 1 \in Nat /\ t - 1 >= Lesser(k, n)
          BY <1>2, <1>3, <3>3, <4>7 DEF Lesser
        <5> QED BY <4>7, <5>1 DEF result
      <4> QED BY <4>1, <4>4, <4>5, <4>6, <4>7
    <3> QED BY <1>3, <3>1, <3>2, <3>3
  <2>2. PICK lo \in {0, h}, l \in Nat :
          Buf(lo, l) \in aws_ring_buffer_acquire_up_to(t, h, m, n) /\ l >= Lesser(k, n)
    BY <2>1
  <2>3. Buf(lo, l) \in Placement(c, t, h)
    BY <1>5, <2>2 DEF Placement, m, n
  <2>4. Buf(lo, l).hi - Buf(lo, l).lo = l
    BY <1>3, BufLength
  <2> QED BY <2>2, <2>3, <2>4
<1> QED BY <1>4, <1>5

----------------------------------------------------------------------------
(* Theorems                                                                *)

\* The pointers stay inside the allocation and pass aws_ring_buffer_is_valid at
\* every single step of the two threads, for every size of the allocation.
THEOREM TypeCorrect == RingSpec => []TypeOK
<1>1. IInv => TypeOK
  BY DEF IInv
<1> QED BY <1>1, Invariance, PTL

\* No byte is ever vended twice and none outside the allocation, for every size of it and
\* every interleaving of aws_ring_buffer_acquire, acquire_up_to and release.
THEOREM BuffersDisjointCorrect == RingSpec => []BuffersDisjoint
<1>1. IInv => BuffersDisjoint
  <2> SUFFICES ASSUME IInv PROVE BuffersDisjoint
    OBVIOUS
  <2>1. pc = "store_tail" => vended = <<>>
    BY DEF IInv, RingInv
  <2>2. ASSUME NEW i \in 1 .. Len(vended), NEW j \in 1 .. Len(vended), i < j
        PROVE  Disjoint(vended[i], vended[j])
    <3>1. vended \in Seq(Buffers) /\ head \in Pointer /\ tail \in Pointer
      BY DEF IInv, TypeOK
    <3>2. /\ vended[i].lo \in Pointer /\ vended[i].hi \in Pointer
          /\ vended[j].lo \in Pointer /\ vended[j].hi \in Pointer
      BY <2>2, <3>1 DEF Buffers
    <3>3. vended # <<>> /\ pc # "store_tail"
      BY <2>1, <2>2
    <3>4. head # tail /\ (tail < head => Straight) /\ (head < tail => Wrapped)
      BY <3>3 DEF IInv, RingInv
    <3>5. CASE tail < head
      BY <2>2, <3>4, <3>5 DEF Straight, Disjoint
    <3>6. CASE head < tail
      <4>1. /\ tail <= vended[i].lo \/ vended[i].hi <= head
            /\ tail <= vended[j].lo \/ vended[j].hi <= head
            /\ vended[i].hi <= head => vended[i].hi <= vended[j].lo
            /\ tail <= vended[j].lo => vended[i].hi <= vended[j].lo
        BY <2>2, <3>4, <3>6 DEF Wrapped
      <4> QED BY <3>1, <3>2, <3>6, <4>1 DEF Disjoint, Pointer
    <3> QED BY <3>1, <3>4, <3>5, <3>6 DEF Pointer
  <2>3. \A i, j \in 1 .. Len(vended) : i # j => Disjoint(vended[i], vended[j])
    <3> SUFFICES ASSUME NEW i \in 1 .. Len(vended), NEW j \in 1 .. Len(vended), i # j
                 PROVE  Disjoint(vended[i], vended[j])
      OBVIOUS
    <3>1. i < j \/ j < i
      BY DEF IInv, TypeOK
    <3> QED BY <2>2, <3>1 DEF Disjoint
  <2>4. \A i \in 1 .. Len(vended) : vended[i] \in Buffers
    BY DEF IInv, TypeOK
  <2> QED BY <2>1, <2>3, <2>4 DEF BuffersDisjoint
<1> QED BY <1>1, Invariance, PTL

\* A full ring is never mistaken for an empty one nor an empty one for a full one
\* (the first branch of acquire), for every size of the allocation.
THEOREM EqualMeansEmptyCorrect == RingSpec => []EqualMeansEmpty
<1>1. IInv => EqualMeansEmpty
  BY DEF IInv, RingInv, EqualMeansEmpty
<1> QED BY <1>1, Invariance, PTL

\* A request is refused only when nothing of the minimum size fits, and gets as
\* much of what it asked for as fits: both forms of acquire, any ring size.
THEOREM VendsAsMuchAsPossibleCorrect == RingSpec => []VendsAsMuchAsPossible
<1>1. IInv => VendsAsMuchAsPossible
  <2> SUFFICES ASSUME IInv, pc = "loaded", NEW b \in Fits(tail_cpy, head)
               PROVE  \/ b.hi - b.lo < request.minimum_size
                      \/ \E a \in Placement(request, tail_cpy, head) :
                            a.hi - a.lo >= Lesser(b.hi - b.lo, request.requested_size)
    BY DEF VendsAsMuchAsPossible
  <2>1. tail_cpy \in Pointer /\ head \in Pointer /\ request \in Calls
    BY DEF IInv, TypeOK
  <2> QED BY <2>1, Greedy
<1> QED BY <1>1, Invariance, PTL
=============================================================================
