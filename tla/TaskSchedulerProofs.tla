------------------------- MODULE TaskSchedulerProofs -------------------------
(***************************************************************************)
(* The task scheduler holds every scheduled task exactly once, runs exactly*)
(* what is due, in order, and reports the right next_task_time, for every  *)
(* set of tasks, width of the clock and capacity of timed_queue.           *)
(***************************************************************************)
EXTENDS TaskScheduler, ListLemmas

----------------------------------------------------------------------------
(* The inductive invariant                                                 *)

Asap == ToSet(asap_list)
Fallback == ToSet(timed_list)
InPass == ToSet(running_list)

Type == TypeOK /\ IsFiniteSet(timed_queue)

\* A scheduled task is in one of the four places and there once.
Held ==
    /\ Distinct(asap_list) /\ Distinct(timed_list) /\ Distinct(running_list)
    /\ Asap \cap Fallback = {} /\ Asap \cap InPass = {} /\ Fallback \cap InPass = {}
    /\ timed_queue \cap (Asap \cup Fallback \cup InPass) = {}
    /\ scheduled = Asap \cup Fallback \cup InPass \cup timed_queue

InTimeOrder(list) == \A a, b : Precedes(list, a, b) => timestamp[a] <= timestamp[b]

Ordered ==
    /\ InTimeOrder(timed_list) /\ InTimeOrder(running_list)
    /\ \A t \in Asap : timestamp[t] = 0

Control ==
    /\ callback # NoTask => phase = "running"
    /\ phase = "idle" => running_list = <<>>
    /\ phase \in {"moving", "draining"} => asap_list = <<>> /\ fresh = {}
    /\ life = "closed" => phase = "idle" /\ scheduled = {}

\* What s_run_all has taken is due and no later than what it has left.
Pass ==
    /\ phase \in {"moving", "draining"} =>
           /\ \A r \in InPass : timestamp[r] <= current_time
           /\ \A r \in InPass, t \in Fallback \cup timed_queue : timestamp[r] <= timestamp[t]
    /\ phase = "draining" => \A t \in Fallback : timestamp[t] > current_time
    /\ PassIsExact

IInv == Type /\ Held /\ Ordered /\ Control /\ Pass

----------------------------------------------------------------------------

\* What the invariant says of the elements of the lists.
LEMMA Elements ==
  ASSUME Type
  PROVE  /\ Asap \subseteq Task /\ Fallback \subseteq Task /\ InPass \subseteq Task
         /\ timed_queue \subseteq Task
         /\ \A t \in Task : timestamp[t] \in Nat /\ timestamp[t] <= UINT64_MAX
         /\ UINT64_MAX \in Nat /\ current_time \in Nat
         /\ Asap = {} <=> asap_list = <<>>
         /\ Fallback = {} <=> timed_list = <<>>
         /\ InPass = {} <=> running_list = <<>>
         /\ \A t : Linked(t) <=> t \in Asap \cup Fallback \cup InPass
<1>1. asap_list \in Seq(Task) /\ timed_list \in Seq(Task) /\ running_list \in Seq(Task)
  BY DEF Type, TypeOK
<1>2. /\ Asap \subseteq Task /\ Fallback \subseteq Task /\ InPass \subseteq Task
      /\ Asap = {} <=> asap_list = <<>>
      /\ Fallback = {} <=> timed_list = <<>>
      /\ InPass = {} <=> running_list = <<>>
  BY <1>1, ListFacts DEF Asap, Fallback, InPass
<1>3. \A t : Linked(t) <=> t \in Asap \cup Fallback \cup InPass
  BY <1>1, ListFacts DEF Asap, Fallback, InPass, Linked
<1>4. timed_queue \subseteq Task
  BY DEF Type, TypeOK
<1>5. /\ \A t \in Task : timestamp[t] \in Nat /\ timestamp[t] <= UINT64_MAX
      /\ UINT64_MAX \in Nat /\ current_time \in Nat
  BY TaskSchedulerAssumption DEF Type, TypeOK, Time
<1> QED BY <1>2, <1>3, <1>4, <1>5

\* timed_queue has a top unless it is empty.
LEMMA TopExists ==
  ASSUME Type, timed_queue # {}
  PROVE  \E t \in Tops(timed_queue) : TRUE
<1> DEFINE T == {timestamp[t] : t \in timed_queue}
<1>1. T \in SUBSET Nat /\ T # {}
  BY Elements
<1>2. Min(T) \in T /\ \A y \in T : Min(T) <= y
  <2> HIDE DEF T
  <2> QED BY <1>1, MinIsLeast
<1>3. PICK t \in timed_queue : timestamp[t] = Min(T)
  BY <1>2
<1> QED BY <1>2, <1>3 DEF Tops

\* Taking an element from timed_queue keeps it within its capacity.
LEMMA QueueShrinks ==
  ASSUME Type, NEW t
  PROVE  IsFiniteSet(timed_queue \ {t}) /\ Cardinality(timed_queue \ {t}) <= QueueCapacity
<1>1. IsFiniteSet(timed_queue) /\ Cardinality(timed_queue) <= QueueCapacity
  BY DEF Type, TypeOK
<1>2. IsFiniteSet(timed_queue \ {t}) /\ Cardinality(timed_queue \ {t}) <= Cardinality(timed_queue)
  BY <1>1, FS_RemoveElement, FS_CardinalityType
<1>3. Cardinality(timed_queue) \in Nat /\ Cardinality(timed_queue \ {t}) \in Nat
  BY <1>1, <1>2, FS_CardinalityType
<1> QED BY <1>1, <1>2, <1>3, TaskSchedulerAssumption

\* aws_task_scheduler_schedule_now, called from user code.
LEMMA ScheduleNowStep ==
  ASSUME IInv, NEW t \in Task, UserCode, aws_task_scheduler_schedule_now(t),
         UNCHANGED <<running_list, phase, current_time, status, callback, life>>
  PROVE  IInv'
<1> USE DEF IInv
<1>1. /\ t \notin scheduled /\ asap_list' = Append(asap_list, t)
      /\ timestamp' = [timestamp EXCEPT ![t] = 0]
      /\ scheduled' = scheduled \cup {t} /\ fresh' = fresh \cup {t}
      /\ UNCHANGED <<timed_list, timed_queue>>
  BY DEF aws_task_scheduler_schedule_now
<1>2. t \notin Asap /\ t \notin Fallback /\ t \notin InPass /\ t \notin timed_queue
  BY <1>1 DEF Held
<1>3. /\ asap_list' \in Seq(Task) /\ Distinct(asap_list') /\ Asap' = Asap \cup {t}
      /\ Fallback' = Fallback /\ InPass' = InPass
  BY <1>1, <1>2, AppendList DEF Type, TypeOK, Held, Asap, Fallback, InPass
<1>4. /\ timestamp' \in [Task -> Time] /\ timestamp'[t] = 0
      /\ \A u \in Task : u # t => timestamp'[u] = timestamp[u]
  BY <1>1, TaskSchedulerAssumption DEF Type, TypeOK, Time
<1>5. phase \in {"idle", "running"} /\ life # "closed"
  BY DEF UserCode, Control
<1>6. Type'
  BY <1>1, <1>3, <1>4 DEF Type, TypeOK
<1>7. Held'
  BY <1>1, <1>2, <1>3 DEF Held
<1>8. Ordered'
  <2>1. InTimeOrder(timed_list)' /\ InTimeOrder(running_list)'
    BY <1>1, <1>2, <1>4, Elements DEF Ordered, InTimeOrder, Precedes, Fallback, InPass, ToSet
  <2> QED BY <1>3, <1>4, <2>1, Elements DEF Ordered
<1>9. Control'
  BY <1>5 DEF Control
<1>10. Pass'
  BY <1>1, <1>2, <1>3, <1>4, <1>5, Elements DEF Pass, PassIsExact, Held, InPass
<1> QED BY <1>6, <1>7, <1>8, <1>9, <1>10

\* The sorted insertion puts a task after all that are not later and before all that are.
LEMMA InsertionPoint ==
  ASSUME IInv, NEW t \in Task, t \notin scheduled, NEW time \in Time
  PROVE  /\ InsertIntoTimedList(t, time) \in Seq(Task)
         /\ Distinct(InsertIntoTimedList(t, time))
         /\ ToSet(InsertIntoTimedList(t, time)) = Fallback \cup {t}
         /\ \A a, b : Precedes(InsertIntoTimedList(t, time), a, b) =>
                \/ Precedes(timed_list, a, b)
                \/ b = t /\ a \in Fallback /\ timestamp[a] <= time
                \/ a = t /\ b \in Fallback /\ time <= timestamp[b]
<1> USE DEF IInv
<1> DEFINE later == {i \in DOMAIN timed_list : timestamp[timed_list[i]] > time}
           k == IF later = {} THEN Len(timed_list) + 1 ELSE Min(later)
<1>1. timed_list \in Seq(Task) /\ Distinct(timed_list) /\ t \notin Fallback /\ time \in Nat
  BY DEF Type, TypeOK, Held, Time
<1>2. DOMAIN timed_list = 1 .. Len(timed_list) /\ Len(timed_list) \in Nat
  BY <1>1, LenProperties
<1>3. \A i \in DOMAIN timed_list : timed_list[i] \in Fallback /\ timestamp[timed_list[i]] \in Nat
  BY Elements DEF Fallback, ToSet
<1>4. later # {} => Min(later) \in later /\ \A i \in later : Min(later) <= i
  <2>1. later \in SUBSET Nat
    BY <1>2
  <2> HIDE DEF later
  <2> QED BY <2>1, MinIsLeast
<1>5. k \in 1 .. Len(timed_list) + 1
  BY <1>2, <1>4
<1>6. \A i \in DOMAIN timed_list : i < k => timestamp[timed_list[i]] <= time
  <2> SUFFICES ASSUME NEW i \in DOMAIN timed_list, i < k, timestamp[timed_list[i]] > time PROVE FALSE
    BY <1>1, <1>3
  <2>1. i \in later /\ i \in Nat
    BY <1>2
  <2>2. Min(later) <= i /\ k = Min(later) /\ Min(later) \in Nat
    BY <1>2, <1>4, <2>1
  <2> HIDE DEF later, k
  <2> QED BY <2>1, <2>2
<1>7. \A i \in DOMAIN timed_list : i >= k => time <= timestamp[timed_list[i]]
  <2> SUFFICES ASSUME NEW i \in DOMAIN timed_list, i >= k PROVE time <= timestamp[timed_list[i]]
    OBVIOUS
  <2>1. later # {}
    BY <1>2
  <2>2. k \in DOMAIN timed_list /\ timestamp[timed_list[k]] > time
    BY <1>4, <2>1
  <2> HIDE DEF later, k
  <2>3. CASE i = k
    BY <1>1, <1>3, <2>2, <2>3
  <2>4. CASE i > k
    <3>1. Precedes(timed_list, timed_list[k], timed_list[i])
      BY <2>2, <2>4 DEF Precedes
    <3>2. timestamp[timed_list[k]] <= timestamp[timed_list[i]]
      BY <3>1 DEF Ordered, InTimeOrder
    <3> QED BY <1>1, <1>3, <2>2, <3>2
  <2> QED BY <1>2, <1>5, <2>3, <2>4
<1>8. InsertIntoTimedList(t, time) = InsertAt(timed_list, k, t)
  BY DEF InsertIntoTimedList
<1> HIDE DEF later, k
<1>9. /\ InsertAt(timed_list, k, t) \in Seq(Task)
      /\ Distinct(InsertAt(timed_list, k, t))
      /\ ToSet(InsertAt(timed_list, k, t)) = ToSet(timed_list) \cup {t}
      /\ \A a, b : Precedes(InsertAt(timed_list, k, t), a, b) =>
                \/ Precedes(timed_list, a, b)
                \/ b = t /\ \E i \in DOMAIN timed_list : i < k /\ timed_list[i] = a
                \/ a = t /\ \E i \in DOMAIN timed_list : i >= k /\ timed_list[i] = b
  BY <1>1, <1>5, InsertList DEF Fallback
<1>10. \A a, b : Precedes(InsertAt(timed_list, k, t), a, b) =>
                \/ Precedes(timed_list, a, b)
                \/ b = t /\ a \in Fallback /\ timestamp[a] <= time
                \/ a = t /\ b \in Fallback /\ time <= timestamp[b]
  BY <1>3, <1>6, <1>7, <1>9
<1> QED BY <1>8, <1>9, <1>10 DEF Fallback

\* aws_task_scheduler_schedule_future, called from user code: into timed_queue, or sorted
\* into timed_list when that is full.
LEMMA ScheduleFutureStep ==
  ASSUME IInv, NEW t \in Task, NEW time \in Time, UserCode, aws_task_scheduler_schedule_future(t, time),
         UNCHANGED <<running_list, phase, current_time, status, callback, life>>
  PROVE  IInv'
<1> USE DEF IInv
<1>1. /\ t \notin scheduled
      /\ timestamp' = [timestamp EXCEPT ![t] = time]
      /\ scheduled' = scheduled \cup {t} /\ fresh' = fresh \cup {t}
      /\ UNCHANGED asap_list
      /\ IF Cardinality(timed_queue) < QueueCapacity
         THEN timed_queue' = timed_queue \cup {t} /\ UNCHANGED timed_list
         ELSE timed_list' = InsertIntoTimedList(t, time) /\ UNCHANGED timed_queue
  BY DEF aws_task_scheduler_schedule_future
<1>2. t \notin Asap /\ t \notin Fallback /\ t \notin InPass /\ t \notin timed_queue
  BY <1>1 DEF Held
<1>3. /\ timestamp' \in [Task -> Time] /\ timestamp'[t] = time
      /\ \A u \in Task : u # t => timestamp'[u] = timestamp[u]
  BY <1>1 DEF Type, TypeOK
<1>4. Asap' = Asap /\ InPass' = InPass
  BY <1>1 DEF Asap, InPass
<1>5. phase \in {"idle", "running"} /\ life # "closed"
  BY DEF UserCode, Control
<1>6. /\ timed_list' \in Seq(Task) /\ Distinct(timed_list')
      /\ Fallback' \cup timed_queue' = Fallback \cup timed_queue \cup {t}
      /\ Fallback' \cap timed_queue' = {}
      /\ Fallback \subseteq Fallback' /\ timed_queue \subseteq timed_queue'
      /\ timed_queue' \in SUBSET Task /\ IsFiniteSet(timed_queue')
      /\ Cardinality(timed_queue') <= QueueCapacity
      /\ InTimeOrder(timed_list)'
  <2>0. /\ timed_list \in Seq(Task) /\ Distinct(timed_list)
        /\ timed_queue \in SUBSET Task /\ IsFiniteSet(timed_queue) /\ Cardinality(timed_queue) <= QueueCapacity
        /\ Fallback \cap timed_queue = {}
        /\ Cardinality(timed_queue) \in Nat
    BY FS_CardinalityType DEF Type, TypeOK, Held
  <2>1. CASE Cardinality(timed_queue) < QueueCapacity
    <3>1. timed_queue' = timed_queue \cup {t} /\ timed_list' = timed_list /\ Fallback' = Fallback
      BY <1>1, <2>1 DEF Fallback
    <3>2. IsFiniteSet(timed_queue \cup {t}) /\ Cardinality(timed_queue \cup {t}) = Cardinality(timed_queue) + 1
      BY <1>2, <2>0, FS_AddElement
    <3>3. Cardinality(timed_queue') <= QueueCapacity
      BY <2>0, <2>1, <3>1, <3>2, TaskSchedulerAssumption
    <3>4. InTimeOrder(timed_list)'
      BY <1>2, <1>3, <3>1, Elements DEF Ordered, InTimeOrder, Precedes, Fallback, ToSet
    <3> QED BY <1>2, <2>0, <3>1, <3>2, <3>3, <3>4
  <2>2. CASE ~(Cardinality(timed_queue) < QueueCapacity)
    <3>1. /\ timed_queue' = timed_queue
          /\ timed_list' = InsertIntoTimedList(t, time)
      BY <1>1, <2>2
    <3>2. /\ timed_list' \in Seq(Task) /\ Distinct(timed_list') /\ Fallback' = Fallback \cup {t}
          /\ \A a, b : Precedes(timed_list', a, b) =>
                \/ Precedes(timed_list, a, b)
                \/ b = t /\ a \in Fallback /\ timestamp[a] <= time
                \/ a = t /\ b \in Fallback /\ time <= timestamp[b]
      BY <1>1, <3>1, InsertionPoint DEF Fallback
    <3>3. \A a, b : Precedes(timed_list, a, b) => a \in Fallback /\ b \in Fallback /\ timestamp[a] <= timestamp[b]
      BY DEF Ordered, InTimeOrder, Precedes, Fallback, ToSet
    <3>4. \A a \in Fallback : timestamp'[a] = timestamp[a]
      BY <1>2, <1>3, Elements
    <3>5. InTimeOrder(timed_list)'
      BY <1>3, <3>2, <3>3, <3>4 DEF InTimeOrder
    <3> QED BY <1>2, <2>0, <3>1, <3>2, <3>5
  <2> QED BY <2>1, <2>2
<1>7. Type'
  BY <1>1, <1>3, <1>6 DEF Type, TypeOK
<1>8. Held'
  BY <1>1, <1>2, <1>4, <1>6 DEF Held
<1>9. Ordered'
  <2>1. InTimeOrder(running_list)'
    <3>1. \A a, b : Precedes(running_list, a, b) => a \in InPass /\ b \in InPass /\ timestamp[a] <= timestamp[b]
      BY DEF Ordered, InTimeOrder, Precedes, InPass, ToSet
    <3>2. \A a \in InPass : timestamp'[a] = timestamp[a]
      BY <1>2, <1>3, Elements
    <3> QED BY <3>1, <3>2 DEF InTimeOrder
  <2> QED BY <1>2, <1>3, <1>4, <1>6, <2>1, Elements DEF Ordered
<1>10. Control'
  BY <1>5 DEF Control
<1>11. Pass'
  BY <1>1, <1>2, <1>3, <1>4, <1>5, Elements DEF Pass, PassIsExact, Held, InPass
<1> QED BY <1>7, <1>8, <1>9, <1>10, <1>11

\* aws_task_scheduler_cancel_task, called from user code.
LEMMA CancelStep ==
  ASSUME IInv, NEW t \in Task, UserCode, aws_task_scheduler_cancel_task(t),
         UNCHANGED <<fresh, phase, current_time, status, callback, life>>
  PROVE  IInv'
<1> USE DEF IInv
<1>1. /\ asap_list' = RemoveFirst(asap_list, t)
      /\ timed_list' = RemoveFirst(timed_list, t)
      /\ running_list' = RemoveFirst(running_list, t)
      /\ timed_queue' = IF ~Linked(t) /\ t \in scheduled THEN timed_queue \ {t} ELSE timed_queue
      /\ scheduled' = scheduled \ {t}
      /\ UNCHANGED timestamp
  BY DEF aws_task_scheduler_cancel_task
<1>2. /\ asap_list \in Seq(Task) /\ timed_list \in Seq(Task) /\ running_list \in Seq(Task)
      /\ Distinct(asap_list) /\ Distinct(timed_list) /\ Distinct(running_list)
  BY DEF Type, TypeOK, Held
<1>3. /\ asap_list' \in Seq(Task) /\ Distinct(asap_list') /\ Asap' = Asap \ {t}
  BY <1>1, <1>2, RemoveList DEF Asap
<1>4. /\ timed_list' \in Seq(Task) /\ Distinct(timed_list') /\ Fallback' = Fallback \ {t}
      /\ \A a, b : Precedes(timed_list', a, b) => Precedes(timed_list, a, b)
  BY <1>1, <1>2, RemoveList DEF Fallback
<1>5. /\ running_list' \in Seq(Task) /\ Distinct(running_list') /\ InPass' = InPass \ {t}
      /\ \A a, b : Precedes(running_list', a, b) => Precedes(running_list, a, b)
  BY <1>1, <1>2, RemoveList DEF InPass
<1>6. timed_queue' = timed_queue \ {t}
  BY <1>1, Elements DEF Held
<1>7. IsFiniteSet(timed_queue') /\ Cardinality(timed_queue') <= QueueCapacity
  BY <1>6, QueueShrinks
<1>8. phase \in {"idle", "running"} /\ life # "closed"
  BY DEF UserCode, Control
<1>9. Type'
  BY <1>1, <1>3, <1>4, <1>5, <1>6, <1>7 DEF Type, TypeOK
<1>10. Held'
  BY <1>1, <1>3, <1>4, <1>5, <1>6 DEF Held
<1>11. Ordered'
  BY <1>1, <1>3, <1>4, <1>5 DEF Ordered, InTimeOrder
<1>12. Control'
  <2>1. InPass = {} => running_list' = <<>>
    <3>1. InPass' = {} => running_list' = <<>>
      BY <1>5, ListFacts DEF InPass
    <3> QED BY <1>5, <3>1
  <2> QED BY <1>8, <2>1, Elements DEF Control
<1>13. Pass'
  BY <1>1, <1>5, <1>8 DEF Pass, PassIsExact, InPass
<1> QED BY <1>9, <1>10, <1>11, <1>12, <1>13

\* s_run_all begins: the swap of asap_list into the local list.
LEMMA RunAllStep ==
  ASSUME IInv, NEW time \in Time, NEW stat \in {"RUN_READY", "CANCELED"}, s_run_all(time, stat),
         life # "closed", UNCHANGED life
  PROVE  IInv'
<1> USE DEF IInv
<1>1. /\ phase = "idle" /\ phase' = "moving" /\ running_list' = asap_list /\ asap_list' = <<>>
      /\ current_time' = time /\ status' = stat /\ fresh' = {}
      /\ UNCHANGED <<timed_list, timed_queue, timestamp, scheduled, callback>>
  BY DEF s_run_all
<1>2. Asap' = {} /\ InPass' = Asap /\ Fallback' = Fallback /\ InPass = {} /\ Distinct(asap_list')
  BY <1>1, EmptyList DEF Asap, InPass, Fallback, Control
<1>3. Type'
  BY <1>1 DEF Type, TypeOK
<1>4. Held'
  BY <1>1, <1>2 DEF Held
<1>5. Ordered'
  <2>1. InTimeOrder(running_list)'
    <3>1. \A a, b : Precedes(asap_list, a, b) => a \in Asap /\ b \in Asap
      BY DEF Precedes, Asap, ToSet
    <3> QED BY <1>1, <3>1, Elements DEF Ordered, InTimeOrder
  <2> QED BY <1>1, <1>2, <2>1 DEF Ordered, InTimeOrder
<1>6. Control'
  BY <1>1 DEF Control
<1>7. Pass'
  BY <1>1, <1>2, Elements DEF Pass, PassIsExact, Ordered, Time
<1> QED BY <1>3, <1>4, <1>5, <1>6, <1>7

\* A task of timed_queue, or the first of timed_list, moves to the end of the local list.
LEMMA TakeStep ==
  ASSUME IInv, phase \in {"moving", "draining"}, NEW t \in Fallback \cup timed_queue,
         timestamp[t] <= current_time,
         \A u \in Fallback \cup timed_queue : timestamp[t] <= timestamp[u],
         running_list' = Append(running_list, t),
         \/ /\ t \in timed_queue /\ timed_queue' = timed_queue \ {t} /\ UNCHANGED timed_list
         \/ /\ timed_list # <<>> /\ t = Head(timed_list) /\ timed_list' = Tail(timed_list)
            /\ UNCHANGED timed_queue /\ phase = "moving",
         UNCHANGED <<phase, asap_list, timestamp, scheduled, current_time, status, callback, life, fresh>>
  PROVE  IInv'
<1> USE DEF IInv
<1>1. t \in Task /\ t \notin InPass
  BY Elements DEF Held
<1>2. /\ running_list' \in Seq(Task) /\ Distinct(running_list') /\ InPass' = InPass \cup {t}
      /\ \A a, b : Precedes(running_list', a, b) => Precedes(running_list, a, b) \/ (a \in InPass /\ b = t)
  BY <1>1, AppendList DEF Type, TypeOK, Held, InPass
<1>3. Asap' = Asap
  BY DEF Asap
<1>4. /\ timed_list' \in Seq(Task) /\ Distinct(timed_list')
      /\ \A a, b : Precedes(timed_list', a, b) => Precedes(timed_list, a, b)
      /\ IsFiniteSet(timed_queue') /\ timed_queue' \in SUBSET Task /\ Cardinality(timed_queue') <= QueueCapacity
      /\ \/ Fallback' = Fallback /\ timed_queue' = timed_queue \ {t} /\ t \in timed_queue
         \/ Fallback' = Fallback \ {t} /\ timed_queue' = timed_queue /\ t \in Fallback
  <2>1. CASE t \in timed_queue /\ timed_queue' = timed_queue \ {t} /\ UNCHANGED timed_list
    BY <2>1, QueueShrinks DEF Type, TypeOK, Held, Fallback
  <2>2. CASE /\ timed_list # <<>> /\ t = Head(timed_list) /\ timed_list' = Tail(timed_list)
             /\ UNCHANGED timed_queue
    BY <2>2, TailList DEF Type, TypeOK, Held, Fallback
  <2> QED BY <2>1, <2>2
<1>5. Type'
  BY <1>2, <1>4 DEF Type, TypeOK
<1>6. Held'
  BY <1>1, <1>2, <1>3, <1>4 DEF Held
<1>7. Ordered'
  <2>1. \A a \in InPass : timestamp[a] <= timestamp[t]
    BY DEF Pass
  <2> QED BY <1>2, <1>3, <1>4, <2>1 DEF Ordered, InTimeOrder
<1>8. Control'
  BY DEF Control
<1>9. Pass'
  <2>1. \A r \in InPass' : timestamp[r] <= current_time
    BY <1>2 DEF Pass
  <2>2. \A r \in InPass', u \in Fallback' \cup timed_queue' : timestamp[r] <= timestamp[u]
    BY <1>2, <1>4 DEF Pass
  <2>3. phase = "draining" => \A u \in Fallback' : timestamp[u] > current_time
    BY <1>4 DEF Pass
  <2> QED BY <2>1, <2>2, <2>3 DEF Pass, PassIsExact
<1> QED BY <1>5, <1>6, <1>7, <1>8, <1>9

\* One round of the loop that merges the two containers.
LEMMA MergeStep ==
  ASSUME IInv, s_run_all_merge
  PROVE  IInv'
<1> USE DEF IInv
<1>0. /\ phase = "moving"
      /\ UNCHANGED <<asap_list, timestamp, scheduled, current_time, status, callback, life, fresh>>
  BY DEF s_run_all_merge
<1>1. CASE timed_list = <<>> \/ timestamp[Head(timed_list)] > current_time
  <2>1. phase' = "draining" /\ UNCHANGED <<timed_list, timed_queue, running_list>>
    BY <1>1 DEF s_run_all_merge
  <2>2. \A t \in Fallback : timestamp[t] > current_time
    <3>1. CASE timed_list = <<>>
      BY <3>1, Elements
    <3>2. CASE timed_list # <<>> /\ timestamp[Head(timed_list)] > current_time
      <4>1. /\ Head(timed_list) \in Fallback /\ ToSet(Tail(timed_list)) = Fallback \ {Head(timed_list)}
            /\ \A b \in ToSet(Tail(timed_list)) : Precedes(timed_list, Head(timed_list), b)
        BY <3>2, TailList DEF Type, TypeOK, Held, Fallback
      <4>2. \A b \in Fallback : b # Head(timed_list) => timestamp[Head(timed_list)] <= timestamp[b]
        BY <4>1 DEF Ordered, InTimeOrder
      <4> QED BY <3>2, <4>1, <4>2, Elements
    <3> QED BY <1>1, <3>1, <3>2
  <2>3. Asap' = Asap /\ Fallback' = Fallback /\ InPass' = InPass
    BY <1>0, <2>1 DEF Asap, Fallback, InPass
  <2>4. Type'
    BY <1>0, <2>1 DEF Type, TypeOK
  <2>5. Held' /\ Ordered'
    BY <1>0, <2>1, <2>3 DEF Held, Ordered, InTimeOrder
  <2>6. Control'
    BY <1>0, <2>1 DEF Control
  <2>7. Pass'
    BY <1>0, <2>1, <2>2, <2>3 DEF Pass, PassIsExact
  <2> QED BY <2>4, <2>5, <2>6, <2>7
<1>2. CASE timed_list # <<>> /\ ~(timestamp[Head(timed_list)] > current_time)
  <2> DEFINE h == Head(timed_list)
  <2>1. /\ h \in Fallback /\ \A b \in Fallback : timestamp[h] <= timestamp[b]
    <3>1. /\ h \in Fallback /\ ToSet(Tail(timed_list)) = Fallback \ {h}
          /\ \A b \in ToSet(Tail(timed_list)) : Precedes(timed_list, h, b)
      BY <1>2, TailList DEF Type, TypeOK, Held, Fallback
    <3>2. \A b \in Fallback : b # h => timestamp[h] <= timestamp[b]
      BY <3>1 DEF Ordered, InTimeOrder
    <3>3. timestamp[h] <= timestamp[h]
      BY <3>1, Elements
    <3> QED BY <3>1, <3>2, <3>3
  <2>2. timestamp[h] <= current_time /\ phase' = phase
    BY <1>2, <2>1, Elements DEF s_run_all_merge
  <2>3. ASSUME NEW t \in SoonerTops, timed_queue' = timed_queue \ {t}, running_list' = Append(running_list, t),
               UNCHANGED timed_list
        PROVE  IInv'
    <3>1. t \in timed_queue /\ timestamp[t] <= current_time /\ \A u \in timed_queue : timestamp[t] <= timestamp[u]
      BY DEF SoonerTops, Tops
    <3>2. \A u \in Fallback : timestamp[t] <= timestamp[u]
      BY <2>1, <3>1, Elements DEF SoonerTops
    <3> QED BY <1>0, <2>2, <2>3, <3>1, <3>2, TakeStep
  <2>4. ASSUME SoonerTops = {}, timed_list' = Tail(timed_list), running_list' = Append(running_list, h),
               UNCHANGED timed_queue
        PROVE  IInv'
    <3>1. \A u \in timed_queue : timestamp[h] <= timestamp[u]
      <4> SUFFICES ASSUME NEW u \in timed_queue PROVE timestamp[h] <= timestamp[u]
        OBVIOUS
      <4>1. PICK t \in Tops(timed_queue) : TRUE
        BY TopExists
      <4>2. t \in timed_queue /\ timestamp[t] <= timestamp[u]
        BY <4>1 DEF Tops
      <4>3. ~(timestamp[t] <= current_time /\ timestamp[t] < timestamp[h])
        BY <2>4, <4>1 DEF SoonerTops
      <4> QED BY <2>1, <2>2, <4>2, <4>3, Elements
    <3> QED BY <1>0, <1>2, <2>1, <2>2, <2>4, <3>1, TakeStep
  <2> QED BY <1>2, <2>3, <2>4 DEF s_run_all_merge
<1> QED BY <1>1, <1>2

\* One round of the loop that drains timed_queue.
LEMMA DrainStep ==
  ASSUME IInv, s_run_all_drain
  PROVE  IInv'
<1> USE DEF IInv
<1>0. /\ phase = "draining"
      /\ UNCHANGED <<asap_list, timed_list, timestamp, scheduled, current_time, status, callback, life, fresh>>
  BY DEF s_run_all_drain
<1>1. CASE \E t \in Tops(timed_queue) : timestamp[t] <= current_time
  <2>1. PICK t \in Tops(timed_queue) : /\ timed_queue' = timed_queue \ {t}
                                       /\ running_list' = Append(running_list, t)
                                       /\ UNCHANGED phase
    BY <1>1 DEF s_run_all_drain
  <2>2. PICK u \in Tops(timed_queue) : timestamp[u] <= current_time
    BY <1>1
  <2>3. t \in timed_queue /\ timestamp[t] <= current_time /\ \A v \in timed_queue : timestamp[t] <= timestamp[v]
    BY <2>2, Elements DEF Tops
  <2>4. \A v \in Fallback : timestamp[t] <= timestamp[v]
    BY <1>0, <2>3, Elements DEF Pass
  <2> QED BY <1>0, <2>1, <2>3, <2>4, TakeStep
<1>2. CASE ~\E t \in Tops(timed_queue) : timestamp[t] <= current_time
  <2>1. phase' = "running" /\ UNCHANGED <<timed_queue, running_list>>
    BY <1>2 DEF s_run_all_drain
  <2>2. \A u \in timed_queue : timestamp[u] > current_time
    <3> SUFFICES ASSUME NEW u \in timed_queue PROVE timestamp[u] > current_time
      OBVIOUS
    <3>1. PICK t \in Tops(timed_queue) : TRUE
      BY TopExists
    <3>2. t \in timed_queue /\ timestamp[t] <= timestamp[u] /\ ~(timestamp[t] <= current_time)
      BY <1>2, <3>1 DEF Tops
    <3> QED BY <3>2, Elements
  <2>3. Asap' = Asap /\ Fallback' = Fallback /\ InPass' = InPass /\ Asap = {} /\ fresh = {}
    BY <1>0, <2>1, Elements DEF Asap, Fallback, InPass, Control
  <2>4. Type'
    BY <1>0, <2>1 DEF Type, TypeOK
  <2>5. Held' /\ Ordered'
    BY <1>0, <2>1, <2>3 DEF Held, Ordered, InTimeOrder
  <2>6. Control'
    BY <1>0, <2>1 DEF Control
  <2>7. Pass'
    BY <1>0, <2>1, <2>2, <2>3 DEF Pass, PassIsExact, Held, InPass
  <2> QED BY <2>4, <2>5, <2>6, <2>7
<1> QED BY <1>1, <1>2

\* The next task of the local list is unlinked and called.
LEMMA RunStep ==
  ASSUME IInv, s_run_all_run
  PROVE  IInv'
<1> USE DEF IInv
<1> DEFINE h == Head(running_list)
<1>1. /\ phase = "running" /\ callback = NoTask /\ running_list # <<>>
      /\ callback' = h /\ running_list' = Tail(running_list) /\ scheduled' = scheduled \ {h}
      /\ UNCHANGED <<asap_list, timed_list, timed_queue, timestamp, phase, current_time, status, life, fresh>>
  BY DEF s_run_all_run
<1>2. /\ running_list' \in Seq(Task) /\ h \in Task /\ h \in InPass /\ Distinct(running_list')
      /\ InPass' = InPass \ {h}
      /\ \A a, b : Precedes(running_list', a, b) => Precedes(running_list, a, b)
  BY <1>1, TailList DEF Type, TypeOK, Held, InPass
<1>3. Asap' = Asap /\ Fallback' = Fallback
  BY <1>1 DEF Asap, Fallback
<1> HIDE DEF h
<1>4. Type'
  BY <1>1, <1>2 DEF Type, TypeOK
<1>5. Held'
  BY <1>1, <1>2, <1>3 DEF Held
<1>6. Ordered'
  BY <1>1, <1>2, <1>3 DEF Ordered, InTimeOrder
<1>7. Control'
  BY <1>1 DEF Control
<1>8. Pass'
  BY <1>1, <1>2 DEF Pass, PassIsExact, InPass
<1> QED BY <1>4, <1>5, <1>6, <1>7, <1>8

\* A step that leaves the tasks where they are.
LEMMA IdleStep ==
  ASSUME IInv, UNCHANGED <<schedVars, running_list, current_time, status, fresh>>,
         callback' \in {callback, NoTask}, phase' \in {phase, "idle"}, life' \in {"open", "closing", "closed"},
         phase' # phase => phase = "running" /\ callback' = NoTask /\ running_list = <<>>,
         life' = "closed" /\ life # "closed" => phase' = "idle" /\ scheduled = {},
         life = "closed" => life' = "closed"
  PROVE  IInv'
<1> USE DEF IInv
<1>1. /\ UNCHANGED <<asap_list, timed_list, timed_queue, timestamp, scheduled, running_list, current_time,
                     status, fresh>>
      /\ Asap' = Asap /\ Fallback' = Fallback /\ InPass' = InPass
  BY DEF schedVars, Asap, Fallback, InPass
<1>2. Type'
  BY <1>1 DEF Type, TypeOK
<1>3. Held' /\ Ordered'
  BY <1>1 DEF Held, Ordered, InTimeOrder
<1>4. Control'
  BY <1>1 DEF Control
<1>5. Pass'
  BY <1>1 DEF Pass, PassIsExact
<1> QED BY <1>2, <1>3, <1>4, <1>5

\* The user may write the timestamp of a task that is not scheduled.
LEMMA RestampStep ==
  ASSUME IInv, NEW t \in Task, t \notin scheduled, NEW time \in Time, timestamp' = [timestamp EXCEPT ![t] = time],
         UNCHANGED <<asap_list, timed_list, timed_queue, scheduled, running_list, phase, current_time,
                     status, callback, life, fresh>>
  PROVE  IInv'
<1> USE DEF IInv
<1>1. /\ timestamp' \in [Task -> Time]
      /\ \A u \in Task : u # t => timestamp'[u] = timestamp[u]
  BY DEF Type, TypeOK
<1>2. Asap' = Asap /\ Fallback' = Fallback /\ InPass' = InPass
  BY DEF Asap, Fallback, InPass
<1>3. \A u \in scheduled : timestamp'[u] = timestamp[u]
  BY <1>1, Elements DEF Held
<1>4. Type' /\ Held' /\ Control'
  BY <1>1, <1>2 DEF Type, TypeOK, Held, Control
<1>5. Ordered'
  <2>1. \A a, b : Precedes(timed_list, a, b) => a \in scheduled /\ b \in scheduled
    BY DEF Precedes, Held, Fallback, ToSet
  <2>2. \A a, b : Precedes(running_list, a, b) => a \in scheduled /\ b \in scheduled
    BY DEF Precedes, Held, InPass, ToSet
  <2>3. InTimeOrder(timed_list)' /\ InTimeOrder(running_list)'
    BY <1>3, <2>1, <2>2 DEF Ordered, InTimeOrder
  <2> QED BY <1>2, <1>3, <2>3 DEF Ordered, Held
<1>6. Pass'
  <2>1. PassIsExact'
    BY <1>3 DEF Pass, PassIsExact, Held, InPass
  <2> QED BY <1>2, <1>3, <2>1 DEF Pass, Held
<1> QED BY <1>4, <1>5, <1>6

\* What the scheduler does by itself preserves the invariant.
LEMMA SchedulerStepInv == ASSUME IInv, SchedulerStep \/ TaskReturns PROVE IInv'
<1>1. CASE s_run_all_merge
  BY <1>1, MergeStep
<1>2. CASE s_run_all_drain
  BY <1>2, DrainStep
<1>3. CASE s_run_all_run
  BY <1>3, RunStep
<1>4. CASE s_run_all_return
  BY <1>4, IdleStep DEF s_run_all_return, IInv, Type, TypeOK
<1>5. CASE clean_up_loop
  <2>1. CASE has_tasks /\ s_run_all(UINT64_MAX, "CANCELED") /\ UNCHANGED life
    <3>1. UINT64_MAX \in Time
      BY TaskSchedulerAssumption DEF Time
    <3>2. life # "closed"
      BY <1>5 DEF clean_up_loop
    <3> QED BY <2>1, <3>1, <3>2, RunAllStep
  <2>2. CASE /\ ~has_tasks /\ phase = "idle" /\ life' = "closed"
             /\ UNCHANGED <<schedVars, running_list, phase, current_time, status, callback, fresh>>
    <3>1. scheduled = {}
      BY <2>2, Elements DEF has_tasks, IInv, Held, Control
    <3> QED BY <2>2, <3>1, IdleStep
  <2> QED BY <1>5, <2>1, <2>2 DEF clean_up_loop
<1>6. CASE TaskReturns
  BY <1>6, IdleStep DEF TaskReturns, IInv, Type, TypeOK
<1> QED BY <1>1, <1>2, <1>3, <1>4, <1>5, <1>6 DEF SchedulerStep

\* The invariant is inductive.
LEMMA NextIInv == IInv /\ [Next]_vars => IInv'
<1> SUFFICES ASSUME IInv, [Next]_vars PROVE IInv'
  OBVIOUS
<1>1. CASE UserStep
  <2> UserCode /\ UNCHANGED <<phase, current_time, status, callback, life>>
    BY <1>1 DEF UserStep
  <2>1. ASSUME NEW t \in Task, aws_task_scheduler_schedule_now(t), UNCHANGED running_list PROVE IInv'
    BY <2>1, ScheduleNowStep
  <2>2. ASSUME NEW t \in Task, NEW time \in Time, aws_task_scheduler_schedule_future(t, time),
               UNCHANGED running_list
        PROVE  IInv'
    BY <2>2, ScheduleFutureStep
  <2>3. ASSUME NEW t \in Task, aws_task_scheduler_cancel_task(t), UNCHANGED fresh PROVE IInv'
    BY <2>3, CancelStep
  <2> QED BY <1>1, <2>1, <2>2, <2>3 DEF UserStep
<1>2. CASE TaskReturns \/ SchedulerStep
  BY <1>2, SchedulerStepInv
<1>3. ASSUME NEW time \in Time, aws_task_scheduler_run_all(time) PROVE IInv'
  BY <1>3, RunAllStep DEF aws_task_scheduler_run_all
<1>4. CASE aws_task_scheduler_clean_up
  BY <1>4, IdleStep DEF aws_task_scheduler_clean_up
<1>5. CASE UNCHANGED vars
  BY <1>5, IdleStep DEF vars, runVars, IInv, Type, TypeOK
<1> QED BY <1>1, <1>2, <1>3, <1>4, <1>5 DEF Next

\* A scheduler that was just initialised holds nothing.
LEMMA InitIInv == Init => IInv
<1> SUFFICES ASSUME Init PROVE IInv
  OBVIOUS
<1> USE DEF Init
<1>1. Asap = {} /\ Fallback = {} /\ InPass = {}
  BY EmptyList DEF Asap, Fallback, InPass
<1>2. Type
  <2>1. <<>> \in Seq(Task) /\ IsFiniteSet({}) /\ Cardinality({}) = 0
    BY EmptySeq, FS_EmptySet
  <2> QED BY <2>1, TaskSchedulerAssumption DEF Type, TypeOK, Time
<1>3. Held /\ Ordered /\ Control
  BY <1>1, EmptyList DEF Held, Ordered, InTimeOrder, Control
<1>4. Pass
  BY <1>1 DEF Pass, PassIsExact
<1> QED BY <1>2, <1>3, <1>4 DEF IInv

\* The invariant holds of every behaviour.
LEMMA Invariance == Spec => []IInv
BY InitIInv, NextIInv, PTL DEF Spec

----------------------------------------------------------------------------
(* The properties                                                          *)

\* A task is linked into one list or pushed onto the queue, once, while it is scheduled and
\* never otherwise, whatever is scheduled and cancelled from inside task functions
\* (task_scheduler.c).
THEOREM HeldExactlyOnceCorrect == Spec => []HeldExactlyOnce
<1>1. IInv => HeldExactlyOnce
  <2> SUFFICES ASSUME IInv, NEW t \in Task
               PROVE  Cardinality(Occurrences(asap_list, t)) + Cardinality(Occurrences(timed_list, t))
                      + Cardinality(Occurrences(running_list, t)) + Cardinality(timed_queue \cap {t})
                        = IF t \in scheduled THEN 1 ELSE 0
    BY DEF HeldExactlyOnce, IInv, Type
  <2>1. /\ Cardinality(Occurrences(asap_list, t)) = IF t \in Asap THEN 1 ELSE 0
        /\ Cardinality(Occurrences(timed_list, t)) = IF t \in Fallback THEN 1 ELSE 0
        /\ Cardinality(Occurrences(running_list, t)) = IF t \in InPass THEN 1 ELSE 0
    BY OccursOnce DEF IInv, Type, TypeOK, Held, Occurrences, Asap, Fallback, InPass
  <2>2. Cardinality(timed_queue \cap {t}) = IF t \in timed_queue THEN 1 ELSE 0
    <3>1. timed_queue \cap {t} = IF t \in timed_queue THEN {t} ELSE {}
      OBVIOUS
    <3>2. Cardinality({t}) = 1 /\ Cardinality({}) = 0
      BY FS_Singleton, FS_EmptySet
    <3> QED BY <3>1, <3>2
  <2>3. CASE t \in Asap
    BY <2>1, <2>2, <2>3 DEF IInv, Held
  <2>4. CASE t \in Fallback
    BY <2>1, <2>2, <2>4 DEF IInv, Held
  <2>5. CASE t \in InPass
    BY <2>1, <2>2, <2>5 DEF IInv, Held
  <2>6. CASE t \in timed_queue
    BY <2>1, <2>2, <2>6 DEF IInv, Held
  <2>7. CASE t \notin Asap \cup Fallback \cup InPass \cup timed_queue
    BY <2>1, <2>2, <2>7 DEF IInv, Held
  <2> QED BY <2>3, <2>4, <2>5, <2>6, <2>7
<1> QED BY <1>1, Invariance, PTL

\* The merge of the two containers keeps the order of the timestamps (s_run_all).
THEOREM RunsInTimeOrderCorrect == Spec => []RunsInTimeOrder
<1>1. IInv => RunsInTimeOrder
  BY DEF IInv, Ordered, InTimeOrder, Precedes, RunsInTimeOrder
<1> QED BY <1>1, Invariance, PTL

\* A pass takes what was due when it began, all of it and nothing else (s_run_all).
THEOREM PassIsExactCorrect == Spec => []PassIsExact
<1>1. IInv => PassIsExact
  BY DEF IInv, Pass
<1> QED BY <1>1, Invariance, PTL

\* aws_task_scheduler_has_tasks reports the least timestamp of all scheduled tasks.
THEOREM NextTaskTimeExactCorrect == Spec => []NextTaskTimeExact
<1>1. IInv => NextTaskTimeExact
  <2> SUFFICES ASSUME IInv, phase = "idle"
               PROVE  next_task_time = Min({UINT64_MAX} \cup {timestamp[t] : t \in scheduled})
    BY DEF NextTaskTimeExact
  <2> USE DEF IInv
  <2> DEFINE all == {UINT64_MAX} \cup {timestamp[t] : t \in scheduled}
             first == IF timed_list # <<>> THEN timestamp[Head(timed_list)] ELSE UINT64_MAX
             some == {first} \cup {timestamp[t] : t \in Tops(timed_queue)}
  <2>1. scheduled = Asap \cup Fallback \cup timed_queue /\ scheduled \subseteq Task
    BY Elements DEF Held, Control
  <2>2. all \in SUBSET Nat /\ \A x \in all : x <= UINT64_MAX
    BY <2>1, Elements
  <2>3. CASE asap_list # <<>>
    <3>1. PICK t \in Asap : TRUE
      BY <2>3, Elements
    <3>2. timestamp[t] = 0 /\ t \in scheduled
      BY <2>1, <3>1 DEF Ordered
    <3>3. 0 \in all /\ \A y \in all : 0 <= y
      BY <2>2, <3>2
    <3> HIDE DEF all
    <3>4. Min(all) = 0
      BY <2>2, <3>3, LeastIsMin
    <3> QED BY <2>3, <3>4 DEF next_task_time, all
  <2>4. CASE asap_list = <<>>
    <3>1. scheduled = Fallback \cup timed_queue
      BY <2>1, <2>4, Elements
    <3>2. /\ first \in all /\ \A t \in Fallback : first <= timestamp[t]
      <4>1. CASE timed_list = <<>>
        BY <4>1, Elements
      <4>2. CASE timed_list # <<>>
        <5>1. /\ Head(timed_list) \in Fallback
              /\ ToSet(Tail(timed_list)) = Fallback \ {Head(timed_list)}
              /\ \A b \in ToSet(Tail(timed_list)) : Precedes(timed_list, Head(timed_list), b)
          BY <4>2, TailList DEF Type, TypeOK, Held, Fallback
        <5>2. \A b \in Fallback : b # Head(timed_list) => timestamp[Head(timed_list)] <= timestamp[b]
          BY <5>1 DEF Ordered, InTimeOrder
        <5> QED BY <3>1, <4>2, <5>1, <5>2, Elements
      <4> QED BY <4>1, <4>2
    <3>3. some \subseteq all
      BY <3>1, <3>2 DEF Tops
    <3>4. some # {} /\ some \in SUBSET Nat
      BY <2>2, <3>3
    <3>5. Min(some) \in some /\ \A y \in some : Min(some) <= y
      <4> HIDE DEF some
      <4> QED BY <3>4, MinIsLeast
    <3>6. \A y \in all : Min(some) <= y
      <4>1. Min(some) \in Nat /\ Min(some) <= first
        BY <3>4, <3>5
      <4>2. first \in Nat /\ first <= UINT64_MAX
        BY <2>2, <3>2
      <4>3. Min(some) <= UINT64_MAX
        <5> HIDE DEF first, some
        <5> QED BY <4>1, <4>2, Elements
      <4>4. ASSUME NEW t \in Fallback PROVE Min(some) <= timestamp[t]
        <5>1. first <= timestamp[t] /\ timestamp[t] \in Nat
          BY <3>2, Elements
        <5> HIDE DEF first, some
        <5> QED BY <4>1, <4>2, <5>1
      <4>5. ASSUME NEW t \in timed_queue PROVE Min(some) <= timestamp[t]
        <5>1. PICK u \in Tops(timed_queue) : TRUE
          BY TopExists
        <5>2. timestamp[u] \in some /\ timestamp[u] <= timestamp[t] /\ timestamp[u] \in Nat /\ timestamp[t] \in Nat
          BY <5>1, Elements DEF Tops
        <5>3. Min(some) <= timestamp[u]
          BY <3>5, <5>2
        <5> HIDE DEF some
        <5> QED BY <4>1, <5>2, <5>3
      <4> HIDE DEF some
      <4> QED BY <3>1, <4>3, <4>4, <4>5
    <3>7. Min(some) \in all
      BY <3>3, <3>5
    <3>8. next_task_time = Min(some)
      BY <2>4 DEF next_task_time
    <3> HIDE DEF all, some, first
    <3>9. Min(all) = Min(some)
      BY <2>2, <3>6, <3>7, LeastIsMin
    <3> QED BY <3>8, <3>9 DEF all
  <2> QED BY <2>3, <2>4
<1> QED BY <1>1, Invariance, PTL

\* aws_task_scheduler_clean_up leaves no task behind, whatever the cancelled tasks schedule.
THEOREM CleanUpCancelsAllCorrect == Spec => []CleanUpCancelsAll
<1>1. IInv => CleanUpCancelsAll
  BY DEF IInv, Control, CleanUpCancelsAll
<1> QED BY <1>1, Invariance, PTL
=============================================================================
