------------------------ MODULE ThreadSchedulerProofs ------------------------
(***************************************************************************)
(* Tasks handed from clients to the scheduling thread are neither lost nor *)
(* in two places, the thread misses no wake-up, and nobody uses the        *)
(* scheduler when it is destroyed, for every set of clients and tasks.     *)
(* The proofs build on the invariant of the task scheduler inside.         *)
(***************************************************************************)
EXTENDS ThreadScheduler, ListLemmas

TSP == INSTANCE TaskSchedulerProofs

----------------------------------------------------------------------------
(* The inductive invariant                                                 *)

Queued == ToSet(scheduling_queue)
Copied == ToSet(list_cpy)
Cancelling == ToSet(cancel_queue) \cup ToSet(cancel_list_cpy)

PC == {"loop", "swap", "move", "cancel", "run", "running", "timeout", "wait",
       "pred", "block", "blocked", "notified", "timed_out", "done"}
ClientPC == {"idle", "notify", "destroy", "notify_all", "join", "clean_up", "freed"}

ThreadType ==
    /\ scheduling_queue \in Seq(Task) /\ cancel_queue \in Seq(Task)
    /\ list_cpy \in Seq(Task) /\ cancel_list_cpy \in Seq(Task)
    /\ should_exit \in BOOLEAN
    /\ pc \in PC
    /\ cpc \in [Client -> ClientPC]
    /\ holders \in SUBSET Client
    /\ ref_count = Cardinality(holders)
    /\ now \in 0 .. MaxNow
    /\ pending \in SUBSET Task

\* A task whose function is owed is in one place, or its cancellation is under way; a task
\* whose cancellation is under way is not handed over again.
Handed ==
    /\ Distinct(scheduling_queue) /\ Distinct(list_cpy)
    /\ Distinct(cancel_queue) /\ Distinct(cancel_list_cpy)
    /\ Queued \cap Copied = {} /\ (Queued \cup Copied) \cap scheduled = {}
    /\ Queued \cup Copied \cup scheduled \subseteq pending
    /\ pending \subseteq Queued \cup Copied \cup scheduled \cup Cancelling
    /\ Cancelling \cap Queued = {}
    /\ pc # "move" => list_cpy = <<>>
    /\ pc \notin {"move", "cancel"} => cancel_list_cpy = <<>>

\* The thread found the queues empty under the mutex it still holds.
Wakes ==
    /\ pc = "block" => scheduling_queue = <<>> /\ cancel_queue = <<>>
    /\ NoLostWakeUp

Destroying ==
    /\ \A c \in Client : cpc[c] = "notify" => c \in holders
    /\ \A c \in Client : cpc[c] \notin {"idle", "notify"} => holders = {}
    /\ \A c \in Client : cpc[c] \in {"clean_up", "freed"} => pc = "done"

\* Who drives the task scheduler: the thread, and after it the one who destroys it.
Driving ==
    /\ life # "open" => pc = "done"
    /\ phase # "idle" => pc \in {"running", "done"}

ThreadInv == TSP!IInv /\ ThreadType /\ Handed /\ Wakes /\ Destroying /\ Driving

----------------------------------------------------------------------------
(* The task scheduler inside                                               *)

\* The library's operators are the same in every instance.
LEMMA SameOperators ==
  ASSUME NEW s, NEW e, NEW i
  PROVE  /\ TS!Cardinality(s) = Cardinality(s) /\ TSP!Cardinality(s) = Cardinality(s)
         /\ TS!RemoveFirst(s, e) = TSP!RemoveFirst(s, e)
         /\ TS!Contains(s, e) = TSP!Contains(s, e)
         /\ TS!InsertAt(s, i, e) = TSP!InsertAt(s, i, e)
         /\ TS!Min(s) = TSP!Min(s)
         /\ TSP!ToSet(s) = ToSet(s)
<1>1. TS!Cardinality(s) = Cardinality(s) /\ TSP!Cardinality(s) = Cardinality(s)
  BY DEF TS!Cardinality, TSP!Cardinality, Cardinality
<1>2. TS!Min(s) = TSP!Min(s)
  BY DEF TS!Min, TSP!Min
<1>3. TS!Contains(s, e) = TSP!Contains(s, e)
  BY DEF TS!Contains, TSP!Contains
<1>4. TS!InsertAt(s, i, e) = TSP!InsertAt(s, i, e)
  BY DEF TS!InsertAt, TSP!InsertAt
<1>5. TSP!ToSet(s) = ToSet(s)
  BY DEF TSP!ToSet, ToSet
<1>6. TS!RemoveFirst(s, e) = TSP!RemoveFirst(s, e)
  BY DEF TS!RemoveFirst, TSP!RemoveFirst, TS!RemoveAt, TSP!RemoveAt, TS!SelectInSeq, TSP!SelectInSeq,
    TS!Min, TSP!Min
<1> QED BY <1>1, <1>2, <1>3, <1>4, <1>5, <1>6

\* What the thread may rely on between its calls.
LEMMA Inside ==
  ASSUME TSP!IInv
  PROVE  /\ scheduled \in SUBSET Task /\ timestamp \in [Task -> Time]
         /\ callback # NoTask => phase = "running"
         /\ ToSet(running_list) \subseteq scheduled /\ running_list \in Seq(Task)
<1>1. scheduled \in SUBSET Task /\ timestamp \in [Task -> Time] /\ running_list \in Seq(Task)
  BY DEF TSP!IInv, TSP!Type, TSP!TypeOK, TSP!Time, Time
<1>2. callback # NoTask => phase = "running"
  BY DEF TSP!IInv, TSP!Control
<1>3. ToSet(running_list) \subseteq scheduled
  BY SameOperators DEF TSP!IInv, TSP!Held, TSP!InPass
<1> QED BY <1>1, <1>2, <1>3

\* The task scheduler is left alone.
LEMMA InsideUnchanged ==
  ASSUME TSP!IInv, UNCHANGED tsVars
  PROVE  TSP!IInv'
<1>1. UNCHANGED <<TSP!schedVars, running_list, current_time, status, fresh, callback, phase, life>>
  BY DEF tsVars, TSP!schedVars
<1>2. life \in {"open", "closing", "closed"}
  BY DEF TSP!IInv, TSP!Type, TSP!TypeOK
<1> QED BY <1>1, <1>2, TSP!IdleStep, ThreadSchedulerAssumption

\* The thread hands a task over to the task scheduler, and has it cancelled.
LEMMA InsideSchedules ==
  ASSUME TSP!IInv, phase = "idle", life = "open", NEW t \in Task, NEW time \in Time,
         TS!aws_task_scheduler_schedule_now(t) \/ TS!aws_task_scheduler_schedule_future(t, time),
         UNCHANGED <<running_list, phase, current_time, status, callback, life>>
  PROVE  TSP!IInv' /\ t \notin scheduled /\ scheduled' = scheduled \cup {t}
<1>1. TSP!UserCode /\ time \in TSP!Time
  BY DEF TSP!UserCode, TSP!Time, Time
<1>2. CASE TS!aws_task_scheduler_schedule_now(t)
  <2>1. TSP!aws_task_scheduler_schedule_now(t)
    BY <1>2 DEF TS!aws_task_scheduler_schedule_now, TSP!aws_task_scheduler_schedule_now
  <2>2. TSP!IInv'
    BY <1>1, <2>1, TSP!ScheduleNowStep, ThreadSchedulerAssumption
  <2> QED BY <1>2, <2>2 DEF TS!aws_task_scheduler_schedule_now
<1>3. CASE TS!aws_task_scheduler_schedule_future(t, time)
  <2>1. TSP!aws_task_scheduler_schedule_future(t, time)
    BY <1>3, SameOperators DEF TS!aws_task_scheduler_schedule_future, TSP!aws_task_scheduler_schedule_future,
      TS!InsertIntoTimedList, TSP!InsertIntoTimedList
  <2>2. TSP!IInv'
    BY <1>1, <2>1, TSP!ScheduleFutureStep, ThreadSchedulerAssumption
  <2> QED BY <1>3, <2>2 DEF TS!aws_task_scheduler_schedule_future
<1> QED BY <1>2, <1>3

\* The thread cancels a task.
LEMMA InsideCancels ==
  ASSUME TSP!IInv, phase = "idle", life = "open", NEW t \in Task, TS!aws_task_scheduler_cancel_task(t),
         UNCHANGED <<fresh, phase, current_time, status, callback, life>>
  PROVE  TSP!IInv' /\ scheduled' = scheduled \ {t}
<1>1. TSP!UserCode
  BY DEF TSP!UserCode
<1>2. TSP!aws_task_scheduler_cancel_task(t)
  BY SameOperators DEF TS!aws_task_scheduler_cancel_task, TSP!aws_task_scheduler_cancel_task, TS!Linked, TSP!Linked
<1>3. TSP!IInv'
  BY <1>1, <1>2, TSP!CancelStep, ThreadSchedulerAssumption
<1> QED BY <1>3 DEF TS!aws_task_scheduler_cancel_task

\* The thread begins a pass.
LEMMA InsideBegins ==
  ASSUME TSP!IInv, NEW time \in Time, TS!aws_task_scheduler_run_all(time)
  PROVE  TSP!IInv' /\ scheduled' = scheduled /\ life' = life /\ life = "open"
<1>1. TSP!s_run_all(time, "RUN_READY") /\ life = "open" /\ UNCHANGED life /\ time \in TSP!Time
  BY DEF TS!aws_task_scheduler_run_all, TS!s_run_all, TSP!s_run_all, TSP!Time, Time
<1>2. TSP!IInv'
  BY <1>1, TSP!RunAllStep, ThreadSchedulerAssumption
<1> QED BY <1>1, <1>2 DEF TSP!s_run_all

\* The clean-up begins.
LEMMA InsideEnds ==
  ASSUME TSP!IInv, TS!aws_task_scheduler_clean_up
  PROVE  TSP!IInv' /\ scheduled' = scheduled
<1>1. /\ UNCHANGED <<TSP!schedVars, running_list, current_time, status, fresh, callback, phase>>
      /\ life = "open" /\ life' = "closing"
  BY DEF TS!aws_task_scheduler_clean_up, TS!schedVars, TSP!schedVars
<1>2. TSP!IInv'
  BY <1>1, TSP!IdleStep, ThreadSchedulerAssumption
<1> QED BY <1>1, <1>2 DEF TSP!schedVars

\* The task scheduler goes on by itself: a task leaves it when its function is called.
LEMMA InsideRuns ==
  ASSUME TSP!IInv, TS!SchedulerStep \/ TS!TaskReturns
  PROVE  /\ TSP!IInv'
         /\ \/ callback' = NoTask /\ scheduled' = scheduled
            \/ callback' # NoTask /\ callback' \in scheduled /\ scheduled' = scheduled \ {callback'}
         /\ life = "open" => life' = "open"
<1>1. TSP!SchedulerStep \/ TSP!TaskReturns
  BY DEF TS!SchedulerStep, TSP!SchedulerStep, TS!TaskReturns, TSP!TaskReturns,
    TS!s_run_all_merge, TSP!s_run_all_merge, TS!s_run_all_drain, TSP!s_run_all_drain,
    TS!s_run_all_run, TSP!s_run_all_run, TS!s_run_all_return, TSP!s_run_all_return,
    TS!clean_up_loop, TSP!clean_up_loop, TS!SoonerTops, TSP!SoonerTops, TS!Tops, TSP!Tops,
    TS!has_tasks, TSP!has_tasks, TS!s_run_all, TSP!s_run_all, TS!schedVars, TSP!schedVars
<1>2. TSP!IInv'
  BY <1>1, TSP!SchedulerStepInv, ThreadSchedulerAssumption
<1>3. CASE TSP!s_run_all_run
  <2>1. /\ running_list # <<>> /\ callback' = Head(running_list)
        /\ scheduled' = scheduled \ {Head(running_list)} /\ life' = life
    BY <1>3 DEF TSP!s_run_all_run
  <2>2. running_list \in Seq(Task) /\ Distinct(running_list)
    BY DEF TSP!IInv, TSP!Type, TSP!TypeOK, TSP!Held, TSP!Distinct, Distinct
  <2>3. Head(running_list) \in ToSet(running_list) /\ Head(running_list) \in Task
    BY <2>1, <2>2, TailList
  <2> QED BY <1>2, <2>1, <2>3, Inside, ThreadSchedulerAssumption
<1>4. CASE ~TSP!s_run_all_run
  <2>1. callback' = NoTask /\ scheduled' = scheduled
    BY <1>1, <1>4, Inside DEF TSP!SchedulerStep, TSP!TaskReturns, TSP!s_run_all_merge, TSP!s_run_all_drain,
      TSP!s_run_all_return, TSP!clean_up_loop, TSP!s_run_all, TSP!schedVars
  <2>2. life = "open" => life' = "open"
    BY <1>1, <1>4 DEF TSP!SchedulerStep, TSP!TaskReturns, TSP!s_run_all_merge, TSP!s_run_all_drain,
      TSP!s_run_all_return, TSP!clean_up_loop
  <2> QED BY <1>2, <2>1, <2>2
<1> QED BY <1>3, <1>4

\* A client writes the timestamp of a task that is not scheduled.
LEMMA InsideStamped ==
  ASSUME TSP!IInv, NEW t \in Task, t \notin scheduled, NEW time \in Time,
         timestamp' = [timestamp EXCEPT ![t] = time],
         UNCHANGED <<asap_list, timed_list, timed_queue, scheduled, running_list, phase, current_time,
                     status, callback, life, fresh>>
  PROVE  TSP!IInv'
<1>1. time \in TSP!Time
  BY DEF TSP!Time, Time
<1> QED BY <1>1, TSP!RestampStep, ThreadSchedulerAssumption

----------------------------------------------------------------------------
(* The steps                                                               *)

\* The thread moves on, or the clock does, and nothing else happens.
LEMMA PcStep ==
  ASSUME ThreadInv, UNCHANGED <<tsVars, queueVars, localVars, clientVars, pending>>, now' \in 0 .. MaxNow,
         pc' \in PC,
         pc' # pc => /\ pc \notin {"running", "done"} /\ pc' \notin {"move", "running"}
                     /\ pc = "move" => pc' = "cancel" /\ list_cpy = <<>>
                     /\ pc = "cancel" => cancel_list_cpy = <<>>
                     /\ pc' = "cancel" => pc = "move"
                     /\ pc' = "block" => scheduling_queue = <<>> /\ cancel_queue = <<>>
                     /\ pc' = "blocked" => pc = "block"
  PROVE  ThreadInv'
<1> USE DEF ThreadInv
<1>1. UNCHANGED <<scheduling_queue, cancel_queue, list_cpy, cancel_list_cpy, should_exit, cpc, holders,
                  ref_count, pending, scheduled, life, phase>>
  BY DEF queueVars, localVars, clientVars, tsVars
<1>2. TSP!IInv'
  BY InsideUnchanged
<1>3. ThreadType'
  BY <1>1 DEF ThreadType
<1>4. Handed'
  BY <1>1 DEF Handed, Queued, Copied, Cancelling
<1>5. Wakes'
  BY <1>1 DEF Wakes, NoLostWakeUp
<1>6. Destroying' /\ Driving'
  BY <1>1 DEF Destroying, Driving
<1> QED BY <1>2, <1>3, <1>4, <1>5, <1>6

\* A client hands a task over.
LEMMA ScheduleStep ==
  ASSUME ThreadInv, NEW c \in Client, NEW t \in Task, NEW time \in Times,
         aws_thread_scheduler_schedule_future(c, t, time)
  PROVE  ThreadInv'
<1> USE DEF ThreadInv
<1>1. /\ c \in holders /\ cpc[c] = "idle"
      /\ t \notin pending /\ ~Contains(cancel_queue \o cancel_list_cpy, t)
      /\ pc \notin {"pred", "block"}
      /\ timestamp' = [timestamp EXCEPT ![t] = time]
      /\ scheduling_queue' = Append(scheduling_queue, t)
      /\ pending' = pending \cup {t}
      /\ cpc' = [cpc EXCEPT ![c] = "notify"]
      /\ UNCHANGED <<asap_list, timed_list, timed_queue, scheduled, running_list, phase, current_time, status,
                     callback, life, fresh, cancel_queue, list_cpy, cancel_list_cpy, should_exit, holders,
                     ref_count, pc, now>>
  BY DEF aws_thread_scheduler_schedule_future, MutexFree, localVars
<1>2. t \notin Queued /\ t \notin Copied /\ t \notin scheduled /\ t \notin Cancelling
  <2>1. t \notin Cancelling
    BY <1>1, ConcatList DEF ThreadType, Cancelling
  <2> QED BY <1>1, <2>1 DEF Handed
<1>3. TSP!IInv'
  <2>1. time \in Time
    BY ThreadSchedulerAssumption
  <2> QED BY <1>1, <1>2, <2>1, InsideStamped
<1>4. /\ scheduling_queue' \in Seq(Task) /\ Distinct(scheduling_queue') /\ Queued' = Queued \cup {t}
      /\ Copied' = Copied /\ Cancelling' = Cancelling
  BY <1>1, <1>2, AppendList DEF ThreadType, Handed, Queued, Copied, Cancelling
<1>5. cpc' \in [Client -> ClientPC] /\ cpc'[c] = "notify" /\ \A d \in Client : d # c => cpc'[d] = cpc[d]
  BY <1>1 DEF ThreadType, ClientPC
<1>6. ThreadType'
  BY <1>1, <1>4, <1>5 DEF ThreadType
<1>7. Handed'
  BY <1>1, <1>2, <1>4 DEF Handed
<1>8. Wakes'
  BY <1>1, <1>5 DEF Wakes, NoLostWakeUp
<1>9. Destroying' /\ Driving'
  BY <1>1, <1>5 DEF Destroying, Driving
<1> QED BY <1>3, <1>6, <1>7, <1>8, <1>9

\* A client has a task cancelled.
LEMMA CancelStep ==
  ASSUME ThreadInv, NEW c \in Client, NEW t \in Task, aws_thread_scheduler_cancel_task(c, t)
  PROVE  ThreadInv'
<1> USE DEF ThreadInv
<1>1. /\ c \in holders /\ cpc[c] = "idle"
      /\ t \in pending /\ ~Contains(cancel_queue \o cancel_list_cpy, t)
      /\ pc \notin {"pred", "block"}
      /\ scheduling_queue' = RemoveFirst(scheduling_queue, t)
      /\ cancel_queue' = Append(cancel_queue, t)
      /\ cpc' = [cpc EXCEPT ![c] = "notify"]
      /\ UNCHANGED <<tsVars, scheduled, phase, life, list_cpy, cancel_list_cpy, should_exit, holders, ref_count,
                     pc, now, pending>>
  BY DEF aws_thread_scheduler_cancel_task, MutexFree, localVars, tsVars
<1>2. t \notin Cancelling
  BY <1>1, ConcatList DEF ThreadType, Cancelling
<1>3. TSP!IInv'
  BY <1>1, InsideUnchanged
<1>4. scheduling_queue' \in Seq(Task) /\ Distinct(scheduling_queue') /\ Queued' = Queued \ {t}
  BY <1>1, RemoveList DEF ThreadType, Handed, Queued
<1>5. /\ cancel_queue' \in Seq(Task) /\ Distinct(cancel_queue') /\ Cancelling' = Cancelling \cup {t}
      /\ Copied' = Copied
  BY <1>1, <1>2, AppendList DEF ThreadType, Handed, Cancelling, Copied
<1>6. cpc' \in [Client -> ClientPC] /\ cpc'[c] = "notify" /\ \A d \in Client : d # c => cpc'[d] = cpc[d]
  BY <1>1 DEF ThreadType, ClientPC
<1>7. ThreadType'
  BY <1>1, <1>4, <1>5, <1>6 DEF ThreadType
<1>8. Handed'
  BY <1>1, <1>2, <1>4, <1>5 DEF Handed
<1>9. Wakes'
  BY <1>1, <1>6 DEF Wakes, NoLostWakeUp
<1>10. Destroying' /\ Driving'
  BY <1>1, <1>6 DEF Destroying, Driving
<1> QED BY <1>3, <1>7, <1>8, <1>9, <1>10

\* A client notifies the thread, or moves towards the end of s_destroy_callback.
LEMMA NotifyStep ==
  ASSUME ThreadInv, NEW c \in Client, NEW to \in ClientPC, cpc' = [cpc EXCEPT ![c] = to],
         pc' = pc \/ Notify, cpc[c] = "notify" => Notify /\ to = "idle",
         cpc[c] # "notify" => holders = {} /\ to \in {"notify_all", "join"}, should_exit' \in BOOLEAN,
         UNCHANGED <<tsVars, queueVars, localVars, holders, ref_count, now, pending>>
  PROVE  ThreadInv'
<1> USE DEF ThreadInv
<1>1. UNCHANGED <<scheduling_queue, cancel_queue, list_cpy, cancel_list_cpy, holders,
                  ref_count, now, pending, scheduled, life, phase>>
  BY DEF queueVars, localVars, tsVars
<1>2. cpc' \in [Client -> ClientPC] /\ cpc'[c] = to /\ \A d \in Client : d # c => cpc'[d] = cpc[d]
  BY DEF ThreadType
<1>3. pc' = pc \/ (pc = "blocked" /\ pc' = "notified")
  BY DEF Notify
<1>4. TSP!IInv'
  BY InsideUnchanged
<1>5. ThreadType'
  BY <1>1, <1>2, <1>3 DEF ThreadType, PC
<1>6. Handed'
  BY <1>1, <1>3 DEF Handed, Queued, Copied, Cancelling
<1>7. Wakes'
  BY <1>1, <1>2, <1>3 DEF Wakes, NoLostWakeUp, Notify
<1>8. Destroying' /\ Driving'
  BY <1>1, <1>2, <1>3 DEF Destroying, Driving
<1> QED BY <1>4, <1>5, <1>6, <1>7, <1>8

\* References come and go; the last one makes its owner the destroyer.
LEMMA ReferenceStep ==
  ASSUME ThreadInv, NEW c \in Client,
         aws_thread_scheduler_release(c) \/ \E d \in Client : aws_thread_scheduler_acquire(c, d)
  PROVE  ThreadInv'
<1> USE DEF ThreadInv
<1>1. /\ c \in holders /\ cpc[c] = "idle"
      /\ UNCHANGED <<tsVars, scheduling_queue, cancel_queue, list_cpy, cancel_list_cpy, should_exit, pc, now,
                     pending, scheduled, life, phase>>
  BY DEF aws_thread_scheduler_release, aws_thread_scheduler_acquire, queueVars, localVars, tsVars
<1>2. IsFiniteSet(holders) /\ holders \in SUBSET Client /\ ref_count = Cardinality(holders) /\ ref_count \in Nat
  BY FS_Subset, FS_CardinalityType, ThreadSchedulerAssumption DEF ThreadType
<1>3. /\ holders' \in SUBSET Client /\ ref_count' = Cardinality(holders') /\ cpc' \in [Client -> ClientPC]
      /\ \A d \in Client : cpc'[d] = "notify" => d \in holders'
      /\ \A d \in Client : cpc'[d] \notin {"idle", "notify"} => holders' = {} /\ cpc'[d] \notin {"clean_up", "freed"}
      /\ \A d \in Client : cpc[d] = "notify" => cpc'[d] = "notify"
  <2>1. CASE aws_thread_scheduler_release(c)
    <3>1. /\ holders' = holders \ {c} /\ ref_count' = ref_count - 1
          /\ cpc' = [cpc EXCEPT ![c] = IF ref_count = 1 THEN "destroy" ELSE "idle"]
      BY <2>1 DEF aws_thread_scheduler_release
    <3>2. IsFiniteSet(holders \ {c}) /\ Cardinality(holders \ {c}) = Cardinality(holders) - 1
      BY <1>1, <1>2, FS_RemoveElement
    <3>3. ref_count = 1 => holders \ {c} = {}
      BY <1>2, <3>2, FS_EmptySet
    <3>4. /\ cpc' \in [Client -> ClientPC] /\ cpc'[c] = IF ref_count = 1 THEN "destroy" ELSE "idle"
          /\ \A d \in Client : d # c => cpc'[d] = cpc[d]
      BY <3>1 DEF ThreadType, ClientPC
    <3>5. \A d \in Client : d # c => cpc[d] \in {"idle", "notify"}
      BY <1>1 DEF Destroying
    <3> QED BY <1>1, <1>2, <3>1, <3>2, <3>3, <3>4, <3>5 DEF Destroying
  <2>2. CASE \E d \in Client : aws_thread_scheduler_acquire(c, d)
    <3>1. PICK d \in Client : aws_thread_scheduler_acquire(c, d)
      BY <2>2
    <3>2. /\ d \notin holders /\ holders' = holders \cup {d} /\ ref_count' = ref_count + 1 /\ cpc' = cpc
      BY <3>1 DEF aws_thread_scheduler_acquire
    <3>3. Cardinality(holders \cup {d}) = Cardinality(holders) + 1
      BY <1>2, <3>2, FS_AddElement
    <3>4. \A e \in Client : cpc[e] \in {"idle", "notify"}
      BY <1>1 DEF Destroying
    <3> QED BY <1>1, <1>2, <3>2, <3>3, <3>4 DEF Destroying, ThreadType
  <2> QED BY <2>1, <2>2
<1>4. TSP!IInv'
  BY <1>1, InsideUnchanged
<1>5. ThreadType'
  BY <1>1, <1>3 DEF ThreadType
<1>6. Handed'
  BY <1>1 DEF Handed, Queued, Copied, Cancelling
<1>7. Wakes'
  BY <1>1, <1>3 DEF Wakes, NoLostWakeUp
<1>8. Destroying' /\ Driving'
  BY <1>1, <1>3 DEF Destroying, Driving
<1> QED BY <1>4, <1>5, <1>6, <1>7, <1>8

\* Where the task scheduler goes on by itself, whoever drives it, a task that is called is
\* owed no more.
LEMMA RunsKeepHanded ==
  ASSUME ThreadInv, TS!SchedulerStep \/ TS!TaskReturns,
         pending' = IF callback' # NoTask THEN pending \ {callback'} ELSE pending,
         UNCHANGED <<queueVars, localVars>>,
         pc \notin {"move", "cancel"}, pc' \notin {"move", "cancel"}
  PROVE  TSP!IInv' /\ Handed' /\ pending' \in SUBSET Task /\ (life = "open" => life' = "open")
<1> USE DEF ThreadInv
<1>1. /\ TSP!IInv'
      /\ \/ callback' = NoTask /\ scheduled' = scheduled
         \/ callback' # NoTask /\ callback' \in scheduled /\ scheduled' = scheduled \ {callback'}
      /\ life = "open" => life' = "open"
  BY InsideRuns
<1>2. /\ UNCHANGED <<scheduling_queue, cancel_queue, list_cpy, cancel_list_cpy>>
      /\ Queued' = Queued /\ Copied' = Copied /\ Cancelling' = Cancelling
  BY DEF queueVars, localVars, Queued, Copied, Cancelling
<1>3. Handed'
  <2>1. CASE callback' = NoTask /\ scheduled' = scheduled
    BY <1>2, <2>1 DEF Handed
  <2>2. CASE callback' # NoTask /\ callback' \in scheduled /\ scheduled' = scheduled \ {callback'}
    BY <1>2, <2>2 DEF Handed
  <2> QED BY <1>1, <2>1, <2>2
<1>4. pending' \in SUBSET Task
  BY DEF ThreadType
<1> QED BY <1>1, <1>3, <1>4

\* The steps of s_destroy_callback.
LEMMA DestroyStep ==
  ASSUME ThreadInv, NEW c \in Client, Destroys(c)
  PROVE  ThreadInv'
<1> USE DEF ThreadInv
<1>0. UNCHANGED <<queueVars, localVars, holders, ref_count, now, scheduling_queue, cancel_queue, list_cpy,
                  cancel_list_cpy>>
  BY DEF Destroys, queueVars, localVars
<1>1. CASE /\ cpc[c] = "destroy"
           /\ should_exit' = TRUE
           /\ cpc' = [cpc EXCEPT ![c] = "notify_all"]
           /\ UNCHANGED <<tsVars, pc, pending>>
  <2>1. "notify_all" \in ClientPC /\ should_exit' \in BOOLEAN /\ pc' = pc /\ holders = {}
    BY <1>1 DEF ClientPC, Destroying
  <2> QED BY <1>0, <1>1, <2>1, NotifyStep
<1>2. CASE /\ cpc[c] = "notify_all"
           /\ Notify
           /\ cpc' = [cpc EXCEPT ![c] = "join"]
           /\ UNCHANGED <<tsVars, should_exit, pending>>
  <2>1. "join" \in ClientPC /\ should_exit' \in BOOLEAN /\ holders = {}
    BY <1>2 DEF ClientPC, Destroying, ThreadType
  <2> QED BY <1>0, <1>2, <2>1, NotifyStep
<1>3. CASE /\ cpc[c] = "join"
           /\ pc = "done"
           /\ TS!aws_task_scheduler_clean_up
           /\ cpc' = [cpc EXCEPT ![c] = "clean_up"]
           /\ UNCHANGED <<should_exit, pc, pending>>
  <2>1. TSP!IInv' /\ scheduled' = scheduled
    BY <1>3, InsideEnds
  <2>2. cpc' \in [Client -> ClientPC] /\ cpc'[c] = "clean_up" /\ \A d \in Client : d # c => cpc'[d] = cpc[d]
    BY <1>3 DEF ThreadType, ClientPC
  <2>3. ThreadType'
    BY <1>0, <1>3, <2>2 DEF ThreadType
  <2>4. Handed'
    BY <1>0, <1>3, <2>1 DEF Handed, Queued, Copied, Cancelling
  <2>5. Wakes' /\ Destroying' /\ Driving'
    BY <1>0, <1>3, <2>2 DEF Wakes, NoLostWakeUp, Destroying, Driving
  <2> QED BY <2>1, <2>3, <2>4, <2>5
<1>4. CASE /\ cpc[c] = "clean_up"
           /\ TS!SchedulerStep \/ TS!TaskReturns
           /\ pending' = IF callback' # NoTask THEN pending \ {callback'} ELSE pending
           /\ cpc' = [cpc EXCEPT ![c] = IF life' = "closed" THEN "freed" ELSE "clean_up"]
           /\ UNCHANGED <<should_exit, pc>>
  <2>0. pc = "done" /\ holders = {}
    BY <1>4 DEF Destroying
  <2>1. TSP!IInv' /\ Handed' /\ pending' \in SUBSET Task
    BY <1>0, <1>4, <2>0, RunsKeepHanded
  <2>2. /\ cpc' \in [Client -> ClientPC] /\ cpc'[c] \in {"clean_up", "freed"}
        /\ \A d \in Client : d # c => cpc'[d] = cpc[d]
    BY <1>4 DEF ThreadType, ClientPC
  <2>3. ThreadType'
    BY <1>0, <1>4, <2>1, <2>2 DEF ThreadType
  <2>4. Wakes' /\ Destroying' /\ Driving'
    BY <1>0, <1>4, <2>0, <2>2 DEF Wakes, NoLostWakeUp, Destroying, Driving
  <2> QED BY <2>1, <2>3, <2>4
<1> QED BY <1>1, <1>2, <1>3, <1>4 DEF Destroys, s_destroy_callback

\* The thread takes both queues.
LEMMA SwapStep ==
  ASSUME ThreadInv, SwapQueues
  PROVE  ThreadInv'
<1> USE DEF ThreadInv
<1>1. /\ pc = "swap" /\ pc' = "move"
      /\ list_cpy' = scheduling_queue /\ cancel_list_cpy' = cancel_queue
      /\ scheduling_queue' = <<>> /\ cancel_queue' = <<>>
      /\ UNCHANGED <<tsVars, pending, should_exit, cpc, holders, ref_count, now, scheduled, life, phase>>
  BY DEF SwapQueues, ThreadOnly, clientVars, tsVars
<1>2. TSP!IInv'
  BY <1>1, InsideUnchanged
<1>3. ThreadType'
  BY <1>1, EmptySeq DEF ThreadType, PC
<1>4. /\ Queued' = {} /\ Copied' = Queued /\ Copied = {} /\ Cancelling' = Cancelling
      /\ Distinct(scheduling_queue') /\ Distinct(cancel_queue')
  BY <1>1, EmptyList DEF Queued, Copied, Cancelling, Handed
<1>5. Handed'
  BY <1>1, <1>4 DEF Handed
<1>6. Wakes' /\ Destroying' /\ Driving'
  BY <1>1 DEF Wakes, NoLostWakeUp, Destroying, Driving
<1> QED BY <1>2, <1>3, <1>5, <1>6

\* The thread passes the tasks it took to the task scheduler.
LEMMA MoveStep ==
  ASSUME ThreadInv, MoveTask
  PROVE  ThreadInv'
<1> USE DEF ThreadInv
<1>0. /\ pc = "move"
      /\ UNCHANGED <<scheduling_queue, cancel_queue, cancel_list_cpy, should_exit, cpc, holders, ref_count, now,
                     pending, clientVars, queueVars>>
  BY DEF MoveTask, ThreadOnly, clientVars, queueVars
<1>1. CASE list_cpy = <<>>
  <2>1. pc' = "cancel" /\ UNCHANGED <<tsVars, localVars>>
    BY <1>1, <1>0 DEF MoveTask, localVars
  <2>2. now' \in 0 .. MaxNow /\ pc' \in PC
    BY <1>0, <2>1 DEF ThreadType, PC
  <2> QED BY <1>0, <1>1, <2>1, <2>2, PcStep
<1>2. CASE list_cpy # <<>>
  <2> DEFINE t == Head(list_cpy)
  <2>1. /\ \/ TS!aws_task_scheduler_schedule_future(t, timestamp[t])
           \/ TS!aws_task_scheduler_schedule_now(t)
        /\ list_cpy' = Tail(list_cpy)
        /\ UNCHANGED <<running_list, phase, current_time, status, callback, life, pc>>
    BY <1>2 DEF MoveTask
  <2>2. /\ t \in Task /\ t \in Copied /\ list_cpy' \in Seq(Task) /\ Distinct(list_cpy') /\ Copied' = Copied \ {t}
    BY <1>2, <2>1, TailList DEF ThreadType, Handed, Copied
  <2>3. timestamp[t] \in Time /\ phase = "idle" /\ life = "open"
    BY <1>0, <2>2, Inside DEF Driving
  <2> HIDE DEF t
  <2>4. TSP!IInv' /\ scheduled' = scheduled \cup {t} /\ t \notin scheduled
    BY <2>1, <2>2, <2>3, InsideSchedules
  <2>5. Queued' = Queued /\ Cancelling' = Cancelling
    BY <1>0 DEF Queued, Cancelling
  <2>6. ThreadType'
    BY <1>0, <2>1, <2>2 DEF ThreadType
  <2>7. Handed'
    BY <1>0, <2>1, <2>2, <2>4, <2>5 DEF Handed
  <2>8. Wakes' /\ Destroying' /\ Driving'
    BY <1>0, <2>1 DEF Wakes, NoLostWakeUp, Destroying, Driving
  <2> QED BY <2>4, <2>6, <2>7, <2>8
<1> QED BY <1>1, <1>2

\* The thread has the cancelled tasks cancelled; none of them is still on its way.
LEMMA CancelTaskStep ==
  ASSUME ThreadInv, CancelTask
  PROVE  ThreadInv'
<1> USE DEF ThreadInv
<1>0. /\ pc = "cancel"
      /\ UNCHANGED <<scheduling_queue, cancel_queue, list_cpy, should_exit, cpc, holders, ref_count, now,
                     clientVars, queueVars>>
  BY DEF CancelTask, ThreadOnly, clientVars, queueVars
<1>1. CASE cancel_list_cpy = <<>>
  <2>1. pc' = "run" /\ UNCHANGED <<tsVars, localVars, pending>>
    BY <1>1, <1>0 DEF CancelTask, localVars
  <2>2. now' \in 0 .. MaxNow /\ pc' \in PC
    BY <1>0, <2>1 DEF ThreadType, PC
  <2> QED BY <1>0, <1>1, <2>1, <2>2, PcStep
<1>2. CASE cancel_list_cpy # <<>>
  <2> DEFINE t == Head(cancel_list_cpy)
  <2>1. /\ TS!aws_task_scheduler_cancel_task(t)
        /\ pending' = pending \ {t}
        /\ cancel_list_cpy' = Tail(cancel_list_cpy)
        /\ UNCHANGED <<phase, current_time, status, callback, life, fresh, pc>>
    BY <1>2 DEF CancelTask
  <2>2. /\ t \in Task /\ t \in ToSet(cancel_list_cpy) /\ cancel_list_cpy' \in Seq(Task)
        /\ Distinct(cancel_list_cpy') /\ ToSet(cancel_list_cpy') = ToSet(cancel_list_cpy) \ {t}
    BY <1>2, <2>1, TailList DEF ThreadType, Handed
  <2>3. phase = "idle" /\ life = "open"
    BY <1>0 DEF Driving
  <2> HIDE DEF t
  <2>4. TSP!IInv' /\ scheduled' = scheduled \ {t}
    BY <2>1, <2>2, <2>3, InsideCancels
  <2>5. Queued' = Queued /\ Copied' = {} /\ Copied = {} /\ t \notin Queued /\ Cancelling \ {t} \subseteq Cancelling'
        /\ Cancelling' \subseteq Cancelling
    BY <1>0, <2>2, EmptyList DEF Queued, Copied, Cancelling, Handed
  <2>6. ThreadType'
    BY <1>0, <2>1, <2>2 DEF ThreadType
  <2>7. Handed'
    BY <1>0, <2>1, <2>2, <2>4, <2>5 DEF Handed
  <2>8. Wakes' /\ Destroying' /\ Driving'
    BY <1>0, <2>1 DEF Wakes, NoLostWakeUp, Destroying, Driving
  <2> QED BY <2>4, <2>6, <2>7, <2>8
<1> QED BY <1>1, <1>2

\* A pass begins, goes on and ends.
LEMMA PassStep ==
  ASSUME ThreadInv, RunAll \/ Running
  PROVE  ThreadInv'
<1> USE DEF ThreadInv
<1>0. /\ UNCHANGED <<scheduling_queue, cancel_queue, list_cpy, cancel_list_cpy, should_exit, cpc, holders,
                     ref_count, now, queueVars, localVars>>
      /\ pc \in {"run", "running"}
  BY DEF RunAll, Running, ThreadOnly, clientVars, queueVars, localVars
<1>1. CASE RunAll
  <2>1. /\ pc = "run" /\ pc' = "running" /\ TS!aws_task_scheduler_run_all(now) /\ pending' = pending
    BY <1>1 DEF RunAll
  <2>2. now \in Time
    BY ThreadSchedulerAssumption DEF ThreadType, Time
  <2>3. TSP!IInv' /\ scheduled' = scheduled /\ life' = life /\ life = "open"
    BY <2>1, <2>2, InsideBegins
  <2>4. ThreadType'
    BY <1>0, <2>1 DEF ThreadType, PC
  <2>5. Handed'
    BY <1>0, <2>1, <2>3 DEF Handed, Queued, Copied, Cancelling
  <2>6. Wakes' /\ Destroying' /\ Driving'
    BY <1>0, <2>1, <2>3 DEF Wakes, NoLostWakeUp, Destroying, Driving
  <2> QED BY <2>3, <2>4, <2>5, <2>6
<1>2. CASE Running
  <2>1. /\ pc = "running" /\ (TS!SchedulerStep \/ TS!TaskReturns)
        /\ pending' = IF callback' # NoTask THEN pending \ {callback'} ELSE pending
        /\ pc' = IF phase' = "idle" THEN "timeout" ELSE "running"
    BY <1>2 DEF Running
  <2>2. TSP!IInv' /\ Handed' /\ pending' \in SUBSET Task /\ (life = "open" => life' = "open")
    BY <1>0, <2>1, RunsKeepHanded
  <2>3. ThreadType'
    BY <1>0, <2>1, <2>2 DEF ThreadType, PC
  <2>4. Wakes' /\ Destroying' /\ Driving'
    BY <1>0, <2>1, <2>2 DEF Wakes, NoLostWakeUp, Destroying, Driving
  <2> QED BY <2>2, <2>3, <2>4
<1> QED BY <1>1, <1>2

\* The invariant is inductive.
LEMMA NextThreadInv == ThreadInv /\ [Next]_vars => ThreadInv'
<1> SUFFICES ASSUME ThreadInv, [Next]_vars PROVE ThreadInv'
  OBVIOUS
<1>1. ASSUME NEW c \in Client, ClientStep(c) PROVE ThreadInv'
  BY <1>1, ScheduleStep, CancelStep, ReferenceStep DEF ClientStep
<1>2. ASSUME NEW c \in Client, ClientNotifies(c) PROVE ThreadInv'
  <2>1. "idle" \in ClientPC /\ should_exit' \in BOOLEAN
    BY <1>2 DEF ClientPC, ClientNotifies, ThreadInv, ThreadType
  <2>2. /\ cpc[c] = "notify" /\ cpc' = [cpc EXCEPT ![c] = "idle"] /\ Notify
        /\ UNCHANGED <<tsVars, queueVars, localVars, holders, ref_count, now, pending>>
    BY <1>2 DEF ClientNotifies
  <2> QED BY <2>1, <2>2, NotifyStep
<1>3. ASSUME NEW c \in Client, Destroys(c) PROVE ThreadInv'
  BY <1>3, DestroyStep
<1>4. CASE LoopTest \/ ComputeTimeout \/ Waiting \/ SpuriousWakeUp \/ Tick
  <2>1. UNCHANGED <<tsVars, queueVars, localVars, clientVars, pending>>
    BY <1>4 DEF LoopTest, ComputeTimeout, Waiting, SpuriousWakeUp, Tick, ThreadOnly
  <2>2. now' \in 0 .. MaxNow
    BY <1>4, ThreadSchedulerAssumption
    DEF LoopTest, ComputeTimeout, Waiting, SpuriousWakeUp, Tick, ThreadOnly, ThreadInv, ThreadType, Time
  <2>3. CASE LoopTest \/ ComputeTimeout \/ SpuriousWakeUp \/ Tick
    <3>1. pc' = pc \/ (pc \in {"loop", "timeout", "blocked"} /\ pc' \in {"done", "swap", "wait", "loop", "notified"})
      BY <2>3 DEF LoopTest, ComputeTimeout, SpuriousWakeUp, Tick
    <3>2. pc' \in PC
      BY <3>1 DEF ThreadInv, ThreadType, PC
    <3> QED BY <2>1, <2>2, <3>1, <3>2, PcStep
  <2>4. CASE Waiting
    <3>1. \/ pc \in {"wait", "notified"} /\ pc' = "pred"
          \/ pc = "pred" /\ pc' = "loop"
          \/ pc = "pred" /\ pc' = "block" /\ scheduling_queue = <<>> /\ cancel_queue = <<>>
          \/ pc = "block" /\ pc' = "blocked"
          \/ pc = "timed_out" /\ pc' = "loop"
          \/ pc = "blocked" /\ pc' = "timed_out"
      BY <2>4 DEF Waiting, WaitForPred, WaitTimesOut, s_thread_should_wake
    <3>2. pc' \in PC
      BY <3>1 DEF PC
    <3> QED BY <2>1, <2>2, <3>1, <3>2, PcStep
  <2> QED BY <1>4, <2>3, <2>4
<1>5. CASE SwapQueues
  BY <1>5, SwapStep
<1>6. CASE MoveTask
  BY <1>6, MoveStep
<1>7. CASE CancelTask
  BY <1>7, CancelTaskStep
<1>8. CASE RunAll \/ Running
  BY <1>8, PassStep
<1>9. CASE UNCHANGED vars
  <2>1. UNCHANGED <<tsVars, queueVars, localVars, clientVars, pending>> /\ pc' = pc /\ now' = now
    BY <1>9 DEF vars
  <2>2. pc' \in PC /\ now' \in 0 .. MaxNow
    BY <2>1 DEF ThreadInv, ThreadType
  <2> QED BY <2>1, <2>2, PcStep
<1> QED BY <1>1, <1>2, <1>3, <1>4, <1>5, <1>6, <1>7, <1>8, <1>9 DEF Next, ThreadStep

\* aws_thread_scheduler_new.
LEMMA InitThreadInv == Init => ThreadInv
<1> SUFFICES ASSUME Init PROVE ThreadInv
  OBVIOUS
<1> USE DEF Init
<1>1. TSP!IInv
  <2>1. TSP!Init
    BY DEF TS!Init, TSP!Init
  <2> QED BY <2>1, TSP!InitIInv, ThreadSchedulerAssumption
<1>2. scheduled = {} /\ phase = "idle" /\ life = "open"
  BY DEF TS!Init
<1>3. ThreadType
  <2>1. <<>> \in Seq(Task) /\ Cardinality({Creator}) = 1
    BY EmptySeq, FS_Singleton
  <2>2. now \in 0 .. MaxNow
    BY ThreadSchedulerAssumption DEF Time
  <2>3. should_exit \in BOOLEAN
    OBVIOUS
  <2>4. ref_count = Cardinality(holders) /\ holders \in SUBSET Client
    BY <2>1, ThreadSchedulerAssumption
  <2>5. cpc \in [Client -> ClientPC] /\ pc \in PC
    BY DEF PC, ClientPC
  <2> QED BY <2>1, <2>2, <2>3, <2>4, <2>5 DEF ThreadType
<1>4. Handed
  BY <1>2, EmptyList DEF Handed, Queued, Copied, Cancelling
<1>5. Wakes /\ Destroying /\ Driving
  BY <1>2 DEF Wakes, NoLostWakeUp, Destroying, Driving
<1> QED BY <1>1, <1>3, <1>4, <1>5 DEF ThreadInv

\* The invariant holds of every behaviour.
LEMMA ThreadInvariance == Spec => []ThreadInv
BY InitThreadInv, NextThreadInv, PTL DEF Spec

----------------------------------------------------------------------------
(* The properties                                                          *)

\* A task on its way from a client to the task scheduler is in one place, and none whose
\* function is owed is lost between the two threads (thread_scheduler.c).
THEOREM HandedOverOnceCorrect == Spec => []HandedOverOnce
<1>1. ThreadInv => HandedOverOnce
  <2> SUFFICES ASSUME ThreadInv PROVE HandedOverOnce
    OBVIOUS
  <2> USE DEF ThreadInv
  <2>1. TypeOK
    <3>1. TS!TypeOK
      BY SameOperators DEF TSP!IInv, TSP!Type, TSP!TypeOK, TS!TypeOK, TSP!Time, TS!Time
    <3>2. ref_count \in 0 .. Cardinality(Client)
      <4>1. IsFiniteSet(holders) /\ Cardinality(holders) <= Cardinality(Client)
        BY FS_Subset, ThreadSchedulerAssumption DEF ThreadType
      <4>2. Cardinality(holders) \in Nat /\ Cardinality(Client) \in Nat
        BY <4>1, FS_CardinalityType, ThreadSchedulerAssumption
      <4> QED BY <4>1, <4>2 DEF ThreadType
    <3> QED BY <3>1, <3>2 DEF TypeOK, ThreadType, PC, ClientPC
  <2>2. ASSUME NEW t \in Task
        PROVE  /\ Places(t) <= 1
               /\ t \in pending => Places(t) = 1 \/ Contains(cancel_queue \o cancel_list_cpy, t)
               /\ t \notin pending => Places(t) = 0
    <3>1. Cardinality({i \in DOMAIN scheduling_queue : scheduling_queue[i] = t}) = IF t \in Queued THEN 1 ELSE 0
      BY OccursOnce DEF ThreadType, Handed, Queued
    <3>2. Cardinality({i \in DOMAIN list_cpy : list_cpy[i] = t}) = IF t \in Copied THEN 1 ELSE 0
      BY OccursOnce DEF ThreadType, Handed, Copied
    <3>3. Cardinality({t} \cap scheduled) = IF t \in scheduled THEN 1 ELSE 0
      <4>1. {t} \cap scheduled = IF t \in scheduled THEN {t} ELSE {}
        OBVIOUS
      <4>2. Cardinality({t}) = 1 /\ Cardinality({}) = 0
        BY FS_Singleton, FS_EmptySet
      <4> QED BY <4>1, <4>2
    <3>4. Places(t) = (IF t \in Queued THEN 1 ELSE 0) + (IF t \in Copied THEN 1 ELSE 0)
                      + (IF t \in scheduled THEN 1 ELSE 0)
      BY <3>1, <3>2, <3>3 DEF Places
    <3>5. t \in Cancelling <=> Contains(cancel_queue \o cancel_list_cpy, t)
      BY ConcatList DEF ThreadType, Cancelling
    <3>6. CASE t \in Queued
      BY <3>4, <3>6 DEF Handed
    <3>7. CASE t \in Copied
      BY <3>4, <3>7 DEF Handed
    <3>8. CASE t \in scheduled
      BY <3>4, <3>8 DEF Handed
    <3>9. CASE t \notin Queued \cup Copied \cup scheduled
      BY <3>4, <3>5, <3>9 DEF Handed
    <3> QED BY <3>6, <3>7, <3>8, <3>9
  <2> QED BY <2>1, <2>2 DEF HandedOverOnce
<1> QED BY <1>1, ThreadInvariance, PTL

\* The thread never sleeps on a queue that is not empty without somebody about to wake it
\* (the pushes are made and the predicate is read under one mutex).
THEOREM NoLostWakeUpCorrect == Spec => []NoLostWakeUp
<1>1. ThreadInv => NoLostWakeUp
  BY DEF ThreadInv, Wakes
<1> QED BY <1>1, ThreadInvariance, PTL

\* When s_destroy_callback cleans the task scheduler up, the thread has ended and no client
\* is inside a call.
THEOREM QuietWhenDestroyedCorrect == Spec => []QuietWhenDestroyed
<1>1. ThreadInv => QuietWhenDestroyed
  BY DEF ThreadInv, Destroying, QuietWhenDestroyed
<1> QED BY <1>1, ThreadInvariance, PTL
=============================================================================
