-------------------------- MODULE ThreadScheduler --------------------------
(***************************************************************************)
(* source/thread_scheduler.c: an aws_task_scheduler driven by a thread of  *)
(* its own.  Client threads put tasks and cancellations into two queues    *)
(* under a mutex and signal a condition variable; the thread swaps the     *)
(* queues out, feeds the task scheduler, runs it and sleeps.  The last     *)
(* aws_thread_scheduler_release stops and joins the thread.                *)
(*                                                                         *)
(* A task function that itself calls schedule_* or cancel_task behaves as  *)
(* a client doing so at that moment, and is not modelled apart.            *)
(***************************************************************************)
EXTENDS Naturals, SequencesExt, FiniteSetsExt

CONSTANTS Task, NoTask, QueueCapacity,
          UINT64_MAX,     \* 2^w - 1 for the width w of the clock
          Client,         \* threads that use the scheduler
          Creator,        \* the one that called aws_thread_scheduler_new
          Times,          \* the times clients schedule for
          MaxNow          \* bound on the clock

Time == 0 .. UINT64_MAX
INT64_MAX == UINT64_MAX \div 2

ASSUME ThreadSchedulerAssumption ==
    /\ UINT64_MAX \in Nat \ {0} /\ QueueCapacity \in Nat /\ NoTask \notin Task
    /\ IsFiniteSet(Client)
    /\ Creator \in Client
    /\ Times \subseteq Time
    /\ MaxNow \in Time

VARIABLES asap_list, timed_list, timed_queue, timestamp, scheduled, running_list,
          phase, current_time, status, callback, life, fresh

tsVars == <<asap_list, timed_list, timed_queue, timestamp, scheduled, running_list,
            phase, current_time, status, callback, life, fresh>>

TS == INSTANCE TaskScheduler

VARIABLES
    scheduling_queue, cancel_queue,   \* thread_data, under the mutex
    list_cpy, cancel_list_cpy,        \* the thread's local lists
    should_exit,                      \* the atomic flag
    pc,                               \* where s_thread_fn is
    cpc,                              \* where each client is
    holders,                          \* clients that own a reference
    ref_count,
    now,                              \* aws_high_res_clock_get_ticks
    pending                           \* history: scheduled, function not called since

queueVars == <<scheduling_queue, cancel_queue>>
localVars == <<list_cpy, cancel_list_cpy>>
clientVars == <<should_exit, cpc, holders, ref_count>>
vars == <<tsVars, queueVars, localVars, clientVars, pc, now, pending>>

TypeOK ==
    /\ TS!TypeOK
    /\ scheduling_queue \in Seq(Task) /\ cancel_queue \in Seq(Task)
    /\ list_cpy \in Seq(Task) /\ cancel_list_cpy \in Seq(Task)
    /\ should_exit \in BOOLEAN
    /\ pc \in {"loop", "swap", "move", "cancel", "run", "running", "timeout", "wait",
               "pred", "block", "blocked", "notified", "timed_out", "done"}
    /\ cpc \in [Client -> {"idle", "notify", "destroy", "notify_all", "join", "clean_up", "freed"}]
    /\ holders \in SUBSET Client
    /\ ref_count \in 0 .. Cardinality(Client)
    /\ now \in 0 .. MaxNow
    /\ pending \in SUBSET Task

\* aws_thread_scheduler_new: one reference, the thread launched.
Init ==
    /\ TS!Init
    /\ scheduling_queue = <<>> /\ cancel_queue = <<>>
    /\ list_cpy = <<>> /\ cancel_list_cpy = <<>>
    /\ should_exit = FALSE
    /\ pc = "loop"
    /\ cpc = [c \in Client |-> "idle"]
    /\ holders = {Creator}
    /\ ref_count = 1
    /\ now = 0
    /\ pending = {}

\* The thread holds the mutex only between locking it for the predicate and
\* releasing it, to sleep or to go on; every other critical section is one step.
MutexFree == pc \notin {"pred", "block"}

\* pthread_cond_signal and pthread_cond_broadcast: a sleeping thread is woken, a
\* thread that has not yet gone to sleep sees nothing.
Notify == pc' = IF pc = "blocked" THEN "notified" ELSE pc

----------------------------------------------------------------------------
(* Client threads                                                          *)

\* Mutant: the queue is changed without taking the mutex.
schedule_future_unlocked(c, t, time_to_run) ==
    /\ c \in holders /\ cpc[c] = "idle"
    /\ t \notin pending /\ ~Contains(cancel_queue \o cancel_list_cpy, t)
    /\ timestamp' = [timestamp EXCEPT ![t] = time_to_run]
    /\ scheduling_queue' = Append(scheduling_queue, t)
    /\ pending' = pending \cup {t}
    /\ cpc' = [cpc EXCEPT ![c] = "notify"]
    /\ UNCHANGED <<asap_list, timed_list, timed_queue, scheduled, running_list, phase,
                   current_time, status, callback, life, fresh, cancel_queue, localVars,
                   should_exit, holders, ref_count, pc, now>>

\* Lock, push, unlock; the notification follows.  A task is handed over again only
\* after its function was called and when no cancellation of it is under way.
\* aws_thread_scheduler_schedule_now is time_to_run = 0.
aws_thread_scheduler_schedule_future(c, t, time_to_run) ==
    /\ c \in holders /\ cpc[c] = "idle"
    /\ t \notin pending /\ ~Contains(cancel_queue \o cancel_list_cpy, t)
    /\ MutexFree
    /\ timestamp' = [timestamp EXCEPT ![t] = time_to_run]
    /\ scheduling_queue' = Append(scheduling_queue, t)
    /\ pending' = pending \cup {t}
    /\ cpc' = [cpc EXCEPT ![c] = "notify"]
    /\ UNCHANGED <<asap_list, timed_list, timed_queue, scheduled, running_list, phase,
                   current_time, status, callback, life, fresh, cancel_queue, localVars,
                   should_exit, holders, ref_count, pc, now>>

\* Mutant: a task found in the scheduling queue is unlinked and that is all.
cancel_task_unlink_only(c, t) ==
    /\ c \in holders /\ cpc[c] = "idle"
    /\ t \in pending /\ ~Contains(cancel_queue \o cancel_list_cpy, t)
    /\ MutexFree
    /\ scheduling_queue' = RemoveFirst(scheduling_queue, t)
    /\ cancel_queue' = IF Contains(scheduling_queue, t) THEN cancel_queue ELSE Append(cancel_queue, t)
    /\ cpc' = [cpc EXCEPT ![c] = "notify"]
    /\ UNCHANGED <<tsVars, localVars, should_exit, holders, ref_count, pc, now, pending>>

\* The task leaves the scheduling queue if it is still there; either way a
\* cancellation is queued.  One cancellation per scheduling.
aws_thread_scheduler_cancel_task(c, t) ==
    /\ c \in holders /\ cpc[c] = "idle"
    /\ t \in pending /\ ~Contains(cancel_queue \o cancel_list_cpy, t)
    /\ MutexFree
    /\ scheduling_queue' = RemoveFirst(scheduling_queue, t)
    /\ cancel_queue' = Append(cancel_queue, t)
    /\ cpc' = [cpc EXCEPT ![c] = "notify"]
    /\ UNCHANGED <<tsVars, localVars, should_exit, holders, ref_count, pc, now, pending>>

\* aws_condition_variable_notify_one, after the mutex was released.
ClientNotifies(c) ==
    /\ cpc[c] = "notify"
    /\ cpc' = [cpc EXCEPT ![c] = "idle"]
    /\ Notify
    /\ UNCHANGED <<tsVars, queueVars, localVars, should_exit, holders, ref_count, now, pending>>

\* c takes a reference for d.
aws_thread_scheduler_acquire(c, d) ==
    /\ c \in holders /\ cpc[c] = "idle"
    /\ d \notin holders
    /\ holders' = holders \cup {d}
    /\ ref_count' = ref_count + 1
    /\ UNCHANGED <<tsVars, queueVars, localVars, should_exit, cpc, pc, now, pending>>

\* The one who drops the last reference runs s_destroy_callback.
aws_thread_scheduler_release(c) ==
    /\ c \in holders /\ cpc[c] = "idle"
    /\ holders' = holders \ {c}
    /\ ref_count' = ref_count - 1
    /\ cpc' = [cpc EXCEPT ![c] = IF ref_count = 1 THEN "destroy" ELSE "idle"]
    /\ UNCHANGED <<tsVars, queueVars, localVars, should_exit, pc, now, pending>>

\* Mutant: the thread is not joined before the task scheduler is cleaned up.
destroy_callback_no_join(c) ==
    \/ /\ cpc[c] = "destroy"
       /\ should_exit' = TRUE
       /\ cpc' = [cpc EXCEPT ![c] = "notify_all"]
       /\ UNCHANGED <<tsVars, pc, pending>>
    \/ /\ cpc[c] = "notify_all"
       /\ Notify
       /\ cpc' = [cpc EXCEPT ![c] = "join"]
       /\ UNCHANGED <<tsVars, should_exit, pending>>
    \/ /\ cpc[c] = "join"
       /\ TS!aws_task_scheduler_clean_up
       /\ cpc' = [cpc EXCEPT ![c] = "clean_up"]
       /\ UNCHANGED <<should_exit, pc, pending>>

\* s_destroy_callback, one step per call it makes: the atomic store (without the
\* mutex), the broadcast, the join, the clean-up of the task scheduler, the free.
s_destroy_callback(c) ==
    \/ /\ cpc[c] = "destroy"
       /\ should_exit' = TRUE
       /\ cpc' = [cpc EXCEPT ![c] = "notify_all"]
       /\ UNCHANGED <<tsVars, pc, pending>>
    \/ /\ cpc[c] = "notify_all"
       /\ Notify
       /\ cpc' = [cpc EXCEPT ![c] = "join"]
       /\ UNCHANGED <<tsVars, should_exit, pending>>
    \/ /\ cpc[c] = "join"
       /\ pc = "done"
       /\ TS!aws_task_scheduler_clean_up
       /\ cpc' = [cpc EXCEPT ![c] = "clean_up"]
       /\ UNCHANGED <<should_exit, pc, pending>>
    \/ /\ cpc[c] = "clean_up"
       /\ TS!SchedulerStep \/ TS!TaskReturns
       /\ pending' = IF callback' # NoTask THEN pending \ {callback'} ELSE pending
       /\ cpc' = [cpc EXCEPT ![c] = IF life' = "closed" THEN "freed" ELSE "clean_up"]
       /\ UNCHANGED <<should_exit, pc>>

Destroys(c) ==
    /\ s_destroy_callback(c)
    /\ UNCHANGED <<queueVars, localVars, holders, ref_count, now>>

ClientStep(c) ==
    \/ \E t \in Task, time \in Times : aws_thread_scheduler_schedule_future(c, t, time)
    \/ \E t \in Task : aws_thread_scheduler_cancel_task(c, t)
    \/ \E d \in Client : aws_thread_scheduler_acquire(c, d)
    \/ aws_thread_scheduler_release(c)

----------------------------------------------------------------------------
(* s_thread_fn                                                             *)

ThreadOnly == UNCHANGED <<clientVars, now>>

\* Mutant: the thread leaves only when the task scheduler has no task.
LoopTestNoTasks ==
    /\ pc = "loop"
    /\ pc' = IF should_exit /\ ~TS!has_tasks THEN "done" ELSE "swap"
    /\ ThreadOnly
    /\ UNCHANGED <<tsVars, queueVars, localVars, pending>>

LoopTest ==
    /\ pc = "loop"
    /\ pc' = IF should_exit THEN "done" ELSE "swap"
    /\ ThreadOnly
    /\ UNCHANGED <<tsVars, queueVars, localVars, pending>>

SwapQueues ==
    /\ pc = "swap"
    /\ list_cpy' = scheduling_queue
    /\ cancel_list_cpy' = cancel_queue
    /\ scheduling_queue' = <<>>
    /\ cancel_queue' = <<>>
    /\ pc' = "move"
    /\ ThreadOnly
    /\ UNCHANGED <<tsVars, pending>>

MoveTask ==
    /\ pc = "move"
    /\ IF list_cpy # <<>>
       THEN LET t == Head(list_cpy)
            IN  /\ IF timestamp[t] # 0
                   THEN TS!aws_task_scheduler_schedule_future(t, timestamp[t])
                   ELSE TS!aws_task_scheduler_schedule_now(t)
                /\ list_cpy' = Tail(list_cpy)
                /\ UNCHANGED <<running_list, phase, current_time, status, callback, life, pc>>
       ELSE pc' = "cancel" /\ UNCHANGED <<tsVars, list_cpy>>
    /\ ThreadOnly
    /\ UNCHANGED <<queueVars, cancel_list_cpy, pending>>

CancelTask ==
    /\ pc = "cancel"
    /\ IF cancel_list_cpy # <<>>
       THEN /\ TS!aws_task_scheduler_cancel_task(Head(cancel_list_cpy))
            /\ pending' = pending \ {Head(cancel_list_cpy)}
            /\ cancel_list_cpy' = Tail(cancel_list_cpy)
            /\ UNCHANGED <<phase, current_time, status, callback, life, fresh, pc>>
       ELSE pc' = "run" /\ UNCHANGED <<tsVars, cancel_list_cpy, pending>>
    /\ ThreadOnly
    /\ UNCHANGED <<queueVars, list_cpy>>

\* The clock is read and aws_task_scheduler_run_all called.
RunAll ==
    /\ pc = "run"
    /\ TS!aws_task_scheduler_run_all(now)
    /\ pc' = "running"
    /\ ThreadOnly
    /\ UNCHANGED <<queueVars, localVars, pending>>

Running ==
    /\ pc = "running"
    /\ TS!SchedulerStep \/ TS!TaskReturns
    /\ pending' = IF callback' # NoTask THEN pending \ {callback'} ELSE pending
    /\ pc' = IF phase' = "idle" THEN "timeout" ELSE "running"
    /\ ThreadOnly
    /\ UNCHANGED <<queueVars, localVars>>

\* timeout > 0, after the conversion of the unsigned difference to int64_t.
MaySleep ==
    \/ TS!next_task_time = UINT64_MAX
    \/ (TS!next_task_time + (UINT64_MAX + 1) - current_time) % (UINT64_MAX + 1) \in 1 .. INT64_MAX

ComputeTimeout ==
    /\ pc = "timeout"
    /\ pc' = IF MaySleep THEN "wait" ELSE "loop"
    /\ ThreadOnly
    /\ UNCHANGED <<tsVars, queueVars, localVars, pending>>

s_thread_should_wake ==
    \/ should_exit
    \/ scheduling_queue # <<>>
    \/ cancel_queue # <<>>
    \/ TS!next_task_time <= now

\* aws_condition_variable_wait_for_pred: the mutex is taken, the predicate is
\* evaluated, the thread sleeps; when it is notified it evaluates the predicate
\* again, when the wait times out it gives up.
WaitForPred ==
    \/ /\ pc \in {"wait", "notified"}
       /\ pc' = "pred"
    \/ /\ pc = "pred"
       /\ pc' = IF s_thread_should_wake THEN "loop" ELSE "block"
    \/ /\ pc = "block"
       /\ pc' = "blocked"
    \/ /\ pc = "timed_out"
       /\ pc' = "loop"

\* Mutant: the timed wait is an untimed one.
WaitTimesOutNever == pc = "timed_out" /\ pc' = "timed_out"

WaitTimesOut ==
    /\ pc = "blocked"
    /\ pc' = "timed_out"

Waiting ==
    /\ WaitForPred \/ WaitTimesOut
    /\ ThreadOnly
    /\ UNCHANGED <<tsVars, queueVars, localVars, pending>>

\* pthread_cond_timedwait may return although nobody notified.
SpuriousWakeUp ==
    /\ pc = "blocked"
    /\ pc' = "notified"
    /\ ThreadOnly
    /\ UNCHANGED <<tsVars, queueVars, localVars, pending>>

ThreadStep ==
    \/ LoopTest \/ SwapQueues \/ MoveTask \/ CancelTask \/ RunAll \/ Running
    \/ ComputeTimeout \/ Waiting

Tick ==
    /\ now < MaxNow
    /\ now' = now + 1
    /\ UNCHANGED <<tsVars, queueVars, localVars, clientVars, pc, pending>>

Next ==
    \/ \E c \in Client : ClientStep(c) \/ ClientNotifies(c) \/ Destroys(c)
    \/ ThreadStep
    \/ SpuriousWakeUp
    \/ Tick

\* A thread that can run is run, a call that was begun goes on, waits time out and
\* time passes; nothing makes clients schedule, cancel or release.
Fairness ==
    /\ WF_vars(ThreadStep)
    /\ \A c \in Client : WF_vars(ClientNotifies(c)) /\ WF_vars(Destroys(c))
    /\ WF_vars(Tick)

Spec == Init /\ [][Next]_vars /\ Fairness

----------------------------------------------------------------------------
(* Properties                                                              *)

Freed == \E c \in Client : cpc[c] = "freed"

Places(t) ==
    Cardinality({i \in DOMAIN scheduling_queue : scheduling_queue[i] = t})
    + Cardinality({i \in DOMAIN list_cpy : list_cpy[i] = t})
    + Cardinality({t} \cap scheduled)

\* While the two threads pass a task from queue to queue it is never in two of
\* them, and a task whose function is still owed is never lost: it is in a queue,
\* in the task scheduler, or its cancellation is.
HandedOverOnce ==
    /\ TypeOK
    /\ \A t \in Task :
        /\ Places(t) <= 1
        /\ t \in pending =>
              Places(t) = 1 \/ Contains(cancel_queue \o cancel_list_cpy, t)
        /\ t \notin pending => Places(t) = 0

\* No lost wake-up: when the thread sleeps although a client has queued something,
\* that client is about to notify it.
NoLostWakeUp ==
    pc = "blocked" /\ (scheduling_queue # <<>> \/ cancel_queue # <<>>)
        => \E c \in Client : cpc[c] = "notify"

\* Nobody executes s_thread_fn or calls into the scheduler once its memory is being
\* released: the thread has been joined, no client holds a reference.
QuietWhenDestroyed ==
    (\E c \in Client : cpc[c] \in {"clean_up", "freed"}) =>
        /\ pc = "done"
        /\ holders = {}
        /\ \A c \in Client : cpc[c] # "notify"

\* A task that becomes due is called, as long as the scheduler is not shut down.
DueTaskIsCalled ==
    \A t \in Task :
        (t \in pending /\ timestamp[t] <= MaxNow) ~> (t \notin pending \/ should_exit)

\* Releasing the last reference terminates, although the flag is stored and the
\* condition variable notified without the mutex: the timed wait rescues a
\* notification that comes between the predicate and the wait.
DestroyTerminates == \A c \in Client : (cpc[c] = "destroy") ~> (cpc[c] = "freed")

\* What the header promises by "The semantics of this interface conform to the
\* semantics of aws_task_scheduler", whose clean-up "Empties and executes all
\* queued tasks": no scheduled task is left without its function having been called.
ShutdownCallsEveryTask == Freed => pending = {}
=============================================================================
