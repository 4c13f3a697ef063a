--------------------------- MODULE TaskScheduler ---------------------------
(***************************************************************************)
(* source/task_scheduler.c: a single-threaded scheduler.  Tasks are user   *)
(* structs linked into asap_list, timed_list or the running_list of        *)
(* s_run_all, or referenced from the priority queue timed_queue.  Task     *)
(* functions are user code: they may schedule and cancel tasks, and they   *)
(* run in the middle of s_run_all.                                         *)
(*                                                                         *)
(* timed_queue is the set of its items: it gives out an item of least      *)
(* timestamp, which one among equals is left open (PriorityQueueSpec, that *)
(* PriorityQueue implements).                                              *)
(***************************************************************************)
EXTENDS Naturals, SequencesExt, FiniteSetsExt

CONSTANTS Task,           \* the user's struct aws_task
          UINT64_MAX,     \* the last timestamp
          QueueCapacity,  \* elements timed_queue can grow to before push fails
          NoTask

Time == 0 .. UINT64_MAX

ASSUME TaskSchedulerAssumption ==
    /\ UINT64_MAX \in Nat \ {0}
    /\ QueueCapacity \in Nat
    /\ NoTask \notin Task

VARIABLES
    asap_list, timed_list, timed_queue,
    timestamp,      \* task->timestamp
    scheduled,      \* the tasks with abi_extension.scheduled
    running_list,   \* the local list of s_run_all
    phase,          \* where s_run_all is; "idle" when it is not running
    current_time, status,   \* its arguments
    callback,       \* the task whose function s_run_all is calling
    life,           \* "open", "closing" inside clean_up, "closed" after it
    fresh           \* history: tasks scheduled since s_run_all last started

schedVars == <<asap_list, timed_list, timed_queue, timestamp, scheduled>>
runVars == <<running_list, phase, current_time, status, callback, life>>
vars == <<schedVars, runVars, fresh>>

TypeOK ==
    /\ asap_list \in Seq(Task)
    /\ timed_list \in Seq(Task)
    /\ timed_queue \in {q \in SUBSET Task : Cardinality(q) <= QueueCapacity}
    /\ timestamp \in [Task -> Time]
    /\ scheduled \in SUBSET Task
    /\ running_list \in Seq(Task)
    /\ phase \in {"idle", "moving", "draining", "running"}
    /\ current_time \in Time
    /\ status \in {"RUN_READY", "CANCELED"}
    /\ callback \in Task \cup {NoTask}
    /\ life \in {"open", "closing", "closed"}
    /\ fresh \in SUBSET Task

\* aws_task_init for every task and aws_task_scheduler_init.
Init ==
    /\ asap_list = <<>>
    /\ timed_list = <<>>
    /\ timed_queue = {}
    /\ timestamp = [t \in Task |-> 0]
    /\ scheduled = {}
    /\ running_list = <<>>
    /\ phase = "idle"
    /\ current_time = 0
    /\ status = "RUN_READY"
    /\ callback = NoTask
    /\ life = "open"
    /\ fresh = {}

----------------------------------------------------------------------------
(* Helpers                                                                 *)

\* The tasks aws_priority_queue_top can return.
Tops(q) == {t \in q : \A u \in q : timestamp[t] <= timestamp[u]}

\* task->node.next # NULL: the task is linked into some list.
Linked(t) == Contains(asap_list, t) \/ Contains(timed_list, t) \/ Contains(running_list, t)

\* The user's code is executing: outside any call of the scheduler, or inside a
\* task function that the scheduler called.
UserCode == \/ life = "open" /\ phase = "idle"
            \/ callback # NoTask

\* The sorted insertion into timed_list: before the first later task.
InsertIntoTimedList(t, time) ==
    LET later == {i \in DOMAIN timed_list : timestamp[timed_list[i]] > time}
    IN  InsertAt(timed_list, IF later = {} THEN Len(timed_list) + 1 ELSE Min(later), t)

\* aws_task_scheduler_has_tasks: the result, and what it stores in next_task_time.
has_tasks == asap_list # <<>> \/ timed_list # <<>> \/ timed_queue # {}

\* Mutant: timed_queue is not looked at when timed_list has a task.
next_task_time_list_first ==
    IF asap_list # <<>> THEN 0
    ELSE IF timed_list # <<>> THEN timestamp[Head(timed_list)]
    ELSE Min({UINT64_MAX} \cup {timestamp[t] : t \in timed_queue})

next_task_time ==
    IF asap_list # <<>> THEN 0
    ELSE LET first == IF timed_list # <<>> THEN timestamp[Head(timed_list)] ELSE UINT64_MAX
         IN  Min({first} \cup {timestamp[t] : t \in Tops(timed_queue)})

----------------------------------------------------------------------------
(* Scheduling and cancelling                                               *)

\* A task may be given to the scheduler again once its function was called.
aws_task_scheduler_schedule_now(t) ==
    /\ t \notin scheduled
    /\ asap_list' = Append(asap_list, t)
    /\ timestamp' = [timestamp EXCEPT ![t] = 0]
    /\ scheduled' = scheduled \cup {t}
    /\ fresh' = fresh \cup {t}
    /\ UNCHANGED <<timed_list, timed_queue>>

\* A push that timed_queue refuses falls back to timed_list.
aws_task_scheduler_schedule_future(t, time_to_run) ==
    /\ t \notin scheduled
    /\ timestamp' = [timestamp EXCEPT ![t] = time_to_run]
    /\ IF Cardinality(timed_queue) < QueueCapacity
       THEN timed_queue' = timed_queue \cup {t} /\ UNCHANGED timed_list
       ELSE timed_list' = InsertIntoTimedList(t, time_to_run) /\ UNCHANGED timed_queue
    /\ scheduled' = scheduled \cup {t}
    /\ fresh' = fresh \cup {t}
    /\ UNCHANGED asap_list

\* Mutant: only the scheduler's own lists are searched, as if the running list
\* could not be unlinked from.
cancel_task_own_lists(t) ==
    /\ asap_list' = RemoveFirst(asap_list, t)
    /\ timed_list' = RemoveFirst(timed_list, t)
    /\ timed_queue' = timed_queue \ {t}
    /\ scheduled' = scheduled \ {t}
    /\ UNCHANGED <<timestamp, running_list>>

\* aws_task_scheduler_cancel_task: unlink the task from the list it is in, the
\* running list of an s_run_all further up the stack included, or else take it
\* out of timed_queue; then call its function (aws_task_run).
aws_task_scheduler_cancel_task(t) ==
    /\ asap_list' = RemoveFirst(asap_list, t)
    /\ timed_list' = RemoveFirst(timed_list, t)
    /\ running_list' = RemoveFirst(running_list, t)
    /\ timed_queue' = IF ~Linked(t) /\ t \in scheduled THEN timed_queue \ {t} ELSE timed_queue
    /\ scheduled' = scheduled \ {t}
    /\ UNCHANGED timestamp

----------------------------------------------------------------------------
(* Running                                                                 *)

\* s_run_all, first part: asap_list is swapped into the running list.
s_run_all(time, stat) ==
    /\ phase = "idle"
    /\ phase' = "moving"
    /\ running_list' = asap_list
    /\ asap_list' = <<>>
    /\ current_time' = time
    /\ status' = stat
    /\ fresh' = {}
    /\ UNCHANGED <<timed_list, timed_queue, timestamp, scheduled, callback>>

\* Mutant: whatever is on top of timed_queue goes first once timed_list is due.
AnyDueTop == {t \in Tops(timed_queue) : timestamp[t] <= current_time}

\* A task of timed_queue that is due strictly before timed_list's first task.
SoonerTops ==
    {t \in Tops(timed_queue) : /\ timestamp[t] <= current_time
                               /\ timestamp[t] < timestamp[Head(timed_list)]}

\* One iteration of the loop that merges timed_list and timed_queue.
s_run_all_merge ==
    /\ phase = "moving"
    /\ IF timed_list = <<>> \/ timestamp[Head(timed_list)] > current_time
       THEN /\ phase' = "draining"
            /\ UNCHANGED <<timed_list, timed_queue, running_list>>
       ELSE /\ UNCHANGED phase
            /\ \/ \E t \in SoonerTops :
                    /\ timed_queue' = timed_queue \ {t}
                    /\ running_list' = Append(running_list, t)
                    /\ UNCHANGED timed_list
               \/ /\ SoonerTops = {}
                  /\ timed_list' = Tail(timed_list)
                  /\ running_list' = Append(running_list, Head(timed_list))
                  /\ UNCHANGED timed_queue
    /\ UNCHANGED <<asap_list, timestamp, scheduled, current_time, status, callback, life, fresh>>

\* Mutant: a task due exactly now stays in timed_queue.
s_run_all_drain_strict ==
    /\ phase = "draining"
    /\ IF \E t \in Tops(timed_queue) : timestamp[t] < current_time
       THEN \E t \in Tops(timed_queue) :
              /\ timed_queue' = timed_queue \ {t}
              /\ running_list' = Append(running_list, t)
              /\ UNCHANGED phase
       ELSE phase' = "running" /\ UNCHANGED <<timed_queue, running_list>>
    /\ UNCHANGED <<asap_list, timed_list, timestamp, scheduled, current_time, status,
                   callback, life, fresh>>

\* One iteration of the loop that takes what else is due from timed_queue.
s_run_all_drain ==
    /\ phase = "draining"
    /\ IF \E t \in Tops(timed_queue) : timestamp[t] <= current_time
       THEN \E t \in Tops(timed_queue) :
              /\ timed_queue' = timed_queue \ {t}
              /\ running_list' = Append(running_list, t)
              /\ UNCHANGED phase
       ELSE phase' = "running" /\ UNCHANGED <<timed_queue, running_list>>
    /\ UNCHANGED <<asap_list, timed_list, timestamp, scheduled, current_time, status,
                   callback, life, fresh>>

\* The last loop of s_run_all: the next task is unlinked and its function called
\* (aws_task_run clears the scheduled flag first) ...
s_run_all_run ==
    /\ phase = "running"
    /\ callback = NoTask
    /\ running_list # <<>>
    /\ callback' = Head(running_list)
    /\ running_list' = Tail(running_list)
    /\ scheduled' = scheduled \ {Head(running_list)}
    /\ UNCHANGED <<asap_list, timed_list, timed_queue, timestamp, phase, current_time,
                   status, life, fresh>>

\* ... until the function returns.
TaskReturns ==
    /\ callback # NoTask
    /\ callback' = NoTask
    /\ UNCHANGED <<schedVars, running_list, phase, current_time, status, life, fresh>>

\* The running list is empty, s_run_all returns.
s_run_all_return ==
    /\ phase = "running"
    /\ callback = NoTask
    /\ running_list = <<>>
    /\ phase' = "idle"
    /\ UNCHANGED <<schedVars, running_list, current_time, status, callback, life, fresh>>

aws_task_scheduler_run_all(time) ==
    /\ life = "open"
    /\ s_run_all(time, "RUN_READY")
    /\ UNCHANGED life

\* aws_task_scheduler_clean_up is entered ...
aws_task_scheduler_clean_up ==
    /\ life = "open"
    /\ phase = "idle"
    /\ life' = "closing"
    /\ UNCHANGED <<schedVars, running_list, phase, current_time, status, callback, fresh>>

\* Mutant: a single pass, as if cancelled tasks could not schedule others.
clean_up_once ==
    /\ life = "closing"
    /\ \/ /\ status # "CANCELED" /\ has_tasks
          /\ s_run_all(UINT64_MAX, "CANCELED") /\ UNCHANGED life
       \/ /\ status = "CANCELED" \/ ~has_tasks
          /\ phase = "idle" /\ life' = "closed"
          /\ UNCHANGED <<schedVars, running_list, phase, current_time, status, callback, fresh>>

\* ... and runs everything as CANCELED until nothing is scheduled any more.
clean_up_loop ==
    /\ life = "closing"
    /\ \/ /\ has_tasks
          /\ s_run_all(UINT64_MAX, "CANCELED")
          /\ UNCHANGED life
       \/ /\ ~has_tasks
          /\ phase = "idle"
          /\ life' = "closed"
          /\ UNCHANGED <<schedVars, running_list, phase, current_time, status, callback, fresh>>

\* What user code may ask for, from outside or from inside a task function.
UserStep ==
    /\ UserCode
    /\ \/ \E t \in Task :
            /\ \/ aws_task_scheduler_schedule_now(t)
               \/ \E time \in Time : aws_task_scheduler_schedule_future(t, time)
            /\ UNCHANGED running_list
       \/ \E t \in Task : aws_task_scheduler_cancel_task(t) /\ UNCHANGED fresh
    /\ UNCHANGED <<phase, current_time, status, callback, life>>

\* The steps the scheduler takes by itself once it was called.
SchedulerStep ==
    \/ s_run_all_merge \/ s_run_all_drain \/ s_run_all_run \/ s_run_all_return
    \/ clean_up_loop

Next ==
    \/ UserStep
    \/ TaskReturns
    \/ \E time \in Time : aws_task_scheduler_run_all(time)
    \/ aws_task_scheduler_clean_up
    \/ SchedulerStep

Spec == Init /\ [][Next]_vars

----------------------------------------------------------------------------
(* Properties                                                              *)

Occurrences(s, t) == {i \in DOMAIN s : s[i] = t}

\* A task is held in exactly one place, once, from the moment it is scheduled
\* until its function is called, and nowhere otherwise: no list of intrusive
\* nodes and no heap slot is left with a task that its owner may free.
HeldExactlyOnce ==
    /\ TypeOK
    /\ \A t \in Task :
           Cardinality(Occurrences(asap_list, t)) + Cardinality(Occurrences(timed_list, t))
           + Cardinality(Occurrences(running_list, t)) + Cardinality(timed_queue \cap {t})
             = IF t \in scheduled THEN 1 ELSE 0

\* The tasks of one pass run in order of their timestamps, those scheduled with
\* schedule_now first, although two containers are merged (s_run_all).
RunsInTimeOrder ==
    \A i, j \in DOMAIN running_list :
        i < j => timestamp[running_list[i]] <= timestamp[running_list[j]]

\* One pass takes all that was due when it started and nothing else: not a task
\* of the future, and not a task that a task of this pass scheduled.
PassIsExact ==
    phase = "running" =>
        /\ \A t \in ToSet(running_list) : timestamp[t] <= current_time /\ t \notin fresh
        /\ \A t \in scheduled \ (ToSet(running_list) \cup fresh) : timestamp[t] > current_time

\* next_task_time, from which event loops compute how long they may sleep, is the
\* least timestamp of all scheduled tasks, UINT64_MAX when there is none.
NextTaskTimeExact ==
    phase = "idle" =>
        next_task_time = Min({UINT64_MAX} \cup {timestamp[t] : t \in scheduled})

\* clean_up leaves no task behind, whatever tasks schedule while being cancelled.
CleanUpCancelsAll == life = "closed" => scheduled = {}
=============================================================================
