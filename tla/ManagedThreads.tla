--------------------------- MODULE ManagedThreads ---------------------------
(***************************************************************************)
(* source/thread_shared.c and source/posix/thread.c: threads, the managed  *)
(* ones among them counted and joined lazily, each by a thread that        *)
(* finishes after it or by a caller of aws_thread_join_all_managed.  A     *)
(* critical section of s_managed_thread_lock is one step; notifications    *)
(* follow it without the lock.                                             *)
(***************************************************************************)
EXTENDS Naturals, FiniteSets, Sequences

CONSTANTS Thread,          \* threads that may be launched, each once
          Joiner,          \* callers of aws_thread_join_all_managed
          Registers        \* threads that register an exit callback

ASSUME ManagedThreadsAssumption ==
    /\ IsFiniteSet(Thread)
    /\ Thread \cap Joiner = {}

VARIABLES
    s_unjoined_thread_count,
    s_pending_join_managed_threads,
    Plain,                 \* the threads launched without AWS_TJS_MANAGED
    timed,                 \* s_default_managed_join_timeout_ns is not 0
    state,                 \* where each thread is
    atexit,                \* how many exit callbacks it has yet to run
    wrapper,               \* its thread_wrapper: "none", "live" or "freed"
    join_list,             \* locals of pending_join_add and join_all_managed
    owes,                  \* who has decremented the count and not yet notified
    once,                  \* the pthread_once flag the threads share
    event_loop,            \* another user of the count: "out", "in" or "left"
    jpc, done,             \* a joiner's position and its local
    result,                \* what join_all_managed returned
    before                 \* history: the managed threads launched when it was called

config == <<timed, Plain>>
countVars == <<s_unjoined_thread_count, s_pending_join_managed_threads>>
threadVars == <<state, atexit, wrapper, once>>
joinerVars == <<jpc, done, result, before>>
managedVars == <<countVars, threadVars, joinerVars, join_list, owes, config, event_loop>>

Managed == Thread \ Plain

ManagedInit ==
    /\ s_unjoined_thread_count = 0
    /\ s_pending_join_managed_threads = <<>>
    /\ timed \in BOOLEAN
    /\ Plain \in SUBSET Thread
    /\ state = [t \in Thread |-> "new"]
    /\ atexit = [t \in Thread |-> 0]
    /\ wrapper = [t \in Thread |-> "none"]
    /\ join_list = [p \in Thread \cup Joiner |-> <<>>]
    /\ owes = {}
    /\ once = "unset"
    /\ event_loop \in {"out", "left"}
    /\ jpc = [j \in Joiner |-> "idle"]
    /\ done = [j \in Joiner |-> FALSE]
    /\ result = [j \in Joiner |-> "success"]
    /\ before = [j \in Joiner |-> {}]

Goes(t, from, to) == state[t] = from /\ state' = [state EXCEPT ![t] = to]

----------------------------------------------------------------------------
(* Launching and running                                                   *)

\* aws_thread_launch up to pthread_create.  An attribute the system refuses ends it
\* before anything is allocated or counted: the thread stays new.
aws_thread_launch(t) ==
    /\ Goes(t, "new", "launching")
    /\ wrapper' = [wrapper EXCEPT ![t] = "live"]
    /\ s_unjoined_thread_count' = s_unjoined_thread_count + (IF t \in Managed THEN 1 ELSE 0)
    /\ UNCHANGED <<s_pending_join_managed_threads, atexit, once, joinerVars, join_list, owes,
                   config, event_loop>>

\* pthread_create.  When it fails the count is taken back and the wrapper is leaked.
PthreadCreate(t) ==
    /\ \/ /\ Goes(t, "launching", "created")
          /\ UNCHANGED <<s_unjoined_thread_count, owes>>
       \/ /\ Goes(t, "launching", "failed")
          /\ IF t \in Managed
             THEN /\ s_unjoined_thread_count' = s_unjoined_thread_count - 1
                  /\ owes' = owes \cup {t}
             ELSE UNCHANGED <<s_unjoined_thread_count, owes>>
    /\ UNCHANGED <<s_pending_join_managed_threads, atexit, wrapper, once, joinerVars, join_list,
                   config, event_loop>>

\* thread_fn calls the user's function, which may register exit callbacks ...
aws_thread_current_at_exit(t) ==
    /\ state[t] = "running"
    /\ t \in Registers /\ atexit[t] = 0
    /\ atexit' = [atexit EXCEPT ![t] = @ + 1]
    /\ UNCHANGED <<countVars, state, wrapper, once, joinerVars, join_list, owes, config, event_loop>>

\* ... and call aws_thread_call_once: the first caller runs the function, others wait
\* for it inside pthread_once.
aws_thread_call_once(t) ==
    /\ \/ /\ once = "unset"
          /\ Goes(t, "created", "once")
          /\ once' = "running"
       \/ /\ once = "running"
          /\ Goes(t, "once", "running")
          /\ once' = "done"
       \/ /\ once = "done"
          /\ Goes(t, "created", "running")
          /\ UNCHANGED once
    /\ UNCHANGED <<countVars, atexit, wrapper, joinerVars, join_list, owes, config, event_loop>>

\* The user's function returns; an unmanaged thread frees its wrapper.
FunctionReturns(t) ==
    /\ Goes(t, "running", "exiting")
    /\ wrapper' = IF t \in Plain THEN [wrapper EXCEPT ![t] = "freed"] ELSE wrapper
    /\ UNCHANGED <<countVars, atexit, once, joinerVars, join_list, owes, config, event_loop>>

RunsAtExit(t) ==
    /\ state[t] = "exiting"
    /\ atexit[t] > 0
    /\ atexit' = [atexit EXCEPT ![t] = @ - 1]
    /\ UNCHANGED <<countVars, state, wrapper, once, joinerVars, join_list, owes, config, event_loop>>

\* The finished thread takes over the one that finished before it, and is listed.
aws_thread_pending_join_add(t) ==
    /\ atexit[t] = 0
    /\ t \in Managed
    /\ Goes(t, "exiting", "listed")
    /\ join_list' = [join_list EXCEPT ![t] = s_pending_join_managed_threads]
    /\ s_pending_join_managed_threads' = <<t>>
    /\ UNCHANGED <<s_unjoined_thread_count, atexit, wrapper, once, joinerVars, owes, config,
                   event_loop>>

ThreadReturns(t) ==
    /\ \/ t \in Managed /\ Goes(t, "listed", "returned") /\ join_list[t] = <<>> /\ t \notin owes
       \/ t \in Plain /\ Goes(t, "exiting", "returned") /\ atexit[t] = 0
    /\ UNCHANGED <<countVars, atexit, wrapper, once, joinerVars, join_list, owes, config, event_loop>>

\* aws_thread_join by the user, of a thread that is not managed.
aws_thread_join(t) ==
    /\ t \in Plain
    /\ Goes(t, "returned", "joined")
    /\ UNCHANGED <<countVars, atexit, wrapper, once, joinerVars, join_list, owes, config, event_loop>>

----------------------------------------------------------------------------
(* Joining                                                                 *)

\* One round of aws_thread_join_and_free_wrapper_list: pthread_join, which returns when
\* the thread has, the release of the wrapper, and the decrement.
aws_thread_join_and_free_wrapper_list(p) ==
    /\ join_list[p] # <<>>
    /\ p \notin owes
    /\ LET t == Head(join_list[p])
       IN  /\ Goes(t, "returned", "joined")
           /\ wrapper' = [wrapper EXCEPT ![t] = "freed"]
    /\ join_list' = [join_list EXCEPT ![p] = Tail(@)]
    /\ s_unjoined_thread_count' = s_unjoined_thread_count - 1
    /\ owes' = owes \cup {p}
    /\ UNCHANGED <<s_pending_join_managed_threads, atexit, once, joinerVars, config, event_loop>>

\* Mutant: a decrement that leaves others to be joined notifies nobody.
NotifiesAtZero(p) ==
    /\ p \in owes
    /\ owes' = owes \ {p}
    /\ IF s_unjoined_thread_count = 0 /\ \E j \in Joiner : jpc[j] = "blocked"
       THEN \E j \in Joiner : jpc[j] = "blocked" /\ jpc' = [jpc EXCEPT ![j] = "waiting"]
       ELSE UNCHANGED jpc
    /\ UNCHANGED <<countVars, threadVars, done, result, before, join_list, config, event_loop>>

\* The notify_one of aws_thread_decrement_unjoined_count, after the unlock.
Notifies(p) ==
    /\ p \in owes
    /\ owes' = owes \ {p}
    /\ IF \E j \in Joiner : jpc[j] = "blocked"
       THEN \E j \in Joiner : jpc[j] = "blocked" /\ jpc' = [jpc EXCEPT ![j] = "waiting"]
       ELSE UNCHANGED jpc
    /\ UNCHANGED <<countVars, threadVars, done, result, before, join_list, config, event_loop>>

\* aws_thread_increment_unjoined_count and its counterpart, by an event loop thread.
aws_thread_increment_unjoined_count ==
    /\ event_loop = "out"
    /\ event_loop' = "in"
    /\ s_unjoined_thread_count' = s_unjoined_thread_count + 1
    /\ UNCHANGED <<s_pending_join_managed_threads, threadVars, joinerVars, join_list, owes, config>>

aws_thread_decrement_unjoined_count ==
    /\ event_loop = "in"
    /\ event_loop' = "left"
    /\ s_unjoined_thread_count' = s_unjoined_thread_count - 1
    /\ owes' = owes \cup {"event_loop"}
    /\ UNCHANGED <<s_pending_join_managed_threads, threadVars, joinerVars, join_list, config>>

\* aws_thread_join_all_managed computes its deadline.
JoinAllBegins(j) ==
    /\ jpc[j] = "idle"
    /\ jpc' = [jpc EXCEPT ![j] = "waiting"]
    /\ before' = [before EXCEPT ![j] = {t \in Managed : state[t] \notin {"new", "failed"}}]
    /\ UNCHANGED <<countVars, threadVars, done, result, join_list, owes, config, event_loop>>

s_one_or_fewer_managed_threads_unjoined == s_unjoined_thread_count <= 1

\* The predicate does not hold: the lock is released and the joiner sleeps.
JoinerSleeps(j) ==
    /\ jpc[j] = "waiting"
    /\ ~s_one_or_fewer_managed_threads_unjoined
    /\ jpc' = [jpc EXCEPT ![j] = "blocked"]
    /\ UNCHANGED <<countVars, threadVars, done, result, before, join_list, owes, config, event_loop>>

\* Any wait may end for no reason; a timed one ends at the deadline.
JoinerWakes(j) ==
    /\ jpc[j] = "blocked"
    /\ jpc' = [jpc EXCEPT ![j] = "waiting"]
    /\ UNCHANGED <<countVars, threadVars, done, result, before, join_list, owes, config, event_loop>>

WaitTimesOut(j) ==
    /\ timed
    /\ jpc[j] = "blocked"
    /\ jpc' = [jpc EXCEPT ![j] = "late"]
    /\ UNCHANGED <<countVars, threadVars, done, result, before, join_list, owes, config, event_loop>>

\* The clock is read again when the wait is over, for whatever reason.
WaitIsOver(j, late) ==
    /\ jpc[j] \in {"waiting", "late"}
    /\ jpc[j] = "late" => late
    /\ late => timed
    /\ ~late => s_one_or_fewer_managed_threads_unjoined
    /\ jpc' = [jpc EXCEPT ![j] = "joining"]
    /\ result' = [result EXCEPT ![j] = IF late THEN "error" ELSE @]

\* Mutant: the caller is done as soon as the predicate holds.
JoinAllTakesList_early(j, late) ==
    /\ WaitIsOver(j, late)
    /\ done' = [done EXCEPT ![j] = TRUE]
    /\ join_list' = [join_list EXCEPT ![j] = s_pending_join_managed_threads]
    /\ s_pending_join_managed_threads' = <<>>
    /\ UNCHANGED <<s_unjoined_thread_count, threadVars, before, owes, config, event_loop>>

\* The rest of the critical section of join_all_managed.
JoinAllTakesList(j, late) ==
    /\ WaitIsOver(j, late)
    /\ done' = [done EXCEPT ![j] = s_unjoined_thread_count = 0 \/ late]
    /\ join_list' = [join_list EXCEPT ![j] = s_pending_join_managed_threads]
    /\ s_pending_join_managed_threads' = <<>>
    /\ UNCHANGED <<s_unjoined_thread_count, threadVars, before, owes, config, event_loop>>

\* The loop goes round, or the function returns.
JoinAllLoops(j) ==
    /\ jpc[j] = "joining"
    /\ join_list[j] = <<>> /\ j \notin owes
    /\ jpc' = [jpc EXCEPT ![j] = IF done[j] THEN "returned" ELSE "waiting"]
    /\ UNCHANGED <<countVars, threadVars, done, result, before, join_list, owes, config, event_loop>>

----------------------------------------------------------------------------

ThreadSteps(t) ==
    \/ PthreadCreate(t) \/ aws_thread_call_once(t) \/ FunctionReturns(t) \/ RunsAtExit(t)
    \/ aws_thread_pending_join_add(t) \/ ThreadReturns(t)

EndsWait(j) == WaitTimesOut(j) \/ \E late \in BOOLEAN : JoinAllTakesList(j, late)

JoinerSteps(j) == JoinerSleeps(j) \/ EndsWait(j) \/ JoinAllLoops(j)

EitherSteps(p) == aws_thread_join_and_free_wrapper_list(p) \/ Notifies(p)

ManagedNext ==
    \/ \E t \in Thread : aws_thread_launch(t) \/ aws_thread_current_at_exit(t)
                         \/ ThreadSteps(t) \/ aws_thread_join(t)
    \/ \E p \in Thread \cup Joiner : EitherSteps(p)
    \/ Notifies("event_loop")
    \/ aws_thread_increment_unjoined_count
    \/ aws_thread_decrement_unjoined_count
    \/ \E j \in Joiner : JoinAllBegins(j) \/ JoinerSteps(j) \/ JoinerWakes(j)

ManagedSpec == ManagedInit /\ [][ManagedNext]_managedVars

----------------------------------------------------------------------------
(* Properties                                                              *)

\* Every managed thread whose creation succeeded or is under way is counted until it
\* is joined, and sits in exactly one place: running, in the pending list, which never
\* holds more than one, or in the list of one process that joins it.  Nobody waits for
\* itself.  When join_all_managed reports success, every managed thread that had been
\* launched when it was called has been joined.
ManagedJoinedOnce ==
    /\ s_unjoined_thread_count =
           Cardinality({t \in Managed : state[t] \notin {"new", "failed", "joined"}})
           + (IF event_loop = "in" THEN 1 ELSE 0)
    /\ Len(s_pending_join_managed_threads) <= 1
    /\ \A p \in DOMAIN join_list : Len(join_list[p]) <= 1
    /\ \A t \in Managed :
           LET holders == {p \in DOMAIN join_list : join_list[p] = <<t>>}
               places == Cardinality(holders)
                         + (IF s_pending_join_managed_threads = <<t>> THEN 1 ELSE 0)
           IN  /\ places = IF state[t] \in {"listed", "returned"} THEN 1 ELSE 0
               /\ t \notin holders
               /\ wrapper[t] = "freed" <=> state[t] = "joined"
    /\ \A j \in Joiner :
           jpc[j] = "returned" /\ result[j] = "success" =>
               \A t \in before[j] : state[t] \in {"joined", "failed"}

\* join_all_managed "blocks and returns when all outstanding threads with the managed
\* strategy have fully joined" (thread.h): every call of it comes back.
JoinAllReturns == \A j \in Joiner : jpc[j] # "idle" ~> jpc[j] = "returned"

\* What the notifications, each of which wakes one caller, are enough for: a caller
\* with a deadline comes back, and so does one of several callers without.  When a
\* caller goes on sleeping, another has come back and every thread is joined.
CallersJoinAll ==
    (\E j \in Joiner : jpc[j] # "idle") ~>
        \A j \in Joiner :
            \/ jpc[j] \in {"idle", "returned"}
            \/ /\ ~timed /\ jpc[j] = "blocked" /\ s_unjoined_thread_count = 0
               /\ \E k \in Joiner : jpc[k] = "returned"
=============================================================================
