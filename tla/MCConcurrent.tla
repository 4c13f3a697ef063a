---------------------------- MODULE MCConcurrent ----------------------------
(* Threads that run side by side; the initial state picks the part.        *)
(* In "threads" managed threads and callers of join_all_managed; in        *)
(* "promise" one managed thread that completes a promise the others wait   *)
(* for before they join it; in "logging" the clients of a logger and its   *)
(* thread; in "tracer" the users of a traced allocator; in "ring" the      *)
(* acquiring and the releasing thread of a ring buffer.                    *)
EXTENDS ManagedThreads, Promise, Logging, MemTrace, RingBuffer

CONSTANT PartsChecked

VARIABLE part

vars == <<part, managedVars, promiseVars, logVars, traceVars, ringVars>>

Init ==
    /\ part \in PartsChecked
    /\ ManagedInit /\ PromiseInit /\ LogInit /\ s_alloc_tracer_init /\ RingInit
    /\ request = [minimum_size |-> 1, requested_size |-> 1, upto |-> "acquire"]
    /\ part # "logging" => kind = "foreground"
    /\ part # "tracer" => tracing = "none" /\ clients = Tracer
    /\ <<timed, Plain, event_loop>> \in {<<FALSE, {}, "left">>} \cup
           (IF part = "threads" THEN {<<TRUE, {}, "left">>, <<FALSE, {Completer}, "out">>}
            ELSE {})

\* The function of the thread that completes the promise does so before it returns;
\* the joiners have left the promise when they call join_all_managed.
Together(A) ==
    /\ part = "promise"
    /\ A
    /\ \A t \in Thread : state'[t] # state[t] => t = Completer
    /\ state[Completer] = "running" /\ state'[Completer] # "running" => ppc[Completer] = "left"
    /\ ppc'[Completer] # ppc[Completer] => state[Completer] = "running"
    /\ \A j \in Joiner : jpc[j] = "idle" /\ jpc'[j] # "idle" => j \in Waiter /\ ppc[j] = "left"
    /\ UNCHANGED <<part, logVars, traceVars, ringVars>>

\* The callers of join_all_managed are alike, so they call in a fixed order; the third
\* calls while the other two sleep, without deadlines or other users of the count.  The
\* thread with an exit callback, or that is not managed, is launched first.
Rank == CHOOSE r \in [Joiner -> 1 .. Cardinality(Joiner)] : IsInjective(r)

MaxCallers == IF timed \/ Plain # {} THEN 2 ELSE 3

InFixedOrder(A) ==
    /\ A
    /\ \A j \in Joiner : jpc[j] = "idle" /\ jpc'[j] # "idle" =>
           /\ Rank[j] <= MaxCallers
           /\ Rank[j] = 3 => \A k \in Joiner \ {j} : jpc[k] = "blocked"
           /\ \A k \in Joiner : Rank[k] < Rank[j] => jpc[k] # "idle"
    /\ state[Completer] = "new" => \A t \in Thread \ {Completer} : state'[t] = "new"

OfThreads(A) ==
    \/ /\ part = "threads"
       /\ InFixedOrder(A)
       /\ UNCHANGED <<part, promiseVars, logVars, traceVars, ringVars>>
    \/ Together(A /\ UNCHANGED promiseVars)

OfPromise(A) == Together(A /\ UNCHANGED managedVars)

OfLogging(A) ==
    /\ part = "logging"
    /\ A
    /\ UNCHANGED <<part, managedVars, promiseVars, traceVars, ringVars>>

OfTracer(A) ==
    /\ part = "tracer"
    /\ A
    /\ UNCHANGED <<part, managedVars, promiseVars, logVars, ringVars>>

OfRing(A) ==
    /\ part = "ring"
    /\ A
    /\ UNCHANGED <<part, managedVars, promiseVars, logVars, traceVars>>

Next == \/ OfThreads(ManagedNext) \/ OfPromise(PromiseNext) \/ OfLogging(LogNext)
        \/ OfTracer(TraceNext) \/ OfRing(RingNext)

\* The system schedules every thread and time passes.  Thread functions return, the event loop ends;
\* nobody has to launch a thread, to log, or to begin a clean-up.
Fairness ==
    /\ \A t \in Thread : WF_vars(OfThreads(ThreadSteps(t) \/ EitherSteps(t)))
    /\ \A j \in Joiner : WF_vars(OfThreads(EndsWait(j) \/ JoinAllLoops(j) \/ EitherSteps(j)))
    /\ WF_vars(OfThreads(aws_thread_decrement_unjoined_count \/ Notifies("event_loop")))
    /\ WF_vars(OfPromise(CompleterSteps))
    /\ \A w \in Waiter : WF_vars(OfPromise(WaiterSteps(w)))
    /\ WF_vars(OfLogging(WriterSteps))
    /\ WF_vars(OfLogging(s_aws_logger_pipeline_owned_clean_up))

\* Every thread is joined and a caller of join_all_managed comes back, every caller if
\* there are deadlines, and so does the clean-up of a logger, although a notification
\* wakes one thread only and may come before the wait it is meant for.
WaitersReturn == CallersJoinAll /\ LogCleanUpReturns

Spec == Init /\ [][Next]_vars /\ Fairness
=============================================================================
