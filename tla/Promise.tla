------------------------------ MODULE Promise ------------------------------
(***************************************************************************)
(* source/promise.c and source/ref_count.c: a value that one thread        *)
(* provides and others wait for, freed with its last reference.  Every     *)
(* thread that uses the promise holds a reference, as promise.h asks.      *)
(***************************************************************************)
EXTENDS Naturals, FiniteSets

CONSTANTS Completer,      \* the thread that completes or fails the promise
          Waiter,         \* the threads that wait for it
          Taker           \* the one of them that calls aws_promise_take_value

ASSUME PromiseAssumption ==
    /\ IsFiniteSet(Waiter)
    /\ Completer \notin Waiter
    /\ Taker \in Waiter

VARIABLES
    complete, value, error_code,    \* fields of aws_promise; value is "v" or "NULL"
    ref_count,
    freed,                \* s_aws_promise_dtor has run
    ppc,                  \* where each thread is
    got,                  \* what each waiter was given
    destroyed             \* history: how often dtor was called

promiseVars == <<complete, value, error_code, ref_count, freed, ppc, got, destroyed>>

Holder == {Completer} \cup Waiter

\* aws_promise_new, and a reference for every thread.
PromiseInit ==
    /\ complete = FALSE /\ value = "NULL" /\ error_code = 0
    /\ ref_count = Cardinality(Holder)
    /\ freed = FALSE
    /\ ppc = [h \in Holder |-> "start"]
    /\ got = [w \in Waiter |-> "nothing"]
    /\ destroyed = 0

Moves(h, from, to) == ppc[h] = from /\ ppc' = [ppc EXCEPT ![h] = to]

\* The critical section of aws_promise_complete.
aws_promise_complete ==
    /\ Moves(Completer, "start", "notify")
    /\ value' = "v"
    /\ complete' = TRUE
    /\ UNCHANGED <<error_code, ref_count, freed, got, destroyed>>

aws_promise_fail ==
    /\ Moves(Completer, "start", "notify")
    /\ error_code' = 1
    /\ complete' = TRUE
    /\ UNCHANGED <<value, ref_count, freed, got, destroyed>>

\* The notify_all that follows the unlock.
PromiseNotifies ==
    /\ ppc[Completer] = "notify"
    /\ ppc' = [h \in Holder |-> IF h = Completer THEN "leaving"
                                ELSE IF ppc[h] = "blocked" THEN "start" ELSE ppc[h]]
    /\ UNCHANGED <<complete, value, error_code, ref_count, freed, got, destroyed>>

\* aws_promise_wait: s_promise_completed is evaluated under the mutex.
aws_promise_wait(w) ==
    /\ Moves(w, "start", IF complete THEN "completed" ELSE "blocked")
    /\ UNCHANGED <<complete, value, error_code, ref_count, freed, got, destroyed>>

PromiseSpuriousWakeUp(w) ==
    /\ Moves(w, "blocked", "start")
    /\ UNCHANGED <<complete, value, error_code, ref_count, freed, got, destroyed>>

\* aws_promise_wait_for gives up, unless the promise was completed at the last moment.
aws_promise_wait_for(w) ==
    /\ Moves(w, "blocked", IF complete THEN "completed" ELSE "leaving")
    /\ UNCHANGED <<complete, value, error_code, ref_count, freed, got, destroyed>>

\* Mutant: the value is given away and kept.
take_value_keeps(w) ==
    /\ w = Taker
    /\ Moves(w, "completed", "leaving")
    /\ got' = [got EXCEPT ![w] = value]
    /\ UNCHANGED <<complete, value, error_code, ref_count, freed, destroyed>>

aws_promise_take_value(w) ==
    /\ w = Taker
    /\ Moves(w, "completed", "leaving")
    /\ got' = [got EXCEPT ![w] = value]
    /\ value' = "NULL"
    /\ UNCHANGED <<complete, error_code, ref_count, freed, destroyed>>

\* aws_promise_value and aws_promise_error_code.
aws_promise_value(w) ==
    /\ w # Taker
    /\ Moves(w, "completed", "leaving")
    /\ got' = [got EXCEPT ![w] = IF error_code # 0 THEN "error" ELSE value]
    /\ UNCHANGED <<complete, value, error_code, ref_count, freed, destroyed>>

\* aws_ref_count_release, which calls s_aws_promise_dtor for the last reference.
aws_promise_release(h) ==
    /\ Moves(h, "leaving", "left")
    /\ ref_count' = ref_count - 1
    /\ freed' = (ref_count = 1)
    /\ destroyed' = IF ref_count = 1 /\ value # "NULL" THEN destroyed + 1 ELSE destroyed
    /\ UNCHANGED <<complete, value, error_code, got>>

CompleterSteps ==
    aws_promise_complete \/ aws_promise_fail \/ PromiseNotifies \/ aws_promise_release(Completer)

WaiterSteps(w) ==
    \/ aws_promise_wait(w) \/ aws_promise_take_value(w) \/ aws_promise_value(w)
    \/ aws_promise_release(w)

PromiseNext ==
    \/ CompleterSteps
    \/ \E w \in Waiter : WaiterSteps(w) \/ PromiseSpuriousWakeUp(w) \/ aws_promise_wait_for(w)

PromiseSpec == PromiseInit /\ [][PromiseNext]_promiseVars

----------------------------------------------------------------------------

\* The promise is freed only after its last user has left, and by then the value was
\* either taken or destroyed, and not both.
PromiseValueOnce ==
    /\ freed => \A h \in Holder : ppc[h] = "left"
    /\ freed /\ error_code = 0 =>
           destroyed + (IF got[Taker] = "v" THEN 1 ELSE 0) = 1
    /\ freed /\ error_code # 0 => destroyed = 0 /\ got[Taker] # "v"
=============================================================================
