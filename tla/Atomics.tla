------------------------------ MODULE Atomics ------------------------------
(***************************************************************************)
(* The atomic operations of include/aws/common/atomics*.inl on the x86     *)
(* memory model: a store goes to the thread's store buffer and reaches     *)
(* memory later, a load sees the thread's own buffered stores first, a     *)
(* fence or a locked instruction waits for the buffer to drain.  Each      *)
(* backend is the sequence of machine steps an operation is made of (for   *)
(* atomics_gnu.inl, what the compiler's __atomic builtins are on x86).     *)
(* Threads run small programs whose results show a wrong order.            *)
(***************************************************************************)
EXTENDS Integers, Sequences, SequencesExt, Bitwise

VARIABLES backend,        \* "gnu", "gnu_old" or "msvc"
          program,        \* the program that runs: thread |-> operations
          pending,        \* thread |-> operations still to do
          step,           \* thread |-> the machine step within the operation
          reg,            \* thread |-> what the operation has read so far
          results,        \* thread |-> results of its operations
          buffer,         \* thread |-> stores that have not reached memory
          cell            \* variable |-> value in memory

atomicVars == <<backend, program, pending, step, reg, results, buffer, cell>>

Processor == {1, 2}
Cell == {"x", "y"}

\* An operation: what, on which variable, the operand, the value expected, the order.
Op(what, var, n, order) == [what |-> what, var |-> var, n |-> n, expected |-> 0, order |-> order]

\* The functions without _explicit are sequentially consistent.
SeqCst(what, var, n) == Op(what, var, n, "seq_cst")

Programs == {
    <<<<SeqCst("store", "x", 1), SeqCst("load", "y", 0)>>,
      <<SeqCst("store", "y", 1), SeqCst("load", "x", 0)>>>>,
    <<<<SeqCst("exchange", "x", 1), SeqCst("load", "y", 0)>>,
      <<SeqCst("store", "y", 1), SeqCst("fetch_add", "x", 2)>>>>,
    <<<<Op("store", "x", 1, "relaxed"), SeqCst("fence", "x", 0), Op("load", "y", 0, "relaxed")>>,
      <<Op("store", "y", 1, "relaxed"), SeqCst("fence", "x", 0), Op("load", "x", 0, "relaxed")>>>>,
    <<<<Op("store", "x", 1, "relaxed"), Op("store", "y", 1, "release")>>,
      <<Op("load", "y", 0, "acquire"), Op("load", "x", 0, "relaxed")>>>>,
    <<<<SeqCst("exchange", "x", 1), SeqCst("exchange", "x", 2)>>,
      <<SeqCst("exchange", "x", 3), SeqCst("fetch_sub", "x", 1)>>>>,
    <<<<SeqCst("compare_exchange", "x", 1), SeqCst("fetch_or", "y", 6)>>,
      <<SeqCst("compare_exchange", "x", 2), SeqCst("fetch_xor", "y", 5), SeqCst("fetch_and", "y", 3)>>>>,
    <<<<SeqCst("compare_exchange", "x", 1), SeqCst("load", "x", 0)>>,
      <<SeqCst("exchange", "x", 3), SeqCst("store", "x", 0)>>>>}

----------------------------------------------------------------------------
(* The machine steps of each operation                                     *)

gnu_load(order) == <<"load">>
gnu_store(order) == IF order = "seq_cst" THEN <<"locked">> ELSE <<"store">>
gnu_exchange(order) == <<"locked">>
gnu_compare_exchange(order) == <<"compare_swap">>
gnu_fetch(order) == <<"locked">>
gnu_fence(order) == IF order = "seq_cst" THEN <<"fence">> ELSE <<>>

BarrierBefore(order) == IF order \in {"release", "acq_rel", "seq_cst"} THEN <<"fence">> ELSE <<>>
BarrierAfter(order) == IF order \in {"acquire", "acq_rel", "seq_cst"} THEN <<"fence">> ELSE <<>>

old_load(order) == BarrierBefore(order) \o <<"load">>
old_store(order) == <<"store">> \o BarrierAfter(order)
\* Read, then compare and swap with what was read, until that succeeds.
old_exchange(order) == <<"load", "swap_or_retry">>
\* The value is read again for the caller when the swap has failed.
old_compare_exchange(order) == <<"compare_swap", "load_if_failed">>
old_fetch(order) == <<"locked">>
old_fence(order) == <<"fence">>

\* Mutant: a sequentially consistent store as a plain one.
msvc_store_plain(order) == <<"store">>

\* Loads and weaker stores have compiler barriers only: the instructions are in the order
\* of the code.
msvc_load(order) == <<"load">>
msvc_store(order) == IF order # "seq_cst" THEN <<"store">> ELSE <<"locked">>
msvc_exchange(order) == <<"locked">>
\* The old value that the instruction returned is the caller's in either case.
msvc_compare_exchange(order) == <<"compare_swap">>
msvc_fetch(order) == <<"locked">>
\* An exchange of a local variable.
msvc_fence(order) == IF order = "seq_cst" THEN <<"fence">> ELSE <<>>

StepsOf(op) ==
    LET pick(gnu, old, msvc) == CASE backend = "gnu" -> gnu [] backend = "gnu_old" -> old
                                  [] backend = "msvc" -> msvc
        o == op.order
    IN  CASE op.what = "load" -> pick(gnu_load(o), old_load(o), msvc_load(o))
          [] op.what = "store" -> pick(gnu_store(o), old_store(o), msvc_store(o))
          [] op.what = "fence" -> pick(gnu_fence(o), old_fence(o), msvc_fence(o))
          [] op.what = "exchange" -> pick(gnu_exchange(o), old_exchange(o), msvc_exchange(o))
          [] op.what = "compare_exchange" ->
                 pick(gnu_compare_exchange(o), old_compare_exchange(o), msvc_compare_exchange(o))
          [] OTHER -> pick(gnu_fetch(o), old_fetch(o), msvc_fetch(o))

\* What a locked instruction makes of the value; words of 3 bits.
Updated(op, old) ==
    CASE op.what \in {"store", "exchange"} -> op.n
      [] op.what = "fetch_add" -> (old + op.n) % 8
      [] op.what = "fetch_sub" -> (old - op.n) % 8
      [] op.what = "fetch_or" -> old | op.n
      [] op.what = "fetch_and" -> old & op.n
      [] op.what = "fetch_xor" -> old ^^ op.n
      [] op.what = "compare_exchange" -> IF old = op.expected THEN op.n ELSE old
      [] OTHER -> old

\* Stores and fences have no result; a compare_exchange says whether it stored and what
\* the caller's expected value is after it.
ResultOf(op, old) == IF op.what \in {"store", "fence"} THEN <<>>
                     ELSE IF op.what = "compare_exchange" THEN <<old = op.expected, old>>
                     ELSE <<old>>

----------------------------------------------------------------------------

AtomicsInit ==
    /\ backend \in {"gnu", "gnu_old", "msvc"}
    /\ program \in Programs
    /\ pending = program
    /\ step = [t \in Processor |-> 1]
    /\ reg = [t \in Processor |-> <<>>]
    /\ results = [t \in Processor |-> <<>>]
    /\ buffer = [t \in Processor |-> <<>>]
    /\ cell = [v \in Cell |-> 0]

Busy(t) == pending[t] # <<>>
Doing(t) == Head(pending[t])
At(t, instruction) == Busy(t) /\ StepsOf(Doing(t))[step[t]] = instruction

SeenBy(t, v) == LET own == SelectSeq(buffer[t], LAMBDA s : s.var = v)
                IN  IF own = <<>> THEN cell[v] ELSE Last(own).n

\* The next step of the operation, or its end with what was read.
Continues(t, read) ==
    LET op == Doing(t)
    IN  IF step[t] < Len(StepsOf(op))
        THEN /\ step' = [step EXCEPT ![t] = @ + 1]
             /\ reg' = [reg EXCEPT ![t] = read]
             /\ UNCHANGED <<pending, results>>
        ELSE /\ step' = [step EXCEPT ![t] = 1]
             /\ reg' = [reg EXCEPT ![t] = <<>>]
             /\ pending' = [pending EXCEPT ![t] = Tail(@)]
             /\ results' = [results EXCEPT ![t] = Append(@, read)]

Loads(t) ==
    /\ At(t, "load")
    /\ Continues(t, <<SeenBy(t, Doing(t).var)>>)
    /\ UNCHANGED <<backend, program, buffer, cell>>

Stores(t) ==
    /\ At(t, "store")
    /\ buffer' = [buffer EXCEPT ![t] = Append(@, [var |-> Doing(t).var, n |-> Doing(t).n])]
    /\ Continues(t, <<>>)
    /\ UNCHANGED <<backend, program, cell>>

Fences(t) ==
    /\ At(t, "fence") /\ buffer[t] = <<>>
    /\ Continues(t, reg[t])
    /\ UNCHANGED <<backend, program, buffer, cell>>

Locked(t) ==
    /\ At(t, "locked") /\ buffer[t] = <<>>
    /\ LET op == Doing(t)
       IN  /\ cell' = [cell EXCEPT ![op.var] = Updated(op, @)]
           /\ Continues(t, ResultOf(op, cell[op.var]))
    /\ UNCHANGED <<backend, program, buffer>>

ComparesAndSwaps(t) ==
    /\ At(t, "compare_swap") /\ buffer[t] = <<>>
    /\ LET op == Doing(t)
       IN  /\ cell' = [cell EXCEPT ![op.var] = Updated(op, @)]
           /\ Continues(t, ResultOf(op, cell[op.var]))
    /\ UNCHANGED <<backend, program, buffer>>

LoadsIfFailed(t) ==
    /\ At(t, "load_if_failed")
    /\ Continues(t, IF reg[t][1] THEN reg[t] ELSE <<FALSE, SeenBy(t, Doing(t).var)>>)
    /\ UNCHANGED <<backend, program, buffer, cell>>

SwapsOrRetries(t) ==
    /\ At(t, "swap_or_retry") /\ buffer[t] = <<>>
    /\ LET op == Doing(t)
       IN  IF cell[op.var] = reg[t][1]
           THEN cell' = [cell EXCEPT ![op.var] = op.n] /\ Continues(t, reg[t])
           ELSE step' = [step EXCEPT ![t] = 1] /\ UNCHANGED <<cell, reg, pending, results>>
    /\ UNCHANGED <<backend, program, buffer>>

\* The oldest buffered store reaches memory.
Drains(t) ==
    /\ buffer[t] # <<>>
    /\ cell' = [cell EXCEPT ![Head(buffer[t]).var] = Head(buffer[t]).n]
    /\ buffer' = [buffer EXCEPT ![t] = Tail(@)]
    /\ UNCHANGED <<backend, program, pending, step, reg, results>>

AtomicsNext == \E t \in Processor :
    \/ Loads(t) \/ Stores(t) \/ Fences(t) \/ Locked(t) \/ ComparesAndSwaps(t)
    \/ LoadsIfFailed(t) \/ SwapsOrRetries(t) \/ Drains(t)

----------------------------------------------------------------------------

\* What running the operations of the threads one at a time, in some order, gives.  A
\* compare_exchange of gnu_old that fails is two operations, the second of which reads the
\* variable for the caller: it may return FALSE with the value that was expected.
RECURSIVE Outcomes(_)
Outcomes(now) ==
    LET able == {t \in Processor : now.todo[t] # <<>>}
        after(t) ==
            LET op == Head(now.todo[t])
                old == now.mem[op.var]
                rereads == backend = "gnu_old" /\ op.what = "compare_exchange" /\ old # op.expected
                result == IF op.what = "reread" THEN <<FALSE, old>> ELSE ResultOf(op, old)
            IN  [todo |-> [now.todo EXCEPT ![t] =
                               (IF rereads THEN <<[op EXCEPT !.what = "reread"]>> ELSE <<>>) \o Tail(@)],
                 res |-> IF rereads THEN now.res ELSE [now.res EXCEPT ![t] = Append(@, result)],
                 mem |-> [now.mem EXCEPT ![op.var] = Updated(op, old)]]
    IN  IF able = {} THEN {<<now.res, now.mem>>} ELSE UNION {Outcomes(after(t)) : t \in able}

\* In every backend the operations of two threads give results and a memory that some
\* order of whole operations gives: a store and a later load of sequentially consistent
\* order are not reordered, nor are a release store and what precedes it, exchanges and
\* fetches lose no update, and exactly one compare_exchange of two succeeds.  The read
\* after a failed compare_exchange of gnu_old is an operation of its own.
AtomicsAreSequential ==
    (\A t \in Processor : pending[t] = <<>> /\ buffer[t] = <<>>) =>
        <<results, cell>> \in Outcomes([todo |-> program, res |-> <<<<>>, <<>>>>, mem |-> [x |-> 0, y |-> 0]])
=============================================================================
