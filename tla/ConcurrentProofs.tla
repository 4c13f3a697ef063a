-------------------------- MODULE ConcurrentProofs --------------------------
(***************************************************************************)
(* A promise's value has one owner, a logger's lines are written once and  *)
(* in order, managed threads are counted and joined once, and a traced     *)
(* allocator has recorded what is live, whatever the number of threads.    *)
(***************************************************************************)
EXTENDS ManagedThreads, Promise, Logging, MemTrace, FiniteSetTheorems, FunctionTheorems,
        SequenceTheorems, TLAPS

----------------------------------------------------------------------------
(* Promise                                                                 *)

Users == {h \in Holder : ppc[h] # "left"}

PromiseType ==
    /\ complete \in BOOLEAN /\ freed \in BOOLEAN
    /\ value \in {"v", "NULL"} /\ error_code \in {0, 1}
    /\ ppc \in [Holder -> {"start", "notify", "blocked", "completed", "leaving", "left"}]
    /\ got \in [Waiter -> {"nothing", "error", "v", "NULL"}]
    /\ ref_count = Cardinality(Users)
    /\ destroyed \in Nat

\* Who may be where, and who owns the value in the meantime.
PromiseInv ==
    /\ PromiseType
    /\ freed <=> Users = {}
    /\ ppc[Completer] \in {"start", "notify", "leaving", "left"}
    /\ \A w \in Waiter : ppc[w] # "notify"
    /\ complete <=> ppc[Completer] # "start"
    /\ \A w \in Waiter : ppc[w] = "completed" => complete
    /\ ppc[Taker] \in {"start", "blocked", "completed"} => got[Taker] = "nothing"
    /\ ~complete => value = "NULL" /\ error_code = 0 /\ got[Taker] # "v"
    /\ complete /\ error_code = 0 => (value = "v" <=> got[Taker] # "v")
    /\ error_code = 1 => value = "NULL" /\ got[Taker] # "v"
    /\ destroyed = IF freed /\ value = "v" THEN 1 ELSE 0

\* The threads that share a promise are finitely many and one of them completes it.
LEMMA HolderFacts ==
  /\ IsFiniteSet(Holder)
  /\ Completer \in Holder /\ Completer \notin Waiter /\ Waiter \subseteq Holder
  /\ Taker \in Holder /\ Taker # Completer
<1>1. IsFiniteSet(Waiter \cup {Completer})
  BY FS_AddElement, PromiseAssumption
<1>2. Waiter \cup {Completer} = Holder
  BY DEF Holder
<1> QED BY <1>1, <1>2, PromiseAssumption DEF Holder

\* Whoever holds a reference is counted, so the count is positive.
LEMMA UsersCounted ==
  ASSUME PromiseType, NEW h \in Users
  PROVE  /\ IsFiniteSet(Users)
         /\ ref_count \in Nat \ {0}
         /\ Cardinality(Users \ {h}) = ref_count - 1
         /\ ref_count = 1 <=> Users \ {h} = {}
<1>1. IsFiniteSet(Users)
  <2>1. Users \in SUBSET Holder
    BY DEF Users
  <2> QED BY <2>1, HolderFacts, FS_Subset
<1>2. Cardinality(Users) \in Nat /\ Cardinality(Users) # 0
  BY <1>1, FS_CardinalityType, FS_EmptySet
<1>3. IsFiniteSet(Users \ {h}) /\ Cardinality(Users \ {h}) = Cardinality(Users) - 1
  BY <1>1, FS_RemoveElement
<1>4. Cardinality(Users \ {h}) = 0 <=> Users \ {h} = {}
  BY <1>3, FS_EmptySet
<1> QED BY <1>1, <1>2, <1>3, <1>4 DEF PromiseType

\* A move that is not a release keeps the users.
LEMMA MoveKeepsUsers ==
  ASSUME PromiseType, NEW h \in Holder, NEW from, NEW to, Moves(h, from, to),
         from # "left", to # "left",
         to \in {"start", "notify", "blocked", "completed", "leaving"}
  PROVE  /\ Users' = Users
         /\ ppc' \in [Holder -> {"start", "notify", "blocked", "completed", "leaving", "left"}]
         /\ ppc'[h] = to /\ \A g \in Holder : g # h => ppc'[g] = ppc[g]
BY DEF Moves, Users, PromiseType

\* Releasing a reference: the last one frees the promise, and the value if it is still there.
LEMMA PromiseReleaseStep ==
  ASSUME PromiseInv, NEW h \in Holder, aws_promise_release(h)
  PROVE  PromiseInv'
<1>1. h \in Users /\ Users' = Users \ {h}
  BY DEF aws_promise_release, Moves, Users, PromiseInv, PromiseType
<1>2. /\ ref_count \in Nat \ {0} /\ Cardinality(Users \ {h}) = ref_count - 1
      /\ ref_count = 1 <=> Users \ {h} = {}
  BY <1>1, UsersCounted DEF PromiseInv
<1>3. ~freed /\ destroyed = 0
  BY <1>1 DEF PromiseInv
<1>4. ref_count' = Cardinality(Users') /\ (freed' <=> Users' = {}) /\ freed' \in BOOLEAN
  BY <1>1, <1>2 DEF aws_promise_release
<1>5. destroyed' = IF freed' /\ value' = "v" THEN 1 ELSE 0
  BY <1>2, <1>3 DEF aws_promise_release, PromiseInv, PromiseType
<1>6. /\ ppc' \in [Holder -> {"start", "notify", "blocked", "completed", "leaving", "left"}]
      /\ ppc[h] = "leaving" /\ ppc'[h] = "left" /\ \A g \in Holder : g # h => ppc'[g] = ppc[g]
  BY DEF aws_promise_release, Moves, PromiseInv, PromiseType
<1>7. UNCHANGED <<complete, value, error_code, got>>
  BY DEF aws_promise_release
<1> QED BY <1>4, <1>5, <1>6, <1>7, HolderFacts DEF PromiseInv, PromiseType

\* The invariant is inductive.
LEMMA PromiseStep == PromiseInv /\ [PromiseNext]_promiseVars => PromiseInv'
<1> SUFFICES ASSUME PromiseInv, [PromiseNext]_promiseVars PROVE PromiseInv'
  OBVIOUS
<1> USE HolderFacts
<1>1. CASE aws_promise_complete
  <2>1. /\ Users' = Users
        /\ ppc' \in [Holder -> {"start", "notify", "blocked", "completed", "leaving", "left"}]
        /\ ppc[Completer] = "start" /\ ppc'[Completer] = "notify"
        /\ \A g \in Holder : g # Completer => ppc'[g] = ppc[g]
    BY <1>1, MoveKeepsUsers DEF aws_promise_complete, PromiseInv, Moves
  <2>2. ~freed /\ ~complete
    BY <2>1 DEF Users, PromiseInv
  <2>3. value = "NULL" /\ error_code = 0 /\ got[Taker] # "v"
    BY <2>2 DEF PromiseInv
  <2>4. complete' /\ ~freed' /\ complete' \in BOOLEAN /\ freed' \in BOOLEAN
    BY <1>1, <2>2 DEF aws_promise_complete, PromiseInv, PromiseType
  <2> QED BY <1>1, <2>1, <2>2, <2>3, <2>4 DEF aws_promise_complete, PromiseInv, PromiseType
<1>2. CASE aws_promise_fail
  <2>1. /\ Users' = Users
        /\ ppc' \in [Holder -> {"start", "notify", "blocked", "completed", "leaving", "left"}]
        /\ ppc[Completer] = "start" /\ ppc'[Completer] = "notify"
        /\ \A g \in Holder : g # Completer => ppc'[g] = ppc[g]
    BY <1>2, MoveKeepsUsers DEF aws_promise_fail, PromiseInv, Moves
  <2>2. ~freed /\ ~complete
    BY <2>1 DEF Users, PromiseInv
  <2>3. value = "NULL" /\ error_code = 0 /\ got[Taker] # "v"
    BY <2>2 DEF PromiseInv
  <2>4. complete' /\ ~freed' /\ complete' \in BOOLEAN /\ freed' \in BOOLEAN
    BY <1>2, <2>2 DEF aws_promise_fail, PromiseInv, PromiseType
  <2> QED BY <1>2, <2>1, <2>2, <2>3, <2>4 DEF aws_promise_fail, PromiseInv, PromiseType
<1>3. CASE PromiseNotifies
  <2>1. /\ ppc' \in [Holder -> {"start", "notify", "blocked", "completed", "leaving", "left"}]
        /\ ppc[Completer] = "notify" /\ ppc'[Completer] = "leaving"
        /\ \A g \in Holder : g # Completer => ppc'[g] = IF ppc[g] = "blocked" THEN "start" ELSE ppc[g]
    BY <1>3 DEF PromiseNotifies, PromiseInv, PromiseType
  <2>2. Users' = Users
    BY <2>1 DEF Users, PromiseInv
  <2> QED BY <1>3, <2>1, <2>2 DEF PromiseNotifies, PromiseInv, PromiseType
<1>4. CASE aws_promise_release(Completer)
  BY <1>4, PromiseReleaseStep
<1>5. ASSUME NEW w \in Waiter, aws_promise_wait(w) \/ PromiseSpuriousWakeUp(w) \/ aws_promise_wait_for(w)
      PROVE  PromiseInv'
  <2>1. PICK from \in {"start", "blocked"}, to \in {"start", "blocked", "completed", "leaving"} :
           Moves(w, from, to) /\ (to = "completed" => complete)
    BY <1>5 DEF aws_promise_wait, PromiseSpuriousWakeUp, aws_promise_wait_for
  <2>2. /\ Users' = Users
        /\ ppc' \in [Holder -> {"start", "notify", "blocked", "completed", "leaving", "left"}]
        /\ ppc[w] \in {"start", "blocked"}
        /\ ppc'[w] \in {"start", "blocked", "completed", "leaving"}
        /\ ppc'[w] = "completed" => complete
        /\ \A g \in Holder : g # w => ppc'[g] = ppc[g]
    BY <2>1, MoveKeepsUsers DEF PromiseInv, Moves
  <2>3. UNCHANGED <<complete, value, error_code, ref_count, freed, got, destroyed>>
    BY <1>5 DEF aws_promise_wait, PromiseSpuriousWakeUp, aws_promise_wait_for
  <2> QED BY <2>2, <2>3, PromiseAssumption DEF PromiseInv, PromiseType
<1>6. ASSUME NEW w \in Waiter, aws_promise_take_value(w) PROVE PromiseInv'
  <2>1. /\ Users' = Users
        /\ ppc' \in [Holder -> {"start", "notify", "blocked", "completed", "leaving", "left"}]
        /\ ppc[w] = "completed" /\ ppc'[w] = "leaving"
        /\ \A g \in Holder : g # w => ppc'[g] = ppc[g]
    BY <1>6, MoveKeepsUsers DEF aws_promise_take_value, PromiseInv, Moves
  <2>2. w \in Users /\ ~freed
    BY <2>1 DEF Users, PromiseInv
  <2> QED BY <1>6, <2>1, <2>2, PromiseAssumption DEF aws_promise_take_value, PromiseInv, PromiseType
<1>7. ASSUME NEW w \in Waiter, aws_promise_value(w) PROVE PromiseInv'
  <2>1. /\ Users' = Users
        /\ ppc' \in [Holder -> {"start", "notify", "blocked", "completed", "leaving", "left"}]
        /\ ppc[w] = "completed" /\ ppc'[w] = "leaving"
        /\ \A g \in Holder : g # w => ppc'[g] = ppc[g]
    BY <1>7, MoveKeepsUsers DEF aws_promise_value, PromiseInv, Moves
  <2> QED BY <1>7, <2>1, PromiseAssumption DEF aws_promise_value, PromiseInv, PromiseType
<1>8. ASSUME NEW w \in Waiter, aws_promise_release(w) PROVE PromiseInv'
  BY <1>8, PromiseReleaseStep
<1>9. CASE UNCHANGED promiseVars
  BY <1>9 DEF promiseVars, PromiseInv, PromiseType, Users
<1> QED
  BY <1>1, <1>2, <1>3, <1>4, <1>5, <1>6, <1>7, <1>8, <1>9 DEF PromiseNext, CompleterSteps, WaiterSteps

\* However many threads share a promise, its value is destroyed or taken, never both and
\* never neither, and not before the last reference is released (promise.c).
THEOREM PromiseValueOnceCorrect == PromiseSpec => []PromiseValueOnce
<1>1. PromiseInit => PromiseInv
  <2> SUFFICES ASSUME PromiseInit PROVE PromiseInv
    OBVIOUS
  <2>1. Users = Holder
    BY DEF PromiseInit, Users
  <2> QED BY <2>1, HolderFacts, PromiseAssumption DEF PromiseInit, PromiseInv, PromiseType
<1>2. PromiseInv => PromiseValueOnce
  <2> SUFFICES ASSUME PromiseInv PROVE PromiseValueOnce
    OBVIOUS
  <2>1. freed => \A h \in Holder : ppc[h] = "left"
    BY DEF PromiseInv, Users
  <2>2. freed => complete
    BY <2>1, HolderFacts DEF PromiseInv
  <2> QED BY <2>1, <2>2 DEF PromiseInv, PromiseType, PromiseValueOnce
<1> QED BY <1>1, <1>2, PromiseStep, PTL DEF PromiseSpec

----------------------------------------------------------------------------
(* Logging                                                                 *)

Line == Client \X Nat

LogType ==
    /\ kind \in Kinds
    /\ stage \in {"new", "ready", "no_file", "failed", "joining", "cleaned"}
    /\ lpc \in [Client -> {"idle", "format", "send"}]
    /\ line \in [Client -> Line \cup {NoLine}]
    /\ calls \in [Client -> Nat]
    /\ pending_log_lines \in Seq(Line) /\ log_lines \in Seq(Line)
    /\ sent \in Seq(Line) /\ written \in Seq(Line)
    /\ finished \in BOOLEAN
    /\ wpc \in {"none", "waiting", "blocked", "writing", "exited"}
    /\ live \subseteq Line

\* Every line that is allocated is in one of the lists or in the hands of a client.
LiveReachable ==
    \A x \in live : \/ \E i \in 1 .. Len(log_lines) : log_lines[i] = x
                    \/ \E i \in 1 .. Len(pending_log_lines) : pending_log_lines[i] = x
                    \/ \E c \in Client : lpc[c] = "send" /\ line[c] = x

\* Where the clients and the background thread are in each stage.
LogControl ==
    /\ \A c \in Client : lpc[c] = "send" => line[c] \in Line
    /\ stage # "ready" => \A c \in Client : lpc[c] = "idle"
    /\ kind = "noalloc" => live = {}
    /\ kind # "background" => wpc = "none" /\ pending_log_lines = <<>> /\ stage # "joining"
    /\ stage \in {"new", "failed"} => wpc = "none" /\ pending_log_lines = <<>> /\ ~finished
    /\ wpc = "writing" <=> log_lines # <<>>
    /\ wpc = "exited" => finished /\ pending_log_lines = <<>>
    /\ finished => stage \in {"joining", "cleaned"}
    /\ stage = "cleaned" /\ kind = "background" => wpc = "exited"
    /\ stage \in {"failed", "cleaned"} => held = {}
    /\ kind = "background" => held \subseteq Upto(7)
    /\ kind = "foreground" => held \subseteq {"impl"}
    /\ kind = "noalloc" => held \subseteq {"impl", "file"}

InOrder == written \o log_lines \o pending_log_lines = sent

LogInv == LogType /\ LogControl /\ LiveReachable /\ InOrder

\* Appending to the last of three lists appends to the whole.
LEMMA AppendLast ==
  ASSUME NEW a \in Seq(Line), NEW b \in Seq(Line), NEW c \in Seq(Line), NEW x \in Line
  PROVE  a \o b \o Append(c, x) = Append(a \o b \o c, x)
<1>1. Append(c, x) \in Seq(Line) /\ a \o b \in Seq(Line) /\ a \o b \o c \in Seq(Line) /\ <<x>> \in Seq(Line)
  BY ConcatProperties, AppendProperties
<1>2. Append(c, x) = c \o <<x>> /\ Append(a \o b \o c, x) = (a \o b \o c) \o <<x>>
  BY <1>1, AppendIsConcat
<1> QED BY <1>1, <1>2, ConcatAssociative

\* Moving the head of the second list to the end of the first keeps their sequence.
LEMMA MoveHead ==
  ASSUME NEW a \in Seq(Line), NEW b \in Seq(Line), b # <<>>
  PROVE  Append(a, Head(b)) \o Tail(b) = a \o b
<1>1. /\ Head(b) \in Line /\ Tail(b) \in Seq(Line) /\ Len(b) \in Nat \ {0} /\ Len(a) \in Nat
      /\ Len(Tail(b)) = Len(b) - 1 /\ Head(b) = b[1]
      /\ \A i \in 1 .. Len(Tail(b)) : Tail(b)[i] = b[i + 1]
  BY HeadTailProperties, EmptySeq, LenProperties
<1>2. /\ Append(a, Head(b)) \in Seq(Line) /\ Len(Append(a, Head(b))) = Len(a) + 1
      /\ \A i \in 1 .. Len(a) : Append(a, Head(b))[i] = a[i]
      /\ Append(a, Head(b))[Len(a) + 1] = Head(b)
  BY <1>1, AppendProperties
<1>3. /\ Append(a, Head(b)) \o Tail(b) \in Seq(Line)
      /\ Len(Append(a, Head(b)) \o Tail(b)) = Len(a) + 1 + Len(Tail(b))
      /\ \A i \in 1 .. Len(a) + 1 + Len(Tail(b)) : (Append(a, Head(b)) \o Tail(b))[i] =
            IF i <= Len(a) + 1 THEN Append(a, Head(b))[i] ELSE Tail(b)[i - (Len(a) + 1)]
  BY <1>1, <1>2, ConcatProperties
<1>4. /\ a \o b \in Seq(Line) /\ Len(a \o b) = Len(a) + Len(b)
      /\ \A i \in 1 .. Len(a) + Len(b) : (a \o b)[i] = IF i <= Len(a) THEN a[i] ELSE b[i - Len(a)]
  BY ConcatProperties
<1>5. ASSUME NEW i \in 1 .. Len(a) + Len(b)
      PROVE  (Append(a, Head(b)) \o Tail(b))[i] = (a \o b)[i]
  <2>1. CASE i <= Len(a)
    BY <2>1, <1>1, <1>2, <1>3, <1>4
  <2>2. CASE i = Len(a) + 1
    BY <2>2, <1>1, <1>2, <1>3, <1>4
  <2>3. CASE i > Len(a) + 1
    <3>1. i - (Len(a) + 1) \in 1 .. Len(Tail(b))
      BY <2>3, <1>1
    <3>2. Tail(b)[i - (Len(a) + 1)] = b[i - (Len(a) + 1) + 1]
      BY <3>1, <1>1
    <3>3. i - (Len(a) + 1) + 1 = i - Len(a)
      BY <1>1
    <3> QED BY <2>3, <3>2, <3>3, <1>1, <1>3, <1>4
  <2> QED BY <2>1, <2>2, <2>3, <1>1
<1> QED BY <1>1, <1>3, <1>4, <1>5, SeqEqual

\* A line handed over by a client stays reachable, through the pending list or not at all.
LEMMA SendsStep ==
  ASSUME LogInv, NEW c \in Client, Sends(c),
         \/ s_foreground_channel_send(c) \/ s_noalloc_stderr_logger_log(c)
         \/ s_background_channel_send(c)
  PROVE  LogInv'
<1>1. /\ line[c] \in Line /\ lpc[c] = "send" /\ stage = "ready" /\ ~finished
      /\ wpc # "exited"
  BY DEF LogInv, LogControl, LogType, Sends
<1>2. /\ lpc' \in [Client -> {"idle", "format", "send"}] /\ line' \in [Client -> Line \cup {NoLine}]
      /\ lpc'[c] = "idle" /\ \A d \in Client : d # c => lpc'[d] = lpc[d] /\ line'[d] = line[d]
  BY DEF LogInv, LogType, Sends
<1>3. sent' = Append(sent, line[c]) /\ sent' \in Seq(Line)
  BY <1>1, AppendProperties DEF LogInv, LogType, Sends
<1>4. CASE kind # "background"
  <2>1. /\ UNCHANGED channelVars /\ written' = Append(written, line[c])
        /\ (live' \subseteq live \ {line[c]}) \/ (kind = "noalloc" /\ live' = live)
    BY <1>4 DEF s_foreground_channel_send, s_noalloc_stderr_logger_log, s_background_channel_send
  <2>2. pending_log_lines = <<>> /\ log_lines = <<>> /\ written \o log_lines \o pending_log_lines = written
    BY <1>4, ConcatEmptySeq DEF LogInv, LogControl, LogType
  <2>3. written' \in Seq(Line) /\ InOrder'
    <3>1. written' \in Seq(Line)
      BY <1>1, <2>1, AppendProperties DEF LogInv, LogType
    <3>2. written' \o <<>> \o <<>> = written'
      BY <3>1, ConcatEmptySeq
    <3> QED BY <1>3, <2>1, <2>2, <3>1, <3>2 DEF InOrder, LogInv, channelVars
  <2>4. LogType'
    BY <1>2, <1>3, <2>1, <2>3 DEF LogInv, LogType, Sends, channelVars
  <2>5. LogControl'
    BY <1>1, <1>2, <1>4, <2>1 DEF LogInv, LogControl, LogType, Sends, channelVars
  <2>6. LiveReachable'
    BY <1>1, <1>2, <1>4, <2>1 DEF LogInv, LogControl, LiveReachable, channelVars
  <2> QED BY <2>3, <2>4, <2>5, <2>6 DEF LogInv
<1>5. CASE kind = "background"
  <2>1. /\ pending_log_lines' = Append(pending_log_lines, line[c])
        /\ wpc' = IF wpc = "blocked" THEN "waiting" ELSE wpc
        /\ UNCHANGED <<finished, log_lines, live, written>>
    BY <1>5 DEF s_foreground_channel_send, s_noalloc_stderr_logger_log, s_background_channel_send
  <2>2. /\ pending_log_lines' \in Seq(Line)
        /\ Len(pending_log_lines) \in Nat
        /\ Len(pending_log_lines') = Len(pending_log_lines) + 1
        /\ \A i \in 1 .. Len(pending_log_lines) : pending_log_lines'[i] = pending_log_lines[i]
        /\ pending_log_lines'[Len(pending_log_lines) + 1] = line[c]
    BY <1>1, <2>1, AppendProperties, LenProperties DEF LogInv, LogType
  <2>3. InOrder'
    <3>1. written \o log_lines \o Append(pending_log_lines, line[c])
             = Append(written \o log_lines \o pending_log_lines, line[c])
      BY <1>1, AppendLast, SMTT(30) DEF LogInv, LogType
    <3> QED BY <1>3, <2>1, <3>1 DEF InOrder, LogInv
  <2>4. LogType'
    BY <1>2, <1>3, <2>1, <2>2 DEF LogInv, LogType, Sends
  <2>5. LogControl'
    BY <1>1, <1>2, <1>5, <2>1 DEF LogInv, LogControl, LogType, Sends
  <2>6. LiveReachable'
    <3> SUFFICES ASSUME NEW x \in live
                 PROVE  \/ \E i \in 1 .. Len(log_lines) : log_lines[i] = x
                        \/ \E i \in 1 .. Len(pending_log_lines') : pending_log_lines'[i] = x
                        \/ \E d \in Client : lpc'[d] = "send" /\ line'[d] = x
      BY <2>1 DEF LiveReachable
    <3>1. CASE \E i \in 1 .. Len(log_lines) : log_lines[i] = x
      BY <3>1
    <3>2. CASE \E i \in 1 .. Len(pending_log_lines) : pending_log_lines[i] = x
      BY <3>2, <2>2
    <3>3. CASE \E d \in Client : lpc[d] = "send" /\ line[d] = x
      BY <3>3, <2>2, <1>2
    <3> QED BY <3>1, <3>2, <3>3 DEF LogInv, LiveReachable
  <2> QED BY <2>3, <2>4, <2>5, <2>6 DEF LogInv
<1> QED BY <1>4, <1>5

\* The background thread takes the lines, or ends when there are none and none can come.
LEMMA WriterTakesStep ==
  ASSUME LogInv, WriterTakes PROVE LogInv'
<1>1. log_lines = <<>>
  BY DEF LogInv, LogControl, WriterTakes
<1>2. CASE pending_log_lines = <<>>
  <2>1. finished /\ wpc' = "exited" /\ UNCHANGED <<pending_log_lines, log_lines>>
    BY <1>2 DEF WriterTakes, s_background_wait
  <2> QED BY <1>1, <1>2, <2>1
    DEF LogInv, LogType, LogControl, LiveReachable, InOrder, WriterTakes, clientVars, historyVars
<1>3. CASE pending_log_lines # <<>>
  <2>1. wpc' = "writing" /\ log_lines' = pending_log_lines /\ pending_log_lines' = <<>>
    BY <1>1, <1>3 DEF WriterTakes
  <2>2. InOrder'
    <3>1. /\ written \o <<>> = written
          /\ written \o pending_log_lines \in Seq(Line)
      BY ConcatEmptySeq, ConcatProperties DEF LogInv, LogType
    <3>2. written \o pending_log_lines \o <<>> = written \o pending_log_lines
      BY <3>1, ConcatEmptySeq
    <3> QED BY <1>1, <2>1, <3>1, <3>2 DEF LogInv, InOrder, WriterTakes, historyVars
  <2>3. LiveReachable'
    BY <1>1, <2>1, EmptySeq DEF LogInv, LiveReachable, WriterTakes, clientVars
  <2>4. LogType'
    BY <2>1, EmptySeq DEF LogInv, LogType, WriterTakes, clientVars, historyVars
  <2>5. LogControl'
    BY <1>3, <2>1 DEF LogInv, LogControl, WriterTakes, clientVars, historyVars
  <2> QED BY <2>2, <2>3, <2>4, <2>5 DEF LogInv
<1> QED BY <1>2, <1>3

\* The background thread writes one line and destroys it.
LEMMA WriterWritesStep ==
  ASSUME LogInv, WriterWrites PROVE LogInv'
<1>1. log_lines # <<>>
  BY DEF LogInv, LogControl, WriterWrites
<1>2. /\ Head(log_lines) \in Line /\ Head(log_lines) = log_lines[1]
      /\ Tail(log_lines) \in Seq(Line) /\ Len(log_lines) \in Nat \ {0}
      /\ Len(Tail(log_lines)) = Len(log_lines) - 1
      /\ \A i \in 1 .. Len(Tail(log_lines)) : Tail(log_lines)[i] = log_lines[i + 1]
  BY <1>1, HeadTailProperties, EmptySeq DEF LogInv, LogType
<1>3. Tail(log_lines) = <<>> <=> Len(log_lines) = 1
  BY <1>2, EmptySeq
<1>4. /\ written' = Append(written, Head(log_lines)) /\ log_lines' = Tail(log_lines)
      /\ live' = live \ {Head(log_lines)} /\ wpc = "writing"
      /\ wpc' = IF Len(log_lines) = 1 THEN "waiting" ELSE "writing"
      /\ UNCHANGED <<kind, stage, held, level, pending_log_lines, finished, clientVars, sent>>
  BY DEF WriterWrites
<1>5. InOrder'
  <2>1. Append(written, Head(log_lines)) \o Tail(log_lines) = written \o log_lines
    BY <1>1, MoveHead DEF LogInv, LogType
  <2> QED BY <1>4, <2>1 DEF LogInv, InOrder
<1>6. LogType'
  BY <1>2, <1>4, AppendProperties DEF LogInv, LogType, clientVars
<1>7. LogControl'
  BY <1>3, <1>4 DEF LogInv, LogControl, clientVars
<1>8. LiveReachable'
  <2> SUFFICES ASSUME NEW x \in live, x # log_lines[1]
               PROVE  \/ \E i \in 1 .. Len(Tail(log_lines)) : Tail(log_lines)[i] = x
                      \/ \E i \in 1 .. Len(pending_log_lines) : pending_log_lines[i] = x
                      \/ \E c \in Client : lpc[c] = "send" /\ line[c] = x
    BY <1>2, <1>4 DEF LiveReachable, clientVars
  <2>1. CASE \E i \in 1 .. Len(log_lines) : log_lines[i] = x
    <3>1. PICK i \in 1 .. Len(log_lines) : log_lines[i] = x
      BY <2>1
    <3>2. i - 1 \in 1 .. Len(Tail(log_lines)) /\ (i - 1) + 1 = i
      BY <1>2, <3>1
    <3> QED BY <3>1, <3>2, <1>2
  <2> QED BY <2>1 DEF LogInv, LiveReachable
<1> QED BY <1>5, <1>6, <1>7, <1>8 DEF LogInv

\* The labels at the end of aws_logger_init_standard release all that was acquired.
LEMMA FailureReleasesAll ==
  /\ Upto(2) \ {"writer", "impl"} = {}
  /\ Upto(6) \ {"channel", "formatter_impl", "formatter", "file", "writer", "impl"} = {}
<1>0. /\ Parts[1] = "impl" /\ Parts[2] = "writer" /\ Parts[3] = "file" /\ Parts[4] = "formatter"
      /\ Parts[5] = "formatter_impl" /\ Parts[6] = "channel"
  BY DEF Parts
<1>1. \A m \in 1 .. 2 : Parts[m] \in {"impl", "writer"}
  BY <1>0
<1>2. \A m \in 1 .. 6 : Parts[m] \in {"impl", "writer", "file", "formatter", "formatter_impl", "channel"}
  BY <1>0
<1> QED BY <1>1, <1>2 DEF Upto

\* The invariant is inductive.
LEMMA LogStep == LogInv /\ [LogNext]_logVars => LogInv'
<1> SUFFICES ASSUME LogInv, [LogNext]_logVars PROVE LogInv'
  OBVIOUS
<1> USE DEF LogInv
<1>1. ASSUME NEW l \in Levels, aws_logger_init_standard(l) PROVE LogInv'
  <2>1. /\ stage = "new" /\ stage' \in {"failed", "ready"}
        /\ stage' = "failed" => wpc' = "none"
        /\ wpc' \in {"none", "waiting"}
        /\ kind = "background" /\ held' \subseteq Upto(7)
    BY <1>1, FailureReleasesAll DEF aws_logger_init_standard, LogControl
  <2>2. stage' = "failed" => held' = {}
    BY <1>1, FailureReleasesAll DEF aws_logger_init_standard
  <2>3. UNCHANGED <<kind, pending_log_lines, finished, log_lines, clientVars, live, historyVars>>
    BY <1>1 DEF aws_logger_init_standard
  <2> QED BY <2>1, <2>2, <2>3
    DEF LogType, LogControl, LiveReachable, InOrder, clientVars, historyVars
<1>2. ASSUME NEW l \in Levels,
             \/ aws_logger_init_from_external(l) \/ aws_logger_init_noalloc(l)
             \/ aws_logger_set_log_level(l)
      PROVE LogInv'
  <2>1. LogType'
    BY <1>2 DEF aws_logger_init_from_external, aws_logger_init_noalloc, aws_logger_set_log_level, channelVars, clientVars, historyVars, LogType
  <2>2. LogControl'
    BY <1>2 DEF aws_logger_init_from_external, aws_logger_init_noalloc, aws_logger_set_log_level, channelVars, clientVars, historyVars, LogControl, LogType
  <2>3. LiveReachable'
    BY <1>2 DEF aws_logger_init_from_external, aws_logger_init_noalloc, aws_logger_set_log_level, channelVars, clientVars, historyVars, LiveReachable, LogType
  <2>4. InOrder'
    BY <1>2 DEF aws_logger_init_from_external, aws_logger_init_noalloc, aws_logger_set_log_level, channelVars, clientVars, historyVars, InOrder
  <2> QED BY <2>1, <2>2, <2>3, <2>4
<1>3. ASSUME NEW l \in Levels, NEW c \in Client, ChecksLevel(c, l) PROVE LogInv'
  <2>1. LogType'
    BY <1>3 DEF ChecksLevel, channelVars, historyVars, LogType
  <2>2. LogControl'
    BY <1>3 DEF ChecksLevel, channelVars, historyVars, LogControl, LogType
  <2>3. LiveReachable'
    BY <1>3 DEF ChecksLevel, channelVars, historyVars, LiveReachable, LogType
  <2>4. InOrder'
    BY <1>3 DEF ChecksLevel, channelVars, historyVars, InOrder
  <2> QED BY <2>1, <2>2, <2>3, <2>4
<1>4. ASSUME NEW c \in Client, Formats(c) PROVE LogInv'
  <2>1. /\ stage = "ready" /\ <<c, calls[c]>> \in Line
    BY <1>4 DEF Formats, LogType, LogControl, Line
  <2>2. LogType'
    BY <1>4, <2>1 DEF Formats, channelVars, historyVars, LogType
  <2>3. LogControl'
    BY <1>4, <2>1 DEF Formats, channelVars, historyVars, LogType, LogControl
  <2>4. LiveReachable'
    <3>1. /\ UNCHANGED <<log_lines, pending_log_lines>>
          /\ lpc[c] = "format" /\ live' \subseteq live \cup {<<c, calls[c]>>}
          /\ live' # live => lpc'[c] = "send" /\ line'[c] = <<c, calls[c]>>
          /\ \A d \in Client : d # c => lpc'[d] = lpc[d] /\ line'[d] = line[d]
      BY <1>4 DEF Formats, channelVars, LogType
    <3> QED BY <3>1 DEF LiveReachable
  <2> QED BY <1>4, <2>2, <2>3, <2>4 DEF Formats, InOrder, channelVars, historyVars
<1>5. ASSUME NEW c \in Client,
             \/ s_foreground_channel_send(c) \/ s_noalloc_stderr_logger_log(c)
             \/ s_background_channel_send(c)
      PROVE LogInv'
  <2>1. Sends(c)
    BY <1>5 DEF s_foreground_channel_send, s_noalloc_stderr_logger_log, s_background_channel_send
  <2> QED BY <1>5, <2>1, SendsStep
<1>6. CASE WriterSleeps \/ LogSpuriousWakeUp
  <2>1. LogType'
    BY <1>6 DEF WriterSleeps, LogSpuriousWakeUp, clientVars, historyVars, LogType
  <2>2. LogControl'
    BY <1>6 DEF WriterSleeps, LogSpuriousWakeUp, clientVars, historyVars, LogControl, LogType
  <2>3. LiveReachable'
    BY <1>6 DEF WriterSleeps, LogSpuriousWakeUp, clientVars, historyVars, LiveReachable, LogType
  <2>4. InOrder'
    BY <1>6 DEF WriterSleeps, LogSpuriousWakeUp, clientVars, historyVars, InOrder
  <2> QED BY <2>1, <2>2, <2>3, <2>4
<1>7. CASE WriterTakes
  BY <1>7, WriterTakesStep
<1>8. CASE WriterWrites
  BY <1>8, WriterWritesStep
<1>9. CASE s_background_channel_clean_up
  BY <1>9 DEF s_background_channel_clean_up, Quiet, clientVars, historyVars,
    LogType, LogControl, LiveReachable, InOrder
<1>10. CASE \/ s_aws_logger_pipeline_owned_clean_up \/ s_aws_pipeline_logger_unowned_clean_up
            \/ s_noalloc_stderr_logger_clean_up
  <2>1. /\ stage' = "cleaned" /\ stage \in {"ready", "joining"}
        /\ UNCHANGED <<kind, level, channelVars, clientVars, live, historyVars>>
        /\ \A c \in Client : lpc[c] = "idle"
        /\ kind = "background" => wpc = "exited"
    BY <1>10 DEF s_aws_logger_pipeline_owned_clean_up, s_aws_pipeline_logger_unowned_clean_up,
      s_noalloc_stderr_logger_clean_up, Releases, Quiet, LogControl
  <2>2. held' = {}
    BY <1>10 DEF s_aws_logger_pipeline_owned_clean_up, s_aws_pipeline_logger_unowned_clean_up,
      s_noalloc_stderr_logger_clean_up, Releases, Quiet, LogControl, LogType, Kinds
  <2> QED BY <2>1, <2>2 DEF channelVars, clientVars, historyVars, LogType, LogControl,
    LiveReachable, InOrder
<1>11. CASE UNCHANGED logVars
  BY <1>11 DEF logVars, channelVars, clientVars, historyVars, LogType, LogControl, LiveReachable, InOrder
<1> QED
  BY <1>1, <1>2, <1>3, <1>4, <1>5, <1>6, <1>7, <1>8, <1>9, <1>10, <1>11 DEF LogNext, WriterSteps

\* However many threads log, and whenever the logger is cleaned up, every line the channel
\* accepted is written once, in the order of the sends, and nothing is left allocated
\* (log_channel.c, logging.c).
THEOREM LoggedOnceInOrderCorrect == LogSpec => []LoggedOnceInOrder
<1>1. LogInit => LogInv
  <2> SUFFICES ASSUME LogInit PROVE LogInv
    OBVIOUS
  <2>1. <<>> \o <<>> \o <<>> = <<>>
    BY ConcatEmptySeq, EmptySeq
  <2> QED BY <2>1, EmptySeq DEF LogInit, LogInv, LogType, LogControl, LiveReachable, InOrder
<1>2. LogInv => LoggedOnceInOrder
  <2> SUFFICES ASSUME LogInv, stage \in {"cleaned", "failed"}
               PROVE  held = {} /\ live = {} /\ written = sent
    BY DEF LogInv, InOrder, LoggedOnceInOrder
  <2>1. log_lines = <<>> /\ pending_log_lines = <<>> /\ held = {}
    BY DEF LogInv, LogControl, LogType, Kinds
  <2>2. live = {}
    BY <2>1, EmptySeq DEF LogInv, LogControl, LiveReachable
  <2>3. written \o <<>> \o <<>> = written
    BY ConcatEmptySeq DEF LogInv, LogType
  <2> QED BY <2>1, <2>2, <2>3 DEF LogInv, InOrder
<1> QED BY <1>1, <1>2, LogStep, PTL DEF LogSpec

----------------------------------------------------------------------------
(* Managed threads                                                         *)

Process == Thread \cup Joiner
Counted == {t \in Managed : state[t] \notin {"new", "failed", "joined"}}

ManagedType ==
    /\ s_unjoined_thread_count \in Nat
    /\ Plain \in SUBSET Thread
    /\ state \in [Thread -> {"new", "launching", "created", "once", "running", "exiting", "listed",
                             "returned", "joined", "failed"}]
    /\ wrapper \in [Thread -> {"none", "live", "freed"}]
    /\ DOMAIN join_list = Process /\ join_list = [p \in Process |-> join_list[p]]
    /\ jpc \in [Joiner -> {"idle", "waiting", "blocked", "late", "joining", "returned"}]
    /\ done \in [Joiner -> BOOLEAN]
    /\ result \in [Joiner -> {"success", "error"}]
    /\ before \in [Joiner -> SUBSET Managed]

CountExact ==
    /\ IsFiniteSet(Counted)
    /\ s_unjoined_thread_count = Cardinality(Counted) + (IF event_loop = "in" THEN 1 ELSE 0)

\* Where a finished thread is, and that only a thread that has been listed, or a joiner
\* in its critical path, has one to join.
Listed(list) == list = <<>> \/ \E t \in Managed : list = <<t>> /\ state[t] \in {"listed", "returned"}

Places ==
    /\ Listed(s_pending_join_managed_threads)
    /\ \A p \in Process : Listed(join_list[p])
    /\ \A t \in Managed : state[t] \in {"listed", "returned"} =>
           s_pending_join_managed_threads = <<t>> \/ \E p \in Process : join_list[p] = <<t>>
    /\ \A t \in Managed, p \in Process : join_list[p] = <<t>> =>
           /\ s_pending_join_managed_threads # <<t>>
           /\ p # t
           /\ \A q \in Process : join_list[q] = <<t>> => q = p
    /\ \A t \in Thread : join_list[t] # <<>> => state[t] = "listed"
    /\ \A j \in Joiner : join_list[j] # <<>> => jpc[j] = "joining"

WrapperFreed == \A t \in Managed : wrapper[t] = "freed" <=> state[t] = "joined"

\* What a joiner that is done, or returned, has seen.
JoinerSaw ==
    /\ \A j \in Joiner : jpc[j] = "returned" => done[j]
    /\ \A j \in Joiner : \A t \in before[j] : state[t] # "new"
    /\ \A j \in Joiner : jpc[j] \in {"joining", "returned"} /\ done[j] /\ result[j] = "success" =>
           \A t \in before[j] : state[t] \in {"joined", "failed"}

ManagedInv == ManagedType /\ CountExact /\ Places /\ WrapperFreed /\ JoinerSaw

\* What a thread's move does to the states, and to the set of those counted.
LEMMA GoesMoves ==
  ASSUME ManagedType, CountExact, NEW t \in Thread, NEW from, NEW to, Goes(t, from, to), Plain' = Plain,
         to \in {"launching", "created", "once", "running", "exiting", "listed", "returned", "joined", "failed"}
  PROVE  /\ state' \in [Thread -> {"new", "launching", "created", "once", "running", "exiting", "listed",
                                   "returned", "joined", "failed"}]
         /\ state[t] = from /\ state'[t] = to
         /\ \A u \in Thread : u # t => state'[u] = state[u]
         /\ IsFiniteSet(Counted') /\ Cardinality(Counted) \in Nat
         /\ Cardinality(Counted') = Cardinality(Counted)
              + (IF t \in Managed /\ to \notin {"failed", "joined"} /\ from \in {"new", "failed", "joined"}
                 THEN 1 ELSE 0)
              - (IF t \in Managed /\ to \in {"failed", "joined"} /\ from \notin {"new", "failed", "joined"}
                 THEN 1 ELSE 0)
<1>1. /\ state' \in [Thread -> {"new", "launching", "created", "once", "running", "exiting", "listed",
                                "returned", "joined", "failed"}]
      /\ state[t] = from /\ state'[t] = to
      /\ \A u \in Thread : u # t => state'[u] = state[u]
  BY DEF Goes, ManagedType
<1>2. Cardinality(Counted) \in Nat
  BY FS_CardinalityType DEF CountExact
<1>3. CASE t \in Managed /\ to \notin {"failed", "joined"} /\ from \in {"new", "failed", "joined"}
  <2>1. Counted' = Counted \cup {t} /\ t \notin Counted
    BY <1>1, <1>3 DEF Counted, Managed
  <2>2. IsFiniteSet(Counted \cup {t}) /\ Cardinality(Counted \cup {t}) = Cardinality(Counted) + 1
    BY <2>1, FS_AddElement DEF CountExact
  <2> QED BY <1>1, <1>2, <1>3, <2>1, <2>2
<1>4. CASE t \in Managed /\ to \in {"failed", "joined"} /\ from \notin {"new", "failed", "joined"}
  <2>1. Counted' = Counted \ {t} /\ t \in Counted
    BY <1>1, <1>4 DEF Counted, Managed
  <2>2. IsFiniteSet(Counted \ {t}) /\ Cardinality(Counted \ {t}) = Cardinality(Counted) - 1
    BY <2>1, FS_RemoveElement DEF CountExact
  <2> QED BY <1>1, <1>2, <1>4, <2>1, <2>2
<1>5. CASE ~(t \in Managed /\ to \notin {"failed", "joined"} /\ from \in {"new", "failed", "joined"})
           /\ ~(t \in Managed /\ to \in {"failed", "joined"} /\ from \notin {"new", "failed", "joined"})
  <2>1. Counted' = Counted
    BY <1>1, <1>5 DEF Counted, Managed
  <2> QED BY <1>1, <1>2, <1>5, <2>1 DEF CountExact
<1> QED BY <1>3, <1>4, <1>5

\* Between being launched and being listed, a thread disturbs nothing.
LEMMA QuietThread ==
  ASSUME ManagedInv, NEW t \in Thread, NEW from, NEW to, Goes(t, from, to),
         from \in {"launching", "created", "once", "running"},
         to \in {"created", "once", "running", "exiting"},
         UNCHANGED <<countVars, joinerVars, join_list, config, event_loop>>,
         wrapper' \in [Thread -> {"none", "live", "freed"}],
         \A u \in Managed : wrapper'[u] = wrapper[u]
  PROVE  ManagedInv'
<1> USE DEF ManagedInv
<1>u. /\ UNCHANGED <<s_unjoined_thread_count, s_pending_join_managed_threads, Plain, jpc, done, result,
                     before, join_list, event_loop>>
      /\ Managed' = Managed
  BY DEF countVars, joinerVars, config, Managed
<1>g. /\ state' \in [Thread -> {"new", "launching", "created", "once", "running", "exiting", "listed",
                                "returned", "joined", "failed"}]
      /\ state[t] = from /\ state'[t] = to
      /\ \A u \in Thread : u # t => state'[u] = state[u]
      /\ IsFiniteSet(Counted') /\ Cardinality(Counted') = Cardinality(Counted)
  BY <1>u, GoesMoves
<1>m. Managed \subseteq Thread /\ \A j \in Joiner : before[j] \subseteq Managed
  BY DEF Managed, ManagedType
<1>s. state[t] \notin {"new", "listed", "returned"} /\ state'[t] \notin {"new", "listed", "returned"}
  BY <1>g
<1>1. ManagedType'
  BY <1>u, <1>g DEF ManagedType
<1>2. CountExact'
  BY <1>u, <1>g DEF CountExact
<1>3. Places'
  <2>1. \A u \in Thread : state'[u] = state[u]
                         \/ (state[u] \notin {"listed", "returned"} /\ state'[u] \notin {"listed", "returned"})
    BY <1>g, <1>s
  <2>2. \A u \in Managed : state'[u] \in {"listed", "returned"} <=> state[u] \in {"listed", "returned"}
    BY <2>1, <1>m
  <2>3. Listed(s_pending_join_managed_threads)' /\ \A p \in Process : Listed(join_list[p])'
    BY <1>u, <2>2 DEF Places, Listed
  <2> QED BY <1>u, <2>1, <2>2, <2>3 DEF Places, Process
<1>4. WrapperFreed'
  BY <1>u, <1>g, <1>m DEF WrapperFreed
<1>5. JoinerSaw'
  BY <1>u, <1>g, <1>m DEF JoinerSaw
<1> QED BY <1>1, <1>2, <1>3, <1>4, <1>5

\* A joiner that waits, sleeps or wakes disturbs nothing either.
LEMMA QuietJoiner ==
  ASSUME ManagedInv, UNCHANGED <<countVars, state, wrapper, done, result, before, join_list, config, event_loop>>,
         jpc' \in [Joiner -> {"idle", "waiting", "blocked", "late", "joining", "returned"}],
         \A j \in Joiner : jpc'[j] = jpc[j] \/ (jpc[j] # "joining" /\ jpc'[j] \notin {"joining", "returned"})
  PROVE  ManagedInv'
<1> USE DEF ManagedInv
<1>u. /\ UNCHANGED <<s_unjoined_thread_count, s_pending_join_managed_threads, Plain, state, wrapper,
                     done, result, before, join_list, event_loop>>
      /\ Managed' = Managed /\ Counted' = Counted
  BY DEF countVars, config, Managed, Counted
<1>1. ManagedType'
  BY <1>u DEF ManagedType
<1>2. CountExact'
  BY <1>u DEF CountExact
<1>3. Places'
  BY <1>u DEF Places, Listed
<1>4. WrapperFreed'
  BY <1>u DEF WrapperFreed
<1>5. JoinerSaw'
  BY <1>u DEF JoinerSaw
<1> QED BY <1>1, <1>2, <1>3, <1>4, <1>5

\* A launched thread is counted if it is managed.
LEMMA LaunchStep ==
  ASSUME ManagedInv, NEW t \in Thread, aws_thread_launch(t)
  PROVE  ManagedInv'
<1> USE DEF ManagedInv
<1>u. /\ UNCHANGED <<s_pending_join_managed_threads, Plain, jpc, done, result, before, join_list, event_loop>>
      /\ Managed' = Managed
  BY DEF aws_thread_launch, countVars, threadVars, joinerVars, config, Managed
<1>g. /\ state' \in [Thread -> {"new", "launching", "created", "once", "running", "exiting", "listed",
                                "returned", "joined", "failed"}]
      /\ state[t] = "new" /\ state'[t] = "launching"
      /\ \A u \in Thread : u # t => state'[u] = state[u]
      /\ IsFiniteSet(Counted') /\ Cardinality(Counted) \in Nat
      /\ Cardinality(Counted') = Cardinality(Counted) + (IF t \in Managed THEN 1 ELSE 0)
  BY <1>u, GoesMoves DEF aws_thread_launch
<1>m. Managed \subseteq Thread /\ \A j \in Joiner : before[j] \subseteq Managed
  BY DEF Managed, ManagedType
<1>w. wrapper' = [wrapper EXCEPT ![t] = "live"]
  BY DEF aws_thread_launch
<1>2. CountExact' /\ s_unjoined_thread_count' \in Nat
  BY <1>u, <1>g, FS_CardinalityType DEF CountExact, aws_thread_launch
<1>1. ManagedType'
  BY <1>u, <1>g, <1>w, <1>2 DEF ManagedType
<1>3. Places'
  BY <1>u, <1>g, <1>m DEF Places, Listed, Process
<1>4. WrapperFreed'
  BY <1>u, <1>g, <1>m, <1>w DEF WrapperFreed, ManagedType
<1>5. JoinerSaw'
  BY <1>u, <1>g, <1>m DEF JoinerSaw
<1> QED BY <1>1, <1>2, <1>3, <1>4, <1>5

\* A thread that cannot be created is no longer counted.
LEMMA CreateFailsStep ==
  ASSUME ManagedInv, NEW t \in Thread, Goes(t, "launching", "failed"),
         s_unjoined_thread_count' = s_unjoined_thread_count - (IF t \in Managed THEN 1 ELSE 0),
         UNCHANGED <<s_pending_join_managed_threads, wrapper, joinerVars, join_list, config, event_loop>>
  PROVE  ManagedInv'
<1> USE DEF ManagedInv
<1>u. /\ UNCHANGED <<s_pending_join_managed_threads, Plain, jpc, done, result, before, join_list, event_loop, wrapper>>
      /\ Managed' = Managed
  BY DEF Goes, countVars, threadVars, joinerVars, config, Managed
<1>g. /\ state' \in [Thread -> {"new", "launching", "created", "once", "running", "exiting", "listed",
                                "returned", "joined", "failed"}]
      /\ state[t] = "launching" /\ state'[t] = "failed"
      /\ \A u \in Thread : u # t => state'[u] = state[u]
      /\ IsFiniteSet(Counted') /\ Cardinality(Counted) \in Nat
      /\ Cardinality(Counted') = Cardinality(Counted) - (IF t \in Managed THEN 1 ELSE 0)
  BY <1>u, GoesMoves
<1>m. Managed \subseteq Thread /\ \A j \in Joiner : before[j] \subseteq Managed
  BY DEF Managed, ManagedType
<1>2. CountExact' /\ s_unjoined_thread_count' \in Nat
  BY <1>u, <1>g, FS_CardinalityType DEF CountExact
<1>1. ManagedType'
  BY <1>u, <1>g, <1>2 DEF ManagedType
<1>3. Places'
  BY <1>u, <1>g, <1>m DEF Places, Listed, Process
<1>4. WrapperFreed'
  BY <1>u, <1>g, <1>m DEF WrapperFreed
<1>5. JoinerSaw'
  BY <1>u, <1>g, <1>m DEF JoinerSaw
<1> QED BY <1>1, <1>2, <1>3, <1>4, <1>5

\* The finished thread takes over the one before it and is listed itself.
LEMMA PendingJoinAddStep ==
  ASSUME ManagedInv, NEW t \in Thread, aws_thread_pending_join_add(t)
  PROVE  ManagedInv'
<1> USE DEF ManagedInv
<1>u. /\ UNCHANGED <<s_unjoined_thread_count, Plain, wrapper, jpc, done, result, before, event_loop>>
      /\ Managed' = Managed
  BY DEF aws_thread_pending_join_add, countVars, threadVars, joinerVars, config, Managed
<1>g. /\ state' \in [Thread -> {"new", "launching", "created", "once", "running", "exiting", "listed",
                                "returned", "joined", "failed"}]
      /\ state[t] = "exiting" /\ state'[t] = "listed"
      /\ \A u \in Thread : u # t => state'[u] = state[u]
      /\ IsFiniteSet(Counted') /\ Cardinality(Counted) \in Nat
      /\ Cardinality(Counted') = Cardinality(Counted)
  BY <1>u, GoesMoves DEF aws_thread_pending_join_add
<1>m. Managed \subseteq Thread /\ \A j \in Joiner : before[j] \subseteq Managed
  BY DEF Managed, ManagedType
<1>l. /\ join_list[t] = <<>>
      /\ join_list'[t] = s_pending_join_managed_threads
      /\ \A p \in Process : p # t => join_list'[p] = join_list[p]
      /\ DOMAIN join_list' = Process /\ join_list' = [p \in Process |-> join_list'[p]]
      /\ s_pending_join_managed_threads' = <<t>>
      /\ t \in Managed /\ t \in Process /\ t \notin Joiner
  BY <1>g, ManagedThreadsAssumption DEF aws_thread_pending_join_add, Places, ManagedType, Process
<1>n. /\ s_pending_join_managed_threads # <<t>>
      /\ \A p \in Process : join_list[p] # <<t>>
  BY <1>g DEF Places, Listed
<1>2. CountExact' /\ s_unjoined_thread_count' \in Nat
  BY <1>u, <1>g, FS_CardinalityType DEF CountExact, aws_thread_pending_join_add
<1>1. ManagedType'
  BY <1>u, <1>g, <1>l, <1>2 DEF ManagedType
<1>3. Places'
  <2>1. Listed(s_pending_join_managed_threads)' /\ \A p \in Process : Listed(join_list[p])'
    <3>1. \A u \in Managed : u # t /\ state[u] \in {"listed", "returned"} => state'[u] \in {"listed", "returned"}
      BY <1>g, <1>m
    <3>2. Listed(s_pending_join_managed_threads)'
      BY <1>u, <1>g, <1>l DEF Listed
    <3>3. ASSUME NEW p \in Process, p # t PROVE Listed(join_list[p])'
      BY <1>u, <1>l, <1>n, <3>1, <3>3 DEF Places, Listed
    <3>4. Listed(join_list[t])'
      BY <1>u, <1>l, <1>n, <3>1 DEF Places, Listed
    <3> QED BY <3>2, <3>3, <3>4
  <2>2. \A u \in Managed : state'[u] \in {"listed", "returned"} =>
           s_pending_join_managed_threads' = <<u>> \/ \E p \in Process : join_list'[p] = <<u>>
    <3> SUFFICES ASSUME NEW u \in Managed, u # t, state'[u] \in {"listed", "returned"}
                 PROVE  \E p \in Process : join_list'[p] = <<u>>
      BY <1>l
    <3>1. CASE s_pending_join_managed_threads = <<u>>
      BY <1>l, <3>1
    <3>2. CASE \E p \in Process : join_list[p] = <<u>>
      <4>1. PICK p \in Process : join_list[p] = <<u>>
        BY <3>2
      <4>2. p # t
        BY <1>l, <4>1
      <4> QED BY <1>l, <4>1, <4>2
    <3> QED BY <1>g, <1>m, <3>1, <3>2 DEF Places
  <2>3. \A u \in Managed, p \in Process : join_list'[p] = <<u>> =>
           /\ s_pending_join_managed_threads' # <<u>>
           /\ p # u
           /\ \A q \in Process : join_list'[q] = <<u>> => q = p
    BY <1>u, <1>g, <1>m, <1>l, <1>n DEF Places
  <2>4. \A u \in Thread : join_list'[u] # <<>> => state'[u] = "listed"
    BY <1>u, <1>g, <1>l DEF Places, Process
  <2>5. \A j \in Joiner : join_list'[j] # <<>> => jpc'[j] = "joining"
    BY <1>u, <1>l DEF Places, Process
  <2> QED BY <1>u, <2>1, <2>2, <2>3, <2>4, <2>5 DEF Places, Process
<1>4. WrapperFreed'
  BY <1>u, <1>g, <1>m DEF WrapperFreed
<1>5. JoinerSaw'
  BY <1>u, <1>g, <1>m DEF JoinerSaw
<1> QED BY <1>1, <1>2, <1>3, <1>4, <1>5

\* A thread returns when it has joined the one before it.
LEMMA ThreadReturnsStep ==
  ASSUME ManagedInv, NEW t \in Thread, ThreadReturns(t), t \in Managed
  PROVE  ManagedInv'
<1> USE DEF ManagedInv
<1>u. /\ UNCHANGED <<s_unjoined_thread_count, s_pending_join_managed_threads, Plain, wrapper, jpc, done, result, before, join_list, event_loop>>
      /\ Managed' = Managed
  BY DEF ThreadReturns, countVars, threadVars, joinerVars, config, Managed
<1>g. /\ state' \in [Thread -> {"new", "launching", "created", "once", "running", "exiting", "listed",
                                "returned", "joined", "failed"}]
      /\ state[t] = "listed" /\ state'[t] = "returned"
      /\ \A u \in Thread : u # t => state'[u] = state[u]
      /\ IsFiniteSet(Counted') /\ Cardinality(Counted) \in Nat
      /\ Cardinality(Counted') = Cardinality(Counted)
  BY <1>u, GoesMoves DEF ThreadReturns, Managed
<1>m. Managed \subseteq Thread /\ \A j \in Joiner : before[j] \subseteq Managed
  BY DEF Managed, ManagedType
<1>l. join_list[t] = <<>>
  BY DEF ThreadReturns, Managed
<1>2. CountExact' /\ s_unjoined_thread_count' \in Nat
  BY <1>u, <1>g, FS_CardinalityType DEF CountExact, ThreadReturns
<1>1. ManagedType'
  BY <1>u, <1>g, <1>2 DEF ManagedType
<1>3. Places'
  BY <1>u, <1>g, <1>m, <1>l DEF Places, Listed, Process
<1>4. WrapperFreed'
  BY <1>u, <1>g, <1>m DEF WrapperFreed
<1>5. JoinerSaw'
  BY <1>u, <1>g, <1>m DEF JoinerSaw
<1> QED BY <1>1, <1>2, <1>3, <1>4, <1>5

\* A thread that is not managed concerns nobody.
LEMMA PlainStep ==
  ASSUME ManagedInv, NEW t \in Thread, NEW from, NEW to, Goes(t, from, to), t \in Plain, to \in {"returned", "joined"},
         from \in {"exiting", "returned"},
         UNCHANGED <<countVars, wrapper, joinerVars, join_list, config, event_loop>>
  PROVE  ManagedInv'
<1> USE DEF ManagedInv
<1>u. /\ UNCHANGED <<s_unjoined_thread_count, s_pending_join_managed_threads, Plain, wrapper, jpc, done, result, before, join_list, event_loop>>
      /\ Managed' = Managed
  BY DEF Goes, countVars, threadVars, joinerVars, config, Managed
<1>g. /\ state' \in [Thread -> {"new", "launching", "created", "once", "running", "exiting", "listed",
                                "returned", "joined", "failed"}]
      /\ state[t] = from /\ state'[t] = to
      /\ \A u \in Thread : u # t => state'[u] = state[u]
      /\ IsFiniteSet(Counted') /\ Cardinality(Counted) \in Nat
      /\ Cardinality(Counted') = Cardinality(Counted)
  BY <1>u, GoesMoves DEF Managed
<1>m. t \notin Managed /\ Managed \subseteq Thread /\ \A j \in Joiner : before[j] \subseteq Managed
  BY DEF Managed, ManagedType
<1>2. CountExact' /\ s_unjoined_thread_count' \in Nat
  BY <1>u, <1>g, FS_CardinalityType DEF CountExact
<1>1. ManagedType'
  BY <1>u, <1>g, <1>2 DEF ManagedType
<1>3. Places'
  BY <1>u, <1>g, <1>m DEF Places, Listed, Process
<1>4. WrapperFreed'
  BY <1>u, <1>g, <1>m DEF WrapperFreed
<1>5. JoinerSaw'
  BY <1>u, <1>g, <1>m DEF JoinerSaw
<1> QED BY <1>1, <1>2, <1>3, <1>4, <1>5

\* Whoever has a list joins the thread in it, once that has returned: it is counted no more.
LEMMA JoinStep ==
  ASSUME ManagedInv, NEW p \in Process, aws_thread_join_and_free_wrapper_list(p)
  PROVE  ManagedInv'
<1> USE DEF ManagedInv
<1>u. /\ UNCHANGED <<s_pending_join_managed_threads, Plain, jpc, done, result, before, event_loop>>
      /\ Managed' = Managed
  BY DEF aws_thread_join_and_free_wrapper_list, joinerVars, config, Managed
<1>m. Managed \subseteq Thread /\ \A j \in Joiner : before[j] \subseteq Managed
  BY DEF Managed, ManagedType
<1>t. PICK t \in Managed : join_list[p] = <<t>>
  BY DEF aws_thread_join_and_free_wrapper_list, Places, Listed
<1>h. Head(join_list[p]) = t /\ Tail(join_list[p]) = <<>>
  <2>1. <<t>> \in Seq(Managed) /\ Len(<<t>>) = 1 /\ <<t>>[1] = t
    OBVIOUS
  <2>2. Tail(<<t>>) \in Seq(Managed) /\ Len(Tail(<<t>>)) = 0
    BY <2>1, HeadTailProperties
  <2>3. Tail(<<t>>) = <<>>
    BY <2>2, EmptySeq
  <2> QED BY <1>t, <2>1, <2>3
<1>w. /\ Goes(t, "returned", "joined")
      /\ wrapper' = [wrapper EXCEPT ![t] = "freed"]
      /\ join_list' = [join_list EXCEPT ![p] = <<>>]
      /\ s_unjoined_thread_count' = s_unjoined_thread_count - 1
  BY <1>h DEF aws_thread_join_and_free_wrapper_list
<1>g. /\ state' \in [Thread -> {"new", "launching", "created", "once", "running", "exiting", "listed",
                                "returned", "joined", "failed"}]
      /\ state[t] = "returned" /\ state'[t] = "joined"
      /\ \A u \in Thread : u # t => state'[u] = state[u]
      /\ IsFiniteSet(Counted') /\ Cardinality(Counted) \in Nat
      /\ Cardinality(Counted') = Cardinality(Counted) - 1
  BY <1>u, <1>m, <1>w, GoesMoves
<1>l. /\ join_list'[p] = <<>>
      /\ \A q \in Process : q # p => join_list'[q] = join_list[q]
      /\ DOMAIN join_list' = Process /\ join_list' = [q \in Process |-> join_list'[q]]
  BY <1>w DEF ManagedType
<1>n. /\ s_pending_join_managed_threads # <<t>>
      /\ \A q \in Process : q # p => join_list[q] # <<t>>
  BY <1>t DEF Places
<1>2. CountExact' /\ s_unjoined_thread_count' \in Nat
  BY <1>u, <1>g, <1>w, FS_CardinalityType DEF CountExact
<1>1. ManagedType'
  BY <1>u, <1>g, <1>l, <1>w, <1>2 DEF ManagedType
<1>3. Places'
  <2>1. \A u \in Managed : u # t => state'[u] = state[u]
    BY <1>g, <1>m
  <2>2. Listed(s_pending_join_managed_threads)'
    BY <1>u, <1>n, <2>1 DEF Places, Listed
  <2>3. \A q \in Process : Listed(join_list[q])'
    <3>1. ASSUME NEW q \in Process, q # p PROVE Listed(join_list[q])'
      BY <1>u, <1>n, <1>l, <2>1, <3>1 DEF Places, Listed
    <3> QED BY <1>l, <3>1 DEF Listed
  <2>4. \A u \in Managed : state'[u] \in {"listed", "returned"} =>
           s_pending_join_managed_threads' = <<u>> \/ \E q \in Process : join_list'[q] = <<u>>
    <3> SUFFICES ASSUME NEW u \in Managed, u # t, state'[u] \in {"listed", "returned"},
                        s_pending_join_managed_threads # <<u>>
                 PROVE  \E q \in Process : join_list'[q] = <<u>>
      BY <1>u, <1>g
    <3>1. PICK q \in Process : join_list[q] = <<u>>
      BY <2>1 DEF Places
    <3>2. q # p
      BY <1>t, <3>1
    <3> QED BY <1>l, <3>1, <3>2
  <2>5. \A u \in Managed, q \in Process : join_list'[q] = <<u>> =>
           /\ s_pending_join_managed_threads' # <<u>>
           /\ q # u
           /\ \A r \in Process : join_list'[r] = <<u>> => r = q
    BY <1>u, <1>l DEF Places
  <2>6. \A u \in Thread : join_list'[u] # <<>> => state'[u] = "listed"
    BY <1>g, <1>l DEF Places, Process
  <2>7. \A j \in Joiner : join_list'[j] # <<>> => jpc'[j] = "joining"
    BY <1>u, <1>l DEF Places, Process
  <2> QED BY <1>u, <2>2, <2>3, <2>4, <2>5, <2>6, <2>7 DEF Places, Process
<1>4. WrapperFreed'
  BY <1>u, <1>g, <1>m, <1>w DEF WrapperFreed, ManagedType
<1>5. JoinerSaw'
  BY <1>u, <1>g, <1>m DEF JoinerSaw
<1> QED BY <1>1, <1>2, <1>3, <1>4, <1>5

\* Another user of the count comes or goes.
LEMMA EventLoopStep ==
  ASSUME ManagedInv, aws_thread_increment_unjoined_count \/ aws_thread_decrement_unjoined_count
  PROVE  ManagedInv'
<1> USE DEF ManagedInv, aws_thread_increment_unjoined_count, aws_thread_decrement_unjoined_count
<1>u. /\ UNCHANGED <<s_pending_join_managed_threads, Plain, state, wrapper, jpc, done, result, before,
                     join_list>>
      /\ Managed' = Managed /\ Counted' = Counted
  BY DEF threadVars, joinerVars, config, Managed, Counted
<1>2. CountExact' /\ s_unjoined_thread_count' \in Nat
  BY <1>u, FS_CardinalityType DEF CountExact
<1>1. ManagedType'
  BY <1>u, <1>2 DEF ManagedType
<1>3. Places'
  BY <1>u DEF Places, Listed
<1>4. WrapperFreed'
  BY <1>u DEF WrapperFreed
<1>5. JoinerSaw'
  BY <1>u DEF JoinerSaw
<1> QED BY <1>1, <1>2, <1>3, <1>4, <1>5

\* A call of join_all_managed begins.
LEMMA JoinAllBeginsStep ==
  ASSUME ManagedInv, NEW j \in Joiner, JoinAllBegins(j)
  PROVE  ManagedInv'
<1> USE DEF ManagedInv
<1>u. /\ UNCHANGED <<s_unjoined_thread_count, s_pending_join_managed_threads, Plain, state, wrapper,
                     done, result, join_list, event_loop>>
      /\ Managed' = Managed /\ Counted' = Counted
  BY DEF JoinAllBegins, countVars, threadVars, config, Managed, Counted
<1>j. /\ jpc' \in [Joiner -> {"idle", "waiting", "blocked", "late", "joining", "returned"}]
      /\ before' \in [Joiner -> SUBSET Managed]
      /\ jpc[j] = "idle" /\ jpc'[j] = "waiting" /\ \A t \in before'[j] : state[t] # "new"
      /\ \A k \in Joiner : k # j => jpc'[k] = jpc[k] /\ before'[k] = before[k]
  BY DEF JoinAllBegins, ManagedType
<1>1. ManagedType'
  BY <1>u, <1>j DEF ManagedType
<1>2. CountExact'
  BY <1>u DEF CountExact
<1>3. Places'
  BY <1>u, <1>j DEF Places, Listed
<1>4. WrapperFreed'
  BY <1>u DEF WrapperFreed
<1>5. JoinerSaw'
  BY <1>u, <1>j DEF JoinerSaw
<1> QED BY <1>1, <1>2, <1>3, <1>4, <1>5

\* The wait is over: the joiner takes the list, and is done when nothing is counted or
\* it is too late.
LEMMA JoinAllTakesListStep ==
  ASSUME ManagedInv, NEW j \in Joiner, NEW late \in BOOLEAN, JoinAllTakesList(j, late)
  PROVE  ManagedInv'
<1> USE DEF ManagedInv
<1>u. /\ UNCHANGED <<s_unjoined_thread_count, Plain, state, wrapper, before, event_loop>>
      /\ Managed' = Managed /\ Counted' = Counted
  BY DEF JoinAllTakesList, threadVars, config, Managed, Counted
<1>m. Managed \subseteq Thread /\ before[j] \subseteq Managed
  BY DEF Managed, ManagedType
<1>j. /\ jpc' \in [Joiner -> {"idle", "waiting", "blocked", "late", "joining", "returned"}]
      /\ result' \in [Joiner -> {"success", "error"}]
      /\ done' \in [Joiner -> BOOLEAN]
      /\ jpc[j] \in {"waiting", "late"} /\ jpc'[j] = "joining"
      /\ late => result'[j] = "error"
      /\ ~late /\ done'[j] => s_unjoined_thread_count = 0
      /\ \A k \in Joiner : k # j => jpc'[k] = jpc[k] /\ result'[k] = result[k] /\ done'[k] = done[k]
  BY DEF JoinAllTakesList, WaitIsOver, ManagedType
<1>l. /\ join_list[j] = <<>> /\ join_list'[j] = s_pending_join_managed_threads
      /\ s_pending_join_managed_threads' = <<>>
      /\ \A q \in Process : q # j => join_list'[q] = join_list[q]
      /\ DOMAIN join_list' = Process /\ join_list' = [q \in Process |-> join_list'[q]]
      /\ j \in Process /\ j \notin Thread
  BY <1>j, ManagedThreadsAssumption DEF JoinAllTakesList, ManagedType, Places, Process
<1>1. ManagedType'
  BY <1>u, <1>j, <1>l DEF ManagedType
<1>2. CountExact'
  BY <1>u DEF CountExact
<1>3. Places'
  <2>2. Listed(s_pending_join_managed_threads)'
    BY <1>l DEF Listed
  <2>3. \A q \in Process : Listed(join_list[q])'
    BY <1>u, <1>l DEF Places, Listed
  <2>4. \A u \in Managed : state'[u] \in {"listed", "returned"} =>
           s_pending_join_managed_threads' = <<u>> \/ \E q \in Process : join_list'[q] = <<u>>
    <3> SUFFICES ASSUME NEW u \in Managed, state[u] \in {"listed", "returned"},
                        s_pending_join_managed_threads # <<u>>
                 PROVE  \E q \in Process : join_list'[q] = <<u>>
      BY <1>u, <1>l
    <3>1. PICK q \in Process : join_list[q] = <<u>>
      BY DEF Places
    <3>2. q # j
      BY <1>l, <3>1
    <3> QED BY <1>l, <3>1, <3>2
  <2>5. \A u \in Managed, q \in Process : join_list'[q] = <<u>> =>
           /\ s_pending_join_managed_threads' # <<u>>
           /\ q # u
           /\ \A r \in Process : join_list'[r] = <<u>> => r = q
    <3> SUFFICES ASSUME NEW u \in Managed, NEW q \in Process, join_list'[q] = <<u>>
                 PROVE  q # u /\ \A r \in Process : join_list'[r] = <<u>> => r = q
      BY <1>l
    <3>1. CASE q = j
      BY <1>m, <1>l, <3>1 DEF Places
    <3>2. CASE q # j
      <4>1. join_list[q] = <<u>>
        BY <1>l, <3>2
      <4>2. q # u /\ s_pending_join_managed_threads # <<u>>
        BY <4>1 DEF Places
      <4>3. ASSUME NEW r \in Process, join_list'[r] = <<u>> PROVE r = q
        <5>1. r # j /\ join_list[r] = <<u>>
          BY <1>l, <4>2, <4>3
        <5> QED BY <4>1, <5>1 DEF Places
      <4> QED BY <4>2, <4>3
    <3> QED BY <3>1, <3>2
  <2>6. \A u \in Thread : join_list'[u] # <<>> => state'[u] = "listed"
    BY <1>u, <1>l DEF Places, Process
  <2>7. \A k \in Joiner : join_list'[k] # <<>> => jpc'[k] = "joining"
    BY <1>j, <1>l DEF Places, Process
  <2> QED BY <1>u, <2>2, <2>3, <2>4, <2>5, <2>6, <2>7 DEF Places, Process
<1>4. WrapperFreed'
  BY <1>u DEF WrapperFreed
<1>5. JoinerSaw'
  <2>1. ASSUME ~late, done'[j], NEW t \in before[j] PROVE state[t] \in {"joined", "failed"}
    <3>1. Cardinality(Counted) = 0
      BY <1>j, <2>1, FS_CardinalityType DEF CountExact
    <3>2. Counted = {}
      BY <3>1, FS_EmptySet DEF CountExact
    <3> QED BY <1>m, <3>2 DEF Counted, JoinerSaw
  <2> QED BY <1>u, <1>j, <2>1 DEF JoinerSaw
<1> QED BY <1>1, <1>2, <1>3, <1>4, <1>5

\* The loop of join_all_managed goes round, or ends.
LEMMA JoinAllLoopsStep ==
  ASSUME ManagedInv, NEW j \in Joiner, JoinAllLoops(j)
  PROVE  ManagedInv'
<1> USE DEF ManagedInv
<1>u. /\ UNCHANGED <<s_unjoined_thread_count, s_pending_join_managed_threads, Plain, state, wrapper,
                     done, result, before, join_list, event_loop>>
      /\ Managed' = Managed /\ Counted' = Counted
  BY DEF JoinAllLoops, countVars, threadVars, config, Managed, Counted
<1>j. /\ jpc' \in [Joiner -> {"idle", "waiting", "blocked", "late", "joining", "returned"}]
      /\ jpc[j] = "joining" /\ join_list[j] = <<>>
      /\ jpc'[j] = IF done[j] THEN "returned" ELSE "waiting"
      /\ \A k \in Joiner : k # j => jpc'[k] = jpc[k]
  BY DEF JoinAllLoops, ManagedType
<1>1. ManagedType'
  BY <1>u, <1>j DEF ManagedType
<1>2. CountExact'
  BY <1>u DEF CountExact
<1>3. Places'
  BY <1>u, <1>j DEF Places, Listed
<1>4. WrapperFreed'
  BY <1>u DEF WrapperFreed
<1>5. JoinerSaw'
  BY <1>u, <1>j DEF JoinerSaw
<1> QED BY <1>1, <1>2, <1>3, <1>4, <1>5

\* The invariant is inductive.
LEMMA ManagedStep == ManagedInv /\ [ManagedNext]_managedVars => ManagedInv'
<1> SUFFICES ASSUME ManagedInv, [ManagedNext]_managedVars PROVE ManagedInv'
  OBVIOUS
<1> USE DEF Process
<1>1. ASSUME NEW t \in Thread, aws_thread_launch(t) PROVE ManagedInv'
  BY <1>1, LaunchStep
<1>2. ASSUME NEW t \in Thread, PthreadCreate(t) PROVE ManagedInv'
  <2>1. CASE Goes(t, "launching", "created") /\ UNCHANGED <<s_unjoined_thread_count, owes>>
    BY <1>2, <2>1, QuietThread DEF PthreadCreate, countVars, ManagedInv, ManagedType
  <2>2. CASE /\ Goes(t, "launching", "failed")
             /\ IF t \in Managed
                THEN /\ s_unjoined_thread_count' = s_unjoined_thread_count - 1
                     /\ owes' = owes \cup {t}
                ELSE UNCHANGED <<s_unjoined_thread_count, owes>>
    <3>1. s_unjoined_thread_count' = s_unjoined_thread_count - (IF t \in Managed THEN 1 ELSE 0)
      BY <2>2 DEF ManagedInv, ManagedType
    <3> QED BY <1>2, <2>2, <3>1, CreateFailsStep DEF PthreadCreate
  <2> QED BY <1>2, <2>1, <2>2 DEF PthreadCreate
<1>3. ASSUME NEW t \in Thread, aws_thread_call_once(t) PROVE ManagedInv'
  <2>1. /\ UNCHANGED <<countVars, wrapper, joinerVars, join_list, config, event_loop>>
        /\ \/ Goes(t, "created", "once") \/ Goes(t, "once", "running") \/ Goes(t, "created", "running")
    BY <1>3 DEF aws_thread_call_once
  <2>2. wrapper' \in [Thread -> {"none", "live", "freed"}] /\ \A u \in Managed : wrapper'[u] = wrapper[u]
    BY <2>1 DEF ManagedInv, ManagedType
  <2> QED BY <2>1, <2>2, QuietThread
<1>4. ASSUME NEW t \in Thread, FunctionReturns(t) PROVE ManagedInv'
  <2>1. /\ UNCHANGED <<countVars, joinerVars, join_list, config, event_loop>>
        /\ Goes(t, "running", "exiting")
    BY <1>4 DEF FunctionReturns
  <2>2. wrapper' \in [Thread -> {"none", "live", "freed"}] /\ \A u \in Managed : wrapper'[u] = wrapper[u]
    BY <1>4 DEF FunctionReturns, ManagedInv, ManagedType, Managed
  <2> QED BY <2>1, <2>2, QuietThread
<1>5. ASSUME NEW t \in Thread, aws_thread_current_at_exit(t) \/ RunsAtExit(t) PROVE ManagedInv'
  <2>1. UNCHANGED <<countVars, state, wrapper, jpc, done, result, before, join_list, config, event_loop>>
    BY <1>5 DEF aws_thread_current_at_exit, RunsAtExit, joinerVars
  <2> QED BY <2>1, QuietJoiner DEF ManagedInv, ManagedType
<1>6. ASSUME NEW t \in Thread, aws_thread_pending_join_add(t) PROVE ManagedInv'
  BY <1>6, PendingJoinAddStep
<1>7. ASSUME NEW t \in Thread, ThreadReturns(t) PROVE ManagedInv'
  <2>1. CASE t \in Managed
    BY <1>7, <2>1, ThreadReturnsStep
  <2>2. CASE t \in Plain
    BY <1>7, <2>2, PlainStep DEF ThreadReturns, Managed
  <2> QED BY <2>1, <2>2 DEF Managed
<1>8. ASSUME NEW t \in Thread, aws_thread_join(t) PROVE ManagedInv'
  BY <1>8, PlainStep DEF aws_thread_join
<1>9. ASSUME NEW p \in Process, aws_thread_join_and_free_wrapper_list(p) PROVE ManagedInv'
  BY <1>9, JoinStep
<1>10. ASSUME NEW p, Notifies(p) PROVE ManagedInv'
  <2>1. UNCHANGED <<countVars, state, wrapper, done, result, before, join_list, config, event_loop>>
    BY <1>10 DEF Notifies, threadVars
  <2>2. /\ jpc' \in [Joiner -> {"idle", "waiting", "blocked", "late", "joining", "returned"}]
        /\ \A j \in Joiner : jpc'[j] = jpc[j] \/ (jpc[j] # "joining" /\ jpc'[j] \notin {"joining", "returned"})
    BY <1>10 DEF Notifies, ManagedInv, ManagedType
  <2> QED BY <2>1, <2>2, QuietJoiner
<1>11. CASE aws_thread_increment_unjoined_count \/ aws_thread_decrement_unjoined_count
  BY <1>11, EventLoopStep
<1>12. ASSUME NEW j \in Joiner, JoinAllBegins(j) PROVE ManagedInv'
  BY <1>12, JoinAllBeginsStep
<1>13. ASSUME NEW j \in Joiner, JoinerSleeps(j) \/ JoinerWakes(j) \/ WaitTimesOut(j) PROVE ManagedInv'
  <2>1. UNCHANGED <<countVars, state, wrapper, done, result, before, join_list, config, event_loop>>
    BY <1>13 DEF JoinerSleeps, JoinerWakes, WaitTimesOut, threadVars
  <2>2. /\ jpc' \in [Joiner -> {"idle", "waiting", "blocked", "late", "joining", "returned"}]
        /\ \A k \in Joiner : jpc'[k] = jpc[k] \/ (jpc[k] # "joining" /\ jpc'[k] \notin {"joining", "returned"})
    BY <1>13 DEF JoinerSleeps, JoinerWakes, WaitTimesOut, ManagedInv, ManagedType
  <2> QED BY <2>1, <2>2, QuietJoiner
<1>14. ASSUME NEW j \in Joiner, NEW late \in BOOLEAN, JoinAllTakesList(j, late) PROVE ManagedInv'
  BY <1>14, JoinAllTakesListStep
<1>15. ASSUME NEW j \in Joiner, JoinAllLoops(j) PROVE ManagedInv'
  BY <1>15, JoinAllLoopsStep
<1>16. CASE UNCHANGED managedVars
  <2>1. UNCHANGED <<countVars, state, wrapper, jpc, done, result, before, join_list, config, event_loop>>
    BY <1>16 DEF managedVars, threadVars, joinerVars
  <2> QED BY <2>1, QuietJoiner DEF ManagedInv, ManagedType
<1> QED
  BY <1>1, <1>2, <1>3, <1>4, <1>5, <1>6, <1>7, <1>8, <1>9, <1>10, <1>11, <1>12, <1>13, <1>14, <1>15, <1>16
  DEF ManagedNext, ThreadSteps, EitherSteps, JoinerSteps, EndsWait

\* Whatever the number of threads and of callers of aws_thread_join_all_managed, the count
\* of unjoined threads is exact, every finished thread is in one list, nobody joins itself,
\* and a join that succeeds has joined what was launched before it (thread_shared.c).
THEOREM ManagedJoinedOnceCorrect == ManagedSpec => []ManagedJoinedOnce
<1>1. ManagedInit => ManagedInv
  <2> SUFFICES ASSUME ManagedInit PROVE ManagedInv
    OBVIOUS
  <2> USE DEF ManagedInit
  <2>1. Counted = {} /\ event_loop # "in"
    BY DEF Counted, Managed
  <2>2. IsFiniteSet({}) /\ Cardinality({}) = 0
    BY FS_EmptySet
  <2>3. ManagedType
    BY DEF ManagedType, Process
  <2>4. Places /\ WrapperFreed /\ JoinerSaw
    BY DEF Places, Listed, WrapperFreed, JoinerSaw, Process, Managed
  <2> QED BY <2>1, <2>2, <2>3, <2>4 DEF ManagedInv, CountExact
<1>2. ManagedInv => ManagedJoinedOnce
  <2> SUFFICES ASSUME ManagedInv PROVE ManagedJoinedOnce
    OBVIOUS
  <2> USE DEF ManagedInv
  <2>d. DOMAIN join_list = Process
    BY DEF ManagedType
  <2>1. s_unjoined_thread_count =
           Cardinality({t \in Managed : state[t] \notin {"new", "failed", "joined"}})
           + (IF event_loop = "in" THEN 1 ELSE 0)
    BY DEF CountExact, Counted
  <2>2. Len(s_pending_join_managed_threads) <= 1 /\ \A p \in DOMAIN join_list : Len(join_list[p]) <= 1
    <3>1. Len(<<>>) <= 1 /\ \A t : Len(<<t>>) <= 1
      OBVIOUS
    <3>2. ASSUME NEW list, Listed(list) PROVE Len(list) <= 1
      BY <3>1, <3>2 DEF Listed
    <3> QED BY <2>d, <3>2 DEF Places
  <2>3. ASSUME NEW t \in Managed
        PROVE  LET holders == {p \in DOMAIN join_list : join_list[p] = <<t>>}
                   places == Cardinality(holders)
                             + (IF s_pending_join_managed_threads = <<t>> THEN 1 ELSE 0)
               IN  /\ places = IF state[t] \in {"listed", "returned"} THEN 1 ELSE 0
                   /\ t \notin holders
                   /\ wrapper[t] = "freed" <=> state[t] = "joined"
    <3> DEFINE holders == {p \in DOMAIN join_list : join_list[p] = <<t>>}
    <3>1. t \notin holders /\ (wrapper[t] = "freed" <=> state[t] = "joined")
      BY <2>d DEF Places, WrapperFreed
    <3>2. Cardinality({}) = 0 /\ \A p : Cardinality({p}) = 1
      BY FS_EmptySet, FS_Singleton
    <3>3. CASE \E p \in Process : join_list[p] = <<t>>
      <4>1. PICK p \in Process : join_list[p] = <<t>>
        BY <3>3
      <4>2. s_pending_join_managed_threads # <<t>> /\ holders = {p}
        BY <2>d, <4>1 DEF Places
      <4>3. state[t] \in {"listed", "returned"}
        BY <4>1 DEF Places, Listed
      <4>4. Cardinality(holders) = 1
        BY <3>2, <4>2
      <4> HIDE DEF holders
      <4>5. Cardinality(holders) + (IF s_pending_join_managed_threads = <<t>> THEN 1 ELSE 0)
              = IF state[t] \in {"listed", "returned"} THEN 1 ELSE 0
        BY <4>2, <4>3, <4>4
      <4> QED BY <3>1, <4>5 DEF holders
    <3>4. CASE ~\E p \in Process : join_list[p] = <<t>>
      <4>1. holders = {}
        BY <2>d, <3>4
      <4>2. s_pending_join_managed_threads = <<t>> <=> state[t] \in {"listed", "returned"}
        BY <3>4 DEF Places, Listed
      <4>4. Cardinality(holders) = 0
        BY <3>2, <4>1
      <4> HIDE DEF holders
      <4>5. Cardinality(holders) + (IF s_pending_join_managed_threads = <<t>> THEN 1 ELSE 0)
              = IF state[t] \in {"listed", "returned"} THEN 1 ELSE 0
        BY <4>2, <4>4
      <4> QED BY <3>1, <4>5 DEF holders
    <3> QED BY <3>3, <3>4
  <2>4. \A j \in Joiner : jpc[j] = "returned" /\ result[j] = "success" =>
               \A t \in before[j] : state[t] \in {"joined", "failed"}
    BY DEF JoinerSaw
  <2> QED BY <2>1, <2>2, <2>3, <2>4 DEF ManagedJoinedOnce
<1> QED BY <1>1, <1>2, ManagedStep, PTL DEF ManagedSpec

----------------------------------------------------------------------------
(* The traced allocator                                                    *)

\* Sizes of finitely many blocks.
IsSizes(f) == IsFiniteSet(DOMAIN f) /\ f \in [DOMAIN f -> Nat]

CallRecord == [at : {"idle", "add", "stack", "put", "untrack", "free", "forget"},
               ptr : Address \cup {0}, size : Nat, stack : Stack \cup {0}, old : Address \cup {0}]

TraceType ==
    /\ tracing \in {"none", "bytes", "stacks"}
    /\ clients \subseteq Tracer /\ (clients # Tracer => \E t \in Tracer : clients = {t})
    /\ IsSizes(memory) /\ DOMAIN memory \subseteq Address
    /\ allocs \in [DOMAIN allocs -> [size : Nat, stack : Stack \cup {0}]]
    /\ IsFiniteSet(DOMAIN allocs) /\ DOMAIN allocs \subseteq Address
    /\ call \in [Tracer -> CallRecord]

\* A call is about a block of its own, which lives, and knows its size; old is a block that is
\* gone (or the same one), and only a thread that is alone resizes.
CallExact(t) ==
    /\ call[t].at = "idle" => call[t] = NoCall
    /\ t \notin clients => call[t].at = "idle"
    /\ tracing = "none" => call[t].at \in {"idle", "free"}
    /\ call[t].at # "idle" => call[t].ptr \in DOMAIN memory
    /\ call[t].at \in {"add", "stack", "put", "forget"} => memory[call[t].ptr] = call[t].size
    /\ call[t].at = "forget" => /\ clients = {t}
                                /\ call[t].old \in DOMAIN allocs
                                /\ call[t].old = call[t].ptr \/ call[t].old \notin DOMAIN memory
    /\ call[t].at = "put" /\ tracing = "stacks" => call[t].stack \in stacks

CallsDistinct ==
    \A t, u \in Tracer : t # u /\ call[t].at # "idle" => call[t].ptr # call[u].ptr

CallsExact == (\A t \in Tracer : CallExact(t)) /\ CallsDistinct

\* Blocks that are live and not recorded, as a call is still, or already, busy with them.
Unrecorded(p) ==
    \E t \in Tracer : call[t].ptr = p /\ call[t].at \in {"add", "stack", "put", "free", "forget"}
Forgotten(p) == \E t \in Tracer : call[t].at = "forget" /\ call[t].old = p

RecordsExact ==
    /\ tracing = "none" => DOMAIN allocs = {}
    /\ tracing # "none" => \A p \in DOMAIN memory : p \in DOMAIN allocs \/ Unrecorded(p)
    /\ \A p \in DOMAIN allocs :
           \/ Forgotten(p)
           \/ p \in DOMAIN memory /\ ~Unrecorded(p) /\ allocs[p].size = memory[p]
    /\ tracing = "stacks" => \A p \in DOMAIN allocs : allocs[p].stack \in stacks

\* What the counter has counted: the records, and the blocks whose record is still to be put.
Pending(p) == \E t \in Tracer : call[t].ptr = p /\ call[t].at \in {"stack", "put"}
CountedBlocks == DOMAIN allocs \cup {p \in DOMAIN memory : Pending(p)}
CountedSizes == [p \in CountedBlocks |-> IF p \in DOMAIN allocs THEN allocs[p].size ELSE memory[p]]

CounterExact == IsSizes(CountedSizes) /\ allocated = Total(CountedSizes)

DumpExact ==
    /\ dumped.bytes \in Nat
    /\ dumped.by_stack # <<>> =>
           Total([s \in DOMAIN dumped.by_stack |-> dumped.by_stack[s].count]) = dumped.leaks
    /\ Total([s \in DOMAIN dumped.by_stack |-> dumped.by_stack[s].size]) <= dumped.bytes

TraceInv == TraceType /\ CallsExact /\ RecordsExact /\ CounterExact /\ DumpExact

----------------------------------------------------------------------------

\* The bytes of one block.
LEMMA BlockBytes ==
  ASSUME NEW p, NEW n \in Nat
  PROVE  IsFiniteSet({p} \X (1 .. n)) /\ Cardinality({p} \X (1 .. n)) = n
<1>1. IsFiniteSet({p}) /\ Cardinality({p}) = 1
  BY FS_Singleton
<1>2. IsFiniteSet(1 .. n) /\ Cardinality(1 .. n) = n
  BY FS_Interval
<1>3. /\ IsFiniteSet({p} \X (1 .. n))
      /\ Cardinality({p} \X (1 .. n)) = Cardinality({p}) * Cardinality(1 .. n)
  BY <1>1, <1>2, FS_Product
<1> QED BY <1>1, <1>2, <1>3

\* Finitely many blocks have finitely many bytes.
LEMMA BytesFinite ==
  ASSUME NEW f, IsSizes(f)
  PROVE  IsFiniteSet(BytesOf(f)) /\ Total(f) \in Nat
<1> DEFINE blocks == {{p} \X (1 .. f[p]) : p \in DOMAIN f}
           blockOf == [p \in DOMAIN f |-> {p} \X (1 .. f[p])]
<1>1. blockOf \in Surjection(DOMAIN f, blocks)
  BY DEF Surjection
<1>2. IsFiniteSet(blocks)
  BY <1>1, FS_Surjection DEF IsSizes
<1>3. \A b \in blocks : IsFiniteSet(b)
  <2>1. \A p \in DOMAIN f : f[p] \in Nat
    BY DEF IsSizes
  <2>2. \A p \in DOMAIN f : IsFiniteSet({p} \X (1 .. f[p]))
    BY <2>1, BlockBytes
  <2> QED BY <2>2
<1>4. IsFiniteSet(UNION blocks)
  BY <1>2, <1>3, FS_UNION
<1> QED BY <1>4, FS_CardinalityType DEF BytesOf, Total

\* No block, no bytes.
LEMMA TotalOfNothing ==
  ASSUME NEW f, DOMAIN f = {}
  PROVE  Total(f) = 0
<1>1. BytesOf(f) = {}
  BY DEF BytesOf
<1> QED BY <1>1, FS_EmptySet DEF Total

\* One more block.
LEMMA TotalWith ==
  ASSUME NEW f, IsSizes(f), NEW p, p \notin DOMAIN f, NEW n \in Nat
  PROVE  IsSizes(With(f, p, n)) /\ Total(With(f, p, n)) = Total(f) + n
<1>1. BytesOf(With(f, p, n)) = BytesOf(f) \cup ({p} \X (1 .. n))
  <2> DEFINE g == With(f, p, n)
  <2>1. DOMAIN g = DOMAIN f \cup {p} /\ g[p] = n /\ \A q \in DOMAIN f : g[q] = f[q]
    BY DEF With
  <2> HIDE DEF g
  <2>2. \A e : e \in BytesOf(g) <=> \E q \in DOMAIN f \cup {p} : e \in {q} \X (1 .. g[q])
    BY <2>1 DEF BytesOf
  <2>3. \A e : e \in BytesOf(f) <=> \E q \in DOMAIN f : e \in {q} \X (1 .. f[q])
    BY DEF BytesOf
  <2>4. \A e : e \in BytesOf(g) <=> e \in BytesOf(f) \cup ({p} \X (1 .. n))
    BY <2>1, <2>2, <2>3, Zenon
  <2> QED BY <2>4 DEF g
<1>2. BytesOf(f) \cap ({p} \X (1 .. n)) = {}
  BY DEF BytesOf
<1>3. Cardinality(BytesOf(With(f, p, n))) = Cardinality(BytesOf(f)) + n
  <2> DEFINE B == {p} \X (1 .. n)
  <2>1. IsFiniteSet(B) /\ Cardinality(B) = n
    BY BlockBytes
  <2>2. IsFiniteSet(BytesOf(f)) /\ Cardinality(BytesOf(f)) \in Nat
    BY BytesFinite DEF Total
  <2>3. Cardinality(BytesOf(f) \cap B) = 0
    BY <1>2, FS_EmptySet
  <2> HIDE DEF B
  <2>4. Cardinality(BytesOf(f) \cup B) = Cardinality(BytesOf(f)) + Cardinality(B) - Cardinality(BytesOf(f) \cap B)
    BY <2>1, <2>2, FS_Union
  <2>5. BytesOf(With(f, p, n)) = BytesOf(f) \cup B
    BY <1>1 DEF B
  <2> QED BY <2>1, <2>2, <2>3, <2>4, <2>5
<1>4. IsFiniteSet(DOMAIN f \cup {p})
  BY FS_AddElement DEF IsSizes
<1>5. DOMAIN With(f, p, n) = DOMAIN f \cup {p}
  BY DEF With
<1>6. With(f, p, n) \in [DOMAIN With(f, p, n) -> Nat]
  BY <1>5 DEF With, IsSizes
<1> QED BY <1>3, <1>4, <1>5, <1>6 DEF Total, IsSizes

\* One block less.
LEMMA TotalWithout ==
  ASSUME NEW f, IsSizes(f), NEW p \in DOMAIN f
  PROVE  IsSizes(Without(f, p)) /\ Total(Without(f, p)) = Total(f) - f[p]
<1> DEFINE g == Without(f, p)
<1>1. DOMAIN g = DOMAIN f \ {p}
  BY DEF Without, Restrict
<1>2. IsSizes(g)
  <2>1. IsFiniteSet(DOMAIN f \ {p})
    BY FS_RemoveElement DEF IsSizes
  <2> QED BY <1>1, <2>1 DEF IsSizes, Without, Restrict
<1>3. With(g, p, f[p]) = f
  BY <1>1 DEF With, Without, Restrict, IsSizes
<1>4. f[p] \in Nat /\ p \notin DOMAIN g
  BY <1>1 DEF IsSizes
<1>5. Total(With(g, p, f[p])) = Total(g) + f[p]
  BY <1>2, <1>4, TotalWith
<1>6. Total(g) \in Nat
  BY <1>2, BytesFinite
<1> QED BY <1>2, <1>3, <1>4, <1>5, <1>6

\* Fewer blocks, or smaller ones, are not more bytes.
LEMMA TotalPart ==
  ASSUME NEW f, IsSizes(f), NEW g, IsSizes(g), DOMAIN g \subseteq DOMAIN f,
         \A p \in DOMAIN g : g[p] <= f[p]
  PROVE  Total(g) <= Total(f)
<1>1. BytesOf(g) \subseteq BytesOf(f)
  BY DEF BytesOf, IsSizes
<1> QED BY <1>1, BytesFinite, FS_Subset DEF Total

\* Counting a finite set by the classes of a map counts each element once.
LEMMA TotalOfClasses ==
  ASSUME NEW S, IsFiniteSet(S), NEW Y, NEW class \in [S -> Y]
  PROVE  Total([y \in Y |-> Cardinality({x \in S : class[x] = y})]) = Cardinality(S)
<1> DEFINE of(y) == {x \in S : class[x] = y}
           counts == [y \in Y |-> Cardinality(of(y))]
           nth(y) == CHOOSE b : b \in Bijection(of(y), 1 .. Cardinality(of(y)))
           place == [x \in S |-> <<class[x], nth(class[x])[x]>>]
<1>1. ASSUME NEW y \in Y
      PROVE  Cardinality(of(y)) \in Nat /\ nth(y) \in Bijection(of(y), 1 .. Cardinality(of(y)))
  <2>1. IsFiniteSet(of(y))
    BY FS_Subset
  <2> HIDE DEF of
  <2>2. Cardinality(of(y)) \in Nat /\ ExistsBijection(1 .. Cardinality(of(y)), of(y))
    BY <2>1, FS_CardinalityType
  <2>3. ExistsBijection(of(y), 1 .. Cardinality(of(y)))
    BY <2>2, Fun_ExistsBijSymmetric
  <2>4. \E b : b \in Bijection(of(y), 1 .. Cardinality(of(y)))
    BY <2>3 DEF ExistsBijection
  <2> QED BY <2>2, <2>4
<1>2. \A e : e \in BytesOf(counts) <=> \E y \in Y : e \in {y} \X (1 .. Cardinality(of(y)))
  BY DEF BytesOf
<1> HIDE DEF counts
<1>3. ASSUME NEW x \in S
      PROVE  class[x] \in Y /\ x \in of(class[x])
             /\ nth(class[x])[x] \in 1 .. Cardinality(of(class[x]))
  <2>1. class[x] \in Y /\ x \in of(class[x])
    OBVIOUS
  <2> HIDE DEF of
  <2>2. nth(class[x]) \in Bijection(of(class[x]), 1 .. Cardinality(of(class[x])))
    BY <1>1, <2>1
  <2> HIDE DEF nth
  <2> QED BY <2>1, <2>2 DEF Bijection, Injection
<1>4. place \in [S -> BytesOf(counts)]
  <2>1. ASSUME NEW x \in S PROVE <<class[x], nth(class[x])[x]>> \in BytesOf(counts)
    <3> HIDE DEF nth, of
    <3>1. <<class[x], nth(class[x])[x]>> \in {class[x]} \X (1 .. Cardinality(of(class[x])))
      BY <1>3
    <3> QED BY <3>1, <1>2, <1>3
  <2> HIDE DEF nth
  <2> QED BY <2>1
<1>5. \A x, z \in S : place[x] = place[z] => x = z
  <2> SUFFICES ASSUME NEW x \in S, NEW z \in S, place[x] = place[z] PROVE x = z
    OBVIOUS
  <2>1. class[x] = class[z] /\ nth(class[x])[x] = nth(class[x])[z]
    <3> HIDE DEF nth
    <3>1. <<class[x], nth(class[x])[x]>> = <<class[z], nth(class[z])[z]>>
      OBVIOUS
    <3> QED BY <3>1
  <2>2. class[x] \in Y /\ x \in of(class[x]) /\ z \in of(class[x])
    BY <2>1, <1>3
  <2>3. nth(class[x]) \in Bijection(of(class[x]), 1 .. Cardinality(of(class[x])))
    BY <1>1, <2>2
  <2> HIDE DEF nth, of, place
  <2> QED BY <2>1, <2>2, <2>3 DEF Bijection, Injection, IsInjective
<1>6. ASSUME NEW e \in BytesOf(counts) PROVE \E x \in S : place[x] = e
  <2>1. PICK y \in Y : e \in {y} \X (1 .. Cardinality(of(y)))
    BY <1>2
  <2>2. PICK i \in 1 .. Cardinality(of(y)) : e = <<y, i>>
    <3> HIDE DEF of
    <3> QED BY <2>1
  <2>3. PICK x \in of(y) : nth(y)[x] = i
    <3>1. nth(y) \in Bijection(of(y), 1 .. Cardinality(of(y)))
      BY <1>1
    <3> HIDE DEF nth, of
    <3> QED BY <3>1, <2>2 DEF Bijection, Surjection
  <2>4. x \in S /\ class[x] = y
    BY <2>3
  <2>5. place[x] = <<y, i>>
    BY <2>3, <2>4
  <2> QED BY <2>2, <2>4, <2>5
<1>7. place \in Bijection(S, BytesOf(counts))
  <2> HIDE DEF place
  <2> QED BY <1>4, <1>5, <1>6 DEF Bijection, Injection, Surjection, IsInjective
<1>8. Cardinality(BytesOf(counts)) = Cardinality(S)
  BY <1>7, FS_Bijection DEF ExistsBijection
<1> QED BY <1>8 DEF Total, counts

\* Before the first call.
LEMMA TraceInitial == s_alloc_tracer_init => TraceInv
<1> SUFFICES ASSUME s_alloc_tracer_init PROVE TraceInv
  OBVIOUS
<1> USE DEF s_alloc_tracer_init
<1>1. DOMAIN memory = {} /\ DOMAIN allocs = {} /\ IsSizes(memory)
  BY FS_EmptySet DEF IsSizes
<1>2. (CHOOSE t \in Tracer : TRUE) \in Tracer
  BY TraceAssumption
<1>3. \A t \in Tracer : call[t] = NoCall
  OBVIOUS
<1>4. TraceType
  <2>1. NoCall \in CallRecord
    BY DEF NoCall, CallRecord
  <2>2. call \in [Tracer -> CallRecord]
    BY <2>1
  <2>3. clients \subseteq Tracer /\ (clients # Tracer => \E t \in Tracer : clients = {t})
    BY <1>2
  <2>4. allocs \in [DOMAIN allocs -> [size : Nat, stack : Stack \cup {0}]]
    BY <1>1
  <2> QED BY <1>1, <2>2, <2>3, <2>4, FS_EmptySet DEF TraceType
<1>5. CallsExact
  BY <1>3 DEF CallsExact, CallsDistinct, CallExact, NoCall
<1>6. RecordsExact
  BY <1>1 DEF RecordsExact
<1>7. CounterExact
  <2>1. DOMAIN CountedSizes = {}
    BY <1>1 DEF CountedSizes, CountedBlocks
  <2>2. IsSizes(CountedSizes)
    BY <2>1, FS_EmptySet DEF IsSizes, CountedSizes
  <2>3. Total(CountedSizes) = 0
    BY <2>1, TotalOfNothing
  <2> QED BY <2>2, <2>3 DEF CounterExact
<1>8. DumpExact
  <2>1. BytesOf([s \in DOMAIN dumped.by_stack |-> dumped.by_stack[s].size]) = {}
    BY DEF BytesOf
  <2> QED BY <2>1, FS_EmptySet DEF DumpExact, Total
<1> QED BY <1>4, <1>5, <1>6, <1>7, <1>8 DEF TraceInv

\* What a client's step may rely on: who resizes is alone.
LEMMA CallFacts ==
  ASSUME TraceInv, NEW t \in clients
  PROVE  /\ TraceType /\ CallsExact /\ RecordsExact /\ CounterExact /\ DumpExact
         /\ t \in Tracer
         /\ CallExact(t) /\ call[t] \in CallRecord
         /\ \A u \in Tracer : call[u].at = "forget" => u = t
         /\ \A u \in Tracer : call[u].at = "idle" => call[u].ptr = 0
         /\ \A u \in Tracer : call[u].at # "idle" => call[u].ptr # 0
         /\ 0 \notin DOMAIN memory /\ 0 \notin DOMAIN allocs
<1>1. TraceType /\ CallsExact /\ RecordsExact /\ CounterExact /\ DumpExact /\ t \in Tracer
  BY DEF TraceInv, TraceType
<1>2. \A u \in Tracer : call[u].at = "forget" => u = t
  BY <1>1 DEF CallsExact, CallExact
<1>3. \A u \in Tracer : call[u].at = "idle" => call[u].ptr = 0
  BY <1>1 DEF CallsExact, CallExact, NoCall
<1>4. 0 \notin DOMAIN memory /\ 0 \notin DOMAIN allocs
  BY <1>1, TraceAssumption DEF TraceType
<1>5. \A u \in Tracer : call[u].at # "idle" => call[u].ptr # 0
  BY <1>1, <1>4 DEF CallsExact, CallExact
<1> QED BY <1>1, <1>2, <1>3, <1>4, <1>5 DEF CallsExact, TraceType

\* Calls stay about different blocks when one of them goes on, ends, or is about a block
\* that is nobody else's.
LEMMA DistinctKept ==
  ASSUME TraceInv, NEW t \in clients,
         \A u \in Tracer \ {t} : call'[u] = call[u],
         call'[t].at = "idle" => call'[t].ptr = 0,
         call'[t].at # "idle" => \A u \in Tracer \ {t} : call[u].ptr # call'[t].ptr
  PROVE  CallsDistinct'
<1> SUFFICES ASSUME NEW u \in Tracer, NEW v \in Tracer, u # v, call'[u].at # "idle"
             PROVE  call'[u].ptr # call'[v].ptr
  BY DEF CallsDistinct
<1>1. CASE u = t
  BY <1>1
<1>2. CASE v = t
  <2>1. call'[u] = call[u] /\ call[u].ptr # 0
    BY <1>2, CallFacts
  <2> QED BY <1>2, <2>1
<1>3. CASE u # t /\ v # t
  BY <1>3, CallFacts DEF CallsExact, CallsDistinct
<1> QED BY <1>1, <1>2, <1>3

\* What a new block was asked for is its size until the record is put; the block is not
\* recorded and nobody else's.
LEMMA AcquireKeeps ==
  ASSUME TraceInv, NEW t \in clients, NEW ptr \in Address, NEW size \in Size,
         s_trace_mem_acquire(t, ptr, size)
  PROVE  TraceInv'
<1> USE DEF s_trace_mem_acquire
<1>t. /\ TraceType /\ CallsExact /\ RecordsExact /\ CounterExact /\ DumpExact
      /\ t \in Tracer /\ size \in Nat
      /\ call[t].at = "idle" /\ ptr # 0
  BY CallFacts, TraceAssumption
<1>m. /\ DOMAIN memory' = DOMAIN memory \cup {ptr} /\ memory'[ptr] = size
      /\ \A p \in DOMAIN memory : memory'[p] = memory[p]
  BY DEF With
<1>d. PICK c \in CallRecord : /\ call' = [call EXCEPT ![t] = c]
                              /\ \/ tracing = "none" /\ c = NoCall
                                 \/ tracing # "none" /\ c.at = "add" /\ c.ptr = ptr /\ c.size = size
  <2>1. NoCall \in CallRecord
    BY DEF NoCall, CallRecord
  <2>2. [NoCall EXCEPT !.at = "add", !.ptr = ptr, !.size = size] \in CallRecord
    BY <1>t DEF NoCall, CallRecord
  <2> QED BY <2>1, <2>2 DEF CallRecord
<1>e. call'[t] = c /\ \A u \in Tracer \ {t} : call'[u] = call[u]
  BY <1>d, <1>t DEF TraceType
<1>n. \A w \in Tracer : call[w].ptr # ptr
  BY <1>t, CallFacts DEF CallsExact, CallExact
<1>1. TraceType'
  <2>1. IsSizes(With(memory, ptr, size))
    BY TotalWith, <1>t DEF TraceType
  <2>2. IsSizes(memory)'
    BY <2>1
  <2> QED BY <2>2, <1>m, <1>d, <1>t DEF TraceType
<1>2. CallsExact'
  <2>1. ASSUME NEW u \in Tracer PROVE CallExact(u)'
    <3>1. CASE u = t
      BY <3>1, <1>t, <1>m, <1>d, <1>e DEF CallExact, TraceType, NoCall
    <3>2. CASE u # t
      BY <3>2, <1>t, <1>m, <1>e DEF CallsExact, CallExact
    <3> QED BY <3>1, <3>2
  <2>2. (call'[t].at = "idle" => call'[t].ptr = 0) /\ (call'[t].at # "idle" => call'[t].ptr = ptr)
    BY <1>d, <1>e DEF NoCall
  <2>3. CallsDistinct'
    BY <2>2, <1>e, <1>n, DistinctKept
  <2> QED BY <2>1, <2>3 DEF CallsExact
<1>3. RecordsExact'
  <2>1. ASSUME NEW p PROVE Forgotten(p)' <=> Forgotten(p)
    BY <1>e, <1>d, <1>t DEF Forgotten, NoCall
  <2>2. ASSUME NEW p \in DOMAIN memory PROVE Unrecorded(p)' <=> Unrecorded(p)
    BY <1>e, <1>d, <1>t DEF Unrecorded, NoCall
  <2>3. tracing # "none" => Unrecorded(ptr)'
    BY <1>e, <1>d, <1>t DEF Unrecorded
  <2> QED BY <2>1, <2>2, <2>3, <1>m, <1>t DEF RecordsExact, TraceType
<1>4. CounterExact'
  <2>1. CountedBlocks' = CountedBlocks
    <3>1. ASSUME NEW p PROVE Pending(p)' <=> Pending(p)
      BY <1>e, <1>d, <1>t DEF Pending, NoCall
    <3>2. ~Pending(ptr)
      BY <1>n DEF Pending
    <3> QED BY <3>1, <3>2, <1>m DEF CountedBlocks
  <2>2. CountedSizes' = CountedSizes
    BY <2>1, <1>m DEF CountedSizes, CountedBlocks
  <2> QED BY <2>2, <1>t DEF CounterExact
<1>5. DumpExact'
  BY <1>t DEF DumpExact
<1> QED BY <1>1, <1>2, <1>3, <1>4, <1>5 DEF TraceInv

\* A block that is released stays recorded until it is untracked.
LEMMA ReleaseKeeps ==
  ASSUME TraceInv, NEW t \in clients, NEW ptr \in Address, s_trace_mem_release(t, ptr)
  PROVE  TraceInv'
<1> USE DEF s_trace_mem_release
<1>t. /\ TraceType /\ CallsExact /\ RecordsExact /\ CounterExact /\ DumpExact
      /\ t \in Tracer /\ call[t].at = "idle"
      /\ ptr \in DOMAIN memory /\ \A w \in Tracer : call[w].ptr # ptr
  BY CallFacts DEF Settled
<1>d. PICK c \in CallRecord : /\ call' = [call EXCEPT ![t] = c]
                              /\ c.at = (IF tracing = "none" THEN "free" ELSE "untrack")
                              /\ c.ptr = ptr
  <2>1. [NoCall EXCEPT !.ptr = ptr, !.at = IF tracing = "none" THEN "free" ELSE "untrack"] \in CallRecord
    BY <1>t DEF NoCall, CallRecord
  <2> QED BY <2>1 DEF CallRecord, NoCall
<1>e. call'[t] = c /\ \A u \in Tracer \ {t} : call'[u] = call[u]
  BY <1>d, <1>t DEF TraceType
<1>1. TraceType'
  BY <1>d, <1>t DEF TraceType
<1>2. CallsExact'
  <2>1. ASSUME NEW u \in Tracer PROVE CallExact(u)'
    <3>1. CASE u = t
      BY <3>1, <1>t, <1>d, <1>e DEF CallExact
    <3>2. CASE u # t
      BY <3>2, <1>t, <1>e DEF CallsExact, CallExact
    <3> QED BY <3>1, <3>2
  <2>3. CallsDistinct'
    BY <1>d, <1>e, <1>t, DistinctKept
  <2> QED BY <2>1, <2>3 DEF CallsExact
<1>3. RecordsExact'
  <2>1. ASSUME NEW p PROVE Forgotten(p)' <=> Forgotten(p)
    BY <1>e, <1>d, <1>t DEF Forgotten
  <2>2. ASSUME NEW p PROVE Unrecorded(p)' <=> Unrecorded(p) \/ (p = ptr /\ tracing = "none")
    BY <1>e, <1>d, <1>t DEF Unrecorded
  <2> QED BY <2>1, <2>2, <1>t DEF RecordsExact
<1>4. CounterExact'
  <2>1. ASSUME NEW p PROVE Pending(p)' <=> Pending(p)
    BY <1>e, <1>d, <1>t DEF Pending
  <2>2. CountedSizes' = CountedSizes
    BY <2>1 DEF CountedSizes, CountedBlocks
  <2> QED BY <2>2, <1>t DEF CounterExact
<1>5. DumpExact'
  BY <1>t DEF DumpExact
<1> QED BY <1>1, <1>2, <1>3, <1>4, <1>5 DEF TraceInv

\* The block given back is not recorded, and no other call is about it.
LEMMA FreesKeeps ==
  ASSUME TraceInv, NEW t \in clients, Frees(t)
  PROVE  TraceInv'
<1> USE DEF Frees, Returns
<1> DEFINE ptr == call[t].ptr
<1>t. /\ TraceType /\ CallsExact /\ RecordsExact /\ CounterExact /\ DumpExact
      /\ t \in Tracer /\ call[t].at = "free" /\ ptr \in DOMAIN memory
      /\ \A w \in Tracer \ {t} : call[w].ptr # ptr
      /\ \A w \in Tracer : call[w].at # "forget"
  BY CallFacts DEF CallsExact, CallsDistinct, CallExact
<1>m. /\ DOMAIN memory' = DOMAIN memory \ {ptr}
      /\ \A p \in DOMAIN memory \ {ptr} : memory'[p] = memory[p]
  BY DEF Without, Restrict
<1>e. call'[t] = NoCall /\ \A u \in Tracer \ {t} : call'[u] = call[u]
  BY <1>t DEF TraceType
<1>f. ptr \notin DOMAIN allocs
  BY <1>t DEF RecordsExact, Unrecorded, Forgotten
<1>1. TraceType'
  <2>1. IsSizes(Without(memory, ptr))
    BY TotalWithout, <1>t DEF TraceType
  <2>2. IsSizes(memory)'
    BY <2>1
  <2>3. NoCall \in CallRecord
    BY DEF NoCall, CallRecord
  <2> QED BY <2>2, <2>3, <1>m, <1>t DEF TraceType
<1>2. CallsExact'
  <2>1. ASSUME NEW u \in Tracer PROVE CallExact(u)'
    <3>1. CASE u = t
      BY <3>1, <1>t, <1>e DEF CallExact, NoCall
    <3>2. CASE u # t
      <4>1. CallExact(u) /\ call'[u] = call[u] /\ call[u].ptr # ptr /\ call[u].at # "forget"
        BY <3>2, <1>t, <1>e DEF CallsExact
      <4> QED BY <4>1, <1>m DEF CallExact
    <3> QED BY <3>1, <3>2
  <2>3. CallsDistinct'
    BY <1>e, <1>t, DistinctKept DEF NoCall
  <2> QED BY <2>1, <2>3 DEF CallsExact
<1>3. RecordsExact'
  <2>1. ASSUME NEW p PROVE ~Forgotten(p)' /\ ~Forgotten(p)
    BY <1>e, <1>t DEF Forgotten, NoCall
  <2>2. ASSUME NEW p, p # ptr PROVE Unrecorded(p)' <=> Unrecorded(p)
    BY <2>2, <1>e, <1>t DEF Unrecorded, NoCall
  <2> QED BY <2>1, <2>2, <1>t, <1>m, <1>f DEF RecordsExact
<1>4. CounterExact'
  <2>1. ASSUME NEW p PROVE Pending(p)' <=> Pending(p)
    BY <1>e, <1>t DEF Pending, NoCall
  <2>2. ~Pending(ptr)
    BY <1>t DEF Pending
  <2>3. CountedBlocks' = CountedBlocks
    BY <2>1, <2>2, <1>m DEF CountedBlocks
  <2>4. ptr \notin CountedBlocks
    BY <2>2, <1>f DEF CountedBlocks
  <2>5. CountedSizes' = CountedSizes
    BY <2>3, <2>4, <1>m DEF CountedSizes, CountedBlocks
  <2> QED BY <2>5, <1>t DEF CounterExact
<1>5. DumpExact'
  BY <1>t DEF DumpExact
<1> QED BY <1>1, <1>2, <1>3, <1>4, <1>5 DEF TraceInv

\* A thread that is alone resizes a block: the record of the old one is the only one that
\* does not match a block.
LEMMA ReallocKeeps ==
  ASSUME TraceInv, ~RacyRealloc, NEW t \in clients,
         NEW old_ptr \in Address, NEW new_ptr \in Address, NEW new_size \in Size,
         s_trace_mem_realloc(t, old_ptr, new_ptr, new_size)
  PROVE  TraceInv'
<1> USE DEF s_trace_mem_realloc
<1>t. /\ TraceType /\ CallsExact /\ RecordsExact /\ CounterExact /\ DumpExact
      /\ t \in Tracer /\ new_size \in Nat /\ old_ptr \in DOMAIN memory
      /\ new_ptr = old_ptr \/ new_ptr \notin DOMAIN memory
  BY CallFacts, TraceAssumption DEF Settled
<1>s. clients = {t} /\ \A u \in Tracer : call[u].at = "idle" /\ call[u].ptr = 0
  <2>1. clients = {t}
    BY <1>t DEF MayRealloc, TraceType
  <2>2. \A u \in Tracer : call[u].at = "idle"
    BY <2>1, <1>t DEF CallsExact, CallExact
  <2> QED BY <2>1, <2>2, CallFacts
<1>r. /\ \A p : ~Unrecorded(p) /\ ~Forgotten(p) /\ ~Pending(p)
      /\ tracing # "none" => DOMAIN allocs = DOMAIN memory
      /\ \A p \in DOMAIN allocs : p \in DOMAIN memory /\ allocs[p].size = memory[p]
  <2>1. \A p : ~Unrecorded(p) /\ ~Forgotten(p) /\ ~Pending(p)
    BY <1>s DEF Unrecorded, Forgotten, Pending
  <2> QED BY <2>1, <1>t DEF RecordsExact
<1>m. /\ DOMAIN memory' = (DOMAIN memory \ {old_ptr}) \cup {new_ptr} /\ memory'[new_ptr] = new_size
      /\ \A p \in DOMAIN memory \ {old_ptr} : memory'[p] = memory[p]
  BY <1>t DEF With, Without, Restrict
<1>d. PICK c \in CallRecord : /\ call' = [call EXCEPT ![t] = c]
                              /\ \/ tracing = "none" /\ c = NoCall
                                 \/ /\ tracing # "none" /\ c.at = "forget" /\ c.ptr = new_ptr
                                    /\ c.size = new_size /\ c.old = old_ptr
  <2>1. NoCall \in CallRecord
    BY DEF NoCall, CallRecord
  <2>2. [NoCall EXCEPT !.at = "forget", !.ptr = new_ptr, !.size = new_size, !.old = old_ptr] \in CallRecord
    BY <1>t DEF NoCall, CallRecord
  <2> QED BY <2>1, <2>2 DEF CallRecord
<1>e. call'[t] = c /\ \A u \in Tracer \ {t} : call'[u] = call[u]
  BY <1>d, <1>t DEF TraceType
<1>1. TraceType'
  <2>1. IsSizes(Without(memory, old_ptr)) /\ DOMAIN Without(memory, old_ptr) = DOMAIN memory \ {old_ptr}
    BY TotalWithout, <1>t DEF TraceType, Without, Restrict
  <2>2. IsSizes(With(Without(memory, old_ptr), new_ptr, new_size))
    BY <2>1, <1>t, TotalWith
  <2>3. IsSizes(memory)'
    BY <2>2
  <2> QED BY <2>3, <1>m, <1>d, <1>t DEF TraceType
<1>2. CallsExact'
  <2>1. ASSUME NEW u \in Tracer PROVE CallExact(u)'
    <3>1. CASE u = t
      BY <3>1, <1>t, <1>m, <1>d, <1>e, <1>s, <1>r DEF CallExact, NoCall
    <3>2. CASE u # t
      <4>1. CallExact(u) /\ call'[u] = call[u] /\ call[u].at = "idle"
        BY <3>2, <1>t, <1>e, <1>s DEF CallsExact
      <4> QED BY <4>1, <3>2 DEF CallExact
    <3> QED BY <3>1, <3>2
  <2>2. (call'[t].at = "idle" => call'[t].ptr = 0) /\ (call'[t].at # "idle" => call'[t].ptr # 0)
    BY <1>d, <1>e, TraceAssumption DEF NoCall
  <2>3. CallsDistinct'
    BY <2>2, <1>e, <1>s, DistinctKept
  <2> QED BY <2>1, <2>3 DEF CallsExact
<1>3. RecordsExact'
  <2>1. tracing # "none" => Forgotten(old_ptr)' /\ Unrecorded(new_ptr)'
    BY <1>e, <1>d, <1>t DEF Forgotten, Unrecorded
  <2>2. ASSUME NEW p, p # new_ptr PROVE ~Unrecorded(p)'
    BY <2>2, <1>e, <1>d, <1>s DEF Unrecorded, NoCall
  <2> QED BY <2>1, <2>2, <1>t, <1>m, <1>r DEF RecordsExact
<1>4. CounterExact'
  <2>1. ASSUME NEW p PROVE ~Pending(p)'
    BY <1>e, <1>d, <1>s DEF Pending, NoCall
  <2>2. CountedBlocks' = DOMAIN allocs /\ CountedBlocks = DOMAIN allocs
    BY <2>1, <1>r DEF CountedBlocks
  <2>3. CountedSizes' = CountedSizes
    BY <2>2 DEF CountedSizes
  <2> QED BY <2>3, <1>t DEF CounterExact
<1>5. DumpExact'
  BY <1>t DEF DumpExact
<1> QED BY <1>1, <1>2, <1>3, <1>4, <1>5 DEF TraceInv

\* A block is taken off the counter with its record.
LEMMA UntracksExact ==
  ASSUME TraceInv, NEW t \in clients, NEW ptr, Untracks(ptr), ~Pending(ptr),
         \A p : Pending(p)' <=> Pending(p), UNCHANGED memory
  PROVE  /\ CounterExact'
         /\ DOMAIN allocs' = DOMAIN allocs \ {ptr} /\ IsFiniteSet(DOMAIN allocs')
         /\ \A p \in DOMAIN allocs \ {ptr} : allocs'[p] = allocs[p]
         /\ allocs' \in [DOMAIN allocs' -> [size : Nat, stack : Stack \cup {0}]]
<1>t. TraceType /\ CounterExact
  BY CallFacts
<1>1. CASE ptr \in DOMAIN allocs
  <2>1. allocated' = allocated - allocs[ptr].size /\ allocs' = Without(allocs, ptr)
    BY <1>1 DEF Untracks
  <2>2. DOMAIN allocs' = DOMAIN allocs \ {ptr} /\ \A p \in DOMAIN allocs \ {ptr} : allocs'[p] = allocs[p]
    BY <2>1 DEF Without, Restrict
  <2>3. IsFiniteSet(DOMAIN allocs')
    BY <2>2, <1>t, FS_RemoveElement DEF TraceType
  <2>4. allocs' \in [DOMAIN allocs' -> [size : Nat, stack : Stack \cup {0}]]
    BY <2>1, <2>2, <1>t DEF TraceType, Without, Restrict
  <2>5. CountedBlocks' = CountedBlocks \ {ptr} /\ ptr \in CountedBlocks /\ CountedSizes[ptr] = allocs[ptr].size
    BY <2>2, <1>1 DEF CountedBlocks, CountedSizes
  <2>6. CountedSizes' = Without(CountedSizes, ptr)
    <3>1. DOMAIN CountedSizes = CountedBlocks
      BY DEF CountedSizes
    <3>2. CountedSizes' = [p \in CountedBlocks \ {ptr} |-> IF p \in DOMAIN allocs \ {ptr} THEN allocs[p].size ELSE memory[p]]
      BY <2>2, <2>5 DEF CountedSizes
    <3> QED BY <3>1, <3>2 DEF CountedSizes, Without, Restrict
  <2>7. IsSizes(Without(CountedSizes, ptr)) /\ Total(Without(CountedSizes, ptr)) = Total(CountedSizes) - CountedSizes[ptr]
    <3>1. ptr \in DOMAIN CountedSizes
      BY <2>5 DEF CountedSizes
    <3> QED BY <3>1, <1>t, TotalWithout DEF CounterExact
  <2>8. CounterExact'
    BY <2>1, <2>5, <2>6, <2>7, <1>t DEF CounterExact
  <2> QED BY <2>2, <2>3, <2>4, <2>8
<1>2. CASE ptr \notin DOMAIN allocs
  <2>1. UNCHANGED <<allocated, allocs>>
    BY <1>2 DEF Untracks
  <2>2. CountedSizes' = CountedSizes
    BY <2>1 DEF CountedSizes, CountedBlocks
  <2> QED BY <1>2, <2>1, <2>2, <1>t DEF CounterExact, TraceType
<1> QED BY <1>1, <1>2

\* After it a release has nothing left but to free, and a resize to record.
LEMMA UntrackKeeps ==
  ASSUME TraceInv, NEW t \in clients, s_alloc_tracer_untrack(t)
  PROVE  TraceInv'
<1> USE DEF s_alloc_tracer_untrack, CallGoes
<1> DEFINE ptr == call[t].ptr
<1>t. /\ TraceType /\ CallsExact /\ RecordsExact /\ CounterExact /\ DumpExact
      /\ t \in Tracer /\ call[t] \in CallRecord /\ CallExact(t)
      /\ ptr \in DOMAIN memory
      /\ \A w \in Tracer \ {t} : call[w].ptr # ptr
      /\ \A w \in Tracer \ {t} : call[w].at # "forget"
  BY CallFacts DEF CallsExact, CallsDistinct, CallExact
<1>d. PICK gone : /\ Untracks(gone)
                  /\ \/ /\ call[t].at = "untrack" /\ gone = ptr
                        /\ call' = [call EXCEPT ![t].at = "free"]
                     \/ /\ call[t].at = "forget" /\ gone = call[t].old
                        /\ call' = [call EXCEPT ![t].at = "add"]
  OBVIOUS
<1>e. /\ \A u \in Tracer \ {t} : call'[u] = call[u]
      /\ call'[t] \in CallRecord /\ call' \in [Tracer -> CallRecord]
      /\ call'[t].ptr = ptr /\ call'[t].size = call[t].size /\ call'[t].stack = call[t].stack
      /\ call'[t].at = (IF call[t].at = "untrack" THEN "free" ELSE "add")
  <2>1. call \in [Tracer -> CallRecord]
    BY <1>t DEF TraceType
  <2>2. call' = [call EXCEPT ![t] = [call[t] EXCEPT !.at = IF call[t].at = "untrack" THEN "free" ELSE "add"]]
    BY <1>d
  <2>3. [call[t] EXCEPT !.at = IF call[t].at = "untrack" THEN "free" ELSE "add"] \in CallRecord
    BY <1>t DEF CallRecord
  <2> QED BY <2>1, <2>2, <2>3, <1>t DEF CallRecord
<1>f. call[t].at = "forget" => \A u \in Tracer \ {t} : call[u].at = "idle"
  BY <1>t DEF CallsExact, CallExact
<1>p. /\ \A p : Pending(p)' <=> Pending(p)
      /\ \A p : Unrecorded(p)' <=> Unrecorded(p) \/ p = ptr
      /\ \A p : ~Forgotten(p)'
      /\ \A p : Forgotten(p) => p = gone
  BY <1>d, <1>e, <1>t DEF Pending, Unrecorded, Forgotten
<1>g. ~Pending(gone)
  <2>1. CASE call[t].at = "untrack"
    BY <2>1, <1>d, <1>t DEF Pending
  <2>2. CASE call[t].at = "forget"
    <3>1. gone # 0
      BY <2>2, <1>d, <1>t, CallFacts DEF CallExact
    <3> QED BY <2>2, <1>f, <1>d DEF Pending
  <2> QED BY <2>1, <2>2, <1>d
<1>a. /\ CounterExact'
      /\ DOMAIN allocs' = DOMAIN allocs \ {gone} /\ IsFiniteSet(DOMAIN allocs')
      /\ \A p \in DOMAIN allocs \ {gone} : allocs'[p] = allocs[p]
      /\ allocs' \in [DOMAIN allocs' -> [size : Nat, stack : Stack \cup {0}]]
  BY <1>d, <1>p, <1>g, UntracksExact
<1>1. TraceType'
  BY <1>a, <1>e, <1>t DEF TraceType
<1>2. CallsExact'
  <2>1. ASSUME NEW u \in Tracer PROVE CallExact(u)'
    <3>1. CASE u = t
      BY <3>1, <1>t, <1>d, <1>e DEF CallExact
    <3>2. CASE u # t
      BY <3>2, <1>t, <1>e DEF CallsExact, CallExact
    <3> QED BY <3>1, <3>2
  <2>3. CallsDistinct'
    BY <1>e, <1>t, DistinctKept
  <2> QED BY <2>1, <2>3 DEF CallsExact
<1>3. RecordsExact'
  <2>1. gone = ptr \/ gone \notin DOMAIN memory
    BY <1>d, <1>t DEF CallExact
  <2>2. ASSUME NEW p \in DOMAIN allocs \ {gone} PROVE p \in DOMAIN memory /\ ~Unrecorded(p)' /\ allocs[p].size = memory[p]
    <3>1. p \in DOMAIN memory /\ ~Unrecorded(p) /\ allocs[p].size = memory[p]
      BY <1>p, <1>t DEF RecordsExact
    <3>2. p # ptr
      <4>1. CASE call[t].at = "untrack"
        BY <4>1, <1>d
      <4>2. CASE call[t].at = "forget"
        BY <4>2, <3>1, <1>t DEF Unrecorded
      <4> QED BY <4>1, <4>2, <1>d
    <3> QED BY <3>1, <3>2, <1>p
  <2>3. tracing # "none" => \A p \in DOMAIN memory : p \in DOMAIN allocs' \/ Unrecorded(p)'
    BY <2>1, <1>a, <1>p, <1>t DEF RecordsExact
  <2> QED BY <2>2, <2>3, <1>a, <1>t DEF RecordsExact
<1>5. DumpExact'
  BY <1>t DEF DumpExact
<1> QED BY <1>1, <1>2, <1>3, <1>a, <1>5 DEF TraceInv

\* A block that is counted is not recorded yet.
LEMMA TracksBytesKeeps ==
  ASSUME TraceInv, NEW t \in clients, TracksBytes(t)
  PROVE  TraceInv'
<1> USE DEF TracksBytes, CallGoes
<1> DEFINE ptr == call[t].ptr
           at == IF tracing = "stacks" THEN "stack" ELSE "put"
<1>t. /\ TraceType /\ CallsExact /\ RecordsExact /\ CounterExact /\ DumpExact
      /\ t \in Tracer /\ call[t] \in CallRecord /\ CallExact(t) /\ call[t].at = "add"
      /\ ptr \in DOMAIN memory /\ memory[ptr] = call[t].size /\ tracing # "none"
      /\ \A w \in Tracer \ {t} : call[w].ptr # ptr
      /\ \A w \in Tracer : call[w].at # "forget"
  BY CallFacts DEF CallsExact, CallsDistinct, CallExact
<1>e. /\ \A u \in Tracer \ {t} : call'[u] = call[u]
      /\ call' \in [Tracer -> CallRecord]
      /\ call'[t].ptr = ptr /\ call'[t].size = call[t].size /\ call'[t].at = at
  <2>1. call \in [Tracer -> CallRecord] /\ call' = [call EXCEPT ![t] = [call[t] EXCEPT !.at = at]]
    BY <1>t DEF TraceType
  <2>2. [call[t] EXCEPT !.at = at] \in CallRecord
    BY <1>t DEF CallRecord
  <2> QED BY <2>1, <2>2, <1>t DEF CallRecord
<1>p. /\ \A p : Pending(p)' <=> Pending(p) \/ p = ptr
      /\ \A p : Unrecorded(p)' <=> Unrecorded(p)
      /\ \A p : ~Forgotten(p)' /\ ~Forgotten(p)
      /\ Unrecorded(ptr) /\ ~Pending(ptr)
  BY <1>e, <1>t DEF Pending, Unrecorded, Forgotten
<1>1. TraceType'
  BY <1>e, <1>t DEF TraceType
<1>2. CallsExact'
  <2>1. ASSUME NEW u \in Tracer PROVE CallExact(u)'
    <3>1. CASE u = t
      BY <3>1, <1>t, <1>e DEF CallExact
    <3>2. CASE u # t
      BY <3>2, <1>t, <1>e DEF CallsExact, CallExact
    <3> QED BY <3>1, <3>2
  <2>3. CallsDistinct'
    BY <1>e, <1>t, DistinctKept
  <2> QED BY <2>1, <2>3 DEF CallsExact
<1>3. RecordsExact'
  BY <1>p, <1>t DEF RecordsExact
<1>4. CounterExact'
  <2>1. ptr \notin CountedBlocks
    BY <1>p, <1>t DEF CountedBlocks, RecordsExact
  <2>2. CountedBlocks' = CountedBlocks \cup {ptr}
    BY <1>p, <1>t DEF CountedBlocks
  <2>3. ptr \notin DOMAIN allocs /\ DOMAIN CountedSizes = CountedBlocks
    BY <2>1 DEF CountedBlocks, CountedSizes
  <2>4. CountedSizes' = With(CountedSizes, ptr, call[t].size)
    BY <2>2, <2>3, <1>t DEF CountedSizes, With
  <2>5. call[t].size \in Nat
    BY <1>t DEF CallRecord
  <2>6. IsSizes(With(CountedSizes, ptr, call[t].size)) /\ Total(With(CountedSizes, ptr, call[t].size)) = Total(CountedSizes) + call[t].size
    BY <2>1, <2>3, <2>5, <1>t, TotalWith DEF CounterExact
  <2> QED BY <2>4, <2>6, <1>t DEF CounterExact
<1>5. DumpExact'
  BY <1>t DEF DumpExact
<1> QED BY <1>1, <1>2, <1>3, <1>4, <1>5 DEF TraceInv

\* The stack is recorded before the record that names it.
LEMMA TracksStackKeeps ==
  ASSUME TraceInv, NEW t \in clients, NEW stack \in Stack, TracksStack(t, stack)
  PROVE  TraceInv'
<1> USE DEF TracksStack
<1> DEFINE ptr == call[t].ptr
<1>t. /\ TraceType /\ CallsExact /\ RecordsExact /\ CounterExact /\ DumpExact
      /\ t \in Tracer /\ call[t] \in CallRecord /\ CallExact(t) /\ call[t].at = "stack"
      /\ \A w \in Tracer \ {t} : call[w].ptr # ptr
  BY CallFacts DEF CallsExact, CallsDistinct, CallExact
<1>e. /\ \A u \in Tracer \ {t} : call'[u] = call[u]
      /\ call' \in [Tracer -> CallRecord]
      /\ call'[t].ptr = ptr /\ call'[t].size = call[t].size
      /\ call'[t].at = "put" /\ call'[t].stack = stack
  <2>1. call \in [Tracer -> CallRecord] /\ call' = [call EXCEPT ![t] = [call[t] EXCEPT !.at = "put", !.stack = stack]]
    BY <1>t DEF TraceType
  <2>2. [call[t] EXCEPT !.at = "put", !.stack = stack] \in CallRecord
    BY <1>t DEF CallRecord
  <2> QED BY <2>1, <2>2, <1>t DEF CallRecord
<1>s. stacks' = stacks \cup {stack}
  BY TraceAssumption
<1>p. /\ \A p : Pending(p)' <=> Pending(p)
      /\ \A p : Unrecorded(p)' <=> Unrecorded(p)
      /\ \A p : Forgotten(p)' <=> Forgotten(p)
  BY <1>e, <1>t DEF Pending, Unrecorded, Forgotten
<1>1. TraceType'
  BY <1>e, <1>t DEF TraceType
<1>2. CallsExact'
  <2>1. ASSUME NEW u \in Tracer PROVE CallExact(u)'
    <3>1. CASE u = t
      BY <3>1, <1>t, <1>e, <1>s DEF CallExact
    <3>2. CASE u # t
      BY <3>2, <1>t, <1>e DEF CallsExact, CallExact
    <3> QED BY <3>1, <3>2
  <2>3. CallsDistinct'
    BY <1>e, <1>t, DistinctKept
  <2> QED BY <2>1, <2>3 DEF CallsExact
<1>3. RecordsExact'
  BY <1>p, <1>t DEF RecordsExact
<1>4. CounterExact'
  <2>1. CountedSizes' = CountedSizes
    BY <1>p DEF CountedSizes, CountedBlocks
  <2> QED BY <2>1, <1>t DEF CounterExact
<1>5. DumpExact'
  BY <1>t DEF DumpExact
<1> QED BY <1>1, <1>2, <1>3, <1>4, <1>5 DEF TraceInv

\* The record replaces the call as what accounts for the block.
LEMMA TrackKeeps ==
  ASSUME TraceInv, NEW t \in clients, s_alloc_tracer_track(t)
  PROVE  TraceInv'
<1> USE DEF s_alloc_tracer_track, Returns
<1> DEFINE ptr == call[t].ptr
<1>t. /\ TraceType /\ CallsExact /\ RecordsExact /\ CounterExact /\ DumpExact
      /\ t \in Tracer /\ call[t] \in CallRecord /\ CallExact(t) /\ call[t].at = "put"
      /\ ptr \in DOMAIN memory /\ memory[ptr] = call[t].size /\ tracing # "none"
      /\ \A w \in Tracer \ {t} : call[w].ptr # ptr
      /\ \A w \in Tracer : call[w].at # "forget"
  BY CallFacts DEF CallsExact, CallsDistinct, CallExact
<1>e. call'[t] = NoCall /\ \A u \in Tracer \ {t} : call'[u] = call[u]
  BY <1>t DEF TraceType
<1>p. /\ \A p : p # ptr => (Pending(p)' <=> Pending(p))
      /\ \A p : Unrecorded(p)' <=> Unrecorded(p) /\ p # ptr
      /\ \A p : ~Forgotten(p)' /\ ~Forgotten(p)
      /\ Unrecorded(ptr) /\ Pending(ptr)
  BY <1>e, <1>t DEF Pending, Unrecorded, Forgotten, NoCall
<1>a. /\ DOMAIN allocs' = DOMAIN allocs \cup {ptr} /\ ptr \notin DOMAIN allocs
      /\ allocs'[ptr] = [size |-> call[t].size, stack |-> call[t].stack]
      /\ \A p \in DOMAIN allocs : allocs'[p] = allocs[p]
  <2>1. ptr \notin DOMAIN allocs
    BY <1>p, <1>t DEF RecordsExact
  <2> QED BY <2>1 DEF With
<1>1. TraceType'
  <2>1. IsFiniteSet(DOMAIN allocs')
    BY <1>a, <1>t, FS_AddElement DEF TraceType
  <2>2. [size |-> call[t].size, stack |-> call[t].stack] \in [size : Nat, stack : Stack \cup {0}]
    BY <1>t DEF CallRecord
  <2>3. allocs' \in [DOMAIN allocs' -> [size : Nat, stack : Stack \cup {0}]]
    BY <2>2, <1>a, <1>t DEF TraceType, With
  <2>4. NoCall \in CallRecord
    BY DEF NoCall, CallRecord
  <2> QED BY <2>1, <2>3, <2>4, <1>a, <1>t DEF TraceType
<1>2. CallsExact'
  <2>1. ASSUME NEW u \in Tracer PROVE CallExact(u)'
    <3>1. CASE u = t
      BY <3>1, <1>t, <1>e DEF CallExact, NoCall
    <3>2. CASE u # t
      BY <3>2, <1>t, <1>e DEF CallsExact, CallExact
    <3> QED BY <3>1, <3>2
  <2>3. CallsDistinct'
    BY <1>e, <1>t, DistinctKept DEF NoCall
  <2> QED BY <2>1, <2>3 DEF CallsExact
<1>3. RecordsExact'
  <2>1. allocs'[ptr].size = memory[ptr] /\ allocs'[ptr].stack = call[t].stack
    BY <1>a, <1>t
  <2>2. tracing = "stacks" => call[t].stack \in stacks
    BY <1>t DEF CallExact
  <2> QED BY <2>1, <2>2, <1>a, <1>p, <1>t DEF RecordsExact
<1>4. CounterExact'
  <2>1. CountedBlocks' = CountedBlocks
    BY <1>a, <1>p, <1>t DEF CountedBlocks
  <2>2. CountedSizes' = CountedSizes
    BY <2>1, <1>a, <1>t DEF CountedSizes
  <2> QED BY <2>2, <1>t DEF CounterExact
<1>5. DumpExact'
  BY <1>t DEF DumpExact
<1> QED BY <1>1, <1>2, <1>3, <1>4, <1>5 DEF TraceInv

\* The tracer's counter is never below what is recorded.
LEMMA RecordedBytes ==
  ASSUME TraceInv
  PROVE  LET recorded == [p \in DOMAIN allocs |-> allocs[p].size]
         IN  IsSizes(recorded) /\ Total(recorded) <= allocated /\ allocated \in Nat
<1> DEFINE recorded == [p \in DOMAIN allocs |-> allocs[p].size]
<1>1. IsSizes(recorded)
  BY DEF TraceInv, TraceType, IsSizes
<1>2. IsSizes(CountedSizes) /\ allocated = Total(CountedSizes)
  BY DEF TraceInv, CounterExact
<1>3. DOMAIN recorded \subseteq DOMAIN CountedSizes /\ \A p \in DOMAIN recorded : recorded[p] <= CountedSizes[p]
  BY <1>1 DEF CountedSizes, CountedBlocks, IsSizes
<1>4. Total(recorded) <= Total(CountedSizes)
  <2> HIDE DEF recorded
  <2> QED BY <1>1, <1>2, <1>3, TotalPart
<1> QED BY <1>1, <1>2, <1>4, BytesFinite

\* What a dump prints for the stacks are the allocations and the bytes that are recorded,
\* each of them once.
LEMMA StackStatsAddUp ==
  ASSUME TraceInv
  PROVE  LET stats == s_collect_stack_stats
         IN  /\ Total([s \in DOMAIN stats |-> stats[s].count]) = Cardinality(DOMAIN allocs)
             /\ Total([s \in DOMAIN stats |-> stats[s].size]) <= allocated
<1> DEFINE Y == {allocs[p].stack : p \in DOMAIN allocs}
           recorded == [p \in DOMAIN allocs |-> allocs[p].size]
           B == BytesOf(recorded)
           sized(s) == [p \in OfStack(s) |-> allocs[p].size]
           ofBlock == [p \in DOMAIN allocs |-> allocs[p].stack]
           ofByte == [e \in B |-> allocs[e[1]].stack]
<1>1. /\ DOMAIN s_collect_stack_stats = Y
      /\ \A s \in Y : s_collect_stack_stats[s].count = Cardinality(OfStack(s))
      /\ \A s \in Y : s_collect_stack_stats[s].size = Total(sized(s))
  BY DEF s_collect_stack_stats
<1>2. IsFiniteSet(DOMAIN allocs) /\ IsSizes(recorded) /\ Total(recorded) <= allocated
  BY RecordedBytes DEF TraceInv, TraceType
<1>3. Total([s \in Y |-> Cardinality(OfStack(s))]) = Cardinality(DOMAIN allocs)
  <2>1. ofBlock \in [DOMAIN allocs -> Y]
    OBVIOUS
  <2>2. \A s : {p \in DOMAIN allocs : ofBlock[p] = s} = OfStack(s)
    BY DEF OfStack
  <2> HIDE DEF ofBlock, Y
  <2>3. Total([s \in Y |-> Cardinality({p \in DOMAIN allocs : ofBlock[p] = s})]) = Cardinality(DOMAIN allocs)
    BY <1>2, <2>1, TotalOfClasses
  <2> QED BY <2>2, <2>3
<1>4. Total([s \in Y |-> Total(sized(s))]) = Total(recorded)
  <2>1. \A e : e \in B <=> \E p \in DOMAIN allocs : e \in {p} \X (1 .. allocs[p].size)
    BY DEF BytesOf
  <2>2. \A e \in B : e[1] \in DOMAIN allocs
    BY <2>1
  <2>3. ofByte \in [B -> Y]
    <3> HIDE DEF B
    <3> QED BY <2>2
  <2>4. ASSUME NEW s PROVE {e \in B : ofByte[e] = s} = BytesOf(sized(s))
    <3>1. \A e : e \in BytesOf(sized(s)) <=> \E p \in OfStack(s) : e \in {p} \X (1 .. allocs[p].size)
      BY DEF BytesOf
    <3> HIDE DEF B
    <3>2. \A e : e \in {x \in B : ofByte[x] = s} <=> e \in B /\ allocs[e[1]].stack = s
      OBVIOUS
    <3> HIDE DEF ofByte, sized
    <3>3. ASSUME NEW e PROVE (e \in B /\ allocs[e[1]].stack = s) <=> e \in BytesOf(sized(s))
      BY <2>1, <3>1 DEF OfStack
    <3> QED BY <3>2, <3>3
  <2>5. IsFiniteSet(B)
    <3> HIDE DEF recorded
    <3> QED BY <1>2, BytesFinite
  <2> HIDE DEF ofByte, Y, B, sized
  <2>6. Total([s \in Y |-> Cardinality({e \in B : ofByte[e] = s})]) = Cardinality(B)
    BY <2>3, <2>5, TotalOfClasses
  <2> QED BY <2>4, <2>6 DEF Total, B
<1> HIDE DEF Y, sized, recorded
<1>5. /\ [s \in DOMAIN s_collect_stack_stats |-> s_collect_stack_stats[s].count] = [s \in Y |-> Cardinality(OfStack(s))]
      /\ [s \in DOMAIN s_collect_stack_stats |-> s_collect_stack_stats[s].size] = [s \in Y |-> Total(sized(s))]
  BY <1>1
<1> QED BY <1>2, <1>3, <1>4, <1>5

\* What is dumped adds up.
LEMMA DumpKeeps ==
  ASSUME TraceInv, aws_mem_tracer_dump
  PROVE  TraceInv'
<1> USE DEF aws_mem_tracer_dump
<1>t. TraceType /\ CallsExact /\ RecordsExact /\ CounterExact /\ allocated \in Nat
  BY RecordedBytes DEF TraceInv
<1>1. TraceType' /\ CallsExact' /\ RecordsExact' /\ CounterExact'
  BY <1>t DEF TraceType, CallsExact, CallExact, CallsDistinct, RecordsExact, Unrecorded, Forgotten,
              CounterExact, CountedSizes, CountedBlocks, Pending
<1>2. DumpExact'
  <2>1. CASE tracing = "stacks"
    <3>1. dumped'.by_stack = s_collect_stack_stats /\ dumped'.bytes = allocated /\ dumped'.leaks = Cardinality(DOMAIN allocs)
      BY <2>1
    <3> QED BY <3>1, <1>t, StackStatsAddUp DEF DumpExact
  <2>2. CASE tracing # "stacks"
    <3>1. dumped'.by_stack = <<>> /\ dumped'.bytes = allocated
      BY <2>2
    <3> DEFINE g == [s \in DOMAIN dumped'.by_stack |-> dumped'.by_stack[s].size]
    <3>2. DOMAIN g = {}
      BY <3>1
    <3> HIDE DEF g
    <3>3. Total(g) = 0
      BY <3>2, TotalOfNothing
    <3>4. Total([s \in DOMAIN dumped'.by_stack |-> dumped'.by_stack[s].size]) <= dumped'.bytes
      BY <3>1, <3>3, <1>t DEF g
    <3> QED BY <3>1, <3>4, <1>t DEF DumpExact
  <2> QED BY <2>1, <2>2
<1> QED BY <1>1, <1>2 DEF TraceInv

\* Nothing is recorded afterwards.
LEMMA DestroyKeeps ==
  ASSUME TraceInv, aws_mem_tracer_destroy
  PROVE  TraceInv'
<1> USE DEF aws_mem_tracer_destroy
<1>t. TraceType /\ CallsExact /\ DumpExact
  BY DEF TraceInv
<1>e. \A p : ~Pending(p)' /\ ~Unrecorded(p)'
  BY DEF Pending, Unrecorded
<1>d. DOMAIN allocs' = {}
  OBVIOUS
<1>1. TraceType'
  BY <1>d, <1>t, FS_EmptySet DEF TraceType
<1>2. CallsExact'
  BY <1>t DEF CallsExact, CallExact, CallsDistinct
<1>3. RecordsExact'
  BY <1>d DEF RecordsExact
<1>4. CounterExact'
  <2>1. DOMAIN CountedSizes' = {}
    BY <1>d, <1>e DEF CountedSizes, CountedBlocks
  <2>2. IsSizes(CountedSizes)'
    BY <2>1, FS_EmptySet DEF IsSizes, CountedSizes
  <2>3. Total(CountedSizes') = 0
    BY <2>1, TotalOfNothing
  <2> QED BY <2>2, <2>3 DEF CounterExact
<1>5. DumpExact'
  BY <1>t DEF DumpExact
<1> QED BY <1>1, <1>2, <1>3, <1>4, <1>5 DEF TraceInv

\* Every step keeps the records, the calls under way and the counter in agreement.
LEMMA TraceStep ==
  ASSUME TraceInv, ~RacyRealloc, [TraceNext]_traceVars
  PROVE  TraceInv'
<1>1. CASE UNCHANGED traceVars
  BY <1>1 DEF traceVars, TraceInv, TraceType, CallsExact, CallExact, CallsDistinct, RecordsExact, Unrecorded,
              Forgotten, CounterExact, CountedSizes, CountedBlocks, Pending, DumpExact
<1>2. ASSUME NEW t \in clients, NEW ptr \in Address, NEW size \in Size,
             s_trace_mem_acquire(t, ptr, size) \/ \E old_ptr \in Address : s_trace_mem_realloc(t, old_ptr, ptr, size)
      PROVE  TraceInv'
  BY <1>2, AcquireKeeps, ReallocKeeps
<1>3. ASSUME NEW t \in clients,
             \/ \E ptr \in Address : s_trace_mem_release(t, ptr)
             \/ Frees(t) \/ s_alloc_tracer_untrack(t) \/ TracksBytes(t)
             \/ \E stack \in Stack : TracksStack(t, stack)
             \/ s_alloc_tracer_track(t)
      PROVE  TraceInv'
  BY <1>3, ReleaseKeeps, FreesKeeps, UntrackKeeps, TracksBytesKeeps, TracksStackKeeps, TrackKeeps
<1>4. CASE aws_mem_tracer_dump \/ aws_mem_tracer_destroy
  BY <1>4, DumpKeeps, DestroyKeeps
<1> QED BY <1>1, <1>2, <1>3, <1>4 DEF TraceNext

\* The tracer is exact when no call is under way, and a dump finds what it prints.
LEMMA TraceInvExact == TraceInv => TracerExact
<1> SUFFICES ASSUME TraceInv PROVE TracerExact
  OBVIOUS
<1>t. TraceType /\ CallsExact /\ RecordsExact /\ CounterExact /\ DumpExact
  BY DEF TraceInv
<1>1. TracerCountsExact
  <2> SUFFICES ASSUME NoCalls, tracing # "none"
               PROVE  /\ aws_mem_tracer_bytes = Total(memory)
                      /\ aws_mem_tracer_count = Cardinality(DOMAIN memory)
                      /\ \A p \in DOMAIN memory : p \in DOMAIN allocs /\ allocs[p].size = memory[p]
    BY DEF TracerCountsExact
  <2>1. \A p : ~Pending(p) /\ ~Unrecorded(p) /\ ~Forgotten(p)
    BY DEF NoCalls, Pending, Unrecorded, Forgotten
  <2>2. DOMAIN allocs = DOMAIN memory /\ \A p \in DOMAIN memory : allocs[p].size = memory[p]
    BY <2>1, <1>t DEF RecordsExact
  <2>3. CountedSizes = memory
    BY <2>1, <2>2, <1>t DEF CountedSizes, CountedBlocks, TraceType, IsSizes
  <2> QED BY <2>2, <2>3, <1>t DEF CounterExact, aws_mem_tracer_bytes, aws_mem_tracer_count
<1>2. DumpFindsStacks
  BY <1>t, RecordedBytes DEF DumpFindsStacks, DumpExact, RecordsExact
<1> QED BY <1>1, <1>2 DEF TracerExact

\* Whatever the number of threads, as long as nobody resizes a block while others use the
\* allocator: between calls the tracer's bytes, count and records are those of the wrapped
\* allocator's live blocks, and at any time a dump finds every stack it prints and its parts
\* add up.
THEOREM TracerExactCorrect == ~RacyRealloc => (TraceSpec => []TracerExact)
<1> SUFFICES ASSUME ~RacyRealloc PROVE TraceSpec => []TracerExact
  OBVIOUS
<1>1. s_alloc_tracer_init => TraceInv
  BY TraceInitial
<1>2. TraceInv /\ [TraceNext]_traceVars => TraceInv'
  BY TraceStep
<1>3. TraceInv => TracerExact
  BY TraceInvExact
<1> QED BY <1>1, <1>2, <1>3, PTL DEF TraceSpec
=============================================================================
