------------------------------ MODULE Logging ------------------------------
(***************************************************************************)
(* source/logging.c, log_channel.c and log_writer.c: the pipeline logger   *)
(* with a foreground or a background channel, and the logger that does not *)
(* allocate.  A critical section of a channel's mutex is one step.  The    *)
(* logger is cleaned up when no thread is inside a call of it.             *)
(***************************************************************************)
EXTENDS Naturals, Sequences, FiniteSets

CONSTANTS Client,        \* threads that log
          Levels,        \* log levels; 0 is AWS_LL_NONE
          MaxLines       \* bound on the calls of each client

VARIABLES
    kind,                \* "foreground", "background" or "noalloc"
    stage,               \* "new", "ready", "no_file", "failed", "joining" or "cleaned"
    held,                \* the parts of the logger that are allocated or open
    level,
    lpc, line, calls,    \* per client: position, the line it made, calls so far
    pending_log_lines, finished,   \* the background channel
    wpc, log_lines,      \* its thread: position and the lines it has taken
    live,                \* lines allocated and not destroyed
    sent, written        \* history: lines handed to the channel, and to the writer

channelVars == <<pending_log_lines, finished, wpc, log_lines>>
clientVars == <<lpc, line, calls>>
historyVars == <<sent, written>>
logVars == <<kind, stage, held, level, channelVars, clientVars, live, historyVars>>

Kinds == {"foreground", "background", "noalloc"}
NoLine == <<>>

LogInit ==
    /\ kind \in Kinds
    /\ stage = "new"
    /\ held = {}
    /\ level = 0
    /\ lpc = [c \in Client |-> "idle"]
    /\ line = [c \in Client |-> NoLine]
    /\ calls = [c \in Client |-> 0]
    /\ pending_log_lines = <<>> /\ finished = FALSE
    /\ wpc = "none" /\ log_lines = <<>>
    /\ live = {}
    /\ sent = <<>> /\ written = <<>>

----------------------------------------------------------------------------
(* Initialisation                                                          *)

\* What aws_logger_init_standard acquires, in this order.
Parts == <<"impl", "writer", "file", "formatter", "formatter_impl", "channel", "channel_impl">>

Upto(n) == {Parts[m] : m \in 1 .. n}

\* The channel is a background channel.  The file may not open, or the channel's thread
\* may not start; the labels at the end of the function then release what was acquired
\* before, last first.  A file the caller opened is not the logger's.
aws_logger_init_standard(l) ==
    /\ stage = "new" /\ kind = "background"
    /\ \/ /\ stage' = "failed"
          /\ held' \in {Upto(2) \ {"writer", "impl"},
                        Upto(6) \ {"channel", "formatter_impl", "formatter", "file", "writer", "impl"}}
          /\ UNCHANGED <<level, wpc>>
       \/ /\ stage' = "ready"
          /\ held' \in {Upto(7), Upto(7) \ {"file"}}
          /\ level' = l
          /\ wpc' = "waiting"
    /\ UNCHANGED <<kind, pending_log_lines, finished, log_lines, clientVars, live, historyVars>>

\* Formatter, channel and writer are the caller's, here with a foreground channel.
aws_logger_init_from_external(l) ==
    /\ stage = "new" /\ kind = "foreground"
    /\ stage' = "ready"
    /\ held' = {"impl"}
    /\ level' = l
    /\ UNCHANGED <<kind, channelVars, clientVars, live, historyVars>>

\* A file that does not open is not noticed: the call succeeds and impl->file is null.
aws_logger_init_noalloc(l) ==
    /\ stage = "new" /\ kind = "noalloc"
    /\ \/ stage' = "ready" /\ held' \in {{"impl"}, {"impl", "file"}}
       \/ stage' = "no_file" /\ held' = {"impl"}
    /\ level' = l
    /\ UNCHANGED <<kind, channelVars, clientVars, live, historyVars>>

\* The only call a logger without its file survives, with the ones its level filters out:
\* a line it logs, and its clean-up, pass the null file on, and the process ends there.
aws_logger_set_log_level(l) ==
    /\ stage \in {"ready", "no_file"}
    /\ level' = l
    /\ UNCHANGED <<kind, stage, held, channelVars, clientVars, live, historyVars>>

----------------------------------------------------------------------------
(* Logging                                                                 *)

\* The level is read, without a lock, before the line is formatted.
ChecksLevel(c, l) ==
    /\ stage = "ready"
    /\ lpc[c] = "idle"
    /\ calls[c] < MaxLines
    /\ calls' = [calls EXCEPT ![c] = @ + 1]
    /\ lpc' = [lpc EXCEPT ![c] = IF level >= l THEN "format" ELSE "idle"]
    /\ UNCHANGED <<kind, stage, held, level, channelVars, line, live, historyVars>>

\* s_aws_logger_pipeline_log: formatting allocates the line, or fails.
Formats(c) ==
    /\ lpc[c] = "format"
    /\ \/ /\ lpc' = [lpc EXCEPT ![c] = "send"]
          /\ line' = [line EXCEPT ![c] = <<c, calls[c]>>]
          /\ live' = IF kind = "noalloc" THEN live ELSE live \cup {<<c, calls[c]>>}
       \/ /\ lpc' = [lpc EXCEPT ![c] = "idle"]
          /\ UNCHANGED <<line, live>>
    /\ UNCHANGED <<kind, stage, held, level, channelVars, calls, historyVars>>

Sends(c) ==
    /\ lpc[c] = "send"
    /\ lpc' = [lpc EXCEPT ![c] = "idle"]
    /\ line' = [line EXCEPT ![c] = NoLine]
    /\ sent' = Append(sent, line[c])
    /\ UNCHANGED <<kind, stage, held, level, calls>>

\* The writer's result is ignored: a line that could not be written is gone.
s_foreground_channel_send(c) ==
    /\ kind = "foreground"
    /\ Sends(c)
    /\ written' = Append(written, line[c])
    /\ live' = live \ {line[c]}
    /\ UNCHANGED channelVars

s_noalloc_stderr_logger_log(c) ==
    /\ kind = "noalloc"
    /\ Sends(c)
    /\ written' = Append(written, line[c])
    /\ UNCHANGED <<channelVars, live>>

\* The notification is sent under the mutex; a thread that sleeps will look again.
s_background_channel_send(c) ==
    /\ kind = "background"
    /\ Sends(c)
    /\ pending_log_lines' = Append(pending_log_lines, line[c])
    /\ wpc' = IF wpc = "blocked" THEN "waiting" ELSE wpc
    /\ UNCHANGED <<finished, log_lines, live, written>>

----------------------------------------------------------------------------
(* s_background_thread_writer                                              *)

s_background_wait == finished \/ pending_log_lines # <<>>

WriterSleeps ==
    /\ wpc = "waiting"
    /\ ~s_background_wait
    /\ wpc' = "blocked"
    /\ UNCHANGED <<kind, stage, held, level, pending_log_lines, finished, log_lines, clientVars, live,
                   historyVars>>

LogSpuriousWakeUp ==
    /\ wpc = "blocked"
    /\ wpc' = "waiting"
    /\ UNCHANGED <<kind, stage, held, level, pending_log_lines, finished, log_lines, clientVars, live,
                   historyVars>>

\* Mutant: finished is looked at before the lines.
WriterTakes_finished_first ==
    /\ wpc = "waiting"
    /\ s_background_wait
    /\ IF finished
       THEN wpc' = "exited" /\ UNCHANGED <<pending_log_lines, log_lines>>
       ELSE /\ wpc' = "writing"
            /\ log_lines' = pending_log_lines
            /\ pending_log_lines' = log_lines
    /\ UNCHANGED <<kind, stage, held, level, finished, clientVars, live, historyVars>>

\* The critical section: the two lists are swapped, or the thread ends.
WriterTakes ==
    /\ wpc = "waiting"
    /\ s_background_wait
    /\ IF pending_log_lines = <<>>
       THEN wpc' = "exited" /\ UNCHANGED <<pending_log_lines, log_lines>>
       ELSE /\ wpc' = "writing"
            /\ log_lines' = pending_log_lines
            /\ pending_log_lines' = log_lines
    /\ UNCHANGED <<kind, stage, held, level, finished, clientVars, live, historyVars>>

\* The next line is written, without the mutex, and destroyed.
WriterWrites ==
    /\ wpc = "writing"
    /\ written' = Append(written, Head(log_lines))
    /\ live' = live \ {Head(log_lines)}
    /\ log_lines' = Tail(log_lines)
    /\ wpc' = IF Len(log_lines) = 1 THEN "waiting" ELSE "writing"
    /\ UNCHANGED <<kind, stage, held, level, pending_log_lines, finished, clientVars, sent>>

----------------------------------------------------------------------------
(* Clean-up                                                                *)

Quiet == stage = "ready" /\ \A c \in Client : lpc[c] = "idle"

s_background_channel_clean_up ==
    /\ Quiet /\ kind = "background"
    /\ stage' = "joining"
    /\ finished' = TRUE
    /\ wpc' = IF wpc = "blocked" THEN "waiting" ELSE wpc
    /\ UNCHANGED <<kind, held, level, pending_log_lines, log_lines, clientVars, live, historyVars>>

Releases(parts) ==
    /\ stage' = "cleaned"
    /\ held' = held \ parts
    /\ UNCHANGED <<kind, level, channelVars, clientVars, live, historyVars>>

\* After the join: channel, formatter, writer with the file it opened, and impl.
s_aws_logger_pipeline_owned_clean_up ==
    /\ stage = "joining" /\ wpc = "exited"
    /\ Releases(Upto(7))

s_aws_pipeline_logger_unowned_clean_up ==
    /\ Quiet /\ kind = "foreground"
    /\ Releases({"impl"})

s_noalloc_stderr_logger_clean_up ==
    /\ Quiet /\ kind = "noalloc"
    /\ Releases({"impl", "file"})

----------------------------------------------------------------------------

WriterSteps == WriterSleeps \/ WriterTakes \/ WriterWrites

LogNext ==
    \/ \E l \in Levels : \/ aws_logger_init_standard(l) \/ aws_logger_init_from_external(l)
                         \/ aws_logger_init_noalloc(l) \/ aws_logger_set_log_level(l)
                         \/ \E c \in Client : l # 0 /\ ChecksLevel(c, l)
    \/ \E c \in Client : \/ Formats(c) \/ s_foreground_channel_send(c)
                         \/ s_noalloc_stderr_logger_log(c) \/ s_background_channel_send(c)
    \/ WriterSteps
    \/ LogSpuriousWakeUp
    \/ s_background_channel_clean_up
    \/ s_aws_logger_pipeline_owned_clean_up \/ s_aws_pipeline_logger_unowned_clean_up
    \/ s_noalloc_stderr_logger_clean_up

LogSpec == LogInit /\ [][LogNext]_logVars

----------------------------------------------------------------------------
(* Properties                                                              *)

\* Every line that a channel accepted is handed to the writer exactly once, in the
\* order of the sends of all threads, also those accepted just before the clean-up;
\* then nothing of the logger and no line is left, whoever made its parts.
LoggedOnceInOrder ==
    /\ written \o log_lines \o pending_log_lines = sent
    /\ stage \in {"cleaned", "failed"} => held = {} /\ live = {} /\ written = sent

\* The clean-up of a logger returns: the background thread is woken and ends.
LogCleanUpReturns == stage = "joining" ~> stage = "cleaned"
=============================================================================
