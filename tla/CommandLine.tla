---------------------------- MODULE CommandLine -----------------------------
(***************************************************************************)
(* command_line_parser.c: a getopt_long whose state is global.  An         *)
(* argument is a word or an option, short or long; of a short option only  *)
(* the first letter is read, so the letter is all that a token keeps.      *)
(***************************************************************************)
EXTENDS Naturals, Sequences, SequencesExt

CONSTANTS Options,      \* options in longopts, each with the name that is its val
          InString,     \* those that stand in optstring
          WithArgument, \* those with a ':' behind them in optstring
          Unknown,      \* an option that is not in longopts
          MaxArgs       \* bound on argc - 1

VARIABLES args,         \* argv[1] ... argv[argc - 1]
          cli,          \* aws_cli_optind, aws_cli_on_arg, aws_cli_optarg, aws_cli_positional_arg
          answers,      \* what the calls since the last reset returned
          runs          \* the answers of the runs that came to their end

cliVars == <<args, cli, answers, runs>>

NoText == "NULL"
Word(w) == [k |-> "word", name |-> w]
Option(k, o) == [k |-> k, name |-> o]
Tokens == {Word("w")} \cup {Option(k, o) : k \in {"short", "long"}, o \in Options \cup {Unknown}}

InitialState == [optind |-> 1, on_arg |-> FALSE, optarg |-> NoText, positional |-> NoText]

CliInit ==
    /\ args \in UNION {[1 .. n -> Tokens] : n \in 0 .. MaxArgs}
    /\ cli = InitialState
    /\ answers = <<>>
    /\ runs = <<>>

s_find_option(token) == token.k # "word" /\ token.name \in Options

\* An option takes the argument behind it, whatever that looks like.
TakesOption(s, token) ==
    LET found == [s EXCEPT !.on_arg = FALSE, !.positional = NoText]
        more == s.optind <= Len(args)
    IN  CASE token.name \notin InString -> [ret |-> "?", state |-> found]
          [] token.name \in InString /\ token.name \notin WithArgument ->
                 [ret |-> token.name, state |-> found]
          [] token.name \in WithArgument /\ ~more -> [ret |-> "?", state |-> found]
          [] OTHER -> [ret |-> token.name,
                       state |-> [found EXCEPT !.optarg = args[s.optind].name, !.optind = @ + 1]]

\* A word behind an option that was not found is taken for its argument.
TakesOther(s, token) ==
    CASE token.k # "word" -> [ret |-> "?", state |-> [s EXCEPT !.on_arg = TRUE]]
      [] token.k = "word" /\ ~s.on_arg ->
             [ret |-> "0x02", state |-> [s EXCEPT !.positional = token.name]]
      [] OTHER -> [ret |-> "?", state |-> [s EXCEPT !.on_arg = FALSE, !.positional = NoText]]

aws_cli_getopt_long(s0) ==
    LET s == [s0 EXCEPT !.optarg = NoText]
        token == args[s.optind]
        next == [s EXCEPT !.optind = @ + 1]
    IN  CASE s.optind > Len(args) -> [ret |-> "-1", state |-> s]
          [] s.optind <= Len(args) /\ s_find_option(token) -> TakesOption(next, token)
          [] OTHER -> TakesOther(next, token)

Finished == answers # <<>> /\ Last(answers).ret = "-1"

Calls ==
    /\ ~Finished
    /\ LET result == aws_cli_getopt_long(cli)
       IN  /\ cli' = result.state
           /\ answers' = Append(answers, [ret |-> result.ret, optarg |-> result.state.optarg,
                                          positional |-> result.state.positional])
    /\ UNCHANGED <<args, runs>>

aws_cli_reset_state(s) == InitialState

Resets ==
    /\ Finished /\ Len(runs) < 2
    /\ cli' = aws_cli_reset_state(cli)
    /\ answers' = <<>>
    /\ runs' = Append(runs, answers)
    /\ UNCHANGED args

CliNext == Calls \/ Resets

----------------------------------------------------------------------------

\* The arguments that an option before them takes.
IsArgument[i \in Nat] ==
    /\ i > 1 /\ ~IsArgument[i - 1]
    /\ args[i - 1].k # "word" /\ args[i - 1].name \in WithArgument

\* Every argument is reported once: an option with its value, an unknown option and the
\* word behind it as unknown, every other word as itself; and a run after aws_cli_reset_state
\* reports what the run before it did, whatever state that run ended in.
Answer(i) ==
    LET t == args[i]
        needs == t.name \in WithArgument
    IN  CASE t.k = "word" -> IF i > 1 /\ ~IsArgument[i - 1] /\ args[i - 1].k # "word"
                                /\ args[i - 1].name \notin Options
                             THEN <<"?", NoText>> ELSE <<"0x02", NoText>>
          [] t.k # "word" /\ t.name \notin InString -> <<"?", NoText>>
          [] t.k # "word" /\ t.name \in InString /\ ~needs -> <<t.name, NoText>>
          [] OTHER -> IF i = Len(args) THEN <<"?", NoText>> ELSE <<t.name, args[i + 1].name>>
CommandLineExact ==
    LET reported == SelectSeq([i \in DOMAIN args |-> i], LAMBDA i : ~IsArgument[i])
        expected == [n \in DOMAIN reported |-> Answer(reported[n])] \o <<<<"-1", NoText>>>>
        got == [n \in DOMAIN answers |-> <<answers[n].ret, answers[n].optarg>>]
    IN  /\ IsPrefix(got, expected)
        /\ Finished => got = expected
        /\ \A r \in Range(runs) : Finished => r = answers
        /\ \A n \in DOMAIN answers : answers[n].ret = "0x02" => answers[n].positional = args[reported[n]].name
=============================================================================
