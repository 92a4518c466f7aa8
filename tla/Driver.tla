------------------------------- MODULE Driver -------------------------------
(***************************************************************************)
(* The zeno-spec command: src/driver (main.c, commands.c, diagnostics.c,   *)
(* terminal_diagnostic_consumer.c) and the engine of basic/diagnostic.c.   *)
(* One run of the process, from the command line to the exit code.  The    *)
(* stages it calls (open, read, lex, parse, type check) succeed or fail as *)
(* their own modules allow; here each outcome is a choice.  Every function *)
(* that owns something is modelled to its last line, so that the way back  *)
(* from a failure is as visible as the way in.                             *)
(***************************************************************************)
EXTENDS Naturals, Sequences, SequencesExt

CONSTANT MaxArgs   \* longest command line after the command word

ASSUME DriverAssumption == MaxArgs \in Nat

(* A command-line word as parse_options tells them apart.                  *)
Args == {"file",            \* any word that does not start with a dash
         "-",               \* standard input
         "--", "--quiet", "--expect-failure",
         "--other"}         \* any other word that starts with a dash

Commands == {"tokenize", "parse", "check", "compile"}

VARIABLES
    command,      \* the word after the program name, "none" if not one of them
    args,         \* argv and argc: the words still to be parsed
    options,      \* struct Options
    has_path, dash_dash,              \* locals of parse_options
    pc,           \* the place in do_command and the functions it calls
    has_errors,   \* DiagnosticEngine
    emitted,      \* every diagnostic handed to the consumer: level, category
    usage,        \* get_command wrote its own message
    ast, file, tokens, bytecode,      \* what is held: "none", "live", "freed"
    stdout,       \* what was dumped there
    failed,       \* the first thing that went wrong, "none" if nothing has
    exit_code

engine == <<has_errors, emitted>>
parser == <<command, args, options, has_path, dash_dash, usage>>
held == <<ast, file, tokens, bytecode>>
vars == <<parser, pc, engine, held, stdout, failed, exit_code>>

-----------------------------------------------------------------------------
(* A whole report_* function: start, fill in, emit.  emit overwrites       *)
(* has_errors with what it knows of this diagnostic alone.                 *)
Report(level, category) ==
    /\ emitted' = Append(emitted, [level |-> level, category |-> category])
    /\ has_errors' = (level = "Error")

NoReport == UNCHANGED engine

(* error_level in do_syntax, do_parse and do_check: a failure the user     *)
(* asked for is not an error.                                              *)
ExpectedLevel == IF options.quiet THEN "Ignore" ELSE "Info"

SyntaxErrorLevel == IF command = "tokenize" /\ options.expect_failure
                    THEN ExpectedLevel ELSE "Error"

(* Slip: the command is not asked for its stage.                           *)
ParseErrorLevelAlways == IF options.expect_failure THEN ExpectedLevel ELSE "Error"

ParseErrorLevel == IF command = "parse" /\ options.expect_failure
                   THEN ExpectedLevel ELSE "Error"
CheckErrorLevel == IF options.expect_failure THEN ExpectedLevel ELSE "Error"

(* Slip: only --quiet keeps a stage from dumping.                          *)
FinishStageLoud(what, category) ==
    /\ stdout' = IF ~options.quiet THEN what ELSE stdout
    /\ IF options.expect_failure THEN Report("Error", category) ELSE NoReport

(* The stage a command stops after has succeeded: dump, or complain that   *)
(* the failure the user asked for did not come.                            *)
FinishStage(what, category) ==
    /\ stdout' = IF ~options.quiet /\ ~options.expect_failure THEN what ELSE stdout
    /\ IF options.expect_failure THEN Report("Error", category) ELSE NoReport

Init ==
    /\ command \in Commands \cup {"none"}
    /\ args \in BoundedSeq(Args, MaxArgs)
    /\ options = [path |-> "unset", quiet |-> FALSE, expect_failure |-> FALSE]
    /\ has_path = FALSE /\ dash_dash = FALSE
    /\ pc = "main"
    /\ has_errors = FALSE /\ emitted = << >> /\ usage = FALSE
    /\ ast = "none" /\ file = "none" /\ tokens = "none" /\ bytecode = "none"
    /\ stdout = "nothing" /\ failed = "none" /\ exit_code = 255

(* main and get_command.                                                   *)
GetCommand ==
    /\ pc = "main" /\ command # "none"
    /\ pc' = "options"
    /\ UNCHANGED <<parser, engine, held, stdout, failed, exit_code>>

BadCommand ==
    /\ pc = "main" /\ command = "none"
    /\ usage' = TRUE /\ failed' = "usage"
    /\ exit_code' = 1 /\ pc' = "exited"
    /\ UNCHANGED <<command, args, options, has_path, dash_dash, engine, held, stdout>>

-----------------------------------------------------------------------------
(* parse_options, one word a step.                                         *)
Positional(word) == dash_dash \/ word \in {"file", "-"}

TakePath ==
    /\ pc = "options" /\ args # << >>
    /\ Positional(Head(args)) /\ ~has_path
    /\ options' = [options EXCEPT !.path = Head(args)]
    /\ has_path' = TRUE
    /\ args' = Tail(args)
    /\ UNCHANGED <<command, dash_dash, usage, pc, engine, held, stdout, failed, exit_code>>

OptionsError ==
    /\ Report("Error", "Driver")
    /\ failed' = "options"
    /\ pc' = "options_done"
    /\ UNCHANGED <<parser, held, stdout, exit_code>>

MultipleInputFiles ==
    /\ pc = "options" /\ args # << >>
    /\ Positional(Head(args)) /\ has_path
    /\ OptionsError

TakeFlag ==
    /\ pc = "options" /\ args # << >>
    /\ ~Positional(Head(args)) /\ Head(args) # "--other"
    /\ dash_dash' = (dash_dash \/ Head(args) = "--")
    /\ options' = [options EXCEPT !.quiet = @ \/ Head(args) = "--quiet",
                                  !.expect_failure = @ \/ Head(args) = "--expect-failure"]
    /\ args' = Tail(args)
    /\ UNCHANGED <<command, has_path, usage, pc, engine, held, stdout, failed, exit_code>>

UnknownFlag ==
    /\ pc = "options" /\ args # << >>
    /\ ~Positional(Head(args)) /\ Head(args) = "--other"
    /\ OptionsError

NoInputFile == pc = "options" /\ args = << >> /\ ~has_path /\ OptionsError

OptionsDone ==
    /\ pc = "options" /\ args = << >> /\ has_path
    /\ pc' = "options_done"
    /\ UNCHANGED <<parser, engine, held, stdout, failed, exit_code>>

-----------------------------------------------------------------------------
(* do_command.                                                             *)

(* Bad options: do_command returns before it has made anything.            *)
GiveUp ==
    /\ pc = "options_done" /\ has_errors
    /\ pc' = "exit"
    /\ UNCHANGED <<parser, engine, held, stdout, failed, exit_code>>

(* Slip: the errors of parse_options are not looked at.                    *)
OpenStdinAnyway ==
    /\ pc = "options_done"
    /\ options.path = "-"
    /\ ast' = "live" /\ pc' = "read"
    /\ UNCHANGED <<parser, engine, file, tokens, bytecode, stdout, failed, exit_code>>

OpenStdin ==
    /\ pc = "options_done" /\ ~has_errors
    /\ options.path = "-"
    /\ ast' = "live" /\ pc' = "read"
    /\ UNCHANGED <<parser, engine, file, tokens, bytecode, stdout, failed, exit_code>>

OpenFile ==
    /\ pc = "options_done" /\ ~has_errors
    /\ options.path # "-"
    /\ ast' = "live" /\ file' = "live" /\ pc' = "read"
    /\ UNCHANGED <<parser, engine, tokens, bytecode, stdout, failed, exit_code>>

(* Slip: an early return leaves the tree behind.                           *)
OpenFailsReturn ==
    /\ pc = "options_done" /\ ~has_errors
    /\ options.path # "-"
    /\ ast' = "live"
    /\ Report("Error", "System")
    /\ failed' = "open" /\ pc' = "exit"
    /\ UNCHANGED <<parser, file, tokens, bytecode, stdout, exit_code>>

OpenFails ==
    /\ pc = "options_done" /\ ~has_errors
    /\ options.path # "-"
    /\ ast' = "live"
    /\ Report("Error", "System")
    /\ failed' = "open" /\ pc' = "delete_ast"
    /\ UNCHANGED <<parser, file, tokens, bytecode, stdout, exit_code>>

(* do_syntax: AstContext_source_from_file, then lex_source.                *)
ReadSource ==
    /\ pc = "read"
    /\ pc' = "lex"
    /\ UNCHANGED <<parser, engine, held, stdout, failed, exit_code>>

ReadFails ==
    /\ pc = "read"
    /\ Report("Error", "System")
    /\ failed' = "read" /\ pc' = "close_file"
    /\ UNCHANGED <<parser, held, stdout, exit_code>>

(* lex_source frees its own tokens when it fails.                          *)
LexFails ==
    /\ pc = "lex"
    /\ Report(SyntaxErrorLevel, "Tokenize")
    /\ failed' = "tokenize" /\ pc' = "close_file"
    /\ UNCHANGED <<parser, held, stdout, exit_code>>

Tokenize ==
    /\ pc = "lex" /\ command = "tokenize"
    /\ tokens' = "live"
    /\ FinishStage("tokens", "Driver")
    /\ pc' = "free_tokens"
    /\ UNCHANGED <<parser, ast, file, bytecode, failed, exit_code>>

LexForParse ==
    /\ pc = "lex" /\ command # "tokenize"
    /\ tokens' = "live" /\ pc' = "parse"
    /\ UNCHANGED <<parser, engine, ast, file, bytecode, stdout, failed, exit_code>>

(* do_parse.                                                               *)
ParseFails ==
    /\ pc = "parse"
    /\ Report(ParseErrorLevel, "Parse")
    /\ failed' = "parse" /\ pc' = "free_tokens"
    /\ UNCHANGED <<parser, held, stdout, exit_code>>

(* The yacc stack is exhausted: an error whatever was expected.            *)
YaccFails ==
    /\ pc = "parse"
    /\ Report("Error", "Parse")
    /\ failed' = "yacc" /\ pc' = "free_tokens"
    /\ UNCHANGED <<parser, held, stdout, exit_code>>

Parse ==
    /\ pc = "parse" /\ command = "parse"
    /\ FinishStage("item", "Driver")
    /\ pc' = "free_tokens"
    /\ UNCHANGED <<parser, held, failed, exit_code>>

ParseForCheck ==
    /\ pc = "parse" /\ command \in {"check", "compile"}
    /\ pc' = "check"
    /\ UNCHANGED <<parser, engine, held, stdout, failed, exit_code>>

(* do_check.                                                               *)
CheckFails ==
    /\ pc = "check"
    /\ Report(CheckErrorLevel, "TypeCheck")
    /\ failed' = "check" /\ pc' = "free_tokens"
    /\ UNCHANGED <<parser, held, stdout, exit_code>>

Check ==
    /\ pc = "check" /\ command = "check"
    /\ FinishStage("typed item", "Driver")
    /\ pc' = "free_tokens"
    /\ UNCHANGED <<parser, held, failed, exit_code>>

(* do_compile looks at neither option.                                     *)
Compile ==
    /\ pc = "check" /\ command = "compile"
    /\ bytecode' = "live"
    /\ stdout' = "bytecode"
    /\ pc' = "delete_bytecode"
    /\ UNCHANGED <<parser, engine, ast, file, tokens, failed, exit_code>>

-----------------------------------------------------------------------------
(* The way back through do_compile, do_syntax, do_command and main.        *)
DeleteBytecode ==
    /\ pc = "delete_bytecode"
    /\ bytecode' = "freed" /\ pc' = "free_tokens"
    /\ UNCHANGED <<parser, engine, ast, file, tokens, stdout, failed, exit_code>>

FreeTokens ==
    /\ pc = "free_tokens"
    /\ tokens' = "freed" /\ pc' = "close_file"
    /\ UNCHANGED <<parser, engine, ast, file, bytecode, stdout, failed, exit_code>>

(* Standard input is not the driver's to close.                            *)
CloseFile ==
    /\ pc = "close_file"
    /\ file' = IF options.path = "-" THEN file ELSE "closed"
    /\ pc' = "delete_ast"
    /\ UNCHANGED <<parser, engine, ast, tokens, bytecode, stdout, failed, exit_code>>

DeleteAst ==
    /\ pc = "delete_ast"
    /\ ast' = "freed" /\ pc' = "exit"
    /\ UNCHANGED <<parser, engine, file, tokens, bytecode, stdout, failed, exit_code>>

Exit ==
    /\ pc = "exit"
    /\ exit_code' = IF has_errors THEN 1 ELSE 0
    /\ pc' = "exited"
    /\ UNCHANGED <<parser, engine, held, stdout, failed>>

Next ==
    \/ GetCommand \/ BadCommand
    \/ TakePath \/ MultipleInputFiles \/ TakeFlag \/ UnknownFlag
    \/ NoInputFile \/ OptionsDone \/ GiveUp
    \/ OpenStdin \/ OpenFile \/ OpenFails \/ ReadSource \/ ReadFails
    \/ LexFails \/ Tokenize \/ LexForParse
    \/ ParseFails \/ YaccFails \/ Parse \/ ParseForCheck
    \/ CheckFails \/ Check \/ Compile
    \/ DeleteBytecode \/ FreeTokens \/ CloseFile \/ DeleteAst \/ Exit

Spec == Init /\ [][Next]_vars

-----------------------------------------------------------------------------
(* The process fails if and only if it has told the user about an error.   *)
(* emit forgets earlier errors (diagnostic.c:77); the exit code is right   *)
(* only because no path of the driver emits a second diagnostic.           *)
ExitTellsTheTruth ==
    /\ Len(emitted) <= 1
    /\ pc = "exited" =>
          (exit_code = 1) = (usage \/ \E i \in DOMAIN emitted : emitted[i].level = "Error")

(* What the make targets rely on (unix.mak:145-147): without               *)
(* --expect-failure a run succeeds when every stage does; with it, when    *)
(* the stage the command names is the one that fails.                      *)
ExitAsAsked ==
    (pc = "exited" /\ command # "none" /\ ~(command = "compile" /\ options.expect_failure))
        => (exit_code = 0) = (failed = IF options.expect_failure THEN command ELSE "none")

(* Scripts can use what a run writes: a failing run writes no dump, and a  *)
(* quiet run that succeeds prints nothing on either stream.  compile is    *)
(* left out of the second part, it does not look at --quiet.               *)
CleanOutput ==
    pc = "exited" =>
        /\ exit_code = 1 => stdout = "nothing"
        /\ (exit_code = 0 /\ options.quiet /\ command # "compile") =>
              /\ stdout = "nothing"
              /\ \A i \in DOMAIN emitted : emitted[i].level = "Ignore"

(* On every way out everything made has been given back, in an order that  *)
(* keeps what the rest refers to: bytecode before tokens before the tree.  *)
NothingHeld ==
    /\ pc = "exited" => "live" \notin {ast, file, tokens, bytecode}
    /\ tokens = "live" => ast = "live"
    /\ bytecode = "live" => tokens = "live"
    /\ pc \in {"lex", "parse", "check"} => ast = "live"
=============================================================================
