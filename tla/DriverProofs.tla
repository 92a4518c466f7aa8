---------------------------- MODULE DriverProofs ----------------------------
(***************************************************************************)
(* Theorems about Driver for command lines of any length, and about        *)
(* SystemRead, the reading of the file the driver was given, whatever the  *)
(* kernel answers and however many signals come.                           *)
(***************************************************************************)
EXTENDS Driver, SystemRead, TLAPS

-----------------------------------------------------------------------------
(* Driver.  The inductive invariant says what each place in the program    *)
(* knows: what is held there, that no diagnostic has been emitted while    *)
(* the outcome is open, and from then on which diagnostic and which dump   *)
(* go with the outcome.                                                    *)
Options == options = [path |-> options.path, quiet |-> options.quiet,
                      expect_failure |-> options.expect_failure]
           /\ options.quiet \in BOOLEAN /\ options.expect_failure \in BOOLEAN

(* The state of the diagnostic engine: nothing emitted, or one diagnostic. *)
Silent == emitted = << >> /\ has_errors = FALSE
Told(level) == /\ DOMAIN emitted = {1} /\ Len(emitted) = 1
               /\ emitted[1].level = level
               /\ has_errors = (level = "Error")

Begun == {"main", "options", "options_done"}
Stages == {"read", "lex", "parse", "check"}
WayBack == {"delete_bytecode", "free_tokens", "close_file", "delete_ast"}

(* What is held where.                                                     *)
Ownership ==
    /\ pc \in Begun \cup Stages \cup WayBack \cup {"exit", "exited"}
    /\ ast = "live" <=> pc \in Stages \cup WayBack
    /\ tokens = "live" <=> pc \in {"parse", "check", "delete_bytecode", "free_tokens"}
    /\ bytecode = "live" <=> pc = "delete_bytecode"
    /\ file = "live" => /\ pc \in Stages \cup (WayBack \ {"delete_ast"})
                        /\ options.path # "-"

(* A stage after which the command stops.                                  *)
Finished ==
    /\ failed = "none" /\ command \in {"tokenize", "parse", "check"}
    /\ \/ options.expect_failure /\ Told("Error") /\ stdout = "nothing"
       \/ ~options.expect_failure /\ Silent /\ (options.quiet => stdout = "nothing")

Failed ==
    /\ stdout = "nothing"
    /\ \/ failed \in {"options", "open", "read", "yacc"} /\ Told("Error")
       \/ failed = "tokenize" /\ Told(SyntaxErrorLevel)
       \/ failed = "parse" /\ command # "tokenize" /\ Told(ParseErrorLevel)
       \/ failed = "check" /\ command \in {"check", "compile"} /\ Told(CheckErrorLevel)

Outcome == \/ Finished \/ Failed
           \/ failed = "none" /\ command = "compile" /\ Silent

Open == failed = "none" /\ Silent /\ stdout = "nothing"

Course ==
    /\ command \in Commands \cup {"none"}
    /\ pc \notin {"main", "exited"} => command # "none"
    /\ usage = (pc = "exited" /\ command = "none")
    /\ pc \in {"main", "options"} \cup Stages => Open
    /\ pc \in {"parse", "check"} => command \notin {"none", "tokenize"}
    /\ pc = "check" => command \in {"check", "compile"}
    /\ pc = "options_done" => Open \/ (Failed /\ failed = "options")
    /\ pc \in WayBack \cup {"exit"} => Outcome
    /\ pc = "exited" =>
          IF command = "none"
          THEN exit_code = 1 /\ Silent /\ stdout = "nothing" /\ failed = "usage"
          ELSE Outcome /\ exit_code = IF has_errors THEN 1 ELSE 0

DInv == Options /\ Ownership /\ Course


-----------------------------------------------------------------------------
LEMMA InitDInv == Init => DInv
  <1> SUFFICES ASSUME Init PROVE DInv
    OBVIOUS
  <1>1. Options
    BY DEF Init, Options
  <1>2. Ownership
    BY DEF Init, Ownership, Begun, Stages, WayBack
  <1>3. Course
    BY DEF Init, Course, Open, Silent, Stages, WayBack, Begun
  <1> QED BY <1>1, <1>2, <1>3 DEF DInv

LEMMA StepOptions == DInv /\ [Next]_vars => Options'
  <1> SUFFICES ASSUME DInv, [Next]_vars PROVE Options'
    OBVIOUS
  <1> USE DEF Options, DInv
  <1>1. CASE TakePath
    BY <1>1, SMT DEF TakePath
  <1>2. CASE TakeFlag
    <2> DEFINE q == options.quiet \/ Head(args) = "--quiet"
               e == options.expect_failure \/ Head(args) = "--expect-failure"
    <2>1. q \in BOOLEAN /\ e \in BOOLEAN
      BY Zenon
    <2>2. options' = [options EXCEPT !.quiet = q, !.expect_failure = e]
      BY <1>2, Zenon DEF TakeFlag
    <2> HIDE DEF q, e
    <2>3. /\ options'.quiet = q /\ options'.expect_failure = e
          /\ options'.path = options.path
      BY <2>2
    <2>4. options' = [path |-> options'.path, quiet |-> options'.quiet,
                      expect_failure |-> options'.expect_failure]
      BY <2>2
    <2> QED BY <2>1, <2>3, <2>4
  <1>3. CASE UNCHANGED options
    BY <1>3, SMT
  <1> QED BY <1>1, <1>2, <1>3
          DEF Next, vars, parser, OptionsError,
             GetCommand, BadCommand, MultipleInputFiles, UnknownFlag,
             NoInputFile, OptionsDone, GiveUp, OpenStdin, OpenFile,
             OpenFails, ReadSource, ReadFails, LexFails, Tokenize,
             LexForParse, ParseFails, YaccFails, Parse, ParseForCheck,
             CheckFails, Check, Compile, DeleteBytecode, FreeTokens,
             CloseFile, DeleteAst, Exit

LEMMA StepOwnership == DInv /\ [Next]_vars => Ownership'
  <1> SUFFICES ASSUME DInv, [Next]_vars PROVE Ownership'
    OBVIOUS
  <1> USE DEF DInv, Options, Ownership, Begun, Stages, WayBack, parser, held
  <1>1. CASE GetCommand
    BY <1>1 DEF GetCommand
  <1>2. CASE BadCommand
    BY <1>2 DEF BadCommand
  <1>3. CASE TakePath
    BY <1>3 DEF TakePath
  <1>4. CASE MultipleInputFiles
    BY <1>4 DEF MultipleInputFiles, OptionsError
  <1>5. CASE TakeFlag
    BY <1>5 DEF TakeFlag
  <1>6. CASE UnknownFlag
    BY <1>6 DEF UnknownFlag, OptionsError
  <1>7. CASE NoInputFile
    BY <1>7 DEF NoInputFile, OptionsError
  <1>8. CASE OptionsDone
    BY <1>8 DEF OptionsDone
  <1>9. CASE GiveUp
    BY <1>9 DEF GiveUp
  <1>10. CASE OpenStdin
    BY <1>10 DEF OpenStdin
  <1>11. CASE OpenFile
    BY <1>11 DEF OpenFile
  <1>12. CASE OpenFails
    BY <1>12 DEF OpenFails
  <1>13. CASE ReadSource
    BY <1>13 DEF ReadSource
  <1>14. CASE ReadFails
    BY <1>14 DEF ReadFails
  <1>15. CASE LexFails
    BY <1>15 DEF LexFails
  <1>16. CASE Tokenize
    BY <1>16 DEF Tokenize
  <1>17. CASE LexForParse
    BY <1>17 DEF LexForParse
  <1>18. CASE ParseFails
    BY <1>18 DEF ParseFails
  <1>19. CASE YaccFails
    BY <1>19 DEF YaccFails
  <1>20. CASE Parse
    BY <1>20 DEF Parse
  <1>21. CASE ParseForCheck
    BY <1>21 DEF ParseForCheck
  <1>22. CASE CheckFails
    BY <1>22 DEF CheckFails
  <1>23. CASE Check
    BY <1>23 DEF Check
  <1>24. CASE Compile
    BY <1>24 DEF Compile
  <1>25. CASE DeleteBytecode
    BY <1>25 DEF DeleteBytecode
  <1>26. CASE FreeTokens
    BY <1>26 DEF FreeTokens
  <1>27. CASE CloseFile
    BY <1>27 DEF CloseFile
  <1>28. CASE DeleteAst
    BY <1>28 DEF DeleteAst
  <1>29. CASE Exit
    BY <1>29 DEF Exit
  <1>30. CASE UNCHANGED vars
    BY <1>30, SMT DEF vars
  <1> QED BY <1>1, <1>2, <1>3, <1>4, <1>5, <1>6, <1>7, <1>8, <1>9,
             <1>10, <1>11, <1>12, <1>13, <1>14, <1>15, <1>16, <1>17,
             <1>18, <1>19, <1>20, <1>21, <1>22, <1>23, <1>24, <1>25,
             <1>26, <1>27, <1>28, <1>29, <1>30 DEF Next

(* One diagnostic and no other, when nothing has been emitted before.      *)
LEMMA ReportTells ==
    ASSUME Silent, NEW l, NEW c, Report(l, c)
    PROVE  /\ DOMAIN emitted' = {1} /\ Len(emitted') = 1
           /\ emitted'[1].level = l
           /\ has_errors' = (l = "Error")
  <1> DEFINE r == [level |-> l, category |-> c]
  <1>1. emitted' = Append(<< >>, r) /\ has_errors' = (l = "Error")
    BY DEF Silent, Report
  <1>2. r.level = l
    OBVIOUS
  <1> HIDE DEF r
  <1>3. Append(<< >>, r) = <<r>>
    BY SMT
  <1>4. DOMAIN <<r>> = {1} /\ Len(<<r>>) = 1 /\ <<r>>[1] = r
    BY SMT
  <1> QED BY <1>1, <1>2, <1>3, <1>4

LEMMA OutcomeKept ==
    ASSUME UNCHANGED <<command, options, engine, stdout, failed>>
    PROVE  (Outcome => Outcome') /\ (Open => Open') /\ (Failed => Failed')
           /\ (Silent => Silent')
  BY DEF engine, Outcome, Finished, Failed, Open, Silent, Told, SyntaxErrorLevel,
         ParseErrorLevel, CheckErrorLevel, ExpectedLevel

(* A stage that dumps or misses its expected failure.                      *)
LEMMA FinishStageOutcome ==
    ASSUME DInv, Open, NEW what, NEW c, FinishStage(what, c),
           command \in {"tokenize", "parse", "check"},
           UNCHANGED <<command, options, failed>>
    PROVE  Outcome'
  <1>1. CASE options.expect_failure
    <2>1. Report("Error", c) /\ stdout' = "nothing" /\ Silent
      BY <1>1, Zenon DEF FinishStage, Open
    <2>2. Told("Error")'
      BY <2>1, ReportTells DEF Told
    <2> QED BY <1>1, <2>1, <2>2 DEF Open, Outcome, Finished
  <1>2. CASE ~options.expect_failure
    <2>1. UNCHANGED engine /\ (options.quiet => stdout' = "nothing")
      BY <1>2, Zenon DEF FinishStage, Open, NoReport
    <2>2. Silent'
      BY <2>1 DEF Open, Silent, engine
    <2> QED BY <1>2, <2>1, <2>2 DEF Open, Outcome, Finished
  <1> QED BY <1>1, <1>2

LEMMA StepCourse == DInv /\ [Next]_vars => Course'
  <1> SUFFICES ASSUME DInv, [Next]_vars PROVE Course'
    OBVIOUS
  <1> USE DEF DInv, Stages, WayBack
  <1>1. CASE GetCommand
    BY <1>1, OutcomeKept DEF Course, GetCommand, parser
  <1>2. CASE BadCommand
    BY <1>2 DEF Course, BadCommand, Open, Silent, engine
  <1>3. CASE TakePath
    BY <1>3 DEF Course, TakePath, Open, Silent, engine
  <1>4. CASE TakeFlag
    BY <1>4 DEF Course, TakeFlag, Open, Silent, engine
  <1>5. CASE MultipleInputFiles \/ UnknownFlag \/ NoInputFile
    <2>1. OptionsError /\ pc = "options"
      BY <1>5 DEF MultipleInputFiles, UnknownFlag, NoInputFile
    <2>2. Open
      BY <2>1 DEF Course
    <2>3. Told("Error")'
      BY <2>1, <2>2, ReportTells DEF Open, OptionsError, Told
    <2> QED BY <2>1, <2>2, <2>3 DEF Course, Open, Failed, OptionsError, parser
  <1>6. CASE OptionsDone
    BY <1>6, OutcomeKept DEF Course, OptionsDone, parser
  <1>7. CASE GiveUp
    <2>1. ~Open
      BY <1>7 DEF GiveUp, Open, Silent
    <2> QED BY <1>7, <2>1, OutcomeKept DEF Course, GiveUp, parser, Outcome
  <1>8. CASE OpenStdin \/ OpenFile
    <2>1. pc = "options_done" /\ ~has_errors /\ pc' = "read"
          /\ UNCHANGED <<parser, engine, stdout, failed>>
      BY <1>8 DEF OpenStdin, OpenFile
    <2>2. Open
      <3>1. ~(Failed /\ failed = "options")
        BY <2>1 DEF Failed, Told
      <3> QED BY <2>1, <3>1 DEF Course
    <2> QED BY <2>1, <2>2, OutcomeKept DEF Course, parser
  <1>9. CASE OpenFails
    <2>1. Open
      <3>1. ~(Failed /\ failed = "options")
        BY <1>9 DEF OpenFails, Failed, Told
      <3> QED BY <1>9, <3>1 DEF Course, OpenFails
    <2>2. Told("Error")'
      BY <1>9, <2>1, ReportTells DEF Open, OpenFails, Told
    <2>3. Outcome'
      BY <1>9, <2>1, <2>2 DEF OpenFails, Open, Outcome, Failed
    <2> QED BY <1>9, <2>3 DEF Course, OpenFails, parser
  <1>10. CASE ReadSource \/ LexForParse \/ ParseForCheck
    <2>1. /\ pc \in Stages /\ pc' \in Stages
          /\ UNCHANGED <<parser, engine, stdout, failed>>
      BY <1>10 DEF ReadSource, LexForParse, ParseForCheck
    <2>2. (pc' \in {"parse", "check"} => command \notin {"none", "tokenize"})
          /\ (pc' = "check" => command \in {"check", "compile"})
      BY <1>10 DEF Course, ReadSource, LexForParse, ParseForCheck
    <2> QED BY <2>1, <2>2, OutcomeKept DEF Course, parser
  <1>11. CASE ReadFails
    <2>1. Open
      BY <1>11 DEF Course, ReadFails
    <2>2. Told("Error")'
      BY <1>11, <2>1, ReportTells DEF Open, ReadFails, Told
    <2>3. Outcome'
      BY <1>11, <2>1, <2>2 DEF ReadFails, Open, Outcome, Failed
    <2> QED BY <1>11, <2>3 DEF Course, ReadFails, parser
  <1>12. CASE LexFails
    <2>1. Open
      BY <1>12 DEF Course, LexFails
    <2>2. SyntaxErrorLevel' = SyntaxErrorLevel
      BY <1>12 DEF LexFails, parser, SyntaxErrorLevel, ExpectedLevel
    <2>3. Told(SyntaxErrorLevel)'
      BY <1>12, <2>1, <2>2, ReportTells DEF Open, LexFails, Told
    <2>4. Outcome'
      BY <1>12, <2>1, <2>3 DEF LexFails, Open, Outcome, Failed
    <2> QED BY <1>12, <2>4 DEF Course, LexFails, parser
  <1>13. CASE ParseFails
    <2>1. Open /\ command # "tokenize"
      BY <1>13 DEF Course, ParseFails
    <2>2. ParseErrorLevel' = ParseErrorLevel
      BY <1>13 DEF ParseFails, parser, ParseErrorLevel, ExpectedLevel
    <2>3. Told(ParseErrorLevel)'
      BY <1>13, <2>1, <2>2, ReportTells DEF Open, ParseFails, Told
    <2>4. Outcome'
      BY <1>13, <2>1, <2>3 DEF ParseFails, Open, Outcome, Failed, parser
    <2> QED BY <1>13, <2>4 DEF Course, ParseFails, parser
  <1>14. CASE YaccFails
    <2>1. Open
      BY <1>14 DEF Course, YaccFails
    <2>2. Told("Error")'
      BY <1>14, <2>1, ReportTells DEF Open, YaccFails, Told
    <2>3. Outcome'
      BY <1>14, <2>1, <2>2 DEF YaccFails, Open, Outcome, Failed
    <2> QED BY <1>14, <2>3 DEF Course, YaccFails, parser
  <1>15. CASE CheckFails
    <2>1. Open /\ command \in {"check", "compile"}
      BY <1>15 DEF Course, CheckFails
    <2>2. CheckErrorLevel' = CheckErrorLevel
      BY <1>15 DEF CheckFails, parser, CheckErrorLevel, ExpectedLevel
    <2>3. Told(CheckErrorLevel)'
      BY <1>15, <2>1, <2>2, ReportTells DEF Open, CheckFails, Told
    <2>4. Outcome'
      BY <1>15, <2>1, <2>3 DEF CheckFails, Open, Outcome, Failed, parser
    <2> QED BY <1>15, <2>4 DEF Course, CheckFails, parser
  <1>16. CASE Tokenize
    <2>1. Outcome'
      BY <1>16, FinishStageOutcome DEF Course, Tokenize, parser
    <2> QED BY <1>16, <2>1 DEF Course, Tokenize, parser
  <1>17. CASE Parse
    <2>1. Outcome'
      BY <1>17, FinishStageOutcome DEF Course, Parse, parser
    <2> QED BY <1>17, <2>1 DEF Course, Parse, parser
  <1>18. CASE Check
    <2>1. Outcome'
      BY <1>18, FinishStageOutcome DEF Course, Check, parser
    <2> QED BY <1>18, <2>1 DEF Course, Check, parser
  <1>19. CASE Compile
    <2>1. Open
      BY <1>19 DEF Course, Compile
    <2>2. Silent'
      BY <1>19, <2>1 DEF Compile, Open, Silent, engine
    <2>3. Outcome'
      BY <1>19, <2>1, <2>2 DEF Compile, Open, Outcome, parser
    <2> QED BY <1>19, <2>3 DEF Course, Compile, parser
  <1>20. CASE DeleteBytecode \/ FreeTokens \/ CloseFile \/ DeleteAst
    <2>1. /\ pc \in WayBack /\ pc' \in WayBack \cup {"exit"}
          /\ UNCHANGED <<parser, engine, stdout, failed>>
      BY <1>20 DEF DeleteBytecode, FreeTokens, CloseFile, DeleteAst
    <2> QED BY <2>1, OutcomeKept DEF Course, parser
  <1>21. CASE Exit
    <2>1. Outcome'
      BY <1>21, OutcomeKept DEF Course, Exit, parser
    <2>2. exit_code' = IF has_errors' THEN 1 ELSE 0
      BY <1>21 DEF Exit, engine
    <2> QED BY <1>21, <2>1, <2>2 DEF Course, Exit, parser
  <1>22. CASE UNCHANGED vars
    <2>1. UNCHANGED <<pc, usage, exit_code, command, options, engine, stdout, failed>>
      BY <1>22 DEF vars, parser
    <2> QED BY <2>1, OutcomeKept DEF Course, engine
  <1> QED BY <1>1, <1>2, <1>3, <1>4, <1>5, <1>6, <1>7, <1>8, <1>9, <1>10, <1>11,
             <1>12, <1>13, <1>14, <1>15, <1>16, <1>17, <1>18, <1>19, <1>20,
             <1>21, <1>22 DEF Next

LEMMA AlwaysDInv == Spec => []DInv
  <1>1. DInv /\ [Next]_vars => DInv'
    BY StepOptions, StepOwnership, StepCourse DEF DInv
  <1> QED BY InitDInv, <1>1, PTL DEF Spec

-----------------------------------------------------------------------------
(* What the end of a run that got past its first word knows.               *)
LEMMA AtTheEnd ==
    ASSUME DInv, pc = "exited", command # "none"
    PROVE  Outcome /\ exit_code = (IF has_errors THEN 1 ELSE 0) /\ ~usage
  BY DEF DInv, Course

LEMMA WithoutACommand ==
    ASSUME DInv, pc = "exited", command = "none"
    PROVE  exit_code = 1 /\ Silent /\ stdout = "nothing" /\ usage
  BY DEF DInv, Course

(* Every outcome has a diagnostic of its own level, or none.               *)
LEMMA OutcomeTells ==
    ASSUME Outcome
    PROVE  Silent \/ \E l : Told(l)
  BY DEF Outcome, Finished, Failed

LEMMA AtMostOne ==
    ASSUME DInv
    PROVE  Silent \/ \E l : Told(l)
  <1>1. CASE pc \in {"main", "options", "options_done"} \cup Stages
    BY <1>1 DEF DInv, Course, Open, Failed
  <1>2. CASE pc \in WayBack \cup {"exit"}
    BY <1>2, OutcomeTells DEF DInv, Course
  <1>3. CASE pc = "exited"
    BY <1>3, AtTheEnd, WithoutACommand, OutcomeTells
  <1> QED BY <1>1, <1>2, <1>3 DEF DInv, Ownership, Begun

LEMMA ErrorsCounted ==
    ASSUME Silent \/ \E l : Told(l)
    PROVE  /\ Len(emitted) <= 1
           /\ has_errors = \E i \in DOMAIN emitted : emitted[i].level = "Error"
           /\ has_errors \in BOOLEAN
  <1>1. CASE Silent
    <2>1. emitted = << >> /\ has_errors = FALSE
      BY <1>1 DEF Silent
    <2>2. DOMAIN emitted = {} /\ Len(emitted) <= 1
      BY <2>1, SMT
    <2>3. ~ \E i \in DOMAIN emitted : emitted[i].level = "Error"
      BY <2>2, Zenon
    <2> QED BY <2>1, <2>2, <2>3, Zenon
  <1>2. CASE \E l : Told(l)
    <2> PICK l : Told(l)
      BY <1>2
    <2> DEFINE E == \E i \in DOMAIN emitted : emitted[i].level = "Error"
    <2>1. E <=> l = "Error"
      BY Zenon DEF Told
    <2>2. Len(emitted) <= 1
      BY SMT DEF Told
    <2>3. has_errors = (l = "Error")
      BY DEF Told
    <2>4. (l = "Error") = E
      BY <2>1, Zenon
    <2>5. (l = "Error") \in BOOLEAN
      OBVIOUS
    <2> QED BY <2>2, <2>3, <2>4, <2>5, Zenon DEF E
  <1> QED BY <1>1, <1>2

(* What was said of the first thing that went wrong.                       *)
LEMMA FailedTells ==
    ASSUME Failed, options.quiet \in BOOLEAN, options.expect_failure \in BOOLEAN,
           command \in Commands
    PROVE  /\ has_errors = FALSE =>
                /\ options.expect_failure
                /\ IF failed = "check" THEN command \in {"check", "compile"}
                                       ELSE failed = command
                /\ Told(ExpectedLevel)
           /\ has_errors = TRUE =>
                /\ failed # "none"
                /\ options.expect_failure /\ command # "compile" => failed # command
           /\ has_errors \in BOOLEAN
  <1>1. \A l : Told(l) => has_errors = (l = "Error")
    BY DEF Told
  <1>2. ExpectedLevel # "Error"
    BY DEF ExpectedLevel
  <1>3. CASE failed \in {"options", "open", "read", "yacc"} /\ Told("Error")
    BY <1>1, <1>3 DEF Commands
  <1>4. CASE failed = "tokenize" /\ Told(SyntaxErrorLevel)
    BY <1>1, <1>2, <1>4 DEF SyntaxErrorLevel
  <1>5. CASE failed = "parse" /\ command # "tokenize" /\ Told(ParseErrorLevel)
    BY <1>1, <1>2, <1>5 DEF ParseErrorLevel
  <1>6. CASE failed = "check" /\ command \in {"check", "compile"} /\ Told(CheckErrorLevel)
    BY <1>1, <1>2, <1>6 DEF CheckErrorLevel
  <1> QED BY <1>3, <1>4, <1>5, <1>6 DEF Failed

(* The exit code and the diagnostics agree, for every command line: the    *)
(* engine's has_errors, which emit overwrites, is never overwritten.       *)
THEOREM ExitTells == Spec => []ExitTellsTheTruth
  <1>1. DInv => ExitTellsTheTruth
    <2> SUFFICES ASSUME DInv PROVE ExitTellsTheTruth
      OBVIOUS
    <2> DEFINE E == \E i \in DOMAIN emitted : emitted[i].level = "Error"
    <2>1. Len(emitted) <= 1 /\ has_errors = E /\ has_errors \in BOOLEAN
      BY AtMostOne, ErrorsCounted
    <2> HIDE DEF E
    <2>2. ASSUME pc = "exited" PROVE (exit_code = 1) = (usage \/ E)
      <3>1. CASE command = "none"
        BY <2>2, <3>1, WithoutACommand
      <3>2. CASE command # "none"
        BY <2>2, <3>2, <2>1, AtTheEnd
      <3> QED BY <3>1, <3>2
    <2> QED BY <2>1, <2>2 DEF ExitTellsTheTruth, E
  <1> QED BY <1>1, AlwaysDInv, PTL

(* A run succeeds exactly when the user's expectation has come true.       *)
THEOREM ExitAsExpected == Spec => []ExitAsAsked
  <1>1. DInv => ExitAsAsked
    <2> SUFFICES ASSUME DInv, pc = "exited", command # "none",
                        ~(command = "compile" /\ options.expect_failure)
                 PROVE  (exit_code = 0) = (failed = IF options.expect_failure
                                                    THEN command ELSE "none")
      BY DEF ExitAsAsked
    <2>1. Outcome /\ exit_code = (IF has_errors THEN 1 ELSE 0)
      BY AtTheEnd
    <2>2. command \in Commands
      BY DEF DInv, Course
    <2>3. options.expect_failure \in BOOLEAN
      BY DEF DInv, Options
    <2>4. CASE Finished
      BY <2>1, <2>3, <2>4 DEF Finished, Silent, Told
    <2>5. CASE Failed
      <3>1. options.quiet \in BOOLEAN
        BY DEF DInv, Options
      <3>2. CASE has_errors = FALSE
        BY <2>1, <2>2, <2>3, <2>5, <3>1, <3>2, FailedTells
      <3>3. CASE has_errors = TRUE
        BY <2>1, <2>2, <2>3, <2>5, <3>1, <3>3, FailedTells
      <3> QED BY <2>2, <2>3, <2>5, <3>1, <3>2, <3>3, FailedTells
    <2>6. CASE failed = "none" /\ command = "compile" /\ Silent
      BY <2>1, <2>3, <2>6 DEF Silent
    <2> QED BY <2>1, <2>4, <2>5, <2>6 DEF Outcome
  <1> QED BY <1>1, AlwaysDInv, PTL

(* No dump of a run that fails, not a word from a quiet one that succeeds. *)
THEOREM OutputIsClean == Spec => []CleanOutput
  <1>1. DInv => CleanOutput
    <2> SUFFICES ASSUME DInv, pc = "exited"
                 PROVE  /\ exit_code = 1 => stdout = "nothing"
                        /\ (exit_code = 0 /\ options.quiet /\ command # "compile") =>
                              /\ stdout = "nothing"
                              /\ \A i \in DOMAIN emitted : emitted[i].level = "Ignore"
      BY DEF CleanOutput
    <2>1. CASE command = "none"
      BY <2>1, WithoutACommand
    <2>2. CASE command # "none"
      <3>1. Outcome /\ exit_code = (IF has_errors THEN 1 ELSE 0)
        BY <2>2, AtTheEnd
      <3>2. ASSUME Silent PROVE DOMAIN emitted = {} /\ exit_code = 0
        BY <3>1, <3>2 DEF Silent
      <3>3. CASE Finished
        <4>1. options.expect_failure \in BOOLEAN
          BY DEF DInv, Options
        <4>2. CASE options.expect_failure
          <5>1. has_errors = TRUE /\ stdout = "nothing"
            BY <3>3, <4>2 DEF Finished, Told
          <5> QED BY <3>1, <5>1
        <4>3. CASE ~options.expect_failure
          BY <3>2, <3>3, <4>3 DEF Finished
        <4> QED BY <4>1, <4>2, <4>3
      <3>4. CASE Failed
        <4>1. /\ options.quiet \in BOOLEAN /\ options.expect_failure \in BOOLEAN
              /\ command \in Commands
          BY <2>2 DEF DInv, Options, Course
        <4>2. stdout = "nothing"
          BY <3>4 DEF Failed
        <4>3. CASE has_errors = TRUE
          BY <3>1, <4>2, <4>3
        <4>4. CASE has_errors = FALSE
          <5>1. Told(ExpectedLevel)
            BY <3>4, <4>1, <4>4, FailedTells
          <5> QED BY <4>2, <5>1 DEF Told, ExpectedLevel
        <4> QED BY <3>4, <4>1, <4>3, <4>4, FailedTells
      <3>5. CASE failed = "none" /\ command = "compile" /\ Silent
        BY <3>2, <3>5
      <3> QED BY <3>1, <3>3, <3>4, <3>5 DEF Outcome
    <2> QED BY <2>1, <2>2
  <1> QED BY <1>1, AlwaysDInv, PTL

(* Every way out gives back what was made, whichever step failed.          *)
THEOREM EverythingGivenBack == Spec => []NothingHeld
  <1>1. DInv => NothingHeld
    BY DEF DInv, Ownership, NothingHeld, Stages, WayBack, Begun
  <1> QED BY <1>1, AlwaysDInv, PTL

-----------------------------------------------------------------------------
(* SystemRead.  Nothing leaks for any constants.  That the bytes stay in   *)
(* the buffer depends on the capacities: a chunk asks for SizeofSize bytes *)
(* whatever is free, so as long as bytes are left to read the capacity has *)
(* to be a multiple of it.  With the constants of the code it is for files *)
(* of up to 8748 bytes.                                                    *)

(* What read_pc says of the descriptor, the result and the       *)
(* buffer.                                                                 *)
Held ==
    /\ read_pc \in {"open", "alloc", "read", "chunk", "close", "exit"}
    /\ read_pc = "open" => fd = "none"
    /\ read_pc \in {"alloc", "read", "chunk"} => fd \in {"stdin", "open"}
    /\ read_pc = "close" => fd \in {"open", "closed"}
    /\ read_pc = "exit" => fd \in {"none", "stdin", "closed"}
    /\ read_pc \in {"open", "alloc"} => allocated = 0
    /\ read_pc \in {"read", "chunk"} => allocated = capacity /\ capacity >= 2
    /\ res \in {"none", "success", "errno"}
    /\ read_pc \in {"open", "alloc", "read", "chunk"} <=> res = "none"
    /\ res = "success" => allocated > 0
    /\ res = "errno" => allocated = 0

(* Types, and the arithmetic of one chunk.                                 *)
Cursors ==
    /\ file_size \in FileSizes /\ left \in 0 .. file_size
    /\ allocated \in Nat /\ capacity \in Nat /\ size \in Nat
    /\ at \in Nat /\ room \in Nat /\ chunk_read \in Nat
    /\ read_pc \in {"open", "alloc"} => left = file_size
    /\ read_pc \in {"read", "chunk"} =>
          /\ at = file_size - left /\ at = size + chunk_read
          /\ room + chunk_read = SizeofSize
    /\ read_pc = "chunk" => left = 0 \/ room = 0

HInv == Held /\ Cursors

LEMMA TypesOfConstants ==
    /\ FileSizes \subseteq Nat /\ InitialCapacity \in Nat /\ InitialCapacity >= 2
    /\ SizeofSize \in Nat /\ SizeofSize > 0
  BY SystemReadAssumption, SMT

LEMMA GrownFacts ==
    ASSUME NEW n \in Nat, n > 1
    PROVE  Grown(n) \in Nat /\ Grown(n) > n
  BY SMT DEF Grown

LEMMA MinOfTwo ==
    ASSUME NEW a \in Nat, NEW b \in Nat
    PROVE  Min({a, b}) \in Nat /\ Min({a, b}) <= a /\ Min({a, b}) <= b
  <1>1. \E x \in {a, b} : \A y \in {a, b} : x <= y
    BY SMT
  <1>2. Min({a, b}) \in {a, b} /\ \A y \in {a, b} : Min({a, b}) <= y
    BY <1>1, Zenon DEF Min
  <1> QED BY <1>2, SMT

-----------------------------------------------------------------------------
(* HInv is inductive, for all constants.                                   *)

LEMMA InitHInv == ReadInit => HInv
  <1> SUFFICES ASSUME ReadInit PROVE HInv
    OBVIOUS
  <1>1. Held
    BY SMT DEF ReadInit, Held
  <1>2. Cursors
    BY TypesOfConstants, SMT DEF ReadInit, Cursors
  <1> QED BY <1>1, <1>2 DEF HInv

LEMMA StepHeld == HInv /\ [ReadNext]_read_vars => Held'
  <1> SUFFICES ASSUME HInv, [ReadNext]_read_vars PROVE Held'
    OBVIOUS
  <1> USE DEF HInv, Held
  <1>1. CASE Interrupted
    BY <1>1, SMT DEF Interrupted, buffer, chunk
  <1>2. CASE OpenRead
    BY <1>2, SMT DEF OpenRead, buffer, chunk
  <1>3. CASE Allocate
    BY <1>3, TypesOfConstants, SMT DEF Allocate, StartChunk
  <1>4. CASE ReadBytes
    BY <1>4, SMT DEF ReadBytes, buffer
  <1>5. CASE ReadNothing
    BY <1>5, SMT DEF ReadNothing, buffer, chunk
  <1>6. CASE ReadAllFails
    BY <1>6, SMT DEF ReadAllFails, AfterReadAll, chunk
  <1>7. CASE NextChunk
    <2>1. capacity' = capacity \/ capacity' = Grown(capacity)
      BY <1>7, SMT DEF NextChunk, StartChunk
    <2>2. capacity' \in Nat /\ capacity' >= 2
      BY <1>7, <2>1, GrownFacts, SMT DEF Cursors, NextChunk
    <2> QED BY <1>7, <2>2, SMT DEF NextChunk, StartChunk
  <1>8. CASE LastChunk
    BY <1>8, SMT DEF LastChunk, AfterReadAll, Cursors, chunk
  <1>9. CASE Close
    BY <1>9, SMT DEF Close, buffer, chunk
  <1>10. CASE UNCHANGED read_vars
    BY <1>10 DEF read_vars, buffer, chunk
  <1> QED BY <1>1, <1>2, <1>3, <1>4, <1>5, <1>6, <1>7, <1>8, <1>9, <1>10
          DEF ReadNext

LEMMA StepCursors == HInv /\ [ReadNext]_read_vars => Cursors'
  <1> SUFFICES ASSUME HInv, [ReadNext]_read_vars PROVE Cursors'
    OBVIOUS
  <1> USE TypesOfConstants DEF HInv, Cursors
  <1>1. CASE Interrupted
    BY <1>1, SMT DEF Interrupted, buffer, chunk
  <1>2. CASE OpenRead
    BY <1>2, SMT DEF OpenRead, buffer, chunk
  <1>3. CASE Allocate
    BY <1>3, SMT DEF Allocate, StartChunk
  <1>4. CASE ReadBytes
    <2>1. PICK nread \in 1 .. Min({left, room}) :
              /\ left' = left - nread /\ at' = at + nread
              /\ room' = room - nread /\ chunk_read' = chunk_read + nread
      BY <1>4 DEF ReadBytes
    <2>2. nread \in Nat /\ nread <= left /\ nread <= room
      BY <2>1, MinOfTwo, SMT
    <2> QED BY <1>4, <2>1, <2>2, SMT DEF ReadBytes, buffer
  <1>5. CASE ReadNothing
    BY <1>5, SMT DEF ReadNothing, buffer, chunk
  <1>6. CASE ReadAllFails
    BY <1>6, SMT DEF ReadAllFails, AfterReadAll, chunk
  <1>7. CASE NextChunk
    <2>1. capacity' \in Nat
      BY <1>7, GrownFacts, SMT DEF NextChunk, StartChunk, Held
    <2> QED BY <1>7, <2>1, SMT DEF NextChunk, StartChunk
  <1>8. CASE LastChunk
    BY <1>8, SMT DEF LastChunk, AfterReadAll, chunk
  <1>9. CASE Close
    BY <1>9, SMT DEF Close, buffer, chunk
  <1>10. CASE UNCHANGED read_vars
    BY <1>10 DEF read_vars, buffer, chunk
  <1> QED BY <1>1, <1>2, <1>3, <1>4, <1>5, <1>6, <1>7, <1>8, <1>9, <1>10
          DEF ReadNext

LEMMA AlwaysHInv == ReadSpec => []HInv
  <1> QED BY InitHInv, StepHeld, StepCursors, PTL DEF ReadSpec, HInv

(* A file that was opened is closed and a buffer is freed or handed up, on *)
(* every path through read_all and for every answer of the kernel.         *)
THEOREM LeavesNothing == ReadSpec => []NothingLeaked
  <1>1. HInv => NothingLeaked
    BY SMT DEF HInv, Held, Cursors, NothingLeaked
  <1> QED BY <1>1, AlwaysHInv, PTL

-----------------------------------------------------------------------------
(* Why the bytes fit, although a chunk asks for SizeofSize bytes whatever  *)
(* is free.                                                                *)

Multiple(n) == \E k \in Nat : n = k * SizeofSize

(* C holds every capacity the buffer can get while bytes are left to read, *)
(* and the first one after; the former are multiples of SizeofSize.        *)
CapacitiesFit(C) ==
    /\ InitialCapacity \in C /\ C \subseteq Nat
    /\ \A c \in C : (\E f \in FileSizes : c < f) => Multiple(c) /\ Grown(c) \in C

(* As long as a chunk may still deliver bytes it began inside the buffer,  *)
(* at a multiple of its own size.                                          *)
ChunkFits(C) ==
    /\ read_pc \in {"read", "chunk"} =>
          /\ at <= capacity
          /\ (left > 0 \/ chunk_read > 0) =>
                capacity \in C /\ Multiple(size) /\ size < capacity
    /\ res = "success" => /\ left = 0 /\ size = file_size
                          /\ terminator = size /\ terminator < allocated

LEMMA NextMultiple ==
    ASSUME NEW a \in Nat, NEW b \in Nat, Multiple(a), Multiple(b), a < b
    PROVE  Multiple(a + SizeofSize) /\ a + SizeofSize <= b
  <1>1. PICK k \in Nat : a = k * SizeofSize
    BY DEF Multiple
  <1>2. PICK m \in Nat : b = m * SizeofSize
    BY DEF Multiple
  <1>3. a + SizeofSize = (k + 1) * SizeofSize
    BY <1>1, TypesOfConstants, SMT
  <1>4. k < m
    <2> SUFFICES ASSUME m <= k PROVE FALSE
      BY SMT
    <2>1. PICK d \in Nat : k = m + d
      BY SMT
    <2>2. k * SizeofSize = m * SizeofSize + d * SizeofSize
      BY <2>1, TypesOfConstants, SMT
    <2>3. d * SizeofSize \in Nat
      BY TypesOfConstants, SMT
    <2>4. a = b + d * SizeofSize
      BY <1>1, <1>2, <2>2
    <2> QED BY <2>3, <2>4, SMT
  <1>5. PICK d \in Nat : m = (k + 1) + d
    BY <1>4, SMT
  <1>6. m * SizeofSize = (k + 1) * SizeofSize + d * SizeofSize
    BY <1>5, TypesOfConstants, SMT
  <1>7. d * SizeofSize >= 0
    BY TypesOfConstants, SMT
  <1>8. k + 1 \in Nat
    BY SMT
  <1> QED BY <1>2, <1>3, <1>6, <1>7, <1>8, TypesOfConstants, SMT DEF Multiple

LEMMA InitChunkFits ==
    ASSUME NEW C PROVE ReadInit => ChunkFits(C)
  BY SMT DEF ReadInit, ChunkFits

(* One more read of a chunk stays inside, either because a whole chunk     *)
(* does or because the rest of the file does.                              *)
LEMMA ReadStaysInside ==
    ASSUME NEW C, CapacitiesFit(C), HInv, ChunkFits(C), ReadBytes
    PROVE  ChunkFits(C)'
  <1>1. PICK nread \in 1 .. Min({left, room}) :
            /\ left' = left - nread /\ at' = at + nread
            /\ room' = room - nread /\ chunk_read' = chunk_read + nread
    BY DEF ReadBytes
  <1>2. /\ left \in Nat /\ room \in Nat /\ capacity \in Nat /\ size \in Nat
        /\ chunk_read \in Nat /\ file_size \in Nat /\ file_size \in FileSizes
        /\ at = file_size - left /\ at = size + chunk_read
        /\ room + chunk_read = SizeofSize /\ read_pc = "read" /\ res = "none"
    BY TypesOfConstants, SMT DEF HInv, Held, Cursors, ReadBytes
  <1>3. nread \in Nat /\ nread > 0 /\ nread <= left /\ nread <= room
    BY <1>1, <1>2, MinOfTwo, SMT
  <1>4. capacity \in C /\ Multiple(size) /\ size < capacity
    BY <1>2, <1>3, SMT DEF ChunkFits
  <1>5. at + nread <= capacity
    <2>1. CASE capacity < file_size
      <3>1. Multiple(capacity)
        BY <1>2, <1>4, <2>1, Zenon DEF CapacitiesFit
      <3>2. size + SizeofSize <= capacity
        BY <1>2, <1>4, <3>1, NextMultiple
      <3> QED BY <1>2, <1>3, <3>2, TypesOfConstants, SMT
    <2>2. CASE ~(capacity < file_size)
      BY <1>2, <1>3, <2>2, SMT
    <2> QED BY <2>1, <2>2
  <1>6. /\ capacity' = capacity /\ size' = size /\ read_pc' = read_pc /\ res' = res
        /\ at' <= capacity' /\ (Multiple(size))'
    BY <1>1, <1>4, <1>5, SMT DEF ReadBytes, buffer, Multiple
  <1> QED BY <1>2, <1>4, <1>6, SMT DEF ChunkFits

(* The next chunk begins inside the buffer, which grows when it is full.   *)
LEMMA NextStartsInside ==
    ASSUME NEW C, CapacitiesFit(C), HInv, ChunkFits(C), NextChunk
    PROVE  ChunkFits(C)'
  <1> DEFINE sz == size + chunk_read
             cap == IF capacity = sz THEN Grown(capacity) ELSE capacity
  <1>1. /\ left \in Nat /\ capacity \in Nat /\ capacity >= 2 /\ size \in Nat
        /\ chunk_read \in Nat /\ chunk_read > 0
        /\ file_size \in Nat /\ file_size \in FileSizes
        /\ at = file_size - left /\ at = sz /\ sz <= capacity
        /\ room + chunk_read = SizeofSize /\ (left = 0 \/ room = 0)
        /\ read_pc = "chunk" /\ res = "none"
    BY TypesOfConstants, SMT DEF HInv, Held, Cursors, NextChunk, ChunkFits
  <1>2. capacity \in C /\ Multiple(size) /\ size < capacity
    BY <1>1, SMT DEF ChunkFits
  <1>3. sz < cap
    BY <1>1, GrownFacts, SMT
  <1>4. left > 0 => cap \in C /\ Multiple(sz)
    <2> SUFFICES ASSUME left > 0 PROVE cap \in C /\ Multiple(sz)
      OBVIOUS
    <2>1. chunk_read = SizeofSize
      BY <1>1, TypesOfConstants, SMT
    <2>2. Multiple(sz)
      <3>1. PICK k \in Nat : size = k * SizeofSize
        BY <1>2 DEF Multiple
      <3>2. sz = (k + 1) * SizeofSize /\ k + 1 \in Nat
        BY <2>1, <3>1, TypesOfConstants, SMT
      <3> QED BY <3>2 DEF Multiple
    <2>3. CASE capacity = sz
      <3>1. capacity < file_size
        BY <1>1, <2>3, SMT
      <3>2. Grown(capacity) \in C
        BY <1>1, <1>2, <3>1, Zenon DEF CapacitiesFit
      <3> QED BY <2>2, <2>3, <3>2
    <2>4. CASE capacity # sz
      BY <1>2, <2>2, <2>4
    <2> QED BY <2>3, <2>4
  <1>5. /\ capacity' = cap /\ size' = sz /\ at' = sz /\ chunk_read' = 0
        /\ left' = left /\ res' = res
    BY SMT DEF NextChunk, StartChunk
  <1>6. (Multiple(size))' <=> Multiple(sz)
    BY <1>5, SMT DEF Multiple
  <1>7. cap \in Nat /\ sz \in Nat
    BY <1>1, GrownFacts, SMT
  <1> HIDE DEF cap, sz
  <1> QED BY <1>1, <1>3, <1>4, <1>5, <1>6, <1>7, SMT DEF ChunkFits

LEMMA StepChunkFits ==
    ASSUME NEW C, CapacitiesFit(C), HInv, ChunkFits(C), [ReadNext]_read_vars
    PROVE  ChunkFits(C)'
  <1>0. ASSUME size' = size PROVE (Multiple(size))' <=> Multiple(size)
    BY <1>0, SMT DEF Multiple
  <1>1. CASE Interrupted
    BY <1>0, <1>1, SMT DEF Interrupted, buffer, chunk, ChunkFits
  <1>2. CASE OpenRead
    BY <1>2, SMT DEF OpenRead, buffer, chunk, ChunkFits, HInv, Held
  <1>3. CASE Allocate
    <2>1. (Multiple(size))'
      <3>1. size' = 0 * SizeofSize
        BY <1>3, TypesOfConstants, SMT DEF Allocate, StartChunk
      <3> QED BY <3>1, SMT DEF Multiple
    <2>2. InitialCapacity \in C
      BY DEF CapacitiesFit
    <2> QED BY <1>3, <2>1, <2>2, TypesOfConstants, SMT
            DEF Allocate, StartChunk, ChunkFits, HInv, Held
  <1>4. CASE ReadBytes
    BY <1>4, ReadStaysInside
  <1>5. CASE ReadNothing
    BY <1>0, <1>5, SMT DEF ReadNothing, buffer, chunk, ChunkFits
  <1>6. CASE ReadAllFails
    BY <1>6, SMT DEF ReadAllFails, AfterReadAll, ChunkFits
  <1>7. CASE NextChunk
    BY <1>7, NextStartsInside
  <1>8. CASE LastChunk
    BY <1>8, TypesOfConstants, SMT
       DEF LastChunk, AfterReadAll, ChunkFits, HInv, Held, Cursors, chunk
  <1>9. CASE Close
    BY <1>9, SMT DEF Close, buffer, chunk, ChunkFits
  <1>10. CASE UNCHANGED read_vars
    BY <1>0, <1>10, SMT DEF read_vars, buffer, chunk, ChunkFits
  <1> QED BY <1>1, <1>2, <1>3, <1>4, <1>5, <1>6, <1>7, <1>8, <1>9, <1>10
          DEF ReadNext

LEMMA ChunkFitsMeans ==
    ASSUME NEW C, HInv, ChunkFits(C)
    PROVE  BytesInOrder /\ NulTerminated
  BY SMT DEF HInv, Held, Cursors, ChunkFits, BytesInOrder, NulTerminated

(* If every capacity reached with bytes left to read is a multiple of the  *)
(* chunk, then every byte is stored at its place, inside the buffer, and a *)
(* success is the whole file with a nul after it, for any short reads,     *)
(* interruptions and growth.                                               *)
THEOREM AlignedCapacitiesSuffice ==
    ASSUME NEW C, CapacitiesFit(C)
    PROVE  ReadSpec => [](BytesInOrder /\ NulTerminated)
  <1>1. ReadInit => ChunkFits(C)
    BY InitChunkFits
  <1>2. HInv /\ ChunkFits(C) /\ [ReadNext]_read_vars => ChunkFits(C)'
    BY StepChunkFits
  <1>3. HInv /\ ChunkFits(C) => BytesInOrder /\ NulTerminated
    BY ChunkFitsMeans
  <1> QED BY <1>1, <1>2, <1>3, AlwaysHInv, PTL DEF ReadSpec

(* With the constants of the code this covers every file of at most 8748   *)
(* bytes: 512 grows by halves through multiples of 8 up to 5832, and 8748, *)
(* the next capacity, is none.  A file of 8749 bytes is the counterexample *)
(* that the run of SystemRead_next.cfg finds.                              *)
THEOREM FilesUpTo8748 ==
    ASSUME InitialCapacity = 512, SizeofSize = 8, FileSizes \subseteq 0 .. 8748
    PROVE  ReadSpec => [](BytesInOrder /\ NulTerminated)
  <1> DEFINE C == {512, 768, 1152, 1728, 2592, 3888, 5832, 8748}
  <1>1. /\ Grown(512) = 768 /\ Grown(768) = 1152 /\ Grown(1152) = 1728
        /\ Grown(1728) = 2592 /\ Grown(2592) = 3888 /\ Grown(3888) = 5832
        /\ Grown(5832) = 8748
    BY SMT DEF Grown
  <1>2. /\ 512 = 64 * SizeofSize /\ 768 = 96 * SizeofSize
        /\ 1152 = 144 * SizeofSize /\ 1728 = 216 * SizeofSize
        /\ 2592 = 324 * SizeofSize /\ 3888 = 486 * SizeofSize
        /\ 5832 = 729 * SizeofSize
    BY SMT
  <1>3. ASSUME NEW c \in C, c # 8748 PROVE Multiple(c) /\ Grown(c) \in C
    <2>1. Multiple(c)
      <3>1. PICK k \in {64, 96, 144, 216, 324, 486, 729} : c = k * SizeofSize
        BY <1>2, <1>3, SMT
      <3>2. k \in Nat
        BY SMT
      <3> QED BY <3>1, <3>2 DEF Multiple
    <2>2. Grown(c) \in C
      BY <1>1, <1>3, SMT
    <2> QED BY <2>1, <2>2
  <1>4. ~ \E f \in FileSizes : 8748 < f
    BY SMT
  <1>5. C \subseteq Nat /\ 512 \in C
    BY SMT
  <1>6. CapacitiesFit(C)
    BY <1>3, <1>4, <1>5 DEF CapacitiesFit
  <1> QED BY <1>6, AlignedCapacitiesSuffice
=============================================================================
