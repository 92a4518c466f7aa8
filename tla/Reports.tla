------------------------------ MODULE Reports -------------------------------
(***************************************************************************)
(* What the program says, and how it is cut into calls of a Writer:        *)
(* src/driver/diagnostics.c, the report_* functions of commands.c, the     *)
(* messages of main.c, Token_dump, and src/support/format.c under them.    *)
(*                                                                         *)
(* A text is a sequence of units: a fixed phrase, a letter of a name, or a *)
(* digit.  A write of part of a text takes some of its units.  Backquotes  *)
(* are written as apostrophes.                                             *)
(***************************************************************************)
EXTENDS Integers, Sequences, FiniteSetsExt, SequencesExt

CONSTANT program_name

-----------------------------------------------------------------------------
(* print_number.  A write says what format.c does with its result.         *)
Write(bytes, part) == [bytes |-> bytes, part |-> part]

Digit == <<"0", "1", "2", "3", "4", "5", "6", "7", "8", "9", "A", "B", "C", "D", "E", "F">>

(* The loop leaves off at nothing left; the last digit is the first found. *)
Digits(value, base) ==
    LET left[k \in 0 .. 64] == IF k = 0 THEN value ELSE left[k - 1] \div base
        size == CHOOSE k \in 1 .. 64 : left[k] = 0 /\ (k = 1 \/ left[k - 1] # 0)
    IN [i \in 1 .. size |-> Digit[(left[size - i] % base) + 1]]

(* Slip: the first digit is not taken off the width.                       *)
PrintedWide(value, base, width) ==
    LET digits == Digits(value, base)
        zeroes == Max({0, width + 1 - Len(digits)})
    IN [k \in 1 .. zeroes |-> Write(<<"0">>, "zero")] \o <<Write(digits, "number")>>

Printed(value, base, width) ==
    LET digits == Digits(value, base)
        zeroes == Max({0, width - Len(digits)})
    IN [k \in 1 .. zeroes |-> Write(<<"0">>, "zero")] \o <<Write(digits, "number")>>

(* Writer_vformat: chunks between conversions, each written as it is met.  *)
Conversions == {"%s", "%u", "%04X"}

Converted(conversion, args) ==
    CASE conversion = "%s"   -> <<Write(Head(args.texts), "string")>>
      [] conversion = "%u"   -> Printed(Head(args.numbers), 10, 0)
      [] conversion = "%04X" -> Printed(Head(args.numbers), 16, 4)

Rest(conversion, args) ==
    IF conversion = "%s" THEN [args EXCEPT !.texts = Tail(@)]
    ELSE [args EXCEPT !.numbers = Tail(@)]

Chunk(bytes, part) == IF bytes = << >> THEN << >> ELSE <<Write(bytes, part)>>

Formatted(format, args) ==
    LET Meet(acc, unit) ==
            IF unit \in Conversions
            THEN [writes |-> acc.writes \o Chunk(acc.chunk, "chunk")
                                        \o Converted(unit, acc.args),
                  chunk |-> << >>, args |-> Rest(unit, acc.args)]
            ELSE [acc EXCEPT !.chunk = Append(@, unit)]
        met[k \in 0 .. Len(format)] ==
            IF k = 0 THEN [writes |-> << >>, chunk |-> << >>, args |-> args]
            ELSE Meet(met[k - 1], format[k])
        end == met[Len(format)]
    IN end.writes \o Chunk(end.chunk, "last")

(* A call of the Writer interface and the writes it makes.  All of them    *)
(* come down to three.                                                     *)
Args(texts, numbers) == [texts |-> texts, numbers |-> numbers]
Str(text) == [call |-> "str", format |-> text, args |-> Args(<< >>, << >>)]
Uint(value) == [call |-> "uint", format |-> << >>, args |-> Args(<< >>, <<value>>)]
Format(format, texts, numbers) ==
    [call |-> "format", format |-> format, args |-> Args(texts, numbers)]

WritesOf(c) == CASE c.call = "str"    -> <<Write(c.format, "chunk")>>
                 [] c.call = "uint"   -> Printed(c.args.numbers[1], 10, 0)
                 [] c.call = "format" -> Formatted(c.format, c.args)

-----------------------------------------------------------------------------
(* The report_* functions: a diagnostic as it is before emit.              *)
Diagnostic(level, source_name, calls) ==
    [level |-> level, source_name |-> source_name, line |-> 0, column |-> 0, calls |-> calls]

report_lex_error(path, text, level) == Diagnostic(level, path, <<Str(<<text>>)>>)

report_unexpected_character(path, character, level) ==
    Diagnostic(level, path,
               <<Format(<<"unexpected character U+", "%04X">>, << >>, <<character>>)>>)

token_kind_description(token) ==
    IF token.class = "named" THEN Str(token.text)
    ELSE Format(<<token.class, "%s", "'">>, <<token.text>>, << >>)

report_parse_error(path, category, token, level) ==
    Diagnostic(level, path,
               <<Str(<<"expected ">>), Format(<<category>>, << >>, << >>),
                 Str(<<", found ">>), token_kind_description(token)>>)

report_yacc_error(message) ==
    Diagnostic("Error", << >>, <<Str(<<"yacc: ">>), Str(message)>>)

report_undeclared_name(path, name, level) ==
    Diagnostic(level, path,
               <<Str(<<"undeclared identifier '">>), Str(name), Str(<<"'">>)>>)

report_type_mismatch(path, expected, actual, level) ==
    Diagnostic(level, path,
               <<Str(<<"expected type '">>), Str(expected),
                 Str(<<"' but found '">>), Str(actual)>>)

(* multiple input files, no input file, and the failures that did not come *)
report_driver(text) == Diagnostic("Error", << >>, <<Str(<<text>>)>>)

report_unknown_flag(flag) ==
    Diagnostic("Error", << >>, <<Str(<<"unknown flag '">>), Str(flag), Str(<<"'">>)>>)

report_system_error(what, path, error) ==
    Diagnostic("Error", << >>,
               <<Str(<<what>>), Str(path), Str(<<"'; system error ">>), Uint(error)>>)

(* What is written without a diagnostic: get_command, for the words after  *)
(* the program's name, and Token_dump.                                     *)
Plain(format) == Format(format, << >>, << >>)

command_messages(words) ==
    <<Str(program_name),
      IF words = << >> THEN Plain(<<": error: command must be specified\n">>)
      ELSE Format(<<": error: '", "%s", "' is not a command\n">>, <<Head(words)>>, << >>)>>

(* An integer held inline, or one that is not.                             *)
BigInt_write(integer) == IF integer.inline THEN Uint(integer.value) ELSE Plain(<<"<bigint>">>)

TokenValue(token) ==
    CASE token.kind = "IntLiteral" -> <<Plain(<<", value = ">>), BigInt_write(token.integer)>>
      [] token.kind = "Identifier" ->
             <<Plain(<<", value = \"">>), Str(token.string), Plain(<<"\"">>)>>
      [] OTHER -> << >>

Token_dump(token, line, column) ==
    <<Plain(<<"Token(kind = .">>), Str(<<token.kind>>)>>
    \o TokenValue(token)
    \o <<Format(<<", position = <", "%u", ":", "%u", ">">>, << >>, <<line, column>>),
         Plain(<<")\n">>)>>

-----------------------------------------------------------------------------
(* What the calls mean: the text with every conversion replaced, numbers   *)
(* in as many digits as they need and at least as many as are asked for.   *)
Numeral(value, base, least) ==
    LET power[k \in 0 .. 20] == IF k = 0 THEN 1 ELSE base * power[k - 1]
        n == CHOOSE k \in least .. 20 :
                 power[k] > value /\ (k = least \/ power[k - 1] <= value)
    IN [i \in 1 .. n |-> Digit[((value \div power[n - i]) % base) + 1]]

TextsTo(format, i) == Cardinality({k \in 1 .. i : format[k] = "%s"})
NumbersTo(format, i) == Cardinality({k \in 1 .. i : format[k] \in Conversions \ {"%s"}})

Replaced(format, args, i) ==
    CASE format[i] = "%s"   -> args.texts[TextsTo(format, i)]
      [] format[i] = "%u"   -> Numeral(args.numbers[NumbersTo(format, i)], 10, 1)
      [] format[i] = "%04X" -> Numeral(args.numbers[NumbersTo(format, i)], 16, 4)
      [] OTHER -> <<format[i]>>

Meaning(c) ==
    CASE c.call = "str"    -> c.format
      [] c.call = "uint"   -> Numeral(c.args.numbers[1], 10, 1)
      [] c.call = "format" -> FlattenSeq([i \in 1 .. Len(c.format) |->
                                             Replaced(c.format, c.args, i)])

Message(calls) == FlattenSeq([i \in 1 .. Len(calls) |-> Meaning(calls[i])])

-----------------------------------------------------------------------------
(* Calls over an alphabet of units, which give a conversion what it needs, *)
(* and what is reported with them.                                         *)
Unsigned == {n \in Nat : ((n \div 65536) \div 65536) \div 65536 < 65536}

Supplied(c) == /\ c.call = "uint" => c.args.numbers # << >>
               /\ c.call = "format" =>
                      /\ TextsTo(c.format, Len(c.format)) = Len(c.args.texts)
                      /\ NumbersTo(c.format, Len(c.format)) = Len(c.args.numbers)

Calls(units) == {c \in [call : {"str", "uint", "format"}, format : Seq(units),
                        args : [texts : Seq(Seq(units)), numbers : Seq(Unsigned)]] : Supplied(c)}

Diagnostics(units) == [level : {"Ignore", "Info", "Warning", "Error"},
                       source_name : Seq(units), line : {0}, column : {0},
                       calls : Seq(Calls(units))]
=============================================================================
