------------------------------ MODULE MCOutput ------------------------------
(* Reports of every shape with names of zero to two letters, at levels,    *)
(* and the processes that make them.                                       *)
EXTENDS Output

Program == <<"zeno-spec">>
Path == <<"p", "q">>
ACharacters == {0, 36, 127, 128, 2047, 2048, 55295, 57344, 65535, 65536, 1114111}

(* The characters in their forms, cut off, and with a byte after them; and *)
(* what the bytes at the edges of each class make of up to four.           *)
EdgeBytes == {36, 127, 128, 191, 192, 223, 224, 237, 240, 244, 247, 248}
FileData == UNION {{Utf8(ch), SubSeq(Utf8(ch), 1, Len(Utf8(ch)) - 1), Append(Utf8(ch), 36)} :
                   ch \in ACharacters}
            \cup BoundedSeq({36, 128, 191, 192, 224, 237, 240, 244, 248}, 4)
            \cup {<<b>> : b \in EdgeBytes}

Tokens == {[class |-> "named", text |-> <<"identifier">>],
           [class |-> "keyword '", text |-> <<"d", "e">>]}

Inline(n) == [inline |-> TRUE, value |-> n]

AtLevels ==
    UNION {{report_undeclared_name(Path, <<"u", "v">>, level),
            report_parse_error(Path, "expression", CHOOSE t \in Tokens : t.class # "named", level)} :
           level \in {"Ignore", "Info", "Error"}}

Singles ==
    AtLevels
    \cup {report_parse_error(Path, "item", t, "Error") : t \in Tokens}
    \cup {report_type_mismatch(Path, <<"I", "t">>, <<"V", "o">>, "Error"),
          report_system_error("could not open '", << >>, 2),
          report_system_error("could not read '", Path, 105),
          report_yacc_error(<<"stack overflow">>),
          report_driver("expected parse error"),
          report_unknown_flag(<<"-", "f">>),
          [calls |-> command_messages(<< >>)], [calls |-> command_messages(<<(<<"c", "d">>)>>)],
          [calls |-> Token_dump([kind |-> "Identifier", string |-> <<"a", "b">>], 10, 7)],
          [calls |-> Token_dump([kind |-> "IntLiteral", integer |-> Inline(1024)], 1, 14)],
          [calls |-> Token_dump([kind |-> "IntLiteral", integer |-> [inline |-> FALSE]], 1, 9)]}

(* A process has one diagnostic at most (ExitTellsTheTruth of Driver), but *)
(* any number of tokens.                                                   *)
TwoTokens ==
    <<[calls |-> Token_dump([kind |-> "Identifier", string |-> <<"a">>], 9, 100)],
      [calls |-> Token_dump([kind |-> "LParen"], 10, 1)]>>
ShortProcesses == {<<j>> : j \in Singles} \cup {TwoTokens}
=============================================================================
