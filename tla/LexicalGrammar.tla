--------------------------- MODULE LexicalGrammar ---------------------------
(***************************************************************************)
(* The lexical grammar of spec/parsing.md:28-127 as a recogniser: the      *)
(* reference that the lexer of Lexer.tla is compared with.  A rule is an   *)
(* operator from a position of source s to the position after its match,   *)
(* or NoMatch; as in every parsing expression grammar the choice is        *)
(* ordered.  The rules are those of the document, symbols it does not list *)
(* and all, but for a block comment: to the letter its `.*` would run past *)
(* every delimiter and nothing would ever match, so here `.` is a          *)
(* character at which no delimiter begins.                                 *)
(***************************************************************************)
EXTENDS Naturals, SequencesExt, FiniteSetsExt

(* FALSE is the document: every further digit of a literal has an          *)
(* underscore before it (spec/parsing.md:122-126), so that 11 is none.     *)
(* TRUE is what tests/lex/valid/tokens.zn:84-95 writes.                    *)
CONSTANT UnderscoreOptional

NoMatch == 0

Letters == {"a", "b", "f", "i", "n", "x", "_"}
Numerals == {"0", "1", "9"}
HexDigits == Numerals \cup {"a", "b", "f"}

In(s, i, set) == i <= Len(s) /\ s[i] \in set
StartsAt(s, i, text) == i + Len(text) - 1 <= Len(s)
                        /\ SubSeq(s, i, i + Len(text) - 1) = text

(* e1 / e2 over a sequence of alternatives.                                *)
FirstMatch(ends) ==
    IF \A k \in DOMAIN ends : ends[k] = NoMatch THEN NoMatch
    ELSE ends[CHOOSE k \in DOMAIN ends : /\ ends[k] # NoMatch
                                        /\ \A j \in 1 .. k - 1 : ends[j] = NoMatch]

(* ("_" digit)* for a set of digits.                                       *)
RECURSIVE DigitRun(_, _, _)
DigitRun(s, i, set) == IF In(s, i, {"_"}) /\ In(s, i + 1, set)
                       THEN DigitRun(s, i + 2, set)
                       ELSE IF UnderscoreOptional /\ In(s, i, set)
                       THEN DigitRun(s, i + 1, set)
                       ELSE i

(* !id_continue                                                            *)
Ended(s, i) == IF In(s, i, Letters \cup Numerals) THEN NoMatch ELSE i

Literal(s, i, first, set) ==
    IF In(s, i, first) THEN Ended(s, DigitRun(s, i + 1, set)) ELSE NoMatch

IntLiteral(s, i) ==
    FirstMatch(<<IF In(s, i, {"0"}) THEN Ended(s, i + 1) ELSE NoMatch,
                 Literal(s, i, Numerals \ {"0"}, Numerals),
                 IF StartsAt(s, i, <<"0", "x">>)
                 THEN Literal(s, i + 2, HexDigits, HexDigits) ELSE NoMatch,
                 IF StartsAt(s, i, <<"0", "b">>)
                 THEN Literal(s, i + 2, {"0", "1"}, {"0", "1"}) ELSE NoMatch>>)

RECURSIVE NameRun(_, _)
NameRun(s, i) == IF In(s, i, Letters \cup Numerals) THEN NameRun(s, i + 1) ELSE i
Name(s, i) == IF In(s, i, Letters) THEN NameRun(s, i + 1) ELSE NoMatch

(* The symbol rule.  In its order a symbol comes before those it begins    *)
(* with, so the first match is the longest; "/" has the only look-ahead.   *)
Symbols == { <<"(">>, <<")">>, <<"{">>, <<"}">>, <<"[">>, <<"]">>,
             <<".", ".", ".">>, <<".", ".", "<">>, <<".">>,
             <<",">>, <<":">>, <<";">>,
             <<"=", "=">>, <<"=", ">">>, <<"=">>, <<"!", "=">>, <<"!">>,
             <<"+", "=">>, <<"+">>, <<"-", ">">>, <<"-", "=">>, <<"-">>,
             <<"*", "=">>, <<"*">>, <<"/", "=">>, <<"/">>,
             <<"<", "<", "=">>, <<"<", "<">>, <<"<", "=">>, <<"<">>,
             <<">", ">", "=">>, <<">", ">">>, <<">", "=">>, <<">">>,
             <<"^", "^", "=">>, <<"^", "^">>, <<"^", "=">>, <<"^">>, <<"@">> }

Symbol(s, i) ==
    LET ends == {e \in i + 1 .. i + 3 : e <= Len(s) + 1
                                        /\ SubSeq(s, i, e - 1) \in Symbols} IN
    IF ends = {} \/ StartsAt(s, i, <<"/", "*">>) THEN NoMatch ELSE Max(ends)

(* "//" (!line_terminator .)* where . is any well-formed character.        *)
RECURSIVE LineRun(_, _)
LineRun(s, i) == IF i <= Len(s) /\ s[i] \notin {"\r", "\n", "bad"}
                 THEN LineRun(s, i + 1) ELSE i
LineComment(s, i) == IF StartsAt(s, i, <<"/", "/">>) THEN LineRun(s, i + 2) ELSE NoMatch

(* "/*" (block_comment / !"/*" !"*/" .)* "*/"                               *)
RECURSIVE BlockComment(_, _), BlockRun(_, _)
BlockRun(s, i) ==
    IF i > Len(s) \/ StartsAt(s, i, <<"*", "/">>) THEN i
    ELSE IF StartsAt(s, i, <<"/", "*">>)
    THEN LET inner == BlockComment(s, i) IN
         IF inner # NoMatch THEN BlockRun(s, inner) ELSE i
    ELSE IF s[i] = "bad" THEN i
    ELSE BlockRun(s, i + 1)
BlockComment(s, i) ==
    IF StartsAt(s, i, <<"/", "*">>)
    THEN LET close == BlockRun(s, i + 2) IN
         IF StartsAt(s, close, <<"*", "/">>) THEN close + 2 ELSE NoMatch
    ELSE NoMatch

Blank(s, i) == IF In(s, i, {" ", "\t", "\r", "\n"}) THEN i + 1 ELSE NoMatch

Trivia(s, i) == FirstMatch(<<Blank(s, i), LineComment(s, i), BlockComment(s, i)>>)
Token(s, i) == FirstMatch(<<Symbol(s, i), Name(s, i), IntLiteral(s, i)>>)

(* (trivia / token)*, as the sequence of the places of the tokens and the  *)
(* position where nothing matches any more.                                *)
RECURSIVE ScanFrom(_, _, _)
ScanFrom(s, i, places) ==
    LET trivia == Trivia(s, i)
        token == Token(s, i) IN
    IF trivia # NoMatch THEN ScanFrom(s, trivia, places)
    ELSE IF token # NoMatch
    THEN ScanFrom(s, token, Append(places, [first |-> i, last |-> token - 1]))
    ELSE [places |-> places, stop |-> i]

(* source_file <- <U+FEFF>? (trivia / token)*                               *)
Scan(s) == ScanFrom(s, IF In(s, 1, {"BOM"}) THEN 2 ELSE 1, <<>>)
Text(s, place) == SubSeq(s, place.first, place.last)

=============================================================================
