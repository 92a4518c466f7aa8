------------------------------ MODULE MCLexer ------------------------------
(* All files up to a length over a few characters, and the grammar to      *)
(* compare the lexer with.                                                 *)
EXTENDS Lexer, TLC

Document == INSTANCE LexicalGrammar WITH UnderscoreOptional <- FALSE
Tests == INSTANCE LexicalGrammar WITH UnderscoreOptional <- TRUE

AllFiles(alphabet, n) == UNION {[1 .. k -> alphabet] : k \in 0 .. n}

(* Symbols that the document has: not %, &, | and ~, which it has not.     *)
SymbolFiles == AllFiles({".", "<", ">", "=", "-", "!", "^", "a"}, 4)
WordFiles == AllFiles({"0", "1", "x", "b", "_", "i", "n"}, 5)
CommentFiles == AllFiles({"/", "*", "\n", "a", "bad"}, 6)
                \cup {<<"/", "*">> \o w \o <<"*", "/", "a">> :
                         w \in AllFiles({"\r", "\n", "\t", "*", " "}, 3)}
OddFiles == AllFiles({"BOM", "nul", "bad", "\r", "\n", "(", "/", "="}, 4)

(* Files at the limits of the run: 8 characters a line, 7 lines and 10     *)
(* characters in all, which no other file reaches.                         *)
As(n) == [k \in 1 .. n |-> "a"]
Starts == {As(6), As(4) \o <<"\n">> \o As(3), <<"\t", "\n", "\n", "\r", "\r", "\r">>}
Rests == AllFiles({"a", "1", " ", "\t", "\r", "\n", "/"}, 3)
LineFiles == {p \o r : p \in Starts \cup {<<>>}, r \in Rests}
             \cup {<<"/", "*">> \o w \o <<"*", "/", "a">> :
                      w \in AllFiles({"\r", "\n", "\t", " ", "a"}, 4)}
             \cup {<<"/", "/">> \o w : w \in AllFiles({"/", "\n", "\t", "a"}, 3)}

ResidueFiles == LineFiles \cup AllFiles({"BOM", "(", "\n", "1"}, 3)

(* A constraint: the count starts at 0 for all files, and at more for few. *)
ResidueAffordable == (cursor = FirstCharacter /\ counts.characters_in_line > 0) =>
                         source \in ResidueFiles

ShortLines == AllFiles({"a", " ", "\n"}, 3)
CrlfFiles == AllFiles({"a", "\r", "\n"}, 3)

LexedFiles == ResidueFiles \cup SymbolFiles \cup WordFiles \cup CommentFiles \cup OddFiles \cup LineFiles

TwoKeywords == { <<"i", "n">>, <<"i", "f">> }

LimitErrors == {"CharacterLimitExceeded", "LineLimitExceeded", "ColumnLimitExceeded"}

(* Two digits side by side, in a base a literal of the file may have.      *)
NeighbouringDigits ==
    LET digits == IF HasPair(source, "0", "x") THEN Digits(16) ELSE Digits(10) IN
    \E k \in 1 .. Len(source) - 1 : source[k] \in digits /\ source[k + 1] \in digits

(* What the lexer makes of the file is what a scan of it by a grammar      *)
(* makes, tokens in the same places or none at all.                        *)
LexedAs(scan) ==
    /\ pc = "tokens" =>
         /\ scan.stop = Len(source) + 1
         /\ Len(tokens) = Len(scan.places) + 1
         /\ \A k \in 1 .. Len(scan.places) :
              /\ tokens[k].first = scan.places[k].first
              /\ tokens[k].last = scan.places[k].last
              /\ tokens[k].kind \in Keywords
                    <=> Document!Text(source, scan.places[k]) \in Keywords
    /\ pc = "error" /\ error.kind \notin LimitErrors => scan.stop # Len(source) + 1

(* The files the lexer accepts are those of the document's lexical         *)
(* grammar, and the tokens lie where the grammar has them: longest symbols *)
(* first, literals whole, comments nested, a keyword only where it is the  *)
(* whole name.  Left out of this are files with two digits side by side,   *)
(* which the document refuses in a literal and the lexer accepts: they     *)
(* follow the rule of the tests, where the underscore is optional.         *)
LexesByGrammar ==
    pc \in {"tokens", "error"} =>
        LexedAs(IF NeighbouringDigits THEN Tests!Scan(source)
                                      ELSE Document!Scan(source))
=============================================================================
