------------------------------- MODULE Lexer -------------------------------
(***************************************************************************)
(* src/parsing/lex.c: a source file becomes a list of tokens or the first  *)
(* error.  One step is one turn of `loop:` in lex_bytes_inner, of a comment *)
(* loop or of the digit loop of lex_number_literal, with every handle_* it *)
(* calls; each of these may leave through longjmp.                         *)
(*                                                                         *)
(* A character is a one-letter string ("nul", "BOM" and "bad", a byte      *)
(* sequence utf8_decode refuses, have names).  source[Len(source) + 1] is  *)
(* the nul that ends the data; cursor is the index of context->cursor[0].  *)
(***************************************************************************)
EXTENDS Naturals, SequencesExt

CONSTANTS Sources,                  \* the files that are lexed
          Keywords,                 \* spellings of KEYWORD_KIND_LIST
          TabStop,                  \* config.tab_stop
          StackResidue,             \* what characters_in_line may hold at first
          MAX_CHARACTERS_PER_FILE, MAX_LINES_PER_FILE, MAX_CHARACTERS_PER_LINE

ASSUME LexerAssumption ==
    /\ Sources \subseteq Seq(STRING) /\ Keywords \subseteq Seq(STRING)
    /\ TabStop \in Nat \ {0}
    /\ StackResidue \subseteq Nat
    /\ MAX_CHARACTERS_PER_FILE \in Nat \ {0} /\ MAX_LINES_PER_FILE \in Nat \ {0}
    /\ MAX_CHARACTERS_PER_LINE \in Nat \ {0}

VARIABLES
    source,            \* SourceFile
    pc,                \* the loop that is running: "loop", "line_comment",
                       \* "block_comment", "digits"; or "tokens", "error"
    cursor,
    counts,            \* cursor_pos, characters_in_line, total_characters and
                       \* the limit that has just been exceeded
    token_pos,
    nesting,           \* local of lex_block_comment
    base, digits_start,   \* locals of lex_number_literal
    tokens, error      \* the result

locals == <<nesting, base, digits_start>>
vars == <<source, pc, cursor, counts, token_pos, locals, tokens, error>>

-----------------------------------------------------------------------------
(* Classification, for the characters that are told apart.                 *)
IdStart == {"a", "b", "f", "i", "n", "x", "_"}
Digits(radix) == CASE radix = 2 -> {"0", "1"}
                   [] radix = 10 -> {"0", "1", "9"}
                   [] radix = 16 -> {"0", "1", "9", "a", "b", "f"}
IdContinue == IdStart \cup Digits(10)

AtLimit == cursor = Len(source) + 1
Peek(k) == IF cursor + k > Len(source) THEN "nul" ELSE source[cursor + k]

(* How many characters from the cursor on belong to set.                   *)
RunLength(set) ==
    CHOOSE n \in 0 .. Len(source) - cursor + 1 :
        /\ \A k \in 0 .. n - 1 : Peek(k) \in set
        /\ Peek(n) \notin set

CursorPos(c) == [line |-> c.line, column |-> c.column]

(* Slip: the count of the line is not looked at.                           *)
InvisibleFileOnly(c) ==
    LET d == [c EXCEPT !.characters_in_line = @ + 1, !.total_characters = @ + 1] IN
    IF d.total_characters > MAX_CHARACTERS_PER_FILE
    THEN [d EXCEPT !.limit = "CharacterLimitExceeded"] ELSE d

(* handle_invisible_character                                              *)
Invisible(c) ==
    LET d == [c EXCEPT !.characters_in_line = @ + 1, !.total_characters = @ + 1] IN
    IF d.characters_in_line > MAX_CHARACTERS_PER_LINE
    THEN [d EXCEPT !.limit = "ColumnLimitExceeded"]
    ELSE IF d.total_characters > MAX_CHARACTERS_PER_FILE
    THEN [d EXCEPT !.limit = "CharacterLimitExceeded"] ELSE d

(* increment_line                                                          *)
NewLine(c) ==
    LET d == [c EXCEPT !.line = @ + 1, !.column = 1, !.characters_in_line = 0] IN
    IF d.line > MAX_LINES_PER_FILE
    THEN [d EXCEPT !.limit = "LineLimitExceeded"] ELSE d

(* handle_tab: on to the next multiple of tab_stop.                        *)
TabColumn(column) == column + TabStop - (column % TabStop)

(* One handle_*; after a longjmp there is nothing more to handle.          *)
Handle(c, how) ==
    IF c.limit # "none" THEN c
    ELSE CASE how = "normal" -> Invisible([c EXCEPT !.column = @ + 1])
           [] how = "tab" -> Invisible([c EXCEPT !.column = TabColumn(@)])
           [] how = "invisible" -> Invisible(c)
           [] how = "newline" -> NewLine(c)

(* Several, one after the other.                                           *)
HandleAll(c, hows) ==
    LET after[k \in 0 .. Len(hows)] ==
            IF k = 0 THEN c ELSE Handle(after[k - 1], hows[k])
    IN after[Len(hows)]

Normal(n) == [k \in 1 .. n |-> "normal"]
LineTerminator == <<"invisible", "newline">>
CrlfTerminator == <<"invisible", "invisible", "newline">>

-----------------------------------------------------------------------------
(* longjmp to lex_source, which frees the tokens.                          *)
Exit(kind, pos) == /\ error' = [kind |-> kind, pos |-> pos]
                   /\ tokens' = <<>>
                   /\ pc' = "error"
                   /\ UNCHANGED <<source, cursor, counts, locals>>

(* Move over n characters that are handled as hows, then do Rest; a limit  *)
(* that is exceeded on the way is reported at the place of the cursor.     *)
Consume(n, hows, Rest) ==
    LET c == HandleAll(counts, hows) IN
    IF c.limit = "none"
    THEN /\ counts' = c /\ cursor' = cursor + n
         /\ Rest
         /\ UNCHANGED <<source, error>>
    ELSE Exit(c.limit, CursorPos(c))

(* A TokenKind with one spelling is that spelling, the others are named.   *)
Identifier == <<"Identifier">>
IntLiteralKind == <<"IntLiteral">>
EndOfFileKind == <<"EndOfFile">>

(* push_token for the characters from first to where the cursor moves.     *)
Push(kind, first) ==
    /\ tokens' = Append(tokens, [kind |-> kind, pos |-> token_pos',
                                 first |-> first, last |-> cursor' - 1])
    /\ pc' = "loop"
    /\ UNCHANGED locals

Skip == pc' = "loop" /\ UNCHANGED <<tokens, locals>>

(* The top of the loop: sync_token_pos_to_cursor.                          *)
Top == pc = "loop" /\ token_pos' = CursorPos(counts)

Spelling(n) == SubSeq(source, cursor, cursor + n - 1)

(* An identifier or, if the whole of it is spelled like one, a keyword.    *)
Word == /\ Top /\ Peek(0) \in IdStart
        /\ \E n \in {RunLength(IdContinue)} :
             Consume(n, Normal(n),
                     Push(IF Spelling(n) \in Keywords THEN Spelling(n)
                          ELSE Identifier, cursor))

(* lex_number_literal, 0x and 0b.                                          *)
NumberPrefix ==
    /\ Top /\ Peek(0) = "0" /\ Peek(1) \in {"x", "b"}
    /\ Consume(2, Normal(2),
               /\ pc' = "digits" /\ digits_start' = cursor + 2
               /\ base' = IF Peek(1) = "x" THEN 16 ELSE 2
               /\ UNCHANGED <<tokens, nesting>>)

(* A zero stands alone.                                                    *)
Zero == /\ Top /\ Peek(0) = "0" /\ Peek(1) \notin {"x", "b"}
        /\ IF Peek(1) \in IdContinue /\ Handle(counts, "normal").limit = "none"
           THEN Exit("DecimalLeadingZero", token_pos')
           ELSE Consume(1, Normal(1), Push(IntLiteralKind, cursor))

Decimal == /\ Top /\ Peek(0) \in Digits(10) \ {"0"}
           /\ pc' = "digits" /\ base' = 10 /\ digits_start' = cursor
           /\ UNCHANGED <<source, cursor, counts, nesting, tokens, error>>

InDigits == pc = "digits" /\ UNCHANGED token_pos

Digit == /\ InDigits /\ Peek(0) \in Digits(base)
         /\ Consume(1, Normal(1), UNCHANGED <<pc, tokens, locals>>)

(* Slip: the end of the literal is not looked at.                          *)
BadLiteralInside == \/ cursor = digits_start
                    \/ Peek(0) = "_" /\ Peek(1) = "_"
                    \/ Peek(0) \in IdContinue \ {"_"}

(* What is wrong with the literal at a character that is not a digit: no   *)
(* digit at all, two underscores, junk, an underscore at the end.          *)
BadLiteral == \/ cursor = digits_start
              \/ Peek(0) = "_" /\ Peek(1) = "_"
              \/ Peek(0) \in IdContinue \ {"_"}
              \/ Peek(0) # "_" /\ source[cursor - 1] = "_"

DigitsError == /\ InDigits /\ Peek(0) \notin Digits(base) /\ BadLiteral
               /\ Exit("BadIntLiteral", token_pos)

Underscore == /\ InDigits /\ Peek(0) = "_" /\ ~BadLiteral
              /\ Consume(1, Normal(1), UNCHANGED <<pc, tokens, locals>>)

DigitsEnd == /\ InDigits /\ Peek(0) \notin IdContinue /\ ~BadLiteral
             /\ LET first == IF base = 10 THEN digits_start ELSE digits_start - 2 IN
                  Consume(0, <<>>, Push(IntLiteralKind, first))

-----------------------------------------------------------------------------
Space == Top /\ Peek(0) = " " /\ Consume(1, Normal(1), Skip)

Tab == Top /\ Peek(0) = "\t" /\ Consume(1, <<"tab">>, Skip)

(* The first character of CR LF is passed by, with all that is counted for *)
(* both; the second one then is a line terminator of its own.              *)
Crlf == /\ Top /\ Peek(0) = "\r" /\ Peek(1) = "\n"
        /\ Consume(1, CrlfTerminator, Skip)

NextLine == /\ Top
            /\ \/ Peek(0) = "\n"
               \/ Peek(0) = "\r" /\ Peek(1) # "\n"
            /\ Consume(1, LineTerminator, Skip)

EndOfFile == /\ Top /\ AtLimit
             /\ tokens' = Append(tokens, [kind |-> EndOfFileKind, pos |-> token_pos',
                                          first |-> cursor, last |-> cursor - 1])
             /\ pc' = "tokens"
             /\ UNCHANGED <<source, cursor, counts, locals, error>>

(* The symbols by the macro that handles them: alone; with =; doubled,     *)
(* with = after either.                                                    *)
SymbolX == {"(", "@", "~"}
SymbolXE == {"!", "*", "%"}
SymbolXXE == {"<", ">", "^", "&"}

(* The number of characters of the symbol at the cursor, 0 if there is     *)
(* none (a comment is none).                                               *)
SymbolLength ==
    CASE Peek(0) \in SymbolX -> 1
      [] Peek(0) \in SymbolXE -> IF Peek(1) = "=" THEN 2 ELSE 1
      [] Peek(0) \in SymbolXXE ->
           IF Peek(1) = Peek(0) THEN IF Peek(2) = "=" THEN 3 ELSE 2
           ELSE IF Peek(1) = "=" THEN 2 ELSE 1
      [] Peek(0) = "." -> IF Peek(1) = "." /\ Peek(2) \in {".", "<"} THEN 3 ELSE 1
      [] Peek(0) = "=" -> IF Peek(1) \in {"=", ">"} THEN 2 ELSE 1
      [] Peek(0) = "-" -> IF Peek(1) \in {"=", ">"} THEN 2 ELSE 1
      [] Peek(0) = "/" -> IF Peek(1) \in {"*", "/"} THEN 0
                          ELSE IF Peek(1) = "=" THEN 2 ELSE 1
      [] OTHER -> 0

Symbol == /\ Top /\ SymbolLength > 0
          /\ LET n == SymbolLength IN
               Consume(n, Normal(n), Push(Spelling(n), cursor))

(* Nothing a token or trivia begins with: an embedded nul, too.            *)
Unexpected == /\ Top /\ ~AtLimit
              /\ Peek(0) \notin IdContinue \cup {" ", "\t", "\r", "\n", "/"}
              /\ SymbolLength = 0
              /\ Exit(IF Peek(0) = "bad" THEN "BadEncoding" ELSE "UnexpectedCharacter",
                      token_pos')

-----------------------------------------------------------------------------
LineComment == /\ Top /\ Peek(0) = "/" /\ Peek(1) = "/"
               /\ Consume(2, Normal(2),
                          pc' = "line_comment" /\ UNCHANGED <<tokens, locals>>)

InLineComment == pc = "line_comment" /\ UNCHANGED token_pos

LineCommentNext == /\ InLineComment /\ ~AtLimit
                   /\ Peek(0) \notin {"\r", "\n", "bad"}
                   /\ Consume(1, Normal(1), UNCHANGED <<pc, tokens, locals>>)

(* Slip: the end of the file does not end a comment.                       *)
LineCommentEndAtLine == /\ InLineComment /\ ~AtLimit /\ Peek(0) \in {"\r", "\n"}
                        /\ Consume(0, <<>>, Skip)

(* Slip: the line terminator is passed by with the comment.                *)
LineCommentEndEats == /\ InLineComment /\ (AtLimit \/ Peek(0) \in {"\r", "\n"})
                      /\ Consume(IF AtLimit THEN 0 ELSE 1, <<>>, Skip)

LineCommentEnd == /\ InLineComment /\ (AtLimit \/ Peek(0) \in {"\r", "\n"})
                  /\ Consume(0, <<>>, Skip)

(* Bad encoding, in either kind of comment, is reported where it is.       *)
CommentError == /\ pc \in {"line_comment", "block_comment"}
                /\ Peek(0) = "bad"
                /\ UNCHANGED token_pos
                /\ Exit("BadEncoding", CursorPos(counts))

BlockComment == /\ Top /\ Peek(0) = "/" /\ Peek(1) = "*"
                /\ Consume(2, Normal(2),
                           /\ pc' = "block_comment" /\ nesting' = 1
                           /\ UNCHANGED <<tokens, base, digits_start>>)

InBlockComment == pc = "block_comment" /\ UNCHANGED token_pos

Unclosed == /\ InBlockComment /\ AtLimit
            /\ Exit("UnclosedBlockComment", CursorPos(counts))

Inside == UNCHANGED <<pc, tokens, locals>>

(* Slip: the loop ends below zero.                                         *)
NestOn(n) == nesting' = n /\ UNCHANGED <<pc, tokens, base, digits_start>>

Nest(n) == /\ nesting' = n
           /\ pc' = IF n = 0 THEN "loop" ELSE pc
           /\ UNCHANGED <<tokens, base, digits_start>>

(* One turn of the loop of lex_block_comment.  A * or / that is half of no *)
(* delimiter is passed by without being counted.                           *)
BlockCommentNext ==
    /\ InBlockComment /\ ~AtLimit
    /\ CASE Peek(0) = "\r" /\ Peek(1) = "\n" -> Consume(2, CrlfTerminator, Inside)
         [] Peek(0) = "\r" /\ Peek(1) # "\n" -> Consume(1, LineTerminator, Inside)
         [] Peek(0) = "\n" -> Consume(1, LineTerminator, Inside)
         [] Peek(0) = "\t" -> Consume(1, <<"tab">>, Inside)
         [] Peek(0) = "*" /\ Peek(1) = "/" -> Consume(2, Normal(2), Nest(nesting - 1))
         [] Peek(0) = "/" /\ Peek(1) = "*" -> Consume(2, Normal(2), Nest(nesting + 1))
         [] Peek(0) = "*" /\ Peek(1) # "/" -> Consume(1, <<>>, Inside)
         [] Peek(0) = "/" /\ Peek(1) # "*" -> Consume(1, <<>>, Inside)
         [] Peek(0) \notin {"\r", "\n", "\t", "*", "/", "bad"} ->
              Consume(1, Normal(1), Inside)
         [] Peek(0) = "bad" -> FALSE

-----------------------------------------------------------------------------
(* lex_source: a byte order mark is passed by and counted for the file.    *)
(* It does not set characters_in_line: that is what the stack holds.       *)
Init == /\ source \in Sources
        /\ pc = "loop"
        /\ cursor = IF source # <<>> /\ Head(source) = "BOM" THEN 2 ELSE 1
        /\ \E residue \in StackResidue :
             counts = [line |-> 1, column |-> 1, characters_in_line |-> residue,
                       total_characters |-> cursor - 1, limit |-> "none"]
        /\ token_pos = [line |-> 0, column |-> 0]
        /\ nesting = 0 /\ base = 0 /\ digits_start = 0
        /\ tokens = <<>>
        /\ error = [kind |-> "none", pos |-> token_pos]

Next == \/ Word \/ NumberPrefix \/ Zero \/ Decimal
        \/ Digit \/ DigitsError \/ Underscore \/ DigitsEnd
        \/ Space \/ Tab \/ Crlf \/ NextLine \/ EndOfFile \/ Symbol \/ Unexpected
        \/ LineComment \/ LineCommentNext \/ LineCommentEnd \/ CommentError
        \/ BlockComment \/ Unclosed \/ BlockCommentNext

Spec == Init /\ [][Next]_vars /\ WF_vars(Next)

-----------------------------------------------------------------------------
TypeOK == /\ pc \in {"loop", "line_comment", "block_comment", "digits", "tokens", "error"}
          /\ cursor \in 1 .. Len(source) + 1
          /\ counts.line \in 1 .. MAX_LINES_PER_FILE
          /\ counts.column \in Nat \ {0}
          /\ counts.total_characters \in 0 .. MAX_CHARACTERS_PER_FILE
          /\ pc = "block_comment" => nesting > 0
          /\ pc = "digits" => base \in {2, 10, 16} /\ digits_start <= cursor
          /\ pc = "tokens" <=> tokens # <<>> /\ Last(tokens).kind = EndOfFileKind

(* What spec/parsing.md, Limits, calls the lines of a source file: a line  *)
(* ends after LF and after a CR that no LF follows.                        *)
LineEnds == {k \in 1 .. Len(source) :
                \/ source[k] = "\n"
                \/ source[k] = "\r" /\ (k < Len(source) => source[k + 1] # "\n")}
FirstCharacter == IF source # <<>> /\ Head(source) = "BOM" THEN 2 ELSE 1
LineStarts == {FirstCharacter} \cup {k + 1 : k \in LineEnds}
LineStart(i) == CHOOSE k \in LineStarts : k <= i /\ \A j \in LineStarts : j > k => j > i
LineOf(i) == 1 + Cardinality({k \in LineEnds : k < i})

(* Tab stops are the multiples of TabStop: the first one after a column.   *)
TabStopAfter(column) == CHOOSE stop \in column + 1 .. column + TabStop :
                            stop % TabStop = 0

ColumnOf(i) ==
    LET column[k \in FirstCharacter .. Len(source) + 1] ==
            IF k \in LineStarts THEN 1
            ELSE IF source[k - 1] = "\t" THEN TabStopAfter(column[k - 1])
            ELSE column[k - 1] + 1
    IN column[i]

TooManyCharacters == Len(source) > MAX_CHARACTERS_PER_FILE
TooManyLines == Cardinality(LineEnds) + 1 > MAX_LINES_PER_FILE
LineTooLong == \E k \in LineStarts : \E i \in k .. Len(source) :
                   LineStart(i) = k /\ i - k + 1 > MAX_CHARACTERS_PER_LINE

(* A tab in a line comment counts as one column, where others go on to the *)
(* tab stop.  No token comes after it on its line, but the end of the file *)
(* may.                                                                    *)
TabInLastComment ==
    \E j, k \in LineStart(Len(source) + 1) .. Len(source) :
        j < k /\ source[j] = "/" /\ source[j + 1] = "/" /\ source[k] = "\t"

(* A token is on the line where the source has it.                         *)
LinesTrue == \A t \in Range(tokens) : t.pos.line = LineOf(t.first)

(* A token is on the line, and in the column, where the source has it,     *)
(* whatever comments, blanks and line ends came before.                    *)
PositionsTrue == /\ LinesTrue
                 /\ \A t \in Range(tokens) :
                      \/ t.pos.column = ColumnOf(t.first)
                      \/ t.kind = EndOfFileKind /\ TabInLastComment

(* A file that becomes tokens keeps the three limits of spec/parsing.md,   *)
(* and a file is refused for a limit only when it exceeds that one.        *)
LimitsExact == /\ pc = "tokens" => ~TooManyCharacters /\ ~TooManyLines /\ ~LineTooLong
               /\ error.kind = "CharacterLimitExceeded" => TooManyCharacters
               /\ error.kind = "LineLimitExceeded" => TooManyLines
               /\ error.kind = "ColumnLimitExceeded" => LineTooLong

HasPair(s, a, b) == \E k \in 1 .. Len(s) - 1 : s[k] = a /\ s[k + 1] = b

(* A block comment and an identifier.                                      *)
CommentAndName(s) == /\ Len(s) > 4 /\ SubSeq(s, 1, 2) = <<"/", "*">>
                     /\ SubSeq(s, Len(s) - 2, Len(s)) = <<"*", "/", "a">>
                     /\ \A k \in 3 .. Len(s) - 3 : s[k] \notin {"/", "*"}

(* CR LF outside of a comment, and halves of comment delimiters inside,    *)
(* the code does not count as spec/parsing.md does.                        *)
CountedAsWritten == \/ ~HasPair(source, "\r", "\n") /\ ~HasPair(source, "/", "*")
                    \/ CommentAndName(source)

(* A first line whose count starts at what the stack held, when the limit  *)
(* refuses it: without comments, every character up to the cursor counts.  *)
CountedFromResidue == /\ error.kind = "ColumnLimitExceeded" /\ counts.line = 1
                      /\ counts.characters_in_line # cursor - FirstCharacter

(* PositionsTrue and LimitsExact of the files that the code counts so, but *)
(* that a first line counted from the residue of the stack may be refused. *)
CountedPositionsTrue == CountedAsWritten => PositionsTrue
CountedLimitsExact == CountedAsWritten => LimitsExact \/ CountedFromResidue

(* The lexer comes to an end of every file, though no loop of it looks at  *)
(* the length: each relies on the nul after the last character.            *)
LexReturns == <>(pc \in {"tokens", "error"})
=============================================================================
