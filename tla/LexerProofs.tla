---------------------------- MODULE LexerProofs ----------------------------
(***************************************************************************)
(* Theorems about Lexer for any files, keywords, limits and tab stop: the  *)
(* tokens and limits of every file that the code counts as written.        *)
(***************************************************************************)
EXTENDS Lexer, FiniteSets, FiniteSetTheorems, SequenceTheorems, WellFoundedInduction, TLAPS

-----------------------------------------------------------------------------
(* What is at the cursor, and how the lexer handles it when it passes by.  *)
Hows == {"normal", "tab", "invisible", "newline"}
Limits == {"CharacterLimitExceeded", "LineLimitExceeded", "ColumnLimitExceeded"}

Plainly(n, hows) ==
    /\ n >= 1 /\ hows = Normal(n) /\ cursor + n <= Len(source) + 1
    /\ \A k \in 0 .. n - 1 : source[cursor + k] \notin {"\t", "\r", "\n"}
TabStep(n, hows) ==
    n = 1 /\ hows = <<"tab">> /\ cursor <= Len(source) /\ source[cursor] = "\t"
LineStep(n, hows) == n = 1 /\ hows = LineTerminator /\ cursor \in LineEnds
AtCrlf == /\ cursor < Len(source)
          /\ source[cursor] = "\r" /\ source[cursor + 1] = "\n"
CrlfStep(n, hows) == n = 2 /\ hows = CrlfTerminator /\ AtCrlf
CommentTab(n, hows) == /\ n = 1 /\ hows = Normal(1) /\ pc = "line_comment"
                       /\ cursor <= Len(source) /\ source[cursor] = "\t"
NoStep(n, hows) == n = 0 /\ hows = <<>>

(* The two ways of the code that its counting leaves out: CR LF outside    *)
(* of comments, and half a delimiter inside.                               *)
HalfCrlf(n, hows) == n = 1 /\ hows = CrlfTerminator /\ pc = "loop" /\ AtCrlf
Uncounted(n, hows) ==
    /\ n = 1 /\ hows = <<>> /\ pc = "block_comment" /\ cursor <= Len(source)
    /\ \/ source[cursor] = "*" /\ Peek(1) # "/"
       \/ source[cursor] = "/" /\ Peek(1) # "*"

Evenly(n, hows) == \/ Plainly(n, hows) \/ TabStep(n, hows) \/ CommentTab(n, hows)
                   \/ LineStep(n, hows) \/ CrlfStep(n, hows) \/ NoStep(n, hows)
Passes(n, hows) == Evenly(n, hows) \/ HalfCrlf(n, hows) \/ Uncounted(n, hows)

FirstDigit == IF base = 10 THEN digits_start ELSE digits_start - 2

-----------------------------------------------------------------------------
Positions == [line : Nat, column : Nat]
Counters == [line : Nat \ {0}, column : Nat \ {0}, characters_in_line : Nat,
             total_characters : Nat, limit : Limits \cup {"none"}]
Kinds == Seq(STRING) \cup {Identifier, IntLiteralKind, EndOfFileKind}
TokenType == [kind : Kinds, pos : Positions, first : Nat, last : Nat]

Ended == tokens # <<>> /\ Last(tokens).kind = EndOfFileKind

Types ==
    /\ source \in Seq(STRING)
    /\ pc \in {"loop", "line_comment", "block_comment", "digits", "tokens", "error"}
    /\ cursor \in FirstCharacter .. Len(source) + 1
    /\ counts \in Counters /\ counts.limit = "none"
    /\ counts.line <= MAX_LINES_PER_FILE
    /\ counts.total_characters <= MAX_CHARACTERS_PER_FILE
    /\ token_pos \in Positions
    /\ nesting \in Nat /\ base \in Nat /\ digits_start \in Nat
    /\ pc = "block_comment" => nesting > 0 /\ HasPair(source, "/", "*")
    /\ pc = "digits" => /\ base \in {2, 10, 16} /\ digits_start <= cursor
                        /\ FirstDigit \in FirstCharacter .. cursor
    /\ tokens \in Seq(TokenType)
    /\ pc = "tokens" <=> Ended
    /\ pc # "error" => error.kind = "none"

(* Each token is in the file, and after the one before it.                 *)
Order ==
    /\ \A k \in 1 .. Len(tokens) :
         FirstCharacter <= tokens[k].first /\ tokens[k].last < cursor
    /\ \A k \in 1 .. Len(tokens) : tokens[k].kind # EndOfFileKind =>
                                       tokens[k].first <= tokens[k].last
    /\ \A j, k \in 1 .. Len(tokens) : j < k => tokens[j].last < tokens[k].first
    /\ pc = "digits" => \A k \in 1 .. Len(tokens) : tokens[k].last < FirstDigit
    /\ pc = "tokens" => AtLimit

(* A block comment and a name: where the lexer can be.                     *)
Course == CommentAndName(source) =>
              /\ pc \in {"loop", "block_comment", "tokens", "error"}
              /\ pc = "loop" => cursor \in {1, Len(source), Len(source) + 1}
              /\ pc = "block_comment" => cursor \in 3 .. Len(source) - 2 /\ nesting = 1

CrlfFree == ~HasPair(source, "\r", "\n") \/ CommentAndName(source)

Lines == CrlfFree => /\ counts.line = LineOf(cursor)
                     /\ pc = "digits" => token_pos.line = LineOf(FirstDigit)
                     /\ \A t \in Range(tokens) : t.pos.line = LineOf(t.first)
                     /\ error.kind = "LineLimitExceeded" => TooManyLines

(* What is before i on its line: the delimiter of a line comment, and a    *)
(* tab behind it.                                                          *)
CommentBefore(i) == \E j \in LineStart(i) .. i - 2 : source[j] = "/" /\ source[j + 1] = "/"
TabBefore(i) == \E j, k \in LineStart(i) .. i - 1 :
                    j < k /\ source[j] = "/" /\ source[j + 1] = "/" /\ source[k] = "\t"

Columns == CountedAsWritten =>
    /\ \/ counts.column = ColumnOf(cursor)
       \/ /\ TabBefore(cursor)
          /\ pc = "loop" => AtLimit \/ cursor \in LineEnds
          /\ pc # "digits" /\ pc # "block_comment"
    /\ pc = "line_comment" => CommentBefore(cursor)
    /\ pc = "digits" => token_pos.column = ColumnOf(FirstDigit)
    /\ \A t \in Range(tokens) : \/ t.pos.column = ColumnOf(t.first)
                                \/ t.kind = EndOfFileKind /\ TabInLastComment

InLine == counts.characters_in_line = cursor - LineStart(cursor)
FromResidue == counts.line = 1 /\ counts.characters_in_line # cursor - FirstCharacter
Fits(i) == i - LineStart(i) + 1 <= MAX_CHARACTERS_PER_LINE

Characters == CountedAsWritten =>
    /\ counts.total_characters = cursor - 1
    /\ counts.characters_in_line >= cursor - LineStart(cursor)
    /\ InLine \/ FromResidue
    /\ \A i \in FirstCharacter .. cursor - 1 : Fits(i)
    /\ error.kind = "CharacterLimitExceeded" => TooManyCharacters
    /\ error.kind = "ColumnLimitExceeded" => LineTooLong \/ FromResidue

IInv == Types /\ Order /\ Course /\ Lines /\ Columns /\ Characters

-----------------------------------------------------------------------------
(* A nonempty set of natural numbers has a least member.                   *)
LEMMA LeastNat ==
    ASSUME NEW T, T \subseteq Nat, T # {}
    PROVE  \E x \in T : \A y \in T : x <= y
  <1>1. \E x \in T : \A y \in T : ~ (<<y, x>> \in OpToRel(<, Nat))
    BY NatLessThanWellFounded, WFMin
  <1>2. PICK x \in T : \A y \in T : ~ (<<y, x>> \in OpToRel(<, Nat))
    BY <1>1
  <1>3. ASSUME NEW y \in T PROVE x <= y
    <2>1. y \in Nat /\ x \in Nat
      OBVIOUS
    <2>2. ~ (<<y, x>> \in OpToRel(<, Nat))
      BY <1>2
    <2>3. ~ (y < x)
      BY <2>1, <2>2 DEF OpToRel
    <2> QED BY <2>1, <2>3, SMT
  <1> QED BY <1>3

(* What a step defines of each value from the one before exists as a       *)
(* function on any range.                                                  *)
Follows(f, a, n, b, step) ==
    /\ f[a] = b
    /\ \A k \in a + 1 .. n : f[k] = step[<<k, f[k - 1]>>]

LEMMA StepsExist ==
    ASSUME NEW S, NEW a \in Nat, NEW n \in Nat, a <= n, NEW b \in S,
           NEW step \in [Nat \X S -> S]
    PROVE  \E f \in [a .. n -> S] : Follows(f, a, n, b, step)
  <1> DEFINE Has(m) == \E f \in [a .. m -> S] : Follows(f, a, m, b, step)
             T == {m \in Nat : a <= m /\ ~Has(m)}
  <1> SUFFICES ASSUME T # {} PROVE FALSE
    OBVIOUS
  <1>1. PICK m \in T : \A y \in T : m <= y
    <2>1. T \subseteq Nat
      OBVIOUS
    <2> HIDE DEF T
    <2> QED BY <2>1, LeastNat
  <1>2. CASE m = a
    <2> DEFINE f == [k \in a .. a |-> b]
    <2>1. f \in [a .. m -> S] /\ f[a] = b
      BY <1>2
    <2>2. a + 1 .. m = {}
      BY <1>2
    <2> HIDE DEF f
    <2>3. Follows(f, a, m, b, step)
      BY <2>1, <2>2 DEF Follows
    <2> QED BY <1>1, <2>1, <2>3
  <1>3. CASE m # a
    <2>1. m - 1 \in Nat /\ a <= m - 1 /\ ~(m <= m - 1)
      BY <1>1, <1>3
    <2>2. Has(m - 1)
      BY <1>1, <2>1
    <2>3. PICK g \in [a .. m - 1 -> S] : Follows(g, a, m - 1, b, step)
      BY <2>2
    <2> DEFINE f == [k \in a .. m |-> IF k = m THEN step[<<m, g[m - 1]>>] ELSE g[k]]
    <2>4. g[m - 1] \in S /\ step[<<m, g[m - 1]>>] \in S
      BY <1>1, <2>1, <2>3
    <2>5. f \in [a .. m -> S]
      BY <1>1, <2>1, <2>3, <2>4
    <2>6. f[a] = b
      BY <1>1, <1>3, <2>1, <2>3 DEF Follows
    <2>7. ASSUME NEW k \in a + 1 .. m PROVE f[k] = step[<<k, f[k - 1]>>]
      <3>1. k - 1 \in a .. m /\ k - 1 # m /\ k \in a .. m
        BY <1>1
      <3>2. f[k - 1] = g[k - 1]
        BY <3>1
      <3>3. CASE k = m
        BY <3>1, <3>2, <3>3
      <3>4. CASE k # m
        <4>1. k \in a + 1 .. m - 1
          BY <1>1, <3>4
        <4>2. g[k] = step[<<k, g[k - 1]>>]
          BY <2>3, <4>1 DEF Follows
        <4> QED BY <3>1, <3>2, <3>4, <4>2
      <3> QED BY <3>3, <3>4
    <2> HIDE DEF f
    <2>8. Follows(f, a, m, b, step)
      BY <2>6, <2>7 DEF Follows
    <2> QED BY <1>1, <2>5, <2>8
  <1> QED BY <1>2, <1>3

-----------------------------------------------------------------------------
LEMMA FieldTypes ==
    ASSUME NEW c \in Counters
    PROVE  /\ c.line \in Nat \ {0}
           /\ c.column \in Nat \ {0}
           /\ c.characters_in_line \in Nat
           /\ c.total_characters \in Nat
  BY DEF Counters

(* What each handle_* does to each counter.                                *)
LEMMA InvisibleIs ==
    ASSUME NEW c \in Counters
    PROVE  LET d == Invisible(c) IN
           /\ d \in Counters
           /\ d.line = c.line
           /\ d.column = c.column
           /\ d.characters_in_line = c.characters_in_line + 1
           /\ d.total_characters = c.total_characters + 1
           /\ \/ /\ d.limit = "ColumnLimitExceeded"
                 /\ d.characters_in_line > MAX_CHARACTERS_PER_LINE
              \/ /\ d.limit = "CharacterLimitExceeded"
                 /\ d.total_characters > MAX_CHARACTERS_PER_FILE
              \/ /\ d.limit = c.limit
                 /\ d.characters_in_line <= MAX_CHARACTERS_PER_LINE
                 /\ d.total_characters <= MAX_CHARACTERS_PER_FILE
  <1> USE LexerAssumption
  <1> DEFINE b == [c EXCEPT !.characters_in_line = @ + 1]
             d == [b EXCEPT !.total_characters = @ + 1]
  <1>0. /\ b \in Counters
        /\ b.line = c.line
        /\ b.column = c.column
        /\ b.characters_in_line = c.characters_in_line + 1
        /\ b.total_characters = c.total_characters
        /\ b.limit = c.limit
    BY DEF Counters
  <1> HIDE DEF b
  <1>1. /\ d \in Counters
        /\ d.line = c.line
        /\ d.column = c.column
        /\ d.characters_in_line = c.characters_in_line + 1
        /\ d.total_characters = c.total_characters + 1
        /\ d.limit = c.limit
    BY <1>0 DEF Counters
  <1>2. Invisible(c) = IF d.characters_in_line > MAX_CHARACTERS_PER_LINE
                       THEN [d EXCEPT !.limit = "ColumnLimitExceeded"]
                       ELSE IF d.total_characters > MAX_CHARACTERS_PER_FILE
                       THEN [d EXCEPT !.limit = "CharacterLimitExceeded"] ELSE d
    BY DEF Invisible, b
  <1> HIDE DEF d
  <1>3. ASSUME NEW text \in Limits
        PROVE  LET e == [d EXCEPT !.limit = text] IN
               /\ e \in Counters
               /\ e.line = d.line
               /\ e.column = d.column
               /\ e.characters_in_line = d.characters_in_line
               /\ e.total_characters = d.total_characters
               /\ e.limit = text
    BY <1>1 DEF Counters, Limits
  <1>4. d.characters_in_line \in Nat /\ d.total_characters \in Nat
    BY <1>1 DEF Counters, Limits
  <1> QED BY <1>1, <1>2, <1>3, <1>4 DEF Limits

LEMMA NewLineIs ==
    ASSUME NEW c \in Counters
    PROVE  LET d == NewLine(c) IN
           /\ d \in Counters
           /\ d.line = c.line + 1
           /\ d.column = 1
           /\ d.characters_in_line = 0
           /\ d.total_characters = c.total_characters
           /\ \/ d.limit = "LineLimitExceeded" /\ d.line > MAX_LINES_PER_FILE
              \/ d.limit = c.limit /\ d.line <= MAX_LINES_PER_FILE
  <1> USE LexerAssumption
  <1> DEFINE a == [c EXCEPT !.line = @ + 1]
             b == [a EXCEPT !.column = 1]
             d == [b EXCEPT !.characters_in_line = 0]
  <1>0. /\ a \in Counters
        /\ a.line = c.line + 1
        /\ a.characters_in_line = c.characters_in_line
        /\ a.total_characters = c.total_characters
        /\ a.limit = c.limit
    BY DEF Counters
  <1> HIDE DEF a
  <1>5. /\ b \in Counters
        /\ b.line = a.line
        /\ b.column = 1
        /\ b.total_characters = a.total_characters
        /\ b.limit = a.limit
    BY <1>0 DEF Counters
  <1> HIDE DEF b
  <1>1. /\ d \in Counters
        /\ d.line = c.line + 1
        /\ d.column = 1
        /\ d.characters_in_line = 0
        /\ d.total_characters = c.total_characters
        /\ d.limit = c.limit
    BY <1>0, <1>5 DEF Counters
  <1>2. NewLine(c) = IF d.line > MAX_LINES_PER_FILE
                     THEN [d EXCEPT !.limit = "LineLimitExceeded"] ELSE d
    BY DEF NewLine, a, b
  <1> HIDE DEF d
  <1>3. LET e == [d EXCEPT !.limit = "LineLimitExceeded"] IN
        /\ e \in Counters
        /\ e.line = d.line
        /\ e.column = d.column
        /\ e.characters_in_line = d.characters_in_line
        /\ e.total_characters = d.total_characters
        /\ e.limit = "LineLimitExceeded"
    BY <1>1 DEF Counters, Limits
  <1>4. d.line \in Nat
    BY <1>1 DEF Counters, Limits
  <1> QED BY <1>1, <1>2, <1>3, <1>4 DEF Limits

LEMMA ColumnIs ==
    ASSUME NEW c \in Counters, NEW column \in Nat \ {0}
    PROVE  LET d == [c EXCEPT !.column = column] IN
           /\ d \in Counters
           /\ d.line = c.line
           /\ d.column = column
           /\ d.characters_in_line = c.characters_in_line
           /\ d.total_characters = c.total_characters
           /\ d.limit = c.limit
  BY DEF Counters, Limits

LEMMA TabColumnType ==
    ASSUME NEW column \in Nat \ {0}
    PROVE  TabColumn(column) \in Nat \ {0}
  <1>1. TabStop \in Nat \ {0}
    BY LexerAssumption
  <1>2. column % TabStop \in 0 .. TabStop - 1
    BY <1>1, SMT
  <1> QED BY <1>1, <1>2, SMT DEF TabColumn

LEMMA HandleType ==
    ASSUME NEW c \in Counters, NEW how \in Hows
    PROVE  Handle(c, how) \in Counters
  <1>1. c.column + 1 \in Nat \ {0} /\ TabColumn(c.column) \in Nat \ {0}
    BY TabColumnType DEF Counters
  <1>2. CASE c.limit # "none"
    BY <1>2 DEF Handle
  <1>3. CASE c.limit = "none"
    <2>1. CASE how = "normal"
      <3>1. Handle(c, how) = Invisible([c EXCEPT !.column = c.column + 1])
        BY <1>3, <2>1 DEF Handle
      <3> QED BY <1>1, <3>1, ColumnIs, InvisibleIs
    <2>2. CASE how = "tab"
      <3>1. Handle(c, how) = Invisible([c EXCEPT !.column = TabColumn(c.column)])
        BY <1>3, <2>2 DEF Handle
      <3> QED BY <1>1, <3>1, ColumnIs, InvisibleIs
    <2>3. CASE how = "invisible"
      BY <1>3, <2>3, InvisibleIs DEF Handle
    <2>4. CASE how = "newline"
      BY <1>3, <2>4, NewLineIs DEF Handle
    <2> QED BY <2>1, <2>2, <2>3, <2>4 DEF Hows
  <1> QED BY <1>2, <1>3

LEMMA HandleAllIs ==
    ASSUME NEW c \in Counters, NEW hows \in Seq(Hows)
    PROVE  \E f \in [0 .. Len(hows) -> Counters] :
              /\ f[0] = c
              /\ \A k \in 1 .. Len(hows) : f[k] = Handle(f[k - 1], hows[k])
              /\ HandleAll(c, hows) = f[Len(hows)]
  <1> DEFINE n == Len(hows)
             step == [p \in Nat \X Counters |->
                        IF p[1] \in 1 .. n THEN Handle(p[2], hows[p[1]]) ELSE p[2]]
             Rec(g) == g = [k \in 0 .. n |->
                              IF k = 0 THEN c ELSE Handle(g[k - 1], hows[k])]
  <1>1. n \in Nat /\ \A k \in 1 .. n : hows[k] \in Hows
    OBVIOUS
  <1>2. step \in [Nat \X Counters -> Counters]
    BY <1>1, HandleType
  <1>3. PICK f \in [0 .. n -> Counters] : Follows(f, 0, n, c, step)
    <2> HIDE DEF step, n, Rec
    <2>1. 0 \in Nat /\ 0 <= n
      BY <1>1
    <2> QED BY <1>1, <1>2, <2>1, StepsExist, Zenon
  <1>4. ASSUME NEW k \in 1 .. n PROVE f[k] = Handle(f[k - 1], hows[k])
    <2>1. f[k - 1] \in Counters /\ k \in Nat /\ k \in 0 + 1 .. n
      BY <1>1, <1>3
    <2>2. f[k] = step[<<k, f[k - 1]>>]
      BY <1>3, <2>1 DEF Follows
    <2> QED BY <2>1, <2>2
  <1>5. f[0] = c
    BY <1>3 DEF Follows
  <1>6. Rec(f)
    BY <1>1, <1>3, <1>4, <1>5
  <1>7. ASSUME NEW g, Rec(g) PROVE g[n] = f[n]
    <2> DEFINE T == {k \in Nat : k <= n /\ g[k] # f[k]}
    <2> SUFFICES ASSUME T # {} PROVE FALSE
      BY <1>1
    <2>1. PICK k \in T : \A y \in T : k <= y
      <3>1. T \subseteq Nat
        OBVIOUS
      <3> HIDE DEF T
      <3> QED BY <3>1, LeastNat
    <2>2. g[0] = c
      BY <1>1, <1>7
    <2>3. k # 0 /\ k \in 1 .. n /\ k - 1 \in Nat /\ k - 1 <= n /\ ~(k <= k - 1)
      BY <1>1, <1>5, <2>1, <2>2
    <2>4. g[k - 1] = f[k - 1]
      BY <2>1, <2>3
    <2>5. g[k] = Handle(g[k - 1], hows[k])
      BY <1>1, <1>7, <2>3
    <2> QED BY <1>4, <2>1, <2>3, <2>4, <2>5
  <1>8. HandleAll(c, hows) = (CHOOSE g : Rec(g))[n]
    BY DEF HandleAll
  <1> HIDE DEF Rec
  <1>9. Rec(CHOOSE g : Rec(g))
    BY <1>6
  <1>10. HandleAll(c, hows) = f[n]
    BY <1>7, <1>8, <1>9
  <1> QED BY <1>3, <1>4, <1>5, <1>10

(* What is left in the counters of c after n characters, the last of which *)
(* ends the line or not, where the column then is that; or why they are    *)
(* too many.                                                               *)
Room(c, n) == /\ \A j \in 1 .. n : c.characters_in_line + j <= MAX_CHARACTERS_PER_LINE
              /\ \A j \in 1 .. n : c.total_characters + j <= MAX_CHARACTERS_PER_FILE

Onward(c, d, n, column) ==
    /\ d.limit = "none"
    /\ d.line = c.line
    /\ d.column = column
    /\ d.characters_in_line = c.characters_in_line + n
    /\ d.total_characters = c.total_characters + n
    /\ Room(c, n)

NextLineOn(c, d, n) ==
    /\ d.limit = "none"
    /\ d.line = c.line + 1
    /\ d.line <= MAX_LINES_PER_FILE
    /\ d.column = 1
    /\ d.characters_in_line = 0
    /\ d.total_characters = c.total_characters + n
    /\ Room(c, n)

TooMany(c, d, n) ==
    \/ /\ d.limit = "ColumnLimitExceeded"
       /\ \E j \in 1 .. n : c.characters_in_line + j > MAX_CHARACTERS_PER_LINE
    \/ /\ d.limit = "CharacterLimitExceeded"
       /\ \E j \in 1 .. n : c.total_characters + j > MAX_CHARACTERS_PER_FILE

NoLineLeft(c, d) == d.limit = "LineLimitExceeded" /\ c.line + 1 > MAX_LINES_PER_FILE

LEMMA HandleNone ==
    ASSUME NEW c \in Counters
    PROVE  HandleAll(c, <<>>) = c
  <1>1. <<>> \in Seq(Hows) /\ Len(<<>>) = 0
    OBVIOUS
  <1> DEFINE hows == <<>>
  <1>2. hows \in Seq(Hows) /\ Len(hows) = 0
    BY <1>1
  <1> HIDE DEF hows
  <1>3. PICK f \in [0 .. Len(hows) -> Counters] :
              f[0] = c /\ HandleAll(c, hows) = f[Len(hows)]
    BY <1>2, HandleAllIs
  <1>4. HandleAll(c, hows) = c
    BY <1>2, <1>3
  <1> QED BY <1>4 DEF hows

LEMMA HandleTab ==
    ASSUME NEW c \in Counters, c.limit = "none"
    PROVE  LET d == HandleAll(c, <<"tab">>) IN
           /\ d \in Counters
           /\ Onward(c, d, 1, TabColumn(c.column)) \/ TooMany(c, d, 1)
  <1> DEFINE b == [c EXCEPT !.column = TabColumn(c.column)]
             d == Invisible(b)
             hows == <<"tab">>
  <1>1. hows \in Seq(Hows) /\ Len(hows) = 1 /\ hows[1] = "tab"
    BY DEF Hows
  <1>2. HandleAll(c, hows) = Handle(c, "tab")
    <2> HIDE DEF hows
    <2> QED BY <1>1, HandleAllIs
  <1>3. Handle(c, "tab") = d
    BY DEF Handle
  <1>4. TabColumn(c.column) \in Nat \ {0}
    BY TabColumnType DEF Counters
  <1>5. /\ b \in Counters
        /\ b.line = c.line
        /\ b.column = TabColumn(c.column)
        /\ b.characters_in_line = c.characters_in_line
        /\ b.total_characters = c.total_characters
        /\ b.limit = "none"
    BY <1>4, ColumnIs
  <1> HIDE DEF b
  <1>6. Onward(c, d, 1, TabColumn(c.column)) \/ TooMany(c, d, 1)
    BY <1>5, InvisibleIs DEF Onward, TooMany, Room
  <1>7. d \in Counters
    BY <1>5, InvisibleIs
  <1> QED BY <1>2, <1>3, <1>6, <1>7

LEMMA HandleLine ==
    ASSUME NEW c \in Counters, c.limit = "none"
    PROVE  LET d == HandleAll(c, LineTerminator) IN
           /\ d \in Counters
           /\ NextLineOn(c, d, 1) \/ TooMany(c, d, 1) \/ NoLineLeft(c, d)
  <1> DEFINE b == Invisible(c)
             d == Handle(b, "newline")
  <1>1. /\ LineTerminator \in Seq(Hows)
        /\ Len(LineTerminator) = 2
        /\ LineTerminator[1] = "invisible"
        /\ LineTerminator[2] = "newline"
    BY DEF Hows, LineTerminator
  <1>2. HandleAll(c, LineTerminator) = Handle(Handle(c, "invisible"), "newline")
    BY <1>1, HandleAllIs
  <1>3. Handle(c, "invisible") = b
    BY DEF Handle
  <1>4. b \in Counters /\ d \in Counters
    BY InvisibleIs, HandleType DEF Hows
  <1>5. CASE b.limit # "none"
    <2>1. d = b
      BY <1>5 DEF Handle
    <2>2. TooMany(c, b, 1)
      BY <1>5, InvisibleIs DEF TooMany
    <2> QED BY <1>2, <1>3, <1>4, <2>1, <2>2
  <1>6. CASE b.limit = "none"
    <2>1. d = NewLine(b)
      BY <1>6 DEF Handle
    <2>2. /\ b.line = c.line
          /\ b.total_characters = c.total_characters + 1
          /\ Room(c, 1)
      BY <1>6, InvisibleIs DEF Room
    <2> HIDE DEF b, d
    <2>3. NextLineOn(c, d, 1) \/ NoLineLeft(c, d)
      BY <1>4, <1>6, <2>1, <2>2, NewLineIs DEF NextLineOn, NoLineLeft
    <2> QED BY <1>2, <1>3, <1>4, <2>3 DEF d
  <1> QED BY <1>5, <1>6

LEMMA HandleCrlf ==
    ASSUME NEW c \in Counters, c.limit = "none"
    PROVE  LET d == HandleAll(c, CrlfTerminator) IN
           /\ d \in Counters
           /\ NextLineOn(c, d, 2) \/ TooMany(c, d, 2) \/ NoLineLeft(c, d)
  <1> DEFINE a == Handle(c, "invisible")
             b == Handle(a, "invisible")
             d == Handle(b, "newline")
  <1>1. /\ CrlfTerminator \in Seq(Hows)
        /\ Len(CrlfTerminator) = 3
        /\ CrlfTerminator[1] = "invisible"
        /\ CrlfTerminator[2] = "invisible"
        /\ CrlfTerminator[3] = "newline"
    BY DEF Hows, CrlfTerminator
  <1>2. HandleAll(c, CrlfTerminator) = d
    BY <1>1, HandleAllIs
  <1>3. a \in Counters /\ b \in Counters /\ d \in Counters
    BY HandleType DEF Hows
  <1>4. a = Invisible(c)
    BY DEF Handle
  <1>5. CASE a.limit # "none"
    <2>1. b = a
      BY <1>5 DEF Handle
    <2>2. d = b
      BY <1>5, <2>1 DEF Handle
    <2> HIDE DEF a, b, d
    <2>3. TooMany(c, a, 2)
      BY <1>4, <1>5, InvisibleIs DEF TooMany
    <2> QED BY <1>2, <1>3, <2>1, <2>2, <2>3
  <1>6. CASE a.limit = "none" /\ b.limit # "none"
    <2>1. b = Invisible(a)
      BY <1>6 DEF Handle
    <2>2. d = b
      BY <1>6 DEF Handle
    <2> HIDE DEF a, b, d
    <2>3. TooMany(c, b, 2)
      BY <1>3, <1>4, <1>6, <2>1, InvisibleIs DEF TooMany, Counters
    <2> QED BY <1>2, <1>3, <2>2, <2>3
  <1>7. CASE a.limit = "none" /\ b.limit = "none"
    <2>1. b = Invisible(a)
      BY <1>7 DEF Handle
    <2>2. d = NewLine(b)
      BY <1>7 DEF Handle
    <2> HIDE DEF a, b, d
    <2>3. /\ b.line = c.line
          /\ b.total_characters = c.total_characters + 2
          /\ Room(c, 2)
      BY <1>3, <1>4, <1>7, <2>1, InvisibleIs DEF Room, Counters
    <2>4. NextLineOn(c, d, 2) \/ NoLineLeft(c, d)
      BY <1>3, <1>7, <2>2, <2>3, NewLineIs DEF NextLineOn, NoLineLeft
    <2> QED BY <1>2, <1>3, <2>4
  <1> QED BY <1>5, <1>6, <1>7

LEMMA HandleNormal ==
    ASSUME NEW c \in Counters, c.limit = "none", NEW n \in Nat
    PROVE  LET d == HandleAll(c, Normal(n)) IN
           /\ d \in Counters
           /\ Onward(c, d, n, c.column + n) \/ TooMany(c, d, n)
  <1>1. /\ Normal(n) \in Seq(Hows)
        /\ Len(Normal(n)) = n
        /\ \A k \in 1 .. n : Normal(n)[k] = "normal"
    BY DEF Hows, Normal
  <1>2. PICK f \in [0 .. n -> Counters] :
              /\ f[0] = c
              /\ \A k \in 1 .. n : f[k] = Handle(f[k - 1], "normal")
              /\ HandleAll(c, Normal(n)) = f[n]
    BY <1>1, HandleAllIs
  <1> DEFINE Good(k) == Onward(c, f[k], k, c.column + k) \/ TooMany(c, f[k], k)
             T == {k \in Nat : k <= n /\ ~Good(k)}
  <1>3. ASSUME T # {} PROVE FALSE
    <2>1. PICK k \in T : \A y \in T : k <= y
      <3>1. T \subseteq Nat
        OBVIOUS
      <3> HIDE DEF T
      <3> QED BY <1>3, <3>1, LeastNat
    <2>2. Good(0)
      <3>1. /\ c.column + 0 = c.column
            /\ c.characters_in_line + 0 = c.characters_in_line
            /\ c.total_characters + 0 = c.total_characters
        BY FieldTypes
      <3>2. f[0] = c /\ 1 .. 0 = {}
        BY <1>2
      <3> QED BY <3>1, <3>2 DEF Onward, Room
    <2>3. k # 0 /\ k \in 1 .. n /\ k - 1 \in Nat /\ k - 1 <= n /\ ~(k <= k - 1)
      BY <2>1, <2>2
    <2>4. Good(k - 1)
      BY <2>1, <2>3
    <2> DEFINE b == f[k - 1]
               d == f[k]
               m == k - 1
    <2>5. /\ b \in Counters /\ d \in Counters /\ m \in Nat /\ k = m + 1
          /\ d = Handle(b, "normal")
          /\ Onward(c, b, m, c.column + m) \/ TooMany(c, b, m)
      BY <1>2, <2>3, <2>4
    <2>6. ~Onward(c, d, k, c.column + k) /\ ~TooMany(c, d, k)
      BY <2>1
    <2> HIDE DEF b, d, m
    <2>7. CASE TooMany(c, b, m)
      <3>1. d = b
        BY <2>5, <2>7 DEF Handle, TooMany
      <3>2. TooMany(c, d, k)
        BY <2>5, <2>7, <3>1 DEF TooMany
      <3> QED BY <2>6, <3>2
    <2>8. CASE Onward(c, b, m, c.column + m)
      <3> DEFINE e == [b EXCEPT !.column = b.column + 1]
      <3>1. d = Invisible(e)
        BY <2>5, <2>8 DEF Handle, Onward
      <3>2. b.column + 1 \in Nat \ {0}
        BY <2>5, FieldTypes
      <3>3. /\ e \in Counters
            /\ e.line = b.line
            /\ e.column = b.column + 1
            /\ e.characters_in_line = b.characters_in_line
            /\ e.total_characters = b.total_characters
            /\ e.limit = b.limit
        BY <2>5, <3>2, ColumnIs
      <3> HIDE DEF e
      <3>4. /\ c.column \in Nat
            /\ c.characters_in_line \in Nat
            /\ c.total_characters \in Nat
            /\ MAX_CHARACTERS_PER_LINE \in Nat
            /\ MAX_CHARACTERS_PER_FILE \in Nat
        BY LexerAssumption, FieldTypes
      <3>5. /\ d.line = c.line
            /\ d.column = c.column + k
            /\ d.characters_in_line = c.characters_in_line + k
            /\ d.total_characters = c.total_characters + k
        <4>1. /\ d.line = e.line
              /\ d.column = e.column
              /\ d.characters_in_line = e.characters_in_line + 1
              /\ d.total_characters = e.total_characters + 1
          BY <3>1, <3>3, InvisibleIs
        <4>2. /\ b.line = c.line
              /\ b.column = c.column + m
              /\ b.characters_in_line = c.characters_in_line + m
              /\ b.total_characters = c.total_characters + m
          BY <2>8 DEF Onward
        <4>3. k = m + 1 /\ m \in Nat
          BY <2>5
        <4>4. d.line = c.line
          BY <3>3, <4>1, <4>2
        <4>8. \A x \in Nat : (x + m) + 1 = x + k
          BY <4>3
        <4>9. /\ d.column = (c.column + m) + 1
              /\ d.characters_in_line = (c.characters_in_line + m) + 1
              /\ d.total_characters = (c.total_characters + m) + 1
          BY <3>3, <4>1, <4>2, Zenon
        <4>5. d.column = c.column + k
          BY <3>4, <4>8, <4>9, Zenon
        <4>6. d.characters_in_line = c.characters_in_line + k
          BY <3>4, <4>8, <4>9, Zenon
        <4>7. d.total_characters = c.total_characters + k
          BY <3>4, <4>8, <4>9, Zenon
        <4> QED BY <4>4, <4>5, <4>6, <4>7
      <3>6. CASE d.limit = "none"
        <4>1. /\ d.characters_in_line <= MAX_CHARACTERS_PER_LINE
              /\ d.total_characters <= MAX_CHARACTERS_PER_FILE
          BY <3>1, <3>3, <3>6, InvisibleIs
        <4>2. Room(c, k)
          BY <2>5, <2>8, <3>4, <3>5, <4>1 DEF Room, Onward
        <4> QED BY <2>6, <3>5, <3>6, <4>2 DEF Onward
      <3>7. CASE d.limit # "none"
        <4>1. k \in 1 .. k
          BY <2>5
        <4>2. TooMany(c, d, k)
          BY <2>8, <3>1, <3>3, <3>5, <3>7, <4>1, InvisibleIs DEF TooMany, Onward
        <4> QED BY <2>6, <4>2
      <3> QED BY <3>6, <3>7
    <2> QED BY <2>5, <2>7, <2>8
  <1>4. Good(n) /\ f[n] \in Counters
    BY <1>2, <1>3
  <1> QED BY <1>2, <1>4

-----------------------------------------------------------------------------
(* Lines and columns of a text, place by place.                            *)
LEMMA EndsInText ==
    ASSUME source \in Seq(STRING)
    PROVE  /\ LineEnds \subseteq FirstCharacter .. Len(source)
           /\ IsFiniteSet(LineEnds)
           /\ FirstCharacter \in Nat \ {0}
           /\ FirstCharacter <= Len(source) + 1
           /\ Len(source) \in Nat
  <1>1. Len(source) \in Nat
    OBVIOUS
  <1>2. LineEnds \subseteq 1 .. Len(source)
    BY DEF LineEnds
  <1>3. FirstCharacter \in {1, 2}
    BY DEF FirstCharacter
  <1>4. FirstCharacter = 2 => source # <<>> /\ source[1] = "BOM"
    BY DEF FirstCharacter
  <1>5. source # <<>> => Len(source) >= 1
    OBVIOUS
  <1>6. ASSUME FirstCharacter = 2 PROVE 1 \notin LineEnds
    BY <1>4, <1>6 DEF LineEnds
  <1>7. IsFiniteSet(1 .. Len(source))
    BY <1>1, FS_Interval
  <1>8. IsFiniteSet(LineEnds)
    BY <1>2, <1>7, FS_Subset
  <1>9. ASSUME NEW k \in LineEnds PROVE k \in FirstCharacter .. Len(source)
    <2>1. k \in 1 .. Len(source)
      BY <1>2
    <2> QED BY <1>1, <1>3, <1>6, <2>1
  <1> QED BY <1>1, <1>3, <1>4, <1>5, <1>8, <1>9

LEMMA EndsBefore ==
    ASSUME source \in Seq(STRING), NEW i \in Int
    PROVE  LET before == {k \in LineEnds : k < i} IN
           /\ IsFiniteSet(before) /\ Cardinality(before) \in Nat
           /\ LineOf(i) = 1 + Cardinality(before)
           /\ LineOf(i) \in Nat \ {0}
  <1> DEFINE before == {k \in LineEnds : k < i}
  <1>1. IsFiniteSet(before)
    BY EndsInText, FS_Subset
  <1>2. Cardinality(before) \in Nat
    BY <1>1, FS_CardinalityType
  <1>3. LineOf(i) = 1 + Cardinality(before)
    BY DEF LineOf
  <1> QED BY <1>1, <1>2, <1>3

LEMMA SameLine ==
    ASSUME source \in Seq(STRING), NEW i \in Nat, NEW n \in Nat,
           \A k \in i .. i + n - 1 : k \notin LineEnds
    PROVE  LineOf(i + n) = LineOf(i)
  <1>1. LineEnds \subseteq Nat
    BY EndsInText
  <1>3. ASSUME NEW k \in LineEnds PROVE k < i + n <=> k < i
    <2>1. k \in Nat /\ k \notin i .. i + n - 1
      BY <1>1
    <2> QED BY <2>1
  <1>2. {k \in LineEnds : k < i + n} = {k \in LineEnds : k < i}
    BY <1>3
  <1> QED BY <1>2 DEF LineOf

LEMMA LineAfter ==
    ASSUME source \in Seq(STRING), NEW i \in LineEnds
    PROVE  LineOf(i + 1) = LineOf(i) + 1
  <1> DEFINE before == {k \in LineEnds : k < i}
  <1>1. LineEnds \subseteq Nat
    BY EndsInText
  <1>7. ASSUME NEW k \in LineEnds PROVE k < i + 1 <=> k < i \/ k = i
    BY <1>1
  <1>2. {k \in LineEnds : k < i + 1} = before \cup {i}
    BY <1>1, <1>7
  <1>3. i \notin before /\ i \in Int
    BY <1>1
  <1>4. /\ IsFiniteSet(before)
        /\ Cardinality(before) \in Nat
        /\ LineOf(i) = 1 + Cardinality(before)
    BY <1>3, EndsBefore
  <1> HIDE DEF before
  <1>5. Cardinality(before \cup {i}) = Cardinality(before) + 1
    BY <1>3, <1>4, FS_AddElement
  <1>6. LineOf(i + 1) = 1 + Cardinality(before \cup {i})
    BY <1>2 DEF LineOf
  <1> QED BY <1>4, <1>5, <1>6

LEMMA LastLine ==
    ASSUME source \in Seq(STRING)
    PROVE  /\ LineOf(Len(source) + 1) = Cardinality(LineEnds) + 1
           /\ \A i \in LineEnds : LineOf(i) < Cardinality(LineEnds) + 1
  <1>1. LineEnds \subseteq Nat /\ IsFiniteSet(LineEnds) /\ Len(source) \in Nat
    BY EndsInText
  <1>2. Cardinality(LineEnds) \in Nat
    BY <1>1, FS_CardinalityType
  <1>3. {k \in LineEnds : k < Len(source) + 1} = LineEnds
    BY EndsInText
  <1>4. ASSUME NEW i \in LineEnds PROVE LineOf(i) < Cardinality(LineEnds) + 1
    <2> DEFINE p == i + 1
               before == {k \in LineEnds : k < p}
    <2>0. i \in Int /\ p \in Int /\ p = i + 1
      BY <1>1
    <2> HIDE DEF p
    <2>1. /\ Cardinality(before) \in Nat
          /\ LineOf(p) = 1 + Cardinality(before)
      BY <2>0, EndsBefore
    <2>2. before \subseteq LineEnds
      OBVIOUS
    <2> HIDE DEF before
    <2>3. Cardinality(before) <= Cardinality(LineEnds)
      BY <1>1, <2>2, FS_Subset
    <2>4. LineOf(p) = LineOf(i) + 1
      BY <2>0, LineAfter
    <2>5. LineOf(i) \in Nat
      BY <2>0, EndsBefore
    <2>6. \A x, y, z \in Nat : 1 + y = x + 1 /\ y <= z => x < z + 1
      OBVIOUS
    <2> QED BY <1>2, <2>1, <2>3, <2>4, <2>5, <2>6, Zenon
  <1>5. LineOf(Len(source) + 1) = 1 + Cardinality(LineEnds)
    BY <1>3 DEF LineOf
  <1> QED BY <1>2, <1>4, <1>5

LEMMA LineStartIs ==
    ASSUME source \in Seq(STRING), NEW i \in Nat, FirstCharacter <= i
    PROVE  /\ LineStart(i) \in LineStarts
           /\ LineStart(i) <= i
           /\ \A j \in LineStarts : j > LineStart(i) => j > i
           /\ LineStarts \subseteq Nat
  <1>1. LineStarts \subseteq Nat /\ FirstCharacter \in LineStarts /\ FirstCharacter \in Nat
    BY EndsInText DEF LineStarts
  <1> DEFINE Gap(k) == i - k
             T == {n \in Nat : \E k \in LineStarts : k <= i /\ n = Gap(k)}
  <1>2. T # {} /\ T \subseteq Nat
    <2>1. Gap(FirstCharacter) \in T
      BY <1>1
    <2> QED BY <2>1
  <1>3. PICK n \in T : \A y \in T : n <= y
    <2> HIDE DEF T
    <2> QED BY <1>2, LeastNat
  <1>4. PICK k \in LineStarts : k <= i /\ n = Gap(k)
    BY <1>3
  <1>5. ASSUME NEW j \in LineStarts, j > k PROVE j > i
    <2>1. j \in Nat /\ k \in Nat
      BY <1>1
    <2>2. j <= i => Gap(j) \in T
      BY <2>1
    <2> HIDE DEF T
    <2> QED BY <1>3, <1>4, <1>5, <2>1, <2>2
  <1> HIDE DEF Gap, T
  <1>6. \E m \in LineStarts : m <= i /\ \A j \in LineStarts : j > m => j > i
    BY <1>4, <1>5
  <1> QED BY <1>1, <1>6 DEF LineStart

LEMMA LineStartOnly ==
    ASSUME source \in Seq(STRING), NEW i \in Nat, FirstCharacter <= i,
           NEW m \in LineStarts, m <= i, \A j \in LineStarts : j > m => j > i
    PROVE  LineStart(i) = m
  <1>1. /\ LineStart(i) \in Nat
        /\ LineStart(i) \in LineStarts
        /\ LineStart(i) <= i
        /\ \A j \in LineStarts : j > LineStart(i) => j > i
        /\ m \in Nat
    BY LineStartIs
  <1>2. ~(m > LineStart(i)) /\ ~(LineStart(i) > m)
    BY <1>1
  <1> QED BY <1>1, <1>2

LEMMA SameLineStart ==
    ASSUME source \in Seq(STRING), NEW i \in Nat, FirstCharacter <= i, NEW n \in Nat,
           \A k \in i .. i + n - 1 : k \notin LineEnds
    PROVE  LineStart(i + n) = LineStart(i)
  <1> DEFINE m == LineStart(i)
  <1>1. /\ m \in LineStarts
        /\ m <= i
        /\ \A j \in LineStarts : j > m => j > i
        /\ m \in Nat
        /\ FirstCharacter \in Nat
    BY LineStartIs, EndsInText
  <1> HIDE DEF m
  <1>2. ASSUME NEW j \in LineStarts, j > m PROVE j > i + n
    <2>1. j > i
      BY <1>1, <1>2
    <2>2. PICK k \in LineEnds : j = k + 1
      BY <1>1, <2>1 DEF LineStarts
    <2>3. k \in Nat
      BY EndsInText
    <2> QED BY <2>1, <2>2, <2>3
  <1>3. m <= i + n /\ FirstCharacter <= i + n /\ i + n \in Nat
    BY <1>1
  <1>4. LineStart(i + n) = m
    BY <1>1, <1>2, <1>3, LineStartOnly
  <1> QED BY <1>4 DEF m

LEMMA LineStartAfter ==
    ASSUME source \in Seq(STRING), NEW i \in LineEnds
    PROVE  LineStart(i + 1) = i + 1
  <1>1. i \in Nat /\ FirstCharacter <= i + 1 /\ i + 1 \in Nat /\ i + 1 \in LineStarts
    BY EndsInText DEF LineStarts
  <1> QED BY <1>1, LineStartOnly

LEMMA FirstLineStart ==
    ASSUME source \in Seq(STRING)
    PROVE  LineStart(FirstCharacter) = FirstCharacter
  <1>1. FirstCharacter \in Nat /\ FirstCharacter \in LineStarts
    BY EndsInText DEF LineStarts
  <1> QED BY <1>1, LineStartOnly

(* The tab rule of the code is the one ColumnOf is written with: it goes to *)
(* the first multiple of TabStop after the column.                         *)
LEMMA MultiplesApart ==
    ASSUME NEW t \in Nat \ {0}, NEW p \in Nat, NEW q \in Nat,
           t * p > t * q
    PROVE  p > q
  <1> SUFFICES ASSUME p <= q PROVE FALSE
    OBVIOUS
  <1>1. PICK d \in Nat : q = p + d
    BY SMT
  <1>2. t * q = t * p + t * d /\ t * d >= 0
    BY <1>1, SMT
  <1> QED BY <1>2, SMT

LEMMA Divided ==
    ASSUME NEW t \in Nat \ {0}, NEW n \in Nat
    PROVE  /\ n = (t * (n \div t)) + (n % t)
           /\ n \div t \in Nat
           /\ n % t \in 0 .. t - 1
  <1>1. n \div t \in Nat
    BY SMT
  <1>2. n % t \in 0 .. t - 1
    BY SMT
  <1>3. n = (t * (n \div t)) + (n % t)
    BY SMT
  <1> QED BY <1>1, <1>2, <1>3

LEMMA TabStopIs ==
    ASSUME NEW column \in Nat \ {0}
    PROVE  TabStopAfter(column) = TabColumn(column)
  <1> DEFINE t == TabStop
             q == column \div t
             r == column % t
             stop == t * (q + 1)
             Is(c) == c % t = 0
  <1>1. t \in Nat \ {0}
    BY LexerAssumption
  <1>2. column = t * q + r /\ q \in Nat /\ r \in 0 .. t - 1
    BY <1>1, Divided
  <1>3. stop = t * q + t /\ stop = TabColumn(column)
    BY <1>1, <1>2, SMT DEF TabColumn
  <1>4. stop \in column + 1 .. column + t /\ Is(stop)
    BY <1>1, <1>2, <1>3, SMT
  <1>5. ASSUME NEW c \in column + 1 .. column + t, Is(c)
        PROVE  c = stop
    <2> DEFINE p == c \div t
    <2>1. c \in Nat /\ t * q <= column /\ column < t * (q + 1)
          /\ t * (q + 2) = t * (q + 1) + t
      BY <1>1, <1>2, SMT
    <2>2. c = t * p /\ p \in Nat
      BY <1>1, <1>5, <2>1, Divided
    <2> HIDE DEF t, q, p
    <2>3. t * p > t * q /\ t * p < t * (q + 2)
      BY <1>1, <1>2, <1>5, <2>1, <2>2, SMT
    <2>4. p > q /\ q + 2 > p
      BY <1>1, <1>2, <2>2, <2>3, MultiplesApart
    <2>5. p = q + 1
      BY <1>2, <2>2, <2>4, SMT
    <2> QED BY <2>2, <2>5 DEF t, q
  <1> QED BY <1>3, <1>4, <1>5 DEF TabStopAfter

LEMMA TabStopType ==
    ASSUME NEW column \in Nat \ {0}
    PROVE  TabStopAfter(column) \in Nat \ {0}
  BY TabStopIs, TabColumnType

LEMMA ColumnOfIs ==
    ASSUME source \in Seq(STRING), NEW i \in FirstCharacter .. Len(source) + 1
    PROVE  /\ ColumnOf(i) \in Nat \ {0}
           /\ i \in LineStarts => ColumnOf(i) = 1
           /\ i \notin LineStarts =>
                /\ i - 1 \in FirstCharacter .. Len(source)
                /\ ColumnOf(i) = IF source[i - 1] = "\t" THEN TabColumn(ColumnOf(i - 1))
                                 ELSE ColumnOf(i - 1) + 1
  <1> DEFINE a == FirstCharacter
             n == Len(source) + 1
             S == Nat \ {0}
             Tabbed(k) == source[k - 1] = "\t"
             Following(k, column) == IF k \in LineStarts THEN 1
                                     ELSE IF Tabbed(k) THEN TabStopAfter(column)
                                     ELSE column + 1
             step == [p \in Nat \X S |-> Following(p[1], p[2])]
             Rec(g) == g = [k \in a .. n |->
                              IF k \in LineStarts THEN 1
                              ELSE IF source[k - 1] = "\t" THEN TabStopAfter(g[k - 1])
                              ELSE g[k - 1] + 1]
  <1>1. a \in Nat /\ n \in Nat /\ a <= n /\ 1 \in S /\ a \in LineStarts
    BY EndsInText DEF LineStarts
  <1>2. step \in [Nat \X S -> S]
    <2>1. ASSUME NEW k \in Nat, NEW column \in S PROVE Following(k, column) \in S
      BY TabStopType
    <2> HIDE DEF Following
    <2> QED BY <2>1
  <1>3. PICK f \in [a .. n -> S] : Follows(f, a, n, 1, step)
    <2> HIDE DEF a, n, S, step, Rec
    <2> QED BY <1>1, <1>2, StepsExist, Zenon
  <1>4. ASSUME NEW k \in a + 1 .. n
        PROVE  /\ k - 1 \in a .. n
               /\ f[k - 1] \in S
               /\ f[k] = Following(k, f[k - 1])
    <2>1. k - 1 \in a .. n /\ k \in Nat
      BY <1>1
    <2>2. f[k - 1] \in S
      BY <1>3, <2>1
    <2>3. f[k] = step[<<k, f[k - 1]>>]
      BY <1>3 DEF Follows
    <2> HIDE DEF Following, S
    <2> QED BY <2>1, <2>2, <2>3
  <1>5. f[a] = 1
    BY <1>3 DEF Follows
  <1>6. Rec(f)
    <2>1. ASSUME NEW k \in a .. n
          PROVE  f[k] = IF k \in LineStarts THEN 1
                        ELSE IF source[k - 1] = "\t" THEN TabStopAfter(f[k - 1])
                        ELSE f[k - 1] + 1
      <3>1. CASE k = a
        BY <1>1, <1>5, <3>1
      <3>2. CASE k # a
        <4>1. k \in a + 1 .. n
          BY <1>1, <3>2
        <4> QED BY <1>4, <4>1
      <3> QED BY <3>1, <3>2
    <2>2. f = [k \in a .. n |-> f[k]]
      BY <1>3
    <2> HIDE DEF a, n
    <2> QED BY <2>1, <2>2, Zenon
  <1> DEFINE h == CHOOSE g : Rec(g)
  <1>7. ColumnOf(i) = h[i] /\ \A k \in {i - 1} : ColumnOf(k) = h[k]
    BY DEF ColumnOf
  <1>8. Rec(h)
    <2> HIDE DEF Rec
    <2> QED BY <1>6
  <1>9. ASSUME NEW k \in a .. n
        PROVE  h[k] = IF k \in LineStarts THEN 1
                      ELSE IF source[k - 1] = "\t" THEN TabStopAfter(h[k - 1])
                      ELSE h[k - 1] + 1
    <2> HIDE DEF h, a, n
    <2> QED BY <1>8
  <1> HIDE DEF h
  <1>10. ASSUME NEW k \in a .. n, k \notin LineStarts PROVE k - 1 \in a .. n /\ k # a
    BY <1>1, <1>10
  <1>11. \A k \in a .. n : h[k] \in S
    <2> DEFINE T == {k \in Nat : k \in a .. n /\ h[k] \notin S}
    <2> SUFFICES ASSUME T # {} PROVE FALSE
      BY <1>1
    <2>1. PICK k \in T : \A y \in T : k <= y
      <3>1. T \subseteq Nat
        OBVIOUS
      <3> HIDE DEF T
      <3> QED BY <3>1, LeastNat
    <2>2. k \notin LineStarts
      BY <1>9, <2>1
    <2>3. k - 1 \in a .. n /\ k - 1 \in Nat /\ ~(k <= k - 1)
      BY <1>1, <1>10, <2>1, <2>2
    <2>4. h[k - 1] \in S
      BY <2>1, <2>3
    <2>5. TabStopAfter(h[k - 1]) \in S /\ h[k - 1] + 1 \in S
      BY <2>4, TabStopType
    <2>6. h[k] = TabStopAfter(h[k - 1]) \/ h[k] = h[k - 1] + 1
      BY <1>9, <2>1, <2>2
    <2> QED BY <2>1, <2>5, <2>6
  <1>12. ASSUME i \notin LineStarts
         PROVE  TabStopAfter(ColumnOf(i - 1)) = TabColumn(ColumnOf(i - 1))
    <2>1. i - 1 \in a .. n /\ h[i - 1] \in Nat \ {0}
      BY <1>10, <1>11, <1>12
    <2> QED BY <1>7, <2>1, TabStopIs
  <1>13. i \notin LineStarts =>
           /\ i - 1 \in FirstCharacter .. Len(source)
           /\ ColumnOf(i) = IF source[i - 1] = "\t" THEN TabStopAfter(ColumnOf(i - 1))
                            ELSE ColumnOf(i - 1) + 1
    BY <1>1, <1>7, <1>9, <1>10
  <1>14. ColumnOf(i) \in Nat \ {0} /\ (i \in LineStarts => ColumnOf(i) = 1)
    BY <1>1, <1>7, <1>9, <1>11
  <1> QED BY <1>12, <1>13, <1>14

(* Characters that end no line and are no tabs go on by one column each.   *)
LEMMA PlainColumns ==
    ASSUME source \in Seq(STRING), NEW i \in FirstCharacter .. Len(source) + 1,
           NEW n \in Nat, i + n <= Len(source) + 1,
           \A k \in 0 .. n - 1 : source[i + k] \notin {"\t", "\r", "\n"}
    PROVE  /\ \A k \in i .. i + n - 1 : k \notin LineEnds
           /\ ColumnOf(i + n) = ColumnOf(i) + n
  <1>1. i \in Nat /\ FirstCharacter \in Nat /\ Len(source) \in Nat /\ i >= FirstCharacter
    BY EndsInText
  <1>2. ASSUME NEW k \in i .. i + n - 1
        PROVE  source[k] \notin {"\t", "\r", "\n"} /\ k \notin LineEnds
    <2>1. k - i \in 0 .. n - 1 /\ i + (k - i) = k
      BY <1>1
    <2>2. source[k] \notin {"\t", "\r", "\n"}
      BY <2>1
    <2> QED BY <2>2 DEF LineEnds
  <1> DEFINE Good(m) == ColumnOf(i + m) = ColumnOf(i) + m
             T == {m \in Nat : m <= n /\ ~Good(m)}
  <1>3. ASSUME T # {} PROVE FALSE
    <2>1. PICK m \in T : \A y \in T : m <= y
      <3>1. T \subseteq Nat
        OBVIOUS
      <3> HIDE DEF T
      <3> QED BY <1>3, <3>1, LeastNat
    <2>2. Good(0)
      <3>1. i + 0 = i /\ ColumnOf(i) \in Nat
        BY <1>1, ColumnOfIs
      <3> QED BY <3>1
    <2>3. m # 0 /\ m \in Nat /\ m <= n /\ m - 1 \in Nat /\ m - 1 <= n /\ ~(m <= m - 1)
      BY <2>1, <2>2
    <2>4. Good(m - 1)
      BY <2>1, <2>3
    <2> DEFINE p == i + m
               q == i + (m - 1)
    <2>5. /\ p \in FirstCharacter .. Len(source) + 1
          /\ q = p - 1
          /\ q \in i .. i + n - 1
          /\ p > FirstCharacter
          /\ q \in FirstCharacter .. Len(source) + 1
      BY <1>1, <2>3
    <2>6. ColumnOf(q) = ColumnOf(i) + (m - 1)
      BY <2>4
    <2>7. ~Good(m)
      BY <2>1
    <2>8. ColumnOf(p) # ColumnOf(i) + m
      BY <2>7
    <2> HIDE DEF p, q
    <2>9. p \notin LineStarts
      <3> SUFFICES ASSUME p \in LineStarts PROVE FALSE
        OBVIOUS
      <3>1. PICK k \in LineEnds : p = k + 1
        BY <1>1, <2>5 DEF LineStarts
      <3>2. k \in Nat
        BY EndsInText
      <3>3. k = q
        BY <1>1, <2>5, <3>1, <3>2
      <3> QED BY <1>2, <2>5, <3>3
    <2>10. source[q] # "\t"
      BY <1>2, <2>5
    <2>11. ColumnOf(p) = ColumnOf(q) + 1
      BY <2>5, <2>9, <2>10, ColumnOfIs
    <2>12. ColumnOf(i) \in Nat
      BY ColumnOfIs
    <2> QED BY <2>3, <2>6, <2>8, <2>11, <2>12
  <1>4. Good(n)
    BY <1>3
  <1> QED BY <1>2, <1>4

-----------------------------------------------------------------------------
(* What the lexer passes by, when it is counted as it is written: some     *)
(* characters within a line, or to the end of the line.                    *)
Within(n) == \A k \in cursor .. cursor + n - 1 : k \notin LineEnds
ToTheEnd(n) == /\ n >= 1 /\ cursor + n - 1 \in LineEnds
               /\ \A k \in cursor .. cursor + n - 2 : k \notin LineEnds

LEMMA PassedEvenly ==
    ASSUME Types, NEW n \in Nat, NEW hows, Evenly(n, hows)
    PROVE  LET d == HandleAll(counts, hows) IN
           /\ n \in Nat /\ cursor + n <= Len(source) + 1
           /\ d \in Counters
           /\ \/ /\ Within(n)
                 /\ \/ \E column \in Nat :
                         /\ Onward(counts, d, n, column)
                         /\ counts.column = ColumnOf(cursor) /\ ~CommentTab(n, hows)
                               => column = ColumnOf(cursor + n)
                    \/ TooMany(counts, d, n)
              \/ /\ ToTheEnd(n)
                 /\ NextLineOn(counts, d, n) \/ TooMany(counts, d, n)
                    \/ NoLineLeft(counts, d)
  <1> DEFINE d == HandleAll(counts, hows)
  <1>1. /\ source \in Seq(STRING) /\ Len(source) \in Nat
        /\ cursor \in FirstCharacter .. Len(source) + 1 /\ cursor \in Nat
        /\ FirstCharacter \in Nat \ {0}
        /\ counts \in Counters /\ counts.limit = "none"
        /\ counts.column \in Nat
    BY EndsInText, FieldTypes DEF Types
  <1>2. CASE Plainly(n, hows)
    <2>1. CASE n \in Nat
      <3>1. d \in Counters
        BY <1>1, <1>2, <2>1, HandleNormal DEF Plainly
      <3>2. Onward(counts, d, n, counts.column + n) \/ TooMany(counts, d, n)
        BY <1>1, <1>2, <2>1, HandleNormal DEF Plainly
      <3>3. /\ \A k \in cursor .. cursor + n - 1 : k \notin LineEnds
            /\ ColumnOf(cursor + n) = ColumnOf(cursor) + n
        BY <1>1, <1>2, <2>1, PlainColumns DEF Plainly
      <3>4. counts.column + n \in Nat
        BY <1>1, <2>1
      <3>5. cursor + n <= Len(source) + 1
        BY <1>2 DEF Plainly
      <3> HIDE DEF d
      <3>6. CASE TooMany(counts, d, n)
        BY <2>1, <3>1, <3>3, <3>5, <3>6 DEF Within, d
      <3>7. CASE Onward(counts, d, n, counts.column + n)
        <4>1. counts.column = ColumnOf(cursor) => counts.column + n = ColumnOf(cursor + n)
          BY <3>3
        <4> QED BY <2>1, <3>1, <3>3, <3>4, <3>5, <3>7, <4>1 DEF Within, d
      <3> QED BY <3>2, <3>6, <3>7
    <2> QED BY <2>1
  <1>3. CASE TabStep(n, hows)
    <2>1. n = 1 /\ hows = <<"tab">> /\ cursor <= Len(source) /\ source[cursor] = "\t"
      BY <1>3 DEF TabStep
    <2>2. d \in Counters
      BY <1>1, <2>1, HandleTab
    <2>3. Onward(counts, d, 1, TabColumn(counts.column)) \/ TooMany(counts, d, 1)
      BY <1>1, <2>1, HandleTab
    <2> HIDE DEF d
    <2>4. cursor \notin LineEnds
      BY <2>1 DEF LineEnds
    <2>5. Within(1)
      BY <1>1, <2>4 DEF Within
    <2> DEFINE p == cursor + 1
    <2>6. p \in FirstCharacter .. Len(source) + 1 /\ p - 1 = cursor /\ p > FirstCharacter
      BY <1>1, <2>1
    <2>7. p \notin LineStarts
      <3> SUFFICES ASSUME p \in LineStarts PROVE FALSE
        OBVIOUS
      <3> HIDE DEF p
      <3>1. PICK k \in LineEnds : p = k + 1
        BY <1>1, <2>6 DEF LineStarts
      <3>2. k \in Nat
        BY EndsInText, <1>1
      <3> QED BY <1>1, <2>4, <2>6, <3>1, <3>2
    <2> HIDE DEF p
    <2>8. ColumnOf(p) = TabColumn(ColumnOf(cursor))
      BY <1>1, <2>1, <2>6, <2>7, ColumnOfIs
    <2>9. TabColumn(counts.column) \in Nat
      BY <1>1, TabColumnType, FieldTypes
    <2>10. cursor + 1 = p
      BY DEF p
    <2> QED BY <1>1, <2>1, <2>2, <2>3, <2>5, <2>8, <2>9, <2>10 DEF d
  <1>7. CASE CommentTab(n, hows)
    <2>1. n = 1 /\ hows = Normal(1) /\ cursor <= Len(source) /\ source[cursor] = "\t"
      BY <1>7 DEF CommentTab
    <2>2. d \in Counters
      BY <1>1, <2>1, HandleNormal
    <2>3. Onward(counts, d, 1, counts.column + 1) \/ TooMany(counts, d, 1)
      BY <1>1, <2>1, HandleNormal
    <2> HIDE DEF d
    <2>4. cursor \notin LineEnds
      BY <2>1 DEF LineEnds
    <2>5. Within(1) /\ cursor + 1 <= Len(source) + 1 /\ counts.column + 1 \in Nat
      BY <1>1, <2>1, <2>4 DEF Within
    <2> QED BY <1>7, <2>1, <2>2, <2>3, <2>5 DEF d
  <1>4. CASE LineStep(n, hows)
    <2>1. n = 1 /\ hows = LineTerminator /\ cursor \in LineEnds
      BY <1>4 DEF LineStep
    <2>2. d \in Counters
      BY <1>1, <2>1, HandleLine
    <2>3. NextLineOn(counts, d, 1) \/ TooMany(counts, d, 1) \/ NoLineLeft(counts, d)
      BY <1>1, <2>1, HandleLine
    <2> HIDE DEF d
    <2>4. ToTheEnd(1) /\ cursor + 1 <= Len(source) + 1
      BY <1>1, <2>1, EndsInText DEF ToTheEnd
    <2> QED BY <2>1, <2>2, <2>3, <2>4 DEF d
  <1>5. CASE CrlfStep(n, hows)
    <2>1. n = 2 /\ hows = CrlfTerminator /\ AtCrlf
      BY <1>5 DEF CrlfStep
    <2>2. d \in Counters
      BY <1>1, <2>1, HandleCrlf
    <2>3. NextLineOn(counts, d, 2) \/ TooMany(counts, d, 2) \/ NoLineLeft(counts, d)
      BY <1>1, <2>1, HandleCrlf
    <2> HIDE DEF d
    <2>4. cursor \notin LineEnds /\ cursor + 1 \in LineEnds /\ cursor + 2 <= Len(source) + 1
      BY <1>1, <2>1 DEF AtCrlf, LineEnds
    <2>5. ToTheEnd(2)
      BY <1>1, <2>4 DEF ToTheEnd
    <2> QED BY <2>1, <2>2, <2>3, <2>4, <2>5 DEF d
  <1>6. CASE NoStep(n, hows)
    <2>1. n = 0 /\ hows = <<>>
      BY <1>6 DEF NoStep
    <2>2. d = counts
      BY <1>1, <2>1, HandleNone
    <2>3. /\ counts.column + 0 = counts.column
          /\ counts.characters_in_line + 0 = counts.characters_in_line
          /\ counts.total_characters + 0 = counts.total_characters
          /\ cursor + 0 = cursor
          /\ 1 .. 0 = {}
          /\ cursor .. cursor + 0 - 1 = {}
      BY <1>1, FieldTypes
    <2>4. Onward(counts, counts, 0, counts.column)
      BY <1>1, <2>3 DEF Onward, Room
    <2>5. Within(0)
      BY <2>3 DEF Within
    <2>6. cursor + 0 <= Len(source) + 1
      BY <1>1
    <2> QED BY <1>1, <2>1, <2>2, <2>3, <2>4, <2>5, <2>6
  <1> QED BY <1>2, <1>3, <1>4, <1>5, <1>6, <1>7 DEF Evenly

-----------------------------------------------------------------------------
(* A step leaves with an error, or passes by what is at the cursor and     *)
(* goes on, or makes a token of it.                                        *)
Leaves ==
    /\ pc' = "error" /\ tokens' = <<>>
    /\ UNCHANGED <<source, cursor, counts, locals>>
    /\ token_pos' \in {token_pos, CursorPos(counts)}
    /\ error'.kind \in Limits =>
          \E n \in Nat, hows \in Seq(Hows) :
              Passes(n, hows) /\ error'.kind = HandleAll(counts, hows).limit

Moves(n, hows) ==
    /\ Passes(n, hows) /\ HandleAll(counts, hows).limit = "none"
    /\ counts' = HandleAll(counts, hows) /\ cursor' = cursor + n
    /\ UNCHANGED <<source, error>>
    /\ token_pos' \in {token_pos, CursorPos(counts)}

Keeps(n) ==
    /\ tokens' = tokens
    /\ pc \in {"loop", "line_comment", "block_comment", "digits"}
    /\ pc' \in {"loop", "line_comment", "block_comment", "digits"}
    /\ nesting' \in Nat /\ base' \in Nat /\ digits_start' \in Nat
    /\ pc' = "block_comment" => nesting' > 0 /\ HasPair(source, "/", "*")
    /\ pc' = "digits" =>
          /\ base' \in {2, 10, 16} /\ digits_start' <= cursor'
          /\ \/ pc = "digits" /\ UNCHANGED <<token_pos, base, digits_start>>
             \/ /\ pc = "loop" /\ token_pos' = CursorPos(counts) /\ FirstDigit' = cursor
                /\ ~AtLimit /\ cursor \notin LineEnds
    /\ pc = "loop" /\ n = 0 => ~AtLimit /\ cursor \notin LineEnds
    /\ pc = "line_comment" =>
          \/ pc' = "line_comment" /\ n = 1 /\ cursor \notin LineEnds
          \/ pc' = "loop" /\ n = 0 /\ (AtLimit \/ source[cursor] \in {"\r", "\n"})
    /\ pc' = "line_comment" =>
          \/ pc = "line_comment"
          \/ pc = "loop" /\ n = 2 /\ source[cursor] = "/" /\ source[cursor + 1] = "/"

TokenPos == IF pc = "digits" THEN token_pos ELSE CursorPos(counts)
TokenFirst == IF pc = "digits" THEN FirstDigit ELSE cursor

Pushes(n, kind) ==
    /\ pc \in {"loop", "digits"}
    /\ pc' = IF kind = EndOfFileKind THEN "tokens" ELSE "loop"
    /\ UNCHANGED locals
    /\ kind = EndOfFileKind => pc = "loop" /\ n = 0 /\ AtLimit
    /\ kind # EndOfFileKind /\ pc = "loop" => n >= 1 /\ cursor \notin LineEnds
    /\ pc = "digits" => n = 0 /\ FirstDigit < cursor
    /\ tokens' = Append(tokens, [kind |-> kind, pos |-> TokenPos, first |-> TokenFirst,
                                 last |-> cursor' - 1])

Steps == \/ Leaves
         \/ \E n \in Nat, hows \in Seq(Hows) :
              Moves(n, hows) /\ (Keeps(n) \/ \E kind \in Kinds : Pushes(n, kind))

LEMMA HowsType ==
    /\ \A n \in Nat : Normal(n) \in Seq(Hows)
    /\ <<"tab">> \in Seq(Hows)
    /\ LineTerminator \in Seq(Hows)
    /\ CrlfTerminator \in Seq(Hows)
    /\ <<>> \in Seq(Hows)
  BY DEF Hows, Normal, LineTerminator, CrlfTerminator

LEMMA PeekIs ==
    ASSUME NEW k \in Nat, Peek(k) # "nul", cursor \in Nat, Len(source) \in Nat
    PROVE  cursor + k <= Len(source) /\ Peek(k) = source[cursor + k]
  BY DEF Peek

(* Characters that are no blank and end no line.                           *)
LEMMA OnePlainly ==
    ASSUME cursor \in Nat, Len(source) \in Nat, cursor <= Len(source),
           source[cursor] \notin {"\t", "\r", "\n"}
    PROVE  Plainly(1, Normal(1))
  <1>1. ASSUME NEW k \in 0 .. 1 - 1 PROVE source[cursor + k] \notin {"\t", "\r", "\n"}
    <2>1. cursor + k = cursor
      OBVIOUS
    <2> QED BY <2>1
  <1>2. cursor + 1 <= Len(source) + 1
    OBVIOUS
  <1> QED BY <1>1, <1>2 DEF Plainly

LEMMA ManyPlainly ==
    ASSUME cursor \in Nat, Len(source) \in Nat, NEW n \in Nat, n >= 1,
           \A k \in 0 .. n - 1 : Peek(k) \notin {"nul", "\t", "\r", "\n"}
    PROVE  Plainly(n, Normal(n))
  <1>1. ASSUME NEW k \in 0 .. n - 1
        PROVE  /\ source[cursor + k] \notin {"\t", "\r", "\n"}
               /\ cursor + k <= Len(source)
    <2>1. k \in Nat
      OBVIOUS
    <2>2. Peek(k) \notin {"nul", "\t", "\r", "\n"}
      OBVIOUS
    <2>3. cursor + k <= Len(source) /\ Peek(k) = source[cursor + k]
      BY <2>1, <2>2, PeekIs
    <2> QED BY <2>2, <2>3
  <1>2. n - 1 \in 0 .. n - 1
    OBVIOUS
  <1>3. cursor + n <= Len(source) + 1
    BY <1>1, <1>2
  <1> QED BY <1>1, <1>3 DEF Plainly

LEMMA LimitLeaves ==
    ASSUME NEW n \in Nat, NEW hows \in Seq(Hows), Passes(n, hows),
           NEW pos, token_pos' \in {token_pos, CursorPos(counts)},
           Exit(HandleAll(counts, hows).limit, pos)
    PROVE  Leaves
  <1>1. error'.kind = HandleAll(counts, hows).limit
    BY DEF Exit
  <1> HIDE DEF HandleAll
  <1> QED BY <1>1 DEF Leaves, Exit

LEMMA ErrorLeaves ==
    ASSUME NEW kind, kind \notin Limits, NEW pos,
           token_pos' \in {token_pos, CursorPos(counts)}, Exit(kind, pos)
    PROVE  Leaves
  <1>1. error'.kind = kind
    BY DEF Exit
  <1> QED BY <1>1 DEF Leaves, Exit

(* What Consume is, of what it passes by.                                  *)
Passing(n, hows) ==
    IF HandleAll(counts, hows).limit = "none"
    THEN /\ counts' = HandleAll(counts, hows) /\ cursor' = cursor + n
         /\ UNCHANGED <<source, error>>
    ELSE Exit(HandleAll(counts, hows).limit, CursorPos(HandleAll(counts, hows)))

LEMMA PassingSteps ==
    ASSUME NEW n \in Nat, NEW hows \in Seq(Hows), Passes(n, hows), Passing(n, hows),
           token_pos' \in {token_pos, CursorPos(counts)}
    PROVE  Leaves \/ Moves(n, hows)
  <1>1. CASE HandleAll(counts, hows).limit = "none"
    BY <1>1 DEF Passing, Moves
  <1>2. CASE HandleAll(counts, hows).limit # "none"
    <2>1. Exit(HandleAll(counts, hows).limit, CursorPos(HandleAll(counts, hows)))
      BY <1>2 DEF Passing
    <2> QED BY <2>1, LimitLeaves
  <1> QED BY <1>1, <1>2

LEMMA KeepsSteps ==
    ASSUME NEW n \in Nat, NEW hows \in Seq(Hows), Passes(n, hows), Passing(n, hows),
           token_pos' \in {token_pos, CursorPos(counts)},
           HandleAll(counts, hows).limit = "none" => Keeps(n)
    PROVE  Steps
  <1>1. Leaves \/ Moves(n, hows)
    BY PassingSteps
  <1>2. Moves(n, hows) => Keeps(n)
    BY DEF Moves
  <1> QED BY <1>1, <1>2 DEF Steps

LEMMA PushesSteps ==
    ASSUME NEW n \in Nat, NEW hows \in Seq(Hows), Passes(n, hows), Passing(n, hows),
           token_pos' \in {token_pos, CursorPos(counts)}, NEW kind \in Kinds,
           HandleAll(counts, hows).limit = "none" => Pushes(n, kind)
    PROVE  Steps
  <1>1. Leaves \/ Moves(n, hows)
    BY PassingSteps
  <1>2. Moves(n, hows) => Pushes(n, kind)
    BY DEF Moves
  <1> QED BY <1>1, <1>2 DEF Steps

(* What the loop may do to skip a blank or the end of a line.              *)
LEMMA SkipKeeps ==
    ASSUME Types, pc = "loop", Skip, NEW n \in Nat, n >= 1
    PROVE  Keeps(n)
  <1>1. n # 0
    OBVIOUS
  <1> QED BY <1>1 DEF Types, Skip, Keeps, locals

(* Blanks and line ends.                                                   *)
LEMMA BlankSteps ==
    ASSUME Types, Space \/ Tab \/ Crlf \/ NextLine
    PROVE  Steps
  <1>1. pc = "loop" /\ token_pos' \in {token_pos, CursorPos(counts)}
    BY DEF Space, Tab, Crlf, NextLine, Top
  <1>0. /\ cursor \in Nat /\ Len(source) \in Nat /\ source \in Seq(STRING)
        /\ cursor >= 1 /\ cursor + 0 = cursor
    BY EndsInText DEF Types
  <1>2. CASE Space
    <2>1. Peek(0) = " "
      BY <1>2 DEF Space
    <2>2. cursor <= Len(source) /\ source[cursor] = " "
      BY <1>0, <2>1, PeekIs
    <2>4. Passes(1, Normal(1))
      BY <1>0, <2>2, OnePlainly DEF Passes, Evenly
    <2>5. Passing(1, Normal(1)) /\ (HandleAll(counts, Normal(1)).limit = "none" => Skip)
      BY <1>2 DEF Space, Consume, Passing
    <2> QED BY <1>1, <2>4, <2>5, SkipKeeps, KeepsSteps, HowsType
  <1>3. CASE Tab
    <2>1. Peek(0) = "\t"
      BY <1>3 DEF Tab
    <2>2. cursor <= Len(source) /\ source[cursor] = "\t"
      BY <1>0, <2>1, PeekIs
    <2> DEFINE hows == <<"tab">>
    <2>3. hows \in Seq(Hows)
      BY HowsType
    <2>4. Passes(1, hows)
      BY <2>2 DEF Passes, Evenly, TabStep
    <2>5. Passing(1, hows) /\ (HandleAll(counts, hows).limit = "none" => Skip)
      BY <1>3 DEF Tab, Consume, Passing
    <2> HIDE DEF hows
    <2> QED BY <1>1, <2>3, <2>4, <2>5, SkipKeeps, KeepsSteps
  <1>4. CASE Crlf
    <2>1. Peek(0) = "\r" /\ Peek(1) = "\n"
      BY <1>4 DEF Crlf
    <2>2. AtCrlf
      BY <1>0, <2>1, PeekIs DEF AtCrlf
    <2>4. Passes(1, CrlfTerminator)
      BY <1>1, <2>2 DEF Passes, HalfCrlf
    <2>5. /\ Passing(1, CrlfTerminator)
          /\ HandleAll(counts, CrlfTerminator).limit = "none" => Skip
      BY <1>4 DEF Crlf, Consume, Passing
    <2> QED BY <1>1, <2>4, <2>5, SkipKeeps, KeepsSteps, HowsType
  <1>5. CASE NextLine
    <2>1. \/ Peek(0) = "\n"
          \/ Peek(0) = "\r" /\ Peek(1) # "\n"
      BY <1>5 DEF NextLine
    <2>2. cursor \in LineEnds
      BY <1>0, <2>1, PeekIs DEF LineEnds, Peek
    <2>4. Passes(1, LineTerminator)
      BY <2>2 DEF Passes, Evenly, LineStep
    <2>5. /\ Passing(1, LineTerminator)
          /\ HandleAll(counts, LineTerminator).limit = "none" => Skip
      BY <1>5 DEF NextLine, Consume, Passing
    <2> QED BY <1>1, <2>4, <2>5, SkipKeeps, KeepsSteps, HowsType
  <1> QED BY <1>2, <1>3, <1>4, <1>5

-----------------------------------------------------------------------------
(* What begins a token is not the name of the end of the file.             *)
LEMMA SpellingIs ==
    ASSUME source \in Seq(STRING), cursor \in Nat, cursor >= 1, Len(source) \in Nat,
           NEW n \in Nat, n >= 1, cursor + n <= Len(source) + 1,
           Peek(0) # "EndOfFile"
    PROVE  /\ Spelling(n) \in Seq(STRING)
           /\ Spelling(n) # EndOfFileKind
  <1> DEFINE m == cursor + n - 1
  <1>1. cursor \in 1 .. Len(source) + 1 /\ m \in cursor - 1 .. Len(source)
    OBVIOUS
  <1>2. m - cursor + 1 = n /\ cursor <= m /\ cursor + 1 - 1 = cursor /\ 1 \in 1 .. n
    OBVIOUS
  <1>0. cursor + 0 = cursor /\ ~(cursor + 0 > Len(source))
    BY <1>1
  <1>3. Spelling(n) = SubSeq(source, cursor, m)
    BY DEF Spelling
  <1> HIDE DEF m
  <1>4. /\ SubSeq(source, cursor, m) \in Seq(STRING)
        /\ Len(SubSeq(source, cursor, m)) = m - cursor + 1
        /\ \A i \in 1 .. m - cursor + 1 : SubSeq(source, cursor, m)[i] = source[cursor + i - 1]
    BY <1>1, <1>2, SubSeqProperties
  <1>5. SubSeq(source, cursor, m)[1] = source[cursor]
    BY <1>2, <1>4
  <1>6. Peek(0) = source[cursor]
    BY <1>0 DEF Peek
  <1>7. EndOfFileKind[1] = "EndOfFile"
    BY DEF EndOfFileKind
  <1> QED BY <1>3, <1>4, <1>5, <1>6, <1>7

LEMMA IntLiteralIs == IntLiteralKind \in Kinds /\ IntLiteralKind # EndOfFileKind
  <1>1. IntLiteralKind[1] = "IntLiteral" /\ EndOfFileKind[1] = "EndOfFile"
    BY DEF IntLiteralKind, EndOfFileKind
  <1> QED BY <1>1 DEF Kinds

LEMMA PlainlyStarts ==
    ASSUME cursor \in Nat, Len(source) \in Nat, NEW n \in Nat, NEW hows, Plainly(n, hows)
    PROVE  n >= 1 /\ cursor \notin LineEnds /\ ~AtLimit
  <1>1. n >= 1 /\ cursor + n <= Len(source) + 1 /\ 0 \in 0 .. n - 1 /\ cursor + 0 = cursor
    BY DEF Plainly
  <1>2. source[cursor] \notin {"\t", "\r", "\n"}
    BY <1>1 DEF Plainly
  <1>3. cursor # Len(source) + 1
    BY <1>1
  <1> QED BY <1>1, <1>2, <1>3 DEF LineEnds, AtLimit

LEMMA PushPushes ==
    ASSUME pc = "loop", token_pos' = CursorPos(counts), cursor \in Nat, Len(source) \in Nat,
           NEW n \in Nat, Plainly(n, Normal(n)),
           NEW kind, kind # EndOfFileKind, Push(kind, cursor)
    PROVE  Pushes(n, kind)
  <1>1. n >= 1 /\ cursor \notin LineEnds
    BY PlainlyStarts
  <1> QED BY <1>1 DEF Push, Pushes, TokenPos, TokenFirst

(* The run of characters of a set ends in the text.                        *)
LEMMA RunLengthIs ==
    ASSUME cursor \in Nat, Len(source) \in Nat, cursor <= Len(source) + 1,
           NEW set, "nul" \notin set
    PROVE  /\ RunLength(set) \in Nat
           /\ \A k \in 0 .. RunLength(set) - 1 : Peek(k) \in set
           /\ Peek(0) \in set => RunLength(set) >= 1
  <1> DEFINE T == {n \in Nat : Peek(n) \notin set}
             last == Len(source) - cursor + 1
             Is(n) == /\ \A k \in 0 .. n - 1 : Peek(k) \in set
                      /\ Peek(n) \notin set
  <1>1. last \in Nat /\ cursor + last > Len(source)
    OBVIOUS
  <1>2. last \in T
    <2> HIDE DEF last
    <2> QED BY <1>1 DEF Peek
  <1>3. PICK m \in T : \A y \in T : m <= y
    <2>1. T \subseteq Nat /\ T # {}
      BY <1>2
    <2> HIDE DEF T
    <2> QED BY <2>1, LeastNat
  <1>4. m \in 0 .. last
    BY <1>1, <1>2, <1>3
  <1>5. ASSUME NEW k \in 0 .. m - 1 PROVE Peek(k) \in set
    <2>1. k \in Nat /\ ~(m <= k)
      BY <1>4
    <2> QED BY <1>3, <2>1
  <1>6. \E n \in 0 .. last : Is(n)
    BY <1>3, <1>4, <1>5
  <1>7. RunLength(set) = CHOOSE n \in 0 .. last : Is(n)
    BY DEF RunLength
  <1> DEFINE r == CHOOSE n \in 0 .. last : Is(n)
  <1>8. r \in 0 .. last /\ Is(r)
    BY <1>6
  <1> HIDE DEF r
  <1>9. RunLength(set) = r
    BY <1>7 DEF r
  <1>10. r \in Nat /\ (Peek(0) \in set => r # 0)
    BY <1>1, <1>8
  <1> QED BY <1>8, <1>9, <1>10

(* A word, and a symbol.                                                   *)
LEMMA WordSteps ==
    ASSUME Types, Word
    PROVE  Steps
  <1>1. pc = "loop" /\ token_pos' = CursorPos(counts) /\ Peek(0) \in IdStart
    BY DEF Word, Top
  <1>0. /\ cursor \in Nat /\ Len(source) \in Nat /\ source \in Seq(STRING)
        /\ cursor >= 1 /\ cursor <= Len(source) + 1
    BY EndsInText DEF Types
  <1> DEFINE n == RunLength(IdContinue)
             kind == IF Spelling(n) \in Keywords THEN Spelling(n) ELSE Identifier
  <1>2. /\ n \in Nat /\ n >= 1
        /\ \A k \in 0 .. n - 1 : Peek(k) \in IdContinue
    <2>1. "nul" \notin IdContinue /\ Peek(0) \in IdContinue
      BY <1>1 DEF IdContinue, IdStart, Digits
    <2> QED BY <1>0, <2>1, RunLengthIs
  <1>3. Passing(n, Normal(n)) /\ (HandleAll(counts, Normal(n)).limit = "none"
                                     => Push(kind, cursor))
    BY DEF Word, Consume, Passing
  <1> HIDE DEF n
  <1>4. Plainly(n, Normal(n))
    <2>1. \A k \in 0 .. n - 1 : Peek(k) \notin {"nul", "\t", "\r", "\n"}
      BY <1>2 DEF IdContinue, IdStart, Digits
    <2> QED BY <1>0, <1>2, <2>1, ManyPlainly
  <1>5. Spelling(n) \in Seq(STRING) /\ Spelling(n) # EndOfFileKind
    <2>1. Peek(0) # "EndOfFile"
      BY <1>1 DEF IdStart
    <2>2. cursor + n <= Len(source) + 1
      BY <1>4 DEF Plainly
    <2> QED BY <1>0, <1>2, <2>1, <2>2, SpellingIs
  <1>6. Identifier \in Kinds /\ Identifier # EndOfFileKind
    <2>1. Identifier[1] = "Identifier" /\ EndOfFileKind[1] = "EndOfFile"
      BY DEF Identifier, EndOfFileKind
    <2> QED BY <2>1 DEF Kinds
  <1>7. kind \in Kinds /\ kind # EndOfFileKind
    BY <1>5, <1>6 DEF Kinds
  <1> HIDE DEF kind
  <1>8. HandleAll(counts, Normal(n)).limit = "none" => Pushes(n, kind)
    BY <1>0, <1>1, <1>2, <1>3, <1>4, <1>7, PushPushes
  <1>9. Passes(n, Normal(n))
    BY <1>4 DEF Passes, Evenly
  <1> QED BY <1>1, <1>2, <1>3, <1>7, <1>8, <1>9, PushesSteps, HowsType

LEMMA SymbolIs ==
    ASSUME SymbolLength > 0
    PROVE  /\ SymbolLength \in 1 .. 3
           /\ Peek(0) \in {"(", "@", "~", "!", "*", "%", "<", ">", "^", "&", ".", "=", "-", "/"}
           /\ SymbolLength >= 2 =>
                  Peek(1) \in {"=", "<", ">", "^", "&", "."}
           /\ SymbolLength = 3 => Peek(2) \in {"=", ".", "<"}
  BY DEF SymbolLength, SymbolX, SymbolXE, SymbolXXE

LEMMA SymbolSteps ==
    ASSUME Types, Symbol
    PROVE  Steps
  <1>1. pc = "loop" /\ token_pos' = CursorPos(counts) /\ SymbolLength > 0
    BY DEF Symbol, Top
  <1>0. /\ cursor \in Nat /\ Len(source) \in Nat /\ source \in Seq(STRING)
        /\ cursor >= 1 /\ cursor <= Len(source) + 1
    BY EndsInText DEF Types
  <1> DEFINE n == SymbolLength
             kind == Spelling(n)
  <1>2. /\ n \in Nat /\ n >= 1
        /\ \A k \in 0 .. n - 1 : Peek(k) \notin {"nul", "\t", "\r", "\n"}
        /\ Peek(0) # "EndOfFile"
    <2>1. /\ n \in 1 .. 3
          /\ Peek(0) \in {"(", "@", "~", "!", "*", "%", "<", ">", "^", "&", ".", "=", "-", "/"}
          /\ n >= 2 => Peek(1) \in {"=", "<", ">", "^", "&", "."}
          /\ n = 3 => Peek(2) \in {"=", ".", "<"}
      BY <1>1, SymbolIs
    <2> HIDE DEF n
    <2>2. ASSUME NEW k \in 0 .. n - 1
          PROVE  Peek(k) \notin {"nul", "\t", "\r", "\n"}
      <3>1. k = 0 \/ (k = 1 /\ n >= 2) \/ (k = 2 /\ n = 3)
        BY <2>1
      <3> QED BY <2>1, <3>1
    <2> QED BY <2>1, <2>2
  <1>3. Passing(n, Normal(n)) /\ (HandleAll(counts, Normal(n)).limit = "none"
                                     => Push(kind, cursor))
    BY DEF Symbol, Consume, Passing
  <1> HIDE DEF n
  <1>4. Plainly(n, Normal(n))
    BY <1>0, <1>2, ManyPlainly
  <1>5. kind \in Kinds /\ kind # EndOfFileKind
    <2>2. cursor + n <= Len(source) + 1
      BY <1>4 DEF Plainly
    <2> QED BY <1>0, <1>2, <2>2, SpellingIs DEF Kinds
  <1> HIDE DEF kind
  <1>8. HandleAll(counts, Normal(n)).limit = "none" => Pushes(n, kind)
    BY <1>0, <1>1, <1>2, <1>3, <1>4, <1>5, PushPushes
  <1>9. Passes(n, Normal(n))
    BY <1>4 DEF Passes, Evenly
  <1> QED BY <1>1, <1>2, <1>3, <1>5, <1>8, <1>9, PushesSteps, HowsType

(* Numbers: the prefix, a zero, and one turn of the digit loop.            *)
LEMMA NumberSteps ==
    ASSUME Types, NumberPrefix \/ Zero \/ Decimal
    PROVE  Steps
  <1>1. pc = "loop" /\ token_pos' = CursorPos(counts)
    BY DEF NumberPrefix, Zero, Decimal, Top
  <1>0. /\ cursor \in Nat /\ Len(source) \in Nat /\ source \in Seq(STRING)
        /\ cursor >= 1 /\ cursor + 0 = cursor /\ cursor + 2 \in Nat
        /\ cursor + 2 - 2 = cursor
        /\ nesting \in Nat /\ base \in Nat /\ digits_start \in Nat
    BY EndsInText DEF Types
  <1>2. CASE NumberPrefix
    <2>1. Peek(0) = "0" /\ Peek(1) \in {"x", "b"}
      BY <1>2 DEF NumberPrefix
    <2>2. Plainly(2, Normal(2))
      <3>1. \A k \in 0 .. 2 - 1 : k = 0 \/ k = 1
        OBVIOUS
      <3>2. \A k \in 0 .. 2 - 1 : Peek(k) \notin {"nul", "\t", "\r", "\n"}
        BY <2>1, <3>1
      <3> QED BY <1>0, <3>2, ManyPlainly
    <2>3. Passes(2, Normal(2))
      BY <2>2 DEF Passes, Evenly
    <2>4. /\ Passing(2, Normal(2))
          /\ HandleAll(counts, Normal(2)).limit = "none" =>
                /\ cursor' = cursor + 2
                /\ pc' = "digits" /\ digits_start' = cursor + 2
                /\ base' = IF Peek(1) = "x" THEN 16 ELSE 2
                /\ UNCHANGED <<tokens, nesting>>
      BY <1>2 DEF NumberPrefix, Consume, Passing
    <2>5. ASSUME HandleAll(counts, Normal(2)).limit = "none" PROVE Keeps(2)
      <3>1. base' \in {2, 16} /\ digits_start' = cursor + 2 /\ cursor' = cursor + 2
        BY <2>4, <2>5
      <3>2. FirstDigit' = cursor
        BY <1>0, <3>1 DEF FirstDigit
      <3>3. nesting' \in Nat /\ base' \in Nat /\ digits_start' \in Nat
        BY <1>0, <2>4, <2>5, <3>1
      <3>4. ~AtLimit /\ cursor \notin LineEnds
        BY <1>0, <2>2, PlainlyStarts
      <3> QED BY <1>0, <1>1, <2>4, <2>5, <3>1, <3>2, <3>3, <3>4 DEF Keeps
    <2> QED BY <1>1, <2>3, <2>4, <2>5, KeepsSteps, HowsType
  <1>3. CASE Zero
    <2>1. Peek(0) = "0"
      BY <1>3 DEF Zero
    <2>2. cursor <= Len(source) /\ source[cursor] = "0"
      BY <1>0, <2>1, PeekIs
    <2>3. CASE Peek(1) \in IdContinue /\ Handle(counts, "normal").limit = "none"
      <3>1. Exit("DecimalLeadingZero", token_pos')
        BY <1>3, <2>3 DEF Zero
      <3> QED BY <1>1, <3>1, ErrorLeaves DEF Steps, Limits
    <2>4. CASE ~(Peek(1) \in IdContinue /\ Handle(counts, "normal").limit = "none")
      <3>0. Plainly(1, Normal(1))
        BY <1>0, <2>2, OnePlainly
      <3>1. Passes(1, Normal(1))
        BY <3>0 DEF Passes, Evenly
      <3>2. /\ Passing(1, Normal(1))
            /\ HandleAll(counts, Normal(1)).limit = "none" => Push(IntLiteralKind, cursor)
        BY <1>3, <2>4 DEF Zero, Consume, Passing
      <3>3. IntLiteralKind \in Kinds /\ IntLiteralKind # EndOfFileKind
        BY IntLiteralIs
      <3>4. HandleAll(counts, Normal(1)).limit = "none" => Pushes(1, IntLiteralKind)
        BY <1>0, <1>1, <3>0, <3>2, <3>3, PushPushes
      <3> QED BY <1>1, <3>1, <3>2, <3>3, <3>4, PushesSteps, HowsType
    <2> QED BY <2>3, <2>4
  <1>4. CASE Decimal
    <2> DEFINE hows == <<>>
    <2>1. hows \in Seq(Hows)
      BY HowsType
    <2>2. Passes(0, hows)
      BY DEF Passes, Evenly, NoStep
    <2>3. HandleAll(counts, hows) = counts /\ counts.limit = "none"
      BY HandleNone DEF Types
    <2> HIDE DEF hows
    <2>4. Passing(0, hows)
      BY <1>0, <1>4, <2>3 DEF Decimal, Passing
    <2>5. Keeps(0)
      <3>1. base' = 10 /\ digits_start' = cursor /\ cursor' = cursor
        BY <1>4 DEF Decimal
      <3>2. FirstDigit' = cursor
        BY <3>1 DEF FirstDigit
      <3>3. Peek(0) \in {"1", "9"}
        BY <1>4 DEF Decimal, Digits
      <3>4. cursor <= Len(source) /\ source[cursor] \in {"1", "9"}
        BY <1>0, <3>3, PeekIs
      <3>5. ~AtLimit /\ cursor \notin LineEnds
        BY <1>0, <3>4 DEF AtLimit, LineEnds
      <3>6. pc' = "digits" /\ UNCHANGED <<nesting, tokens>>
        BY <1>4 DEF Decimal
      <3> QED BY <1>0, <1>1, <3>1, <3>2, <3>5, <3>6 DEF Keeps
    <2> QED BY <1>1, <2>1, <2>2, <2>4, <2>5, KeepsSteps
  <1> QED BY <1>2, <1>3, <1>4

LEMMA DigitSteps ==
    ASSUME Types, Digit \/ Underscore
    PROVE  Steps
  <1>1. pc = "digits" /\ token_pos' = token_pos
    BY DEF Digit, Underscore, InDigits
  <1>0. /\ cursor \in Nat /\ Len(source) \in Nat /\ source \in Seq(STRING)
        /\ cursor >= 1 /\ cursor + 0 = cursor
        /\ nesting \in Nat /\ base \in {2, 10, 16} /\ digits_start \in Nat
        /\ digits_start <= cursor
    BY <1>1, EndsInText DEF Types
  <1>2. Peek(0) \in IdContinue
    <2>1. Digits(base) \subseteq IdContinue
      <3>1. CASE base = 2
        BY <3>1 DEF Digits, IdContinue
      <3>2. CASE base = 10
        BY <3>2 DEF IdContinue
      <3>3. CASE base = 16
        <4>1. Digits(16) \subseteq IdStart \cup Digits(10)
          BY DEF Digits, IdStart
        <4> QED BY <3>3, <4>1 DEF IdContinue
      <3> QED BY <1>0, <3>1, <3>2, <3>3
    <2>2. "_" \in IdContinue
      BY DEF IdContinue, IdStart
    <2> QED BY <2>1, <2>2 DEF Digit, Underscore
  <1>3. cursor <= Len(source) /\ source[cursor] \in IdContinue
    <2>1. Peek(0) # "nul"
      BY <1>2 DEF IdContinue, IdStart, Digits
    <2> QED BY <1>0, <1>2, <2>1, PeekIs
  <1>4. Passes(1, Normal(1))
    <2>1. source[cursor] \notin {"\t", "\r", "\n"}
      BY <1>3 DEF IdContinue, IdStart, Digits
    <2> QED BY <1>0, <1>3, <2>1, OnePlainly DEF Passes, Evenly
  <1>5. /\ Passing(1, Normal(1))
        /\ HandleAll(counts, Normal(1)).limit = "none" =>
               UNCHANGED <<pc, tokens, locals>> /\ cursor' = cursor + 1
    BY DEF Digit, Underscore, Consume, Passing
  <1>6. ASSUME HandleAll(counts, Normal(1)).limit = "none" PROVE Keeps(1)
    <2>1. /\ pc' = pc /\ tokens' = tokens /\ cursor' = cursor + 1
          /\ nesting' = nesting /\ base' = base /\ digits_start' = digits_start
      BY <1>5, <1>6 DEF locals
    <2>2. digits_start' <= cursor'
      BY <1>0, <2>1
    <2> QED BY <1>0, <1>1, <2>1, <2>2 DEF Keeps
  <1> QED BY <1>1, <1>4, <1>5, <1>6, KeepsSteps, HowsType

LEMMA DigitsEndSteps ==
    ASSUME Types, DigitsEnd
    PROVE  Steps
  <1>1. pc = "digits" /\ token_pos' = token_pos
    BY DEF DigitsEnd, InDigits
  <1>0. /\ cursor \in Nat /\ counts \in Counters /\ counts.limit = "none"
        /\ base \in {2, 10, 16} /\ digits_start \in Nat /\ digits_start <= cursor
    BY <1>1, EndsInText DEF Types
  <1> DEFINE hows == <<>>
  <1>2. hows \in Seq(Hows) /\ Passes(0, hows)
    BY HowsType DEF Passes, Evenly, NoStep
  <1>3. Passing(0, hows) /\ (HandleAll(counts, hows).limit = "none"
                                 => Push(IntLiteralKind, FirstDigit))
    BY DEF DigitsEnd, Consume, Passing, FirstDigit
  <1> HIDE DEF hows
  <1>4. FirstDigit < cursor
    <2>1. cursor # digits_start
      BY DEF DigitsEnd, BadLiteral
    <2> QED BY <1>0, <2>1 DEF FirstDigit
  <1>5. IntLiteralKind \in Kinds /\ IntLiteralKind # EndOfFileKind
    BY IntLiteralIs
  <1>6. HandleAll(counts, hows).limit = "none" => Pushes(0, IntLiteralKind)
    BY <1>1, <1>3, <1>4, <1>5 DEF Push, Pushes, TokenPos, TokenFirst
  <1> QED BY <1>1, <1>2, <1>3, <1>5, <1>6, PushesSteps

(* The end of the file, and all errors but the limits.                     *)
LEMMA EndOfFileSteps ==
    ASSUME Types, EndOfFile
    PROVE  Steps
  <1>1. pc = "loop" /\ token_pos' = CursorPos(counts) /\ AtLimit
    BY DEF EndOfFile, Top
  <1>0. cursor \in Nat /\ counts.limit = "none"
    BY EndsInText DEF Types
  <1> DEFINE hows == <<>>
  <1>2. hows \in Seq(Hows) /\ Passes(0, hows)
    BY HowsType DEF Passes, Evenly, NoStep
  <1>3. HandleAll(counts, hows) = counts
    BY HandleNone DEF Types
  <1> HIDE DEF hows
  <1>4. cursor + 0 = cursor
    BY <1>0
  <1>5. Passing(0, hows)
    BY <1>0, <1>3, <1>4 DEF EndOfFile, Passing
  <1>6. EndOfFileKind \in Kinds
    BY DEF Kinds
  <1>7. Pushes(0, EndOfFileKind)
    BY <1>1 DEF EndOfFile, Pushes, TokenPos, TokenFirst
  <1> QED BY <1>1, <1>2, <1>5, <1>6, <1>7, PushesSteps

LEMMA ErrorSteps ==
    ASSUME Unexpected \/ DigitsError \/ CommentError \/ Unclosed
    PROVE  Steps
  <1>1. CASE Unexpected
    <2> DEFINE kind == IF Peek(0) = "bad" THEN "BadEncoding" ELSE "UnexpectedCharacter"
    <2>1. token_pos' = CursorPos(counts) /\ Exit(kind, token_pos')
      BY <1>1 DEF Unexpected, Top
    <2>2. kind \notin Limits
      BY DEF Limits
    <2> HIDE DEF kind
    <2> QED BY <2>1, <2>2, ErrorLeaves DEF Steps
  <1>2. CASE DigitsError
    <2>1. token_pos' = token_pos /\ Exit("BadIntLiteral", token_pos)
      BY <1>2 DEF DigitsError, InDigits
    <2> QED BY <2>1, ErrorLeaves DEF Steps, Limits
  <1>3. CASE CommentError
    <2>1. token_pos' = token_pos /\ Exit("BadEncoding", CursorPos(counts))
      BY <1>3 DEF CommentError
    <2> QED BY <2>1, ErrorLeaves DEF Steps, Limits
  <1>4. CASE Unclosed
    <2>1. token_pos' = token_pos /\ Exit("UnclosedBlockComment", CursorPos(counts))
      BY <1>4 DEF Unclosed, InBlockComment
    <2> QED BY <2>1, ErrorLeaves DEF Steps, Limits
  <1> QED BY <1>1, <1>2, <1>3, <1>4

-----------------------------------------------------------------------------
(* Comments.                                                               *)
LEMMA TwoPlainly ==
    ASSUME cursor \in Nat, Len(source) \in Nat,
           Peek(0) \notin {"nul", "\t", "\r", "\n"},
           Peek(1) \notin {"nul", "\t", "\r", "\n"}
    PROVE  Passes(2, Normal(2))
  <1>1. \A k \in 0 .. 2 - 1 : k = 0 \/ k = 1
    OBVIOUS
  <1>2. \A k \in 0 .. 2 - 1 : Peek(k) \notin {"nul", "\t", "\r", "\n"}
    BY <1>1
  <1> QED BY <1>2, ManyPlainly DEF Passes, Evenly

LEMMA LineCommentSteps ==
    ASSUME Types, LineComment \/ LineCommentNext \/ LineCommentEnd
    PROVE  Steps
  <1>0. /\ cursor \in Nat /\ Len(source) \in Nat /\ source \in Seq(STRING)
        /\ cursor >= 1 /\ cursor + 0 = cursor /\ cursor <= Len(source) + 1
        /\ nesting \in Nat /\ base \in Nat /\ digits_start \in Nat
    BY EndsInText DEF Types
  <1>2. CASE LineComment
    <2>0. pc = "loop" /\ token_pos' = CursorPos(counts)
      BY <1>2 DEF LineComment, Top
    <2>1. Peek(0) = "/" /\ Peek(1) = "/"
      BY <1>2 DEF LineComment
    <2>2. source[cursor] = "/" /\ source[cursor + 1] = "/"
      BY <1>0, <2>1, PeekIs
    <2>3. Passes(2, Normal(2))
      BY <1>0, <2>1, TwoPlainly
    <2>4. /\ Passing(2, Normal(2))
          /\ HandleAll(counts, Normal(2)).limit = "none" =>
                pc' = "line_comment" /\ UNCHANGED <<tokens, locals>>
      BY <1>2 DEF LineComment, Consume, Passing
    <2>5. ASSUME HandleAll(counts, Normal(2)).limit = "none" PROVE Keeps(2)
      BY <1>0, <2>0, <2>2, <2>4, <2>5 DEF Keeps, locals
    <2> QED BY <2>0, <2>3, <2>4, <2>5, KeepsSteps, HowsType
  <1>3. CASE LineCommentNext
    <2>0. pc = "line_comment" /\ token_pos' = token_pos
      BY <1>3 DEF LineCommentNext, InLineComment
    <2>1. cursor <= Len(source) /\ Peek(0) = source[cursor]
      BY <1>0, <1>3 DEF LineCommentNext, AtLimit, Peek
    <2>2. source[cursor] \notin {"\r", "\n"}
      BY <1>3, <2>1 DEF LineCommentNext
    <2>3. Passes(1, Normal(1))
      <3>1. CASE source[cursor] = "\t"
        BY <2>0, <2>1, <3>1 DEF Passes, Evenly, CommentTab
      <3>2. CASE source[cursor] # "\t"
        BY <1>0, <2>1, <2>2, <3>2, OnePlainly DEF Passes, Evenly
      <3> QED BY <3>1, <3>2
    <2>4. /\ Passing(1, Normal(1))
          /\ HandleAll(counts, Normal(1)).limit = "none" => UNCHANGED <<pc, tokens, locals>>
      BY <1>3 DEF LineCommentNext, Consume, Passing
    <2>5. ASSUME HandleAll(counts, Normal(1)).limit = "none" PROVE Keeps(1)
      <3>1. cursor \notin LineEnds
        BY <2>2 DEF LineEnds
      <3> QED BY <1>0, <2>0, <2>4, <2>5, <3>1 DEF Keeps, locals
    <2> QED BY <2>0, <2>3, <2>4, <2>5, KeepsSteps, HowsType
  <1>4. CASE LineCommentEnd
    <2>0. pc = "line_comment" /\ token_pos' = token_pos
      BY <1>4 DEF LineCommentEnd, InLineComment
    <2>1. AtLimit \/ source[cursor] \in {"\r", "\n"}
      <3>1. CASE Peek(0) \in {"\r", "\n"}
        BY <1>0, <3>1, PeekIs
      <3> QED BY <1>4, <3>1 DEF LineCommentEnd
    <2> DEFINE hows == <<>>
    <2>2. hows \in Seq(Hows) /\ Passes(0, hows)
      BY HowsType DEF Passes, Evenly, NoStep
    <2>4. Passing(0, hows) /\ (HandleAll(counts, hows).limit = "none" => Skip)
      BY <1>4 DEF LineCommentEnd, Consume, Passing
    <2> HIDE DEF hows
    <2>5. ASSUME HandleAll(counts, hows).limit = "none" PROVE Keeps(0)
      <3>1. Skip
        BY <2>4, <2>5
      <3> QED BY <1>0, <2>0, <2>1, <3>1 DEF Keeps, Skip, locals
    <2> QED BY <2>0, <2>2, <2>4, <2>5, KeepsSteps
  <1> QED BY <1>2, <1>3, <1>4

(* One turn of the loop of a block comment keeps, but for the nesting.     *)
LEMMA InsideKeeps ==
    ASSUME Types, pc = "block_comment", Inside, NEW n \in Nat
    PROVE  Keeps(n)
  BY DEF Types, Inside, Keeps, locals

LEMMA NestKeeps ==
    ASSUME Types, pc = "block_comment", NEW k \in Nat, Nest(k), NEW n \in Nat
    PROVE  Keeps(n)
  <1>1. /\ pc' = (IF k = 0 THEN "loop" ELSE "block_comment")
        /\ nesting' = k /\ tokens' = tokens /\ base' = base /\ digits_start' = digits_start
    BY DEF Nest
  <1>2. pc' = "block_comment" => nesting' > 0
    BY <1>1
  <1> QED BY <1>1, <1>2 DEF Types, Keeps

LEMMA BlockCommentSteps ==
    ASSUME Types, BlockComment
    PROVE  Steps
  <1>0. /\ cursor \in Nat /\ Len(source) \in Nat /\ source \in Seq(STRING)
        /\ cursor >= 1 /\ cursor + 0 = cursor /\ cursor <= Len(source) + 1
        /\ nesting \in Nat /\ base \in Nat /\ digits_start \in Nat
    BY EndsInText DEF Types
  <1>1. pc = "loop" /\ token_pos' = CursorPos(counts)
    BY DEF BlockComment, Top
  <1>2. Peek(0) = "/" /\ Peek(1) = "*"
    BY DEF BlockComment
  <1>3. source[cursor] = "/" /\ source[cursor + 1] = "*" /\ cursor + 1 <= Len(source)
    BY <1>0, <1>2, PeekIs
  <1>4. HasPair(source, "/", "*")
    <2>1. cursor \in 1 .. Len(source) - 1
      BY <1>0, <1>3
    <2> QED BY <1>3, <2>1 DEF HasPair
  <1>5. Passes(2, Normal(2))
    BY <1>0, <1>2, TwoPlainly
  <1>6. /\ Passing(2, Normal(2))
        /\ HandleAll(counts, Normal(2)).limit = "none" =>
              /\ pc' = "block_comment" /\ nesting' = 1
              /\ UNCHANGED <<tokens, base, digits_start>>
    BY DEF BlockComment, Consume, Passing
  <1>7. ASSUME HandleAll(counts, Normal(2)).limit = "none" PROVE Keeps(2)
    <2>1. nesting' \in Nat /\ nesting' > 0
      BY <1>6, <1>7
    <2> QED BY <1>0, <1>1, <1>4, <1>6, <1>7, <2>1 DEF Keeps
  <1> QED BY <1>1, <1>5, <1>6, <1>7, KeepsSteps, HowsType

LEMMA BlockCommentNextSteps ==
    ASSUME Types, BlockCommentNext
    PROVE  Steps
  <1>0. /\ cursor \in Nat /\ Len(source) \in Nat /\ source \in Seq(STRING)
        /\ cursor >= 1 /\ cursor + 0 = cursor
    BY EndsInText DEF Types
  <1>1. pc = "block_comment" /\ token_pos' = token_pos
    BY DEF BlockCommentNext, InBlockComment
  <1>2. cursor <= Len(source) /\ Peek(0) = source[cursor]
    <2>1. cursor # Len(source) + 1 /\ cursor <= Len(source) + 1
      BY DEF BlockCommentNext, AtLimit, Types
    <2> QED BY <1>0, <2>1 DEF Peek
  <1>3. CASE Peek(0) = "\r" /\ Peek(1) = "\n"
    <2>1. Passes(2, CrlfTerminator)
      <3>1. AtCrlf
        BY <1>0, <1>3, PeekIs DEF AtCrlf
      <3> QED BY <3>1 DEF Passes, Evenly, CrlfStep
    <2>2. /\ Passing(2, CrlfTerminator)
          /\ HandleAll(counts, CrlfTerminator).limit = "none" => Inside
      BY <1>3 DEF BlockCommentNext, Consume, Passing
    <2> QED BY <1>1, <2>1, <2>2, InsideKeeps, KeepsSteps, HowsType
  <1>4. CASE \/ Peek(0) = "\n"
             \/ Peek(0) = "\r" /\ Peek(1) # "\n"
    <2>1. Passes(1, LineTerminator)
      <3>1. cursor \in LineEnds
        BY <1>0, <1>2, <1>4 DEF LineEnds, Peek
      <3> QED BY <3>1 DEF Passes, Evenly, LineStep
    <2>2. /\ Passing(1, LineTerminator)
          /\ HandleAll(counts, LineTerminator).limit = "none" => Inside
      BY <1>4 DEF BlockCommentNext, Consume, Passing
    <2> QED BY <1>1, <2>1, <2>2, InsideKeeps, KeepsSteps, HowsType
  <1>5. CASE Peek(0) = "\t"
    <2> DEFINE hows == <<"tab">>
    <2>1. hows \in Seq(Hows) /\ Passes(1, hows)
      BY <1>2, <1>5, HowsType DEF Passes, Evenly, TabStep
    <2>2. Passing(1, hows) /\ (HandleAll(counts, hows).limit = "none" => Inside)
      BY <1>5 DEF BlockCommentNext, Consume, Passing
    <2> HIDE DEF hows
    <2> QED BY <1>1, <2>1, <2>2, InsideKeeps, KeepsSteps
  <1>6. CASE Peek(0) = "*" /\ Peek(1) = "/"
    <2>1. Passes(2, Normal(2))
      BY <1>0, <1>6, TwoPlainly
    <2>2. /\ Passing(2, Normal(2))
          /\ HandleAll(counts, Normal(2)).limit = "none" => Nest(nesting - 1)
      BY <1>6 DEF BlockCommentNext, Consume, Passing
    <2>3. nesting - 1 \in Nat
      BY <1>1 DEF Types
    <2> QED BY <1>1, <2>1, <2>2, <2>3, NestKeeps, KeepsSteps, HowsType
  <1>7. CASE Peek(0) = "/" /\ Peek(1) = "*"
    <2>1. Passes(2, Normal(2))
      BY <1>0, <1>7, TwoPlainly
    <2>2. /\ Passing(2, Normal(2))
          /\ HandleAll(counts, Normal(2)).limit = "none" => Nest(nesting + 1)
      BY <1>7 DEF BlockCommentNext, Consume, Passing
    <2>3. nesting + 1 \in Nat
      BY <1>1 DEF Types
    <2> QED BY <1>1, <2>1, <2>2, <2>3, NestKeeps, KeepsSteps, HowsType
  <1>8. CASE \/ Peek(0) = "*" /\ Peek(1) # "/"
             \/ Peek(0) = "/" /\ Peek(1) # "*"
    <2> DEFINE hows == <<>>
    <2>1. hows \in Seq(Hows) /\ Passes(1, hows)
      BY <1>1, <1>2, <1>8, HowsType DEF Passes, Uncounted
    <2>2. Passing(1, hows) /\ (HandleAll(counts, hows).limit = "none" => Inside)
      BY <1>8 DEF BlockCommentNext, Consume, Passing
    <2> HIDE DEF hows
    <2> QED BY <1>1, <2>1, <2>2, InsideKeeps, KeepsSteps
  <1>9. CASE Peek(0) \notin {"\r", "\n", "\t", "*", "/", "bad"}
    <2>1. Passes(1, Normal(1))
      BY <1>0, <1>2, <1>9, OnePlainly DEF Passes, Evenly
    <2>2. /\ Passing(1, Normal(1))
          /\ HandleAll(counts, Normal(1)).limit = "none" => Inside
      BY <1>9 DEF BlockCommentNext, Consume, Passing
    <2> QED BY <1>1, <2>1, <2>2, InsideKeeps, KeepsSteps, HowsType
  <1>10. CASE Peek(0) = "bad"
    BY <1>10 DEF BlockCommentNext
  <1>11. \/ Peek(0) \in {"\r", "\n", "\t", "*", "/", "bad"}
         \/ Peek(0) \notin {"\r", "\n", "\t", "*", "/", "bad"}
    OBVIOUS
  <1>12. CASE Peek(0) = "\r"
    BY <1>3, <1>4, <1>12
  <1>13. CASE Peek(0) = "*"
    BY <1>6, <1>8, <1>13
  <1>14. CASE Peek(0) = "/"
    BY <1>7, <1>8, <1>14
  <1> QED BY <1>4, <1>5, <1>9, <1>10, <1>11, <1>12, <1>13, <1>14

LEMMA EachStep ==
    ASSUME Types, Next
    PROVE  Steps
  BY WordSteps, SymbolSteps, NumberSteps, DigitSteps, DigitsEndSteps, EndOfFileSteps,
     ErrorSteps, BlankSteps, LineCommentSteps, BlockCommentSteps, BlockCommentNextSteps
     DEF Next

-----------------------------------------------------------------------------
(* What is said of a text stays true while the text stays the same.        *)
LEMMA SameText ==
    ASSUME source' = source
    PROVE  /\ FirstCharacter' = FirstCharacter
           /\ LineEnds' = LineEnds
           /\ LineStarts' = LineStarts
           /\ \A i : LineOf(i)' = LineOf(i)
           /\ \A i : LineStart(i)' = LineStart(i)
           /\ \A i : ColumnOf(i)' = ColumnOf(i)
           /\ \A i : Fits(i)' = Fits(i)
           /\ TooManyCharacters' = TooManyCharacters
           /\ TooManyLines' = TooManyLines
           /\ LineTooLong' = LineTooLong
           /\ TabInLastComment' = TabInLastComment
           /\ CommentAndName(source)' = CommentAndName(source)
           /\ CrlfFree' = CrlfFree
           /\ CountedAsWritten' = CountedAsWritten
  <1>1. FirstCharacter' = FirstCharacter /\ LineEnds' = LineEnds
    BY DEF FirstCharacter, LineEnds
  <1>2. LineStarts' = LineStarts
    BY <1>1 DEF LineStarts
  <1>3. ASSUME NEW CONSTANT i PROVE LineOf(i)' = LineOf(i)
    BY <1>1 DEF LineOf
  <1>4. ASSUME NEW CONSTANT i PROVE LineStart(i)' = LineStart(i)
    BY <1>2 DEF LineStart
  <1>5. ASSUME NEW CONSTANT i PROVE ColumnOf(i)' = ColumnOf(i)
    BY <1>1, <1>2 DEF ColumnOf
  <1>6. ASSUME NEW CONSTANT i PROVE Fits(i)' = Fits(i)
    BY <1>4 DEF Fits
  <1>7. TooManyCharacters' = TooManyCharacters /\ TooManyLines' = TooManyLines
    BY <1>1 DEF TooManyCharacters, TooManyLines
  <1>8. LineTooLong' = LineTooLong
    BY <1>2, <1>4 DEF LineTooLong
  <1>9. CommentAndName(source)' = CommentAndName(source)
    BY DEF CommentAndName
  <1>10. CrlfFree' = CrlfFree
    BY <1>9 DEF CrlfFree, HasPair
  <1>11. CountedAsWritten' = CountedAsWritten
    BY <1>9 DEF CountedAsWritten, HasPair
  <1>12. TabInLastComment' = TabInLastComment
    <2>1. Len(source') + 1 = Len(source) + 1
      OBVIOUS
    <2> DEFINE last == Len(source) + 1
    <2>2. LineStart(Len(source) + 1)' = LineStart(Len(source) + 1)
      <3>1. \A i : LineStart(i)' = LineStart(i)
        BY <1>4
      <3> QED BY <3>1
    <2> QED BY <2>2 DEF TabInLastComment
  <1> QED BY <1>1, <1>2, <1>3, <1>4, <1>5, <1>6, <1>7, <1>8, <1>9, <1>10, <1>11, <1>12

(* What a step that goes on makes of the counters.                         *)
LEMMA MovesCounts ==
    ASSUME Types, NEW n \in Nat, NEW hows \in Seq(Hows), Moves(n, hows)
    PROVE  /\ counts' \in Counters /\ counts'.limit = "none"
           /\ counts'.line <= MAX_LINES_PER_FILE
           /\ counts'.total_characters <= MAX_CHARACTERS_PER_FILE
           /\ cursor' \in FirstCharacter .. Len(source) + 1
           /\ cursor' \in Nat /\ cursor \in Nat /\ cursor' >= cursor
  <1> DEFINE d == HandleAll(counts, hows)
  <1>0. /\ cursor \in Nat /\ Len(source) \in Nat /\ source \in Seq(STRING)
        /\ FirstCharacter \in Nat /\ cursor \in FirstCharacter .. Len(source) + 1
        /\ counts \in Counters /\ counts.limit = "none"
        /\ counts.line <= MAX_LINES_PER_FILE
        /\ counts.total_characters <= MAX_CHARACTERS_PER_FILE
        /\ counts.total_characters \in Nat
    BY EndsInText, FieldTypes DEF Types
  <1>1. counts' = d /\ cursor' = cursor + n /\ Passes(n, hows) /\ d.limit = "none"
    BY DEF Moves
  <1>4. ASSUME NEW m \in Nat, Room(counts, m)
        PROVE  counts.total_characters + m <= MAX_CHARACTERS_PER_FILE
    <2>1. CASE m = 0
      BY <1>0, <2>1
    <2>2. CASE m # 0
      <3>1. m \in 1 .. m
        BY <2>2
      <3> QED BY <1>4, <3>1 DEF Room
    <2> QED BY <2>1, <2>2
  <1>2. /\ d \in Counters /\ cursor + n <= Len(source) + 1
        /\ d.line <= MAX_LINES_PER_FILE
        /\ d.total_characters <= MAX_CHARACTERS_PER_FILE
    <2>1. CASE Evenly(n, hows)
      <3>1. d \in Counters /\ cursor + n <= Len(source) + 1
        BY <2>1, PassedEvenly
      <3>2. (\E column \in Nat : Onward(counts, d, n, column)) \/ NextLineOn(counts, d, n)
        <4>1. ~TooMany(counts, d, n) /\ ~NoLineLeft(counts, d)
          BY <1>1 DEF TooMany, NoLineLeft
        <4> QED BY <2>1, <4>1, PassedEvenly
      <3> HIDE DEF d
      <3>3. CASE \E column \in Nat : Onward(counts, d, n, column)
        BY <1>0, <1>4, <3>1, <3>3 DEF Onward
      <3>4. CASE NextLineOn(counts, d, n)
        BY <1>0, <1>4, <3>1, <3>4 DEF NextLineOn
      <3> QED BY <3>2, <3>3, <3>4
    <2>2. CASE HalfCrlf(n, hows)
      <3>1. hows = CrlfTerminator /\ n = 1 /\ cursor < Len(source)
        BY <2>2 DEF HalfCrlf, AtCrlf
      <3>2. d \in Counters
        BY <1>0, <3>1, HandleCrlf
      <3>3. NextLineOn(counts, d, 2)
        <4>1. ~TooMany(counts, d, 2) /\ ~NoLineLeft(counts, d)
          BY <1>1 DEF TooMany, NoLineLeft
        <4> QED BY <1>0, <3>1, <4>1, HandleCrlf
      <3> HIDE DEF d
      <3> QED BY <1>0, <1>4, <3>1, <3>2, <3>3 DEF NextLineOn
    <2>3. CASE Uncounted(n, hows)
      <3>1. hows = <<>> /\ n = 1 /\ cursor <= Len(source)
        BY <2>3 DEF Uncounted
      <3>2. d = counts
        BY <1>0, <3>1, HandleNone
      <3> HIDE DEF d
      <3> QED BY <1>0, <3>1, <3>2
    <2> QED BY <1>1, <2>1, <2>2, <2>3 DEF Passes
  <1> QED BY <1>0, <1>1, <1>2

(* The token that a step makes.                                            *)
LEMMA Pushed ==
    ASSUME Types, NEW n \in Nat, NEW hows \in Seq(Hows), Moves(n, hows),
           NEW kind \in Kinds, Pushes(n, kind)
    PROVE  \E t \in TokenType :
              /\ t.kind = kind /\ t.pos = TokenPos
              /\ t.first = TokenFirst /\ t.last = cursor' - 1
              /\ Len(tokens') = Len(tokens) + 1
              /\ \A k \in 1 .. Len(tokens) : tokens'[k] = tokens[k]
              /\ tokens'[Len(tokens) + 1] = t
              /\ Range(tokens') = Range(tokens) \cup {t}
  <1>0. /\ source \in Seq(STRING) /\ FirstCharacter \in Nat \ {0} /\ cursor \in Nat
        /\ Len(source) \in Nat
        /\ tokens \in Seq(TokenType) /\ token_pos \in Positions
        /\ CursorPos(counts) \in Positions
    BY EndsInText, FieldTypes DEF Types, CursorPos, Positions
  <1>1. cursor' \in FirstCharacter .. Len(source) + 1
    BY MovesCounts
  <1> DEFINE t == [kind |-> kind, pos |-> TokenPos, first |-> TokenFirst,
                   last |-> cursor' - 1]
  <1>2. /\ t.kind = kind /\ t.pos = TokenPos
        /\ t.first = TokenFirst /\ t.last = cursor' - 1
    OBVIOUS
  <1>3. t \in TokenType
    <2>1. TokenPos \in Positions /\ TokenFirst \in Nat
      BY <1>0 DEF Pushes, TokenPos, TokenFirst, Types
    <2>2. cursor' - 1 \in Nat
      <3>1. \A a \in Nat \ {0}, b \in Nat : \A x \in a .. b + 1 : x - 1 \in Nat
        OBVIOUS
      <3> QED BY <1>0, <1>1, <3>1
    <2> QED BY <2>1, <2>2 DEF TokenType
  <1>4. tokens' = Append(tokens, t)
    BY DEF Pushes
  <1> HIDE DEF t
  <1>5. /\ tokens' \in Seq(TokenType) /\ Len(tokens') = Len(tokens) + 1
        /\ \A k \in 1 .. Len(tokens) : tokens'[k] = tokens[k]
        /\ tokens'[Len(tokens) + 1] = t
    BY <1>0, <1>3, <1>4, AppendProperties
  <1>6. Range(tokens') = Range(tokens) \cup {t}
    <2>1. Len(tokens) \in Nat
      BY <1>0
    <2>2. DOMAIN tokens' = 1 .. Len(tokens) + 1 /\ DOMAIN tokens = 1 .. Len(tokens)
      BY <1>0, <1>5
    <2>3. 1 .. Len(tokens) + 1 = (1 .. Len(tokens)) \cup {Len(tokens) + 1}
      BY <2>1
    <2>4. Range(tokens') = {tokens'[k] : k \in 1 .. Len(tokens) + 1}
      BY <2>2 DEF Range
    <2>5. Range(tokens) = {tokens[k] : k \in 1 .. Len(tokens)}
      BY <2>2 DEF Range
    <2> QED BY <1>5, <2>3, <2>4, <2>5
  <1> QED BY <1>2, <1>3, <1>5, <1>6

LEMMA StepTypes ==
    ASSUME Types, Steps
    PROVE  Types'
  <1>0. /\ source \in Seq(STRING)
        /\ FirstCharacter \in Nat \ {0} /\ cursor \in Nat
        /\ tokens \in Seq(TokenType) /\ token_pos \in Positions
        /\ CursorPos(counts) \in Positions
    BY EndsInText, FieldTypes DEF Types, CursorPos, Positions
  <1>1. CASE Leaves
    <2>1. /\ source' = source /\ cursor' = cursor /\ counts' = counts
          /\ nesting' = nesting /\ base' = base /\ digits_start' = digits_start
          /\ pc' = "error" /\ tokens' = <<>>
      BY <1>1 DEF Leaves, locals
    <2>2. token_pos' \in Positions
      BY <1>0, <1>1 DEF Leaves
    <2>3. FirstCharacter' = FirstCharacter
      BY <2>1, SameText
    <2>4. ~Ended'
      BY <2>1 DEF Ended
    <2>5. tokens' \in Seq(TokenType)
      BY <2>1
    <2> QED BY <2>1, <2>2, <2>3, <2>4, <2>5 DEF Types
  <1>2. ASSUME NEW n \in Nat, NEW hows \in Seq(Hows), Moves(n, hows),
               Keeps(n) \/ \E kind \in Kinds : Pushes(n, kind)
        PROVE  Types'
    <2>1. source' = source /\ error' = error /\ token_pos' \in Positions
      BY <1>0, <1>2 DEF Moves
    <2>2. /\ counts' \in Counters /\ counts'.limit = "none"
          /\ counts'.line <= MAX_LINES_PER_FILE
          /\ counts'.total_characters <= MAX_CHARACTERS_PER_FILE
          /\ cursor' \in FirstCharacter .. Len(source) + 1
          /\ cursor' \in Nat /\ cursor \in Nat /\ cursor' >= cursor
      BY <1>2, MovesCounts
    <2>3. FirstCharacter' = FirstCharacter
      BY <2>1, SameText
    <2>4. HasPair(source, "/", "*")' = HasPair(source, "/", "*")
      BY <2>1 DEF HasPair
    <2>5. CASE Keeps(n)
      <3>1. tokens' = tokens /\ ~Ended' /\ pc' # "tokens" /\ error.kind = "none"
        BY <2>5 DEF Keeps, Ended, Types
      <3>2. pc' = "digits" => FirstDigit' \in FirstCharacter .. cursor'
        <4>1. CASE pc = "digits" /\ UNCHANGED <<token_pos, base, digits_start>>
          <5>1. FirstDigit' = FirstDigit /\ FirstDigit \in FirstCharacter .. cursor
            BY <4>1 DEF FirstDigit, Types
          <5> QED BY <1>0, <2>2, <5>1
        <4>2. CASE pc = "loop" /\ FirstDigit' = cursor
          <5>1. cursor \in FirstCharacter .. Len(source) + 1
            BY DEF Types
          <5> QED BY <1>0, <2>2, <4>2, <5>1
        <4> QED BY <2>5, <4>1, <4>2 DEF Keeps
      <3>3. pc' = "block_comment" => nesting' > 0 /\ HasPair(source, "/", "*")'
        BY <2>4, <2>5 DEF Keeps
      <3>4. pc' = "digits" => base' \in {2, 10, 16} /\ digits_start' <= cursor'
        BY <2>5 DEF Keeps
      <3>5. /\ pc' \in {"loop", "line_comment", "block_comment", "digits"}
            /\ nesting' \in Nat /\ base' \in Nat /\ digits_start' \in Nat
        BY <2>5 DEF Keeps
      <3> QED BY <1>0, <2>1, <2>2, <2>3, <3>1, <3>2, <3>3, <3>4, <3>5 DEF Types
    <2>6. CASE \E kind \in Kinds : Pushes(n, kind)
      <3>1. PICK kind \in Kinds : Pushes(n, kind)
        BY <2>6
      <3>2. PICK t \in TokenType :
              /\ t.kind = kind
              /\ Len(tokens') = Len(tokens) + 1
              /\ tokens'[Len(tokens) + 1] = t
              /\ \A k \in 1 .. Len(tokens) : tokens'[k] = tokens[k]
        BY <1>2, <3>1, Pushed
      <3>3. tokens' = Append(tokens, tokens'[Len(tokens) + 1])
        <4>1. \E u : tokens' = Append(tokens, u)
          BY <3>1 DEF Pushes
        <4>2. PICK u : tokens' = Append(tokens, u)
          BY <4>1
        <4> QED BY <1>0, <4>2
      <3>4. tokens' \in Seq(TokenType) /\ tokens' # <<>>
        BY <1>0, <3>2, <3>3, AppendProperties
      <3>5. Ended' <=> kind = EndOfFileKind
        BY <3>2, <3>4 DEF Ended, Last
      <3>6. pc' = IF kind = EndOfFileKind THEN "tokens" ELSE "loop"
        BY <3>1 DEF Pushes
      <3>7. nesting' = nesting /\ base' = base /\ digits_start' = digits_start
        BY <3>1 DEF Pushes, locals
      <3>8. error.kind = "none"
        BY <3>1 DEF Pushes, Types
      <3>9. nesting \in Nat /\ base \in Nat /\ digits_start \in Nat
        BY DEF Types
      <3> QED BY <1>0, <2>1, <2>2, <2>3, <3>4, <3>5, <3>6, <3>7, <3>8, <3>9 DEF Types
    <2> QED BY <1>2, <2>5, <2>6
  <1> QED BY <1>1, <1>2 DEF Steps

(* A token begins at or after the last one's end, and ends where the step  *)
(* does.                                                                   *)
LEMMA StepOrder ==
    ASSUME Types, Order, Steps
    PROVE  Order'
  <1>0. /\ source \in Seq(STRING) /\ FirstCharacter \in Nat \ {0} /\ cursor \in Nat
        /\ tokens \in Seq(TokenType) /\ Len(tokens) \in Nat
    BY EndsInText DEF Types
  <1>t. ASSUME NEW k \in 1 .. Len(tokens)
        PROVE  tokens[k].first \in Nat /\ tokens[k].last \in Nat
    <2>1. tokens[k] \in TokenType
      BY <1>0
    <2> QED BY <2>1 DEF TokenType
  <1>1. CASE Leaves
    <2>1. Len(tokens') = 0 /\ 1 .. Len(tokens') = {} /\ pc' = "error"
      BY <1>1 DEF Leaves
    <2> QED BY <2>1 DEF Order
  <1>2. ASSUME NEW n \in Nat, NEW hows \in Seq(Hows), Moves(n, hows),
               Keeps(n) \/ \E kind \in Kinds : Pushes(n, kind)
        PROVE  Order'
    <2>1. /\ FirstCharacter' = FirstCharacter
          /\ cursor' = cursor + n
          /\ cursor' \in Nat /\ cursor' >= cursor
      BY <1>2, MovesCounts, SameText DEF Moves
    <2>2. CASE Keeps(n)
      <3>1. tokens' = tokens
        BY <2>2 DEF Keeps
      <3>2. ASSUME pc' = "digits", NEW k \in 1 .. Len(tokens)
            PROVE  tokens[k].last < FirstDigit'
        <4>1. CASE pc = "digits" /\ UNCHANGED <<token_pos, base, digits_start>>
          <5>1. FirstDigit' = FirstDigit
            BY <4>1 DEF FirstDigit
          <5> QED BY <4>1, <5>1 DEF Order
        <4>2. CASE pc = "loop" /\ FirstDigit' = cursor
          BY <4>2 DEF Order
        <4> QED BY <2>2, <3>2, <4>1, <4>2 DEF Keeps
      <3>3. ASSUME NEW k \in 1 .. Len(tokens)
            PROVE  FirstCharacter <= tokens[k].first /\ tokens[k].last < cursor'
        BY <1>0, <1>t, <2>1 DEF Order
      <3>4. pc' # "tokens"
        BY <2>2 DEF Keeps
      <3> QED BY <2>1, <3>1, <3>2, <3>3, <3>4 DEF Order
    <2>3. CASE \E kind \in Kinds : Pushes(n, kind)
      <3>1. PICK kind \in Kinds : Pushes(n, kind)
        BY <2>3
      <3>2. PICK t \in TokenType :
              /\ t.kind = kind /\ t.pos = TokenPos
              /\ t.first = TokenFirst /\ t.last = cursor' - 1
              /\ Len(tokens') = Len(tokens) + 1
              /\ \A k \in 1 .. Len(tokens) : tokens'[k] = tokens[k]
              /\ tokens'[Len(tokens) + 1] = t
        BY <1>2, <3>1, Pushed
      <3>3. /\ TokenFirst \in FirstCharacter .. cursor
            /\ kind # EndOfFileKind => TokenFirst <= cursor' - 1
        <4>1. CASE pc = "loop"
          <5>1. TokenFirst = cursor /\ FirstCharacter <= cursor
            BY <4>1 DEF TokenFirst, Types
          <5>2. kind # EndOfFileKind => n >= 1
            BY <3>1, <4>1 DEF Pushes
          <5> QED BY <1>0, <2>1, <5>1, <5>2
        <4>2. CASE pc = "digits"
          <5>1. TokenFirst = FirstDigit /\ FirstDigit \in FirstCharacter .. cursor
            BY <4>2 DEF TokenFirst, Types
          <5>2. n = 0 /\ FirstDigit < cursor
            BY <3>1, <4>2 DEF Pushes
          <5> QED BY <1>0, <2>1, <5>1, <5>2
        <4> QED BY <3>1, <4>1, <4>2 DEF Pushes
      <3>4. ASSUME NEW k \in 1 .. Len(tokens) PROVE tokens[k].last < TokenFirst
        <4>1. CASE pc = "loop"
          BY <4>1 DEF TokenFirst, Order
        <4>2. CASE pc = "digits"
          BY <4>2 DEF TokenFirst, Order
        <4> QED BY <3>1, <4>1, <4>2 DEF Pushes
      <3>5. 1 .. Len(tokens') = 1 .. Len(tokens) \cup {Len(tokens) + 1}
        BY <1>0, <3>2
      <3>6. pc' # "digits"
        BY <3>1 DEF Pushes
      <3>7. ASSUME NEW k \in 1 .. Len(tokens')
            PROVE  /\ FirstCharacter <= tokens'[k].first /\ tokens'[k].last < cursor'
                   /\ tokens'[k].kind # EndOfFileKind =>
                          tokens'[k].first <= tokens'[k].last
        <4>1. CASE k = Len(tokens) + 1
          BY <1>0, <2>1, <3>2, <3>3, <4>1
        <4>2. CASE k \in 1 .. Len(tokens)
          <5>1. tokens'[k] = tokens[k]
            BY <3>2, <4>2
          <5>2. FirstCharacter <= tokens[k].first /\ tokens[k].last < cursor
            BY <4>2 DEF Order
          <5>3. tokens[k].last < cursor'
            BY <1>0, <1>t, <2>1, <4>2, <5>2
          <5>4. tokens[k].kind # EndOfFileKind => tokens[k].first <= tokens[k].last
            BY <4>2 DEF Order
          <5> QED BY <5>1, <5>2, <5>3, <5>4
        <4> QED BY <3>5, <4>1, <4>2
      <3>8. ASSUME NEW j \in 1 .. Len(tokens'), NEW k \in 1 .. Len(tokens'), j < k
            PROVE  tokens'[j].last < tokens'[k].first
        <4>1. j \in 1 .. Len(tokens)
          BY <1>0, <3>2, <3>8
        <4>2. CASE k = Len(tokens) + 1
          BY <3>2, <3>4, <4>1, <4>2
        <4>3. CASE k \in 1 .. Len(tokens)
          BY <3>2, <3>8, <4>1, <4>3 DEF Order
        <4> QED BY <3>5, <4>2, <4>3
      <3>9. pc' = "tokens" => AtLimit'
        <4>1. pc' = "tokens" => kind = EndOfFileKind /\ AtLimit /\ n = 0
          BY <3>1 DEF Pushes
        <4>2. source' = source
          BY <1>2 DEF Moves
        <4> QED BY <1>0, <2>1, <4>1, <4>2 DEF AtLimit
      <3> QED BY <2>1, <3>6, <3>7, <3>8, <3>9 DEF Order
    <2> QED BY <1>2, <2>2, <2>3
  <1> QED BY <1>1, <1>2 DEF Steps

-----------------------------------------------------------------------------
(* A block comment and a name, place by place.                             *)
LEMMA CommentAndNameIs ==
    ASSUME source \in Seq(STRING), CommentAndName(source)
    PROVE  /\ Len(source) \in Nat /\ Len(source) >= 5
           /\ source[1] = "/" /\ source[2] = "*"
           /\ source[Len(source) - 2] = "*" /\ source[Len(source) - 1] = "/"
           /\ source[Len(source)] = "a"
           /\ \A k \in 3 .. Len(source) - 3 : source[k] \notin {"/", "*"}
           /\ FirstCharacter = 1
  <1> DEFINE L == Len(source)
             m == L - 2
             front == SubSeq(source, 1, 2)
             back == SubSeq(source, m, L)
  <1>1. L \in Nat /\ L >= 5
    <2>1. L \in Nat /\ L > 4
      BY DEF CommentAndName
    <2> QED BY <2>1
  <1>2. front = <<"/", "*">> /\ back = <<"*", "/", "a">>
    BY DEF CommentAndName
  <1>3. m \in 1 .. L + 1 /\ m <= L /\ L - m + 1 = 3 /\ m + 1 - 1 = m
        /\ m + 2 - 1 = L - 1 /\ m + 3 - 1 = L
    BY <1>1
  <1> HIDE DEF m
  <1>4. \A i \in 1 .. 2 : front[i] = source[i]
    <2>1. 1 \in 1 .. L + 1 /\ 2 \in 1 - 1 .. L /\ 2 - 1 + 1 = 2
      BY <1>1
    <2>2. \A i \in 1 .. 2 - 1 + 1 : SubSeq(source, 1, 2)[i] = source[1 + i - 1]
      BY <2>1, SubSeqProperties
    <2>3. \A i \in 1 .. 2 : 1 + i - 1 = i
      OBVIOUS
    <2> QED BY <2>1, <2>2, <2>3
  <1>5. \A i \in 1 .. 3 : back[i] = source[m + i - 1]
    <2>1. m \in 1 .. L + 1 /\ L \in m - 1 .. L
      BY <1>1, <1>3
    <2>2. \A i \in 1 .. L - m + 1 : SubSeq(source, m, L)[i] = source[m + i - 1]
      BY <2>1, SubSeqProperties
    <2> QED BY <1>3, <2>2
  <1>6. source[1] = "/" /\ source[2] = "*"
    <2> HIDE DEF front
    <2>1. front[1] = "/" /\ front[2] = "*"
      BY <1>2
    <2> QED BY <1>4, <2>1
  <1>7. source[m] = "*" /\ source[L - 1] = "/" /\ source[L] = "a"
    <2> HIDE DEF back
    <2>1. back[1] = "*" /\ back[2] = "/" /\ back[3] = "a"
      BY <1>2
    <2>2. back[1] = source[m + 1 - 1] /\ back[2] = source[m + 2 - 1]
          /\ back[3] = source[m + 3 - 1]
      BY <1>5
    <2> QED BY <1>3, <2>1, <2>2
  <1>8. FirstCharacter = 1
    <2>1. Head(source) = source[1]
      BY <1>1
    <2> QED BY <1>6, <2>1 DEF FirstCharacter
  <1>9. \A k \in 3 .. L - 3 : source[k] \notin {"/", "*"}
    BY DEF CommentAndName
  <1> QED BY <1>1, <1>6, <1>7, <1>8, <1>9 DEF m

LEMMA ClassesAre ==
    /\ IdStart = {"a", "b", "f", "i", "n", "x", "_"}
    /\ Digits(10) = {"0", "1", "9"}
    /\ IdContinue = {"a", "b", "f", "i", "n", "x", "_", "0", "1", "9"}
  <1>1. Digits(10) = {"0", "1", "9"}
    BY DEF Digits
  <1> QED BY <1>1 DEF IdStart, IdContinue

LEMMA AtComment ==
    ASSUME Next, pc = "loop", Peek(0) = "/", Peek(1) = "*",
           cursor \in Nat, Len(source) \in Nat
    PROVE  BlockComment
  <1>1. ~Word /\ ~NumberPrefix /\ ~Zero /\ ~Decimal /\ ~Unexpected
    BY ClassesAre DEF Word, NumberPrefix, Zero, Decimal, Unexpected
  <1>2. ~Digit /\ ~DigitsError /\ ~Underscore /\ ~DigitsEnd
    BY DEF Digit, DigitsError, Underscore, DigitsEnd, InDigits
  <1>3. ~Space /\ ~Tab /\ ~Crlf /\ ~NextLine /\ ~LineComment
    BY DEF Space, Tab, Crlf, NextLine, LineComment
  <1>4. ~LineCommentNext /\ ~LineCommentEnd /\ ~CommentError /\ ~Unclosed /\ ~BlockCommentNext
    BY DEF LineCommentNext, LineCommentEnd, InLineComment, CommentError, Unclosed,
           BlockCommentNext, InBlockComment
  <1>5. ~EndOfFile
    <2>1. cursor <= Len(source)
      <3>1. cursor + 0 <= Len(source)
        BY PeekIs
      <3> QED BY <3>1
    <2> QED BY <2>1 DEF EndOfFile, AtLimit
  <1>6. ~Symbol
    BY DEF Symbol, SymbolLength, SymbolX, SymbolXE, SymbolXXE
  <1> QED BY <1>1, <1>2, <1>3, <1>4, <1>5, <1>6 DEF Next

LEMMA AtName ==
    ASSUME Next, pc = "loop", Peek(0) = "a", cursor \in Nat, Len(source) \in Nat
    PROVE  Word
  <1>1. ~NumberPrefix /\ ~Zero /\ ~Decimal /\ ~Unexpected
    BY ClassesAre DEF NumberPrefix, Zero, Decimal, Unexpected
  <1>2. ~Digit /\ ~DigitsError /\ ~Underscore /\ ~DigitsEnd
    BY DEF Digit, DigitsError, Underscore, DigitsEnd, InDigits
  <1>3. ~Space /\ ~Tab /\ ~Crlf /\ ~NextLine /\ ~LineComment /\ ~BlockComment
    BY DEF Space, Tab, Crlf, NextLine, LineComment, BlockComment
  <1>4. ~LineCommentNext /\ ~LineCommentEnd /\ ~CommentError /\ ~Unclosed /\ ~BlockCommentNext
    BY DEF LineCommentNext, LineCommentEnd, InLineComment, CommentError, Unclosed,
           BlockCommentNext, InBlockComment
  <1>5. ~EndOfFile
    <2>1. cursor <= Len(source)
      <3>1. cursor + 0 <= Len(source)
        BY PeekIs
      <3> QED BY <3>1
    <2> QED BY <2>1 DEF EndOfFile, AtLimit
  <1>6. ~Symbol
    BY DEF Symbol, SymbolLength, SymbolX, SymbolXE, SymbolXXE
  <1> QED BY <1>1, <1>2, <1>3, <1>4, <1>5, <1>6 DEF Next

LEMMA AtEnd ==
    ASSUME Next, pc = "loop", AtLimit, cursor \in Nat, Len(source) \in Nat
    PROVE  EndOfFile
  <1>0. Peek(0) = "nul"
    <2>1. cursor + 0 > Len(source)
      BY DEF AtLimit
    <2> QED BY <2>1 DEF Peek
  <1>1. ~Word /\ ~NumberPrefix /\ ~Zero /\ ~Decimal /\ ~Unexpected
    BY <1>0, ClassesAre DEF Word, NumberPrefix, Zero, Decimal, Unexpected
  <1>2. ~Digit /\ ~DigitsError /\ ~Underscore /\ ~DigitsEnd
    BY DEF Digit, DigitsError, Underscore, DigitsEnd, InDigits
  <1>3. ~Space /\ ~Tab /\ ~Crlf /\ ~NextLine /\ ~LineComment /\ ~BlockComment
    BY <1>0 DEF Space, Tab, Crlf, NextLine, LineComment, BlockComment
  <1>4. ~LineCommentNext /\ ~LineCommentEnd /\ ~CommentError /\ ~Unclosed /\ ~BlockCommentNext
    BY DEF LineCommentNext, LineCommentEnd, InLineComment, CommentError, Unclosed,
           BlockCommentNext, InBlockComment
  <1>6. ~Symbol
    BY <1>0 DEF Symbol, SymbolLength, SymbolX, SymbolXE, SymbolXXE
  <1> QED BY <1>1, <1>2, <1>3, <1>4, <1>6 DEF Next

LEMMA InBlock ==
    ASSUME Next, pc = "block_comment", Peek(0) # "bad", ~AtLimit
    PROVE  BlockCommentNext
  <1>1. ~Word /\ ~NumberPrefix /\ ~Zero /\ ~Decimal /\ ~Unexpected /\ ~Symbol /\ ~EndOfFile
    BY DEF Word, NumberPrefix, Zero, Decimal, Unexpected, Symbol, EndOfFile, Top
  <1>2. ~Digit /\ ~DigitsError /\ ~Underscore /\ ~DigitsEnd
    BY DEF Digit, DigitsError, Underscore, DigitsEnd, InDigits
  <1>3. ~Space /\ ~Tab /\ ~Crlf /\ ~NextLine /\ ~LineComment /\ ~BlockComment
    BY DEF Space, Tab, Crlf, NextLine, LineComment, BlockComment, Top
  <1>4. ~LineCommentNext /\ ~LineCommentEnd /\ ~CommentError /\ ~Unclosed
    BY DEF LineCommentNext, LineCommentEnd, InLineComment, CommentError, Unclosed
  <1> QED BY <1>1, <1>2, <1>3, <1>4 DEF Next

LEMMA BadInBlock ==
    ASSUME Next, pc = "block_comment", Peek(0) = "bad", pc' # "error"
    PROVE  FALSE
  <1>1. ~Word /\ ~NumberPrefix /\ ~Zero /\ ~Decimal /\ ~Unexpected /\ ~Symbol /\ ~EndOfFile
    BY DEF Word, NumberPrefix, Zero, Decimal, Unexpected, Symbol, EndOfFile, Top
  <1>2. ~Digit /\ ~DigitsError /\ ~Underscore /\ ~DigitsEnd
    BY DEF Digit, DigitsError, Underscore, DigitsEnd, InDigits
  <1>3. ~Space /\ ~Tab /\ ~Crlf /\ ~NextLine /\ ~LineComment /\ ~BlockComment
    BY DEF Space, Tab, Crlf, NextLine, LineComment, BlockComment, Top
  <1>4. ~LineCommentNext /\ ~LineCommentEnd /\ ~CommentError /\ ~Unclosed
    BY DEF LineCommentNext, LineCommentEnd, InLineComment, CommentError, Unclosed, Exit
  <1>5. ~BlockCommentNext
    BY DEF BlockCommentNext
  <1> QED BY <1>1, <1>2, <1>3, <1>4, <1>5 DEF Next

(* A step goes on from there to the next of its places, or ends in error.  *)
LEMMA StepCourse ==
    ASSUME Types, Course, Next
    PROVE  Course'
  <1>0. source \in Seq(STRING) /\ cursor \in Nat /\ Len(source) \in Nat
    BY EndsInText DEF Types
  <1>1. source' = source
    BY EachStep DEF Steps, Leaves, Moves
  <1>2. CommentAndName(source)' = CommentAndName(source) /\ Len(source)' = Len(source)
    BY <1>1, SameText
  <1>3. CASE pc' = "error"
    BY <1>3 DEF Course
  <1>4. CASE ~CommentAndName(source)
    BY <1>2, <1>4 DEF Course
  <1>5. CASE pc' # "error" /\ CommentAndName(source)
    <2> DEFINE L == Len(source)
    <2>1. /\ L \in Nat /\ L >= 5
          /\ source[1] = "/" /\ source[2] = "*"
          /\ source[L - 2] = "*" /\ source[L - 1] = "/"
          /\ source[L] = "a"
          /\ \A k \in 3 .. L - 3 : source[k] \notin {"/", "*"}
      BY <1>0, <1>5, CommentAndNameIs
    <2>2. /\ pc \in {"loop", "line_comment", "block_comment", "digits"}
          /\ cursor' <= L + 1 /\ cursor' >= cursor /\ cursor' \in Nat
      <3>1. PICK n \in Nat, hows \in Seq(Hows) :
                Moves(n, hows) /\ (Keeps(n) \/ \E kind \in Kinds : Pushes(n, kind))
        BY <1>5, EachStep DEF Steps, Leaves
      <3>2. cursor' \in FirstCharacter .. L + 1 /\ cursor' >= cursor /\ cursor' \in Nat
        BY <3>1, MovesCounts
      <3>3. FirstCharacter \in Nat
        BY <1>0, EndsInText
      <3>4. pc \in {"loop", "line_comment", "block_comment", "digits"}
        <4>1. CASE Keeps(n)
          BY <4>1 DEF Keeps
        <4>2. CASE \E kind \in Kinds : Pushes(n, kind)
          BY <4>2 DEF Pushes
        <4> QED BY <3>1, <4>1, <4>2
      <3>5. cursor' <= L + 1
        BY <1>0, <3>2, <3>3
      <3> QED BY <3>2, <3>4, <3>5
    <2>p. Peek(0) = IF cursor > L THEN "nul" ELSE source[cursor]
      <3>1. cursor + 0 = cursor
        BY <1>0
      <3> QED BY <3>1 DEF Peek
    <2>q. Peek(1) = IF cursor + 1 > L THEN "nul" ELSE source[cursor + 1]
      BY DEF Peek
    <2>3. CASE pc = "loop" /\ cursor = 1
      <3>1. Peek(0) = "/" /\ Peek(1) = "*"
        BY <2>1, <2>3, <2>p, <2>q
      <3>2. BlockComment
        BY <1>0, <2>3, <3>1, AtComment
      <3>3. cursor' = cursor + 2 /\ pc' = "block_comment" /\ nesting' = 1
        BY <1>5, <3>2 DEF BlockComment, Consume, Exit
      <3>4. cursor' \in 3 .. L - 2
        BY <2>1, <2>3, <3>3
      <3> QED BY <1>2, <3>3, <3>4 DEF Course
    <2>4. CASE pc = "loop" /\ cursor = L
      <3>1. Peek(0) = "a"
        BY <2>1, <2>4, <2>p
      <3>2. Word
        BY <1>0, <2>4, <3>1, AtName
      <3>3. pc' = "loop"
        BY <1>5, <3>2 DEF Word, Consume, Exit, Push
      <3>4. cursor' \in {1, L, L + 1}
        BY <2>1, <2>2, <2>4
      <3> QED BY <1>2, <3>3, <3>4 DEF Course
    <2>5. CASE pc = "loop" /\ cursor = L + 1
      <3>1. EndOfFile
        BY <1>0, <2>5, AtEnd DEF AtLimit
      <3>2. pc' = "tokens"
        BY <3>1 DEF EndOfFile
      <3> QED BY <3>2 DEF Course
    <2>6. CASE pc = "block_comment"
      <3>1. cursor \in 3 .. L - 2 /\ nesting = 1
        BY <1>5, <2>6 DEF Course
      <3>2. ~AtLimit /\ cursor <= L /\ cursor + 1 <= L
        BY <2>1, <3>1 DEF AtLimit
      <3>3. Peek(0) = source[cursor] /\ Peek(1) = source[cursor + 1]
        BY <1>0, <2>1, <2>p, <2>q, <3>2
      <3>4. Peek(0) # "bad"
        <4>1. ~CommentError
          BY <1>5 DEF CommentError, Exit
        <4> QED BY <1>5, <2>6, <4>1, BadInBlock
      <3>5. BlockCommentNext
        BY <2>6, <3>2, <3>4, InBlock
      <3>6. CASE cursor = L - 2
        <4>1. cursor + 1 = L - 1 /\ cursor + 2 = L
          BY <2>1, <3>6
        <4>2. Peek(0) = "*" /\ Peek(1) = "/"
          BY <2>1, <3>3, <3>6, <4>1
        <4>3. cursor' = cursor + 2 /\ Nest(nesting - 1)
          BY <1>5, <3>5, <4>2 DEF BlockCommentNext, Consume, Exit
        <4>4. nesting - 1 = 0
          BY <3>1
        <4>5. pc' = "loop" /\ cursor' = L
          BY <4>1, <4>3, <4>4 DEF Nest
        <4> QED BY <1>2, <4>5 DEF Course
      <3>7. CASE cursor # L - 2
        <4>1. cursor \in 3 .. L - 3
          BY <2>1, <3>1, <3>7
        <4>2. Peek(0) \notin {"/", "*"}
          BY <2>1, <3>3, <4>1
        <4>3. /\ Inside
              /\ \/ cursor' = cursor + 1
                 \/ cursor' = cursor + 2 /\ Peek(1) = "\n"
          <5>1. CASE Peek(0) = "\r" /\ Peek(1) = "\n"
            BY <1>5, <3>5, <5>1 DEF BlockCommentNext, Consume, Exit
          <5>2. CASE \/ Peek(0) = "\n"
                     \/ Peek(0) = "\r" /\ Peek(1) # "\n"
            BY <1>5, <3>5, <5>2 DEF BlockCommentNext, Consume, Exit
          <5>3. CASE Peek(0) = "\t"
            BY <1>5, <3>5, <5>3 DEF BlockCommentNext, Consume, Exit
          <5>4. CASE Peek(0) \notin {"\r", "\n", "\t", "*", "/", "bad"}
            BY <1>5, <3>5, <5>4 DEF BlockCommentNext, Consume, Exit
          <5> QED BY <3>4, <4>2, <5>1, <5>2, <5>3, <5>4
        <4>4. pc' = "block_comment" /\ nesting' = 1
          BY <2>6, <3>1, <4>3 DEF Inside, locals
        <4>5. cursor' \in 3 .. L - 2
          <5>1. CASE cursor' = cursor + 1
            BY <2>1, <4>1, <5>1
          <5>2. CASE cursor' = cursor + 2 /\ Peek(1) = "\n"
            <6>1. cursor + 1 # L - 2
              BY <2>1, <3>3, <5>2
            <6> QED BY <2>1, <4>1, <5>2, <6>1
          <5> QED BY <4>3, <5>1, <5>2
        <4> QED BY <1>2, <4>4, <4>5 DEF Course
      <3> QED BY <3>6, <3>7
    <2> QED BY <1>5, <2>2, <2>3, <2>4, <2>5, <2>6 DEF Course
  <1> QED BY <1>3, <1>4, <1>5

-----------------------------------------------------------------------------
(* The lines.                                                              *)
LEMMA NoHalfCrlf ==
    ASSUME Types, Course, CrlfFree, NEW n, NEW hows
    PROVE  ~HalfCrlf(n, hows)
  <1>0. source \in Seq(STRING) /\ cursor \in Nat /\ Len(source) \in Nat
    BY EndsInText DEF Types
  <1>1. SUFFICES ASSUME pc = "loop", AtCrlf PROVE FALSE
    BY DEF HalfCrlf
  <1>2. CASE ~HasPair(source, "\r", "\n")
    <2>1. cursor \in 1 .. Len(source) - 1
      <3>1. cursor >= 1
        BY <1>0, EndsInText DEF Types
      <3> QED BY <1>0, <1>1, <3>1 DEF AtCrlf
    <2> QED BY <1>1, <1>2, <2>1 DEF AtCrlf, HasPair
  <1>3. CASE CommentAndName(source)
    <2>1. cursor \in {1, Len(source), Len(source) + 1}
      BY <1>1, <1>3 DEF Course
    <2>2. source[1] = "/"
      BY <1>0, <1>3, CommentAndNameIs
    <2>3. cursor < Len(source) /\ source[cursor] = "\r"
      BY <1>1 DEF AtCrlf
    <2> QED BY <1>0, <2>1, <2>2, <2>3
  <1> QED BY <1>2, <1>3 DEF CrlfFree

(* The line of the end of a line is that of what comes before on it.       *)
LEMMA ToTheEndLine ==
    ASSUME Types, NEW n \in Nat, ToTheEnd(n)
    PROVE  /\ LineOf(cursor + n) = LineOf(cursor) + 1
           /\ LineOf(cursor) < Cardinality(LineEnds) + 1
           /\ cursor + n \in LineStarts
  <1>0. source \in Seq(STRING) /\ cursor \in Nat /\ Len(source) \in Nat
    BY EndsInText DEF Types
  <1> DEFINE m == n - 1
             e == cursor + m
  <1>1. m \in Nat /\ cursor + n - 1 = e /\ e + 1 = cursor + n
        /\ cursor + n - 2 = cursor + m - 1
    BY <1>0 DEF ToTheEnd
  <1>2. e \in LineEnds
    BY <1>1 DEF ToTheEnd
  <1>3. \A k \in cursor .. cursor + m - 1 : k \notin LineEnds
    BY <1>1 DEF ToTheEnd
  <1> HIDE DEF m
  <1>4. LineOf(cursor + m) = LineOf(cursor)
    BY <1>0, <1>1, <1>3, SameLine
  <1> HIDE DEF e
  <1>5. LineOf(e) = LineOf(cursor)
    BY <1>4 DEF e
  <1>6. LineOf(e + 1) = LineOf(e) + 1
    BY <1>0, <1>2, LineAfter
  <1>7. LineOf(e) < Cardinality(LineEnds) + 1
    BY <1>0, <1>2, LastLine
  <1>8. e + 1 \in LineStarts
    BY <1>2 DEF LineStarts
  <1> QED BY <1>1, <1>5, <1>6, <1>7, <1>8

LEMMA PassedLines ==
    ASSUME Types, Course, CrlfFree, counts.line = LineOf(cursor),
           NEW n \in Nat, NEW hows, Passes(n, hows)
    PROVE  LET d == HandleAll(counts, hows) IN
           /\ d.limit = "none" => d.line = LineOf(cursor + n)
           /\ d.limit = "LineLimitExceeded" => TooManyLines
  <1> DEFINE d == HandleAll(counts, hows)
  <1>0. /\ source \in Seq(STRING) /\ cursor \in Nat /\ Len(source) \in Nat
        /\ counts \in Counters /\ counts.limit = "none"
    BY EndsInText DEF Types
  <1>1. CASE Evenly(n, hows)
    <2>1. CASE Within(n)
      <3>1. LineOf(cursor + n) = LineOf(cursor)
        BY <1>0, <2>1, SameLine DEF Within
      <3>2. ~ToTheEnd(n)
        <4>1. SUFFICES ASSUME ToTheEnd(n) PROVE FALSE
          OBVIOUS
        <4>2. cursor + n - 1 \in cursor .. cursor + n - 1
          BY <1>0, <4>1 DEF ToTheEnd
        <4> QED BY <2>1, <4>1, <4>2 DEF Within, ToTheEnd
      <3>3. (\E column \in Nat : Onward(counts, d, n, column)) \/ TooMany(counts, d, n)
        BY <1>1, <3>2, PassedEvenly
      <3> HIDE DEF d
      <3>4. (d.limit = "none" => d.line = counts.line) /\ d.limit # "LineLimitExceeded"
        BY <3>3 DEF Onward, TooMany
      <3> QED BY <3>1, <3>4 DEF d
    <2>2. CASE ToTheEnd(n)
      <3>1. CASE Within(n)
        BY <2>1, <3>1
      <3>2. CASE ~Within(n)
        <4>1. NextLineOn(counts, d, n) \/ TooMany(counts, d, n) \/ NoLineLeft(counts, d)
          BY <1>1, <3>2, PassedEvenly
        <4>2. /\ LineOf(cursor + n) = LineOf(cursor) + 1
              /\ LineOf(cursor) < Cardinality(LineEnds) + 1
          BY <2>2, ToTheEndLine
        <4> HIDE DEF d
        <4>3. d.limit = "none" => d.line = counts.line + 1
          BY <4>1 DEF NextLineOn, TooMany, NoLineLeft
        <4>4. d.limit = "LineLimitExceeded" => LineOf(cursor) + 1 > MAX_LINES_PER_FILE
          BY <4>1 DEF NextLineOn, TooMany, NoLineLeft
        <4>5. LineOf(cursor) + 1 > MAX_LINES_PER_FILE => TooManyLines
          <5>1. LineOf(cursor) \in Nat /\ Cardinality(LineEnds) \in Nat
                /\ MAX_LINES_PER_FILE \in Nat
            <6>1. cursor \in Int /\ IsFiniteSet(LineEnds)
              BY <1>0, EndsInText
            <6>2. LineOf(cursor) \in Nat
              BY <1>0, <6>1, EndsBefore
            <6> QED BY <6>1, <6>2, FS_CardinalityType, LexerAssumption
          <5> QED BY <4>2, <5>1 DEF TooManyLines
        <4> QED BY <4>2, <4>3, <4>4, <4>5 DEF d
      <3> QED BY <3>1, <3>2
    <2> QED BY <1>1, <2>1, <2>2, PassedEvenly
  <1>2. CASE Uncounted(n, hows)
    <2>1. n = 1 /\ hows = <<>> /\ source[cursor] \in {"*", "/"}
      BY <1>2 DEF Uncounted
    <2>2. d = counts
      BY <1>0, <2>1, HandleNone
    <2>3. \A k \in cursor .. cursor + 1 - 1 : k \notin LineEnds
      <3>1. cursor \notin LineEnds
        BY <2>1 DEF LineEnds
      <3> QED BY <1>0, <3>1
    <2>4. LineOf(cursor + 1) = LineOf(cursor)
      BY <1>0, <2>3, SameLine
    <2> HIDE DEF d
    <2> QED BY <1>0, <2>1, <2>2, <2>4 DEF d
  <1>3. ~HalfCrlf(n, hows)
    BY NoHalfCrlf
  <1> QED BY <1>1, <1>2, <1>3 DEF Passes

LEMMA StepLines ==
    ASSUME Types, Course, Lines, Steps
    PROVE  Lines'
  <1>0. source' = source /\ tokens \in Seq(TokenType)
    BY DEF Steps, Leaves, Moves, Types
  <1>1. CrlfFree' = CrlfFree /\ TooManyLines' = TooManyLines
        /\ \A i : LineOf(i)' = LineOf(i)
    BY <1>0, SameText
  <1>2. CASE ~CrlfFree
    BY <1>1, <1>2 DEF Lines
  <1>3. CASE CrlfFree
    <2>0. /\ counts.line = LineOf(cursor)
          /\ pc = "digits" => token_pos.line = LineOf(FirstDigit)
          /\ \A t \in Range(tokens) : t.pos.line = LineOf(t.first)
      BY <1>3 DEF Lines
    <2>1. CASE Leaves
      <3>1. /\ cursor' = cursor /\ counts' = counts /\ pc' = "error" /\ tokens' = <<>>
        BY <2>1 DEF Leaves
      <3>2. Range(tokens') = {}
        BY <3>1 DEF Range
      <3>3. error'.kind = "LineLimitExceeded" => TooManyLines
        <4>1. SUFFICES ASSUME error'.kind = "LineLimitExceeded" PROVE TooManyLines
          OBVIOUS
        <4>2. PICK n \in Nat, hows \in Seq(Hows) :
                  Passes(n, hows) /\ error'.kind = HandleAll(counts, hows).limit
          BY <2>1, <4>1 DEF Leaves, Limits
        <4> QED BY <1>3, <2>0, <4>1, <4>2, PassedLines
      <3>4. LineOf(cursor)' = LineOf(cursor)
        BY <1>1, <3>1
      <3> QED BY <1>1, <2>0, <3>1, <3>2, <3>3, <3>4 DEF Lines
    <2>2. ASSUME NEW n \in Nat, NEW hows \in Seq(Hows), Moves(n, hows),
                 Keeps(n) \/ \E kind \in Kinds : Pushes(n, kind)
          PROVE  Lines'
      <3>1. counts'.line = LineOf(cursor)'
        <4> DEFINE d == HandleAll(counts, hows)
        <4>1. counts' = d /\ cursor' = cursor + n /\ d.limit = "none" /\ Passes(n, hows)
          BY <2>2 DEF Moves
        <4>2. d.line = LineOf(cursor + n)
          BY <1>3, <2>0, <4>1, PassedLines
        <4> HIDE DEF d
        <4> QED BY <1>1, <4>1, <4>2
      <3>2. error' = error /\ (pc \in {"loop", "line_comment", "block_comment", "digits"}
                                   => error.kind = "none")
        BY <2>2 DEF Moves, Types
      <3>3. CASE Keeps(n)
        <4>1. tokens' = tokens /\ error'.kind = "none"
          BY <3>2, <3>3 DEF Keeps
        <4>2. pc' = "digits" => token_pos'.line = LineOf(FirstDigit)'
          <5>1. CASE pc = "digits" /\ UNCHANGED <<token_pos, base, digits_start>>
            <6>1. FirstDigit' = FirstDigit /\ token_pos' = token_pos
              BY <5>1 DEF FirstDigit
            <6> QED BY <1>1, <2>0, <5>1, <6>1
          <5>2. CASE token_pos' = CursorPos(counts) /\ FirstDigit' = cursor
            <6>1. token_pos'.line = counts.line
              BY <5>2 DEF CursorPos
            <6> QED BY <1>1, <2>0, <5>2, <6>1
          <5> QED BY <3>3, <5>1, <5>2 DEF Keeps
        <4> QED BY <1>1, <2>0, <3>1, <4>1, <4>2 DEF Lines
      <3>4. CASE \E kind \in Kinds : Pushes(n, kind)
        <4>1. PICK kind \in Kinds : Pushes(n, kind)
          BY <3>4
        <4>2. PICK t \in TokenType : /\ t.pos = TokenPos /\ t.first = TokenFirst
                                     /\ Range(tokens') = Range(tokens) \cup {t}
          BY <2>2, <4>1, Pushed
        <4>3. TokenPos.line = LineOf(TokenFirst)
          BY <2>0, <4>1 DEF Pushes, TokenPos, TokenFirst, CursorPos
        <4>4. pc' # "digits" /\ error'.kind = "none"
          BY <3>2, <4>1 DEF Pushes
        <4> QED BY <1>1, <2>0, <3>1, <4>2, <4>3, <4>4 DEF Lines
      <3> QED BY <2>2, <3>3, <3>4
    <2> QED BY <2>1, <2>2 DEF Steps
  <1> QED BY <1>2, <1>3

-----------------------------------------------------------------------------
(* The columns.                                                            *)
LEMMA NoUncounted ==
    ASSUME Types, Course, CountedAsWritten, NEW n, NEW hows
    PROVE  ~Uncounted(n, hows)
  <1>0. source \in Seq(STRING) /\ cursor \in Nat /\ Len(source) \in Nat
    BY EndsInText DEF Types
  <1>1. SUFFICES ASSUME Uncounted(n, hows) PROVE FALSE
    OBVIOUS
  <1>2. pc = "block_comment"
    BY <1>1 DEF Uncounted
  <1>3. HasPair(source, "/", "*")
    BY <1>2 DEF Types
  <1>4. CommentAndName(source)
    BY <1>3 DEF CountedAsWritten
  <1> DEFINE L == Len(source)
  <1>5. cursor \in 3 .. L - 2
    BY <1>2, <1>4 DEF Course
  <1>6. /\ L >= 5 /\ source[L - 2] = "*" /\ source[L - 1] = "/"
        /\ \A k \in 3 .. L - 3 : source[k] \notin {"/", "*"}
    BY <1>0, <1>4, CommentAndNameIs
  <1>7. source[cursor] \in {"*", "/"}
    BY <1>1 DEF Uncounted
  <1>8. cursor = L - 2
    <2>1. cursor \notin 3 .. L - 3
      BY <1>6, <1>7
    <2> QED BY <1>0, <1>5, <2>1
  <1>9. Peek(1) = "/"
    <2>1. cursor + 1 = L - 1 /\ ~(cursor + 1 > L)
      BY <1>0, <1>8
    <2> QED BY <1>6, <2>1 DEF Peek
  <1> QED BY <1>1, <1>6, <1>8, <1>9 DEF Uncounted

LEMMA CountedEvenly ==
    ASSUME Types, Course, CountedAsWritten, NEW n, NEW hows, Passes(n, hows)
    PROVE  Evenly(n, hows)
  <1>1. CrlfFree
    BY DEF CountedAsWritten, CrlfFree
  <1> QED BY <1>1, NoHalfCrlf, NoUncounted DEF Passes

LEMMA EndOfComment ==
    ASSUME Types, Course, CountedAsWritten, pc = "line_comment", cursor <= Len(source),
           source[cursor] \in {"\r", "\n"}
    PROVE  cursor \in LineEnds
  <1>0. /\ source \in Seq(STRING) /\ cursor \in Nat /\ Len(source) \in Nat
        /\ cursor \in 1 .. Len(source)
    BY EndsInText DEF Types
  <1>1. ~HasPair(source, "\r", "\n")
    BY DEF CountedAsWritten, Course
  <1>2. cursor < Len(source) /\ source[cursor] = "\r" => source[cursor + 1] # "\n"
    <2>1. cursor < Len(source) => cursor \in 1 .. Len(source) - 1
      BY <1>0
    <2> QED BY <1>1, <2>1 DEF HasPair
  <1> QED BY <1>0, <1>2 DEF LineEnds

(* Where a step within a line leads, and a step to its end.                *)
LEMMA WithinOrEnd ==
    ASSUME Types, NEW n \in Nat
    PROVE  /\ Within(n) => LineStart(cursor + n) = LineStart(cursor)
           /\ Within(n) /\ n >= 1 => cursor \notin LineEnds
           /\ Within(n) => ~ToTheEnd(n)
           /\ ToTheEnd(n) /\ cursor + n <= Len(source) + 1 =>
                 /\ ColumnOf(cursor + n) = 1
                 /\ LineStart(cursor + n) = cursor + n
                 /\ \A i \in cursor .. cursor + n - 1 : LineStart(i) = LineStart(cursor)
           /\ Within(n) =>
                 \A i \in cursor .. cursor + n - 1 : LineStart(i) = LineStart(cursor)
           /\ LineStart(cursor) \in FirstCharacter .. cursor
           /\ LineStart(cursor) \in LineStarts
  <1>0. /\ source \in Seq(STRING) /\ cursor \in Nat /\ Len(source) \in Nat
        /\ FirstCharacter \in Nat \ {0} /\ FirstCharacter <= cursor
        /\ cursor \in FirstCharacter .. Len(source) + 1
    BY EndsInText DEF Types
  <1>1. ASSUME Within(n) PROVE LineStart(cursor + n) = LineStart(cursor)
    BY <1>0, <1>1, SameLineStart DEF Within
  <1>2. ASSUME Within(n), n >= 1 PROVE cursor \notin LineEnds
    <2>1. cursor \in cursor .. cursor + n - 1
      BY <1>0, <1>2
    <2> QED BY <1>2, <2>1 DEF Within
  <1>3. ASSUME Within(n), ToTheEnd(n) PROVE FALSE
    <2>1. cursor + n - 1 \in cursor .. cursor + n - 1
      BY <1>0, <1>3 DEF ToTheEnd
    <2> QED BY <1>3, <2>1 DEF Within, ToTheEnd
  <1>4. ASSUME NEW i \in cursor .. cursor + n - 1,
               \A k \in cursor .. cursor + n - 2 : k \notin LineEnds
        PROVE  LineStart(i) = LineStart(cursor)
    <2> DEFINE m == i - cursor
    <2>1. m \in Nat /\ cursor + m = i /\ \A k \in cursor .. cursor + m - 1 :
                                             k \in cursor .. cursor + n - 2
      BY <1>0
    <2> HIDE DEF m
    <2>2. \A k \in cursor .. cursor + m - 1 : k \notin LineEnds
      BY <1>4, <2>1
    <2> QED BY <1>0, <2>1, <2>2, SameLineStart
  <1>5. ASSUME Within(n)
        PROVE  \A i \in cursor .. cursor + n - 1 : LineStart(i) = LineStart(cursor)
    <2>1. \A k \in cursor .. cursor + n - 2 : k \in cursor .. cursor + n - 1
      BY <1>0
    <2>2. \A k \in cursor .. cursor + n - 2 : k \notin LineEnds
      BY <1>5, <2>1 DEF Within
    <2> QED BY <1>4, <2>2
  <1>6. ASSUME ToTheEnd(n), cursor + n <= Len(source) + 1
        PROVE  /\ ColumnOf(cursor + n) = 1
               /\ LineStart(cursor + n) = cursor + n
               /\ \A i \in cursor .. cursor + n - 1 : LineStart(i) = LineStart(cursor)
    <2> DEFINE p == cursor + n
               e == cursor + n - 1
    <2>1. p \in LineStarts
      BY <1>6, ToTheEndLine
    <2>2. p \in FirstCharacter .. Len(source) + 1 /\ e + 1 = p
      BY <1>0, <1>6
    <2>3. e \in LineEnds
      BY <1>6 DEF ToTheEnd
    <2> HIDE DEF p, e
    <2>4. ColumnOf(p) = 1
      BY <1>0, <2>1, <2>2, ColumnOfIs
    <2>5. LineStart(p) = p
      BY <1>0, <2>2, <2>3, LineStartAfter
    <2>6. \A k \in cursor .. cursor + n - 2 : k \notin LineEnds
      BY <1>6 DEF ToTheEnd
    <2> QED BY <1>4, <2>4, <2>5, <2>6 DEF p
  <1>7. LineStart(cursor) \in FirstCharacter .. cursor /\ LineStart(cursor) \in LineStarts
    <2>1. /\ LineStart(cursor) \in LineStarts
          /\ LineStart(cursor) <= cursor
          /\ LineStarts \subseteq Nat
      BY <1>0, LineStartIs
    <2>2. \A k \in LineStarts : k >= FirstCharacter
      <3>1. ASSUME NEW k \in LineEnds PROVE k + 1 >= FirstCharacter
        BY <1>0, EndsInText
      <3> QED BY <1>0, <3>1 DEF LineStarts
    <2> DEFINE m == LineStart(cursor)
    <2>3. m \in LineStarts /\ m \in Nat /\ m >= FirstCharacter /\ m <= cursor
      BY <2>1, <2>2
    <2> HIDE DEF m
    <2>4. m \in FirstCharacter .. cursor
      BY <1>0, <2>3
    <2> QED BY <2>3, <2>4 DEF m
  <1> QED BY <1>1, <1>2, <1>3, <1>5, <1>6, <1>7

(* What is in the comment stays in it while the line goes on.              *)
LEMMA StillInComment ==
    ASSUME Types, NEW n \in Nat, Within(n)
    PROVE  /\ CommentBefore(cursor) => CommentBefore(cursor + n)
           /\ TabBefore(cursor) => TabBefore(cursor + n)
  <1>0. cursor \in Nat /\ LineStart(cursor + n) = LineStart(cursor)
        /\ LineStart(cursor) \in Int
    <2>1. source \in Seq(STRING) /\ FirstCharacter \in Nat /\ cursor \in Nat
      BY EndsInText DEF Types
    <2>2. LineStart(cursor) \in FirstCharacter .. cursor
      BY WithinOrEnd
    <2> QED BY <2>1, <2>2, WithinOrEnd
  <1>1. \A j \in LineStart(cursor) .. cursor - 2 : j \in LineStart(cursor) .. cursor + n - 2
    BY <1>0
  <1>2. \A j \in LineStart(cursor) .. cursor - 1 : j \in LineStart(cursor) .. cursor + n - 1
    BY <1>0
  <1> QED BY <1>0, <1>1, <1>2 DEF CommentBefore, TabBefore

LEMMA CommentTabSeen ==
    ASSUME Types, Within(1), CommentBefore(cursor), source[cursor] = "\t"
    PROVE  TabBefore(cursor + 1)
  <1>0. cursor \in Nat /\ LineStart(cursor + 1) = LineStart(cursor)
        /\ LineStart(cursor) \in Int /\ LineStart(cursor) <= cursor
    <2>1. source \in Seq(STRING) /\ FirstCharacter \in Nat /\ cursor \in Nat
      BY EndsInText DEF Types
    <2>2. LineStart(cursor) \in FirstCharacter .. cursor
      BY WithinOrEnd
    <2> QED BY <2>1, <2>2, WithinOrEnd
  <1>1. PICK j \in LineStart(cursor) .. cursor - 2 : source[j] = "/" /\ source[j + 1] = "/"
    BY DEF CommentBefore
  <1>2. j \in LineStart(cursor) .. cursor + 1 - 1 /\ cursor \in LineStart(cursor) .. cursor + 1 - 1
        /\ j < cursor
    BY <1>0
  <1> QED BY <1>0, <1>1, <1>2 DEF TabBefore

LEMMA SameBefore ==
    ASSUME source' = source
    PROVE  /\ \A i : CommentBefore(i)' = CommentBefore(i)
           /\ \A i : TabBefore(i)' = TabBefore(i)
  <1>1. \A i : LineStart(i)' = LineStart(i)
    BY SameText
  <1>2. ASSUME NEW CONSTANT i PROVE CommentBefore(i)' = CommentBefore(i)
    BY <1>1 DEF CommentBefore
  <1>3. ASSUME NEW CONSTANT i PROVE TabBefore(i)' = TabBefore(i)
    BY <1>1 DEF TabBefore
  <1> QED BY <1>2, <1>3

LEMMA PassedColumns ==
    ASSUME Types, NEW n \in Nat, NEW hows, Evenly(n, hows),
           HandleAll(counts, hows).limit = "none"
    PROVE  LET d == HandleAll(counts, hows) IN
           \/ ToTheEnd(n) /\ d.column = ColumnOf(cursor + n)
           \/ /\ Within(n)
              /\ counts.column = ColumnOf(cursor) /\ ~CommentTab(n, hows)
                     => d.column = ColumnOf(cursor + n)
  <1> DEFINE d == HandleAll(counts, hows)
  <1>1. ~TooMany(counts, d, n) /\ ~NoLineLeft(counts, d)
    BY DEF TooMany, NoLineLeft
  <1>2. cursor + n <= Len(source) + 1
    BY PassedEvenly
  <1>3. \/ /\ Within(n)
           /\ \E column \in Nat :
                 /\ Onward(counts, d, n, column)
                 /\ counts.column = ColumnOf(cursor) /\ ~CommentTab(n, hows)
                        => column = ColumnOf(cursor + n)
        \/ ToTheEnd(n) /\ NextLineOn(counts, d, n)
    BY <1>1, PassedEvenly
  <1> HIDE DEF d
  <1>4. CASE /\ Within(n)
             /\ \E column \in Nat :
                   /\ Onward(counts, d, n, column)
                   /\ counts.column = ColumnOf(cursor) /\ ~CommentTab(n, hows)
                          => column = ColumnOf(cursor + n)
    BY <1>4 DEF Onward, d
  <1>5. CASE ToTheEnd(n) /\ NextLineOn(counts, d, n)
    <2>1. d.column = 1
      BY <1>5 DEF NextLineOn
    <2> QED BY <1>2, <1>5, <2>1, WithinOrEnd DEF d
  <1> QED BY <1>3, <1>4, <1>5

LEMMA StepColumns ==
    ASSUME Types, Course, Columns, Steps
    PROVE  Columns'
  <1>0. /\ source' = source /\ source \in Seq(STRING) /\ Len(source) \in Nat
        /\ cursor \in Nat /\ cursor <= Len(source) + 1
    BY EndsInText DEF Steps, Leaves, Moves, Types
  <1>1. /\ CountedAsWritten' = CountedAsWritten
        /\ TabInLastComment' = TabInLastComment
        /\ \A i : ColumnOf(i)' = ColumnOf(i)
        /\ LineEnds' = LineEnds
    BY <1>0, SameText
  <1>b. /\ \A i : CommentBefore(i)' = CommentBefore(i)
        /\ \A i : TabBefore(i)' = TabBefore(i)
    BY <1>0, SameBefore
  <1>2. CASE ~CountedAsWritten
    BY <1>1, <1>2 DEF Columns
  <1>3. CASE CountedAsWritten
    <2>0. /\ \/ counts.column = ColumnOf(cursor)
             \/ /\ TabBefore(cursor)
                /\ pc = "loop" => AtLimit \/ cursor \in LineEnds
                /\ pc # "digits" /\ pc # "block_comment"
          /\ pc = "line_comment" => CommentBefore(cursor)
          /\ pc = "digits" => token_pos.column = ColumnOf(FirstDigit)
          /\ \A t \in Range(tokens) : \/ t.pos.column = ColumnOf(t.first)
                                      \/ t.kind = EndOfFileKind /\ TabInLastComment
      BY <1>3 DEF Columns
    <2>1. CASE Leaves
      <3>1. cursor' = cursor /\ counts' = counts /\ pc' = "error" /\ tokens' = <<>>
        BY <2>1 DEF Leaves
      <3>2. Range(tokens') = {}
        BY <3>1 DEF Range
      <3>3. counts'.column = ColumnOf(cursor)' \/ TabBefore(cursor)'
        <4>1. CASE counts.column = ColumnOf(cursor)
          BY <1>1, <3>1, <4>1
        <4>2. CASE TabBefore(cursor)
          BY <1>b, <3>1, <4>2
        <4> QED BY <2>0, <4>1, <4>2
      <3> QED BY <3>1, <3>2, <3>3 DEF Columns
    <2>2. ASSUME NEW n \in Nat, NEW hows \in Seq(Hows), Moves(n, hows),
                 Keeps(n) \/ \E kind \in Kinds : Pushes(n, kind)
          PROVE  Columns'
      <3> DEFINE d == HandleAll(counts, hows)
      <3>1. counts' = d /\ cursor' = cursor + n /\ d.limit = "none" /\ Passes(n, hows)
        BY <2>2 DEF Moves
      <3>2. Evenly(n, hows) /\ cursor + n <= Len(source) + 1
        BY <1>3, <3>1, CountedEvenly, PassedEvenly
      <3>3. \/ ToTheEnd(n) /\ d.column = ColumnOf(cursor + n)
            \/ /\ Within(n)
               /\ counts.column = ColumnOf(cursor) /\ ~CommentTab(n, hows)
                      => d.column = ColumnOf(cursor + n)
        BY <3>1, <3>2, PassedColumns
      <3> HIDE DEF d
      <3>4. /\ Within(n) /\ n >= 1 => cursor \notin LineEnds
            /\ Within(n) => ~ToTheEnd(n)
            /\ Within(n) /\ CommentBefore(cursor) => CommentBefore(cursor + n)
            /\ Within(n) /\ TabBefore(cursor) => TabBefore(cursor + n)
        BY WithinOrEnd, StillInComment
      <3>5. ToTheEnd(n) => n >= 1 /\ cursor + n - 1 \in LineEnds
        BY DEF ToTheEnd
      <3>l. AtLimit => n = 0
        BY <1>0, <3>2 DEF AtLimit
      <3>6. CASE Keeps(n)
        <4>1. tokens' = tokens /\ pc' \in {"loop", "line_comment", "block_comment", "digits"}
          BY <3>6 DEF Keeps
        <4>2. \/ counts'.column = ColumnOf(cursor')
              \/ /\ TabBefore(cursor')
                 /\ pc' = "loop" => AtLimit' \/ cursor' \in LineEnds
                 /\ pc' # "digits" /\ pc' # "block_comment"
          <5>1. CASE ToTheEnd(n)
            BY <3>1, <3>3, <3>4, <5>1
          <5>2. CASE Within(n) /\ CommentTab(n, hows)
            <6>1. n = 1 /\ pc = "line_comment" /\ source[cursor] = "\t"
              BY <5>2 DEF CommentTab
            <6>2. pc' = "line_comment"
              BY <3>6, <6>1 DEF Keeps
            <6>3. TabBefore(cursor + 1)
              BY <2>0, <5>2, <6>1, CommentTabSeen
            <6> QED BY <3>1, <6>1, <6>2, <6>3
          <5>3. CASE Within(n) /\ ~CommentTab(n, hows) /\ counts.column = ColumnOf(cursor)
            BY <3>1, <3>3, <3>4, <5>3
          <5>4. CASE Within(n) /\ counts.column # ColumnOf(cursor)
            <6>1. TabBefore(cursor') /\ pc \in {"loop", "line_comment"}
              <7>1. TabBefore(cursor + n)
                BY <2>0, <3>4, <5>4
              <7> QED BY <2>0, <3>1, <3>6, <5>4, <7>1 DEF Keeps
            <6>2. pc # "loop"
              <7>1. SUFFICES ASSUME pc = "loop" PROVE FALSE
                OBVIOUS
              <7>2. AtLimit \/ cursor \in LineEnds
                BY <2>0, <5>4, <7>1
              <7>3. n = 0
                BY <3>4, <3>l, <5>4, <7>2
              <7> QED BY <3>6, <7>1, <7>2, <7>3 DEF Keeps
            <6>3. CASE pc' = "line_comment"
              BY <6>1, <6>3
            <6>4. CASE pc' = "loop"
              <7>1. n = 0 /\ (AtLimit \/ source[cursor] \in {"\r", "\n"})
                BY <3>6, <6>1, <6>2, <6>4 DEF Keeps
              <7>2. cursor' = cursor /\ (AtLimit' <=> AtLimit)
                BY <1>0, <3>1, <7>1 DEF AtLimit
              <7>3. CASE ~AtLimit
                <8>1. cursor <= Len(source)
                  BY <1>0, <7>3 DEF AtLimit
                <8>2. cursor \in LineEnds
                  BY <1>3, <6>1, <6>2, <7>1, <7>3, <8>1, EndOfComment
                <8> QED BY <6>1, <6>4, <7>2, <8>2
              <7> QED BY <6>1, <6>4, <7>2, <7>3
            <6> QED BY <3>6, <6>1, <6>2, <6>3, <6>4 DEF Keeps
          <5> QED BY <3>3, <5>1, <5>2, <5>3, <5>4
        <4>3. pc' = "line_comment" => CommentBefore(cursor')
          <5>1. CASE pc' = "line_comment" /\ pc = "line_comment"
            <6>1. n = 1 /\ cursor \notin LineEnds
              BY <3>6, <5>1 DEF Keeps
            <6>2. Within(n)
              <7>1. cursor + n - 1 = cursor
                BY <1>0, <6>1
              <7> QED BY <3>3, <3>5, <6>1, <7>1
            <6> QED BY <2>0, <3>1, <3>4, <5>1, <6>2
          <5>2. CASE pc' = "line_comment" /\ pc = "loop"
            <6>1. n = 2 /\ source[cursor] = "/" /\ source[cursor + 1] = "/"
              BY <3>6, <5>2 DEF Keeps
            <6>2. Within(n)
              <7>1. cursor + n - 1 = cursor + 1 /\ cursor + 1 \notin LineEnds
                BY <1>0, <6>1 DEF LineEnds
              <7> QED BY <3>3, <3>5, <7>1
            <6>3. /\ LineStart(cursor + n) = LineStart(cursor)
                  /\ LineStart(cursor) \in Int /\ LineStart(cursor) <= cursor
              <7>1. FirstCharacter \in Nat /\ LineStart(cursor) \in FirstCharacter .. cursor
                BY <1>0, EndsInText, WithinOrEnd
              <7> QED BY <1>0, <6>2, <7>1, WithinOrEnd
            <6>4. cursor \in LineStart(cursor + n) .. cursor + n - 2
              BY <1>0, <6>1, <6>3
            <6> QED BY <3>1, <6>1, <6>4 DEF CommentBefore
          <5> QED BY <3>6, <5>1, <5>2 DEF Keeps
        <4>4. pc' = "digits" => token_pos'.column = ColumnOf(FirstDigit')
          <5>1. CASE pc = "digits" /\ UNCHANGED <<token_pos, base, digits_start>>
            <6>1. FirstDigit' = FirstDigit
              BY <5>1 DEF FirstDigit
            <6> QED BY <2>0, <5>1, <6>1
          <5>2. CASE /\ pc = "loop" /\ token_pos' = CursorPos(counts)
                     /\ FirstDigit' = cursor /\ ~AtLimit /\ cursor \notin LineEnds
            <6>1. token_pos'.column = counts.column
              BY <5>2 DEF CursorPos
            <6> QED BY <2>0, <5>2, <6>1
          <5> QED BY <3>6, <5>1, <5>2 DEF Keeps
        <4>5. /\ \/ counts'.column = ColumnOf(cursor)'
                 \/ /\ TabBefore(cursor)'
                    /\ pc' = "loop" => AtLimit' \/ cursor' \in LineEnds'
                    /\ pc' # "digits" /\ pc' # "block_comment"
              /\ pc' = "line_comment" => CommentBefore(cursor)'
              /\ pc' = "digits" => token_pos'.column = ColumnOf(FirstDigit)'
          BY <1>1, <1>b, <4>2, <4>3, <4>4
        <4>6. \A t \in Range(tokens) : \/ t.pos.column = ColumnOf(t.first)'
                                       \/ t.kind = EndOfFileKind /\ TabInLastComment'
          BY <1>1, <2>0
        <4> QED BY <4>1, <4>5, <4>6 DEF Columns
      <3>7. CASE \E kind \in Kinds : Pushes(n, kind)
        <4>1. PICK kind \in Kinds : Pushes(n, kind)
          BY <3>7
        <4>2. PICK t \in TokenType : /\ t.kind = kind /\ t.pos = TokenPos
                                     /\ t.first = TokenFirst
                                     /\ Range(tokens') = Range(tokens) \cup {t}
          BY <2>2, <4>1, Pushed
        <4>3. kind # EndOfFileKind /\ pc = "loop" => counts.column = ColumnOf(cursor)
          BY <2>0, <3>l, <4>1 DEF Pushes
        <4>4. \/ t.pos.column = ColumnOf(t.first)
              \/ t.kind = EndOfFileKind /\ TabInLastComment
          <5>1. CASE pc = "digits"
            BY <2>0, <4>2, <5>1 DEF TokenPos, TokenFirst
          <5>2. CASE pc = "loop"
            <6>1. t.pos.column = counts.column /\ t.first = cursor
              BY <4>2, <5>2 DEF TokenPos, TokenFirst, CursorPos
            <6>2. CASE counts.column = ColumnOf(cursor)
              BY <6>1, <6>2
            <6>3. CASE counts.column # ColumnOf(cursor)
              <7>1. kind = EndOfFileKind /\ TabBefore(cursor)
                BY <2>0, <4>3, <5>2, <6>3
              <7>2. cursor = Len(source) + 1
                BY <4>1, <7>1 DEF Pushes, AtLimit
              <7>3. TabBefore(cursor) => TabInLastComment
                <8>1. cursor - 1 = Len(source)
                  BY <1>0, <7>2
                <8> QED BY <7>2, <8>1 DEF TabBefore, TabInLastComment
              <7> QED BY <4>2, <7>1, <7>3
            <6> QED BY <6>2, <6>3
          <5> QED BY <4>1, <5>1, <5>2 DEF Pushes
        <4>5. \/ counts'.column = ColumnOf(cursor')
              \/ TabBefore(cursor') /\ pc' = "tokens"
          <5>1. CASE ToTheEnd(n)
            BY <3>1, <3>3, <3>4, <5>1
          <5>2. CASE Within(n) /\ counts.column = ColumnOf(cursor)
            <6>1. ~CommentTab(n, hows)
              BY <4>1 DEF Pushes, CommentTab
            <6> QED BY <3>1, <3>3, <3>4, <5>2, <6>1
          <5>3. CASE Within(n) /\ counts.column # ColumnOf(cursor)
            <6>1. TabBefore(cursor + n)
              BY <2>0, <3>4, <5>3
            <6>2. kind = EndOfFileKind
              BY <2>0, <4>1, <4>3, <5>3 DEF Pushes
            <6> QED BY <3>1, <4>1, <6>1, <6>2 DEF Pushes
          <5> QED BY <3>3, <5>1, <5>2, <5>3
        <4>6. pc' \in {"loop", "tokens"}
          BY <4>1 DEF Pushes
        <4>7. /\ \/ counts'.column = ColumnOf(cursor)'
                 \/ TabBefore(cursor)' /\ pc' = "tokens"
              /\ \A u \in Range(tokens') : \/ u.pos.column = ColumnOf(u.first)'
                                           \/ u.kind = EndOfFileKind /\ TabInLastComment'
          BY <1>1, <1>b, <2>0, <4>2, <4>4, <4>5
        <4> QED BY <4>6, <4>7 DEF Columns
      <3> QED BY <2>2, <3>6, <3>7
    <2> QED BY <2>1, <2>2 DEF Steps
  <1> QED BY <1>2, <1>3

-----------------------------------------------------------------------------
(* The characters.  What a step passes by fits into its line.              *)
LEMMA PassedFit ==
    ASSUME Types, NEW n \in Nat, Within(n) \/ ToTheEnd(n), Room(counts, n),
           counts.characters_in_line >= cursor - LineStart(cursor)
    PROVE  \A i \in cursor .. cursor + n - 1 : Fits(i)
  <1>0. /\ cursor \in Nat /\ FirstCharacter \in Nat /\ counts.characters_in_line \in Nat
        /\ LineStart(cursor) \in FirstCharacter .. cursor
        /\ \A i \in cursor .. cursor + n - 1 : LineStart(i) = LineStart(cursor)
    <2>1. source \in Seq(STRING) /\ cursor \in Nat /\ counts \in Counters
          /\ Len(source) \in Nat
      BY EndsInText DEF Types
    <2>2. \A i \in cursor .. cursor + n - 1 : LineStart(i) = LineStart(cursor)
      <3>1. CASE Within(n)
        BY <3>1, WithinOrEnd
      <3>2. CASE ToTheEnd(n)
        <4>1. cursor + n <= Len(source) + 1
          <5>1. cursor + n - 1 \in LineEnds /\ LineEnds \subseteq FirstCharacter .. Len(source)
                /\ FirstCharacter \in Nat
            BY <2>1, <3>2, EndsInText DEF ToTheEnd
          <5>2. cursor + n - 1 <= Len(source)
            BY <2>1, <5>1
          <5> QED BY <2>1, <5>2
        <4> QED BY <3>2, <4>1, WithinOrEnd
      <3> QED BY <3>1, <3>2
    <2> QED BY <2>1, <2>2, EndsInText, FieldTypes, WithinOrEnd
  <1>1. MAX_CHARACTERS_PER_LINE \in Nat
    BY LexerAssumption
  <1> SUFFICES ASSUME NEW i \in cursor .. cursor + n - 1 PROVE Fits(i)
    OBVIOUS
  <1>2. LineStart(i) = LineStart(cursor)
    BY <1>0
  <1> DEFINE s == LineStart(cursor)
             j == i - cursor + 1
  <1>3. j \in 1 .. n
    BY <1>0
  <1>4. counts.characters_in_line + j <= MAX_CHARACTERS_PER_LINE
    BY <1>3 DEF Room
  <1>5. s \in Nat /\ s <= cursor
    BY <1>0
  <1> HIDE DEF s
  <1>6. i - s + 1 <= MAX_CHARACTERS_PER_LINE
    <2>1. counts.characters_in_line >= cursor - s
      BY DEF s
    <2> QED BY <1>0, <1>1, <1>4, <1>5, <2>1
  <1> QED BY <1>2, <1>6 DEF Fits, s

(* What is too much for the counters is too much for the file.             *)
LEMMA TooManyIs ==
    ASSUME Types, NEW n \in Nat, Within(n) \/ ToTheEnd(n), NEW d, TooMany(counts, d, n),
           cursor + n <= Len(source) + 1, counts.total_characters = cursor - 1
    PROVE  /\ d.limit = "CharacterLimitExceeded" => TooManyCharacters
           /\ d.limit = "ColumnLimitExceeded" /\ InLine => LineTooLong
  <1>0. /\ source \in Seq(STRING) /\ Len(source) \in Nat
        /\ cursor \in Nat /\ FirstCharacter \in Nat /\ counts.characters_in_line \in Nat
        /\ LineStart(cursor) \in FirstCharacter .. cursor /\ LineStart(cursor) \in LineStarts
        /\ \A i \in cursor .. cursor + n - 1 : LineStart(i) = LineStart(cursor)
    <2>1. source \in Seq(STRING) /\ cursor \in Nat /\ counts \in Counters
          /\ Len(source) \in Nat
      BY EndsInText DEF Types
    <2>2. \A i \in cursor .. cursor + n - 1 : LineStart(i) = LineStart(cursor)
      BY WithinOrEnd
    <2> QED BY <2>1, <2>2, EndsInText, FieldTypes, WithinOrEnd
  <1>1. MAX_CHARACTERS_PER_LINE \in Nat /\ MAX_CHARACTERS_PER_FILE \in Nat
    BY LexerAssumption
  <1>2. ASSUME d.limit = "CharacterLimitExceeded" PROVE TooManyCharacters
    <2>1. PICK j \in 1 .. n : counts.total_characters + j > MAX_CHARACTERS_PER_FILE
      BY <1>2 DEF TooMany
    <2>2. cursor - 1 + j > MAX_CHARACTERS_PER_FILE
      BY <2>1
    <2> QED BY <1>0, <1>1, <2>2 DEF TooManyCharacters
  <1>3. ASSUME d.limit = "ColumnLimitExceeded", InLine PROVE LineTooLong
    <2>1. PICK j \in 1 .. n : counts.characters_in_line + j > MAX_CHARACTERS_PER_LINE
      BY <1>3 DEF TooMany
    <2> DEFINE s == LineStart(cursor)
               i == cursor + (j - 1)
    <2>2. s \in Nat /\ s <= cursor /\ s \in LineStarts /\ counts.characters_in_line = cursor - s
      BY <1>0, <1>3 DEF InLine
    <2>3. LineStart(i) = s
      <3>1. i \in cursor .. cursor + n - 1
        BY <1>0
      <3> HIDE DEF i
      <3> QED BY <1>0, <3>1
    <2> HIDE DEF s
    <2>4. i \in s .. Len(source)
      BY <1>0, <2>2
    <2>5. i - s + 1 > MAX_CHARACTERS_PER_LINE
      BY <1>0, <1>1, <2>1, <2>2
    <2> HIDE DEF i
    <2> QED BY <2>2, <2>3, <2>4, <2>5 DEF LineTooLong
  <1> QED BY <1>2, <1>3

LEMMA StepCharacters ==
    ASSUME Types, Course, Characters, Steps
    PROVE  Characters'
  <1>0. /\ source' = source /\ source \in Seq(STRING) /\ Len(source) \in Nat
        /\ cursor \in Nat /\ cursor <= Len(source) + 1
        /\ FirstCharacter \in Nat /\ counts \in Counters
        /\ counts.characters_in_line \in Nat /\ counts.total_characters \in Nat
    BY EndsInText, FieldTypes DEF Steps, Leaves, Moves, Types
  <1>1. /\ CountedAsWritten' = CountedAsWritten
        /\ TooManyCharacters' = TooManyCharacters
        /\ LineTooLong' = LineTooLong
        /\ \A i : LineStart(i)' = LineStart(i)
        /\ \A i : Fits(i)' = Fits(i)
        /\ FirstCharacter' = FirstCharacter
    BY <1>0, SameText
  <1>2. CASE ~CountedAsWritten
    BY <1>1, <1>2 DEF Characters
  <1>3. CASE CountedAsWritten
    <2>0. /\ counts.total_characters = cursor - 1
          /\ counts.characters_in_line >= cursor - LineStart(cursor)
          /\ InLine \/ FromResidue
          /\ \A i \in FirstCharacter .. cursor - 1 : Fits(i)
      BY <1>3 DEF Characters
    <2>1. CASE Leaves
      <3>1. cursor' = cursor /\ counts' = counts
        BY <2>1 DEF Leaves
      <3>2. /\ LineStart(cursor)' = LineStart(cursor)
            /\ InLine' = InLine /\ FromResidue' = FromResidue
        BY <1>1, <3>1 DEF InLine, FromResidue
      <3>3. /\ error'.kind = "CharacterLimitExceeded" => TooManyCharacters
            /\ error'.kind = "ColumnLimitExceeded" => LineTooLong \/ FromResidue
        <4>1. SUFFICES ASSUME error'.kind \in {"CharacterLimitExceeded", "ColumnLimitExceeded"}
                       PROVE  /\ error'.kind = "CharacterLimitExceeded" => TooManyCharacters
                              /\ error'.kind = "ColumnLimitExceeded" =>
                                     LineTooLong \/ FromResidue
          OBVIOUS
        <4>2. PICK n \in Nat, hows \in Seq(Hows) :
                  Passes(n, hows) /\ error'.kind = HandleAll(counts, hows).limit
          BY <2>1, <4>1 DEF Leaves, Limits
        <4> DEFINE d == HandleAll(counts, hows)
        <4>3. Evenly(n, hows)
          BY <1>3, <4>2, CountedEvenly
        <4>4. /\ cursor + n <= Len(source) + 1
              /\ Within(n) \/ ToTheEnd(n)
              /\ TooMany(counts, d, n)
          <5>1. /\ d.limit # "none" /\ ~NoLineLeft(counts, d)
            BY <4>1, <4>2 DEF NoLineLeft
          <5>2. ~NextLineOn(counts, d, n) /\ ~(\E column \in Nat : Onward(counts, d, n, column))
            BY <5>1 DEF NextLineOn, Onward
          <5> QED BY <4>3, <5>1, <5>2, PassedEvenly
        <4>5. error'.kind = d.limit
          BY <4>2
        <4> HIDE DEF d
        <4>6. /\ d.limit = "CharacterLimitExceeded" => TooManyCharacters
              /\ d.limit = "ColumnLimitExceeded" /\ InLine => LineTooLong
          BY <2>0, <4>4, TooManyIs
        <4> QED BY <2>0, <4>5, <4>6
      <3>4. \A i \in FirstCharacter .. cursor - 1 : Fits(i)'
        BY <1>1, <2>0
      <3> QED BY <1>1, <2>0, <3>1, <3>2, <3>3, <3>4 DEF Characters
    <2>2. ASSUME NEW n \in Nat, NEW hows \in Seq(Hows), Moves(n, hows),
                 Keeps(n) \/ \E kind \in Kinds : Pushes(n, kind)
          PROVE  Characters'
      <3> DEFINE d == HandleAll(counts, hows)
      <3>1. counts' = d /\ cursor' = cursor + n /\ d.limit = "none" /\ Passes(n, hows)
        BY <2>2 DEF Moves
      <3>2. Evenly(n, hows) /\ cursor + n <= Len(source) + 1
        BY <1>3, <3>1, CountedEvenly, PassedEvenly
      <3>3. \/ Within(n) /\ \E column \in Nat : Onward(counts, d, n, column)
            \/ ToTheEnd(n) /\ NextLineOn(counts, d, n)
        <4>1. ~TooMany(counts, d, n) /\ ~NoLineLeft(counts, d)
          BY <3>1 DEF TooMany, NoLineLeft
        <4> QED BY <3>2, <4>1, PassedEvenly
      <3> HIDE DEF d
      <3>4. Room(counts, n) /\ d.total_characters = counts.total_characters + n
        BY <3>3 DEF Onward, NextLineOn
      <3>5. counts'.total_characters = cursor' - 1
        <4>1. \A c, m \in Nat : \A t : t = c - 1 => t + m = (c + m) - 1
          OBVIOUS
        <4>2. counts'.total_characters = counts.total_characters + n
          BY <3>1, <3>4
        <4>3. counts.total_characters + n = (cursor + n) - 1
          BY <1>0, <2>0, <4>1
        <4>4. cursor' = cursor + n
          BY <3>1
        <4> QED BY <4>2, <4>3, <4>4
      <3>6. \A i \in FirstCharacter .. cursor + n - 1 : Fits(i)
        <4>1. \A i \in cursor .. cursor + n - 1 : Fits(i)
          BY <2>0, <3>3, <3>4, PassedFit
        <4>2. \A i \in FirstCharacter .. cursor + n - 1 :
                  i \in FirstCharacter .. cursor - 1 \/ i \in cursor .. cursor + n - 1
          BY <1>0
        <4> QED BY <2>0, <4>1, <4>2
      <3>7. /\ counts'.characters_in_line >= cursor' - LineStart(cursor')
            /\ \/ counts'.characters_in_line = cursor' - LineStart(cursor')
               \/ counts'.line = 1 /\ counts'.characters_in_line # cursor' - FirstCharacter
        <4>1. CASE Within(n) /\ \E column \in Nat : Onward(counts, d, n, column)
          <5>1. d.line = counts.line /\ d.characters_in_line = counts.characters_in_line + n
            BY <4>1 DEF Onward
          <5> DEFINE s == LineStart(cursor)
          <5>2. LineStart(cursor + n) = s /\ s \in Nat
            <6>1. s \in FirstCharacter .. cursor
              BY WithinOrEnd
            <6> QED BY <1>0, <4>1, <6>1, WithinOrEnd
          <5>3. counts.characters_in_line >= cursor - s
            BY <2>0
          <5>4. \/ counts.characters_in_line = cursor - s
                \/ counts.line = 1 /\ counts.characters_in_line # cursor - FirstCharacter
            BY <2>0 DEF InLine, FromResidue
          <5> HIDE DEF s
          <5>5. counts.characters_in_line + n >= (cursor + n) - s
            BY <1>0, <5>2, <5>3
          <5>6. CASE counts.characters_in_line = cursor - s
            <6>1. counts.characters_in_line + n = (cursor + n) - s
              BY <1>0, <5>2, <5>6
            <6> QED BY <3>1, <5>1, <5>2, <5>5, <6>1
          <5>7. CASE counts.line = 1 /\ counts.characters_in_line # cursor - FirstCharacter
            <6>1. counts.characters_in_line + n # (cursor + n) - FirstCharacter
              BY <1>0, <5>7
            <6> QED BY <3>1, <5>1, <5>2, <5>5, <5>7, <6>1
          <5> QED BY <5>4, <5>6, <5>7
        <4>2. CASE ToTheEnd(n) /\ NextLineOn(counts, d, n)
          <5>1. d.characters_in_line = 0
            BY <4>2 DEF NextLineOn
          <5>2. LineStart(cursor + n) = cursor + n
            BY <3>2, <4>2, WithinOrEnd
          <5>3. cursor + n \in Nat
            BY <1>0
          <5> QED BY <3>1, <5>1, <5>2, <5>3
        <4> QED BY <3>3, <4>1, <4>2
      <3>8. error'.kind = "none"
        <4>1. error' = error /\ pc # "error"
          BY <2>2 DEF Moves, Keeps, Pushes
        <4> QED BY <4>1 DEF Types
      <3>9. /\ counts'.characters_in_line >= cursor' - LineStart(cursor)'
            /\ InLine' \/ FromResidue'
            /\ \A i \in FirstCharacter' .. cursor' - 1 : Fits(i)'
        <4>1. LineStart(cursor)' = LineStart(cursor')
          BY <1>1
        <4>2. \A i \in FirstCharacter' .. cursor' - 1 : Fits(i)'
          <5>1. FirstCharacter' = FirstCharacter /\ cursor' = cursor + n
            BY <1>1, <3>1
          <5>2. FirstCharacter' .. cursor' - 1 = FirstCharacter .. (cursor + n) - 1
            BY <5>1
          <5>3. (cursor + n) - 1 = cursor + n - 1
            BY <1>0
          <5> QED BY <1>1, <3>6, <5>2, <5>3
        <4> QED BY <1>1, <3>7, <4>1, <4>2 DEF InLine, FromResidue
      <3> QED BY <3>5, <3>8, <3>9 DEF Characters
    <2> QED BY <2>1, <2>2 DEF Steps
  <1> QED BY <1>2, <1>3

-----------------------------------------------------------------------------
(* Before the first step.                                                  *)
LEMMA InitIInv ==
    ASSUME Init
    PROVE  IInv
  <1>0. /\ source \in Seq(STRING) /\ Len(source) \in Nat
        /\ FirstCharacter \in Nat \ {0} /\ FirstCharacter <= Len(source) + 1
        /\ cursor = FirstCharacter
    <2>1. source \in Seq(STRING)
      BY LexerAssumption DEF Init
    <2>2. cursor = FirstCharacter
      BY DEF Init, FirstCharacter
    <2> QED BY <2>1, <2>2, EndsInText
  <1>1. /\ counts \in Counters /\ counts.limit = "none"
        /\ counts.line = 1 /\ counts.column = 1
        /\ counts.total_characters = cursor - 1
        /\ counts.characters_in_line \in Nat
    <2>1. PICK residue \in StackResidue :
             counts = [line |-> 1, column |-> 1, characters_in_line |-> residue,
                       total_characters |-> cursor - 1, limit |-> "none"]
      BY DEF Init
    <2>2. residue \in Nat /\ cursor - 1 \in Nat
      BY <1>0, LexerAssumption
    <2> QED BY <2>1, <2>2 DEF Counters
  <1>2. /\ pc = "loop" /\ tokens = <<>> /\ nesting = 0 /\ base = 0 /\ digits_start = 0
        /\ error.kind = "none"
    BY DEF Init
  <1>3. token_pos \in Positions
    BY DEF Init, Positions
  <1>4. Types
    <2>1. cursor - 1 <= MAX_CHARACTERS_PER_FILE /\ 1 <= MAX_LINES_PER_FILE
      <3>1. cursor \in {1, 2}
        BY DEF Init
      <3> QED BY <3>1, LexerAssumption
    <2>2. cursor \in FirstCharacter .. Len(source) + 1
      BY <1>0
    <2>3. ~Ended /\ tokens \in Seq(TokenType)
      BY <1>2 DEF Ended
    <2> QED BY <1>0, <1>1, <1>2, <1>3, <2>1, <2>2, <2>3 DEF Types
  <1>5. Order
    <2>1. Len(tokens) = 0 /\ 1 .. Len(tokens) = {}
      BY <1>2
    <2> QED BY <1>2, <2>1 DEF Order
  <1>6. Course
    <2>1. CommentAndName(source) => cursor = 1
      BY <1>0, CommentAndNameIs
    <2> QED BY <1>2, <2>1 DEF Course
  <1>7. Range(tokens) = {}
    BY <1>2 DEF Range
  <1>8. LineOf(cursor) = 1
    <2> DEFINE before == {k \in LineEnds : k < cursor}
    <2>1. before = {}
      <3>1. \A k \in LineEnds : k \in FirstCharacter .. Len(source)
        BY <1>0, EndsInText
      <3> QED BY <1>0, <3>1
    <2>2. cursor \in Int
      BY <1>0
    <2>3. LineOf(cursor) = 1 + Cardinality(before)
      BY <1>0, <2>2, EndsBefore
    <2> HIDE DEF before
    <2>4. Cardinality(before) = 0
      BY <2>1, FS_EmptySet
    <2> QED BY <2>3, <2>4
  <1>9. ColumnOf(cursor) = 1
    <2>1. cursor \in FirstCharacter .. Len(source) + 1 /\ cursor \in LineStarts
      BY <1>0 DEF LineStarts
    <2> QED BY <1>0, <2>1, ColumnOfIs
  <1>10. LineStart(cursor) = cursor
    BY <1>0, FirstLineStart
  <1>11. Lines
    BY <1>1, <1>2, <1>7, <1>8 DEF Lines
  <1>12. Columns
    BY <1>1, <1>2, <1>7, <1>9 DEF Columns
  <1>13. Characters
    <2>1. FirstCharacter .. cursor - 1 = {} /\ cursor - LineStart(cursor) = 0
          /\ cursor - FirstCharacter = 0
      BY <1>0, <1>10
    <2>2. InLine \/ FromResidue
      BY <1>1, <2>1 DEF InLine, FromResidue
    <2> QED BY <1>1, <1>2, <2>1, <2>2 DEF Characters
  <1> QED BY <1>4, <1>5, <1>6, <1>11, <1>12, <1>13 DEF IInv

(* What holds of the whole way through any file.                           *)
LEMMA NextIInv ==
    ASSUME IInv, Next
    PROVE  IInv'
  <1>1. Types /\ Order /\ Course /\ Lines /\ Columns /\ Characters
    BY DEF IInv
  <1>2. Steps
    BY <1>1, EachStep
  <1>3. Types'
    BY <1>1, <1>2, StepTypes
  <1>4. Order'
    BY <1>1, <1>2, StepOrder
  <1>5. Course'
    BY <1>1, StepCourse
  <1>6. Lines'
    BY <1>1, <1>2, StepLines
  <1>7. Columns'
    BY <1>1, <1>2, StepColumns
  <1>8. Characters'
    BY <1>1, <1>2, StepCharacters
  <1> QED BY <1>3, <1>4, <1>5, <1>6, <1>7, <1>8 DEF IInv

LEMMA StayIInv ==
    ASSUME IInv, UNCHANGED vars
    PROVE  IInv'
  <1>1. /\ source' = source /\ pc' = pc /\ cursor' = cursor /\ counts' = counts
        /\ token_pos' = token_pos /\ nesting' = nesting /\ base' = base
        /\ digits_start' = digits_start /\ tokens' = tokens /\ error' = error
    BY DEF vars, locals
  <1>2. FirstDigit' = FirstDigit /\ Ended' = Ended /\ AtLimit' = AtLimit
    BY <1>1 DEF FirstDigit, Ended, AtLimit
  <1>3. /\ FirstCharacter' = FirstCharacter
        /\ LineEnds' = LineEnds
        /\ \A i : LineOf(i)' = LineOf(i)
        /\ \A i : LineStart(i)' = LineStart(i)
        /\ \A i : ColumnOf(i)' = ColumnOf(i)
        /\ \A i : Fits(i)' = Fits(i)
        /\ TooManyCharacters' = TooManyCharacters
        /\ TooManyLines' = TooManyLines
        /\ LineTooLong' = LineTooLong
        /\ TabInLastComment' = TabInLastComment
        /\ CommentAndName(source)' = CommentAndName(source)
        /\ CrlfFree' = CrlfFree
        /\ CountedAsWritten' = CountedAsWritten
        /\ \A i : CommentBefore(i)' = CommentBefore(i)
        /\ \A i : TabBefore(i)' = TabBefore(i)
    BY <1>1, SameText, SameBefore
  <1>4. Types'
    <2>1. HasPair(source, "/", "*")' = HasPair(source, "/", "*")
      BY <1>1 DEF HasPair
    <2> QED BY <1>1, <1>2, <1>3, <2>1 DEF IInv, Types
  <1>5. Order'
    BY <1>1, <1>2, <1>3 DEF IInv, Order
  <1>6. Course'
    BY <1>1, <1>3 DEF IInv, Course
  <1>7. Lines'
    BY <1>1, <1>2, <1>3 DEF IInv, Lines
  <1>8. Columns'
    BY <1>1, <1>2, <1>3 DEF IInv, Columns
  <1>9. InLine' = InLine /\ FromResidue' = FromResidue
    BY <1>1, <1>3 DEF InLine, FromResidue
  <1>10. Characters'
    BY <1>1, <1>3, <1>9 DEF IInv, Characters
  <1> QED BY <1>4, <1>5, <1>6, <1>7, <1>8, <1>10 DEF IInv

LEMMA AlwaysIInv == Spec => []IInv
  <1>1. Init => IInv
    BY InitIInv
  <1>2. IInv /\ [Next]_vars => IInv'
    BY NextIInv, StayIInv
  <1> QED BY <1>1, <1>2, PTL DEF Spec

-----------------------------------------------------------------------------
(* Every value has its type: the cursor stays in the file, the counters    *)
(* within their limits, and only a file read to its end becomes tokens.    *)
THEOREM TypeCorrect == Spec => []TypeOK
  <1>1. ASSUME IInv PROVE TypeOK
    <2>1. /\ source \in Seq(STRING) /\ Len(source) \in Nat
          /\ FirstCharacter \in Nat \ {0}
      BY <1>1, EndsInText DEF IInv, Types
    <2>2. Types
      BY <1>1 DEF IInv
    <2>3. cursor \in FirstCharacter .. Len(source) + 1 /\ counts \in Counters
      BY <2>2 DEF Types
    <2>4. cursor \in 1 .. Len(source) + 1
      BY <2>1, <2>3
    <2>5. /\ counts.line \in 1 .. MAX_LINES_PER_FILE
          /\ counts.column \in Nat \ {0}
          /\ counts.total_characters \in 0 .. MAX_CHARACTERS_PER_FILE
      <3>1. /\ counts.line \in Nat \ {0} /\ counts.column \in Nat \ {0}
            /\ counts.total_characters \in Nat
        BY <2>3, FieldTypes
      <3>2. /\ counts.line <= MAX_LINES_PER_FILE
            /\ counts.total_characters <= MAX_CHARACTERS_PER_FILE
        BY <2>2 DEF Types
      <3> QED BY <3>1, <3>2, LexerAssumption
    <2> QED BY <2>2, <2>4, <2>5 DEF Types, Ended, TypeOK
  <1> QED BY <1>1, AlwaysIInv, PTL

(* Each token ends before the next one begins and none but the end of the  *)
(* file is empty: no character is in two tokens.                           *)
THEOREM TokensInOrder == Spec => []Order
  <1>1. IInv => Order
    BY DEF IInv
  <1> QED BY <1>1, AlwaysIInv, PTL

(* In a file without CR LF a token is on the line where the source has it, *)
(* whatever comments, limits and residue of the stack.                     *)
THEOREM LinesWithoutCrlf == Spec => [](~HasPair(source, "\r", "\n") => LinesTrue)
  <1>1. IInv => (~HasPair(source, "\r", "\n") => LinesTrue)
    BY DEF IInv, Lines, CrlfFree, LinesTrue
  <1> QED BY <1>1, AlwaysIInv, PTL

(* In a file that the code counts as written a token is on the line, and   *)
(* in the column, where the source has it.                                 *)
THEOREM PositionsAsCounted == Spec => []CountedPositionsTrue
  <1>1. ASSUME IInv PROVE CountedPositionsTrue
    <2>1. SUFFICES ASSUME CountedAsWritten PROVE PositionsTrue
      BY DEF CountedPositionsTrue
    <2>2. CrlfFree
      BY <2>1 DEF CountedAsWritten, CrlfFree
    <2>3. LinesTrue
      BY <1>1, <2>2 DEF IInv, Lines, LinesTrue
    <2> QED BY <1>1, <2>1, <2>3 DEF IInv, Columns, PositionsTrue
  <1> QED BY <1>1, AlwaysIInv, PTL

(* A file that the code counts as written becomes tokens only if it keeps  *)
(* the three limits, and is refused for a limit only if it exceeds it, but *)
(* for a first line that is counted from the residue of the stack.         *)
THEOREM LimitsAsCounted == Spec => []CountedLimitsExact
  <1>1. ASSUME IInv PROVE CountedLimitsExact
    <2>1. SUFFICES ASSUME CountedAsWritten PROVE LimitsExact \/ CountedFromResidue
      BY DEF CountedLimitsExact
    <2>2. CrlfFree
      BY <2>1 DEF CountedAsWritten, CrlfFree
    <2>3. Types /\ Order
      BY <1>1 DEF IInv
    <2>4. /\ source \in Seq(STRING) /\ Len(source) \in Nat /\ FirstCharacter \in Nat \ {0}
          /\ LineEnds \subseteq FirstCharacter .. Len(source)
          /\ counts.line \in Nat /\ counts.total_characters \in Nat
      BY <2>3, EndsInText, FieldTypes DEF Types
    <2>5. /\ counts.total_characters = cursor - 1
          /\ \A i \in FirstCharacter .. cursor - 1 : Fits(i)
          /\ error.kind = "CharacterLimitExceeded" => TooManyCharacters
          /\ error.kind = "ColumnLimitExceeded" => LineTooLong \/ FromResidue
      BY <1>1, <2>1 DEF IInv, Characters
    <2>6. counts.line = LineOf(cursor) /\ (error.kind = "LineLimitExceeded" => TooManyLines)
      BY <1>1, <2>2 DEF IInv, Lines
    <2>7. ASSUME pc = "tokens"
          PROVE  ~TooManyCharacters /\ ~TooManyLines /\ ~LineTooLong
      <3>1. cursor = Len(source) + 1
        BY <2>3, <2>7 DEF Order, AtLimit
      <3>2. ~TooManyCharacters
        <4>1. counts.total_characters = Len(source)
          BY <2>4, <2>5, <3>1
        <4> QED BY <2>3, <2>4, <4>1, LexerAssumption DEF Types, TooManyCharacters
      <3>3. ~TooManyLines
        <4>1. counts.line = Cardinality(LineEnds) + 1
          BY <2>4, <2>6, <3>1, LastLine
        <4>2. counts.line <= MAX_LINES_PER_FILE
          BY <2>3 DEF Types
        <4>3. ~(counts.line > MAX_LINES_PER_FILE)
          BY <2>4, <4>2, LexerAssumption
        <4> QED BY <4>1, <4>3 DEF TooManyLines
      <3>4. ~LineTooLong
        <4>1. SUFFICES ASSUME NEW k \in LineStarts, NEW i \in k .. Len(source),
                              LineStart(i) = k, i - k + 1 > MAX_CHARACTERS_PER_LINE
                       PROVE  FALSE
          BY DEF LineTooLong
        <4>2. k \in Nat /\ k >= FirstCharacter
          <5>1. ASSUME NEW e \in LineEnds PROVE e + 1 \in Nat /\ e + 1 >= FirstCharacter
            BY <2>4
          <5> QED BY <2>4, <5>1 DEF LineStarts
        <4>3. i \in FirstCharacter .. cursor - 1
          BY <2>4, <3>1, <4>2
        <4>4. i - k + 1 <= MAX_CHARACTERS_PER_LINE
          BY <2>5, <4>1, <4>3 DEF Fits
        <4> QED BY <2>4, <4>1, <4>2, <4>3, <4>4, LexerAssumption
      <3> QED BY <3>2, <3>3, <3>4
    <2>8. error.kind = "ColumnLimitExceeded" /\ FromResidue => CountedFromResidue
      BY DEF FromResidue, CountedFromResidue
    <2> QED BY <2>5, <2>6, <2>7, <2>8 DEF LimitsExact
  <1> QED BY <1>1, AlwaysIInv, PTL
=============================================================================
