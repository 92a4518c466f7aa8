------------------------- MODULE HierarchicalGrammar -------------------------
(***************************************************************************)
(* The hierarchical grammar of spec/parsing.md: the reference the parser   *)
(* is compared with.  A rule is the set of the sentences it derives, as    *)
(* sequences of TokenKinds, with at most Nesting parentheses around an     *)
(* expression.                                                             *)
(***************************************************************************)
EXTENDS Naturals, SequencesExt

CONSTANT Nesting

Then(left, right) == {l \o r : l \in left, r \in right}
Token(kind) == {<<kind>>}

expr == LET nested[n \in 0 .. Nesting] ==
                Token("Identifier") \cup Token("IntLiteral") \cup
                (IF n = 0 THEN {}
                 ELSE Then(Then(Token("LeftParen"), nested[n - 1]), Token("RightParen")))
        IN nested[Nesting]
type == expr

return_stmt == Then(Token("Return"), expr)
stmt == return_stmt
block == Then(Then(Token("LeftCurly"), stmt), Then(Token("Semicolon"), Token("RightCurly")))

return_type == Then(Token("ThinArrow"), type)
function_item_params == Then(Token("LeftParen"), Token("RightParen"))
function_item_signature == Then(function_item_params, return_type)
function_item == Then(Then(Token("Def"), Token("Identifier")),
                      Then(function_item_signature, block))

item == function_item
file == Then(item, Token("EndOfFile"))

(* What a file can begin with.                                             *)
Viable == UNION {{SubSeq(s, 1, n) : n \in 0 .. Len(s)} : s \in file}
=============================================================================
