----------------------------- MODULE MCFrontend -----------------------------
(* Lists of tokens: the sentences of the grammar, and each of their        *)
(* beginnings with every other token after it.                             *)
EXTENDS Frontend, MCCompilation

(* Tokens: the name of the function, of its return type and of the value   *)
(* differ, and so do literals.                                             *)
AstString(string) == [string |-> string]
Spelled(kind, value) == [kind |-> kind, value |-> value]
Tokenized(kinds) ==
    LET Inside(k) == \E j \in 1 .. k - 1 : kinds[j] = "LeftCurly"
        TokenValue(k) == CASE kinds[k] = "Identifier" /\ k = 2 -> AstString("f")
                           [] kinds[k] = "Identifier" /\ k > 2 ->
                                AstString(IF Inside(k) THEN "undeclared" ELSE "Int32")
                           [] kinds[k] = "IntLiteral" ->
                                [base |-> 10, digits |-> <<IF Inside(k) THEN 7 ELSE 1, 2>>]
                           [] OTHER -> NoValue
    IN [k \in DOMAIN kinds |-> Spelled(kinds[k], TokenValue(k))]

(* The kinds of the grammar, and one for all the others.                   *)
TokenKinds == {"Def", "Identifier", "LeftParen", "RightParen", "ThinArrow", "LeftCurly",
               "Return", "IntLiteral", "Semicolon", "RightCurly", "Comma", "EndOfFile"}

Beginnings == UNION {{SubSeq(s, 1, n) : n \in 0 .. Len(s) - 1} : s \in Sentences}
Faulty == {p \o (IF k = "EndOfFile" THEN <<k>> ELSE <<k, "EndOfFile">>) :
              p \in Beginnings, k \in TokenKinds}

(* An item of MCCompilation as it is spelled.                              *)
Leaf(e) == IF e.kind = "Name" THEN Spelled("Identifier", AstString(e.name))
           ELSE Spelled("IntLiteral", [base |-> e.base, digits |-> e.digits])
TokensOf(i) ==
    [Tokenized(<<"Def", "Identifier", "LeftParen", "RightParen", "ThinArrow", "IntLiteral",
                 "LeftCurly", "Return", "IntLiteral", "Semicolon", "RightCurly", "EndOfFile">>)
        EXCEPT ![6] = Leaf(i.return_type), ![9] = Leaf(i.value)]

Command(c, list) == [command |-> c, tokens |-> list]
AllInputs == {Command("parse", Tokenized(kinds)) : kinds \in Faulty \cup Sentences}
             \cup {Command(c, TokensOf(i)) : c \in {"parse", "check"}, i \in FewItems}
             \cup {Command("compile", TokensOf(i)) : i \in AllItems}
=============================================================================
